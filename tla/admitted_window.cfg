\* One capture and half a token a tick; five events wrap a ring of three, and
\* fill it when the clock is set back.
SPECIFICATION CapturesSpec
CONSTANTS
  MaxEventsPerSecond = 500
  Burst = 1
  MaxTime = 4
  MaxForward = 5
  MaxGranted = 4
  MaxEvents = 3
  WindowMs = 2
  MaxExempt = 1
INVARIANTS CountIsExact TotalBound WindowWithinBudget
PROPERTIES ImplementsEventLog RefusesOnlyOverBudget
CHECK_DEADLOCK FALSE
