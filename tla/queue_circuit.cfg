\* Two notifiers that fail on their own, a wall clock that moves both ways, and
\* one testAlert(), flush() or close() call beside captured alerts.
SPECIFICATION TestSpec
CONSTANTS
  n1 = n1  n2 = n2  w1 = w1  w2 = w2
  Notifiers = {n1, n2}
  NotifierOf <- TwoLanes
  MaxPendingAlerts = 1
  FailureThreshold = 2
  CooldownMs = 1
  Waiters = {w1}
  MaxJobs = 4
  MaxDropped = 1
  MaxTime = 2
INVARIANTS Accounting SentIsTrue
PROPERTIES OpenCircuitIsRespected HealthyNotifierIsCalled
