\* Samples every two ticks, a clock that is one tick off, three of four metrics.
SPECIFICATION Spec
CONSTANTS
  IntervalMs = 2
  Threshold <- Thresholds
  MaxTime = 8
  MaxStep = 1
  MaxFailures = 4
INVARIANTS DelayIsBlockedTime FailuresSampledOnce
CHECK_DEADLOCK FALSE
