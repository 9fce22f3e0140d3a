\* One notifier, two calls of flush()/close(), a queue of two alerts.
SPECIFICATION FairSpec
CONSTANTS
  n1 = n1  n2 = n2  w1 = w1  w2 = w2
  Notifiers = {n1}
  NotifierOf <- OneLane
  MaxPendingAlerts = 1
  FailureThreshold = 2
  CooldownMs = 1
  Waiters = {w1, w2}
  MaxJobs = 3
  MaxDropped = 1
  MaxTime = 2
INVARIANTS NoLostWakeup FlushCovers ShutdownIsFinal
PROPERTIES ImplementsLog ClosedRunsDry
