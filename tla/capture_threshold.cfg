\* A threshold above the 20 matches (here two) of the high severity.
SPECIFICATION Spec
CONSTANTS
  f1 = f1  f2 = f2  overload = overload
  Fingerprints = {f1, overload}
  OverloadFp = overload
  Kinds = {"error", "process-monitor"}
  Thresholds = {3}
  HighCount = 2
  CooldownMs = 1
  MaxGroups = 2
  OverloadCooldownMs = 2
  MaxPendingAlerts = 1
  Epoch = 3
  MaxTime = 1
  MaxEvents = 3
  WindowMs = 2
  MaxCalls = 3
  MaxDepth = 1
PROPERTY ThresholdIsRequired
CHECK_DEADLOCK FALSE
