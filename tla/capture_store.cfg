\* Four captures one by one in a store of two groups, every match alerts.
SPECIFICATION Spec
CONSTANTS
  f1 = f1  f2 = f2  overload = overload
  Fingerprints = {f1, f2, overload}
  OverloadFp = overload
  Kinds = {"error"}
  Thresholds = {1}
  HighCount = 2
  CooldownMs = 1
  MaxGroups = 2
  OverloadCooldownMs = 1
  MaxPendingAlerts = 1
  Epoch = 3
  MaxTime = 1
  MaxEvents = 1
  WindowMs = 1
  MaxCalls = 4
  MaxDepth = 1
INVARIANT KeepsMostRecent
PROPERTY OneSignalPerCooldown
SYMMETRY Groups
CHECK_DEADLOCK FALSE
