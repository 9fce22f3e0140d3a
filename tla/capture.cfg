\* Two groups and the overload signal in a store of two groups.
SPECIFICATION Spec
CONSTANTS
  f1 = f1  f2 = f2  overload = overload
  Fingerprints = {f1, f2, overload}
  OverloadFp = overload
  Kinds = {"error"}
  Thresholds = {2}
  HighCount = 3
  CooldownMs = 1
  MaxGroups = 2
  OverloadCooldownMs = 2
  MaxPendingAlerts = 1
  Epoch = 3
  MaxTime = 2
  MaxEvents = 3
  WindowMs = 2
  MaxCalls = 3
  MaxDepth = 2
INVARIANT DiagnosticsBalance
PROPERTIES OneAlertPerCooldown AlertIsEarned AlertIsDue
SYMMETRY Groups
CHECK_DEADLOCK FALSE
