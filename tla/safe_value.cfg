\* Graphs of two nodes, at most two entries in each, tight limits.
SPECIFICATION Spec
CONSTANTS
  Nodes = {n1, n2}
  Root = n1
  Leaf = Leaf
  Size = 2
  Keys = {"plain", "other", "secret", "unsafe"}
  UnsafeKeys = {"unsafe"}
  SecretKeys = {"secret"}
  Truncations <- MCTruncations
  KeyLimits = {1, 2, 3, 4, 5}
  DepthLimits = {1, 2, 3}
INVARIANTS WithinLimits SecretsWithheld CutIsVisible SmallValuesSurvive MatchesRecursion
CHECK_DEADLOCK FALSE
