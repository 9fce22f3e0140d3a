\* Two unusual settings of each factory; two captures of a group.
SPECIFICATION Spec
CONSTANTS
  Options <- MCOptions
  RuleLists <- MCRuleLists
  Captures <- MCCaptures
  MaxCaptures = 2
  TagLimit = 8
  DefaultMaxKeys = 12
INVARIANTS SettingsAreUsable CopySurvives IgnoredRouteStaysQuiet
CHECK_DEADLOCK FALSE
