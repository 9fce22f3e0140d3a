\* An error that reaches the handler after the response has finished.
SPECIFICATION Spec
CONSTANTS
  e1 = e1  e2 = e2  e3 = e3  f1 = f1  f2 = f2
  Errors = {e1, e2, e3}
  NestErrors = {e3}
  Observer = Observer
  Filters = {f1, f2}
  WotchiFilter = WotchiFilter
  Fallback = Fallback
INVARIANT NotReportedTwice
CHECK_DEADLOCK FALSE
