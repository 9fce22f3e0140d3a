\* Two errors of Express and one of NestJS in one request, an observer, two
\* filters, and a connection that may be lost.
SPECIFICATION Spec
CONSTANTS
  e1 = e1  e2 = e2  e3 = e3  f1 = f1  f2 = f2
  Errors = {e1, e2, e3}
  NestErrors = {e3}
  Observer = Observer
  Filters = {f1, f2}
  WotchiFilter = WotchiFilter
  Fallback = Fallback
INVARIANTS ErrorReportedOnce ReportsFinalStatus FilterIsTransparent
PROPERTIES NoStatusDuplicate ErrorIsReported
CHECK_DEADLOCK FALSE
