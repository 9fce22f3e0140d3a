---------------------------- MODULE HttpCapture ----------------------------
(***************************************************************************)
(* One HTTP request and what the adapters of src/integrations report of    *)
(* it: the Express error handler, the NestJS exception filter and the      *)
(* status observer.  They share nothing but the response's listeners and   *)
(* the mark of the request in express/state.ts.                            *)
(*                                                                         *)
(* The response is Node's: its headers are sent with the first chunk or by *)
(* end(), and the status that is sent with them is final, whatever is      *)
(* assigned to statusCode later.  After end() "finish" is emitted, then    *)
(* "close"; a response whose connection is lost emits "close" alone.       *)
(* emit() calls a copy of the listeners, one by one.                       *)
(***************************************************************************)
EXTENDS NestFilters

CONSTANTS Errors,      \* errors passed to the adapters for this request
          NestErrors,  \* those that reach the filters of NestJS
          Observer     \* the listener of the status observer

ASSUME HttpAssumption == NestErrors \subseteq Errors /\ Observer \notin Errors

VARIABLES
  nest,                \* the global filters, and which of them match
  status,              \* response.statusCode: "5xx" stands for an observed one
  sentStatus,          \* the status sent with the headers, or "none" yet
  ended, closed,       \* response.writableEnded; "close" has been emitted
  finished,            \* "finish" has been emitted
  onFinish, onClose,   \* the listeners of the response
  emitting,            \* the copy of the listeners that emit() still has to call
  marked,              \* the request is in capturedRequests
  handled,             \* the errors passed to an adapter
  captured,            \* error -> `captured` of its error handler
  errorReports,        \* error -> its captureException calls
  reportedStatus,      \* error -> the status its report gives
  answering,           \* history: error -> the filter that answers it
  reassigned,          \* history: statusCode was changed after the headers
  statusReports        \* the captureEvent calls of the observer

responseVars == <<status, sentStatus, reassigned, ended, closed, finished>>
listenerVars == <<onFinish, onClose, emitting>>
reportVars == <<captured, errorReports, reportedStatus>>
errorVars == <<nest, handled, answering>>
vars == <<errorVars, responseVars, listenerVars, marked, reportVars, statusReports>>

Statuses == {"2xx", "4xx", "5xx"}
Nobody == "nobody"
HeadersSent == sentStatus # "none"

ASSUME NobodyAssumption == Nobody \notin Filters \cup {Fallback}

Init ==
  /\ nest \in Setups
  /\ status = "2xx" /\ sentStatus = "none" /\ reassigned = FALSE
  /\ ended = FALSE /\ closed = FALSE /\ finished = FALSE
  /\ onFinish = <<>> /\ onClose = <<>> /\ emitting = <<>>
  /\ marked = FALSE
  /\ handled = {}
  /\ captured = [e \in Errors |-> FALSE]
  /\ errorReports = [e \in Errors |-> 0]
  /\ reportedStatus = [e \in Errors |-> "none"]
  /\ answering = [e \in Errors |-> Nobody]
  /\ statusReports = 0

Off(listeners, l) == RemoveFirst(listeners, l)
ApplicationRuns == emitting = <<>>

-----------------------------------------------------------------------------
(* The adapters.                                                           *)

\* wotchiStatusObserver: the middleware waits for "finish".
Observe ==
  /\ ApplicationRuns
  /\ \A i \in DOMAIN onFinish : onFinish[i] # Observer
  /\ ~finished
  /\ onFinish' = Append(onFinish, Observer)
  /\ UNCHANGED <<errorVars, responseVars, onClose, emitting, marked, reportVars,
                 statusReports>>

\* Mutant of CaptureAfterResponse: `captured` is not set and both listeners stay.
CaptureAgain(e) ==
  /\ errorReports' = [errorReports EXCEPT ![e] = @ + 1]
  /\ reportedStatus' = [reportedStatus EXCEPT ![e] = status]
  /\ UNCHANGED <<captured, onFinish, onClose>>

\* captureAfterResponse: reports once, and gives up both listeners.
CaptureAfterResponse(e) ==
  IF captured[e]
  THEN UNCHANGED <<reportVars, onFinish, onClose>>
  ELSE /\ captured' = [captured EXCEPT ![e] = TRUE]
       /\ onFinish' = Off(onFinish, e)
       /\ onClose' = Off(onClose, e)
       /\ errorReports' = [errorReports EXCEPT ![e] = @ + 1]
       /\ reportedStatus' = [reportedStatus EXCEPT ![e] = status]

\* Mutant of MarkExpressErrorCaptured: the request is not marked.
LeaveUnmarked == UNCHANGED marked

MarkExpressErrorCaptured == marked' = TRUE

\* Mutants of AwaitResponse: the error is reported at once; only "finish" is
\* awaited.
ReportAtOnce(e) == CaptureAfterResponse(e)
AwaitFinish(e) == onFinish' = Append(onFinish, e) /\ UNCHANGED <<onClose, reportVars>>

AwaitResponse(e) ==
  /\ onFinish' = Append(onFinish, e)
  /\ onClose' = Append(onClose, e)
  /\ UNCHANGED reportVars

\* createExpressErrorHandler: marks the request, then waits for the response.
HandleError(e) ==
  /\ ApplicationRuns
  /\ e \notin handled \cup NestErrors
  /\ handled' = handled \cup {e}
  /\ MarkExpressErrorCaptured
  /\ IF ended THEN CaptureAfterResponse(e) ELSE AwaitResponse(e)
  /\ UNCHANGED <<nest, answering, responseVars, emitting, statusReports>>

\* captureWotchiNestException: marks the request and reports at once, with a
\* status it predicts.
CaptureException(e) ==
  /\ MarkExpressErrorCaptured
  /\ errorReports' = [errorReports EXCEPT ![e] = @ + 1]
  /\ reportedStatus' = [reportedStatus EXCEPT ![e] = PredictedStatus(nest, status)]

\* An exception reaches NestJS: Wotchi captures it first if it passes there.
\* A filter of the application answers on its own, now or later; the default
\* answer ends the response, and is no answer if the headers have been sent.
CatchException(e) ==
  /\ ApplicationRuns
  /\ e \in NestErrors \ handled
  /\ handled' = handled \cup {e}
  /\ IF Captured(nest) THEN CaptureException(e)
     ELSE UNCHANGED <<marked, errorReports, reportedStatus>>
  /\ IF Answering(nest) = Fallback
     THEN /\ ended' = TRUE
          /\ status' = FallbackStatus(nest, status, HeadersSent)
          /\ sentStatus' = IF HeadersSent THEN sentStatus ELSE status'
     ELSE UNCHANGED <<ended, status, sentStatus>>
  /\ answering' = IF Answering(nest) = Fallback /\ HeadersSent THEN answering
                  ELSE [answering EXCEPT ![e] = Answering(nest)]
  /\ UNCHANGED <<nest, reassigned, finished, closed, listenerVars, captured, statusReports>>

\* The "finish" listener of the status observer.
ObserveStatus ==
  statusReports' = IF ~marked /\ status = "5xx" THEN statusReports + 1
                   ELSE statusReports

\* emit() calls the next listener.
CallListener ==
  /\ emitting # <<>>
  /\ emitting' = Tail(emitting)
  /\ IF Head(emitting) = Observer
     THEN /\ ObserveStatus
          /\ onFinish' = Off(onFinish, Observer)
          /\ UNCHANGED <<onClose, reportVars>>
     ELSE CaptureAfterResponse(Head(emitting)) /\ UNCHANGED statusReports
  /\ UNCHANGED <<errorVars, responseVars, marked>>

-----------------------------------------------------------------------------
(* The application and Node's response.                                    *)

\* statusCode can be assigned at any time; after the headers to no effect, and
\* there (bound) it is changed once.
SetStatus ==
  /\ ApplicationRuns /\ ~reassigned
  /\ status' \in Statuses
  /\ reassigned' = (reassigned \/ (HeadersSent /\ status' # sentStatus))
  /\ UNCHANGED <<sentStatus, ended, closed, finished, listenerVars, marked, errorVars,
                 reportVars, statusReports>>

\* The first chunk is written, or the headers are flushed.
SendHeaders ==
  /\ ApplicationRuns /\ ~HeadersSent
  /\ sentStatus' = status
  /\ UNCHANGED <<status, reassigned, ended, closed, finished, listenerVars, marked,
                 errorVars, reportVars, statusReports>>

End ==
  /\ ApplicationRuns /\ ~ended
  /\ ended' = TRUE
  /\ sentStatus' = IF HeadersSent THEN sentStatus ELSE status
  /\ UNCHANGED <<status, reassigned, closed, finished, listenerVars, marked, errorVars,
                 reportVars, statusReports>>

EmitFinish ==
  /\ ApplicationRuns /\ ended /\ ~finished /\ ~closed
  /\ finished' = TRUE
  /\ emitting' = onFinish
  /\ UNCHANGED <<status, sentStatus, reassigned, ended, closed, onFinish, onClose, marked, errorVars,
                 reportVars, statusReports>>

EmitClose ==
  /\ ApplicationRuns /\ ~closed
  /\ closed' = TRUE
  /\ emitting' = onClose
  /\ UNCHANGED <<status, sentStatus, reassigned, ended, finished, onFinish, onClose, marked, errorVars,
                 reportVars, statusReports>>

Next ==
  \/ Observe \/ CallListener
  \/ \E e \in Errors : HandleError(e) \/ CatchException(e)
  \/ SetStatus \/ SendHeaders \/ End \/ EmitFinish \/ EmitClose

\* Node closes every response in the end, and calls the listeners.
Fairness == WF_vars(CallListener) /\ WF_vars(EmitClose)

Spec == Init /\ [][Next]_vars /\ Fairness

-----------------------------------------------------------------------------
(* Properties.                                                             *)

\* The errors that pass an adapter of Wotchi.
Watched == IF Captured(nest) THEN handled ELSE handled \ NestErrors

\* An error is reported at most once although "finish", "close" and the
\* handler itself may each report it.
ErrorReportedOnce == \A e \in Errors : errorReports[e] <= 1

\* An error handled before "finish" is emitted is not also reported as a
\* status: the mark is set before any listener can run, in whichever order
\* the observer and the error handler have attached theirs.
NoStatusDuplicate ==
  [][statusReports' > statusReports => Watched = {}]_vars

\* A report that waited for the response gives the status that was sent, not
\* the one the response had when the error was handled, unless statusCode was
\* changed after the headers.  So does the report of an HttpException that gets
\* the default answer, which is made before it.  Of other exceptions, and of an
\* HttpException that comes after the headers and so gets no answer, the NestJS
\* filter can only guess the status.
ReportsFinalStatus ==
  finished => \A e \in Errors :
    \/ reportedStatus[e] \in {"none", sentStatus}
    \/ e \notin NestErrors /\ reassigned
    \/ e \in NestErrors /\ ~(answering[e] = Fallback /\ nest.kind = "HttpException")

\* Wotchi changes no answer: of several filters before and after its own, the
\* one that answers is the one that would answer without it.
FilterIsTransparent ==
  \A e \in NestErrors : answering[e] \in {Nobody, AnsweringWithoutWotchi(nest)}

\* An error that passes an adapter while the connection is open is reported,
\* whether the response is completed or the connection is lost.
ErrorIsReported ==
  \A e \in Errors : e \in Watched /\ ~closed ~> errorReports[e] = 1

\* "The Express error handler and NestJS exception filter mark captured errors
\* so a `5xx` response is not reported twice" (docs/API.md:167-168).
NotReportedTwice ==
  statusReports + (IF \E e \in Errors : errorReports[e] > 0 THEN 1 ELSE 0) <= 1
=============================================================================
