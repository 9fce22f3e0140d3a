---------------------------- MODULE HttpDelivery ----------------------------
(***************************************************************************)
(* One send() of a built-in notifier: the retry loop of                    *)
(* src/notifiers/webhook-http.ts or src/notifiers/telegram-http.ts, and    *)
(* the HTTP exchange it waits for.  Each action is one event of the loop   *)
(* (a timer, a lookup, an event of the request or response) with all the   *)
(* continuations it resumes.                                               *)
(*                                                                         *)
(* The receiver decides what it makes of a request when it has it; its     *)
(* answer may come late, in part, or never.                                *)
(***************************************************************************)
EXTENDS Naturals, Sequences, FiniteSets

CONSTANT MaxChunks  \* MAX_RESPONSE_BYTES, in chunks of the body

ASSUME DeliveryAssumption == MaxChunks \in Nat

VARIABLES
  transport,   \* "webhook" or "telegram"
  maxRetries,  \* options.maxRetries of the webhook
  step,        \* where send() is: "start", "attempt", "lookup", "request",
               \* "wait" or "done"
  outcome,     \* how the promise of send() settles
  socket,      \* the exchange of the last attempt
  size,        \* chunks of its response body
  served,      \* what the receiver made of each request it was sent
  retried      \* the answers after which send() has tried again

vars == <<transport, maxRetries, step, outcome, socket, size, served, retried>>
optionVars == <<transport, maxRetries>>

Statuses == {"2xx", "429", "5xx", "other", "invalid"}
Pending == "pending"
Webhook == transport = "webhook"

Init ==
  /\ transport \in {"webhook", "telegram"}
  /\ maxRetries \in {0, 1}
  /\ step = "start"
  /\ outcome = "none"
  /\ socket = "none"
  /\ size = 0
  /\ served = <<>>
  /\ retried = <<>>

Settle(result) == step' = "done" /\ outcome' = result
Retries(statuses) == Cardinality({i \in DOMAIN retried : retried[i] \in statuses})

-----------------------------------------------------------------------------
(* The loop of send().                                                     *)

Start ==
  /\ step = "start"
  /\ step' = "attempt"
  /\ UNCHANGED <<optionVars, outcome, socket, size, served, retried>>

\* The payload builder throws.
PayloadFails ==
  /\ step = "start" /\ Webhook
  /\ Settle("failed")
  /\ UNCHANGED <<optionVars, socket, size, served, retried>>

OpenRequest ==
  /\ step' = "request"
  /\ socket' = "open"
  /\ size' = 0
  /\ served' = Append(served, Pending)

\* requestWithTimeout() arms its timer; the webhook first looks its host up.
Attempt ==
  /\ step = "attempt"
  /\ \/ Webhook /\ step' = "lookup" /\ UNCHANGED <<socket, size, served>>
     \/ ~Webhook /\ OpenRequest
  /\ UNCHANGED <<optionVars, outcome, retried>>

LookupResolves ==
  /\ step = "lookup"
  /\ OpenRequest
  /\ UNCHANGED <<optionVars, outcome, retried>>

\* The lookup fails or times out, or it finds a private address.
LookupRejected ==
  /\ step = "lookup"
  /\ Settle("failed")
  /\ UNCHANGED <<optionVars, socket, size, served, retried>>

WebhookRetries(status) == status \in {"429", "5xx"} /\ Len(retried) < maxRetries
TelegramRetries(status) ==
  \/ status = "429" /\ Retries({"429"}) = 0
  \/ status = "5xx" /\ Retries({"5xx"}) = 0
Again(status) == IF Webhook THEN WebhookRetries(status) ELSE TelegramRetries(status)

\* Telegram repeats a server error at once; the other retries wait.
Delayed(status) == Webhook \/ status = "429"

\* Mutant of Resume: every 2xx answer is a success.
ResumeUnchecked(status) ==
  IF status \in {"2xx", "invalid"} THEN Settle("sent") /\ UNCHANGED retried
  ELSE Settle("failed") /\ UNCHANGED retried

\* send() resumes with a complete answer.
Resume(status) ==
  IF status = "2xx" THEN Settle("sent") /\ UNCHANGED retried
  ELSE IF Again(status)
  THEN /\ retried' = Append(retried, status)
       /\ step' = IF Delayed(status) THEN "wait" ELSE "attempt"
       /\ UNCHANGED outcome
  ELSE Settle("failed") /\ UNCHANGED retried

WaitEnds ==
  /\ step = "wait"
  /\ step' = "attempt"
  /\ UNCHANGED <<optionVars, outcome, socket, size, served, retried>>

\* The timer of requestWithTimeout(): the webhook aborts its request.
TimesOut ==
  /\ step \in {"lookup", "request"}
  /\ Settle("failed")
  /\ socket' = IF Webhook /\ socket = "open" THEN "destroyed" ELSE socket
  /\ UNCHANGED <<optionVars, size, served, retried>>

-----------------------------------------------------------------------------
(* The exchange.  It may outlive send(), whose promise has settled then.   *)

Ignored == UNCHANGED <<step, outcome, retried>>

\* Mutant of Reject: an attempt without an answer is made once more.
RejectTriesAgain ==
  IF step = "request" /\ retried = <<>>
  THEN step' = "attempt" /\ retried' = <<"5xx">> /\ UNCHANGED outcome
  ELSE Ignored

Reject == IF step = "request" THEN Settle("failed") /\ UNCHANGED retried ELSE Ignored

Answered == served[Len(served)] # Pending

ReceiverDecides ==
  /\ socket = "open" /\ ~Answered
  /\ \E status \in Statuses :
       /\ status = "invalid" => ~Webhook  \* 2xx, but no "ok": true in the body
       /\ served' = [served EXCEPT ![Len(served)] = status]
  /\ UNCHANGED <<optionVars, step, outcome, socket, size, retried>>

\* A chunk of the body: too many of them destroy the request.
Data ==
  /\ socket = "open" /\ Answered
  /\ size' = size + 1
  /\ \/ size < MaxChunks /\ Ignored /\ UNCHANGED socket
     \/ size >= MaxChunks /\ socket' = "destroyed" /\ Reject
  /\ UNCHANGED <<optionVars, served>>

ResponseEnds ==
  /\ socket = "open" /\ Answered
  /\ socket' = "over"
  /\ IF step = "request" THEN Resume(served[Len(served)]) ELSE Ignored
  /\ UNCHANGED <<optionVars, size, served>>

\* An "error" event of the request or of the response.
ConnectionFails ==
  /\ socket = "open"
  /\ socket' = "destroyed"
  /\ Reject
  /\ UNCHANGED <<optionVars, size, served>>

\* Mutant of SocketIdle: only send() is told.
SocketIdleKept ==
  /\ socket = "open" /\ step = "request"
  /\ Reject
  /\ UNCHANGED <<optionVars, socket, size, served>>

\* request.setTimeout(): nothing has moved on the socket for timeoutMs.
SocketIdle ==
  /\ socket = "open"
  /\ socket' = "destroyed"
  /\ Reject
  /\ UNCHANGED <<optionVars, size, served>>

Exchange ==
  \/ Attempt \/ LookupResolves \/ LookupRejected \/ WaitEnds \/ TimesOut
  \/ ReceiverDecides \/ Data \/ ResponseEnds \/ ConnectionFails \/ SocketIdle

\* Timers fire and continuations run.  A socket on which data keeps coming is
\* not idle, but the body is bounded, so it is idle in the end.
ExchangeFairness ==
  WF_vars(Attempt) /\ WF_vars(WaitEnds) /\ WF_vars(TimesOut) /\ WF_vars(SocketIdle)

-----------------------------------------------------------------------------
(* Properties.                                                             *)

\* The receiver accepts an alert at most once for each send(): what it may
\* have accepted, but has not answered completely and in time, is not sent
\* again.
AcceptedAtMostOnce ==
  Cardinality({i \in DOMAIN served : served[i] = "2xx"}) <= 1

\* send() resolves only if the receiver has accepted its last request, so the
\* queue counts no delivery that did not happen.
SentMeansAccepted ==
  outcome = "sent" => socket = "over" /\ served[Len(served)] = "2xx"

\* send() settles, and the exchange it waited for ends, whatever the receiver
\* does: it may stall before, within or after the body.
SendSettles == <>[](outcome # "none" /\ socket # "open")
=============================================================================
