----------------------------- MODULE AlertText -----------------------------
(***************************************************************************)
(* How a built-in notifier makes an alert fit what its receiver takes: the *)
(* loops of src/notifiers/telegram-format.ts, which leave out actions,     *)
(* then the end of the summary, then nearly everything, and the smaller    *)
(* payload of the webhook.  A text is what it is to these loops: the       *)
(* length of its first n characters when they are encoded.                 *)
(***************************************************************************)
EXTENDS Naturals, Sequences, Functions

CONSTANTS
  Alerts,         \* the alerts to send
  Escaped(_, _),  \* text, n |-> length of escapeHtml(text.slice(0, n))
  Json(_, _),     \* text, n |-> bytes of text.slice(0, n) in a JSON document
  Length(_)       \* text |-> its length

UpTo(length, most) == length \in Nat /\ length <= most

\* Of the encodings it only matters how much they can expand: & is written as
\* five characters, a control character takes six bytes in JSON.
ASSUME EncodingAssumption ==
  \A alert \in Alerts :
    /\ \A text \in {alert.title, alert.service, alert.environment,
                    alert.firstSeenAt, alert.lastSeenAt} :
         UpTo(Escaped(text, 100), 500)
    /\ UpTo(Json(alert.title, 300), 1800)
    /\ UpTo(Json(alert.summary, 2000), 12000)
    /\ \A text \in {alert.fingerprint, alert.service, alert.environment} :
         UpTo(Json(text, 200), 1200)
    /\ UpTo(alert.occurrences, 25)  \* the digits of a number

MAX_MESSAGE_LENGTH == 4096
MAX_SUMMARY_LENGTH == 2000
MAX_PAYLOAD_BYTES == 32768

AtMost(n, limit) == IF n < limit THEN n ELSE limit

\* render(): the fixed words and line breaks, and the texts between them.
Frame(alert, limit) ==
  91 + 8 + alert.occurrences
    + Escaped(alert.title, limit) + Escaped(alert.service, limit)
    + Escaped(alert.environment, limit)
    + Escaped(alert.firstSeenAt, 100) + Escaped(alert.lastSeenAt, 100)

ActionText(alert, n) ==
  IF n = 0 THEN 22  \* "- No suggested checks."
  ELSE SumFunction([i \in 1..n |-> 2 + Escaped(alert.actions[i], 600)]) + n - 1

Context(alert) == SumFunction([i \in DOMAIN alert.context |-> 1 + Escaped(alert.context[i], 900)])

Rendered(alert, actions, summary) ==
  Frame(alert, 300) + Context(alert)
    + ActionText(alert, actions) + Escaped(alert.summary, summary)

\* Lengths are numbers, and a longer text is not shorter when it is encoded.
ASSUME LengthsAssumption ==
  \A alert \in Alerts :
    /\ Len(alert.actions) \in Nat /\ Length(alert.summary) \in Nat
    /\ Frame(alert, 300) \in Nat /\ Context(alert) \in Nat
    /\ \A n \in 0..AtMost(Len(alert.actions), 5) : ActionText(alert, n) \in Nat
    /\ \A n \in 0..MAX_SUMMARY_LENGTH : Escaped(alert.summary, n) \in Nat
    /\ \A n \in 1..MAX_SUMMARY_LENGTH :
         Escaped(alert.summary, n - 1) <= Escaped(alert.summary, n)

\* Mutant of Truncated: only the details are left out.
TruncatedContext(alert) == Frame(alert, 300) + 22 + 32

\* The last resort: "Incident details were truncated." and the head of the alert.
Truncated(alert) == Frame(alert, 100) + 22 + 32

\* serializeAlert(): the alert as a whole, or its bounded fields in a frame.
FallbackPayload(alert) ==
  300 + alert.occurrences + Json(alert.title, 300) + Json(alert.fingerprint, 200)
    + Json(alert.summary, 2000) + Json(alert.service, 200) + Json(alert.environment, 200)

-----------------------------------------------------------------------------
(* The text on its way: `draft` holds what is left of the alert.           *)

VARIABLE draft

NoDraft == [whole |-> FALSE]

DraftOf(alert) ==
  [whole |-> TRUE, alert |-> alert,
   actions |-> AtMost(Len(alert.actions), 5),
   summary |-> AtMost(Length(alert.summary), MAX_SUMMARY_LENGTH)]

DraftInit == \E alert \in Alerts : draft = DraftOf(alert)

TooLong ==
  draft.whole /\ ~(Rendered(draft.alert, draft.actions, draft.summary) <= MAX_MESSAGE_LENGTH)

\* The first loop of formatTelegramAlert().
DropAction ==
  /\ TooLong /\ draft.actions > 0
  /\ draft' = [draft EXCEPT !.actions = @ - 1]

\* Mutant of CutSummary: the summary is cut before actions are left out.
CutSummaryFirst ==
  /\ TooLong /\ draft.summary > 0
  /\ draft' = [draft EXCEPT !.summary = IF @ > 200 THEN @ - 200 ELSE 0]

\* The second loop.
CutSummary ==
  /\ TooLong /\ draft.actions = 0 /\ draft.summary > 0
  /\ draft' = [draft EXCEPT !.summary = IF @ > 200 THEN @ - 200 ELSE 0]

Truncate ==
  /\ TooLong /\ draft.actions = 0 /\ draft.summary = 0
  /\ draft' = [draft EXCEPT !.whole = FALSE]

MessageLength ==
  IF draft.whole THEN Rendered(draft.alert, draft.actions, draft.summary)
  ELSE Truncated(draft.alert)

PayloadLength ==
  IF draft.alert.payload <= MAX_PAYLOAD_BYTES THEN draft.alert.payload
  ELSE FallbackPayload(draft.alert)
=============================================================================
