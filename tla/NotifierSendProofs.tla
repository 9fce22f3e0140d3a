------------------------- MODULE NotifierSendProofs -------------------------
(***************************************************************************)
(* One send() of a built-in notifier, for every alert, every encoding that *)
(* expands no more than EncodingAssumption says and does not shrink a longer *)
(* text (LengthsAssumption), every size of an answer and number of retries: *)
(* its body fits the receiver and nothing was left out of it without need, *)
(* the alert is accepted at most once, and success is never claimed without *)
(* acceptance.                                                             *)
(***************************************************************************)
EXTENDS NotifierSend, SequenceFacts, FiniteSetTheorems, TLAPS

\* Until it is handed over, the draft is one of an alert.
IInv ==
  step = "start" =>
    /\ draft.alert \in Alerts
    /\ draft = [whole |-> draft.whole, alert |-> draft.alert,
                actions |-> draft.actions, summary |-> draft.summary]

LEMMA InitHolds == SendInit => IInv
BY DEF SendInit, DraftInit, DraftOf, IInv

\* No event of the exchange brings send() back to its start.
LEMMA ExchangeNeverRestarts ==
  ASSUME Exchange PROVE step' = "start" => step = "start"
<1>1. CASE Attempt \/ LookupResolves \/ LookupRejected \/ WaitEnds \/ TimesOut
  BY <1>1 DEF Attempt, OpenRequest, LookupResolves, LookupRejected, WaitEnds,
              TimesOut, Settle
<1>2. CASE ReceiverDecides \/ Data \/ ConnectionFails \/ SocketIdle
  BY <1>2 DEF ReceiverDecides, Data, ConnectionFails, SocketIdle, Reject, Ignored, Settle
<1>3. CASE ResponseEnds
  BY <1>3 DEF ResponseEnds, Resume, Ignored, Settle
<1> QED
  BY <1>1, <1>2, <1>3 DEF Exchange

LEMMA StepKeeps == IInv /\ [SendNext]_sendVars => IInv'
<1> SUFFICES ASSUME IInv, [SendNext]_sendVars PROVE IInv'
  OBVIOUS
<1>1. CASE Format
  <2>1. step' = step /\ step = "start"
    BY <1>1 DEF Format, Formatting, vars
  <2>2. CASE DropAction
    BY <2>1, <2>2 DEF IInv, DropAction
  <2>3. CASE CutSummary
    BY <2>1, <2>3 DEF IInv, CutSummary
  <2>4. CASE Truncate
    BY <2>1, <2>4 DEF IInv, Truncate
  <2> QED
    BY <1>1, <2>2, <2>3, <2>4 DEF Format
<1>2. CASE HandOver \/ BuilderFails
  BY <1>2 DEF IInv, HandOver, BuilderFails, Start, PayloadFails, Settle
<1>3. CASE Exchange /\ UNCHANGED draft
  BY <1>3, ExchangeNeverRestarts DEF IInv
<1>4. CASE UNCHANGED sendVars
  BY <1>4 DEF IInv, sendVars, vars
<1> QED
  BY <1>1, <1>2, <1>3, <1>4 DEF SendNext

LEMMA FallbackFits ==
  ASSUME NEW alert \in Alerts
  PROVE  FallbackPayload(alert) \in Nat /\ FallbackPayload(alert) <= 20000
<1> DEFINE t == Json(alert.title, 300)
           f == Json(alert.fingerprint, 200)
           s == Json(alert.summary, 2000)
           v == Json(alert.service, 200)
           e == Json(alert.environment, 200)
           o == alert.occurrences
<1>1. FallbackPayload(alert) = 300 + o + t + f + s + v + e
  BY DEF FallbackPayload
<1>2. UpTo(o, 25) /\ UpTo(t, 1800) /\ UpTo(s, 12000)
  BY EncodingAssumption DEF EncodingAssumption
<1>3. UpTo(f, 1200) /\ UpTo(v, 1200) /\ UpTo(e, 1200)
  BY EncodingAssumption DEF EncodingAssumption
<1> HIDE DEF o, t, f, s, v, e
<1> QED
  BY <1>1, <1>2, <1>3 DEF UpTo

LEMMA TruncatedFits ==
  ASSUME NEW alert \in Alerts PROVE Truncated(alert) <= MAX_MESSAGE_LENGTH
<1> DEFINE t == Escaped(alert.title, 100)
           s == Escaped(alert.service, 100)
           e == Escaped(alert.environment, 100)
           f == Escaped(alert.firstSeenAt, 100)
           l == Escaped(alert.lastSeenAt, 100)
           o == alert.occurrences
<1>1. Truncated(alert) = 91 + 8 + o + t + s + e + f + l + 22 + 32
  BY DEF Truncated, Frame
<1>2. UpTo(o, 25) /\ UpTo(t, 500) /\ UpTo(s, 500)
  BY EncodingAssumption DEF EncodingAssumption
<1>3. UpTo(e, 500) /\ UpTo(f, 500) /\ UpTo(l, 500)
  BY EncodingAssumption DEF EncodingAssumption
<1> HIDE DEF o, t, s, e, f, l
<1> QED
  BY <1>1, <1>2, <1>3 DEF UpTo, MAX_MESSAGE_LENGTH

LEMMA PayloadFits ==
  ASSUME draft.alert \in Alerts PROVE PayloadLength <= MAX_PAYLOAD_BYTES
<1>1. CASE draft.alert.payload <= MAX_PAYLOAD_BYTES
  BY <1>1 DEF PayloadLength
<1>2. CASE ~(draft.alert.payload <= MAX_PAYLOAD_BYTES)
  <2>1. PayloadLength = FallbackPayload(draft.alert)
    BY <1>2 DEF PayloadLength
  <2>2. FallbackPayload(draft.alert) \in Nat /\ FallbackPayload(draft.alert) <= 20000
    BY FallbackFits
  <2> QED
    BY <2>1, <2>2 DEF MAX_PAYLOAD_BYTES
<1> QED
  BY <1>1, <1>2

LEMMA MessageFits ==
  ASSUME draft.alert \in Alerts, ~TooLong PROVE MessageLength <= MAX_MESSAGE_LENGTH
<1>1. CASE draft.whole
  BY <1>1, Zenon DEF MessageLength, TooLong
<1>2. CASE ~draft.whole
  <2>1. MessageLength = Truncated(draft.alert)
    BY <1>2 DEF MessageLength
  <2> QED
    BY <2>1, TruncatedFits, Zenon
<1> QED
  BY <1>1, <1>2

LEMMA HandOverFits == IInv /\ HandOver => BodyLength <= BodyLimit
<1> SUFFICES ASSUME IInv, HandOver PROVE BodyLength <= BodyLimit
  OBVIOUS
<1>1. draft.alert \in Alerts
  BY DEF IInv, HandOver, Start
<1>2. CASE Webhook
  BY <1>1, <1>2, PayloadFits DEF BodyLength, BodyLimit
<1>3. CASE ~Webhook
  BY <1>1, <1>3, MessageFits DEF BodyLength, BodyLimit, HandOver
<1> QED
  BY <1>2, <1>3

\* No alert, however long or full of characters to escape, yields a body that
\* Telegram refuses for its length or that exceeds the bound of the webhook.
THEOREM EveryBodyFits == SendSpec => BodyFits
<1>1. IInv /\ [SendNext]_sendVars => [HandOver => BodyLength <= BodyLimit]_sendVars
  BY HandOverFits
<1> QED
  BY <1>1, InitHolds, StepKeeps, PTL DEF SendSpec, BodyFits

-----------------------------------------------------------------------------
(* The exchange.                                                           *)

\* A request that is not the last one was answered, and not with a success.
EarlierRefused ==
  /\ served \in Seq(Statuses \cup {Pending})
  /\ \A i \in 1..Len(served) - 1 : served[i] # "2xx"

\* Before another request is made, none of the requests made so far has been
\* or can still be accepted.
NoneAccepted ==
  step \in {"start", "attempt", "lookup", "wait"} =>
    socket # "open" /\ \A i \in 1..Len(served) : served[i] # "2xx"

\* send() listens to the exchange while it waits for a request, and has one
\* outcome, that of the last request.
Listening ==
  /\ step = "request" => socket = "open"
  /\ socket = "open" => served # <<>>
  /\ step # "done" => outcome = "none"

ExchangeInv == EarlierRefused /\ NoneAccepted /\ Listening /\ SentMeansAccepted

LEMMA LastServed ==
  ASSUME EarlierRefused, served # <<>>
  PROVE  /\ Len(served) \in Nat \ {0} /\ Len(served) \in DOMAIN served
         /\ \A status \in Statuses :
              LET next == [served EXCEPT ![Len(served)] = status]
              IN  /\ next \in Seq(Statuses \cup {Pending}) /\ Len(next) = Len(served)
                  /\ \A i \in 1..Len(served) - 1 : next[i] = served[i]
BY DEF EarlierRefused

LEMMA OpenRequestKeeps ==
  ASSUME ExchangeInv, OpenRequest, step \in {"attempt", "lookup"}, UNCHANGED outcome
  PROVE  ExchangeInv'
<1>1. \A i \in 1..Len(served) : served[i] # "2xx"
  BY DEF ExchangeInv, NoneAccepted
<1>2. /\ served' \in Seq(Statuses \cup {Pending}) /\ Len(served') = Len(served) + 1
      /\ \A i \in 1..Len(served') - 1 : served'[i] = served[i]
      /\ served' # <<>>
  BY DEF ExchangeInv, EarlierRefused, OpenRequest
<1>3. Len(served) \in Nat
  BY DEF ExchangeInv, EarlierRefused
<1>4. EarlierRefused'
  BY <1>1, <1>2, <1>3 DEF EarlierRefused
<1>5. outcome' = "none"
  BY DEF ExchangeInv, Listening
<1> QED
  BY <1>2, <1>4, <1>5 DEF ExchangeInv, NoneAccepted, Listening, SentMeansAccepted,
                          OpenRequest

\* Settling or resuming with an answer that is no success leaves the requests
\* as they are.
LEMMA LoopKeeps ==
  ASSUME ExchangeInv, UNCHANGED served,
         \/ Attempt /\ step' = "lookup"
         \/ LookupRejected \/ WaitEnds \/ TimesOut \/ Start \/ PayloadFails
  PROVE  ExchangeInv'
<1>1. EarlierRefused'
  BY DEF ExchangeInv, EarlierRefused
<1>2. socket' \in {socket, "destroyed"} /\ outcome = "none" /\ outcome' # "sent"
      /\ (step' = "done" \/ outcome' = outcome)
      /\ (step' \in {"attempt", "lookup"} => socket' = socket)
      /\ step' # "request"
  BY DEF ExchangeInv, Listening, Attempt, OpenRequest, LookupRejected, WaitEnds, TimesOut,
         Start, PayloadFails, Settle
<1>3. step' \in {"attempt", "lookup"} => step \in {"start", "attempt", "lookup", "wait"}
  BY DEF Attempt, OpenRequest, LookupRejected, WaitEnds, TimesOut, Start, PayloadFails, Settle
<1>4. step' \in {"attempt", "lookup", "done"}
  BY DEF Attempt, OpenRequest, LookupRejected, WaitEnds, TimesOut, Start, PayloadFails, Settle
<1>5. NoneAccepted'
  BY <1>2, <1>3, <1>4 DEF ExchangeInv, NoneAccepted
<1>6. Listening' /\ SentMeansAccepted'
  BY <1>2, <1>4 DEF ExchangeInv, Listening, SentMeansAccepted
<1> QED
  BY <1>1, <1>5, <1>6 DEF ExchangeInv

LEMMA ReceiverKeeps ==
  ASSUME ExchangeInv, ReceiverDecides PROVE ExchangeInv'
<1>1. served # <<>> /\ EarlierRefused
  BY DEF ExchangeInv, Listening, ReceiverDecides
<1>2. PICK status \in Statuses : served' = [served EXCEPT ![Len(served)] = status]
  BY DEF ReceiverDecides
<1>3. /\ served' \in Seq(Statuses \cup {Pending}) /\ Len(served') = Len(served)
      /\ \A i \in 1..Len(served) - 1 : served'[i] = served[i]
      /\ Len(served) \in Nat \ {0}
  BY <1>1, <1>2, LastServed
<1>4. EarlierRefused'
  BY <1>1, <1>3 DEF EarlierRefused
<1>5. served' # <<>>
  BY <1>3
<1> QED
  BY <1>4, <1>5 DEF ExchangeInv, NoneAccepted, Listening, SentMeansAccepted, ReceiverDecides

\* The exchange ends without an answer: send() fails, if it still waits.
LEMMA BrokenKeeps ==
  ASSUME ExchangeInv, Data \/ ConnectionFails \/ SocketIdle PROVE ExchangeInv'
<1>1. UNCHANGED served /\ socket = "open" /\ socket' \in {"open", "destroyed"}
  BY DEF Data, ConnectionFails, SocketIdle
<1>2. /\ socket' = "open" => UNCHANGED <<step, outcome>>
      /\ \/ UNCHANGED <<step, outcome>> /\ (step = "request" => socket' = "open")
         \/ step' = "done" /\ outcome' = "failed"
  BY DEF Data, ConnectionFails, SocketIdle, Reject, Ignored, Settle
<1>3. EarlierRefused'
  BY <1>1 DEF ExchangeInv, EarlierRefused
<1> QED
  BY <1>1, <1>2, <1>3 DEF ExchangeInv, NoneAccepted, Listening, SentMeansAccepted

\* Only an answer that is no success is followed by another request.
LEMMA AnswerKeeps ==
  ASSUME ExchangeInv, ResponseEnds PROVE ExchangeInv'
<1>1. UNCHANGED served /\ socket = "open" /\ socket' = "over" /\ served # <<>>
  BY DEF ResponseEnds, ExchangeInv, Listening
<1>2. EarlierRefused'
  BY <1>1 DEF ExchangeInv, EarlierRefused
<1>3. Len(served) \in Nat \ {0}
  BY <1>1, LastServed DEF ExchangeInv
<1>4. CASE step = "request" /\ served[Len(served)] = "2xx"
  BY <1>1, <1>2, <1>4
  DEF ResponseEnds, Resume, Settle, ExchangeInv, NoneAccepted, Listening, SentMeansAccepted
<1>5. CASE step = "request" /\ served[Len(served)] # "2xx"
  <2>1. \A i \in 1..Len(served) : served[i] # "2xx"
    BY <1>3, <1>5 DEF ExchangeInv, EarlierRefused
  <2>2. /\ step' \in {"wait", "attempt", "done"} /\ outcome' \in {outcome, "failed"}
        /\ step' # "done" => outcome' = outcome
    BY <1>5 DEF ResponseEnds, Resume, Settle
  <2> QED
    BY <1>1, <1>2, <1>5, <2>1, <2>2
    DEF ExchangeInv, NoneAccepted, Listening, SentMeansAccepted
<1>6. CASE step # "request"
  BY <1>1, <1>2, <1>6
  DEF ResponseEnds, Ignored, ExchangeInv, NoneAccepted, Listening, SentMeansAccepted
<1> QED
  BY <1>4, <1>5, <1>6

LEMMA ExchangeInit == SendInit => ExchangeInv
BY DEF SendInit, Init, ExchangeInv, EarlierRefused, NoneAccepted, Listening,
       SentMeansAccepted

LEMMA ExchangeKeeps == ExchangeInv /\ [SendNext]_sendVars => ExchangeInv'
<1> SUFFICES ASSUME ExchangeInv, [SendNext]_sendVars PROVE ExchangeInv'
  OBVIOUS
<1>1. CASE UNCHANGED vars
  BY <1>1 DEF vars, ExchangeInv, EarlierRefused, NoneAccepted, Listening, SentMeansAccepted
<1>2. CASE HandOver \/ BuilderFails
  BY <1>2, LoopKeeps DEF HandOver, BuilderFails, Start, PayloadFails
<1>3. CASE Attempt
  <2>1. CASE Webhook
    BY <1>3, <2>1, LoopKeeps DEF Attempt
  <2>2. CASE ~Webhook
    BY <1>3, <2>2, OpenRequestKeeps DEF Attempt
  <2> QED
    BY <2>1, <2>2
<1>4. CASE LookupResolves
  BY <1>4, OpenRequestKeeps DEF LookupResolves
<1>5. CASE LookupRejected \/ WaitEnds \/ TimesOut
  BY <1>5, LoopKeeps DEF LookupRejected, WaitEnds, TimesOut
<1>6. CASE ReceiverDecides
  BY <1>6, ReceiverKeeps
<1>7. CASE Data \/ ConnectionFails \/ SocketIdle
  BY <1>7, BrokenKeeps
<1>8. CASE ResponseEnds
  BY <1>8, AnswerKeeps
<1> QED
  BY <1>1, <1>2, <1>3, <1>4, <1>5, <1>6, <1>7, <1>8
  DEF SendNext, Format, Exchange, sendVars

LEMMA OnlyLastAccepted == ExchangeInv => AcceptedAtMostOnce
<1> SUFFICES ASSUME ExchangeInv PROVE AcceptedAtMostOnce
  OBVIOUS
<1> DEFINE A == {i \in DOMAIN served : served[i] = "2xx"}
<1>1. A \in SUBSET {Len(served)}
  BY DEF ExchangeInv, EarlierRefused
<1>2. IsFiniteSet({Len(served)}) /\ Cardinality({Len(served)}) = 1
  BY FS_Singleton
<1>3. Cardinality(A) <= 1
  BY <1>1, <1>2, FS_Subset
<1> QED
  BY <1>3 DEF AcceptedAtMostOnce

\* A receiver accepts an alert at most once for each send(), although it may
\* answer late or in part, and although send() tries again (the loops of
\* webhook-http.ts and telegram-http.ts).
THEOREM AcceptedOnce == SendSpec => []AcceptedAtMostOnce
BY ExchangeInit, ExchangeKeeps, OnlyLastAccepted, PTL DEF SendSpec

\* A send() that resolves was accepted by the receiver, in its last request.
THEOREM SentWasAccepted == SendSpec => []SentMeansAccepted
<1>1. ExchangeInv => SentMeansAccepted
  BY DEF ExchangeInv
<1> QED
  BY ExchangeInit, ExchangeKeeps, <1>1, PTL DEF SendSpec

-----------------------------------------------------------------------------
(* What is left out of a text.                                             *)

LEMMA Limits == MAX_MESSAGE_LENGTH \in Nat /\ MAX_SUMMARY_LENGTH \in Nat
BY DEF MAX_MESSAGE_LENGTH, MAX_SUMMARY_LENGTH

Exceeds(alert, actions, summary) ==
  Rendered(alert, actions, summary) > MAX_MESSAGE_LENGTH

LEMMA WholeDraft ==
  ASSUME NEW alert \in Alerts
  PROVE  DraftOf(alert).actions \in Nat /\ DraftOf(alert).summary \in 0..MAX_SUMMARY_LENGTH
BY LengthsAssumption, Limits DEF LengthsAssumption, DraftOf, AtMost

LEMMA RenderedType ==
  ASSUME NEW alert \in Alerts, NEW a \in 0..DraftOf(alert).actions, NEW s \in 0..MAX_SUMMARY_LENGTH
  PROVE  Rendered(alert, a, s) \in Nat
<1>1. a \in 0..AtMost(Len(alert.actions), 5)
  BY DEF DraftOf
<1>2. /\ Frame(alert, 300) \in Nat /\ Context(alert) \in Nat
      /\ ActionText(alert, a) \in Nat /\ Escaped(alert.summary, s) \in Nat
  BY <1>1, LengthsAssumption DEF LengthsAssumption
<1> QED
  BY <1>2 DEF Rendered

\* By the least counterexample: LengthsAssumption compares neighbours only.
LEMMA EscapedGrows ==
  ASSUME NEW alert \in Alerts, NEW m \in 0..MAX_SUMMARY_LENGTH, NEW n \in 0..MAX_SUMMARY_LENGTH, m <= n
  PROVE  Escaped(alert.summary, m) <= Escaped(alert.summary, n)
<1> DEFINE e(k) == Escaped(alert.summary, k)
           Less == {k \in m..MAX_SUMMARY_LENGTH : ~(e(m) <= e(k))}
<1>1. \A k \in 0..MAX_SUMMARY_LENGTH : e(k) \in Nat
  BY LengthsAssumption DEF LengthsAssumption
<1>2. \A k \in 1..MAX_SUMMARY_LENGTH : e(k - 1) <= e(k)
  BY LengthsAssumption DEF LengthsAssumption
<1> HIDE DEF e
<1>3. CASE Less # {}
  <2>1. Less \in SUBSET Nat
    OBVIOUS
  <2>2. PICK k \in Less : \A j \in Less : k <= j
    BY <1>3, <2>1, LeastOf
  <2>3. k \in m..MAX_SUMMARY_LENGTH /\ ~(e(m) <= e(k))
    BY <2>2
  <2>4. k # m
    BY <1>1, <2>3
  <2>5. k - 1 \in m..MAX_SUMMARY_LENGTH /\ k \in 1..MAX_SUMMARY_LENGTH /\ k - 1 \in 0..MAX_SUMMARY_LENGTH /\ ~(k <= k - 1)
    BY <2>3, <2>4, Limits
  <2>6. k - 1 \notin Less
    BY <2>2, <2>5
  <2>7. e(m) <= e(k - 1)
    BY <2>5, <2>6
  <2>8. e(m) <= e(k)
    BY <1>1, <1>2, <2>5, <2>7
  <2> QED
    BY <2>3, <2>8
<1>4. CASE Less = {}
  <2>1. n \in m..MAX_SUMMARY_LENGTH
    OBVIOUS
  <2>2. e(m) <= e(n)
    BY <1>4, <2>1
  <2> QED
    BY <2>2 DEF e
<1> QED
  BY <1>3, <1>4

LEMMA ExceedsMore ==
  ASSUME NEW alert \in Alerts, NEW m \in 0..MAX_SUMMARY_LENGTH, NEW n \in 0..MAX_SUMMARY_LENGTH, m <= n,
         Exceeds(alert, 0, m)
  PROVE  Exceeds(alert, 0, n)
<1>1. Escaped(alert.summary, m) <= Escaped(alert.summary, n)
  BY EscapedGrows
<1>2. 0 \in 0..AtMost(Len(alert.actions), 5)
  BY LengthsAssumption DEF LengthsAssumption, AtMost
<1>3. /\ Frame(alert, 300) \in Nat /\ Context(alert) \in Nat /\ ActionText(alert, 0) \in Nat
      /\ Escaped(alert.summary, m) \in Nat /\ Escaped(alert.summary, n) \in Nat
  BY <1>2, LengthsAssumption DEF LengthsAssumption
<1> DEFINE rest == Frame(alert, 300) + Context(alert) + ActionText(alert, 0)
<1>4. /\ Rendered(alert, 0, m) = rest + Escaped(alert.summary, m)
      /\ Rendered(alert, 0, n) = rest + Escaped(alert.summary, n) /\ rest \in Nat
  BY <1>3 DEF Rendered
<1> QED
  BY <1>1, <1>3, <1>4, Limits DEF Exceeds

\* Each part was left out because the text with it was too long: the actions
\* while the summary was whole, then the summary, then everything.
Needed(d) ==
  LET whole == DraftOf(d.alert)
  IN  /\ d.actions \in 0..whole.actions /\ d.summary \in 0..whole.summary
      /\ \A a \in d.actions + 1..whole.actions : Exceeds(d.alert, a, whole.summary)
      /\ d.summary < whole.summary => d.actions = 0
      /\ \A s \in d.summary + 200..whole.summary : Exceeds(d.alert, 0, s)
      /\ d.whole \in BOOLEAN
      /\ ~d.whole => Exceeds(d.alert, 0, 0)
DraftInv == step = "start" => Needed(draft)

LEMMA DraftStarts == SendInit => DraftInv
<1> SUFFICES ASSUME SendInit PROVE Needed(draft)
  BY DEF DraftInv
<1>1. PICK alert \in Alerts : draft = DraftOf(alert)
  BY DEF SendInit, DraftInit
<1>2. draft.alert = alert /\ draft.whole = TRUE
  BY <1>1 DEF DraftOf
<1>3. draft.actions \in Nat /\ draft.summary \in Nat
  BY <1>1, WholeDraft, Limits
<1>4. DraftOf(draft.alert) = draft
  BY <1>1, <1>2
<1>5. /\ draft.actions \in 0..draft.actions /\ draft.summary \in 0..draft.summary
      /\ ~(draft.summary < draft.summary)
      /\ draft.actions + 1..draft.actions = {} /\ draft.summary + 200..draft.summary = {}
  BY <1>3
<1> QED
  BY <1>2, <1>4, <1>5 DEF Needed

LEMMA FormatNeeded ==
  ASSUME IInv, Needed(draft), Format PROVE Needed(draft)'
<1> DEFINE alert == draft.alert
           whole == DraftOf(alert)
<1>1. alert \in Alerts /\ step = "start"
  BY DEF IInv, Format, Formatting
<1>2. /\ draft = [whole |-> draft.whole, alert |-> alert,
                  actions |-> draft.actions, summary |-> draft.summary]
  BY <1>1 DEF IInv
<1>3. whole.actions \in Nat /\ whole.summary \in 0..MAX_SUMMARY_LENGTH
  BY <1>1, WholeDraft
<1>4. /\ draft.actions \in 0..whole.actions /\ draft.summary \in 0..whole.summary
      /\ \A a \in draft.actions + 1..whole.actions : Exceeds(alert, a, whole.summary)
      /\ draft.summary < whole.summary => draft.actions = 0
      /\ \A s \in draft.summary + 200..whole.summary : Exceeds(alert, 0, s)
      /\ draft.whole \in BOOLEAN /\ (~draft.whole => Exceeds(alert, 0, 0))
  BY DEF Needed
<1>5. ASSUME TooLong PROVE draft.whole /\ Exceeds(alert, draft.actions, draft.summary)
  <2>1. draft.summary \in 0..MAX_SUMMARY_LENGTH
    BY <1>3, <1>4, Limits
  <2>2. Rendered(alert, draft.actions, draft.summary) \in Nat
    BY <1>1, <1>4, <2>1, RenderedType
  <2> QED
    BY <1>5, <2>2, Limits DEF TooLong, Exceeds
<1> HIDE DEF whole
<1>6. CASE DropAction
  <2>1. /\ draft'.alert = alert /\ draft'.actions = draft.actions - 1
        /\ draft'.summary = draft.summary /\ draft'.whole = draft.whole
        /\ draft.actions > 0 /\ TooLong
    BY <1>2, <1>6 DEF DropAction
  <2>2. draft.summary = whole.summary /\ Exceeds(alert, draft.actions, whole.summary)
    BY <1>3, <1>4, <1>5, <2>1
  <2>3. \A a \in draft.actions..whole.actions : Exceeds(alert, a, whole.summary)
    <3> TAKE a \in draft.actions..whole.actions
    <3>1. a = draft.actions \/ a \in draft.actions + 1..whole.actions
      BY <1>3, <1>4
    <3> QED BY <1>4, <2>2, <3>1
  <2>4. draft.actions - 1 \in 0..whole.actions /\ (draft.actions - 1) + 1 = draft.actions
    BY <1>3, <1>4, <2>1
  <2> DEFINE d == draft'
  <2>5. Needed(d)
    <3>1. DraftOf(d.alert) = whole
      BY <2>1 DEF whole
    <3>2. /\ d.actions \in 0..whole.actions /\ d.summary \in 0..whole.summary
          /\ \A a \in d.actions + 1..whole.actions : Exceeds(d.alert, a, whole.summary)
      BY <1>4, <2>1, <2>3, <2>4
    <3>3. /\ ~(d.summary < whole.summary)
          /\ \A s \in d.summary + 200..whole.summary : Exceeds(d.alert, 0, s)
          /\ d.whole \in BOOLEAN /\ (~d.whole => Exceeds(d.alert, 0, 0))
      BY <1>3, <1>4, <2>1, <2>2
    <3> HIDE DEF d
    <3> QED BY <3>1, <3>2, <3>3 DEF Needed
  <2> QED BY <2>5 DEF Needed, Exceeds, Rendered, DraftOf
<1>7. CASE CutSummary
  <2> DEFINE cut == IF draft.summary > 200 THEN draft.summary - 200 ELSE 0
  <2>1. /\ draft'.alert = alert /\ draft'.actions = 0 /\ draft.actions = 0
        /\ draft'.summary = cut /\ draft'.whole = draft.whole
        /\ draft.summary > 0 /\ TooLong
    BY <1>2, <1>7 DEF CutSummary
  <2>2. Exceeds(alert, 0, draft.summary)
    BY <1>5, <2>1
  <2>3. cut \in 0..whole.summary
    BY <1>3, <1>4
  <2>4. ASSUME NEW s \in cut + 200..whole.summary PROVE Exceeds(alert, 0, s)
    <3>1. s \in 0..MAX_SUMMARY_LENGTH /\ draft.summary \in 0..MAX_SUMMARY_LENGTH /\ draft.summary <= s
      BY <1>3, <1>4, Limits
    <3> QED BY <1>1, <2>2, <3>1, ExceedsMore
  <2> HIDE DEF cut
  <2> DEFINE d == draft'
  <2>5. Needed(d)
    <3>1. DraftOf(d.alert) = whole
      BY <2>1 DEF whole
    <3>2. /\ d.actions \in 0..whole.actions /\ d.summary \in 0..whole.summary
          /\ \A a \in d.actions + 1..whole.actions : Exceeds(d.alert, a, whole.summary)
          /\ d.actions = 0
      BY <1>4, <2>1, <2>3
    <3>3. /\ \A s \in d.summary + 200..whole.summary : Exceeds(d.alert, 0, s)
          /\ d.whole \in BOOLEAN /\ (~d.whole => Exceeds(d.alert, 0, 0))
      BY <1>4, <2>1, <2>4
    <3> HIDE DEF d
    <3> QED BY <3>1, <3>2, <3>3 DEF Needed
  <2> QED BY <2>5 DEF Needed, Exceeds, Rendered, DraftOf
<1>8. CASE Truncate
  <2>1. /\ draft'.alert = alert /\ draft'.actions = 0 /\ draft.actions = 0
        /\ draft'.summary = 0 /\ draft.summary = 0 /\ draft'.whole = FALSE /\ TooLong
    BY <1>2, <1>8 DEF Truncate
  <2>2. Exceeds(alert, 0, 0)
    BY <1>5, <2>1
  <2> DEFINE d == draft'
  <2>3. Needed(d)
    <3>1. DraftOf(d.alert) = whole
      BY <2>1 DEF whole
    <3>2. /\ d.actions \in 0..whole.actions /\ d.summary \in 0..whole.summary
          /\ \A a \in d.actions + 1..whole.actions : Exceeds(d.alert, a, whole.summary)
          /\ d.actions = 0
          /\ \A s \in d.summary + 200..whole.summary : Exceeds(d.alert, 0, s)
      BY <1>4, <2>1
    <3>3. d.whole \in BOOLEAN /\ Exceeds(d.alert, 0, 0)
      BY <2>1, <2>2
    <3> HIDE DEF d
    <3> QED BY <3>1, <3>2, <3>3 DEF Needed
  <2> QED BY <2>3 DEF Needed, Exceeds, Rendered, DraftOf
<1> QED
  BY <1>6, <1>7, <1>8 DEF Format

LEMMA DraftStep == IInv /\ DraftInv /\ [SendNext]_sendVars => DraftInv'
<1> SUFFICES ASSUME IInv, DraftInv, [SendNext]_sendVars, step' = "start" PROVE Needed(draft)'
  BY DEF DraftInv
<1>1. CASE Format
  BY <1>1, FormatNeeded DEF DraftInv, Format, Formatting
<1>2. CASE HandOver \/ BuilderFails
  BY <1>2 DEF HandOver, BuilderFails, Start, PayloadFails, Settle
<1>3. CASE (Exchange /\ UNCHANGED draft) \/ UNCHANGED sendVars
  <2>1. draft' = draft /\ step = "start"
    BY <1>3, ExchangeNeverRestarts DEF sendVars, vars
  <2> QED
    BY <2>1 DEF DraftInv, Needed, Exceeds, Rendered, DraftOf
<1> QED
  BY <1>1, <1>2, <1>3 DEF SendNext

\* Every alert is sent in the most complete version that fits, whatever
\* escaping does to the lengths of its parts.
THEOREM MostIsKept == SendSpec => NothingDroppedNeedlessly
<1> DEFINE Kept == LET whole == DraftOf(draft.alert)
                   IN  /\ \A a \in draft.actions + 1..whole.actions :
                            Rendered(draft.alert, a, whole.summary) > MAX_MESSAGE_LENGTH
                       /\ \A s \in draft.summary + 200..whole.summary :
                            Rendered(draft.alert, 0, s) > MAX_MESSAGE_LENGTH
                       /\ draft.whole \/ Rendered(draft.alert, 0, 0) > MAX_MESSAGE_LENGTH
<1>1. DraftInv => (HandOver /\ ~Webhook => Kept)
  <2> SUFFICES ASSUME DraftInv, HandOver PROVE Kept
    OBVIOUS
  <2>1. Needed(draft)
    BY DEF DraftInv, HandOver, Start
  <2> QED
    BY <2>1 DEF Needed, Exceeds
<1>2. SendSpec => []DraftInv
  BY InitHolds, StepKeeps, DraftStarts, DraftStep, PTL DEF SendSpec
<1> QED
  BY <1>1, <1>2, PTL DEF NothingDroppedNeedlessly
=============================================================================
