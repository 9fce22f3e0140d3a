---------------------------- MODULE NotifierSend ----------------------------
(***************************************************************************)
(* One send() of a built-in notifier from the alert to the end of the      *)
(* exchange: its text is made to fit (AlertText), and handed over to the   *)
(* delivery (HttpDelivery), which sends the same body in every attempt.    *)
(***************************************************************************)
EXTENDS HttpDelivery, AlertText

sendVars == <<vars, draft>>

SendInit == Init /\ DraftInit

Formatting == step = "start" /\ ~Webhook
Format == Formatting /\ (DropAction \/ CutSummary \/ Truncate) /\ UNCHANGED vars

\* The body is ready, and the first attempt begins.
HandOver == Start /\ (Webhook \/ ~TooLong) /\ draft' = NoDraft
BuilderFails == PayloadFails /\ draft' = NoDraft

SendNext == Format \/ HandOver \/ BuilderFails \/ (Exchange /\ UNCHANGED draft)

\* Synchronous code runs on; see HttpDelivery for the exchange.
SendFairness == WF_sendVars(Format) /\ WF_sendVars(HandOver) /\ ExchangeFairness

SendSpec == SendInit /\ [][SendNext]_sendVars /\ SendFairness

-----------------------------------------------------------------------------

BodyLength == IF Webhook THEN PayloadLength ELSE MessageLength
BodyLimit == IF Webhook THEN MAX_PAYLOAD_BYTES ELSE MAX_MESSAGE_LENGTH

\* Whatever the alert holds, the body handed over is one that the receiver
\* takes: Telegram's 4096 characters although escaping makes texts longer, the
\* webhook's own bound although it is in bytes.
BodyFits == [][HandOver => BodyLength <= BodyLimit]_sendVars

\* Of the versions that formatTelegramAlert() may send, it sends the most
\* complete one: one more action, 200 more characters of the summary, or the
\* details with an empty summary would not have fitted.
NothingDroppedNeedlessly ==
  [][HandOver /\ ~Webhook =>
       LET whole == DraftOf(draft.alert)
           Exceeds(actions, summary) ==
             Rendered(draft.alert, actions, summary) > MAX_MESSAGE_LENGTH
       IN  /\ \A a \in draft.actions + 1..whole.actions : Exceeds(a, whole.summary)
           /\ \A s \in draft.summary + 200..whole.summary : Exceeds(0, s)
           /\ draft.whole \/ Exceeds(0, 0)]_sendVars
=============================================================================
