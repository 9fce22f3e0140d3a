------------------------------ MODULE AlertLog ------------------------------
(***************************************************************************)
(* What the notification queue promises to its callers, without saying how *)
(* alerts are delivered: every accepted alert is reported exactly once, in *)
(* the order of acceptance and with one outcome for each notifier; at most *)
(* Capacity alerts are ever outstanding; nothing is accepted once the log  *)
(* is closed.                                                              *)
(***************************************************************************)
EXTENDS Integers, Sequences

CONSTANTS Outcomes,  \* a natural number: one outcome for each notifier
          Capacity   \* a natural number: alerts accepted, not yet reported

VARIABLES accepted,  \* how many alerts have been accepted
          reported,  \* the reports, in order
          open

logVars == <<accepted, reported, open>>

Init ==
  /\ accepted = 0
  /\ reported = <<>>
  /\ open = TRUE

Accept ==
  /\ open
  /\ accepted - Len(reported) < Capacity
  /\ accepted' = accepted + 1
  /\ UNCHANGED <<reported, open>>

\* The oldest unreported alert is reported.
Report ==
  /\ Len(reported) < accepted
  /\ \E delivered \in 0..Outcomes :
       reported' = Append(reported,
                     [job |-> Len(reported) + 1, sent |-> delivered,
                      notifierFailures |-> Outcomes - delivered])
  /\ UNCHANGED <<accepted, open>>

Close ==
  /\ open' = FALSE
  /\ UNCHANGED <<accepted, reported>>

Next == Accept \/ Report \/ Close

SafeSpec == Init /\ [][Next]_logVars
Spec == SafeSpec /\ WF_logVars(Report)
=============================================================================
