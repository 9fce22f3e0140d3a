------------------------------ MODULE EventLog ------------------------------
(* The rolling window that a group is promised: a bounded log of the most   *)
(* recent events, read against the wall clock.                              *)
EXTENDS EventWindow

CONSTANT Times
VARIABLES events, now

logVars == <<events, now>>

Init == events = <<>> /\ now \in Times
Add == events' = Added(events, now) /\ UNCHANGED now
Read == events' = Purged(events, now) /\ UNCHANGED now
ClockChanges == now' \in Times /\ UNCHANGED events

Next == Add \/ Read \/ ClockChanges
Spec == Init /\ [][Next]_logVars
=============================================================================
