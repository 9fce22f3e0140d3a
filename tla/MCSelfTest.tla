---------------------------- MODULE MCSelfTest ----------------------------
(* TLC instance of SelfTest. *)
EXTENDS SelfTest

CONSTANTS n1, n2, w1, w2

TwoLanes == <<n1, n2>>
=============================================================================
