------------------------ MODULE MCNotificationQueue ------------------------
(* TLC instance of NotificationQueue. *)
EXTENDS NotificationQueue

CONSTANTS n1, n2, w1, w2

OneLane == <<n1>>
=============================================================================
