-------------------------- MODULE MCRuntimeWatcher --------------------------
(* TLC instance of RuntimeWatcher. *)
EXTENDS RuntimeWatcher, TLC

Thresholds == "event-loop-delay-ms" :> 2 @@ "notifier-failures" :> 1 @@ "pending-alerts" :> 1
=============================================================================
