---------------------------- MODULE EventWindow ----------------------------
(***************************************************************************)
(* The times of recent events as a sequence, oldest first: what a rolling  *)
(* window of src/core/rolling-window.ts holds, without its ring buffer.    *)
(***************************************************************************)
EXTENDS Integers, Sequences

CONSTANTS MaxEvents,  \* options.maxEvents
          WindowMs    \* options.windowMs

ASSUME WindowAssumption == MaxEvents \in Nat \ {0} /\ WindowMs \in Nat \ {0}

Expired(event, time) == time - event >= WindowMs

\* purge() stops at the first event that is still in the window.
Purged(events, time) ==
  LET kept == {i \in 1..Len(events) : ~Expired(events[i], time)}
  IN  IF kept = {} THEN <<>>
      ELSE SubSeq(events, CHOOSE i \in kept : \A k \in kept : i <= k, Len(events))

\* add() gives up the oldest event when the buffer is full.
Added(events, time) ==
  LET purged == Purged(events, time)
  IN  Append(IF Len(purged) = MaxEvents THEN Tail(purged) ELSE purged, time)
=============================================================================
