--------------------------- MODULE RollingWindow ---------------------------
(***************************************************************************)
(* The ring buffer of src/core/rolling-window.ts.  Slots are numbered from *)
(* 0; `head` is the slot of the oldest event and `length` counts the used  *)
(* ones.  A freed slot is set to undefined.                                *)
(***************************************************************************)
EXTENDS EventWindow, FiniteSets

CONSTANTS MaxTime,   \* bound: the wall clock reads 0..MaxTime
          MaxAdded   \* bound: events added in a behaviour

VARIABLES buffer, head, length,
          now,
          added,     \* history: the times of all events ever added
          setBack    \* history: the wall clock has been set back

ringVars == <<buffer, head, length>>
vars == <<ringVars, now, added, setBack>>

Slots == 0..(MaxEvents - 1)
Undefined == -1
Times == 0..MaxTime

Init ==
  /\ buffer = [s \in Slots |-> Undefined]
  /\ head = 0 /\ length = 0
  /\ now \in Times
  /\ added = <<>>
  /\ setBack = FALSE

Slot(first, i) == (first + i) % MaxEvents

\* Mutant of Stops: an event stays one millisecond too long.
StopsLate(slot) == buffer[slot] = Undefined \/ now - buffer[slot] <= WindowMs

\* The loop of purge(): how many of the oldest events it frees at this time.
Stops(slot) == buffer[slot] = Undefined \/ ~Expired(buffer[slot], now)
Freed == CHOOSE k \in 0..length :
           /\ \A i \in 0..(k - 1) : ~Stops(Slot(head, i))
           /\ k = length \/ Stops(Slot(head, k))

Cleared(slots) == [s \in Slots |-> IF s \in slots THEN Undefined ELSE buffer[s]]
FreedSlots == {Slot(head, i) : i \in 0..(Freed - 1)}

\* timestamps(), count() and size(): they purge and copy what is left.
Read ==
  /\ buffer' = Cleared(FreedSlots)
  /\ head' = Slot(head, Freed)
  /\ length' = length - Freed
  /\ UNCHANGED <<now, added, setBack>>

\* Mutant of Add: the oldest event of a full ring is not given up.
AddKeepsHead ==
  LET first == Slot(head, Freed)
      left == length - Freed
  IN /\ Len(added) < MaxAdded
     /\ buffer' = [Cleared(FreedSlots) EXCEPT ![Slot(first, left)] = now]
     /\ head' = first
     /\ length' = IF left < MaxEvents THEN left + 1 ELSE left
     /\ added' = Append(added, now)
     /\ UNCHANGED <<now, setBack>>

Add ==
  LET first == Slot(head, Freed)
      left == length - Freed
      index == Slot(first, left)
  IN /\ Len(added) < MaxAdded
     /\ \/ /\ left < MaxEvents
           /\ buffer' = [Cleared(FreedSlots) EXCEPT ![index] = now]
           /\ head' = first
           /\ length' = left + 1
        \/ /\ left = MaxEvents
           /\ buffer' = [Cleared(FreedSlots \cup {first}) EXCEPT ![index] = now]
           /\ head' = Slot(first, 1)
           /\ length' = left
     /\ added' = Append(added, now)
     /\ UNCHANGED <<now, setBack>>

ClockChanges ==
  /\ now' \in Times \ {now}
  /\ setBack' = (setBack \/ now' < now)
  /\ UNCHANGED <<ringVars, added>>

Next == Add \/ Read \/ ClockChanges
Spec == Init /\ [][Next]_vars

-----------------------------------------------------------------------------

\* What timestamps() copies out of the ring.  It would skip an undefined entry:
\* here one would show as an event that the log does not have.
Contents == [i \in 1..length |-> buffer[Slot(head, i - 1)]]

\* The ring behaves as a sequence that loses its expired prefix, and its
\* oldest event when it is full: no wrap-around of head or index loses,
\* repeats or reorders an event, and none is read from a freed slot.
Log == INSTANCE EventLog WITH events <- Contents
ImplementsEventLog == Log!Spec

\* The count that the alert policy sees, of a ring that count() has purged, is
\* the number of events in the last WindowMs, up to the capacity, as long as
\* the wall clock is not set back: purging only a prefix and only at calls
\* forgets nothing and keeps nothing.
InWindow == {i \in DOMAIN added : ~Expired(added[i], now)}
CountIsExact ==
  ~setBack =>
    length - Freed =
      IF Cardinality(InWindow) > MaxEvents THEN MaxEvents ELSE Cardinality(InWindow)
=============================================================================
