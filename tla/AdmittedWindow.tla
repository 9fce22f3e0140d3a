--------------------------- MODULE AdmittedWindow ---------------------------
(***************************************************************************)
(* Admission and the window of one group together, on one wall clock: a    *)
(* capture of src/core/client.ts takes a token first, unless it is one of  *)
(* those that need none, and adds its event to the window of its group     *)
(* later, when its filter has returned.  Captures come one by one (a       *)
(* filter that captures again, and the cooldown of the overload signal,    *)
(* are in CapturePipeline).                                                *)
(***************************************************************************)
EXTENDS CaptureAdmission

CONSTANTS MaxEvents, WindowMs,  \* grouping.maxEventsPerWindow, grouping.windowMs
          MaxExempt             \* bound: matches that need no token in a behaviour

ASSUME RingAssumption ==
  MaxEvents \in Nat \ {0} /\ WindowMs \in Nat \ {0} /\ MaxExempt \in Nat

VARIABLES buffer, head, length, added,
          capture,  \* "none", or the one that runs its filter: "admitted" or "exempt"
          paid      \* history: the matches, as indices of added, that hold a token

Ring == INSTANCE RollingWindow WITH MaxAdded <- MaxGranted + MaxExempt
ringVars == <<buffer, head, length, added>>
allVars == <<vars, ringVars, capture, paid>>

CapturesInit == Ring!Init /\ Init /\ capture = "none" /\ paid = {}

Admit ==
  /\ capture = "none" /\ Acquire /\ capture' = "admitted"
  /\ UNCHANGED <<ringVars, paid>>

Exempt == Len(added) - Cardinality(paid) < MaxExempt /\ capture' = "exempt"

\* A capture is refused, and its refusal may be reported: the overload signal
\* is a capture that asks for no token.
Turn ==
  /\ capture = "none" /\ Refuse
  /\ capture' = "none" \/ Exempt
  /\ UNCHANGED <<ringVars, paid>>

\* A capture of the process or runtime monitor asks for no token either.
Monitor ==
  /\ capture = "none" /\ Exempt
  /\ UNCHANGED <<vars, ringVars, paid>>

\* The match is recorded: add(), then the windowCount of the group.
AddMatch ==
  /\ capture # "none" /\ Ring!Add
  /\ paid' = IF capture = "admitted" THEN paid \cup {Len(added) + 1} ELSE paid
  /\ capture' = "none"
  /\ UNCHANGED <<bucketVars, granted, forward>>

\* The filter refuses the event, or the match is one of another group.
MatchElsewhere ==
  /\ capture # "none" /\ capture' = "none"
  /\ UNCHANGED <<vars, ringVars, paid>>

\* snapshot() of a group counts its window at any time.
Snapshot == Ring!Read /\ UNCHANGED <<bucketVars, granted, forward, capture, paid>>

Clock == (ClockForward \/ ClockSetBack) /\ UNCHANGED <<ringVars, capture, paid>>

CapturesNext ==
  Admit \/ Turn \/ Monitor \/ AddMatch \/ MatchElsewhere \/ Snapshot \/ Clock
CapturesSpec == CapturesInit /\ [][CapturesNext]_allVars

-----------------------------------------------------------------------------

\* The count that the alert policy sees is the number of events in the last
\* WindowMs (see RollingWindow), and the ring is a bounded log.
CountIsExact == Ring!CountIsExact
ImplementsEventLog == Ring!ImplementsEventLog

\* The matches with a token among those that the window counts.
Counted == {i \in paid : i > Len(added) - (length - Ring!Freed)}

\* The overload limit bounds what a window counts beside the matches of the
\* monitors and of the overload signal, which need no token: however long
\* filters run between a token and its match, the burst and the tokens of one
\* window, and the one capture that was under way when the window began.  A
\* group that no exempt capture matches does not reach a threshold above that.
WindowWithinBudget ==
  ~setBack /\ Counted # {} =>
    (Cardinality(Counted) - 1) * Token <= Full + (WindowMs - 1) * MaxEventsPerSecond
=============================================================================
