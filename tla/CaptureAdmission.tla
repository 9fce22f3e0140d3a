-------------------------- MODULE CaptureAdmission --------------------------
(***************************************************************************)
(* The token bucket of src/core/admission.ts, which bounds the captures    *)
(* that are normalized when an overload limit is configured.  Tokens are   *)
(* counted in thousandths, so that elapsedMs * maxEventsPerSecond / 1000   *)
(* tokens are elapsedMs * maxEventsPerSecond units; the code computes the  *)
(* same number in floating point.                                          *)
(***************************************************************************)
EXTENDS Integers, Sequences, FiniteSets

CONSTANTS MaxEventsPerSecond,  \* options.maxEventsPerSecond
          Burst,               \* options.burst
          MaxTime,             \* bound: the wall clock reads 0..MaxTime
          MaxForward,          \* bound: milliseconds that the clock moves forward
          MaxGranted           \* bound: captures admitted in a behaviour

ASSUME AdmissionAssumption ==
  /\ MaxEventsPerSecond \in Nat \ {0} /\ Burst \in Nat \ {0}
  /\ {MaxTime, MaxForward, MaxGranted} \subseteq Nat

VARIABLES tokens, lastRefill,
          now,
          granted,  \* history: the times of the captures admitted
          forward,  \* history: the milliseconds of all forward moves of the clock
          setBack   \* history: the wall clock has been set back

bucketVars == <<tokens, lastRefill>>
vars == <<bucketVars, now, granted, forward, setBack>>

Token == 1000
Full == Burst * Token

Init ==
  /\ now \in 0..MaxTime
  /\ tokens = Full
  /\ lastRefill = now
  /\ granted = <<>>
  /\ forward = 0
  /\ setBack = FALSE

\* Mutant of Elapsed: a clock that is set back earns tokens too.
ElapsedEitherWay == IF now > lastRefill THEN now - lastRefill ELSE lastRefill - now

Elapsed == IF now > lastRefill THEN now - lastRefill ELSE 0
\* Mutant of Refilled: the burst does not cap the bucket.
RefilledUncapped == tokens + Elapsed * MaxEventsPerSecond

Refilled == LET more == tokens + Elapsed * MaxEventsPerSecond
            IN  IF more > Full THEN Full ELSE more

Acquire ==
  /\ Refilled >= Token
  /\ Len(granted) < MaxGranted
  /\ tokens' = Refilled - Token
  /\ lastRefill' = now
  /\ granted' = Append(granted, now)
  /\ UNCHANGED <<now, forward, setBack>>

\* Mutant of Refuse: the part of a token that is left is given up.
RefuseForfeits ==
  /\ Refilled < Token
  /\ tokens' = 0
  /\ lastRefill' = now
  /\ UNCHANGED <<now, granted, forward, setBack>>

Refuse ==
  /\ Refilled < Token
  /\ tokens' = Refilled
  /\ lastRefill' = now
  /\ UNCHANGED <<now, granted, forward, setBack>>

ClockForward ==
  /\ \E t \in 0..MaxTime : t > now /\ now' = t /\ forward' = forward + (t - now)
  /\ forward' <= MaxForward
  /\ UNCHANGED <<bucketVars, granted, setBack>>

ClockSetBack ==
  /\ \E t \in 0..MaxTime : t < now /\ now' = t
  /\ setBack' = TRUE
  /\ UNCHANGED <<bucketVars, granted, forward>>

Next == Acquire \/ Refuse \/ ClockForward \/ ClockSetBack
Spec == Init /\ [][Next]_vars

-----------------------------------------------------------------------------

TypeOK ==
  /\ tokens \in 0..Full
  /\ lastRefill \in 0..MaxTime /\ now \in 0..MaxTime
  /\ granted \in Seq(0..MaxTime) /\ Len(granted) <= MaxGranted
  /\ forward \in Nat /\ setBack \in BOOLEAN

GrantedSince(t) == Cardinality({i \in DOMAIN granted : granted[i] >= t})

\* However the wall clock jumps, the captures admitted in all stay within the
\* burst and what the forward moves of the clock pay for: being set back
\* earns no tokens, and no move earns them twice.
TotalBound ==
  Len(granted) * Token <= Full + forward * MaxEventsPerSecond

\* A capture is refused only when the limit is really reached: admitting it
\* would break the bound of some interval.  Refused captures cost nothing.
RefusesOnlyOverBudget ==
  [][Refuse /\ ~setBack =>
       \E t \in 0..now :
         (GrantedSince(t) + 1) * Token > Full + (now - t) * MaxEventsPerSecond]_vars
=============================================================================
