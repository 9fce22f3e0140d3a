--------------------------- MODULE CircuitHistory ---------------------------
(***************************************************************************)
(* The circuit breaker a notifier is promised, kept as a history beside    *)
(* the queue and computed only from what the notifier itself sees: which   *)
(* sends were attempted and how they ended.  The queue has to agree with   *)
(* it although it keeps its own count in objects that lanes share.         *)
(***************************************************************************)
EXTENDS NotificationQueue

VARIABLES
  streak,       \* failed attempts since the last delivery or opening
  blockedUntil  \* the notifier is left alone before this time; a cooldown
                \* that ended with an attempt is over, however the clock moves

historyVars == <<streak, blockedUntil>>

LanesOf(n) == {l \in Lanes : NotifierOf[l] = n}

\* What happened to lane l in a step of the queue.
Leaves(l) == stage = "starting" /\ lane[l] = "idle" /\ lane'[l] # "idle"
Skipped(l) == Leaves(l) /\ circuitOpenSkips' # circuitOpenSkips
Attempted(l) == Leaves(l) /\ circuitOpenSkips' = circuitOpenSkips
Delivered(l) == lane[l] # "sent" /\ lane'[l] = "sent"
AttemptFailed(l) == lane[l] # "failed" /\ lane'[l] = "failed" /\ ~Skipped(l)

Opens(n) == /\ streak[n] + 1 >= FailureThreshold
            /\ \E l \in LanesOf(n) : AttemptFailed(l)

Observe ==
  /\ streak' = [n \in Notifiers |->
       IF Opens(n) \/ \E l \in LanesOf(n) : Delivered(l) THEN 0
       ELSE IF \E l \in LanesOf(n) : AttemptFailed(l) THEN streak[n] + 1
       ELSE streak[n]]
  /\ blockedUntil' = [n \in Notifiers |->
       IF Opens(n) THEN now + CooldownMs
       ELSE IF \E l \in LanesOf(n) : Attempted(l) THEN 0
       ELSE blockedUntil[n]]

CircuitInit ==
  /\ Init
  /\ streak = [n \in Notifiers |-> 0]
  /\ blockedUntil = [n \in Notifiers |-> 0]

CircuitSpec == CircuitInit /\ [][Next /\ Observe]_<<vars, historyVars>>

-----------------------------------------------------------------------------

\* An open circuit is respected: once a notifier failed FailureThreshold times
\* in a row, it is not called again before the cooldown is over by the wall
\* clock, in this job or in a later one (processJob's shared state objects).
OpenCircuitIsRespected ==
  [][\A l \in Lanes : Attempted(l) => now >= blockedUntil[NotifierOf[l]]]_vars

\* A notifier is skipped only while such a cooldown runs: a delivery resets
\* the count, an expired cooldown is forgotten, and the failures of one
\* notifier never close the lane of another.
HealthyNotifierIsCalled ==
  [][\A l \in Lanes : Skipped(l) => now < blockedUntil[NotifierOf[l]]]_vars
=============================================================================
