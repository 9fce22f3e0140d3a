---------------------- MODULE NotificationQueueProofs ----------------------
(***************************************************************************)
(* Proofs about NotificationQueue, for any list of notifiers, capacity,    *)
(* threshold, cooldown and set of flush()/close() calls; and, over the     *)
(* same invariants, about SelfTest: what testAlert() answers, and when a   *)
(* notifier is called.                                                     *)
(***************************************************************************)
EXTENDS SelfTest, FiniteSetTheorems, SequenceTheorems, TLAPS

LaneStatus == {"idle", "sending", "resolved", "rejected", "expired", "sent",
               "failed"}

LEMMA ConstantTypes ==
  /\ NumLanes \in Nat /\ Lanes \subseteq Nat /\ NoState \notin Lanes
  /\ \A l \in Lanes : NotifierOf[l] \in Notifiers
  /\ IsFiniteSet(Lanes) /\ Cardinality(Lanes) = NumLanes
<1>1. NumLanes \in Nat /\ \A l \in Lanes : NotifierOf[l] \in Notifiers
  BY QueueAssumption DEF NumLanes, Lanes
<1>2. Lanes \subseteq Nat /\ NoState \notin Lanes
  BY <1>1 DEF Lanes, NoState
<1>3. IsFiniteSet(Lanes) /\ Cardinality(Lanes) = NumLanes
  <2>1. 1 \in Int /\ NumLanes \in Int
    BY <1>1
  <2>2. IsFiniteSet(1..NumLanes) /\ Cardinality(1..NumLanes) =
          (IF 1 > NumLanes THEN 0 ELSE NumLanes - 1 + 1)
    BY <2>1, FS_Interval
  <2> QED BY <1>1, <2>2 DEF Lanes
<1> QED BY <1>1, <1>2, <1>3

-----------------------------------------------------------------------------
(* The stages of processJob.  FinishJob takes one from activeJobs: that the *)
(* counter is then 1 is what makes TypeOK inductive.                       *)

IdleFrom(k) == \A l \in Lanes : lane[l] = "idle" <=> l >= k

Stages ==
  /\ stage = "none" <=> activeJobs = 0
  /\ stage = "none" =>
       pendingJobs = <<>> /\ \A l \in Lanes : lane[l] = "idle"
  /\ stage = "starting" =>
       /\ \E k \in Lanes : IdleFrom(k)
       /\ \A l \in Lanes : lane[l] \in {"idle", "sending", "failed"}
  /\ stage = "running" => \A l \in Lanes : lane[l] # "idle"
  /\ stage = "reported" => \A l \in Lanes : Settled(l)
  /\ \A l \in Lanes :
       timer[l] => lane[l] \in {"sending", "resolved", "rejected"}

TypeInv == TypeOK /\ Stages

-----------------------------------------------------------------------------
(* Type correctness.                                                       *)

LEMMA PumpType ==
  ASSUME TypeOK, NEW jobs \in Seq(Nat), NEW active \in 0..1,
         Pump(jobs, active)
  PROVE  /\ pendingJobs' \in Seq(Nat) /\ activeJobs' \in 0..1
         /\ job' \in Nat /\ stage' \in {"none", "starting", "running", "reported"}
         /\ lane' \in [Lanes -> LaneStatus]
<1>1. CASE active < 1 /\ jobs # <<>>
  BY <1>1 DEF Pump, LaneStatus
<1>2. CASE ~(active < 1 /\ jobs # <<>>)
  BY <1>2 DEF Pump, LaneStatus, TypeOK
<1> QED BY <1>1, <1>2

LEMMA FailType ==
  ASSUME TypeOK, NEW l \in Lanes, NEW s \in Lanes,
         NEW c \in [failures : Nat, openUntil : Nat], Fail(l, s, c)
  PROVE  /\ lane' \in [Lanes -> LaneStatus] /\ timer' \in [Lanes -> BOOLEAN]
         /\ state' \in [Lanes -> Lanes]
         /\ cell' \in [Lanes -> [failures : Nat, openUntil : Nat]]
         /\ notifierStates' \in [Notifiers -> Lanes \cup {NoState}]
         /\ failures' \in Nat
<1>1. now + CooldownMs \in Nat /\ NotifierOf[l] \in Notifiers
  BY QueueAssumption, ConstantTypes DEF TypeOK
<1>2. [failures |-> c.failures + 1,
       openUntil |-> IF c.failures + 1 >= FailureThreshold
                     THEN now + CooldownMs ELSE c.openUntil]
        \in [failures : Nat, openUntil : Nat]
  BY <1>1
<1>3. lane' \in [Lanes -> LaneStatus] /\ timer' \in [Lanes -> BOOLEAN]
      /\ state' \in [Lanes -> Lanes] /\ failures' \in Nat
  BY DEF Fail, TypeOK, LaneStatus
<1>4. cell' \in [Lanes -> [failures : Nat, openUntil : Nat]]
  BY <1>2 DEF Fail, TypeOK
<1>5. notifierStates' \in [Notifiers -> Lanes \cup {NoState}]
  BY <1>1 DEF Fail, TypeOK
<1> QED BY <1>3, <1>4, <1>5

LEMMA StateType ==
  ASSUME TypeOK, NEW l \in Lanes
  PROVE  /\ StateOf(l) \in Lanes
         /\ ContentOf(l) \in [failures : Nat, openUntil : Nat]
         /\ Reset(ContentOf(l)) \in [failures : Nat, openUntil : Nat]
<1>1. notifierStates[NotifierOf[l]] \in Lanes \cup {NoState}
  BY ConstantTypes DEF TypeOK
<1>2. StateOf(l) \in Lanes
  BY <1>1 DEF StateOf
<1>3. ContentOf(l) \in [failures : Nat, openUntil : Nat]
  BY <1>2 DEF ContentOf, Fresh, TypeOK
<1> QED BY <1>2, <1>3 DEF Reset, Fresh

LEMMA TypeInit == Init => TypeOK
<1> SUFFICES ASSUME Init PROVE TypeOK
  OBVIOUS
<1>1. lane \in [Lanes -> LaneStatus] /\ cell \in [Lanes -> [failures : Nat, openUntil : Nat]]
      /\ notifierStates \in [Notifiers -> Lanes \cup {NoState}]
  BY DEF Init, Fresh, LaneStatus, NoState
<1>2. waiter \in [Waiters -> WaiterRecord] /\ now \in 1..MaxTime
  BY QueueAssumption DEF Init, WaiterRecord
<1>3. queued \in 0..MaxJobs /\ dropped \in 0..MaxDropped
  BY QueueAssumption DEF Init
<1>4. activeJobs = 0 /\ closed \in BOOLEAN /\ sent = 0 /\ failures = 0 /\ timeouts = 0
      /\ circuitOpenSkips = 0 /\ job = 0 /\ stage = "none" /\ drainWaiters = {}
  BY DEF Init
<1>5. state \in [Lanes -> Lanes] /\ timer \in [Lanes -> BOOLEAN]
  BY DEF Init
<1>6. pendingJobs \in Seq(Nat) /\ reports \in Seq(Report)
  <2>1. pendingJobs = <<>> /\ reports = <<>>
    BY DEF Init
  <2> QED BY <2>1, <<>> \in Seq(Nat), <<>> \in Seq(Report)
<1> QED BY <1>1, <1>2, <1>3, <1>4, <1>5, <1>6 DEF TypeOK, LaneStatus

\* enqueue(): both outcomes keep the types, whatever the caller goes on to do.
LEMMA TypeEnqueue ==
  ASSUME TypeOK, Enqueue,
         waiter' \in [Waiters -> WaiterRecord], drainWaiters' \in SUBSET Waiters
  PROVE  TypeOK'
<1>1. Append(pendingJobs, queued + 1) \in Seq(Nat) /\ activeJobs \in 0..1
  BY DEF TypeOK
<1>2. Pump(Append(pendingJobs, queued + 1), activeJobs)
  BY DEF Enqueue
<1>3. queued' \in 0..MaxJobs
  BY QueueAssumption DEF Enqueue, TypeOK
<1> HIDE DEF Pump
<1>4. /\ pendingJobs' \in Seq(Nat) /\ activeJobs' \in 0..1
      /\ job' \in Nat /\ stage' \in {"none", "starting", "running", "reported"}
      /\ lane' \in [Lanes -> LaneStatus]
  BY <1>1, <1>2, PumpType
<1> QED BY <1>3, <1>4 DEF Enqueue, TypeOK, LaneStatus, resultVars, circuitVars

LEMMA TypeDrop == ASSUME TypeOK, Drop PROVE TypeOK'
BY QueueAssumption
   DEF Drop, TypeOK, queueVars, laneVars, resultVars, circuitVars, flushVars

\* processJob's callback on one lane keeps the types.
LEMMA TypeLane ==
  ASSUME TypeOK, NEW l \in Lanes, LaneStep(l) PROVE TypeOK'
<1> USE DEF queueVars, admissionVars, resultVars, circuitVars, laneVars, flushVars
<1>1. CASE SkipOpen(l)
  BY <1>1 DEF SkipOpen, LaneStarted, TypeOK
<1>2. CASE StartSend(l)
  BY <1>2, StateType DEF StartSend, LaneStarted, TypeOK
<1>3. CASE SendThrows(l)
  BY <1>3, StateType, FailType DEF SendThrows, LaneStarted, TypeOK, LaneStatus
<1>4. CASE SendSettles(l)
  BY <1>4 DEF SendSettles, TypeOK
<1>5. CASE TimerFires(l)
  BY <1>5 DEF TimerFires, TypeOK
<1>6. CASE LaneSent(l)
  <2>1. state[l] \in Lanes /\ NotifierOf[l] \in Notifiers
    BY ConstantTypes DEF TypeOK
  <2>2. cell' \in [Lanes -> [failures : Nat, openUntil : Nat]]
    BY <1>6, <2>1 DEF LaneSent, TypeOK
  <2>3. notifierStates' \in [Notifiers -> Lanes \cup {NoState}]
    BY <1>6, <2>1 DEF LaneSent, TypeOK
  <2> QED BY <1>6, <2>2, <2>3 DEF LaneSent, TypeOK
<1>7. CASE LaneFailed(l)
  <2>1. state[l] \in Lanes /\ cell[state[l]] \in [failures : Nat, openUntil : Nat]
    BY DEF TypeOK
  <2>2. Fail(l, state[l], cell[state[l]])
    BY <1>7 DEF LaneFailed
  <2> QED BY <1>7, <2>1, <2>2, FailType DEF LaneFailed, TypeOK, LaneStatus
<1> QED BY <1>1, <1>2, <1>3, <1>4, <1>5, <1>6, <1>7 DEF LaneStep, StartLane

\* The end of a job and the calls of flush() and close() keep the types.
LEMMA TypeJob == TypeInv /\ (CompleteJob \/ FinishJob) => TypeOK'
<1> SUFFICES ASSUME TypeOK, Stages, CompleteJob \/ FinishJob PROVE TypeOK'
  BY DEF TypeInv
<1> USE DEF admissionVars, resultVars, circuitVars, laneVars, flushVars
<1>1. CASE CompleteJob
  <2>1. Cardinality({l \in Lanes : lane[l] = "sent"}) \in Nat
        /\ Cardinality({l \in Lanes : lane[l] = "failed"}) \in Nat
    BY ConstantTypes, FS_Subset, FS_CardinalityType
  <2>2. reports' \in Seq(Report)
    BY <1>1, <2>1 DEF CompleteJob, TypeOK, Report
  <2> QED BY <1>1, <2>2 DEF CompleteJob, TypeOK
<1>2. CASE FinishJob
  <2>1. /\ pendingJobs' \in Seq(Nat) /\ activeJobs' \in 0..1
        /\ job' \in Nat /\ stage' \in {"none", "starting", "running", "reported"}
        /\ lane' \in [Lanes -> LaneStatus]
    <3>1. pendingJobs \in Seq(Nat) /\ activeJobs - 1 \in 0..1
      BY <1>2 DEF FinishJob, Stages, TypeOK
    <3> QED BY <1>2, <3>1, PumpType DEF FinishJob
  <2>2. waiter' \in [Waiters -> WaiterRecord] /\ drainWaiters' \in SUBSET Waiters
    <3>1. /\ waiter \in [Waiters -> WaiterRecord] /\ drainWaiters \in SUBSET Waiters
          /\ ResolveDrainWaiters
      BY <1>2 DEF FinishJob, TypeOK
    <3>2. ASSUME NEW w \in Waiters
          PROVE  [waiter[w] EXCEPT !.status = "resolved"] \in WaiterRecord
      BY <3>1 DEF WaiterRecord
    <3> QED BY <3>1, <3>2 DEF ResolveDrainWaiters, flushVars
  <2> QED BY <1>2, <2>1, <2>2 DEF FinishJob, TypeOK, LaneStatus
<1> QED BY <1>1, <1>2

LEMMA TypeCall ==
  ASSUME TypeOK, NEW w \in Waiters,
         CallFlush(w) \/ CallClose(w) \/ FlushExpires(w)
  PROVE  TypeOK'
<1> USE DEF queueVars, admissionVars, resultVars, circuitVars, laneVars
<1>1. CASE CallFlush(w) \/ CallClose(w)
  <2>1. PICK closing \in BOOLEAN, valid \in BOOLEAN : Flush(w, closing, valid)
    BY <1>1 DEF CallFlush, CallClose
  <2>2. waiter' \in [Waiters -> WaiterRecord] /\ drainWaiters' \in SUBSET Waiters
    BY <2>1 DEF Flush, FlushStatus, TypeOK, WaiterRecord
  <2> QED BY <1>1, <2>2 DEF CallFlush, CallClose, TypeOK
<1>2. CASE FlushExpires(w)
  BY <1>2 DEF FlushExpires, TypeOK, WaiterRecord
<1> QED BY <1>1, <1>2

LEMMA TypeNext == TypeInv /\ [Next]_vars => TypeOK'
<1> SUFFICES ASSUME TypeInv, [Next]_vars PROVE TypeOK'
  OBVIOUS
<1> USE DEF TypeInv
<1>1. CASE Accept \/ Drop
  <2>1. waiter \in [Waiters -> WaiterRecord] /\ drainWaiters \in SUBSET Waiters
    BY DEF TypeOK
  <2> QED BY <1>1, <2>1, TypeEnqueue, TypeDrop DEF Accept, flushVars
<1>2. ASSUME NEW l \in Lanes, LaneStep(l) PROVE TypeOK'
  BY <1>2, TypeLane
<1>3. CASE CompleteJob \/ FinishJob
  BY <1>3, TypeJob
<1>4. ASSUME NEW w \in Waiters, CallFlush(w) \/ CallClose(w) \/ FlushExpires(w)
      PROVE  TypeOK'
  BY <1>4, TypeCall
<1>5. CASE ClockChanges
  BY <1>5 DEF ClockChanges, TypeOK, queueVars, admissionVars, resultVars,
              circuitVars, laneVars, flushVars
<1>6. CASE UNCHANGED vars
  BY <1>6 DEF vars, TypeOK, queueVars, admissionVars, resultVars, circuitVars,
              laneVars, flushVars
<1> QED BY <1>1, <1>2, <1>3, <1>4, <1>5, <1>6 DEF Next, AtRest

-----------------------------------------------------------------------------
(* The stages of processJob are kept.                                      *)

LEMMA StagesInit == Init => Stages
  BY DEF Init, Stages, IdleFrom

LEMMA PumpStages ==
  ASSUME NEW jobs \in Seq(Nat), NEW active \in 0..1, Pump(jobs, active),
         active = 0 => UNCHANGED timer /\ \A l \in Lanes : ~timer[l],
         active = 1 => Stages /\ UNCHANGED timer /\ activeJobs = 1
  PROVE  Stages'
<1> USE ConstantTypes
<1>1. CASE active < 1 /\ jobs # <<>>
  <2>1. activeJobs' = 1 /\ stage' \in {"starting", "running"}
        /\ \A l \in Lanes : lane'[l] = "idle" /\ ~timer'[l]
    BY <1>1 DEF Pump
  <2>2. CASE NumLanes = 0
    BY <1>1, <2>1, <2>2 DEF Pump, Stages, Lanes
  <2>3. CASE NumLanes # 0
    <3>1. 1 \in Lanes /\ IdleFrom(1)' /\ stage' = "starting"
      BY <1>1, <2>1, <2>3 DEF Pump, IdleFrom, Lanes
    <3> QED BY <2>1, <3>1 DEF Stages
  <2> QED BY <2>2, <2>3
<1>2. CASE ~(active < 1 /\ jobs # <<>>) /\ active = 0
  BY <1>2 DEF Pump, Stages
<1>3. CASE active = 1
  BY <1>3 DEF Pump, Stages, IdleFrom, Settled
<1> QED BY <1>1, <1>2, <1>3

LEMMA StagesEnqueue == TypeInv /\ (Enqueue \/ Drop) => Stages'
<1> SUFFICES ASSUME TypeInv, Enqueue \/ Drop PROVE Stages'
  OBVIOUS
<1>1. CASE Enqueue
  <2>1. Append(pendingJobs, queued + 1) \in Seq(Nat) /\ activeJobs \in 0..1
    BY DEF TypeInv, TypeOK
  <2>2. Pump(Append(pendingJobs, queued + 1), activeJobs) /\ UNCHANGED timer
    BY <1>1 DEF Enqueue
  <2>3. activeJobs = 0 => \A l \in Lanes : ~timer[l]
    BY DEF TypeInv, Stages
  <2> QED BY <2>1, <2>2, <2>3, PumpStages DEF TypeInv
<1>2. CASE Drop
  BY <1>2 DEF Drop, TypeInv, Stages, IdleFrom, Settled, queueVars, laneVars
<1> QED BY <1>1, <1>2

\* Starting lane l moves the first idle lane on, or ends the synchronous run.
LEMMA StagesStart ==
  ASSUME TypeInv, NEW l \in Lanes, StartLane(l)
  PROVE  Stages'
<1> USE ConstantTypes DEF TypeInv
<1>1. PICK k \in Lanes : IdleFrom(k)
  BY DEF StartLane, SkipOpen, StartSend, SendThrows, IsNextLane, Stages
<1>2. k = l
  BY <1>1 DEF StartLane, SkipOpen, StartSend, SendThrows, IsNextLane,
              IdleFrom, Lanes
<1>3. \E st \in {"sending", "failed"} :
        /\ lane' = [lane EXCEPT ![l] = st]
        /\ \A m \in Lanes : timer'[m] => lane'[m] \in {"sending", "resolved", "rejected"}
  BY DEF StartLane, SkipOpen, StartSend, SendThrows, Fail, IsNextLane, Stages, TypeOK
<1>4. /\ stage = "starting" /\ UNCHANGED <<activeJobs, pendingJobs>>
      /\ stage' = IF l = NumLanes THEN "running" ELSE "starting"
  BY DEF StartLane, SkipOpen, StartSend, SendThrows, LaneStarted, IsNextLane
<1>5. \A m \in Lanes : lane'[m] = "idle" <=> m >= l + 1
  BY <1>1, <1>2, <1>3 DEF IdleFrom, TypeOK, Lanes
<1>6. \A m \in Lanes : lane'[m] \in {"idle", "sending", "failed"}
  BY <1>3, <1>4 DEF Stages, TypeOK
<1>7. CASE l = NumLanes
  BY <1>3, <1>4, <1>5, <1>7 DEF Stages, Lanes
<1>8. CASE l # NumLanes
  <2>1. l + 1 \in Lanes /\ IdleFrom(l + 1)'
    BY <1>5, <1>8 DEF IdleFrom, Lanes
  <2> QED BY <1>3, <1>4, <1>6, <1>8, <2>1 DEF Stages
<1> QED BY <1>7, <1>8

LEMMA StagesLane ==
  ASSUME TypeInv, NEW l \in Lanes,
         SendSettles(l) \/ TimerFires(l) \/ LaneSent(l) \/ LaneFailed(l)
  PROVE  Stages'
<1> USE DEF TypeInv, queueVars
<1>1. UNCHANGED <<pendingJobs, activeJobs, stage>>
  BY DEF SendSettles, TimerFires, LaneSent, LaneFailed
<1>2. stage = "running"
  <2>1. CASE TimerFires(l)
    BY <2>1 DEF TimerFires, MicrotasksDone, Stages, Settled, TypeOK
  <2> QED BY <2>1 DEF SendSettles, LaneSent, LaneFailed
<1>3. /\ \A m \in Lanes : lane'[m] # "idle"
      /\ \A m \in Lanes : timer'[m] => lane'[m] \in {"sending", "resolved", "rejected"}
  <2>1. CASE SendSettles(l)
    BY <1>2, <2>1 DEF SendSettles, Stages, TypeOK
  <2>2. CASE TimerFires(l)
    BY <1>2, <2>2 DEF TimerFires, Stages, TypeOK
  <2>3. CASE LaneSent(l)
    BY <1>2, <2>3 DEF LaneSent, Stages, TypeOK
  <2>4. CASE LaneFailed(l)
    BY <1>2, <2>4 DEF LaneFailed, Fail, Stages, TypeOK
  <2> QED BY <2>1, <2>2, <2>3, <2>4
<1> QED BY <1>1, <1>2, <1>3 DEF Stages

LEMMA StagesJob == TypeInv /\ (CompleteJob \/ FinishJob) => Stages'
<1> SUFFICES ASSUME TypeInv, CompleteJob \/ FinishJob PROVE Stages'
  OBVIOUS
<1> USE DEF TypeInv
<1>1. CASE CompleteJob
  BY <1>1 DEF CompleteJob, Stages, Settled, laneVars
<1>2. CASE FinishJob
  <2>1. activeJobs - 1 = 0 /\ pendingJobs \in Seq(Nat)
    BY <1>2 DEF FinishJob, Stages, TypeOK
  <2>2. UNCHANGED timer /\ \A l \in Lanes : ~timer[l]
    BY <1>2 DEF FinishJob, Stages, Settled
  <2>3. Pump(pendingJobs, 0)
    BY <1>2, <2>1 DEF FinishJob
  <2> QED BY <2>1, <2>2, <2>3, PumpStages
<1> QED BY <1>1, <1>2

\* Steps that leave the active job alone keep its stage.
LEMMA StagesOther ==
  ASSUME Stages, UNCHANGED <<queueVars, laneVars>> PROVE Stages'
  BY DEF queueVars, laneVars, Stages, IdleFrom, Settled

LEMMA StagesNext == TypeInv /\ [Next]_vars => Stages'
<1> SUFFICES ASSUME TypeInv, [Next]_vars PROVE Stages'
  OBVIOUS
<1>1. CASE Accept \/ Drop
  BY <1>1, StagesEnqueue DEF Accept
<1>2. ASSUME NEW l \in Lanes, LaneStep(l) PROVE Stages'
  BY <1>2, StagesStart, StagesLane DEF LaneStep
<1>3. CASE CompleteJob \/ FinishJob
  BY <1>3, StagesJob
<1>4. ASSUME NEW w \in Waiters, CallFlush(w) \/ CallClose(w) \/ FlushExpires(w)
      PROVE  Stages'
  BY <1>4, StagesOther DEF TypeInv, CallFlush, CallClose, FlushExpires
<1>5. CASE ClockChanges \/ UNCHANGED vars
  BY <1>5, StagesOther DEF TypeInv, ClockChanges, vars
<1> QED BY <1>1, <1>2, <1>3, <1>4, <1>5 DEF Next, AtRest

\* The type invariant of the queue: whatever order calls, sends, timers and
\* completions come in, activeJobs is 0 or 1 (the queue has one worker), no
\* lane is in an undefined state and the counters stay natural numbers.
THEOREM TypeCorrect == Spec => []TypeInv
<1>1. Init => TypeInv
  BY TypeInit, StagesInit DEF TypeInv
<1>2. TypeInv /\ [Next]_vars => TypeInv'
  BY TypeNext, StagesNext DEF TypeInv
<1> QED BY <1>1, <1>2, PTL DEF Spec

THEOREM TypesHold == Spec => []TypeOK
  BY TypeCorrect, PTL DEF TypeInv

-----------------------------------------------------------------------------
(* Counting lanes.                                                         *)

LEMMA CountTypes ==
  /\ IsFiniteSet(SettledLanes) /\ Cardinality(SettledLanes) \in Nat
  /\ IsFiniteSet(ExpiredLanes) /\ Cardinality(ExpiredLanes) \in Nat
<1>1. IsFiniteSet(SettledLanes) /\ IsFiniteSet(ExpiredLanes)
  BY ConstantTypes, FS_Subset DEF SettledLanes, ExpiredLanes
<1> QED BY <1>1, FS_CardinalityType

LEMMA CountSettles ==
  ASSUME TypeOK, NEW l \in Lanes, ~Settled(l), NEW st \in {"sent", "failed"},
         lane' = [lane EXCEPT ![l] = st]
  PROVE  Cardinality(SettledLanes') = Cardinality(SettledLanes) + 1
<1>1. SettledLanes' = SettledLanes \cup {l} /\ l \notin SettledLanes
  BY DEF SettledLanes, Settled, TypeOK
<1> QED BY <1>1, CountTypes, FS_AddElement

LEMMA CountUnsettled ==
  ASSUME TypeOK, NEW l \in Lanes, ~Settled(l), NEW st, st \notin {"sent", "failed"},
         lane' = [lane EXCEPT ![l] = st]
  PROVE  SettledLanes' = SettledLanes
BY DEF SettledLanes, Settled, TypeOK

LEMMA CountAll ==
  ASSUME \A l \in Lanes : Settled(l)
  PROVE  Cardinality(SettledLanes) = NumLanes
<1>1. SettledLanes = Lanes
  BY DEF SettledLanes
<1> QED BY <1>1, ConstantTypes

LEMMA CountNone ==
  ASSUME \A l \in Lanes : lane[l] = "idle"
  PROVE  Cardinality(SettledLanes) = 0 /\ Cardinality(ExpiredLanes) = 0
<1>1. SettledLanes = {} /\ ExpiredLanes = {}
  BY DEF SettledLanes, ExpiredLanes, Settled
<1> QED BY <1>1, FS_EmptySet

-----------------------------------------------------------------------------
(* Accounting: jobs are numbered in the order of acceptance, and the worker *)
(* always holds the oldest one that is not reported.                       *)

Ordered ==
  /\ \A i \in DOMAIN pendingJobs : pendingJobs[i] = Len(reports) + InProcess + i
  /\ InProcess = 1 => job = Len(reports) + 1

Balance == JobsBalance /\ LanesBalance /\ Ordered

\* What pump() does to the balance, from a call that leaves `jobs` waiting and
\* the worker free or busy.
LEMMA PumpBalance ==
  ASSUME TypeInv, NEW jobs \in Seq(Nat), NEW active \in 0..1, Pump(jobs, active),
         active = 0 => InProcess = 0,
         \A i \in DOMAIN jobs : jobs[i] = Len(reports) + InProcess + i,
         InProcess = 1 => job = Len(reports) + 1,
         UNCHANGED reports
  PROVE  /\ Len(pendingJobs') + InProcess' = Len(jobs) + InProcess
         /\ InProcess' = 1 => \/ InProcess = 1 /\ UNCHANGED lane
                              \/ \A l \in Lanes : lane'[l] = "idle"
         /\ Ordered'
<1> USE DEF TypeInv
<1>1. InProcess \in {0, 1}
  BY DEF InProcess
<1>2. CASE active = 0 /\ jobs # <<>>
  <2>1. pendingJobs' = Tail(jobs) /\ job' = Head(jobs) /\ InProcess' = 1
        /\ \A l \in Lanes : lane'[l] = "idle"
    BY <1>2 DEF Pump, InProcess
  <2>2. InProcess = 0
    BY <1>2
  <2>3. Len(Tail(jobs)) = Len(jobs) - 1 /\ 1 \in DOMAIN jobs /\ Head(jobs) = jobs[1]
        /\ \A i \in DOMAIN Tail(jobs) : i + 1 \in DOMAIN jobs /\ Tail(jobs)[i] = jobs[i + 1]
    BY <1>2
  <2>4. Ordered'
    BY <2>1, <2>2, <2>3 DEF Ordered, TypeOK
  <2> QED BY <2>1, <2>2, <2>3, <2>4
<1>3. CASE active = 0 /\ jobs = <<>>
  <2>1. pendingJobs' = <<>> /\ InProcess' = 0
    BY <1>3 DEF Pump, InProcess
  <2>2. InProcess = 0
    BY <1>3
  <2> QED BY <1>3, <2>1, <2>2 DEF Ordered
<1>4. CASE active = 1
  <2>1. pendingJobs' = jobs /\ UNCHANGED <<lane, stage, job>> /\ InProcess' = InProcess
    BY <1>4 DEF Pump, InProcess
  <2> QED BY <2>1 DEF Ordered
<1> QED BY <1>2, <1>3, <1>4

LEMMA BalanceInit == Init => Balance
<1> SUFFICES ASSUME Init PROVE Balance
  OBVIOUS
<1>1. InProcess = 0 /\ reports = <<>> /\ pendingJobs = <<>> /\ queued = 0
      /\ sent = 0 /\ failures = 0
  BY DEF Init, InProcess
<1>2. NumLanes * Len(reports) = 0
  BY <1>1, ConstantTypes
<1> QED BY <1>1, <1>2 DEF Balance, JobsBalance, LanesBalance, Ordered

\* The balance depends on these variables only.
LEMMA BalanceSame ==
  ASSUME Balance,
         UNCHANGED <<queued, queueVars, lane, sent, failures, reports>>
  PROVE  Balance'
BY DEF Balance, JobsBalance, LanesBalance, SettledLanes, Ordered,
       InProcess, Settled, queueVars

LEMMA LaneTotalType ==
  ASSUME TypeOK PROVE NumLanes * Len(reports) \in Nat
<1>1. Len(reports) \in Nat
  BY DEF TypeOK
<1> QED BY <1>1, ConstantTypes

\* pump() moves jobs and clears lanes; no lane outcome is lost or added.
LEMMA PumpLanes ==
  ASSUME TypeInv, LanesBalance, UNCHANGED <<reports, sent, failures>>,
         InProcess' = 1 => \/ InProcess = 1 /\ UNCHANGED lane
                           \/ InProcess = 0 /\ \A l \in Lanes : lane'[l] = "idle",
         InProcess' = 0 => InProcess = 0
  PROVE  LanesBalance'
<1>1. CASE InProcess' = 1 /\ InProcess = 1 /\ UNCHANGED lane
  BY <1>1 DEF LanesBalance, SettledLanes, Settled
<1>2. CASE InProcess' = 1 /\ InProcess = 0 /\ \A l \in Lanes : lane'[l] = "idle"
  <2>1. SettledLanes' = {}
    BY <1>2 DEF SettledLanes, Settled
  <2>2. Cardinality(SettledLanes') = 0
    BY <2>1, FS_EmptySet
  <2> QED BY <1>2, <2>2, LaneTotalType DEF LanesBalance, TypeInv
<1>3. CASE InProcess' = 0 /\ InProcess = 0
  BY <1>3 DEF LanesBalance
<1> QED BY <1>1, <1>2, <1>3 DEF InProcess

LEMMA BalanceEnqueue == TypeInv /\ Balance /\ Enqueue => Balance'
<1> SUFFICES ASSUME TypeInv, Balance, Enqueue PROVE Balance'
  OBVIOUS
<1> DEFINE jobs == Append(pendingJobs, queued + 1)
<1>1. /\ pendingJobs \in Seq(Nat) /\ queued \in Nat /\ Len(reports) \in Nat
      /\ activeJobs \in 0..1 /\ InProcess \in 0..1
  BY QueueAssumption DEF TypeInv, TypeOK, InProcess
<1>2. /\ Pump(jobs, activeJobs)
      /\ queued' = queued + 1 /\ UNCHANGED <<reports, sent, failures>>
  BY DEF Enqueue, resultVars
<1>3. activeJobs = 0 => InProcess = 0
  BY DEF TypeInv, Stages, InProcess
<1>4. queued = Len(pendingJobs) + InProcess + Len(reports)
  BY DEF Balance, JobsBalance
<1>5. jobs \in Seq(Nat) /\ Len(jobs) = Len(pendingJobs) + 1
      /\ \A i \in DOMAIN jobs : jobs[i] = Len(reports) + InProcess + i
  <2>1. queued + 1 \in Nat /\ queued + 1 = Len(reports) + InProcess + (Len(pendingJobs) + 1)
    BY <1>1, <1>4
  <2>2. /\ jobs \in Seq(Nat) /\ Len(jobs) = Len(pendingJobs) + 1
        /\ jobs[Len(pendingJobs) + 1] = queued + 1
        /\ \A i \in 1..Len(pendingJobs) : jobs[i] = pendingJobs[i]
    BY <1>1, <2>1
  <2>3. \A i \in 1..Len(pendingJobs) : pendingJobs[i] = Len(reports) + InProcess + i
    BY <1>1 DEF Balance, Ordered
  <2> QED BY <1>1, <2>1, <2>2, <2>3
<1>6. InProcess = 1 => job = Len(reports) + 1
  BY DEF Balance, Ordered
<1> HIDE DEF jobs
<1>7. /\ Len(pendingJobs') + InProcess' = Len(jobs) + InProcess
      /\ InProcess' = 1 => \/ InProcess = 1 /\ UNCHANGED lane
                           \/ \A l \in Lanes : lane'[l] = "idle"
      /\ Ordered'
  BY <1>1, <1>2, <1>3, <1>5, <1>6, PumpBalance
<1>8. JobsBalance'
  <2>1. pendingJobs' \in Seq(Nat)
    BY <1>1, <1>2, <1>5, PumpType DEF TypeInv
  <2>2. Len(pendingJobs') \in Nat /\ InProcess' \in 0..1
    BY <2>1 DEF InProcess
  <2> QED BY <1>1, <1>2, <1>4, <1>5, <1>7, <2>2 DEF JobsBalance
<1>9. InProcess = 1 => InProcess' = 1 /\ UNCHANGED lane
  BY <1>2, <1>3, <1>1 DEF Pump, InProcess
<1>10. LanesBalance'
  <2>1. /\ InProcess' = 1 => \/ InProcess = 1 /\ UNCHANGED lane
                             \/ InProcess = 0 /\ \A l \in Lanes : lane'[l] = "idle"
        /\ InProcess' = 0 => InProcess = 0
    BY <1>1, <1>7, <1>9
  <2>2. LanesBalance /\ UNCHANGED <<reports, sent, failures>>
    BY <1>2 DEF Balance
  <2> QED BY <2>1, <2>2, PumpLanes
<1> QED BY <1>7, <1>8, <1>10 DEF Balance

\* A lane counts one sent alert or one failure exactly when it settles.
LEMMA BalanceLane ==
  ASSUME TypeInv, Balance, NEW l \in Lanes, LaneStep(l)
  PROVE  Balance'
<1> USE DEF TypeInv, queueVars, admissionVars
<1>1. /\ UNCHANGED <<queued, pendingJobs, job, reports>>
      /\ stage \in {"starting", "running"} /\ stage' \in {"starting", "running"}
  <2>1. CASE TimerFires(l)
    BY <2>1 DEF TimerFires, MicrotasksDone, Stages, TypeOK
  <2> QED BY <2>1 DEF LaneStep, StartLane, SkipOpen, StartSend, SendThrows,
            LaneStarted, IsNextLane, SendSettles, LaneSent, LaneFailed
<1>2. InProcess = 1 /\ InProcess' = 1
  BY <1>1 DEF InProcess
<1>3. sent' + failures' + Cardinality(SettledLanes)
        = sent + failures + Cardinality(SettledLanes')
  <2>1. CASE SkipOpen(l) \/ SendThrows(l) \/ LaneSent(l) \/ LaneFailed(l)
    <3>1. /\ ~Settled(l)
          /\ \E st \in {"sent", "failed"} : lane' = [lane EXCEPT ![l] = st]
      BY <2>1 DEF SkipOpen, SendThrows, LaneSent, LaneFailed, Fail, IsNextLane, Settled
    <3>2. sent' + failures' = sent + failures + 1
      BY <2>1 DEF SkipOpen, SendThrows, LaneSent, LaneFailed, Fail, LaneStarted, TypeOK
    <3>3. Cardinality(SettledLanes') = Cardinality(SettledLanes) + 1
      BY <3>1, CountSettles
    <3> QED BY <3>2, <3>3, CountTypes DEF TypeOK
  <2>2. CASE StartSend(l) \/ SendSettles(l) \/ TimerFires(l)
    <3>1. SettledLanes' = SettledLanes
      BY <2>2 DEF StartSend, SendSettles, TimerFires, IsNextLane, Stages,
                  SettledLanes, Settled, TypeOK
    <3>2. UNCHANGED <<sent, failures>>
      BY <2>2 DEF StartSend, SendSettles, TimerFires, LaneStarted, resultVars
    <3> QED BY <3>1, <3>2
  <2> QED BY <2>1, <2>2 DEF LaneStep, StartLane
<1>4. LanesBalance'
  <2>1. sent + failures = NumLanes * Len(reports) + Cardinality(SettledLanes)
    BY <1>2 DEF Balance, LanesBalance
  <2>2. TypeOK'
    BY TypeLane
  <2>3. /\ sent \in Nat /\ failures \in Nat /\ sent' \in Nat /\ failures' \in Nat
        /\ Cardinality(SettledLanes) \in Nat /\ Cardinality(SettledLanes') \in Nat
        /\ NumLanes * Len(reports) \in Nat
    <3>1. Cardinality(SettledLanes') \in Nat
      BY ConstantTypes, FS_Subset, FS_CardinalityType DEF SettledLanes
    <3> QED BY <2>2, <3>1, CountTypes, LaneTotalType DEF TypeOK
  <2>4. sent' + failures' = NumLanes * Len(reports) + Cardinality(SettledLanes')
    BY <1>3, <2>1, <2>3
  <2> QED BY <1>1, <1>2, <2>4 DEF LanesBalance
<1>5. JobsBalance' /\ Ordered'
  BY <1>1, <1>2 DEF Balance, JobsBalance, Ordered
<1> QED BY <1>4, <1>5 DEF Balance

\* The report of a job closes its account: all its lanes have settled.
LEMMA BalanceComplete == TypeInv /\ Balance /\ CompleteJob => Balance'
<1> SUFFICES ASSUME TypeInv, Balance, CompleteJob PROVE Balance'
  OBVIOUS
<1>1. /\ stage = "running" /\ stage' = "reported"
      /\ UNCHANGED <<queued, pendingJobs, job, sent, failures, lane>>
      /\ \A l \in Lanes : Settled(l)
  BY DEF CompleteJob, admissionVars, resultVars, laneVars
<1>2. InProcess = 1 /\ InProcess' = 0
  BY <1>1 DEF InProcess
<1>3. Len(reports') = Len(reports) + 1 /\ Len(reports) \in Nat
  BY DEF CompleteJob, TypeInv, TypeOK
<1>4. Cardinality(SettledLanes) = NumLanes
  BY <1>1, CountAll
<1>5. NumLanes * (Len(reports) + 1) = NumLanes * Len(reports) + NumLanes
  BY <1>3, ConstantTypes
<1>6. LanesBalance'
  <2>1. sent + failures = NumLanes * Len(reports) + NumLanes
    BY <1>2, <1>4 DEF Balance, LanesBalance
  <2>2. sent' + failures' = NumLanes * Len(reports')
    BY <1>1, <1>3, <1>5, <2>1
  <2>3. NumLanes * Len(reports') \in Nat
    BY <1>3, ConstantTypes
  <2> QED BY <1>2, <2>2, <2>3 DEF LanesBalance
<1>7. JobsBalance' /\ Ordered'
  BY <1>1, <1>2, <1>3 DEF Balance, JobsBalance, Ordered, TypeInv, TypeOK
<1> QED BY <1>6, <1>7 DEF Balance

\* The finally callback frees the worker and pumps the next job.
LEMMA BalanceFinish == TypeInv /\ Balance /\ FinishJob => Balance'
<1> SUFFICES ASSUME TypeInv, Balance, FinishJob PROVE Balance'
  OBVIOUS
<1>1. /\ pendingJobs \in Seq(Nat) /\ Pump(pendingJobs, 0) /\ InProcess = 0
      /\ UNCHANGED <<queued, reports, sent, failures>>
  BY DEF FinishJob, TypeInv, TypeOK, Stages, InProcess, admissionVars, resultVars
<1>2. \A i \in DOMAIN pendingJobs : pendingJobs[i] = Len(reports) + InProcess + i
  BY DEF Balance, Ordered
<1>3. /\ Len(pendingJobs') + InProcess' = Len(pendingJobs) + InProcess
      /\ InProcess' = 1 => \/ InProcess = 1 /\ UNCHANGED lane
                           \/ \A l \in Lanes : lane'[l] = "idle"
      /\ Ordered'
  BY <1>1, <1>2, PumpBalance
<1>4. LanesBalance'
  BY <1>1, <1>3, PumpLanes DEF Balance
<1>5. JobsBalance'
  BY <1>1, <1>3 DEF Balance, JobsBalance
<1> QED BY <1>3, <1>4, <1>5 DEF Balance

LEMMA BalanceNext == TypeInv /\ Balance /\ [Next]_vars => Balance'
<1> SUFFICES ASSUME TypeInv, Balance, [Next]_vars PROVE Balance'
  OBVIOUS
<1>1. CASE Accept
  BY <1>1, BalanceEnqueue DEF Accept
<1>2. CASE Drop
  BY <1>2, BalanceSame DEF Drop, laneVars, resultVars
<1>3. ASSUME NEW l \in Lanes, LaneStep(l) PROVE Balance'
  BY <1>3, BalanceLane
<1>4. CASE CompleteJob \/ FinishJob
  BY <1>4, BalanceComplete, BalanceFinish
<1>5. ASSUME NEW w \in Waiters, CallFlush(w) \/ CallClose(w) \/ FlushExpires(w)
      PROVE  Balance'
  BY <1>5, BalanceSame DEF CallFlush, CallClose, FlushExpires, admissionVars,
                           laneVars, resultVars
<1>6. CASE ClockChanges \/ UNCHANGED vars
  BY <1>6, BalanceSame DEF ClockChanges, vars, admissionVars, laneVars, resultVars
<1> QED BY <1>1, <1>2, <1>3, <1>4, <1>5, <1>6 DEF Next, AtRest

\* The published counters balance in every state, and the worker takes the
\* alerts in the order in which they were accepted.
THEOREM BalanceHolds == Spec => []Balance
<1>1. TypeInv /\ Balance /\ [Next]_vars => Balance'
  BY BalanceNext
<1> QED BY BalanceInit, TypeCorrect, <1>1, PTL DEF Spec

-----------------------------------------------------------------------------
(* A timeout is counted by the timer, its failure by the catch block in a   *)
(* later microtask: in between the lane is in ExpiredLanes.                 *)

LEMMA ExpiredAdd ==
  ASSUME TypeOK, NEW l \in Lanes, lane[l] # "expired",
         lane' = [lane EXCEPT ![l] = "expired"]
  PROVE  Cardinality(ExpiredLanes') = Cardinality(ExpiredLanes) + 1
<1>1. ExpiredLanes' = ExpiredLanes \cup {l} /\ l \notin ExpiredLanes
  BY DEF ExpiredLanes, TypeOK
<1> QED BY <1>1, CountTypes, FS_AddElement

LEMMA ExpiredSame ==
  ASSUME TypeOK, NEW l \in Lanes, lane[l] # "expired", NEW st, st # "expired",
         lane' = [lane EXCEPT ![l] = st]
  PROVE  ExpiredLanes' = ExpiredLanes
BY DEF ExpiredLanes, TypeOK

LEMMA ExpiredRemove ==
  ASSUME TypeOK, NEW l \in Lanes, lane[l] = "expired",
         lane' = [lane EXCEPT ![l] = "failed"]
  PROVE  Cardinality(ExpiredLanes') = Cardinality(ExpiredLanes) - 1
<1>1. ExpiredLanes' = ExpiredLanes \ {l} /\ l \in ExpiredLanes
  BY DEF ExpiredLanes, TypeOK
<1> QED BY <1>1, CountTypes, FS_RemoveElement

LEMMA ExpiredPump ==
  ASSUME NEW jobs, NEW active \in 0..1, Pump(jobs, active),
         ExpiredLanes # {} => active = 1
  PROVE  ExpiredLanes' = ExpiredLanes
<1>1. CASE active = 0
  <2>1. ExpiredLanes = {}
    BY <1>1
  <2>2. (\A l \in Lanes : lane'[l] = "idle") \/ UNCHANGED lane
    BY DEF Pump
  <2> QED BY <2>1, <2>2 DEF ExpiredLanes
<1>2. CASE active = 1
  BY <1>2 DEF Pump, ExpiredLanes
<1> QED BY <1>1, <1>2

LEMMA TimeoutsLane ==
  ASSUME TypeInv, TimeoutsAreFailures, NEW l \in Lanes, LaneStep(l)
  PROVE  TimeoutsAreFailures'
<1> USE DEF TypeInv
<1>1. TypeOK'
  BY TypeLane
<1>2. /\ timeouts \in Nat /\ circuitOpenSkips \in Nat /\ failures \in Nat
      /\ Cardinality(ExpiredLanes) \in Nat
      /\ timeouts + circuitOpenSkips <= failures + Cardinality(ExpiredLanes)
  BY CountTypes DEF TypeOK, TimeoutsAreFailures
<1>3. CASE SkipOpen(l)
  <2>1. ExpiredLanes' = ExpiredLanes
    BY <1>3, ExpiredSame DEF SkipOpen, IsNextLane
  <2>2. timeouts' = timeouts /\ circuitOpenSkips' = circuitOpenSkips + 1
        /\ failures' = failures + 1
    BY <1>3 DEF SkipOpen, LaneStarted
  <2> QED BY <1>2, <2>1, <2>2 DEF TimeoutsAreFailures
<1>4. CASE StartSend(l) \/ SendSettles(l) \/ LaneSent(l)
  <2>1. ExpiredLanes' = ExpiredLanes
    BY <1>4, ExpiredSame DEF StartSend, SendSettles, LaneSent, IsNextLane
  <2>2. UNCHANGED <<timeouts, circuitOpenSkips, failures>>
    BY <1>4 DEF StartSend, SendSettles, LaneSent, LaneStarted, resultVars
  <2> QED BY <1>2, <2>1, <2>2 DEF TimeoutsAreFailures
<1>5. CASE SendThrows(l)
  <2>1. ExpiredLanes' = ExpiredLanes
    BY <1>5, ExpiredSame DEF SendThrows, Fail, IsNextLane
  <2>2. UNCHANGED <<timeouts, circuitOpenSkips>> /\ failures' = failures + 1
    BY <1>5 DEF SendThrows, Fail, LaneStarted
  <2> QED BY <1>2, <2>1, <2>2 DEF TimeoutsAreFailures
<1>6. CASE TimerFires(l)
  <2>1. lane[l] = "sending"
    BY <1>6 DEF TimerFires, MicrotasksDone, Stages, Decided
  <2>2. Cardinality(ExpiredLanes') = Cardinality(ExpiredLanes) + 1
    BY <1>6, <2>1, ExpiredAdd DEF TimerFires
  <2>3. timeouts' = timeouts + 1 /\ UNCHANGED <<circuitOpenSkips, failures>>
    BY <1>6 DEF TimerFires
  <2> QED BY <1>2, <2>2, <2>3 DEF TimeoutsAreFailures
<1>7. CASE LaneFailed(l)
  <2>1. UNCHANGED <<timeouts, circuitOpenSkips>> /\ failures' = failures + 1
        /\ lane' = [lane EXCEPT ![l] = "failed"]
        /\ lane[l] \in {"rejected", "expired"}
    BY <1>7 DEF LaneFailed, Fail
  <2>2. CASE lane[l] = "expired"
    <3>1. Cardinality(ExpiredLanes') = Cardinality(ExpiredLanes) - 1
      BY <2>1, <2>2, ExpiredRemove
    <3> QED BY <1>2, <2>1, <3>1 DEF TimeoutsAreFailures
  <2>3. CASE lane[l] = "rejected"
    <3>1. ExpiredLanes' = ExpiredLanes
      BY <2>1, <2>3, ExpiredSame
    <3> QED BY <1>2, <2>1, <3>1 DEF TimeoutsAreFailures
  <2> QED BY <2>1, <2>2, <2>3
<1> QED BY <1>3, <1>4, <1>5, <1>6, <1>7 DEF LaneStep, StartLane

LEMMA TimeoutsPump ==
  ASSUME TypeInv, TimeoutsAreFailures, Enqueue \/ FinishJob
  PROVE  TimeoutsAreFailures'
<1>1. ExpiredLanes # {} => activeJobs = 1 /\ stage # "reported"
  <2> SUFFICES ASSUME NEW l \in Lanes, lane[l] = "expired"
               PROVE  activeJobs = 1 /\ stage # "reported"
    BY DEF ExpiredLanes
  <2>1. stage # "none" /\ stage # "reported"
    BY DEF TypeInv, Stages, Settled
  <2>2. activeJobs # 0 /\ activeJobs \in 0..1
    BY <2>1 DEF TypeInv, Stages, TypeOK
  <2> QED BY <2>1, <2>2
<1>2. \E jobs : \E active \in 0..1 :
        Pump(jobs, active) /\ (ExpiredLanes # {} => active = 1)
  <2>1. CASE Enqueue
    <3>1. activeJobs \in 0..1
      BY DEF TypeInv, TypeOK
    <3> QED BY <1>1, <2>1, <3>1 DEF Enqueue
  <2>2. CASE FinishJob
    <3>1. activeJobs - 1 \in 0..1
      BY <2>2 DEF FinishJob, TypeInv, Stages, TypeOK
    <3> QED BY <1>1, <2>2, <3>1 DEF FinishJob
  <2> QED BY <2>1, <2>2
<1>3. ExpiredLanes' = ExpiredLanes
  BY <1>2, ExpiredPump
<1> QED BY <1>3 DEF Enqueue, FinishJob, resultVars, TimeoutsAreFailures

LEMMA TimeoutsNext == TypeInv /\ TimeoutsAreFailures /\ [Next]_vars => TimeoutsAreFailures'
<1> SUFFICES ASSUME TypeInv, TimeoutsAreFailures, [Next]_vars
             PROVE  TimeoutsAreFailures'
  OBVIOUS
<1>1. ASSUME NEW l \in Lanes, LaneStep(l) PROVE TimeoutsAreFailures'
  BY <1>1, TimeoutsLane
<1>2. CASE Accept \/ FinishJob
  BY <1>2, TimeoutsPump DEF Accept
<1>3. CASE UNCHANGED <<lane, resultVars>>
  BY <1>3 DEF resultVars, TimeoutsAreFailures, ExpiredLanes
<1>4. CASE Drop \/ CompleteJob \/ ClockChanges \/ UNCHANGED vars
  BY <1>3, <1>4 DEF Drop, CompleteJob, ClockChanges, vars, laneVars
<1>5. ASSUME NEW w \in Waiters, CallFlush(w) \/ CallClose(w) \/ FlushExpires(w)
      PROVE  TimeoutsAreFailures'
  BY <1>3, <1>5 DEF CallFlush, CallClose, FlushExpires, laneVars
<1> QED BY <1>1, <1>2, <1>4, <1>5 DEF Next, AtRest

\* No late answer turns a counted timeout into a delivery, for any number of
\* notifiers and any interleaving of their timers.
THEOREM TimeoutsHold == Spec => []TimeoutsAreFailures
<1>1. Init => TimeoutsAreFailures
  <2> SUFFICES ASSUME Init PROVE TimeoutsAreFailures
    OBVIOUS
  <2>1. Cardinality(ExpiredLanes) = 0
    BY CountNone DEF Init
  <2> QED BY <2>1 DEF Init, TimeoutsAreFailures
<1>2. TypeInv /\ TimeoutsAreFailures /\ [Next]_vars => TimeoutsAreFailures'
  BY TimeoutsNext
<1> QED BY <1>1, <1>2, TypeCorrect, PTL DEF Spec

\* The counters that the host reads balance in every state: each accepted
\* alert and each lane is counted once, and timeouts only among the failures.
THEOREM AccountingHolds == Spec => []Accounting
<1>1. Balance /\ TimeoutsAreFailures => Accounting
  BY DEF Balance, Accounting
<1> QED BY <1>1, BalanceHolds, TimeoutsHold, PTL

-----------------------------------------------------------------------------
(* flush() and close().  That a resolved call has waited long enough rests *)
(* on the balance: an idle queue has reported everything it accepted.      *)

Waits ==
  /\ NoLostWakeup
  /\ FlushCovers
  /\ \A w \in Waiters : waiter[w].mark <= queued
  /\ \A w \in Waiters : waiter[w].closing => closed
  /\ \A w \in Waiters :
       waiter[w].status = "resolved" /\ waiter[w].closing => Idle

LEMMA IdleReportedAll ==
  ASSUME TypeInv, Balance, Idle
  PROVE  Len(reports) = queued
<1>1. InProcess = 0 /\ Len(pendingJobs) = 0
  BY DEF Idle, TypeInv, Stages, InProcess
<1> QED BY <1>1 DEF Balance, JobsBalance, TypeInv, TypeOK

LEMMA WaitsInit == Init => Waits
BY DEF Init, Waits, NoLostWakeup, FlushCovers, Idle

\* Steps that make no call and end no job.
LEMMA WaitsSame ==
  ASSUME Waits, TypeInv, TypeInv', UNCHANGED flushVars,
         activeJobs = 1 => activeJobs' = 1,
         closed => closed', queued' >= queued, Len(reports') >= Len(reports),
         closed /\ Idle => Idle'
  PROVE  Waits'
<1>1. /\ queued \in Nat /\ queued' \in Nat
      /\ Len(reports) \in Nat /\ Len(reports') \in Nat
      /\ \A w \in Waiters : waiter[w].mark \in Nat
  BY QueueAssumption DEF TypeInv, TypeOK, WaiterRecord
<1>2. NoLostWakeup'
  BY DEF Waits, NoLostWakeup, flushVars
<1>3. FlushCovers'
  BY <1>1 DEF Waits, FlushCovers, flushVars
<1>4. \A w \in Waiters : waiter'[w].mark <= queued'
  BY <1>1 DEF Waits, flushVars
<1> QED BY <1>2, <1>3, <1>4 DEF Waits, flushVars

LEMMA WaitsCall ==
  ASSUME TypeInv, TypeInv', Balance, Waits, NEW w \in Waiters,
         NEW closing \in BOOLEAN, NEW valid \in BOOLEAN,
         Flush(w, closing, valid), closing => closed', closed => closed',
         UNCHANGED <<activeJobs, pendingJobs, queued, reports>>
  PROVE  Waits'
<1> USE DEF TypeInv
<1>1. /\ waiter'[w] = [status |-> FlushStatus(valid), closing |-> closing, mark |-> queued]
      /\ \A v \in Waiters \ {w} : waiter'[v] = waiter[v]
      /\ drainWaiters \subseteq drainWaiters'
      /\ FlushStatus(valid) = "waiting" => w \in drainWaiters'
  BY DEF Flush, TypeOK
<1>2. FlushStatus(valid) = "waiting" => activeJobs = 1
  BY DEF FlushStatus, Idle, Stages, TypeOK
<1>3. FlushStatus(valid) = "resolved" => Idle /\ Len(reports) = queued
  BY IdleReportedAll DEF FlushStatus
<1>4. queued \in Nat
  BY QueueAssumption DEF TypeOK
<1>5. NoLostWakeup'
  BY <1>1, <1>2 DEF Waits, NoLostWakeup
<1>6. FlushCovers'
  BY <1>1, <1>3, <1>4 DEF Waits, FlushCovers
<1>7. Idle' <=> Idle
  BY DEF Idle
<1> QED BY <1>1, <1>3, <1>4, <1>5, <1>6, <1>7 DEF Waits

LEMMA WaitsFinish ==
  ASSUME TypeInv, TypeInv', Balance, Balance', Waits, FinishJob
  PROVE  Waits'
<1> USE DEF TypeInv
<1>1. /\ UNCHANGED <<closed, queued, reports>> /\ activeJobs = 1 /\ queued \in Nat
      /\ ResolveDrainWaiters /\ waiter \in [Waiters -> WaiterRecord]
  BY QueueAssumption DEF FinishJob, admissionVars, Stages, TypeOK
<1>2. CASE Idle'
  <2>1. Len(reports') = queued'
    BY <1>2, IdleReportedAll DEF Idle, InProcess, Stages, TypeOK, Balance,
       JobsBalance
  <2>2. waiter' = [w \in Waiters |->
                     IF w \in drainWaiters /\ waiter[w].status = "waiting"
                     THEN [waiter[w] EXCEPT !.status = "resolved"] ELSE waiter[w]]
    BY <1>1, <1>2 DEF ResolveDrainWaiters, Idle
  <2>3. \A w \in Waiters : /\ waiter'[w].status # "waiting"
                           /\ waiter'[w].mark = waiter[w].mark
                           /\ waiter'[w].closing = waiter[w].closing
    BY <1>1, <2>2 DEF Waits, NoLostWakeup, WaiterRecord
  <2> QED BY <1>1, <1>2, <2>1, <2>3 DEF Waits, NoLostWakeup, FlushCovers
<1>3. CASE ~Idle'
  <2>1. UNCHANGED flushVars
    BY <1>1, <1>3 DEF ResolveDrainWaiters, Idle
  <2>2. activeJobs' = 1
    BY <1>3 DEF Idle, Stages, TypeOK
  <2>3. ~Idle
    BY <1>1 DEF Idle
  <2> QED BY <1>1, <2>1, <2>2, <2>3 DEF Waits, NoLostWakeup, FlushCovers, flushVars
<1> QED BY <1>2, <1>3

LEMMA WaitsNext ==
  TypeInv /\ TypeInv' /\ Balance /\ Balance' /\ Waits /\ [Next]_vars => Waits'
<1> SUFFICES ASSUME TypeInv, TypeInv', Balance, Balance', Waits, [Next]_vars
             PROVE  Waits'
  OBVIOUS
<1>0. queued \in Nat /\ Len(reports) \in Nat /\ reports \in Seq(Report)
  BY QueueAssumption DEF TypeInv, TypeOK
<1>1. CASE Accept
  <2>1. activeJobs = 1 => activeJobs' = 1
    BY <1>1 DEF Accept, Enqueue, Pump
  <2> QED BY <1>0, <1>1, <2>1, WaitsSame DEF Accept, Enqueue, Refuses
<1>2. ASSUME NEW l \in Lanes, LaneStep(l) PROVE Waits'
  <2>1. UNCHANGED <<flushVars, activeJobs, pendingJobs, closed, queued, reports>>
    BY <1>2 DEF LaneStep, StartLane, SkipOpen, StartSend, SendThrows, LaneStarted,
       SendSettles, TimerFires, LaneSent, LaneFailed, queueVars, admissionVars
  <2> QED BY <1>0, <2>1, WaitsSame DEF Idle
<1>3. CASE CompleteJob
  <2>1. Len(reports') >= Len(reports)
    BY <1>0, <1>3 DEF CompleteJob
  <2> QED BY <1>0, <1>3, <2>1, WaitsSame DEF CompleteJob, admissionVars, Idle
<1>4. CASE FinishJob
  BY <1>4, WaitsFinish
<1>5. ASSUME NEW w \in Waiters, CallFlush(w) \/ CallClose(w) PROVE Waits'
  <2>1. PICK closing \in BOOLEAN, valid \in BOOLEAN :
          Flush(w, closing, valid) /\ (closing => closed') /\ (closed => closed')
    <3>1. CASE CallFlush(w)
      BY <3>1, FALSE \in BOOLEAN DEF CallFlush, admissionVars
    <3>2. CASE CallClose(w)
      BY <3>2, TRUE \in BOOLEAN DEF CallClose
    <3> QED BY <1>5, <3>1, <3>2
  <2> QED BY <1>5, <2>1, WaitsCall DEF CallFlush, CallClose, admissionVars, queueVars
<1>6. ASSUME NEW w \in Waiters, FlushExpires(w) PROVE Waits'
  BY <1>6 DEF FlushExpires, Waits, NoLostWakeup, FlushCovers, Idle, queueVars,
     admissionVars, TypeInv, TypeOK, WaiterRecord
<1>7. CASE Drop \/ ClockChanges \/ UNCHANGED vars
  BY <1>0, <1>7, WaitsSame DEF Drop, ClockChanges, vars, admissionVars, queueVars, Idle
<1> QED BY <1>1, <1>2, <1>3, <1>4, <1>5, <1>6, <1>7 DEF Next, AtRest

\* The calls of flush() and close(): none is left without a wake-up, none
\* resolves early, and a resolved close() leaves the queue idle.
THEOREM WaitsHold == Spec => []Waits
<1>1. TypeInv /\ TypeInv' /\ Balance /\ Balance' /\ Waits /\ [Next]_vars => Waits'
  BY WaitsNext
<1> QED BY <1>1, WaitsInit, TypeCorrect, BalanceHolds, PTL DEF Spec

THEOREM NoWakeupIsLost == Spec => []NoLostWakeup
  BY WaitsHold, PTL DEF Waits

THEOREM FlushWaitsForAll == Spec => []FlushCovers
  BY WaitsHold, PTL DEF Waits

\* shutdown() tells the host that it may exit only when no notifier can be
\* called any more: the active job is gone and none will ever be accepted.
THEOREM ShutdownHolds == Spec => []ShutdownIsFinal
<1>1. TypeInv /\ Waits => ShutdownIsFinal
  BY DEF TypeInv, Waits, ShutdownIsFinal, Idle, Stages, TypeOK
<1> QED BY <1>1, TypeCorrect, WaitsHold, PTL

-----------------------------------------------------------------------------
(* The queue implements AlertLog.                                          *)

\* The report of a job has one outcome for each lane.
LEMMA OutcomesAddUp ==
  ASSUME TypeOK, \A l \in Lanes : Settled(l)
  PROVE  LET delivered == Cardinality({l \in Lanes : lane[l] = "sent"})
         IN  /\ delivered \in 0..NumLanes
             /\ Cardinality({l \in Lanes : lane[l] = "failed"}) = NumLanes - delivered
<1> DEFINE S == {l \in Lanes : lane[l] = "sent"}
           F == {l \in Lanes : lane[l] = "failed"}
<1>1. F = Lanes \ S /\ S \subseteq Lanes /\ S \cap Lanes = S
  BY DEF Settled
<1>2. IsFiniteSet(S) /\ Cardinality(S) \in Nat /\ Cardinality(S) <= NumLanes
  BY <1>1, ConstantTypes, FS_Subset, FS_CardinalityType
<1> HIDE DEF S, F
<1>3. Cardinality(Lanes \ S) = NumLanes - Cardinality(Lanes \cap S)
  BY ConstantTypes, FS_Difference
<1>4. Cardinality(F) = NumLanes - Cardinality(S)
  <2>1. Lanes \cap S = S
    BY <1>1
  <2> QED BY <1>1, <1>3, <2>1
<1>5. Cardinality(S) \in 0..NumLanes
  BY <1>2, ConstantTypes
<1> QED BY <1>4, <1>5 DEF S, F

LEMMA LogInit == Init => Log!Init
BY DEF Init, Log!Init

LEMMA LogStep == TypeInv /\ Balance /\ [Next]_vars => [Log!Next]_(Log!logVars)
<1> SUFFICES ASSUME TypeInv, Balance, [Next]_vars
             PROVE  [Log!Next]_(Log!logVars)
  OBVIOUS
<1> USE DEF Log!Next, Log!logVars
<1>1. CASE Accept
  <2>1. queued - Len(reports) < MaxPendingAlerts + 1
    <3>1. /\ Len(pendingJobs) \in Nat /\ Len(reports) \in Nat /\ InProcess \in 0..1
          /\ queued = Len(pendingJobs) + InProcess + Len(reports)
      BY DEF Balance, JobsBalance, TypeInv, TypeOK, InProcess
    <3>2. Len(pendingJobs) < MaxPendingAlerts /\ MaxPendingAlerts \in Nat
      BY <1>1, <3>1, QueueAssumption DEF Accept, Enqueue, Refuses
    <3> QED BY <3>1, <3>2
  <2> QED BY <1>1, <2>1 DEF Accept, Enqueue, Refuses, Log!Accept
<1>2. CASE CompleteJob
  <2> DEFINE delivered == Cardinality({l \in Lanes : lane[l] = "sent"})
  <2>1. stage = "running" /\ \A l \in Lanes : Settled(l)
    BY <1>2 DEF CompleteJob
  <2>2. /\ delivered \in 0..NumLanes
        /\ Cardinality({l \in Lanes : lane[l] = "failed"}) = NumLanes - delivered
    BY <2>1, OutcomesAddUp DEF TypeInv
  <2>3. job = Len(reports) + 1 /\ Len(reports) < queued
    BY <2>1 DEF Balance, JobsBalance, Ordered, InProcess, TypeInv, TypeOK
  <2>4. reports' = Append(reports, [job |-> job, sent |-> delivered,
           notifierFailures |-> Cardinality({l \in Lanes : lane[l] = "failed"})])
    BY <1>2 DEF CompleteJob
  <2>5. UNCHANGED <<queued, closed>>
    BY <1>2 DEF CompleteJob, admissionVars
  <2> HIDE DEF delivered
  <2> QED BY <2>2, <2>3, <2>4, <2>5 DEF Log!Report
<1>3. ASSUME NEW w \in Waiters, CallClose(w) PROVE Log!Close
  BY <1>3 DEF CallClose, Log!Close
<1>4. ASSUME NEW l \in Lanes, LaneStep(l) PROVE UNCHANGED Log!logVars
  <2>1. CASE StartLane(l)
    BY <2>1 DEF StartLane, SkipOpen, StartSend, SendThrows, LaneStarted, admissionVars
  <2>2. CASE SendSettles(l) \/ TimerFires(l) \/ LaneSent(l) \/ LaneFailed(l)
    BY <2>2 DEF SendSettles, TimerFires, LaneSent, LaneFailed, admissionVars
  <2> QED BY <1>4, <2>1, <2>2 DEF LaneStep
<1>5. ASSUME NEW w \in Waiters, CallFlush(w) \/ FlushExpires(w)
      PROVE  UNCHANGED Log!logVars
  <2>1. CASE CallFlush(w)
    BY <2>1 DEF CallFlush, admissionVars
  <2>2. CASE FlushExpires(w)
    BY <2>2 DEF FlushExpires, admissionVars
  <2> QED BY <1>5, <2>1, <2>2
<1>6. CASE Drop \/ FinishJob \/ ClockChanges \/ UNCHANGED vars
  BY <1>6 DEF Drop, FinishJob, ClockChanges, vars, admissionVars
<1> QED BY <1>1, <1>2, <1>3, <1>4, <1>5, <1>6 DEF Next, AtRest

\* The queue implements the log of accepted and reported alerts: every alert
\* is reported at most once, in order, with an outcome of every notifier, and
\* none is accepted after close().
THEOREM QueueImplementsLog == Spec => Log!SafeSpec
<1>1. Init => Log!Init
  BY LogInit
<1>2. TypeInv /\ Balance /\ [Next]_vars => [Log!Next]_(Log!logVars)
  BY LogStep
<1> QED BY <1>1, <1>2, TypeCorrect, BalanceHolds, PTL DEF Spec, Log!SafeSpec

-----------------------------------------------------------------------------
(* Test alerts: a test is one more call that waits in flush().             *)

TestAnswers == {"none", "waiting", "queue-full", "timeout", "notifier-failed", "sent"}

QueueInv == TypeInv /\ Balance /\ Waits /\ TimeoutsAreFailures

\* The reports are numbered as the jobs, with an outcome of every lane.
ReportsInv ==
  \A i \in DOMAIN reports :
    /\ reports[i].job = i
    /\ reports[i].sent + reports[i].notifierFailures = NumLanes

\* A test that waits or has been told "sent" holds the number of its job.
TestInv ==
  /\ test \in [Waiters -> TestAnswers]
  /\ \A w \in Waiters :
       /\ test[w] \in {"waiting", "sent"} =>
            /\ waiter[w].status \in {"waiting", "resolved", "timedout"}
            /\ waiter[w].mark >= 1
       /\ test[w] = "sent" => /\ waiter[w].mark \in DOMAIN reports
                              /\ reports[waiter[w].mark].sent = NumLanes

Step == [TestNext /\ Observe]_testVars

-----------------------------------------------------------------------------
(* A test enqueues and waits in one step; the invariants of the queue hold  *)
(* all the same.                                                            *)

LEMMA StepMoves ==
  ASSUME Step
  PROVE  \/ [Next]_vars /\ \A w \in Waiters : test'[w] # test[w] => Drop \/ TestReturns(w)
         \/ \E w \in Waiters : TestAlert(w)
<1>1. CASE QueueStep
  BY <1>1 DEF QueueStep
<1>2. ASSUME NEW w \in Waiters, TestRefused(w) PROVE [Next]_vars /\ Drop
  BY <1>2 DEF TestRefused, Next
<1>3. ASSUME NEW w \in Waiters, TestReturns(w)
      PROVE  [Next]_vars /\ \A v \in Waiters : test'[v] # test[v] => v = w
  BY <1>3 DEF TestReturns
<1>4. CASE UNCHANGED testVars
  BY <1>4 DEF testVars
<1> QED
  BY <1>1, <1>2, <1>3, <1>4 DEF Step, TestNext

LEMMA TestAlertType ==
  ASSUME TypeInv, NEW w \in Waiters, TestAlert(w)
  PROVE  /\ TypeInv'
         /\ waiter'[w] = [status |-> "waiting", closing |-> FALSE, mark |-> queued']
         /\ \A v \in Waiters \ {w} : waiter'[v] = waiter[v]
         /\ drainWaiters' = drainWaiters \cup {w}
         /\ queued \in Nat /\ queued' = queued + 1
         /\ UNCHANGED <<closed, reports>>
<1>1. /\ queued \in Nat /\ queued' = queued + 1 /\ UNCHANGED <<closed, reports>>
  BY QueueAssumption DEF TestAlert, Enqueue, TypeInv, TypeOK
<1>2. /\ waiter' \in [Waiters -> WaiterRecord]
      /\ waiter'[w] = [status |-> "waiting", closing |-> FALSE, mark |-> queued']
      /\ \A v \in Waiters \ {w} : waiter'[v] = waiter[v]
      /\ drainWaiters' = drainWaiters \cup {w} /\ drainWaiters' \in SUBSET Waiters
  BY <1>1 DEF TestAlert, TypeInv, TypeOK, WaiterRecord
<1>3. TypeOK'
  BY <1>2, TypeEnqueue DEF TestAlert, TypeInv
<1>4. Stages'
  BY StagesEnqueue DEF TestAlert
<1> QED
  BY <1>1, <1>2, <1>3, <1>4 DEF TypeInv

LEMMA TestAlertWaits ==
  ASSUME QueueInv, NEW w \in Waiters, TestAlert(w)
  PROVE  Waits'
<1> USE DEF QueueInv
<1>1. activeJobs' = 1
  <2>1. activeJobs \in 0..1 /\ pendingJobs \in Seq(Nat)
    BY DEF TypeInv, TypeOK
  <2>2. Append(pendingJobs, queued + 1) # <<>>
    BY <2>1
  <2>3. activeJobs < 1 \/ activeJobs = 1
    BY <2>1
  <2>4. CASE activeJobs < 1
    <3>1. activeJobs = 0
      BY <2>1, <2>4
    <3> QED
      BY <2>2, <2>4, <3>1 DEF TestAlert, Enqueue, Pump
  <2>5. CASE activeJobs = 1
    BY <2>5 DEF TestAlert, Enqueue, Pump
  <2> QED
    BY <2>3, <2>4, <2>5
<1>2. NoLostWakeup'
  BY <1>1, TestAlertType DEF Waits, NoLostWakeup
<1>3. FlushCovers'
  BY TestAlertType DEF Waits, FlushCovers
<1>4. \A v \in Waiters : waiter'[v].mark <= queued'
  <2>1. \A v \in Waiters : waiter[v].mark <= queued /\ waiter[v].mark \in Nat
    BY DEF Waits, TypeInv, TypeOK, WaiterRecord
  <2>2. \A v \in Waiters \ {w} : waiter'[v].mark <= queued + 1
    BY <2>1, TestAlertType
  <2>3. waiter'[w].mark = queued' /\ queued' <= queued'
    BY TestAlertType
  <2> QED
    BY <2>2, <2>3, TestAlertType
<1>5. \A v \in Waiters : waiter'[v].closing => closed'
  BY TestAlertType DEF Waits
<1>6. ~closed
  BY DEF TestAlert, Enqueue, Refuses
<1>7. \A v \in Waiters : ~(waiter'[v].status = "resolved" /\ waiter'[v].closing)
  BY <1>6, TestAlertType DEF Waits
<1> QED
  BY <1>2, <1>3, <1>4, <1>5, <1>7 DEF Waits, Idle

LEMMA QueueStepKept == QueueInv /\ Step => QueueInv'
<1> SUFFICES ASSUME QueueInv, Step PROVE QueueInv'
  OBVIOUS
<1>1. CASE [Next]_vars
  <2>1. TypeInv'
    BY <1>1, TypeNext, StagesNext DEF TypeInv, QueueInv
  <2> QED
    BY <1>1, <2>1, BalanceNext, WaitsNext, TimeoutsNext DEF QueueInv
<1>2. ASSUME NEW w \in Waiters, TestAlert(w) PROVE QueueInv'
  BY <1>2, TestAlertType, TestAlertWaits, BalanceEnqueue, TimeoutsPump
     DEF QueueInv, TestAlert
<1> QED
  BY <1>1, <1>2, StepMoves

LEMMA InitQueue == TestInit => QueueInv /\ ReportsInv /\ TestInv
<1> SUFFICES ASSUME TestInit PROVE QueueInv /\ ReportsInv /\ TestInv
  OBVIOUS
<1>1. Init /\ reports = <<>> /\ test = [w \in Waiters |-> "none"]
  BY DEF TestInit, CircuitInit, Init
<1>2. TimeoutsAreFailures
  <2>1. Cardinality(ExpiredLanes) = 0
    BY <1>1, CountNone DEF Init
  <2> QED BY <1>1, <2>1 DEF Init, TimeoutsAreFailures
<1> QED
  BY <1>1, <1>2, TypeInit, StagesInit, BalanceInit, WaitsInit
     DEF QueueInv, TypeInv, ReportsInv, TestInv, TestAnswers

\* The counters that the host reads balance with tests among the calls, too.
THEOREM AccountingWithTests == TestSpec => []Accounting
<1>1. QueueInv => Accounting
  BY DEF QueueInv, Balance, Accounting
<1> QED
  BY <1>1, InitQueue, QueueStepKept, PTL DEF TestSpec, Step

-----------------------------------------------------------------------------
(* The answer "sent".                                                       *)

\* Reports are only added, each with the number of its job.
LEMMA ReportsStep ==
  ASSUME QueueInv, ReportsInv, Step
  PROVE  /\ ReportsInv'
         /\ \A i \in DOMAIN reports : i \in DOMAIN reports' /\ reports'[i] = reports[i]
<1>1. reports \in Seq(Report)
  BY DEF QueueInv, TypeInv, TypeOK
<1>2. CASE CompleteJob
  <2> DEFINE delivered == Cardinality({l \in Lanes : lane[l] = "sent"})
             failed == Cardinality({l \in Lanes : lane[l] = "failed"})
             r == [job |-> job, sent |-> delivered, notifierFailures |-> failed]
  <2>1. stage = "running" /\ reports' = Append(reports, r)
    BY <1>2 DEF CompleteJob
  <2>2. delivered \in 0..NumLanes /\ failed = NumLanes - delivered
    BY <1>2, OutcomesAddUp DEF CompleteJob, QueueInv, TypeInv
  <2>3. job = Len(reports) + 1
    BY <2>1 DEF QueueInv, Balance, Ordered, InProcess
  <2> HIDE DEF delivered, failed
  <2>4. r.job = Len(reports) + 1 /\ r.sent + r.notifierFailures = NumLanes
    BY <2>2, <2>3, ConstantTypes
  <2> HIDE DEF r
  <2>5. /\ Len(reports) \in Nat /\ DOMAIN reports = 1..Len(reports)
        /\ DOMAIN reports' = 1..Len(reports) + 1
        /\ reports'[Len(reports) + 1] = r
        /\ \A i \in 1..Len(reports) : reports'[i] = reports[i]
    BY <1>1, <2>1, AppendProperties
  <2> QED
    BY <2>4, <2>5 DEF ReportsInv
<1>3. CASE UNCHANGED reports
  BY <1>3 DEF ReportsInv
<1>4. CASE [Next]_vars
  <2>1. ASSUME NEW l \in Lanes, LaneStep(l) PROVE UNCHANGED reports
    BY <2>1 DEF LaneStep, StartLane, SkipOpen, StartSend, SendThrows, LaneStarted,
       SendSettles, TimerFires, LaneSent, LaneFailed
  <2>2. ASSUME NEW w \in Waiters, CallFlush(w) \/ CallClose(w) \/ FlushExpires(w)
        PROVE  UNCHANGED reports
    BY <2>2 DEF CallFlush, CallClose, FlushExpires
  <2>3. CASE Accept \/ Drop \/ FinishJob \/ ClockChanges \/ UNCHANGED vars
    BY <1>3, <2>3 DEF Accept, Enqueue, Drop, FinishJob, ClockChanges, vars
  <2> QED
    BY <1>2, <1>3, <1>4, <2>1, <2>2, <2>3 DEF Next, AtRest
<1>5. ASSUME NEW w \in Waiters, TestAlert(w) PROVE UNCHANGED reports
  BY <1>5 DEF TestAlert, Enqueue
<1> QED
  BY <1>3, <1>4, <1>5, StepMoves

\* A call that waits keeps its mark, whatever becomes of it.
LEMMA MarkKept ==
  ASSUME TypeOK, [Next]_vars, NEW w \in Waiters,
         waiter[w].status \in {"waiting", "resolved", "timedout"}
  PROVE  /\ waiter'[w].mark = waiter[w].mark
         /\ waiter'[w].status \in {"waiting", "resolved", "timedout"}
<1>1. waiter \in [Waiters -> WaiterRecord]
  BY DEF TypeOK
<1>2. CASE UNCHANGED waiter
  BY <1>2
<1>3. ASSUME NEW v \in Waiters, CallFlush(v) \/ CallClose(v) PROVE waiter'[w] = waiter[w]
  <2>1. PICK closing \in BOOLEAN, valid \in BOOLEAN : Flush(v, closing, valid)
    BY <1>3 DEF CallFlush, CallClose
  <2>2. v # w
    BY <2>1 DEF Flush
  <2> QED
    BY <1>1, <2>1, <2>2 DEF Flush
<1>4. ASSUME NEW v \in Waiters, FlushExpires(v)
      PROVE  waiter'[w] = waiter[w] \/ waiter'[w] = [waiter[w] EXCEPT !.status = "timedout"]
  BY <1>1, <1>4 DEF FlushExpires
<1>5. CASE FinishJob
  <2>1. waiter'[w] = waiter[w] \/ waiter'[w] = [waiter[w] EXCEPT !.status = "resolved"]
    BY <1>1, <1>5 DEF FinishJob, ResolveDrainWaiters, flushVars
  <2> QED
    BY <1>1, <2>1 DEF WaiterRecord
<1>6. ASSUME NEW l \in Lanes, LaneStep(l) PROVE UNCHANGED waiter
  BY <1>6 DEF LaneStep, StartLane, SkipOpen, StartSend, SendThrows, LaneStarted,
     SendSettles, TimerFires, LaneSent, LaneFailed, flushVars
<1>7. CASE Accept \/ Drop \/ CompleteJob \/ ClockChanges \/ UNCHANGED vars
  BY <1>2, <1>7 DEF Accept, Drop, CompleteJob, ClockChanges, vars, flushVars
<1>8. ASSUME NEW v \in Waiters, FlushExpires(v)
      PROVE  /\ waiter'[w].mark = waiter[w].mark
             /\ waiter'[w].status \in {"waiting", "resolved", "timedout"}
  BY <1>1, <1>4, <1>8 DEF WaiterRecord
<1> QED
  BY <1>2, <1>3, <1>5, <1>6, <1>7, <1>8 DEF Next, AtRest

\* A test answers "sent" only for a report of its own job without failures.
LEMMA SentAnswer ==
  ASSUME QueueInv, ReportsInv, TestInv, NEW w \in Waiters, TestReturns(w),
         test'[w] = "sent"
  PROVE  waiter[w].mark \in DOMAIN reports /\ reports[waiter[w].mark].sent = NumLanes
<1> DEFINE mark == waiter[w].mark
<1>1. waiter[w].status = "resolved" /\ ~(TestFailures(w) > 0) /\ test[w] = "waiting"
  BY DEF TestReturns, TestInv
<1>2. reports \in Seq(Report) /\ mark \in Nat
  BY DEF QueueInv, TypeInv, TypeOK, WaiterRecord
<1>3. mark \in 1..Len(reports)
  <2>1. mark >= 1 /\ Len(reports) >= mark
    BY <1>1 DEF TestInv, QueueInv, Waits, FlushCovers
  <2> QED
    BY <1>2, <2>1
<1>4. mark \in DOMAIN reports /\ reports[mark].job = mark
  BY <1>2, <1>3 DEF ReportsInv
<1> DEFINE all == {reports[i] : i \in DOMAIN reports}
           mine == CHOOSE r \in all : r.job = mark
<1>5. mine \in all /\ mine.job = mark
  BY <1>4
<1>6. TestFailures(w) = mine.notifierFailures
  BY <1>4 DEF TestFailures
<1> HIDE DEF mine
<1>7. mine = reports[mark]
  <2>1. PICK i \in DOMAIN reports : mine = reports[i]
    BY <1>5
  <2> QED
    BY <1>5, <2>1 DEF ReportsInv
<1>8. reports[mark].notifierFailures = 0
  <2>1. reports[mark] \in Report
    BY <1>2, <1>4
  <2> QED
    BY <1>1, <1>6, <1>7, <2>1 DEF Report
<1>9. reports[mark].sent + reports[mark].notifierFailures = NumLanes
  BY <1>4 DEF ReportsInv
<1>10. reports[mark].sent \in Nat
  <2>1. reports[mark] \in Report
    BY <1>2, <1>4
  <2> QED
    BY <2>1 DEF Report
<1> QED
  BY <1>4, <1>8, <1>9, <1>10

LEMMA TestStep ==
  ASSUME QueueInv, ReportsInv, TestInv, Step
  PROVE  TestInv'
<1> DEFINE Held(w) == /\ test'[w] \in {"waiting", "sent"} =>
                           /\ waiter'[w].status \in {"waiting", "resolved", "timedout"}
                           /\ waiter'[w].mark >= 1
                      /\ test'[w] = "sent" => /\ waiter'[w].mark \in DOMAIN reports'
                                              /\ reports'[waiter'[w].mark].sent = NumLanes
<1> USE DEF QueueInv, TypeInv
<1>0. test \in [Waiters -> TestAnswers]
  BY DEF TestInv
<1>1. /\ ReportsInv'
      /\ \A i \in DOMAIN reports : i \in DOMAIN reports' /\ reports'[i] = reports[i]
  BY ReportsStep
<1>2. ASSUME [Next]_vars, NEW w \in Waiters, test'[w] = test[w] PROVE Held(w)
  <2>1. CASE test[w] \in {"waiting", "sent"}
    <3>1. /\ waiter'[w].mark = waiter[w].mark
          /\ waiter'[w].status \in {"waiting", "resolved", "timedout"}
      BY <1>2, <2>1, MarkKept DEF TestInv
    <3> QED
      BY <1>1, <1>2, <2>1, <3>1 DEF TestInv
  <2>2. CASE test[w] \notin {"waiting", "sent"}
    BY <1>2, <2>2 DEF TestInv
  <2> QED BY <2>1, <2>2
<1>3. QueueStep => \A w \in Waiters : Held(w)
  BY <1>2 DEF QueueStep
<1>4. ASSUME NEW w \in Waiters, TestAlert(w) PROVE \A v \in Waiters : Held(v)
  <2>1. Held(w)
    <3>1. test'[w] = "waiting" \/ test'[w] = test[w]
      BY <1>0, <1>4 DEF TestAlert
    <3>2. test'[w] \in {"waiting", "none"}
      BY <1>4, <3>1 DEF TestAlert
    <3>3. waiter'[w].status = "waiting" /\ waiter'[w].mark = queued + 1 /\ queued \in Nat
      BY <1>4, TestAlertType
    <3> QED
      BY <3>2, <3>3
  <2>2. ASSUME NEW v \in Waiters, v # w PROVE Held(v)
    <3>1. test'[v] = test[v] /\ waiter'[v] = waiter[v] /\ reports' = reports
      BY <1>0, <1>4, <2>2, TestAlertType DEF TestAlert
    <3> QED
      BY <3>1 DEF TestInv
  <2> QED BY <2>1, <2>2
<1>5. ASSUME NEW w \in Waiters, TestRefused(w) PROVE \A v \in Waiters : Held(v)
  <2>1. [Next]_vars
    BY <1>5 DEF TestRefused, Next
  <2>2. ASSUME NEW v \in Waiters PROVE test'[v] = test[v] \/ test'[v] = "queue-full"
    BY <1>0, <1>5 DEF TestRefused
  <2> QED
    BY <1>2, <2>1, <2>2
<1>6. ASSUME NEW w \in Waiters, TestReturns(w) PROVE \A v \in Waiters : Held(v)
  <2>1. [Next]_vars
    BY <1>6 DEF TestReturns
  <2>2. UNCHANGED <<waiter, reports>>
    BY <1>6 DEF TestReturns, vars, flushVars
  <2>3. Held(w)
    <3>1. waiter[w].status \in {"resolved", "timedout"} /\ test[w] = "waiting"
      BY <1>6 DEF TestReturns
    <3>2. test'[w] \in {"timeout", "notifier-failed", "sent"} \/ test'[w] = test[w]
      BY <1>0, <1>6 DEF TestReturns
    <3>3. CASE test'[w] = "sent"
      BY <1>6, <2>2, <3>1, <3>3, SentAnswer DEF TestInv
    <3>4. CASE test'[w] \in {"timeout", "notifier-failed"}
      BY <3>4
    <3> QED
      BY <1>2, <2>1, <3>2, <3>3, <3>4
  <2>4. ASSUME NEW v \in Waiters, v # w PROVE test'[v] = test[v]
    BY <1>0, <1>6, <2>4 DEF TestReturns
  <2> QED
    BY <1>2, <2>1, <2>3, <2>4
<1>7. UNCHANGED testVars => \A w \in Waiters : Held(w)
  BY <1>2 DEF testVars
<1>8. \A w \in Waiters : Held(w)
  BY <1>2, <1>3, <1>4, <1>5, <1>6, <1>7 DEF Step, TestNext, QueueStep, testVars
<1>9. test' \in [Waiters -> TestAnswers]
  BY <1>0 DEF Step, TestNext, QueueStep, TestAlert, TestRefused, TestReturns, TestAnswers,
     testVars
<1> QED
  BY <1>8, <1>9 DEF TestInv

\* testAlert() answers "sent" only when its own alert has been reported and
\* every notifier has taken it.
THEOREM SentHolds == TestSpec => []SentIsTrue
<1>1. ReportsInv /\ TestInv => SentIsTrue
  BY DEF ReportsInv, TestInv, SentIsTrue
<1>2. QueueInv /\ ReportsInv /\ TestInv /\ Step => QueueInv' /\ ReportsInv' /\ TestInv'
  BY QueueStepKept, ReportsStep, TestStep
<1> QED
  BY <1>1, <1>2, InitQueue, PTL DEF TestSpec, Step

-----------------------------------------------------------------------------
(* The circuits of notifiers that are listed once each.  The lanes of a     *)
(* notifier that is listed twice start from separate state objects, so that *)
(* its failures are not all counted together.                               *)

ListedOnce == \A k, l \in Lanes : NotifierOf[k] = NotifierOf[l] => k = l

UnderWay == {"sending", "resolved", "rejected", "expired"}

\* The state object of lane l holds what its notifier has gone through; while
\* a send is under way it is the lane's own, and its circuit is closed.
Circuit(l) ==
  /\ notifierStates[NotifierOf[l]] \in {NoState, l}
  /\ lane[l] \in UnderWay =>
       state[l] = l /\ cell[l] = ContentOf(l) /\ cell[l].openUntil = 0
  /\ blockedUntil[NotifierOf[l]] = ContentOf(l).openUntil
  /\ streak[NotifierOf[l]] =
       IF ContentOf(l).openUntil = 0 THEN ContentOf(l).failures ELSE 0
  /\ ContentOf(l).openUntil = 0 => ContentOf(l).failures < FailureThreshold

CircuitInv == \A l \in Lanes : Circuit(l)

\* Where the content of a circuit is, and that of the next state.
LEMMA Contents ==
  ASSUME TypeOK, NEW l \in Lanes, notifierStates[NotifierOf[l]] \in {NoState, l}
  PROVE  /\ StateOf(l) = l
         /\ ContentOf(l) = IF notifierStates[NotifierOf[l]] = NoState THEN Fresh ELSE cell[l]
         /\ ContentOf(l).failures \in Nat /\ ContentOf(l).openUntil \in Nat
BY ConstantTypes DEF StateOf, ContentOf, Fresh, NoState, TypeOK

\* What the history records of a notifier with the only lane l.
LEMMA Observed ==
  ASSUME ListedOnce, Observe, NEW l \in Lanes
  PROVE  /\ blockedUntil'[NotifierOf[l]] =
              IF AttemptFailed(l) /\ streak[NotifierOf[l]] + 1 >= FailureThreshold
              THEN now + CooldownMs
              ELSE IF Attempted(l) THEN 0 ELSE blockedUntil[NotifierOf[l]]
         /\ streak'[NotifierOf[l]] =
              IF (AttemptFailed(l) /\ streak[NotifierOf[l]] + 1 >= FailureThreshold)
                 \/ Delivered(l)
              THEN 0
              ELSE IF AttemptFailed(l) THEN streak[NotifierOf[l]] + 1
                   ELSE streak[NotifierOf[l]]
<1> DEFINE n == NotifierOf[l]
<1>1. n \in Notifiers /\ LanesOf(n) = {l}
  BY ConstantTypes DEF LanesOf, ListedOnce
<1>2. Opens(n) <=> AttemptFailed(l) /\ streak[n] + 1 >= FailureThreshold
  BY <1>1 DEF Opens
<1>3. /\ (\E k \in LanesOf(n) : Delivered(k)) <=> Delivered(l)
      /\ (\E k \in LanesOf(n) : AttemptFailed(k)) <=> AttemptFailed(l)
      /\ (\E k \in LanesOf(n) : Attempted(k)) <=> Attempted(l)
  BY <1>1
<1> HIDE DEF n
<1> QED
  BY <1>1, <1>2, <1>3 DEF Observe, n

\* A step that neither starts nor ends a send of the lane.
LEMMA CircuitKept ==
  ASSUME TypeOK, ListedOnce, NEW l \in Lanes, Circuit(l), Observe,
         cell'[l] = cell[l], state'[l] = state[l],
         notifierStates'[NotifierOf[l]] = notifierStates[NotifierOf[l]],
         \/ lane'[l] = lane[l]
         \/ lane'[l] = "idle"
         \/ lane[l] = "sending" /\ lane'[l] \in UnderWay
         \/ Skipped(l) /\ lane'[l] = "failed"
  PROVE  Circuit(l)'
<1>1. ~Delivered(l) /\ ~AttemptFailed(l) /\ ~Attempted(l)
  BY DEF Delivered, AttemptFailed, Attempted, Skipped, Leaves, UnderWay
<1>2. /\ blockedUntil'[NotifierOf[l]] = blockedUntil[NotifierOf[l]]
      /\ streak'[NotifierOf[l]] = streak[NotifierOf[l]]
  BY <1>1, Observed
<1>3. ContentOf(l)' = ContentOf(l)
  BY ConstantTypes DEF Circuit, ContentOf, StateOf, NoState
<1>4. lane'[l] \in UnderWay => lane[l] \in UnderWay
  BY DEF UnderWay
<1> QED
  BY <1>2, <1>3, <1>4 DEF Circuit

LEMMA CircuitStarts ==
  ASSUME TypeOK, ListedOnce, NEW l \in Lanes, Circuit(l), Observe, StartSend(l)
  PROVE  Circuit(l)'
<1> DEFINE n == NotifierOf[l]
           c == Reset(ContentOf(l))
<1>1. /\ StateOf(l) = l /\ ContentOf(l).failures \in Nat /\ ContentOf(l).openUntil \in Nat
      /\ ContentOf(l) = IF notifierStates[n] = NoState THEN Fresh ELSE cell[l]
  BY Contents DEF Circuit
<1>2. /\ lane'[l] = "sending" /\ state'[l] = l /\ cell'[l] = c
      /\ notifierStates' = notifierStates /\ stage = "starting" /\ lane[l] = "idle"
      /\ circuitOpenSkips' = circuitOpenSkips
  BY <1>1 DEF StartSend, IsNextLane, TypeOK
<1>3. Attempted(l) /\ ~AttemptFailed(l) /\ ~Delivered(l)
  BY <1>2 DEF Attempted, AttemptFailed, Delivered, Leaves
<1>4. blockedUntil'[n] = 0 /\ streak'[n] = streak[n]
  BY <1>3, Observed
<1>5. c.openUntil = 0 /\ c.failures = streak[n] /\ c.failures < FailureThreshold
  BY <1>1, QueueAssumption DEF Circuit, Reset, Fresh
<1>6. notifierStates[n] = NoState => c = Fresh
  BY <1>1 DEF Reset, Fresh
<1> HIDE DEF c
<1>7. ContentOf(l)' = c
  <2>1. ContentOf(l)' = IF notifierStates[n] = NoState THEN Fresh ELSE cell'[l]
    BY <1>2, ConstantTypes DEF ContentOf, StateOf, Circuit, NoState
  <2> QED
    BY <1>2, <1>6, <2>1
<1> QED
  BY <1>2, <1>4, <1>5, <1>7 DEF Circuit

\* A failure of the only lane of a notifier is counted by both.
LEMMA CircuitFails ==
  ASSUME TypeOK, ListedOnce, NEW l \in Lanes, Circuit(l), Observe,
         NEW c, Fail(l, l, c), AttemptFailed(l),
         c.openUntil = 0, c.failures \in Nat, c.failures = streak[NotifierOf[l]],
         blockedUntil[NotifierOf[l]] = 0 \/ Attempted(l)
  PROVE  Circuit(l)'
<1> DEFINE n == NotifierOf[l]
           d == [failures |-> c.failures + 1,
                 openUntil |-> IF c.failures + 1 >= FailureThreshold
                               THEN now + CooldownMs ELSE c.openUntil]
<1>1. lane'[l] = "failed" /\ cell'[l] = d /\ notifierStates'[n] = l
  BY ConstantTypes DEF Fail, TypeOK
<1>2. ~Delivered(l)
  BY <1>1 DEF Delivered
<1>3. /\ blockedUntil'[n] = IF c.failures + 1 >= FailureThreshold THEN now + CooldownMs ELSE 0
      /\ streak'[n] = IF c.failures + 1 >= FailureThreshold THEN 0 ELSE c.failures + 1
  BY <1>2, Observed
<1>4. now + CooldownMs # 0
  BY QueueAssumption DEF TypeOK
<1>5. d.failures = c.failures + 1
      /\ d.openUntil = IF c.failures + 1 >= FailureThreshold THEN now + CooldownMs ELSE 0
  OBVIOUS
<1> HIDE DEF d
<1>6. ContentOf(l)' = d
  BY <1>1, ConstantTypes DEF ContentOf, StateOf
<1>7. c.failures + 1 >= FailureThreshold \/ c.failures + 1 < FailureThreshold
  BY QueueAssumption
<1> QED
  BY <1>1, <1>3, <1>4, <1>5, <1>6, <1>7 DEF Circuit, UnderWay

LEMMA CircuitThrows ==
  ASSUME TypeOK, ListedOnce, NEW l \in Lanes, Circuit(l), Observe, SendThrows(l)
  PROVE  Circuit(l)'
<1> DEFINE c == Reset(ContentOf(l))
<1>1. StateOf(l) = l /\ ContentOf(l).failures \in Nat /\ ContentOf(l).openUntil \in Nat
  BY Contents DEF Circuit
<1>2. Fail(l, l, c) /\ stage = "starting" /\ lane[l] = "idle"
      /\ circuitOpenSkips' = circuitOpenSkips
  BY <1>1 DEF SendThrows, IsNextLane
<1>3. Attempted(l) /\ AttemptFailed(l)
  BY <1>2 DEF Fail, Attempted, AttemptFailed, Skipped, Leaves, TypeOK
<1>4. c.openUntil = 0 /\ c.failures \in Nat /\ c.failures = streak[NotifierOf[l]]
  BY <1>1 DEF Circuit, Reset, Fresh
<1> HIDE DEF c
<1> QED
  BY <1>2, <1>3, <1>4, CircuitFails

LEMMA CircuitEnds ==
  ASSUME TypeOK, ListedOnce, NEW l \in Lanes, Circuit(l), Observe,
         LaneFailed(l) \/ LaneSent(l)
  PROVE  Circuit(l)'
<1> DEFINE n == NotifierOf[l]
<1>1. /\ lane[l] \in {"resolved", "rejected", "expired"} /\ lane[l] \in UnderWay
      /\ state[l] = l /\ cell[l] = ContentOf(l) /\ cell[l].openUntil = 0
      /\ blockedUntil[n] = 0 /\ streak[n] = cell[l].failures /\ cell[l].failures \in Nat
  BY DEF LaneFailed, LaneSent, Circuit, UnderWay, TypeOK
<1>2. CASE LaneFailed(l)
  <2>1. Fail(l, l, cell[l])
    BY <1>1, <1>2 DEF LaneFailed
  <2>2. AttemptFailed(l)
    BY <1>1, <2>1 DEF Fail, AttemptFailed, Skipped, Leaves, TypeOK
  <2> QED
    BY <1>1, <2>1, <2>2, CircuitFails
<1>3. CASE LaneSent(l)
  <2>1. /\ lane'[l] = "sent" /\ cell'[l] = [cell[l] EXCEPT !.failures = 0]
        /\ notifierStates'[n] = l
    BY <1>1, <1>3, ConstantTypes DEF LaneSent, TypeOK
  <2>2. Delivered(l) /\ ~AttemptFailed(l) /\ ~Attempted(l)
    BY <1>1, <2>1 DEF Delivered, AttemptFailed, Attempted, Leaves
  <2>3. blockedUntil'[n] = 0 /\ streak'[n] = 0
    BY <1>1, <2>2, Observed
  <2>4. cell'[l].failures = 0 /\ cell'[l].openUntil = 0
    BY <1>1, <2>1 DEF TypeOK
  <2>5. ContentOf(l)' = cell'[l]
    BY <2>1, ConstantTypes DEF ContentOf, StateOf
  <2> QED
    BY <2>1, <2>3, <2>4, <2>5, QueueAssumption DEF Circuit, UnderWay
<1> QED
  BY <1>2, <1>3

\* The steps of one lane leave the circuits of the others.
LEMMA CircuitLane ==
  ASSUME TypeInv, ListedOnce, CircuitInv, Observe, NEW k \in Lanes, LaneStep(k)
  PROVE  CircuitInv'
<1> USE DEF TypeInv
<1> SUFFICES ASSUME NEW l \in Lanes PROVE Circuit(l)'
  BY DEF CircuitInv
<1>1. Circuit(l) /\ Circuit(k) /\ (k # l => NotifierOf[k] # NotifierOf[l])
  BY DEF CircuitInv, ListedOnce
<1>2. StateOf(k) = k /\ NotifierOf[k] \in Notifiers
  BY <1>1, Contents, ConstantTypes DEF Circuit
<1>3. CASE SkipOpen(k)
  <2>1. /\ UNCHANGED <<cell, state, notifierStates>>
        /\ lane' = [lane EXCEPT ![k] = "failed"] /\ lane[k] = "idle" /\ stage = "starting"
        /\ circuitOpenSkips' = circuitOpenSkips + 1
    BY <1>3 DEF SkipOpen, IsNextLane, circuitVars
  <2>2. circuitOpenSkips' # circuitOpenSkips
    BY <2>1 DEF TypeOK
  <2>3. lane'[l] = lane[l] \/ (Skipped(l) /\ lane'[l] = "failed")
    BY <2>1, <2>2 DEF Skipped, Leaves, TypeOK
  <2> QED
    BY <1>1, <2>1, <2>3, CircuitKept
<1>4. CASE SendSettles(k) \/ TimerFires(k)
  <2>1. UNCHANGED <<cell, state, notifierStates>>
    BY <1>4 DEF SendSettles, TimerFires, circuitVars
  <2>2. lane'[l] = lane[l] \/ (lane[l] = "sending" /\ lane'[l] \in UnderWay)
    BY <1>4 DEF SendSettles, TimerFires, UnderWay, TypeOK
  <2> QED
    BY <1>1, <2>1, <2>2, CircuitKept
<1>5. CASE StartSend(k) /\ k # l
  <2>1. /\ cell'[l] = cell[l] /\ state'[l] = state[l] /\ lane'[l] = lane[l]
        /\ notifierStates' = notifierStates
    BY <1>2, <1>5 DEF StartSend, TypeOK
  <2> QED
    BY <1>1, <2>1, CircuitKept
<1>6. CASE (SendThrows(k) \/ LaneFailed(k)) /\ k # l
  <2>1. PICK c : Fail(k, k, c)
    <3>1. lane[k] \in {"rejected", "expired"} => state[k] = k
      BY <1>1 DEF Circuit, UnderWay
    <3> QED
      BY <1>2, <1>6, <3>1 DEF SendThrows, LaneFailed
  <2>2. /\ cell'[l] = cell[l] /\ state'[l] = state[l] /\ lane'[l] = lane[l]
        /\ notifierStates'[NotifierOf[l]] = notifierStates[NotifierOf[l]]
    BY <1>1, <1>2, <1>6, <2>1, ConstantTypes DEF Fail, TypeOK
  <2> QED
    BY <1>1, <2>2, CircuitKept
<1>7. CASE LaneSent(k) /\ k # l
  <2>1. state[k] = k
    BY <1>1, <1>7 DEF Circuit, UnderWay, LaneSent
  <2>2. /\ cell'[l] = cell[l] /\ state'[l] = state[l] /\ lane'[l] = lane[l]
        /\ notifierStates'[NotifierOf[l]] = notifierStates[NotifierOf[l]]
    BY <1>1, <1>7, <2>1, ConstantTypes DEF LaneSent, TypeOK
  <2> QED
    BY <1>1, <2>2, CircuitKept
<1>8. CASE k = l /\ (StartSend(k) \/ SendThrows(k) \/ LaneFailed(k) \/ LaneSent(k))
  BY <1>1, <1>8, CircuitStarts, CircuitThrows, CircuitEnds
<1> QED
  BY <1>3, <1>4, <1>5, <1>6, <1>7, <1>8 DEF LaneStep, StartLane

LEMMA CircuitStep ==
  ASSUME TypeInv, ListedOnce, CircuitInv, Step
  PROVE  CircuitInv'
<1>1. CASE UNCHANGED testVars
  BY <1>1 DEF testVars, historyVars, vars, circuitVars, laneVars, CircuitInv, Circuit,
     ContentOf, StateOf
<1> SUFFICES ASSUME TestNext, Observe PROVE CircuitInv'
  BY <1>1 DEF Step
<1>2. ASSUME UNCHANGED circuitVars, UNCHANGED lane \/ \A l \in Lanes : lane'[l] = "idle"
      PROVE  CircuitInv'
  <2> SUFFICES ASSUME NEW l \in Lanes PROVE Circuit(l)'
    BY DEF CircuitInv
  <2> QED
    BY <1>2, CircuitKept DEF CircuitInv, circuitVars, TypeInv
<1>3. CASE Enqueue \/ FinishJob
  BY <1>2, <1>3 DEF Enqueue, FinishJob, Pump
<1>4. ASSUME NEW l \in Lanes, LaneStep(l) PROVE CircuitInv'
  BY <1>4, CircuitLane
<1>5. ASSUME NEW w \in Waiters, CallFlush(w) \/ CallClose(w) \/ FlushExpires(w)
      PROVE  CircuitInv'
  BY <1>2, <1>5 DEF CallFlush, CallClose, FlushExpires, laneVars
<1>6. CASE Drop \/ CompleteJob \/ ClockChanges \/ UNCHANGED vars
  BY <1>2, <1>6 DEF Drop, CompleteJob, ClockChanges, vars, laneVars
<1> QED
  BY <1>3, <1>4, <1>5, <1>6
     DEF TestNext, QueueStep, Next, Accept, AtRest, TestAlert, TestRefused, TestReturns

LEMMA CircuitStarted == TestInit => CircuitInv
<1> SUFFICES ASSUME TestInit, NEW l \in Lanes PROVE Circuit(l)
  BY DEF CircuitInv
<1>1. /\ notifierStates[NotifierOf[l]] = NoState
      /\ streak[NotifierOf[l]] = 0 /\ blockedUntil[NotifierOf[l]] = 0
      /\ lane[l] = "idle"
  BY ConstantTypes DEF TestInit, CircuitInit, Init
<1>2. ContentOf(l) = Fresh
  BY <1>1 DEF ContentOf
<1> QED
  BY <1>1, <1>2, QueueAssumption DEF Circuit, Fresh, UnderWay

\* A lane leaves "idle" only when its notifier is called or skipped.
LEMMA LeavesStarting ==
  ASSUME TypeOK, NEW l \in Lanes, [Next]_vars \/ Enqueue, Leaves(l)
  PROVE  StartLane(l)
<1>1. ASSUME NEW k \in Lanes, LaneStep(k) PROVE StartLane(l)
  <2>1. ~TimerFires(k) /\ ~SendSettles(k) /\ ~LaneSent(k) /\ ~LaneFailed(k)
    BY DEF Leaves, TimerFires, MicrotasksDone, SendSettles, LaneSent, LaneFailed
  <2>2. StartLane(k)
    BY <1>1, <2>1 DEF LaneStep
  <2>3. \E s : lane' = [lane EXCEPT ![k] = s]
    BY <2>2 DEF StartLane, SkipOpen, StartSend, SendThrows, Fail
  <2>4. k = l
    BY <2>3 DEF Leaves, TypeOK
  <2> QED
    BY <2>2, <2>4
<1>2. CASE Enqueue \/ FinishJob
  BY <1>2 DEF Enqueue, FinishJob, Pump, Leaves
<1>3. CASE UNCHANGED lane
  BY <1>3 DEF Leaves
<1>4. ASSUME NEW w \in Waiters, CallFlush(w) \/ CallClose(w) \/ FlushExpires(w)
      PROVE  UNCHANGED lane
  BY <1>4 DEF CallFlush, CallClose, FlushExpires, laneVars
<1>5. CASE Drop \/ CompleteJob \/ ClockChanges \/ UNCHANGED vars
  BY <1>3, <1>5 DEF Drop, CompleteJob, ClockChanges, vars, laneVars
<1> QED
  BY <1>1, <1>2, <1>3, <1>4, <1>5 DEF Next, AtRest, Accept

LEMMA CircuitInvariant == ListedOnce /\ TestSpec => [](QueueInv /\ CircuitInv)
<1>1. ListedOnce /\ QueueInv /\ CircuitInv /\ Step => QueueInv' /\ CircuitInv'
  BY QueueStepKept, CircuitStep DEF QueueInv
<1> SUFFICES ASSUME ListedOnce PROVE TestSpec => [](QueueInv /\ CircuitInv)
  OBVIOUS
<1>2. QueueInv /\ CircuitInv /\ Step => QueueInv' /\ CircuitInv'
  BY <1>1
<1> QED
  BY <1>2, InitQueue, CircuitStarted, PTL DEF TestSpec, Step

LEMMA LaneCalled ==
  ASSUME TypeInv, CircuitInv, Step, NEW l \in Lanes, Leaves(l)
  PROVE  /\ Attempted(l) => now >= blockedUntil[NotifierOf[l]]
         /\ Skipped(l) => now < blockedUntil[NotifierOf[l]]
<1>1. StartLane(l)
  BY StepMoves, LeavesStarting DEF TypeInv, TestAlert
<1>2. Circuit(l)
  BY DEF CircuitInv
<1>3. ContentOf(l).openUntil \in Nat /\ now \in Nat
  BY <1>2, Contents DEF TypeInv, TypeOK, Circuit
<1>4. circuitOpenSkips \in Nat
  BY DEF TypeInv, TypeOK
<1>5. SkipOpen(l) => ~Attempted(l) /\ now < ContentOf(l).openUntil
  BY <1>3, <1>4 DEF SkipOpen, Attempted
<1>6. StartSend(l) \/ SendThrows(l) => ~Skipped(l) /\ now >= ContentOf(l).openUntil
  BY <1>3 DEF StartSend, SendThrows, Skipped
<1> QED
  BY <1>1, <1>2, <1>5, <1>6 DEF StartLane, Circuit

\* A notifier that failed as often as the threshold allows is left alone until
\* the cooldown is over.
THEOREM OpenCircuitHolds == ListedOnce /\ TestSpec => OpenCircuitIsRespected
<1>1. QueueInv /\ CircuitInv /\ Step =>
        [\A l \in Lanes : Attempted(l) => now >= blockedUntil[NotifierOf[l]]]_vars
  BY LaneCalled DEF QueueInv, Attempted
<1> QED
  BY <1>1, CircuitInvariant, PTL DEF TestSpec, Step, OpenCircuitIsRespected

\* A notifier is skipped only while it has earned that.
THEOREM HealthyNotifierCalled == ListedOnce /\ TestSpec => HealthyNotifierIsCalled
<1>1. QueueInv /\ CircuitInv /\ Step =>
        [\A l \in Lanes : Skipped(l) => now < blockedUntil[NotifierOf[l]]]_vars
  BY LaneCalled DEF QueueInv, Skipped
<1> QED
  BY <1>1, CircuitInvariant, PTL DEF TestSpec, Step, HealthyNotifierIsCalled
=============================================================================
