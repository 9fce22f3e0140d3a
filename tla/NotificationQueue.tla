------------------------- MODULE NotificationQueue -------------------------
(***************************************************************************)
(* The bounded notification queue of src/core/notification-queue.ts.       *)
(*                                                                         *)
(* The code runs on the JavaScript event loop, and the actions follow its  *)
(* atomic pieces: a synchronous call of the API, one microtask (the        *)
(* continuation of an awaited promise), or one macrotask (a timer).        *)
(* Timers run only when no microtask is left; calls of the API may come    *)
(* from anywhere, also from inside a notifier's send or from another       *)
(* microtask.                                                              *)
(*                                                                         *)
(* A job is known by its acceptance number.  Every job of a client has the *)
(* same notifiers, and a lane is one position in that list.  A notifier    *)
(* may be listed twice: the list is not deduplicated.                      *)
(***************************************************************************)
EXTENDS Integers, Sequences, FiniteSets

CONSTANTS
  Notifiers,         \* the notifier objects
  NotifierOf,        \* the notifier of each lane: the client's `notifiers` list
  MaxPendingAlerts,  \* options.maxPendingAlerts
  FailureThreshold,  \* circuit.failureThreshold
  CooldownMs,        \* circuit.cooldownMs, in ticks of the wall clock
  Waiters,           \* calls of flush() and close(): each is made at most once
  MaxJobs,           \* bound: alerts accepted in a behaviour
  MaxDropped,        \* bound: alerts refused in a behaviour
  MaxTime            \* bound: the wall clock reads 1..MaxTime

ASSUME QueueAssumption ==
  /\ NotifierOf \in Seq(Notifiers)
  /\ MaxPendingAlerts \in Nat \ {0}
  /\ FailureThreshold \in Nat \ {0}
  /\ CooldownMs \in Nat \ {0}
  /\ MaxJobs \in Nat
  /\ MaxDropped \in Nat
  /\ MaxTime \in Nat \ {0}
  /\ IsFiniteSet(Waiters)

NumLanes == Len(NotifierOf)
Lanes == 1..NumLanes
NoState == 0          \* notifierStates.get(notifier) is undefined
Fresh == [failures |-> 0, openUntil |-> 0]

VARIABLES
  pendingJobs, activeJobs, closed,
  queued, dropped, sent, failures, timeouts, circuitOpenSkips,
  notifierStates,  \* notifier -> the lane whose state object the Map holds
  cell,            \* lane -> the state object that lane created
  state,           \* lane -> the lane whose object this lane's `state` is
  lane,            \* lane -> progress of processJob's callback on this lane
  timer,           \* lane -> its timeout is armed
  job, stage,      \* the active job and how far processJob has come
  drainWaiters,    \* the calls attached to drainPromise ({}: it is undefined)
  waiter,          \* the flush()/close() calls made
  reports,         \* the results given to onComplete, in order
  now              \* Date.now()

queueVars == <<pendingJobs, activeJobs, job, stage>>
admissionVars == <<closed, queued, dropped>>
resultVars == <<sent, failures, timeouts, circuitOpenSkips>>
circuitVars == <<notifierStates, cell, state>>
laneVars == <<lane, timer>>
flushVars == <<drainWaiters, waiter>>
vars == <<queueVars, admissionVars, resultVars, circuitVars, laneVars,
          flushVars, reports, now>>

Init ==
  /\ pendingJobs = <<>>
  /\ activeJobs = 0
  /\ closed = FALSE
  /\ queued = 0 /\ dropped = 0
  /\ sent = 0 /\ failures = 0 /\ timeouts = 0 /\ circuitOpenSkips = 0
  /\ notifierStates = [n \in Notifiers |-> NoState]
  /\ cell = [l \in Lanes |-> Fresh]
  /\ state = [l \in Lanes |-> l]
  /\ lane = [l \in Lanes |-> "idle"]
  /\ timer = [l \in Lanes |-> FALSE]
  /\ job = 0
  /\ stage = "none"
  /\ drainWaiters = {}
  /\ waiter = [w \in Waiters |->
                 [status |-> "unused", closing |-> FALSE, mark |-> 0]]
  /\ reports = <<>>
  /\ now = 1

-----------------------------------------------------------------------------
(* The event loop.                                                         *)

Idle == activeJobs = 0 /\ pendingJobs = <<>>
Settled(l) == lane[l] \in {"sent", "failed"}
Decided(l) == lane[l] \in {"resolved", "rejected", "expired"}

\* No microtask of the queue is waiting and no synchronous code is running.
MicrotasksDone ==
  /\ stage \notin {"starting", "reported"}
  /\ \A l \in Lanes : ~Decided(l)
  /\ stage = "running" => \E l \in Lanes : ~Settled(l)

\* Code of the application can call the queue.  While the lanes of a job are
\* being started that is only from inside a send or an error callback.
CallerRuns == stage = "starting" => \E l \in Lanes : lane[l] # "idle"

-----------------------------------------------------------------------------
(* pump(), from a call that leaves the jobs `jobs` and `active` workers.    *)

Pump(jobs, active) ==
  IF active < 1 /\ jobs # <<>>
  THEN /\ activeJobs' = active + 1
       /\ pendingJobs' = Tail(jobs)
       /\ job' = Head(jobs)
       /\ stage' = IF NumLanes = 0 THEN "running" ELSE "starting"
       /\ lane' = [l \in Lanes |-> "idle"]
  ELSE /\ activeJobs' = active
       /\ pendingJobs' = jobs
       /\ job' = IF active = 0 THEN 0 ELSE job
       /\ stage' = IF active = 0 THEN "none" ELSE stage
       /\ lane' = IF active = 0 THEN [l \in Lanes |-> "idle"] ELSE lane

\* Mutant of Refuses: the queue holds one alert too many.
RefusesTooLate == closed \/ Len(pendingJobs) > MaxPendingAlerts

Refuses == closed \/ Len(pendingJobs) >= MaxPendingAlerts

Enqueue ==
  /\ CallerRuns
  /\ ~Refuses
  /\ queued < MaxJobs
  /\ queued' = queued + 1
  /\ Pump(Append(pendingJobs, queued + 1), activeJobs)
  /\ UNCHANGED <<closed, dropped, timer, resultVars, circuitVars, reports, now>>

Accept == Enqueue /\ UNCHANGED flushVars

Drop ==
  /\ CallerRuns
  /\ Refuses
  /\ dropped < MaxDropped
  /\ dropped' = dropped + 1
  /\ UNCHANGED <<closed, queued, queueVars, laneVars, resultVars, circuitVars,
                 flushVars, reports, now>>

-----------------------------------------------------------------------------
(* processJob: the lanes of the job just taken are started in order, in one *)
(* synchronous run; each then waits for its send or for its timer.          *)

IsNextLane(l) ==
  /\ stage = "starting"
  /\ lane[l] = "idle"
  /\ \A k \in 1..(l - 1) : lane[k] # "idle"

StateOf(l) == IF notifierStates[NotifierOf[l]] = NoState
              THEN l ELSE notifierStates[NotifierOf[l]]
ContentOf(l) == IF notifierStates[NotifierOf[l]] = NoState
                THEN Fresh ELSE cell[StateOf(l)]
Reset(c) == IF c.openUntil # 0 THEN Fresh ELSE c

\* Mutant of Fail: the circuit opens one failure too late.
FailOpensLate(l, s, c) ==
  /\ lane' = [lane EXCEPT ![l] = "failed"]
  /\ timer' = [timer EXCEPT ![l] = FALSE]
  /\ state' = [state EXCEPT ![l] = s]
  /\ cell' = [cell EXCEPT ![s] =
                [failures |-> c.failures + 1,
                 openUntil |-> IF c.failures + 1 > FailureThreshold
                               THEN now + CooldownMs ELSE c.openUntil]]
  /\ notifierStates' = [notifierStates EXCEPT ![NotifierOf[l]] = s]
  /\ failures' = failures + 1

\* The catch block: lane l fails with the state object s, whose content is c.
Fail(l, s, c) ==
  /\ lane' = [lane EXCEPT ![l] = "failed"]
  /\ timer' = [timer EXCEPT ![l] = FALSE]
  /\ state' = [state EXCEPT ![l] = s]
  /\ cell' = [cell EXCEPT ![s] =
                [failures |-> c.failures + 1,
                 openUntil |-> IF c.failures + 1 >= FailureThreshold
                               THEN now + CooldownMs ELSE c.openUntil]]
  /\ notifierStates' = [notifierStates EXCEPT ![NotifierOf[l]] = s]
  /\ failures' = failures + 1

\* The lane after l starts in the same synchronous run, or the run is over.
LaneStarted(l) ==
  /\ stage' = IF l = NumLanes THEN "running" ELSE stage
  /\ UNCHANGED <<pendingJobs, activeJobs, job, admissionVars, sent, timeouts,
                 flushVars, reports, now>>

\* Mutant of SkipOpen: a skipped lane is not counted as a failure.
SkipOpenUncounted(l) ==
  /\ IsNextLane(l)
  /\ ContentOf(l).openUntil > now
  /\ circuitOpenSkips' = circuitOpenSkips + 1
  /\ lane' = [lane EXCEPT ![l] = "failed"]
  /\ LaneStarted(l)
  /\ UNCHANGED <<circuitVars, timer, failures>>

SkipOpen(l) ==
  /\ IsNextLane(l)
  /\ ContentOf(l).openUntil > now
  /\ circuitOpenSkips' = circuitOpenSkips + 1
  /\ failures' = failures + 1
  /\ lane' = [lane EXCEPT ![l] = "failed"]
  /\ LaneStarted(l)
  /\ UNCHANGED <<circuitVars, timer>>

\* Mutant of StartSend: the send is not raced against a timer.
StartSendUntimed(l) ==
  /\ IsNextLane(l)
  /\ ContentOf(l).openUntil <= now
  /\ state' = [state EXCEPT ![l] = StateOf(l)]
  /\ cell' = [cell EXCEPT ![StateOf(l)] = Reset(ContentOf(l))]
  /\ lane' = [lane EXCEPT ![l] = "sending"]
  /\ LaneStarted(l)
  /\ UNCHANGED <<notifierStates, failures, circuitOpenSkips, timer>>

StartSend(l) ==
  /\ IsNextLane(l)
  /\ ContentOf(l).openUntil <= now
  /\ state' = [state EXCEPT ![l] = StateOf(l)]
  /\ cell' = [cell EXCEPT ![StateOf(l)] = Reset(ContentOf(l))]
  /\ lane' = [lane EXCEPT ![l] = "sending"]
  /\ timer' = [timer EXCEPT ![l] = TRUE]
  /\ LaneStarted(l)
  /\ UNCHANGED <<notifierStates, failures, circuitOpenSkips>>

\* notifier.send throws instead of returning a promise.
SendThrows(l) ==
  /\ IsNextLane(l)
  /\ ContentOf(l).openUntil <= now
  /\ Fail(l, StateOf(l), Reset(ContentOf(l)))
  /\ LaneStarted(l)
  /\ UNCHANGED circuitOpenSkips

StartLane(l) == SkipOpen(l) \/ StartSend(l) \/ SendThrows(l)

\* The promise of the notifier settles first in Promise.race.
SendSettles(l) ==
  /\ stage = "running"
  /\ lane[l] = "sending"
  /\ \E outcome \in {"resolved", "rejected"} :
       lane' = [lane EXCEPT ![l] = outcome]
  /\ UNCHANGED <<queueVars, admissionVars, resultVars, circuitVars, timer,
                 flushVars, reports, now>>

\* The timer of the lane: it counts a timeout whatever the race decided.
TimerFires(l) ==
  /\ MicrotasksDone
  /\ timer[l]
  /\ timer' = [timer EXCEPT ![l] = FALSE]
  /\ timeouts' = timeouts + 1
  /\ lane' = IF lane[l] = "sending" THEN [lane EXCEPT ![l] = "expired"] ELSE lane
  /\ UNCHANGED <<queueVars, admissionVars, sent, failures, circuitOpenSkips,
                 circuitVars, flushVars, reports, now>>

\* Mutant of LaneSent: the failures are not reset.
LaneSentKeepsFailures(l) ==
  /\ stage = "running"
  /\ lane[l] = "resolved"
  /\ lane' = [lane EXCEPT ![l] = "sent"]
  /\ timer' = [timer EXCEPT ![l] = FALSE]
  /\ notifierStates' = [notifierStates EXCEPT ![NotifierOf[l]] = state[l]]
  /\ sent' = sent + 1
  /\ UNCHANGED <<queueVars, admissionVars, failures, timeouts, circuitOpenSkips,
                 cell, state, flushVars, reports, now>>

LaneSent(l) ==
  /\ stage = "running"
  /\ lane[l] = "resolved"
  /\ lane' = [lane EXCEPT ![l] = "sent"]
  /\ timer' = [timer EXCEPT ![l] = FALSE]
  /\ cell' = [cell EXCEPT ![state[l]].failures = 0]
  /\ notifierStates' = [notifierStates EXCEPT ![NotifierOf[l]] = state[l]]
  /\ sent' = sent + 1
  /\ UNCHANGED <<queueVars, admissionVars, failures, timeouts, circuitOpenSkips,
                 state, flushVars, reports, now>>

LaneFailed(l) ==
  /\ stage = "running"
  /\ lane[l] \in {"rejected", "expired"}
  /\ Fail(l, state[l], cell[state[l]])
  /\ UNCHANGED <<queueVars, admissionVars, sent, timeouts, circuitOpenSkips,
                 flushVars, reports, now>>

-----------------------------------------------------------------------------
(* The end of a job: onComplete is called, then the finally callback runs.  *)

CompleteJob ==
  /\ stage = "running"
  /\ \A l \in Lanes : Settled(l)
  /\ stage' = "reported"
  /\ reports' = Append(reports,
                  [job |-> job,
                   sent |-> Cardinality({l \in Lanes : lane[l] = "sent"}),
                   notifierFailures |->
                     Cardinality({l \in Lanes : lane[l] = "failed"})])
  /\ UNCHANGED <<pendingJobs, activeJobs, job, admissionVars, resultVars,
                 circuitVars, laneVars, flushVars, now>>

\* Mutant of ResolveDrainWaiters: the calls are woken by every job.
WakeAfterEveryJob ==
  /\ waiter' = [w \in Waiters |->
                  IF w \in drainWaiters /\ waiter[w].status = "waiting"
                  THEN [waiter[w] EXCEPT !.status = "resolved"]
                  ELSE waiter[w]]
  /\ drainWaiters' = {}

\* resolveDrainWaiters(): a call whose own timer has fired stays rejected.
ResolveDrainWaiters ==
  IF activeJobs' # 0 \/ pendingJobs' # <<>>
  THEN UNCHANGED flushVars
  ELSE /\ waiter' = [w \in Waiters |->
                       IF w \in drainWaiters /\ waiter[w].status = "waiting"
                       THEN [waiter[w] EXCEPT !.status = "resolved"]
                       ELSE waiter[w]]
       /\ drainWaiters' = {}

FinishJob ==
  /\ stage = "reported"
  /\ Pump(pendingJobs, activeJobs - 1)
  /\ ResolveDrainWaiters
  /\ UNCHANGED <<admissionVars, resultVars, circuitVars, timer, reports, now>>

-----------------------------------------------------------------------------
(* flush(timeoutMs) and close(timeoutMs).  An invalid timeout is refused at *)
(* once, but only after close() has closed the queue.                       *)

\* Mutant of FlushStatus: the active job is forgotten.
FlushStatusOfQueue(valid) ==
  IF ~valid THEN "invalid" ELSE IF pendingJobs = <<>> THEN "resolved" ELSE "waiting"

FlushStatus(valid) == IF ~valid THEN "invalid"
                      ELSE IF Idle THEN "resolved" ELSE "waiting"

\* Mutant of Flush: a second call replaces the drain promise of the first.
FlushReplacesDrain(w, closing, valid) ==
  /\ waiter[w].status = "unused"
  /\ waiter' = [waiter EXCEPT ![w] =
                  [status |-> FlushStatus(valid), closing |-> closing,
                   mark |-> queued]]
  /\ drainWaiters' = IF FlushStatus(valid) = "waiting" THEN {w} ELSE drainWaiters

Flush(w, closing, valid) ==
  /\ waiter[w].status = "unused"
  /\ waiter' = [waiter EXCEPT ![w] =
                  [status |-> FlushStatus(valid), closing |-> closing,
                   mark |-> queued]]
  /\ drainWaiters' = IF FlushStatus(valid) = "waiting"
                     THEN drainWaiters \cup {w} ELSE drainWaiters

CallFlush(w) ==
  /\ CallerRuns
  /\ \E valid \in BOOLEAN : Flush(w, FALSE, valid)
  /\ UNCHANGED <<queueVars, admissionVars, resultVars, circuitVars, laneVars,
                 reports, now>>

\* Mutant of CallClose: the queue stays open while it drains.
CallCloseStaysOpen(w) ==
  /\ CallerRuns
  /\ \E valid \in BOOLEAN : Flush(w, TRUE, valid)
  /\ UNCHANGED <<queueVars, admissionVars, resultVars, circuitVars, laneVars,
                 reports, now>>

CallClose(w) ==
  /\ CallerRuns
  /\ closed' = TRUE
  /\ \E valid \in BOOLEAN : Flush(w, TRUE, valid)
  /\ UNCHANGED <<queueVars, queued, dropped, resultVars, circuitVars, laneVars,
                 reports, now>>

\* The timer of a flush() or close() call.
FlushExpires(w) ==
  /\ MicrotasksDone
  /\ waiter[w].status = "waiting"
  /\ waiter' = [waiter EXCEPT ![w].status = "timedout"]
  /\ UNCHANGED <<queueVars, admissionVars, resultVars, circuitVars, laneVars,
                 drainWaiters, reports, now>>

\* The wall clock moves; it may be set back.
ClockChanges ==
  /\ \E t \in 1..MaxTime : t # now /\ now' = t
  /\ UNCHANGED <<queueVars, admissionVars, resultVars, circuitVars, laneVars,
                 flushVars, reports>>

\* Nothing is outstanding: the queue waits for its next caller.
AtRest ==
  /\ Idle
  /\ \A w \in Waiters : waiter[w].status # "waiting"
  /\ UNCHANGED vars

-----------------------------------------------------------------------------

LaneStep(l) == StartLane(l) \/ SendSettles(l) \/ TimerFires(l)
               \/ LaneSent(l) \/ LaneFailed(l)

Next ==
  \/ Accept \/ Drop
  \/ \E l \in Lanes : LaneStep(l)
  \/ CompleteJob \/ FinishJob
  \/ \E w \in Waiters : CallFlush(w) \/ CallClose(w) \/ FlushExpires(w)
  \/ ClockChanges
  \/ AtRest

\* Microtasks and armed timers run; a send of a notifier need not settle, and
\* nobody has to call the queue.
Fairness ==
  /\ \A l \in Lanes : /\ WF_vars(StartLane(l))
                      /\ WF_vars(TimerFires(l))
                      /\ WF_vars(LaneSent(l) \/ LaneFailed(l))
  /\ WF_vars(CompleteJob)
  /\ WF_vars(FinishJob)
  /\ \A w \in Waiters : WF_vars(FlushExpires(w))

Spec == Init /\ [][Next]_vars
FairSpec == Spec /\ Fairness
-----------------------------------------------------------------------------
(* Properties.                                                             *)

\* A job taken from pendingJobs and not yet reported to onComplete.
InProcess == IF stage \in {"starting", "running"} THEN 1 ELSE 0
SettledLanes == {l \in Lanes : Settled(l)}
ExpiredLanes == {l \in Lanes : lane[l] = "expired"}

WaiterRecord == [status : {"unused", "waiting", "resolved", "timedout", "invalid"},
                 closing : BOOLEAN, mark : Nat]
Report == [job : Nat, sent : Nat, notifierFailures : Nat]

TypeOK ==
  /\ pendingJobs \in Seq(Nat)
  /\ activeJobs \in 0..1
  /\ closed \in BOOLEAN
  /\ queued \in 0..MaxJobs /\ dropped \in 0..MaxDropped
  /\ sent \in Nat /\ failures \in Nat
  /\ timeouts \in Nat /\ circuitOpenSkips \in Nat
  /\ notifierStates \in [Notifiers -> Lanes \cup {NoState}]
  /\ cell \in [Lanes -> [failures : Nat, openUntil : Nat]]
  /\ state \in [Lanes -> Lanes]
  /\ lane \in [Lanes -> {"idle", "sending", "resolved", "rejected", "expired",
                         "sent", "failed"}]
  /\ timer \in [Lanes -> BOOLEAN]
  /\ job \in Nat
  /\ stage \in {"none", "starting", "running", "reported"}
  /\ drainWaiters \in SUBSET Waiters
  /\ waiter \in [Waiters -> WaiterRecord]
  /\ reports \in Seq(Report)
  /\ now \in 1..MaxTime

\* The counters that getDiagnostics() and the Prometheus text publish balance:
\* every accepted alert is waiting, in process or reported, and every lane of
\* a started job is counted exactly once, as sent or as a failure (enqueue,
\* pump and processJob, across timeouts, late answers and open circuits); a
\* timer that races a late answer never counts a delivered alert as timed out:
\* each timeout and each circuit skip is one of the failures, up to the lanes
\* whose rejection has not been handled yet.
JobsBalance == queued = Len(pendingJobs) + InProcess + Len(reports)
LanesBalance ==
  sent + failures = NumLanes * Len(reports)
    + (IF InProcess = 1 THEN Cardinality(SettledLanes) ELSE 0)
TimeoutsAreFailures ==
  timeouts + circuitOpenSkips <= failures + Cardinality(ExpiredLanes)
Accounting == JobsBalance /\ LanesBalance /\ TimeoutsAreFailures

\* A call of flush() or close() that still waits is attached to the drain
\* promise of a queue with an active job, so the finally callback of that job
\* or of a later one wakes it: no wake-up is lost when calls, completions and
\* new alerts interleave.
NoLostWakeup ==
  \A w \in Waiters :
    waiter[w].status = "waiting" => w \in drainWaiters /\ activeJobs = 1

\* A flush() or close() that resolves has waited for every alert accepted
\* before the call, whatever was accepted later and however many calls share
\* the drain promise.
FlushCovers ==
  \A w \in Waiters :
    waiter[w].status = "resolved" => Len(reports) >= waiter[w].mark

\* Once a close() has resolved, the queue is idle for good: no notifier is
\* called after shutdown() told the host that it may exit.
ShutdownIsFinal ==
  \A w \in Waiters :
    waiter[w].status = "resolved" /\ waiter[w].closing
      => Idle /\ \A l \in Lanes : lane[l] = "idle" /\ ~timer[l]

\* The queue keeps the promise of AlertLog: alerts are reported exactly once,
\* in order, with an outcome of every lane, and eventually.
Log == INSTANCE AlertLog WITH
         Outcomes <- NumLanes, Capacity <- MaxPendingAlerts + 1,
         accepted <- queued, reported <- reports, open <- ~closed
ImplementsLog == Log!Spec

\* A closed queue runs dry even if no send of a notifier ever settles: the
\* lane timers alone carry every accepted alert to its report.
ClosedRunsDry == closed ~> [](activeJobs = 0 /\ pendingJobs = <<>>)
=============================================================================
