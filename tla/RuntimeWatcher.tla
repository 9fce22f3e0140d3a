--------------------------- MODULE RuntimeWatcher ---------------------------
(***************************************************************************)
(* The runtime watcher of src/core/runtime-monitor.ts: a timer samples the *)
(* process, and every reading at its threshold is captured as an event.    *)
(* The lateness of a sample is measured on the wall clock, which may be    *)
(* stepped, against the time the timer is expected at; the failures of     *)
(* notifiers are the difference to the sample before.                      *)
(*                                                                         *)
(* A sample is synchronous, but captureEvent() calls the application back  *)
(* (filter, beforeSend, send): time passes, the watcher may be             *)
(* unregistered and notifiers may fail at once.                            *)
(***************************************************************************)
EXTENDS Integers, Sequences

CONSTANTS IntervalMs,
          Threshold,    \* metric -> its threshold; a metric may have none
          MaxTime,      \* bound: the monotonic clock reads 0..MaxTime
          MaxStep,      \* bound: the wall clock is at most this far off
          MaxFailures   \* bound: failures of notifiers in a behaviour

Metrics == <<"resource", "event-loop-delay-ms", "pending-alerts", "notifier-failures">>

ASSUME WatcherAssumption ==
  /\ IntervalMs \in Nat \ {0}
  /\ \A metric \in DOMAIN Threshold :
       Threshold[metric] \in Nat \ {0} /\ \E i \in DOMAIN Metrics : Metrics[i] = metric
  /\ {MaxTime, MaxStep, MaxFailures} \subseteq Nat

VARIABLES
  time, offset,        \* the monotonic clock; the wall clock is time + offset
  dueAt,               \* when the timer fires, on the monotonic clock
  registered,
  expectedAt, previousNotifierFailures,
  notifierFailures,    \* diagnostics.notifierFailures
  reading,             \* the next reading of the sample under way, 0: none is
  sample,              \* what the last sample measured
  stepped,             \* history: the wall clock was stepped since the last sample
  failuresSince,       \* history: failures since the last sample read the counter
  failuresSampled,     \* history: the failures that all samples have measured
  failuresBefore       \* history: the failures before the watcher was registered

clockVars == <<time, offset, stepped>>
sampleVars == <<dueAt, expectedAt, previousNotifierFailures, sample, failuresSampled>>
failureVars == <<notifierFailures, failuresSince, failuresBefore>>
vars == <<clockVars, sampleVars, failureVars, registered, reading>>

Now == time + offset
AtLeast0(n) == IF n > 0 THEN n ELSE 0

\* The client may have been in use before the watcher was registered.
Init ==
  /\ time = 0 /\ offset = 0 /\ stepped = FALSE
  /\ dueAt = IntervalMs /\ expectedAt = IntervalMs
  /\ registered = TRUE
  /\ notifierFailures \in 0..MaxFailures
  /\ previousNotifierFailures = notifierFailures /\ failuresBefore = notifierFailures
  /\ reading = 0
  /\ sample = [delay |-> 0, failures |-> 0, late |-> 0, stepped |-> FALSE]
  /\ failuresSince = 0 /\ failuresSampled = 0

\* Mutant of ExpectedNext: the grid of the timer does not move with it.
ExpectedOnGrid == expectedAt + IntervalMs

ExpectedNext == Now + IntervalMs

\* The timer fires, at dueAt or when the event loop gets to it.  setInterval
\* counts the next interval from here.
TakeSample ==
  /\ reading = 0 /\ registered /\ time >= dueAt
  /\ sample' = [delay |-> AtLeast0(Now - expectedAt),
                failures |-> AtLeast0(notifierFailures - previousNotifierFailures),
                late |-> time - dueAt, stepped |-> stepped]
  /\ expectedAt' = ExpectedNext
  /\ previousNotifierFailures' = notifierFailures
  /\ dueAt' = time + IntervalMs
  /\ reading' = 1
  /\ failuresSampled' = failuresSampled + sample'.failures
  /\ failuresSince' = 0 /\ stepped' = FALSE
  /\ UNCHANGED <<time, offset, notifierFailures, failuresBefore, registered>>

Values(metric) ==
  CASE metric = "event-loop-delay-ms" -> {sample.delay}
    [] metric = "notifier-failures" -> {sample.failures}
    [] OTHER -> {0, Threshold[metric]}

Exceeds(metric) ==
  metric \in DOMAIN Threshold /\ \E value \in Values(metric) : value >= Threshold[metric]
StaysBelow(metric) ==
  metric \in DOMAIN Threshold => \E value \in Values(metric) : value < Threshold[metric]

NextReading == reading' = IF reading = Len(Metrics) THEN 0 ELSE reading + 1

SkipReading ==
  /\ reading > 0 /\ StaysBelow(Metrics[reading])
  /\ NextReading
  /\ UNCHANGED <<clockVars, sampleVars, failureVars, registered>>

FailNotifier ==
  /\ notifierFailures < MaxFailures
  /\ notifierFailures' = notifierFailures + 1
  /\ failuresSince' = failuresSince + 1
  /\ UNCHANGED failuresBefore

\* Mutant of CaptureReading: the counter is read again for the next sample
\* when the readings have been captured.
CaptureReadingThenReset ==
  /\ reading > 0 /\ Exceeds(Metrics[reading])
  /\ NextReading
  /\ FailNotifier \/ UNCHANGED failureVars
  /\ previousNotifierFailures' = notifierFailures'
  /\ registered' \in {registered, FALSE}
  /\ UNCHANGED <<clockVars, dueAt, expectedAt, sample, failuresSampled>>

\* captureEvent(): its alert may fail at once, because the circuit is open or
\* send() throws; a callback may unregister the watcher.  The readings left
\* are captured all the same.
CaptureReading ==
  /\ reading > 0 /\ Exceeds(Metrics[reading])
  /\ NextReading
  /\ FailNotifier \/ UNCHANGED failureVars
  /\ registered' \in {registered, FALSE}
  /\ UNCHANGED <<clockVars, sampleVars>>

\* A notifier of the queue fails, between two runs of synchronous code.
QueueFails ==
  /\ reading = 0 /\ FailNotifier
  /\ UNCHANGED <<clockVars, sampleVars, registered, reading>>

Unregister ==
  /\ reading = 0 /\ registered
  /\ registered' = FALSE
  /\ UNCHANGED <<clockVars, sampleVars, failureVars, reading>>

Tick ==
  /\ time < MaxTime
  /\ time' = time + 1
  /\ UNCHANGED <<offset, stepped, sampleVars, failureVars, registered, reading>>

StepClock ==
  /\ offset' \in (-MaxStep..MaxStep) \ {offset}
  /\ stepped' = TRUE
  /\ UNCHANGED <<time, sampleVars, failureVars, registered, reading>>

Next ==
  \/ TakeSample \/ SkipReading \/ CaptureReading \/ QueueFails
  \/ Unregister \/ Tick \/ StepClock

Spec == Init /\ [][Next]_vars

-----------------------------------------------------------------------------

\* The delay that is compared with its threshold is the time for which the
\* event loop kept the due timer waiting, also after samples that came late or
\* took long.  Only a step of the wall clock since the last sample makes it
\* wrong, and only that one sample.
DelayIsBlockedTime == sample.stepped \/ sample.delay = sample.late

\* "failures observed since the previous sample, not the lifetime diagnostic
\* total" (docs/CONFIGURATION.md:112-113): every failure is measured by exactly
\* one sample, those that the events of a sample cause by the next one.
FailuresSampledOnce ==
  failuresSampled + failuresSince = notifierFailures - failuresBefore
=============================================================================
