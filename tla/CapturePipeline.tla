-------------------------- MODULE CapturePipeline --------------------------
(***************************************************************************)
(* A capture of src/core/client.ts, from captureException or captureEvent  *)
(* to the notification queue: admission, the filter, the group store of    *)
(* src/core/group-store.ts, the policy of src/core/incident-policy.ts,     *)
(* beforeSend and enqueue.                                                 *)
(*                                                                         *)
(* A capture is synchronous, but it calls back into the application: the   *)
(* filter, beforeSend, and the send of a notifier when the queue is idle.  *)
(* From there the application may capture again, so the captures under way *)
(* form a stack and only the innermost one moves.  The wall clock moves at *)
(* any time, also while a callback runs.                                   *)
(*                                                                         *)
(* The queue is the one AlertLog promises: `outstanding` alerts have been  *)
(* accepted and not reported yet.                                          *)
(***************************************************************************)
EXTENDS EventWindow, FiniteSets, SequencesExt

CONSTANTS
  Fingerprints,        \* the fingerprints of captured events
  OverloadFp,          \* "wotchi.capture.overload"
  Kinds,               \* the IncidentEventKinds that occur
  Thresholds,          \* the alertThresholds of client, rules and events
  HighCount,           \* the 20 of evaluateIncidentPolicy
  CooldownMs,          \* grouping.cooldownMs
  MaxGroups,           \* grouping.maxGroups
  OverloadCooldownMs,  \* overload.alertCooldownMs
  MaxPendingAlerts,    \* queue.maxPendingAlerts
  Epoch,               \* the wall clock of the first capture
  MaxTime,             \* bound: the wall clock reads Epoch..Epoch + MaxTime
  MaxCalls,            \* bound: calls of the capture functions
  MaxDepth             \* bound: captures under way at a time

ASSUME PipelineAssumption ==
  /\ OverloadFp \in Fingerprints
  /\ Kinds \subseteq {"error", "manual", "process-monitor", "runtime-monitor"}
  /\ Thresholds \subseteq Nat \ {0}
  /\ {HighCount, CooldownMs, MaxGroups, OverloadCooldownMs, MaxPendingAlerts}
       \subseteq Nat \ {0}
  /\ {MaxTime, MaxCalls, MaxDepth} \subseteq Nat
  /\ Epoch \in Nat /\ Epoch > OverloadCooldownMs

Never == 0  \* lastAlertedAt is undefined
NoGroup == [seen |-> <<>>, alertedAt |-> Never, unavailable |-> FALSE]

VARIABLES
  stack,                \* the captures under way, the innermost one first
  order, group,         \* the group store: the Map's order and its groups
  overloadLastAlertAt,
  outstanding, closed,  \* the notification queue
  diagnostics,
  now,
  calls, signals,       \* history: captures called, overload signals captured
  records,              \* history: the events recorded in the group store
  lastAlert,            \* history: group -> when its last alert was captured
  lastSignal,           \* history: when the last overload alert was captured
  nested, setBack       \* history: a callback after record() has captured
                        \* again; the wall clock has been set back

storeVars == <<order, group, records>>
queueVars == <<outstanding, closed>>
alertVars == <<lastAlert, lastSignal>>
callVars == <<calls, signals, overloadLastAlertAt, nested>>
clockVars == <<now, setBack>>
vars == <<stack, storeVars, queueVars, alertVars, callVars, clockVars, diagnostics>>

Init ==
  /\ stack = <<>>
  /\ order = <<>>
  /\ group = [f \in Fingerprints |-> NoGroup]
  /\ overloadLastAlertAt = 0
  /\ outstanding = 0 /\ closed = FALSE
  /\ diagnostics = [capturedEvents |-> 0, eventsSuppressed |-> 0,
                    eventsDroppedOverload |-> 0, captureFailures |-> 0,
                    capturesAfterShutdown |-> 0]
  /\ now = Epoch
  /\ calls = 0 /\ signals = 0
  /\ records = <<>>
  /\ lastAlert = [f \in Fingerprints |-> Never]
  /\ lastSignal = 0
  /\ nested = FALSE /\ setBack = FALSE

Count(counter) == diagnostics' = [diagnostics EXCEPT ![counter] = @ + 1]
Top == Head(stack)
At(step) == stack # <<>> /\ Top.step = step
Return == stack' = Tail(stack)
Goto(step) == stack' = <<[Top EXCEPT !.step = step]>> \o Tail(stack)

-----------------------------------------------------------------------------
(* The calls, from outside or from a callback of the innermost capture.    *)

CallerRuns == At("filter") \/ At("beforeSend") \/ At("send") \/ stack = <<>>

Call ==
  /\ CallerRuns
  /\ calls < MaxCalls
  /\ calls' = calls + 1
  /\ UNCHANGED <<storeVars, queueVars, alertVars, clockVars>>

\* captureSafeEvent() reads the clock and runs the filter.
Begin(fp, kind, threshold, unavailable) ==
  /\ Len(stack) < MaxDepth
  /\ stack' = <<[fp |-> fp, kind |-> kind, threshold |-> threshold,
                 unavailable |-> unavailable, timestamp |-> now,
                 step |-> "filter"]>> \o stack
  /\ nested' = (nested \/ At("beforeSend") \/ At("send"))

CallAfterShutdown ==
  /\ Call
  /\ closed
  /\ Count("capturesAfterShutdown")
  /\ UNCHANGED <<stack, signals, overloadLastAlertAt, nested>>

CallInvalid ==
  /\ Call
  /\ ~closed
  /\ Count("captureFailures")
  /\ UNCHANGED <<stack, signals, overloadLastAlertAt, nested>>

CallCapture ==
  /\ Call
  /\ ~closed
  /\ \E fp \in Fingerprints \ {OverloadFp}, kind \in Kinds,
        threshold \in Thresholds, unavailable \in BOOLEAN :
       Begin(fp, kind, threshold, unavailable)
  /\ UNCHANGED <<signals, overloadLastAlertAt, diagnostics>>

\* Mutant of CallOverload: the cooldown of the signal is never started.
CallOverloadUntimed ==
  /\ Call
  /\ ~closed
  /\ Count("eventsDroppedOverload")
  /\ IF now - overloadLastAlertAt < OverloadCooldownMs
     THEN UNCHANGED <<stack, signals, overloadLastAlertAt, nested>>
     ELSE /\ UNCHANGED overloadLastAlertAt
          /\ signals' = signals + 1
          /\ Begin(OverloadFp, "runtime-monitor", 1, FALSE)

\* No token: the capture is dropped, and the overload signal is captured in
\* its place unless the last one is recent.  Monitor events need no token.
CallOverload ==
  /\ Call
  /\ ~closed
  /\ Kinds \cap {"error", "manual"} # {}
  /\ Count("eventsDroppedOverload")
  /\ IF now - overloadLastAlertAt < OverloadCooldownMs
     THEN UNCHANGED <<stack, signals, overloadLastAlertAt, nested>>
     ELSE /\ overloadLastAlertAt' = now
          /\ signals' = signals + 1
          /\ Begin(OverloadFp, "runtime-monitor", 1, FALSE)

-----------------------------------------------------------------------------
(* The innermost capture goes on.                                          *)

\* The filter refuses the event, throws or returns no boolean; or a rule
\* ignores the event.
Ignore ==
  /\ At("filter")
  /\ Return
  /\ Count("eventsSuppressed")
  /\ UNCHANGED <<storeVars, queueVars, alertVars, callVars, clockVars>>

Known(fp) == \E i \in DOMAIN order : order[i] = fp

\* evictLeastRecent(), for a group that is new.
Evicted(fp) == IF ~Known(fp) /\ Len(order) >= MaxGroups THEN {Head(order)} ELSE {}

OrderWithout(fp) ==
  IF Known(fp) THEN RemoveFirst(order, fp)
  ELSE IF Evicted(fp) # {} THEN Tail(order) ELSE order

\* Mutant of Matched: the events that left the window still count.
MatchedUnpurged(fp, unavailable) ==
  [group[fp] EXCEPT
     !.seen = Append(group[fp].seen, now),
     !.unavailable = IF Known(fp) THEN @ ELSE unavailable]

\* record(): a group that matches again moves to the end of the Map; a new
\* one replaces the first when the Map is full.  Its sample stays the event
\* that created it.  snapshot() counts the window at the time of the match.
Matched(fp, unavailable) ==
  [group[fp] EXCEPT
     !.seen = Purged(Added(group[fp].seen, now), now),
     !.unavailable = IF Known(fp) THEN @ ELSE unavailable]

\* Mutant of RecordEvent: a group that matches again keeps its place.
RecordInPlace(fp, unavailable) ==
  /\ order' = IF Known(fp) THEN order ELSE Append(OrderWithout(fp), fp)
  /\ group' = [f \in Fingerprints |->
                 IF f = fp THEN Matched(fp, unavailable)
                 ELSE IF f \in Evicted(fp) THEN NoGroup ELSE group[f]]
  /\ records' = Append(records, [fp |-> fp, at |-> now, fresh |-> ~Known(fp),
                                 unavailable |-> unavailable])
  /\ lastAlert' = IF Known(fp) THEN lastAlert ELSE [lastAlert EXCEPT ![fp] = Never]

RecordEvent(fp, unavailable) ==
  /\ order' = Append(OrderWithout(fp), fp)
  /\ group' = [f \in Fingerprints |->
                 IF f = fp THEN Matched(fp, unavailable)
                 ELSE IF f \in Evicted(fp) THEN NoGroup ELSE group[f]]
  /\ records' = Append(records, [fp |-> fp, at |-> now, fresh |-> ~Known(fp),
                                 unavailable |-> unavailable])
  /\ lastAlert' = IF Known(fp) THEN lastAlert ELSE [lastAlert EXCEPT ![fp] = Never]

\* Mutant of HasCooldown: read when the callback has returned.
HasCooldownLater(g, time) == g.alertedAt # Never /\ now - g.alertedAt < CooldownMs

\* evaluateIncidentPolicy()
HasCooldown(g, time) == g.alertedAt # Never /\ time - g.alertedAt < CooldownMs

Eligible(g, kind, threshold) ==
  \/ kind \in {"process-monitor", "manual"}
  \/ Len(g.seen) >= HighCount \/ g.unavailable
  \/ Len(g.seen) >= threshold
ShouldAlert(g, frame) ==
  Eligible(g, frame.kind, frame.threshold) /\ ~HasCooldown(g, frame.timestamp)

Record ==
  /\ At("filter")
  /\ RecordEvent(Top.fp, Top.unavailable)
  /\ \/ /\ ~ShouldAlert(group'[Top.fp], Top)
        /\ Return /\ Count("capturedEvents")
     \/ /\ ShouldAlert(group'[Top.fp], Top)
        /\ Goto("beforeSend") /\ UNCHANGED diagnostics
     \/ /\ ShouldAlert(group'[Top.fp], Top)  \* renderLinks throws
        /\ Return /\ Count("captureFailures")
  /\ UNCHANGED <<queueVars, lastSignal, callVars, clockVars>>

\* Mutant of Withhold: a withheld alert is not counted.
WithholdUncounted ==
  /\ At("beforeSend")
  /\ Return
  /\ UNCHANGED <<storeVars, queueVars, alertVars, callVars, clockVars, diagnostics>>

\* beforeSend returns null, throws, or returns no alert.
Withhold ==
  /\ At("beforeSend")
  /\ Return
  /\ Count("eventsSuppressed")
  /\ UNCHANGED <<storeVars, queueVars, alertVars, callVars, clockVars>>

\* enqueue() takes the alert; an idle queue calls the notifiers at once.
Enqueue ==
  /\ At("beforeSend")
  /\ ~closed /\ outstanding <= MaxPendingAlerts
  /\ outstanding' = outstanding + 1
  /\ \/ outstanding = 0 /\ Goto("send")
     \/ Goto("mark")
  /\ lastAlert' = [lastAlert EXCEPT ![Top.fp] = Top.timestamp]
  /\ lastSignal' = IF Top.fp = OverloadFp THEN Top.timestamp ELSE lastSignal
  /\ UNCHANGED <<closed, storeVars, callVars, clockVars, diagnostics>>

\* Mutant of EnqueueRefused: an alert that is dropped starts the cooldown.
EnqueueRefusedMarks ==
  /\ At("beforeSend")
  /\ closed \/ outstanding >= MaxPendingAlerts
  /\ Return
  /\ Count("capturedEvents")
  /\ group' = [group EXCEPT ![Top.fp].alertedAt = Top.timestamp]
  /\ UNCHANGED <<order, records, queueVars, alertVars, callVars, clockVars>>

EnqueueRefused ==
  /\ At("beforeSend")
  /\ closed \/ outstanding >= MaxPendingAlerts
  /\ Return
  /\ Count("capturedEvents")
  /\ UNCHANGED <<storeVars, queueVars, alertVars, callVars, clockVars>>

MarkAlerted ==
  /\ At("send") \/ At("mark")
  /\ group' = IF Known(Top.fp)
              THEN [group EXCEPT ![Top.fp].alertedAt = Top.timestamp] ELSE group
  /\ Return
  /\ Count("capturedEvents")
  /\ UNCHANGED <<order, records, queueVars, alertVars, callVars, clockVars>>

-----------------------------------------------------------------------------
(* The environment.                                                        *)

\* The queue reports an alert, between two runs of synchronous code.
Report ==
  /\ stack = <<>> /\ outstanding > 0
  /\ outstanding' = outstanding - 1
  /\ UNCHANGED <<stack, closed, storeVars, alertVars, callVars, clockVars, diagnostics>>

Close ==
  /\ CallerRuns /\ ~closed
  /\ closed' = TRUE
  /\ UNCHANGED <<stack, outstanding, storeVars, alertVars, callVars, clockVars, diagnostics>>

\* Bound: the clock is set back at most once.
ClockChanges ==
  /\ \E t \in Epoch..(Epoch + MaxTime) :
       \/ t > now /\ now' = t /\ UNCHANGED setBack
       \/ t < now /\ now' = t /\ ~setBack /\ setBack' = TRUE
  /\ UNCHANGED <<stack, storeVars, queueVars, alertVars, callVars, diagnostics>>

Next ==
  \/ CallAfterShutdown \/ CallInvalid \/ CallCapture \/ CallOverload
  \/ Ignore \/ Record \/ Withhold \/ Enqueue \/ EnqueueRefused \/ MarkAlerted
  \/ Report \/ Close \/ ClockChanges

Spec == Init /\ [][Next]_vars

-----------------------------------------------------------------------------
(* Properties.                                                             *)

Frame == [fp : Fingerprints, kind : Kinds \cup {"runtime-monitor"},
          threshold : Thresholds \cup {1}, unavailable : BOOLEAN,
          timestamp : Nat, step : {"filter", "beforeSend", "send", "mark"}]
Group == [seen : Seq(Nat), alertedAt : Nat, unavailable : BOOLEAN]

\* Types, and the bounds the code promises: groups, events of a window and
\* alerts of the queue stay within their configured limits.
TypeOK ==
  /\ stack \in Seq(Frame) /\ Len(stack) <= MaxDepth
  /\ order \in Seq(Fingerprints) /\ Len(order) <= MaxGroups
  /\ group \in [Fingerprints -> Group]
  /\ \A f \in Fingerprints : Len(group[f].seen) <= MaxEvents
  /\ \A f \in Fingerprints : Known(f) <=> group[f].seen # <<>>
  /\ outstanding \in 0..(MaxPendingAlerts + 1) /\ closed \in BOOLEAN
  /\ overloadLastAlertAt \in Nat /\ lastSignal \in Nat
  /\ lastAlert \in [Fingerprints -> Nat]
  /\ calls \in 0..MaxCalls /\ signals \in 0..MaxCalls
  /\ now \in Epoch..(Epoch + MaxTime)
  /\ nested \in BOOLEAN /\ setBack \in BOOLEAN

\* Every capture call and every overload signal is counted exactly once, when
\* it ends: as captured, suppressed, dropped, failed or too late.  Captures
\* made from callbacks, callbacks that throw and a shutdown in between lose
\* none and count none twice.
DiagnosticsBalance ==
  calls + signals =
    diagnostics.capturedEvents + diagnostics.eventsSuppressed
    + diagnostics.eventsDroppedOverload + diagnostics.captureFailures
    + diagnostics.capturesAfterShutdown + Len(stack)

\* The groups kept are those that matched last: a group is forgotten only
\* when MaxGroups other groups have matched since.
KeepsMostRecent ==
  \A f \in Fingerprints :
    Known(f) <=> \E i \in DOMAIN records :
                   /\ records[i].fp = f
                   /\ Cardinality({records[k].fp : k \in i..Len(records)} \ {f})
                        < MaxGroups

\* While a group is kept, the alerts the queue accepts for it were captured at
\* least a cooldown apart, whatever the clock does and although the filter may
\* capture the same failure again.
OneAlertPerCooldown ==
  [][Enqueue /\ ~nested /\ lastAlert[Top.fp] # Never
       => Top.timestamp - lastAlert[Top.fp] >= CooldownMs]_vars

\* The overload signal alerts at most once per overload.alertCooldownMs, even
\* if its group has been evicted in between and its signals, captured from
\* the filter of one another, arrive in another order.
OneSignalPerCooldown ==
  [][Enqueue /\ ~nested /\ Top.fp = OverloadFp /\ lastSignal # 0
       => \/ Top.timestamp - lastSignal >= OverloadCooldownMs
          \/ lastSignal - Top.timestamp >= OverloadCooldownMs]_vars

\* The matches of a group within the window that ends now, by the history of
\* the store: since the group was created, and this match included.
Matches(fp, history) ==
  Cardinality({i \in DOMAIN history :
                 /\ history[i].fp = fp
                 /\ now - history[i].at < WindowMs
                 /\ \A k \in i + 1..Len(history) :
                      ~(history[k].fp = fp /\ history[k].fresh)})

\* The event that created the group was a 503.
CreatedBy503(fp, history) ==
  \E i \in DOMAIN history :
    /\ history[i].fp = fp /\ history[i].fresh /\ history[i].unavailable
    /\ \A k \in i + 1..Len(history) : ~(history[k].fp = fp /\ history[k].fresh)

\* The step builds an alert for the innermost capture.
BuildsAlert == Record /\ Len(stack') = Len(stack)

\* An alert for an error is built only for as many matches within the window
\* as the threshold asks, HighCount at most, or if the group began with a 503.
AlertIsEarned ==
  [][BuildsAlert /\ ~setBack /\ Top.kind = "error"
       => \/ Matches(Top.fp, records') >= Top.threshold
          \/ Matches(Top.fp, records') >= HighCount
          \/ CreatedBy503(Top.fp, records')]_vars

\* A match is silent only below the threshold or within the cooldown of an
\* alert that the queue accepted.  The window must hold as many events as the
\* threshold asks.
AlertIsDue ==
  [][Record /\ ~nested /\ ~setBack /\ Top.threshold <= MaxEvents
     /\ Matches(Top.fp, records') >= Top.threshold
     /\ (lastAlert'[Top.fp] = Never
           \/ Top.timestamp - lastAlert'[Top.fp] >= CooldownMs)
       => BuildsAlert \/ diagnostics'.captureFailures > diagnostics.captureFailures]_vars

\* "The optional `alertThreshold` applies only to status events, so a noisy
\* `429` stream can require 1,000 matches" (docs/CONFIGURATION.md:268-269): an
\* error that is no 503 alerts only after that many matches.
ThresholdIsRequired ==
  [][BuildsAlert /\ Top.kind = "error"
     /\ ~CreatedBy503(Top.fp, records')
       => Matches(Top.fp, records') >= Top.threshold]_vars
=============================================================================
