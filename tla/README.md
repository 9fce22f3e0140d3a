# Wotchi: a TLA+ specification

Wotchi is a library that runs inside a Node.js service. It captures errors,
groups them, decides which group deserves an alert and delivers alerts to
notifiers, without ever harming its host. This directory holds TLA+ modules
of its stateful parts, TLC configurations that check them on small instances,
and TLAPS proofs of what matters most for every instance. Source paths below
are relative to `src/`.

## Inventory

| component | state it keeps | operations | must hold |
|---|---|---|---|
| notification queue, `src/core/notification-queue.ts` | pending jobs, one worker, a circuit for each notifier, a drain promise shared by callers, counters | `enqueue`, `flush`, `close`; timers and continuations of `processJob` | every accepted alert is reported once and in order; no flush sleeps for ever; nothing runs after a shutdown that resolved; the counters balance; circuits open and close as promised |
| self test, `testAlert` in `src/core/client.ts` | the result of its own job | one call | it never claims a delivery that did not happen |
| capture pipeline, `src/core/client.ts`, `group-store.ts`, `incident-policy.ts`, `diagnostics.ts` | groups in a bounded Map, time of the last alert of each, overload timestamp, counters | `captureException`, `captureEvent`, with the callbacks `filter`, `beforeSend` and `send` | one alert for each cooldown, none without cause and none missed; the groups kept are the recent ones; every call is counted once |
| rolling window, `src/core/rolling-window.ts` | ring buffer, head, length | `add`, `timestamps`, `count`, `size` | equals a bounded log; its count is exact |
| capture admission, `src/core/admission.ts` | tokens, time of the last refill | `tryAcquire` | never above the budget, never refuses within it |
| HTTP adapters, `src/integrations/express`, `src/integrations/nest/capture.ts` | listeners of a response, the mark of a request | error handler, exception filter, status observer | each error is reported once, with the final status |
| HTTP delivery, `src/notifiers/webhook-http.ts`, `telegram-http.ts` | retry counters, timer, abort signal, exchange under way | `send` | it settles, leaves nothing behind, does not deliver twice, and succeeds only if the receiver accepted |
| runtime watcher, `src/core/runtime-monitor.ts` | time the timer is expected at, failures counted by the sample before, registration | `registerRuntimeMonitor`, the timer's sample, `unregister` | a reported lateness was real, each failure is sampled once |
| NestJS wiring, `src/integrations/nest` (filter, wrapper, registration) | the list of global filters | `catch`, wrapping, `useGlobalFilters` | the filter that would have answered without Wotchi still answers |
| alert texts, `src/notifiers/telegram-format.ts`, `alert-payload.ts` | the draft of one text | truncation loops, fallback payload | the body fits the receiver and loses nothing needlessly |
| normalization and redaction, `src/core/normalize.ts`, `redact.ts` | seen objects and visited keys of one traversal | `redactValue` | the copy of any value is within its limits, shows where it was cut, and holds nothing that only keys lead to which are secret as they are stored |
| content of events and alerts, `src/core/client.ts`, `group-store.ts`, `incident-builder.ts` | the sample of a group | safe event, rules, sample, alert, `beforeSend` | an alert survives `beforeSend`; an ignored route stays quiet |
| configuration, `src/core/config.ts`, options of the watcher, the observer and the notifiers | none | validation and defaults | accepted values are usable: the modules' assumptions hold of them |
| request context, `src/integrations/request-context.ts` and its two adapters | none | `buildRequestContext`, `normalizeRoutePath` | what rules and alerts see of a request |
| process monitor, NestJS module, fingerprints, console notifier, Prometheus export, types and entry points | none of their own | a listener, declarations, formatting | not modelled, see below |

How they interact. An adapter calls `captureException` or `captureEvent`. The
client asks the admission bucket, runs the `filter`, records the event in the
group store (whose groups each own a rolling window), asks the policy, runs
`beforeSend` and enqueues. All of that is one synchronous run that calls back
into the application. The queue then calls the notifiers and continues in
microtasks and timers; the built-in notifiers run the HTTP loop. `testAlert`,
`flush` and `shutdown` share the queue with everything else. The watcher reads
the counters of the client it captures to. All clocks but Node's timers are the
wall clock, which may be set back.

The hard behaviours are the interleavings of callers, continuations and timers
in the queue; answers that come after their timeout; re-entrant captures; the
order of a response's events; a wall clock that jumps; and limits (of groups,
events, alerts, tokens, retries) that are reached while something else is
under way. `PROJECT.json` lists each hazard at its line.

## Modules

| module | what it is |
|---|---|
| `AlertLog` | abstract: alerts are accepted up to a capacity, reported once, in order, until the log is closed |
| `NotificationQueue` | the queue, one action for each synchronous call, continuation and timer |
| `CircuitHistory` | the circuit breaker a notifier is promised, recomputed from what happens to it, beside the queue |
| `SelfTest` | the queue and its circuit histories, with `testAlert` calls |
| `EventWindow` | the window of events of a group, as a sequence (`Added`, `Purged`) |
| `EventLog` | abstract: a log of events in the window |
| `RollingWindow` | the ring buffer; implements `EventLog` |
| `CaptureAdmission` | the token bucket |
| `AdmittedWindow` | the bucket and the ring of one group on one wall clock: a capture takes its token first and adds its match later; the captures of the monitors and the overload signal need no token |
| `CapturePipeline` | captures, group store, policy and callbacks, above `EventWindow` and a queue as `AlertLog` promises it |
| `NestFilters` | the global filters of a NestJS application: which one catches, and Wotchi's place among them |
| `HttpCapture` | one HTTP request seen by the adapters, with the filters of `NestFilters` |
| `HttpDelivery` | the exchange of one `send()` of the webhook or of the Telegram notifier |
| `AlertText` | how an alert is cut to the size its receiver takes |
| `NotifierSend` | a whole `send()`: `AlertText`, then `HttpDelivery` |
| `RuntimeWatcher` | samples of the process, captured re-entrantly |
| `SafeTraversal` | the two traversals that make a safe copy of a value of the application, a turn of a loop at a time |
| `SafeValue` | the same as functions that call themselves, for modules that need a copy as a value |
| `RequestContext` | what the adapters tell of a request |
| `AlertContent` | the safe event, the group's sample, the alert and what is left of it after `beforeSend` |
| `Settings` | the options of every factory, their checks and defaults |
| `Configuration` | a factory is called with any options: it makes settings of them or refuses |
| `Inputs` | `Configuration` and `AlertContent` together: from the options to the alert |
| `NotificationQueueProofs` | theorems about the queue (of `NotificationQueue`), and about tests and circuits beside it (of `SelfTest`) |
| `CaptureAdmissionProofs` | theorems about the bucket, the ring, and both together |
| `CapturePipelineProofs`, `HttpCaptureProofs`, `NotifierSendProofs`, `SafeTraversalProofs` | theorems about the module of that name |
| `SettingsProofs` | theorems about `Configuration`, and about `RuntimeWatcher`, which one of the factories starts |
| `SequenceFacts` | lemmas that several of them rest on: least elements, `RemoveFirst` and prefixes of sequences |
| `MC...` | constants for TLC |

### The queue

An atomic step is what JavaScript runs without interruption. `StartLane` is the
synchronous beginning of one callback of `processJob` up to its `await`;
`SendSettles` and `TimerFires` are the two sides of `Promise.race`, `LaneSent`
and `LaneFailed` the continuation after it, `CompleteJob` the continuation of
`Promise.all`, `FinishJob` the `finally` of `pump`. A timer needs
`MicrotasksDone`. A call of the API needs `CallerRuns`: it can come from
anywhere except the middle of a synchronous loop that has not yet left the
queue's own code, and in particular from inside a `send`.

The list of notifiers is not deduplicated by the code. `NotifierOf` maps lanes
to notifiers, and `notifierStates`, `cell` and `state` keep the identity of the
state objects that lanes share, so that a notifier listed twice has the circuit
it has in the code (see the disagreements below). A flush call is one of
`Waiters`; its `mark` records how many alerts had been accepted when it was
made.

### Captures

`CapturePipeline` keeps a stack of the captures under way, because `filter`,
`beforeSend` and the `send` of an idle queue may capture again. Only the top
moves. An event is a fingerprint, a kind, a threshold and whether it is a 503;
whether a token was left is nondeterministic, `CaptureAdmission` says when.
The literal 20 of the policy is the constant `HighCount`, so that it can be
reached. The module merges the two clock readings of one synchronous segment
(`emitOverloadSignal(now())` and the reading of `captureSafeEvent`) and keeps
those that a callback separates. The history `nested` says that a capture was
made after `record()` of an outer one: the time of the last alert is written
after `beforeSend` and a synchronous `send`, so a nested capture of the same
group may alert again, and the cooldown properties exclude just that. The
other history, `setBack`, excludes a wall clock that was set back where a
property counts events of a window.

### Requests and delivery

In `HttpCapture` Node's response is external: its headers are sent with the
first chunk or by `end()`, and fix the status that the client receives
(`sentStatus`), while `statusCode` can still be assigned and is what the code
reads; `finish` needs `end()`, `close` comes once and ends everything, `emit()`
works on a copy of the listeners and is not interrupted. The default answer to
an exception that comes after the headers only ends the response. The NestJS
dispatcher is external too, and modelled from how the code uses it: filters are
asked from the last registered to the first. A setup chooses the order of
registration, which filters match the exception, which are wrapped, and the
kind of the exception; an application that wraps its filters registers no
Wotchi filter, as the documentation describes.

In `HttpDelivery` the receiver is external: it decides once what it makes of a
request, and the answer may be complete, partial, late or missing. The wait and
the timer of an attempt have no duration. A lookup that fails and a payload
builder that throws are outcomes of their steps. In `AlertText` a text is known
by how long its first n characters become when they are encoded; each pass of a
loop in `formatTelegramAlert` is a step on the draft, and the last one hands
the body over to the first attempt.

### The watcher

`RuntimeWatcher` separates the monotonic clock, on which timers fire, from the
wall clock, which `offset` moves. A sample reads everything at once
(`TakeSample`) and captures its readings one by one; each capture calls the
application back, which may let time pass, fail a notifier or unregister. CPU
and memory are one metric whose value is free.

### Safe copies, events and settings

`SafeTraversal` takes as input every graph of arrays and objects, with sharing,
cycles, objects that refuse to be read, revoked proxies, secret keys and the
keys that are skipped. `stored` says what `maxStringLength` makes of each key
before it is stored: two keys of an object may become one, and the later value
then takes the place of the earlier (`Overwritten`, `Position`); a secret key
may cease to be one. The recursion of the code is a stack of the loops that its
calls have entered (`stack`); one action is one turn of such a loop, with the
call of `normalizeValue` that it makes, and the copy is the list of its items
in the order in which they are written, each with the item that holds it.
`Catch` is the `catch` around it all: a revoked proxy cannot even be asked
whether it is an array (`normalize.ts:113`), and one text replaces the whole
copy. The second traversal keeps what its loops have still to come to (`todo`)
and takes the next of the innermost loop (`Following`). A leaf stands for any
text, number or unreadable property.

`SafeValue` has `NormalizeValue` and `RedactNormalized` as recursive operators,
with the set of seen objects, the count of visited keys and whether something
was thrown threaded through. The run `safe_value` finds both to make the same
copy of every graph; TLC needs the second form for what a client copies, the
proofs the first.

`AlertContent` applies these operators to the objects the client builds: an
object is its keys in their order, a text is known by the capture it came from.
That is enough to see which event a field of an alert tells of, and which
fields a limit removes. The literal 50 of the tags and the default of 100 keys
are constants (`TagLimit`, `DefaultMaxKeys`), scaled down in the run.

`Settings` holds the options of each factory as a sequence in the order in
which the code reads them; `Validate` is refused at the first that fails. A
value is its type and a number (itself, or its length). Of a list the first
element stands for all. A URL is public, loopback, private or none of these. Times
are in hundredths of a second, because 30 days in milliseconds exceed TLC's
integers. `Configuration` calls one factory with one of a set of options;
`Inputs` does so in its first step and goes on with the client it has made.

## Runs

| run | instance | shows |
|---|---|---|
| `queue_flush` | one notifier, three alerts, one pending place, two flush or close calls, two clock readings, fair timers | no lost wake-up, flush covers earlier alerts, shutdown is final, `AlertLog` is implemented with its liveness, a closed queue runs dry |
| `queue_circuit` | two notifiers, four alerts, threshold 2, clock 1..2 in both directions, one test, flush or close call | counters balance, also those of timeouts, circuits agree with their history, "sent" is true |
| `admitted_window` | a token every two ticks, burst 1, a ring of three, window 2, four admitted captures and one that needs no token, clock 0..4 with five forward ticks | the ring implements `EventLog` and its count is exact; the bucket is within its budget and refuses only over it; the budget bounds what a window counts beside matches without a token |
| `capture` | two groups and the overload signal in a store of two, threshold 2, three calls, depth 2 | alerts against history and counters, see below |
| `capture_store` | the same groups, four captures one by one, every match alerts, two clock readings | eviction: the groups kept are the most recent, the overload signal keeps its cooldown |
| `capture_threshold` | threshold 3 above a `HighCount` of 2 | violation: the threshold does not hold an alert back |
| `http_capture` | two Express errors, one NestJS error, an observer, every arrangement of two filters and Wotchi, headers sent at any time and `statusCode` changed once after them, a connection that may be lost | one report for each error, final status, no duplicate status event; Wotchi changes no answer; on an open connection each error is reported in the end |
| `http_capture_twice` | the same | violation: an error after `finish` is reported beside the status |
| `http_delivery` | both transports, at most one webhook retry, an answer of two chunks, alerts whose parts are around every limit | the body fits and nothing is dropped needlessly; `send` settles, is not repeated in doubt, claims no false success |
| `safe_value` | every graph of two nodes with at most two entries each, key limits 1..5, depth limits 1..3; the keys as they are, shortened so that a secret and two plain keys become one, or so that a plain key becomes secret | the copy is bounded, hides secrets, shows its cuts, leaves small values alone, and is the one that the recursive operators return |
| `runtime_watcher` | samples every two ticks up to time 8, a wall clock one tick off, four failures, three of four metrics with thresholds | a reported lateness is one of the timer, unless the clock was stepped; each failure is in exactly one sample |
| `inputs` | each setting of each factory below, at and above its limits, beside another one at its upper limit; two captures of one group under key limits 2, 3, 13, 14, 30 and depths 1, 2, 3, 5 | accepted settings are usable; an alert survives `beforeSend`; an ignored route stays quiet |

Why the bounds are enough. In the queue the interesting cases need an active
job, a pending one and one refused, two callers that share a drain promise, and
one more job accepted while they wait: three alerts and two callers. A circuit
with threshold 2 opens, cools down, is tried again and reopens within four
jobs. A wall clock of two readings lets a cooldown end, be reached again after
the clock is set back, and outlast the run. Two lanes suffice for independent
failures; more lanes only repeat them, and the theorems hold for any number.
Five events wrap a ring of three while events expire. In the pipeline two
groups and the overload signal exceed a store of two. Three calls with a depth
of two reach a nested alert, a cooldown and an eviction; telling the least
recent group from the oldest one, and a signal that comes again after its
eviction, take four, which `capture_store` has without nesting. Three listeners
on a response are two errors and the observer, in each order; two filters
beside Wotchi put one before and one after it. Samples every two ticks let a
capture last longer than an interval, so that the next sample is late for a
reason of its own, and four failures fall before, between and within samples. A
rate of half a token a tick makes fractions add up. Two nodes of two entries
make every sharing and cycle of one node, nested cuts, and a second reference
to what a secret key holds; three nodes with one entry each were tried once and
show nothing new. The three ways to shorten keys make two plain keys one, hide
a secret key, and make one of a plain key, each of which also overwrites an
earlier value. The key limits of `inputs` surround the fourteen keys of an
alert. All bounds are guards of actions named in the modules (`MaxJobs`,
`MaxDropped`, `MaxTime`, `MaxStep`, `MaxFailures`, `MaxForward`, `MaxGranted`,
`MaxExempt`, `MaxAdded`, `MaxCalls`, `MaxDepth`, `MaxCaptures`, `MaxChunks`; in
`SetStatus` one change after the headers); none limits a step the code could be
waiting for. Runs without deadlock check are those whose bounded environment
may simply stop.

Some cases rest on a theorem rather than on a run. `queue_circuit` has one caller
that waits: that a test shares its drain promise with other callers without
losing `SentIsTrue` is what `SentHolds` shows. `capture_store` has no nested
captures: `OneSignalPerCooldown` with them is `SignalsApart`.

What `capture` and `capture_store` say. Alerts are compared with the history of
recorded events rather than with the store's fields: `AlertIsEarned` (enough
matches in the window, or a group that began with a 503) and `AlertIsDue` (no
silent match above the threshold outside the cooldown of an accepted alert)
bound the policy from both sides, `KeepsMostRecent` bounds the eviction,
`OneAlertPerCooldown` and `OneSignalPerCooldown` speak about pairs of alerts,
and `DiagnosticsBalance` counts each call once.

What `admitted_window`, `http_capture` and `safe_value` say where the code
makes an exception. `WindowWithinBudget` counts the matches that hold a token:
captures of the process and runtime monitors (`client.ts:602-607`) and the
overload signal (`client.ts:525-546`) add theirs without asking the bucket, so
a group they match may count more. `ReportsFinalStatus` compares with the status
on the wire. It excepts an Express report when `statusCode` was changed after
the headers, for the code reads `statusCode`, and a NestJS report of anything
but an `HttpException` that gets the default answer. `SecretsWithheld` speaks of
keys as they are stored, `CutIsVisible` of values in which no two keys become
one, and `SmallValuesSurvive` also excludes revoked proxies.

What `inputs` says. `SettingsAreUsable`: options that pass give every timer,
queue, store and window a whole number within the range it works for.
`CopySurvives`: a copy of an alert that `beforeSend` returns is sent as it is
when it fits the limits, and is withheld only under limits too small for any
alert. `IgnoredRouteStaysQuiet`: no alert is built for a request on the route
of the first rule if that rule ignores it, whatever ids the path holds, unless
a segment of the route itself looks like an id.

### Disagreements with the documents

* `docs/CONFIGURATION.md:268-269` says that a threshold can require 1,000
  matches; twenty matches within the window alert whatever the threshold
  (`incident-policy.ts:33`, run `capture_threshold`).
* `docs/API.md:167-168` says that a `5xx` response is not reported twice; an
  error handled after `finish` is (`error-handler.ts:33-35`, run
  `http_capture_twice`).
* `docs/CONFIGURATION.md:89-90` says when a notifier's circuit opens; that of a
  notifier listed twice opens late. Each of its lanes in the first job makes a
  state object of its own, and the later one replaces the other in the map
  (`notification-queue.ts:126`, `164`), so that two failures in a row count as
  one. TLC shows it on the instance of `queue_circuit` with `<<n1, n1>>` as the
  list. No run here includes such a list: the circuit properties of
  `queue_circuit` are about lists without repetition, as are the proofs, which
  need `ListedOnce`.
* `docs/CONFIGURATION.md:50-52` says that the values of sensitive keys are
  redacted. An object's key is shortened to `maxStringLength`
  (`normalize.ts:150`) before it is asked whether it is secret
  (`redact.ts:228`), so a key longer than the limit is not recognised; `safe_value`
  has such a `stored`. The default of 500 shortens no built-in key.
* `testAlert` answers "Notification queue is full" after a shutdown, too
  (`client.ts:676`, `notification-queue.ts:199`).
* `docs/CONFIGURATION.md:38-39` allows a depth of 20 and 10,000 keys; the
  group store copies the context of an event with the default limits of
  `normalize.ts` (`group-store.ts:33`), so larger limits do not reach it.

Worth knowing, without a document that says otherwise:

* The NestJS capture predicts the status before any filter has answered: a
  `413` of an `http-errors` error is reported as `500`, and so is a status that
  a filter chooses for an exception of its own.
* An `HttpException` that reaches NestJS after the headers were sent is reported
  with its own status (`nest/request-context.ts:25-28`), although the response
  keeps the one on the wire (`exception-filter.ts:64-67`, `88-91`); an Express
  report, and the status observer, give `statusCode`, even when it was assigned
  after the headers.
* Two keys of an object that `maxStringLength` makes one leave only the later
  value, without a mark. A revoked proxy anywhere in a value makes its whole copy
  `[unreadable value]`.
* Captures of the monitors and the overload signal need no token, so what a
  window counts of them is bounded only by the ring and by how often they come.
* An alert whose fields a user names in `redactKeys` (`severity`, `request`) loses
  them when `beforeSend` returns a copy; `CopySurvives` assumes no such key.
* The watcher takes an `alertThreshold` of `null` for the default
  (`runtime-monitor.ts:60`), the client's settings refuse `null`.
* The copy of an alert that `beforeSend` returned is withheld when `maxKeys` is
  below 14 or `maxDepth` below 2, and a large context may cost it its links.
* A rule whose route has a segment that looks like an id, or of 24 characters
  or more, matches nothing, because routes are normalized first. A route that
  Express knows as a pattern or a list is no route at all.
* An alert tells of the first event of its group, its links of the current one.
* The `timeoutMs` of the Telegram notifier is checked by `send`, not by the
  factory (`telegram-http.ts:157-160`).
* `close()` with an invalid timeout rejects, and has closed the queue
  (`notification-queue.ts:219`).
* With `maxEventsPerWindow` below a rule's threshold the threshold is never
  reached; `docs/CONFIGURATION.md:189-190` tells the user so.

### Fairness

`NotificationQueue`: continuations and armed timers run (the event loop is not
blocked for ever). The lane timers are unref'd (`notification-queue.ts:146`), so
this assumes that something of the host keeps its event loop alive. There is
no fairness on `SendSettles`, since a custom notifier may
never settle, and none on callers. `HttpDelivery`: timers fire, among them the
idle timeout of the socket: chunks may postpone it, but the body is bounded.
An answer of `429` or `5xx` counts as not accepted, as the code takes it: a
gateway that fails after the receiver accepted is outside.
`NotifierSend` adds that synchronous code runs on (`Format`, `HandOver`).
No fairness on the receiver. `HttpCapture`: Node calls the listeners and closes
each response in the end; no fairness on the application, which may never
`end()`.

## Proofs

Every safety property of the runs that pass is a theorem, for every value of
the constants that satisfies the named assumptions, except three that speak
about the recursive operators of `SafeValue` (see the end of this chapter).
`PROJECT.json` lists the theorems. Each follows the same
argument: an inductive invariant, which holds initially, which every action
keeps (one lemma or step for each), and which implies the property. What the
invariant has to add, and why:

### The queue

`NotificationQueueProofs` is for all lists of notifiers, limits, waiters and
bounds that satisfy `QueueAssumption`:

* `TypesHold`: `TypeOK`. Alone it is not inductive: that `FinishJob` leaves
  `activeJobs` a natural number, and that a lane which moves belongs to an
  active job, depends on the stage. `TypeInv` adds `Stages`, which relates
  `stage`, `activeJobs`, `job`, the lanes and their timers.
* `AccountingHolds`: `Accounting` follows from `Balance`, which adds what the
  settled lanes of the active job contribute, and from `TimeoutsAreFailures`:
  each timeout and circuit skip is a failure, up to the lanes whose rejection
  is not handled yet. The proof rests on lemmas about the cardinality of the
  lanes settled.
* `NoWakeupIsLost`, `FlushWaitsForAll`, `ShutdownHolds`: from `Waits`, which
  relates each caller to the drain promise, the active job, its mark and
  `closed`.
* `QueueImplementsLog`: each step maps to a step of `AlertLog` or leaves it
  unchanged, so `Spec => Log!SafeSpec`.

With tests beside the queue (`SelfTest`) its invariants are taken over: a test
is one more call that waits in `flush`.

* `SentHolds`: `SentIsTrue` needs that the reports are numbered as the jobs,
  with an outcome of each lane (`ReportsInv`), and that a waiting test holds
  the number of its own job (`TestInv`), because its promise settles later than
  the job does.
* `OpenCircuitHolds`, `HealthyNotifierCalled`: `Circuit` says that the state
  object of a lane is what the history of its notifier makes of it, also while
  a send is under way. They assume `ListedOnce`: no notifier is twice in the
  list. Without it they are false, as said above.

### Admission and the window

`CaptureAdmissionProofs` is about the bucket alone (`CaptureAdmission`) and
beside the ring of a group (`AdmittedWindow`), for every rate, burst, ring and
window of a positive size (`RingAssumption`) and every movement of the clock.

* `BoundHolds`, `BudgetHolds`: the inductive invariant is a credit: tokens,
  granted captures and the part of the clock's forward movement not yet paid
  out never exceed the burst and the whole forward movement.
* `RefusalsDue`, `CaptureRefusalsDue`: a refusal must name an interval whose
  budget is spent. `BudgetInv` bounds the tokens from both sides: what the
  bucket holds and gave since any time is at most the burst and the refill
  since then, and for one time, when it was last full, it is exactly that.
* `RingImplementsLog`: every step of the ring is a step of `EventLog` or
  leaves it alone, the ring read from its head. `RingTypes` keeps `head` and
  `length` within the ring; the lemmas say what `add` and the purge do to the
  sequence that is read, with the wrap-around of the slots.
* `CountHolds`: `CountIsExact` needs to know which matches are in the ring:
  the last ones (`Recent`), and that the earlier ones have expired or that the
  ring is full (`Forgotten`).
* `WindowBounded`: `PaidInv` gives each match with a token, but the first of an
  interval, a token of that interval, because captures come one by one. The
  matches that need no token stand between them and are not counted.

### Captures

`CapturePipelineProofs` is for every set of fingerprints, size of the store,
window, threshold, cooldown and depth of captures from callbacks.

* `CountedOnce`: the captures on the stack and the counters add up to the calls.
* `CooldownEarned`: the stored time of the last alert is that of the last
  accepted one, unless the innermost capture is about to write it
  (`CooldownInv`). No run checks this by itself: an alert that silences its group
  without being accepted breaks `AlertIsDue`, one that does not silence it
  `OneAlertPerCooldown`.
* `AlertsApart`: what the policy has seen of a group is still so when its
  alert goes out, unless something was captured in between (`AlertInv`, with
  `StackInv` for the captures that wait below).
* `SignalsApart`: the overload signals under way are captured a cooldown apart
  from each other and from the last one that alerted (`SignalInv`), whatever
  happens to their group in the store.
* `MostRecentKept`: the Map is ordered by the last matches (`RecentInv`). For
  each group in it, since some match of that group, exactly the groups behind
  it have matched; and since any match of a forgotten group, all groups of a
  full store have.
* `AlertsEarned`, `AlertsDue`: `WindowInv` maps the times that a group has
  seen, one by one, to records of it since it was created, and says of each
  record left out that it has expired or found no room; `SampleInv` remembers
  the 503 that a group began with.

### Requests

`HttpCaptureProofs` is for any number of errors, any list of filters and all
orders of the events.

* `ReportedOnce`: each Express error is counted by its own flag, each NestJS
  error by being handed to the filters once (`CountInv`).
* `FinalStatusReported`: until the response is over, listeners run only after
  `end()`, when the headers have been sent, and `statusCode` is what was sent
  unless it was changed since (`EndedInv`); the default answer to an
  `HttpException`, which needs unsent headers, sends the status that was
  predicted (`PredictionInv`).
* `AnswersUnchanged`: Wotchi hands an exception on to the filter that would
  have caught it (`AnswerInv`).
* `NotDuplicated`: an unmarked request has no error that waits for the response
  (`MarkInv`).

### Delivery

`NotifierSendProofs` is for every alert, size of an answer and number of
retries.

* `EveryBodyFits`: `BodyFits` for every encoding that expands a text no more
  than HTML and JSON can (`EncodingAssumption`). It needs that the draft stays
  one of an alert until it is handed over, and bounds of the two fallbacks.
* `MostIsKept`: `NothingDroppedNeedlessly`. `Needed` says of a draft that with
  each part left out so far it was too long, in the order of the loops. That a
  cut summary needs all the cuts before it takes `LengthsAssumption`: a longer
  text is not shorter when it is escaped.
* `AcceptedOnce`, `SentWasAccepted`: all requests but the last were refused
  (`EarlierRefused`), and so was the last one before `send` tries again.

### The watcher

`DelayHolds` and `FailuresHold` of `SettingsProofs` are for every interval, set
of thresholds and length of a behaviour. The inductive invariant adds that the
time a sample is expected at agrees with the timer unless the clock was
stepped, and that what the counter has grown by since the sample before is what
is still to be sampled.

### Safe copies

`SafeTraversalProofs` is for every finite graph, however large, all limits and
every way to shorten keys. `TraversalAssumption` says, besides types, that no key
of the application is `[truncated]`, the key of the code's own mark, and
`TruncationsAssumption` that none becomes it. The invariant is
`IInv \/ Aborted`: either nothing has been thrown, or a revoked proxy that can be
reached has left one text as the whole copy. `IInv` is the conjunction of these,
and nearly every one of them needs the others:

* `TypeOK`, and `Traversal`, which says what the loops have built. The copy
  begins with the root, and every other item is held by an earlier one
  (`RootFirst`, `ItemsNest`); it stands for an entry of the node above it or
  for a cut, and its tag is what that node is (`ItemsOfEntries`, `MarksCut`,
  `TagsAreTrue`); the loops on the stack are those of an item and of all that
  hold it, so that the depth of the stack is the level (`FramesMatch`); nothing
  is copied twice, because it is in `seen` (`SeenOnce`), no entry is, because a
  loop only moves forward (`EntriesOnce`), and no object has two marks
  (`MarksOnce`).
* `KeysCounted`: `keysVisited` is the number of entries read. In a value of
  objects one key is left for the mark of a cut: that is why the mark is still
  within the limit when the second traversal counts it as a key.
* `EntriesCovered`: each entry of a copied object is copied, cut with a mark, or
  still to come in a loop on the stack.
* `SmallUncut`: nothing of a small value is marked. A node with one reference
  is not met twice; the items that hold one another are different nodes, so
  that their level stays below the number of nodes; and the entries read are
  fewer than all entries. The proof compares the cardinalities.
* `Redacting`: what the second traversal has written or has still to come to is
  held by what it entered; all that is held there and was not replaced is one or
  the other, unless its keys are used up; and what it entered can be reached by
  keys that are not secret as they are stored.

From these: `LimitsKept` (`Redacting` counts the items, `TagsAreTrue` bounds
their levels), `SecretsStayHidden` (a shown leaf is an entry of a node that
such keys lead to), `CutsAreVisible` and `SmallSurvive`. For the last two, no
item is replaced while keys stay apart (`NotReplaced`), and keys are left in both
traversals when no mark is shown (`KeysSuffice`); then the nodes
whose items are shown are closed under plain keys, so that they are all that can
be reached: the least closed set stands in for an induction (`AllKept`).

### Settings

`AcceptedIsUsable` of `SettingsProofs` is for any set of options, of any values
and types, given to one of the five factories (`OptionsAssumption`). The state
is simple (`ConfigurationInv`: the settings are what `Validate` makes of what
was given); the proof is about the schemas. `Inputs`, whose run checks the same
property, begins with this module's steps, but reaches recursive operators: that
is why the theorem is about `Configuration`.

* `IsUsable` says of one setting that its range and its default are within what
  `SettingsAreUsable` asks for that name. It is shown of each setting of each
  schema, and a schema joined of two has it when both have it (`Joined`).
* `UsableValues`: what an accepting factory holds for a name is the default or a
  value in the range of one setting of its schema, hence usable. The burst is
  the exception, since its default is not a number that can be used.
* `AcceptedByClient`: an unset burst becomes the rate, which is at least one;
  the number of groups times the events of each is bounded by the product of
  their limits. `NoBurst` of the other schemas says that the exception is only
  one of the client.

### Assumed, and only model-checked

Assumed are the named assumptions on constants, which TLC evaluates on the
instances, and `ListedOnce` where it is written. Model-checked and not proved:

* liveness and everything under fairness, which is beyond the prover:
  `ErrorIsReported`, `SendSettles`, `ClosedRunsDry`, and the liveness of
  `AlertLog` in `ImplementsLog`;
* `CopySurvives` and `IgnoredRouteStaysQuiet` of `Inputs`, which compute the
  parts of an alert with the recursive operators of `SafeValue`: the SMT solver
  is not available in a module that reaches one, and what such an operator
  yields for every input takes an induction over data;
* `MatchesRecursion`, for the same reason: that the steps of `SafeTraversal`,
  about which the theorems are, make the copy that these operators return;
* that `Context` and `ActionText`, which are sums over sequences, are numbers:
  a part of `LengthsAssumption` instead, since a sum is a fold.

## Not modelled

* Text: fingerprints and their hash, secrets found inside a text, lengths and
  truncation of texts outside `AlertText` (a `maxStringLength` below 8 cuts the
  words of a severity, for instance), layout, and the console notifier. These
  are functions of characters, without state. What a short `maxStringLength`
  does to keys is in `SafeTraversal` and `SafeValue`, but `AlertContent` takes it to
  leave the names of an alert's own fields alone. Keys that are integers, which
  JavaScript lists first, and a key that becomes `__proto__` or `[truncated]` when
  it is shortened are left out.
* The private ranges of IPv4 and IPv6 addresses: a kind of URL in `Settings`
  and the outcome of a lookup in `HttpDelivery`.
* Floating-point rounding of tokens; the model counts thousandths exactly.
* The process monitor (one listener that calls `captureException`), the NestJS
  module (a declaration of providers), the Prometheus export (a renderer of
  counters that the queue and the pipeline balance), types and entry points.
* Durations: the retries of a `send()` against the timer of its lane in the
  queue. Each side is modelled alone; the queue takes any answer at any time.

Hazards without a property are listed with the reason in `PROJECT.json`: sends
under way are not bounded, a window smaller than its threshold, captures of a
group from its own callbacks, errors after the connection was lost, the status
predicted by NestJS, and durations of retries, none of which has a promise in
code or documents that a run could check; and a notifier listed twice, whose
circuit does go wrong (see the disagreements).

## Plan

Done: the queue with its circuits and self test; window and admission, alone
and together; the capture pipeline; the adapters with the NestJS filters;
delivery from text to answer; the watcher; safe copies, the content of alerts,
and the settings of every factory.

The theorems planned for the window, the pipeline, the adapters, the delivery,
the circuits, the safe copies and the settings are proved; what is left to TLC
is named at the end of the chapter on proofs.

Next, in this order:

1. The composition of the pipeline with the queue itself instead of what
   `AlertLog` promises of it.
2. `NotifierSend` under the timer of a lane, with durations, to relate a late
   delivery to the failure counted for it.
3. `CopySurvives` above `SafeTraversal`: the parts of an alert as one graph,
   copied step by step, instead of recursive operators.
