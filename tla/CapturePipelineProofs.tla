----------------------- MODULE CapturePipelineProofs -----------------------
(***************************************************************************)
(* What a capture counts, which cooldown it starts and when it alerts, for *)
(* any fingerprints, limits and depth of captures from callbacks, and      *)
(* however the wall clock moves.                                           *)
(***************************************************************************)
EXTENDS CapturePipeline, SequenceFacts, FiniteSetTheorems, TLAPS

Counters == {"capturedEvents", "eventsSuppressed", "eventsDroppedOverload",
             "captureFailures", "capturesAfterShutdown"}

Types ==
  /\ TypeOK
  /\ diagnostics \in [Counters -> Nat]
  /\ signals <= calls

\* The Map holds each group once, and nothing is left of a forgotten one.
StoreInv ==
  /\ \A i, j \in DOMAIN order : order[i] = order[j] => i = j
  /\ \A f \in Fingerprints : ~Known(f) => group[f] = NoGroup

\* Below the innermost capture, others wait in their filter alone, unless a
\* callback after record() has captured again.
StackInv == ~nested => \A i \in 2..Len(stack) : stack[i].step = "filter"

\* What the policy has seen of the group is still so when the alert goes out.
AlertInv ==
  ~nested =>
    /\ At("send") \/ At("mark") => lastAlert[Top.fp] = Top.timestamp
    /\ At("beforeSend") => \/ lastAlert[Top.fp] = Never
                           \/ Top.timestamp - lastAlert[Top.fp] >= CooldownMs

Signal(i) == i \in DOMAIN stack /\ stack[i].fp = OverloadFp
Apart(s, t) == s - t >= OverloadCooldownMs \/ t - s >= OverloadCooldownMs

\* The overload signals under way, and the one that alerted last, have been
\* captured a cooldown apart.
SignalInv ==
  /\ lastSignal <= overloadLastAlertAt
  /\ \A i \in DOMAIN stack : Signal(i) =>
       /\ stack[i].timestamp <= overloadLastAlertAt
       /\ stack[i].step \in {"filter", "beforeSend"} =>
            lastSignal = 0 \/ Apart(stack[i].timestamp, lastSignal)
       /\ \A j \in DOMAIN stack : Signal(j) /\ j > i =>
            stack[i].timestamp - stack[j].timestamp >= OverloadCooldownMs
-----------------------------------------------------------------------------
(* The window of a group, the store and the counters.                      *)

LEMMA Limits ==
  /\ MaxEvents \in Nat \ {0} /\ WindowMs \in Nat \ {0}
  /\ OverloadFp \in Fingerprints
  /\ HighCount \in Nat \ {0} /\ CooldownMs \in Nat \ {0} /\ MaxGroups \in Nat \ {0}
  /\ OverloadCooldownMs \in Nat \ {0} /\ MaxPendingAlerts \in Nat \ {0}
  /\ MaxTime \in Nat /\ MaxCalls \in Nat /\ MaxDepth \in Nat
  /\ Epoch \in Nat /\ Epoch > OverloadCooldownMs
BY PipelineAssumption, WindowAssumption DEF PipelineAssumption, WindowAssumption

\* purge() keeps a suffix that begins with an event of the window.
LEMMA PurgedSuffix ==
  ASSUME NEW events \in Seq(Nat), NEW time
  PROVE  /\ Purged(events, time) \in Seq(Nat)
         /\ Len(Purged(events, time)) <= Len(events)
         /\ events # <<>> /\ ~Expired(events[Len(events)], time) =>
              Purged(events, time) # <<>>
<1> DEFINE kept == {i \in 1..Len(events) : ~Expired(events[i], time)}
<1>1. CASE kept = {}
  BY <1>1 DEF Purged
<1>2. CASE kept # {}
  <2> DEFINE first == CHOOSE i \in kept : \A k \in kept : i <= k
  <2>1. kept \in SUBSET Nat
    OBVIOUS
  <2>2. first \in kept
    <3> HIDE DEF kept
    <3> QED BY <1>2, <2>1, LeastOf
  <2>3. first \in 1..Len(events)
    BY <2>2
  <2>4. Purged(events, time) = SubSeq(events, first, Len(events))
    BY <1>2 DEF Purged
  <2> HIDE DEF first
  <2>5. SubSeq(events, first, Len(events)) \in Seq(Nat)
        /\ Len(SubSeq(events, first, Len(events))) = Len(events) - first + 1
    BY <2>3
  <2>6. Len(Purged(events, time)) \in 1..Len(events)
    BY <2>3, <2>4, <2>5
  <2> QED
    BY <2>4, <2>5, <2>6
<1> QED
  BY <1>1, <1>2

LEMMA MatchedWindow ==
  ASSUME NEW events \in Seq(Nat), Len(events) <= MaxEvents, NEW time \in Nat
  PROVE  LET seen == Purged(Added(events, time), time)
         IN  seen \in Seq(Nat) /\ seen # <<>> /\ Len(seen) <= MaxEvents
<1> DEFINE purged == Purged(events, time)
           left == IF Len(purged) = MaxEvents THEN Tail(purged) ELSE purged
           added == Added(events, time)
<1>1. purged \in Seq(Nat) /\ Len(purged) <= MaxEvents
  BY PurgedSuffix, Limits
<1>2. left \in Seq(Nat) /\ Len(left) < MaxEvents
  BY <1>1, Limits
<1>3. added = Append(left, time)
  BY DEF Added
<1> HIDE DEF left, added
<1>4. /\ added \in Seq(Nat) /\ added # <<>> /\ Len(added) <= MaxEvents
      /\ added[Len(added)] = time
  <2>1. Append(left, time) \in Seq(Nat) /\ Len(Append(left, time)) = Len(left) + 1
        /\ Append(left, time)[Len(left) + 1] = time
    BY <1>2, AppendProperties
  <2>2. Len(left) \in Nat
    BY <1>2
  <2>3. Len(added) = Len(left) + 1 /\ Len(added) <= MaxEvents /\ Len(added) # 0
    BY <1>2, <1>3, <2>1, <2>2, Limits
  <2> QED
    BY <1>3, <2>1, <2>3
<1>5. ~Expired(added[Len(added)], time)
  BY <1>4, Limits DEF Expired
<1>6. Len(Purged(added, time)) <= MaxEvents
  BY <1>4, PurgedSuffix, Limits
<1> QED
  BY <1>4, <1>5, <1>6, PurgedSuffix DEF added

LEMMA CountAdds ==
  ASSUME diagnostics \in [Counters -> Nat], NEW c \in Counters, Count(c)
  PROVE  /\ diagnostics' \in [Counters -> Nat]
         /\ diagnostics'.capturedEvents + diagnostics'.eventsSuppressed
              + diagnostics'.eventsDroppedOverload + diagnostics'.captureFailures
              + diagnostics'.capturesAfterShutdown
            = diagnostics.capturedEvents + diagnostics.eventsSuppressed
              + diagnostics.eventsDroppedOverload + diagnostics.captureFailures
              + diagnostics.capturesAfterShutdown + 1
<1>1. diagnostics' = [diagnostics EXCEPT ![c] = diagnostics[c] + 1]
  BY DEF Count
<1>2. diagnostics' \in [Counters -> Nat]
  BY <1>1
<1>3. \A d \in Counters : diagnostics'[d] = IF d = c THEN diagnostics[d] + 1 ELSE diagnostics[d]
  BY <1>1
<1> QED
  BY <1>2, <1>3 DEF Counters

\* The place that record() clears in the Map: that of the group itself, or the
\* first one for a new group in a full store.
LEMMA PlaceCleared ==
  ASSUME TypeOK, NEW fp \in Fingerprints
  PROVE  LET t == OrderWithout(fp)
         IN  /\ t \in Seq(Fingerprints)
             /\ \/ /\ Known(fp) \/ Len(order) = MaxGroups
                   /\ Len(t) = Len(order) - 1
                   /\ \E p \in 1..Len(order) :
                        /\ IF Known(fp) THEN order[p] = fp /\ Evicted(fp) = {}
                           ELSE p = 1 /\ Evicted(fp) = {order[p]}
                        /\ \A i \in 1..Len(t) :
                             t[i] = IF i < p THEN order[i] ELSE order[i + 1]
                \/ /\ ~Known(fp) /\ Evicted(fp) = {} /\ Len(order) < MaxGroups /\ t = order
<1>1. order \in Seq(Fingerprints) /\ Len(order) <= MaxGroups /\ Len(order) \in Nat
  BY DEF TypeOK
<1>2. CASE Known(fp)
  <2>1. OrderWithout(fp) = RemoveFirst(order, fp) /\ Evicted(fp) = {}
    BY <1>2 DEF OrderWithout, Evicted
  <2>2. \E i \in 1..Len(order) : order[i] = fp
    BY <1>1, <1>2 DEF Known
  <2> QED
    BY <1>1, <1>2, <2>1, <2>2, FirstRemoved
<1>3. CASE ~Known(fp) /\ Len(order) >= MaxGroups
  <2>1. order # <<>> /\ Len(order) = MaxGroups /\ 1 \in 1..Len(order)
    BY <1>1, <1>3, Limits
  <2>2. Evicted(fp) = {order[1]}
    BY <1>1, <1>3, <2>1 DEF Evicted
  <2>3. OrderWithout(fp) = Tail(order)
    BY <1>3, <2>2 DEF OrderWithout
  <2>4. /\ Tail(order) \in Seq(Fingerprints) /\ Len(Tail(order)) = Len(order) - 1
        /\ \A i \in 1..Len(order) - 1 : Tail(order)[i] = order[i + 1]
    BY <1>1, <2>1
  <2>5. \A i \in 1..Len(Tail(order)) :
          Tail(order)[i] = IF i < 1 THEN order[i] ELSE order[i + 1]
    BY <2>4
  <2> QED
    BY <1>3, <2>1, <2>2, <2>3, <2>4, <2>5
<1>4. CASE ~Known(fp) /\ ~(Len(order) >= MaxGroups)
  <2>1. Evicted(fp) = {} /\ Len(order) < MaxGroups
    BY <1>1, <1>4, Limits DEF Evicted
  <2> QED
    BY <1>1, <1>4, <2>1 DEF OrderWithout
<1> QED
  BY <1>2, <1>3, <1>4

\* After record() the group is the last of the Map; of the others only the one
\* evicted is gone, and no group is there twice.
LEMMA Reordered ==
  ASSUME TypeOK, StoreInv, NEW fp \in Fingerprints, order' = Append(OrderWithout(fp), fp)
  PROVE  /\ order' \in Seq(Fingerprints) /\ Len(order') <= MaxGroups
         /\ \A i, j \in DOMAIN order' : order'[i] = order'[j] => i = j
         /\ \A f \in Fingerprints :
              Known(f)' <=> f = fp \/ (Known(f) /\ f \notin Evicted(fp))
         /\ fp \notin Evicted(fp)
<1> DEFINE t == OrderWithout(fp)
<1> DEFINE Others ==
             /\ t \in Seq(Fingerprints) /\ Len(t) < MaxGroups /\ Len(t) \in Nat
             /\ \A i \in 1..Len(t) : t[i] # fp
             /\ \A i, j \in 1..Len(t) : t[i] = t[j] => i = j
             /\ \A f \in Fingerprints \ {fp} :
                  (\E i \in 1..Len(t) : t[i] = f) <=> Known(f) /\ f \notin Evicted(fp)
             /\ fp \notin Evicted(fp)
<1>1. Others
  <2>1. order \in Seq(Fingerprints) /\ Len(order) <= MaxGroups /\ Len(order) \in Nat
        /\ DOMAIN order = 1..Len(order)
    BY DEF TypeOK
  <2>2. \A i, j \in 1..Len(order) : order[i] = order[j] => i = j
    BY <2>1 DEF StoreInv
  <2>3. t \in Seq(Fingerprints)
    BY PlaceCleared
  <2>4. CASE /\ ~Known(fp) /\ Evicted(fp) = {} /\ Len(order) < MaxGroups /\ t = order
    <3> HIDE DEF t
    <3> QED BY <2>1, <2>2, <2>4 DEF Known
  <2>5. ASSUME Known(fp) \/ Len(order) = MaxGroups,
               Len(t) = Len(order) - 1,
               NEW p \in 1..Len(order),
               IF Known(fp) THEN order[p] = fp /\ Evicted(fp) = {}
               ELSE p = 1 /\ Evicted(fp) = {order[p]},
               \A i \in 1..Len(t) : t[i] = IF i < p THEN order[i] ELSE order[i + 1]
        PROVE  Others
    <3> HIDE DEF t
    <3>1. \A i \in 1..Len(t) : \E k \in 1..Len(order) : k # p /\ t[i] = order[k]
      <4> TAKE i \in 1..Len(t)
      <4>1. i \in 1..Len(order) /\ i + 1 \in 1..Len(order)
        BY <2>1, <2>5
      <4> QED BY <2>5, <4>1
    <3>2. \A k \in 1..Len(order) : k # p => \E i \in 1..Len(t) : t[i] = order[k]
      <4> SUFFICES ASSUME NEW k \in 1..Len(order), k # p
                   PROVE  \E i \in 1..Len(t) : t[i] = order[k]
        OBVIOUS
      <4>1. CASE k < p
        <5>1. k \in 1..Len(t)
          BY <2>1, <2>5, <4>1
        <5> QED BY <2>5, <4>1, <5>1
      <4>2. CASE k > p
        <5>1. k - 1 \in 1..Len(t) /\ ~(k - 1 < p) /\ k - 1 + 1 = k
          BY <2>1, <2>5, <4>2
        <5> QED BY <2>5, <5>1
      <4> QED BY <4>1, <4>2, <2>1
    <3>3. \A i \in 1..Len(t) : t[i] # fp
      <4>1. \A k \in 1..Len(order) : k # p => order[k] # fp
        BY <2>1, <2>2, <2>5 DEF Known
      <4> QED BY <3>1, <4>1
    <3>4. \A i, j \in 1..Len(t) : t[i] = t[j] => i = j
      <4> TAKE i, j \in 1..Len(t)
      <4>1. /\ i \in 1..Len(order) /\ i + 1 \in 1..Len(order)
            /\ j \in 1..Len(order) /\ j + 1 \in 1..Len(order)
        BY <2>1, <2>5
      <4>2. t[i] = (IF i < p THEN order[i] ELSE order[i + 1])
            /\ t[j] = (IF j < p THEN order[j] ELSE order[j + 1])
        BY <2>5
      <4> QED BY <2>1, <2>2, <4>1, <4>2
    <3>5. \A f \in Fingerprints \ {fp} :
            (\E i \in 1..Len(t) : t[i] = f) <=> Known(f) /\ f \notin Evicted(fp)
      <4> TAKE f \in Fingerprints \ {fp}
      <4>1. Known(f) /\ f \notin Evicted(fp) <=>
              \E k \in 1..Len(order) : k # p /\ order[k] = f
        BY <2>1, <2>2, <2>5 DEF Known
      <4> QED BY <3>1, <3>2, <4>1
    <3>6. fp \notin Evicted(fp)
      BY <2>1, <2>5 DEF Known
    <3> QED
      <4>1. Len(t) < MaxGroups /\ Len(t) \in Nat
        <5>1. Len(t) = Len(order) - 1 /\ p \in 1..Len(order)
          BY <2>5
        <5> QED BY <2>1, <5>1, Limits
      <4> QED BY <2>3, <3>3, <3>4, <3>5, <3>6, <4>1
  <2> QED
    BY <2>4, <2>5, PlaceCleared
<1> HIDE DEF t
<1>2. /\ order' \in Seq(Fingerprints) /\ Len(order') = Len(t) + 1
      /\ \A i \in 1..Len(t) : order'[i] = t[i]
      /\ order'[Len(t) + 1] = fp /\ DOMAIN order' = 1..Len(t) + 1
  <2>1. order' = Append(t, fp)
    BY DEF t
  <2> QED
    BY <1>1, <2>1, AppendProperties
<1>3. Len(order') <= MaxGroups
  BY <1>1, <1>2, Limits
<1>4. \A i, j \in DOMAIN order' : order'[i] = order'[j] => i = j
  BY <1>1, <1>2
<1>5. ASSUME NEW f \in Fingerprints
      PROVE  Known(f)' <=> f = fp \/ (Known(f) /\ f \notin Evicted(fp))
  <2>1. Known(f)' <=> f = fp \/ \E i \in 1..Len(t) : t[i] = f
    BY <1>1, <1>2 DEF Known
  <2> QED
    BY <1>1, <2>1
<1> QED
  BY <1>1, <1>2, <1>3, <1>4, <1>5

-----------------------------------------------------------------------------
(* The stack of the captures under way.                                    *)

Steps == {"filter", "beforeSend", "send", "mark"}

LEMMA TopFrame ==
  ASSUME Types, stack # <<>>
  PROVE  /\ Top = stack[1] /\ Top \in Frame /\ Len(stack) \in Nat \ {0}
         /\ Tail(stack) \in Seq(Frame) /\ Len(Tail(stack)) = Len(stack) - 1
         /\ \A i \in 1..Len(stack) - 1 : Tail(stack)[i] = stack[i + 1]
BY DEF Types, TypeOK, Top

LEMMA Moved ==
  ASSUME Types, stack # <<>>, NEW step \in Steps, Goto(step)
  PROVE  /\ stack' \in Seq(Frame) /\ Len(stack') = Len(stack)
         /\ stack'[1].step = step /\ stack'[1].fp = Top.fp
         /\ stack'[1].timestamp = Top.timestamp
         /\ Head(stack') = stack'[1] /\ stack' # <<>>
         /\ \A i \in 2..Len(stack) : stack'[i] = stack[i]
<1> DEFINE top == [Top EXCEPT !.step = step]
<1>1. top \in Frame /\ top.step = step /\ top.fp = Top.fp /\ top.timestamp = Top.timestamp
  BY TopFrame DEF Frame, Steps
<1>2. stack' = <<top>> \o Tail(stack)
  BY DEF Goto
<1> HIDE DEF top
<1>3. /\ stack' \in Seq(Frame) /\ Len(stack') = Len(Tail(stack)) + 1
      /\ stack'[1] = top /\ Head(stack') = top
      /\ \A i \in 2..Len(Tail(stack)) + 1 : stack'[i] = Tail(stack)[i - 1]
  BY <1>1, <1>2, InFront, TopFrame
<1>4. Len(stack') = Len(stack) /\ stack' # <<>>
  BY <1>3, TopFrame
<1>5. ASSUME NEW i \in 2..Len(stack) PROVE stack'[i] = stack[i]
  <2>1. i - 1 \in 1..Len(stack) - 1 /\ i \in 2..Len(Tail(stack)) + 1
    BY TopFrame
  <2>2. Tail(stack)[i - 1] = stack[i - 1 + 1]
    BY <2>1, TopFrame
  <2> QED
    BY <1>3, <2>1, <2>2
<1> QED
  BY <1>1, <1>3, <1>4, <1>5

LEMMA Pushed ==
  ASSUME Types, NEW fp \in Fingerprints, NEW kind \in Kinds \cup {"runtime-monitor"},
         NEW threshold \in Thresholds \cup {1}, NEW unavailable \in BOOLEAN,
         Begin(fp, kind, threshold, unavailable)
  PROVE  /\ stack' \in Seq(Frame) /\ Len(stack') = Len(stack) + 1
         /\ Len(stack') <= MaxDepth /\ stack' # <<>>
         /\ Head(stack') = stack'[1]
         /\ stack'[1].fp = fp /\ stack'[1].timestamp = now /\ stack'[1].step = "filter"
         /\ \A i \in 2..Len(stack') : stack'[i] = stack[i - 1]
<1> DEFINE frame == [fp |-> fp, kind |-> kind, threshold |-> threshold,
                     unavailable |-> unavailable, timestamp |-> now, step |-> "filter"]
<1>1. now \in Nat /\ stack \in Seq(Frame) /\ Len(stack) \in Nat
  BY Limits DEF Types, TypeOK
<1>2. /\ frame \in Frame /\ frame.fp = fp /\ frame.timestamp = now
      /\ frame.step = "filter"
  BY <1>1 DEF Frame
<1>3. stack' = <<frame>> \o stack /\ Len(stack) < MaxDepth
  BY DEF Begin
<1> HIDE DEF frame
<1>4. /\ stack' \in Seq(Frame) /\ Len(stack') = Len(stack) + 1
      /\ stack'[1] = frame /\ Head(stack') = frame
      /\ \A i \in 2..Len(stack) + 1 : stack'[i] = stack[i - 1]
  BY <1>1, <1>2, <1>3, InFront
<1>5. Len(stack') <= MaxDepth /\ stack' # <<>>
  BY <1>1, <1>3, <1>4, Limits
<1> QED
  BY <1>2, <1>4, <1>5

-----------------------------------------------------------------------------
(* Type correctness, and the limits of store and queue.                    *)

LEMMA InitTypes == Init => Types /\ StoreInv /\ StackInv /\ AlertInv /\ SignalInv
<1> SUFFICES ASSUME Init PROVE Types /\ StoreInv /\ StackInv /\ AlertInv /\ SignalInv
  OBVIOUS
<1>1. stack = <<>> /\ order = <<>> /\ ~nested
  BY DEF Init
<1>2. stack \in Seq(Frame) /\ Len(stack) <= MaxDepth
      /\ order \in Seq(Fingerprints) /\ Len(order) <= MaxGroups
  BY <1>1, Limits
<1>3. \A f \in Fingerprints : ~Known(f)
  BY <1>1 DEF Known
<1>4. group \in [Fingerprints -> Group] /\ \A f \in Fingerprints : group[f] = NoGroup
  BY DEF Init, Group, NoGroup, Never
<1>5. /\ \A f \in Fingerprints : Len(group[f].seen) <= MaxEvents
      /\ \A f \in Fingerprints : Known(f) <=> group[f].seen # <<>>
  BY <1>3, <1>4, Limits DEF NoGroup
<1>6. diagnostics \in [Counters -> Nat]
  BY DEF Init, Counters
<1>7. /\ outstanding \in 0..(MaxPendingAlerts + 1) /\ closed \in BOOLEAN
      /\ overloadLastAlertAt \in Nat /\ lastSignal \in Nat
      /\ lastAlert \in [Fingerprints -> Nat]
      /\ calls \in 0..MaxCalls /\ signals \in 0..MaxCalls /\ signals <= calls
      /\ now \in Epoch..(Epoch + MaxTime)
      /\ nested \in BOOLEAN /\ setBack \in BOOLEAN
      /\ lastSignal <= overloadLastAlertAt
  <2>1. /\ outstanding = 0 /\ overloadLastAlertAt = 0 /\ lastSignal = 0
        /\ calls = 0 /\ signals = 0 /\ now = Epoch
    BY DEF Init
  <2>2. closed \in BOOLEAN /\ nested \in BOOLEAN /\ setBack \in BOOLEAN
    BY DEF Init
  <2>3. lastAlert \in [Fingerprints -> Nat]
    BY DEF Init, Never
  <2> QED
    BY <2>1, <2>2, <2>3, Limits
<1>8. Types
  BY <1>2, <1>4, <1>5, <1>6, <1>7 DEF Types, TypeOK
<1>9. StoreInv
  BY <1>1, <1>4 DEF StoreInv
<1> QED
  BY <1>1, <1>7, <1>8, <1>9 DEF StackInv, AlertInv, SignalInv, At, Signal

LEMMA RecordTypes ==
  ASSUME Types, StoreInv, NEW fp \in Fingerprints, NEW unavailable \in BOOLEAN,
         RecordEvent(fp, unavailable)
  PROVE  /\ order' \in Seq(Fingerprints) /\ Len(order') <= MaxGroups
         /\ group' \in [Fingerprints -> Group]
         /\ \A f \in Fingerprints : Len(group'[f].seen) <= MaxEvents
         /\ \A f \in Fingerprints : Known(f)' <=> group'[f].seen # <<>>
         /\ lastAlert' \in [Fingerprints -> Nat]
         /\ StoreInv'
         /\ group'[fp].alertedAt = group[fp].alertedAt
         /\ \A f \in Fingerprints \ {fp} :
              group'[f] = IF f \in Evicted(fp) THEN NoGroup ELSE group[f]
<1>1. /\ order' = Append(OrderWithout(fp), fp)
      /\ group' = [f \in Fingerprints |->
                     IF f = fp THEN Matched(fp, unavailable)
                     ELSE IF f \in Evicted(fp) THEN NoGroup ELSE group[f]]
      /\ lastAlert' = IF Known(fp) THEN lastAlert ELSE [lastAlert EXCEPT ![fp] = Never]
  BY DEF RecordEvent
<1>2. TypeOK
  BY DEF Types
<1>3. /\ order' \in Seq(Fingerprints) /\ Len(order') <= MaxGroups
      /\ \A i, j \in DOMAIN order' : order'[i] = order'[j] => i = j
      /\ \A f \in Fingerprints :
           Known(f)' <=> f = fp \/ (Known(f) /\ f \notin Evicted(fp))
      /\ fp \notin Evicted(fp)
  BY <1>1, <1>2, Reordered
<1> DEFINE seen == Purged(Added(group[fp].seen, now), now)
<1>4. seen \in Seq(Nat) /\ seen # <<>> /\ Len(seen) <= MaxEvents
  <2>1. group[fp].seen \in Seq(Nat) /\ Len(group[fp].seen) <= MaxEvents
        /\ now \in Nat
    BY <1>2, Limits DEF TypeOK, Group
  <2> QED
    BY <2>1, MatchedWindow
<1>5. Matched(fp, unavailable) =
        [group[fp] EXCEPT !.seen = seen,
           !.unavailable = IF Known(fp) THEN group[fp].unavailable ELSE unavailable]
  BY DEF Matched
<1> HIDE DEF seen
<1>6. group[fp] \in Group
  BY <1>2 DEF TypeOK
<1>7. /\ Matched(fp, unavailable) \in Group /\ Matched(fp, unavailable).seen = seen
      /\ Matched(fp, unavailable).alertedAt = group[fp].alertedAt
  BY <1>4, <1>5, <1>6 DEF Group
<1>8. NoGroup \in Group /\ NoGroup.seen = <<>> /\ Len(NoGroup.seen) <= MaxEvents
  BY Limits DEF NoGroup, Group, Never
<1>9. group' \in [Fingerprints -> Group]
  BY <1>1, <1>2, <1>7, <1>8 DEF TypeOK
<1>10. \A f \in Fingerprints :
         group'[f] = IF f = fp THEN Matched(fp, unavailable)
                     ELSE IF f \in Evicted(fp) THEN NoGroup ELSE group[f]
  BY <1>1
<1>11. \A f \in Fingerprints : Len(group'[f].seen) <= MaxEvents
  BY <1>2, <1>4, <1>7, <1>8, <1>10 DEF TypeOK
<1>12. \A f \in Fingerprints : Known(f)' <=> group'[f].seen # <<>>
  BY <1>2, <1>3, <1>4, <1>7, <1>8, <1>10 DEF TypeOK
<1>13. lastAlert' \in [Fingerprints -> Nat]
  BY <1>1, <1>2 DEF TypeOK, Never
<1>14. \A f \in Fingerprints : ~Known(f)' => group'[f] = NoGroup
  BY <1>3, <1>10 DEF StoreInv
<1>15. StoreInv'
  BY <1>3, <1>14 DEF StoreInv
<1> QED
  BY <1>3, <1>7, <1>9, <1>10, <1>11, <1>12, <1>13, <1>15

\* The parts of the types that a step which leaves the store alone can change.
LEMMA TypesKept ==
  ASSUME Types, UNCHANGED storeVars, stack' \in Seq(Frame), Len(stack') <= MaxDepth,
         outstanding' \in 0..(MaxPendingAlerts + 1), closed' \in BOOLEAN,
         overloadLastAlertAt' \in Nat, lastSignal' \in Nat,
         lastAlert' \in [Fingerprints -> Nat],
         calls' \in 0..MaxCalls, signals' \in 0..MaxCalls, signals' <= calls',
         now' \in Epoch..(Epoch + MaxTime), nested' \in BOOLEAN, setBack' \in BOOLEAN,
         diagnostics' \in [Counters -> Nat]
  PROVE  Types'
BY DEF Types, TypeOK, storeVars, Known

LEMMA CallKeepsTypes ==
  ASSUME Types, Call,
         stack' \in Seq(Frame), Len(stack') <= MaxDepth,
         signals' \in {signals, signals + 1}, overloadLastAlertAt' \in Nat,
         nested' \in BOOLEAN, diagnostics' \in [Counters -> Nat]
  PROVE  Types'
<1>1. /\ UNCHANGED storeVars /\ UNCHANGED <<outstanding, closed, lastSignal, lastAlert, now, setBack>>
      /\ calls' = calls + 1 /\ calls < MaxCalls
  BY DEF Call, queueVars, alertVars, clockVars
<1>2. /\ calls \in Nat /\ signals \in Nat /\ signals <= calls /\ calls' \in 0..MaxCalls
      /\ signals' \in 0..MaxCalls /\ signals' <= calls'
  <2>1. calls \in Nat /\ signals \in Nat /\ signals <= calls
    BY DEF Types, TypeOK
  <2> QED
    BY <1>1, <2>1, Limits
<1> QED
  BY <1>1, <1>2, TypesKept DEF Types, TypeOK

LEMMA TypeStep == Types /\ StoreInv /\ [Next]_vars => Types' /\ StoreInv'
<1> SUFFICES ASSUME Types, StoreInv, [Next]_vars PROVE Types' /\ StoreInv'
  OBVIOUS
<1> USE DEF queueVars, alertVars, callVars, clockVars
<1>a. /\ stack \in Seq(Frame) /\ Len(stack) <= MaxDepth /\ now \in Nat
      /\ diagnostics \in [Counters -> Nat]
      /\ nested \in BOOLEAN /\ At("beforeSend") \in BOOLEAN /\ At("send") \in BOOLEAN
      /\ overloadLastAlertAt \in Nat
  BY Limits DEF Types, TypeOK, At
<1>b. ASSUME UNCHANGED storeVars PROVE StoreInv'
  BY <1>b DEF storeVars, StoreInv, Known
<1>c. ASSUME stack # <<>>, Return PROVE stack' \in Seq(Frame) /\ Len(stack') <= MaxDepth
  <2>1. stack' = Tail(stack) /\ Len(stack') = Len(stack) - 1 /\ Len(stack) \in Nat
        /\ stack' \in Seq(Frame)
    BY <1>c, TopFrame DEF Return
  <2> QED
    BY <1>a, <2>1, Limits
<1>d. ASSUME NEW step \in Steps, stack # <<>>, Goto(step)
      PROVE  stack' \in Seq(Frame) /\ Len(stack') <= MaxDepth
  BY <1>a, <1>d, Moved
<1>e. ASSUME NEW c \in Counters, Count(c) PROVE diagnostics' \in [Counters -> Nat]
  BY <1>a, <1>e, CountAdds
<1>1. CASE CallAfterShutdown \/ CallInvalid
  <2>1. /\ UNCHANGED storeVars /\ Call /\ UNCHANGED <<stack, signals, overloadLastAlertAt, nested>>
        /\ diagnostics' \in [Counters -> Nat]
    BY <1>1, <1>e DEF CallAfterShutdown, CallInvalid, Call, Counters
  <2> QED
    BY <1>a, <1>b, <2>1, CallKeepsTypes
<1>2. CASE CallCapture
  <2>1. /\ UNCHANGED storeVars /\ Call /\ UNCHANGED <<signals, overloadLastAlertAt, diagnostics>>
    BY <1>2 DEF CallCapture, Call
  <2>2. PICK fp \in Fingerprints, kind \in Kinds, threshold \in Thresholds,
             unavailable \in BOOLEAN : Begin(fp, kind, threshold, unavailable)
    BY <1>2 DEF CallCapture
  <2>3. nested' \in BOOLEAN
    BY <2>2 DEF Begin
  <2>4. stack' \in Seq(Frame) /\ Len(stack') <= MaxDepth
    BY <2>2, Pushed
  <2> QED
    BY <1>a, <1>b, <2>1, <2>3, <2>4, CallKeepsTypes
<1>3. CASE CallOverload
  <2>1. UNCHANGED storeVars /\ Call /\ diagnostics' \in [Counters -> Nat]
    BY <1>3, <1>e DEF CallOverload, Call, Counters
  <2>2. CASE UNCHANGED <<stack, signals, overloadLastAlertAt, nested>>
    BY <1>a, <1>b, <2>1, <2>2, CallKeepsTypes
  <2>3. CASE /\ overloadLastAlertAt' = now /\ signals' = signals + 1
             /\ Begin(OverloadFp, "runtime-monitor", 1, FALSE)
    <3>1. nested' \in BOOLEAN
      BY <2>3 DEF Begin
    <3>2. stack' \in Seq(Frame) /\ Len(stack') <= MaxDepth
      BY <2>3, Pushed, Limits
    <3> QED
      BY <1>a, <1>b, <2>1, <2>3, <3>1, <3>2, CallKeepsTypes
  <2> QED
    BY <1>3, <2>2, <2>3 DEF CallOverload
<1>4. CASE Ignore \/ Withhold \/ EnqueueRefused
  <2>1. /\ UNCHANGED <<order, records, queueVars, alertVars, callVars, clockVars>>
        /\ stack # <<>> /\ Return /\ group' = group /\ diagnostics' \in [Counters -> Nat]
    BY <1>4, <1>e DEF Ignore, Withhold, EnqueueRefused, At, storeVars, Counters
  <2> QED
    BY <1>b, <1>c, <2>1, TypesKept DEF Types, TypeOK, storeVars
<1>5. CASE Record
  <2>1. /\ stack # <<>> /\ RecordEvent(Top.fp, Top.unavailable)
        /\ Top.fp \in Fingerprints /\ Top.unavailable \in BOOLEAN
    BY <1>5, TopFrame DEF Record, At, Frame
  <2>2. /\ UNCHANGED <<queueVars, lastSignal, callVars, clockVars>>
        /\ stack' \in Seq(Frame) /\ Len(stack') <= MaxDepth
        /\ diagnostics' \in [Counters -> Nat]
    BY <1>5, <1>a, <1>c, <1>d, <1>e, <2>1 DEF Record, Counters, Steps
  <2>3. /\ order' \in Seq(Fingerprints) /\ Len(order') <= MaxGroups
        /\ group' \in [Fingerprints -> Group]
        /\ \A f \in Fingerprints : Len(group'[f].seen) <= MaxEvents
        /\ \A f \in Fingerprints : Known(f)' <=> group'[f].seen # <<>>
        /\ lastAlert' \in [Fingerprints -> Nat]
        /\ StoreInv'
    BY <2>1, RecordTypes
  <2> QED
    BY <2>2, <2>3 DEF Types, TypeOK
<1>6. CASE Enqueue
  <2>1. /\ UNCHANGED storeVars /\ UNCHANGED <<closed, callVars, clockVars, diagnostics>>
        /\ stack # <<>> /\ outstanding <= MaxPendingAlerts /\ outstanding' = outstanding + 1
        /\ stack' \in Seq(Frame) /\ Len(stack') <= MaxDepth
    BY <1>6, <1>d DEF Enqueue, At, Steps
  <2>2. Top.timestamp \in Nat /\ Top.fp \in Fingerprints
    BY <2>1, TopFrame DEF Frame
  <2>3. lastAlert' \in [Fingerprints -> Nat] /\ lastSignal' \in Nat
    BY <1>6, <2>2 DEF Enqueue, Types, TypeOK
  <2>4. outstanding' \in 0..(MaxPendingAlerts + 1)
    BY <2>1, Limits DEF Types, TypeOK
  <2> QED
    BY <1>a, <1>b, <2>1, <2>3, <2>4, TypesKept DEF Types, TypeOK
<1>7. CASE MarkAlerted
  <2>1. /\ UNCHANGED <<order, records, queueVars, alertVars, callVars, clockVars>>
        /\ stack # <<>> /\ Return /\ diagnostics' \in [Counters -> Nat]
        /\ stack' \in Seq(Frame) /\ Len(stack') <= MaxDepth
    BY <1>7, <1>c, <1>e DEF MarkAlerted, At, Counters
  <2>2. Top.timestamp \in Nat /\ Top.fp \in Fingerprints
    BY <2>1, TopFrame DEF Frame
  <2>3. \/ group' = group
        \/ Known(Top.fp)
           /\ group' = [group EXCEPT ![Top.fp] = [group[Top.fp] EXCEPT !.alertedAt = Top.timestamp]]
    BY <1>7 DEF MarkAlerted
  <2>4. /\ group' \in [Fingerprints -> Group]
        /\ \A f \in Fingerprints : group'[f].seen = group[f].seen
        /\ \A f \in Fingerprints : group'[f] = group[f] \/ Known(f)
    <3>1. group \in [Fingerprints -> Group] /\ group[Top.fp] \in Group
      BY <2>2 DEF Types, TypeOK
    <3>2. /\ [group[Top.fp] EXCEPT !.alertedAt = Top.timestamp] \in Group
          /\ [group[Top.fp] EXCEPT !.alertedAt = Top.timestamp].seen = group[Top.fp].seen
      BY <2>2, <3>1 DEF Group
    <3> QED
      BY <2>2, <2>3, <3>1, <3>2
  <2>5. \A f \in Fingerprints : Known(f)' = Known(f)
    BY <2>1 DEF Known
  <2>6. /\ \A f \in Fingerprints : Len(group'[f].seen) <= MaxEvents
        /\ \A f \in Fingerprints : Known(f)' <=> group'[f].seen # <<>>
    BY <2>4, <2>5 DEF Types, TypeOK
  <2>7. StoreInv'
    BY <2>1, <2>4, <2>5 DEF StoreInv
  <2> QED
    BY <2>1, <2>4, <2>6, <2>7 DEF Types, TypeOK
<1>8. CASE Report \/ Close
  <2>1. /\ UNCHANGED storeVars /\ UNCHANGED <<stack, alertVars, callVars, clockVars, diagnostics>>
    BY <1>8 DEF Report, Close
  <2>2. \/ outstanding > 0 /\ outstanding' = outstanding - 1 /\ closed' = closed
        \/ outstanding' = outstanding /\ closed' = TRUE
    BY <1>8 DEF Report, Close
  <2>3. outstanding' \in 0..(MaxPendingAlerts + 1) /\ closed' \in BOOLEAN
    <3>1. outstanding \in 0..(MaxPendingAlerts + 1) /\ closed \in BOOLEAN
      BY DEF Types, TypeOK
    <3>2. CASE outstanding > 0 /\ outstanding' = outstanding - 1 /\ closed' = closed
      BY <3>1, <3>2, Limits
    <3>3. CASE outstanding' = outstanding /\ closed' = TRUE
      BY <3>1, <3>3
    <3> QED
      BY <2>2, <3>2, <3>3
  <2> QED
    BY <1>a, <1>b, <2>1, <2>3, TypesKept DEF Types, TypeOK
<1>9. CASE ClockChanges
  <2>1. /\ UNCHANGED storeVars
        /\ UNCHANGED <<stack, queueVars, alertVars, callVars, diagnostics>>
        /\ now' \in Epoch..(Epoch + MaxTime) /\ setBack' \in BOOLEAN
    BY <1>9 DEF ClockChanges, Types, TypeOK
  <2> QED
    BY <1>a, <1>b, <2>1, TypesKept DEF Types, TypeOK
<1>10. CASE UNCHANGED vars
  BY <1>a, <1>b, <1>10, TypesKept DEF vars, Types, TypeOK, storeVars
<1> QED
  BY <1>1, <1>2, <1>3, <1>4, <1>5, <1>6, <1>7, <1>8, <1>9, <1>10 DEF Next

\* In every reachable state the store keeps at most MaxGroups groups and each
\* window at most MaxEvents events, and the queue has at most one alert more
\* outstanding than it may hold.
THEOREM TypeCorrect == Spec => []TypeOK
<1>1. Types => TypeOK
  BY DEF Types
<1> QED
  BY <1>1, InitTypes, TypeStep, PTL DEF Spec

-----------------------------------------------------------------------------
(* The counters.                                                           *)

LEMMA BalanceStep == Types /\ DiagnosticsBalance /\ [Next]_vars => DiagnosticsBalance'
<1> SUFFICES ASSUME Types, DiagnosticsBalance, [Next]_vars PROVE DiagnosticsBalance'
  OBVIOUS
<1> DEFINE counted == diagnostics.capturedEvents + diagnostics.eventsSuppressed
                        + diagnostics.eventsDroppedOverload + diagnostics.captureFailures
                        + diagnostics.capturesAfterShutdown
<1>a. calls \in Nat /\ signals \in Nat /\ Len(stack) \in Nat /\ counted \in Nat
      /\ calls + signals = counted + Len(stack)
  BY DEF Types, TypeOK, Counters, DiagnosticsBalance
<1>b. ASSUME NEW c \in Counters, Count(c) PROVE counted' = counted + 1
  BY <1>b, CountAdds DEF Types
<1>c. ASSUME diagnostics' = diagnostics PROVE counted' = counted
  BY <1>c
<1>d. ASSUME stack # <<>>, Return PROVE Len(stack') = Len(stack) - 1
  BY <1>d, TopFrame DEF Return
<1>e. ASSUME NEW step \in Steps, stack # <<>>, Goto(step) PROVE Len(stack') = Len(stack)
  BY <1>e, Moved
<1>f. (calls + signals)' = counted' + Len(stack') => DiagnosticsBalance'
  BY DEF DiagnosticsBalance
<1> HIDE DEF counted
<1> USE DEF callVars
<1>1. CASE CallAfterShutdown \/ CallInvalid
  <2>1. stack' = stack /\ calls' = calls + 1 /\ signals' = signals /\ counted' = counted + 1
    BY <1>1, <1>b DEF CallAfterShutdown, CallInvalid, Call, Counters
  <2> QED
    BY <1>a, <1>f, <2>1
<1>2. CASE CallCapture
  <2>1. calls' = calls + 1 /\ signals' = signals /\ counted' = counted
    BY <1>2, <1>c DEF CallCapture, Call
  <2>2. Len(stack') = Len(stack) + 1
    BY <1>2, Pushed DEF CallCapture
  <2> QED
    BY <1>a, <1>f, <2>1, <2>2
<1>3. CASE CallOverload
  <2>1. calls' = calls + 1 /\ counted' = counted + 1
    BY <1>3, <1>b DEF CallOverload, Call, Counters
  <2>2. \/ signals' = signals /\ stack' = stack
        \/ signals' = signals + 1 /\ Len(stack') = Len(stack) + 1
    BY <1>3, Pushed, Limits DEF CallOverload
  <2> QED
    BY <1>a, <1>f, <2>1, <2>2
<1>4. CASE Ignore \/ Withhold \/ EnqueueRefused \/ MarkAlerted
  <2>1. /\ calls' = calls /\ signals' = signals /\ counted' = counted + 1
        /\ Len(stack') = Len(stack) - 1
    BY <1>4, <1>b, <1>d
    DEF Ignore, Withhold, EnqueueRefused, MarkAlerted, At, Counters
  <2> QED
    BY <1>a, <1>f, <2>1
<1>5. CASE Record
  <2>1. /\ calls' = calls /\ signals' = signals
        /\ \/ counted' = counted + 1 /\ Len(stack') = Len(stack) - 1
           \/ counted' = counted /\ Len(stack') = Len(stack)
    BY <1>5, <1>b, <1>c, <1>d, <1>e DEF Record, At, Counters, Steps
  <2> QED
    BY <1>a, <1>f, <2>1
<1>6. CASE Enqueue
  <2>1. /\ calls' = calls /\ signals' = signals /\ counted' = counted
        /\ Len(stack') = Len(stack)
    BY <1>6, <1>c, <1>e DEF Enqueue, At, Steps
  <2> QED
    BY <1>a, <1>f, <2>1
<1>7. CASE Report \/ Close \/ ClockChanges \/ UNCHANGED vars
  <2>1. calls' = calls /\ signals' = signals /\ counted' = counted /\ stack' = stack
    BY <1>7, <1>c DEF Report, Close, ClockChanges, vars
  <2> QED
    BY <1>a, <1>f, <2>1
<1> QED
  BY <1>1, <1>2, <1>3, <1>4, <1>5, <1>6, <1>7 DEF Next

\* Callbacks that capture again or throw, a shutdown and an overload in
\* between: every capture is counted exactly once.
THEOREM CountedOnce == Spec => []DiagnosticsBalance
<1>1. Init => DiagnosticsBalance
  BY DEF Init, DiagnosticsBalance
<1> QED
  BY <1>1, InitTypes, TypeStep, BalanceStep, PTL DEF Spec

-----------------------------------------------------------------------------
(* The cooldown of a group.                                                *)

\* The innermost capture has an accepted alert and will mark its group.
Marking(f) == stack # <<>> /\ Top.fp = f /\ Top.step \in {"send", "mark"}

CooldownInv ==
  ~nested => \A f \in Fingerprints :
    group[f].alertedAt = lastAlert[f] \/ ~Known(f) \/ Marking(f)

\* How a step of Next changes the stack and the flag.
LEMMA StackMoves ==
  ASSUME Types, [Next]_vars
  PROVE  /\ nested => nested'
         /\ \/ stack' = stack
            \/ stack # <<>> /\ stack' = Tail(stack)
            \/ /\ stack # <<>> /\ Len(stack') = Len(stack) /\ stack' # <<>>
               /\ \A i \in 2..Len(stack) : stack'[i] = stack[i]
            \/ /\ Len(stack') = Len(stack) + 1 /\ stack' # <<>>
               /\ Head(stack') = stack'[1] /\ stack'[1].step = "filter"
               /\ \A i \in 2..Len(stack') : stack'[i] = stack[i - 1]
               /\ stack = <<>> \/ At("filter") \/ nested'
<1> USE DEF callVars
<1>1. CASE CallAfterShutdown \/ CallInvalid
  BY <1>1 DEF CallAfterShutdown, CallInvalid
<1>2. ASSUME CallerRuns, NEW fp \in Fingerprints, NEW kind \in Kinds \cup {"runtime-monitor"},
             NEW threshold \in Thresholds \cup {1}, NEW unavailable \in BOOLEAN,
             Begin(fp, kind, threshold, unavailable)
      PROVE  /\ nested => nested'
             /\ Len(stack') = Len(stack) + 1 /\ stack' # <<>>
             /\ Head(stack') = stack'[1] /\ stack'[1].step = "filter"
             /\ \A i \in 2..Len(stack') : stack'[i] = stack[i - 1]
             /\ stack = <<>> \/ At("filter") \/ nested'
  <2>1. nested' = (nested \/ At("beforeSend") \/ At("send"))
    BY <1>2 DEF Begin
  <2>2. /\ nested => nested'
        /\ stack = <<>> \/ At("filter") \/ nested'
    BY <1>2, <2>1 DEF CallerRuns
  <2> QED
    BY <1>2, <2>2, Pushed
<1>3. CASE CallCapture
  BY <1>2, <1>3 DEF CallCapture, Call
<1>4. CASE CallOverload
  <2>1. CASE UNCHANGED <<stack, signals, overloadLastAlertAt, nested>>
    BY <2>1
  <2>2. CASE Begin(OverloadFp, "runtime-monitor", 1, FALSE)
    BY <1>2, <1>4, <2>2, Limits DEF CallOverload, Call
  <2> QED
    BY <1>4, <2>1, <2>2 DEF CallOverload
<1>5. CASE Ignore \/ Withhold \/ EnqueueRefused \/ MarkAlerted
  BY <1>5 DEF Ignore, Withhold, EnqueueRefused, MarkAlerted, Return, At
<1>6. CASE Record
  <2>1. nested' = nested /\ stack # <<>> /\ (Return \/ Goto("beforeSend"))
    BY <1>6 DEF Record, At
  <2>2. CASE Return
    BY <2>1, <2>2 DEF Return
  <2>3. CASE Goto("beforeSend")
    BY <2>1, <2>3, Moved DEF Steps
  <2> QED
    BY <2>1, <2>2, <2>3
<1>7. CASE Enqueue
  <2>1. nested' = nested /\ stack # <<>> /\ (Goto("send") \/ Goto("mark"))
    BY <1>7 DEF Enqueue, At
  <2> QED
    BY <2>1, Moved DEF Steps
<1>8. CASE Report \/ Close \/ ClockChanges \/ UNCHANGED vars
  BY <1>8 DEF Report, Close, ClockChanges, vars
<1> QED
  BY <1>1, <1>3, <1>4, <1>5, <1>6, <1>7, <1>8 DEF Next

LEMMA StackStep == Types /\ Types' /\ StackInv /\ [Next]_vars => StackInv'
<1> SUFFICES ASSUME Types, Types', StackInv, [Next]_vars, ~nested',
                    NEW i \in 2..Len(stack')
             PROVE  stack'[i].step = "filter"
  BY DEF StackInv
<1>1. ~nested /\ \A k \in 2..Len(stack) : stack[k].step = "filter"
  BY StackMoves DEF StackInv
<1>2. Len(stack) \in Nat /\ Len(stack') \in Nat
  BY DEF Types, TypeOK
<1>3. CASE stack' = stack
  BY <1>1, <1>3
<1>4. CASE stack # <<>> /\ stack' = Tail(stack)
  <2>1. i + 1 \in 2..Len(stack) /\ i \in 1..Len(stack) - 1 /\ stack'[i] = stack[i + 1]
    BY <1>2, <1>4, TopFrame
  <2> QED
    BY <1>1, <2>1
<1>5. CASE Len(stack') = Len(stack) /\ \A k \in 2..Len(stack) : stack'[k] = stack[k]
  BY <1>1, <1>5
<1>6. CASE /\ Len(stack') = Len(stack) + 1
           /\ \A k \in 2..Len(stack') : stack'[k] = stack[k - 1]
           /\ stack = <<>> \/ At("filter") \/ nested'
  <2>1. stack # <<>> /\ i - 1 \in 1..Len(stack)
    BY <1>2, <1>6
  <2>2. stack[1].step = "filter"
    BY <1>6, <2>1, TopFrame DEF At
  <2> QED
    BY <1>1, <1>2, <1>6, <2>1, <2>2
<1> QED
  BY <1>3, <1>4, <1>5, <1>6, StackMoves

\* A step that leaves the groups alone and does not push, and after which no
\* alert is under way that was not before.
LEMMA CooldownKept ==
  ASSUME UNCHANGED <<order, group, lastAlert>>, nested => nested', AlertInv, CooldownInv,
         \/ stack' = stack
         \/ ~nested' => ~At("send") /\ ~At("mark")
                        /\ (stack' = <<>> \/ Head(stack').step = "filter")
  PROVE  AlertInv' /\ CooldownInv'
<1>1. CASE stack' = stack
  BY <1>1 DEF AlertInv, CooldownInv, Known, Marking, Top, At
<1>2. CASE nested'
  BY <1>2 DEF AlertInv, CooldownInv
<1>3. CASE ~nested' /\ ~At("send") /\ ~At("mark")
           /\ (stack' = <<>> \/ Head(stack').step = "filter")
  <2>1. ~At("send")' /\ ~At("mark")' /\ ~At("beforeSend")'
    BY <1>3 DEF At, Top
  <2>2. \A f : ~Marking(f)
    BY <1>3 DEF At, Marking
  <2> QED
    BY <2>1, <2>2 DEF AlertInv, CooldownInv, Known
<1> QED
  BY <1>1, <1>2, <1>3

LEMMA CooldownStep ==
  Types /\ StoreInv /\ StackInv /\ AlertInv /\ CooldownInv /\ [Next]_vars
    => AlertInv' /\ CooldownInv'
<1> SUFFICES ASSUME Types, StoreInv, StackInv, AlertInv, CooldownInv, [Next]_vars, ~nested'
             PROVE  AlertInv' /\ CooldownInv'
  BY DEF AlertInv, CooldownInv
<1> USE DEF queueVars, alertVars, callVars, clockVars
<1>a. ~nested /\ \A k \in 2..Len(stack) : stack[k].step = "filter"
  BY StackMoves DEF StackInv
<1>b. ASSUME stack # <<>>, stack' = Tail(stack)
      PROVE  stack' = <<>> \/ Head(stack').step = "filter"
  <2>1. stack' \in Seq(Frame) /\ Len(stack') = Len(stack) - 1 /\ Len(stack) \in Nat
        /\ \A i \in 1..Len(stack) - 1 : stack'[i] = stack[i + 1]
    BY <1>b, TopFrame
  <2>2. CASE stack' # <<>>
    <3>1. 1 \in 1..Len(stack) - 1 /\ 2 \in 2..Len(stack) /\ Head(stack') = stack'[1]
      BY <2>1, <2>2
    <3> QED
      BY <1>a, <2>1, <3>1
  <2> QED
    BY <2>2
<1>1. CASE CallAfterShutdown \/ CallInvalid
  BY <1>1, CooldownKept DEF CallAfterShutdown, CallInvalid, Call, storeVars
<1>2. CASE CallCapture \/ CallOverload
  <2>1. UNCHANGED <<order, group, lastAlert>>
    BY <1>2 DEF CallCapture, CallOverload, Call, storeVars
  <2>2. CASE stack' = stack
    BY <1>a, <2>1, <2>2, CooldownKept
  <2>3. CASE stack' # stack
    <3>1. /\ Len(stack') = Len(stack) + 1 /\ Head(stack') = stack'[1]
          /\ stack'[1].step = "filter"
          /\ stack = <<>> \/ At("filter") \/ nested'
      <4>1. \/ \E fp \in Fingerprints, kind \in Kinds, threshold \in Thresholds,
                  unavailable \in BOOLEAN : Begin(fp, kind, threshold, unavailable)
            \/ Begin(OverloadFp, "runtime-monitor", 1, FALSE)
        BY <1>2, <2>3 DEF CallCapture, CallOverload
      <4>2. CallerRuns
        BY <1>2 DEF CallCapture, CallOverload, Call
      <4>3. stack = <<>> \/ At("filter") \/ nested'
        BY <4>1, <4>2 DEF CallerRuns, Begin
      <4> QED
        BY <4>1, <4>3, Pushed, Limits
    <3>2. ~At("send") /\ ~At("mark")
      BY <3>1 DEF At
    <3> QED
      BY <1>a, <2>1, <3>1, <3>2, CooldownKept
  <2> QED
    BY <2>2, <2>3
<1>3. CASE Ignore \/ Withhold \/ EnqueueRefused
  <2>1. /\ UNCHANGED <<order, group, lastAlert, nested>> /\ ~At("send") /\ ~At("mark")
        /\ stack # <<>> /\ stack' = Tail(stack)
    BY <1>3 DEF Ignore, Withhold, EnqueueRefused, At, Return, storeVars
  <2> QED
    BY <1>b, <2>1, CooldownKept
<1>4. CASE Record
  <2>1. /\ stack # <<>> /\ Top.step = "filter" /\ RecordEvent(Top.fp, Top.unavailable)
        /\ Top.fp \in Fingerprints /\ Top.unavailable \in BOOLEAN /\ Top.timestamp \in Nat
    BY <1>4, TopFrame DEF Record, At, Frame
  <2>2. \A f : ~Marking(f)
    BY <2>1 DEF Marking
  <2>3. /\ group'[Top.fp].alertedAt = group[Top.fp].alertedAt
        /\ \A f \in Fingerprints \ {Top.fp} :
             group'[f] = IF f \in Evicted(Top.fp) THEN NoGroup ELSE group[f]
        /\ \A f \in Fingerprints :
             Known(f)' <=> f = Top.fp \/ (Known(f) /\ f \notin Evicted(Top.fp))
    <3>1. order' = Append(OrderWithout(Top.fp), Top.fp) /\ TypeOK
      BY <2>1 DEF RecordEvent, Types
    <3>2. \A f \in Fingerprints :
            Known(f)' <=> f = Top.fp \/ (Known(f) /\ f \notin Evicted(Top.fp))
      BY <2>1, <3>1, Reordered
    <3>3. /\ group'[Top.fp].alertedAt = group[Top.fp].alertedAt
          /\ \A f \in Fingerprints \ {Top.fp} :
               group'[f] = IF f \in Evicted(Top.fp) THEN NoGroup ELSE group[f]
      BY <2>1, RecordTypes
    <3> QED
      BY <3>2, <3>3
  <2>4. lastAlert' = IF Known(Top.fp) THEN lastAlert ELSE [lastAlert EXCEPT ![Top.fp] = Never]
    BY <2>1 DEF RecordEvent
  <2>5. group'[Top.fp].alertedAt = lastAlert'[Top.fp]
    <3>1. CASE Known(Top.fp)
      BY <1>a, <2>1, <2>2, <2>3, <2>4, <3>1 DEF CooldownInv
    <3>2. CASE ~Known(Top.fp)
      <4>1. group[Top.fp].alertedAt = Never
        BY <2>1, <3>2 DEF StoreInv, NoGroup
      <4>2. lastAlert'[Top.fp] = Never
        BY <2>1, <2>4, <3>2 DEF Types, TypeOK
      <4> QED
        BY <2>3, <4>1, <4>2
    <3> QED
      BY <3>1, <3>2
  <2>6. ASSUME NEW f \in Fingerprints, f # Top.fp, Known(f)'
        PROVE  group'[f].alertedAt = lastAlert'[f]
    <3>1. Known(f) /\ f \notin Evicted(Top.fp) /\ group'[f] = group[f]
      BY <2>3, <2>6
    <3>2. group[f].alertedAt = lastAlert[f]
      BY <1>a, <2>2, <3>1 DEF CooldownInv
    <3>3. lastAlert'[f] = lastAlert[f]
      BY <2>1, <2>4, <2>6 DEF Types, TypeOK
    <3> QED
      BY <3>1, <3>2, <3>3
  <2>7. CooldownInv'
    BY <2>5, <2>6 DEF CooldownInv
  <2>8. CASE Return
    <3>1. stack' = <<>> \/ Head(stack').step = "filter"
      BY <1>b, <2>1, <2>8 DEF Return
    <3>2. ~At("send")' /\ ~At("mark")' /\ ~At("beforeSend")'
      BY <3>1 DEF At, Top
    <3> QED
      BY <2>7, <3>2 DEF AlertInv
  <2>9. CASE Goto("beforeSend") /\ ShouldAlert(group'[Top.fp], Top)
    <3>1. /\ Top'.step = "beforeSend" /\ Top'.fp = Top.fp /\ Top'.timestamp = Top.timestamp
      BY <2>1, <2>9, Moved DEF Steps, Top
    <3>2. ~HasCooldown(group'[Top.fp], Top.timestamp)
      BY <2>9 DEF ShouldAlert
    <3>3. \/ group'[Top.fp].alertedAt = Never
          \/ ~(Top.timestamp - group'[Top.fp].alertedAt < CooldownMs)
      BY <3>2 DEF HasCooldown
    <3>4. lastAlert'[Top.fp] \in Nat
      BY <2>1, <2>4 DEF Types, TypeOK, Never
    <3>5. \/ lastAlert'[Top.fp] = Never
          \/ Top.timestamp - lastAlert'[Top.fp] >= CooldownMs
      BY <2>1, <2>5, <3>3, <3>4, Limits
    <3>6. ~At("send")' /\ ~At("mark")'
      BY <3>1 DEF At
    <3> QED
      BY <2>7, <3>1, <3>5, <3>6 DEF AlertInv
  <2> QED
    BY <1>4, <2>8, <2>9 DEF Record
<1>5. CASE Enqueue
  <2>1. /\ stack # <<>> /\ Top.step = "beforeSend" /\ UNCHANGED <<order, group>>
        /\ (Goto("send") \/ Goto("mark"))
        /\ lastAlert' = [lastAlert EXCEPT ![Top.fp] = Top.timestamp]
        /\ Top.fp \in Fingerprints
    BY <1>5, TopFrame DEF Enqueue, At, storeVars, Frame
  <2>2. /\ Top'.step \in {"send", "mark"} /\ Top'.fp = Top.fp
        /\ Top'.timestamp = Top.timestamp /\ stack' # <<>>
    BY <2>1, Moved DEF Steps, Top
  <2>3. /\ lastAlert'[Top.fp] = Top.timestamp
        /\ \A f \in Fingerprints \ {Top.fp} : lastAlert'[f] = lastAlert[f]
    BY <2>1 DEF Types, TypeOK
  <2>4. AlertInv'
    BY <2>2, <2>3 DEF AlertInv, At
  <2>5. \A f : ~Marking(f)
    BY <2>1 DEF Marking
  <2>6. \A f : f = Top.fp => Marking(f)'
    BY <2>2 DEF Marking
  <2>7. CooldownInv'
    <3>1. ASSUME NEW f \in Fingerprints
          PROVE  (group[f].alertedAt = lastAlert[f] \/ ~Known(f) \/ Marking(f))'
      <4>1. CASE f = Top.fp
        BY <2>6, <4>1
      <4>2. CASE f # Top.fp
        <5>1. group[f].alertedAt = lastAlert[f] \/ ~Known(f)
          BY <1>a, <2>5 DEF CooldownInv
        <5>2. Known(f)' = Known(f) /\ group'[f] = group[f] /\ lastAlert'[f] = lastAlert[f]
          BY <2>1, <2>3, <4>2 DEF Known
        <5> QED BY <5>1, <5>2
      <4> QED BY <4>1, <4>2
    <3> QED BY <3>1 DEF CooldownInv
  <2> QED
    BY <2>4, <2>7
<1>6. CASE MarkAlerted
  <2>1. /\ stack # <<>> /\ (At("send") \/ At("mark")) /\ stack' = Tail(stack)
        /\ UNCHANGED <<order, lastAlert>> /\ Top.fp \in Fingerprints
        /\ group' = IF Known(Top.fp)
                    THEN [group EXCEPT ![Top.fp] = [group[Top.fp] EXCEPT !.alertedAt = Top.timestamp]]
                    ELSE group
    BY <1>6, TopFrame DEF MarkAlerted, At, Return, Frame
  <2>2. stack' = <<>> \/ Head(stack').step = "filter"
    BY <1>b, <2>1
  <2>3. AlertInv'
    BY <2>2 DEF AlertInv, At, Top
  <2>4. lastAlert[Top.fp] = Top.timestamp
    BY <1>a, <2>1 DEF AlertInv
  <2>5. \A f \in Fingerprints : f # Top.fp => group'[f] = group[f] /\ ~Marking(f)
    BY <2>1 DEF Types, TypeOK, Marking
  <2>6. Known(Top.fp) => group'[Top.fp].alertedAt = Top.timestamp
    <3>1. group[Top.fp] \in Group /\ group \in [Fingerprints -> Group]
      BY <2>1 DEF Types, TypeOK
    <3>2. [group[Top.fp] EXCEPT !.alertedAt = Top.timestamp].alertedAt = Top.timestamp
      BY <3>1 DEF Group
    <3> QED
      BY <2>1, <3>1, <3>2
  <2>7. CooldownInv'
    BY <1>a, <2>1, <2>4, <2>5, <2>6 DEF CooldownInv, Known
  <2> QED
    BY <2>3, <2>7
<1>7. CASE Report \/ Close \/ ClockChanges \/ UNCHANGED vars
  BY <1>7, CooldownKept DEF Report, Close, ClockChanges, vars, storeVars
<1> QED
  BY <1>1, <1>2, <1>3, <1>4, <1>5, <1>6, <1>7 DEF Next

LEMMA CooldownInvariant ==
  Spec => [](Types /\ StoreInv /\ StackInv /\ AlertInv /\ CooldownInv)
<1>1. Init => CooldownInv
  BY DEF Init, CooldownInv, NoGroup
<1> QED
  BY <1>1, InitTypes, TypeStep, StackStep, CooldownStep, PTL DEF Spec

\* The cooldown of a group starts with an alert that the queue accepted, and
\* with every such alert.  An alert that beforeSend withheld, that a full or
\* closed queue refused or that was never built silences nothing.
CooldownIsEarned ==
  ~nested => \A f \in Fingerprints :
    group[f].alertedAt = lastAlert[f]
      \/ ~Known(f)
      \/ \E i \in DOMAIN stack : stack[i].fp = f /\ stack[i].step \in {"send", "mark"}

\* Only an alert that the queue accepted silences its group, and every such
\* alert does: none that beforeSend withheld, that a full or closed queue
\* refused or that could not be built.
THEOREM CooldownEarned == Spec => []CooldownIsEarned
<1>1. Types /\ CooldownInv => CooldownIsEarned
  <2> SUFFICES ASSUME Types, CooldownInv, ~nested, NEW f \in Fingerprints, Marking(f)
               PROVE  \E i \in DOMAIN stack :
                        stack[i].fp = f /\ stack[i].step \in {"send", "mark"}
    BY DEF CooldownIsEarned, CooldownInv
  <2>1. 1 \in DOMAIN stack /\ stack[1] = Top
    BY TopFrame DEF Marking, Types, TypeOK
  <2> QED
    BY <2>1 DEF Marking
<1> QED
  BY <1>1, CooldownInvariant, PTL

\* However the wall clock is set, alerts of a group that the queue accepts are
\* a cooldown apart.
THEOREM AlertsApart == Spec => OneAlertPerCooldown
<1>1. AlertInv => [Enqueue /\ ~nested /\ lastAlert[Top.fp] # Never
                     => Top.timestamp - lastAlert[Top.fp] >= CooldownMs]_vars
  BY DEF AlertInv, Enqueue
<1> QED
  BY <1>1, CooldownInvariant, PTL DEF OneAlertPerCooldown

-----------------------------------------------------------------------------
(* The overload signals.                                                   *)

\* A step in which no signal appears: the frames keep their group and time,
\* in the same place or, when the innermost capture returns, one further up.
LEMMA SignalsKept ==
  ASSUME Types, Types', SignalInv, UNCHANGED <<lastSignal, overloadLastAlertAt>>,
         NEW d \in {0, 1, -1},
         \A i \in DOMAIN stack' :
           \/ stack'[i].fp # OverloadFp
           \/ /\ i + d \in DOMAIN stack
              /\ stack'[i].fp = stack[i + d].fp
              /\ stack'[i].timestamp = stack[i + d].timestamp
              /\ stack'[i].step \in {"filter", "beforeSend"} =>
                   stack[i + d].step \in {"filter", "beforeSend"}
  PROVE  SignalInv'
<1>1. \A i \in DOMAIN stack' : i \in Int
  BY DEF Types, TypeOK
<1>2. ASSUME NEW i \in DOMAIN stack', stack'[i].fp = OverloadFp
      PROVE  /\ stack'[i].timestamp <= overloadLastAlertAt'
             /\ stack'[i].step \in {"filter", "beforeSend"} =>
                  lastSignal' = 0 \/ Apart(stack'[i].timestamp, lastSignal')
  BY <1>2 DEF SignalInv, Signal
<1>3. ASSUME NEW i \in DOMAIN stack', NEW j \in DOMAIN stack', j > i,
             stack'[i].fp = OverloadFp, stack'[j].fp = OverloadFp
      PROVE  stack'[i].timestamp - stack'[j].timestamp >= OverloadCooldownMs
  <2>1. Signal(i + d) /\ Signal(j + d) /\ j + d > i + d
    BY <1>1, <1>3 DEF Signal
  <2>2. stack[i + d].timestamp - stack[j + d].timestamp >= OverloadCooldownMs
    BY <2>1 DEF SignalInv, Signal
  <2> QED
    BY <1>3, <2>2
<1> QED
  BY <1>2, <1>3 DEF SignalInv, Signal

LEMMA SignalStep == Types /\ Types' /\ SignalInv /\ [Next]_vars => SignalInv'
<1> SUFFICES ASSUME Types, Types', SignalInv, [Next]_vars PROVE SignalInv'
  OBVIOUS
<1> USE DEF queueVars, alertVars, callVars, clockVars
<1>a. /\ DOMAIN stack = 1..Len(stack) /\ Len(stack) \in Nat
      /\ DOMAIN stack' = 1..Len(stack') /\ Len(stack') \in Nat
      /\ \A i \in DOMAIN stack : stack[i].timestamp \in Nat
      /\ lastSignal \in Nat /\ overloadLastAlertAt \in Nat /\ now \in Nat
  <2>1. stack \in Seq(Frame) /\ stack' \in Seq(Frame)
    BY DEF Types, TypeOK
  <2>2. \A i \in DOMAIN stack : stack[i].timestamp \in Nat
    <3>1. \A i \in DOMAIN stack : stack[i] \in Frame
      BY <2>1
    <3> QED
      BY <3>1 DEF Frame
  <2>3. lastSignal \in Nat /\ overloadLastAlertAt \in Nat /\ now \in Nat
    BY Limits DEF Types, TypeOK
  <2> QED
    BY <2>1, <2>2, <2>3
<1>b. ASSUME UNCHANGED <<stack, lastSignal, overloadLastAlertAt>> PROVE SignalInv'
  BY <1>b DEF SignalInv, Signal
<1>c. ASSUME stack # <<>>, Return, UNCHANGED <<lastSignal, overloadLastAlertAt>>
      PROVE  SignalInv'
  <2>1. \A i \in DOMAIN stack' : i + 1 \in DOMAIN stack /\ stack'[i] = stack[i + 1]
    BY <1>a, <1>c, TopFrame DEF Return
  <2> QED
    BY <1>c, <2>1, SignalsKept
<1>1. CASE CallAfterShutdown \/ CallInvalid
  BY <1>1, <1>b DEF CallAfterShutdown, CallInvalid, Call
<1>2. CASE CallCapture
  <2>1. UNCHANGED <<lastSignal, overloadLastAlertAt>>
    BY <1>2 DEF CallCapture, Call
  <2>2. /\ Len(stack') = Len(stack) + 1 /\ stack'[1].fp # OverloadFp
        /\ \A i \in 2..Len(stack') : stack'[i] = stack[i - 1]
    BY <1>2, Pushed DEF CallCapture
  <2>3. \A i \in DOMAIN stack' :
          \/ stack'[i].fp # OverloadFp
          \/ i + (-1) \in DOMAIN stack /\ stack'[i] = stack[i + (-1)]
    <3> TAKE i \in DOMAIN stack'
    <3>1. CASE i = 1
      BY <2>2, <3>1
    <3>2. CASE i # 1
      <4>1. i \in 2..Len(stack') /\ i + (-1) = i - 1 /\ i - 1 \in 1..Len(stack)
        BY <1>a, <2>2, <3>2
      <4> QED BY <1>a, <2>2, <4>1
    <3> QED BY <3>1, <3>2
  <2> QED
    BY <2>1, <2>3, SignalsKept
<1>3. CASE CallOverload
  <2>1. CASE UNCHANGED <<stack, signals, overloadLastAlertAt, nested>>
    BY <1>3, <1>b, <2>1 DEF CallOverload, Call
  <2>2. CASE /\ ~(now - overloadLastAlertAt < OverloadCooldownMs)
             /\ overloadLastAlertAt' = now
             /\ Begin(OverloadFp, "runtime-monitor", 1, FALSE)
    <3>1. lastSignal' = lastSignal
      BY <1>3 DEF CallOverload, Call
    <3>2. /\ Len(stack') = Len(stack) + 1 /\ stack'[1].timestamp = now
          /\ \A i \in 2..Len(stack') : stack'[i] = stack[i - 1]
      BY <2>2, Pushed, Limits
    <3>3. now - overloadLastAlertAt >= OverloadCooldownMs /\ OverloadCooldownMs \in Nat \ {0}
      BY <1>a, <2>2, Limits
    <3>4. lastSignal <= overloadLastAlertAt /\ lastSignal' <= overloadLastAlertAt'
      BY <1>a, <2>2, <3>1, <3>3 DEF SignalInv
    <3>5. Apart(stack'[1].timestamp, lastSignal')
      BY <1>a, <3>1, <3>2, <3>3, <3>4 DEF Apart
    <3>6. ASSUME NEW i \in DOMAIN stack', i # 1, stack'[i].fp = OverloadFp
          PROVE  /\ i - 1 \in DOMAIN stack /\ Signal(i - 1) /\ stack'[i] = stack[i - 1]
                 /\ stack[i - 1].timestamp <= overloadLastAlertAt
                 /\ stack[i - 1].timestamp \in Nat
      <4>1. i \in 2..Len(stack') /\ i - 1 \in DOMAIN stack
        BY <1>a, <3>2, <3>6
      <4>2. stack'[i] = stack[i - 1]
        BY <3>2, <4>1
      <4> QED
        BY <1>a, <3>6, <4>1, <4>2 DEF SignalInv, Signal
    <3>7. ASSUME NEW i \in DOMAIN stack', stack'[i].fp = OverloadFp
          PROVE  /\ stack'[i].timestamp <= overloadLastAlertAt'
                 /\ stack'[i].step \in {"filter", "beforeSend"} =>
                      lastSignal' = 0 \/ Apart(stack'[i].timestamp, lastSignal')
      <4>1. CASE i = 1
        BY <1>a, <2>2, <3>2, <3>5, <4>1
      <4>2. CASE i # 1
        <5>1. stack'[i].timestamp <= overloadLastAlertAt'
          BY <1>a, <2>2, <3>3, <3>6, <3>7, <4>2
        <5>2. stack'[i].step \in {"filter", "beforeSend"} =>
                lastSignal = 0 \/ Apart(stack'[i].timestamp, lastSignal)
          BY <3>6, <3>7, <4>2 DEF SignalInv
        <5> QED
          BY <3>1, <5>1, <5>2
      <4> QED
        BY <4>1, <4>2
    <3>8. ASSUME NEW i \in DOMAIN stack', NEW j \in DOMAIN stack', j > i,
                 stack'[i].fp = OverloadFp, stack'[j].fp = OverloadFp
          PROVE  stack'[i].timestamp - stack'[j].timestamp >= OverloadCooldownMs
      <4>1. j # 1
        BY <1>a, <3>8
      <4>2. CASE i = 1
        BY <1>a, <3>2, <3>3, <3>6, <3>8, <4>1, <4>2
      <4>3. CASE i # 1
        <5>1. j - 1 > i - 1
          BY <1>a, <3>8
        <5> QED
          BY <3>6, <3>8, <4>1, <4>3, <5>1 DEF SignalInv
      <4> QED
        BY <4>2, <4>3
    <3> QED
      BY <3>4, <3>7, <3>8 DEF SignalInv, Signal
  <2> QED
    BY <1>3, <2>1, <2>2 DEF CallOverload
<1>4. CASE Ignore \/ Withhold \/ EnqueueRefused \/ MarkAlerted
  BY <1>4, <1>c DEF Ignore, Withhold, EnqueueRefused, MarkAlerted, At
<1>5. CASE Record
  <2>1. /\ stack # <<>> /\ UNCHANGED <<lastSignal, overloadLastAlertAt>>
        /\ Return \/ Goto("beforeSend")
        /\ Top.step = "filter"
    BY <1>5 DEF Record, At
  <2>2. CASE Goto("beforeSend")
    <3>1. \A i \in DOMAIN stack' :
            /\ i + 0 \in DOMAIN stack /\ stack'[i].fp = stack[i + 0].fp
            /\ stack'[i].timestamp = stack[i + 0].timestamp
            /\ stack'[i].step \in {"filter", "beforeSend"} =>
                 stack[i + 0].step \in {"filter", "beforeSend"}
      <4> TAKE i \in DOMAIN stack'
      <4>0. Len(stack') = Len(stack)
        BY <2>1, <2>2, Moved DEF Steps
      <4>1. i \in 1..Len(stack) /\ i + 0 = i
        BY <1>a, <4>0
      <4>2. CASE i = 1
        BY <1>a, <2>1, <2>2, <4>1, <4>2, Moved, TopFrame DEF Steps
      <4>3. CASE i # 1
        <5>1. i \in 2..Len(stack)
          BY <1>a, <4>1, <4>3
        <5> QED
          BY <1>a, <2>1, <2>2, <4>1, <5>1, Moved DEF Steps
      <4> QED BY <4>2, <4>3
    <3> QED
      BY <2>1, <3>1, SignalsKept
  <2> QED
    BY <1>c, <2>1, <2>2
<1>6. CASE Enqueue
  <2>1. /\ stack # <<>> /\ overloadLastAlertAt' = overloadLastAlertAt
        /\ Goto("send") \/ Goto("mark")
        /\ Top.step = "beforeSend"
        /\ lastSignal' = IF Top.fp = OverloadFp THEN Top.timestamp ELSE lastSignal
    BY <1>6 DEF Enqueue, At
  <2>2. /\ Len(stack') = Len(stack) /\ Top = stack[1] /\ 1 \in DOMAIN stack
        /\ stack'[1].step \in {"send", "mark"} /\ stack'[1].fp = stack[1].fp
        /\ stack'[1].timestamp = stack[1].timestamp
        /\ \A i \in 2..Len(stack) : stack'[i] = stack[i]
    <3>1. Top = stack[1] /\ 1 \in DOMAIN stack
      BY <1>a, <2>1, TopFrame
    <3>2. PICK step \in {"send", "mark"} : Goto(step)
      BY <2>1
    <3> QED
      BY <2>1, <3>1, <3>2, Moved DEF Steps
  <2>3. \A i \in DOMAIN stack' :
          /\ i \in DOMAIN stack /\ stack'[i].fp = stack[i].fp
          /\ stack'[i].timestamp = stack[i].timestamp
          /\ stack'[i].step \in {"filter", "beforeSend"} => i # 1 /\ stack'[i] = stack[i]
    <3> TAKE i \in DOMAIN stack'
    <3>1. i = 1 \/ i \in 2..Len(stack)
      BY <1>a, <2>2
    <3> QED BY <1>a, <2>2, <3>1
  <2>4. CASE Top.fp # OverloadFp
    <3>1. lastSignal' = lastSignal
      BY <2>1, <2>4
    <3>2. \A i \in DOMAIN stack' :
            /\ i + 0 \in DOMAIN stack /\ stack'[i].fp = stack[i + 0].fp
            /\ stack'[i].timestamp = stack[i + 0].timestamp
            /\ stack'[i].step \in {"filter", "beforeSend"} =>
                 stack[i + 0].step \in {"filter", "beforeSend"}
      BY <1>a, <2>3
    <3> QED
      BY <2>1, <3>1, <3>2, SignalsKept
  <2>5. CASE Top.fp = OverloadFp
    <3>1. Signal(1) /\ lastSignal' = stack[1].timestamp
          /\ lastSignal' <= overloadLastAlertAt'
      BY <2>1, <2>2, <2>5 DEF Signal, SignalInv
    <3>2. ASSUME NEW i \in DOMAIN stack', stack'[i].fp = OverloadFp
          PROVE  /\ stack'[i].timestamp <= overloadLastAlertAt'
                 /\ stack'[i].step \in {"filter", "beforeSend"} =>
                      lastSignal' = 0 \/ Apart(stack'[i].timestamp, lastSignal')
      <4>1. Signal(i) /\ stack'[i].timestamp <= overloadLastAlertAt'
        BY <2>1, <2>3, <3>2 DEF Signal, SignalInv
      <4>2. ASSUME stack'[i].step \in {"filter", "beforeSend"}
            PROVE  Apart(stack'[i].timestamp, lastSignal')
        <5>1. i > 1 /\ stack'[i].timestamp = stack[i].timestamp
          BY <1>a, <2>3, <4>2
        <5>2. stack[1].timestamp - stack[i].timestamp >= OverloadCooldownMs
          BY <2>3, <3>1, <4>1, <5>1 DEF SignalInv, Signal
        <5> QED
          BY <3>1, <5>1, <5>2 DEF Apart
      <4> QED
        BY <4>1, <4>2
    <3>3. ASSUME NEW i \in DOMAIN stack', NEW j \in DOMAIN stack', j > i,
                 stack'[i].fp = OverloadFp, stack'[j].fp = OverloadFp
          PROVE  stack'[i].timestamp - stack'[j].timestamp >= OverloadCooldownMs
      <4>1. /\ Signal(i) /\ Signal(j) /\ i \in DOMAIN stack /\ j \in DOMAIN stack
            /\ stack'[i].timestamp = stack[i].timestamp
            /\ stack'[j].timestamp = stack[j].timestamp
        BY <2>3, <3>3 DEF Signal
      <4>2. stack[i].timestamp - stack[j].timestamp >= OverloadCooldownMs
        BY <3>3, <4>1 DEF SignalInv
      <4> QED
        BY <4>1, <4>2
    <3> QED
      BY <3>1, <3>2, <3>3 DEF SignalInv, Signal
  <2> QED
    BY <2>4, <2>5
<1>7. CASE Report \/ Close \/ ClockChanges \/ UNCHANGED vars
  BY <1>7, <1>b DEF Report, Close, ClockChanges, vars
<1> QED
  BY <1>1, <1>2, <1>3, <1>4, <1>5, <1>6, <1>7 DEF Next

\* Overload signals alert a cooldown apart, also when their group has been
\* evicted in between and although the filter of one may capture the next.
THEOREM SignalsApart == Spec => OneSignalPerCooldown
<1>1. Types /\ SignalInv => [Enqueue /\ ~nested /\ Top.fp = OverloadFp /\ lastSignal # 0
         => \/ Top.timestamp - lastSignal >= OverloadCooldownMs
            \/ lastSignal - Top.timestamp >= OverloadCooldownMs]_vars
  <2> SUFFICES ASSUME Types, SignalInv, Enqueue, Top.fp = OverloadFp, lastSignal # 0
               PROVE  Apart(Top.timestamp, lastSignal)
    BY DEF Apart
  <2>1. stack # <<>> /\ Top.step = "beforeSend"
    BY DEF Enqueue, At
  <2>2. 1 \in DOMAIN stack /\ Top = stack[1]
    BY <2>1, TopFrame DEF Types, TypeOK
  <2> QED
    BY <2>1, <2>2 DEF SignalInv, Signal
<1> QED
  BY <1>1, InitTypes, TypeStep, SignalStep, PTL DEF Spec, OneSignalPerCooldown

-----------------------------------------------------------------------------
(* The groups that the store keeps.                                        *)

Match == [fp : Fingerprints, at : Nat, fresh : BOOLEAN, unavailable : BOOLEAN]
Later(i) == {records[k].fp : k \in i..Len(records)}
Behind(p) == {order[q] : q \in p..Len(order)}

\* The Map is ordered by the last matches: since some match of the group at p,
\* only that group and those behind it have matched; and since any match of a
\* group that is forgotten, all those of a full store have.
RecentInv ==
  /\ records \in Seq(Match)
  /\ \A p \in DOMAIN order : \E m \in DOMAIN records :
       records[m].fp = order[p] /\ Later(m) = Behind(p)
  /\ \A i \in DOMAIN records : ~Known(records[i].fp) =>
       Len(order) = MaxGroups /\ Behind(1) \subseteq Later(i + 1)

LEMMA InitRecent == Init => RecentInv
<1> SUFFICES ASSUME Init PROVE RecentInv
  OBVIOUS
<1>1. records = <<>> /\ order = <<>>
  BY DEF Init
<1>2. records \in Seq(Match) /\ DOMAIN records = {} /\ DOMAIN order = {}
  BY <1>1
<1> QED
  BY <1>2 DEF RecentInv

\* The groups that are left stand in the same order as before, with the new
\* match behind them.
LEMMA OthersBehind ==
  ASSUME TypeOK, StoreInv, NEW fp \in Fingerprints, order' = Append(OrderWithout(fp), fp),
         NEW i \in 1..Len(order') - 1
  PROVE  \E p \in DOMAIN order :
           order'[i] = order[p] /\ Behind(p) \cup {fp} = {order'[q] : q \in i..Len(order')}
<1> DEFINE t == OrderWithout(fp)
<1>1. t \in Seq(Fingerprints) /\ Len(t) \in Nat
  BY PlaceCleared
<1>2. order' = Append(t, fp)
  OBVIOUS
<1>3. order \in Seq(Fingerprints) /\ Len(order) \in Nat /\ DOMAIN order = 1..Len(order)
  BY DEF TypeOK
<1>4. \/ t = order
      \/ \E g \in 1..Len(order) :
           /\ Len(t) = Len(order) - 1
           /\ order[g] = fp \/ g = 1
           /\ \A k \in 1..Len(t) : t[k] = IF k < g THEN order[k] ELSE order[k + 1]
  BY PlaceCleared
<1> HIDE DEF t
<1>5. /\ Len(order') = Len(t) + 1 /\ order'[Len(t) + 1] = fp
      /\ \A k \in 1..Len(t) : order'[k] = t[k]
  BY <1>1, <1>2, AppendProperties
<1>6. i \in 1..Len(t)
  BY <1>1, <1>5
<1>7. {order'[q] : q \in i..Len(order')} = {t[q] : q \in i..Len(t)} \cup {fp}
  <2>1. \A q : q \in i..Len(order') <=> q \in i..Len(t) \/ q = Len(t) + 1
    BY <1>1, <1>5, <1>6
  <2>2. \A q \in i..Len(t) : order'[q] = t[q]
    BY <1>5, <1>6
  <2>3. ASSUME NEW x \in {order'[q] : q \in i..Len(order')}
        PROVE  x \in {t[q] : q \in i..Len(t)} \cup {fp}
    <3>1. PICK q \in i..Len(order') : x = order'[q]
      BY <2>3
    <3> QED BY <1>5, <2>1, <2>2, <3>1
  <2>4. ASSUME NEW x \in {t[q] : q \in i..Len(t)} \cup {fp}
        PROVE  x \in {order'[q] : q \in i..Len(order')}
    <3>1. x = fp \/ \E q \in i..Len(t) : x = t[q]
      BY <2>4
    <3> QED BY <1>5, <2>1, <2>2, <3>1
  <2> QED BY <2>3, <2>4
<1>8. CASE t = order
  BY <1>3, <1>5, <1>6, <1>7, <1>8 DEF Behind
<1>9. ASSUME NEW g \in 1..Len(order), Len(t) = Len(order) - 1, order[g] = fp \/ g = 1,
             \A k \in 1..Len(t) : t[k] = IF k < g THEN order[k] ELSE order[k + 1]
      PROVE  \E p \in DOMAIN order : /\ order'[i] = order[p]
               /\ Behind(p) \cup {fp} = {order'[q] : q \in i..Len(order')}
  <2> DEFINE p == IF i < g THEN i ELSE i + 1
  <2>1. p \in 1..Len(order) /\ order'[i] = order[p]
    BY <1>3, <1>5, <1>6, <1>9
  <2>2. ASSUME NEW q \in p..Len(order)
        PROVE  order[q] = fp \/ \E k \in i..Len(t) : order[q] = t[k]
    <3>1. CASE q < g
      <4>1. q \in i..Len(t) /\ t[q] = order[q]
        BY <1>3, <1>6, <1>9, <2>1, <2>2, <3>1
      <4> QED BY <4>1
    <3>2. CASE q > g
      <4>1. q - 1 \in i..Len(t) /\ t[q - 1] = order[q]
        <5>1. q - 1 \in i..Len(t) /\ ~(q - 1 < g) /\ q - 1 + 1 = q
          BY <1>3, <1>6, <1>9, <2>1, <2>2, <3>2
        <5> QED BY <1>6, <1>9, <5>1
      <4> QED BY <4>1
    <3>3. CASE q = g
      BY <1>3, <1>6, <1>9, <2>1, <2>2, <3>3
    <3> QED BY <3>1, <3>2, <3>3, <1>3
  <2>3. ASSUME NEW k \in i..Len(t)
        PROVE  \E q \in p..Len(order) : t[k] = order[q]
    <3>1. k \in 1..Len(t)
      BY <1>6
    <3>2. CASE k < g
      <4>1. k \in p..Len(order)
        BY <1>3, <1>6, <1>9, <3>2
      <4> QED BY <1>9, <3>1, <3>2, <4>1
    <3>3. CASE ~(k < g)
      <4>1. k + 1 \in p..Len(order)
        BY <1>3, <1>6, <1>9, <3>3
      <4> QED BY <1>9, <3>1, <3>3, <4>1
    <3> QED BY <3>2, <3>3
  <2> HIDE DEF p
  <2>4. Behind(p) \cup {fp} = {t[q] : q \in i..Len(t)} \cup {fp}
    BY <2>2, <2>3 DEF Behind
  <2> QED
    BY <1>3, <1>7, <2>1, <2>4
<1> QED
  BY <1>4, <1>8, <1>9

LEMMA RecordRecent ==
  ASSUME Types, StoreInv, RecentInv, NEW fp \in Fingerprints, NEW unavailable \in BOOLEAN,
         RecordEvent(fp, unavailable)
  PROVE  RecentInv'
<1> DEFINE r == [fp |-> fp, at |-> now, fresh |-> ~Known(fp), unavailable |-> unavailable]
<1>1. /\ records' = Append(records, r) /\ order' = Append(OrderWithout(fp), fp)
      /\ TypeOK /\ records \in Seq(Match) /\ Len(records) \in Nat
  BY DEF RecordEvent, Types, RecentInv
<1>2. r \in Match /\ r.fp = fp
  BY Limits DEF Match, Known, Types, TypeOK
<1> HIDE DEF r
<1>3. /\ records' \in Seq(Match) /\ Len(records') = Len(records) + 1
      /\ records'[Len(records) + 1].fp = fp
      /\ \A k \in 1..Len(records) : records'[k] = records[k]
      /\ DOMAIN records' = 1..Len(records) + 1 /\ DOMAIN records = 1..Len(records)
  BY <1>1, <1>2, AppendProperties
<1> DEFINE after(i) == {records'[k].fp : k \in i..Len(records')}
<1>4. ASSUME NEW i \in 1..Len(records) + 1 PROVE after(i) = Later(i) \cup {fp}
  <2>1. \A k : k \in i..Len(records') <=> k \in i..Len(records) \/ k = Len(records) + 1
    BY <1>1, <1>3
  <2>2. \A k \in i..Len(records) : records'[k] = records[k]
    BY <1>3
  <2>4. ASSUME NEW x \in after(i) PROVE x \in Later(i) \cup {fp}
    <3>1. PICK k \in i..Len(records') : x = records'[k].fp
      BY <2>4
    <3> QED BY <1>3, <2>1, <2>2, <3>1 DEF Later
  <2>5. ASSUME NEW x \in Later(i) \cup {fp} PROVE x \in after(i)
    <3>1. x = fp \/ \E k \in i..Len(records) : x = records[k].fp
      BY <2>5 DEF Later
    <3> QED BY <1>3, <2>1, <2>2, <3>1
  <2> QED BY <2>4, <2>5
<1> HIDE DEF after
<1>5. /\ order' \in Seq(Fingerprints) /\ Len(order') \in Nat
      /\ \A f \in Fingerprints :
           Known(f)' <=> f = fp \/ (Known(f) /\ f \notin Evicted(fp))
      /\ Len(order') = Len(OrderWithout(fp)) + 1 /\ order'[Len(order')] = fp
      /\ DOMAIN order' = 1..Len(order')
  BY <1>1, Reordered, PlaceCleared, AppendProperties
<1>6. ASSUME NEW p \in DOMAIN order'
      PROVE  \E m \in DOMAIN records' :
               records'[m].fp = order'[p] /\ after(m) = {order'[q] : q \in p..Len(order')}
  <2>1. CASE p = Len(order')
    <3>1. Later(Len(records) + 1) = {}
      BY <1>1 DEF Later
    <3>2. after(Len(records) + 1) = {fp}
      <4>1. Len(records) + 1 \in 1..Len(records) + 1
        BY <1>1
      <4> QED BY <1>4, <3>1, <4>1
    <3>3. {order'[q] : q \in p..Len(order')} = {fp}
      <4>1. p..Len(order') = {p}
        BY <1>5, <2>1
      <4> QED BY <1>5, <2>1, <4>1
    <3>4. Len(records) + 1 \in DOMAIN records'
      BY <1>1, <1>3
    <3>5. records'[Len(records) + 1].fp = order'[p]
      BY <1>3, <1>5, <2>1
    <3> QED
      BY <3>2, <3>3, <3>4, <3>5
  <2>2. CASE p # Len(order')
    <3>1. p \in 1..Len(order') - 1
      BY <1>5, <2>2
    <3>2. PICK k \in DOMAIN order :
            order'[p] = order[k] /\ Behind(k) \cup {fp} = {order'[q] : q \in p..Len(order')}
      BY <1>1, <3>1, OthersBehind
    <3>3. PICK m \in DOMAIN records : records[m].fp = order[k] /\ Later(m) = Behind(k)
      BY DEF RecentInv
    <3> QED
      BY <1>3, <1>4, <3>2, <3>3
  <2> QED BY <2>1, <2>2
<1>7. ASSUME NEW i \in DOMAIN records', NEW f, f = records'[i].fp, ~Known(f)'
      PROVE  /\ Len(order') = MaxGroups
             /\ {order'[q] : q \in 1..Len(order')} \subseteq after(i + 1)
  <2>1. f \in Fingerprints /\ f # fp
    <3>1. f \in Fingerprints
      <4>1. records'[i] \in Match
        BY <1>3
      <4> QED BY <1>7, <4>1 DEF Match
    <3> QED BY <1>5, <1>7, <3>1
  <2>2. i \in 1..Len(records) /\ records[i].fp = f /\ i + 1 \in 1..Len(records) + 1
    BY <1>1, <1>3, <1>7, <2>1
  <2>3. after(i + 1) = Later(i + 1) \cup {fp}
    BY <1>4, <2>2
  <2>4. \A x \in {order'[q] : q \in 1..Len(order')} : x = fp \/ (Known(x) /\ x \notin Evicted(fp))
    <3> TAKE x \in {order'[q] : q \in 1..Len(order')}
    <3>1. PICK q \in 1..Len(order') : x = order'[q]
      OBVIOUS
    <3>2. x \in Fingerprints /\ Known(x)'
      BY <1>5, <3>1 DEF Known
    <3> QED BY <1>5, <3>2
  <2>5. Len(order) \in Nat /\ DOMAIN order = 1..Len(order) /\ order \in Seq(Fingerprints)
    BY <1>1 DEF TypeOK
  <2>6. Len(order) = MaxGroups => Len(order') = MaxGroups
    <3>1. Len(order) = MaxGroups => Len(OrderWithout(fp)) = Len(order) - 1
      BY <1>1, <2>5, PlaceCleared
    <3> QED
      BY <1>5, <2>5, <3>1, Limits
  <2>7. CASE ~Known(f)
    <3>1. Len(order) = MaxGroups /\ Behind(1) \subseteq Later(i + 1)
      BY <1>3, <2>2, <2>7 DEF RecentInv
    <3>2. \A x : Known(x) => x \in Behind(1)
      BY <2>5 DEF Known, Behind
    <3> QED
      BY <2>3, <2>4, <2>6, <3>1, <3>2
  <2>8. CASE Known(f)
    <3>1. f \in Evicted(fp)
      BY <1>5, <1>7, <2>1, <2>8
    <3>2. Len(order) = MaxGroups /\ f = order[1] /\ 1 \in DOMAIN order
          /\ Evicted(fp) = {order[1]}
      BY <1>1, <2>5, <3>1, PlaceCleared
    <3>3. ASSUME NEW x, Known(x), x # f PROVE x \in Later(i + 1)
      <4>1. PICK q \in DOMAIN order : order[q] = x
        BY <3>3 DEF Known
      <4>2. q \in 2..Len(order) /\ 2 \in DOMAIN order
        BY <2>5, <3>2, <3>3, <4>1
      <4>3. PICK m \in DOMAIN records : Later(m) = Behind(2)
        BY <4>2 DEF RecentInv
      <4>4. f \notin Behind(2)
        BY <2>5, <3>2 DEF Behind, StoreInv
      <4>5. i < m
        <5>1. i >= m => f \in Later(m)
          BY <1>1, <1>3, <2>2 DEF Later
        <5> QED
          BY <1>1, <1>3, <2>2, <4>3, <4>4, <5>1
      <4>6. x \in Later(m)
        BY <4>1, <4>2, <4>3 DEF Behind
      <4>7. PICK k \in m..Len(records) : x = records[k].fp
        BY <4>6 DEF Later
      <4>8. k \in i + 1..Len(records)
        BY <1>1, <1>3, <2>2, <4>5
      <4> QED
        BY <4>7, <4>8 DEF Later
    <3> QED
      BY <2>3, <2>4, <2>6, <3>2, <3>3
  <2> QED
    BY <2>7, <2>8
<1>8. /\ \A p : Behind(p)' = {order'[q] : q \in p..Len(order')}
      /\ \A i : Later(i)' = after(i)
  BY DEF Behind, Later, after
<1>9. \A i \in DOMAIN records' : \A f : f = records'[i].fp /\ ~Known(f)' =>
        Len(order') = MaxGroups /\ Behind(1)' \subseteq Later(i + 1)'
  BY <1>7, <1>8
<1>10. \A p \in DOMAIN order' : \E m \in DOMAIN records' :
         records'[m].fp = order'[p] /\ Later(m)' = Behind(p)'
  BY <1>6, <1>8
<1>11. \A i \in DOMAIN records' : ~(Known(records[i].fp))' =>
         Len(order') = MaxGroups /\ Behind(1)' \subseteq Later(i + 1)'
  BY <1>9 DEF Known
<1> QED
  BY <1>3, <1>10, <1>11 DEF RecentInv

LEMMA RecentStep == Types /\ StoreInv /\ RecentInv /\ [Next]_vars => RecentInv'
<1> SUFFICES ASSUME Types, StoreInv, RecentInv, [Next]_vars PROVE RecentInv'
  OBVIOUS
<1>1. CASE Record
  <2>1. RecordEvent(Top.fp, Top.unavailable) /\ Top.fp \in Fingerprints
        /\ Top.unavailable \in BOOLEAN
    BY <1>1, TopFrame DEF Record, At, Frame
  <2> QED
    BY <2>1, RecordRecent
<1>2. CASE UNCHANGED <<order, records>>
  <2>1. /\ \A i : Later(i)' = Later(i)
        /\ \A p : Behind(p)' = Behind(p)
    BY <1>2 DEF Later, Behind
  <2>2. \A i \in DOMAIN records : (Known(records[i].fp))' <=> Known(records[i].fp)
    BY <1>2 DEF Known
  <2> QED
    BY <1>2, <2>1, <2>2 DEF RecentInv
<1> QED
  BY <1>1, <1>2
  DEF Next, CallAfterShutdown, CallInvalid, CallCapture, CallOverload, Call, Ignore,
      Withhold, Enqueue, EnqueueRefused, MarkAlerted, Report, Close, ClockChanges, vars,
      storeVars

LEMMA BehindCounted ==
  ASSUME TypeOK, StoreInv, NEW p \in 1..Len(order)
  PROVE  IsFiniteSet(Behind(p)) /\ Cardinality(Behind(p)) = Len(order) - p + 1
<1> DEFINE place == p..Len(order)
           g == [q \in place |-> order[q]]
<1>1. Len(order) \in Nat /\ DOMAIN order = 1..Len(order)
  BY DEF TypeOK
<1>2. IsFiniteSet(place) /\ Cardinality(place) = Len(order) - p + 1
  BY <1>1, FS_Interval
<1>3. g \in Surjection(place, Behind(p))
  BY DEF Surjection, Behind
<1>4. g \in Injection(place, Behind(p))
  <2>1. \A a, b \in place : g[a] = g[b] => a = b
    BY <1>1 DEF StoreInv
  <2> QED
    BY <1>3, <2>1 DEF Injection, IsInjective, Surjection
<1> HIDE DEF g, place
<1> QED
  BY <1>2, <1>3, <1>4, FS_Surjection

LEMMA LaterFinite ==
  ASSUME RecentInv, NEW i \in DOMAIN records
  PROVE  IsFiniteSet(Later(i))
<1> DEFINE place == i..Len(records)
           g == [k \in place |-> records[k].fp]
<1>1. IsFiniteSet(place)
  BY FS_Interval DEF RecentInv
<1>2. g \in Surjection(place, Later(i))
  BY DEF Surjection, Later
<1> HIDE DEF g, place
<1> QED
  BY <1>1, <1>2, FS_Surjection

\* The store forgets a group only when as many others as it may keep have
\* matched since that group last did.
THEOREM MostRecentKept == Spec => []KeepsMostRecent
<1>1. Types /\ StoreInv /\ RecentInv => KeepsMostRecent
  <2> SUFFICES ASSUME Types, StoreInv, RecentInv, NEW f \in Fingerprints
               PROVE  Known(f) <=> \E i \in DOMAIN records :
                        records[i].fp = f /\ Cardinality(Later(i) \ {f}) < MaxGroups
    BY DEF KeepsMostRecent, Later
  <2>1. /\ TypeOK /\ Len(order) \in Nat /\ Len(order) <= MaxGroups
        /\ DOMAIN order = 1..Len(order)
    BY DEF Types, TypeOK
  <2>2. ASSUME Known(f)
        PROVE  \E i \in DOMAIN records :
                 records[i].fp = f /\ Cardinality(Later(i) \ {f}) < MaxGroups
    <3>1. PICK p \in 1..Len(order) : order[p] = f
      BY <2>1, <2>2 DEF Known
    <3>2. PICK m \in DOMAIN records : records[m].fp = f /\ Later(m) = Behind(p)
      BY <2>1, <3>1 DEF RecentInv
    <3>3. f \in Behind(p)
      BY <2>1, <3>1 DEF Behind
    <3>4. IsFiniteSet(Behind(p)) /\ Cardinality(Behind(p)) = Len(order) - p + 1
      BY <2>1, <3>1, BehindCounted
    <3>5. Cardinality(Behind(p) \ {f}) = Cardinality(Behind(p)) - 1
      BY <3>3, <3>4, FS_RemoveElement
    <3>6. Cardinality(Behind(p) \ {f}) < MaxGroups
      BY <2>1, <3>1, <3>4, <3>5, Limits
    <3> QED
      BY <3>2, <3>6
  <2>3. ASSUME ~Known(f), NEW i \in DOMAIN records, records[i].fp = f
        PROVE  ~(Cardinality(Later(i) \ {f}) < MaxGroups)
    <3>1. Len(order) = MaxGroups /\ Behind(1) \subseteq Later(i + 1)
      BY <2>3 DEF RecentInv
    <3>2. Later(i + 1) \subseteq Later(i)
      <4>1. i \in Int /\ Len(records) \in Int
        BY DEF RecentInv
      <4>2. i + 1..Len(records) \subseteq i..Len(records)
        BY <4>1
      <4> QED BY <4>2 DEF Later
    <3>3. f \notin Behind(1)
      BY <2>1, <2>3 DEF Behind, Known
    <3>4. IsFiniteSet(Later(i) \ {f})
      BY LaterFinite, FS_RemoveElement
    <3>5. Cardinality(Behind(1)) <= Cardinality(Later(i) \ {f})
      BY <3>1, <3>2, <3>3, <3>4, FS_Subset
    <3>6. Cardinality(Behind(1)) = MaxGroups
      <4>1. 1 \in 1..Len(order) /\ MaxGroups - 1 + 1 = MaxGroups
        BY <2>1, <3>1, Limits
      <4> QED BY <2>1, <3>1, <4>1, BehindCounted
    <3>7. Cardinality(Later(i) \ {f}) \in Nat
      BY <3>4, FS_CardinalityType
    <3> QED
      BY <3>5, <3>6, <3>7, Limits
  <2> QED
    BY <2>2, <2>3
<1> QED
  BY <1>1, InitTypes, TypeStep, InitRecent, RecentStep, PTL DEF Spec

-----------------------------------------------------------------------------
(* What the policy counts.                                                 *)

\* The matches of a group since it was created.
Since(f, history) ==
  {i \in DOMAIN history :
     /\ history[i].fp = f
     /\ \A k \in i + 1..Len(history) : ~(history[k].fp = f /\ history[k].fresh)}

\* seen[j] is the match h[j]; the matches left out are older than those, and
\* have left the window or found no room in it.
Tracks(h, f, seen, history, time) ==
  /\ h \in [1..Len(seen) -> Since(f, history)]
  /\ \A j \in 1..Len(seen) : history[h[j]].at = seen[j]
  /\ \A j, k \in 1..Len(seen) : j < k => h[j] < h[k]
  /\ \A i \in Since(f, history) :
       \/ \E j \in 1..Len(seen) : h[j] = i
       \/ /\ \A j \in 1..Len(seen) : i < h[j]
          /\ Expired(history[i].at, time) \/ Len(seen) = MaxEvents

\* The records are in the order of their times, none later than now.
Ordered(history, time) ==
  /\ \A i \in DOMAIN history : history[i].at <= time
  /\ \A i, j \in DOMAIN history : i < j => history[i].at <= history[j].at

\* While the wall clock is not set back, each group has seen its last matches.
WindowInv ==
  ~setBack =>
    /\ Ordered(records, now)
    /\ \A f \in Fingerprints : Known(f) =>
         \E h : Tracks(h, f, group[f].seen, records, now)

SampleInv ==
  \A f \in Fingerprints : Known(f) /\ group[f].unavailable => CreatedBy503(f, records)

LEMMA PurgedIs ==
  ASSUME NEW events \in Seq(Nat), NEW time
  PROVE  \E a \in 1..Len(events) + 1 :
           /\ Purged(events, time) \in Seq(Nat)
           /\ Len(Purged(events, time)) = Len(events) - a + 1
           /\ \A j \in 1..Len(events) - a + 1 : Purged(events, time)[j] = events[j + a - 1]
           /\ \A j \in 1..a - 1 : Expired(events[j], time)
           /\ a <= Len(events) => ~Expired(events[a], time)
<1> DEFINE kept == {i \in 1..Len(events) : ~Expired(events[i], time)}
<1>0. Len(events) \in Nat
  OBVIOUS
<1>1. CASE kept = {}
  <2>1. Purged(events, time) = <<>>
    BY <1>1 DEF Purged
  <2>2. \A j \in 1..Len(events) : Expired(events[j], time)
    BY <1>1
  <2> QED
    BY <1>0, <2>1, <2>2
<1>2. CASE kept # {}
  <2> DEFINE a == CHOOSE i \in kept : \A k \in kept : i <= k
  <2>1. kept \in SUBSET Nat
    OBVIOUS
  <2>2. a \in kept /\ \A k \in kept : a <= k
    <3> HIDE DEF kept
    <3> QED BY <1>2, <2>1, LeastOf
  <2>3. Purged(events, time) = SubSeq(events, a, Len(events))
    BY <1>2 DEF Purged
  <2> HIDE DEF a
  <2>4. a \in 1..Len(events) /\ ~Expired(events[a], time)
    BY <2>2
  <2>5. \A j \in 1..a - 1 : Expired(events[j], time)
    BY <1>0, <2>2, <2>4
  <2>6. /\ SubSeq(events, a, Len(events)) \in Seq(Nat)
        /\ Len(SubSeq(events, a, Len(events))) = Len(events) - a + 1
        /\ \A j \in 1..Len(events) - a + 1 :
             SubSeq(events, a, Len(events))[j] = events[a + j - 1]
    BY <1>0, <2>4, SubSeqProperties
  <2>7. \A j \in 1..Len(events) - a + 1 : a + j - 1 = j + a - 1
    BY <1>0, <2>4
  <2>8. /\ Purged(events, time) \in Seq(Nat)
        /\ Len(Purged(events, time)) = Len(events) - a + 1
        /\ \A j \in 1..Len(events) - a + 1 : Purged(events, time)[j] = events[j + a - 1]
    BY <2>3, <2>6, <2>7
  <2>9. a \in 1..Len(events) + 1
    BY <1>0, <2>4
  <2> QED
    BY <2>4, <2>5, <2>8, <2>9
<1> QED
  BY <1>1, <1>2

\* The window after a match: what is left of the one before, and the match.
LEMMA NewWindow ==
  ASSUME NEW seen \in Seq(Nat), Len(seen) <= MaxEvents, NEW time \in Nat,
         \A j \in 1..Len(seen) : seen[j] <= time,
         \A j, k \in 1..Len(seen) : j < k => seen[j] <= seen[k]
  PROVE  LET new == Purged(Added(seen, time), time)
         IN  \E a \in 1..Len(seen) + 1 :
               /\ Len(new) = Len(seen) - a + 2
               /\ \A j \in 1..Len(seen) - a + 1 : new[j] = seen[j + a - 1]
               /\ new[Len(new)] = time
               /\ \A j \in 1..Len(new) : ~Expired(new[j], time)
               /\ \A j \in 1..a - 1 : Expired(seen[j], time) \/ Len(new) = MaxEvents
<1> DEFINE purged == Purged(seen, time)
           left == IF Len(purged) = MaxEvents THEN Tail(purged) ELSE purged
           added == Added(seen, time)
           new == Purged(added, time)
           n == Len(seen)
<1>0. n \in Nat /\ MaxEvents \in Nat \ {0} /\ WindowMs \in Nat \ {0} /\ n <= MaxEvents
      /\ \A j \in 1..n : seen[j] \in Nat
  BY Limits
<1>1. PICK b \in 1..n + 1 :
        /\ purged \in Seq(Nat) /\ Len(purged) = n - b + 1
        /\ \A j \in 1..n - b + 1 : purged[j] = seen[j + b - 1]
        /\ \A j \in 1..b - 1 : Expired(seen[j], time)
        /\ b <= n => ~Expired(seen[b], time)
  BY PurgedIs
<1> DEFINE a == IF Len(purged) = MaxEvents THEN b + 1 ELSE b
<1>2. added = Append(left, time)
  BY DEF Added
<1> HIDE DEF purged, added, n
<1>3. /\ a \in 1..n + 1 /\ b <= a
      /\ left \in Seq(Nat) /\ Len(left) = n - a + 1
      /\ \A j \in 1..n - a + 1 : left[j] = seen[j + a - 1]
  <2>1. CASE Len(purged) = MaxEvents
    <3>1. purged # <<>> /\ a = b + 1 /\ left = Tail(purged) /\ a \in 1..n + 1
      BY <1>0, <1>1, <2>1
    <3>2. left \in Seq(Nat) /\ Len(left) = Len(purged) - 1
          /\ \A j \in 1..Len(purged) - 1 : left[j] = purged[j + 1]
      BY <1>1, <3>1
    <3>3. Len(left) = n - a + 1
      BY <1>0, <1>1, <3>1, <3>2
    <3>4. ASSUME NEW j \in 1..n - a + 1 PROVE left[j] = seen[j + a - 1]
      <4>1. /\ j \in 1..Len(purged) - 1 /\ j + 1 \in 1..n - b + 1
            /\ j + 1 + b - 1 = j + a - 1
        BY <1>0, <1>1, <3>1, <3>4
      <4>2. left[j] = purged[j + 1] /\ purged[j + 1] = seen[j + 1 + b - 1]
        BY <1>1, <3>2, <4>1
      <4> QED BY <4>1, <4>2
    <3>5. b <= a
      BY <1>1, <3>1
    <3> HIDE DEF a, left
    <3> QED BY <3>1, <3>2, <3>3, <3>4, <3>5
  <2>2. CASE Len(purged) # MaxEvents
    <3>1. a = b /\ left = purged
      BY <2>2
    <3> HIDE DEF a, left
    <3> QED BY <1>0, <1>1, <3>1
  <2> QED BY <2>1, <2>2
<1>4. a > b => Len(left) = MaxEvents - 1
  <2>1. CASE Len(purged) = MaxEvents
    <3>1. a = b + 1
      BY <2>1
    <3> QED BY <1>0, <1>1, <1>3, <2>1, <3>1
  <2>2. CASE Len(purged) # MaxEvents
    BY <1>1, <2>2
  <2> QED BY <2>1, <2>2
<1> HIDE DEF left, a
<1>5. /\ added \in Seq(Nat) /\ Len(added) = n - a + 2
      /\ \A j \in 1..n - a + 1 : added[j] = seen[j + a - 1]
      /\ added[n - a + 2] = time
  <2>1. /\ Append(left, time) \in Seq(Nat) /\ Len(Append(left, time)) = Len(left) + 1
        /\ Append(left, time)[Len(left) + 1] = time
        /\ \A j \in 1..Len(left) : Append(left, time)[j] = left[j]
    BY <1>3, AppendProperties
  <2>2. Len(left) + 1 = n - a + 2 /\ Len(left) = n - a + 1
    BY <1>0, <1>3
  <2> QED
    BY <1>2, <1>3, <2>1, <2>2
<1>6. ASSUME NEW j \in 1..n - a + 2 PROVE ~Expired(added[j], time)
  <2>1. CASE j = n - a + 2
    BY <1>0, <1>5, <2>1 DEF Expired
  <2>2. CASE j # n - a + 2
    <3>1. j \in 1..n - a + 1 /\ j + a - 1 \in 1..n /\ b \in 1..n /\ b <= j + a - 1
      BY <1>0, <1>1, <1>3, <2>2
    <3>2. ~Expired(seen[b], time) /\ seen[b] <= seen[j + a - 1]
      BY <1>0, <1>1, <3>1 DEF n
    <3>3. seen[b] \in Nat /\ seen[j + a - 1] \in Nat /\ added[j] = seen[j + a - 1]
      BY <1>0, <1>5, <3>1
    <3> QED
      BY <1>0, <3>2, <3>3 DEF Expired
  <2> QED BY <2>1, <2>2
<1>7. new = added
  <2>0. added \in Seq(Nat)
    BY <1>5
  <2>1. PICK c \in 1..Len(added) + 1 :
          /\ new \in Seq(Nat) /\ Len(new) = Len(added) - c + 1
          /\ \A j \in 1..Len(added) - c + 1 : new[j] = added[j + c - 1]
          /\ \A j \in 1..c - 1 : Expired(added[j], time)
    BY ONLY <2>0, PurgedIs
  <2> HIDE DEF new
  <2>2. c = 1
    <3>1. 1 \in 1..n - a + 2 /\ Len(added) \in Nat
      BY <1>0, <1>3, <1>5
    <3>2. ~Expired(added[1], time)
      BY <1>6, <3>1
    <3>3. c \in Nat \ {0}
      BY <2>1, <3>1
    <3>4. 1 \notin 1..c - 1
      BY <2>1, <3>2
    <3> QED
      BY <3>3, <3>4
  <2>3. Len(new) = Len(added) /\ \A j \in 1..Len(added) : new[j] = added[j]
    <3>1. Len(added) - c + 1 = Len(added) /\ \A j \in 1..Len(added) : j + c - 1 = j
      BY <1>5, <2>2
    <3> QED
      BY <2>1, <3>1
  <2> QED
    BY <1>5, <2>1, <2>3, SeqEqual
<1> HIDE DEF new
<1>8. \A j \in 1..a - 1 : Expired(seen[j], time) \/ Len(new) = MaxEvents
  <2> TAKE j \in 1..a - 1
  <2>1. CASE j \in 1..b - 1
    BY <1>1, <2>1
  <2>2. CASE j \notin 1..b - 1
    <3>1. a > b
      BY <1>1, <1>3, <2>2
    <3>2. Len(left) = MaxEvents - 1
      BY <1>4, <3>1
    <3> QED
      BY <1>0, <1>3, <1>5, <1>7, <3>2
  <2> QED BY <2>1, <2>2
<1>9. Len(new) = n - a + 2 /\ new[Len(new)] = time
  BY <1>5, <1>7
<1> QED
  BY <1>3, <1>5, <1>6, <1>7, <1>8, <1>9 DEF new, added, n

LEMMA Joined ==
  ASSUME NEW history \in Seq(Match), NEW e \in Match
  PROVE  LET after == Append(history, e)
             N == Len(history)
         IN  /\ N \in Nat /\ Len(after) = N + 1 /\ after \in Seq(Match)
             /\ DOMAIN after = 1..N + 1 /\ DOMAIN history = 1..N
             /\ \A i \in 1..N : after[i] = history[i] /\ history[i].at \in Nat
             /\ after[N + 1] = e /\ e.at \in Nat
             /\ \A f : Since(f, after) =
                         (IF e.fp = f /\ e.fresh THEN {} ELSE Since(f, history))
                           \cup (IF e.fp = f THEN {N + 1} ELSE {})
<1> DEFINE after == Append(history, e)
           N == Len(history)
<1>1. /\ N \in Nat /\ Len(after) = N + 1 /\ after \in Seq(Match)
      /\ DOMAIN after = 1..N + 1 /\ DOMAIN history = 1..N
      /\ \A i \in 1..N : after[i] = history[i] /\ history[i] \in Match
      /\ after[N + 1] = e
  BY AppendProperties
<1> HIDE DEF after, N
<1>2. ASSUME NEW f
      PROVE  Since(f, after) = (IF e.fp = f /\ e.fresh THEN {} ELSE Since(f, history))
                                 \cup (IF e.fp = f THEN {N + 1} ELSE {})
  <2>1. ASSUME NEW i \in 1..N
        PROVE  i \in Since(f, after) <=> i \in Since(f, history) /\ ~(e.fp = f /\ e.fresh)
    <3>1. i + 1..N + 1 = (i + 1..N) \cup {N + 1}
      BY <1>1
    <3>2. i + 1..N \subseteq 1..N /\ i \in DOMAIN after /\ i \in DOMAIN history
      BY <1>1
    <3> QED
      BY <1>1, <3>1, <3>2 DEF Since, N
  <2>2. N + 1 \in Since(f, after) <=> e.fp = f
    <3>1. N + 1 + 1..Len(after) = {} /\ N + 1 \in DOMAIN after
      BY <1>1
    <3> QED
      BY <1>1, <3>1 DEF Since
  <2>3. Since(f, after) \subseteq 1..N \cup {N + 1} /\ Since(f, history) \subseteq 1..N
    BY <1>1 DEF Since
  <2> QED
    BY <2>1, <2>2, <2>3
<1>3. \A i \in 1..N : history[i].at \in Nat
  BY <1>1 DEF Match
<1> QED
  BY <1>1, <1>2, <1>3 DEF after, N, Match

\* A match of another group, and time that passes, leave what is tracked.
LEMMA OthersTracked ==
  ASSUME NEW history \in Seq(Match), NEW e \in Match, NEW f, e.fp # f,
         NEW seen, NEW h, NEW time, Tracks(h, f, seen, history, time)
  PROVE  Tracks(h, f, seen, Append(history, e), time)
<1>1. Since(f, Append(history, e)) = Since(f, history)
  <2>1. Since(f, Append(history, e)) =
          (IF e.fp = f /\ e.fresh THEN {} ELSE Since(f, history))
            \cup (IF e.fp = f THEN {Len(history) + 1} ELSE {})
    BY Joined
  <2> QED
    BY <2>1
<1>2. \A i \in Since(f, history) : Append(history, e)[i] = history[i]
  BY Joined DEF Since
<1> QED
  BY <1>1, <1>2 DEF Tracks

LEMMA TimePasses ==
  ASSUME NEW history \in Seq(Match), NEW f, NEW seen, NEW h, NEW time \in Nat,
         NEW later \in Nat, time <= later, Tracks(h, f, seen, history, time)
  PROVE  Tracks(h, f, seen, history, later)
<1>1. \A i \in Since(f, history) : history[i].at \in Nat
  <2>1. \A i \in DOMAIN history : history[i] \in Match
    OBVIOUS
  <2> QED BY <2>1 DEF Since, Match
<1>2. \A i \in Since(f, history) : Expired(history[i].at, time) => Expired(history[i].at, later)
  BY <1>1, Limits DEF Expired
<1> QED
  BY <1>2 DEF Tracks

LEMMA OrderKept ==
  ASSUME NEW history \in Seq(Match), NEW e \in Match, Ordered(history, e.at)
  PROVE  Ordered(Append(history, e), e.at)
<1> DEFINE after == Append(history, e)
           N == Len(history)
<1>1. /\ N \in Nat /\ DOMAIN after = 1..N + 1 /\ DOMAIN history = 1..N
      /\ \A i \in 1..N : after[i] = history[i]
      /\ after[N + 1] = e /\ e.at \in Nat
  BY Joined
<1> HIDE DEF after, N
<1>2. \A i \in 1..N + 1 : after[i].at <= e.at
  BY <1>1 DEF Ordered
<1>3. \A i, j \in 1..N + 1 : i < j => after[i].at <= after[j].at
  <2> TAKE i, j \in 1..N + 1
  <2>1. CASE j = N + 1
    BY <1>1, <1>2, <2>1
  <2>2. CASE j # N + 1
    BY <1>1, <2>2 DEF Ordered
  <2> QED BY <2>1, <2>2
<1> QED
  BY <1>1, <1>2, <1>3 DEF Ordered, after

\* The window of the group that matches: the last of its matches, and all of
\* them within the window unless it is full.
LEMMA NextTracked ==
  ASSUME NEW history \in Seq(Match), NEW e \in Match, ~e.fresh, Ordered(history, e.at),
         NEW seen \in Seq(Nat), Len(seen) <= MaxEvents,
         NEW h, Tracks(h, e.fp, seen, history, e.at)
  PROVE  LET new == Purged(Added(seen, e.at), e.at)
         IN  /\ \A j \in 1..Len(new) : ~Expired(new[j], e.at)
             /\ \E g : Tracks(g, e.fp, new, Append(history, e), e.at)
<1> DEFINE f == e.fp
           time == e.at
           after == Append(history, e)
           new == Purged(Added(seen, time), time)
           N == Len(history)
           n == Len(seen)
<1>1. /\ N \in Nat /\ DOMAIN after = 1..N + 1 /\ DOMAIN history = 1..N
      /\ \A i \in 1..N : after[i] = history[i] /\ history[i].at \in Nat
      /\ after[N + 1].at = time /\ time \in Nat
      /\ Since(f, after) = Since(f, history) \cup {N + 1}
  BY Joined
<1>2. Since(f, history) \subseteq 1..N
  BY <1>1 DEF Since
<1>3. /\ h \in [1..n -> 1..N] /\ h \in [1..n -> Since(f, history)]
      /\ \A j \in 1..n : history[h[j]].at = seen[j]
      /\ \A j, k \in 1..n : j < k => h[j] < h[k]
      /\ n \in Nat /\ n <= MaxEvents
  BY <1>2 DEF Tracks
<1>4. /\ \A i \in 1..N : history[i].at <= time
      /\ \A i, j \in 1..N : i < j => history[i].at <= history[j].at
  BY <1>1 DEF Ordered
<1>5. /\ \A j \in 1..n : seen[j] <= time
      /\ \A j, k \in 1..n : j < k => seen[j] <= seen[k]
  BY <1>3, <1>4
<1> HIDE DEF N, n, time, f, after, new
<1>6. PICK a \in 1..n + 1 :
        /\ Len(new) = n - a + 2
        /\ \A j \in 1..n - a + 1 : new[j] = seen[j + a - 1]
        /\ new[Len(new)] = time
        /\ \A j \in 1..Len(new) : ~Expired(new[j], time)
        /\ \A j \in 1..a - 1 : Expired(seen[j], time) \/ Len(new) = MaxEvents
  BY <1>1, <1>5, NewWindow DEF new, n, time
<1>7. Len(new) <= MaxEvents
  BY <1>1, MatchedWindow DEF new, time
<1> DEFINE m == n - a + 2
           g == [j \in 1..m |-> IF j = m THEN N + 1 ELSE h[j + a - 1]]
<1>8. /\ m \in Nat /\ \A j \in 1..m : j = m \/ (j \in 1..n - a + 1 /\ j + a - 1 \in 1..n)
      /\ m \in 1..m /\ m = Len(new)
  BY <1>3, <1>6
<1>9. /\ g[m] = N + 1
      /\ \A j \in 1..m : j # m => g[j] = h[j + a - 1] /\ g[j] \in 1..N
                                  /\ g[j] \in Since(f, history)
  BY <1>3, <1>8
<1>10. g \in [1..m -> Since(f, after)]
  BY <1>1, <1>8, <1>9
<1> HIDE DEF g, m
<1>11. \A j \in 1..m : after[g[j]].at = new[j]
  <2> TAKE j \in 1..m
  <2>1. CASE j = m
    BY <1>1, <1>6, <1>8, <1>9, <2>1
  <2>2. CASE j # m
    <3>1. j \in 1..n - a + 1 /\ j + a - 1 \in 1..n /\ g[j] = h[j + a - 1] /\ g[j] \in 1..N
      BY <1>8, <1>9, <2>2
    <3> QED BY <1>1, <1>3, <1>6, <3>1
  <2> QED BY <2>1, <2>2
<1>12. \A j, k \in 1..m : j < k => g[j] < g[k]
  <2> SUFFICES ASSUME NEW j \in 1..m, NEW k \in 1..m, j < k PROVE g[j] < g[k]
    OBVIOUS
  <2>1. j # m /\ g[j] = h[j + a - 1] /\ g[j] \in 1..N /\ j + a - 1 \in 1..n
    BY <1>8, <1>9
  <2>2. CASE k = m
    BY <1>1, <1>9, <2>1, <2>2
  <2>3. CASE k # m
    <3>1. g[k] = h[k + a - 1] /\ k + a - 1 \in 1..n /\ j + a - 1 < k + a - 1
      BY <1>3, <1>6, <1>8, <1>9, <2>3
    <3> QED BY <1>3, <2>1, <3>1
  <2> QED BY <2>2, <2>3
<1>13. ASSUME NEW i \in Since(f, after)
       PROVE  \/ \E j \in 1..m : g[j] = i
              \/ /\ \A j \in 1..m : i < g[j]
                 /\ Expired(after[i].at, time) \/ m = MaxEvents
  <2>1. CASE i = N + 1
    BY <1>8, <1>9, <2>1
  <2>2. CASE i # N + 1
    <3>1. i \in Since(f, history) /\ i \in 1..N /\ after[i] = history[i]
      BY <1>1, <1>2, <2>2
    <3>2. CASE \E j \in 1..n : h[j] = i
      <4>1. PICK j \in 1..n : h[j] = i
        BY <3>2
      <4>2. CASE j >= a
        <5>1. j - a + 1 \in 1..m /\ j - a + 1 # m /\ j - a + 1 + a - 1 = j
          BY <1>3, <1>6, <4>2 DEF m
        <5>2. g[j - a + 1] = i
          BY <1>9, <4>1, <5>1
        <5> QED BY <5>1, <5>2
      <4>3. CASE j < a
        <5>1. \A k \in 1..m : i < g[k]
          <6> TAKE k \in 1..m
          <6>1. CASE k = m
            BY <1>1, <1>9, <3>1, <6>1
          <6>2. CASE k # m
            <7>1. g[k] = h[k + a - 1] /\ k + a - 1 \in 1..n /\ j < k + a - 1
              BY <1>3, <1>6, <1>8, <1>9, <4>3, <6>2
            <7> QED BY <1>3, <4>1, <7>1
          <6> QED BY <6>1, <6>2
        <5>2. j \in 1..a - 1
          BY <1>6, <4>3
        <5>3. Expired(seen[j], time) \/ m = MaxEvents
          BY <1>6, <1>8, <5>2
        <5>4. after[i].at = seen[j]
          BY <1>3, <3>1, <4>1
        <5> QED BY <5>1, <5>3, <5>4
      <4> QED BY <1>3, <1>6, <4>2, <4>3
    <3>3. CASE /\ \A j \in 1..n : i < h[j]
               /\ Expired(history[i].at, time) \/ n = MaxEvents
      <4>1. \A k \in 1..m : i < g[k]
        <5> TAKE k \in 1..m
        <5>1. CASE k = m
          BY <1>1, <1>9, <3>1, <5>1
        <5>2. CASE k # m
          BY <1>8, <1>9, <3>3, <5>2
        <5> QED BY <5>1, <5>2
      <4>2. CASE Expired(history[i].at, time)
        BY <3>1, <4>1, <4>2
      <4>3. CASE n = MaxEvents
        <5>1. 1 \in 1..a - 1 /\ 1 \in 1..n
          BY <1>3, <1>6, <1>7, <4>3, Limits
        <5>2. CASE Expired(seen[1], time)
          <6>1. i < h[1] /\ h[1] \in 1..N
            BY <1>3, <3>3, <5>1
          <6>2. history[i].at <= history[h[1]].at
            BY <1>4, <3>1, <6>1
          <6>3. history[i].at <= seen[1] /\ seen[1] \in Nat /\ history[i].at \in Nat
            BY <1>1, <1>3, <3>1, <5>1, <6>2
          <6>4. Expired(history[i].at, time)
            BY <1>1, <5>2, <6>3, Limits DEF Expired
          <6> QED BY <3>1, <4>1, <6>4
        <5>3. CASE Len(new) = MaxEvents
          BY <1>8, <4>1, <5>3
        <5> QED BY <1>6, <5>1, <5>2, <5>3
      <4> QED BY <3>3, <4>2, <4>3
    <3> QED BY <3>1, <3>2, <3>3 DEF Tracks, f, time, n
  <2> QED BY <2>1, <2>2
<1>14. Tracks(g, f, new, after, time)
  BY <1>8, <1>10, <1>11, <1>12, <1>13 DEF Tracks
<1> QED
  BY <1>6, <1>14 DEF f, time, after, new

\* The window of a group that is new.
LEMMA FirstTracked ==
  ASSUME NEW history \in Seq(Match), NEW e \in Match, e.fresh
  PROVE  LET new == Purged(Added(<<>>, e.at), e.at)
         IN  /\ \A j \in 1..Len(new) : ~Expired(new[j], e.at)
             /\ \E g : Tracks(g, e.fp, new, Append(history, e), e.at)
<1> DEFINE time == e.at
           after == Append(history, e)
           new == Purged(Added(<<>>, time), time)
           N == Len(history)
<1>1. N \in Nat /\ after[N + 1].at = time /\ time \in Nat
  BY Joined
<1>2. Since(e.fp, after) = {N + 1}
  <2>1. Since(e.fp, after) =
          (IF e.fp = e.fp /\ e.fresh THEN {} ELSE Since(e.fp, history))
            \cup (IF e.fp = e.fp THEN {N + 1} ELSE {})
    BY Joined
  <2> QED
    BY <2>1
<1> DEFINE none == <<>>
<1>3. none \in Seq(Nat) /\ Len(none) = 0 /\ Len(none) <= MaxEvents
  BY Limits
<1> HIDE DEF none, time
<1> DEFINE next == Purged(Added(none, time), time)
<1>4. PICK a \in 1..Len(none) + 1 :
        /\ Len(next) = Len(none) - a + 2
        /\ next[Len(next)] = time
        /\ \A j \in 1..Len(next) : ~Expired(next[j], time)
  <2>1. /\ \A j \in 1..Len(none) : none[j] <= time
        /\ \A j, k \in 1..Len(none) : j < k => none[j] <= none[k]
    BY <1>3
  <2> QED
    BY <1>1, <1>3, <2>1, NewWindow
<1>5. Len(new) = 1 /\ new[1] = time /\ \A j \in 1..1 : ~Expired(new[j], time)
  <2>1. a = 1
    BY <1>3
  <2> QED
    BY <1>3, <1>4, <2>1 DEF none
<1> HIDE DEF new, after, N
<1> DEFINE g == [j \in 1..1 |-> N + 1]
<1>6. g \in [1..1 -> Since(e.fp, after)] /\ g[1] = N + 1
  BY <1>2
<1>7. Tracks(g, e.fp, new, after, time)
  BY <1>1, <1>2, <1>5, <1>6 DEF Tracks
<1> QED
  BY <1>5, <1>7 DEF new, after, time

\* As many matches lie within the window as the group has seen, unless it has
\* no room for more.
LEMMA SeenCounts ==
  ASSUME NEW history \in Seq(Match), NEW f, NEW seen \in Seq(Nat), NEW time \in Nat,
         NEW h, Tracks(h, f, seen, history, time),
         \A j \in 1..Len(seen) : ~Expired(seen[j], time)
  PROVE  LET recent == {i \in Since(f, history) : time - history[i].at < WindowMs}
         IN  /\ IsFiniteSet(recent)
             /\ Len(seen) <= Cardinality(recent)
             /\ Len(seen) < MaxEvents => Cardinality(recent) <= Len(seen)
<1> DEFINE recent == {i \in Since(f, history) : time - history[i].at < WindowMs}
           places == 1..Len(seen)
<1>1. Len(seen) \in Nat /\ IsFiniteSet(places) /\ Cardinality(places) = Len(seen)
  <2>1. Len(seen) \in Nat /\ Len(seen) \in Int /\ 1 \in Int
    OBVIOUS
  <2>2. IsFiniteSet(1..Len(seen))
        /\ Cardinality(1..Len(seen)) = IF 1 > Len(seen) THEN 0 ELSE Len(seen) - 1 + 1
    BY <2>1, FS_Interval
  <2>3. (IF 1 > Len(seen) THEN 0 ELSE Len(seen) - 1 + 1) = Len(seen)
    BY <2>1
  <2> QED
    BY <2>1, <2>2, <2>3
<1>2. /\ Len(history) \in Nat /\ DOMAIN history = 1..Len(history)
      /\ \A i \in DOMAIN history : history[i].at \in Nat
  <2>1. \A i \in DOMAIN history : history[i] \in Match
    OBVIOUS
  <2> QED
    BY <2>1 DEF Match
<1>3. \A i \in Since(f, history) : i \in recent <=> ~Expired(history[i].at, time)
  BY <1>2, Limits DEF Expired, Since
<1>4. h \in [places -> recent]
  BY <1>3 DEF Tracks
<1>5. \A j, k \in places : h[j] = h[k] => j = k
  <2>1. recent \subseteq Nat
    BY <1>2 DEF Since
  <2>2. \A j, k \in places : j < k => h[j] < h[k]
    BY DEF Tracks
  <2>3. \A j \in places : h[j] \in Nat /\ j \in Nat
    BY <1>4, <2>1
  <2>4. \A j, k \in places : j < k \/ k < j \/ j = k
    BY <2>3
  <2> HIDE DEF recent, places
  <2>5. \A j, k \in places : j < k => h[j] # h[k]
    BY <2>2, <2>3
  <2> QED
    BY <2>4, <2>5
<1>6. recent \subseteq 1..Len(history)
  BY <1>2 DEF Since
<1>7. IsFiniteSet(recent)
  <2>1. IsFiniteSet(1..Len(history))
    BY <1>2, FS_Interval
  <2> HIDE DEF recent
  <2> QED
    BY <1>6, <2>1, FS_Subset
<1>8. Len(seen) < MaxEvents => \A i \in recent : \E j \in places : h[j] = i
  BY <1>1, <1>3, Limits DEF Tracks
<1> HIDE DEF recent, places
<1>9. h \in Injection(places, recent)
  BY <1>4, <1>5 DEF Injection, IsInjective
<1>10. Len(seen) <= Cardinality(recent)
  BY <1>1, <1>7, <1>9, FS_Injection
<1>11. Len(seen) < MaxEvents => Cardinality(recent) <= Len(seen)
  <2> SUFFICES ASSUME Len(seen) < MaxEvents PROVE Cardinality(recent) <= Len(seen)
    OBVIOUS
  <2>1. h \in Surjection(places, recent)
    BY <1>4, <1>8 DEF Surjection
  <2> QED
    BY <1>1, <2>1, FS_Surjection
<1> QED
  BY <1>7, <1>10, <1>11 DEF recent

\* The window after record(), and what it says of the matches.
LEMMA RecordWindow ==
  ASSUME Types, StoreInv, records \in Seq(Match), ~setBack, WindowInv,
         NEW fp \in Fingerprints, NEW unavailable \in BOOLEAN, RecordEvent(fp, unavailable)
  PROVE  /\ Ordered(records', now)
         /\ \A f \in Fingerprints : Known(f)' =>
              \E h : Tracks(h, f, group'[f].seen, records', now)
         /\ \A j \in 1..Len(group'[fp].seen) : ~Expired(group'[fp].seen[j], now)
<1> DEFINE e == [fp |-> fp, at |-> now, fresh |-> ~Known(fp), unavailable |-> unavailable]
<1>1. /\ now \in Nat /\ group \in [Fingerprints -> Group]
      /\ \A f \in Fingerprints : Len(group[f].seen) <= MaxEvents
      /\ \A f \in Fingerprints : group[f].seen \in Seq(Nat)
  BY Limits DEF Types, TypeOK, Group
<1>2. /\ e \in Match /\ e.fp = fp /\ e.at = now /\ (e.fresh <=> ~Known(fp))
      /\ records' = Append(records, e)
  <2>1. Known(fp) \in BOOLEAN
    BY DEF Known
  <2> QED
    BY <1>1, <2>1 DEF RecordEvent, Match
<1> HIDE DEF e
<1>3. Ordered(records, now)
      /\ \A f \in Fingerprints : Known(f) => \E h : Tracks(h, f, group[f].seen, records, now)
  BY DEF WindowInv
<1>4. group'[fp].seen = Purged(Added(group[fp].seen, now), now)
  BY <1>1 DEF RecordEvent, Matched, Group
<1>5. /\ \A j \in 1..Len(group'[fp].seen) : ~Expired(group'[fp].seen[j], now)
      /\ \E h : Tracks(h, fp, group'[fp].seen, records', now)
  <2>1. CASE Known(fp)
    <3>1. PICK h : Tracks(h, fp, group[fp].seen, records, now)
      BY <1>3, <2>1
    <3> QED
      BY <1>1, <1>2, <1>3, <1>4, <2>1, <3>1, NextTracked
  <2>2. CASE ~Known(fp)
    <3>1. group[fp].seen = <<>>
      BY <2>2 DEF StoreInv, NoGroup
    <3> QED
      BY <1>2, <1>4, <2>2, <3>1, FirstTracked
  <2> QED BY <2>1, <2>2
<1>6. ASSUME NEW f \in Fingerprints, Known(f)', f # fp
      PROVE  \E h : Tracks(h, f, group'[f].seen, records', now)
  <2>1. Known(f) /\ f \notin Evicted(fp)
    BY <1>6, Reordered DEF RecordEvent, Types
  <2>2. group'[f].seen = group[f].seen
    BY <1>6, <2>1 DEF RecordEvent
  <2>3. PICK h : Tracks(h, f, group[f].seen, records, now)
    BY <1>3, <2>1
  <2> QED
    BY <1>2, <1>6, <2>2, <2>3, OthersTracked
<1>7. Ordered(records', now)
  BY <1>2, <1>3, OrderKept
<1> QED
  BY <1>5, <1>6, <1>7

LEMMA WindowStep ==
  Types /\ Types' /\ StoreInv /\ RecentInv /\ WindowInv /\ [Next]_vars => WindowInv'
<1> SUFFICES ASSUME Types, Types', StoreInv, RecentInv, WindowInv, [Next]_vars, ~setBack'
             PROVE  WindowInv'
  BY DEF WindowInv
<1>1. ~setBack /\ now \in Nat /\ now' \in Nat /\ now <= now'
  <2>1. now \in Nat /\ now' \in Nat
    <3>1. now \in Epoch..(Epoch + MaxTime) /\ now' \in Epoch..(Epoch + MaxTime)
      BY DEF Types, TypeOK
    <3> QED
      BY <3>1, Limits
  <2>2. CASE ClockChanges
    <3>1. PICK t \in Epoch..(Epoch + MaxTime) :
            \/ t > now /\ now' = t /\ UNCHANGED setBack
            \/ t < now /\ now' = t /\ ~setBack /\ setBack' = TRUE
      BY <2>2 DEF ClockChanges
    <3>2. t > now /\ now' = t /\ setBack' = setBack
      BY <3>1
    <3> QED
      BY <2>1, <3>2
  <2>3. CASE UNCHANGED clockVars
    BY <2>1, <2>3 DEF clockVars
  <2> QED
    BY <2>2, <2>3 DEF Next, CallAfterShutdown, CallInvalid, CallCapture, CallOverload, Call, Ignore,
      Record, Withhold, Enqueue, EnqueueRefused, MarkAlerted, Report, Close, vars
<1>2. records \in Seq(Match)
  BY DEF RecentInv
<1>3. CASE Record
  <2>1. RecordEvent(Top.fp, Top.unavailable) /\ Top.fp \in Fingerprints
        /\ Top.unavailable \in BOOLEAN /\ now' = now
    BY <1>3, TopFrame DEF Record, At, Frame, clockVars
  <2> QED
    BY <1>1, <1>2, <2>1, RecordWindow DEF WindowInv
<1>4. CASE /\ UNCHANGED <<order, records>>
           /\ \A f \in Fingerprints : group'[f].seen = group[f].seen
  <2>1. Ordered(records, now')
    <3>1. \A i \in DOMAIN records : records[i].at \in Nat
      <4>1. \A i \in DOMAIN records : records[i] \in Match
        BY <1>2
      <4> QED BY <4>1 DEF Match
    <3> QED BY <1>1, <3>1 DEF WindowInv, Ordered
  <2>2. \A f \in Fingerprints : Known(f)' <=> Known(f)
    BY <1>4 DEF Known
  <2>3. ASSUME NEW f \in Fingerprints, Known(f)
        PROVE  \E h : Tracks(h, f, group'[f].seen, records', now')
    <3>1. PICK h : Tracks(h, f, group[f].seen, records, now)
      BY <1>1, <2>3 DEF WindowInv
    <3>2. Tracks(h, f, group[f].seen, records, now')
      BY <1>1, <1>2, <3>1, TimePasses
    <3> QED BY <1>4, <3>2
  <2> QED
    BY <1>4, <2>1, <2>2, <2>3 DEF WindowInv
<1>5. CASE MarkAlerted
  <2>1. \A f \in Fingerprints : group'[f].seen = group[f].seen
    <3>1. Top.fp \in Fingerprints /\ group \in [Fingerprints -> Group]
      BY <1>5, TopFrame DEF MarkAlerted, At, Frame, Types, TypeOK
    <3> QED
      BY <1>5, <3>1 DEF MarkAlerted, Group
  <2> QED
    BY <1>4, <1>5, <2>1 DEF MarkAlerted
<1> QED
  BY <1>3, <1>4, <1>5
  DEF Next, CallAfterShutdown, CallInvalid, CallCapture, CallOverload, Call, Ignore,
      Withhold, Enqueue, EnqueueRefused, Report, Close, ClockChanges, vars,
      storeVars

LEMMA SampleKept ==
  ASSUME NEW history \in Seq(Match), NEW e \in Match, NEW f,
         CreatedBy503(f, history), ~(e.fp = f /\ e.fresh)
  PROVE  CreatedBy503(f, Append(history, e))
<1> DEFINE after == Append(history, e)
           N == Len(history)
<1>1. /\ N \in Nat /\ Len(after) = N + 1 /\ DOMAIN after = 1..N + 1 /\ DOMAIN history = 1..N
      /\ \A i \in 1..N : after[i] = history[i]
      /\ after[N + 1] = e
  BY Joined
<1>2. PICK i \in 1..N :
        /\ history[i].fp = f /\ history[i].fresh /\ history[i].unavailable
        /\ \A k \in i + 1..N : ~(history[k].fp = f /\ history[k].fresh)
  BY <1>1 DEF CreatedBy503
<1> HIDE DEF after, N
<1>3. i + 1..N + 1 = (i + 1..N) \cup {N + 1} /\ i + 1..N \subseteq 1..N /\ i \in 1..N + 1
  BY <1>1
<1>4. \A k \in i + 1..N + 1 : ~(after[k].fp = f /\ after[k].fresh)
  BY <1>1, <1>2, <1>3
<1> QED
  BY <1>1, <1>2, <1>3, <1>4 DEF CreatedBy503, after

LEMMA SampleTaken ==
  ASSUME NEW history \in Seq(Match), NEW e \in Match, e.fresh, e.unavailable
  PROVE  CreatedBy503(e.fp, Append(history, e))
<1> DEFINE after == Append(history, e)
           N == Len(history)
<1>1. N \in Nat /\ Len(after) = N + 1 /\ DOMAIN after = 1..N + 1 /\ after[N + 1] = e
  BY Joined
<1> HIDE DEF after, N
<1>2. N + 1 \in 1..N + 1 /\ N + 1 + 1..N + 1 = {}
  BY <1>1
<1> QED
  BY <1>1, <1>2 DEF CreatedBy503, after

LEMMA RecordSample ==
  ASSUME Types, StoreInv, records \in Seq(Match), SampleInv,
         NEW fp \in Fingerprints, NEW unavailable \in BOOLEAN, RecordEvent(fp, unavailable)
  PROVE  \A f \in Fingerprints :
           Known(f)' /\ group'[f].unavailable => CreatedBy503(f, records')
<1> DEFINE e == [fp |-> fp, at |-> now, fresh |-> ~Known(fp), unavailable |-> unavailable]
<1>1. /\ e \in Match /\ e.fp = fp /\ (e.fresh <=> ~Known(fp)) /\ e.unavailable = unavailable
      /\ records' = Append(records, e)
  <2>1. Known(fp) \in BOOLEAN
    BY DEF Known
  <2>2. now \in Epoch..(Epoch + MaxTime)
    BY DEF Types, TypeOK
  <2>3. now \in Nat
    BY <2>2, Limits
  <2> QED
    BY <2>1, <2>3 DEF RecordEvent, Match
<1> HIDE DEF e
<1> SUFFICES ASSUME NEW f \in Fingerprints, Known(f)', group'[f].unavailable
             PROVE  CreatedBy503(f, records')
  OBVIOUS
<1>2. group \in [Fingerprints -> Group]
  BY DEF Types, TypeOK
<1>3. CASE f = fp
  <2>1. group'[fp].unavailable = IF Known(fp) THEN group[fp].unavailable ELSE unavailable
    BY <1>2 DEF RecordEvent, Matched, Group
  <2>2. CASE Known(fp)
    BY <1>1, <1>3, <2>1, <2>2, SampleKept DEF SampleInv
  <2>3. CASE ~Known(fp)
    BY <1>1, <1>3, <2>1, <2>3, SampleTaken
  <2> QED BY <2>2, <2>3
<1>4. CASE f # fp
  <2>1. Known(f) /\ f \notin Evicted(fp)
    BY <1>4, Reordered DEF RecordEvent, Types
  <2>2. group'[f] = group[f]
    BY <1>4, <2>1 DEF RecordEvent
  <2> QED
    BY <1>1, <1>4, <2>1, <2>2, SampleKept DEF SampleInv
<1> QED
  BY <1>3, <1>4

LEMMA SampleStep ==
  Types /\ StoreInv /\ RecentInv /\ SampleInv /\ [Next]_vars => SampleInv'
<1> SUFFICES ASSUME Types, StoreInv, RecentInv, SampleInv, [Next]_vars
             PROVE  SampleInv'
  OBVIOUS
<1>1. CASE Record
  <2>1. RecordEvent(Top.fp, Top.unavailable) /\ Top.fp \in Fingerprints
        /\ Top.unavailable \in BOOLEAN
    BY <1>1, TopFrame DEF Record, At, Frame
  <2>2. records \in Seq(Match)
    BY DEF RecentInv
  <2> QED
    BY <2>1, <2>2, RecordSample DEF SampleInv
<1>2. CASE /\ UNCHANGED <<order, records>>
           /\ \A f \in Fingerprints : group'[f].unavailable = group[f].unavailable
  <2>1. \A f \in Fingerprints : Known(f)' <=> Known(f)
    BY <1>2 DEF Known
  <2> QED
    BY <1>2, <2>1 DEF SampleInv
<1>3. CASE MarkAlerted
  <2>1. \A f \in Fingerprints : group'[f].unavailable = group[f].unavailable
    <3>1. Top.fp \in Fingerprints /\ group \in [Fingerprints -> Group]
      BY <1>3, TopFrame DEF MarkAlerted, At, Frame, Types, TypeOK
    <3> QED
      BY <1>3, <3>1 DEF MarkAlerted, Group
  <2> QED
    BY <1>2, <1>3, <2>1 DEF MarkAlerted
<1> QED
  BY <1>1, <1>2, <1>3
  DEF Next, CallAfterShutdown, CallInvalid, CallCapture, CallOverload, Call, Ignore,
      Withhold, Enqueue, EnqueueRefused, Report, Close, ClockChanges, vars,
      storeVars

LEMMA InitWindow == Init => WindowInv /\ SampleInv
<1> SUFFICES ASSUME Init PROVE WindowInv /\ SampleInv
  OBVIOUS
<1>1. DOMAIN order = {} /\ DOMAIN records = {}
  <2>1. order = <<>> /\ records = <<>>
    BY DEF Init
  <2> QED
    BY <2>1
<1>2. \A f \in Fingerprints : ~Known(f)
  BY <1>1 DEF Known
<1> QED
  BY <1>1, <1>2 DEF WindowInv, SampleInv, Ordered

LEMMA PolicyInvariant ==
  Spec => [](Types /\ StoreInv /\ RecentInv /\ WindowInv /\ SampleInv)
<1> DEFINE Inv == Types /\ StoreInv /\ RecentInv /\ WindowInv /\ SampleInv
<1>1. Init => Inv
  BY InitTypes, InitRecent, InitWindow
<1>2. Inv /\ [Next]_vars => Inv'
  BY TypeStep, RecentStep, WindowStep, SampleStep
<1> QED
  BY <1>1, <1>2, PTL DEF Spec

\* What the policy reads after record() is what the history holds.
LEMMA WindowCounts ==
  ASSUME Types, StoreInv, RecentInv, WindowInv, ~setBack, Record,
         NEW fp, fp = Top.fp
  PROVE  LET n == Len(group'[fp].seen)
             matches == Matches(fp, records')
         IN  /\ n \in Nat /\ matches \in Nat /\ n <= matches
             /\ n < MaxEvents => matches <= n
<1>1. RecordEvent(fp, Top.unavailable) /\ fp \in Fingerprints
      /\ Top.unavailable \in BOOLEAN
  BY TopFrame DEF Record, At, Frame
<1>2. records \in Seq(Match)
  BY DEF RecentInv
<1>3. now \in Nat
  <2>1. now \in Epoch..(Epoch + MaxTime)
    BY DEF Types, TypeOK
  <2> QED
    BY <2>1, Limits
<1>4. group'[fp].seen \in Seq(Nat) /\ Known(fp)'
  <2>1. group' \in [Fingerprints -> Group]
    BY <1>1, RecordTypes
  <2>2. order' = Append(OrderWithout(fp), fp) /\ TypeOK
    BY <1>1 DEF RecordEvent, Types
  <2>3. Known(fp)'
    BY <1>1, <2>2, Reordered
  <2> QED
    BY <1>1, <2>1, <2>3 DEF Group
<1>5. records' \in Seq(Match)
  <2>1. [fp |-> fp, at |-> now, fresh |-> ~Known(fp), unavailable |-> Top.unavailable] \in Match
    BY <1>1, <1>3 DEF Match, Known
  <2> QED
    BY <1>1, <1>2, <2>1, AppendProperties DEF RecordEvent
<1>6. \A j \in 1..Len(group'[fp].seen) : ~Expired(group'[fp].seen[j], now)
  BY <1>1, <1>2, RecordWindow
<1>7. PICK h : Tracks(h, fp, group'[fp].seen, records', now)
  BY <1>1, <1>2, <1>4, RecordWindow
<1> DEFINE recent == {i \in Since(fp, records') : now - records'[i].at < WindowMs}
<1>8. /\ IsFiniteSet(recent)
      /\ Len(group'[fp].seen) <= Cardinality(recent)
      /\ Len(group'[fp].seen) < MaxEvents => Cardinality(recent) <= Len(group'[fp].seen)
  BY <1>3, <1>4, <1>5, <1>6, <1>7, SeenCounts
<1>9. Matches(fp, records') = Cardinality(recent)
  <2>1. recent = {i \in DOMAIN records' :
                    /\ records'[i].fp = fp
                    /\ now - records'[i].at < WindowMs
                    /\ \A k \in i + 1..Len(records') :
                         ~(records'[k].fp = fp /\ records'[k].fresh)}
    BY DEF Since
  <2> QED
    BY <2>1 DEF Matches
<1> HIDE DEF recent
<1>10. Cardinality(recent) \in Nat /\ Len(group'[fp].seen) \in Nat
  BY <1>4, <1>8, FS_CardinalityType
<1> QED
  BY <1>8, <1>9, <1>10

LEMMA TopThreshold == ASSUME Types, stack # <<>> PROVE Top.threshold \in Nat
<1>1. Thresholds \subseteq Nat
  BY PipelineAssumption DEF PipelineAssumption
<1>2. Top.threshold \in Thresholds \cup {1}
  BY TopFrame DEF Frame
<1> DEFINE threshold == Top.threshold
<1> HIDE DEF threshold
<1>3. threshold \in Thresholds \cup {1}
  BY <1>2 DEF threshold
<1>4. threshold \in Nat
  BY <1>1, <1>3
<1> QED
  BY <1>4 DEF threshold

LEMMA RecordMoves ==
  ASSUME Types, Record
  PROVE  /\ Return => Len(stack') # Len(stack)
         /\ Goto("beforeSend") => Len(stack') = Len(stack)
<1>1. stack # <<>>
  BY DEF Record, At
<1>2. Return => Len(stack') # Len(stack)
  <2>1. Len(stack) \in Nat /\ Len(Tail(stack)) = Len(stack) - 1
    BY <1>1, TopFrame
  <2>2. Len(Tail(stack)) # Len(stack)
    BY <2>1
  <2> QED
    BY <2>2 DEF Return
<1>3. Goto("beforeSend") => Len(stack') = Len(stack)
  BY <1>1, Moved DEF Steps
<1> QED
  BY <1>2, <1>3

\* An error alerts only after as many matches within the window as its
\* threshold asks, twenty at most, or for a group that began with a 503.
THEOREM AlertsEarned == Spec => AlertIsEarned
<1> DEFINE Inv == Types /\ StoreInv /\ RecentInv /\ WindowInv /\ SampleInv
           Earned == \/ Matches(Top.fp, records') >= Top.threshold
                     \/ Matches(Top.fp, records') >= HighCount
                     \/ CreatedBy503(Top.fp, records')
<1>1. Inv /\ [Next]_vars => [BuildsAlert /\ ~setBack /\ Top.kind = "error" => Earned]_vars
  <2> SUFFICES ASSUME Inv, [Next]_vars, BuildsAlert, ~setBack, Top.kind = "error"
               PROVE  Earned
    OBVIOUS
  <2>1. Record /\ stack # <<>> /\ Len(stack') = Len(stack)
    BY DEF BuildsAlert, Record, At
  <2>2. ShouldAlert(group'[Top.fp], Top)
    BY <2>1, RecordMoves DEF Record
  <2>3. \/ Len(group'[Top.fp].seen) >= HighCount
        \/ group'[Top.fp].unavailable
        \/ Len(group'[Top.fp].seen) >= Top.threshold
    BY <2>2 DEF ShouldAlert, Eligible
  <2>4. CASE group'[Top.fp].unavailable
    <3>1. /\ RecordEvent(Top.fp, Top.unavailable) /\ Top.fp \in Fingerprints
          /\ Top.unavailable \in BOOLEAN
      BY <2>1, TopFrame DEF Record, Frame
    <3>2. \A f \in Fingerprints :
            Known(f)' /\ group'[f].unavailable => CreatedBy503(f, records')
      BY <3>1, RecordSample DEF RecentInv
    <3>3. \A f \in Fingerprints : f = Top.fp => Known(f)'
      BY <3>1, Reordered DEF RecordEvent, Types
    <3> QED
      BY <2>4, <3>1, <3>2, <3>3
  <2>5. Top.threshold \in Nat
    BY <2>1, TopThreshold
  <2>6. CASE Len(group'[Top.fp].seen) >= HighCount \/ Len(group'[Top.fp].seen) >= Top.threshold
    BY <2>1, <2>5, <2>6, WindowCounts, Limits
  <2> QED
    BY <2>3, <2>4, <2>6
<1> QED
  BY <1>1, PolicyInvariant, PTL DEF Spec, AlertIsEarned

\* A match is silent only below the threshold, or within the cooldown of an
\* alert that the queue has accepted.
THEOREM AlertsDue == Spec => AlertIsDue
<1> DEFINE Inv == Types /\ StoreInv /\ RecentInv /\ WindowInv /\ CooldownInv
           Due == Record /\ ~nested /\ ~setBack /\ Top.threshold <= MaxEvents
                  /\ Matches(Top.fp, records') >= Top.threshold
                  /\ (lastAlert'[Top.fp] = Never
                        \/ Top.timestamp - lastAlert'[Top.fp] >= CooldownMs)
           Failed == diagnostics'.captureFailures > diagnostics.captureFailures
<1>1. Inv /\ [Next]_vars => [Due => BuildsAlert \/ Failed]_vars
  <2> SUFFICES ASSUME Inv, Due PROVE BuildsAlert \/ Failed
    OBVIOUS
  <2>1. /\ stack # <<>> /\ Top.step = "filter" /\ Top.fp \in Fingerprints
        /\ Top.unavailable \in BOOLEAN /\ Top.threshold \in Nat /\ Top.timestamp \in Nat
        /\ RecordEvent(Top.fp, Top.unavailable)
    <3>1. stack # <<>> /\ Top.step = "filter" /\ RecordEvent(Top.fp, Top.unavailable)
      BY DEF Record, At
    <3>2. Top \in Frame /\ Top.threshold \in Nat
      BY <3>1, TopFrame, TopThreshold
    <3> QED
      BY <3>1, <3>2 DEF Frame
  <2>2. Len(group'[Top.fp].seen) >= Top.threshold
    BY <2>1, WindowCounts, Limits
  <2>3. group'[Top.fp].alertedAt = lastAlert'[Top.fp]
    <3>1. group'[Top.fp].alertedAt = group[Top.fp].alertedAt
      BY <2>1, RecordTypes
    <3>2. CASE Known(Top.fp)
      <4>1. lastAlert' = lastAlert
        BY <2>1, <3>2 DEF RecordEvent
      <4>2. group[Top.fp].alertedAt = lastAlert[Top.fp]
        BY <2>1, <3>2 DEF CooldownInv, Marking
      <4> QED BY <3>1, <4>1, <4>2
    <3>3. CASE ~Known(Top.fp)
      <4>1. group[Top.fp].alertedAt = Never
        BY <2>1, <3>3 DEF StoreInv, NoGroup
      <4>2. lastAlert'[Top.fp] = Never
        BY <2>1, <3>3 DEF RecordEvent, Types, TypeOK
      <4> QED BY <3>1, <4>1, <4>2
    <3> QED BY <3>2, <3>3
  <2>4. ShouldAlert(group'[Top.fp], Top)
    <3>1. ~HasCooldown(group'[Top.fp], Top.timestamp)
      <4>1. lastAlert'[Top.fp] \in Nat
        BY <2>1, RecordTypes
      <4> QED BY <2>1, <2>3, <4>1, Limits DEF HasCooldown
    <3> QED
      BY <2>2, <3>1 DEF ShouldAlert, Eligible
  <2>5. Goto("beforeSend") \/ Count("captureFailures")
    BY <2>4 DEF Record
  <2>6. CASE Goto("beforeSend")
    BY <2>6, RecordMoves DEF BuildsAlert
  <2>7. CASE Count("captureFailures")
    <3>1. diagnostics \in [Counters -> Nat] /\ "captureFailures" \in Counters
      BY DEF Types, Counters
    <3>2. diagnostics'["captureFailures"] = diagnostics["captureFailures"] + 1
      BY <2>7, <3>1 DEF Count
    <3>3. diagnostics["captureFailures"] \in Nat
      BY <3>1
    <3> QED
      BY <3>2, <3>3
  <2> QED
    BY <2>5, <2>6, <2>7
<1> QED
  BY <1>1, PolicyInvariant, CooldownInvariant, PTL DEF Spec, AlertIsDue
=============================================================================
