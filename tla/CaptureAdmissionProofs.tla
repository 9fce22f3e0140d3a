----------------------- MODULE CaptureAdmissionProofs -----------------------
(***************************************************************************)
(* The token bucket for every rate and burst, and the ring of one group    *)
(* beside it for every size and window: what the bucket admits, what the   *)
(* ring holds, and how the one bounds the other.                           *)
(***************************************************************************)
EXTENDS AdmittedWindow, SequenceFacts, FiniteSetTheorems, TLAPS

LEMMA Distributes ==
  ASSUME NEW a \in Int, NEW b \in Int
  PROVE  (a + b) * MaxEventsPerSecond
           = a * MaxEventsPerSecond + b * MaxEventsPerSecond
BY AdmissionAssumption

LEMMA TimesType ==
  ASSUME NEW a \in Nat
  PROVE  a * MaxEventsPerSecond \in Nat
BY AdmissionAssumption

\* The type invariant of the bucket: it never holds more than the burst and
\* never owes a token.
LEMMA RefilledType ==
  ASSUME TypeOK
  PROVE  /\ Elapsed \in Nat /\ Refilled \in 0..Full /\ Full \in Nat
         /\ Refilled <= tokens + Elapsed * MaxEventsPerSecond
<1>1. Full \in Nat
  BY AdmissionAssumption DEF Full, Token
<1>2. Elapsed \in Nat
  BY AdmissionAssumption DEF Elapsed, TypeOK
<1>3. Elapsed * MaxEventsPerSecond \in Nat
  BY <1>2, TimesType
<1> QED BY <1>1, <1>2, <1>3 DEF Refilled, TypeOK

THEOREM TypeCorrect == Spec => []TypeOK
<1>1. Init => TypeOK
  <2> SUFFICES ASSUME Init PROVE TypeOK
    OBVIOUS
  <2>1. Full \in Nat
    BY AdmissionAssumption DEF Full, Token
  <2>2. granted \in Seq(0..MaxTime) /\ Len(granted) <= MaxGranted
    BY AdmissionAssumption DEF Init
  <2>3. setBack \in BOOLEAN
    BY DEF Init
  <2>4. tokens \in 0..Full /\ lastRefill \in 0..MaxTime /\ now \in 0..MaxTime
        /\ forward \in Nat
    BY <2>1 DEF Init
  <2> QED BY <2>2, <2>3, <2>4 DEF TypeOK
<1>2. TypeOK /\ [Next]_vars => TypeOK'
  <2> SUFFICES ASSUME TypeOK, [Next]_vars PROVE TypeOK'
    OBVIOUS
  <2>1. CASE Acquire
    <3>1. tokens' \in 0..Full
      BY <2>1, RefilledType DEF Acquire, Token
    <3>2. granted' \in Seq(0..MaxTime) /\ Len(granted') <= MaxGranted
      BY <2>1, AdmissionAssumption DEF Acquire, TypeOK
    <3> QED BY <2>1, <3>1, <3>2 DEF Acquire, TypeOK
  <2>2. CASE Refuse
    BY <2>2, RefilledType DEF Refuse, TypeOK
  <2>3. CASE ClockForward
    BY <2>3, AdmissionAssumption DEF ClockForward, bucketVars, TypeOK
  <2>4. CASE ClockSetBack
    BY <2>4 DEF ClockSetBack, bucketVars, TypeOK
  <2>5. CASE UNCHANGED vars
    BY <2>5 DEF vars, bucketVars, TypeOK
  <2> QED BY <2>1, <2>2, <2>3, <2>4, <2>5 DEF Next
<1> QED BY <1>1, <1>2, PTL DEF Spec

-----------------------------------------------------------------------------

\* The credit of the bucket: its tokens, the captures they have paid for, and
\* what the next refill will add, are covered by the burst and by the forward
\* moves of the clock.  TotalBound alone is not inductive: it forgets that
\* tokens not yet spent were paid for once.
Credit ==
  tokens + Len(granted) * Token + Elapsed * MaxEventsPerSecond
    <= Full + forward * MaxEventsPerSecond

\* Every term of Credit is a natural number.
LEMMA CreditTerms ==
  ASSUME TypeOK
  PROVE  /\ tokens \in Nat /\ Len(granted) \in Nat /\ forward \in Nat
         /\ Full \in Nat /\ Elapsed \in Nat
         /\ forward * MaxEventsPerSecond \in Nat
         /\ Elapsed * MaxEventsPerSecond \in Nat
<1>1. tokens \in Nat /\ Len(granted) \in Nat /\ forward \in Nat
  BY RefilledType DEF TypeOK
<1>2. Full \in Nat /\ Elapsed \in Nat
  BY RefilledType
<1>3. forward * MaxEventsPerSecond \in Nat
  BY <1>1, TimesType
<1>4. Elapsed * MaxEventsPerSecond \in Nat
  BY <1>2, TimesType
<1> QED BY <1>1, <1>2, <1>3, <1>4

LEMMA CreditAcquire ==
  ASSUME TypeOK, Credit, Acquire \/ Refuse
  PROVE  Credit'
<1>1. /\ now' = now /\ lastRefill' = now /\ UNCHANGED forward
      /\ \/ tokens' = Refilled - 1000 /\ Len(granted') = Len(granted) + 1
         \/ tokens' = Refilled /\ Len(granted') = Len(granted)
  BY DEF Acquire, Refuse, Token, TypeOK
<1>2. Elapsed' * MaxEventsPerSecond = 0
  <2>1. Elapsed' = 0
    BY <1>1 DEF Elapsed, TypeOK
  <2> QED BY <2>1, AdmissionAssumption
<1>3. Refilled \in Int /\ Refilled <= tokens + Elapsed * MaxEventsPerSecond
  BY RefilledType
<1>4. tokens + Len(granted) * 1000 + Elapsed * MaxEventsPerSecond
        <= Full + forward * MaxEventsPerSecond
  BY DEF Credit, Token
<1>5. tokens' + Len(granted') * 1000 + 0 <= Full + forward * MaxEventsPerSecond
  <2>1. tokens' + Len(granted') * 1000 = Refilled + Len(granted) * 1000
    BY <1>1, <1>3, CreditTerms
  <2> QED BY <2>1, <1>1, <1>3, <1>4, CreditTerms
<1>6. Full' = Full
  BY DEF Full, Token
<1> QED BY <1>1, <1>2, <1>5, <1>6 DEF Credit, Token

LEMMA CreditClock ==
  ASSUME TypeOK, Credit, ClockForward \/ ClockSetBack
  PROVE  Credit'
<1>0. /\ now \in Nat /\ now' \in Nat /\ lastRefill \in Nat /\ lastRefill' = lastRefill
      /\ forward \in Nat /\ tokens' = tokens /\ granted' = granted
  BY AdmissionAssumption DEF ClockForward, ClockSetBack, bucketVars, TypeOK
<1>e. \/ now' > lastRefill /\ Elapsed' = now' - lastRefill
      \/ ~(now' > lastRefill) /\ Elapsed' = 0
  <2>1. CASE now' > lastRefill
    BY <2>1, <1>0 DEF Elapsed
  <2>2. CASE ~(now' > lastRefill)
    BY <2>2, <1>0 DEF Elapsed
  <2> QED BY <2>1, <2>2
<1>f. \/ now > lastRefill /\ Elapsed = now - lastRefill
      \/ ~(now > lastRefill) /\ Elapsed = 0
  BY DEF Elapsed
<1>1. PICK gain \in Nat : forward' = forward + gain /\ Elapsed' <= Elapsed + gain
  <2>1. CASE ClockForward
    <3>1. now' - now \in Nat /\ forward' = forward + (now' - now)
      BY <2>1, <1>0 DEF ClockForward
    <3>2. Elapsed' <= Elapsed + (now' - now)
      <4>1. now \in Int /\ now' \in Int /\ lastRefill \in Int
        BY <1>0
      <4>2. now' >= now
        BY <2>1, <1>0 DEF ClockForward
      <4>3. CASE now' > lastRefill /\ now > lastRefill
        BY <4>1, <4>2, <4>3, <1>e, <1>f
      <4>4. CASE now' > lastRefill /\ ~(now > lastRefill)
        BY <4>1, <4>2, <4>4, <1>e, <1>f
      <4>5. CASE ~(now' > lastRefill)
        BY <4>1, <4>2, <4>5, <1>e, <1>f
      <4> QED BY <4>3, <4>4, <4>5
    <3> QED BY <3>1, <3>2
  <2>2. CASE ClockSetBack
    <3>1. now' < now /\ forward' = forward + 0
      BY <2>2, <1>0 DEF ClockSetBack
    <3>2. Elapsed' <= Elapsed + 0
      BY <3>1, <1>0, <1>e, <1>f
    <3> QED BY <3>1, <3>2
  <2> QED BY <2>1, <2>2
<1>2. tokens' = tokens /\ granted' = granted /\ Elapsed' \in Nat
  BY <1>0, <1>e
<1>3. forward' * MaxEventsPerSecond
        = forward * MaxEventsPerSecond + gain * MaxEventsPerSecond
  BY <1>1, CreditTerms, Distributes
<1>4. Elapsed' * MaxEventsPerSecond
        <= Elapsed * MaxEventsPerSecond + gain * MaxEventsPerSecond
  <2>1. Elapsed + gain - Elapsed' \in Nat
    BY <1>1, <1>2, CreditTerms
  <2> DEFINE d == Elapsed + gain - Elapsed'
  <2>2. d \in Nat /\ Elapsed + gain = Elapsed' + d
    BY <1>2, <2>1, CreditTerms
  <2> HIDE DEF d
  <2>3. (Elapsed' + d) * MaxEventsPerSecond
          = Elapsed' * MaxEventsPerSecond + d * MaxEventsPerSecond
    BY <1>2, <2>2, Distributes
  <2>4. (Elapsed + gain) * MaxEventsPerSecond
          = Elapsed * MaxEventsPerSecond + gain * MaxEventsPerSecond
    BY CreditTerms, Distributes
  <2>5. d * MaxEventsPerSecond \in Nat
    BY <2>2, TimesType
  <2>6. Elapsed' * MaxEventsPerSecond \in Nat
    BY <1>2, TimesType
  <2> QED BY <2>2, <2>3, <2>4, <2>5, <2>6
<1>5. gain * MaxEventsPerSecond \in Nat /\ Elapsed' * MaxEventsPerSecond \in Nat
  BY <1>2, TimesType
<1>6. /\ tokens + Len(granted) * 1000 + Elapsed * MaxEventsPerSecond
           <= Full + forward * MaxEventsPerSecond
      /\ Full' = Full
  BY DEF Credit, Full, Token
<1>7. tokens' + Len(granted') * 1000 + Elapsed' * MaxEventsPerSecond
        <= Full + forward' * MaxEventsPerSecond
  BY <1>2, <1>3, <1>4, <1>5, <1>6, CreditTerms
<1> QED BY <1>6, <1>7 DEF Credit, Token

\* The bucket never admits more than the burst and what the forward moves of
\* the wall clock pay for, for every rate and burst.
THEOREM BoundHolds == Spec => []TotalBound
<1>1. Init => Credit
  <2> SUFFICES ASSUME Init PROVE Credit
    OBVIOUS
  <2>1. Elapsed = 0 /\ forward = 0 /\ Len(granted) = 0 /\ tokens = Full /\ Full \in Nat
    BY AdmissionAssumption DEF Init, Elapsed, Full, Token
  <2>2. 0 * MaxEventsPerSecond = 0 /\ 0 * Token = 0
    BY AdmissionAssumption DEF Token
  <2> QED BY <2>1, <2>2 DEF Credit
<1>2. TypeOK /\ Credit /\ [Next]_vars => Credit'
  <2> SUFFICES ASSUME TypeOK, Credit, [Next]_vars PROVE Credit'
    OBVIOUS
  <2>1. CASE UNCHANGED vars
    BY <2>1 DEF vars, bucketVars, Credit, Elapsed, Full, Token
  <2> QED BY <2>1, CreditAcquire, CreditClock DEF Next
<1>3. TypeOK /\ Credit => TotalBound
  <2> SUFFICES ASSUME TypeOK, Credit PROVE TotalBound
    OBVIOUS
  <2> QED BY CreditTerms DEF Credit, TotalBound, Token
<1> QED BY <1>1, <1>2, <1>3, TypeCorrect, PTL DEF Spec

-----------------------------------------------------------------------------
(* The bucket and the ring together: a step of the composition is one of   *)
(* the bucket or leaves it alone.                                          *)

LEMMA BucketStep == [CapturesNext]_allVars => [Next]_vars
<1> SUFFICES ASSUME [CapturesNext]_allVars PROVE [Next]_vars
  OBVIOUS
<1>1. CASE Admit \/ Turn \/ Clock
  BY <1>1 DEF Admit, Turn, Clock, Next
<1>2. CASE Monitor \/ AddMatch \/ MatchElsewhere \/ Snapshot \/ UNCHANGED allVars
  BY <1>2 DEF Monitor, AddMatch, MatchElsewhere, Snapshot, allVars, vars, Ring!Add, Ring!Read
<1> QED
  BY <1>1, <1>2 DEF CapturesNext

LEMMA BucketBehaves == CapturesSpec => Spec
<1>1. CapturesInit => Init
  BY DEF CapturesInit
<1> QED
  BY <1>1, BucketStep, PTL DEF CapturesSpec, Spec

\* The budget holds whatever the captures do between token and match.
THEOREM BudgetHolds == CapturesSpec => []TotalBound
BY BucketBehaves, BoundHolds

-----------------------------------------------------------------------------
(* The ring.                                                               *)

LEMMA SlotIs ==
  ASSUME NEW h \in Ring!Slots, NEW i \in 0..MaxEvents
  PROVE  /\ Ring!Slot(h, i) = IF h + i < MaxEvents THEN h + i ELSE h + i - MaxEvents
         /\ Ring!Slot(h, i) \in Ring!Slots
<1>1. MaxEvents \in Nat \ {0} /\ h \in 0..MaxEvents - 1
  BY RingAssumption DEF Ring!Slots
<1>2. (h + i) % MaxEvents = IF h + i < MaxEvents THEN h + i ELSE h + i - MaxEvents
  BY <1>1
<1> QED
  BY <1>1, <1>2 DEF Ring!Slot, Ring!Slots

\* Moving on twice is moving on once; the used slots are different ones.
LEMMA SlotSteps ==
  ASSUME NEW h \in Ring!Slots, NEW i \in 0..MaxEvents, NEW k \in 0..MaxEvents - i
  PROVE  Ring!Slot(Ring!Slot(h, i), k) = Ring!Slot(h, i + k)
<1>1. MaxEvents \in Nat \ {0} /\ h \in 0..MaxEvents - 1 /\ i \in Nat /\ k \in Nat
      /\ i + k \in 0..MaxEvents /\ k \in 0..MaxEvents
  BY RingAssumption DEF Ring!Slots
<1> DEFINE f == Ring!Slot(h, i)
<1>2. f \in Ring!Slots /\ f = IF h + i < MaxEvents THEN h + i ELSE h + i - MaxEvents
  BY SlotIs
<1> HIDE DEF f
<1>3. Ring!Slot(f, k) = IF f + k < MaxEvents THEN f + k ELSE f + k - MaxEvents
  BY <1>1, <1>2, SlotIs
<1>4. Ring!Slot(h, i + k) = IF h + (i + k) < MaxEvents THEN h + (i + k) ELSE h + (i + k) - MaxEvents
  BY <1>1, SlotIs
<1>5. f \in Nat
  BY <1>1, <1>2
<1>6. Ring!Slot(f, k) = Ring!Slot(h, i + k)
  <2>1. CASE h + i < MaxEvents
    BY <1>1, <1>2, <1>3, <1>4, <2>1
  <2>2. CASE ~(h + i < MaxEvents)
    <3>1. f = h + i - MaxEvents /\ f + k < MaxEvents
      BY <1>1, <1>2, <2>2
    <3>2. ~(h + (i + k) < MaxEvents)
      BY <1>1, <2>2
    <3> QED BY <1>1, <1>3, <1>4, <3>1, <3>2
  <2> QED BY <2>1, <2>2
<1> QED
  BY <1>6 DEF f

LEMMA SlotsDiffer ==
  ASSUME NEW h \in Ring!Slots, NEW i \in 0..MaxEvents - 1, NEW k \in 0..MaxEvents - 1, i # k
  PROVE  Ring!Slot(h, i) # Ring!Slot(h, k)
<1>1. MaxEvents \in Nat \ {0} /\ h \in 0..MaxEvents - 1
      /\ i \in 0..MaxEvents /\ k \in 0..MaxEvents
  BY RingAssumption DEF Ring!Slots
<1>2. /\ Ring!Slot(h, i) = IF h + i < MaxEvents THEN h + i ELSE h + i - MaxEvents
      /\ Ring!Slot(h, k) = IF h + k < MaxEvents THEN h + k ELSE h + k - MaxEvents
  BY <1>1, SlotIs
<1> QED
  BY <1>1, <1>2

\* No used slot is undefined: purge() and timestamps() never meet a gap.
RingTypes ==
  /\ buffer \in [Ring!Slots -> (0..MaxTime) \cup {Ring!Undefined}]
  /\ head \in Ring!Slots /\ length \in 0..MaxEvents
  /\ \A i \in 0..length - 1 : buffer[Ring!Slot(head, i)] \in 0..MaxTime
  /\ now \in 0..MaxTime
  /\ added \in Seq(0..MaxTime)
  /\ capture \in {"none", "admitted", "exempt"}
  /\ paid \subseteq 1..Len(added)

\* The loop of purge() frees exactly the oldest events that have expired.
LEMMA FreedIs ==
  ASSUME RingTypes
  PROVE  /\ Ring!Freed \in 0..length
         /\ \A i \in 0..Ring!Freed - 1 : ~Ring!Stops(Ring!Slot(head, i))
         /\ Ring!Freed = length \/ Ring!Stops(Ring!Slot(head, Ring!Freed))
<1> DEFINE T == {i \in 0..length - 1 : Ring!Stops(Ring!Slot(head, i))}
           P(k) == /\ \A i \in 0..(k - 1) : ~Ring!Stops(Ring!Slot(head, i))
                   /\ k = length \/ Ring!Stops(Ring!Slot(head, k))
<1>1. length \in Nat
  BY RingAssumption DEF RingTypes
<1>2. \E k \in 0..length : P(k)
  <2>1. CASE T = {}
    <3>1. P(length)
      BY <2>1
    <3> QED BY <1>1, <3>1
  <2>2. CASE T # {}
    <3>1. T \in SUBSET Nat
      BY <1>1
    <3>2. PICK m \in T : \A k \in T : m <= k
      BY <2>2, <3>1, LeastOf
    <3>3. m \in 0..length - 1 /\ Ring!Stops(Ring!Slot(head, m))
      BY <3>2
    <3>4. \A i \in 0..(m - 1) : ~Ring!Stops(Ring!Slot(head, i))
      <4> TAKE i \in 0..(m - 1)
      <4>1. i \in 0..length - 1 /\ ~(m <= i)
        BY <1>1, <3>3
      <4> QED BY <3>2, <4>1
    <3> QED BY <1>1, <3>3, <3>4
  <2> QED BY <2>1, <2>2
<1>3. Ring!Freed = CHOOSE k \in 0..length : P(k)
  BY DEF Ring!Freed
<1> HIDE DEF P
<1>4. Ring!Freed \in 0..length /\ P(Ring!Freed)
  BY <1>2, <1>3
<1> QED
  BY <1>4 DEF P

Events == Ring!Contents

LEMMA EventsAre ==
  ASSUME RingTypes
  PROVE  /\ Events \in Seq(0..MaxTime) /\ Len(Events) = length
         /\ \A i \in 0..length - 1 : Events[i + 1] = buffer[Ring!Slot(head, i)]
<1>1. length \in Nat
  BY RingAssumption DEF RingTypes
<1>2. Events = [j \in 1..length |-> buffer[Ring!Slot(head, j - 1)]]
  BY DEF Events, Ring!Contents
<1>3. \A j \in 1..length : buffer[Ring!Slot(head, j - 1)] \in 0..MaxTime
  <2> TAKE j \in 1..length
  <2>1. j - 1 \in 0..length - 1
    BY <1>1
  <2> QED BY <2>1 DEF RingTypes
<1>4. \A i \in 0..length - 1 : i + 1 \in 1..length /\ (i + 1) - 1 = i
  BY <1>1
<1> QED
  BY <1>1, <1>2, <1>3, <1>4

LEMMA StopsAtFresh ==
  ASSUME RingTypes, NEW i \in 0..length - 1
  PROVE  Ring!Stops(Ring!Slot(head, i)) <=> now - Events[i + 1] < WindowMs
<1>1. Events[i + 1] = buffer[Ring!Slot(head, i)] /\ Events[i + 1] \in 0..MaxTime
  BY EventsAre DEF RingTypes
<1>2. now \in Int /\ Events[i + 1] \in Int /\ Events[i + 1] # -1 /\ WindowMs \in Int
  BY <1>1, RingAssumption, AdmissionAssumption DEF RingTypes
<1> QED
  BY <1>1, <1>2 DEF Ring!Stops, Ring!Undefined, Ring!Expired

\* The freed events are an expired prefix, and the next one is not expired.
LEMMA FreedEvents ==
  ASSUME RingTypes
  PROVE  /\ Ring!Freed \in 0..length /\ length \in 0..MaxEvents
         /\ \A j \in 1..Ring!Freed : now - Events[j] >= WindowMs
         /\ Ring!Freed < length => now - Events[Ring!Freed + 1] < WindowMs
<1> DEFINE k == Ring!Freed
<1>1. /\ k \in 0..length /\ \A i \in 0..k - 1 : ~Ring!Stops(Ring!Slot(head, i))
      /\ k = length \/ Ring!Stops(Ring!Slot(head, k))
  BY FreedIs
<1> HIDE DEF k
<1>2. length \in 0..MaxEvents /\ MaxEvents \in Nat /\ WindowMs \in Nat /\ now \in Nat
  BY RingAssumption, AdmissionAssumption DEF RingTypes
<1>3. \A j \in 1..k : now - Events[j] >= WindowMs
  <2> TAKE j \in 1..k
  <2>1. j - 1 \in 0..length - 1 /\ j - 1 \in 0..k - 1 /\ (j - 1) + 1 = j
    BY <1>1, <1>2
  <2>2. ~(now - Events[j] < WindowMs)
    BY <1>1, <2>1, StopsAtFresh
  <2>3. Events[j] \in 0..MaxTime
    <3>1. j \in 1..Len(Events)
      BY <1>1, <1>2, EventsAre
    <3>2. Events \in Seq(0..MaxTime)
      BY EventsAre
    <3> QED BY <3>1, <3>2, ElementOfSeq
  <2> QED BY <1>2, <2>2, <2>3, AdmissionAssumption
<1>4. k < length => now - Events[k + 1] < WindowMs
  <2> HAVE k < length
  <2>1. k \in 0..length - 1
    BY <1>1, <1>2
  <2> QED BY <1>1, <1>2, <2>1, StopsAtFresh
<1> QED
  BY <1>1, <1>2, <1>3, <1>4 DEF k

\* What purge() leaves in the ring.
LEMMA AfterPurge ==
  ASSUME RingTypes
  PROVE  LET first == Ring!Slot(head, Ring!Freed)
             cleared == Ring!Cleared(Ring!FreedSlots)
         IN  /\ first \in Ring!Slots
             /\ cleared \in [Ring!Slots -> (0..MaxTime) \cup {Ring!Undefined}]
             /\ \A i \in 0..length - Ring!Freed - 1 :
                  /\ Ring!Slot(first, i) \in Ring!Slots
                  /\ cleared[Ring!Slot(first, i)] = Events[Ring!Freed + i + 1]
                  /\ Events[Ring!Freed + i + 1] \in 0..MaxTime
<1> DEFINE k == Ring!Freed
           first == Ring!Slot(head, k)
           cleared == Ring!Cleared(Ring!FreedSlots)
<1>1. k \in 0..length /\ length \in 0..MaxEvents /\ MaxEvents \in Nat
  BY FreedEvents, RingAssumption
<1>2. Ring!FreedSlots = {Ring!Slot(head, i) : i \in 0..(k - 1)}
  BY DEF Ring!FreedSlots
<1>h. head \in Ring!Slots
  BY DEF RingTypes
<1> HIDE DEF k
<1>3. first \in Ring!Slots
  BY <1>1, <1>h, SlotIs
<1>4. cleared = [s \in Ring!Slots |-> IF s \in Ring!FreedSlots THEN Ring!Undefined ELSE buffer[s]]
  BY DEF Ring!Cleared
<1>5. cleared \in [Ring!Slots -> (0..MaxTime) \cup {Ring!Undefined}]
  BY <1>4 DEF RingTypes
<1>6. ASSUME NEW i \in 0..length - k - 1
      PROVE  /\ Ring!Slot(first, i) \in Ring!Slots
             /\ cleared[Ring!Slot(first, i)] = Events[k + i + 1]
             /\ Events[k + i + 1] \in 0..MaxTime
  <2>1. /\ k \in 0..MaxEvents /\ i \in 0..MaxEvents - k /\ k + i \in 0..length - 1
        /\ k + i \in 0..MaxEvents - 1 /\ k + i \in 0..MaxEvents /\ i \in 0..MaxEvents
    BY <1>1
  <2>2. Ring!Slot(first, i) = Ring!Slot(head, k + i) /\ Ring!Slot(first, i) \in Ring!Slots
    BY <1>h, <2>1, SlotSteps, SlotIs
  <2>3. Ring!Slot(head, k + i) \notin Ring!FreedSlots
    <3>1. ASSUME NEW n \in 0..(k - 1) PROVE Ring!Slot(head, k + i) # Ring!Slot(head, n)
      <4>1. n \in 0..MaxEvents - 1 /\ n # k + i
        BY <1>1, <2>1
      <4> QED BY <1>h, <2>1, <4>1, SlotsDiffer
    <3> QED BY <1>2, <3>1
  <2>4. Events[(k + i) + 1] = buffer[Ring!Slot(head, k + i)] /\ Events[(k + i) + 1] \in 0..MaxTime
    <3>1. buffer[Ring!Slot(head, k + i)] \in 0..MaxTime
      BY <2>1 DEF RingTypes
    <3> QED BY <3>1, <2>1, EventsAre
  <2> HIDE DEF first, cleared
  <2> QED
    BY <2>2, <2>3, <2>4, <1>4
<1> QED
  BY <1>3, <1>5, <1>6 DEF k

\* What Purged() leaves of any sequence of events.
LEMMA PurgedIs ==
  ASSUME NEW S, NEW events \in Seq(S), NEW time
  PROVE  \E a \in 1..Len(events) + 1 :
           /\ Ring!Log!Purged(events, time) \in Seq(S)
           /\ Len(Ring!Log!Purged(events, time)) = Len(events) - a + 1
           /\ \A j \in 1..Len(events) - a + 1 :
                Ring!Log!Purged(events, time)[j] = events[a + j - 1]
           /\ \A j \in 1..a - 1 : Ring!Log!Expired(events[j], time)
           /\ a <= Len(events) => ~Ring!Log!Expired(events[a], time)
<1> DEFINE kept == {i \in 1..Len(events) : ~Ring!Log!Expired(events[i], time)}
           purged == Ring!Log!Purged(events, time)
<1>0. Len(events) \in Nat
  OBVIOUS
<1>1. CASE kept = {}
  <2>1. purged = <<>>
    BY <1>1 DEF Ring!Log!Purged
  <2>2. \A j \in 1..Len(events) : Ring!Log!Expired(events[j], time)
    BY <1>1
  <2> QED
    BY <1>0, <2>1, <2>2
<1>2. CASE kept # {}
  <2> DEFINE a == CHOOSE i \in kept : \A k \in kept : i <= k
  <2>1. kept \in SUBSET Nat
    OBVIOUS
  <2>2. a \in kept /\ \A k \in kept : a <= k
    <3> HIDE DEF kept
    <3> QED BY <1>2, <2>1, LeastOf
  <2>3. purged = SubSeq(events, a, Len(events))
    BY <1>2 DEF Ring!Log!Purged
  <2> HIDE DEF a
  <2>4. a \in 1..Len(events) /\ ~Ring!Log!Expired(events[a], time)
    BY <2>2
  <2>5. \A j \in 1..a - 1 : Ring!Log!Expired(events[j], time)
    BY <1>0, <2>2, <2>4
  <2>6. /\ SubSeq(events, a, Len(events)) \in Seq(S)
        /\ Len(SubSeq(events, a, Len(events))) = Len(events) - a + 1
        /\ \A j \in 1..Len(events) - a + 1 :
             SubSeq(events, a, Len(events))[j] = events[a + j - 1]
    BY <1>0, <2>4, SubSeqProperties
  <2>7. a \in 1..Len(events) + 1 /\ a <= Len(events)
    BY <1>0, <2>4
  <2> QED
    BY <2>3, <2>4, <2>5, <2>6, <2>7
<1> QED
  BY <1>1, <1>2

\* The log loses the same events.
LEMMA PurgedRing ==
  ASSUME RingTypes
  PROVE  LET purged == Ring!Log!Purged(Events, now)
         IN  /\ purged \in Seq(0..MaxTime) /\ Len(purged) = length - Ring!Freed
             /\ \A i \in 0..length - Ring!Freed - 1 : purged[i + 1] = Events[Ring!Freed + i + 1]
<1> DEFINE purged == Ring!Log!Purged(Events, now)
           k == Ring!Freed
<1>1. Events \in Seq(0..MaxTime) /\ Len(Events) = length /\ length \in Nat
  BY EventsAre, RingAssumption DEF RingTypes
<1>2. /\ k \in 0..length /\ \A j \in 1..k : now - Events[j] >= WindowMs
      /\ k < length => now - Events[k + 1] < WindowMs
  BY FreedEvents
<1>3. PICK a \in 1..length + 1 :
        /\ purged \in Seq(0..MaxTime) /\ Len(purged) = length - a + 1
        /\ \A j \in 1..length - a + 1 : purged[j] = Events[a + j - 1]
        /\ \A j \in 1..a - 1 : Ring!Log!Expired(Events[j], now)
        /\ a <= length => ~Ring!Log!Expired(Events[a], now)
  BY <1>1, PurgedIs
<1> HIDE DEF k, purged
<1>4. \A j \in 1..length : Events[j] \in Int /\ now \in Int /\ WindowMs \in Int
  BY <1>1, RingAssumption, AdmissionAssumption DEF RingTypes
<1>5. a = k + 1
  <2>1. ~(a <= k)
    <3>1. ASSUME a <= k PROVE FALSE
      <4>1. a \in 1..k /\ a <= length /\ a \in 1..length
        BY <3>1, <1>1, <1>2, <1>3
      <4> QED BY <4>1, <1>2, <1>3, <1>4 DEF Ring!Log!Expired
    <3> QED BY <3>1
  <2>2. ~(a > k + 1)
    <3>1. ASSUME a > k + 1 PROVE FALSE
      <4>1. k + 1 \in 1..a - 1 /\ k < length /\ k + 1 \in 1..length
        BY <3>1, <1>1, <1>2, <1>3
      <4> QED BY <4>1, <1>2, <1>3, <1>4 DEF Ring!Log!Expired
    <3> QED BY <3>1
  <2> QED BY <2>1, <2>2, <1>1, <1>2, <1>3
<1>6. \A i \in 0..length - k - 1 : purged[i + 1] = Events[k + i + 1]
  <2> TAKE i \in 0..length - k - 1
  <2>1. i + 1 \in 1..length - a + 1 /\ a + (i + 1) - 1 = k + i + 1
    BY <1>1, <1>2, <1>5
  <2> QED BY <1>3, <2>1
<1>7. Len(purged) = length - k
  BY <1>1, <1>2, <1>3, <1>5
<1> QED
  BY <1>3, <1>6, <1>7 DEF k, purged

LEMMA Positions ==
  ASSUME NEW n \in Nat
  PROVE  \A j \in 1..n : j - 1 \in 0..n - 1 /\ (j - 1) + 1 = j
OBVIOUS

LEMMA ReadStep ==
  ASSUME RingTypes, Ring!Read
  PROVE  /\ buffer' \in [Ring!Slots -> (0..MaxTime) \cup {Ring!Undefined}]
         /\ head' \in Ring!Slots /\ length' \in 0..MaxEvents
         /\ \A i \in 0..length' - 1 : buffer'[Ring!Slot(head', i)] \in 0..MaxTime
         /\ Events' = Ring!Log!Purged(Events, now)
<1> DEFINE k == Ring!Freed
           purged == Ring!Log!Purged(Events, now)
<1>1. /\ buffer' = Ring!Cleared(Ring!FreedSlots) /\ head' = Ring!Slot(head, k)
      /\ length' = length - k
  BY DEF Ring!Read
<1>2. k \in 0..length /\ length \in 0..MaxEvents /\ MaxEvents \in Nat
  BY FreedEvents, RingAssumption
<1>3. /\ head' \in Ring!Slots
      /\ buffer' \in [Ring!Slots -> (0..MaxTime) \cup {Ring!Undefined}]
      /\ \A i \in 0..length' - 1 : /\ buffer'[Ring!Slot(head', i)] = Events[k + i + 1]
                                   /\ Events[k + i + 1] \in 0..MaxTime
  BY <1>1, AfterPurge
<1>4. length' \in 0..MaxEvents
  BY <1>1, <1>2
<1>5. /\ purged \in Seq(0..MaxTime) /\ Len(purged) = length'
      /\ \A i \in 0..length' - 1 : purged[i + 1] = Events[k + i + 1]
  BY <1>1, PurgedRing
<1>6. Events' = [j \in 1..length' |-> buffer'[Ring!Slot(head', j - 1)]]
  BY DEF Events, Ring!Contents, Ring!Slot
<1> HIDE DEF k, purged
<1>7. \A j \in 1..length' : buffer'[Ring!Slot(head', j - 1)] = purged[j]
  <2>0. length' \in Nat
    BY <1>2, <1>4
  <2>1. \A j \in 1..length' : j - 1 \in 0..length' - 1 /\ (j - 1) + 1 = j
    BY <2>0, Positions
  <2> QED BY <1>3, <1>5, <2>1
<1>8. purged = [j \in 1..length' |-> purged[j]]
  BY <1>5
<1>9. Events' = purged
  BY <1>6, <1>7, <1>8
<1> QED
  BY <1>3, <1>4, <1>9 DEF purged

\* A ring whose used slots hold the elements of s stands for s.
LEMMA StandsFor ==
  ASSUME NEW S, NEW s \in Seq(S), NEW n, n = Len(s), NEW b, NEW h,
         \A i \in 0..n - 1 : b[Ring!Slot(h, i)] = s[i + 1]
  PROVE  [j \in 1..n |-> b[Ring!Slot(h, j - 1)]] = s
<1>1. n \in Nat
  OBVIOUS
<1>2. \A j \in 1..n : j - 1 \in 0..n - 1 /\ (j - 1) + 1 = j
  BY <1>1, Positions
<1>3. \A j \in 1..n : b[Ring!Slot(h, j - 1)] = s[j]
  BY <1>2
<1>4. s = [j \in 1..n |-> s[j]]
  OBVIOUS
<1> QED
  BY <1>3, <1>4

LEMMA AddToFree ==
  ASSUME RingTypes, Ring!Add, length - Ring!Freed < MaxEvents
  PROVE  /\ head' \in Ring!Slots /\ length' \in 1..MaxEvents
         /\ length' = length - Ring!Freed + 1
         /\ buffer' \in [Ring!Slots -> (0..MaxTime) \cup {Ring!Undefined}]
         /\ \A i \in 0..length' - 1 : buffer'[Ring!Slot(head', i)] \in 0..MaxTime
         /\ Events' = Ring!Log!Added(Events, now)
<1> DEFINE k == Ring!Freed
           left == length - k
           first == Ring!Slot(head, k)
           index == Ring!Slot(first, left)
           cleared == Ring!Cleared(Ring!FreedSlots)
           purged == Ring!Log!Purged(Events, now)
           after == [cleared EXCEPT ![index] = now]
           grown == Append(purged, now)
<1>1. k \in 0..length /\ length \in 0..MaxEvents /\ MaxEvents \in Nat /\ left \in 0..MaxEvents - 1
  BY FreedEvents, RingAssumption
<1>2. buffer' = after /\ head' = first /\ length' = left + 1
  BY <1>1 DEF Ring!Add
<1>3. /\ first \in Ring!Slots
      /\ cleared \in [Ring!Slots -> (0..MaxTime) \cup {Ring!Undefined}]
      /\ \A i \in 0..left - 1 : /\ Ring!Slot(first, i) \in Ring!Slots
                                /\ cleared[Ring!Slot(first, i)] = Events[k + i + 1]
                                /\ Events[k + i + 1] \in 0..MaxTime
  BY AfterPurge
<1>4. /\ purged \in Seq(0..MaxTime) /\ Len(purged) = left
      /\ \A i \in 0..left - 1 : purged[i + 1] = Events[k + i + 1]
  BY PurgedRing
<1>5. now \in 0..MaxTime
  BY DEF RingTypes
<1>6. Ring!Log!Added(Events, now) = grown
  <2>1. Len(purged) # MaxEvents
    BY <1>1, <1>4
  <2> HIDE DEF purged
  <2> QED BY <2>1 DEF Ring!Log!Added, purged
<1> HIDE DEF k, left, first, cleared, purged
<1>7. index \in Ring!Slots /\ \A i \in 0..left - 1 : Ring!Slot(first, i) # index
  <2>1. index \in Ring!Slots
    BY <1>1, <1>3, SlotIs
  <2>2. ASSUME NEW i \in 0..left - 1 PROVE Ring!Slot(first, i) # index
    <3>1. i \in 0..MaxEvents - 1 /\ i # left
      BY <1>1
    <3> QED BY <1>1, <1>3, <3>1, SlotsDiffer
  <2> QED BY <2>1, <2>2
<1> HIDE DEF index
<1>8. /\ grown \in Seq(0..MaxTime) /\ Len(grown) = left + 1
      /\ \A i \in 0..left - 1 : grown[i + 1] = purged[i + 1]
      /\ grown[left + 1] = now
  <2>1. /\ grown \in Seq(0..MaxTime) /\ Len(grown) = Len(purged) + 1
        /\ \A i \in 1..Len(purged) : grown[i] = purged[i]
        /\ grown[Len(purged) + 1] = now
    BY <1>4, <1>5, AppendProperties
  <2>2. \A i \in 0..left - 1 : i + 1 \in 1..Len(purged)
    BY <1>1, <1>4
  <2> QED BY <1>4, <2>1, <2>2
<1>9. after \in [Ring!Slots -> (0..MaxTime) \cup {Ring!Undefined}]
  BY <1>3, <1>5, <1>7
<1>10. \A i \in 0..(left + 1) - 1 : /\ after[Ring!Slot(first, i)] = grown[i + 1]
                                    /\ after[Ring!Slot(first, i)] \in 0..MaxTime
  <2> TAKE i \in 0..(left + 1) - 1
  <2>1. CASE i = left
    <3>1. Ring!Slot(first, i) = index
      BY <2>1 DEF index
    <3> QED BY <2>1, <3>1, <1>3, <1>5, <1>7, <1>8
  <2>2. CASE i # left
    <3>1. i \in 0..left - 1
      BY <2>2, <1>1
    <3>2. after[Ring!Slot(first, i)] = cleared[Ring!Slot(first, i)]
      BY <3>1, <1>3, <1>7
    <3> QED BY <3>1, <3>2, <1>3, <1>4, <1>8
  <2> QED BY <2>1, <2>2
<1> HIDE DEF after, grown
<1>11. [j \in 1..left + 1 |-> after[Ring!Slot(first, j - 1)]] = grown
  BY <1>8, <1>10, StandsFor
<1>12. Events' = grown
  BY <1>2, <1>11 DEF Events, Ring!Contents, Ring!Slot
<1>13. left + 1 \in 1..MaxEvents
  BY <1>1
<1>14. length - Ring!Freed + 1 = left + 1
  BY DEF left, k
<1> QED
  BY <1>2, <1>3, <1>6, <1>9, <1>10, <1>12, <1>13, <1>14

LEMMA AddToFull ==
  ASSUME RingTypes, Ring!Add, length - Ring!Freed = MaxEvents
  PROVE  /\ head' \in Ring!Slots /\ length' = MaxEvents
         /\ buffer' \in [Ring!Slots -> (0..MaxTime) \cup {Ring!Undefined}]
         /\ \A i \in 0..length' - 1 : buffer'[Ring!Slot(head', i)] \in 0..MaxTime
         /\ Events' = Ring!Log!Added(Events, now)
<1> DEFINE k == Ring!Freed
           first == Ring!Slot(head, k)
           cleared == Ring!Cleared(Ring!FreedSlots)
           purged == Ring!Log!Purged(Events, now)
           index == Ring!Slot(first, MaxEvents)
           second == Ring!Slot(first, 1)
           after == [Ring!Cleared(Ring!FreedSlots \cup {first}) EXCEPT ![index] = now]
           grown == Append(Tail(purged), now)
<1>1. MaxEvents \in Nat \ {0} /\ length - k = MaxEvents
  BY RingAssumption
<1>2. buffer' = after /\ head' = second /\ length' = MaxEvents
  <2> DEFINE left == length - k
             slot == Ring!Slot(first, left)
  <2>1. left = MaxEvents /\ ~(left < MaxEvents) /\ slot = index
    BY <1>1
  <2>2. \/ left < MaxEvents
        \/ /\ buffer' = [Ring!Cleared(Ring!FreedSlots \cup {first}) EXCEPT ![slot] = now]
           /\ head' = second /\ length' = left
    BY DEF Ring!Add
  <2> HIDE DEF left, slot, index, second, first
  <2> QED BY <2>1, <2>2
<1>3. /\ first \in Ring!Slots
      /\ cleared \in [Ring!Slots -> (0..MaxTime) \cup {Ring!Undefined}]
      /\ \A i \in 0..MaxEvents - 1 : /\ Ring!Slot(first, i) \in Ring!Slots
                                     /\ cleared[Ring!Slot(first, i)] = Events[k + i + 1]
                                     /\ Events[k + i + 1] \in 0..MaxTime
  BY AfterPurge
<1>4. /\ purged \in Seq(0..MaxTime) /\ Len(purged) = MaxEvents
      /\ \A i \in 0..MaxEvents - 1 : purged[i + 1] = Events[k + i + 1]
  BY PurgedRing
<1>5. now \in 0..MaxTime
  BY DEF RingTypes
<1>6. Ring!Log!Added(Events, now) = grown
  <2>1. Len(purged) = MaxEvents
    BY <1>4
  <2> HIDE DEF purged
  <2> QED BY <2>1 DEF Ring!Log!Added, purged
<1>7. Ring!Cleared(Ring!FreedSlots \cup {first}) = [cleared EXCEPT ![first] = Ring!Undefined]
  BY <1>3 DEF Ring!Cleared
<1> HIDE DEF k, first, cleared, purged
<1>8. index = first /\ second \in Ring!Slots
  <2>1. first \in 0..MaxEvents - 1 /\ MaxEvents \in 0..MaxEvents /\ 1 \in 0..MaxEvents
    BY <1>1, <1>3 DEF Ring!Slots
  <2>2. index = IF first + MaxEvents < MaxEvents THEN first + MaxEvents
                ELSE first + MaxEvents - MaxEvents
    BY <1>3, <2>1, SlotIs
  <2>3. index = first
    BY <1>1, <2>1, <2>2
  <2> QED BY <1>3, <2>1, <2>3, SlotIs
<1>9. /\ after \in [Ring!Slots -> (0..MaxTime) \cup {Ring!Undefined}]
      /\ after[first] = now
      /\ \A s \in Ring!Slots : s # first => after[s] = cleared[s]
  BY <1>3, <1>5, <1>7, <1>8 DEF Ring!Undefined
<1>10. /\ grown \in Seq(0..MaxTime) /\ Len(grown) = MaxEvents
       /\ \A i \in 0..MaxEvents - 2 : grown[i + 1] = purged[(i + 1) + 1]
       /\ grown[MaxEvents] = now
  <2> DEFINE rest == Tail(purged)
  <2>1. /\ rest \in Seq(0..MaxTime) /\ Len(rest) = MaxEvents - 1
        /\ \A i \in 1..MaxEvents - 1 : rest[i] = purged[i + 1]
    BY <1>1, <1>4
  <2> HIDE DEF rest
  <2>2. /\ Append(rest, now) \in Seq(0..MaxTime) /\ Len(Append(rest, now)) = Len(rest) + 1
        /\ \A i \in 1..Len(rest) : Append(rest, now)[i] = rest[i]
        /\ Append(rest, now)[Len(rest) + 1] = now
    BY <1>5, <2>1, AppendProperties
  <2>3. \A i \in 0..MaxEvents - 2 : i + 1 \in 1..MaxEvents - 1
    BY <1>1
  <2>4. grown = Append(rest, now)
    BY DEF rest
  <2>5. \A i \in 0..MaxEvents - 2 : grown[i + 1] = purged[(i + 1) + 1]
    BY <2>1, <2>2, <2>3, <2>4
  <2>6. grown[MaxEvents] = now /\ Len(grown) = MaxEvents
    BY <1>1, <2>1, <2>2, <2>4
  <2> HIDE DEF grown
  <2> QED BY <2>2, <2>4, <2>5, <2>6
<1> HIDE DEF index, second, after, grown
<1>11. \A i \in 0..MaxEvents - 1 : /\ after[Ring!Slot(second, i)] = grown[i + 1]
                                   /\ after[Ring!Slot(second, i)] \in 0..MaxTime
  <2> TAKE i \in 0..MaxEvents - 1
  <2>1. /\ 1 \in 0..MaxEvents /\ i \in 0..MaxEvents - 1 /\ 1 + i = i + 1
        /\ i + 1 \in 0..MaxEvents
    BY <1>1
  <2>2. Ring!Slot(second, i) = Ring!Slot(first, i + 1)
    BY <1>3, <2>1, SlotSteps DEF second
  <2>3. CASE i = MaxEvents - 1
    <3>1. Ring!Slot(second, i) = first
      BY <1>1, <1>8, <2>2, <2>3 DEF index
    <3> QED BY <1>1, <1>5, <1>9, <1>10, <2>3, <3>1
  <2>4. CASE i # MaxEvents - 1
    <3>1. i + 1 \in 0..MaxEvents - 1 /\ i \in 0..MaxEvents - 2 /\ 0 \in 0..MaxEvents - 1 /\ i + 1 # 0
      BY <1>1, <2>1, <2>4
    <3>2. Ring!Slot(first, 0) = first
      <4>1. first \in 0..MaxEvents - 1 /\ 0 \in 0..MaxEvents
        BY <1>1, <1>3 DEF Ring!Slots
      <4>2. Ring!Slot(first, 0) = IF first + 0 < MaxEvents THEN first + 0
                                  ELSE first + 0 - MaxEvents
        BY <1>3, <4>1, SlotIs
      <4> QED BY <1>1, <4>1, <4>2
    <3>3. Ring!Slot(first, i + 1) # first
      BY <1>3, <3>1, <3>2, SlotsDiffer
    <3>4. after[Ring!Slot(second, i)] = cleared[Ring!Slot(first, i + 1)]
      BY <1>3, <1>9, <2>2, <3>1, <3>3
    <3>5. cleared[Ring!Slot(first, i + 1)] = purged[(i + 1) + 1]
          /\ cleared[Ring!Slot(first, i + 1)] \in 0..MaxTime
      BY <1>3, <1>4, <3>1
    <3> QED BY <1>10, <3>1, <3>4, <3>5
  <2> QED BY <2>3, <2>4
<1>12. [j \in 1..MaxEvents |-> after[Ring!Slot(second, j - 1)]] = grown
  BY <1>10, <1>11, StandsFor
<1>13. Events' = grown
  BY <1>2, <1>12 DEF Events, Ring!Contents, Ring!Slot
<1> QED
  BY <1>2, <1>6, <1>8, <1>9, <1>11, <1>13

LEMMA RingStep ==
  RingTypes /\ [CapturesNext]_allVars => RingTypes'
<1> SUFFICES ASSUME RingTypes, [CapturesNext]_allVars PROVE RingTypes'
  OBVIOUS
<1>0. MaxEvents \in Nat \ {0} /\ length \in 0..MaxEvents
  BY RingAssumption DEF RingTypes
<1>1. CASE AddMatch
  <2>1. Ring!Add /\ capture' = "none" /\ added' = Append(added, now)
    BY <1>1 DEF AddMatch, Ring!Add
  <2>6. paid' \subseteq 1..Len(added')
    <3>1. Len(added') = Len(added) + 1 /\ Len(added) \in Nat
      BY <2>1, AppendProperties DEF RingTypes
    <3>2. paid' \subseteq paid \cup {Len(added) + 1}
      BY <1>1 DEF AddMatch
    <3> QED BY <3>1, <3>2 DEF RingTypes
  <2>2. now' = now /\ added' \in Seq(0..MaxTime)
    BY <2>1, AppendProperties DEF Ring!Add, RingTypes
  <2>3. Ring!Freed \in 0..length
    BY FreedIs
  <2>4. length - Ring!Freed < MaxEvents \/ length - Ring!Freed = MaxEvents
    BY <1>0, <2>3
  <2>5. length' \in 0..MaxEvents /\ head' \in Ring!Slots
        /\ buffer' \in [Ring!Slots -> (0..MaxTime) \cup {Ring!Undefined}]
        /\ \A i \in 0..length' - 1 : buffer'[Ring!Slot(head', i)] \in 0..MaxTime
    BY <1>0, <2>1, <2>4, AddToFree, AddToFull
  <2> QED
    BY <2>1, <2>2, <2>5, <2>6 DEF RingTypes, Ring!Slots, Ring!Undefined, Ring!Slot
<1>2. CASE Snapshot
  <2>1. Ring!Read /\ UNCHANGED <<now, added, capture, paid>>
    BY <1>2 DEF Snapshot, Ring!Read
  <2> QED
    BY <2>1, ReadStep DEF RingTypes, Ring!Slots, Ring!Undefined, Ring!Slot
<1>3. CASE Admit \/ Turn \/ Monitor \/ MatchElsewhere \/ UNCHANGED allVars
  <2>1. UNCHANGED <<buffer, head, length, added, now, paid>>
        /\ capture' \in {"none", "admitted", "exempt"}
    BY <1>3 DEF Admit, Turn, Monitor, Exempt, MatchElsewhere, allVars, vars, ringVars, Acquire,
       Refuse, RingTypes
  <2> QED
    BY <2>1 DEF RingTypes, Ring!Slots, Ring!Undefined, Ring!Slot
<1>4. CASE Clock
  <2>1. UNCHANGED <<buffer, head, length, added, capture, paid>> /\ now' \in 0..MaxTime
    BY <1>4 DEF Clock, ringVars, ClockForward, ClockSetBack
  <2> QED
    BY <2>1 DEF RingTypes, Ring!Slots, Ring!Undefined, Ring!Slot
<1> QED
  BY <1>1, <1>2, <1>3, <1>4 DEF CapturesNext

LEMMA RingStarts == CapturesInit => RingTypes /\ Events = <<>>
<1> SUFFICES ASSUME CapturesInit PROVE RingTypes /\ Events = <<>>
  OBVIOUS
<1>1. /\ buffer = [s \in Ring!Slots |-> Ring!Undefined] /\ head = 0 /\ length = 0
      /\ added = <<>> /\ capture = "none" /\ paid = {} /\ now \in 0..MaxTime
  BY DEF CapturesInit, Ring!Init, Init
<1>2. 0 \in Ring!Slots /\ 0 \in 0..MaxEvents
  BY RingAssumption DEF Ring!Slots
<1>3. Events = <<>>
  BY <1>1 DEF Events, Ring!Contents
<1>4. \A i \in 0..length - 1 : buffer[Ring!Slot(head, i)] \in 0..MaxTime
  BY <1>1
<1>5. buffer \in [Ring!Slots -> (0..MaxTime) \cup {Ring!Undefined}] /\ added \in Seq(0..MaxTime)
  BY <1>1
<1>6. /\ head \in Ring!Slots /\ length \in 0..MaxEvents
      /\ capture \in {"none", "admitted", "exempt"} /\ paid \subseteq 1..Len(added)
  BY <1>1, <1>2
<1>7. RingTypes
  BY <1>1, <1>4, <1>5, <1>6 DEF RingTypes
<1> QED
  BY <1>3, <1>7

\* No wrap-around of head or index reaches a slot that is not used: type
\* correctness of the ring, beside the bucket.
THEOREM RingCorrect == CapturesSpec => []RingTypes
BY RingStarts, RingStep, PTL DEF CapturesSpec

\* The ring buffer is a bounded log of the most recent events: each step of
\* the captures adds to the log, purges it, moves its clock or leaves it alone.
THEOREM RingImplementsLog == CapturesSpec => ImplementsEventLog
<1>1. CapturesInit => Ring!Log!Init
  BY RingStarts DEF CapturesInit, Init, Ring!Log!Init, Events, Ring!Times
<1>2. RingTypes /\ [CapturesNext]_allVars => [Ring!Log!Next]_Ring!Log!logVars
  <2> SUFFICES ASSUME RingTypes, [CapturesNext]_allVars
               PROVE  [Ring!Log!Next]_Ring!Log!logVars
    OBVIOUS
  <2>1. CASE AddMatch
    <3>1. Ring!Add /\ now' = now
      BY <2>1 DEF AddMatch, Ring!Add
    <3>2. length - Ring!Freed < MaxEvents \/ length - Ring!Freed = MaxEvents
      BY FreedEvents, RingAssumption
    <3>3. Events' = Ring!Log!Added(Events, now)
      BY <3>1, <3>2, AddToFree, AddToFull
    <3> QED
      BY <3>1, <3>3 DEF Events, Ring!Log!Next, Ring!Log!Add
  <2>2. CASE Snapshot
    <3>1. Ring!Read /\ now' = now
      BY <2>2 DEF Snapshot, Ring!Read
    <3>2. Events' = Ring!Log!Purged(Events, now)
      BY <3>1, ReadStep
    <3> QED
      BY <3>1, <3>2 DEF Events, Ring!Log!Next, Ring!Log!Read
  <2>3. CASE Admit \/ Turn \/ Monitor \/ MatchElsewhere \/ UNCHANGED allVars
    <3>1. UNCHANGED <<buffer, head, length, now>>
      BY <2>3 DEF Admit, Turn, Monitor, MatchElsewhere, allVars, vars, ringVars, Acquire, Refuse
    <3> QED
      BY <3>1 DEF Ring!Log!logVars, Ring!Contents, Ring!Slot
  <2>4. CASE Clock
    <3>1. UNCHANGED <<buffer, head, length>> /\ now' \in 0..MaxTime
      BY <2>4 DEF Clock, ringVars, ClockForward, ClockSetBack
    <3> QED
      BY <3>1 DEF Ring!Log!Next, Ring!Log!ClockChanges, Ring!Contents, Ring!Slot, Ring!Times
  <2> QED
    BY <2>1, <2>2, <2>3, <2>4 DEF CapturesNext
<1> QED
  BY <1>1, <1>2, RingCorrect, PTL
  DEF CapturesSpec, ImplementsEventLog, Ring!ImplementsEventLog, Ring!Log!Spec

-----------------------------------------------------------------------------
(* The count.                                                              *)

\* The events are the last ones of the history.
Recent(events, history) ==
  /\ Len(events) <= Len(history)
  /\ \A j \in 1..Len(events) : events[j] = history[Len(history) - Len(events) + j]

LEMMA RecentTail ==
  ASSUME NEW S, NEW e \in Seq(S), NEW a \in Seq(S), e # <<>>, Recent(e, a)
  PROVE  Recent(Tail(e), a)
<1>1. /\ Tail(e) \in Seq(S) /\ Len(Tail(e)) = Len(e) - 1
      /\ \A j \in 1..Len(e) - 1 : Tail(e)[j] = e[j + 1]
  OBVIOUS
<1>2. Len(e) \in Nat \ {0} /\ Len(a) \in Nat
  OBVIOUS
<1>3. \A j \in 1..Len(e) - 1 : Tail(e)[j] = a[Len(a) - (Len(e) - 1) + j]
  <2> TAKE j \in 1..Len(e) - 1
  <2>1. j + 1 \in 1..Len(e) /\ Len(a) - Len(e) + (j + 1) = Len(a) - (Len(e) - 1) + j
    BY <1>2
  <2> QED BY <1>1, <2>1 DEF Recent
<1> QED
  BY <1>1, <1>2, <1>3 DEF Recent

LEMMA RecentAppend ==
  ASSUME NEW S, NEW e \in Seq(S), NEW a \in Seq(S), NEW x \in S, Recent(e, a)
  PROVE  Recent(Append(e, x), Append(a, x))
<1> DEFINE f == Append(e, x)
           b == Append(a, x)
<1>1. /\ f \in Seq(S) /\ Len(f) = Len(e) + 1 /\ f[Len(e) + 1] = x
      /\ \A j \in 1..Len(e) : f[j] = e[j]
  BY AppendProperties
<1>2. /\ b \in Seq(S) /\ Len(b) = Len(a) + 1 /\ b[Len(a) + 1] = x
      /\ \A j \in 1..Len(a) : b[j] = a[j]
  BY AppendProperties
<1>3. Len(e) \in Nat /\ Len(a) \in Nat /\ Len(e) <= Len(a)
  BY DEF Recent
<1> HIDE DEF f, b
<1>4. \A j \in 1..Len(f) : f[j] = b[Len(b) - Len(f) + j]
  <2> TAKE j \in 1..Len(f)
  <2>1. CASE j = Len(e) + 1
    <3>1. Len(b) - Len(f) + j = Len(a) + 1
      BY <1>1, <1>2, <1>3, <2>1
    <3> QED BY <1>1, <1>2, <2>1, <3>1
  <2>2. CASE j # Len(e) + 1
    <3>1. /\ j \in 1..Len(e)
          /\ Len(b) - Len(f) + j = Len(a) - Len(e) + j
          /\ Len(a) - Len(e) + j \in 1..Len(a)
      BY <1>1, <1>2, <1>3, <2>2
    <3> QED BY <1>1, <1>2, <3>1 DEF Recent
  <2> QED BY <2>1, <2>2
<1>5. Recent(f, b)
  BY <1>1, <1>2, <1>3, <1>4 DEF Recent
<1> QED
  BY <1>5 DEF f, b

\* CountIsExact alone is not inductive: which of the matches ever made are in
\* the ring has to be known.  They are the last ones, and those before them
\* have expired or were given up by a ring that is full since.
Ordered == /\ \A i, j \in DOMAIN added : i <= j => added[i] <= added[j]
           /\ \A i \in DOMAIN added : added[i] <= now
Forgotten(n) == n = MaxEvents \/ \A i \in 1..Len(added) - n : now - added[i] >= WindowMs
WindowInv == ~setBack => Ordered /\ Recent(Events, added) /\ Forgotten(length)

\* Purging keeps the last matches, and what it frees has expired.
LEMMA PurgeForgets ==
  ASSUME RingTypes, Ordered, Recent(Events, added), Forgotten(length)
  PROVE  LET purged == Ring!Log!Purged(Events, now)
         IN  Recent(purged, added) /\ Forgotten(Len(purged))
<1> DEFINE purged == Ring!Log!Purged(Events, now)
           k == Ring!Freed
           older == Len(added) - length
<1>1. /\ purged \in Seq(0..MaxTime) /\ Len(purged) = length - k
      /\ \A i \in 0..length - k - 1 : purged[i + 1] = Events[k + i + 1]
  BY PurgedRing
<1>2. /\ k \in 0..length /\ length \in 0..MaxEvents /\ MaxEvents \in Nat
      /\ \A j \in 1..k : now - Events[j] >= WindowMs
  BY FreedEvents, RingAssumption
<1>3. /\ Len(Events) = length /\ length <= Len(added) /\ older \in Nat
      /\ \A j \in 1..length : Events[j] = added[older + j]
  <2>1. Len(Events) = length
    BY EventsAre
  <2>2. Len(added) \in Nat /\ length \in Nat /\ length <= Len(added)
    BY <1>2, <2>1 DEF RingTypes, Recent
  <2>3. older \in Nat /\ Len(added) - Len(Events) = older
    BY <2>1, <2>2
  <2>4. \A j \in 1..Len(Events) : Events[j] = added[Len(added) - Len(Events) + j]
    BY DEF Recent
  <2> HIDE DEF older
  <2>5. \A j \in 1..length : Events[j] = added[older + j]
    BY <2>1, <2>3, <2>4, Zenon
  <2> QED BY <2>1, <2>2, <2>3, <2>5, Zenon
<1>4. /\ added \in Seq(0..MaxTime) /\ Len(added) = older + length
      /\ \A i \in 1..older + length : added[i] \in Int
      /\ now \in Int /\ WindowMs \in Int /\ length \in Nat
  <2>1. added \in Seq(0..MaxTime) /\ now \in 0..MaxTime /\ length \in Nat
    BY <1>2 DEF RingTypes
  <2>2. Len(added) = older + length
    BY <2>1
  <2>3. \A i \in 1..Len(added) : added[i] \in 0..MaxTime
    BY <2>1, ElementOfSeq
  <2> QED BY <2>1, <2>2, <2>3, RingAssumption, AdmissionAssumption
<1> HIDE DEF purged, k, older
<1>5. Recent(purged, added)
  <2> SUFFICES ASSUME NEW j \in 1..Len(purged)
               PROVE  purged[j] = added[Len(added) - Len(purged) + j]
    BY <1>1, <1>2, <1>3, <1>4 DEF Recent
  <2>0. k \in Nat /\ length \in Nat /\ older \in Nat /\ j \in 1..length - k /\ k <= length
    BY <1>1, <1>2, <1>3
  <2>1. /\ j - 1 \in 0..length - k - 1 /\ (j - 1) + 1 = j /\ k + (j - 1) + 1 = k + j
        /\ k + j \in 1..length
    BY <2>0
  <2>2. Len(added) - Len(purged) + j = older + (k + j)
    BY <2>0, <1>1, <1>4
  <2> QED BY <1>1, <1>3, <2>1, <2>2
<1>6. Forgotten(Len(purged))
  <2>1. CASE k = 0
    BY <1>1, <1>2, <1>4, <2>1
  <2>2. CASE k # 0
    <3>1. k \in 1..k /\ k \in 1..length /\ older + k \in 1..older + length
      BY <1>2, <1>3, <2>2
    <3>2. now - added[older + k] >= WindowMs
      BY <1>2, <1>3, <3>1
    <3>3. Len(added) - Len(purged) = older + k
      BY <1>1, <1>2, <1>3, <1>4
    <3>4. ASSUME NEW i \in 1..older + k PROVE now - added[i] >= WindowMs
      <4>1. i \in 1..older + length /\ i <= older + k
        BY <1>2, <1>3
      <4>2. added[i] <= added[older + k]
        BY <1>4, <3>1, <4>1 DEF Ordered
      <4> QED BY <1>4, <3>1, <3>2, <4>1, <4>2
    <3> QED BY <3>3, <3>4 DEF Forgotten
  <2> QED BY <2>1, <2>2
<1> QED
  BY <1>5, <1>6 DEF purged

LEMMA AddedIs ==
  ASSUME RingTypes, Ordered, Recent(Events, added), Forgotten(length), Ring!Add
  PROVE  (Ordered /\ Recent(Events, added) /\ Forgotten(length))'
<1> DEFINE purged == Ring!Log!Purged(Events, now)
           left == IF Len(purged) = MaxEvents THEN Tail(purged) ELSE purged
<1>1. /\ purged \in Seq(0..MaxTime) /\ Len(purged) = length - Ring!Freed
      /\ Recent(purged, added) /\ Forgotten(Len(purged))
  BY PurgedRing, PurgeForgets
<1>2. /\ added \in Seq(0..MaxTime) /\ now \in 0..MaxTime /\ MaxEvents \in Nat \ {0}
      /\ added' = Append(added, now) /\ now' = now
  BY RingAssumption DEF RingTypes, Ring!Add
<1>3. /\ Len(added') = Len(added) + 1 /\ added'[Len(added) + 1] = now
      /\ \A i \in 1..Len(added) : added'[i] = added[i]
  BY <1>2, AppendProperties
<1>4. Len(added) \in Nat /\ \A i \in 1..Len(added) : added[i] \in 0..MaxTime
  <2>1. added \in Seq(0..MaxTime)
    BY <1>2
  <2>2. \A i \in 1..Len(added) : added[i] \in 0..MaxTime
    BY <2>1, ElementOfSeq
  <2> QED BY <2>1, <2>2
<1>5. Events' = Append(left, now)
  <2>1. length - Ring!Freed < MaxEvents \/ length - Ring!Freed = MaxEvents
    BY FreedEvents, RingAssumption
  <2> QED
    BY <2>1, AddToFree, AddToFull DEF Ring!Log!Added
<1> HIDE DEF purged
<1>6. left \in Seq(0..MaxTime) /\ Recent(left, added)
  <2>1. CASE Len(purged) = MaxEvents
    <3>1. purged # <<>> /\ Tail(purged) \in Seq(0..MaxTime)
      BY <1>1, <1>2, <2>1
    <3> QED BY <1>1, <1>2, <2>1, <3>1, RecentTail
  <2>2. CASE Len(purged) # MaxEvents
    BY <1>1, <2>2
  <2> QED BY <2>1, <2>2
<1> HIDE DEF left
<1>7. Recent(Events, added)'
  <2>1. Recent(Append(left, now), Append(added, now))
    BY <1>2, <1>6, RecentAppend
  <2>2. Recent(Events', added')
    BY <1>2, <1>5, <2>1
  <2> QED BY <2>2 DEF Recent
<1>8. Ordered'
  <2>1. \A i \in 1..Len(added) : added'[i] <= now
    BY <1>2, <1>3 DEF Ordered
  <2>2. \A i \in DOMAIN added' : i \in 1..Len(added) \/ i = Len(added) + 1
    BY <1>2, <1>3, <1>4
  <2>3. \A i, j \in DOMAIN added' : i <= j => added'[i] <= added'[j]
    <3> TAKE i, j \in DOMAIN added'
    <3> HAVE i <= j
    <3>1. CASE j = Len(added) + 1
      <4>1. added'[i] <= now
        BY <1>2, <1>3, <2>1, <2>2, AdmissionAssumption
      <4> QED BY <1>3, <3>1, <4>1
    <3>2. CASE j \in 1..Len(added)
      <4>1. i \in 1..Len(added)
        BY <1>4, <2>2, <3>2
      <4> QED BY <1>2, <1>3, <3>2, <4>1 DEF Ordered
    <3> QED BY <2>2, <3>1, <3>2
  <2>4. \A i \in DOMAIN added' : added'[i] <= now'
    BY <1>2, <1>3, <2>1, <2>2
  <2> QED BY <2>3, <2>4 DEF Ordered
<1>9. Forgotten(length)'
  <2>1. CASE Len(purged) = MaxEvents
    <3>1. length' = MaxEvents
      BY <1>1, <2>1, AddToFull
    <3> QED BY <3>1 DEF Forgotten
  <2>2. CASE Len(purged) # MaxEvents
    <3>1. length' = Len(purged) + 1 /\ Len(purged) \in Nat
      <4>1. length - Ring!Freed < MaxEvents
        BY <1>1, <2>2, FreedEvents, RingAssumption
      <4> QED BY <1>1, <4>1, AddToFree
    <3>2. Len(added') - length' = Len(added) - Len(purged)
      BY <1>3, <1>4, <3>1
    <3>3. \A i \in 1..Len(added) - Len(purged) : now - added[i] >= WindowMs
      BY <1>1, <2>2 DEF Forgotten
    <3>4. \A i \in 1..Len(added) - Len(purged) : i \in 1..Len(added)
      BY <1>4, <3>1
    <3>5. \A i \in 1..Len(added') - length' : now' - added'[i] >= WindowMs
      BY <1>2, <1>3, <3>2, <3>3, <3>4
    <3> QED BY <3>5 DEF Forgotten
  <2> QED BY <2>1, <2>2
<1> QED
  BY <1>7, <1>8, <1>9

LEMMA WindowStep ==
  RingTypes /\ WindowInv /\ [CapturesNext]_allVars => WindowInv'
<1> SUFFICES ASSUME RingTypes, WindowInv, [CapturesNext]_allVars, ~setBack'
             PROVE  (Ordered /\ Recent(Events, added) /\ Forgotten(length))'
  BY DEF WindowInv
<1>1. ~setBack
  BY DEF CapturesNext, Admit, Turn, Monitor, AddMatch, MatchElsewhere, Snapshot, Clock, Acquire, Refuse,
     ClockForward, ClockSetBack, Ring!Add, Ring!Read, allVars, vars
<1>2. Ordered /\ Recent(Events, added) /\ Forgotten(length)
  BY <1>1 DEF WindowInv
<1>3. CASE AddMatch
  BY <1>2, <1>3, AddedIs DEF AddMatch
<1>4. CASE Snapshot
  <2>1. Ring!Read /\ UNCHANGED <<now, added>>
    BY <1>4 DEF Snapshot, Ring!Read
  <2> DEFINE purged == Ring!Log!Purged(Events, now)
  <2>2. Recent(purged, added) /\ Forgotten(Len(purged))
    BY <1>2, PurgeForgets
  <2>3. Events' = purged /\ length' = Len(purged)
    BY <2>1, ReadStep, PurgedRing DEF Ring!Read
  <2> HIDE DEF purged
  <2> QED
    BY <1>2, <2>1, <2>2, <2>3 DEF Ordered, Recent, Forgotten
<1>5. CASE Admit \/ Turn \/ Monitor \/ MatchElsewhere \/ UNCHANGED allVars
  <2>1. UNCHANGED <<buffer, head, length, added, now>>
    BY <1>5 DEF Admit, Turn, Monitor, MatchElsewhere, allVars, vars, ringVars, Acquire, Refuse
  <2>2. Events' = Events
    BY <2>1 DEF Events, Ring!Contents, Ring!Slot
  <2> QED
    BY <1>2, <2>1, <2>2 DEF Ordered, Recent, Forgotten
<1>6. CASE Clock
  <2>1. UNCHANGED <<buffer, head, length, added>> /\ ClockForward
    BY <1>1, <1>6 DEF Clock, ringVars, ClockSetBack
  <2>2. Events' = Events
    BY <2>1 DEF Events, Ring!Contents, Ring!Slot
  <2>3. now \in Int /\ now' \in Int /\ now <= now' /\ WindowMs \in Int
    BY <2>1, RingAssumption, AdmissionAssumption DEF ClockForward, RingTypes
  <2>4. \A i \in 1..Len(added) : added[i] \in Int
    <3>1. added \in Seq(0..MaxTime)
      BY DEF RingTypes
    <3>2. \A i \in 1..Len(added) : added[i] \in 0..MaxTime
      BY <3>1, ElementOfSeq
    <3> QED BY <3>2, AdmissionAssumption
  <2>5. Ordered'
    <3>1. DOMAIN added = 1..Len(added)
      BY DEF RingTypes
    <3> QED BY <1>2, <2>1, <2>3, <2>4, <3>1 DEF Ordered
  <2>6. \A i \in 1..Len(added) : now - added[i] >= WindowMs => now' - added[i] >= WindowMs
    BY <2>3, <2>4
  <2>7. Forgotten(length)'
    <3>1. CASE length = MaxEvents
      BY <2>1, <3>1 DEF Forgotten
    <3>2. CASE length # MaxEvents
      <4>1. \A i \in 1..Len(added) - length : now - added[i] >= WindowMs
        BY <1>2, <3>2 DEF Forgotten
      <4>2. \A i \in 1..Len(added) - length : i \in 1..Len(added)
        BY RingAssumption DEF RingTypes
      <4>3. \A i \in 1..Len(added) - length : now' - added[i] >= WindowMs
        BY <2>6, <4>1, <4>2
      <4> QED BY <2>1, <4>3 DEF Forgotten
    <3> QED BY <3>1, <3>2
  <2> QED
    BY <1>2, <2>1, <2>2, <2>5, <2>7 DEF Recent
<1> QED
  BY <1>3, <1>4, <1>5, <1>6 DEF CapturesNext

LEMMA WindowInvariant == CapturesSpec => []WindowInv
<1>1. CapturesInit => WindowInv
  <2> SUFFICES ASSUME CapturesInit PROVE WindowInv
    OBVIOUS
  <2>1. Events = <<>> /\ added = <<>> /\ length = 0
    BY RingStarts DEF CapturesInit, Ring!Init
  <2> QED
    BY <2>1 DEF WindowInv, Ordered, Recent, Forgotten
<1> QED
  BY <1>1, WindowStep, RingCorrect, PTL DEF CapturesSpec

\* The events that a purge keeps are the last matches, and none has expired.
LEMMA KeptAreFresh ==
  ASSUME RingTypes, WindowInv, ~setBack
  PROVE  LET kept == length - Ring!Freed
         IN  /\ kept \in 0..MaxEvents /\ kept <= Len(added) /\ Len(added) \in Nat
             /\ \A i \in Len(added) - kept + 1..Len(added) : now - added[i] < WindowMs
             /\ Forgotten(kept)
<1> DEFINE kept == length - Ring!Freed
           purged == Ring!Log!Purged(Events, now)
           first == Len(added) - kept + 1
<1>1. Ordered /\ Recent(Events, added) /\ Forgotten(length)
  BY DEF WindowInv
<1>2. /\ purged \in Seq(0..MaxTime) /\ Len(purged) = kept
      /\ \A i \in 0..kept - 1 : purged[i + 1] = Events[Ring!Freed + i + 1]
  BY PurgedRing
<1>3. Recent(purged, added) /\ Forgotten(Len(purged))
  BY <1>1, PurgeForgets
<1>4. /\ Ring!Freed \in 0..length /\ length \in 0..MaxEvents /\ MaxEvents \in Nat
      /\ Ring!Freed < length => now - Events[Ring!Freed + 1] < WindowMs
  BY FreedEvents, RingAssumption
<1>5. kept \in 0..MaxEvents
  BY <1>4
<1>6. /\ \A i \in 1..Len(added) : added[i] \in Int
      /\ DOMAIN added = 1..Len(added) /\ Len(added) \in Nat
      /\ now \in Int /\ WindowMs \in Int
  <2>1. added \in Seq(0..MaxTime) /\ now \in 0..MaxTime
    BY DEF RingTypes
  <2>2. \A i \in 1..Len(added) : added[i] \in 0..MaxTime
    BY <2>1, ElementOfSeq
  <2> QED BY <2>1, <2>2, RingAssumption, AdmissionAssumption
<1> HIDE DEF purged
<1>7. kept <= Len(added)
  BY <1>2, <1>3 DEF Recent
<1>8. kept > 0 => now - added[first] < WindowMs
  <2> HAVE kept > 0
  <2>1. /\ Ring!Freed < length /\ 0 \in 0..kept - 1 /\ 1 \in 1..kept /\ 0 + 1 = 1
        /\ Ring!Freed + 0 + 1 = Ring!Freed + 1 /\ Len(added) - kept + 1 = first
    BY <1>4, <1>5
  <2>2. purged[1] = Events[Ring!Freed + 1]
    BY <1>2, <2>1
  <2>3. purged[1] = added[first]
    BY <1>2, <1>3, <2>1 DEF Recent
  <2> QED BY <1>4, <2>1, <2>2, <2>3
<1>9. ASSUME NEW i \in first..Len(added) PROVE now - added[i] < WindowMs
  <2>1. i \in 1..Len(added) /\ first \in 1..Len(added) /\ first <= i /\ kept > 0
    BY <1>4, <1>5, <1>6, <1>7
  <2>2. added[first] <= added[i]
    BY <1>1, <1>6, <2>1 DEF Ordered
  <2> QED BY <1>6, <1>8, <2>1, <2>2
<1> QED
  BY <1>2, <1>3, <1>5, <1>6, <1>7, <1>9

LEMMA SameCount == \A S : Ring!Cardinality(S) = Cardinality(S)
BY DEF Ring!Cardinality, Cardinality

\* The count that the policy sees is the number of matches within the window,
\* up to the capacity, for every size, window and length of a behaviour.
THEOREM CountHolds == CapturesSpec => []CountIsExact
<1>1. RingTypes /\ WindowInv => CountIsExact
  <2> SUFFICES ASSUME RingTypes, WindowInv, ~setBack
               PROVE  length - Ring!Freed =
                        IF Cardinality(Ring!InWindow) > MaxEvents THEN MaxEvents
                        ELSE Cardinality(Ring!InWindow)
    BY SameCount DEF CountIsExact, Ring!CountIsExact
  <2> DEFINE kept == length - Ring!Freed
             n == Len(added)
             last == (n - kept + 1)..n
  <2>1. /\ kept \in 0..MaxEvents /\ kept <= n /\ n \in Nat
        /\ \A i \in last : now - added[i] < WindowMs
        /\ Forgotten(kept)
    BY KeptAreFresh
  <2>2. MaxEvents \in Nat /\ DOMAIN added = 1..n /\ now \in Int /\ WindowMs \in Int
        /\ \A i \in 1..n : added[i] \in Int
    <3>1. added \in Seq(0..MaxTime) /\ now \in 0..MaxTime
      BY DEF RingTypes
    <3>2. \A i \in 1..n : added[i] \in 0..MaxTime
      BY <3>1, ElementOfSeq
    <3> QED BY <3>1, <3>2, RingAssumption, AdmissionAssumption
  <2>3. Ring!InWindow = {i \in 1..n : now - added[i] < WindowMs}
    <3>1. \A i \in 1..n : ~(now - added[i] >= WindowMs) <=> now - added[i] < WindowMs
      BY <2>2
    <3> QED BY <2>2, <3>1 DEF Ring!InWindow, Ring!Expired
  <2> HIDE DEF kept, n
  <2>4. last \subseteq Ring!InWindow /\ last \subseteq 1..n
    BY <2>1, <2>2, <2>3
  <2>5. IsFiniteSet(Ring!InWindow) /\ Cardinality(last) = kept
    <3>1. IsFiniteSet(1..n) /\ Ring!InWindow \subseteq 1..n
      BY <2>1, <2>3, FS_Interval
    <3>2. IsFiniteSet(Ring!InWindow)
      BY <3>1, FS_Subset
    <3>3. Cardinality(last) = IF n - kept + 1 > n THEN 0 ELSE n - (n - kept + 1) + 1
      BY <2>1, <2>2, FS_Interval
    <3> QED BY <2>1, <2>2, <3>2, <3>3
  <2>6. Cardinality(last) <= Cardinality(Ring!InWindow) /\ Cardinality(Ring!InWindow) \in Nat
    BY <2>4, <2>5, FS_Subset, FS_CardinalityType
  <2>7. CASE kept = MaxEvents
    BY <2>2, <2>5, <2>6, <2>7 DEF kept
  <2>8. CASE kept # MaxEvents
    <3>1. \A i \in 1..n - kept : now - added[i] >= WindowMs
      BY <2>1, <2>8 DEF Forgotten, n
    <3>2. Ring!InWindow \subseteq last
      <4>1. ASSUME NEW i \in 1..n, now - added[i] < WindowMs PROVE i \in last
        <5>1. ~(i \in 1..n - kept)
          BY <2>2, <3>1, <4>1
        <5> QED BY <2>1, <2>2, <5>1
      <4> QED BY <2>3, <4>1
    <3>3. Cardinality(Ring!InWindow) = kept
      BY <2>4, <2>5, <3>2
    <3> QED BY <2>1, <2>2, <3>3 DEF kept
  <2> QED BY <2>7, <2>8
<1> QED
  BY <1>1, RingCorrect, WindowInvariant, PTL

-----------------------------------------------------------------------------
(* The budget of an interval.                                              *)

Worth(d) == d * MaxEventsPerSecond

LEMMA WorthAdds ==
  ASSUME NEW a \in Nat, NEW b \in Nat
  PROVE  Worth(a) \in Nat /\ Worth(b) \in Nat /\ Worth(a + b) = Worth(a) + Worth(b)
<1>1. Worth(a) \in Nat /\ Worth(b) \in Nat
  BY TimesType DEF Worth
<1>2. (a + b) * MaxEventsPerSecond = a * MaxEventsPerSecond + b * MaxEventsPerSecond
  BY Distributes
<1> QED
  BY <1>1, <1>2 DEF Worth

LEMMA GrantsCounted ==
  ASSUME TypeOK, NEW t
  PROVE  IsFiniteSet({i \in DOMAIN granted : granted[i] >= t}) /\ GrantedSince(t) \in Nat
<1> DEFINE G == {i \in DOMAIN granted : granted[i] >= t}
<1>1. Len(granted) \in Nat /\ DOMAIN granted = 1..Len(granted)
  BY DEF TypeOK
<1>2. IsFiniteSet(DOMAIN granted)
  BY <1>1, FS_Interval
<1>3. G \subseteq DOMAIN granted
  OBVIOUS
<1> HIDE DEF G
<1>4. IsFiniteSet(G) /\ Cardinality(G) \in Nat
  BY <1>2, <1>3, FS_Subset, FS_CardinalityType
<1> QED
  BY <1>4 DEF G, GrantedSince

\* A capture that is admitted counts for every interval that reaches to it.
LEMMA GrantAdds ==
  ASSUME TypeOK, Acquire, NEW t \in 0..now
  PROVE  GrantedSince(t)' = GrantedSince(t) + 1
<1> DEFINE n == Len(granted)
           G == {i \in DOMAIN granted : granted[i] >= t}
           H == {i \in DOMAIN granted' : granted'[i] >= t}
<1>1. granted \in Seq(0..MaxTime) /\ n \in Nat /\ now \in 0..MaxTime
  BY DEF TypeOK
<1>2. granted' = Append(granted, now)
  BY DEF Acquire
<1>3. /\ DOMAIN granted = 1..n /\ DOMAIN granted' = 1..(n + 1)
      /\ \A i \in 1..n : granted'[i] = granted[i]
      /\ granted'[n + 1] = now
  BY <1>1, <1>2, AppendProperties
<1>4. now >= t
  BY <1>1, AdmissionAssumption
<1>5. H = G \cup {n + 1} /\ n + 1 \notin G
  <2>1. \A i : i \in 1..(n + 1) <=> i \in 1..n \/ i = n + 1
    BY <1>1
  <2>2. n + 1 \notin 1..n
    BY <1>1
  <2> HIDE DEF n
  <2> QED BY <1>3, <1>4, <2>1, <2>2
<1>6. IsFiniteSet(G)
  BY GrantsCounted
<1> HIDE DEF G, H, n
<1>7. Cardinality(H) = Cardinality(G) + 1
  BY <1>5, <1>6, FS_AddElement
<1> QED
  BY <1>7 DEF GrantedSince, G, H

\* RefusesOnlyOverBudget and WindowWithinBudget need to know how full the
\* bucket is.  What it holds and what it gave since any time t is covered by the
\* burst and the refill since t; and there is a time, the last one at which the
\* bucket was full, since when nothing of that was lost.
Spent(t) == tokens + GrantedSince(t) * Token
Earned(t) == Full + Worth(lastRefill - t)
BudgetInv == ~setBack =>
  /\ lastRefill <= now
  /\ \A i \in DOMAIN granted : granted[i] <= lastRefill
  /\ \A t \in 0..lastRefill : Spent(t) <= Earned(t)
  /\ \E t \in 0..lastRefill : Spent(t) >= Earned(t)

LEMMA BudgetTypes ==
  ASSUME TypeOK
  PROVE  /\ tokens \in Nat /\ lastRefill \in Nat /\ now \in Nat /\ Full \in Nat
         /\ lastRefill \in 0..MaxTime /\ now \in 0..MaxTime /\ Full >= Token
BY AdmissionAssumption, RefilledType DEF TypeOK, Full, Token

\* No capture is admitted after the last refill.
LEMMA NoneSince ==
  ASSUME TypeOK, NEW t \in Nat, t > lastRefill,
         \A i \in DOMAIN granted : granted[i] <= lastRefill
  PROVE  GrantedSince(t) = 0
<1>1. \A i \in DOMAIN granted : granted[i] \in Nat
  BY AdmissionAssumption DEF TypeOK
<1>2. {i \in DOMAIN granted : granted[i] >= t} = {}
  BY <1>1, BudgetTypes
<1> QED
  BY <1>2, FS_EmptySet DEF GrantedSince

\* What the bucket holds after a refill.
LEMMA RefilledIs ==
  ASSUME TypeOK, lastRefill <= now
  PROVE  /\ Refilled \in Nat /\ Refilled <= Full
         /\ Refilled <= tokens + Worth(now - lastRefill)
         /\ Refilled = Full \/ Refilled = tokens + Worth(now - lastRefill)
<1>1. Elapsed = now - lastRefill
  BY BudgetTypes DEF Elapsed
<1>2. Refilled \in 0..Full /\ Full \in Nat
  BY RefilledType
<1>3. now - lastRefill \in Nat
  BY BudgetTypes
<1>4. Worth(now - lastRefill) \in Nat
  BY <1>3, WorthAdds
<1> DEFINE w == Worth(now - lastRefill)
<1>5. Refilled = IF tokens + w > Full THEN Full ELSE tokens + w
  BY <1>1 DEF Refilled, Worth
<1> HIDE DEF w
<1>6. w \in Nat
  BY <1>4 DEF w
<1>7. /\ Refilled \in Nat /\ Refilled <= Full /\ Refilled <= tokens + w
      /\ Refilled = Full \/ Refilled = tokens + w
  BY <1>2, <1>5, <1>6, BudgetTypes
<1> QED
  BY <1>7 DEF w

\* A refill moves the end of every interval to the present.
LEMMA BudgetAcquire ==
  ASSUME TypeOK, TypeOK', BudgetInv, ~setBack, Acquire \/ Refuse
  PROVE  BudgetInv'
<1>1. /\ lastRefill <= now /\ \A i \in DOMAIN granted : granted[i] <= lastRefill
      /\ \A t \in 0..lastRefill : Spent(t) <= Earned(t)
  BY DEF BudgetInv
<1>2. PICK t0 \in 0..lastRefill : Spent(t0) >= Earned(t0)
  BY DEF BudgetInv
<1>3. /\ tokens \in Nat /\ lastRefill \in Nat /\ now \in Nat /\ Full \in Nat /\ Full' = Full
      /\ lastRefill \in 0..now /\ now' = now /\ lastRefill' = now /\ Full >= 0
  BY <1>1, BudgetTypes DEF Acquire, Refuse, Full, Token
<1> DEFINE gap == now - lastRefill
           G(t) == GrantedSince(t)
<1>4. /\ Refilled \in Nat /\ Refilled <= Full /\ Refilled <= tokens + Worth(gap)
      /\ Refilled = Full \/ Refilled = tokens + Worth(gap)
  BY <1>1, RefilledIs
<1>5. ASSUME NEW t \in 0..now
      PROVE  Spent(t)' = Refilled + G(t) * 1000 /\ G(t) \in Nat
  <2>1. G(t) \in Nat
    BY GrantsCounted
  <2>2. CASE Acquire
    <3>1. tokens' = Refilled - 1000 /\ GrantedSince(t)' = G(t) + 1
      BY <2>2, GrantAdds DEF Acquire, Token
    <3>2. Spent(t)' = tokens' + GrantedSince(t)' * 1000
      BY DEF Spent, Token
    <3> HIDE DEF G
    <3> QED BY <1>4, <2>1, <3>1, <3>2
  <2>3. CASE Refuse
    <3>1. tokens' = Refilled /\ GrantedSince(t)' = G(t)
      BY <2>3 DEF Refuse, GrantedSince
    <3>2. Spent(t)' = tokens' + GrantedSince(t)' * 1000
      BY DEF Spent, Token
    <3> QED BY <2>1, <3>1, <3>2
  <2> QED BY <2>2, <2>3
<1>6. \A t : Earned(t)' = Full + Worth(now - t)
  BY <1>3 DEF Earned, Worth
<1>7. ASSUME NEW t \in 0..lastRefill
      PROVE  /\ Worth(now - t) = Worth(lastRefill - t) + Worth(gap)
             /\ Worth(lastRefill - t) \in Nat /\ Worth(gap) \in Nat
             /\ Spent(t) = tokens + G(t) * 1000 /\ Earned(t) = Full + Worth(lastRefill - t)
             /\ t \in 0..now
  <2>1. /\ lastRefill - t \in Nat /\ gap \in Nat /\ (lastRefill - t) + gap = now - t
        /\ t \in 0..now
    BY <1>1, <1>3
  <2> QED
    BY <2>1, WorthAdds DEF Spent, Earned, Token
<1> HIDE DEF G, gap
<1>8. \A t \in 0..now : Spent(t)' <= Earned(t)'
  <2> SUFFICES ASSUME NEW t \in 0..now PROVE Refilled + G(t) * 1000 <= Full + Worth(now - t)
    BY <1>5, <1>6
  <2>0. now - t \in Nat /\ Worth(now - t) \in Nat /\ G(t) \in Nat
    <3>1. now - t \in Nat
      BY <1>3
    <3> QED BY <3>1, <1>5, WorthAdds
  <2>1. CASE t \in 0..lastRefill
    <3>1. Spent(t) <= Earned(t)
      BY <1>1, <2>1
    <3> QED BY <1>3, <1>4, <1>7, <2>0, <2>1, <3>1
  <2>2. CASE t \notin 0..lastRefill
    <3>1. t \in Nat /\ t > lastRefill
      BY <1>3, <2>2
    <3>2. G(t) = 0
      BY <1>1, <3>1, NoneSince DEF G
    <3> QED BY <1>3, <1>4, <2>0, <3>2
  <2> QED BY <2>1, <2>2
<1>9. \E t \in 0..now : Spent(t)' >= Earned(t)'
  <2>1. CASE Refilled = Full
    <3>1. PICK t \in 0..now : t = now
      BY <1>3
    <3>2. Worth(now - t) = 0
      BY <1>3, <3>1, AdmissionAssumption DEF Worth
    <3>3. Spent(t)' >= Earned(t)'
      BY <1>3, <1>5, <1>6, <2>1, <3>2
    <3> QED BY <3>3
  <2>2. CASE Refilled = tokens + Worth(gap)
    <3>1. Spent(t0)' = Refilled + G(t0) * 1000 /\ G(t0) \in Nat
      BY <1>5, <1>7
    <3>2. Refilled + G(t0) * 1000 >= Full + Worth(now - t0)
      BY <1>2, <1>3, <1>7, <2>2, <3>1
    <3> QED BY <1>6, <1>7, <3>1, <3>2
  <2> QED BY <1>4, <2>1, <2>2
<1>10. \A i \in DOMAIN granted' : granted'[i] <= lastRefill'
  <2>1. CASE Acquire
    <3>1. granted \in Seq(0..MaxTime) /\ granted' = Append(granted, now) /\ now \in 0..MaxTime
      BY <2>1 DEF Acquire, TypeOK
    <3>2. /\ DOMAIN granted = 1..Len(granted) /\ DOMAIN granted' = 1..(Len(granted) + 1)
          /\ Len(granted) \in Nat
          /\ \A i \in 1..Len(granted) : granted'[i] = granted[i] /\ granted[i] \in Nat
          /\ granted'[Len(granted) + 1] = now
      BY <3>1, AppendProperties, ElementOfSeq, AdmissionAssumption
    <3>3. \A i \in 1..Len(granted) : granted'[i] <= now
      BY <1>1, <1>3, <3>2
    <3>4. \A i \in 1..(Len(granted) + 1) : i \in 1..Len(granted) \/ i = Len(granted) + 1
      BY <3>2
    <3> QED BY <1>3, <3>2, <3>3, <3>4
  <2>2. CASE Refuse
    <3>1. granted' = granted /\ \A i \in DOMAIN granted : granted[i] \in Nat
      BY <2>2, AdmissionAssumption DEF Refuse, TypeOK
    <3> QED BY <1>1, <1>3, <3>1
  <2> QED BY <2>1, <2>2
<1> QED
  BY <1>3, <1>8, <1>9, <1>10 DEF BudgetInv

LEMMA BudgetStep == TypeOK /\ TypeOK' /\ BudgetInv /\ [Next]_vars => BudgetInv'
<1> SUFFICES ASSUME TypeOK, TypeOK', BudgetInv, [Next]_vars, ~setBack' PROVE BudgetInv'
  BY DEF BudgetInv
<1>1. CASE Acquire \/ Refuse
  <2>1. ~setBack
    BY <1>1 DEF Acquire, Refuse
  <2> QED BY <1>1, <2>1, BudgetAcquire
<1>2. CASE ClockForward \/ ClockSetBack \/ UNCHANGED vars
  <2>1. ~setBack /\ UNCHANGED <<tokens, lastRefill, granted>>
    BY <1>2 DEF ClockForward, ClockSetBack, bucketVars, vars
  <2>2. now <= now'
    BY <1>2, BudgetTypes DEF ClockForward, ClockSetBack, vars
  <2>3. /\ lastRefill <= now /\ \A i \in DOMAIN granted : granted[i] <= lastRefill
        /\ \A t \in 0..lastRefill : Spent(t) <= Earned(t)
        /\ \E t \in 0..lastRefill : Spent(t) >= Earned(t)
    BY <2>1 DEF BudgetInv
  <2>4. lastRefill' <= now'
    <3>1. lastRefill \in Nat /\ now \in Nat /\ now' \in Nat
      BY BudgetTypes, AdmissionAssumption DEF TypeOK
    <3> QED BY <2>1, <2>2, <2>3, <3>1
  <2>5. \A t : Spent(t)' = Spent(t) /\ Earned(t)' = Earned(t)
    BY <2>1 DEF Spent, Earned, GrantedSince, Full, Token, Worth
  <2> QED
    BY <2>1, <2>3, <2>4, <2>5 DEF BudgetInv
<1> QED
  BY <1>1, <1>2 DEF Next

LEMMA BudgetStarts == Init => BudgetInv
<1> SUFFICES ASSUME Init PROVE BudgetInv
  OBVIOUS
<1>1. /\ tokens = Full /\ lastRefill = now /\ granted = <<>> /\ now \in Nat /\ Full \in Nat
  BY AdmissionAssumption DEF Init, Full, Token
<1>2. \A t : GrantedSince(t) = 0
  <2> TAKE t
  <2>1. {i \in DOMAIN granted : granted[i] >= t} = {}
    BY <1>1
  <2> QED BY <2>1, FS_EmptySet DEF GrantedSince
<1>3. \A t : Spent(t) = Full
  BY <1>1, <1>2 DEF Spent, Token
<1>4. \A t \in 0..now : Earned(t) >= Full
  <2> TAKE t \in 0..now
  <2>1. now - t \in Nat
    BY <1>1
  <2>2. Worth(now - t) \in Nat
    BY <2>1, WorthAdds
  <2> QED BY <1>1, <2>2 DEF Earned
<1>5. now \in 0..now /\ Earned(now) = Full
  BY <1>1, AdmissionAssumption DEF Earned, Worth
<1> QED
  BY <1>1, <1>3, <1>4, <1>5 DEF BudgetInv

LEMMA BudgetInvariant == Spec => []BudgetInv
BY BudgetStarts, BudgetStep, TypeCorrect, PTL DEF Spec

\* A capture is refused only when admitting it would break the budget of some
\* interval, for every rate, burst and clock that is not set back.
THEOREM RefusalsDue == Spec => RefusesOnlyOverBudget
<1>1. TypeOK /\ BudgetInv =>
        (Refuse /\ ~setBack =>
           \E t \in 0..now :
             (GrantedSince(t) + 1) * Token > Full + (now - t) * MaxEventsPerSecond)
  <2> SUFFICES ASSUME TypeOK, BudgetInv, Refuse, ~setBack
               PROVE  \E t \in 0..now :
                        (GrantedSince(t) + 1) * Token > Full + (now - t) * MaxEventsPerSecond
    OBVIOUS
  <2>1. lastRefill <= now /\ Refilled < 1000
    BY DEF BudgetInv, Refuse, Token
  <2>2. PICK t \in 0..lastRefill : Spent(t) >= Earned(t)
    BY DEF BudgetInv
  <2>3. tokens \in Nat /\ lastRefill \in Nat /\ now \in Nat /\ Full \in Nat /\ Full >= 1000
    BY BudgetTypes DEF Token
  <2>4. Refilled = tokens + Worth(now - lastRefill)
    BY <2>1, <2>3, RefilledIs
  <2>5. /\ lastRefill - t \in Nat /\ now - lastRefill \in Nat /\ t \in 0..now
        /\ (lastRefill - t) + (now - lastRefill) = now - t
    BY <2>1, <2>3
  <2>6. /\ Worth(now - t) = Worth(lastRefill - t) + Worth(now - lastRefill)
        /\ Worth(lastRefill - t) \in Nat /\ Worth(now - lastRefill) \in Nat
    BY <2>5, WorthAdds
  <2>7. GrantedSince(t) \in Nat
    BY GrantsCounted
  <2>8. tokens + GrantedSince(t) * 1000 >= Full + Worth(lastRefill - t)
    BY <2>2 DEF Spent, Earned, Token
  <2>9. (GrantedSince(t) + 1) * 1000 > Full + Worth(now - t)
    <3> DEFINE w == Worth(now - t)
               u == Worth(lastRefill - t)
               v == Worth(now - lastRefill)
               g == GrantedSince(t)
    <3>1. /\ tokens + v < 1000 /\ w = u + v /\ tokens + g * 1000 >= Full + u
          /\ g \in Nat /\ u \in Nat /\ v \in Nat
      BY <2>1, <2>4, <2>6, <2>7, <2>8
    <3> HIDE DEF w, u, v, g
    <3>2. (g + 1) * 1000 > Full + w
      BY <2>3, <3>1
    <3> QED BY <3>2 DEF w, g
  <2> QED
    BY <2>5, <2>9 DEF Worth, Token
<1> QED
  BY <1>1, TypeCorrect, BudgetInvariant, PTL DEF RefusesOnlyOverBudget

\* So it is with captures whose matches are added to a window.
THEOREM CaptureRefusalsDue == CapturesSpec => RefusesOnlyOverBudget
BY BucketBehaves, RefusalsDue

-----------------------------------------------------------------------------
(* The budget and the window.                                              *)

\* Of the matches that hold a token, every one after a match has its token of
\* the interval since then: captures come one by one, so that token was taken
\* after the match before it.  Matches that need no token stand between them.
PaidAfter(i) == {k \in paid : k > i}
Holds == IF capture = "admitted" THEN 1 ELSE 0
PaidInv == ~setBack =>
  \A i \in DOMAIN added : Cardinality(PaidAfter(i)) + Holds <= GrantedSince(added[i])

LEMMA PaidCounted ==
  ASSUME RingTypes, NEW i \in Nat
  PROVE  /\ IsFiniteSet(paid) /\ IsFiniteSet(PaidAfter(i))
         /\ Cardinality(PaidAfter(i)) \in Nat
<1>1. Len(added) \in Nat /\ paid \subseteq 1..Len(added)
  BY DEF RingTypes
<1>2. IsFiniteSet(1..Len(added))
  BY <1>1, FS_Interval
<1>3. IsFiniteSet(paid)
  BY <1>1, <1>2, FS_Subset
<1>4. PaidAfter(i) \subseteq paid
  BY DEF PaidAfter
<1>5. IsFiniteSet(PaidAfter(i))
  BY <1>3, <1>4, FS_Subset
<1> QED
  BY <1>3, <1>5, FS_CardinalityType

\* A match with a token is one more for every match before it.
LEMMA PaidAdds ==
  ASSUME RingTypes, AddMatch, NEW i \in 1..Len(added)
  PROVE  Cardinality(PaidAfter(i)') + Holds' = Cardinality(PaidAfter(i)) + Holds
<1> DEFINE n == Len(added)
<1>1. /\ n \in Nat /\ i \in Nat /\ paid \subseteq 1..n
      /\ capture \in {"admitted", "exempt"} /\ capture' = "none"
      /\ paid' = IF capture = "admitted" THEN paid \cup {n + 1} ELSE paid
  BY DEF AddMatch, RingTypes
<1>2. Holds' = 0
  BY <1>1 DEF Holds
<1>3. IsFiniteSet(PaidAfter(i)) /\ Cardinality(PaidAfter(i)) \in Nat
  BY <1>1, PaidCounted
<1>4. CASE capture = "admitted"
  <2>1. paid' = paid \cup {n + 1} /\ Holds = 1
    BY <1>1, <1>4 DEF Holds
  <2>2. n + 1 > i /\ n + 1 \notin paid
    BY <1>1
  <2> HIDE DEF n
  <2>3. PaidAfter(i)' = PaidAfter(i) \cup {n + 1} /\ n + 1 \notin PaidAfter(i)
    BY <2>1, <2>2 DEF PaidAfter
  <2>4. Cardinality(PaidAfter(i)') = Cardinality(PaidAfter(i)) + 1
    BY <1>3, <2>3, FS_AddElement
  <2> QED BY <1>2, <1>3, <2>1, <2>4
<1>5. CASE capture = "exempt"
  <2>1. paid' = paid /\ Holds = 0
    BY <1>1, <1>5 DEF Holds
  <2>2. PaidAfter(i)' = PaidAfter(i)
    BY <2>1 DEF PaidAfter
  <2> QED BY <1>2, <2>1, <2>2
<1> QED
  BY <1>1, <1>4, <1>5

LEMMA PaidStep ==
  TypeOK /\ RingTypes /\ WindowInv /\ PaidInv /\ [CapturesNext]_allVars => PaidInv'
<1> SUFFICES ASSUME TypeOK, RingTypes, WindowInv, PaidInv, [CapturesNext]_allVars, ~setBack',
                    NEW i \in DOMAIN added'
             PROVE  Cardinality(PaidAfter(i)') + Holds' <= GrantedSince(added[i])'
  BY DEF PaidInv
<1>1. ~setBack
  BY DEF CapturesNext, Admit, Turn, Monitor, AddMatch, MatchElsewhere, Snapshot, Clock, Acquire,
     Refuse, ClockForward, ClockSetBack, Ring!Add, Ring!Read, allVars, vars
<1>2. added \in Seq(0..MaxTime) /\ DOMAIN added = 1..Len(added) /\ Len(added) \in Nat
  BY DEF RingTypes
<1>3. \A k \in 1..Len(added) : added[k] \in 0..now /\ GrantedSince(added[k]) \in Nat
  <2> TAKE k \in 1..Len(added)
  <2>1. added[k] \in 0..MaxTime
    BY <1>2, ElementOfSeq
  <2>2. added[k] <= now
    BY <1>1, <1>2 DEF WindowInv, Ordered
  <2>3. added[k] \in 0..now
    BY <2>1, <2>2, BudgetTypes, AdmissionAssumption
  <2>4. GrantedSince(added[k]) \in Nat
    BY GrantsCounted
  <2> QED BY <2>3, <2>4
<1>4. \A k \in 1..Len(added) :
        Cardinality(PaidAfter(k)) + Holds <= GrantedSince(added[k])
  BY <1>1, <1>2 DEF PaidInv
<1>5. CASE AddMatch
  <2>1. /\ added' = Append(added, now) /\ granted' = granted /\ now \in 0..MaxTime
    BY <1>5 DEF AddMatch, Ring!Add, RingTypes
  <2>2. /\ DOMAIN added' = 1..(Len(added) + 1) /\ added'[Len(added) + 1] = now
        /\ \A k \in 1..Len(added) : added'[k] = added[k]
    BY <1>2, <2>1, AppendProperties
  <2>3. GrantedSince(added[i])' = GrantedSince(added'[i])
    BY <2>1 DEF GrantedSince
  <2>4. CASE i = Len(added) + 1
    <3>1. GrantedSince(now) \in Nat
      BY GrantsCounted
    <3>2. PaidAfter(i)' = {} /\ Holds' = 0
      <4>1. \A k \in paid' : k \in 1..Len(added) + 1
        BY <1>5, <1>2 DEF AddMatch, RingTypes
      <4>2. PaidAfter(i)' = {}
        BY <1>2, <2>4, <4>1 DEF PaidAfter
      <4> QED BY <1>5, <4>2 DEF AddMatch, Holds
    <3>3. Cardinality(PaidAfter(i)') = 0
      BY <3>2, FS_EmptySet
    <3> QED BY <2>2, <2>3, <2>4, <3>1, <3>2, <3>3
  <2>5. CASE i \in 1..Len(added)
    <3>1. Cardinality(PaidAfter(i)') + Holds' = Cardinality(PaidAfter(i)) + Holds
      BY <1>5, <2>5, PaidAdds
    <3> QED BY <1>4, <2>2, <2>3, <2>5, <3>1
  <2> QED BY <1>2, <2>2, <2>4, <2>5
<1>6. CASE Admit
  <2>1. /\ added' = added /\ paid' = paid /\ Acquire /\ i \in 1..Len(added)
        /\ Holds = 0 /\ Holds' = 1
    BY <1>2, <1>6 DEF Admit, ringVars, Holds
  <2>2. PICK t \in 0..now : t = added[i]
    BY <1>3, <2>1
  <2>3. GrantedSince(t)' = GrantedSince(t) + 1
    BY <2>1, GrantAdds
  <2>4. GrantedSince(added[i])' = GrantedSince(t)'
    BY <2>1, <2>2 DEF GrantedSince
  <2>5. PaidAfter(i)' = PaidAfter(i) /\ Cardinality(PaidAfter(i)) \in Nat
    <3>1. PaidAfter(i)' = PaidAfter(i)
      BY <2>1 DEF PaidAfter
    <3> QED BY <1>2, <2>1, <3>1, PaidCounted
  <2>6. Cardinality(PaidAfter(i)) + 0 <= GrantedSince(t) /\ GrantedSince(t) \in Nat
    BY <1>3, <1>4, <2>1, <2>2
  <2>7. Cardinality(PaidAfter(i)) + 1 <= GrantedSince(t) + 1
    BY <2>5, <2>6
  <2> QED
    BY <2>1, <2>3, <2>4, <2>5, <2>7
<1>7. CASE Turn \/ Monitor \/ MatchElsewhere \/ Snapshot \/ Clock \/ UNCHANGED allVars
  <2>1. /\ added' = added /\ granted' = granted /\ paid' = paid
        /\ capture' = "admitted" => capture = "admitted"
    BY <1>7 DEF Turn, Monitor, Exempt, MatchElsewhere, Snapshot, Clock, Ring!Read, ringVars,
       allVars, vars, Refuse, ClockForward, ClockSetBack
  <2>2. GrantedSince(added[i])' = GrantedSince(added[i]) /\ i \in 1..Len(added)
    BY <1>2, <2>1 DEF GrantedSince
  <2>3. PaidAfter(i)' = PaidAfter(i) /\ Cardinality(PaidAfter(i)) \in Nat
    <3>1. PaidAfter(i)' = PaidAfter(i)
      BY <2>1 DEF PaidAfter
    <3> QED BY <1>2, <2>2, <3>1, PaidCounted
  <2>4. Holds' <= Holds /\ Holds \in {0, 1} /\ Holds' \in {0, 1}
    BY <2>1 DEF Holds
  <2>5. Cardinality(PaidAfter(i)) + Holds <= GrantedSince(added[i])
        /\ GrantedSince(added[i]) \in Nat
    BY <1>3, <1>4, <2>2
  <2> QED
    BY <2>2, <2>3, <2>4, <2>5
<1> QED
  BY <1>5, <1>6, <1>7 DEF CapturesNext

\* The overload limit bounds what a window can count, for every rate, burst,
\* size and window: burst, the tokens of one window, one capture, and what
\* needs no token.
THEOREM WindowBounded == CapturesSpec => []WindowWithinBudget
<1>1. CapturesInit => PaidInv
  BY DEF CapturesInit, Ring!Init, PaidInv
<1>2. CapturesSpec => []PaidInv
  BY <1>1, PaidStep, BucketBehaves, TypeCorrect, RingCorrect, WindowInvariant, PTL
  DEF CapturesSpec
<1>3. TypeOK /\ RingTypes /\ WindowInv /\ BudgetInv /\ PaidInv => WindowWithinBudget
  <2> SUFFICES ASSUME TypeOK, RingTypes, WindowInv, BudgetInv, PaidInv, ~setBack, Counted # {}
               PROVE  (Cardinality(Counted) - 1) * Token
                        <= Full + (WindowMs - 1) * MaxEventsPerSecond
    BY DEF WindowWithinBudget
  <2> DEFINE kept == length - Ring!Freed
             n == Len(added)
             c == Cardinality(Counted)
  <2>1. /\ kept \in 0..MaxEvents /\ kept <= n /\ n \in Nat
        /\ \A k \in n - kept + 1..n : now - added[k] < WindowMs
    BY KeptAreFresh
  <2>2. MaxEvents \in Nat
    BY RingAssumption
  <2>3. \A k \in Counted : k \in n - kept + 1..n /\ k \in 1..n /\ k \in paid
    BY <2>1, <2>2 DEF Counted, RingTypes
  \* The oldest match of the window with a token.
  <2>4. PICK i \in Counted : \A k \in Counted : i <= k
    <3>1. Counted \in SUBSET Nat
      BY <2>1, <2>3
    <3> QED BY <3>1, LeastOf
  <2>5. /\ i \in n - kept + 1..n /\ i \in 1..n /\ i \in Nat /\ i \in DOMAIN added
    BY <2>1, <2>3, <2>4 DEF RingTypes
  <2>6. c = Cardinality(PaidAfter(i)) + 1 /\ Cardinality(PaidAfter(i)) \in Nat
    <3>1. \A k \in Counted : k \in Nat
      BY <2>1, <2>3
    <3>2. Counted = PaidAfter(i) \cup {i} /\ i \notin PaidAfter(i)
      <4>1. \A k \in PaidAfter(i) : k \in Counted
        <5> TAKE k \in PaidAfter(i)
        <5>1. k \in paid /\ k > i /\ k \in Nat /\ i > n - kept /\ n - kept \in Int
          BY <2>1, <2>2, <2>5 DEF PaidAfter, RingTypes, Counted
        <5> QED BY <5>1, <2>5 DEF Counted
      <4>2. \A k \in Counted : k \in PaidAfter(i) \/ k = i
        BY <2>3, <2>4, <2>5, <3>1 DEF PaidAfter
      <4>3. i \notin PaidAfter(i)
        BY <2>5 DEF PaidAfter
      <4> QED BY <2>4, <4>1, <4>2, <4>3
    <3>3. IsFiniteSet(PaidAfter(i)) /\ Cardinality(PaidAfter(i)) \in Nat
      BY <2>5, PaidCounted
    <3> QED BY <3>2, <3>3, FS_AddElement
  <2> HIDE DEF kept, n, c
  <2>7. PICK t \in 0..MaxTime : t = added[i]
    BY <2>5, ElementOfSeq DEF RingTypes, n
  <2>8. now - t < WindowMs /\ t <= now
    BY <2>1, <2>5, <2>7 DEF WindowInv, Ordered, RingTypes, n
  <2>9. c - 1 <= GrantedSince(t) /\ GrantedSince(t) \in Nat /\ c - 1 \in Nat
    <3>1. Cardinality(PaidAfter(i)) + Holds <= GrantedSince(t)
      BY <2>5, <2>7 DEF PaidInv
    <3>2. GrantedSince(t) \in Nat /\ Holds \in {0, 1}
      BY GrantsCounted DEF Holds
    <3> QED BY <2>6, <3>1, <3>2
  <2>10. /\ lastRefill \in Nat /\ now \in Nat /\ tokens \in Nat /\ Full \in Nat /\ t \in Nat
         /\ WindowMs \in Nat /\ WindowMs - 1 \in Nat /\ lastRefill <= now
    BY BudgetTypes, RingAssumption, AdmissionAssumption DEF BudgetInv
  <2>11. Worth(WindowMs - 1) \in Nat
    BY <2>10, WorthAdds
  <2>12. (c - 1) * 1000 <= Full + Worth(WindowMs - 1)
    <3>1. CASE t <= lastRefill
      <4>1. Spent(t) <= Earned(t)
        BY <2>10, <3>1 DEF BudgetInv
      <4>2. tokens + GrantedSince(t) * 1000 <= Full + Worth(lastRefill - t)
        BY <4>1 DEF Spent, Earned, Token
      <4>3. Worth(lastRefill - t) <= Worth(WindowMs - 1) /\ Worth(lastRefill - t) \in Nat
        <5> DEFINE d == (WindowMs - 1) - (lastRefill - t)
        <5>1. d \in Nat /\ lastRefill - t \in Nat /\ (lastRefill - t) + d = WindowMs - 1
          BY <2>8, <2>10, <3>1
        <5> HIDE DEF d
        <5> QED BY <5>1, WorthAdds
      <4> QED BY <2>9, <2>10, <2>11, <4>2, <4>3
    <3>2. CASE t > lastRefill
      <4>1. GrantedSince(t) = 0
        BY <2>10, <3>2, NoneSince DEF BudgetInv
      <4> QED BY <2>9, <2>10, <2>11, <4>1
    <3> QED BY <2>10, <3>1, <3>2
  <2> QED
    BY <2>12 DEF c, Worth, Token
<1> QED
  BY <1>2, <1>3, BucketBehaves, TypeCorrect, BudgetInvariant, RingCorrect, WindowInvariant, PTL
=============================================================================
