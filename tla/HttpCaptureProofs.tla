------------------------- MODULE HttpCaptureProofs -------------------------
(***************************************************************************)
(* What the adapters report of a request, for any number of errors, any    *)
(* list of NestJS filters, and every order of handlers, listeners and      *)
(* events of the response.                                                 *)
(***************************************************************************)
EXTENDS HttpCapture, SequenceFacts, FiniteSetTheorems, TLAPS

-----------------------------------------------------------------------------
(* Types.                                                                  *)

Listeners == (Errors \ NestErrors) \cup {Observer}

TypeInv ==
  /\ nest \in Setups
  /\ status \in Statuses
  /\ sentStatus \in Statuses \cup {"none"} /\ reassigned \in BOOLEAN
  /\ ended \in BOOLEAN /\ closed \in BOOLEAN /\ finished \in BOOLEAN
  /\ onFinish \in Seq(Listeners) /\ onClose \in Seq(Listeners)
  /\ emitting \in Seq(Listeners)
  /\ marked \in BOOLEAN /\ handled \in SUBSET Errors
  /\ captured \in [Errors -> BOOLEAN] /\ errorReports \in [Errors -> Nat]
  /\ reportedStatus \in [Errors -> Statuses \cup {"none"}]
  /\ answering \in [Errors -> Filters \cup {WotchiFilter, Fallback, Nobody}]
  /\ statusReports \in Nat

\* The response can still finish, or has.
Live == finished \/ ~closed

\* Each error is counted once: an Express error by its own flag, one of NestJS
\* because NestJS hands it to the filters once.
CountInv ==
  \A e \in Errors :
    /\ e \notin NestErrors => errorReports[e] = IF captured[e] THEN 1 ELSE 0
    /\ e \in NestErrors => errorReports[e] <= IF e \in handled THEN 1 ELSE 0

MarkInv == ~marked => Watched = {}

\* While the response can finish, listeners run and reports of Express errors
\* are made after end(), when the status has been sent.
EndedInv ==
  /\ finished => ended
  /\ ended => HeadersSent
  /\ HeadersSent /\ ~reassigned => status = sentStatus
  /\ Live /\ emitting # <<>> => ended
  /\ Live => \A e \in Errors \ NestErrors :
       reportedStatus[e] # "none" => ended /\ (reassigned \/ reportedStatus[e] = sentStatus)

\* The default answer to an HttpException sends the status that was predicted.
PredictionInv ==
  \A e \in NestErrors :
    /\ e \notin handled => reportedStatus[e] = "none" /\ answering[e] = Nobody
    /\ answering[e] = Fallback /\ nest.kind = "HttpException" =>
         sentStatus = nest.own /\ reportedStatus[e] \in {"none", nest.own}

AnswerInv == \A e \in NestErrors : answering[e] \in {Nobody, Answering(nest)}

Inv == CountInv /\ MarkInv /\ EndedInv /\ PredictionInv /\ AnswerInv

LEMMA OffType ==
  ASSUME NEW S, NEW s \in Seq(S), NEW e PROVE Off(s, e) \in Seq(S)
<1>1. CASE \E i \in 1..Len(s) : s[i] = e
  BY <1>1, FirstRemoved DEF Off
<1>2. CASE ~\E i \in 1..Len(s) : s[i] = e
  BY <1>2 DEF Off, RemoveFirst
<1> QED
  BY <1>1, <1>2

LEMMA SetupFacts ==
  ASSUME NEW setup \in Setups
  PROVE  /\ setup.registered \in Seq(Filters \cup {WotchiFilter})
         /\ \A i, j \in DOMAIN setup.registered :
              i # j => setup.registered[i] # setup.registered[j]
         /\ setup.kind \in Kinds /\ setup.own \in {"4xx", "5xx"}
<1>1. setup.registered \in SetToAllKPermutations(Filters \cup {WotchiFilter})
      /\ setup.kind \in Kinds /\ setup.own \in {"4xx", "5xx"}
  BY DEF Setups
<1>2. PICK F \in SUBSET (Filters \cup {WotchiFilter}) : setup.registered \in SetToSeqs(F)
  BY <1>1 DEF SetToAllKPermutations
<1>3. Cardinality(F) \in Nat
  <2>1. IsFiniteSet(Filters \cup {WotchiFilter})
    BY FiltersAssumption, FS_AddElement DEF FiltersAssumption
  <2> QED
    BY <2>1, FS_Subset, FS_CardinalityType
<1>4. setup.registered \in [1..Cardinality(F) -> F]
      /\ \A i, j \in 1..Cardinality(F) :
           i # j => setup.registered[i] # setup.registered[j]
  BY <1>2 DEF SetToSeqs
<1> QED
  BY <1>1, <1>3, <1>4

LEMMA PredictedType ==
  ASSUME TypeInv
  PROVE  /\ PredictedStatus(nest, status) \in Statuses
         /\ FallbackStatus(nest, status, HeadersSent) \in Statuses
BY SetupFacts DEF TypeInv, PredictedStatus, FallbackStatus, Statuses
-----------------------------------------------------------------------------
(* The filters: the one that answers.                                      *)

LEMMA FirstMatchOf ==
  ASSUME NEW setup, NEW S, NEW s \in Seq(S)
  PROVE  \/ /\ FirstMatch(setup, s) = Fallback
            /\ \A i \in 1..Len(s) : ~MatchesException(setup, s[i])
         \/ \E p \in 1..Len(s) : /\ MatchesException(setup, s[p])
                                 /\ FirstMatch(setup, s) = s[p]
                                 /\ \A i \in 1..Len(s) :
                                      i < p => ~MatchesException(setup, s[i])
<1> DEFINE I == {i \in 1..Len(s) : MatchesException(setup, s[i])}
<1>1. SelectInSeq(s, LAMBDA f : MatchesException(setup, f)) = IF I = {} THEN 0 ELSE Min(I)
  BY DEF SelectInSeq
<1>2. CASE I = {}
  BY <1>1, <1>2 DEF FirstMatch
<1>3. CASE I # {}
  <2>0. I \in SUBSET Nat
    OBVIOUS
  <2>1. Min(I) \in I /\ \A k \in I : Min(I) <= k
    <3> HIDE DEF I
    <3> QED BY <2>0, <1>3, MinOf
  <2>2. FirstMatch(setup, s) = s[Min(I)]
    BY <1>1, <1>3, <2>1 DEF FirstMatch
  <2>3. \A i \in 1..Len(s) : i < Min(I) => i \notin I
    BY <2>1
  <2> DEFINE m == Min(I)
  <2>4. m \in 1..Len(s) /\ MatchesException(setup, s[m])
    BY <2>1
  <2>5. \A i \in 1..Len(s) : i < m => ~MatchesException(setup, s[i])
    BY <2>3
  <2> HIDE DEF m
  <2> QED
    BY <2>2, <2>4, <2>5 DEF m
<1> QED
  BY <1>2, <1>3

LEMMA LastMatchOf ==
  ASSUME NEW setup, NEW S, NEW s \in Seq(S)
  PROVE  \/ /\ FirstMatch(setup, Reverse(s)) = Fallback
            /\ \A i \in 1..Len(s) : ~MatchesException(setup, s[i])
         \/ \E p \in 1..Len(s) : /\ MatchesException(setup, s[p])
                                 /\ FirstMatch(setup, Reverse(s)) = s[p]
                                 /\ \A i \in 1..Len(s) :
                                      i > p => ~MatchesException(setup, s[i])
<1> DEFINE r == Reverse(s)
<1>1. r \in Seq(S) /\ Len(r) = Len(s) /\ \A i \in 1..Len(s) : r[i] = s[Len(s) - i + 1]
  BY DEF Reverse
<1>2. \A i \in 1..Len(s) : Len(s) - i + 1 \in 1..Len(s) /\ s[i] = r[Len(s) - i + 1]
  BY <1>1
<1> HIDE DEF r
<1>3. CASE /\ FirstMatch(setup, r) = Fallback
           /\ \A i \in 1..Len(r) : ~MatchesException(setup, r[i])
  BY <1>1, <1>2, <1>3 DEF r
<1>4. ASSUME NEW p \in 1..Len(r), MatchesException(setup, r[p]),
             FirstMatch(setup, r) = r[p],
             \A i \in 1..Len(r) : i < p => ~MatchesException(setup, r[i])
      PROVE  \E q \in 1..Len(s) : /\ MatchesException(setup, s[q])
                                  /\ FirstMatch(setup, r) = s[q]
                                  /\ \A i \in 1..Len(s) :
                                       i > q => ~MatchesException(setup, s[i])
  <2>1. Len(s) - p + 1 \in 1..Len(s) /\ s[Len(s) - p + 1] = r[p]
    BY <1>1
  <2>2. ASSUME NEW i \in 1..Len(s), i > Len(s) - p + 1
        PROVE  ~MatchesException(setup, s[i])
    <3>1. Len(s) - i + 1 \in 1..Len(r) /\ Len(s) - i + 1 < p
      BY <1>1, <2>2
    <3> QED BY <3>1, <1>2, <1>4
  <2> QED BY <1>4, <2>1, <2>2
<1> QED
  BY <1>1, <1>3, <1>4, FirstMatchOf DEF r

LEMMA LastMatchIs ==
  ASSUME NEW setup, NEW S, NEW s \in Seq(S), NEW p \in 1..Len(s),
         MatchesException(setup, s[p]),
         \A i \in 1..Len(s) : i > p => ~MatchesException(setup, s[i])
  PROVE  FirstMatch(setup, Reverse(s)) = s[p]
<1>1. PICK q \in 1..Len(s) : /\ MatchesException(setup, s[q])
                             /\ FirstMatch(setup, Reverse(s)) = s[q]
                             /\ \A i \in 1..Len(s) :
                                  i > q => ~MatchesException(setup, s[i])
  BY LastMatchOf
<1>2. q = p
  BY <1>1
<1> QED
  BY <1>1, <1>2

LEMMA NoMatchIs ==
  ASSUME NEW setup, NEW S, NEW s \in Seq(S),
         \A i \in 1..Len(s) : ~MatchesException(setup, s[i])
  PROVE  FirstMatch(setup, Reverse(s)) = Fallback
BY LastMatchOf

\* Wotchi among the filters, and what is left without it.
LEMMA WithoutWotchi ==
  ASSUME NEW setup \in Setups, NEW w \in 1..Len(setup.registered),
         setup.registered[w] = WotchiFilter
  PROVE  LET r == setup.registered
             t == RemoveFirst(r, WotchiFilter)
         IN  /\ t \in Seq(Filters \cup {WotchiFilter}) /\ Len(t) = Len(r) - 1
             /\ \A i \in 1..Len(t) : t[i] = IF i < w THEN r[i] ELSE r[i + 1]
             /\ PreviousGlobalFilters(setup) = Reverse(SubSeq(r, 1, w - 1))
<1> DEFINE r == setup.registered
           t == RemoveFirst(r, WotchiFilter)
           I == {i \in 1..Len(r) : r[i] = WotchiFilter}
<1>1. r \in Seq(Filters \cup {WotchiFilter})
      /\ \A i, j \in 1..Len(r) : i # j => r[i] # r[j]
  BY SetupFacts
<1>2. w \in 1..Len(r) /\ r[w] = WotchiFilter
  OBVIOUS
<1> HIDE DEF r
<1>3. /\ t \in Seq(Filters \cup {WotchiFilter}) /\ Len(t) = Len(r) - 1
      /\ \E p \in 1..Len(r) :
           /\ r[p] = WotchiFilter
           /\ \A i \in 1..Len(t) : t[i] = IF i < p THEN r[i] ELSE r[i + 1]
  BY <1>1, <1>2, FirstRemoved
<1>4. \A i \in 1..Len(t) : t[i] = IF i < w THEN r[i] ELSE r[i + 1]
  BY <1>1, <1>2, <1>3
<1>5. I = {w}
  BY <1>1, <1>2
<1>6. Min(I) = w
  BY <1>2, <1>5 DEF Min
<1>7. SelectInSeq(r, LAMBDA f : f = WotchiFilter) = w
  BY <1>5, <1>6 DEF SelectInSeq
<1>8. PreviousGlobalFilters(setup) = Reverse(SubSeq(r, 1, w - 1))
  BY <1>7 DEF PreviousGlobalFilters, r
<1> QED
  BY <1>3, <1>4, <1>8 DEF r

\* Whether Wotchi is registered first, last, between others or not at all, the
\* filter that answers is the one that would answer without it.
LEMMA Transparent ==
  ASSUME NEW setup \in Setups
  PROVE  /\ Answering(setup) = AnsweringWithoutWotchi(setup)
         /\ Answering(setup) \in Filters \cup {Fallback}
<1> DEFINE r == setup.registered
           All == Filters \cup {WotchiFilter}
<1>1. r \in Seq(All) /\ \A i, j \in 1..Len(r) : i # j => r[i] # r[j]
  BY SetupFacts
<1>2. Fallback # WotchiFilter /\ WotchiFilter \notin Filters
  BY FiltersAssumption DEF FiltersAssumption
<1>3. Dispatched(setup) = FirstMatch(setup, Reverse(r))
  BY DEF Dispatched
<1>4. CASE \A i \in 1..Len(r) : r[i] # WotchiFilter
  <2>1. RemoveFirst(r, WotchiFilter) = r
    BY <1>4 DEF RemoveFirst
  <2>2. Dispatched(setup) \in Filters \cup {Fallback}
    <3> HIDE DEF r
    <3> QED BY <1>1, <1>3, <1>4, LastMatchOf
  <2> QED
    BY <1>2, <1>3, <2>1, <2>2 DEF Answering, AnsweringWithoutWotchi
<1>5. ASSUME NEW w \in 1..Len(r), r[w] = WotchiFilter
      PROVE  /\ Answering(setup) = AnsweringWithoutWotchi(setup)
             /\ Answering(setup) \in Filters \cup {Fallback}
  <2> DEFINE t == RemoveFirst(r, WotchiFilter)
             a == SubSeq(r, 1, w - 1)
  <2>1. /\ t \in Seq(All) /\ Len(t) = Len(r) - 1
        /\ \A i \in 1..Len(t) : t[i] = IF i < w THEN r[i] ELSE r[i + 1]
        /\ PreviousGlobalFilters(setup) = Reverse(a)
    BY <1>5, WithoutWotchi
  <2>2. AnsweringWithoutWotchi(setup) = FirstMatch(setup, Reverse(t))
    BY DEF AnsweringWithoutWotchi
  <2>3. a \in Seq(All) /\ Len(a) = w - 1 /\ \A i \in 1..w - 1 : a[i] = r[i]
    BY <1>1
  <2> HIDE DEF r, t, a
  <2>4. MatchesException(setup, r[w])
    BY <1>5 DEF MatchesException
  <2>5. PICK q \in 1..Len(r) :
          /\ MatchesException(setup, r[q]) /\ Dispatched(setup) = r[q]
          /\ \A i \in 1..Len(r) : i > q => ~MatchesException(setup, r[i])
    BY <1>1, <1>3, <1>5, <2>4, LastMatchOf
  <2>6. ~(w > q)
    BY <2>4, <2>5
  <2>7. CASE q > w
    <3>1. r[q] # WotchiFilter /\ r[q] \in All
      BY <1>1, <1>5, <2>7
    <3>2. Answering(setup) = r[q]
      BY <2>5, <3>1 DEF Answering
    <3>3. q - 1 \in 1..Len(t) /\ t[q - 1] = r[q]
      BY <1>1, <1>5, <2>1, <2>7
    <3>4. ASSUME NEW i \in 1..Len(t), i > q - 1 PROVE ~MatchesException(setup, t[i])
      <4>1. i + 1 \in 1..Len(r) /\ i + 1 > q /\ t[i] = r[i + 1]
        BY <1>1, <2>1, <2>7, <3>4
      <4> QED BY <4>1, <2>5
    <3>5. FirstMatch(setup, Reverse(t)) = t[q - 1]
      BY <2>1, <2>5, <3>3, <3>4, LastMatchIs
    <3> QED
      BY <2>2, <3>1, <3>2, <3>3, <3>5
  <2>8. CASE q = w
    <3>1. Answering(setup) = FirstMatch(setup, Reverse(a))
      BY <1>5, <2>1, <2>5, <2>8 DEF Answering
    <3>2. \A i \in 1..Len(t) : i >= w => ~MatchesException(setup, t[i])
      <4> SUFFICES ASSUME NEW i \in 1..Len(t), i >= w
                   PROVE  ~MatchesException(setup, t[i])
        OBVIOUS
      <4>1. i + 1 \in 1..Len(r) /\ i + 1 > q /\ t[i] = r[i + 1]
        BY <1>1, <2>1, <2>8
      <4> QED BY <4>1, <2>5
    <3>3. \A i \in 1..Len(a) : i \in 1..Len(t) /\ i < w /\ t[i] = a[i] /\ a[i] # WotchiFilter
      BY <1>1, <1>5, <2>1, <2>3
    <3>4. CASE /\ FirstMatch(setup, Reverse(a)) = Fallback
               /\ \A i \in 1..Len(a) : ~MatchesException(setup, a[i])
      <4>1. \A i \in 1..Len(t) : ~MatchesException(setup, t[i])
        <5> SUFFICES ASSUME NEW i \in 1..Len(t), i < w
                     PROVE  ~MatchesException(setup, t[i])
          BY <3>2, <2>1, <1>5
        <5>1. i \in 1..Len(a)
          BY <2>3, <2>1
        <5> QED BY <5>1, <3>3, <3>4
      <4> QED
        BY <3>1, <3>4, <4>1, <2>1, <2>2, NoMatchIs
    <3>5. ASSUME NEW p \in 1..Len(a), MatchesException(setup, a[p]),
                 FirstMatch(setup, Reverse(a)) = a[p],
                 \A i \in 1..Len(a) : i > p => ~MatchesException(setup, a[i])
          PROVE  /\ FirstMatch(setup, Reverse(t)) = a[p]
                 /\ a[p] \in Filters
      <4>1. p \in 1..Len(t) /\ t[p] = a[p] /\ a[p] # WotchiFilter
        BY <3>3
      <4>2. ASSUME NEW i \in 1..Len(t), i > p PROVE ~MatchesException(setup, t[i])
        <5>1. CASE i < w
          <6>1. i \in 1..Len(a)
            BY <5>1, <2>3, <2>1
          <6> QED BY <6>1, <3>3, <3>5, <4>2
        <5>2. CASE ~(i < w)
          BY <5>2, <3>2, <2>1, <1>5
        <5> QED BY <5>1, <5>2
      <4>3. FirstMatch(setup, Reverse(t)) = t[p]
        BY <2>1, <3>5, <4>1, <4>2, LastMatchIs
      <4> QED
        BY <4>1, <4>3, <2>3
    <3> QED
      BY <2>2, <2>3, <3>1, <3>4, <3>5, LastMatchOf
  <2> QED
    BY <2>6, <2>7, <2>8
<1> QED
  BY <1>4, <1>5

-----------------------------------------------------------------------------
(* Type correctness.                                                       *)

LEMMA CaptureType ==
  ASSUME TypeInv, NEW e \in Errors, CaptureAfterResponse(e)
  PROVE  /\ captured' \in [Errors -> BOOLEAN] /\ errorReports' \in [Errors -> Nat]
         /\ reportedStatus' \in [Errors -> Statuses \cup {"none"}]
         /\ onFinish' \in Seq(Listeners) /\ onClose' \in Seq(Listeners)
<1>1. Off(onFinish, e) \in Seq(Listeners) /\ Off(onClose, e) \in Seq(Listeners)
  BY OffType DEF TypeInv
<1>2. CASE captured[e]
  BY <1>2 DEF TypeInv, CaptureAfterResponse, reportVars
<1>3. CASE ~captured[e]
  <2>1. /\ captured' = [captured EXCEPT ![e] = TRUE]
        /\ errorReports' = [errorReports EXCEPT ![e] = errorReports[e] + 1]
        /\ reportedStatus' = [reportedStatus EXCEPT ![e] = status]
        /\ onFinish' = Off(onFinish, e) /\ onClose' = Off(onClose, e)
    BY <1>3 DEF CaptureAfterResponse
  <2>2. captured' \in [Errors -> BOOLEAN]
    BY <2>1 DEF TypeInv
  <2>3. errorReports' \in [Errors -> Nat]
    BY <2>1 DEF TypeInv
  <2>4. reportedStatus' \in [Errors -> Statuses \cup {"none"}]
    BY <2>1 DEF TypeInv
  <2> QED
    BY <1>1, <2>1, <2>2, <2>3, <2>4
<1> QED
  BY <1>2, <1>3

LEMMA InitType == Init => TypeInv
<1> SUFFICES ASSUME Init PROVE TypeInv
  OBVIOUS
<1>1. nest \in Setups /\ status \in Statuses /\ handled \in SUBSET Errors
      /\ statusReports \in Nat /\ sentStatus \in Statuses \cup {"none"}
      /\ reassigned \in BOOLEAN
  BY DEF Init, Statuses
<1>2. ended \in BOOLEAN /\ closed \in BOOLEAN /\ finished \in BOOLEAN /\ marked \in BOOLEAN
  BY DEF Init
<1>3. onFinish \in Seq(Listeners) /\ onClose \in Seq(Listeners)
      /\ emitting \in Seq(Listeners)
  BY DEF Init
<1>4. captured \in [Errors -> BOOLEAN] /\ errorReports \in [Errors -> Nat]
  BY DEF Init
<1>5. /\ reportedStatus \in [Errors -> Statuses \cup {"none"}]
      /\ answering \in [Errors -> Filters \cup {WotchiFilter, Fallback, Nobody}]
  BY DEF Init
<1> QED
  BY <1>1, <1>2, <1>3, <1>4, <1>5 DEF TypeInv

LEMMA TypeStep == TypeInv /\ [Next]_vars => TypeInv'
<1> SUFFICES ASSUME TypeInv, [Next]_vars PROVE TypeInv'
  OBVIOUS
<1> USE DEF errorVars, responseVars, listenerVars, reportVars
<1>1. CASE Observe
  <2>1. onFinish' \in Seq(Listeners)
    BY <1>1 DEF Observe, TypeInv, Listeners
  <2> QED
    BY <1>1, <2>1 DEF Observe, TypeInv
<1>2. CASE CallListener
  <2>1. Tail(emitting) \in Seq(Listeners) /\ Head(emitting) \in Listeners
    BY <1>2 DEF CallListener, TypeInv
  <2>2. CASE Head(emitting) = Observer
    <3>1. onFinish' \in Seq(Listeners)
      BY <1>2, <2>2, OffType DEF CallListener, TypeInv
    <3>2. statusReports' \in Nat
      BY <1>2, <2>2 DEF CallListener, ObserveStatus, TypeInv
    <3> QED
      BY <1>2, <2>1, <2>2, <3>1, <3>2 DEF CallListener, TypeInv
  <2>3. CASE Head(emitting) # Observer
    <3>1. Head(emitting) \in Errors /\ CaptureAfterResponse(Head(emitting))
      BY <1>2, <2>1, <2>3 DEF CallListener, Listeners
    <3> QED
      BY <1>2, <2>1, <2>3, <3>1, CaptureType DEF CallListener, TypeInv
  <2> QED
    BY <2>2, <2>3
<1>3. ASSUME NEW e \in Errors, HandleError(e) PROVE TypeInv'
  <2>1. CASE ended
    <3>1. CaptureAfterResponse(e)
      BY <1>3, <2>1 DEF HandleError
    <3> QED
      BY <1>3, <3>1, CaptureType DEF HandleError, MarkExpressErrorCaptured, TypeInv
  <2>2. CASE ~ended
    <3>1. e \in Listeners
      BY <1>3 DEF HandleError, Listeners
    <3>2. onFinish' = Append(onFinish, e) /\ onClose' = Append(onClose, e)
      BY <1>3, <2>2 DEF HandleError, AwaitResponse
    <3>3. onFinish' \in Seq(Listeners) /\ onClose' \in Seq(Listeners)
      BY <3>1, <3>2 DEF TypeInv
    <3> QED
      BY <1>3, <2>2, <3>3
      DEF HandleError, AwaitResponse, MarkExpressErrorCaptured, TypeInv
  <2> QED
    BY <2>1, <2>2
<1>4. ASSUME NEW e \in Errors, CatchException(e) PROVE TypeInv'
  <2>1. Answering(nest) \in Filters \cup {Fallback}
    BY Transparent DEF TypeInv
  <2>2. answering' \in [Errors -> Filters \cup {WotchiFilter, Fallback, Nobody}]
    BY <1>4, <2>1 DEF CatchException, TypeInv
  <2>3. ended' \in BOOLEAN /\ status' \in Statuses /\ sentStatus' \in Statuses \cup {"none"}
    BY <1>4, PredictedType DEF CatchException, TypeInv
  <2>4. /\ marked' \in BOOLEAN /\ errorReports' \in [Errors -> Nat]
        /\ reportedStatus' \in [Errors -> Statuses \cup {"none"}]
    <3>1. CASE Captured(nest)
      <4>1. /\ marked' = TRUE
            /\ errorReports' = [errorReports EXCEPT ![e] = errorReports[e] + 1]
            /\ reportedStatus' =
                 [reportedStatus EXCEPT ![e] = PredictedStatus(nest, status)]
        BY <1>4, <3>1 DEF CatchException, CaptureException, MarkExpressErrorCaptured
      <4>2. errorReports' \in [Errors -> Nat]
        BY <4>1 DEF TypeInv
      <4> QED
        BY <4>1, <4>2, PredictedType DEF TypeInv
    <3>2. CASE ~Captured(nest)
      BY <1>4, <3>2 DEF CatchException, TypeInv
    <3> QED
      BY <3>1, <3>2
  <2> QED
    BY <1>4, <2>2, <2>3, <2>4 DEF CatchException, TypeInv
<1>5. CASE SetStatus
  BY <1>5 DEF SetStatus, TypeInv
<1>6. CASE End
  BY <1>6 DEF End, TypeInv
<1>7. CASE EmitFinish
  BY <1>7 DEF EmitFinish, TypeInv
<1>8. CASE EmitClose
  BY <1>8 DEF EmitClose, TypeInv
<1>9. CASE SendHeaders
  BY <1>9 DEF SendHeaders, TypeInv
<1>10. CASE UNCHANGED vars
  BY <1>10 DEF vars, TypeInv
<1> QED
  BY <1>1, <1>2, <1>3, <1>4, <1>5, <1>6, <1>7, <1>8, <1>9, <1>10 DEF Next

\* In every reachable state the listeners and reports are those of Express
\* errors and the observer, and a filter that answers is never Wotchi's.
THEOREM TypeCorrect == Spec => []TypeInv
BY InitType, TypeStep, PTL DEF Spec

-----------------------------------------------------------------------------
(* The inductive invariant.                                                *)

LEMMA InitInv == Init => Inv
<1> SUFFICES ASSUME Init PROVE Inv
  OBVIOUS
<1>1. /\ ~ended /\ ~finished /\ sentStatus = "none" /\ emitting = <<>> /\ handled = {}
      /\ \A e \in Errors : /\ captured[e] = FALSE /\ errorReports[e] = 0
                           /\ reportedStatus[e] = "none" /\ answering[e] = Nobody
  BY DEF Init
<1>2. Nobody # Fallback
  BY NobodyAssumption
<1>3. CountInv /\ MarkInv
  BY <1>1 DEF CountInv, MarkInv, Watched
<1>4. EndedInv
  BY <1>1 DEF EndedInv, HeadersSent
<1>5. PredictionInv /\ AnswerInv
  BY <1>1, <1>2, HttpAssumption DEF PredictionInv, AnswerInv, HttpAssumption
<1> QED
  BY <1>3, <1>4, <1>5 DEF Inv

LEMMA CountStep == TypeInv /\ CountInv /\ [Next]_vars => CountInv'
<1> SUFFICES ASSUME TypeInv, CountInv, [Next]_vars PROVE CountInv'
  OBVIOUS
<1> USE DEF errorVars, responseVars, listenerVars, reportVars
<1>0. ASSUME NEW e \in Errors \ NestErrors, CaptureAfterResponse(e),
             handled \subseteq handled', handled' \subseteq Errors
      PROVE  CountInv'
  <2>1. CASE captured[e]
    BY <1>0, <2>1 DEF CaptureAfterResponse, CountInv, TypeInv
  <2>2. CASE ~captured[e]
    <3>1. /\ captured' = [captured EXCEPT ![e] = TRUE]
          /\ errorReports' = [errorReports EXCEPT ![e] = errorReports[e] + 1]
          /\ errorReports[e] = 0
      BY <1>0, <2>2 DEF CaptureAfterResponse, CountInv
    <3>2. ASSUME NEW x \in Errors
          PROVE  /\ captured'[x] = IF x = e THEN TRUE ELSE captured[x]
                 /\ errorReports'[x] = IF x = e THEN 1 ELSE errorReports[x]
      BY <3>1 DEF TypeInv
    <3>3. ASSUME NEW x \in Errors, x \notin NestErrors
          PROVE  errorReports'[x] = IF captured'[x] THEN 1 ELSE 0
      BY <3>2, <3>3 DEF CountInv
    <3>4. ASSUME NEW x \in Errors, x \in NestErrors
          PROVE  errorReports'[x] <= IF x \in handled' THEN 1 ELSE 0
      <4>1. errorReports'[x] = errorReports[x]
        BY <1>0, <3>2, <3>4
      <4> QED BY <1>0, <3>4, <4>1 DEF CountInv, TypeInv
    <3> QED
      BY <3>3, <3>4 DEF CountInv
  <2> QED
    BY <2>1, <2>2
<1>1. CASE Observe
  BY <1>1 DEF Observe, CountInv
<1>2. CASE CallListener
  <2>1. Head(emitting) \in Listeners
    BY <1>2 DEF CallListener, TypeInv
  <2>2. CASE Head(emitting) = Observer
    BY <1>2, <2>2 DEF CallListener, CountInv
  <2>3. CASE Head(emitting) # Observer
    BY <1>0, <1>2, <2>1, <2>3 DEF CallListener, Listeners, TypeInv
  <2> QED
    BY <2>2, <2>3
<1>3. ASSUME NEW e \in Errors, HandleError(e) PROVE CountInv'
  <2>1. CASE ended
    BY <1>0, <1>3, <2>1 DEF HandleError, TypeInv
  <2>2. CASE ~ended
    BY <1>3, <2>2 DEF HandleError, AwaitResponse, CountInv, TypeInv
  <2> QED
    BY <2>1, <2>2
<1>4. ASSUME NEW e \in Errors, CatchException(e) PROVE CountInv'
  <2>1. e \in NestErrors /\ e \notin handled /\ handled' = handled \cup {e}
        /\ captured' = captured
    BY <1>4 DEF CatchException
  <2>2. \/ errorReports' = errorReports
        \/ errorReports' = [errorReports EXCEPT ![e] = @ + 1]
    BY <1>4 DEF CatchException, CaptureException
  <2> QED
    BY <2>1, <2>2 DEF CountInv, TypeInv
<1>5. CASE SetStatus
  BY <1>5 DEF SetStatus, CountInv
<1>6. CASE End
  BY <1>6 DEF End, CountInv
<1>7. CASE EmitFinish
  BY <1>7 DEF EmitFinish, CountInv
<1>8. CASE EmitClose
  BY <1>8 DEF EmitClose, CountInv
<1>9. CASE SendHeaders
  BY <1>9 DEF SendHeaders, CountInv
<1>10. CASE UNCHANGED vars
  BY <1>10 DEF vars, CountInv
<1> QED
  BY <1>1, <1>2, <1>3, <1>4, <1>5, <1>6, <1>7, <1>8, <1>9, <1>10 DEF Next

LEMMA MarkStep == TypeInv /\ MarkInv /\ [Next]_vars => MarkInv'
<1> SUFFICES ASSUME TypeInv, MarkInv, [Next]_vars PROVE MarkInv'
  OBVIOUS
<1> USE DEF errorVars, responseVars, listenerVars, reportVars
<1>1. CASE UNCHANGED <<nest, handled, marked>>
  BY <1>1 DEF MarkInv, Watched, Captured, Dispatched
<1>2. ASSUME NEW e \in Errors, HandleError(e) PROVE MarkInv'
  BY <1>2 DEF HandleError, MarkExpressErrorCaptured, MarkInv
<1>3. ASSUME NEW e \in Errors, CatchException(e) PROVE MarkInv'
  <2>1. CASE Captured(nest)
    BY <1>3, <2>1 DEF CatchException, CaptureException, MarkExpressErrorCaptured, MarkInv
  <2>2. CASE ~Captured(nest)
    <3>1. ~Captured(nest') /\ marked' = marked /\ handled' \ NestErrors = handled \ NestErrors
      BY <1>3, <2>2 DEF CatchException
    <3>2. ~Captured(nest)' /\ Watched' = Watched
      BY <3>1, <2>2 DEF Watched, Captured
    <3> QED
      BY <3>1, <3>2 DEF MarkInv
  <2> QED
    BY <2>1, <2>2
<1> QED
  BY <1>1, <1>2, <1>3
  DEF Next, Observe, CallListener, SetStatus, SendHeaders, End, EmitFinish, EmitClose, vars

\* What a report made after end() leaves of EndedInv.
LEMMA CaptureEnded ==
  ASSUME TypeInv, EndedInv, NEW e \in Errors, CaptureAfterResponse(e),
         Live => ended,
         UNCHANGED <<status, sentStatus, reassigned, ended, closed, finished>>
  PROVE  Live' => \A x \in Errors \ NestErrors :
           reportedStatus'[x] # "none" =>
             ended' /\ (reassigned' \/ reportedStatus'[x] = sentStatus')
<1>1. SUFFICES ASSUME Live, NEW x \in Errors \ NestErrors, reportedStatus'[x] # "none"
               PROVE  ended /\ (reassigned \/ reportedStatus'[x] = sentStatus)
  BY DEF Live
<1>2. reportedStatus'[x] = reportedStatus[x] \/ reportedStatus'[x] = status
  BY DEF CaptureAfterResponse, reportVars, TypeInv
<1> QED
  BY <1>1, <1>2 DEF EndedInv

LEMMA EndedStep == TypeInv /\ EndedInv /\ [Next]_vars => EndedInv'
<1> SUFFICES ASSUME TypeInv, EndedInv, [Next]_vars PROVE EndedInv'
  OBVIOUS
<1> USE DEF errorVars, responseVars, listenerVars, reportVars
<1>1. CASE Observe
  BY <1>1 DEF Observe, EndedInv, HeadersSent, Live
<1>2. CASE CallListener
  <2>1. /\ UNCHANGED <<status, sentStatus, reassigned, ended, closed, finished>>
        /\ Live => ended
    BY <1>2 DEF CallListener, EndedInv
  <2>2. Head(emitting) \in Listeners
    BY <1>2 DEF CallListener, TypeInv
  <2>3. Live' => \A x \in Errors \ NestErrors :
          reportedStatus'[x] # "none" =>
            ended' /\ (reassigned' \/ reportedStatus'[x] = sentStatus')
    <3>1. CASE Head(emitting) = Observer
      BY <1>2, <3>1, <2>1 DEF CallListener, EndedInv, Live
    <3>2. CASE Head(emitting) # Observer
      BY <1>2, <3>2, <2>1, <2>2, CaptureEnded DEF CallListener, Listeners
    <3> QED
      BY <3>1, <3>2
  <2> QED
    BY <1>2, <2>1, <2>3 DEF CallListener, EndedInv, HeadersSent, Live
<1>3. ASSUME NEW e \in Errors, HandleError(e) PROVE EndedInv'
  <2>1. UNCHANGED <<status, sentStatus, reassigned, ended, closed, finished, emitting>>
    BY <1>3 DEF HandleError
  <2>2. CASE ended
    <3>1. Live' => \A x \in Errors \ NestErrors :
            reportedStatus'[x] # "none" =>
              ended' /\ (reassigned' \/ reportedStatus'[x] = sentStatus')
      BY <1>3, <2>1, <2>2, CaptureEnded DEF HandleError
    <3> QED
      BY <2>1, <3>1 DEF EndedInv, HeadersSent, Live
  <2>3. CASE ~ended
    BY <1>3, <2>1, <2>3 DEF HandleError, AwaitResponse, EndedInv, HeadersSent, Live
  <2> QED
    BY <2>2, <2>3
<1>4. ASSUME NEW e \in Errors, CatchException(e) PROVE EndedInv'
  <2>1. /\ e \in NestErrors /\ UNCHANGED <<reassigned, closed, finished, emitting>>
        /\ ended => ended'
        /\ HeadersSent => sentStatus' = sentStatus /\ status' = status
    BY <1>4 DEF CatchException, FallbackStatus
  <2>3. /\ ended' => HeadersSent'
        /\ HeadersSent' /\ ~reassigned' => status' = sentStatus'
    <3>1. CASE Answering(nest) = Fallback
      BY <1>4, <3>1, PredictedType DEF CatchException, FallbackStatus, HeadersSent, Statuses,
         EndedInv
    <3>2. CASE Answering(nest) # Fallback
      BY <1>4, <3>2 DEF CatchException, EndedInv, HeadersSent
    <3> QED
      BY <3>1, <3>2
  <2>2. \A x \in Errors \ NestErrors : reportedStatus'[x] = reportedStatus[x]
    <3>1. \/ reportedStatus' = reportedStatus
          \/ reportedStatus' = [reportedStatus EXCEPT ![e] = PredictedStatus(nest, status)]
      BY <1>4 DEF CatchException, CaptureException
    <3> QED
      BY <3>1, <2>1 DEF TypeInv
  <2> QED
    BY <2>1, <2>2, <2>3 DEF EndedInv, Live
<1>5. CASE SetStatus
  BY <1>5 DEF SetStatus, ApplicationRuns, EndedInv, HeadersSent, Live
<1>6. CASE End
  BY <1>6 DEF End, EndedInv, HeadersSent, Live, TypeInv, Statuses
<1>7. CASE EmitFinish
  BY <1>7 DEF EmitFinish, EndedInv, HeadersSent, Live
<1>8. CASE EmitClose
  BY <1>8 DEF EmitClose, EndedInv, HeadersSent, Live
<1>9. CASE SendHeaders
  BY <1>9 DEF SendHeaders, EndedInv, HeadersSent, Live
<1>10. CASE UNCHANGED vars
  BY <1>10 DEF vars, EndedInv, HeadersSent, Live
<1> QED
  BY <1>1, <1>2, <1>3, <1>4, <1>5, <1>6, <1>7, <1>8, <1>9, <1>10 DEF Next

\* A report of an Express error, or none, leaves those of NestJS alone.
LEMMA NestReportsKept ==
  ASSUME TypeInv, NEW e \in Errors \ NestErrors, CaptureAfterResponse(e)
  PROVE  \A x \in NestErrors : reportedStatus'[x] = reportedStatus[x]
BY HttpAssumption DEF HttpAssumption, CaptureAfterResponse, reportVars, TypeInv

LEMMA PredictionStep == TypeInv /\ PredictionInv /\ [Next]_vars => PredictionInv'
<1> SUFFICES ASSUME TypeInv, PredictionInv, [Next]_vars PROVE PredictionInv'
  OBVIOUS
<1> USE DEF errorVars, responseVars, listenerVars, reportVars
<1>0. ASSUME UNCHANGED <<nest, answering>>, handled \subseteq handled',
             HeadersSent => sentStatus' = sentStatus,
             \A x \in NestErrors : reportedStatus'[x] = reportedStatus[x]
      PROVE  PredictionInv'
  <2>1. nest.own # "none"
    BY SetupFacts DEF TypeInv
  <2> QED
    BY <1>0, <2>1 DEF PredictionInv, HeadersSent
<1>1. CASE Observe
  BY <1>0, <1>1 DEF Observe
<1>2. CASE CallListener
  <2>1. Head(emitting) \in Listeners
    BY <1>2 DEF CallListener, TypeInv
  <2>2. \A x \in NestErrors : reportedStatus'[x] = reportedStatus[x]
    BY <1>2, <2>1, NestReportsKept DEF CallListener, Listeners
  <2> QED
    BY <1>0, <1>2, <2>2 DEF CallListener
<1>3. ASSUME NEW e \in Errors, HandleError(e) PROVE PredictionInv'
  <2>1. e \in Errors \ NestErrors
    BY <1>3 DEF HandleError
  <2>2. \A x \in NestErrors : reportedStatus'[x] = reportedStatus[x]
    BY <1>3, <2>1, NestReportsKept DEF HandleError, AwaitResponse
  <2> QED
    BY <1>0, <1>3, <2>2 DEF HandleError
<1>4. ASSUME NEW e \in Errors, CatchException(e) PROVE PredictionInv'
  <2>1. /\ e \in NestErrors /\ e \notin handled /\ handled' = handled \cup {e}
        /\ nest' = nest /\ reportedStatus[e] = "none" /\ answering[e] = Nobody
        /\ HeadersSent => sentStatus' = sentStatus
    BY <1>4 DEF CatchException, PredictionInv
  <2>2. Nobody # Fallback
    BY NobodyAssumption
  <2>3. ASSUME NEW x \in NestErrors, x # e
        PROVE  reportedStatus'[x] = reportedStatus[x] /\ answering'[x] = answering[x]
    <3>1. /\ \/ reportedStatus' = reportedStatus
             \/ reportedStatus' = [reportedStatus EXCEPT ![e] = PredictedStatus(nest, status)]
          /\ \/ answering' = answering
             \/ answering' = [answering EXCEPT ![e] = Answering(nest)]
      BY <1>4 DEF CatchException, CaptureException
    <3> QED
      BY <3>1, <2>3, HttpAssumption DEF TypeInv, HttpAssumption
  <2>4. ASSUME answering'[e] = Fallback, nest.kind = "HttpException"
        PROVE  sentStatus' = nest.own /\ reportedStatus'[e] \in {"none", nest.own}
    <3>1. Answering(nest) = Fallback /\ ~HeadersSent
      BY <1>4, <2>1, <2>2, <2>4 DEF CatchException, TypeInv
    <3>2. sentStatus' = nest.own
      BY <1>4, <3>1, <2>4 DEF CatchException, FallbackStatus
    <3>3. \/ reportedStatus' = reportedStatus
          \/ reportedStatus' = [reportedStatus EXCEPT ![e] = nest.own]
      BY <1>4, <2>4 DEF CatchException, CaptureException, PredictedStatus
    <3> QED
      BY <3>2, <3>3, <2>1 DEF TypeInv
  <2>5. ASSUME NEW x \in NestErrors
        PROVE  /\ x \notin handled' => reportedStatus'[x] = "none" /\ answering'[x] = Nobody
               /\ answering'[x] = Fallback /\ nest'.kind = "HttpException" =>
                    sentStatus' = nest'.own /\ reportedStatus'[x] \in {"none", nest'.own}
    <3>1. CASE x = e
      BY <2>1, <2>4, <3>1
    <3>2. CASE x # e
      <4>1. nest.own # "none"
        BY SetupFacts DEF TypeInv
      <4> QED
        BY <2>1, <2>3, <3>2, <4>1 DEF PredictionInv, HeadersSent
    <3> QED
      BY <3>1, <3>2
  <2> QED
    BY <2>5 DEF PredictionInv
<1>5. CASE SetStatus
  BY <1>0, <1>5 DEF SetStatus
<1>6. CASE End
  BY <1>0, <1>6 DEF End
<1>7. CASE EmitFinish
  BY <1>0, <1>7 DEF EmitFinish
<1>8. CASE EmitClose
  BY <1>0, <1>8 DEF EmitClose
<1>9. CASE SendHeaders
  BY <1>0, <1>9 DEF SendHeaders
<1>10. CASE UNCHANGED vars
  BY <1>0, <1>10 DEF vars
<1> QED
  BY <1>1, <1>2, <1>3, <1>4, <1>5, <1>6, <1>7, <1>8, <1>9, <1>10 DEF Next

LEMMA AnswerStep == TypeInv /\ AnswerInv /\ [Next]_vars => AnswerInv'
<1> SUFFICES ASSUME TypeInv, AnswerInv, [Next]_vars PROVE AnswerInv'
  OBVIOUS
<1>1. nest' = nest /\ Answering(nest') = Answering(nest)
  BY DEF Next, Observe, CallListener, HandleError, CatchException, SetStatus, SendHeaders,
         End, EmitFinish, EmitClose, vars, errorVars
<1>2. \/ answering' = answering
      \/ \E e \in Errors : answering' = [answering EXCEPT ![e] = Answering(nest)]
  BY DEF Next, Observe, CallListener, HandleError, CatchException, SetStatus, SendHeaders,
         End, EmitFinish, EmitClose, vars, errorVars
<1>3. \A e \in NestErrors : answering'[e] \in {answering[e], Answering(nest)}
  BY <1>2, HttpAssumption DEF TypeInv, HttpAssumption
<1>4. \A e \in NestErrors : answering'[e] \in {Nobody, Answering(nest')}
  BY <1>1, <1>3 DEF AnswerInv
<1> QED
  BY <1>4 DEF AnswerInv

LEMMA InvStep == TypeInv /\ Inv /\ [Next]_vars => Inv'
BY CountStep, MarkStep, EndedStep, PredictionStep, AnswerStep DEF Inv

LEMMA Invariants == Spec => [](TypeInv /\ Inv)
<1>1. Init => TypeInv /\ Inv
  BY InitType, InitInv
<1>2. TypeInv /\ Inv /\ [Next]_vars => (TypeInv /\ Inv)'
  BY TypeStep, InvStep
<1> QED
  BY <1>1, <1>2, PTL DEF Spec

-----------------------------------------------------------------------------
(* What follows for a request.                                             *)

\* However "finish", "close" and a handler called after end() follow each
\* other, and whatever passes the filters of NestJS, an error is reported at
\* most once.
THEOREM ReportedOnce == Spec => []ErrorReportedOnce
<1>1. TypeInv /\ Inv => ErrorReportedOnce
  <2> SUFFICES ASSUME TypeInv, CountInv, NEW e \in Errors PROVE errorReports[e] <= 1
    BY DEF Inv, ErrorReportedOnce
  <2>1. CASE e \in NestErrors
    BY <2>1 DEF CountInv, TypeInv
  <2>2. CASE e \notin NestErrors
    BY <2>2 DEF CountInv
  <2> QED
    BY <2>1, <2>2
<1> QED
  BY <1>1, Invariants, PTL

\* When "finish" has been emitted, what was reported is the status that was
\* sent, unless statusCode was changed after the headers, also for the
\* HttpException that got the default answer of NestJS.
THEOREM FinalStatusReported == Spec => []ReportsFinalStatus
<1>1. TypeInv /\ Inv => ReportsFinalStatus
  BY DEF Inv, EndedInv, PredictionInv, Live, ReportsFinalStatus
<1> QED
  BY <1>1, Invariants, PTL

\* Wherever Wotchi stands among the global filters, the application answers an
\* exception with the filter it would use without Wotchi.
THEOREM AnswersUnchanged == Spec => []FilterIsTransparent
<1>1. TypeInv /\ Inv => FilterIsTransparent
  BY Transparent DEF TypeInv, Inv, AnswerInv, FilterIsTransparent
<1> QED
  BY <1>1, Invariants, PTL

\* The observer counts a status only in a request none of whose errors passed
\* an adapter, in whichever order the two were installed.
THEOREM NotDuplicated == Spec => NoStatusDuplicate
<1>1. TypeInv /\ Inv /\ [Next]_vars => [statusReports' > statusReports => Watched = {}]_vars
  <2> SUFFICES ASSUME TypeInv, MarkInv, Next, statusReports' > statusReports
               PROVE  Watched = {}
    BY DEF Inv
  <2> USE DEF errorVars, responseVars, listenerVars, reportVars
  <2>1. CASE statusReports' = statusReports
    BY <2>1 DEF TypeInv
  <2>2. CASE CallListener
    <3>1. statusReports' # statusReports
      BY DEF TypeInv
    <3>2. ~marked
      BY <2>2, <3>1 DEF CallListener, ObserveStatus
    <3> QED
      BY <3>2 DEF MarkInv
  <2> QED
    BY <2>1, <2>2
    DEF Next, Observe, HandleError, CatchException, SetStatus, SendHeaders, End, EmitFinish,
        EmitClose
<1> QED
  BY <1>1, Invariants, PTL DEF Spec, NoStatusDuplicate
=============================================================================
