--------------------------- MODULE SequenceFacts ---------------------------
(***************************************************************************)
(* Facts about least elements and sequences that the proofs about several  *)
(* components rest on: the provers cannot expand Min() of a set, and find  *)
(* the elements of what RemoveFirst() and \o build only when told.         *)
(***************************************************************************)
EXTENDS Integers, Sequences, FiniteSets, SequencesExt, SequenceTheorems,
        WellFoundedInduction, TLAPS

LEMMA LeastOf ==
  ASSUME NEW T \in SUBSET Nat, T # {}
  PROVE  \E m \in T : \A k \in T : m <= k
<1>1. PICK m \in T : \A k \in T : ~(<<k, m>> \in OpToRel(<, Nat))
  BY NatLessThanWellFounded, WFMin
<1>2. \A k \in T : ~(k < m)
  <2> TAKE k \in T
  <2>1. <<k, m>> \in Nat \X Nat
    OBVIOUS
  <2> QED BY <1>1, <2>1 DEF OpToRel
<1> QED
  BY <1>2

LEMMA MinOf ==
  ASSUME NEW T \in SUBSET Nat, T # {}
  PROVE  Min(T) \in T /\ \A k \in T : Min(T) <= k
<1>1. \E m \in T : \A k \in T : m =< k
  BY LeastOf
<1> QED
  BY <1>1 DEF Min

\* One element in front of a sequence.
LEMMA InFront ==
  ASSUME NEW S, NEW x \in S, NEW t \in Seq(S)
  PROVE  /\ <<x>> \o t \in Seq(S) /\ Len(<<x>> \o t) = Len(t) + 1
         /\ (<<x>> \o t)[1] = x /\ Head(<<x>> \o t) = x
         /\ \A i \in 2..Len(t) + 1 : (<<x>> \o t)[i] = t[i - 1]
<1>1. <<x>> \in Seq(S) /\ Len(<<x>>) = 1 /\ <<x>>[1] = x
  OBVIOUS
<1> QED
  BY <1>1

\* RemoveFirst() takes out one occurrence and closes the gap.
LEMMA FirstRemoved ==
  ASSUME NEW S, NEW s \in Seq(S), NEW e, \E i \in 1..Len(s) : s[i] = e
  PROVE  LET t == RemoveFirst(s, e)
         IN  /\ t \in Seq(S) /\ Len(t) = Len(s) - 1
             /\ \E p \in 1..Len(s) :
                  /\ s[p] = e
                  /\ \A i \in 1..Len(t) : t[i] = IF i < p THEN s[i] ELSE s[i + 1]
<1> DEFINE I == {i \in 1..Len(s) : s[i] = e}
           p == Min(I)
           a == SubSeq(s, 1, p - 1)
           b == SubSeq(s, p + 1, Len(s))
           t == RemoveFirst(s, e)
<1>1. I \in SUBSET Nat /\ I # {}
  OBVIOUS
<1>2. p \in 1..Len(s) /\ s[p] = e
  <2>1. p \in I
    <3> HIDE DEF I
    <3> QED BY <1>1, MinOf
  <2> QED
    BY <2>1
<1>3. SelectInSeq(s, LAMBDA v : v = e) = p
  BY <1>1 DEF SelectInSeq
<1> HIDE DEF p
<1>4. t = a \o b
  BY <1>2, <1>3 DEF RemoveFirst, RemoveAt
<1>5. a \in Seq(S) /\ Len(a) = p - 1 /\ \A i \in 1..p - 1 : a[i] = s[i]
  BY <1>2
<1>6. b \in Seq(S) /\ Len(b) = Len(s) - p /\ \A i \in 1..Len(s) - p : b[i] = s[p + i]
  BY <1>2
<1> HIDE DEF a, b, t
<1>7. /\ t \in Seq(S) /\ Len(t) = Len(s) - 1
      /\ \A i \in 1..Len(t) : t[i] = IF i < p THEN a[i] ELSE b[i - (p - 1)]
  <2>1. t \in Seq(S) /\ Len(t) = Len(a) + Len(b)
        /\ \A i \in 1..Len(t) : t[i] = IF i <= Len(a) THEN a[i] ELSE b[i - Len(a)]
    BY <1>4, <1>5, <1>6, ConcatProperties
  <2>2. Len(a) = p - 1 /\ Len(t) = Len(s) - 1 /\ Len(s) \in Nat
    BY <1>2, <1>5, <1>6, <2>1
  <2>3. \A i \in 1..Len(t) : i <= Len(a) <=> i < p
    BY <1>2, <2>2
  <2> QED
    BY <2>1, <2>2, <2>3
<1>8. \A i \in 1..Len(t) : t[i] = IF i < p THEN s[i] ELSE s[i + 1]
  <2> TAKE i \in 1..Len(t)
  <2>1. CASE i < p
    BY <2>1, <1>2, <1>5, <1>7
  <2>2. CASE ~(i < p)
    <3>1. i - (p - 1) \in 1..Len(s) - p /\ p + (i - (p - 1)) = i + 1
      BY <2>2, <1>2, <1>7
    <3> QED BY <3>1, <2>2, <1>6, <1>7
  <2> QED BY <2>1, <2>2
<1>9. /\ t \in Seq(S) /\ Len(t) = Len(s) - 1
      /\ \E q \in 1..Len(s) :
           /\ s[q] = e
           /\ \A i \in 1..Len(t) : t[i] = IF i < q THEN s[i] ELSE s[i + 1]
  BY <1>2, <1>7, <1>8
<1> QED
  BY <1>9 DEF t
=============================================================================
