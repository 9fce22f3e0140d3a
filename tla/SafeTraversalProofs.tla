------------------------ MODULE SafeTraversalProofs ------------------------
(***************************************************************************)
(* The safe copy of every value, however large, shared, cyclic or hostile  *)
(* its arrays and objects are, is bounded, hides what is secret, shows its *)
(* cuts and is complete where nothing had to be cut.                       *)
(***************************************************************************)
EXTENDS SafeTraversal, FiniteSetTheorems, SequenceTheorems, TLAPS

USE TraversalAssumption

-----------------------------------------------------------------------------
(* The values.                                                             *)

EntryType == [key : Keys \cup {"item"}, child : Nodes \cup {Leaf}]

LEMMA FunctionIsSequence ==
  ASSUME NEW S, NEW length \in Nat, NEW s \in [1..length -> S]
  PROVE  s \in Seq(S) /\ Len(s) = length
OBVIOUS

\* What an array or object of the application is.
LEMMA NodeFacts ==
  ASSUME heap \in [Nodes -> NodeValues], NEW n \in Nodes
  PROVE  /\ heap[n].tag \in {"array", "object", "hostile", "revoked"}
         /\ heap[n].entries \in Seq(EntryType)
         /\ Len(heap[n].entries) <= Size
         /\ heap[n].tag = "array" => \A k \in DOMAIN heap[n].entries : heap[n].entries[k].key = "item"
         /\ heap[n].tag = "object" => \A k \in DOMAIN heap[n].entries : heap[n].entries[k].key \in Keys
         /\ heap[n].tag \in {"hostile", "revoked"} => heap[n].entries = <<>>
<1>1. heap[n] \in NodeValues
  OBVIOUS
<1>2. ASSUME NEW keys, keys \subseteq Keys \cup {"item"}, NEW entries \in EntrySeqs(keys)
      PROVE  /\ entries \in Seq(EntryType)
             /\ Len(entries) <= Size
             /\ \A k \in DOMAIN entries : entries[k].key \in keys
  <2>1. PICK length \in 0..Size : entries \in [1..length -> [key : keys, child : Nodes \cup {Leaf}]]
    BY DEF EntrySeqs
  <2>2. entries \in [1..length -> EntryType]
    BY <1>2, <2>1 DEF EntryType
  <2>3. length \in Nat /\ length <= Size
    BY <2>1 DEF TraversalAssumption
  <2>4. entries \in Seq(EntryType) /\ Len(entries) = length
    BY <2>2, <2>3, FunctionIsSequence
  <2> QED BY <2>1, <2>3, <2>4
<1>3. CASE heap[n] \in [tag : {"array"}, entries : EntrySeqs({"item"})]
  <2>1. heap[n].tag = "array" /\ heap[n].entries \in EntrySeqs({"item"})
    BY <1>3
  <2> QED BY <1>2, <2>1
<1>4. CASE heap[n] \in [tag : {"object"}, entries : {entries \in EntrySeqs(Keys) : Distinct(entries)}]
  <2>1. heap[n].tag = "object" /\ heap[n].entries \in EntrySeqs(Keys)
    BY <1>4
  <2> QED BY <1>2, <2>1
<1>5. CASE heap[n] \in [tag : {"hostile", "revoked"}, entries : {<<>>}]
  <2>1. heap[n].tag \in {"hostile", "revoked"} /\ heap[n].entries = <<>>
    BY <1>5
  <2>2. Size \in Nat
    BY DEF TraversalAssumption
  <2>3. <<>> \in Seq(EntryType) /\ Len(<<>>) = 0
    OBVIOUS
  <2> QED BY <2>1, <2>2, <2>3
<1> QED BY <1>1, <1>3, <1>4, <1>5 DEF NodeValues

\* Root can be reached; what a key that is not skipped leads to can be reached
\* with what holds it; and nothing else can be.
LEMMA ReachedRoot ==
  ASSUME NEW skipped
  PROVE  Root \in Reached(skipped)
BY DEF Reached, TraversalAssumption

LEMMA ReachedChild ==
  ASSUME heap \in [Nodes -> NodeValues], NEW skipped,
         NEW n \in Reached(skipped), NEW k \in DOMAIN heap[n].entries,
         heap[n].entries[k].key \notin skipped, heap[n].entries[k].child # Leaf
  PROVE  heap[n].entries[k].child \in Reached(skipped)
<1> DEFINE c == heap[n].entries[k].child
<1>1. n \in Nodes
  BY DEF Reached
<1>2. c \in Nodes
  <2>1. heap[n].entries \in Seq(EntryType)
    BY <1>1, NodeFacts
  <2>2. heap[n].entries[k] \in EntryType
    BY <2>1
  <2> QED BY <2>2 DEF EntryType
<1>3. ASSUME NEW nodes \in SUBSET Nodes, Root \in nodes, Closed(nodes, skipped)
      PROVE  c \in nodes
  <2>1. n \in nodes
    BY <1>3 DEF Reached
  <2> QED BY <1>3, <2>1 DEF Closed
<1> QED BY <1>2, <1>3 DEF Reached

LEMMA ReachedLeast ==
  ASSUME NEW skipped, NEW nodes \in SUBSET Nodes, Root \in nodes, Closed(nodes, skipped)
  PROVE  Reached(skipped) \subseteq nodes
BY DEF Reached

LEMMA ReachedFewer ==
  ASSUME heap \in [Nodes -> NodeValues]
  PROVE  Reached(SkippedKeys) \subseteq Reached(UnsafeKeys)
<1>1. Closed(Reached(UnsafeKeys), SkippedKeys)
  BY ReachedChild DEF Closed, SkippedKeys
<1>2. Reached(UnsafeKeys) \in SUBSET Nodes
  BY DEF Reached
<1> QED BY <1>1, <1>2, ReachedRoot, ReachedLeast

LEMMA ReachedFinite ==
  ASSUME NEW skipped
  PROVE  /\ IsFiniteSet(Reached(skipped)) /\ Reached(skipped) \subseteq Nodes
         /\ IsFiniteSet(EntriesReached(skipped))
<1>1. Reached(skipped) \subseteq Nodes
  BY DEF Reached
<1>2. IsFiniteSet(Nodes) /\ IsFiniteSet(1..Size)
  BY FS_Interval DEF TraversalAssumption
<1>3. IsFiniteSet(Nodes \X (1..Size))
  BY <1>2, FS_Product
<1>4. EntriesReached(skipped) \subseteq Nodes \X (1..Size)
  BY DEF EntriesReached
<1> QED BY <1>1, <1>2, <1>3, <1>4, FS_Subset

-----------------------------------------------------------------------------
(* The inductive invariant.                                                *)

Tags == Containers \cup Markers \cup {Unreadable, "leaf"}
ItemType == [parent : Nat, entry : Nat, key : Keys \cup {"item", "[truncated]"},
             node : Nodes \cup {Leaf}, level : Nat, tag : Tags]
FrameType == [item : Nat, next : Nat, end : Nat]

TypeOK ==
  /\ heap \in [Nodes -> NodeValues]
  /\ maxKeys \in Nat \ {0} /\ maxDepth \in Nat \ {0} /\ stored \in [Keys -> Keys]
  /\ copy \in Seq(ItemType) /\ stack \in Seq(FrameType)
  /\ seen \in SUBSET Nodes /\ keysVisited \in Nat
  /\ kept \in SUBSET Nat /\ todo \in SUBSET Nat /\ keysRedacted \in Nat

\* An item whose loop has been entered; the mark of a cut; the item of an entry.
Copied(i) == copy[i].tag \in Containers
IsMark(i) == copy[i].tag = "[MaxKeys]"
Unmarked == {i \in DOMAIN copy : ~IsMark(i)}
OfEntries == Unmarked \ {1}
PlacesRead == {Place(i) : i \in OfEntries}

RootItem == [parent |-> 0, entry |-> 0, key |-> "item", node |-> Root, level |-> 0,
             tag |-> IF heap[Root].tag = "hostile" THEN Unreadable ELSE heap[Root].tag]

NoArrays == \A n \in Reached(UnsafeKeys) : heap[n].tag # "array"

\* The key that an entry is stored under.
KeyOf(n, k) ==
  IF heap[n].tag = "object" THEN stored[heap[n].entries[k].key] ELSE heap[n].entries[k].key

\* The copy begins with the root; every other item is held by an earlier one
\* that is copied, and stands for an entry of its node or for a cut.
RootFirst == copy # <<>> => copy[1] = RootItem

ItemsNest ==
  \A i \in DOMAIN copy : i # 1 =>
    /\ copy[i].parent \in 1..(i - 1) /\ Copied(copy[i].parent)
    /\ copy[i].level = copy[copy[i].parent].level + 1

MarksCut ==
  \A i \in DOMAIN copy : i # 1 /\ IsMark(i) => copy[i].key = "[truncated]" /\ copy[i].node = Leaf

ItemsOfEntries ==
  \A i \in OfEntries :
    LET entries == heap[copy[copy[i].parent].node].entries
    IN /\ copy[i].entry \in DOMAIN entries
       /\ entries[copy[i].entry].key \notin UnsafeKeys
       /\ copy[i].key = KeyOf(copy[copy[i].parent].node, copy[i].entry)
       /\ copy[i].node = entries[copy[i].entry].child

TagsAreTrue ==
  \A i \in DOMAIN copy :
    /\ copy[i].node = Leaf <=> copy[i].tag \in {"leaf", "[MaxKeys]"}
    /\ Copied(i) => copy[i].tag = heap[copy[i].node].tag /\ copy[i].level < maxDepth
    /\ copy[i].tag = Unreadable => heap[copy[i].node].tag = "hostile"
    /\ copy[i].level <= maxDepth
    /\ copy[i].node # Leaf => copy[i].node \in Reached(UnsafeKeys)

\* The calls in progress are those of an item and of all that hold it.
FramesMatch ==
  \A f \in DOMAIN stack :
    LET i == stack[f].item
    IN /\ i \in DOMAIN copy /\ Copied(i) /\ copy[i].level = f - 1
       /\ stack[f].next \in 1..(stack[f].end + 1)
       /\ stack[f].end <= Len(heap[copy[i].node].entries)
       /\ copy[i].tag = "object" => stack[f].end = Len(heap[copy[i].node].entries)

\* No array or object is copied twice, and no entry.
SeenOnce ==
  /\ \A i \in DOMAIN copy : Copied(i) => copy[i].node \in seen
  /\ \A n \in seen : \E i \in DOMAIN copy : copy[i].node = n
  /\ \A i, k \in DOMAIN copy : Copied(i) /\ Copied(k) /\ copy[i].node = copy[k].node => i = k

EntriesOnce ==
  /\ \A i, k \in OfEntries :
       copy[i].parent = copy[k].parent /\ copy[i].entry = copy[k].entry => i = k
  /\ \A i \in OfEntries : \A f \in DOMAIN stack :
       stack[f].item = copy[i].parent => copy[i].entry < stack[f].next

\* An object is cut once, and no more of it is read.
MarksOnce ==
  \A i \in DOMAIN copy \ {1} : IsMark(i) =>
    /\ \A k \in DOMAIN copy \ {1} : IsMark(k) /\ copy[k].parent = copy[i].parent => k = i
    /\ \A f \in DOMAIN stack : stack[f].item # copy[i].parent

\* keysVisited counts the entries that have been read.  A value without arrays
\* never takes the last key.
KeysCounted ==
  /\ copy # <<>> => Cardinality(Unmarked) = keysVisited + 1
  /\ Cardinality(PlacesRead) = keysVisited
  /\ keysVisited <= maxKeys
  /\ NoArrays => keysVisited <= maxKeys - 1

\* An entry of a copied object has been copied or cut, or is still to come.
EntriesCovered ==
  \A j \in DOMAIN copy :
    Copied(j) /\ (copy[j].tag = "object" \/ IsSmall) =>
      \A k \in DOMAIN heap[copy[j].node].entries :
        heap[copy[j].node].entries[k].key \notin UnsafeKeys =>
          \/ \E i \in OfEntries : copy[i].parent = j /\ copy[i].entry = k
          \/ \E i \in DOMAIN copy \ {1} : IsMark(i) /\ copy[i].parent = j
          \/ \E f \in DOMAIN stack : stack[f].item = j /\ stack[f].next <= k

\* Nothing of a small value is marked or cut.
SmallUncut ==
  IsSmall => /\ \A i \in DOMAIN copy : copy[i].tag \notin Markers
             /\ \A f \in DOMAIN stack :
                  stack[f].end = Len(heap[copy[stack[f].item].node].entries)

Phases ==
  /\ kept # {} => copy # <<>> /\ stack = <<>>
  /\ copy = <<>> => stack = <<>> /\ seen = {} /\ keysVisited = 0
  /\ kept = {} => todo = {} /\ keysRedacted = 0

\* The second traversal writes what is held by what it has entered, unless it
\* was replaced, until its keys are used up.
Redacting ==
  kept # {} =>
    /\ 1 \in kept /\ kept \subseteq DOMAIN copy
    /\ todo \subseteq DOMAIN copy /\ todo \cap kept = {}
    /\ Cardinality(kept) = keysRedacted + 1 /\ keysRedacted <= maxKeys
    /\ \A i \in (kept \cup todo) \ {1} : Entered(copy[i].parent)
    /\ \/ keysRedacted >= maxKeys
       \/ \A i \in DOMAIN copy \ {1} :
            Entered(copy[i].parent) /\ ~Overwritten(i) => i \in kept \cup todo
    /\ \A i \in kept : Entered(i) => copy[i].node \in Reached(SkippedKeys)

Traversal ==
  /\ RootFirst /\ ItemsNest /\ MarksCut /\ ItemsOfEntries /\ TagsAreTrue
  /\ FramesMatch /\ SeenOnce /\ EntriesOnce /\ MarksOnce /\ Phases

\* As long as nothing has been thrown.
IInv == TypeOK /\ Traversal /\ KeysCounted /\ EntriesCovered /\ SmallUncut /\ Redacting

\* A revoked proxy has been met: nothing but a text is left of the copy.
CaughtItem == [parent |-> 0, entry |-> 0, key |-> "item", node |-> Root, level |-> 0,
               tag |-> Unreadable]

Aborted ==
  /\ TypeOK /\ copy = <<CaughtItem>> /\ stack = <<>>
  /\ kept \subseteq {1} /\ todo = {} /\ keysRedacted = 0
  /\ \E n \in Reached(UnsafeKeys) : heap[n].tag = "revoked"

-----------------------------------------------------------------------------
(* What the steps do.                                                      *)

\* The steps, and what is left alone by each.
Begins == Start /\ heap[Root].tag # "revoked"
Reads == /\ ReadItem \/ ReadKey
         /\ Tag(Current.child, copy[Frame.item].level + 1) # "revoked"
Moves == SkipKey \/ BreakItems \/ Return
Redacts ==
  RedactRoot \/ (\E i \in todo : RedactEntry(i)) \/ BreakEntries \/ UNCHANGED vars

\* A step in which nothing is thrown, and one in which something is.
Step == Begins \/ Reads \/ MarkCut \/ Moves \/ Redacts
Throws == /\ Catch /\ kept = {}
          /\ \E n \in Reached(UnsafeKeys) : heap[n].tag = "revoked"

LEMMA Statics ==
  ASSUME UNCHANGED limits
  PROVE  /\ \A skipped : Reached(skipped)' = Reached(skipped)
         /\ \A skipped : EntriesReached(skipped)' = EntriesReached(skipped)
         /\ Reached(SkippedKeys)' = Reached(SkippedKeys)
         /\ IsSmall' <=> IsSmall
         /\ NoArrays' <=> NoArrays
         /\ \A n, k : KeyOf(n, k)' = KeyOf(n, k)
<1>1. heap' = heap /\ maxKeys' = maxKeys /\ maxDepth' = maxDepth /\ stored' = stored
  BY DEF limits
<1>2. \A skipped : Reached(skipped)' = Reached(skipped)
  BY <1>1 DEF Reached, Closed
<1>3. \A skipped : EntriesReached(skipped)' = EntriesReached(skipped)
  BY <1>1, <1>2 DEF EntriesReached
<1>4. \A node : References(node)' = References(node)
  BY <1>1, <1>3 DEF References, Child
<1>5. KeysStayApart' <=> KeysStayApart
  BY <1>1, <1>2 DEF KeysStayApart
<1>6. IsSmall' <=> IsSmall
  BY <1>1, <1>2, <1>3, <1>4, <1>5 DEF IsSmall
<1>7. NoArrays' <=> NoArrays
  BY <1>1, <1>2 DEF NoArrays
<1>8. \A n, k : KeyOf(n, k)' = KeyOf(n, k)
  BY <1>1 DEF KeyOf
<1>9. Reached(SkippedKeys)' = Reached(SkippedKeys)
  BY <1>1, <1>2 DEF Reached, Closed, SkippedKeys, HiddenKeys
<1> QED BY <1>2, <1>3, <1>6, <1>7, <1>8, <1>9

\* The item of a loop, and the entry that a turn of it is about.
NewItem == [parent |-> Frame.item, entry |-> Frame.next,
            key |-> KeyOf(copy[Frame.item].node, Frame.next),
            node |-> Current.child, level |-> copy[Frame.item].level + 1,
            tag |-> Tag(Current.child, copy[Frame.item].level + 1)]

LEMMA TagFacts ==
  ASSUME TypeOK, NEW node \in Nodes \cup {Leaf}, NEW level \in Nat,
         Tag(node, level) # "revoked"
  PROVE  LET tag == Tag(node, level)
         IN /\ tag \in Tags /\ tag # "[MaxKeys]"
            /\ tag = "leaf" <=> node = Leaf
            /\ tag \in Containers => /\ tag = heap[node].tag /\ level < maxDepth
                                     /\ node \in Nodes \ seen
            /\ tag = Unreadable => heap[node].tag = "hostile" /\ node \notin seen
            /\ node # Leaf /\ node \notin seen /\ level < maxDepth =>
                 tag = IF heap[node].tag = "hostile" THEN Unreadable ELSE heap[node].tag
<1>1. CASE node = Leaf
  BY <1>1 DEF Tag, Tags, Containers, Markers, Unreadable
<1>2. CASE node # Leaf
  <2>1. heap[node].tag \in {"array", "object", "hostile", "revoked"}
    BY <1>2, NodeFacts DEF TypeOK
  <2>2. maxDepth \in Nat
    BY DEF TypeOK
  <2> DEFINE tag == Tag(node, level)
  <2>3. CASE level >= maxDepth
    <3>1. tag = "[MaxDepth]"
      BY <1>2, <2>3 DEF Tag, TooDeep
    <3> QED BY <1>2, <2>2, <2>3, <3>1 DEF Tags, Containers, Markers, Unreadable
  <2>4. CASE ~(level >= maxDepth) /\ node \in seen
    <3>1. tag = "[Circular]"
      BY <1>2, <2>4 DEF Tag, TooDeep
    <3> QED BY <1>2, <2>2, <2>4, <3>1 DEF Tags, Containers, Markers, Unreadable
  <2>5. CASE ~(level >= maxDepth) /\ node \notin seen
    <3>1. tag = IF heap[node].tag = "hostile" THEN Unreadable ELSE heap[node].tag
      BY <1>2, <2>5 DEF Tag, TooDeep
    <3>2. level < maxDepth
      BY <2>2, <2>5
    <3> QED BY <1>2, <2>1, <2>5, <3>1, <3>2 DEF Tags, Containers, Markers, Unreadable
  <2> QED BY <2>3, <2>4, <2>5
<1> QED BY <1>1, <1>2

LEMMA TurnFacts ==
  ASSUME TypeOK, Traversal, Turn
  PROVE  /\ stack # <<>> /\ Len(stack) \in DOMAIN stack /\ Frame \in FrameType
         /\ Frame.item \in DOMAIN copy /\ Copied(Frame.item)
         /\ copy[Frame.item] \in ItemType
         /\ copy[Frame.item].level = Len(stack) - 1
         /\ copy[Frame.item].node \in Nodes
         /\ copy[Frame.item].node \in Reached(UnsafeKeys)
         /\ Looped.tag = copy[Frame.item].tag
         /\ Frame.next \in DOMAIN Looped.entries /\ Frame.next <= Frame.end
         /\ Current \in EntryType
         /\ Looped.tag = "array" => Current.key = "item" /\ Current.key \notin UnsafeKeys
         /\ Looped.tag = "object" => Current.key \in Keys
         /\ KeyOf(copy[Frame.item].node, Frame.next)
              = IF Looped.tag = "object" THEN stored[Current.key] ELSE Current.key
         /\ kept = {}
<1>1. stack # <<>> /\ Len(stack) \in DOMAIN stack /\ Frame \in FrameType
  BY DEF Turn, TypeOK, Frame
<1>2. /\ Frame.item \in DOMAIN copy /\ Copied(Frame.item)
      /\ copy[Frame.item].level = Len(stack) - 1
      /\ Frame.next \in 1..(Frame.end + 1)
      /\ Frame.end <= Len(Looped.entries)
  BY <1>1 DEF Traversal, FramesMatch, Frame, Looped
<1>3. copy[Frame.item] \in ItemType
  BY <1>2 DEF TypeOK
<1>4. /\ copy[Frame.item].node # Leaf
      /\ Looped.tag = copy[Frame.item].tag
      /\ copy[Frame.item].node \in Reached(UnsafeKeys)
  BY <1>2 DEF Traversal, TagsAreTrue, Copied, Containers, Looped
<1>5. copy[Frame.item].node \in Nodes
  BY <1>3, <1>4 DEF ItemType
<1>6. /\ Looped.entries \in Seq(EntryType)
      /\ Looped.tag = "array" => \A k \in DOMAIN Looped.entries : Looped.entries[k].key = "item"
      /\ Looped.tag = "object" => \A k \in DOMAIN Looped.entries : Looped.entries[k].key \in Keys
  BY <1>5, NodeFacts DEF TypeOK, Looped
<1>7. Frame.next \in DOMAIN Looped.entries /\ Frame.next <= Frame.end
  BY <1>1, <1>2, <1>6 DEF Turn, FrameType
<1>8. Current \in EntryType
  BY <1>6, <1>7 DEF Current
<1>9. /\ Looped.tag = "array" => Current.key = "item" /\ Current.key \notin UnsafeKeys
      /\ Looped.tag = "object" => Current.key \in Keys
  BY <1>6, <1>7 DEF TraversalAssumption, Current
<1>10. kept = {}
  BY <1>1 DEF Traversal, Phases
<1>11. KeyOf(copy[Frame.item].node, Frame.next)
         = IF Looped.tag = "object" THEN stored[Current.key] ELSE Current.key
  BY DEF KeyOf, Looped, Current
<1> QED BY <1>1, <1>2, <1>3, <1>4, <1>5, <1>7, <1>8, <1>9, <1>10, <1>11

\* The copy grows by an item.
LEMMA AppendFacts ==
  ASSUME copy \in Seq(ItemType), NEW x \in ItemType, copy' = Append(copy, x)
  PROVE  /\ copy' \in Seq(ItemType) /\ Len(copy') = Len(copy) + 1
         /\ DOMAIN copy = 1..Len(copy) /\ DOMAIN copy' = 1..(Len(copy) + 1)
         /\ copy'[Len(copy) + 1] = x
         /\ \A i \in DOMAIN copy : copy'[i] = copy[i]
OBVIOUS

\* The loop goes on with its next entry; it is left.
LEMMA NextTurnFacts ==
  ASSUME stack \in Seq(FrameType), stack # <<>>
  PROVE  /\ NextTurn \in Seq(FrameType) /\ Len(NextTurn) = Len(stack)
         /\ \A f \in DOMAIN stack :
              /\ NextTurn[f].item = stack[f].item /\ NextTurn[f].end = stack[f].end
              /\ NextTurn[f].next = IF f = Len(stack) THEN stack[f].next + 1 ELSE stack[f].next
<1>1. Len(stack) \in DOMAIN stack /\ stack[Len(stack)] \in FrameType
  OBVIOUS
<1>2. [stack[Len(stack)] EXCEPT !.next = @ + 1] \in FrameType
  BY <1>1 DEF FrameType
<1>3. NextTurn = [stack EXCEPT ![Len(stack)] = [stack[Len(stack)] EXCEPT !.next = @ + 1]]
  BY DEF NextTurn
<1>4. \A f \in DOMAIN stack :
        /\ NextTurn[f].item = stack[f].item /\ NextTurn[f].end = stack[f].end
        /\ NextTurn[f].next = IF f = Len(stack) THEN stack[f].next + 1 ELSE stack[f].next
  BY <1>1, <1>3 DEF FrameType
<1>5. NextTurn \in Seq(FrameType) /\ Len(NextTurn) = Len(stack)
  BY <1>1, <1>2, <1>3
<1> QED BY <1>4, <1>5

LEMMA LeaveFacts ==
  ASSUME stack \in Seq(FrameType), stack # <<>>
  PROVE  /\ Leave \in Seq(FrameType) /\ Len(Leave) = Len(stack) - 1
         /\ DOMAIN Leave \subseteq DOMAIN stack
         /\ DOMAIN stack = DOMAIN Leave \cup {Len(stack)}
         /\ \A f \in DOMAIN Leave : Leave[f] = stack[f]
<1>1. Len(stack) \in Nat /\ Len(stack) >= 1
  OBVIOUS
<1> DEFINE n == Len(stack) - 1
<1>2. n \in Int /\ n >= 0 /\ 1 \in Int /\ \A f \in 1..n : stack[f] \in FrameType
  BY <1>1
<1>3. Leave = SubSeq(stack, 1, n)
  BY DEF Leave
<1> HIDE DEF n
<1>4. /\ SubSeq(stack, 1, n) \in Seq(FrameType)
      /\ Len(SubSeq(stack, 1, n)) = IF 1 <= n THEN n - 1 + 1 ELSE 0
      /\ \A f \in 1..(n - 1 + 1) : SubSeq(stack, 1, n)[f] = stack[1 + f - 1]
  BY <1>2, SubSeqProperties
<1>5. Leave \in Seq(FrameType) /\ Len(Leave) = n
  BY <1>2, <1>3, <1>4
<1>6. \A f \in 1..n : Leave[f] = stack[f]
  <2> TAKE f \in 1..n
  <2>1. f \in 1..(n - 1 + 1) /\ 1 + f - 1 = f
    BY <1>2
  <2>2. SubSeq(stack, 1, n)[f] = stack[f]
    BY <1>4, <2>1
  <2> QED BY <1>3, <2>2
<1> QED BY <1>1, <1>5, <1>6 DEF n

\* The loop over an array ends with the array or with the keys that are left.
LEMMA EndFacts ==
  ASSUME TypeOK, NEW node \in Nodes, NEW visited \in Nat, visited <= maxKeys
  PROVE  LET length == Len(heap[node].entries)
         IN /\ End(node, visited) \in Nat /\ End(node, visited) <= length
            /\ heap[node].tag = "object" \/ length <= maxKeys - visited =>
                 End(node, visited) = length
<1>1. Len(heap[node].entries) \in Nat
  BY NodeFacts DEF TypeOK
<1>2. maxKeys \in Nat
  BY DEF TypeOK
<1> QED BY <1>1, <1>2 DEF End

\* An item x is appended, and a loop over it begins if it has one; `frames` are
\* the other calls.
Calls(x, frames) ==
  /\ copy' = Append(copy, x)
  /\ seen' = IF x.tag \in Containers \cup {Unreadable} THEN seen \cup {x.node} ELSE seen
  /\ stack' \in Seq(FrameType)
  /\ \A f \in DOMAIN frames : f \in DOMAIN stack' /\ stack'[f] = frames[f]
  /\ x.tag \notin Containers => stack' = frames
  /\ x.tag \in Containers =>
       /\ DOMAIN stack' = DOMAIN frames \cup {Len(frames) + 1}
       /\ stack'[Len(frames) + 1].item = Len(copy) + 1
       /\ stack'[Len(frames) + 1].next = 1
       /\ LET end == stack'[Len(frames) + 1].end
              length == Len(heap[x.node].entries)
          IN /\ end \in Nat /\ end <= length
             /\ x.tag = "object" \/ length <= maxKeys - keysVisited' => end = length
  /\ UNCHANGED <<limits, redacting>>

LEMMA CallFacts ==
  ASSUME TypeOK,
         NEW parent \in Nat, NEW entry \in Nat, NEW key \in Keys \cup {"item"},
         NEW node \in Nodes \cup {Leaf}, NEW level \in Nat,
         NEW frames \in Seq(FrameType), NEW visited \in Nat, visited <= maxKeys,
         Tag(node, level) # "revoked",
         Copying(parent, entry, key, node, level, frames, visited)
  PROVE  LET x == [parent |-> parent, entry |-> entry, key |-> key, node |-> node,
                   level |-> level, tag |-> Tag(node, level)]
         IN x \in ItemType /\ Calls(x, frames) /\ keysVisited' = visited
<1> DEFINE tag == Tag(node, level)
           x == [parent |-> parent, entry |-> entry, key |-> key, node |-> node,
                 level |-> level, tag |-> tag]
           frame == [item |-> Len(copy) + 1, next |-> 1, end |-> End(node, visited)]
<1>1. /\ tag \in Tags
      /\ tag \in Containers => tag = heap[node].tag /\ node \in Nodes
  BY TagFacts
<1>2. x \in ItemType /\ x.tag = tag /\ x.node = node
  BY <1>1 DEF ItemType
<1>3. /\ copy' = Append(copy, x)
      /\ seen' = IF tag \in Containers \cup {Unreadable} THEN seen \cup {node} ELSE seen
      /\ stack' = IF tag \in Containers THEN Append(frames, frame) ELSE frames
      /\ keysVisited' = visited
      /\ UNCHANGED <<limits, redacting>>
  BY DEF Copying
<1>4. ASSUME tag \notin Containers PROVE Calls(x, frames)
  BY <1>2, <1>3, <1>4 DEF Calls
<1>5. ASSUME tag \in Containers PROVE Calls(x, frames)
  <2>1. /\ End(node, visited) \in Nat /\ End(node, visited) <= Len(heap[node].entries)
        /\ \/ heap[node].tag = "object"
           \/ Len(heap[node].entries) <= maxKeys - visited
           => End(node, visited) = Len(heap[node].entries)
    BY <1>1, <1>5, EndFacts
  <2>2. frame \in FrameType
    BY <2>1 DEF FrameType, TypeOK
  <2>3. stack' = Append(frames, frame)
    BY <1>3, <1>5
  <2>4. /\ stack' \in Seq(FrameType)
        /\ DOMAIN stack' = DOMAIN frames \cup {Len(frames) + 1}
        /\ stack'[Len(frames) + 1] = frame
        /\ \A f \in DOMAIN frames : f \in DOMAIN stack' /\ stack'[f] = frames[f]
    <3> HIDE DEF frame
    <3> QED BY <2>2, <2>3
  <2>5. /\ stack'[Len(frames) + 1].item = Len(copy) + 1
        /\ stack'[Len(frames) + 1].next = 1
        /\ stack'[Len(frames) + 1].end = End(node, visited)
    BY <2>4
  <2> HIDE DEF frame, tag, x
  <2> QED BY <1>1, <1>2, <1>3, <1>5, <2>1, <2>4, <2>5 DEF Calls
<1> QED BY <1>2, <1>3, <1>4, <1>5

LEMMA StartFacts ==
  ASSUME IInv, Begins
  PROVE  /\ copy = <<>> /\ stack = <<>> /\ seen = {} /\ keysVisited = 0 /\ kept = {}
         /\ RootItem \in ItemType /\ Calls(RootItem, <<>>) /\ keysVisited' = 0
<1> USE DEF IInv
<1>1. copy = <<>> /\ stack = <<>> /\ seen = {} /\ keysVisited = 0 /\ kept = {}
  BY DEF Begins, Start, Traversal, Phases
<1>2. Root \in Nodes /\ maxDepth \in Nat \ {0} /\ maxKeys \in Nat \ {0} /\ Root # Leaf
  BY DEF TraversalAssumption, TypeOK
<1>3. Tag(Root, 0) = IF heap[Root].tag = "hostile" THEN Unreadable ELSE heap[Root].tag
  BY <1>1, <1>2 DEF Tag, TooDeep
<1>4. Tag(Root, 0) # "revoked" /\ Copying(0, 0, "item", Root, 0, <<>>, 0)
  BY <1>3 DEF Begins, Start, NormalizeValue, Unreadable
<1>5. <<>> \in Seq(FrameType)
  OBVIOUS
<1> HIDE DEF IInv
<1>6. /\ TypeOK /\ 0 \in Nat /\ 0 <= maxKeys
      /\ "item" \in Keys \cup {"item"} /\ Root \in Nodes \cup {Leaf}
  BY <1>2 DEF IInv
<1>7. LET x == [parent |-> 0, entry |-> 0, key |-> "item", node |-> Root,
                level |-> 0, tag |-> Tag(Root, 0)]
      IN x \in ItemType /\ Calls(x, <<>>) /\ keysVisited' = 0
  BY <1>4, <1>5, <1>6, CallFacts
<1> QED BY <1>1, <1>3, <1>7 DEF RootItem

LEMMA ReadFacts ==
  ASSUME IInv, Reads
  PROVE  /\ Turn /\ NewItem \in ItemType /\ Current.key \notin UnsafeKeys
         /\ Tag(Current.child, copy[Frame.item].level + 1) # "revoked"
         /\ Calls(NewItem, NextTurn) /\ keysVisited' = keysVisited + 1
         /\ keysVisited + 1 <= maxKeys
         /\ Looped.tag = "object" => keysVisited + 1 <= maxKeys - 1
<1> DEFINE key == KeyOf(copy[Frame.item].node, Frame.next)
<1>1. /\ Turn /\ TypeOK /\ Traversal
      /\ Tag(Current.child, copy[Frame.item].level + 1) # "revoked"
  BY DEF IInv, Reads, ReadItem, ReadKey
<1>2. /\ Frame \in FrameType /\ copy[Frame.item] \in ItemType /\ Current \in EntryType
      /\ stack # <<>>
      /\ Looped.tag = "array" => Current.key = "item" /\ Current.key \notin UnsafeKeys
      /\ Looped.tag = "object" => Current.key \in Keys
      /\ key = IF Looped.tag = "object" THEN stored[Current.key] ELSE Current.key
  BY <1>1, TurnFacts
<1>3. maxKeys \in Nat /\ keysVisited \in Nat /\ maxKeys # 0
  BY <1>1 DEF TypeOK
<1>4. /\ keysVisited + 1 <= maxKeys
      /\ Looped.tag = "object" => keysVisited + 1 <= maxKeys - 1
  BY <1>3 DEF Reads, ReadItem, ReadKey, Exhausted, KeysLeft
<1>5. NextTurn \in Seq(FrameType)
  BY <1>1, <1>2, NextTurnFacts DEF TypeOK
<1>6. Copying(Frame.item, Frame.next, key, Current.child,
              copy[Frame.item].level + 1, NextTurn, keysVisited + 1)
  <2>1. CASE ReadItem
    <3>1. key = Current.key
      BY <1>2, <2>1 DEF ReadItem
    <3> HIDE DEF key
    <3> QED BY <1>1, <2>1, <3>1 DEF ReadItem, Read, NormalizeValue
  <2>2. CASE ReadKey
    <3>1. key = stored[Current.key]
      BY <1>2, <2>2 DEF ReadKey
    <3> HIDE DEF key
    <3> QED BY <1>1, <2>2, <3>1 DEF ReadKey, Read, NormalizeValue
  <2> QED BY <2>1, <2>2 DEF Reads
<1>7. /\ Frame.item \in Nat /\ Frame.next \in Nat
      /\ key \in Keys \cup {"item"} /\ Current.child \in Nodes \cup {Leaf}
      /\ copy[Frame.item].level + 1 \in Nat /\ keysVisited + 1 \in Nat
  <2>1. key \in Keys \cup {"item"}
    <3>1. Looped.tag = "array" \/ Looped.tag = "object"
      BY DEF Reads, ReadItem, ReadKey
    <3>2. stored \in [Keys -> Keys]
      BY <1>1 DEF TypeOK
    <3> HIDE DEF key
    <3> QED BY <1>2, <3>1, <3>2
  <2> QED BY <1>2, <1>3, <2>1 DEF FrameType, ItemType, EntryType
<1>8. NewItem \in ItemType /\ Calls(NewItem, NextTurn) /\ keysVisited' = keysVisited + 1
  BY <1>1, <1>4, <1>5, <1>6, <1>7, CallFacts DEF NewItem
<1>9. Current.key \notin UnsafeKeys
  BY <1>2 DEF Reads, ReadItem, ReadKey
<1> QED BY <1>1, <1>4, <1>8, <1>9

MarkItem == [parent |-> Frame.item, entry |-> 0, key |-> "[truncated]", node |-> Leaf,
             level |-> copy[Frame.item].level + 1, tag |-> "[MaxKeys]"]

LEMMA MarkFacts ==
  ASSUME IInv, MarkCut
  PROVE  /\ Turn /\ Looped.tag = "object" /\ MarkItem \in ItemType
         /\ Current.key \notin UnsafeKeys
         /\ copy' = Append(copy, MarkItem) /\ stack' = Leave
         /\ UNCHANGED <<limits, seen, keysVisited, redacting>>
<1>1. Turn /\ Looped.tag = "object" /\ copy' = Append(copy, MarkItem) /\ stack' = Leave
  BY DEF MarkCut, MarkItem
<1>2. Frame \in FrameType /\ copy[Frame.item] \in ItemType
  BY <1>1, TurnFacts DEF IInv
<1>3. MarkItem \in ItemType
  BY <1>2 DEF MarkItem, FrameType, ItemType, Tags, Markers
<1> QED BY <1>1, <1>3 DEF MarkCut

LEMMA StepKinds ==
  ASSUME Step
  PROVE  /\ UNCHANGED limits
         /\ Begins \/ Reads \/ MarkCut \/ Moves \/ Redacts
<1>1. CASE Begins \/ Reads
  BY <1>1 DEF Begins, Start, Reads, ReadItem, ReadKey, Read, NormalizeValue, Catch, Copying
<1>2. CASE MarkCut \/ Moves
  BY <1>2 DEF MarkCut, Moves, SkipKey, BreakItems, Return
<1>3. CASE Redacts
  BY <1>3 DEF Redacts, RedactRoot, RedactEntry, BreakEntries, vars, limits
<1> QED BY <1>1, <1>2, <1>3 DEF Step

LEMMA MoveFacts ==
  ASSUME IInv, Moves
  PROVE  /\ UNCHANGED <<copy, seen, keysVisited, redacting>>
         /\ stack # <<>> /\ kept = {} /\ copy # <<>>
         /\ \/ SkipKey /\ Turn /\ stack' = NextTurn
            \/ (BreakItems \/ Return) /\ stack' = Leave
<1>1. /\ UNCHANGED <<copy, seen, keysVisited, redacting>> /\ stack # <<>>
      /\ \/ SkipKey /\ Turn /\ stack' = NextTurn
         \/ (BreakItems \/ Return) /\ stack' = Leave
  <2>1. CASE SkipKey
    BY <2>1 DEF SkipKey, Turn
  <2>2. CASE BreakItems
    BY <2>2 DEF BreakItems, Turn
  <2>3. CASE Return
    BY <2>3 DEF Return
  <2> QED BY <2>1, <2>2, <2>3 DEF Moves
<1>2. kept = {} /\ copy # <<>>
  BY <1>1 DEF IInv, Traversal, Phases
<1> QED BY <1>1, <1>2

LEMMA RedactFacts ==
  ASSUME Redacts
  PROVE  UNCHANGED <<limits, normalizing>>
BY DEF Redacts, RedactRoot, RedactEntry, BreakEntries, vars, limits, normalizing, redacting

\* What throws meets a revoked proxy that the keys lead to.
LEMMA NextKinds ==
  ASSUME IInv, [Next]_vars
  PROVE  Step \/ Throws
<1>1. CASE Start /\ heap[Root].tag = "revoked"
  <2>1. copy = <<>> /\ seen = {} /\ kept = {}
    BY <1>1 DEF Start, IInv, Traversal, Phases
  <2>2. Tag(Root, 0) = "revoked"
    <3>1. Root # Leaf /\ maxDepth \in Nat \ {0}
      BY DEF TraversalAssumption, IInv, TypeOK
    <3> QED BY <1>1, <2>1, <3>1 DEF Tag, TooDeep
  <2>3. Catch
    BY <1>1, <2>2 DEF Start, NormalizeValue
  <2> QED BY <1>1, <2>1, <2>3, ReachedRoot DEF Throws
<1>2. CASE (ReadItem \/ ReadKey) /\ Tag(Current.child, copy[Frame.item].level + 1) = "revoked"
  <2>1. Turn /\ Catch
    BY <1>2 DEF ReadItem, ReadKey, Read, NormalizeValue
  <2>2. /\ kept = {} /\ copy[Frame.item].node \in Reached(UnsafeKeys)
        /\ Frame.next \in DOMAIN heap[copy[Frame.item].node].entries
        /\ Looped.tag = "array" => Current.key \notin UnsafeKeys
    BY <2>1, TurnFacts DEF IInv, Looped
  <2>3. Current.key \notin UnsafeKeys
    BY <1>2, <2>2 DEF ReadItem, ReadKey
  <2>4. Current.child # Leaf /\ heap[Current.child].tag = "revoked"
    BY <1>2 DEF Tag, Unreadable
  <2>5. Current = heap[copy[Frame.item].node].entries[Frame.next]
    BY DEF Current, Looped
  <2>6. Current.child \in Reached(UnsafeKeys)
    BY <2>2, <2>3, <2>4, <2>5, ReachedChild DEF IInv, TypeOK
  <2> QED BY <2>1, <2>2, <2>4, <2>6 DEF Throws
<1> QED BY <1>1, <1>2 DEF Next, Step, Begins, Reads, Moves, Redacts

-----------------------------------------------------------------------------
(* Type correctness.                                                       *)

LEMMA TypeStep ==
  ASSUME IInv, Step
  PROVE  TypeOK'
<1>0. TypeOK /\ UNCHANGED limits
  BY StepKinds DEF IInv
<1>1. /\ heap' \in [Nodes -> NodeValues] /\ maxKeys' \in Nat \ {0} /\ maxDepth' \in Nat \ {0}
      /\ stored' \in [Keys -> Keys]
  BY <1>0 DEF TypeOK, limits
<1>2. ASSUME NEW x \in ItemType, NEW frames, Calls(x, frames), keysVisited' \in Nat,
             x.node \in Nodes \/ x.tag \notin Containers \cup {Unreadable}
      PROVE  TypeOK'
  <2>1. copy' \in Seq(ItemType)
    BY <1>0, <1>2, AppendFacts DEF Calls, TypeOK
  <2>2. seen' \in SUBSET Nodes
    BY <1>0, <1>2 DEF Calls, TypeOK
  <2> QED BY <1>0, <1>1, <1>2, <2>1, <2>2 DEF Calls, TypeOK, redacting
<1>3. CASE Begins
  <2>1. RootItem.node \in Nodes
    BY DEF TraversalAssumption, RootItem
  <2> QED BY <1>2, <1>3, <2>1, StartFacts
<1>4. CASE Reads
  <2>1. NewItem \in ItemType /\ Calls(NewItem, NextTurn) /\ keysVisited' \in Nat
    BY <1>0, <1>4, ReadFacts DEF TypeOK
  <2>2. Current \in EntryType /\ copy[Frame.item] \in ItemType
    BY <1>4, ReadFacts, TurnFacts DEF IInv
  <2>3. /\ Current.child \in Nodes \cup {Leaf} /\ copy[Frame.item].level + 1 \in Nat
        /\ NewItem.node = Current.child
        /\ NewItem.tag = Tag(Current.child, copy[Frame.item].level + 1)
    BY <2>2 DEF EntryType, ItemType, NewItem
  <2>4. NewItem.node \in Nodes \/ NewItem.tag \notin Containers \cup {Unreadable}
    BY <1>0, <1>4, <2>3, TagFacts, ReadFacts DEF Containers, Unreadable
  <2> QED BY <1>2, <2>1, <2>4
<1>5. CASE MarkCut
  <2>1. copy' \in Seq(ItemType)
    BY <1>0, <1>5, MarkFacts, AppendFacts DEF TypeOK
  <2>2. stack' \in Seq(FrameType)
    BY <1>0, <1>5, MarkFacts, TurnFacts, LeaveFacts DEF TypeOK, IInv
  <2> QED BY <1>0, <1>1, <1>5, <2>1, <2>2, MarkFacts DEF TypeOK, redacting
<1>6. CASE Moves
  <2>1. stack' \in Seq(FrameType)
    BY <1>0, <1>6, MoveFacts, NextTurnFacts, LeaveFacts DEF TypeOK
  <2> QED BY <1>0, <1>1, <1>6, <2>1, MoveFacts DEF TypeOK, redacting
<1>7. CASE Redacts
  <2>1. UNCHANGED normalizing
    BY <1>7, RedactFacts
  <2>2. kept' \in SUBSET Nat /\ todo' \in SUBSET Nat /\ keysRedacted' \in Nat
    <3>1. DOMAIN copy \in SUBSET Nat
      BY <1>0 DEF TypeOK
    <3>2. kept \in SUBSET Nat /\ todo \in SUBSET Nat /\ keysRedacted \in Nat
      BY <1>0 DEF TypeOK
    <3>3. \A i : Entries(i) \in SUBSET Nat
      BY <3>1 DEF Entries
    <3>4. CASE RedactRoot
      BY <3>2, <3>3, <3>4 DEF RedactRoot
    <3>5. ASSUME NEW i \in todo, RedactEntry(i)
          PROVE  kept' \in SUBSET Nat /\ todo' \in SUBSET Nat /\ keysRedacted' \in Nat
      <4>1. /\ kept' = kept \cup {i} /\ todo' = (todo \ {i}) \cup Entries(i)
            /\ keysRedacted' = keysRedacted + 1
        BY <3>5 DEF RedactEntry
      <4>2. i \in Nat /\ Entries(i) \in SUBSET Nat
        BY <3>2, <3>3
      <4>3. kept' \subseteq Nat /\ todo' \subseteq Nat
        BY <3>2, <4>1, <4>2
      <4>4. keysRedacted' \in Nat
        BY <3>2, <4>1
      <4> QED BY <4>3, <4>4
    <3>6. CASE BreakEntries
      BY <3>2, <3>6 DEF BreakEntries
    <3>7. CASE UNCHANGED vars
      BY <3>2, <3>7 DEF vars
    <3> QED BY <1>7, <3>4, <3>5, <3>6, <3>7 DEF Redacts
  <2> QED BY <1>0, <1>1, <2>1, <2>2 DEF TypeOK, normalizing
<1> QED BY <1>3, <1>4, <1>5, <1>6, <1>7, StepKinds

-----------------------------------------------------------------------------
(* The items of the copy.                                                  *)

\* What is known of the item that a turn of a loop appends.
LEMMA NewItemFacts ==
  ASSUME IInv, Reads
  PROVE  /\ NewItem.parent = Frame.item /\ Frame.item \in DOMAIN copy /\ Copied(Frame.item)
         /\ copy[Frame.item].node \in Reached(UnsafeKeys)
         /\ NewItem.entry = Frame.next
         /\ NewItem.entry \in DOMAIN heap[copy[Frame.item].node].entries
         /\ NewItem.key = KeyOf(copy[Frame.item].node, NewItem.entry)
         /\ heap[copy[Frame.item].node].entries[NewItem.entry].key \notin UnsafeKeys
         /\ NewItem.node = heap[copy[Frame.item].node].entries[NewItem.entry].child
         /\ NewItem.level = copy[Frame.item].level + 1 /\ NewItem.level = Len(stack)
         /\ NewItem.level <= maxDepth
         /\ NewItem.tag # "[MaxKeys]"
         /\ NewItem.tag = "leaf" <=> NewItem.node = Leaf
         /\ NewItem.tag \in Containers => /\ NewItem.tag = heap[NewItem.node].tag
                                          /\ NewItem.level < maxDepth
                                          /\ NewItem.node \in Nodes \ seen
         /\ NewItem.tag = Unreadable => heap[NewItem.node].tag = "hostile"
         /\ NewItem.node # Leaf => NewItem.node \in Reached(UnsafeKeys)
         /\ NewItem.node # Leaf /\ NewItem.node \notin seen /\ NewItem.level < maxDepth =>
              NewItem.tag = IF heap[NewItem.node].tag = "hostile" THEN Unreadable
                            ELSE heap[NewItem.node].tag
<1>1. /\ TypeOK /\ Traversal /\ Turn /\ Current.key \notin UnsafeKeys
      /\ Tag(Current.child, copy[Frame.item].level + 1) # "revoked"
  BY ReadFacts DEF IInv
<1>2. /\ Frame.item \in DOMAIN copy /\ Copied(Frame.item)
      /\ copy[Frame.item] \in ItemType /\ Current \in EntryType
      /\ copy[Frame.item].level = Len(stack) - 1 /\ stack # <<>>
      /\ copy[Frame.item].node \in Reached(UnsafeKeys)
      /\ Frame.next \in DOMAIN Looped.entries
  BY <1>1, TurnFacts
<1>3. /\ NewItem.parent = Frame.item /\ NewItem.entry = Frame.next
      /\ NewItem.key = KeyOf(copy[Frame.item].node, NewItem.entry)
      /\ NewItem.node = Current.child
      /\ NewItem.level = copy[Frame.item].level + 1
      /\ NewItem.tag = Tag(NewItem.node, NewItem.level)
  BY DEF NewItem
<1>4. /\ NewItem.entry \in DOMAIN heap[copy[Frame.item].node].entries
      /\ heap[copy[Frame.item].node].entries[NewItem.entry].key \notin UnsafeKeys
      /\ NewItem.node = heap[copy[Frame.item].node].entries[NewItem.entry].child
  BY <1>1, <1>2, <1>3 DEF Current, Looped
<1>5. Len(stack) \in Nat /\ maxDepth \in Nat /\ NewItem.level = Len(stack)
  BY <1>1, <1>2, <1>3 DEF TypeOK
<1>6. NewItem.level <= maxDepth
  <2>1. copy[Frame.item].level < maxDepth
    BY <1>1, <1>2 DEF Traversal, TagsAreTrue
  <2> QED BY <1>2, <1>3, <1>5, <2>1
<1>7. NewItem.node # Leaf => NewItem.node \in Reached(UnsafeKeys)
  BY <1>1, <1>2, <1>3, <1>4, ReachedChild DEF TypeOK
<1>8. NewItem.node \in Nodes \cup {Leaf} /\ NewItem.level \in Nat
  BY <1>2, <1>3, <1>5 DEF EntryType
<1>9. /\ NewItem.tag # "[MaxKeys]"
      /\ NewItem.tag = "leaf" <=> NewItem.node = Leaf
      /\ NewItem.tag \in Containers => /\ NewItem.tag = heap[NewItem.node].tag
                                       /\ NewItem.level < maxDepth
                                       /\ NewItem.node \in Nodes \ seen
      /\ NewItem.tag = Unreadable => heap[NewItem.node].tag = "hostile"
      /\ NewItem.node # Leaf /\ NewItem.node \notin seen /\ NewItem.level < maxDepth =>
           NewItem.tag = IF heap[NewItem.node].tag = "hostile" THEN Unreadable
                         ELSE heap[NewItem.node].tag
  BY <1>1, <1>3, <1>8, TagFacts
<1> QED BY <1>1, <1>2, <1>3, <1>4, <1>5, <1>6, <1>7, <1>9

\* What holds of the items keeps holding of them when another is appended.
ItemsTrue == RootFirst /\ ItemsNest /\ MarksCut /\ ItemsOfEntries /\ TagsAreTrue

LEMMA ItemsStep ==
  ASSUME IInv, Step
  PROVE  ItemsTrue'
<1>1. /\ TypeOK /\ RootFirst /\ ItemsNest /\ MarksCut /\ ItemsOfEntries /\ TagsAreTrue
      /\ heap' = heap /\ maxDepth' = maxDepth /\ stored' = stored
      /\ Reached(UnsafeKeys)' = Reached(UnsafeKeys)
  BY StepKinds, Statics DEF IInv, Traversal, limits
<1>2. ASSUME copy' = copy PROVE ItemsTrue'
  BY <1>1, <1>2 DEF ItemsTrue, RootFirst, RootItem, ItemsNest, MarksCut, ItemsOfEntries,
                    KeyOf, OfEntries, Unmarked, IsMark, TagsAreTrue, Copied
<1>3. CASE Moves \/ Redacts
  BY <1>2, <1>3, MoveFacts, RedactFacts DEF normalizing
<1>4. CASE Begins
  <2>1. DOMAIN copy' = {1} /\ copy'[1] = RootItem
    <3>1. copy = <<>> /\ RootItem \in ItemType /\ copy' = Append(copy, RootItem)
      BY <1>4, StartFacts DEF Calls
    <3> HIDE DEF RootItem
    <3>2. Len(copy) = 0 /\ copy \in Seq(ItemType)
      BY <3>1
    <3>3. DOMAIN copy' = 1..1 /\ copy'[1] = RootItem
      BY <3>1, <3>2, AppendFacts
    <3> QED BY <3>3
  <2>2. /\ RootItem.tag \in Containers \cup {Unreadable}
        /\ RootItem.tag = IF heap[Root].tag = "hostile" THEN Unreadable ELSE heap[Root].tag
        /\ RootItem.node = Root /\ Root # Leaf /\ RootItem.level = 0
        /\ maxDepth \in Nat \ {0} /\ Root \in Reached(UnsafeKeys)
    BY <1>1, <1>4, NodeFacts, ReachedRoot
       DEF TraversalAssumption, TypeOK, RootItem, Containers, Begins
  <2>3. RootFirst'
    BY <1>1, <2>1 DEF RootFirst, RootItem
  <2>4. TagsAreTrue'
    <3>1. /\ copy'[1].node = Root /\ copy'[1].level = 0 /\ copy'[1].node # Leaf
          /\ copy'[1].tag = IF heap[Root].tag = "hostile" THEN Unreadable ELSE heap[Root].tag
          /\ copy'[1].tag \in Containers \cup {Unreadable}
      BY <2>1, <2>2
    <3>2. /\ copy'[1].tag \notin {"leaf", "[MaxKeys]"}
          /\ copy'[1].tag \in Containers => copy'[1].tag = heap[Root].tag
          /\ copy'[1].tag = Unreadable => heap[Root].tag = "hostile"
      BY <1>1, <3>1, NodeFacts
         DEF Containers, Unreadable, TypeOK, TraversalAssumption
    <3>3. 0 < maxDepth' /\ 0 <= maxDepth'
      BY <1>1, <2>2
    <3> QED BY <1>1, <2>1, <2>2, <3>1, <3>2, <3>3 DEF TagsAreTrue, Copied
  <2>5. ItemsNest' /\ MarksCut' /\ ItemsOfEntries'
    BY <2>1 DEF ItemsNest, MarksCut, ItemsOfEntries, OfEntries, Unmarked
  <2> QED BY <2>3, <2>4, <2>5 DEF ItemsTrue
<1>5. ASSUME NEW x \in ItemType, copy' = Append(copy, x), copy # <<>>,
             x.parent \in DOMAIN copy, Copied(x.parent), x.level = copy[x.parent].level + 1,
             x.level <= maxDepth,
             x.tag = "[MaxKeys]" => x.key = "[truncated]" /\ x.node = Leaf,
             x.tag # "[MaxKeys]" =>
               LET entries == heap[copy[x.parent].node].entries
               IN /\ x.entry \in DOMAIN entries
                  /\ entries[x.entry].key \notin UnsafeKeys
                  /\ x.key = KeyOf(copy[x.parent].node, x.entry)
                  /\ x.node = entries[x.entry].child,
             x.node = Leaf <=> x.tag \in {"leaf", "[MaxKeys]"},
             x.tag \in Containers => x.tag = heap[x.node].tag /\ x.level < maxDepth,
             x.tag = Unreadable => heap[x.node].tag = "hostile",
             x.node # Leaf => x.node \in Reached(UnsafeKeys)
      PROVE  ItemsTrue'
  <2>1. /\ Len(copy) \in Nat \ {0} /\ DOMAIN copy = 1..Len(copy)
        /\ DOMAIN copy' = 1..(Len(copy) + 1)
        /\ copy'[Len(copy) + 1] = x /\ \A i \in DOMAIN copy : copy'[i] = copy[i]
    BY <1>1, <1>5, AppendFacts DEF TypeOK
  <2>2. \A i \in DOMAIN copy' : i \in DOMAIN copy \/ i = Len(copy) + 1
    BY <2>1
  <2>3. RootFirst'
    BY <1>1, <1>5, <2>1 DEF RootFirst, RootItem
  <2>4. ItemsNest'
    <3> SUFFICES ASSUME NEW i \in DOMAIN copy', i # 1
                 PROVE  /\ copy'[i].parent \in 1..(i - 1) /\ copy'[copy'[i].parent].tag \in Containers
                        /\ copy'[i].level = copy'[copy'[i].parent].level + 1
      BY DEF ItemsNest, Copied
    <3>1. CASE i \in DOMAIN copy
      <4>1. /\ copy[i].parent \in 1..(i - 1) /\ Copied(copy[i].parent)
            /\ copy[i].level = copy[copy[i].parent].level + 1
        BY <1>1, <3>1 DEF ItemsNest
      <4>2. copy[i].parent \in DOMAIN copy
        BY <2>1, <3>1, <4>1
      <4> QED BY <2>1, <3>1, <4>1, <4>2 DEF Copied
    <3>2. CASE i = Len(copy) + 1
      BY <1>5, <2>1, <3>2 DEF Copied
    <3> QED BY <2>2, <3>1, <3>2
  <2>5. MarksCut'
    BY <1>1, <1>5, <2>1, <2>2 DEF MarksCut, IsMark
  <2>6. ItemsOfEntries'
    <3> SUFFICES ASSUME NEW i \in DOMAIN copy', i # 1, copy'[i].tag # "[MaxKeys]"
                 PROVE  LET entries == heap[copy'[copy'[i].parent].node].entries
                        IN /\ copy'[i].entry \in DOMAIN entries
                           /\ entries[copy'[i].entry].key \notin UnsafeKeys
                           /\ copy'[i].key = KeyOf(copy'[copy'[i].parent].node, copy'[i].entry)
                           /\ copy'[i].node = entries[copy'[i].entry].child
      BY <1>1 DEF ItemsOfEntries, OfEntries, Unmarked, IsMark, KeyOf
    <3>1. CASE i \in DOMAIN copy
      <4>1. copy[i].parent \in DOMAIN copy
        BY <1>1, <2>1, <3>1 DEF ItemsNest
      <4>2. i \in OfEntries
        BY <2>1, <3>1 DEF OfEntries, Unmarked, IsMark
      <4> QED BY <1>1, <2>1, <3>1, <4>1, <4>2 DEF ItemsOfEntries
    <3>2. CASE i = Len(copy) + 1
      BY <1>5, <2>1, <3>2
    <3> QED BY <2>2, <3>1, <3>2
  <2>7. TagsAreTrue'
    BY <1>1, <1>5, <2>1, <2>2 DEF TagsAreTrue, Copied
  <2> QED BY <2>3, <2>4, <2>5, <2>6, <2>7 DEF ItemsTrue
<1>6. CASE Reads
  <2>1. NewItem \in ItemType /\ copy' = Append(copy, NewItem)
    BY <1>6, ReadFacts DEF Calls
  <2>2. Copied(Frame.item) /\ Frame.item \in DOMAIN copy /\ copy # <<>>
    BY <1>6, NewItemFacts
  <2> QED BY <1>5, <1>6, <2>1, <2>2, NewItemFacts
<1>7. CASE MarkCut
  <2>1. MarkItem \in ItemType /\ copy' = Append(copy, MarkItem) /\ Turn
    BY <1>7, MarkFacts
  <2>2. /\ Frame.item \in DOMAIN copy /\ Copied(Frame.item) /\ copy # <<>>
        /\ copy[Frame.item] \in ItemType
    BY <2>1, TurnFacts DEF IInv
  <2>3. copy[Frame.item].level < maxDepth
    BY <1>1, <2>2 DEF TagsAreTrue
  <2>4. copy[Frame.item].level + 1 <= maxDepth
    BY <1>1, <2>2, <2>3 DEF ItemType, TypeOK
  <2>5. /\ MarkItem.parent = Frame.item /\ MarkItem.level = copy[Frame.item].level + 1
        /\ MarkItem.key = "[truncated]" /\ MarkItem.node = Leaf
        /\ MarkItem.tag = "[MaxKeys]"
    BY DEF MarkItem
  <2> QED BY <1>5, <2>1, <2>2, <2>4, <2>5 DEF Containers, Unreadable
<1> QED BY <1>3, <1>4, <1>6, <1>7, StepKinds

-----------------------------------------------------------------------------
(* The calls in progress.                                                  *)

LEMMA FramesStep ==
  ASSUME IInv, Step
  PROVE  FramesMatch'
<1>1. TypeOK /\ Traversal /\ FramesMatch /\ heap' = heap
  BY StepKinds DEF IInv, Traversal, limits
<1>2. /\ copy \in Seq(ItemType) /\ stack \in Seq(FrameType) /\ Len(stack) \in Nat
      /\ \A f \in DOMAIN stack : stack[f].next \in Nat /\ stack[f].end \in Nat
  <2>1. copy \in Seq(ItemType) /\ stack \in Seq(FrameType)
    BY <1>1 DEF TypeOK
  <2>2. Len(stack) \in Nat /\ \A f \in DOMAIN stack : stack[f] \in FrameType
    BY <2>1
  <2> QED BY <2>1, <2>2 DEF FrameType
\* What holds of a frame holds of it when its turn has come and the copy has grown.
<1>3. ASSUME \A i \in DOMAIN copy : i \in DOMAIN copy' /\ copy'[i] = copy[i],
             NEW f \in DOMAIN stack, NEW next \in Nat,
             \/ next = stack[f].next
             \/ next = stack[f].next + 1 /\ stack[f].next <= stack[f].end
      PROVE  LET i == stack[f].item
             IN /\ i \in DOMAIN copy' /\ copy'[i].tag \in Containers /\ copy'[i].level = f - 1
                /\ next \in 1..(stack[f].end + 1)
                /\ stack[f].end <= Len(heap'[copy'[i].node].entries)
                /\ copy'[i].tag = "object" =>
                     stack[f].end = Len(heap'[copy'[i].node].entries)
  <2>1. LET i == stack[f].item
        IN /\ i \in DOMAIN copy /\ copy[i].tag \in Containers /\ copy[i].level = f - 1
           /\ stack[f].next \in 1..(stack[f].end + 1)
           /\ stack[f].end <= Len(heap[copy[i].node].entries)
           /\ copy[i].tag = "object" => stack[f].end = Len(heap[copy[i].node].entries)
    BY <1>1 DEF FramesMatch, Copied
  <2>2. next \in 1..(stack[f].end + 1)
    BY <1>2, <1>3, <2>1
  <2> QED BY <1>1, <1>3, <2>1, <2>2
<1>4. CASE Begins
  <2>1. /\ RootItem \in ItemType /\ Calls(RootItem, <<>>) /\ copy = <<>> /\ copy' = Append(copy, RootItem)
    BY <1>4, StartFacts DEF Calls
  <2>2. copy'[1] = RootItem /\ 1 \in DOMAIN copy' /\ Len(copy) + 1 = 1
    <3> HIDE DEF RootItem
    <3>1. Len(copy) = 0
      BY <2>1
    <3> QED BY <1>2, <2>1, <3>1, AppendFacts
  <2>3. RootItem.level = 0 /\ RootItem.node = Root
    BY DEF RootItem
  <2>4. CASE RootItem.tag \notin Containers
    BY <2>1, <2>4 DEF Calls, FramesMatch
  <2>5. CASE RootItem.tag \in Containers
    <3>1. /\ DOMAIN stack' = {1}
          /\ stack'[1].item = 1 /\ stack'[1].next = 1 /\ stack'[1].end \in Nat
          /\ stack'[1].end <= Len(heap[Root].entries)
          /\ RootItem.tag = "object" => stack'[1].end = Len(heap[Root].entries)
      BY <2>1, <2>2, <2>3, <2>5 DEF Calls
    <3>2. 1 \in 1..(stack'[1].end + 1)
      BY <3>1
    <3> QED BY <1>1, <2>2, <2>3, <2>5, <3>1, <3>2 DEF FramesMatch, Copied
  <2> QED BY <2>4, <2>5
<1>5. CASE Reads
  <2>1. /\ NewItem \in ItemType /\ Calls(NewItem, NextTurn) /\ copy' = Append(copy, NewItem)
        /\ Turn /\ stack # <<>> /\ stack[Len(stack)].next <= stack[Len(stack)].end
    BY <1>5, ReadFacts DEF Calls, Turn, Frame
  <2>2. /\ \A i \in DOMAIN copy : i \in DOMAIN copy' /\ copy'[i] = copy[i]
        /\ copy'[Len(copy) + 1] = NewItem /\ Len(copy) + 1 \in DOMAIN copy'
    BY <1>2, <2>1, AppendFacts
  <2>3. /\ DOMAIN NextTurn = DOMAIN stack /\ Len(NextTurn) = Len(stack)
        /\ \A f \in DOMAIN stack :
              /\ NextTurn[f].item = stack[f].item /\ NextTurn[f].end = stack[f].end
              /\ NextTurn[f].next = IF f = Len(stack) THEN stack[f].next + 1 ELSE stack[f].next
    BY <1>2, <2>1, NextTurnFacts
  <2>4. NewItem.level = Len(stack)
    BY <1>5, NewItemFacts
  <2> SUFFICES ASSUME NEW f \in DOMAIN stack'
               PROVE  LET i == stack'[f].item
                      IN /\ i \in DOMAIN copy' /\ copy'[i].tag \in Containers
                         /\ copy'[i].level = f - 1
                         /\ stack'[f].next \in 1..(stack'[f].end + 1)
                         /\ stack'[f].end <= Len(heap'[copy'[i].node].entries)
                         /\ copy'[i].tag = "object" =>
                              stack'[f].end = Len(heap'[copy'[i].node].entries)
    BY DEF FramesMatch, Copied
  <2>5. CASE f \in DOMAIN stack
    <3>1. /\ stack'[f].item = stack[f].item /\ stack'[f].end = stack[f].end
          /\ stack'[f].next = IF f = Len(stack) THEN stack[f].next + 1 ELSE stack[f].next
      BY <2>1, <2>3, <2>5 DEF Calls
    <3>2. stack'[f].next \in Nat
      BY <1>2, <2>5, <3>1
    <3> QED BY <1>3, <2>1, <2>2, <2>5, <3>1, <3>2
  <2>6. CASE f \notin DOMAIN stack
    <3>1. NewItem.tag \in Containers /\ f = Len(stack) + 1
      BY <2>1, <2>3, <2>6 DEF Calls
    <3>2. /\ stack'[f].item = Len(copy) + 1 /\ stack'[f].next = 1 /\ stack'[f].end \in Nat
          /\ stack'[f].end <= Len(heap[NewItem.node].entries)
          /\ NewItem.tag = "object" => stack'[f].end = Len(heap[NewItem.node].entries)
      BY <2>1, <2>3, <3>1 DEF Calls
    <3>3. 1 \in 1..(stack'[f].end + 1) /\ f - 1 = Len(stack)
      BY <1>2, <3>1, <3>2
    <3> QED BY <1>1, <2>2, <2>4, <3>1, <3>2, <3>3
  <2> QED BY <2>5, <2>6
<1>6. ASSUME \A i \in DOMAIN copy : i \in DOMAIN copy' /\ copy'[i] = copy[i],
             stack # <<>>, stack' = Leave
      PROVE  FramesMatch'
  <2>1. DOMAIN stack' \subseteq DOMAIN stack /\ \A f \in DOMAIN stack' : stack'[f] = stack[f]
    BY <1>2, <1>6, LeaveFacts
  <2> QED BY <1>2, <1>3, <1>6, <2>1 DEF FramesMatch, Copied
<1>7. CASE MarkCut
  <2>1. /\ MarkItem \in ItemType /\ copy' = Append(copy, MarkItem) /\ stack' = Leave /\ stack # <<>>
    BY <1>7, MarkFacts DEF Turn
  <2> QED BY <1>2, <1>6, <2>1, AppendFacts
<1>8. CASE Moves
  <2>1. CASE SkipKey /\ Turn /\ stack' = NextTurn
    <3>1. stack # <<>> /\ stack[Len(stack)].next <= stack[Len(stack)].end /\ copy' = copy
      BY <1>8, <2>1, MoveFacts DEF Turn, Frame
    <3>2. /\ DOMAIN stack' = DOMAIN stack
          /\ \A f \in DOMAIN stack :
              /\ stack'[f].item = stack[f].item /\ stack'[f].end = stack[f].end
              /\ stack'[f].next = IF f = Len(stack) THEN stack[f].next + 1 ELSE stack[f].next
      BY <1>2, <2>1, <3>1, NextTurnFacts
    <3>3. \A f \in DOMAIN stack : stack'[f].next \in Nat
      BY <1>2, <3>2
    <3> QED BY <1>3, <3>1, <3>2, <3>3 DEF FramesMatch, Copied
  <2>2. CASE (BreakItems \/ Return) /\ stack' = Leave
    BY <1>6, <1>8, <2>2, MoveFacts
  <2> QED BY <1>8, <2>1, <2>2, MoveFacts
<1>9. CASE Redacts
  <2>1. copy' = copy /\ stack' = stack
    BY <1>9, RedactFacts DEF normalizing
  <2> QED BY <1>1, <2>1 DEF FramesMatch, Copied
<1> QED BY <1>4, <1>5, <1>7, <1>8, <1>9, StepKinds

\* No array or object is copied twice.
LEMMA SeenStep ==
  ASSUME IInv, Step
  PROVE  SeenOnce'
<1>1. TypeOK /\ Traversal /\ SeenOnce
  BY DEF IInv, Traversal
<1>2. ASSUME NEW x \in ItemType, NEW frames, Calls(x, frames),
             x.tag \in Containers => x.node \notin seen
      PROVE  SeenOnce'
  <2>1. /\ Len(copy) \in Nat /\ DOMAIN copy = 1..Len(copy)
        /\ DOMAIN copy' = 1..(Len(copy) + 1)
        /\ copy'[Len(copy) + 1] = x /\ \A i \in DOMAIN copy : copy'[i] = copy[i]
    BY <1>1, <1>2, AppendFacts DEF TypeOK, Calls
  <2>2. \A i \in DOMAIN copy' : i \in DOMAIN copy \/ i = Len(copy) + 1
    BY <2>1
  <2>3. seen' = IF x.tag \in Containers \cup {Unreadable} THEN seen \cup {x.node} ELSE seen
    BY <1>2 DEF Calls
  <2>4. \A i \in DOMAIN copy' : Copied(i)' => copy'[i].node \in seen'
    BY <1>1, <2>1, <2>2, <2>3 DEF SeenOnce, Copied
  <2>5. \A n \in seen' : \E i \in DOMAIN copy' : copy'[i].node = n
    <3> SUFFICES ASSUME NEW n \in seen'
                 PROVE  \E i \in DOMAIN copy' : copy'[i].node = n
      OBVIOUS
    <3>1. CASE n \in seen
      BY <1>1, <2>1, <3>1 DEF SeenOnce
    <3>2. CASE n = x.node
      <4>1. Len(copy) + 1 \in DOMAIN copy'
        BY <2>1
      <4> QED BY <2>1, <3>2, <4>1
    <3> QED BY <2>3, <3>1, <3>2
  <2>6. ASSUME NEW i \in DOMAIN copy', NEW k \in DOMAIN copy',
               copy'[i].tag \in Containers, copy'[k].tag \in Containers,
               copy'[i].node = copy'[k].node
        PROVE  i = k
    <3>1. CASE i \in DOMAIN copy /\ k \in DOMAIN copy
      BY <1>1, <2>1, <2>6, <3>1 DEF SeenOnce, Copied
    <3>2. CASE i \in DOMAIN copy /\ k = Len(copy) + 1
      BY <1>1, <1>2, <2>1, <2>6, <3>2 DEF SeenOnce, Copied
    <3>3. CASE i = Len(copy) + 1 /\ k \in DOMAIN copy
      BY <1>1, <1>2, <2>1, <2>6, <3>3 DEF SeenOnce, Copied
    <3> QED BY <2>2, <3>1, <3>2, <3>3
  <2> QED BY <2>4, <2>5, <2>6 DEF SeenOnce, Copied
<1>3. CASE Begins
  BY <1>2, <1>3, StartFacts
<1>4. CASE Reads
  BY <1>2, <1>4, ReadFacts, NewItemFacts
<1>5. CASE MarkCut
  <2>1. /\ MarkItem \in ItemType /\ copy' = Append(copy, MarkItem) /\ seen' = seen
        /\ MarkItem.tag \notin Containers
    BY <1>5, MarkFacts DEF MarkItem, Containers
  <2>2. /\ Len(copy) \in Nat /\ DOMAIN copy = 1..Len(copy)
        /\ DOMAIN copy' = 1..(Len(copy) + 1)
        /\ copy'[Len(copy) + 1] = MarkItem /\ \A i \in DOMAIN copy : copy'[i] = copy[i]
    BY <1>1, <2>1, AppendFacts DEF TypeOK
  <2>3. \A i \in DOMAIN copy' : i \in DOMAIN copy \/ i = Len(copy) + 1
    BY <2>2
  <2> QED BY <1>1, <2>1, <2>2, <2>3 DEF SeenOnce, Copied
<1>6. CASE Moves \/ Redacts
  <2>1. copy' = copy /\ seen' = seen
    BY <1>6, MoveFacts, RedactFacts DEF normalizing
  <2> QED BY <1>1, <2>1 DEF SeenOnce, Copied
<1> QED BY <1>3, <1>4, <1>5, <1>6, StepKinds

\* Which items there are for entries, when the copy has grown.
LEMMA EntriesGrow ==
  ASSUME IInv, NEW x \in ItemType, copy' = Append(copy, x),
         copy # <<>>, x.parent \in DOMAIN copy
  PROVE  LET new == IF x.tag = "[MaxKeys]" THEN {} ELSE {Len(copy) + 1}
         IN /\ Len(copy) + 1 \notin DOMAIN copy
            /\ Unmarked' = Unmarked \cup new /\ OfEntries' = OfEntries \cup new
            /\ \A i \in DOMAIN copy : copy'[i] = copy[i]
            /\ copy'[Len(copy) + 1] = x
            /\ \A i \in OfEntries : /\ copy[i].parent \in DOMAIN copy
                                    /\ copy[i].parent # Len(copy) + 1
                                    /\ Place(i)' = Place(i)
            /\ x.tag # "[MaxKeys]" =>
                 PlacesRead' = PlacesRead \cup {<<copy[x.parent].node, x.entry>>}
<1> DEFINE new == IF x.tag = "[MaxKeys]" THEN {} ELSE {Len(copy) + 1}
<1>1. /\ Len(copy) \in Nat \ {0} /\ DOMAIN copy = 1..Len(copy)
      /\ DOMAIN copy' = 1..(Len(copy) + 1)
      /\ copy'[Len(copy) + 1] = x /\ \A i \in DOMAIN copy : copy'[i] = copy[i]
  BY AppendFacts DEF IInv, TypeOK
<1>2. Len(copy) + 1 \notin DOMAIN copy /\ DOMAIN copy' = DOMAIN copy \cup {Len(copy) + 1}
      /\ Len(copy) + 1 # 1
  BY <1>1
<1>3. Unmarked' = Unmarked \cup new
  BY <1>1, <1>2 DEF Unmarked, IsMark
<1>4. OfEntries' = OfEntries \cup new
  BY <1>2, <1>3 DEF OfEntries
<1>5. ASSUME NEW i \in OfEntries
      PROVE  /\ copy[i].parent \in DOMAIN copy /\ copy[i].parent # Len(copy) + 1
             /\ Place(i)' = Place(i)
  <2>1. i \in DOMAIN copy /\ i # 1
    BY DEF OfEntries, Unmarked
  <2>2. copy[i].parent \in DOMAIN copy
    BY <1>1, <2>1 DEF IInv, Traversal, ItemsNest
  <2> QED BY <1>1, <1>2, <2>1, <2>2 DEF Place
<1>6. ASSUME x.tag # "[MaxKeys]"
      PROVE  PlacesRead' = PlacesRead \cup {<<copy[x.parent].node, x.entry>>}
  <2> PICK n : n = Len(copy) + 1
    OBVIOUS
  <2>1. Place(n)' = <<copy[x.parent].node, x.entry>>
    BY <1>1 DEF Place
  <2>2. OfEntries' = OfEntries \cup {n}
    BY <1>4, <1>6
  <2>3. PlacesRead' = {Place(i)' : i \in OfEntries'}
    BY DEF PlacesRead
  <2> QED BY <1>5, <2>1, <2>2, <2>3 DEF PlacesRead
<1> QED BY <1>1, <1>2, <1>3, <1>4, <1>5, <1>6

\* The item of a call in progress is the item of no other call.
LEMMA FramesDiffer ==
  ASSUME IInv, NEW f \in DOMAIN stack, NEW g \in DOMAIN stack, stack[f].item = stack[g].item
  PROVE  f = g
<1>1. f \in Nat /\ g \in Nat
  BY DEF IInv, TypeOK
<1>2. copy[stack[f].item].level = f - 1 /\ copy[stack[g].item].level = g - 1
  BY DEF IInv, Traversal, FramesMatch
<1> QED BY <1>1, <1>2

\* The entry that a loop has come to has not been read.
LEMMA TurnIsNew ==
  ASSUME IInv, Turn
  PROVE  \A i \in OfEntries : ~(copy[i].parent = Frame.item /\ copy[i].entry = Frame.next)
<1> SUFFICES ASSUME NEW i \in OfEntries,
                    copy[i].parent = Frame.item, copy[i].entry = Frame.next
             PROVE  FALSE
  OBVIOUS
<1>1. Len(stack) \in DOMAIN stack /\ Frame \in FrameType
  BY TurnFacts DEF IInv
<1>2. copy[i].entry < stack[Len(stack)].next
  BY <1>1 DEF IInv, Traversal, EntriesOnce, Frame
<1> QED BY <1>1, <1>2 DEF Frame, FrameType

LEMMA EntriesStep ==
  ASSUME IInv, Step
  PROVE  EntriesOnce'
<1>1. TypeOK /\ Traversal /\ EntriesOnce
  BY DEF IInv, Traversal
<1>2. /\ copy \in Seq(ItemType) /\ stack \in Seq(FrameType) /\ Len(stack) \in Nat
      /\ \A f \in DOMAIN stack : stack[f].next \in Nat
      /\ \A i \in OfEntries : copy[i].entry \in Nat
  <2>1. copy \in Seq(ItemType) /\ stack \in Seq(FrameType)
    BY <1>1 DEF TypeOK
  <2>2. Len(stack) \in Nat /\ \A f \in DOMAIN stack : stack[f] \in FrameType
    BY <2>1
  <2>3. \A i \in OfEntries : copy[i] \in ItemType
    BY <2>1 DEF OfEntries, Unmarked
  <2> QED BY <2>1, <2>2, <2>3 DEF FrameType, ItemType
\* A step that reads nothing and takes no loop back.
<1>3. ASSUME OfEntries' = OfEntries, \A i \in OfEntries : copy'[i] = copy[i],
             \A f \in DOMAIN stack' : /\ f \in DOMAIN stack /\ stack'[f].item = stack[f].item
                                      /\ stack'[f].next \in {stack[f].next, stack[f].next + 1}
      PROVE  EntriesOnce'
  <2>1. ASSUME NEW i \in OfEntries, NEW f \in DOMAIN stack', stack'[f].item = copy'[i].parent
        PROVE  copy'[i].entry < stack'[f].next
    <3>1. copy[i].entry < stack[f].next
      BY <1>1, <1>3, <2>1 DEF EntriesOnce
    <3> QED BY <1>2, <1>3, <3>1
  <2> QED BY <1>1, <1>3, <2>1 DEF EntriesOnce
<1>4. CASE Begins
  <2>1. RootItem \in ItemType /\ Calls(RootItem, <<>>) /\ copy = <<>> /\ copy' = Append(copy, RootItem)
    BY <1>4, StartFacts DEF Calls
  <2> HIDE DEF RootItem
  <2>2. Len(copy) = 0
    BY <2>1
  <2>3. DOMAIN copy' = 1..1
    BY <1>2, <2>1, <2>2, AppendFacts
  <2>4. OfEntries' = {}
    BY <2>3 DEF OfEntries, Unmarked
  <2> QED BY <2>4 DEF EntriesOnce
<1>5. CASE Reads
  <2>1. /\ NewItem \in ItemType /\ Calls(NewItem, NextTurn) /\ copy' = Append(copy, NewItem)
        /\ Turn /\ stack # <<>> /\ Len(stack) \in DOMAIN stack /\ Frame \in FrameType
    BY <1>1, <1>5, ReadFacts, TurnFacts DEF Calls
  <2>2. /\ NewItem.parent = Frame.item /\ NewItem.entry = Frame.next
        /\ NewItem.parent \in DOMAIN copy /\ copy # <<>> /\ NewItem.tag # "[MaxKeys]"
    BY <1>5, NewItemFacts
  <2>3. /\ Len(copy) + 1 \notin DOMAIN copy
        /\ OfEntries' = OfEntries \cup {Len(copy) + 1}
        /\ \A i \in DOMAIN copy : copy'[i] = copy[i]
        /\ copy'[Len(copy) + 1] = NewItem
        /\ \A i \in OfEntries : copy[i].parent # Len(copy) + 1
    BY <2>1, <2>2, EntriesGrow
  <2>4. OfEntries \subseteq DOMAIN copy
    BY DEF OfEntries, Unmarked
  <2>5. ASSUME NEW f \in DOMAIN stack'
        PROVE  \/ /\ f \in DOMAIN stack /\ stack'[f].item = stack[f].item
                  /\ stack'[f].next = IF f = Len(stack) THEN stack[f].next + 1 ELSE stack[f].next
               \/ stack'[f].item = Len(copy) + 1
    <3>1. /\ DOMAIN NextTurn = DOMAIN stack /\ Len(NextTurn) = Len(stack)
          /\ \A g \in DOMAIN stack :
               /\ NextTurn[g].item = stack[g].item
               /\ NextTurn[g].next = IF g = Len(stack) THEN stack[g].next + 1 ELSE stack[g].next
      BY <1>2, <2>1, NextTurnFacts
    <3> QED BY <2>1, <3>1 DEF Calls
  <2>6. ASSUME NEW i \in OfEntries', NEW k \in OfEntries',
               copy'[i].parent = copy'[k].parent, copy'[i].entry = copy'[k].entry
        PROVE  i = k
    <3>1. \A j \in OfEntries : ~(copy[j].parent = Frame.item /\ copy[j].entry = Frame.next)
      BY <2>1, TurnIsNew
    <3> QED BY <1>1, <2>2, <2>3, <2>4, <2>6, <3>1 DEF EntriesOnce
  <2>7. ASSUME NEW i \in OfEntries', NEW f \in DOMAIN stack', stack'[f].item = copy'[i].parent
        PROVE  copy'[i].entry < stack'[f].next
    <3>1. CASE i \in OfEntries
      <4>1. /\ f \in DOMAIN stack /\ stack'[f].item = stack[f].item
            /\ stack'[f].next \in {stack[f].next, stack[f].next + 1}
            /\ copy'[i] = copy[i]
        BY <2>3, <2>4, <2>5, <2>7, <3>1
      <4>2. copy[i].entry < stack[f].next
        BY <1>1, <2>7, <3>1, <4>1 DEF EntriesOnce
      <4> QED BY <1>2, <3>1, <4>1, <4>2
    <3>2. CASE i = Len(copy) + 1
      <4>1. copy'[i].parent = stack[Len(stack)].item /\ copy'[i].entry = stack[Len(stack)].next
        BY <2>2, <2>3, <3>2 DEF Frame
      <4>2. f \in DOMAIN stack /\ stack[f].item = stack[Len(stack)].item
        BY <2>2, <2>3, <2>5, <2>7, <3>2, <4>1
      <4>3. f = Len(stack)
        BY <2>1, <4>2, FramesDiffer
      <4>4. stack'[f].next = stack[f].next + 1
        BY <2>2, <2>3, <2>5, <2>7, <3>2, <4>3
      <4> QED BY <1>2, <2>1, <4>1, <4>3, <4>4
    <3> QED BY <2>3, <3>1, <3>2
  <2> QED BY <2>6, <2>7 DEF EntriesOnce
<1>6. CASE MarkCut
  <2>1. /\ MarkItem \in ItemType /\ copy' = Append(copy, MarkItem) /\ stack' = Leave
        /\ Turn /\ MarkItem.parent = Frame.item /\ MarkItem.tag = "[MaxKeys]"
    BY <1>6, MarkFacts DEF MarkItem
  <2>2. Frame.item \in DOMAIN copy /\ copy # <<>> /\ stack # <<>>
    BY <1>1, <2>1, TurnFacts
  <2>3. OfEntries' = OfEntries /\ \A i \in DOMAIN copy : copy'[i] = copy[i]
    BY <2>1, <2>2, EntriesGrow
  <2>4. OfEntries \subseteq DOMAIN copy
    BY DEF OfEntries, Unmarked
  <2>5. DOMAIN stack' \subseteq DOMAIN stack /\ \A f \in DOMAIN stack' : stack'[f] = stack[f]
    BY <1>2, <2>1, <2>2, LeaveFacts
  <2> QED BY <1>3, <2>3, <2>4, <2>5
<1>7. CASE Moves
  <2>1. copy' = copy /\ stack # <<>> /\ (stack' = NextTurn \/ stack' = Leave)
    BY <1>7, MoveFacts
  <2>2. OfEntries' = OfEntries
    BY <2>1 DEF OfEntries, Unmarked, IsMark
  <2>3. \A f \in DOMAIN stack' : /\ f \in DOMAIN stack /\ stack'[f].item = stack[f].item
                                 /\ stack'[f].next \in {stack[f].next, stack[f].next + 1}
    <3>1. CASE stack' = NextTurn
      BY <1>2, <2>1, <3>1, NextTurnFacts
    <3>2. CASE stack' = Leave
      BY <1>2, <2>1, <3>2, LeaveFacts
    <3> QED BY <2>1, <3>1, <3>2
  <2> QED BY <1>3, <2>1, <2>2, <2>3
<1>8. CASE Redacts
  <2>1. copy' = copy /\ stack' = stack
    BY <1>8, RedactFacts DEF normalizing
  <2> QED BY <1>1, <2>1 DEF EntriesOnce, OfEntries, Unmarked, IsMark
<1> QED BY <1>4, <1>5, <1>6, <1>7, <1>8, StepKinds

\* A cut ends the loop, which begins once for an item.
LEMMA MarksStep ==
  ASSUME IInv, Step
  PROVE  MarksOnce'
<1>1. /\ TypeOK /\ Traversal /\ MarksOnce /\ ItemsNest
      /\ copy \in Seq(ItemType) /\ stack \in Seq(FrameType) /\ Len(copy) \in Nat
      /\ DOMAIN copy = 1..Len(copy)
  <2>1. copy \in Seq(ItemType) /\ stack \in Seq(FrameType)
    BY DEF IInv, TypeOK
  <2> QED BY <2>1 DEF IInv, Traversal
\* No mark is added, and no loop but over a new item.
<1>2. ASSUME \A i \in DOMAIN copy : i \in DOMAIN copy' /\ copy'[i] = copy[i],
             \A i \in DOMAIN copy' : i \in DOMAIN copy \/ copy'[i].tag # "[MaxKeys]",
             \A f \in DOMAIN stack' :
               \/ f \in DOMAIN stack /\ stack'[f].item = stack[f].item
               \/ stack'[f].item \notin DOMAIN copy
      PROVE  MarksOnce'
  <2> SUFFICES ASSUME NEW i \in DOMAIN copy', i # 1, copy'[i].tag = "[MaxKeys]"
               PROVE  /\ \A k \in DOMAIN copy' \ {1} :
                            copy'[k].tag = "[MaxKeys]" /\ copy'[k].parent = copy'[i].parent => k = i
                      /\ \A f \in DOMAIN stack' : stack'[f].item # copy'[i].parent
    BY DEF MarksOnce, IsMark
  <2>1. /\ i \in DOMAIN copy /\ copy[i].tag = "[MaxKeys]" /\ copy'[i] = copy[i]
        /\ copy[i].parent \in DOMAIN copy
    <3>1. i \in DOMAIN copy /\ copy[i].tag = "[MaxKeys]" /\ copy'[i] = copy[i]
      BY <1>2
    <3>2. copy[i].parent \in 1..(i - 1)
      BY <1>1, <3>1 DEF ItemsNest
    <3> QED BY <1>1, <3>1, <3>2
  <2>2. /\ \A k \in DOMAIN copy \ {1} :
             copy[k].tag = "[MaxKeys]" /\ copy[k].parent = copy[i].parent => k = i
        /\ \A f \in DOMAIN stack : stack[f].item # copy[i].parent
    BY <1>1, <2>1 DEF MarksOnce, IsMark
  <2> QED BY <1>2, <2>1, <2>2
<1>3. CASE Begins
  <2>1. /\ RootItem \in ItemType /\ copy = <<>> /\ copy' = Append(copy, RootItem)
    BY <1>3, StartFacts DEF Calls
  <2> HIDE DEF RootItem
  <2>2. Len(copy) = 0
    BY <2>1
  <2>3. DOMAIN copy' = 1..1
    BY <1>1, <2>1, <2>2, AppendFacts
  <2>4. DOMAIN copy' \ {1} = {}
    BY <2>3
  <2> QED BY <2>4 DEF MarksOnce
<1>4. CASE Reads
  <2>1. /\ NewItem \in ItemType /\ Calls(NewItem, NextTurn) /\ copy' = Append(copy, NewItem)
        /\ Turn /\ stack # <<>> /\ NewItem.tag # "[MaxKeys]"
    BY <1>4, ReadFacts, NewItemFacts DEF Calls, Turn
  <2>2. /\ \A i \in DOMAIN copy : i \in DOMAIN copy' /\ copy'[i] = copy[i]
        /\ \A i \in DOMAIN copy' : i \in DOMAIN copy \/ copy'[i] = NewItem
        /\ Len(copy) + 1 \notin DOMAIN copy
    BY <1>1, <2>1, AppendFacts
  <2>3. /\ DOMAIN NextTurn = DOMAIN stack /\ Len(NextTurn) = Len(stack)
        /\ \A g \in DOMAIN stack : NextTurn[g].item = stack[g].item
    BY <1>1, <2>1, NextTurnFacts
  <2>4. \A f \in DOMAIN stack' :
          \/ f \in DOMAIN stack /\ stack'[f].item = stack[f].item
          \/ stack'[f].item \notin DOMAIN copy
    BY <2>1, <2>2, <2>3 DEF Calls
  <2> QED BY <1>2, <2>1, <2>2, <2>4
<1>5. CASE MarkCut
  <2>1. /\ MarkItem \in ItemType /\ copy' = Append(copy, MarkItem) /\ stack' = Leave
        /\ Turn /\ stack # <<>> /\ MarkItem.parent = Frame.item
        /\ Frame.item \in DOMAIN copy /\ Len(stack) \in DOMAIN stack
    BY <1>1, <1>5, MarkFacts, TurnFacts DEF MarkItem
  <2>2. /\ \A i \in DOMAIN copy : i \in DOMAIN copy' /\ copy'[i] = copy[i]
        /\ \A i \in DOMAIN copy' : i \in DOMAIN copy \/ i = Len(copy) + 1
        /\ copy'[Len(copy) + 1] = MarkItem
    BY <1>1, <2>1, AppendFacts
  <2>3. /\ DOMAIN stack' \subseteq DOMAIN stack /\ Len(stack) \notin DOMAIN stack'
        /\ \A f \in DOMAIN stack' : stack'[f] = stack[f]
    BY <1>1, <2>1, LeaveFacts
  <2>4. \A f \in DOMAIN stack' : stack'[f].item # Frame.item
    BY <2>1, <2>3, FramesDiffer DEF Frame
  <2>5. \A k \in DOMAIN copy \ {1} : copy[k].tag = "[MaxKeys]" => copy[k].parent # Frame.item
    BY <1>1, <2>1 DEF MarksOnce, IsMark, Frame
  <2> SUFFICES ASSUME NEW i \in DOMAIN copy', i # 1, copy'[i].tag = "[MaxKeys]"
               PROVE  /\ \A k \in DOMAIN copy' \ {1} :
                            copy'[k].tag = "[MaxKeys]" /\ copy'[k].parent = copy'[i].parent => k = i
                      /\ \A f \in DOMAIN stack' : stack'[f].item # copy'[i].parent
    BY DEF MarksOnce, IsMark
  <2>6. CASE i \in DOMAIN copy
    <3>1. /\ \A k \in DOMAIN copy \ {1} :
               copy[k].tag = "[MaxKeys]" /\ copy[k].parent = copy[i].parent => k = i
          /\ \A f \in DOMAIN stack : stack[f].item # copy[i].parent
      BY <1>1, <2>2, <2>6 DEF MarksOnce, IsMark
    <3>2. copy[i].parent # Frame.item
      BY <2>2, <2>5, <2>6
    <3> QED BY <2>1, <2>2, <2>3, <2>6, <3>1, <3>2
  <2>7. CASE i = Len(copy) + 1
    BY <2>1, <2>2, <2>4, <2>5, <2>7
  <2> QED BY <2>2, <2>6, <2>7
<1>6. CASE Moves
  <2>1. copy' = copy /\ stack # <<>> /\ (stack' = NextTurn \/ stack' = Leave)
    BY <1>6, MoveFacts
  <2>2. \A f \in DOMAIN stack' : f \in DOMAIN stack /\ stack'[f].item = stack[f].item
    <3>1. CASE stack' = NextTurn
      BY <1>1, <2>1, <3>1, NextTurnFacts
    <3>2. CASE stack' = Leave
      BY <1>1, <2>1, <3>2, LeaveFacts
    <3> QED BY <2>1, <3>1, <3>2
  <2> QED BY <1>2, <2>1, <2>2
<1>7. CASE Redacts
  <2>1. copy' = copy /\ stack' = stack
    BY <1>7, RedactFacts DEF normalizing
  <2> QED BY <1>1, <2>1 DEF MarksOnce, IsMark
<1> QED BY <1>3, <1>4, <1>5, <1>6, <1>7, StepKinds

LEMMA PhasesStep ==
  ASSUME IInv, Step
  PROVE  Phases'
<1>1. TypeOK /\ Phases
  BY DEF IInv, Traversal
<1>2. ASSUME NEW x \in ItemType, copy' = Append(copy, x), kept = {}, UNCHANGED redacting
      PROVE  Phases'
  <2>1. Len(copy') = Len(copy) + 1 /\ Len(copy) \in Nat /\ copy' \in Seq(ItemType)
    BY <1>1, <1>2, AppendFacts DEF TypeOK
  <2>2. copy' # <<>>
    BY <2>1
  <2> QED BY <1>1, <1>2, <2>2 DEF Phases, redacting
<1>3. CASE Begins
  BY <1>2, <1>3, StartFacts DEF Calls
<1>4. CASE Reads
  BY <1>2, <1>4, ReadFacts, TurnFacts DEF Calls, IInv
<1>5. CASE MarkCut
  BY <1>2, <1>5, MarkFacts, TurnFacts DEF IInv
<1>6. CASE Moves
  BY <1>1, <1>6, MoveFacts DEF Phases, redacting
<1>7. CASE Redacts
  <2>1. UNCHANGED normalizing
    BY <1>7, RedactFacts
  <2>2. kept' # {} => copy # <<>> /\ stack = <<>>
    BY <1>1, <1>7 DEF Redacts, RedactRoot, RedactEntry, BreakEntries, Phases, vars
  <2>3. kept' = {} => todo' = {} /\ keysRedacted' = 0
    <3>1. CASE RedactRoot \/ \E i \in todo : RedactEntry(i)
      BY <3>1 DEF RedactRoot, RedactEntry
    <3>2. CASE BreakEntries \/ UNCHANGED vars
      BY <1>1, <3>2 DEF BreakEntries, vars, Phases
    <3> QED BY <1>7, <3>1, <3>2 DEF Redacts
  <2> QED BY <1>1, <2>1, <2>2, <2>3 DEF Phases, normalizing
<1> QED BY <1>3, <1>4, <1>5, <1>6, <1>7, StepKinds

LEMMA TraversalStep ==
  ASSUME IInv, Step
  PROVE  Traversal'
BY ItemsStep, FramesStep, SeenStep, EntriesStep, MarksStep, PhasesStep DEF ItemsTrue, Traversal

-----------------------------------------------------------------------------
(* The keys are counted.                                                   *)

LEMMA ImageFinite ==
  ASSUME NEW S, IsFiniteSet(S), NEW f, DOMAIN f = S
  PROVE  IsFiniteSet({f[x] : x \in S})
<1> DEFINE T == {f[x] : x \in S}
           g == [x \in S |-> f[x]]
<1>1. g \in Surjection(S, T)
  BY DEF Surjection
<1> QED BY <1>1, FS_Surjection

LEMMA ImageSize ==
  ASSUME NEW S, IsFiniteSet(S), NEW f, DOMAIN f = S,
         \A x, y \in S : f[x] = f[y] => x = y
  PROVE  LET T == {f[x] : x \in S}
         IN IsFiniteSet(T) /\ Cardinality(T) = Cardinality(S)
<1> DEFINE T == {f[x] : x \in S}
           g == [x \in S |-> f[x]]
<1>1. g \in Surjection(S, T)
  BY DEF Surjection
<1>2. g \in Injection(S, T)
  BY DEF Injection, IsInjective
<1>3. ExistsBijection(S, T)
  BY <1>1, <1>2 DEF Bijection, ExistsBijection
<1> QED BY <1>3, FS_Bijection

LEMMA ItemsFinite ==
  ASSUME TypeOK
  PROVE  /\ IsFiniteSet(Unmarked) /\ IsFiniteSet(OfEntries) /\ IsFiniteSet(PlacesRead)
         /\ Unmarked \subseteq DOMAIN copy /\ OfEntries \subseteq Unmarked
         /\ 1 \notin OfEntries
<1>1. Len(copy) \in Nat /\ DOMAIN copy = 1..Len(copy)
  BY DEF TypeOK
<1>2. IsFiniteSet(DOMAIN copy)
  BY <1>1, FS_Interval
<1>3. Unmarked \subseteq DOMAIN copy /\ OfEntries \subseteq Unmarked /\ 1 \notin OfEntries
  BY DEF Unmarked, OfEntries
<1>4. IsFiniteSet(Unmarked) /\ IsFiniteSet(OfEntries)
  BY <1>2, <1>3, FS_Subset
<1> DEFINE f == [i \in OfEntries |-> Place(i)]
<1>5. PlacesRead = {f[i] : i \in OfEntries}
  BY DEF PlacesRead
<1>6. DOMAIN f = OfEntries
  OBVIOUS
<1> HIDE DEF f
<1>7. IsFiniteSet(PlacesRead)
  BY <1>4, <1>5, <1>6, ImageFinite
<1> QED BY <1>3, <1>4, <1>7

\* What has been read of a node, has been read under its one item.
LEMMA PlaceIsNew ==
  ASSUME IInv, Turn
  PROVE  <<copy[Frame.item].node, Frame.next>> \notin PlacesRead
<1> SUFFICES ASSUME NEW i \in OfEntries, Place(i) = <<copy[Frame.item].node, Frame.next>>
             PROVE  FALSE
  BY DEF PlacesRead
<1>1. copy[copy[i].parent].node = copy[Frame.item].node /\ copy[i].entry = Frame.next
  BY DEF Place
<1>2. /\ copy[i].parent \in DOMAIN copy /\ Copied(copy[i].parent)
  <2>1. i \in DOMAIN copy /\ i # 1 /\ DOMAIN copy = 1..Len(copy) /\ Len(copy) \in Nat
    BY ItemsFinite DEF IInv, OfEntries, TypeOK
  <2>2. copy[i].parent \in 1..(i - 1) /\ Copied(copy[i].parent)
    BY <2>1 DEF IInv, Traversal, ItemsNest
  <2> QED BY <2>1, <2>2
<1>3. Frame.item \in DOMAIN copy /\ Copied(Frame.item)
  BY TurnFacts DEF IInv
<1>4. copy[i].parent = Frame.item
  BY <1>1, <1>2, <1>3 DEF IInv, Traversal, SeenOnce
<1> QED BY <1>1, <1>4, TurnIsNew

LEMMA KeysStep ==
  ASSUME IInv, Step
  PROVE  KeysCounted'
<1>1. /\ TypeOK /\ KeysCounted
      /\ UNCHANGED limits /\ (NoArrays' <=> NoArrays)
      /\ maxKeys' = maxKeys /\ maxKeys \in Nat \ {0}
  BY StepKinds, Statics DEF IInv, TypeOK, limits
<1>2. CASE Begins
  <2>1. /\ RootItem \in ItemType /\ copy = <<>> /\ copy' = Append(copy, RootItem)
        /\ keysVisited' = 0 /\ RootItem.tag # "[MaxKeys]"
    <3>1. RootItem.tag # "[MaxKeys]"
      BY NodeFacts, <1>1, <1>2
         DEF Begins, TraversalAssumption, TypeOK, RootItem, Unreadable
    <3> QED BY <1>2, <3>1, StartFacts DEF Calls
  <2> HIDE DEF RootItem
  <2>2. Len(copy) = 0 /\ copy \in Seq(ItemType)
    BY <2>1
  <2>3. DOMAIN copy' = {1} /\ copy'[1] = RootItem
    <3>1. DOMAIN copy' = 1..(0 + 1) /\ copy'[0 + 1] = RootItem
      BY <2>1, <2>2, AppendFacts
    <3> QED BY <3>1
  <2>4. Unmarked' = {1} /\ OfEntries' = {}
    BY <2>1, <2>3 DEF Unmarked, OfEntries, IsMark
  <2>5. PlacesRead' = {}
    BY <2>4 DEF PlacesRead
  <2>6. Cardinality(Unmarked') = 1 /\ Cardinality(PlacesRead') = 0
    BY <2>4, <2>5, FS_EmptySet, FS_Singleton
  <2> QED BY <1>1, <2>1, <2>6 DEF KeysCounted
<1>3. CASE Reads
  <2>1. /\ NewItem \in ItemType /\ copy' = Append(copy, NewItem) /\ Turn
        /\ keysVisited' = keysVisited + 1 /\ keysVisited + 1 <= maxKeys
        /\ Looped.tag = "object" => keysVisited + 1 <= maxKeys - 1
    BY <1>3, ReadFacts DEF Calls
  <2>2. /\ NewItem.parent = Frame.item /\ NewItem.entry = Frame.next
        /\ NewItem.parent \in DOMAIN copy /\ copy # <<>> /\ NewItem.tag # "[MaxKeys]"
        /\ copy[Frame.item].node \in Reached(UnsafeKeys)
    BY <1>3, NewItemFacts
  <2>3. /\ Len(copy) + 1 \notin DOMAIN copy
        /\ Unmarked' = Unmarked \cup {Len(copy) + 1}
        /\ PlacesRead' = PlacesRead \cup {<<copy[Frame.item].node, Frame.next>>}
    BY <2>1, <2>2, EntriesGrow
  <2>4. /\ IsFiniteSet(Unmarked) /\ IsFiniteSet(PlacesRead)
        /\ Len(copy) + 1 \notin Unmarked
    BY <1>1, <2>3, ItemsFinite
  <2>5. <<copy[Frame.item].node, Frame.next>> \notin PlacesRead
    BY <2>1, PlaceIsNew
  <2>6. /\ Cardinality(Unmarked') = Cardinality(Unmarked) + 1
        /\ Cardinality(PlacesRead') = Cardinality(PlacesRead) + 1
    BY <2>3, <2>4, <2>5, FS_AddElement
  <2>7. NoArrays => Looped.tag = "object"
    BY <2>1, <2>2, TurnFacts DEF IInv, NoArrays, Looped, Copied, Containers
  <2> QED BY <1>1, <2>1, <2>2, <2>6, <2>7 DEF KeysCounted, TypeOK
<1>4. CASE MarkCut
  <2>1. /\ MarkItem \in ItemType /\ copy' = Append(copy, MarkItem) /\ Turn
        /\ MarkItem.parent = Frame.item /\ MarkItem.tag = "[MaxKeys]"
        /\ keysVisited' = keysVisited
    BY <1>4, MarkFacts DEF MarkItem
  <2>2. Frame.item \in DOMAIN copy /\ copy # <<>>
    BY <1>1, <2>1, TurnFacts DEF IInv
  <2>3. /\ Unmarked' = Unmarked /\ OfEntries' = OfEntries
        /\ \A i \in OfEntries : Place(i)' = Place(i)
    BY <2>1, <2>2, EntriesGrow
  <2>4. PlacesRead' = PlacesRead
    BY <2>3 DEF PlacesRead
  <2> QED BY <1>1, <2>1, <2>2, <2>3, <2>4 DEF KeysCounted
<1>5. CASE Moves \/ Redacts
  <2>1. copy' = copy /\ keysVisited' = keysVisited
    BY <1>5, MoveFacts, RedactFacts DEF normalizing
  <2>2. Unmarked' = Unmarked /\ PlacesRead' = PlacesRead
    BY <2>1 DEF PlacesRead, OfEntries, Unmarked, IsMark, Place
  <2> QED BY <1>1, <2>1, <2>2 DEF KeysCounted
<1> QED BY <1>2, <1>3, <1>4, <1>5, StepKinds

-----------------------------------------------------------------------------
(* Small values are not cut.                                               *)

LEMMA AtMostOne ==
  ASSUME NEW S, IsFiniteSet(S), Cardinality(S) <= 1, NEW x \in S, NEW y \in S
  PROVE  x = y
<1> SUFFICES ASSUME x # y PROVE FALSE
  OBVIOUS
<1>1. IsFiniteSet({x}) /\ Cardinality({x}) = 1
  BY FS_Singleton
<1>2. Cardinality({x} \cup {y}) = 2
  <2>1. y \notin {x}
    OBVIOUS
  <2>2. Cardinality({x} \cup {y}) = Cardinality({x}) + 1
    BY <1>1, <2>1, FS_AddElement
  <2> QED BY <1>1, <2>2
<1>3. {x} \cup {y} \in SUBSET S
  OBVIOUS
<1>4. Cardinality({x} \cup {y}) <= Cardinality(S) /\ Cardinality(S) \in Nat
  BY <1>3, FS_Subset, FS_CardinalityType
<1> QED BY <1>2, <1>4

LEMMA PlaceReached ==
  ASSUME TypeOK, NEW skipped, NEW n \in Reached(skipped),
         NEW k \in DOMAIN heap[n].entries, heap[n].entries[k].key \notin skipped
  PROVE  <<n, k>> \in EntriesReached(skipped)
<1>1. n \in Nodes
  BY DEF Reached
<1>2. heap[n].entries \in Seq(EntryType) /\ Len(heap[n].entries) <= Size /\ Size \in Nat
  BY <1>1, NodeFacts DEF TypeOK, TraversalAssumption
<1>3. k \in 1..Size
  BY <1>2
<1> QED BY <1>1, <1>3 DEF EntriesReached

LEMMA PlacesReached ==
  ASSUME IInv
  PROVE  PlacesRead \subseteq EntriesReached(UnsafeKeys)
<1> SUFFICES ASSUME NEW i \in OfEntries PROVE Place(i) \in EntriesReached(UnsafeKeys)
  BY DEF PlacesRead
<1>1. i \in DOMAIN copy /\ i # 1 /\ DOMAIN copy = 1..Len(copy) /\ Len(copy) \in Nat
  BY ItemsFinite DEF IInv, OfEntries, TypeOK
<1> DEFINE j == copy[i].parent
<1>2. j \in DOMAIN copy /\ Copied(j)
  BY <1>1 DEF IInv, Traversal, ItemsNest
<1>3. copy[j].node \in Reached(UnsafeKeys)
  BY <1>2 DEF IInv, Traversal, TagsAreTrue, Copied, Containers
<1>4. /\ copy[i].entry \in DOMAIN heap[copy[j].node].entries
      /\ heap[copy[j].node].entries[copy[i].entry].key \notin UnsafeKeys
  BY DEF IInv, Traversal, ItemsOfEntries
<1> QED BY <1>3, <1>4, PlaceReached DEF Place, IInv

\* What is still to be read of a small value fits.
LEMMA SmallRoom ==
  ASSUME IInv, IsSmall,
         NEW P, P \subseteq EntriesReached(UnsafeKeys), P \cap PlacesRead = {}
  PROVE  IsFiniteSet(P) /\ keysVisited + Cardinality(P) < maxKeys
<1>1. IsFiniteSet(EntriesReached(UnsafeKeys)) /\ IsFiniteSet(PlacesRead)
  BY ReachedFinite, ItemsFinite DEF IInv
<1>2. IsFiniteSet(P)
  BY <1>1, FS_Subset
<1>3. PlacesRead \cup P \in SUBSET EntriesReached(UnsafeKeys)
  BY PlacesReached
<1>4. Cardinality(PlacesRead \cup P) <= Cardinality(EntriesReached(UnsafeKeys))
  BY <1>1, <1>3, FS_Subset
<1>5. Cardinality(PlacesRead \cup P) = Cardinality(PlacesRead) + Cardinality(P)
  <2>1. Cardinality(PlacesRead \cap P) = 0
    BY FS_EmptySet
  <2>2. Cardinality(PlacesRead \cup P)
          = Cardinality(PlacesRead) + Cardinality(P) - Cardinality(PlacesRead \cap P)
    BY <1>1, <1>2, FS_Union
  <2>3. Cardinality(PlacesRead) \in Nat /\ Cardinality(P) \in Nat
    BY <1>1, <1>2, FS_CardinalityType
  <2> QED BY <2>1, <2>2, <2>3
<1>6. Cardinality(PlacesRead) = keysVisited
  BY DEF IInv, KeysCounted
<1>7. Cardinality(EntriesReached(UnsafeKeys)) < maxKeys
  BY DEF IsSmall
<1>8. /\ Cardinality(PlacesRead \cup P) \in Nat
      /\ Cardinality(EntriesReached(UnsafeKeys)) \in Nat /\ maxKeys \in Nat
  BY <1>1, <1>3, FS_Subset, FS_CardinalityType DEF IInv, TypeOK
<1> QED BY <1>2, <1>4, <1>5, <1>6, <1>7, <1>8

\* The entry that a loop has come to.
Here == <<copy[Frame.item].node, Frame.next>>

LEMMA HereFacts ==
  ASSUME IInv, Turn, Current.key \notin UnsafeKeys
  PROVE  /\ Here \in EntriesReached(UnsafeKeys) /\ Here \notin PlacesRead
         /\ Child(Here) = Current.child
         /\ IsSmall => keysVisited + 1 < maxKeys
<1>1. Here \in EntriesReached(UnsafeKeys)
  BY TurnFacts, PlaceReached DEF IInv, Here, Current, Looped
<1>2. Here \notin PlacesRead
  BY PlaceIsNew DEF Here
<1>3. Child(Here) = Current.child
  BY DEF Child, Here, Current, Looped
<1>4. ASSUME IsSmall PROVE keysVisited + 1 < maxKeys
  <2>1. {Here} \subseteq EntriesReached(UnsafeKeys) /\ {Here} \cap PlacesRead = {}
    BY <1>1, <1>2
  <2>2. Cardinality({Here}) = 1
    BY FS_Singleton
  <2>3. keysVisited + Cardinality({Here}) < maxKeys
    BY <1>4, <2>1, SmallRoom
  <2> QED BY <2>2, <2>3
<1> QED BY <1>1, <1>2, <1>3, <1>4

\* A small value shares and contains nothing twice.
LEMMA SmallUnseen ==
  ASSUME IInv, IsSmall, Turn,
         Current.key \notin UnsafeKeys, Current.child # Leaf
  PROVE  Current.child \notin seen
<1> SUFFICES ASSUME Current.child \in seen PROVE FALSE
  OBVIOUS
<1> DEFINE c == Current.child
<1>1. Here \in References(c) /\ Here \notin PlacesRead /\ c \in Nodes
  <2>1. c \in Nodes
    BY TurnFacts DEF IInv, EntryType
  <2> QED BY <2>1, HereFacts DEF References
<1>2. PICK i \in DOMAIN copy : copy[i].node = c
  BY DEF IInv, Traversal, SeenOnce
<1>3. CASE i = 1
  <2>1. c = Root
    <3>1. copy # <<>>
      BY <1>2 DEF IInv, TypeOK
    <3> QED BY <1>2, <1>3, <3>1 DEF IInv, Traversal, RootFirst, RootItem
  <2> QED BY <1>1, <2>1 DEF IsSmall
<1>4. CASE i # 1
  <2>1. i \in OfEntries
    BY <1>2, <1>4 DEF IInv, Traversal, MarksCut, OfEntries, Unmarked
  <2>2. Place(i) \in PlacesRead
    BY <2>1 DEF PlacesRead
  <2>3. Place(i) \in EntriesReached(UnsafeKeys)
    BY <2>2, PlacesReached
  <2>4. Child(Place(i)) = c
    BY <1>2, <2>1 DEF Child, Place, IInv, Traversal, ItemsOfEntries
  <2>5. Place(i) \in References(c)
    BY <2>3, <2>4 DEF References
  <2>6. IsFiniteSet(References(c)) /\ Cardinality(References(c)) <= 1
    <3>1. IsFiniteSet(EntriesReached(UnsafeKeys))
      BY ReachedFinite
    <3>2. References(c) \in SUBSET EntriesReached(UnsafeKeys)
      BY DEF References
    <3> QED BY <1>1, <3>1, <3>2, FS_Subset DEF IsSmall
  <2> QED BY <1>1, <2>2, <2>5, <2>6, AtMostOne
<1> QED BY <1>3, <1>4

\* The loops in progress are over different nodes, so that there is room for
\* another one.
LEMMA SmallDepth ==
  ASSUME IInv, IsSmall, NEW c \in Reached(UnsafeKeys), c \notin seen
  PROVE  Len(stack) < maxDepth
<1>1. Len(stack) \in Nat /\ DOMAIN stack = 1..Len(stack)
  BY DEF IInv, TypeOK
<1>2. IsFiniteSet(DOMAIN stack) /\ Cardinality(DOMAIN stack) = Len(stack)
  <2>1. /\ IsFiniteSet(1..Len(stack))
        /\ Cardinality(1..Len(stack)) = IF 1 > Len(stack) THEN 0 ELSE Len(stack) - 1 + 1
    BY <1>1, FS_Interval
  <2> QED BY <1>1, <2>1
<1> DEFINE node == [f \in DOMAIN stack |-> copy[stack[f].item].node]
           T == {node[f] : f \in DOMAIN stack}
<1>3. ASSUME NEW f \in DOMAIN stack
      PROVE  /\ stack[f].item \in DOMAIN copy /\ Copied(stack[f].item)
             /\ node[f] \in seen /\ node[f] \in Reached(UnsafeKeys)
  <2>1. stack[f].item \in DOMAIN copy /\ Copied(stack[f].item)
    BY DEF IInv, Traversal, FramesMatch
  <2>2. copy[stack[f].item].node \in seen
    BY <2>1 DEF IInv, Traversal, SeenOnce
  <2>3. copy[stack[f].item].node \in Reached(UnsafeKeys)
    BY <2>1 DEF IInv, Traversal, TagsAreTrue, Copied, Containers
  <2> QED BY <2>1, <2>2, <2>3
<1>4. ASSUME NEW f \in DOMAIN stack, NEW g \in DOMAIN stack, node[f] = node[g]
      PROVE  f = g
  <2>1. stack[f].item = stack[g].item
    BY <1>3, <1>4 DEF IInv, Traversal, SeenOnce
  <2> QED BY <2>1, FramesDiffer
<1>5. DOMAIN node = DOMAIN stack
  OBVIOUS
<1>6. IsFiniteSet(T) /\ Cardinality(T) = Len(stack)
  <2> HIDE DEF node
  <2> QED BY <1>2, <1>4, <1>5, ImageSize
<1>7. c \notin T /\ T \cup {c} \in SUBSET Reached(UnsafeKeys)
  BY <1>3
<1> HIDE DEF T
<1>8. Cardinality(T \cup {c}) = Len(stack) + 1
  BY <1>6, <1>7, FS_AddElement
<1>9. Cardinality(T \cup {c}) <= Cardinality(Reached(UnsafeKeys))
  BY <1>7, ReachedFinite, FS_Subset
<1>10. Cardinality(Reached(UnsafeKeys)) <= maxDepth /\ maxDepth \in Nat
       /\ Cardinality(Reached(UnsafeKeys)) \in Nat
  BY ReachedFinite, FS_CardinalityType DEF IsSmall, IInv, TypeOK
<1> QED BY <1>1, <1>8, <1>9, <1>10

\* The entries of an array.
LEMMA RowSize ==
  ASSUME NEW n, NEW m \in Nat
  PROVE  LET Row == {<<n, k>> : k \in 1..m}
         IN IsFiniteSet(Row) /\ Cardinality(Row) = m
<1> DEFINE f == [k \in 1..m |-> <<n, k>>]
<1>1. {<<n, k>> : k \in 1..m} = {f[k] : k \in 1..m}
  OBVIOUS
<1>2. DOMAIN f = 1..m /\ \A x, y \in 1..m : f[x] = f[y] => x = y
  OBVIOUS
<1>3. IsFiniteSet(1..m) /\ Cardinality(1..m) = m
  BY FS_Interval
<1> HIDE DEF f
<1>4. IsFiniteSet({f[k] : k \in 1..m}) /\ Cardinality({f[k] : k \in 1..m}) = m
  BY <1>2, <1>3, ImageSize
<1> QED BY <1>1, <1>4

LEMMA SmallStep ==
  ASSUME IInv, Step
  PROVE  SmallUncut'
<1>1. /\ TypeOK /\ Traversal /\ SmallUncut /\ heap' = heap /\ (IsSmall' <=> IsSmall)
      /\ copy \in Seq(ItemType) /\ stack \in Seq(FrameType)
  BY StepKinds, Statics DEF IInv, limits, TypeOK
<1> SUFFICES ASSUME IsSmall
             PROVE  /\ \A i \in DOMAIN copy' : copy'[i].tag \notin Markers
                    /\ \A f \in DOMAIN stack' :
                         stack'[f].end = Len(heap[copy'[stack'[f].item].node].entries)
  BY <1>1 DEF SmallUncut
<1>2. /\ \A i \in DOMAIN copy : copy[i].tag \notin Markers
      /\ \A f \in DOMAIN stack : /\ stack[f].item \in DOMAIN copy
                                 /\ stack[f].end = Len(heap[copy[stack[f].item].node].entries)
  BY <1>1 DEF SmallUncut, Traversal, FramesMatch
<1>3. ASSUME NEW n \in Nodes, n \in Reached(UnsafeKeys), n \notin seen, heap[n].tag = "array",
             \/ keysVisited' = keysVisited
             \/ keysVisited' = keysVisited + 1 /\ Turn /\ Current.key \notin UnsafeKeys
      PROVE  Len(heap[n].entries) <= maxKeys - keysVisited'
  <2> DEFINE m == Len(heap[n].entries)
             Row == {<<n, k>> : k \in 1..m}
  <2>1. heap[n].entries \in Seq(EntryType) /\ m \in Nat
    BY <1>1, NodeFacts DEF TypeOK
  <2>2. Row \subseteq EntriesReached(UnsafeKeys)
    <3>1. ASSUME NEW k \in 1..m PROVE <<n, k>> \in EntriesReached(UnsafeKeys)
      <4>1. k \in DOMAIN heap[n].entries
        BY <2>1
      <4>2. heap[n].entries[k].key \notin UnsafeKeys
        BY <1>1, <1>3, <4>1, NodeFacts DEF TypeOK, TraversalAssumption
      <4> QED BY <1>1, <1>3, <4>1, <4>2, PlaceReached
    <3> QED BY <3>1
  <2>3. \A i \in OfEntries : copy[copy[i].parent].node \in seen
    <3> TAKE i \in OfEntries
    <3>1. i \in DOMAIN copy /\ i # 1 /\ DOMAIN copy = 1..Len(copy) /\ Len(copy) \in Nat
      BY <1>1, ItemsFinite DEF OfEntries
    <3>2. copy[i].parent \in DOMAIN copy /\ Copied(copy[i].parent)
      BY <1>1, <3>1 DEF Traversal, ItemsNest
    <3> QED BY <1>1, <3>2 DEF Traversal, SeenOnce
  <2>4. Row \cap PlacesRead = {}
    BY <1>3, <2>3 DEF PlacesRead, Place
  <2>5. IsFiniteSet(Row) /\ Cardinality(Row) = m
    BY <2>1, RowSize
  <2>6. maxKeys \in Nat /\ keysVisited \in Nat
    BY <1>1 DEF TypeOK
  <2> HIDE DEF Row
  <2>7. CASE keysVisited' = keysVisited
    BY <2>1, <2>2, <2>4, <2>5, <2>6, <2>7, SmallRoom
  <2>8. CASE keysVisited' = keysVisited + 1 /\ Turn /\ Current.key \notin UnsafeKeys
    <3>1. Here \in EntriesReached(UnsafeKeys) /\ Here \notin PlacesRead
      BY <2>8, HereFacts
    <3>2. Here \notin Row
      <4>1. copy[Frame.item].node \in seen
        BY <1>1, <2>8, TurnFacts DEF Traversal, SeenOnce
      <4> QED BY <1>3, <4>1 DEF Here, Row
    <3>3. Cardinality(Row \cup {Here}) = m + 1
      BY <2>5, <3>2, FS_AddElement
    <3>4. keysVisited + Cardinality(Row \cup {Here}) < maxKeys
      BY <2>2, <2>4, <3>1, SmallRoom
    <3> QED BY <2>1, <2>6, <2>8, <3>3, <3>4
  <2> QED BY <1>3, <2>7, <2>8
\* The new item x of a call.
<1>4. ASSUME NEW x \in ItemType, NEW frames, Calls(x, frames), x.tag \notin Markers,
             \A f \in DOMAIN frames :
               /\ frames[f].item \in DOMAIN copy
               /\ frames[f].end = Len(heap[copy[frames[f].item].node].entries),
             x.tag \in Containers => /\ x.tag = heap[x.node].tag /\ x.node \in Nodes \ seen
                                     /\ x.node \in Reached(UnsafeKeys),
             \/ keysVisited' = keysVisited
             \/ keysVisited' = keysVisited + 1 /\ Turn /\ Current.key \notin UnsafeKeys
      PROVE  /\ \A i \in DOMAIN copy' : copy'[i].tag \notin Markers
             /\ \A f \in DOMAIN stack' :
                  stack'[f].end = Len(heap[copy'[stack'[f].item].node].entries)
  <2>1. /\ Len(copy) \in Nat /\ DOMAIN copy = 1..Len(copy)
        /\ DOMAIN copy' = 1..(Len(copy) + 1)
        /\ copy'[Len(copy) + 1] = x /\ \A i \in DOMAIN copy : copy'[i] = copy[i]
    BY <1>1, <1>4, AppendFacts DEF Calls
  <2>2. \A i \in DOMAIN copy' : i \in DOMAIN copy \/ i = Len(copy) + 1
    BY <2>1
  <2>3. \A i \in DOMAIN copy' : copy'[i].tag \notin Markers
    BY <1>2, <1>4, <2>1, <2>2
  <2>4. ASSUME NEW f \in DOMAIN stack'
        PROVE  stack'[f].end = Len(heap[copy'[stack'[f].item].node].entries)
    <3>1. CASE f \in DOMAIN frames
      BY <1>4, <2>1, <3>1 DEF Calls
    <3>2. CASE f \notin DOMAIN frames
      <4>1. x.tag \in Containers /\ f = Len(frames) + 1
        BY <1>4, <2>4, <3>2 DEF Calls
      <4>2. /\ stack'[f].item = Len(copy) + 1
            /\ x.tag = "object" \/ Len(heap[x.node].entries) <= maxKeys - keysVisited' =>
                 stack'[f].end = Len(heap[x.node].entries)
        BY <1>4, <4>1 DEF Calls
      <4>3. x.tag = "object" \/ Len(heap[x.node].entries) <= maxKeys - keysVisited'
        BY <1>3, <1>4, <4>1 DEF Containers
      <4> QED BY <2>1, <4>2, <4>3
    <3> QED BY <3>1, <3>2
  <2> QED BY <2>3, <2>4
<1>5. CASE Begins
  <2>1. /\ RootItem \in ItemType /\ Calls(RootItem, <<>>) /\ seen = {}
        /\ keysVisited' = keysVisited
    BY <1>5, StartFacts
  <2>2. /\ RootItem.node = Root /\ Root \in Nodes /\ Root \in Reached(UnsafeKeys)
        /\ RootItem.tag \notin Markers
        /\ RootItem.tag \in Containers => RootItem.tag = heap[Root].tag
    BY <1>1, <1>5, NodeFacts, ReachedRoot
       DEF TraversalAssumption, TypeOK, RootItem, Markers, Containers, Unreadable, Begins
  <2> HIDE DEF RootItem
  <2>3. \A f \in DOMAIN <<>> : FALSE
    OBVIOUS
  <2>4. RootItem.tag \in Containers =>
          /\ RootItem.tag = heap[RootItem.node].tag /\ RootItem.node \in Nodes \ seen
          /\ RootItem.node \in Reached(UnsafeKeys)
    BY <2>1, <2>2
  <2> QED BY <1>4, <2>1, <2>2, <2>3, <2>4
<1>6. CASE Reads
  <2>1. /\ NewItem \in ItemType /\ Calls(NewItem, NextTurn) /\ Turn
        /\ Current.key \notin UnsafeKeys /\ keysVisited' = keysVisited + 1
    BY <1>6, ReadFacts
  <2>2. Current.key \notin UnsafeKeys /\ NewItem.node = Current.child
    BY <2>1 DEF NewItem
  <2>3. NewItem.tag \notin Markers
    <3>1. CASE NewItem.node = Leaf
      <4>1. NewItem.tag = "leaf"
        BY <1>6, <3>1, NewItemFacts
      <4> QED BY <4>1 DEF Markers
    <3>2. CASE NewItem.node # Leaf
      <4>1. NewItem.node \notin seen
        BY <2>1, <2>2, <3>2, SmallUnseen
      <4>2. NewItem.node \in Reached(UnsafeKeys) /\ NewItem.level = Len(stack)
        BY <1>6, <3>2, NewItemFacts
      <4>3. NewItem.level < maxDepth
        BY <4>1, <4>2, SmallDepth
      <4>4. NewItem.tag = IF heap[NewItem.node].tag = "hostile" THEN Unreadable
                          ELSE heap[NewItem.node].tag
        BY <1>6, <3>2, <4>1, <4>3, NewItemFacts
      <4>5. heap[NewItem.node].tag \in {"array", "object", "hostile", "revoked"}
        BY <1>1, <4>2, NodeFacts DEF TypeOK, Reached
      <4> QED BY <4>4, <4>5 DEF Markers, Unreadable
    <3> QED BY <3>1, <3>2
  <2>4. \A f \in DOMAIN NextTurn :
          /\ NextTurn[f].item \in DOMAIN copy
          /\ NextTurn[f].end = Len(heap[copy[NextTurn[f].item].node].entries)
    <3>1. stack # <<>>
      BY <2>1 DEF Turn
    <3> QED BY <1>1, <1>2, <3>1, NextTurnFacts
  <2>5. NewItem.tag \in Containers =>
          /\ NewItem.tag = heap[NewItem.node].tag /\ NewItem.node \in Nodes \ seen
          /\ NewItem.node \in Reached(UnsafeKeys)
    BY <1>6, NewItemFacts DEF TraversalAssumption
  <2> QED BY <1>4, <2>1, <2>2, <2>3, <2>4, <2>5
<1>7. CASE MarkCut
  <2>1. Turn /\ Current.key \notin UnsafeKeys /\ ~(keysVisited < maxKeys - 1)
    BY <1>7 DEF MarkCut, KeysLeft
  <2>2. keysVisited + 1 < maxKeys
    BY <2>1, HereFacts
  <2> QED BY <1>1, <2>1, <2>2 DEF TypeOK
<1>8. CASE Moves
  <2>1. copy' = copy /\ stack # <<>> /\ (stack' = NextTurn \/ stack' = Leave)
    BY <1>8, MoveFacts
  <2>2. \A f \in DOMAIN stack' : /\ f \in DOMAIN stack /\ stack'[f].item = stack[f].item
                                 /\ stack'[f].end = stack[f].end
    <3>1. CASE stack' = NextTurn
      BY <1>1, <2>1, <3>1, NextTurnFacts
    <3>2. CASE stack' = Leave
      BY <1>1, <2>1, <3>2, LeaveFacts
    <3> QED BY <2>1, <3>1, <3>2
  <2> QED BY <1>2, <2>1, <2>2
<1>9. CASE Redacts
  <2>1. copy' = copy /\ stack' = stack
    BY <1>9, RedactFacts DEF normalizing
  <2> QED BY <1>2, <2>1
<1> QED BY <1>5, <1>6, <1>7, <1>8, <1>9, StepKinds

-----------------------------------------------------------------------------
(* No entry is passed over silently.                                       *)

LEMMA CoveredStep ==
  ASSUME IInv, Step
  PROVE  EntriesCovered'
<1>1. /\ TypeOK /\ Traversal /\ EntriesCovered /\ SmallUncut
      /\ heap' = heap /\ (IsSmall' <=> IsSmall)
      /\ copy \in Seq(ItemType) /\ stack \in Seq(FrameType)
  BY StepKinds, Statics DEF IInv, limits, TypeOK
<1> SUFFICES ASSUME NEW j \in DOMAIN copy', copy'[j].tag \in Containers,
                    copy'[j].tag = "object" \/ IsSmall,
                    NEW k \in DOMAIN heap[copy'[j].node].entries,
                    heap[copy'[j].node].entries[k].key \notin UnsafeKeys
             PROVE  \/ \E i \in OfEntries' : copy'[i].parent = j /\ copy'[i].entry = k
                    \/ \E i \in DOMAIN copy' \ {1} :
                         copy'[i].tag = "[MaxKeys]" /\ copy'[i].parent = j
                    \/ \E f \in DOMAIN stack' : stack'[f].item = j /\ stack'[f].next <= k
  BY <1>1 DEF EntriesCovered, Copied, IsMark
\* What held of an item that was there, but for the calls in progress.
<1>2. ASSUME j \in DOMAIN copy,
             \A i \in DOMAIN copy : i \in DOMAIN copy' /\ copy'[i] = copy[i],
             OfEntries \subseteq OfEntries',
             ~ \E f \in DOMAIN stack : stack[f].item = j /\ stack[f].next <= k
      PROVE  \/ \E i \in OfEntries' : copy'[i].parent = j /\ copy'[i].entry = k
             \/ \E i \in DOMAIN copy' \ {1} : copy'[i].tag = "[MaxKeys]" /\ copy'[i].parent = j
  <2>1. \/ \E i \in OfEntries : copy[i].parent = j /\ copy[i].entry = k
        \/ \E i \in DOMAIN copy \ {1} : copy[i].tag = "[MaxKeys]" /\ copy[i].parent = j
    BY <1>1, <1>2 DEF EntriesCovered, Copied, IsMark
  <2>2. OfEntries \subseteq DOMAIN copy
    BY DEF OfEntries, Unmarked
  <2> QED BY <1>2, <2>1, <2>2
<1>3. k \in Nat /\ \A f \in DOMAIN stack : stack[f] \in FrameType /\ stack[f].next \in Nat
  <2>1. copy'[j].node \in Nodes
    <3>1. ItemsTrue'
      BY ItemsStep
    <3>2. copy'[j].node # Leaf => copy'[j].node \in Reached(UnsafeKeys)'
      BY <3>1 DEF ItemsTrue, TagsAreTrue
    <3>3. copy'[j].node # Leaf
      BY <3>1 DEF ItemsTrue, TagsAreTrue, Containers
    <3> QED BY <3>2, <3>3 DEF Reached
  <2>2. heap[copy'[j].node].entries \in Seq(EntryType)
    BY <1>1, <2>1, NodeFacts DEF TypeOK
  <2>3. \A f \in DOMAIN stack : stack[f] \in FrameType
    BY <1>1
  <2> QED BY <2>2, <2>3 DEF FrameType
<1>4. CASE Begins
  <2>1. /\ RootItem \in ItemType /\ Calls(RootItem, <<>>) /\ copy = <<>>
        /\ copy' = Append(copy, RootItem)
    BY <1>4, StartFacts DEF Calls
  <2> HIDE DEF RootItem
  <2>2. Len(copy) = 0
    BY <2>1
  <2>3. j = 1 /\ copy'[j] = RootItem
    <3>1. DOMAIN copy' = 1..(0 + 1) /\ copy'[0 + 1] = RootItem
      BY <1>1, <2>1, <2>2, AppendFacts
    <3> QED BY <3>1
  <2>4. 1 \in DOMAIN stack' /\ stack'[1].item = 1 /\ stack'[1].next = 1
    <3>1. Len(<<>>) + 1 = 1
      OBVIOUS
    <3> QED BY <2>1, <2>2, <2>3, <3>1 DEF Calls
  <2>5. 1 <= k
    <3>1. heap[copy'[j].node].entries \in Seq(EntryType)
      BY <1>1, <2>3, NodeFacts DEF TypeOK, TraversalAssumption, RootItem
    <3> QED BY <3>1
  <2> QED BY <2>3, <2>4, <2>5
<1>5. CASE Reads
  <2>1. /\ NewItem \in ItemType /\ Calls(NewItem, NextTurn) /\ copy' = Append(copy, NewItem)
        /\ Turn /\ stack # <<>> /\ Len(stack) \in DOMAIN stack
    BY <1>1, <1>5, ReadFacts, TurnFacts DEF Calls
  <2>2. /\ NewItem.parent = Frame.item /\ NewItem.entry = Frame.next
        /\ NewItem.parent \in DOMAIN copy /\ copy # <<>> /\ NewItem.tag # "[MaxKeys]"
    BY <1>5, NewItemFacts
  <2>3. /\ OfEntries' = OfEntries \cup {Len(copy) + 1}
        /\ \A i \in DOMAIN copy : i \in DOMAIN copy' /\ copy'[i] = copy[i]
        /\ copy'[Len(copy) + 1] = NewItem
        /\ j \in DOMAIN copy \/ j = Len(copy) + 1
    <3>1. /\ OfEntries' = OfEntries \cup {Len(copy) + 1}
          /\ copy'[Len(copy) + 1] = NewItem
      BY <2>1, <2>2, EntriesGrow
    <3>2. \A i \in DOMAIN copy : i \in DOMAIN copy' /\ copy'[i] = copy[i]
      BY <1>1, <2>1, AppendFacts
    <3>3. j \in DOMAIN copy \/ j = Len(copy) + 1
      BY <1>1, <2>1, AppendFacts
    <3> QED BY <3>1, <3>2, <3>3
  <2>4. /\ DOMAIN NextTurn = DOMAIN stack /\ Len(NextTurn) = Len(stack)
        /\ \A f \in DOMAIN stack :
              /\ NextTurn[f].item = stack[f].item
              /\ NextTurn[f].next = IF f = Len(stack) THEN stack[f].next + 1 ELSE stack[f].next
    BY <1>1, <2>1, NextTurnFacts
  <2>5. CASE j = Len(copy) + 1
    <3>1. NewItem.tag \in Containers
      BY <2>3, <2>5
    <3>2. /\ Len(stack) + 1 \in DOMAIN stack' /\ stack'[Len(stack) + 1].item = j
          /\ stack'[Len(stack) + 1].next = 1
      BY <2>1, <2>4, <2>5, <3>1 DEF Calls
    <3>3. 1 <= k
      <4>1. NewItem.node \in Nodes
        BY <1>5, <3>1, NewItemFacts
      <4>2. heap[NewItem.node].entries \in Seq(EntryType) /\ copy'[j].node = NewItem.node
        BY <1>1, <2>3, <2>5, <4>1, NodeFacts DEF TypeOK
      <4> QED BY <4>2
    <3> QED BY <3>2, <3>3
  <2>6. CASE j \in DOMAIN copy
    <3>1. CASE \E f \in DOMAIN stack : stack[f].item = j /\ stack[f].next <= k
      <4>1. PICK f \in DOMAIN stack : stack[f].item = j /\ stack[f].next <= k
        BY <3>1
      <4>2. f \in DOMAIN stack' /\ stack'[f] = NextTurn[f]
        BY <2>1, <2>4 DEF Calls
      <4>3. CASE f # Len(stack) \/ stack[f].next # k
        <5>1. stack'[f].item = j /\ stack'[f].next <= k
          BY <1>3, <2>4, <4>1, <4>2, <4>3
        <5> QED BY <4>2, <5>1
      <4>4. CASE f = Len(stack) /\ stack[f].next = k
        <5>1. NewItem.parent = j /\ NewItem.entry = k
          BY <2>2, <4>1, <4>4 DEF Frame
        <5> QED BY <2>3, <5>1
      <4> QED BY <4>3, <4>4
    <3>2. CASE ~ \E f \in DOMAIN stack : stack[f].item = j /\ stack[f].next <= k
      BY <1>2, <2>3, <2>6, <3>2
    <3> QED BY <3>1, <3>2
  <2> QED BY <2>3, <2>5, <2>6
\* When a loop is left, nothing of its node is still to come.
<1>6. ASSUME j \in DOMAIN copy,
             \A i \in DOMAIN copy : i \in DOMAIN copy' /\ copy'[i] = copy[i],
             OfEntries \subseteq OfEntries', stack' = Leave, stack # <<>>,
             stack[Len(stack)].item = j => k < stack[Len(stack)].next
      PROVE  \/ \E i \in OfEntries' : copy'[i].parent = j /\ copy'[i].entry = k
             \/ \E i \in DOMAIN copy' \ {1} : copy'[i].tag = "[MaxKeys]" /\ copy'[i].parent = j
             \/ \E f \in DOMAIN stack' : stack'[f].item = j /\ stack'[f].next <= k
  <2>1. CASE \E f \in DOMAIN stack : stack[f].item = j /\ stack[f].next <= k
    <3>1. PICK f \in DOMAIN stack : stack[f].item = j /\ stack[f].next <= k
      BY <2>1
    <3>2. f # Len(stack)
      BY <1>3, <1>6, <3>1
    <3>3. f \in DOMAIN stack' /\ stack'[f] = stack[f]
      BY <1>1, <1>6, <3>2, LeaveFacts
    <3> QED BY <3>1, <3>3
  <2>2. CASE ~ \E f \in DOMAIN stack : stack[f].item = j /\ stack[f].next <= k
    BY <1>2, <1>6, <2>2
  <2> QED BY <2>1, <2>2
<1>7. CASE MarkCut
  <2>1. /\ MarkItem \in ItemType /\ copy' = Append(copy, MarkItem) /\ stack' = Leave
        /\ Turn /\ MarkItem.parent = Frame.item /\ MarkItem.tag = "[MaxKeys]"
    BY <1>7, MarkFacts DEF MarkItem
  <2>2. Frame.item \in DOMAIN copy /\ copy # <<>> /\ stack # <<>>
    BY <1>1, <2>1, TurnFacts
  <2>3. /\ OfEntries' = OfEntries /\ copy'[Len(copy) + 1] = MarkItem
        /\ \A i \in DOMAIN copy : i \in DOMAIN copy' /\ copy'[i] = copy[i]
        /\ j \in DOMAIN copy \/ j = Len(copy) + 1
        /\ Len(copy) + 1 \in DOMAIN copy' \ {1}
    <3>1. OfEntries' = OfEntries /\ copy'[Len(copy) + 1] = MarkItem
      BY <2>1, <2>2, EntriesGrow
    <3>2. /\ \A i \in DOMAIN copy : i \in DOMAIN copy' /\ copy'[i] = copy[i]
          /\ j \in DOMAIN copy \/ j = Len(copy) + 1
          /\ Len(copy) + 1 \in DOMAIN copy' \ {1}
      BY <1>1, <2>1, <2>2, AppendFacts
    <3> QED BY <3>1, <3>2
  <2>4. j \in DOMAIN copy
    BY <2>1, <2>3 DEF Containers
  <2>5. CASE j = Frame.item
    BY <2>1, <2>3, <2>5
  <2>6. CASE j # Frame.item
    BY <1>6, <2>1, <2>2, <2>3, <2>4, <2>6 DEF Frame
  <2> QED BY <2>5, <2>6
<1>8. CASE Moves
  <2>1. copy' = copy /\ stack # <<>> /\ OfEntries' = OfEntries
    BY <1>8, MoveFacts DEF OfEntries, Unmarked, IsMark
  <2>2. CASE SkipKey /\ Turn /\ stack' = NextTurn
    <3>1. CASE \E f \in DOMAIN stack : stack[f].item = j /\ stack[f].next <= k
      <4>1. PICK f \in DOMAIN stack : stack[f].item = j /\ stack[f].next <= k
        BY <3>1
      <4>2. ~(f = Len(stack) /\ stack[f].next = k)
        <5> SUFFICES ASSUME f = Len(stack), stack[f].next = k PROVE FALSE
          OBVIOUS
        <5>1. Current = heap[copy[j].node].entries[k]
          BY <4>1 DEF Current, Looped, Frame
        <5> QED BY <2>1, <2>2, <5>1 DEF SkipKey
      <4>3. /\ f \in DOMAIN stack' /\ stack'[f].item = stack[f].item
            /\ stack'[f].next = IF f = Len(stack) THEN stack[f].next + 1 ELSE stack[f].next
        BY <1>1, <2>1, <2>2, NextTurnFacts
      <4>4. stack'[f].next <= k
        BY <1>3, <4>1, <4>2, <4>3
      <4> QED BY <4>1, <4>3, <4>4
    <3>2. CASE ~ \E f \in DOMAIN stack : stack[f].item = j /\ stack[f].next <= k
      BY <1>2, <2>1, <3>2
    <3> QED BY <3>1, <3>2
  <2>3. CASE Return /\ stack' = Leave
    <3>1. ASSUME stack[Len(stack)].item = j PROVE k < stack[Len(stack)].next
      <4>1. Len(stack) \in DOMAIN stack
        BY <1>1, <2>1
      <4>2. stack[Len(stack)].end = Len(heap[copy[j].node].entries)
        BY <1>1, <2>1, <3>1, <4>1 DEF Traversal, FramesMatch, SmallUncut
      <4>3. /\ stack[Len(stack)].next > stack[Len(stack)].end
            /\ stack[Len(stack)].next \in Nat /\ stack[Len(stack)].end \in Nat
        BY <1>3, <2>3, <4>1 DEF Return, Frame, FrameType
      <4>4. k <= Len(heap[copy[j].node].entries)
        <5>1. copy[j].node \in Nodes
          BY <1>1, <2>1 DEF Traversal, TagsAreTrue, Containers, Reached
        <5>2. heap[copy[j].node].entries \in Seq(EntryType)
          BY <1>1, <5>1, NodeFacts DEF TypeOK
        <5> QED BY <2>1, <5>2
      <4> QED BY <1>3, <4>2, <4>3, <4>4
    <3> QED BY <1>6, <2>1, <2>3, <3>1
  <2>4. CASE BreakItems /\ stack' = Leave
    <3>1. Turn /\ Looped.tag = "array" /\ ~(keysVisited < maxKeys)
      BY <1>1, <2>4 DEF BreakItems, Exhausted, TypeOK
    <3>2. /\ Current.key \notin UnsafeKeys /\ Looped.tag = copy[Frame.item].tag
      BY <1>1, <3>1, TurnFacts
    <3>3. ~IsSmall
      <4>1. IsSmall => keysVisited + 1 < maxKeys
        BY <3>1, <3>2, HereFacts
      <4> QED BY <1>1, <3>1, <4>1 DEF TypeOK
    <3>4. stack[Len(stack)].item # j
      BY <2>1, <3>1, <3>2, <3>3 DEF Frame
    <3> QED BY <1>6, <2>1, <2>4, <3>4
  <2> QED BY <1>8, <2>2, <2>3, <2>4, MoveFacts
<1>9. CASE Redacts
  <2>1. copy' = copy /\ stack' = stack
    BY <1>9, RedactFacts DEF normalizing
  <2> QED BY <1>1, <2>1 DEF EntriesCovered, OfEntries, Unmarked, IsMark, Copied
<1> QED BY <1>4, <1>5, <1>7, <1>8, <1>9, StepKinds

-----------------------------------------------------------------------------
(* The second traversal.                                                   *)

\* A key is secret in the copy if it is stored as a secret one, and never the
\* key of a mark.
LEMMA KeyFacts ==
  ASSUME IInv, NEW i \in OfEntries
  PROVE  LET entry == heap[copy[copy[i].parent].node].entries[copy[i].entry]
         IN /\ i \in DOMAIN copy \ {1} /\ copy[i].parent \in DOMAIN copy /\ Copied(copy[i].parent)
            /\ copy[copy[i].parent].node \in Reached(UnsafeKeys)
            /\ copy[i].entry \in DOMAIN heap[copy[copy[i].parent].node].entries
            /\ copy[i].node = entry.child
            /\ copy[i].key # "[truncated]"
            /\ copy[i].key \in SecretKeys <=> entry.key \in HiddenKeys
            /\ entry.key \notin UnsafeKeys
            /\ copy[copy[i].parent].tag = "object" =>
                 /\ heap[copy[copy[i].parent].node].tag = "object"
                 /\ copy[i].key = stored[entry.key]
<1> DEFINE j == copy[i].parent
           n == copy[j].node
           k == copy[i].entry
<1>1. i \in DOMAIN copy \ {1}
  BY DEF OfEntries, Unmarked
<1>2. j \in DOMAIN copy /\ Copied(j)
  <2>1. DOMAIN copy = 1..Len(copy) /\ Len(copy) \in Nat
    BY DEF IInv, TypeOK
  <2>2. j \in 1..(i - 1) /\ Copied(j)
    BY <1>1 DEF IInv, Traversal, ItemsNest
  <2> QED BY <1>1, <2>1, <2>2
<1>3. n \in Reached(UnsafeKeys) /\ n \in Nodes /\ heap[n].tag = copy[j].tag
  BY <1>2 DEF IInv, Traversal, TagsAreTrue, Copied, Containers, Reached
<1>4. /\ k \in DOMAIN heap[n].entries /\ heap[n].entries[k].key \notin UnsafeKeys
      /\ copy[i].key = KeyOf(n, k) /\ copy[i].node = heap[n].entries[k].child
  BY DEF IInv, Traversal, ItemsOfEntries
<1>5. heap \in [Nodes -> NodeValues] /\ stored \in [Keys -> Keys]
  BY DEF IInv, TypeOK
<1> HIDE DEF n, k
<1>6. CASE heap[n].tag = "object"
  <2>1. heap[n].entries[k].key \in Keys /\ copy[i].key = stored[heap[n].entries[k].key]
    BY <1>3, <1>4, <1>5, <1>6, NodeFacts DEF KeyOf
  <2>2. copy[i].key \in Keys
    BY <1>5, <2>1
  <2>3. copy[i].key \in SecretKeys <=> heap[n].entries[k].key \in HiddenKeys
    BY <2>1 DEF HiddenKeys
  <2>4. copy[i].key # "[truncated]"
    BY <2>2 DEF TraversalAssumption
  <2> QED BY <1>1, <1>2, <1>3, <1>4, <1>6, <2>1, <2>3, <2>4 DEF n, k
<1>7. CASE heap[n].tag # "object"
  <2>1. heap[n].tag = "array"
    BY <1>2, <1>3, <1>7 DEF Copied, Containers
  <2>2. heap[n].entries[k].key = "item" /\ copy[i].key = "item"
    BY <1>3, <1>4, <1>5, <2>1, NodeFacts DEF KeyOf
  <2>3. copy[i].key \notin SecretKeys /\ heap[n].entries[k].key \notin HiddenKeys
    BY <2>2 DEF TraversalAssumption, HiddenKeys
  <2> QED BY <1>1, <1>2, <1>3, <1>4, <1>7, <2>2, <2>3 DEF n, k
<1> QED BY <1>6, <1>7

\* What is copied under a plain key of a node that plain keys lead to.
LEMMA EnteredReached ==
  ASSUME IInv, NEW i \in DOMAIN copy, i # 1,
         Written(i) \in Containers,
         copy[copy[i].parent].node \in Reached(SkippedKeys)
  PROVE  copy[i].node \in Reached(SkippedKeys)
<1>1. copy[i].key \notin SecretKeys /\ copy[i].tag \in Containers
  BY DEF Written, Withheld, Containers, Hidden
<1>2. i \in OfEntries
  BY <1>1 DEF OfEntries, Unmarked, IsMark, Containers
<1> DEFINE n == copy[copy[i].parent].node
           k == copy[i].entry
<1>3. /\ k \in DOMAIN heap[n].entries /\ heap[n].entries[k].key \notin UnsafeKeys
      /\ heap[n].entries[k].key \notin HiddenKeys
      /\ copy[i].node = heap[n].entries[k].child
  BY <1>1, <1>2, KeyFacts
<1>4. copy[i].node # Leaf
  BY <1>1 DEF IInv, Traversal, TagsAreTrue, Containers
<1> QED BY <1>3, <1>4, ReachedChild DEF IInv, TypeOK, SkippedKeys

\* The loop over an item that is written next has not been entered.
LEMMA EntriesNew ==
  ASSUME IInv, kept # {}, NEW i \in todo
  PROVE  /\ i \in DOMAIN copy /\ i # 1 /\ i \notin kept
         /\ \A k \in Entries(i) : /\ k \in DOMAIN copy /\ k # 1 /\ k # i /\ k \notin kept
                                  /\ copy[k].parent = i /\ Written(i) \in Containers
<1>1. i \in DOMAIN copy /\ i # 1 /\ i \notin kept
  BY DEF IInv, Redacting
<1>2. /\ copy # <<>> /\ DOMAIN copy = 1..Len(copy) /\ Len(copy) \in Nat
  BY DEF IInv, TypeOK, Traversal, Phases
<1> SUFFICES ASSUME NEW k \in Entries(i)
             PROVE  /\ k \in DOMAIN copy /\ k # 1 /\ k # i /\ k \notin kept
                    /\ copy[k].parent = i /\ Written(i) \in Containers
  BY <1>1
<1>3. k \in DOMAIN copy /\ copy[k].parent = i /\ Written(i) \in Containers
  BY DEF Entries
<1>4. k # 1
  <2>1. copy[1].parent = 0
    BY <1>2 DEF IInv, Traversal, RootFirst, RootItem
  <2> QED BY <1>1, <1>2, <1>3, <2>1
<1>5. k # i
  BY <1>2, <1>3, <1>4 DEF IInv, Traversal, ItemsNest
<1>6. k \notin kept
  <2> SUFFICES ASSUME k \in kept PROVE FALSE
    OBVIOUS
  <2>1. Entered(i)
    BY <1>3, <1>4 DEF IInv, Redacting
  <2> QED BY <1>1, <2>1 DEF Entered
<1> QED BY <1>3, <1>4, <1>5, <1>6

LEMMA RedactingStep ==
  ASSUME IInv, Step
  PROVE  Redacting'
<1>1. /\ TypeOK /\ Traversal /\ Redacting
      /\ Reached(SkippedKeys)' = Reached(SkippedKeys)
      /\ maxKeys' = maxKeys /\ maxDepth' = maxDepth /\ heap' = heap
  BY StepKinds, Statics DEF IInv, limits
<1>2. /\ maxKeys \in Nat \ {0} /\ keysRedacted \in Nat /\ Len(copy) \in Nat
      /\ DOMAIN copy = 1..Len(copy)
  BY <1>1 DEF TypeOK
<1>3. CASE Begins \/ Reads \/ MarkCut \/ Moves
  <2>1. kept = {}
    BY <1>1, <1>3, StartFacts, ReadFacts, MarkFacts, TurnFacts, MoveFacts
  <2>2. kept' = kept
    BY <1>3, StartFacts, ReadFacts, MarkFacts, MoveFacts DEF Calls, redacting
  <2> QED BY <2>1, <2>2 DEF Redacting
<1>4. CASE Redacts
  <2>1. copy' = copy
    BY <1>4, RedactFacts DEF normalizing
  <2>2. \A i : /\ Written(i)' = Written(i)
               /\ Overwritten(i)' <=> Overwritten(i)
    BY <1>1, <2>1 DEF Written, Withheld, TooDeep, Overwritten, SameKey
  <2> DEFINE Enters(i) == copy[i].parent \in kept' /\ Written(copy[i].parent) \in Containers
  <2>7. ASSUME 1 \in kept', kept' \subseteq DOMAIN copy,
               todo' \subseteq DOMAIN copy, todo' \cap kept' = {},
               Cardinality(kept') = keysRedacted' + 1, keysRedacted' <= maxKeys,
               \A i \in (kept' \cup todo') \ {1} : Enters(i),
               \/ keysRedacted' >= maxKeys
               \/ \A i \in DOMAIN copy \ {1} :
                    Enters(i) /\ ~Overwritten(i) => i \in kept' \cup todo',
               \A i \in kept' : Written(i) \in Containers => copy[i].node \in Reached(SkippedKeys)
        PROVE  Redacting'
    <3>1. \A i : Entered(copy[i].parent)' <=> Enters(i)
      BY <1>1, <2>1 DEF Entered, Written, Withheld, TooDeep
    <3>2. \A i \in (kept \cup todo)' \ {1} : Entered(copy[i].parent)'
      BY <2>7, <3>1
    <3>3. \/ keysRedacted' >= maxKeys'
          \/ \A i \in DOMAIN copy' \ {1} :
               Entered(copy[i].parent)' /\ ~Overwritten(i)' => i \in kept' \cup todo'
      BY <1>1, <2>1, <2>2, <2>7, <3>1
    <3>4. \A i \in kept' : Entered(i)' => copy'[i].node \in Reached(SkippedKeys)'
      BY <1>1, <2>1, <2>7 DEF Entered, Written, Withheld, TooDeep
    <3> HIDE DEF Enters
    <3>5. /\ 1 \in kept' /\ kept' \subseteq DOMAIN copy'
          /\ todo' \subseteq DOMAIN copy' /\ todo' \cap kept' = {}
          /\ Cardinality(kept') = keysRedacted' + 1 /\ keysRedacted' <= maxKeys'
      BY <1>1, <2>1, <2>7
    <3> QED BY <3>2, <3>3, <3>4, <3>5 DEF Redacting
  <2>3. CASE RedactRoot
    <3>1. /\ kept' = {1} /\ todo' = Entries(1) /\ keysRedacted' = 0 /\ copy # <<>>
      BY <1>1, <2>3 DEF RedactRoot, Traversal, Phases
    <3>2. /\ 1 \in DOMAIN copy /\ copy[1].parent = 0 /\ copy[1].node = Root
      BY <1>1, <1>2, <3>1 DEF Traversal, RootFirst, RootItem
    <3>3. Cardinality(kept') = 1
      BY <3>1, FS_Singleton
    <3>4. copy[1].node \in Reached(SkippedKeys)
      BY <3>2, ReachedRoot
    <3>5. \A k \in Entries(1) : /\ k \in DOMAIN copy /\ k # 1 /\ copy[k].parent = 1
                                /\ Written(1) \in Containers
      BY <3>2 DEF Entries
    <3>6. \A i \in (kept' \cup todo') \ {1} :
            copy[i].parent \in kept' /\ Written(copy[i].parent) \in Containers
      BY <3>1, <3>5
    <3>7. \A i \in DOMAIN copy \ {1} :
            /\ copy[i].parent \in kept' /\ Written(copy[i].parent) \in Containers
            /\ ~Overwritten(i)
            => i \in kept' \cup todo'
      BY <3>1 DEF Entries
    <3> QED BY <1>2, <2>7, <3>1, <3>2, <3>3, <3>4, <3>5, <3>6, <3>7
  <2>4. ASSUME NEW i \in todo, RedactEntry(i) PROVE Redacting'
    <3>1. /\ keysRedacted < maxKeys
          /\ kept' = kept \cup {i} /\ todo' = (todo \ {i}) \cup Entries(i)
          /\ keysRedacted' = keysRedacted + 1 /\ kept # {}
      BY <1>1, <1>2, <2>4 DEF RedactEntry, Exhausted, Traversal, Phases
    <3>2. /\ 1 \in kept /\ kept \subseteq DOMAIN copy
          /\ todo \subseteq DOMAIN copy /\ todo \cap kept = {}
          /\ Cardinality(kept) = keysRedacted + 1
          /\ \A k \in (kept \cup todo) \ {1} : Entered(copy[k].parent)
          /\ \A k \in DOMAIN copy \ {1} :
               Entered(copy[k].parent) /\ ~Overwritten(k) => k \in kept \cup todo
          /\ \A k \in kept : Entered(k) => copy[k].node \in Reached(SkippedKeys)
      <4>1. ~(keysRedacted >= maxKeys)
        BY <1>2, <3>1
      <4> QED BY <1>1, <3>1, <4>1 DEF Redacting
    <3>3. /\ i \in DOMAIN copy /\ i # 1 /\ i \notin kept
          /\ \A k \in Entries(i) : /\ k \in DOMAIN copy /\ k # 1 /\ k # i /\ k \notin kept
                                   /\ copy[k].parent = i /\ Written(i) \in Containers
      BY <3>1, EntriesNew
    <3>4. /\ 1 \in kept' /\ kept' \subseteq DOMAIN copy /\ todo' \subseteq DOMAIN copy
          /\ todo' \cap kept' = {}
      BY <3>1, <3>2, <3>3
    <3>5. Cardinality(kept') = keysRedacted' + 1 /\ keysRedacted' <= maxKeys
      <4>1. IsFiniteSet(DOMAIN copy)
        BY <1>2, FS_Interval
      <4>2. IsFiniteSet(kept)
        BY <3>2, <4>1, FS_Subset
      <4>3. Cardinality(kept \cup {i}) = keysRedacted + 1 + 1
        BY <3>2, <3>3, <4>2, FS_AddElement
      <4> QED BY <1>2, <3>1, <4>3
    <3>6. \A k \in (kept' \cup todo') \ {1} :
            copy[k].parent \in kept' /\ Written(copy[k].parent) \in Containers
      BY <3>1, <3>2, <3>3 DEF Entered
    <3>7. \A k \in DOMAIN copy \ {1} :
            /\ copy[k].parent \in kept' /\ Written(copy[k].parent) \in Containers
            /\ ~Overwritten(k)
            => k \in kept' \cup todo'
      BY <3>1, <3>2 DEF Entries, Entered
    <3>8. \A k \in kept' : Written(k) \in Containers => copy[k].node \in Reached(SkippedKeys)
      <4>1. ASSUME Written(i) \in Containers PROVE copy[i].node \in Reached(SkippedKeys)
        <5>1. copy[copy[i].parent].node \in Reached(SkippedKeys)
          BY <3>2, <3>3 DEF Entered
        <5> QED BY <3>3, <4>1, <5>1, EnteredReached
      <4> QED BY <3>1, <3>2, <4>1 DEF Entered
    <3> QED BY <2>7, <3>4, <3>5, <3>6, <3>7, <3>8
  <2>5. CASE BreakEntries
    <3>1. /\ keysRedacted >= maxKeys
          /\ kept' = kept /\ todo' = {} /\ keysRedacted' = keysRedacted
      BY <1>2, <2>5 DEF BreakEntries, Exhausted
    <3> SUFFICES ASSUME kept # {} PROVE Redacting'
      BY <3>1 DEF Redacting
    <3>2. /\ 1 \in kept /\ kept \subseteq DOMAIN copy
          /\ Cardinality(kept) = keysRedacted + 1 /\ keysRedacted <= maxKeys
          /\ \A k \in (kept \cup todo) \ {1} : Entered(copy[k].parent)
          /\ \A k \in kept : Entered(k) => copy[k].node \in Reached(SkippedKeys)
      BY <1>1 DEF Redacting
    <3> QED BY <2>7, <3>1, <3>2 DEF Entered
  <2>6. CASE UNCHANGED vars
    <3>1. kept' = kept /\ todo' = todo /\ keysRedacted' = keysRedacted
      BY <2>6 DEF vars
    <3> SUFFICES ASSUME kept # {} PROVE Redacting'
      BY <3>1 DEF Redacting
    <3> QED BY <1>1, <2>7, <3>1 DEF Redacting, Entered
  <2> QED BY <1>4, <2>3, <2>4, <2>5, <2>6 DEF Redacts
<1> QED BY <1>3, <1>4, StepKinds

-----------------------------------------------------------------------------
(* What is thrown ends the first traversal.                                *)

LEMMA ThrowsStep ==
  ASSUME TypeOK, kept = {}, todo = {}, keysRedacted = 0, Throws
  PROVE  Aborted'
<1>1. /\ UNCHANGED limits /\ UNCHANGED redacting /\ UNCHANGED <<seen, keysVisited>>
      /\ copy' = <<CaughtItem>> /\ stack' = <<>>
  BY DEF Throws, Catch, CaughtItem, redacting
<1>2. CaughtItem \in ItemType
  BY DEF CaughtItem, ItemType, Tags, TraversalAssumption
<1>3. copy' \in Seq(ItemType) /\ stack' \in Seq(FrameType)
  <2> HIDE DEF CaughtItem
  <2> QED BY <1>1, <1>2
<1>4. TypeOK'
  BY <1>1, <1>3 DEF TypeOK, limits, redacting
<1>5. \E n \in Reached(UnsafeKeys)' : heap'[n].tag = "revoked"
  <2>1. Reached(UnsafeKeys)' = Reached(UnsafeKeys) /\ heap' = heap
    BY <1>1, Statics DEF limits
  <2> QED BY <2>1 DEF Throws
<1> QED BY <1>1, <1>4, <1>5 DEF Aborted, redacting, CaughtItem

\* Of the text that is left, nothing is redacted.
LEMMA AbortedFacts ==
  ASSUME Aborted
  PROVE  /\ copy[1] = CaughtItem /\ DOMAIN copy = {1}
         /\ Written(1) = Unreadable /\ Entries(1) = {} /\ ~Withheld(1)
<1>1. copy[1] = CaughtItem /\ DOMAIN copy = {1}
  <2> HIDE DEF CaughtItem
  <2> QED BY DEF Aborted
<1>2. copy[1].key = "item" /\ copy[1].tag = Unreadable
  BY <1>1 DEF CaughtItem
<1>3. ~Withheld(1)
  BY <1>2 DEF Withheld, TraversalAssumption
<1>4. Written(1) = Unreadable
  BY <1>2, <1>3 DEF Written, Unreadable, Containers
<1>5. Entries(1) = {}
  BY <1>4 DEF Entries, Unreadable, Containers
<1> QED BY <1>1, <1>3, <1>4, <1>5

LEMMA AbortedStep ==
  ASSUME Aborted, [Next]_vars
  PROVE  Aborted'
<1>1. copy # <<>> /\ stack = <<>> /\ todo = {} /\ kept \subseteq {1} /\ TypeOK
  BY DEF Aborted
<1>2. RedactRoot \/ UNCHANGED vars
  BY <1>1 DEF Next, Start, ReadItem, BreakItems, SkipKey, ReadKey, MarkCut, Return, Turn, BreakEntries
<1>3. /\ UNCHANGED <<limits, normalizing>>
      /\ kept' \subseteq {1} /\ todo' = {} /\ keysRedacted' = 0
  BY <1>2, AbortedFacts DEF RedactRoot, vars, limits, normalizing, Aborted
<1>4. TypeOK'
  <2>1. kept' \in SUBSET Nat /\ todo' \in SUBSET Nat /\ keysRedacted' \in Nat
    BY <1>3
  <2> QED BY <1>1, <1>3, <2>1 DEF TypeOK, limits, normalizing
<1>5. Reached(UnsafeKeys)' = Reached(UnsafeKeys) /\ heap' = heap
  BY <1>3, Statics DEF limits
<1>6. /\ copy' = copy /\ stack' = stack /\ CaughtItem' = CaughtItem
  BY <1>3 DEF normalizing, CaughtItem
<1> QED BY <1>3, <1>4, <1>5, <1>6 DEF Aborted

-----------------------------------------------------------------------------
(* The theorems.                                                           *)

LEMMA InitIInv ==
  ASSUME Init
  PROVE  IInv
<1>1. maxKeys \in Nat \ {0} /\ maxDepth \in Nat \ {0} /\ stored \in [Keys -> Keys]
  BY TruncationsAssumption DEF TraversalAssumption, Init
<1>2. <<>> \in Seq(ItemType) /\ <<>> \in Seq(FrameType) /\ DOMAIN <<>> = {}
  OBVIOUS
<1>3. TypeOK
  BY <1>1, <1>2 DEF Init, TypeOK
<1>4. DOMAIN copy = {} /\ DOMAIN stack = {}
  BY <1>2 DEF Init
<1>5. OfEntries = {} /\ PlacesRead = {}
  BY <1>4 DEF OfEntries, Unmarked, PlacesRead
<1>6. Traversal
  BY <1>4, <1>5 DEF Init, Traversal, RootFirst, ItemsNest, MarksCut, ItemsOfEntries, TagsAreTrue,
                    FramesMatch, SeenOnce, EntriesOnce, MarksOnce, Phases
<1>7. KeysCounted
  BY <1>1, <1>5, FS_EmptySet DEF Init, KeysCounted
<1>8. EntriesCovered /\ SmallUncut /\ Redacting
  BY <1>4 DEF Init, EntriesCovered, SmallUncut, Redacting
<1> QED BY <1>3, <1>6, <1>7, <1>8 DEF IInv

LEMMA Inductive == Spec => [](IInv \/ Aborted)
<1>1. Init => IInv \/ Aborted
  BY InitIInv
<1>2. ASSUME IInv, [Next]_vars PROVE IInv' \/ Aborted'
  <2>1. CASE Step
    <3>1. TypeOK' /\ Traversal' /\ KeysCounted' /\ EntriesCovered' /\ SmallUncut' /\ Redacting'
      BY <1>2, <2>1, TypeStep, TraversalStep, KeysStep, CoveredStep, SmallStep, RedactingStep
    <3> QED BY <3>1 DEF IInv
  <2>2. CASE Throws
    <3>1. TypeOK /\ kept = {} /\ todo = {} /\ keysRedacted = 0
      BY <1>2, <2>2 DEF Throws, IInv, Traversal, Phases
    <3> QED BY <2>2, <3>1, ThrowsStep
  <2> QED BY <1>2, <2>1, <2>2, NextKinds
<1>3. (IInv \/ Aborted) /\ [Next]_vars => (IInv \/ Aborted)'
  BY <1>2, AbortedStep
<1> QED BY <1>1, <1>3, PTL DEF Spec

\* The state keeps its types.
THEOREM TypeCorrect == Spec => []TypeOK
<1>1. IInv \/ Aborted => TypeOK
  BY DEF IInv, Aborted
<1> QED BY <1>1, Inductive, PTL

\* What the second traversal writes for an item: no copied item is too deep for
\* it, so that its tag stays unless it is withheld.
LEMMA WrittenFacts ==
  ASSUME IInv, NEW i \in kept
  PROVE  /\ copy # <<>> /\ stack = <<>> /\ i \in DOMAIN copy /\ copy[i] \in ItemType
         /\ Withheld(i) => Written(i) = Hidden
         /\ ~Withheld(i) => Written(i) = copy[i].tag
         /\ Copied(i) => copy[i].level < maxDepth
         /\ Entered(i) <=> ~Withheld(i) /\ Copied(i)
         /\ i # 1 => copy[i].parent \in kept /\ Entered(copy[i].parent)
<1>1. /\ copy # <<>> /\ stack = <<>> /\ kept \subseteq DOMAIN copy
      /\ i # 1 => Entered(copy[i].parent)
  BY DEF IInv, Traversal, Phases, Redacting
<1>2. copy \in Seq(ItemType) /\ maxDepth \in Nat
  BY DEF IInv, TypeOK
<1>3. i \in DOMAIN copy /\ copy[i] \in ItemType
  BY <1>1, <1>2
<1>4. Copied(i) => copy[i].level < maxDepth /\ ~TooDeep(copy[i].level)
  BY <1>2, <1>3 DEF IInv, Traversal, TagsAreTrue, TooDeep, ItemType
<1>5. /\ Withheld(i) => Written(i) = Hidden
      /\ ~Withheld(i) => Written(i) = copy[i].tag
  BY <1>4 DEF Written, Copied
<1>6. Hidden \notin Containers
  BY DEF Hidden, Containers
<1> QED BY <1>1, <1>3, <1>4, <1>5, <1>6 DEF Entered, Copied

\* The root is always written, as what it is.
LEMMA RootKept ==
  ASSUME IInv, kept # {}
  PROVE  /\ 1 \in kept /\ copy[1] = RootItem /\ ~Withheld(1)
         /\ copy[1].tag \in Containers \cup {Unreadable}
<1>1. 1 \in kept
  BY DEF IInv, Redacting
<1>2. copy[1] = RootItem
  BY <1>1, WrittenFacts DEF IInv, Traversal, RootFirst
<1>3. ~Withheld(1)
  BY <1>2 DEF RootItem, Withheld, TraversalAssumption
<1>4. heap[Root].tag \in {"array", "object", "hostile", "revoked"} /\ copy[1].tag # "revoked"
  <2>1. copy[1].tag \in Tags
    BY <1>1, WrittenFacts DEF ItemType
  <2> QED BY <2>1, NodeFacts
          DEF IInv, TypeOK, TraversalAssumption, Tags, Containers, Markers, Unreadable
<1>5. copy[1].tag \in Containers \cup {Unreadable}
  <2>1. RootItem.tag = IF heap[Root].tag = "hostile" THEN Unreadable ELSE heap[Root].tag
    BY DEF RootItem
  <2> QED BY <1>2, <1>4, <2>1 DEF Containers
<1> QED BY <1>1, <1>2, <1>3, <1>5

\* redactValue() keeps within maxKeys and maxDepth, whatever the value shares,
\* contains or refuses.
THEOREM LimitsKept == Spec => []WithinLimits
<1>1. IInv => WithinLimits
  <2> SUFFICES ASSUME IInv, Made PROVE WithinLimits!2
    BY DEF WithinLimits
  <2>1. Cardinality(kept) - 1 <= maxKeys
    <3>1. Cardinality(kept) = keysRedacted + 1 /\ keysRedacted <= maxKeys /\ keysRedacted \in Nat
      BY DEF Made, IInv, Redacting, TypeOK
    <3> QED BY <3>1 DEF IInv, TypeOK
  <2>2. ASSUME NEW i \in kept
        PROVE  /\ copy[i].level <= maxDepth
               /\ Written(i) \in Containers => copy[i].level < maxDepth
    <3>1. copy[i].level <= maxDepth
      BY WrittenFacts DEF IInv, Traversal, TagsAreTrue
    <3> QED BY <3>1, WrittenFacts DEF Entered
  <2> QED BY <2>1, <2>2
<1>2. Aborted => WithinLimits
  <2> SUFFICES ASSUME Aborted, Made PROVE WithinLimits!2
    BY DEF WithinLimits
  <2>1. kept = {1} /\ Cardinality(kept) = 1
    <3>1. kept = {1}
      BY DEF Aborted, Made
    <3> QED BY <3>1, FS_Singleton
  <2>2. maxKeys \in Nat /\ maxDepth \in Nat
    BY DEF Aborted, TypeOK
  <2>3. copy[1].level = 0 /\ Written(1) \notin Containers
    <3>1. copy[1].level = 0
      BY AbortedFacts DEF CaughtItem
    <3>2. Written(1) = Unreadable
      BY AbortedFacts
    <3> QED BY <3>1, <3>2 DEF Unreadable, Containers
  <2> QED BY <2>1, <2>2, <2>3
<1> QED BY <1>1, <1>2, Inductive, PTL

\* What an item shows is the leaf of an entry that plain keys lead to.
LEMMA ShownIsPlain ==
  ASSUME IInv
  PROVE  Shown \subseteq PlainLeaves
<1> SUFFICES ASSUME NEW i \in kept, Written(i) = "leaf"
             PROVE  Place(i) \in PlainLeaves
  BY DEF Shown
<1>1. ~Withheld(i) /\ copy[i].tag = "leaf" /\ i \in DOMAIN copy
  BY WrittenFacts DEF Hidden
<1>2. i # 1
  BY <1>1, RootKept DEF Containers, Unreadable
<1>3. i \in OfEntries /\ copy[i].node = Leaf
  BY <1>1, <1>2 DEF OfEntries, Unmarked, IsMark, IInv, Traversal, TagsAreTrue
<1> DEFINE n == copy[copy[i].parent].node
           k == copy[i].entry
<1>4. n \in Reached(SkippedKeys)
  BY <1>2, WrittenFacts DEF IInv, Redacting
<1>5. /\ k \in DOMAIN heap[n].entries /\ copy[i].node = heap[n].entries[k].child
      /\ heap[n].entries[k].key \notin SkippedKeys
  BY <1>1, <1>3, KeyFacts DEF Withheld, SkippedKeys
<1>6. <<n, k>> \in EntriesReached(SkippedKeys)
  BY <1>4, <1>5, PlaceReached DEF IInv
<1>7. Child(<<n, k>>) = Leaf
  BY <1>3, <1>5 DEF Child
<1> QED BY <1>6, <1>7 DEF Place, PlainLeaves

\* What only keys lead to that are stored as secret ones is not in the copy.
THEOREM SecretsStayHidden == Spec => []SecretsWithheld
<1>1. IInv => SecretsWithheld
  BY ShownIsPlain DEF SecretsWithheld
<1>2. Aborted => SecretsWithheld
  BY AbortedFacts DEF Aborted, SecretsWithheld, Shown, Unreadable
<1> QED BY <1>1, <1>2, Inductive, PTL

\* When keys stay apart, the item of an entry is not replaced; nor is a mark.
LEMMA NotReplaced ==
  ASSUME IInv, KeysStayApart, NEW i \in DOMAIN copy \ {1}
  PROVE  ~Overwritten(i)
<1> SUFFICES ASSUME NEW k \in DOMAIN copy, k > i, SameKey(i, k) PROVE FALSE
  BY DEF Overwritten
<1>1. /\ copy[i].parent = copy[k].parent /\ copy[i].key = copy[k].key
      /\ copy[copy[i].parent].tag = "object"
  BY DEF SameKey
<1>2. k # 1 /\ k # i
  BY DEF IInv, TypeOK
<1>3. CASE IsMark(i) /\ IsMark(k)
  BY <1>1, <1>2, <1>3 DEF IInv, Traversal, MarksOnce
<1>4. CASE i \in OfEntries /\ k \in OfEntries
  <2> DEFINE n == copy[copy[i].parent].node
             e == copy[i].entry
             f == copy[k].entry
  <2>1. /\ n \in Reached(UnsafeKeys) /\ heap[n].tag = "object"
        /\ e \in DOMAIN heap[n].entries /\ heap[n].entries[e].key \notin UnsafeKeys
        /\ copy[i].key = stored[heap[n].entries[e].key]
    BY <1>1, <1>4, KeyFacts
  <2>2. /\ f \in DOMAIN heap[n].entries /\ heap[n].entries[f].key \notin UnsafeKeys
        /\ copy[k].key = stored[heap[n].entries[f].key]
    BY <1>1, <1>4, KeyFacts
  <2> HIDE DEF n
  <2>3. e = f
    BY <1>1, <2>1, <2>2 DEF KeysStayApart
  <2> QED BY <1>1, <1>2, <1>4, <2>3 DEF IInv, Traversal, EntriesOnce
<1>5. i \in DOMAIN copy \ {1} /\ k \in DOMAIN copy \ {1}
  BY <1>2
<1>6. \A m \in DOMAIN copy \ {1} : /\ IsMark(m) => copy[m].key = "[truncated]"
                                   /\ ~IsMark(m) => m \in OfEntries /\ copy[m].key # "[truncated]"
  <2> TAKE m \in DOMAIN copy \ {1}
  <2>1. IsMark(m) => copy[m].key = "[truncated]"
    BY DEF IInv, Traversal, MarksCut
  <2>2. ~IsMark(m) => m \in OfEntries
    BY DEF OfEntries, Unmarked
  <2> QED BY <2>1, <2>2, KeyFacts
<1>7. IsMark(i) <=> IsMark(k)
  BY <1>1, <1>5, <1>6
<1> QED BY <1>3, <1>4, <1>5, <1>6, <1>7

\* When nothing is marked and the keys are not used up, every entry of a node
\* that plain keys lead to is written.
LEMMA EntryKept ==
  ASSUME IInv, Made, keysRedacted < maxKeys, NoArrays \/ IsSmall, KeysStayApart,
         \A i \in kept : Written(i) \notin Markers,
         NEW j \in kept, ~Withheld(j), copy[j].tag \in Containers \cup {Unreadable},
         NEW k \in DOMAIN heap[copy[j].node].entries,
         heap[copy[j].node].entries[k].key \notin UnsafeKeys
  PROVE  \E i \in kept \cap OfEntries : copy[i].parent = j /\ copy[i].entry = k
<1>1. /\ j \in DOMAIN copy /\ stack = <<>> /\ DOMAIN stack = {}
      /\ DOMAIN copy = 1..Len(copy) /\ Len(copy) \in Nat /\ maxKeys \in Nat
  <2>1. j \in DOMAIN copy /\ stack = <<>>
    BY WrittenFacts
  <2>2. DOMAIN stack = {}
    BY <2>1
  <2> QED BY <2>1, <2>2 DEF IInv, TypeOK
<1>2. copy[j].node # Leaf /\ copy[j].node \in Nodes /\ copy[j].node \in Reached(UnsafeKeys)
  BY <1>1 DEF IInv, Traversal, TagsAreTrue, Containers, Unreadable, Reached
<1>3. Copied(j)
  <2>1. copy[j].tag # Unreadable
    <3> SUFFICES ASSUME copy[j].tag = Unreadable PROVE FALSE
      OBVIOUS
    <3>1. heap[copy[j].node].tag = "hostile"
      BY <1>1 DEF IInv, Traversal, TagsAreTrue
    <3>2. heap[copy[j].node].entries = <<>>
      BY <1>2, <3>1, NodeFacts DEF IInv, TypeOK
    <3> QED BY <3>2
  <2> QED BY <2>1 DEF Copied
<1>4. copy[j].tag = "object" \/ IsSmall
  BY <1>1, <1>2, <1>3 DEF NoArrays, IInv, Traversal, TagsAreTrue, Copied, Containers
<1>5. Entered(j)
  BY <1>3, WrittenFacts
<1>6. \A i \in DOMAIN copy \ {1} : copy[i].parent = j => i \in kept
  <2>1. ~(keysRedacted >= maxKeys)
    BY <1>1 DEF IInv, TypeOK
  <2>2. \A i \in DOMAIN copy \ {1} :
          Entered(copy[i].parent) /\ ~Overwritten(i) => i \in kept \cup todo
    BY <2>1 DEF IInv, Redacting, Made
  <2> QED BY <1>5, <2>2, NotReplaced DEF Made
<1>7. ~ \E i \in DOMAIN copy \ {1} : IsMark(i) /\ copy[i].parent = j
  <2> SUFFICES ASSUME NEW i \in DOMAIN copy \ {1}, IsMark(i), copy[i].parent = j
               PROVE  FALSE
    OBVIOUS
  <2>1. i \in kept
    BY <1>6
  <2>2. ~Withheld(i)
    BY DEF IInv, Traversal, MarksCut, Withheld, TraversalAssumption
  <2>3. Written(i) = "[MaxKeys]"
    BY <2>1, <2>2, WrittenFacts DEF IsMark
  <2> QED BY <2>1, <2>3 DEF Markers
<1>8. PICK i \in OfEntries : copy[i].parent = j /\ copy[i].entry = k
  BY <1>1, <1>3, <1>4, <1>7 DEF IInv, EntriesCovered
<1> QED BY <1>6, <1>8 DEF OfEntries, Unmarked

LEMMA AllKept ==
  ASSUME IInv, Made, keysRedacted < maxKeys, NoArrays \/ IsSmall, KeysStayApart,
         \A i \in kept : Written(i) \notin Markers,
         NEW n \in Reached(SkippedKeys),
         NEW k \in DOMAIN heap[n].entries, heap[n].entries[k].key \notin UnsafeKeys
  PROVE  \E i \in kept \cap OfEntries : Place(i) = <<n, k>>
<1> DEFINE Items == {i \in kept : ~Withheld(i) /\ copy[i].tag \in Containers \cup {Unreadable}}
           Nodes2 == {copy[i].node : i \in Items}
<1>1. \A i \in Items : i \in DOMAIN copy /\ copy[i].node \in Nodes
  BY WrittenFacts DEF IInv, Traversal, TagsAreTrue, Containers, Unreadable, Reached
<1>2. Root \in Nodes2
  BY RootKept DEF RootItem, Made
<1>3. Closed(Nodes2, SkippedKeys)
  <2> SUFFICES ASSUME NEW j \in Items, NEW e \in DOMAIN heap[copy[j].node].entries,
                      heap[copy[j].node].entries[e].key \notin SkippedKeys,
                      heap[copy[j].node].entries[e].child # Leaf
               PROVE  heap[copy[j].node].entries[e].child \in Nodes2
    BY DEF Closed
  <2>1. PICK i \in kept \cap OfEntries : copy[i].parent = j /\ copy[i].entry = e
    BY EntryKept DEF SkippedKeys
  <2>2. /\ copy[i].key \notin SecretKeys
        /\ copy[i].node = heap[copy[j].node].entries[e].child
    BY <2>1, KeyFacts DEF SkippedKeys
  <2>3. ~Withheld(i)
    BY <2>2 DEF Withheld
  <2>4. copy[i].tag \notin Markers
    BY <2>3, WrittenFacts
  <2>5. copy[i].tag \in Tags /\ copy[i].tag # "leaf"
    BY <2>2, WrittenFacts DEF IInv, Traversal, TagsAreTrue, ItemType
  <2>6. i \in Items
    BY <2>3, <2>4, <2>5 DEF Tags
  <2> QED BY <2>2, <2>6
<1>4. n \in Nodes2
  <2>1. Nodes2 \in SUBSET Nodes
    BY <1>1
  <2> HIDE DEF Nodes2
  <2> QED BY <1>2, <1>3, <2>1, ReachedLeast
<1>5. PICK j \in Items : copy[j].node = n
  BY <1>4
<1>6. PICK i \in kept \cap OfEntries : copy[i].parent = j /\ copy[i].entry = k
  BY <1>5, EntryKept
<1> QED BY <1>5, <1>6 DEF Place

\* The keys of the second traversal are not used up by those of the first.
LEMMA KeysSuffice ==
  ASSUME IInv, Made, kept \subseteq Unmarked, keysVisited < maxKeys
  PROVE  keysRedacted < maxKeys
<1>1. Cardinality(kept) <= Cardinality(Unmarked)
  <2>1. IsFiniteSet(Unmarked)
    BY ItemsFinite DEF IInv
  <2> QED BY <2>1, FS_Subset
<1>2. Cardinality(kept) = keysRedacted + 1
  BY DEF Made, IInv, Redacting
<1>3. Cardinality(Unmarked) = keysVisited + 1
  BY WrittenFacts DEF Made, IInv, KeysCounted
<1>4. keysRedacted \in Nat /\ keysVisited \in Nat /\ maxKeys \in Nat
  BY DEF IInv, TypeOK
<1> QED BY <1>1, <1>2, <1>3, <1>4

\* Nothing of an object is left out without a mark in the copy.
THEOREM CutsAreVisible == Spec => []CutIsVisible
<1>1. IInv => CutIsVisible
  <2> SUFFICES ASSUME IInv, Made, NoArrays, KeysStayApart,
                      \A i \in kept : Written(i) \notin Markers
               PROVE  Shown = PlainLeaves
    BY DEF CutIsVisible, NoArrays
  <2>1. kept \subseteq Unmarked
    <3> SUFFICES ASSUME NEW i \in kept, IsMark(i) PROVE FALSE
      BY WrittenFacts DEF Unmarked
    <3>1. i # 1
      BY RootKept DEF IsMark, Containers, Unreadable
    <3>2. ~Withheld(i)
      BY <3>1, WrittenFacts DEF IInv, Traversal, MarksCut, Withheld, TraversalAssumption
    <3> QED BY <3>2, WrittenFacts DEF IsMark, Markers
  <2>2. keysVisited < maxKeys
    <3>1. keysVisited <= maxKeys - 1
      BY DEF IInv, KeysCounted
    <3> QED BY <3>1 DEF IInv, TypeOK
  <2>3. keysRedacted < maxKeys
    BY <2>1, <2>2, KeysSuffice
  <2>4. ASSUME NEW place \in PlainLeaves PROVE place \in Shown
    <3> DEFINE n == place[1]
               k == place[2]
    <3>1. /\ place = <<n, k>> /\ n \in Reached(SkippedKeys)
          /\ k \in DOMAIN heap[n].entries /\ heap[n].entries[k].child = Leaf
          /\ heap[n].entries[k].key \notin SkippedKeys
          /\ heap[n].entries[k].key \notin UnsafeKeys
      BY <2>4 DEF PlainLeaves, EntriesReached, Child, SkippedKeys
    <3>2. PICK i \in kept \cap OfEntries : Place(i) = place
      <4> HIDE DEF n, k
      <4> QED BY <2>3, <3>1, AllKept
    <3>3. copy[i].node = Leaf /\ copy[i].key \notin SecretKeys
      <4>1. copy[copy[i].parent].node = n /\ copy[i].entry = k
        BY <3>2 DEF Place
      <4> QED BY <3>1, <4>1, KeyFacts DEF SkippedKeys
    <3>4. copy[i].tag = "leaf"
      BY <3>3, WrittenFacts DEF IInv, Traversal, TagsAreTrue, OfEntries, Unmarked, IsMark
    <3>5. Written(i) = "leaf"
      BY <3>3, <3>4, WrittenFacts DEF Withheld
    <3> QED BY <3>2, <3>5 DEF Shown
  <2> QED BY <2>4, ShownIsPlain
<1>2. Aborted => CutIsVisible
  BY AbortedFacts DEF CutIsVisible
<1> QED BY <1>1, <1>2, Inductive, PTL

\* A value without sharing, revoked proxies and keys that become one, which fits
\* the limits, is copied entirely, with its secrets and nothing else replaced.
THEOREM SmallSurvive == Spec => []SmallValuesSurvive
<1>1. IInv => SmallValuesSurvive
  <2> SUFFICES ASSUME IInv, Made, IsSmall PROVE SmallValuesSurvive!2
    BY DEF SmallValuesSurvive
  <2>1. \A i \in kept : i \in DOMAIN copy /\ copy[i].tag \in Tags /\ copy[i].tag \notin Markers
    BY WrittenFacts DEF IInv, SmallUncut, ItemType
  <2>2. kept \subseteq Unmarked
    BY <2>1 DEF Unmarked, IsMark, Markers
  <2>3. keysVisited < maxKeys
    <3>1. keysVisited + Cardinality({}) < maxKeys
      BY SmallRoom
    <3> QED BY <3>1, FS_EmptySet DEF IInv, TypeOK
  <2>4. keysRedacted < maxKeys /\ KeysStayApart
    BY <2>2, <2>3, KeysSuffice DEF IsSmall
  <2>5. \A i \in kept : Written(i) \notin Markers
    BY <2>1, WrittenFacts DEF Hidden, Markers
  <2>6. ASSUME NEW place \in EntriesReached(UnsafeKeys),
               place[1] \in Reached(SkippedKeys)
        PROVE  \E i \in kept \ {1} : Place(i) = place
    <3> DEFINE n == place[1]
               k == place[2]
    <3>1. /\ place = <<n, k>> /\ k \in DOMAIN heap[n].entries
          /\ heap[n].entries[k].key \notin UnsafeKeys
      BY <2>6 DEF EntriesReached
    <3>2. PICK i \in kept \cap OfEntries : Place(i) = place
      <4>1. n \in Reached(SkippedKeys)
        BY <2>6
      <4> HIDE DEF n, k
      <4> QED BY <2>4, <2>5, <3>1, <4>1, AllKept
    <3> QED BY <3>2 DEF OfEntries
  <2>7. ASSUME NEW i \in kept PROVE Written(i) = Expected(i)
    <3>1. CASE Withheld(i)
      BY <3>1, WrittenFacts DEF Expected, Withheld
    <3>2. CASE ~Withheld(i)
      <4>1. Written(i) = copy[i].tag /\ copy[i].key \notin SecretKeys
        BY <3>2, WrittenFacts DEF Withheld
      <4>2. CASE copy[i].node = Leaf
        BY <2>1, <4>1, <4>2 DEF Expected, IInv, Traversal, TagsAreTrue, Markers
      <4>3. CASE copy[i].node # Leaf
        <5>1. copy[i].tag \in Containers \cup {Unreadable}
          BY <2>1, <4>3 DEF IInv, Traversal, TagsAreTrue, Tags
        <5>2. /\ Copied(i) => copy[i].tag = heap[copy[i].node].tag
              /\ copy[i].tag = Unreadable => heap[copy[i].node].tag = "hostile"
          BY <2>1 DEF IInv, Traversal, TagsAreTrue
        <5> QED BY <4>1, <4>3, <5>1, <5>2 DEF Expected, Copied, Containers, Unreadable
      <4> QED BY <4>2, <4>3
    <3> QED BY <3>1, <3>2
  <2> QED BY <2>6, <2>7
<1>2. Aborted => SmallValuesSurvive
  BY DEF Aborted, SmallValuesSurvive, IsSmall
<1> QED BY <1>1, <1>2, Inductive, PTL
=============================================================================
