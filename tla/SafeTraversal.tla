--------------------------- MODULE SafeTraversal ---------------------------
(***************************************************************************)
(* How redactValue() of src/core/redact.ts makes a safe copy of any value  *)
(* of the application, one turn of a loop at a time: the traversal of      *)
(* src/core/normalize.ts copies what it can within its limits, a second    *)
(* traversal hides what is secret.                                         *)
(*                                                                         *)
(* The value is a graph of arrays and objects which may share or contain   *)
(* each other, or fail when they are read.  What is written in a text, and *)
(* the secrets found in one, are left out: a leaf is known by its place.   *)
(* A key is shortened to maxStringLength before it is stored, so that two  *)
(* keys of an object may become one.  A copy is the list of its items in   *)
(* the order in which they are written, each with the item that holds it.  *)
(***************************************************************************)
EXTENDS Naturals, Sequences, FiniteSets

CONSTANTS
  Nodes,        \* the arrays and objects of the value
  Root,         \* the one that is copied
  Leaf,         \* stands for any other value
  Size,         \* bound: entries of an array or object
  Keys,         \* the keys of the objects
  UnsafeKeys,   \* UNSAFE_OBJECT_KEYS
  SecretKeys,   \* the keys whose values are secret
  Truncations,  \* what maxStringLength may make of the keys
  KeyLimits, DepthLimits  \* what maxKeys and maxDepth may be

\* No key of the application is the one of the mark, nor becomes it (and none
\* becomes "__proto__", which no object lists).
ASSUME TraversalAssumption ==
  /\ IsFiniteSet(Nodes) /\ Root \in Nodes /\ Leaf \notin Nodes
  /\ Size \in Nat
  /\ UnsafeKeys \subseteq Keys /\ SecretKeys \subseteq Keys
  /\ "item" \notin Keys /\ "[truncated]" \notin Keys
  /\ KeyLimits \subseteq Nat \ {0} /\ DepthLimits \subseteq Nat \ {0}

ASSUME TruncationsAssumption == Truncations \subseteq [Keys -> Keys]

VARIABLES
  heap,               \* node -> array or object
  maxKeys, maxDepth,  \* the limits
  stored,             \* key -> the key it is stored under
  copy,               \* the items of the normalized copy
  stack,              \* the calls of normalizeValue() in progress
  seen, keysVisited,  \* their TraversalState
  kept,               \* the items that the second traversal has written
  todo,               \* those that its loops have still to come to
  keysRedacted        \* its keysVisited

vars == <<heap, maxKeys, maxDepth, stored, copy, stack, seen, keysVisited,
          kept, todo, keysRedacted>>
limits == <<heap, maxKeys, maxDepth, stored>>
normalizing == <<copy, stack, seen, keysVisited>>
redacting == <<kept, todo, keysRedacted>>

Containers == {"array", "object"}
Markers == {"[Circular]", "[MaxDepth]", "[MaxKeys]"}
Unreadable == "[unreadable value]"
Hidden == "[REDACTED]"

EntrySeqs(keys) ==
  UNION {[1..length -> [key : keys, child : Nodes \cup {Leaf}]] : length \in 0..Size}
Distinct(entries) ==
  \A i, k \in DOMAIN entries : entries[i].key = entries[k].key => i = k

\* An object may refuse to list its keys, or an array to tell its length
\* ("hostile"); of a revoked proxy it cannot even be asked which it is.
NodeValues ==
  [tag : {"array"}, entries : EntrySeqs({"item"})]
  \cup [tag : {"object"}, entries : {entries \in EntrySeqs(Keys) : Distinct(entries)}]
  \cup [tag : {"hostile", "revoked"}, entries : {<<>>}]

Init ==
  /\ heap \in [Nodes -> NodeValues]
  /\ maxKeys \in KeyLimits /\ maxDepth \in DepthLimits /\ stored \in Truncations
  /\ copy = <<>> /\ stack = <<>> /\ seen = {} /\ keysVisited = 0
  /\ kept = {} /\ todo = {} /\ keysRedacted = 0

-----------------------------------------------------------------------------
(* normalizeUnknown()                                                      *)

\* Mutants: one level less, one key more than the limits allow.
TooDeepEarly(depth) == depth + 1 >= maxDepth
ExhaustedLate(visited) == visited > maxKeys

TooDeep(depth) == depth >= maxDepth
Exhausted(visited) == visited >= maxKeys

\* Mutant of KeysLeft: no key is kept back for the mark of a cut.
NoKeyReserved(visited) == visited < maxKeys

\* An object keeps the last key for the mark of a cut.
KeysLeft(visited) == visited < maxKeys - 1

\* Mutant of Tag: what has been seen is not measured.
TagSeenFirst(node, depth) ==
  IF node = Leaf THEN "leaf"
  ELSE IF node \in seen THEN "[Circular]"
  ELSE IF TooDeep(depth) THEN "[MaxDepth]"
  ELSE IF heap[node].tag = "hostile" THEN Unreadable
  ELSE heap[node].tag

\* What stands for a value in the copy; "revoked" is thrown.
Tag(node, depth) ==
  IF node = Leaf THEN "leaf"
  ELSE IF TooDeep(depth) THEN "[MaxDepth]"
  ELSE IF node \in seen THEN "[Circular]"
  ELSE IF heap[node].tag = "hostile" THEN Unreadable
  ELSE heap[node].tag

\* Where the loop over a node ends.
End(node, visited) ==
  LET length == Len(heap[node].entries)
  IN IF heap[node].tag = "array" /\ length > maxKeys - visited
     THEN maxKeys - visited ELSE length

\* What normalizeValue() throws leaves all calls in progress: the catch of
\* normalizeUnknown() answers with one text instead of the copy.
Catch ==
  /\ copy' = <<[parent |-> 0, entry |-> 0, key |-> "item", node |-> Root, level |-> 0,
                tag |-> Unreadable]>>
  /\ stack' = <<>>
  /\ UNCHANGED <<limits, seen, keysVisited, redacting>>

\* normalizeValue() of entry number `entry` of an item: up to the loop over it,
\* if it has one.
Copying(parent, entry, key, node, level, frames, visited) ==
  LET tag == Tag(node, level)
  IN /\ copy' = Append(copy, [parent |-> parent, entry |-> entry, key |-> key,
                              node |-> node, level |-> level, tag |-> tag])
     /\ seen' = IF tag \in Containers \cup {Unreadable} THEN seen \cup {node} ELSE seen
     /\ stack' = IF tag \in Containers
                 THEN Append(frames, [item |-> Len(copy) + 1, next |-> 1,
                                      end |-> End(node, visited)])
                 ELSE frames
     /\ keysVisited' = visited
     /\ UNCHANGED <<limits, redacting>>

NormalizeValue(parent, entry, key, node, level, frames, visited) ==
  IF Tag(node, level) = "revoked" THEN Catch
  ELSE Copying(parent, entry, key, node, level, frames, visited)

Start ==
  /\ copy = <<>>
  /\ NormalizeValue(0, 0, "item", Root, 0, <<>>, 0)

\* The innermost loop, and the entry it has come to.
Frame == stack[Len(stack)]
Turn == stack # <<>> /\ Frame.next <= Frame.end
Looped == heap[copy[Frame.item].node]
Current == Looped.entries[Frame.next]
NextTurn == [stack EXCEPT ![Len(stack)].next = @ + 1]
Leave == SubSeq(stack, 1, Len(stack) - 1)

Read(key) == NormalizeValue(Frame.item, Frame.next, key, Current.child,
                            copy[Frame.item].level + 1, NextTurn, keysVisited + 1)

ReadItem == Turn /\ Looped.tag = "array" /\ ~Exhausted(keysVisited) /\ Read(Current.key)

BreakItems ==
  /\ Turn /\ Looped.tag = "array" /\ Exhausted(keysVisited)
  /\ stack' = Leave
  /\ UNCHANGED <<limits, copy, seen, keysVisited, redacting>>

SkipKey ==
  /\ Turn /\ Looped.tag = "object" /\ Current.key \in UnsafeKeys
  /\ stack' = NextTurn
  /\ UNCHANGED <<limits, copy, seen, keysVisited, redacting>>

ReadKey ==
  /\ Turn /\ Looped.tag = "object" /\ Current.key \notin UnsafeKeys
  /\ KeysLeft(keysVisited)
  /\ Read(stored[Current.key])

\* The loop over the keys ends with a mark at the first key too many.
MarkCut ==
  /\ Turn /\ Looped.tag = "object" /\ Current.key \notin UnsafeKeys
  /\ ~KeysLeft(keysVisited)
  /\ copy' = Append(copy, [parent |-> Frame.item, entry |-> 0, key |-> "[truncated]",
                           node |-> Leaf, level |-> copy[Frame.item].level + 1,
                           tag |-> "[MaxKeys]"])
  /\ stack' = Leave
  /\ UNCHANGED <<limits, seen, keysVisited, redacting>>

Return ==
  /\ stack # <<>> /\ Frame.next > Frame.end
  /\ stack' = Leave
  /\ UNCHANGED <<limits, copy, seen, keysVisited, redacting>>

-----------------------------------------------------------------------------
(* redactNormalized()                                                      *)

\* What an object stores under a key replaces what it has stored there before,
\* in the same position.
SameKey(i, j) ==
  /\ copy[i].parent = copy[j].parent /\ copy[i].key = copy[j].key
  /\ copy[copy[i].parent].tag = "object"
Overwritten(i) == \E j \in DOMAIN copy : j > i /\ SameKey(i, j)
Position(i) ==
  CHOOSE k \in DOMAIN copy : (k = i \/ SameKey(k, i)) /\ \A j \in 1..(k - 1) : ~SameKey(j, i)

\* Mutant of Withheld: only a secret text is withheld, not an object.
WithheldText(i) == copy[i].key \in SecretKeys /\ copy[i].tag = "leaf"

Withheld(i) == copy[i].key \in SecretKeys

\* What is written for item i, and whether the loop over it is entered.
Written(i) ==
  IF Withheld(i) THEN Hidden
  ELSE IF copy[i].tag \in Containers /\ TooDeep(copy[i].level) THEN "[MaxDepth]"
  ELSE copy[i].tag
Entered(i) == i \in kept /\ Written(i) \in Containers

\* The loop over item i, if it has one.
Entries(i) ==
  IF Written(i) \in Containers
  THEN {k \in DOMAIN copy : copy[k].parent = i /\ ~Overwritten(k)}
  ELSE {}

RedactRoot ==
  /\ copy # <<>> /\ stack = <<>> /\ kept = {}
  /\ kept' = {1} /\ todo' = Entries(1)
  /\ UNCHANGED <<limits, normalizing, keysRedacted>>

\* The innermost loop comes to its next entry.
Following(i) ==
  \A j \in todo : \/ copy[j].level < copy[i].level
                  \/ (copy[j].level = copy[i].level /\ Position(i) <= Position(j))

RedactEntry(i) ==
  /\ Following(i) /\ ~Exhausted(keysRedacted)
  /\ kept' = kept \cup {i} /\ todo' = (todo \ {i}) \cup Entries(i)
  /\ keysRedacted' = keysRedacted + 1
  /\ UNCHANGED <<limits, normalizing>>

\* This loop is left, and all those around it at their next entry.
BreakEntries ==
  /\ todo # {} /\ Exhausted(keysRedacted)
  /\ todo' = {}
  /\ UNCHANGED <<limits, normalizing, kept, keysRedacted>>

Next ==
  \/ Start \/ ReadItem \/ BreakItems \/ SkipKey \/ ReadKey \/ MarkCut \/ Return
  \/ RedactRoot \/ (\E i \in todo : RedactEntry(i)) \/ BreakEntries

Spec == Init /\ [][Next]_vars

-----------------------------------------------------------------------------
(* Properties.                                                             *)

\* redactValue() has returned: `kept`, with what is Written for each, is the
\* safe copy.
Made == kept # {} /\ todo = {}

\* "Maximum nested metadata depth", "Maximum keys visited" (docs/
\* CONFIGURATION.md:38-39): the copy of any value stays within both limits,
\* with all its marks, whatever it shares, contains or refuses.
WithinLimits ==
  Made => /\ Cardinality(kept) - 1 <= maxKeys
          /\ \A i \in kept : /\ copy[i].level <= maxDepth
                             /\ Written(i) \in Containers => copy[i].level < maxDepth

\* The nodes that can be reached from the root without a key of `skipped`.
Closed(nodes, skipped) ==
  \A n \in nodes : \A k \in DOMAIN heap[n].entries :
    LET entry == heap[n].entries[k]
    IN entry.key \notin skipped /\ entry.child # Leaf => entry.child \in nodes
Reached(skipped) ==
  {n \in Nodes : \A nodes \in SUBSET Nodes : Root \in nodes /\ Closed(nodes, skipped) => n \in nodes}

\* The entries of these nodes, without the same keys.
EntriesReached(skipped) ==
  {place \in Nodes \X (1..Size) :
     /\ place[1] \in Reached(skipped)
     /\ place[2] \in DOMAIN heap[place[1]].entries
     /\ heap[place[1]].entries[place[2]].key \notin skipped}
Child(place) == heap[place[1]].entries[place[2]].child

\* The keys that are stored under a secret one: all secret ones, unless they
\* are longer than maxStringLength, and what becomes one when it is shortened.
HiddenKeys == {key \in Keys : stored[key] \in SecretKeys}
SkippedKeys == UnsafeKeys \cup HiddenKeys

\* No two keys of an object become one.
KeysStayApart ==
  \A n \in Reached(UnsafeKeys) : heap[n].tag = "object" =>
    \A i, k \in DOMAIN heap[n].entries :
      LET entries == heap[n].entries
      IN /\ entries[i].key \notin UnsafeKeys /\ entries[k].key \notin UnsafeKeys
         /\ stored[entries[i].key] = stored[entries[k].key]
         => i = k

Place(i) == <<copy[copy[i].parent].node, copy[i].entry>>
Shown == {Place(i) : i \in {j \in kept : Written(j) = "leaf"}}
PlainLeaves == {place \in EntriesReached(SkippedKeys) : Child(place) = Leaf}

\* What only keys lead to that are secret as they are stored is not in the
\* copy: not at any depth, not within an array or object below the key, not by
\* a second reference, not when another key is stored in the same place.
SecretsWithheld == Made => Shown \subseteq PlainLeaves

\* Nothing of an object is left out silently, unless shortening makes two of
\* its keys one: a leaf that plain keys lead to is in the copy, or the copy has
\* a mark where it was cut, which survives the second traversal although it
\* counts as a key there, or says that the whole value could not be read.  (An
\* array is shortened without a mark.)
CutIsVisible ==
  Made /\ KeysStayApart /\ (\A n \in Reached(UnsafeKeys) : heap[n].tag # "array") =>
    \/ Shown = PlainLeaves
    \/ \E i \in kept : Written(i) \in Markers
    \/ Written(1) = Unreadable

\* A value without sharing, revoked proxies and keys that become one, which fits
\* the limits, is copied entirely, with its secrets and nothing else replaced.
References(node) == {place \in EntriesReached(UnsafeKeys) : Child(place) = node}
IsSmall ==
  /\ References(Root) = {}
  /\ \A n \in Nodes : Cardinality(References(n)) <= 1
  /\ Cardinality(EntriesReached(UnsafeKeys)) < maxKeys
  /\ Cardinality(Reached(UnsafeKeys)) <= maxDepth
  /\ \A n \in Reached(UnsafeKeys) : heap[n].tag # "revoked"
  /\ KeysStayApart

Expected(i) ==
  IF copy[i].key \in SecretKeys THEN Hidden
  ELSE IF copy[i].node = Leaf THEN "leaf"
  ELSE IF heap[copy[i].node].tag = "hostile" THEN Unreadable
  ELSE heap[copy[i].node].tag

SmallValuesSurvive ==
  Made /\ IsSmall =>
    /\ \A place \in EntriesReached(UnsafeKeys) :
         place[1] \in Reached(SkippedKeys) =>
           \E i \in kept \ {1} : Place(i) = place
    /\ \A i \in kept : Written(i) = Expected(i)
=============================================================================
