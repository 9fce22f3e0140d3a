---------------------------- MODULE MCSafeValue ----------------------------
(* SafeTraversal for TLC, beside the recursive functions of SafeValue.     *)
EXTENDS SafeTraversal, SequencesExt

Recursive ==
  INSTANCE SafeValue WITH heap <-
    [n \in Nodes |->
       [tag |-> heap[n].tag, of |-> 0,
        entries |-> [k \in DOMAIN heap[n].entries |->
          LET entry == heap[n].entries[k]
          IN [key |-> entry.key,
              value |-> IF entry.child = Leaf
                        THEN [tag |-> "leaf", of |-> <<n, k>>, entries |-> <<>>]
                        ELSE [tag |-> "ref", of |-> entry.child, entries |-> <<>>]]]]]

\* The items of a value in their order, with the places of its leaves.
Item(level, key, text, place) == <<level, key, text, IF text = "leaf" THEN place ELSE <<>> >>
RECURSIVE Items(_, _, _)
Items(key, value, level) ==
  <<Item(level, key, value.tag, value.of)>>
  \o FlattenSeq([i \in DOMAIN value.entries |->
                   Items(value.entries[i].key, value.entries[i].value, level + 1)])

\* maxStringLength cuts no key; it makes one of two, and a plain one of a secret
\* one; it makes a secret one of a plain one.
MCTruncations ==
  {[key \in Keys |-> key],
   [key \in Keys |-> IF key \in {"other", "secret"} THEN "plain" ELSE key],
   [key \in Keys |-> IF key = "other" THEN "secret" ELSE key]}

\* The items that the second traversal has written, in the order of their keys.
RECURSIVE Walk(_)
Walk(i) ==
  LET entries == {k \in kept \ {1} : copy[k].parent = i}
      inOrder == SetToSortSeq(entries, LAMBDA j, k : Position(j) < Position(k))
  IN <<Item(copy[i].level, copy[i].key, Written(i),
            IF Written(i) = "leaf" THEN Place(i) ELSE <<>>)>>
     \o FlattenSeq([k \in DOMAIN inOrder |-> Walk(inOrder[k])])

\* The copy that the loops make is the one that the functions return, which
\* make the parts of an alert in AlertContent: the entries in the same order,
\* under the same keys, with the same texts for what is not copied.
MatchesRecursion ==
  Made => Items("item", Recursive!RedactValue([tag |-> "ref", of |-> Root, entries |-> <<>>]), 0)
          = Walk(1)
=============================================================================
