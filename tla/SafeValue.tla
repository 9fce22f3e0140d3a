----------------------------- MODULE SafeValue -----------------------------
(***************************************************************************)
(* What redactValue() of src/core/redact.ts returns, as functions that     *)
(* call themselves like those of the code: what SafeTraversal does a step  *)
(* at a time, for the modules that need a copy as a value.                 *)
(***************************************************************************)
EXTENDS Naturals, Sequences, FiniteSets, SequencesExt

VARIABLES
  heap,               \* what a reference refers to
  maxKeys, maxDepth,  \* the limits
  stored              \* the keys that are too long -> the keys they are stored under

\* A value: a leaf, a reference, a copied array or object, or one of the texts
\* that stand for something.
Value(tag, of, entries) == [tag |-> tag, of |-> of, entries |-> entries]
Text(text) == Value(text, 0, <<>>)
Copy(tag, entries) == Value(tag, 0, entries)
Entry(key, value) == [key |-> key, value |-> value]

Unreadable == "[unreadable value]"
Hidden == "[REDACTED]"

\* UNSAFE_OBJECT_KEYS, and the keys whose values are secret.
Unsafe(key) == key = "unsafe"
Sensitive(key) == key = "secret"

\* truncate(key, maxStringLength)
Stored(key) == IF key \in DOMAIN stored THEN stored[key] ELSE key

\* result[key] = value: a value stored before under the key is replaced.
Put(result, key, value) ==
  LET same == {i \in DOMAIN result.entries : result.entries[i].key = key}
  IN [result EXCEPT !.entries =
        IF same = {} THEN Append(@, Entry(key, value))
        ELSE [i \in DOMAIN @ |-> IF i \in same THEN Entry(key, value) ELSE @[i]]]

-----------------------------------------------------------------------------
(* normalizeUnknown()                                                      *)

Contents(value) == IF value.tag = "ref" THEN heap[value.of] ELSE value
Identity(value) == IF value.tag = "ref" THEN {value.of} ELSE {}

RECURSIVE NormalizeValue(_, _, _)

TooDeep(depth) == depth >= maxDepth
Exhausted(visited) == visited >= maxKeys

\* An object keeps the last key for the mark of a cut.
KeysLeft(visited) == visited < maxKeys - 1

\* The loops: `acc` is the copy so far with the `seen` and `keysVisited` that
\* it leaves behind, whether something was thrown, and whether a cut was marked.
Child(value, depth, acc) ==
  NormalizeValue(value, depth + 1, [seen |-> acc.seen, visited |-> acc.visited + 1])

NormalizeItems(entries, depth, state) ==
  LET length == IF Len(entries) < maxKeys - state.visited
                THEN Len(entries) ELSE maxKeys - state.visited
      Push(acc, entry) ==
        IF Exhausted(acc.visited) \/ acc.thrown THEN acc
        ELSE LET child == Child(entry.value, depth, acc)
             IN [child EXCEPT !.value =
                   Copy("array", Append(acc.value.entries, Entry("item", child.value)))]
  IN FoldLeft(Push, [value |-> Copy("array", <<>>), seen |-> state.seen,
                     visited |-> state.visited, thrown |-> FALSE, cut |-> FALSE],
              SubSeq(entries, 1, length))

\* The loop over the keys ends with a mark at the first key too many.
NormalizeKeys(entries, depth, state) ==
  LET Set(acc, entry) ==
        IF Unsafe(entry.key) \/ acc.cut \/ acc.thrown THEN acc
        ELSE IF ~KeysLeft(acc.visited)
        THEN [acc EXCEPT !.value = Put(@, "[truncated]", Text("[MaxKeys]")), !.cut = TRUE]
        ELSE LET child == Child(entry.value, depth, acc)
             IN [child EXCEPT !.value = Put(acc.value, Stored(entry.key), child.value)]
      made == FoldLeft(Set, [value |-> Copy("object", <<>>), seen |-> state.seen,
                             visited |-> state.visited, thrown |-> FALSE, cut |-> FALSE],
                       entries)
  IN [made EXCEPT !.cut = FALSE]

NormalizeValue(value, depth, state) ==
  LET Return(v, seen) == [value |-> v, seen |-> seen, visited |-> state.visited,
                          thrown |-> FALSE, cut |-> FALSE]
      original == Contents(value)
      seen == state.seen \cup Identity(value)
      inside == [state EXCEPT !.seen = seen]
  IN IF original.tag \notin {"array", "object", "hostile", "revoked"}
     THEN Return(original, state.seen)
     ELSE IF TooDeep(depth) THEN Return(Text("[MaxDepth]"), state.seen)
     ELSE IF Identity(value) \cap state.seen # {}
     THEN Return(Text("[Circular]"), state.seen)
     ELSE IF original.tag = "revoked" THEN [Return(value, seen) EXCEPT !.thrown = TRUE]
     ELSE IF original.tag = "hostile" THEN Return(Text(Unreadable), seen)
     ELSE IF original.tag = "array" THEN NormalizeItems(original.entries, depth, inside)
     ELSE NormalizeKeys(original.entries, depth, inside)

Normalized(value) ==
  LET made == NormalizeValue(value, 0, [seen |-> {}, visited |-> 0])
  IN IF made.thrown THEN Text(Unreadable) ELSE made.value

-----------------------------------------------------------------------------
(* redactNormalized()                                                      *)

RECURSIVE RedactNormalized(_, _, _)

Withheld(entry) == Sensitive(entry.key)

RedactNormalized(value, depth, visited) ==
  LET Set(acc, entry) ==
        IF Exhausted(acc.visited) THEN acc
        ELSE LET child == IF Withheld(entry)
                          THEN [value |-> Text(Hidden), visited |-> acc.visited + 1]
                          ELSE RedactNormalized(entry.value, depth + 1, acc.visited + 1)
             IN [child EXCEPT !.value =
                   Copy(value.tag, Append(acc.value.entries, Entry(entry.key, child.value)))]
  IN IF value.tag \notin {"array", "object"} THEN [value |-> value, visited |-> visited]
     ELSE IF TooDeep(depth) THEN [value |-> Text("[MaxDepth]"), visited |-> visited]
     ELSE FoldLeft(Set, [value |-> Copy(value.tag, <<>>), visited |-> visited],
                   value.entries)

RedactValue(value) == RedactNormalized(Normalized(value), 0, 0).value

-----------------------------------------------------------------------------
(* How many entries and how many levels a copy has.                        *)

RECURSIVE EntryCount(_)
EntryCount(value) ==
  FoldLeft(LAMBDA n, entry : n + 1 + EntryCount(entry.value), 0, value.entries)

RECURSIVE Height(_)
Height(value) ==
  IF value.tag \notin {"array", "object"} THEN 0
  ELSE 1 + FoldLeft(LAMBDA h, entry : LET k == Height(entry.value) IN IF k > h THEN k ELSE h,
                    0, value.entries)
=============================================================================
