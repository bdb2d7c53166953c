----------------------------- MODULE OrderedMap -----------------------------
(***************************************************************************)
(* One Map<K, V> local of a compiled program: the runtime's store, a hash  *)
(* map beside the vector of its keys in insertion order (map.rs), the      *)
(* descriptor the program holds, and the code the compiler emits around    *)
(* the runtime calls, which destroys the values that leave the map         *)
(* (llvm/lower/collections.rs, cleanup.rs, stmt.rs).                       *)
(*                                                                         *)
(* A value of a move-only type stands for an allocation: it is in the      *)
(* program's hands, in the map, or destroyed.  A value of a copyable type  *)
(* is never consumed and never destroyed.  Capacities are left out, and    *)
(* so is the assignment "m[k] = v" to a map with String keys: the checker  *)
(* hands the lowering a view where the runtime reads an owned string, and  *)
(* nothing can be said of what happens next.                               *)
(*                                                                         *)
(* The checker refuses all operations that change the map in the body      *)
(* of a "for" over the map (reject_live_view_source), but not where the    *)
(* map is reached through a Ref argument or by a method of its owner: it   *)
(* asks for no live borrow there (calls.rs, check_reference_arg and        *)
(* check_method_call).  Any operation may therefore come between two       *)
(* visits of a loop.                                                       *)
(***************************************************************************)
EXTENDS Integers, Sequences, FiniteSets

CONSTANTS
    Keys,
    Values,
    NoLoop    \* the map is not being iterated over

VARIABLES
    moveOnly,   \* whether the value type is
    map,        \* [key -> value]
    order,      \* the keys in insertion order
    alloc,      \* the store exists
    len,        \* the length in the program's descriptor
    held,       \* values the program owns
    destroyed,  \* how often a value was
    loop,       \* a "for" over the map: [at, len, keys]; keys is a history of what
                \* it has to meet: the keys of the map it began with, up to the
                \* first that was removed since
    phase       \* "live", "dropped" by its scope, "failed": the program stopped

vars == <<moveOnly, map, order, alloc, len, held, destroyed, loop, phase>>
store == <<map, order, alloc, len>>
owners == <<held, destroyed>>

Maps == UNION {[K -> Values] : K \in SUBSET Keys}

TypeOK ==
    /\ moveOnly \in BOOLEAN
    /\ map \in Maps
    /\ order \in Seq(Keys)
    /\ alloc \in BOOLEAN
    /\ len \in Nat
    /\ held \in SUBSET Values
    /\ destroyed \in [Values -> Nat]
    /\ loop \in [at : Nat, len : Nat, keys : Seq(Keys)] \cup {NoLoop}
    /\ phase \in {"live", "dropped", "failed"}

Empty == [k \in {} |-> CHOOSE v \in Values : TRUE]

Init ==
    /\ moveOnly \in BOOLEAN
    /\ map = Empty /\ order = <<>> /\ alloc = FALSE /\ len = 0
    /\ held = Values
    /\ destroyed = [v \in Values |-> 0]
    /\ loop = NoLoop
    /\ phase = "live"

Live == phase = "live"

----------------------------------------------------------------------------
(* The store.                                                               *)

Present(k) == k \in DOMAIN map
With(k, v) == [j \in DOMAIN map \cup {k} |-> IF j = k THEN v ELSE map[j]]
Without(k) == [j \in DOMAIN map \ {k} |-> map[j]]

Position(k) == CHOOSE i \in DOMAIN order : order[i] = k

\* Mutation: the last key takes the place of the one that is removed.
RetainedBySwap(k) ==
    LET n == Len(order)
    IN  [i \in 1..(n - 1) |-> IF i = Position(k) THEN order[n] ELSE order[i]]

\* order.retain(|entry| entry != key): a key that is there occurs once.
Retained(k) == [i \in 1..(Len(order) - 1) |-> IF i < Position(k) THEN order[i] ELSE order[i + 1]]

\* Mutation: a key that is there moves to the end.
OrderedByUse(k) == IF Present(k) THEN Append(Retained(k), k) ELSE Append(order, k)

\* Mutation: the key is pushed whether or not it is there.
OrderedAlways(k) == Append(order, k)

Ordered(k) == IF Present(k) THEN order ELSE Append(order, k)

\* The loop, when only its first n keys are still where they were.
LoopUpTo(n) ==
    IF loop = NoLoop \/ Len(loop.keys) <= n THEN loop
    ELSE [loop EXCEPT !.keys = SubSeq(@, 1, n)]

\* The runtime is called with a missing key, or a negative reservation.
Fail ==
    /\ phase' = "failed"
    /\ UNCHANGED <<moveOnly, map, order, alloc, len, held, destroyed, loop>>

----------------------------------------------------------------------------
(* Ownership, as the emitted code keeps it.                                 *)

\* drop_value on each of some values.
Destroy(vs) ==
    destroyed' = [v \in Values |-> IF moveOnly /\ v \in vs THEN destroyed[v] + 1 ELSE destroyed[v]]

\* drop_map_values asks for the value at each index below the descriptor's length.
Stored == {map[order[i]] : i \in 1..len}

\* The value a key loses, if it has one.
Old(k) == IF Present(k) THEN {map[k]} ELSE {}

----------------------------------------------------------------------------
(* Operations on the map.                                                   *)

\* Mutation: the replaced value is overwritten.
InsertOver(k, v) ==
    /\ Live /\ v \in held
    /\ map' = With(k, v) /\ order' = Ordered(k) /\ alloc' = TRUE
    /\ len' = Cardinality(DOMAIN map \cup {k})
    /\ held' = IF moveOnly THEN held \ {v} ELSE held
    /\ UNCHANGED <<destroyed, moveOnly, loop, phase>>

\* insert(k, v): a value that is replaced is destroyed.
Insert(k, v) ==
    /\ Live /\ v \in held
    /\ map' = With(k, v) /\ order' = Ordered(k) /\ alloc' = TRUE
    /\ len' = Cardinality(DOMAIN map \cup {k})
    /\ held' = IF moveOnly THEN held \ {v} ELSE held
    /\ Destroy(Old(k))
    /\ UNCHANGED <<moveOnly, loop, phase>>

\* m[k] = v inserts and then looks whether the key was there.
Assign(k, v) ==
    /\ Live /\ v \in held
    /\ map' = With(k, v) /\ order' = Ordered(k) /\ alloc' = TRUE
    /\ len' = Cardinality(DOMAIN map \cup {k})
    /\ held' = IF moveOnly THEN held \ {v} ELSE held
    /\ IF Present(k)
       THEN Destroy(Old(k)) /\ UNCHANGED phase
       ELSE phase' = "failed" /\ UNCHANGED destroyed
    /\ UNCHANGED <<moveOnly, loop>>

\* Mutation: the length goes down whether or not the key was there.
DeleteUncounted(k) ==
    /\ Live
    /\ alloc' = TRUE
    /\ map' = Without(k) /\ order' = IF Present(k) THEN Retained(k) ELSE order
    /\ len' = len - 1
    /\ Destroy(Old(k))
    /\ UNCHANGED <<moveOnly, held, loop, phase>>

\* delete(k) returns before it updates the descriptor when there is nothing to delete.
Delete(k) ==
    /\ Live
    /\ alloc' = TRUE
    /\ IF Present(k)
       THEN /\ map' = Without(k) /\ order' = Retained(k)
            /\ len' = Cardinality(DOMAIN map \ {k})
            /\ Destroy(Old(k))
            /\ loop' = LoopUpTo(Position(k) - 1)
       ELSE UNCHANGED <<map, order, len, destroyed, loop>>
    /\ UNCHANGED <<moveOnly, held, phase>>

\* take(k) gives the value to the program.
Take(k) ==
    /\ Live
    /\ Present(k)
    /\ alloc' = TRUE
    /\ map' = Without(k) /\ order' = Retained(k)
    /\ len' = Cardinality(DOMAIN map \ {k})
    /\ held' = held \cup {map[k]}
    /\ loop' = LoopUpTo(Position(k) - 1)
    /\ UNCHANGED <<moveOnly, destroyed, phase>>

\* take or index with a missing key.
Miss(k) == Live /\ ~Present(k) /\ Fail

\* clear() destroys the values and then empties the store.
Clear ==
    /\ Live
    /\ Destroy(Stored)
    /\ map' = Empty /\ order' = <<>> /\ alloc' = TRUE /\ len' = 0
    /\ loop' = LoopUpTo(0)
    /\ UNCHANGED <<moveOnly, held, phase>>

\* reserve(n) only makes room, and allocates the store.
Reserve ==
    /\ Live
    /\ alloc' = TRUE
    /\ UNCHANGED <<map, order, len, owners, moveOnly, loop, phase>>

ReserveNegative == Live /\ Fail

\* drop_value of a Map, values first: the end of the map's scope, or an
\* assignment to it, which lent maps can meet in the middle of a loop.  What the
\* loop then reads of the store that is gone is not modelled.
Drop ==
    /\ Live
    /\ Destroy(Stored)
    /\ map' = Empty /\ order' = <<>> /\ alloc' = FALSE
    /\ phase' = "dropped"
    /\ loop' = LoopUpTo(0)
    /\ UNCHANGED <<moveOnly, len, held>>

----------------------------------------------------------------------------
(* Iteration.                                                               *)

\* The loop works on a copy of the descriptor.
StartLoop ==
    /\ Live /\ loop = NoLoop
    /\ loop' = [at |-> 0, len |-> len, keys |-> order]
    /\ UNCHANGED <<moveOnly, store, owners, phase>>

\* value_at and key_at of the current index, which fail past the end of the
\* vector, and the body up to its next operation on the map.
Visit ==
    /\ Live /\ loop # NoLoop /\ loop.at < loop.len
    /\ IF loop.at + 1 \in DOMAIN order /\ Present(order[loop.at + 1])
       THEN /\ loop' = [loop EXCEPT !.at = @ + 1]
            /\ UNCHANGED <<moveOnly, store, owners, phase>>
       ELSE Fail

\* Every index was visited, or the body left the loop.
EndLoop ==
    /\ Live /\ loop # NoLoop
    /\ loop' = NoLoop
    /\ UNCHANGED <<moveOnly, store, owners, phase>>

----------------------------------------------------------------------------
\* The program destroys a value of its own.
Discard(v) ==
    /\ Live /\ moveOnly /\ v \in held
    /\ held' = held \ {v}
    /\ Destroy({v})
    /\ UNCHANGED <<moveOnly, store, loop, phase>>

Next ==
    \/ \E k \in Keys :
        \/ \E v \in Values : Insert(k, v) \/ Assign(k, v)
        \/ Delete(k) \/ Take(k) \/ Miss(k)
    \/ Clear \/ Reserve \/ ReserveNegative \/ Drop
    \/ StartLoop \/ Visit \/ EndLoop
    \/ \E v \in Values : Discard(v)

Spec == Init /\ [][Next]_vars

----------------------------------------------------------------------------
\* The vector and the hash map agree and the descriptor knows their size: every
\* later key_at, value_at, retain and drop_map_values relies on it.
OrderMatchesMap ==
    /\ {order[i] : i \in DOMAIN order} = DOMAIN map
    /\ \A i, j \in DOMAIN order : order[i] = order[j] => i = j
    /\ phase # "dropped" => len = Len(order)
    /\ map # Empty => alloc

Contained(v) == {k \in DOMAIN map : map[k] = v}

\* An allocation has one owner: the program, one entry of the map, or nobody
\* any more, in which case it was destroyed exactly once.
OneOwner ==
    moveOnly => \A v \in Values :
        Cardinality(Contained(v)) + destroyed[v] + (IF v \in held THEN 1 ELSE 0) = 1

\* A "for" trusts the length it copied and reads the live vector by index.  The
\* keys it began with keep their index up to the first one removed, whatever is
\* inserted, replaced, deleted and inserted again meanwhile: a loop during which
\* no key of its own goes meets every one of them once and in order, and never
\* fails.
LoopMeetsItsKeys ==
    loop # NoLoop =>
        /\ Len(loop.keys) <= Len(order)
        /\ \A i \in DOMAIN loop.keys : order[i] = loop.keys[i]

\* The entries in the order in which a "for" meets them.
Entries == [i \in DOMAIN order |-> <<order[i], map[order[i]]>>]

Abstract == INSTANCE Association WITH entries <- Entries

\* The store behaves like the list of entries it stands for: a replaced key
\* keeps its place and a removed one leaves the others in order.
BehavesLikeAssociation == Abstract!ASpec
=============================================================================
