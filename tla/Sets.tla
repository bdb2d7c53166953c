-------------------------------- MODULE Sets --------------------------------
(***************************************************************************)
(* One Set<T> local of a compiled program: the runtime's store, a hash set *)
(* beside the vector of its elements in insertion order (set.rs), and the  *)
(* descriptor the program holds (llvm/lower/collections.rs).               *)
(*                                                                         *)
(* The store keeps copies.  An insert of a String consumes its argument,   *)
(* whether or not an equal string is there (take_string), so the program's *)
(* strings are handed over or destroyed, and never come back.              *)
(*                                                                         *)
(* As for maps and lists, the checker refuses operations in the body of a  *)
(* "for" over the set unless the set is lent: any of them may come between *)
(* two turns of a loop, which then may fail.                               *)
(***************************************************************************)
EXTENDS Integers, Sequences, FiniteSets

CONSTANTS
    Texts,   \* the elements; two strings with the same text are one element
    NoTurn,  \* the set is not being iterated over
    Copies   \* bound: strings of each text the program starts with

ASSUME SetsAssumption == Copies \in Nat

VARIABLES
    textual,    \* whether the element type is String, the others are copied
    members,    \* the hash set
    sequence,   \* the elements in insertion order
    stored,     \* the store exists: the descriptor's pointer is not null
    count,      \* descriptor: length
    copies,     \* [text -> strings with that text the program still owns]
    consumed,   \* [text -> strings destroyed]
    turn,       \* a "for" over the set: [at, count]
    standing    \* "live", "dropped" by its scope, "failed": the program stopped

setVars == <<textual, members, sequence, stored, count, copies, consumed, turn, standing>>
setStore == <<members, sequence, stored, count>>
strings == <<textual, copies, consumed>>

SetTypeOK ==
    /\ textual \in BOOLEAN
    /\ members \in SUBSET Texts
    /\ sequence \in Seq(Texts)
    /\ stored \in BOOLEAN
    /\ count \in Nat
    /\ copies \in [Texts -> Nat]
    /\ consumed \in [Texts -> Nat]
    /\ turn \in [at : Nat, count : Nat] \cup {NoTurn}
    /\ standing \in {"live", "dropped", "failed"}

SetInit ==
    /\ textual \in BOOLEAN
    /\ members = {} /\ sequence = <<>> /\ stored = FALSE /\ count = 0
    /\ copies = [e \in Texts |-> Copies]
    /\ consumed = [e \in Texts |-> 0]
    /\ turn = NoTurn
    /\ standing = "live"

Up == standing = "live"

At(e) == CHOOSE i \in DOMAIN sequence : sequence[i] = e

\* Mutation: the element is pushed whether or not it is new.
PushedAlways(e) == Append(sequence, e)

Pushed(e) == IF e \in members THEN sequence ELSE Append(sequence, e)

\* order.retain(|entry| entry != &value): an element that is there occurs once.
RetainedElements(e) ==
    IF e \in members
    THEN [i \in 1..(Len(sequence) - 1) |-> IF i < At(e) THEN sequence[i] ELSE sequence[i + 1]]
    ELSE sequence

\* sync_set: the descriptor's length is that of the hash set.
Synced(set) == count' = Cardinality(set)

\* take_string copies the bytes and drops the string.
Consumed(e) ==
    /\ UNCHANGED textual
    /\ copies' = [copies EXCEPT ![e] = IF textual THEN @ - 1 ELSE @]
    /\ consumed' = [consumed EXCEPT ![e] = IF textual THEN @ + 1 ELSE @]

SetInsert(e) ==
    /\ Up /\ copies[e] > 0
    /\ members' = members \cup {e} /\ sequence' = Pushed(e) /\ stored' = TRUE
    /\ Synced(members \cup {e})
    /\ Consumed(e)
    /\ UNCHANGED <<turn, standing>>

\* delete borrows its argument, allocates the store, and syncs in any case.
SetDelete(e) ==
    /\ Up
    /\ members' = members \ {e} /\ sequence' = RetainedElements(e) /\ stored' = TRUE
    /\ Synced(members \ {e})
    /\ UNCHANGED <<strings, turn, standing>>

SetClear ==
    /\ Up
    /\ members' = {} /\ sequence' = <<>> /\ stored' = TRUE /\ count' = 0
    /\ UNCHANGED <<strings, turn, standing>>

SetReserve ==
    /\ Up
    /\ stored' = TRUE
    /\ Synced(members)
    /\ UNCHANGED <<members, sequence, strings, turn, standing>>

\* A negative reservation.
SetFail ==
    /\ Up
    /\ standing' = "failed"
    /\ UNCHANGED <<setStore, strings, turn>>

\* The end of the set's scope, or an assignment to it: the store goes with its
\* copies.
SetDrop ==
    /\ Up
    /\ members' = {} /\ sequence' = <<>> /\ stored' = FALSE
    /\ standing' = "dropped"
    /\ UNCHANGED <<count, strings, turn>>

\* The program destroys a string of its own.
Forget(e) ==
    /\ Up /\ textual /\ copies[e] > 0
    /\ Consumed(e)
    /\ UNCHANGED <<setStore, turn, standing>>

\* The loop works on a copy of the descriptor.
StartTurns ==
    /\ Up /\ turn = NoTurn
    /\ turn' = [at |-> 0, count |-> count]
    /\ UNCHANGED <<setStore, strings, standing>>

\* set_at of the current index: a bounds failure past the vector's end.
Turn ==
    /\ Up /\ turn # NoTurn /\ turn.at < turn.count
    /\ IF turn.at < Len(sequence)
       THEN turn' = [turn EXCEPT !.at = @ + 1] /\ UNCHANGED standing
       ELSE standing' = "failed" /\ UNCHANGED turn
    /\ UNCHANGED <<setStore, strings>>

EndTurns ==
    /\ Up /\ turn # NoTurn
    /\ turn' = NoTurn
    /\ UNCHANGED <<setStore, strings, standing>>

SetNext ==
    \/ \E e \in Texts : SetInsert(e) \/ SetDelete(e) \/ Forget(e)
    \/ SetClear \/ SetReserve \/ SetFail \/ SetDrop
    \/ StartTurns \/ Turn \/ EndTurns

SetSpec == SetInit /\ [][SetNext]_setVars

----------------------------------------------------------------------------
\* Vector, hash set and descriptor agree: the vector, which every iteration
\* reads, lists each member once, and the length it is given is the vector's.
SequenceMatchesMembers ==
    /\ {sequence[i] : i \in DOMAIN sequence} = members
    /\ \A i, j \in DOMAIN sequence : sequence[i] = sequence[j] => i = j
    /\ standing # "dropped" => count = Len(sequence)
    /\ members # {} => stored
=============================================================================
