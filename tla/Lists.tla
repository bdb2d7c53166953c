------------------------------- MODULE Lists -------------------------------
(***************************************************************************)
(* One List<T> or array local of a compiled program: the descriptor (data  *)
(* pointer, length, capacity) and the block of memory it points to, moved  *)
(* around by the runtime (list.rs), with the destruction of elements that  *)
(* the compiler emits around it (llvm/lower/collections.rs, cleanup.rs).   *)
(*                                                                         *)
(* The runtime moves bytes and destroys nothing; the emitted code destroys *)
(* elements and moves nothing.  An element of a move-only type has to come *)
(* out of the two with one owner.  A slot beyond the length keeps whatever *)
(* was last there.                                                         *)
(*                                                                         *)
(* The checker refuses operations that change the list in the body of a    *)
(* "for" over it (reject_live_view_source), but not where the list is      *)
(* reached through a Ref argument or by a method of its owner: it asks for *)
(* no live borrow there (calls.rs, check_reference_arg and                 *)
(* check_method_call).  Any operation may therefore come between two       *)
(* visits of an iteration, which checks nothing.                           *)
(***************************************************************************)
EXTENDS Integers, Sequences, FiniteSets

CONSTANTS
    Items,          \* the values elements can have
    Blank,          \* a slot that was never written
    NoVisit,        \* the list is not being iterated over
    FirstCapacity,  \* of the first allocation; 4 in the code
    MaxSize         \* bound: the length of the list

ASSUME ListsAssumption ==
    /\ Blank \notin Items
    /\ FirstCapacity \in Nat \ {0}
    /\ MaxSize \in Nat

VARIABLES
    owning,  \* whether the element type is move-only
    memory,  \* the allocated slots; none before the first allocation
    size,    \* descriptor: length
    room,    \* descriptor: capacity
    mine,    \* elements the program owns
    freed,   \* how often an element was destroyed
    visit,   \* a "for" over the list or a slice of it: [at, size, room]; the
             \* capacity names the block it walks, since every new block is larger
    mode     \* "live", "dropped" by its scope, "failed": the program stopped

listVars == <<owning, memory, size, room, mine, freed, visit, mode>>
descriptor == <<memory, size, room>>

Slot == Items \cup {Blank}

ListTypeOK ==
    /\ owning \in BOOLEAN
    /\ memory \in Seq(Slot)
    /\ size \in 0..MaxSize
    /\ room \in Nat
    /\ mine \in SUBSET Items
    /\ freed \in [Items -> Nat]
    /\ visit \in [at : Nat, size : Nat, room : Nat] \cup {NoVisit}
    /\ mode \in {"live", "dropped", "failed"}

Distinct(s) == \A i, j \in DOMAIN s : s[i] = s[j] => i = j

\* A collection literal: its capacity is its length, and nothing is allocated
\* for an empty one.
Literal(items) ==
    /\ owning => Distinct(items)
    /\ memory = items /\ size = Len(items) /\ room = Len(items)
    /\ mine = IF owning THEN Items \ {items[i] : i \in DOMAIN items} ELSE Items

ListInit ==
    /\ owning \in BOOLEAN
    /\ \E n \in 0..MaxSize : \E items \in [1..n -> Items] : Literal(items)
    /\ freed = [x \in Items |-> 0]
    /\ visit = NoVisit
    /\ mode = "live"

Alive == mode = "live"

----------------------------------------------------------------------------
(* Memory.                                                                  *)

Larger(a, b) == IF a < b THEN b ELSE a

\* The capacities that doubling from the current one, or from FirstCapacity,
\* can reach for n elements: n fits, and half of it would not have done.
Growths(n) ==
    LET start == Larger(room, FirstCapacity)
    IN  {c \in start..Larger(start, 2 * n - 1) : n <= c}

\* list_reserve_to: the capacities a list has when n elements must fit.
RoomsFor(n) == IF n <= room THEN {room} ELSE Growths(n)

\* Mutation: the reallocation copies one element too few.
MovedShort(c) ==
    IF c = room THEN memory
    ELSE [i \in 1..c |-> IF i < size THEN memory[i] ELSE Blank]

\* The initialised elements move to a block of c slots.
Moved(c) ==
    IF c = room THEN memory
    ELSE [i \in 1..c |-> IF i <= size THEN memory[i] ELSE Blank]

\* Mutation: the slots are copied one after another from the first one on.
OpenedForward(block, i, x) ==
    [j \in DOMAIN block |->
        IF j = i + 1 THEN x
        ELSE IF i + 1 < j /\ j <= size + 1 THEN block[i + 1]
        ELSE block[j]]

\* ptr::copy one slot up from index i on, and the new element.
Opened(block, i, x) ==
    [j \in DOMAIN block |->
        IF j = i + 1 THEN x
        ELSE IF i + 1 < j /\ j <= size + 1 THEN block[j - 1]
        ELSE block[j]]

\* ptr::copy one slot down onto index i: the last slot keeps a stale copy.
Closed(i) == [j \in DOMAIN memory |-> IF i + 1 <= j /\ j < size THEN memory[j + 1] ELSE memory[j]]

Contents == [i \in 1..size |-> memory[i]]

\* A bounds failure or a panic of the runtime: the program stops.
Stop ==
    /\ mode' = "failed"
    /\ UNCHANGED <<owning, memory, size, room, mine, freed, visit>>

----------------------------------------------------------------------------
(* Ownership.                                                               *)

Free(xs) == freed' = [x \in Items |-> IF owning /\ x \in xs THEN freed[x] + 1 ELSE freed[x]]

\* drop_sequence_elements: what is below the descriptor's length.
Kept == {memory[i] : i \in 1..size}

\* A consuming argument leaves the program's hands, a result comes to them.
Given(x) == mine' = IF owning THEN mine \ {x} ELSE mine
Got(x)   == mine' = mine \cup {x}

----------------------------------------------------------------------------
(* Operations.                                                              *)

Push(x) ==
    /\ Alive /\ x \in mine /\ size < MaxSize
    /\ \E c \in RoomsFor(size + 1) :
         /\ memory' = [Moved(c) EXCEPT ![size + 1] = x]
         /\ room' = c
    /\ size' = size + 1
    /\ Given(x)
    /\ UNCHANGED <<owning, freed, visit, mode>>

InsertAt(i, x) ==
    /\ Alive /\ x \in mine /\ size < MaxSize
    /\ i <= size
    /\ \E c \in RoomsFor(size + 1) :
         /\ memory' = Opened(Moved(c), i, x)
         /\ room' = c
    /\ size' = size + 1
    /\ Given(x)
    /\ UNCHANGED <<owning, freed, visit, mode>>

\* The last slot keeps its bytes, which now belong to the caller.
Pop ==
    /\ Alive
    /\ size > 0
    /\ size' = size - 1
    /\ Got(memory[size])
    /\ UNCHANGED <<owning, memory, room, freed, visit, mode>>

RemoveAt(i) ==
    /\ Alive
    /\ i < size
    /\ memory' = Closed(i)
    /\ size' = size - 1
    /\ Got(memory[i + 1])
    /\ UNCHANGED <<owning, room, freed, visit, mode>>

\* Mutation: the replaced element is overwritten.
SetAtOver(i, x) ==
    /\ Alive /\ x \in mine
    /\ i < size
    /\ memory' = [memory EXCEPT ![i + 1] = x]
    /\ Given(x)
    /\ UNCHANGED <<owning, size, room, freed, visit, mode>>

\* list[i] = x destroys what it replaces.
SetAt(i, x) ==
    /\ Alive /\ x \in mine
    /\ i < size
    /\ memory' = [memory EXCEPT ![i + 1] = x]
    /\ Free({memory[i + 1]})
    /\ Given(x)
    /\ UNCHANGED <<owning, size, room, visit, mode>>

\* Elements first, then the length; the block stays.
ClearList ==
    /\ Alive
    /\ Free(Kept)
    /\ size' = 0
    /\ UNCHANGED <<owning, memory, room, mine, visit, mode>>

\* reserve(n): n is the capacity wanted, not an increment.
ReserveFor(n) ==
    /\ Alive
    /\ \E c \in RoomsFor(n) : memory' = Moved(c) /\ room' = c
    /\ UNCHANGED <<owning, size, mine, freed, visit, mode>>

\* insert past the end, remove, read or store at or past it, pop of an empty
\* list, a negative reservation.
OutOfBounds == Alive /\ Stop

\* Elements, then the block: the end of the list's scope, or an assignment to
\* it, which lent lists can meet in the middle of an iteration.
DropList ==
    /\ Alive
    /\ Free(Kept)
    /\ memory' = <<>>
    /\ mode' = "dropped"
    /\ UNCHANGED <<owning, size, room, mine, visit>>

----------------------------------------------------------------------------
(* Iteration, over the list or over list.slice(first, last).                *)

\* Mutation: the slice is compared with the capacity.
SliceableRoom(first, last) == first <= last /\ last <= room

\* A slice outside the list is Nil, and there is nothing to iterate over.
Sliceable(first, last) == first <= last /\ last <= size

StartVisit(first, last) ==
    /\ Alive /\ visit = NoVisit
    /\ Sliceable(first, last)
    /\ visit' = [at |-> first, size |-> last, room |-> room]
    /\ UNCHANGED <<owning, descriptor, mine, freed, mode>>

\* The element at the current index of the block it began with, and the body up
\* to its next operation on the list: nothing is checked.  What it reads of a
\* block that was reallocated meanwhile is not modelled.
VisitNext ==
    /\ Alive /\ visit # NoVisit /\ visit.at < visit.size
    /\ visit' = [visit EXCEPT !.at = @ + 1]
    /\ UNCHANGED <<owning, descriptor, mine, freed, mode>>

EndVisit ==
    /\ Alive /\ visit # NoVisit
    /\ visit' = NoVisit
    /\ UNCHANGED <<owning, descriptor, mine, freed, mode>>

----------------------------------------------------------------------------
\* The program destroys an element of its own.
Release(x) ==
    /\ Alive /\ owning /\ x \in mine
    /\ mine' = mine \ {x}
    /\ Free({x})
    /\ UNCHANGED <<owning, descriptor, visit, mode>>

ListNext ==
    \/ \E x \in Items :
        \/ Push(x) \/ Release(x)
        \/ \E i \in 0..MaxSize : InsertAt(i, x) \/ SetAt(i, x)
    \/ \E i \in 0..MaxSize : RemoveAt(i) \/ ReserveFor(i)
    \/ Pop \/ ClearList \/ OutOfBounds \/ DropList
    \/ \E first, last \in 0..MaxSize : StartVisit(first, last)
    \/ VisitNext \/ EndVisit

ListSpec == ListInit /\ [][ListNext]_listVars

----------------------------------------------------------------------------
\* While the list lives, the descriptor's capacity is the size of its block (so
\* reallocation and destruction free what was allocated), and every element
\* below the length was written: no operation hands out raw memory.
BlockIsInitialised ==
    /\ mode # "dropped" => room = Len(memory) /\ size <= room
    /\ mode # "dropped" => \A i \in 1..size : memory[i] # Blank

Places(x) == {i \in 1..size : mode # "dropped" /\ memory[i] = x}

\* An element of a move-only type is the program's, or in one slot below the
\* length, or was destroyed, once, and only one of the three.
OneElementOwner ==
    owning => \A x \in Items :
        \/ x \in mine /\ Places(x) = {} /\ freed[x] = 0
        \/ x \notin mine /\ (\E i \in 1..size : Places(x) = {i}) /\ freed[x] = 0
        \/ x \notin mine /\ Places(x) = {} /\ freed[x] = 1

\* An iteration checks no index against the list, which may have shrunk since it
\* began.  As long as the list has not moved to another block, every slot the
\* iteration has yet to read is inside the block and was written: it may meet an
\* element twice or one that has left the list, never raw memory.
VisitReadsElements ==
    visit # NoVisit /\ mode # "dropped" /\ visit.room = room =>
        /\ visit.at <= visit.size /\ visit.size <= room
        /\ \A i \in 1..visit.size : memory[i] # Blank

\* The elements below the length behave like a sequence, whatever the runtime
\* shifts, reallocates and leaves behind in the slots above it.
ListContents == IF mode = "dropped" THEN <<>> ELSE Contents
ListAsSeries == INSTANCE Series WITH Things <- Items, series <- ListContents
BehavesLikeSeries == ListAsSeries!SSpec
=============================================================================
