-------------------------- MODULE CollectionProofs --------------------------
(***************************************************************************)
(* Maps, lists and sets, proved for every set of keys, values, items and   *)
(* texts and every bound.  A map: the vector, the hash map and the         *)
(* descriptor agree, a loop meets the keys it began with as far as none is *)
(* removed, every value has one owner, and the whole implements            *)
(* Association.  A list: initialised blocks, iterations that read written  *)
(* slots of their block, one owner for every element, and the sequence a   *)
(* list promises to be (Series).  A set: the vector, the hash set and the  *)
(* descriptor agree.  The last part puts the three together.               *)
(***************************************************************************)
EXTENDS Collections, FiniteSetTheorems, SequenceTheorems, TLAPS

----------------------------------------------------------------------------
(***************************************************************************)
(* Maps.                                                                   *)
(***************************************************************************)

\* A vector holds the keys of a set, each once.
Lists(o, K) ==
    /\ o \in Seq(Keys)
    /\ {o[i] : i \in DOMAIN o} = K
    /\ \A i, j \in DOMAIN o : o[i] = o[j] => i = j
    /\ IsFiniteSet(K) /\ Cardinality(K) = Len(o)

\* The store's part of the invariant: a hash map of finitely many keys, the
\* vector of its keys, and their number in the descriptor while the map exists.
StoreInv ==
    /\ Lists(order, DOMAIN map)
    /\ phase # "dropped" => len = Len(order)
    /\ map # Empty => alloc

MapInv == TypeOK /\ StoreInv /\ LoopMeetsItsKeys

----------------------------------------------------------------------------
(* The vector.                                                              *)

LEMMA EmptyListed == Lists(<<>>, {})
  BY FS_EmptySet DEF Lists

\* Ordered adds the key at the end unless it is there (map.rs, insert).
LEMMA OrderedLists ==
  ASSUME StoreInv, NEW k \in Keys
  PROVE  Lists(Ordered(k), DOMAIN map \cup {k})
<1> DEFINE D == DOMAIN map
<1>1. CASE k \in D
  <2>1. D \cup {k} = D
    BY <1>1
  <2> QED
    BY <1>1, <2>1 DEF Ordered, Present, StoreInv
<1>2. CASE k \notin D
  <2>1. Ordered(k) = Append(order, k)
    BY <1>2 DEF Ordered, Present
  <2>2. /\ order \in Seq(Keys) /\ {order[i] : i \in DOMAIN order} = D
        /\ \A i, j \in DOMAIN order : order[i] = order[j] => i = j
        /\ IsFiniteSet(D) /\ Cardinality(D) = Len(order)
    BY DEF StoreInv, Lists
  <2>3. /\ IsFiniteSet(D \cup {k})
        /\ Cardinality(D \cup {k}) = Len(order) + 1
    BY <1>2, <2>2, FS_AddElement
  <2> DEFINE o == Append(order, k)
  <2>4. /\ o \in Seq(Keys) /\ Len(o) = Len(order) + 1 /\ DOMAIN o = 1..(Len(order) + 1)
        /\ DOMAIN order = 1..Len(order) /\ Len(order) \in Nat
        /\ \A i \in 1..Len(order) : o[i] = order[i]
        /\ o[Len(order) + 1] = k
    BY <2>2
  <2> HIDE DEF o
  <2>5. {o[i] : i \in DOMAIN o} = D \cup {k}
    <3>1. ASSUME NEW i \in DOMAIN o PROVE o[i] \in D \cup {k}
      <4>1. CASE i \in 1..Len(order)
        BY <4>1, <2>2, <2>4
      <4>2. CASE i = Len(order) + 1
        BY <4>2, <2>4
      <4> QED BY <4>1, <4>2, <2>4
    <3>2. ASSUME NEW x \in D \cup {k} PROVE \E i \in DOMAIN o : x = o[i]
      <4>1. CASE x = k
        BY <4>1, <2>4
      <4>2. CASE x \in D
        <5>1. PICK i \in DOMAIN order : x = order[i]
          BY <4>2, <2>2
        <5> QED BY <5>1, <2>4
      <4> QED BY <4>1, <4>2
    <3> QED BY <3>1, <3>2
  <2>6. ASSUME NEW i \in DOMAIN o, NEW j \in DOMAIN o, o[i] = o[j] PROVE i = j
    <3>1. \A n \in 1..Len(order) : o[n] # k
      BY <1>2, <2>2, <2>4
    <3> QED BY <2>2, <2>4, <2>6, <3>1
  <2> QED
    BY <2>1, <2>3, <2>4, <2>5, <2>6 DEF Lists, o
<1> QED
  BY <1>1, <1>2

\* Retained closes the gap the removed key leaves (map.rs, delete).
LEMMA RetainedLists ==
  ASSUME StoreInv, NEW k \in Keys, Present(k)
  PROVE  Lists(Retained(k), DOMAIN map \ {k})
<1> DEFINE D == DOMAIN map
           n == Len(order)
           p == Position(k)
           o == Retained(k)
<1>1. /\ order \in Seq(Keys) /\ {order[i] : i \in DOMAIN order} = D
      /\ \A i, j \in DOMAIN order : order[i] = order[j] => i = j
      /\ IsFiniteSet(D) /\ Cardinality(D) = n
      /\ n \in Nat /\ DOMAIN order = 1..n
  BY DEF StoreInv, Lists
<1>2. \E i \in DOMAIN order : order[i] = k
  BY <1>1 DEF Present
<1>3. p \in 1..n /\ order[p] = k
  BY <1>1, <1>2 DEF Position
<1>4. n \in Nat /\ n - 1 \in Nat /\ p \in Int /\ n >= 1
  BY <1>1, <1>3
<1>5. o = [i \in 1..(n - 1) |-> IF i < p THEN order[i] ELSE order[i + 1]]
  BY DEF Retained
<1>6. IsFiniteSet(D \ {k}) /\ Cardinality(D \ {k}) = n - 1
  BY <1>1, FS_RemoveElement DEF Present
<1> HIDE DEF n, p, o
<1>7. \A i \in 1..n : order[i] \in Keys
  BY <1>1
<1>8. o \in Seq(Keys) /\ Len(o) = n - 1 /\ DOMAIN o = 1..(n - 1)
  <2>1. o \in [1..(n - 1) -> Keys]
    BY <1>4, <1>5, <1>7
  <2> QED BY <2>1, <1>4
<1>9. \A i \in 1..(n - 1) : o[i] = order[IF i < p THEN i ELSE i + 1]
  BY <1>5
<1>10. \A i \in 1..(n - 1) : (IF i < p THEN i ELSE i + 1) \in 1..n /\ (IF i < p THEN i ELSE i + 1) # p
  BY <1>4
<1>11. {o[i] : i \in DOMAIN o} = D \ {k}
  <2>1. ASSUME NEW i \in DOMAIN o PROVE o[i] \in D \ {k}
    <3> DEFINE t == IF i < p THEN i ELSE i + 1
    <3>1. t \in 1..n /\ t # p /\ o[i] = order[t]
      BY <1>8, <1>9, <1>10
    <3> HIDE DEF t
    <3> QED BY <3>1, <1>1, <1>3
  <2>2. ASSUME NEW x \in D \ {k} PROVE \E i \in DOMAIN o : x = o[i]
    <3>1. PICK j \in 1..n : order[j] = x
      BY <1>1
    <3>2. j # p
      BY <3>1, <1>3
    <3>3. CASE j < p
      <4>1. j \in 1..(n - 1)
        BY <3>3, <1>3, <1>4
      <4> QED BY <3>1, <3>3, <4>1, <1>8, <1>9
    <3>4. CASE j > p
      <4>1. j - 1 \in 1..(n - 1) /\ ~(j - 1 < p) /\ (j - 1) + 1 = j
        BY <3>4, <1>3, <1>4
      <4>2. o[j - 1] = order[j]
        BY <4>1, <1>9
      <4> QED BY <3>1, <4>1, <4>2, <1>8
    <3> QED BY <3>2, <3>3, <3>4, <1>4
  <2> QED BY <2>1, <2>2
<1>12. ASSUME NEW i \in DOMAIN o, NEW j \in DOMAIN o, o[i] = o[j] PROVE i = j
  <2> DEFINE t == IF i < p THEN i ELSE i + 1
             u == IF j < p THEN j ELSE j + 1
  <2>1. t \in 1..n /\ u \in 1..n /\ order[t] = order[u]
    BY <1>8, <1>9, <1>10, <1>12
  <2>2. t = u
    BY <2>1, <1>1
  <2> QED BY <2>2, <1>4, <1>8
<1> QED
  BY <1>6, <1>8, <1>11, <1>12 DEF Lists, o

----------------------------------------------------------------------------
(* The hash map.                                                            *)

LEMMA EmptyType == Empty \in Maps /\ DOMAIN Empty = {}
  BY DEF Empty, Maps

LEMMA MapsType ==
  ASSUME TypeOK
  PROVE  /\ DOMAIN map \subseteq Keys
         /\ \A k \in DOMAIN map : map[k] \in Values
  BY DEF TypeOK, Maps

LEMMA WithType ==
  ASSUME TypeOK, NEW k \in Keys, NEW v \in Values
  PROVE  With(k, v) \in Maps /\ DOMAIN With(k, v) = DOMAIN map \cup {k}
<1>1. DOMAIN map \cup {k} \in SUBSET Keys
  BY MapsType
<1>2. With(k, v) \in [DOMAIN map \cup {k} -> Values]
  BY MapsType DEF With
<1> QED
  BY <1>1, <1>2 DEF Maps, With

LEMMA WithoutType ==
  ASSUME TypeOK, NEW k \in Keys
  PROVE  Without(k) \in Maps /\ DOMAIN Without(k) = DOMAIN map \ {k}
<1>1. DOMAIN map \ {k} \in SUBSET Keys
  BY MapsType
<1>2. Without(k) \in [DOMAIN map \ {k} -> Values]
  BY MapsType DEF Without
<1> QED
  BY <1>1, <1>2 DEF Maps, Without

LEMMA DestroyType ==
  ASSUME TypeOK, NEW vs, Destroy(vs)
  PROVE  destroyed' \in [Values -> Nat]
  BY DEF TypeOK, Destroy

----------------------------------------------------------------------------
(* The invariant.  A step adds a key, removes one, empties the store or     *)
(* leaves it alone, whether or not a loop is open.                           *)

AddsKey ==
    \E k \in Keys, v \in Values :
        /\ map' = With(k, v) /\ order' = Ordered(k) /\ alloc' = TRUE
        /\ len' = Cardinality(DOMAIN map \cup {k})

RemovesKey ==
    \E k \in Keys :
        /\ Present(k)
        /\ map' = Without(k) /\ order' = Retained(k) /\ alloc' = TRUE
        /\ len' = Cardinality(DOMAIN map \ {k})

Empties ==
    /\ map' = Empty /\ order' = <<>> /\ alloc' \in BOOLEAN
    /\ \/ len' = 0
       \/ phase' = "dropped" /\ len' = len

KeepsStore ==
    /\ UNCHANGED <<map, order, len>>
    /\ alloc' \in BOOLEAN
    /\ alloc => alloc'
    /\ phase' = "dropped" <=> phase = "dropped"

LEMMA StoreKinds ==
  ASSUME MapInv, [Next]_vars
  PROVE  AddsKey \/ RemovesKey \/ Empties \/ KeepsStore
<1> USE DEF MapInv, TypeOK
<1>1. ASSUME NEW k \in Keys, NEW v \in Values, Insert(k, v) \/ Assign(k, v)
      PROVE  AddsKey
  BY <1>1 DEF Insert, Assign, AddsKey
<1>2. ASSUME NEW k \in Keys, Delete(k)
      PROVE  RemovesKey \/ KeepsStore
  <2>1. CASE Present(k)
    BY <1>2, <2>1 DEF Delete, RemovesKey
  <2>2. CASE ~Present(k)
    BY <1>2, <2>2 DEF Delete, KeepsStore
  <2> QED BY <2>1, <2>2
<1>3. ASSUME NEW k \in Keys, Take(k)
      PROVE  RemovesKey
  BY <1>3 DEF Take, RemovesKey
<1>4. ASSUME Clear \/ Drop
      PROVE  Empties
  BY <1>4 DEF Clear, Drop, Empties
<1>5. ASSUME (\E k \in Keys : Miss(k)) \/ ReserveNegative
      PROVE  KeepsStore
  BY <1>5 DEF Miss, ReserveNegative, Fail, Live, KeepsStore
<1>6. ASSUME Reserve \/ StartLoop \/ EndLoop \/ (\E v \in Values : Discard(v))
      PROVE  KeepsStore
  BY <1>6 DEF Reserve, StartLoop, EndLoop, Discard, store, KeepsStore
<1>7. ASSUME Visit
      PROVE  KeepsStore
  <2>1. UNCHANGED store /\ (phase' = phase \/ phase' = "failed") /\ phase = "live"
    BY <1>7, Zenon DEF Visit, store, Fail, Live
  <2> QED BY <2>1 DEF store, KeepsStore
<1>8. ASSUME UNCHANGED vars
      PROVE  KeepsStore
  BY <1>8 DEF vars, KeepsStore
<1> QED
  BY <1>1, <1>2, <1>3, <1>4, <1>5, <1>6, <1>7, <1>8 DEF Next

LEMMA StoreStep ==
  ASSUME MapInv, [Next]_vars
  PROVE  /\ StoreInv'
         /\ map' \in Maps /\ order' \in Seq(Keys) /\ alloc' \in BOOLEAN /\ len' \in Nat
<1>0. TypeOK /\ StoreInv
  BY DEF MapInv
<1> SUFFICES /\ Lists(order', DOMAIN map')
             /\ phase' # "dropped" => len' = Len(order')
             /\ map' # Empty => alloc'
             /\ map' \in Maps /\ alloc' \in BOOLEAN /\ len' \in Nat
  BY DEF StoreInv, Lists, Empty
<1>1. CASE AddsKey
  <2>1. PICK k \in Keys, v \in Values :
          /\ map' = With(k, v) /\ order' = Ordered(k) /\ alloc' = TRUE
          /\ len' = Cardinality(DOMAIN map \cup {k})
    BY <1>1 DEF AddsKey
  <2>2. map' \in Maps /\ DOMAIN map' = DOMAIN map \cup {k}
    BY <1>0, <2>1, WithType
  <2>3. Lists(order', DOMAIN map \cup {k})
    BY <1>0, <2>1, OrderedLists
  <2>4. len' = Len(order') /\ len' \in Nat
    BY <2>1, <2>3 DEF Lists
  <2>5. alloc'
    BY <2>1
  <2> QED BY <2>1, <2>2, <2>3, <2>4, <2>5
<1>2. CASE RemovesKey
  <2>1. PICK k \in Keys :
          /\ Present(k)
          /\ map' = Without(k) /\ order' = Retained(k) /\ alloc' = TRUE
          /\ len' = Cardinality(DOMAIN map \ {k})
    BY <1>2 DEF RemovesKey
  <2>2. map' \in Maps /\ DOMAIN map' = DOMAIN map \ {k}
    BY <1>0, <2>1, WithoutType
  <2>3. Lists(order', DOMAIN map \ {k})
    BY <1>0, <2>1, RetainedLists
  <2>4. len' = Len(order') /\ len' \in Nat
    BY <2>1, <2>3 DEF Lists
  <2>5. alloc'
    BY <2>1
  <2> QED BY <2>1, <2>2, <2>3, <2>4, <2>5
<1>3. CASE Empties
  <2>1. /\ map' = Empty /\ order' = <<>> /\ alloc' \in BOOLEAN
        /\ phase' # "dropped" => len' = 0
        /\ len' \in Nat
    BY <1>0, <1>3 DEF Empties, TypeOK
  <2>2. map' \in Maps /\ Lists(order', DOMAIN map')
    BY <2>1, EmptyListed, EmptyType
  <2> QED BY <2>1, <2>2
<1>4. CASE KeepsStore
  <2>1. order' = order /\ map' = map /\ len' = len /\ alloc' \in BOOLEAN
    BY <1>4 DEF KeepsStore
  <2>2. Lists(order', DOMAIN map') /\ map' \in Maps /\ len' \in Nat
    BY <1>0, <2>1 DEF StoreInv, TypeOK
  <2>3. phase' # "dropped" => len' = Len(order')
    BY <1>0, <1>4, <2>1 DEF StoreInv, KeepsStore
  <2>4. map' # Empty => alloc'
    <3>1. alloc => alloc'
      BY <1>4 DEF KeepsStore
    <3>2. map # Empty => alloc
      BY <1>0 DEF StoreInv
    <3> QED BY <2>1, <3>1, <3>2, Zenon
  <2> QED BY <2>1, <2>2, <2>3, <2>4
<1> QED
  BY <1>1, <1>2, <1>3, <1>4, StoreKinds

----------------------------------------------------------------------------
(* A loop over a store that changes.                                        *)

Loops == [at : Nat, len : Nat, keys : Seq(Keys)]

\* LoopMeetsItsKeys of any loop and any vector.
Follows(l, o) ==
    l # NoLoop => Len(l.keys) <= Len(o) /\ \A i \in DOMAIN l.keys : o[i] = l.keys[i]

\* A loop cut back to its first n keys follows every vector that begins with
\* the first n keys of the one it followed.
LEMMA CutFollows ==
  ASSUME TypeOK, LoopMeetsItsKeys, NEW n \in Nat, NEW o \in Seq(Keys),
         \A i \in 1..n : i <= Len(order) => i <= Len(o) /\ o[i] = order[i]
  PROVE  LoopUpTo(n) \in Loops \cup {NoLoop} /\ Follows(LoopUpTo(n), o)
<1>1. CASE loop = NoLoop
  BY <1>1 DEF LoopUpTo, Follows
<1>2. CASE loop # NoLoop
  <2> DEFINE keys == loop.keys
  <2>1. /\ loop \in Loops /\ keys \in Seq(Keys) /\ Len(keys) \in Nat /\ DOMAIN keys = 1..Len(keys)
        /\ order \in Seq(Keys) /\ Len(order) \in Nat /\ Len(o) \in Nat
        /\ Len(keys) <= Len(order) /\ \A i \in 1..Len(keys) : order[i] = keys[i]
    BY <1>2 DEF TypeOK, Loops, LoopMeetsItsKeys
  <2>2. CASE Len(keys) <= n
    <3>1. LoopUpTo(n) = loop
      BY <2>2 DEF LoopUpTo
    <3>2. \A i \in 1..Len(keys) : i <= Len(o) /\ o[i] = keys[i]
      BY <2>1, <2>2
    <3>3. Len(keys) <= Len(o)
      BY <2>1, <3>2
    <3> QED BY <2>1, <3>1, <3>2, <3>3 DEF Follows
  <2>3. CASE ~(Len(keys) <= n)
    <3> DEFINE cut == SubSeq(keys, 1, n)
    <3>1. /\ cut \in Seq(Keys) /\ Len(cut) = n /\ DOMAIN cut = 1..n
          /\ \A i \in 1..n : cut[i] = keys[i]
      BY <2>1, <2>3
    <3>2. LoopUpTo(n) = [loop EXCEPT !.keys = cut]
      BY <1>2, <2>3 DEF LoopUpTo
    <3>3. \A i \in 1..n : i <= Len(o) /\ o[i] = keys[i]
      BY <2>1, <2>3
    <3>4. n <= Len(o)
      BY <2>1, <3>3
    <3> HIDE DEF cut
    <3>5. LoopUpTo(n) \in Loops /\ LoopUpTo(n).keys = cut
      BY <2>1, <3>1, <3>2 DEF Loops
    <3> QED BY <3>1, <3>3, <3>4, <3>5 DEF Follows
  <2> QED BY <2>2, <2>3
<1> QED
  BY <1>1, <1>2

\* A new key goes to the end and a key that is there stays where it is, so the
\* loop goes on as before.
LEMMA InsertFollows ==
  ASSUME MapInv, NEW k \in Keys, order' = Ordered(k), loop' = loop
  PROVE  loop' \in Loops \cup {NoLoop} /\ Follows(loop', order')
<1>1. /\ loop \in Loops \cup {NoLoop} /\ order \in Seq(Keys) /\ Len(order) \in Nat
      /\ Follows(loop, order)
  BY DEF MapInv, TypeOK, Loops, LoopMeetsItsKeys, Follows
<1>2. /\ order' \in Seq(Keys) /\ Len(order) <= Len(order')
      /\ \A i \in 1..Len(order) : order'[i] = order[i]
  BY <1>1 DEF Ordered
<1> SUFFICES ASSUME loop # NoLoop
             PROVE  Len(loop.keys) <= Len(order') /\ \A i \in DOMAIN loop.keys : order'[i] = loop.keys[i]
  BY <1>1 DEF Follows
<1>3. /\ Len(loop.keys) \in Nat /\ DOMAIN loop.keys = 1..Len(loop.keys)
      /\ Len(loop.keys) <= Len(order) /\ \A i \in DOMAIN loop.keys : order[i] = loop.keys[i]
  BY <1>1 DEF Loops, Follows
<1>4. Len(order') \in Nat
  BY <1>2
<1> QED BY <1>1, <1>2, <1>3, <1>4

\* The keys before the one that goes stay where they are.
LEMMA RemovalFollows ==
  ASSUME MapInv, NEW k \in Keys, Present(k), order' = Retained(k), loop' = LoopUpTo(Position(k) - 1)
  PROVE  loop' \in Loops \cup {NoLoop} /\ Follows(loop', order')
<1> DEFINE p == Position(k)
<1>1. TypeOK /\ LoopMeetsItsKeys /\ StoreInv
  BY DEF MapInv
<1>2. /\ order \in Seq(Keys) /\ Len(order) \in Nat /\ DOMAIN order = 1..Len(order)
      /\ \E i \in DOMAIN order : order[i] = k
  BY <1>1 DEF StoreInv, Lists, Present
<1>3. p \in 1..Len(order)
  BY <1>2 DEF Position
<1>4. order' \in Seq(Keys)
  BY <1>1, RetainedLists DEF Lists
<1>5. order' = [i \in 1..(Len(order) - 1) |-> IF i < p THEN order[i] ELSE order[i + 1]]
  BY DEF Retained
<1> HIDE DEF p
<1>6. Len(order') = Len(order) - 1
  <2>1. DOMAIN order' = 1..(Len(order) - 1) /\ Len(order) - 1 \in Nat
    BY <1>2, <1>3, <1>5
  <2> QED BY <1>4, <2>1
<1>7. p - 1 \in Nat /\ \A i \in 1..(p - 1) : i <= Len(order') /\ order'[i] = order[i]
  BY <1>2, <1>3, <1>5, <1>6
<1> QED
  BY <1>1, <1>4, <1>7, CutFollows DEF p

\* Nothing is left of a store that is emptied, or of the loop's keys.
LEMMA EmptyFollows ==
  ASSUME MapInv, order' = <<>>, loop' = LoopUpTo(0)
  PROVE  loop' \in Loops \cup {NoLoop} /\ Follows(loop', order')
<1>1. TypeOK /\ LoopMeetsItsKeys /\ order' \in Seq(Keys) /\ 0 \in Nat
  BY DEF MapInv
<1>2. \A i \in 1..0 : i <= Len(order) => i <= Len(order') /\ order'[i] = order[i]
  OBVIOUS
<1> QED
  BY <1>1, <1>2, CutFollows

\* Every step leaves the loop the keys it still has to meet.
LEMMA LoopStep ==
  ASSUME MapInv, [Next]_vars
  PROVE  /\ LoopMeetsItsKeys'
         /\ loop' \in Loops \cup {NoLoop}
         /\ moveOnly' \in BOOLEAN /\ phase' \in {"live", "dropped", "failed"}
<1>0. /\ moveOnly \in BOOLEAN /\ phase \in {"live", "dropped", "failed"}
      /\ loop \in Loops \cup {NoLoop} /\ Follows(loop, order)
      /\ len \in Nat /\ order \in Seq(Keys)
  BY DEF MapInv, TypeOK, Loops, LoopMeetsItsKeys, Follows
<1>1. moveOnly' \in BOOLEAN /\ phase' \in {"live", "dropped", "failed"}
  BY <1>0 DEF Next, Insert, Assign, Delete, Take, Miss, Clear, Reserve, ReserveNegative, Drop,
              StartLoop, Visit, EndLoop, Discard, Fail, vars
<1> DEFINE Goal == loop' \in Loops \cup {NoLoop} /\ Follows(loop', order')
<1>2. ASSUME NEW k \in Keys, NEW v \in Values, Insert(k, v) \/ Assign(k, v)
      PROVE  Goal
  BY <1>2, InsertFollows DEF Insert, Assign
<1>3. ASSUME NEW k \in Keys, Delete(k) \/ Take(k), Present(k)
      PROVE  Goal
  BY <1>3, RemovalFollows DEF Delete, Take
<1>4. ASSUME Clear \/ Drop
      PROVE  Goal
  BY <1>4, EmptyFollows DEF Clear, Drop
<1>5. ASSUME \/ \E k \in Keys : Miss(k) \/ (Delete(k) /\ ~Present(k))
             \/ Reserve \/ ReserveNegative \/ (\E v \in Values : Discard(v)) \/ UNCHANGED vars
      PROVE  Goal
  <2>1. loop' = loop /\ order' = order
    BY <1>5 DEF Miss, Delete, Reserve, ReserveNegative, Discard, Fail, store, vars
  <2> QED BY <1>0, <2>1
<1>6. ASSUME StartLoop
      PROVE  Goal
  <2>1. loop' = [at |-> 0, len |-> len, keys |-> order] /\ order' = order
    BY <1>6 DEF StartLoop, store
  <2> QED BY <1>0, <2>1 DEF Loops, Follows
<1>7. ASSUME Visit
      PROVE  Goal
  <2>1. loop \in Loops /\ loop # NoLoop /\ order' = order
    BY <1>0, <1>7 DEF Visit, Fail, store
  <2>2. CASE loop' = loop
    BY <1>0, <2>1, <2>2
  <2>3. CASE loop' = [loop EXCEPT !.at = @ + 1]
    <3>1. loop' = [at |-> loop.at + 1, len |-> loop.len, keys |-> loop.keys]
      BY <2>1, <2>3 DEF Loops
    <3>2. loop.at + 1 \in Nat /\ loop.len \in Nat /\ loop.keys \in Seq(Keys)
      BY <2>1 DEF Loops
    <3>3. loop' \in Loops /\ loop'.keys = loop.keys
      BY <3>1, <3>2 DEF Loops
    <3> QED BY <1>0, <2>1, <3>3 DEF Follows
  <2> QED BY <1>7, <2>2, <2>3 DEF Visit, Fail
<1>8. ASSUME EndLoop
      PROVE  Goal
  BY <1>8 DEF EndLoop, Follows
<1> HIDE DEF Goal
<1>9. ASSUME NEW k \in Keys, Delete(k) \/ Take(k)
      PROVE  Goal
  <2>1. Present(k) \/ (Delete(k) /\ ~Present(k))
    BY <1>9 DEF Take
  <2> QED BY <1>3, <1>5, <1>9, <2>1
<1>10. Goal
  BY <1>2, <1>4, <1>5, <1>6, <1>7, <1>8, <1>9 DEF Next
<1> QED
  BY <1>1, <1>10 DEF Goal, Follows, LoopMeetsItsKeys

LEMMA OwnersType ==
  ASSUME MapInv, [Next]_vars
  PROVE  held' \in SUBSET Values /\ destroyed' \in [Values -> Nat]
<1>0. TypeOK
  BY DEF MapInv
<1>1. held \in SUBSET Values /\ destroyed \in [Values -> Nat]
  BY <1>0 DEF TypeOK
<1>2. ASSUME NEW vs, Destroy(vs) PROVE destroyed' \in [Values -> Nat]
  BY <1>0, <1>2, DestroyType
<1>3. ASSUME NEW k \in Keys, (\E v \in Values : Insert(k, v) \/ Assign(k, v)) \/ Delete(k)
      PROVE  held' \in SUBSET Values /\ destroyed' \in [Values -> Nat]
  BY <1>1, <1>2, <1>3 DEF Insert, Assign, Delete
<1>4. ASSUME NEW k \in Keys, Take(k)
      PROVE  held' \in SUBSET Values /\ destroyed' \in [Values -> Nat]
  BY <1>0, <1>1, <1>4, MapsType DEF Take, Present
<1>5. ASSUME Clear \/ Drop \/ (\E v \in Values : Discard(v))
      PROVE  held' \in SUBSET Values /\ destroyed' \in [Values -> Nat]
  BY <1>1, <1>2, <1>5 DEF Clear, Drop, Discard
<1>6. ASSUME Reserve \/ StartLoop \/ EndLoop \/ UNCHANGED vars
      PROVE  held' \in SUBSET Values /\ destroyed' \in [Values -> Nat]
  BY <1>1, <1>6 DEF Reserve, StartLoop, EndLoop, vars, owners
<1>7. ASSUME Visit \/ ReserveNegative \/ \E k \in Keys : Miss(k)
      PROVE  held' \in SUBSET Values /\ destroyed' \in [Values -> Nat]
  <2>1. held' = held /\ destroyed' = destroyed
    BY <1>7, Zenon DEF Visit, ReserveNegative, Miss, Fail, owners
  <2> QED BY <1>1, <2>1
<1> QED
  BY <1>3, <1>4, <1>5, <1>6, <1>7 DEF Next

LEMMA MapInit == Init => MapInv
<1> SUFFICES ASSUME Init PROVE MapInv
  OBVIOUS
<1>1. TypeOK
  <2>1. alloc \in BOOLEAN /\ moveOnly \in BOOLEAN
    BY Zenon DEF Init
  <2>2. /\ map \in Maps /\ order \in Seq(Keys) /\ len \in Nat
        /\ held \in SUBSET Values /\ destroyed \in [Values -> Nat]
        /\ loop \in [at : Nat, len : Nat, keys : Seq(Keys)] \cup {NoLoop}
        /\ phase \in {"live", "dropped", "failed"}
    BY EmptyType DEF Init
  <2> QED BY <2>1, <2>2, Zenon DEF TypeOK
<1>2. StoreInv
  BY EmptyListed, EmptyType DEF Init, StoreInv
<1>3. LoopMeetsItsKeys
  BY DEF Init, LoopMeetsItsKeys
<1> QED
  BY <1>1, <1>2, <1>3 DEF MapInv

LEMMA MapStep == MapInv /\ [Next]_vars => MapInv'
<1> SUFFICES ASSUME MapInv, [Next]_vars PROVE MapInv'
  OBVIOUS
<1>1. TypeOK'
  BY StoreStep, LoopStep, OwnersType DEF TypeOK, Loops
<1> QED
  BY <1>1, StoreStep, LoopStep DEF MapInv

\* The vector, the hash map and the descriptor agree after any sequence of
\* operations (map.rs and the emitted descriptor updates), and the keys a loop
\* began with keep their index up to the first that is removed, whatever is done
\* to the map between two of its visits.
THEOREM MapCorrect == Spec => [](TypeOK /\ OrderMatchesMap /\ LoopMeetsItsKeys)
<1>1. MapInv => TypeOK /\ OrderMatchesMap /\ LoopMeetsItsKeys
  BY DEF MapInv, StoreInv, Lists, OrderMatchesMap
<1> QED
  BY <1>1, MapInit, MapStep, PTL DEF Spec

----------------------------------------------------------------------------
(* Ownership.                                                               *)

\* OneOwner value by value, without counting: the entries hold different
\* values, none of them held by the program or destroyed, and what nobody owns
\* was destroyed once.
SoleOwner ==
    /\ \A j, k \in DOMAIN map : map[j] = map[k] => j = k
    /\ \A k \in DOMAIN map : map[k] \notin held /\ destroyed[map[k]] = 0
    /\ \A v \in held : destroyed[v] = 0
    /\ \A v \in Values :
          v \in held \/ (\E k \in DOMAIN map : map[k] = v) \/ destroyed[v] = 1

OwnerInv == moveOnly => SoleOwner

LEMMA OwnerImpliesOneOwner ==
  ASSUME TypeOK, OwnerInv
  PROVE  OneOwner
<1> SUFFICES ASSUME moveOnly, NEW v \in Values
             PROVE  Cardinality(Contained(v)) + destroyed[v] + (IF v \in held THEN 1 ELSE 0) = 1
  BY DEF OneOwner
<1>1. SoleOwner
  BY Zenon DEF OwnerInv
<1>2. CASE \E k \in DOMAIN map : map[k] = v
  <2>1. PICK k \in DOMAIN map : map[k] = v
    BY <1>2
  <2>2. Contained(v) = {k}
    BY <1>1, <2>1 DEF Contained, SoleOwner
  <2>3. Cardinality(Contained(v)) = 1
    BY <2>2, FS_Singleton
  <2> QED BY <1>1, <2>1, <2>3 DEF SoleOwner
<1>3. CASE ~\E k \in DOMAIN map : map[k] = v
  <2>1. Contained(v) = {}
    BY <1>3 DEF Contained
  <2>2. Cardinality(Contained(v)) = 0
    BY <2>1, FS_EmptySet
  <2>3. destroyed[v] = IF v \in held THEN 0 ELSE 1
    BY <1>1, <1>3 DEF SoleOwner
  <2> QED BY <2>2, <2>3
<1> QED BY <1>2, <1>3

\* drop_map_values reaches every value while the descriptor is right.
LEMMA StoredValues ==
  ASSUME MapInv, Live
  PROVE  Stored = {map[k] : k \in DOMAIN map}
<1>1. len = Len(order) /\ order \in Seq(Keys) /\ {order[i] : i \in DOMAIN order} = DOMAIN map
  BY DEF MapInv, StoreInv, Lists, Live
<1>2. 1..len = DOMAIN order
  BY <1>1
<1>3. ASSUME NEW i \in 1..len PROVE \E k \in DOMAIN map : map[order[i]] = map[k]
  BY <1>1, <1>2
<1>4. ASSUME NEW k \in DOMAIN map PROVE \E i \in 1..len : map[k] = map[order[i]]
  <2>1. PICK i \in DOMAIN order : order[i] = k
    BY <1>1
  <2> QED BY <1>2, <2>1
<1> QED BY <1>3, <1>4 DEF Stored

\* A value goes into the map and the one it replaces is destroyed.
LEMMA PutKeepsOwners ==
  ASSUME TypeOK, SoleOwner, moveOnly, NEW k \in Keys, NEW v \in held,
         map' = With(k, v), held' = held \ {v}, Destroy(Old(k))
  PROVE  SoleOwner'
<1>1. /\ DOMAIN map' = DOMAIN map \cup {k}
      /\ map'[k] = v
      /\ \A j \in DOMAIN map \ {k} : map'[j] = map[j]
  BY DEF With
<1>2. /\ held \subseteq Values /\ destroyed \in [Values -> Nat]
      /\ \A j \in DOMAIN map : map[j] \in Values
  BY MapsType DEF TypeOK
<1>3. \A w \in Values : destroyed'[w] =
        IF k \in DOMAIN map /\ w = map[k] THEN destroyed[w] + 1 ELSE destroyed[w]
  BY DEF Destroy, Old, Present
<1>4. \A i, j \in DOMAIN map' : map'[i] = map'[j] => i = j
  BY <1>1 DEF SoleOwner
<1>5. \A j \in DOMAIN map' : map'[j] \notin held' /\ destroyed'[map'[j]] = 0
  BY <1>1, <1>2, <1>3 DEF SoleOwner
<1>6. \A w \in held' : destroyed'[w] = 0
  BY <1>2, <1>3 DEF SoleOwner
<1>7. ASSUME NEW w \in Values
      PROVE  w \in held' \/ (\E j \in DOMAIN map' : map'[j] = w) \/ destroyed'[w] = 1
  <2>1. CASE w = v
    BY <1>1, <2>1
  <2>2. CASE k \in DOMAIN map /\ w = map[k]
    BY <1>2, <1>3, <2>2 DEF SoleOwner
  <2>3. CASE w # v /\ ~(k \in DOMAIN map /\ w = map[k])
    BY <1>1, <1>3, <2>3 DEF SoleOwner
  <2> QED BY <2>1, <2>2, <2>3
<1> QED
  BY <1>4, <1>5, <1>6, <1>7 DEF SoleOwner

\* A key goes: its value is destroyed, or given to the program.
LEMMA RemoveKeepsOwners ==
  ASSUME TypeOK, SoleOwner, moveOnly, NEW k \in DOMAIN map,
         map' = Without(k),
         \/ held' = held /\ Destroy({map[k]})
         \/ held' = held \cup {map[k]} /\ destroyed' = destroyed
  PROVE  SoleOwner'
<1>1. DOMAIN map' = DOMAIN map \ {k} /\ \A j \in DOMAIN map \ {k} : map'[j] = map[j]
  BY DEF Without
<1>2. /\ held \subseteq Values /\ destroyed \in [Values -> Nat]
      /\ \A j \in DOMAIN map : map[j] \in Values
  BY MapsType DEF TypeOK
<1>3. \/ held' = held /\ \A w \in Values : destroyed'[w] = IF w = map[k] THEN destroyed[w] + 1 ELSE destroyed[w]
      \/ held' = held \cup {map[k]} /\ destroyed' = destroyed
  BY DEF Destroy
<1>4. \A i, j \in DOMAIN map' : map'[i] = map'[j] => i = j
  BY <1>1 DEF SoleOwner
<1>5. \A j \in DOMAIN map' : map'[j] \notin held' /\ destroyed'[map'[j]] = 0
  BY <1>1, <1>2, <1>3 DEF SoleOwner
<1>6. \A w \in held' : destroyed'[w] = 0
  BY <1>2, <1>3 DEF SoleOwner
<1>7. ASSUME NEW w \in Values
      PROVE  w \in held' \/ (\E j \in DOMAIN map' : map'[j] = w) \/ destroyed'[w] = 1
  <2>1. CASE w = map[k]
    BY <1>2, <1>3, <2>1 DEF SoleOwner
  <2>2. CASE w # map[k]
    BY <1>1, <1>3, <2>2 DEF SoleOwner
  <2> QED BY <2>1, <2>2
<1> QED
  BY <1>4, <1>5, <1>6, <1>7 DEF SoleOwner

\* Every value is destroyed and the store is empty.
LEMMA ClearKeepsOwners ==
  ASSUME MapInv, SoleOwner, moveOnly, Live, map' = Empty, held' = held, Destroy(Stored)
  PROVE  SoleOwner'
<1>1. DOMAIN map' = {}
  BY EmptyType
<1>2. held \subseteq Values /\ destroyed \in [Values -> Nat]
  BY DEF MapInv, TypeOK
<1>3. \A w \in Values : destroyed'[w] =
        IF \E k \in DOMAIN map : map[k] = w THEN destroyed[w] + 1 ELSE destroyed[w]
  BY StoredValues DEF Destroy
<1>4. \A w \in held' : destroyed'[w] = 0
  BY <1>2, <1>3 DEF SoleOwner
<1>5. \A w \in Values : w \in held' \/ destroyed'[w] = 1
  BY <1>2, <1>3 DEF SoleOwner
<1> QED
  BY <1>1, <1>4, <1>5 DEF SoleOwner

LEMMA OwnerStep ==
  ASSUME MapInv, OwnerInv, [Next]_vars
  PROVE  OwnerInv'
<1>0. TypeOK
  BY DEF MapInv
<1>1. moveOnly' = moveOnly
  <2>1. ASSUME NEW k \in Keys,
               (\E v \in Values : Insert(k, v) \/ Assign(k, v)) \/ Delete(k) \/ Take(k) \/ Miss(k)
        PROVE  moveOnly' = moveOnly
    BY <2>1, Zenon DEF Insert, Assign, Delete, Take, Miss, Fail
  <2>2. ASSUME Clear \/ Reserve \/ ReserveNegative \/ Drop \/ StartLoop \/ Visit \/ EndLoop
        PROVE  moveOnly' = moveOnly
    BY <2>2, Zenon DEF Clear, Reserve, ReserveNegative, Drop, StartLoop, Visit, EndLoop, Fail
  <2>3. ASSUME (\E v \in Values : Discard(v)) \/ UNCHANGED vars
        PROVE  moveOnly' = moveOnly
    BY <2>3, Zenon DEF Discard, vars
  <2> QED BY <2>1, <2>2, <2>3, Zenon DEF Next
<1> SUFFICES ASSUME moveOnly PROVE SoleOwner'
  BY <1>1, Zenon DEF OwnerInv
<1>2. SoleOwner
  BY Zenon DEF OwnerInv
<1>3. ASSUME NEW k \in Keys, NEW v \in Values, Insert(k, v)
      PROVE  SoleOwner'
  <2>1. v \in held /\ map' = With(k, v) /\ held' = held \ {v} /\ Destroy(Old(k))
    BY <1>3 DEF Insert
  <2> QED BY <1>0, <1>2, <2>1, PutKeepsOwners
<1>4. ASSUME NEW k \in Keys, NEW v \in Values, Assign(k, v)
      PROVE  SoleOwner'
  <2>1. v \in held /\ map' = With(k, v) /\ held' = held \ {v}
    BY <1>4 DEF Assign
  <2>2. CASE Present(k)
    <3>1. Destroy(Old(k))
      BY <1>4, <2>2 DEF Assign
    <3> QED BY <1>0, <1>2, <2>1, <3>1, PutKeepsOwners
  <2>3. CASE ~Present(k)
    <3>1. destroyed' = destroyed /\ Old(k) = {}
      BY <1>4, <2>3 DEF Assign, Old
    <3>2. Destroy(Old(k))
      BY <1>0, <3>1 DEF Destroy, TypeOK
    <3> QED BY <1>0, <1>2, <2>1, <3>2, PutKeepsOwners
  <2> QED BY <2>2, <2>3
<1>5. ASSUME NEW k \in Keys, Delete(k)
      PROVE  SoleOwner'
  <2>1. CASE Present(k)
    <3>1. k \in DOMAIN map /\ map' = Without(k) /\ held' = held /\ Destroy({map[k]})
      BY <1>5, <2>1 DEF Delete, Present, Old
    <3> QED BY <1>0, <1>2, <3>1, RemoveKeepsOwners
  <2>2. CASE ~Present(k)
    BY <1>2, <1>5, <2>2 DEF Delete, SoleOwner
  <2> QED BY <2>1, <2>2
<1>6. ASSUME NEW k \in Keys, Take(k)
      PROVE  SoleOwner'
  <2>1. /\ k \in DOMAIN map /\ map' = Without(k)
        /\ held' = held \cup {map[k]} /\ destroyed' = destroyed
    BY <1>6 DEF Take, Present
  <2> QED BY <1>0, <1>2, <2>1, RemoveKeepsOwners
<1>7. ASSUME Clear \/ Drop
      PROVE  SoleOwner'
  <2>1. Live /\ map' = Empty /\ held' = held /\ Destroy(Stored)
    BY <1>7 DEF Clear, Drop
  <2> QED BY <1>2, <2>1, ClearKeepsOwners
<1>8. ASSUME NEW v \in Values, Discard(v)
      PROVE  SoleOwner'
  <2>1. v \in held /\ held' = held \ {v} /\ map' = map /\ Destroy({v})
    BY <1>8 DEF Discard, store
  <2>2. destroyed \in [Values -> Nat] /\ held \subseteq Values /\ \A k \in DOMAIN map : map[k] \in Values
    BY <1>0, MapsType DEF TypeOK
  <2>3. \A w \in Values : destroyed'[w] = IF w = v THEN destroyed[w] + 1 ELSE destroyed[w]
    BY <2>1 DEF Destroy
  <2> QED BY <1>2, <2>1, <2>2, <2>3 DEF SoleOwner
<1>9. ASSUME UNCHANGED <<map, held, destroyed>>
      PROVE  SoleOwner'
  BY <1>2, <1>9 DEF SoleOwner
<1>10. ASSUME (\E k \in Keys : Miss(k)) \/ Reserve \/ ReserveNegative \/ StartLoop \/ Visit \/ EndLoop
              \/ UNCHANGED vars
       PROVE  UNCHANGED <<map, held, destroyed>>
  BY <1>10, Zenon DEF Miss, Reserve, ReserveNegative, StartLoop, Visit, EndLoop, Fail, store, owners, vars
<1> QED
  BY <1>3, <1>4, <1>5, <1>6, <1>7, <1>8, <1>9, <1>10, Zenon DEF Next

\* A move-only value that went through a map has one owner at any time, or was
\* destroyed exactly once (the emitted insert, delete, take, clear and drop).
THEOREM OwnersCorrect == Spec => []OneOwner
<1>1. Init => MapInv /\ OwnerInv
  <2>1. Init => OwnerInv
    BY EmptyType DEF Init, OwnerInv, SoleOwner
  <2> QED BY <2>1, MapInit
<1>2. MapInv /\ OwnerInv /\ [Next]_vars => (MapInv /\ OwnerInv)'
  BY MapStep, OwnerStep
<1>3. MapInv /\ OwnerInv => OneOwner
  BY OwnerImpliesOneOwner DEF MapInv
<1> QED
  BY <1>1, <1>2, <1>3, PTL DEF Spec

----------------------------------------------------------------------------
(* The store implements Association.                                        *)

\* Sequences with the same length and the same elements are equal.
LEMMA SameElements ==
  ASSUME NEW S, NEW s \in Seq(S), NEW t \in Seq(S), Len(s) = Len(t),
         \A i \in 1..Len(s) : s[i] = t[i]
  PROVE  s = t
  OBVIOUS

Entry == Keys \X Values

EntriesShown ==
    /\ Entries \in Seq(Entry) /\ Len(Entries) = Len(order)
    /\ DOMAIN Entries = 1..Len(order) /\ DOMAIN order = 1..Len(order) /\ Len(order) \in Nat
    /\ \A i \in 1..Len(order) : Entries[i] = <<order[i], map[order[i]]>>
    /\ \A i \in 1..Len(order) : order[i] \in DOMAIN map
    /\ Abstract!KeysOf(Entries) = DOMAIN map

LEMMA EntriesType == MapInv => EntriesShown
<1> SUFFICES ASSUME MapInv PROVE EntriesShown
  OBVIOUS
<1>1. /\ order \in Seq(Keys) /\ {order[i] : i \in DOMAIN order} = DOMAIN map
      /\ DOMAIN order = 1..Len(order) /\ Len(order) \in Nat
      /\ \A k \in DOMAIN map : k \in Keys /\ map[k] \in Values
  BY MapsType DEF MapInv, StoreInv, Lists
<1>2. \A i \in 1..Len(order) : order[i] \in DOMAIN map
  BY <1>1
<1>3. Entries = [i \in 1..Len(order) |-> <<order[i], map[order[i]]>>]
  BY <1>1 DEF Entries
<1>4. Entries \in [1..Len(order) -> Entry]
  BY <1>1, <1>2, <1>3 DEF Entry
<1>5. Entries \in Seq(Entry) /\ Len(Entries) = Len(order)
  BY <1>1, <1>4
<1>6. Abstract!KeysOf(Entries) = {order[i] : i \in DOMAIN order}
  BY <1>1, <1>3 DEF Abstract!KeysOf
<1> QED
  BY <1>1, <1>2, <1>3, <1>5, <1>6 DEF EntriesShown

LEMMA EntriesNext ==
  ASSUME MapInv, [Next]_vars
  PROVE  EntriesShown /\ EntriesShown'
<1>1. MapInv'
  BY MapStep
<1>2. (MapInv => EntriesShown)'
  BY EntriesType, PTL
<1> QED
  BY <1>1, <1>2, EntriesType

\* A key that is added is put into the list of entries.
LEMMA PutShown ==
  ASSUME MapInv, [Next]_vars, NEW k \in Keys, NEW v \in Values,
         map' = With(k, v), order' = Ordered(k)
  PROVE  Abstract!APut(k, v)
<1>1. EntriesShown /\ EntriesShown' /\ order \in Seq(Keys)
  BY EntriesNext DEF MapInv, TypeOK
<1> DEFINE e == Entries
           f == Entries'
<1>2. /\ e \in Seq(Entry) /\ Len(e) = Len(order) /\ f \in Seq(Entry) /\ Len(f) = Len(order')
      /\ Len(order) \in Nat /\ DOMAIN e = 1..Len(order) /\ DOMAIN order = 1..Len(order)
      /\ \A i \in 1..Len(order) : e[i] = <<order[i], map[order[i]]>> /\ order[i] \in DOMAIN map
      /\ \A i \in 1..Len(order') : f[i] = <<order'[i], map'[order'[i]]>>
      /\ Abstract!KeysOf(e) = DOMAIN map
  BY <1>1 DEF EntriesShown
<1> HIDE DEF e, f
<1>3. map'[k] = v /\ \A j \in DOMAIN map \ {k} : map'[j] = map[j]
  BY DEF With
<1>4. CASE k \in DOMAIN map
  <2>1. order' = order
    BY <1>4 DEF Ordered, Present
  <2> DEFINE g == [i \in DOMAIN e |-> IF e[i][1] = k THEN <<k, v>> ELSE e[i]]
  <2>2. g \in [1..Len(order) -> Entry]
    BY <1>2 DEF Entry
  <2>3. \A i \in 1..Len(order) : g[i] = IF e[i][1] = k THEN <<k, v>> ELSE e[i]
    BY <1>2
  <2> HIDE DEF g
  <2>4. g \in Seq(Entry) /\ Len(g) = Len(order)
    BY <1>2, <2>2
  <2>5. ASSUME NEW i \in 1..Len(order) PROVE f[i] = g[i]
    <3>1. f[i] = <<order[i], map'[order[i]]>> /\ e[i] = <<order[i], map[order[i]]>> /\ order[i] \in DOMAIN map
      BY <1>2, <2>1
    <3>2. g[i] = IF order[i] = k THEN <<k, v>> ELSE <<order[i], map[order[i]]>>
      BY <2>3, <3>1
    <3> QED BY <1>3, <3>1, <3>2
  <2>6. f = g
    BY <1>2, <2>1, <2>4, <2>5, SameElements
  <2> QED BY <1>2, <1>4, <2>6 DEF e, f, g, Abstract!APut
<1>5. CASE k \notin DOMAIN map
  <2>1. order' = Append(order, k)
    BY <1>5 DEF Ordered, Present
  <2>2. /\ Len(order') = Len(order) + 1 /\ order'[Len(order) + 1] = k
        /\ \A i \in 1..Len(order) : order'[i] = order[i]
    BY <1>1, <2>1
  <2> DEFINE g == Append(e, <<k, v>>)
  <2>3. <<k, v>> \in Entry
    BY DEF Entry
  <2>4. /\ g \in Seq(Entry) /\ Len(g) = Len(order) + 1 /\ g[Len(order) + 1] = <<k, v>>
        /\ \A i \in 1..Len(order) : g[i] = e[i]
    BY <1>2, <2>3
  <2> HIDE DEF g
  <2>5. ASSUME NEW i \in 1..Len(f) PROVE f[i] = g[i]
    <3>1. CASE i \in 1..Len(order)
      <4>1. i \in 1..Len(order') /\ order'[i] = order[i]
        BY <1>2, <2>2, <3>1
      <4>2. e[i] = <<order[i], map[order[i]]>> /\ order[i] \in DOMAIN map \ {k}
        BY <1>2, <1>5, <3>1
      <4>3. f[i] = <<order[i], map'[order[i]]>>
        BY <1>2, <4>1
      <4> QED BY <1>3, <2>4, <3>1, <4>2, <4>3
    <3>2. CASE i = Len(order) + 1
      <4>1. i \in 1..Len(order') /\ order'[i] = k
        BY <1>2, <2>2, <3>2
      <4>2. f[i] = <<k, map'[k]>>
        BY <1>2, <4>1
      <4> QED BY <1>3, <2>4, <3>2, <4>2
    <3> QED BY <1>2, <2>2, <3>1, <3>2
  <2>6. f = g
    BY <1>2, <2>2, <2>4, <2>5, SameElements
  <2> QED BY <1>2, <1>5, <2>6 DEF e, f, g, Abstract!APut
<1> QED BY <1>4, <1>5

\* A key that is removed gives its place up.
LEMMA RemoveShown ==
  ASSUME MapInv, [Next]_vars, NEW k \in Keys, Present(k),
         map' = Without(k), order' = Retained(k)
  PROVE  \E i \in DOMAIN Entries : Abstract!ARemove(i)
<1>1. EntriesShown /\ EntriesShown' /\ StoreInv
  BY EntriesNext DEF MapInv
<1> DEFINE e == Entries
           f == Entries'
           n == Len(order)
           p == Position(k)
           g == SubSeq(e, 1, p - 1) \o SubSeq(e, p + 1, Len(e))
<1>2. /\ e \in Seq(Entry) /\ Len(e) = n /\ f \in Seq(Entry) /\ Len(f) = Len(order')
      /\ n \in Nat /\ DOMAIN e = 1..n /\ DOMAIN order = 1..n
      /\ \A i \in 1..n : e[i] = <<order[i], map[order[i]]>> /\ order[i] \in DOMAIN map
      /\ \A i \in 1..Len(order') : f[i] = <<order'[i], map'[order'[i]]>> /\ order'[i] \in DOMAIN map'
  BY <1>1 DEF EntriesShown
<1>3. p \in 1..n /\ p \in Nat /\ n >= 1
  <2>1. \E i \in DOMAIN order : order[i] = k
    BY <1>1 DEF Present, StoreInv, Lists
  <2> QED BY <1>2, <2>1 DEF Position
<1>4. order' = [i \in 1..(n - 1) |-> IF i < p THEN order[i] ELSE order[i + 1]]
  BY DEF Retained
<1>5. Lists(order', DOMAIN map \ {k})
  BY <1>1, RetainedLists
<1>6. Len(order') = n - 1
  BY <1>1, <1>2, <1>5, FS_RemoveElement DEF Lists, StoreInv, Present
<1>7. \A j \in DOMAIN map \ {k} : map'[j] = map[j]
  BY DEF Without
<1>8. \A i \in 1..(n - 1) : order'[i] \in DOMAIN map \ {k}
  <2>1. DOMAIN order' = 1..(n - 1)
    BY <1>4
  <2> QED BY <1>5, <2>1 DEF Lists
<1> HIDE DEF e, f, n, p
<1>9. /\ g \in Seq(Entry) /\ Len(g) = n - 1
      /\ \A i \in 1..(n - 1) : g[i] = IF i < p THEN e[i] ELSE e[i + 1]
  <2> DEFINE x == SubSeq(e, 1, p - 1)
             y == SubSeq(e, p + 1, Len(e))
  <2>1. x \in Seq(Entry) /\ Len(x) = p - 1 /\ \A i \in 1..(p - 1) : x[i] = e[i]
    BY <1>2, <1>3
  <2>2. y \in Seq(Entry) /\ Len(y) = n - p /\ \A i \in 1..(n - p) : y[i] = e[i + p]
    BY <1>2, <1>3
  <2> HIDE DEF x, y
  <2>3. /\ x \o y \in Seq(Entry) /\ Len(x \o y) = n - 1
        /\ \A i \in 1..(n - 1) : (x \o y)[i] = IF i < p THEN x[i] ELSE y[i - (p - 1)]
    <3>1. (p - 1) + (n - p) = n - 1
      BY <1>2, <1>3
    <3>2. /\ x \o y \in Seq(Entry) /\ Len(x \o y) = Len(x) + Len(y)
          /\ \A i \in 1..(Len(x) + Len(y)) :
                (x \o y)[i] = IF i <= Len(x) THEN x[i] ELSE y[i - Len(x)]
      BY <2>1, <2>2, ConcatProperties
    <3>3. Len(x) = p - 1 /\ Len(x) + Len(y) = n - 1
      BY <2>1, <2>2, <3>1
    <3>4. /\ x \o y \in Seq(Entry) /\ Len(x \o y) = n - 1
          /\ \A i \in 1..(n - 1) : (x \o y)[i] = IF i <= p - 1 THEN x[i] ELSE y[i - (p - 1)]
      BY <3>2, <3>3
    <3> QED BY <1>3, <3>4
  <2>4. ASSUME NEW i \in 1..(n - 1) PROVE (x \o y)[i] = IF i < p THEN e[i] ELSE e[i + 1]
    <3>1. CASE i < p
      BY <1>3, <2>1, <2>3, <3>1
    <3>2. CASE ~(i < p)
      <4>1. i - (p - 1) \in 1..(n - p) /\ (i - (p - 1)) + p = i + 1
        BY <1>2, <1>3, <3>2
      <4> QED BY <2>2, <2>3, <3>2, <4>1
    <3> QED BY <3>1, <3>2
  <2> QED BY <2>3, <2>4 DEF x, y
<1> HIDE DEF g
<1>10. ASSUME NEW i \in 1..(n - 1) PROVE f[i] = g[i]
  <2>1. f[i] = <<order'[i], map[order'[i]]>>
    BY <1>2, <1>6, <1>7, <1>8
  <2>2. order'[i] = IF i < p THEN order[i] ELSE order[i + 1]
    BY <1>4
  <2>3. i \in 1..n /\ i + 1 \in 1..n
    BY <1>2, <1>3
  <2>4. CASE i < p
    BY <1>2, <1>9, <2>1, <2>2, <2>3, <2>4
  <2>5. CASE ~(i < p)
    BY <1>2, <1>9, <2>1, <2>2, <2>3, <2>5
  <2> QED BY <2>4, <2>5
<1>11. f = g
  BY <1>2, <1>6, <1>9, <1>10, SameElements
<1>12. Abstract!ARemove(p)
  BY <1>11 DEF e, f, g, Abstract!ARemove
<1> QED BY <1>2, <1>3, <1>12 DEF e

\* The detailed map implements the ordered list of entries it promises to be.
THEOREM MapImplementsAssociation == Spec => BehavesLikeAssociation
<1>1. Init => Abstract!AInit
  BY DEF Init, Entries, Abstract!AInit
<1>2. ASSUME MapInv, [Next]_vars
      PROVE  [Abstract!ANext]_Entries
  <2>1. CASE AddsKey
    BY <1>2, <2>1, PutShown DEF AddsKey, Abstract!ANext
  <2>2. CASE RemovesKey
    BY <1>2, <2>2, RemoveShown DEF RemovesKey, Abstract!ANext
  <2>3. CASE Empties
    <3>1. order' = <<>>
      BY <2>3 DEF Empties
    <3>2. Entries' = <<>>
      BY <3>1 DEF Entries
    <3> QED BY <3>2 DEF Abstract!ANext, Abstract!AClear
  <2>4. CASE KeepsStore
    BY <2>4 DEF KeepsStore, Entries
  <2> QED BY <1>2, <2>1, <2>2, <2>3, <2>4, StoreKinds
<1>3. MapInv /\ [Next]_vars => [Abstract!ANext]_Entries
  BY <1>2
<1> QED
  BY <1>1, <1>3, MapInit, MapStep, PTL DEF Spec, BehavesLikeAssociation, Abstract!ASpec

----------------------------------------------------------------------------
(***************************************************************************)
(* Lists.                                                                  *)
(* Every operation does one of five things to the elements below the       *)
(* length, whatever it does to the block: ListKinds says which, and the    *)
(* rest of the proofs never looks at a block again.                        *)
(***************************************************************************)

\* An iteration walks the block of the list, or an older and smaller one.
VisitedRoom == visit # NoVisit => visit.room <= room

ListInv == ListTypeOK /\ BlockIsInitialised /\ VisitReadsElements /\ VisitedRoom

----------------------------------------------------------------------------
(* Blocks.                                                                  *)

\* A block of n slots, the first k of them written.
Block(b, n, k) ==
    /\ b \in Seq(Slot) /\ Len(b) = n /\ DOMAIN b = 1..n
    /\ \A j \in 1..k : b[j] \in Items

LEMMA BlockOfSlots ==
    ASSUME NEW n \in Nat, NEW k \in 0..n, NEW b \in [1..n -> Slot],
           \A j \in 1..k : b[j] # Blank
    PROVE  Block(b, n, k)
<1>1. b \in Seq(Slot)
    BY SeqDef
<1>2. Len(b) = n
    OBVIOUS
<1>3. \A j \in 1..k : b[j] \in Slot
    OBVIOUS
<1> QED
    BY <1>1, <1>2, <1>3 DEF Block, Slot

\* The block of a list that lives.
LEMMA ListBlock ==
    ASSUME ListInv, mode # "dropped"
    PROVE  /\ Block(memory, room, size) /\ room \in Nat /\ size \in 0..room
           /\ memory \in [1..room -> Slot]
<1>1. memory \in Seq(Slot) /\ room = Len(memory) /\ size \in Nat /\ size <= room /\ room \in Nat
    BY ListsAssumption DEF ListInv, ListTypeOK, BlockIsInitialised
<1>2. memory \in [1..room -> Slot]
    BY <1>1, LenProperties
<1>3. \A j \in 1..size : memory[j] # Blank
    BY DEF ListInv, BlockIsInitialised
<1> QED
    BY <1>1, <1>2, <1>3, BlockOfSlots

\* A block grows to what is asked for, and never shrinks.
LEMMA RoomFits ==
    ASSUME room \in Nat, NEW n \in Nat, NEW c \in RoomsFor(n)
    PROVE  c \in Nat /\ n <= c /\ room <= c
<1>1. CASE n <= room
    BY <1>1 DEF RoomsFor
<1>2. CASE ~(n <= room)
    <2> DEFINE start == Larger(room, FirstCapacity)
    <2>1. start \in Nat /\ room <= start
        BY ListsAssumption DEF Larger
    <2>2. c \in {d \in start..Larger(start, 2 * n - 1) : n <= d}
        BY <1>2 DEF RoomsFor, Growths
    <2>3. Larger(start, 2 * n - 1) \in Int
        BY <2>1 DEF Larger
    <2> HIDE DEF start
    <2>4. c \in Int /\ start <= c /\ n <= c
        BY <2>1, <2>2, <2>3
    <2> QED BY <2>1, <2>4
<1> QED
    BY <1>1, <1>2

\* A reallocation keeps what is written.
LEMMA MovedBlock ==
    ASSUME ListInv, mode # "dropped", NEW c \in Nat, room <= c
    PROVE  /\ Block(Moved(c), c, size) /\ Moved(c) \in [1..c -> Slot]
           /\ \A j \in 1..size : Moved(c)[j] = memory[j]
<1>1. /\ Block(memory, room, size) /\ room \in Nat /\ size \in 0..room
      /\ memory \in [1..room -> Slot]
    BY ListBlock
<1>2. CASE c = room
    BY <1>1, <1>2 DEF Moved
<1>3. CASE c # room
    <2>1. Moved(c) = [i \in 1..c |-> IF i <= size THEN memory[i] ELSE Blank]
        BY <1>3 DEF Moved
    <2>2. Moved(c) \in [1..c -> Slot]
        BY <1>1, <2>1 DEF Slot
    <2>3. \A j \in 1..size : Moved(c)[j] = memory[j] /\ memory[j] \in Items
        BY <1>1, <2>1 DEF Block
    <2>4. \A j \in 1..size : Moved(c)[j] # Blank
        BY <2>3, ListsAssumption
    <2> QED BY <1>1, <2>2, <2>3, <2>4, BlockOfSlots
<1> QED
    BY <1>2, <1>3

----------------------------------------------------------------------------
(* What a step does to the elements.                                        *)

Typed == memory \in Seq(Slot) /\ room \in Nat /\ size \in 0..MaxSize

PutsIn(i, x) ==
    /\ size' = size + 1
    /\ \A j \in 1..(size + 1) :
         memory'[j] = IF j <= i THEN memory[j] ELSE IF j = i + 1 THEN x ELSE memory[j - 1]
    /\ Given(x)
    /\ UNCHANGED freed

TakesOut(i) ==
    /\ size' = size - 1
    /\ \A j \in 1..(size - 1) : memory'[j] = IF j <= i THEN memory[j] ELSE memory[j + 1]
    /\ Got(memory[i + 1])
    /\ UNCHANGED freed

Replaces(i, x) ==
    /\ size' = size
    /\ \A j \in 1..size : memory'[j] = IF j = i + 1 THEN x ELSE memory[j]
    /\ Given(x)
    /\ Free({memory[i + 1]})

EmptiesList ==
    /\ size' = 0 \/ mode' = "dropped"
    /\ Free(Kept)
    /\ UNCHANGED mine

KeepsElements ==
    /\ size' = size /\ mode' # "dropped"
    /\ \A j \in 1..size : memory'[j] = memory[j]

Releases(x) ==
    /\ owning
    /\ mine' = mine \ {x}
    /\ Free({x})

Changes ==
    \/ /\ mode' = "live"
       /\ \/ \E i \in 0..size, x \in mine : PutsIn(i, x)
          \/ \E i \in 0..(size - 1) : TakesOut(i)
          \/ \E i \in 0..(size - 1), x \in mine : Replaces(i, x)
    \/ EmptiesList

ListKinds ==
    /\ owning' = owning
    /\ \/ mode = "live" /\ Changes
       \/ mode # "dropped" /\ KeepsElements /\ UNCHANGED <<mine, freed>>
       \/ mode # "dropped" /\ KeepsElements /\ \E x \in mine : Releases(x)
       \/ UNCHANGED listVars

BlockKept == mode' # "dropped" => Block(memory', room', size') /\ room' \in Nat /\ size' \in 0..room'

LEMMA PushKind ==
    ASSUME ListInv, NEW x \in Items, Push(x)
    PROVE  Typed' /\ BlockKept /\ ListKinds
<1> USE DEF Push, Alive
<1>1. PICK c \in RoomsFor(size + 1) : memory' = [Moved(c) EXCEPT ![size + 1] = x] /\ room' = c
    OBVIOUS
<1>2. size \in Nat /\ room \in Nat /\ size + 1 \in Nat /\ size + 1 \in 0..MaxSize
    BY ListsAssumption DEF ListInv, ListTypeOK
<1>3. c \in Nat /\ size + 1 <= c /\ room <= c
    BY <1>1, <1>2, RoomFits
<1>4. Moved(c) \in [1..c -> Slot] /\ \A j \in 1..size : Moved(c)[j] = memory[j]
    BY <1>3, MovedBlock
<1>5. memory' \in [1..c -> Slot]
    BY <1>1, <1>4 DEF Slot
<1>6. \A j \in 1..(size + 1) : memory'[j] = IF j <= size THEN memory[j] ELSE x
    BY <1>1, <1>2, <1>3, <1>4
<1>7. \A j \in 1..size : memory[j] # Blank
    BY DEF ListInv, BlockIsInitialised
<1>8. \A j \in 1..(size + 1) : memory'[j] # Blank
    BY <1>2, <1>6, <1>7, ListsAssumption
<1>9. Block(memory', c, size + 1)
    <2>1. size + 1 \in 0..c
        BY <1>2, <1>3
    <2> QED BY <1>3, <1>5, <1>8, <2>1, BlockOfSlots
<1>10. PutsIn(size, x)
    BY <1>2, <1>6 DEF PutsIn
<1> QED
    BY <1>1, <1>2, <1>3, <1>9, <1>10 DEF Block, BlockKept, Typed, ListKinds, Changes

LEMMA InsertKind ==
    ASSUME ListInv, NEW x \in Items, NEW i \in Nat, InsertAt(i, x)
    PROVE  Typed' /\ BlockKept /\ ListKinds
<1> USE DEF InsertAt, Alive
<1>1. PICK c \in RoomsFor(size + 1) : memory' = Opened(Moved(c), i, x) /\ room' = c
    OBVIOUS
<1>2. size \in Nat /\ room \in Nat /\ size + 1 \in Nat /\ size + 1 \in 0..MaxSize
    BY ListsAssumption DEF ListInv, ListTypeOK
<1>3. c \in Nat /\ size + 1 <= c /\ room <= c
    BY <1>1, <1>2, RoomFits
<1>4. Moved(c) \in [1..c -> Slot] /\ \A j \in 1..size : Moved(c)[j] = memory[j]
    BY <1>3, MovedBlock
<1>5. memory' = [j \in 1..c |->
                    IF j = i + 1 THEN x
                    ELSE IF i + 1 < j /\ j <= size + 1 THEN Moved(c)[j - 1]
                    ELSE Moved(c)[j]]
    BY <1>1, <1>4 DEF Opened
<1>6. memory' \in [1..c -> Slot]
    BY <1>2, <1>3, <1>4, <1>5 DEF Slot
<1>7. \A j \in 1..(size + 1) :
        memory'[j] = IF j <= i THEN memory[j] ELSE IF j = i + 1 THEN x ELSE memory[j - 1]
    BY <1>2, <1>3, <1>4, <1>5
<1>8. \A j \in 1..size : memory[j] # Blank
    BY DEF ListInv, BlockIsInitialised
<1>9. \A j \in 1..(size + 1) : memory'[j] # Blank
    BY <1>2, <1>7, <1>8, ListsAssumption
<1>10. Block(memory', c, size + 1)
    BY <1>2, <1>3, <1>6, <1>9, BlockOfSlots
<1>11. i \in 0..size /\ PutsIn(i, x)
    BY <1>2, <1>7 DEF PutsIn
<1> QED
    BY <1>1, <1>2, <1>3, <1>10, <1>11 DEF Block, BlockKept, Typed, ListKinds, Changes

LEMMA PopKind ==
    ASSUME ListInv, Pop
    PROVE  Typed' /\ BlockKept /\ ListKinds
<1> USE DEF Pop, Alive
<1>1. Block(memory, room, size) /\ room \in Nat /\ size \in 0..room /\ size \in 0..MaxSize
    BY ListBlock DEF ListInv, ListTypeOK
<1>2. size - 1 \in 0..(size - 1) /\ size' \in 0..MaxSize /\ size' \in 0..room
    BY <1>1, ListsAssumption
<1>3. Block(memory, room, size - 1)
    BY <1>1 DEF Block
<1>4. TakesOut(size - 1)
    BY <1>1, <1>2 DEF TakesOut
<1> QED
    BY <1>1, <1>2, <1>3, <1>4 DEF Block, BlockKept, Typed, ListKinds, Changes

LEMMA RemoveKind ==
    ASSUME ListInv, NEW i \in Nat, RemoveAt(i)
    PROVE  Typed' /\ BlockKept /\ ListKinds
<1> USE DEF RemoveAt, Alive
<1>1. /\ Block(memory, room, size) /\ room \in Nat /\ size \in 0..room /\ size \in 0..MaxSize
      /\ memory \in [1..room -> Slot]
    BY ListBlock DEF ListInv, ListTypeOK
<1>2. i \in 0..(size - 1) /\ size' \in 0..MaxSize /\ size' \in 0..room
    BY <1>1, ListsAssumption
<1>3. memory' = [j \in 1..room |-> IF i + 1 <= j /\ j < size THEN memory[j + 1] ELSE memory[j]]
    BY <1>1 DEF Closed
<1>4. memory' \in [1..room -> Slot]
    BY <1>1, <1>3
<1>5. \A j \in 1..(size - 1) : memory'[j] = IF j <= i THEN memory[j] ELSE memory[j + 1]
    BY <1>1, <1>2, <1>3
<1>6. \A j \in 1..size : memory[j] # Blank
    BY DEF ListInv, BlockIsInitialised
<1>7. \A j \in 1..(size - 1) : memory'[j] # Blank
    BY <1>1, <1>5, <1>6
<1>8. Block(memory', room, size - 1)
    BY <1>1, <1>2, <1>4, <1>7, BlockOfSlots
<1>9. TakesOut(i)
    BY <1>5 DEF TakesOut
<1> QED
    BY <1>1, <1>2, <1>8, <1>9 DEF Block, BlockKept, Typed, ListKinds, Changes

LEMMA SetKind ==
    ASSUME ListInv, NEW x \in Items, NEW i \in Nat, SetAt(i, x)
    PROVE  Typed' /\ BlockKept /\ ListKinds
<1> USE DEF SetAt, Alive
<1>1. /\ Block(memory, room, size) /\ room \in Nat /\ size \in 0..room /\ size \in 0..MaxSize
      /\ memory \in [1..room -> Slot]
    BY ListBlock DEF ListInv, ListTypeOK
<1>2. memory' \in [1..room -> Slot]
    BY <1>1 DEF Slot
<1>3. i \in 0..(size - 1) /\ \A j \in 1..size : memory'[j] = IF j = i + 1 THEN x ELSE memory[j]
    BY <1>1
<1>4. \A j \in 1..size : memory[j] # Blank
    BY DEF ListInv, BlockIsInitialised
<1>5. \A j \in 1..size : memory'[j] # Blank
    BY <1>3, <1>4, ListsAssumption
<1>6. Block(memory', room, size)
    BY <1>1, <1>2, <1>5, BlockOfSlots
<1>7. Replaces(i, x)
    BY <1>3 DEF Replaces
<1> QED
    BY <1>1, <1>3, <1>6, <1>7 DEF Block, BlockKept, Typed, ListKinds, Changes

LEMMA ReserveKind ==
    ASSUME ListInv, NEW n \in Nat, ReserveFor(n)
    PROVE  Typed' /\ BlockKept /\ ListKinds
<1> USE DEF ReserveFor, Alive
<1>1. PICK c \in RoomsFor(n) : memory' = Moved(c) /\ room' = c
    OBVIOUS
<1>2. size \in 0..MaxSize /\ room \in Nat /\ size <= room
    BY DEF ListInv, ListTypeOK, BlockIsInitialised
<1>3. c \in Nat /\ room <= c
    BY <1>1, <1>2, RoomFits
<1>4. Block(Moved(c), c, size) /\ \A j \in 1..size : Moved(c)[j] = memory[j]
    BY <1>3, MovedBlock
<1>5. size \in 0..c
    BY <1>2, <1>3, ListsAssumption
<1> QED
    BY <1>1, <1>2, <1>3, <1>4, <1>5 DEF Block, BlockKept, Typed, ListKinds, KeepsElements

\* Clearing destroys the elements and keeps the block, the end of the scope
\* takes both.
LEMMA EmptyKind ==
    ASSUME ListInv, ClearList \/ DropList
    PROVE  Typed' /\ BlockKept /\ ListKinds
<1>1. /\ mode = "live" /\ owning' = owning
      /\ EmptiesList
    BY DEF ClearList, DropList, Alive, EmptiesList
<1>2. Block(memory, room, size) /\ room \in Nat /\ size \in 0..room /\ size \in 0..MaxSize
    BY <1>1, ListBlock DEF ListInv, ListTypeOK
<1>3. CASE ClearList
    <2>1. Block(memory', room', size')
        BY <1>2, <1>3 DEF ClearList, Block
    <2> QED BY <1>1, <1>2, <1>3, <2>1, ListsAssumption
            DEF ClearList, Block, BlockKept, Typed, ListKinds, Changes
<1>4. CASE DropList
    BY <1>1, <1>2, <1>4 DEF DropList, BlockKept, Typed, ListKinds, Changes
<1> QED
    BY <1>3, <1>4

\* What is left: a failed bounds check, the steps of an iteration, the
\* destruction of an element the program owns, and nothing at all.
LEMMA OtherKind ==
    ASSUME ListInv,
           \/ OutOfBounds \/ VisitNext \/ EndVisit \/ UNCHANGED listVars
           \/ \E first, last \in 0..MaxSize : StartVisit(first, last)
           \/ \E x \in Items : Release(x)
    PROVE  Typed' /\ BlockKept /\ ListKinds
<1>1. Typed /\ UNCHANGED <<memory, size, room, owning>>
    BY DEF OutOfBounds, Stop, VisitNext, EndVisit, listVars, StartVisit, Release, descriptor,
           ListInv, ListTypeOK, Typed
<1>2. Typed'
    BY <1>1 DEF Typed
<1>3. mode' # "dropped" => mode # "dropped"
    BY DEF OutOfBounds, Stop, VisitNext, EndVisit, listVars, StartVisit, Release, Alive
<1>4. BlockKept
    BY <1>1, <1>3, ListBlock DEF BlockKept
<1>5. ListKinds
    BY <1>1 DEF OutOfBounds, Stop, VisitNext, EndVisit, listVars, StartVisit, Release, Alive,
                ListKinds, KeepsElements, Releases
<1> QED
    BY <1>2, <1>4, <1>5

LEMMA ListStepKinds ==
    ASSUME ListInv, [ListNext]_listVars
    PROVE  Typed' /\ BlockKept /\ ListKinds
<1>1. 0..MaxSize \subseteq Nat
    BY ListsAssumption
<1> QED
    BY <1>1, PushKind, InsertKind, PopKind, RemoveKind, SetKind, ReserveKind, EmptyKind, OtherKind
       DEF ListNext

----------------------------------------------------------------------------
(* The invariant.                                                           *)

LEMMA ListBegins == ListInit => ListInv
<1> SUFFICES ASSUME ListInit PROVE ListInv
    OBVIOUS
<1>1. PICK n \in 0..MaxSize : \E items \in [1..n -> Items] : Literal(items)
    BY DEF ListInit
<1>2. PICK items \in [1..n -> Items] : Literal(items)
    BY <1>1
<1>3. n \in Nat /\ Len(items) = n
    BY ListsAssumption
<1>4. memory \in [1..n -> Slot] /\ size = n /\ room = n
    BY <1>2, <1>3 DEF Literal, Slot
<1>5. memory \in Seq(Slot) /\ Len(memory) = n
    BY <1>3, <1>4, SeqDef
<1>6. \A j \in 1..n : memory[j] # Blank
    BY <1>2, ListsAssumption DEF Literal
<1>7. mine \in SUBSET Items
    BY <1>2 DEF Literal
<1> QED
    BY <1>3, <1>4, <1>5, <1>6, <1>7
       DEF ListInit, ListInv, ListTypeOK, BlockIsInitialised, VisitReadsElements,
           VisitedRoom

\* What the program owns and what was destroyed keep their types.
LEMMA OwnerTypes ==
    ASSUME ListInv, [ListNext]_listVars
    PROVE  owning' \in BOOLEAN /\ mine' \in SUBSET Items /\ freed' \in [Items -> Nat]
<1>1. owning \in BOOLEAN /\ mine \in SUBSET Items /\ freed \in [Items -> Nat]
    BY DEF ListInv, ListTypeOK
<1>2. owning' = owning
    BY ListStepKinds DEF ListKinds, listVars
<1>3. ASSUME NEW xs, Free(xs) PROVE freed' \in [Items -> Nat]
    BY <1>1, <1>3 DEF Free
<1>4. UNCHANGED freed \/ \E xs : Free(xs)
    BY DEF ListNext, Push, InsertAt, Pop, RemoveAt, SetAt, ClearList, ReserveFor, OutOfBounds, Stop,
           DropList, StartVisit, VisitNext, EndVisit, Release, listVars
<1>5. mine' \subseteq mine \/ \E x \in Items : mine' = mine \cup {x}
    <2>1. ASSUME NEW x \in Items, NEW i \in 0..MaxSize,
                 Push(x) \/ InsertAt(i, x) \/ SetAt(i, x) \/ Release(x)
          PROVE  mine' \subseteq mine
        BY <2>1 DEF Push, InsertAt, SetAt, Release, Given
    <2>2. ASSUME NEW i \in 0..MaxSize, RemoveAt(i)
          PROVE  \E x \in Items : mine' = mine \cup {x}
        <3>1. i \in Nat /\ mode = "live" /\ i < size
            BY <2>2, ListsAssumption DEF RemoveAt, Alive
        <3>2. i + 1 \in 1..size
            BY <3>1 DEF ListInv, ListTypeOK
        <3>3. memory[i + 1] \in Items
            BY <3>1, <3>2, ListBlock DEF Block
        <3> QED BY <2>2, <3>3 DEF RemoveAt, Got
    <2>3. ASSUME Pop
          PROVE  \E x \in Items : mine' = mine \cup {x}
        <3>1. mode = "live" /\ size \in 1..size
            BY <2>3 DEF Pop, Alive, ListInv, ListTypeOK
        <3>2. memory[size] \in Items
            BY <3>1, ListBlock DEF Block
        <3> QED BY <2>3, <3>2 DEF Pop, Got
    <2>4. CASE \/ ClearList \/ OutOfBounds \/ DropList \/ VisitNext \/ EndVisit
               \/ \E i \in 0..MaxSize : ReserveFor(i)
               \/ \E first, last \in 0..MaxSize : StartVisit(first, last)
               \/ UNCHANGED listVars
        BY <2>4 DEF ClearList, ReserveFor, OutOfBounds, Stop, DropList, StartVisit, VisitNext,
                    EndVisit, listVars
    <2>5. 0 \in 0..MaxSize
        BY ListsAssumption
    <2> QED BY <2>1, <2>2, <2>3, <2>4, <2>5 DEF ListNext
<1> QED
    BY <1>1, <1>2, <1>3, <1>4, <1>5

\* A block that stays keeps every slot that was written written; one that does
\* not stay is replaced by a larger one.
SlotsKept ==
    /\ room <= room'
    /\ room' = room /\ mode' # "dropped" =>
         mode # "dropped" /\ \A j \in 1..room : memory[j] # Blank => memory'[j] # Blank

LEMMA SlotStep ==
    ASSUME ListInv, [ListNext]_listVars
    PROVE  SlotsKept
<1>1. size \in Nat /\ room \in Nat /\ Blank \notin Items /\ mine \subseteq Items
    BY ListsAssumption DEF ListInv, ListTypeOK
<1>2. mode = "live" =>
        memory \in [1..room -> Slot] /\ size <= room /\ \A j \in 1..size : memory[j] # Blank
    BY ListBlock DEF ListInv, BlockIsInitialised
<1>3. ASSUME NEW n \in Nat, NEW c \in RoomsFor(n) PROVE c \in Nat /\ room <= c /\ n <= c
    BY <1>1, RoomFits
<1>4. Moved(room) = memory
    BY DEF Moved
<1>5. ASSUME NEW x \in Items, Push(x) PROVE SlotsKept
    <2>1. PICK c \in RoomsFor(size + 1) : memory' = [Moved(c) EXCEPT ![size + 1] = x] /\ room' = c
        BY <1>5 DEF Push
    <2>2. size + 1 \in Nat /\ mode = "live" /\ mode' = mode
        BY <1>1, <1>5 DEF Push, Alive
    <2>3. room <= room'
        BY <1>3, <2>1, <2>2
    <2>4. CASE room' = room
        <3>1. memory' = [memory EXCEPT ![size + 1] = x]
            BY <1>4, <2>1, <2>4
        <3> QED BY <1>1, <1>2, <2>2, <2>3, <3>1 DEF SlotsKept
    <2> QED BY <2>3, <2>4 DEF SlotsKept
<1>6. ASSUME NEW x \in Items, NEW i \in Nat, InsertAt(i, x) PROVE SlotsKept
    <2>1. PICK c \in RoomsFor(size + 1) : memory' = Opened(Moved(c), i, x) /\ room' = c
        BY <1>6 DEF InsertAt
    <2>2. size + 1 \in Nat /\ mode = "live" /\ mode' = mode
        BY <1>1, <1>6 DEF InsertAt, Alive
    <2>3. room <= room'
        BY <1>3, <2>1, <2>2
    <2>4. CASE room' = room
        <3>1. memory' = [j \in 1..room |->
                            IF j = i + 1 THEN x
                            ELSE IF i + 1 < j /\ j <= size + 1 THEN memory[j - 1]
                            ELSE memory[j]]
            BY <1>2, <1>4, <2>1, <2>2, <2>4 DEF Opened
        <3>2. ASSUME NEW j \in 1..room, memory[j] # Blank PROVE memory'[j] # Blank
            <4>1. CASE j = i + 1
                BY <1>1, <3>1, <4>1
            <4>2. CASE i + 1 < j /\ j <= size + 1
                <5>1. j - 1 \in 1..size /\ memory'[j] = memory[j - 1]
                    BY <1>1, <3>1, <4>2
                <5> QED BY <1>2, <2>2, <5>1
            <4>3. CASE j # i + 1 /\ ~(i + 1 < j /\ j <= size + 1)
                BY <3>1, <3>2, <4>3
            <4> QED BY <4>1, <4>2, <4>3
        <3> QED BY <2>2, <2>3, <3>2 DEF SlotsKept
    <2> QED BY <2>3, <2>4 DEF SlotsKept
<1>7. ASSUME NEW i \in Nat, RemoveAt(i) PROVE SlotsKept
    <2>1. /\ mode = "live" /\ room' = room
          /\ memory' = [j \in 1..room |-> IF i + 1 <= j /\ j < size THEN memory[j + 1] ELSE memory[j]]
        BY <1>2, <1>7 DEF RemoveAt, Closed, Alive
    <2>2. ASSUME NEW j \in 1..room, memory[j] # Blank PROVE memory'[j] # Blank
        <3>1. CASE i + 1 <= j /\ j < size
            <4>1. j + 1 \in 1..size /\ memory'[j] = memory[j + 1]
                BY <1>1, <2>1, <3>1
            <4> QED BY <1>2, <2>1, <4>1
        <3>2. CASE ~(i + 1 <= j /\ j < size)
            BY <2>1, <2>2, <3>2
        <3> QED BY <3>1, <3>2
    <2> QED BY <1>1, <2>1, <2>2 DEF SlotsKept
<1>8. ASSUME NEW x \in Items, NEW i \in Nat, SetAt(i, x) PROVE SlotsKept
    <2>1. mode = "live" /\ room' = room /\ memory' = [memory EXCEPT ![i + 1] = x]
        BY <1>8 DEF SetAt, Alive
    <2> QED BY <1>1, <1>2, <2>1 DEF SlotsKept
<1>9. ASSUME NEW n \in Nat, ReserveFor(n) PROVE SlotsKept
    <2>1. PICK c \in RoomsFor(n) : memory' = Moved(c) /\ room' = c
        BY <1>9 DEF ReserveFor
    <2>2. mode = "live" /\ room <= room'
        BY <1>3, <1>9, <2>1 DEF ReserveFor, Alive
    <2> QED BY <1>4, <2>1, <2>2 DEF SlotsKept
<1>10. CASE DropList
    BY <1>1, <1>10 DEF DropList, SlotsKept
<1>11. CASE \/ Pop \/ ClearList \/ OutOfBounds \/ VisitNext \/ EndVisit \/ UNCHANGED listVars
            \/ \E first, last \in 0..MaxSize : StartVisit(first, last)
            \/ \E x \in Items : Release(x)
    <2>1. UNCHANGED <<memory, room>> /\ (mode' = "dropped" \/ mode # "dropped")
        BY <1>11 DEF Pop, ClearList, OutOfBounds, Stop, VisitNext, EndVisit, listVars, StartVisit,
                     Release, descriptor, Alive
    <2> QED BY <1>1, <2>1 DEF SlotsKept
<1>12. 0..MaxSize \subseteq Nat
    BY ListsAssumption
<1> QED
    BY <1>5, <1>6, <1>7, <1>8, <1>9, <1>10, <1>11, <1>12 DEF ListNext

\* An iteration starts inside the list; what is done to the list later either
\* leaves the slots it walks written or takes the list to a larger block.
LEMMA VisitStep ==
    ASSUME ListInv, [ListNext]_listVars
    PROVE  /\ visit' \in [at : Nat, size : Nat, room : Nat] \cup {NoVisit}
           /\ mode' \in {"live", "dropped", "failed"}
           /\ VisitReadsElements' /\ VisitedRoom'
<1>1. /\ visit \in [at : Nat, size : Nat, room : Nat] \cup {NoVisit}
      /\ VisitReadsElements /\ VisitedRoom
      /\ mode \in {"live", "dropped", "failed"} /\ size \in Nat /\ room \in Nat
    BY ListsAssumption DEF ListInv, ListTypeOK
<1>2. mode' \in {"live", "dropped", "failed"}
    BY <1>1 DEF ListNext, Push, InsertAt, Pop, RemoveAt, SetAt, ClearList, ReserveFor, OutOfBounds,
                Stop, DropList, StartVisit, VisitNext, EndVisit, Release, listVars
<1>3. CASE \E first, last \in 0..MaxSize : StartVisit(first, last)
    <2>1. PICK first \in 0..MaxSize, last \in 0..MaxSize : StartVisit(first, last)
        BY <1>3
    <2>2. /\ first \in Nat /\ last \in Nat /\ first <= last /\ last <= size /\ mode = "live"
          /\ visit' = [at |-> first, size |-> last, room |-> room]
          /\ UNCHANGED <<memory, room>>
        BY <2>1, ListsAssumption DEF StartVisit, Sliceable, Alive, descriptor
    <2>3. size <= room /\ \A j \in 1..size : memory[j] # Blank
        BY <2>2 DEF ListInv, BlockIsInitialised
    <2>4. last <= room /\ \A j \in 1..last : memory[j] # Blank
        BY <1>1, <2>2, <2>3
    <2> QED BY <1>1, <1>2, <2>2, <2>4 DEF VisitReadsElements, VisitedRoom
<1>4. CASE VisitNext
    <2>1. /\ visit \in [at : Nat, size : Nat, room : Nat] /\ visit # NoVisit
          /\ visit.at < visit.size /\ visit' = [visit EXCEPT !.at = @ + 1]
          /\ UNCHANGED <<memory, room, mode>>
        BY <1>1, <1>4 DEF VisitNext, descriptor
    <2>2. /\ visit'.at = visit.at + 1 /\ visit'.size = visit.size /\ visit'.room = visit.room
          /\ visit.at + 1 \in Nat /\ visit.at + 1 <= visit.size
          /\ visit' \in [at : Nat, size : Nat, room : Nat]
        BY <2>1
    <2> QED BY <1>1, <1>2, <2>1, <2>2 DEF VisitReadsElements, VisitedRoom
<1>5. CASE EndVisit
    BY <1>2, <1>5 DEF EndVisit, VisitReadsElements, VisitedRoom
<1>6. CASE visit' = visit
    <2>1. room <= room' /\ room' \in Nat
        BY SlotStep, ListStepKinds DEF SlotsKept, Typed
    <2>2. VisitedRoom'
        BY <1>1, <1>6, <2>1 DEF VisitedRoom
    <2>3. ASSUME visit # NoVisit, mode' # "dropped", visit.room = room'
          PROVE  /\ visit.at <= visit.size /\ visit.size <= room'
                 /\ \A j \in 1..visit.size : memory'[j] # Blank
        <3>1. visit \in [at : Nat, size : Nat, room : Nat] /\ visit.room <= room
            BY <1>1, <2>3 DEF VisitedRoom
        <3>2. room' = room
            BY <1>1, <2>1, <2>3, <3>1
        <3>3. mode # "dropped" /\ \A j \in 1..room : memory[j] # Blank => memory'[j] # Blank
            BY <2>3, <3>2, SlotStep DEF SlotsKept
        <3>4. /\ visit.at <= visit.size /\ visit.size <= room
              /\ \A j \in 1..visit.size : memory[j] # Blank
            BY <1>1, <2>3, <3>2, <3>3 DEF VisitReadsElements
        <3> QED BY <1>1, <3>1, <3>2, <3>3, <3>4
    <2> QED BY <1>1, <1>2, <1>6, <2>2, <2>3 DEF VisitReadsElements
<1> QED
    <2>1. CASE \/ ClearList \/ OutOfBounds \/ DropList \/ Pop \/ UNCHANGED listVars
               \/ \E i \in 0..MaxSize : RemoveAt(i) \/ ReserveFor(i)
               \/ \E x \in Items : Push(x) \/ Release(x) \/ \E i \in 0..MaxSize : InsertAt(i, x) \/ SetAt(i, x)
        BY <1>6, <2>1 DEF ClearList, OutOfBounds, Stop, DropList, Pop, RemoveAt, ReserveFor, Push, Release,
                          InsertAt, SetAt, listVars
    <2> QED BY <1>3, <1>4, <1>5, <2>1 DEF ListNext

LEMMA ListStep == ListInv /\ [ListNext]_listVars => ListInv'
<1> SUFFICES ASSUME ListInv, [ListNext]_listVars PROVE ListInv'
    OBVIOUS
<1>1. Typed' /\ BlockKept
    BY ListStepKinds
<1>2. ListTypeOK'
    BY <1>1, OwnerTypes, VisitStep DEF Typed, ListTypeOK
<1>3. BlockIsInitialised'
    <2> SUFFICES ASSUME mode' # "dropped"
                 PROVE  /\ room' = Len(memory') /\ size' <= room'
                        /\ \A i \in 1..size' : memory'[i] # Blank
        BY DEF BlockIsInitialised
    <2> QED BY <1>1, ListsAssumption DEF BlockKept, Block
<1> QED
    BY <1>2, <1>3, VisitStep DEF ListInv

\* For any elements and any length: a list's block is the size its descriptor
\* says and written below the length, and an iteration reads written slots of
\* it whatever is done to the list meanwhile, as long as the block stays.
THEOREM ListCorrect == ListSpec => [](ListTypeOK /\ BlockIsInitialised /\ VisitReadsElements)
<1>1. ListInv => ListTypeOK /\ BlockIsInitialised /\ VisitReadsElements
    BY DEF ListInv
<1> QED
    BY <1>1, ListBegins, ListStep, PTL DEF ListSpec

----------------------------------------------------------------------------
(* Owners.                                                                  *)

Held(x) == mode # "dropped" /\ \E i \in 1..size : memory[i] = x

\* The elements of the list differ, none of them is the program's, and what is
\* neither in the list nor the program's was destroyed once.
SoleHolder ==
    owning =>
        /\ mode # "dropped" => \A i, j \in 1..size : memory[i] = memory[j] => i = j
        /\ \A x \in mine : ~Held(x) /\ freed[x] = 0
        /\ \A x \in Items \ mine : freed[x] = IF Held(x) THEN 0 ELSE 1

LEMMA SoleHolderIsOneOwner ==
    ASSUME ListInv, SoleHolder
    PROVE  OneElementOwner
<1> SUFFICES ASSUME owning, NEW x \in Items
             PROVE  \/ x \in mine /\ Places(x) = {} /\ freed[x] = 0
                    \/ x \notin mine /\ (\E i \in 1..size : Places(x) = {i}) /\ freed[x] = 0
                    \/ x \notin mine /\ Places(x) = {} /\ freed[x] = 1
    BY DEF OneElementOwner
<1>1. CASE Held(x)
    <2>1. PICK i \in 1..size : memory[i] = x
        BY <1>1 DEF Held
    <2>2. \A j \in 1..size : memory[j] = x => j = i
        BY <1>1, <2>1 DEF Held, SoleHolder
    <2>3. Places(x) = {i}
        BY <1>1, <2>1, <2>2 DEF Held, Places
    <2> QED BY <1>1, <2>3 DEF SoleHolder
<1>2. CASE ~Held(x)
    <2>1. Places(x) = {}
        BY <1>2 DEF Held, Places
    <2> QED BY <1>2, <2>1 DEF SoleHolder
<1> QED
    BY <1>1, <1>2

\* The element that is put in comes from the program.
LEMMA PutKeepsHolders ==
    ASSUME ListInv, SoleHolder, owning, owning', mode = "live", mode' = "live",
           NEW i \in 0..size, NEW x \in mine, PutsIn(i, x)
    PROVE  SoleHolder'
<1> DEFINE old(j) == IF j <= i THEN j ELSE j - 1
<1>1. size \in Nat /\ i \in Nat /\ i <= size /\ mine \subseteq Items /\ x \in Items
    BY ListsAssumption DEF ListInv, ListTypeOK
<1>2. \A j \in 1..(size + 1) : memory'[j] = IF j = i + 1 THEN x ELSE memory[old(j)]
    BY <1>1 DEF PutsIn
<1>3. \A j \in 1..(size + 1) : j # i + 1 => old(j) \in 1..size
    BY <1>1
<1>4. \A j, k \in 1..(size + 1) : j # i + 1 /\ k # i + 1 /\ old(j) = old(k) => j = k
    BY <1>1
<1>5. \A j \in 1..size : \E k \in 1..(size + 1) : k # i + 1 /\ old(k) = j
    <2> TAKE j \in 1..size
    <2>1. CASE j <= i
        BY <1>1, <2>1
    <2>2. CASE ~(j <= i)
        <3>1. j + 1 \in 1..(size + 1) /\ j + 1 # i + 1 /\ old(j + 1) = j
            BY <1>1, <2>2
        <3> QED BY <3>1
    <2> QED BY <2>1, <2>2
<1> HIDE DEF old
<1>6. /\ \A j, k \in 1..size : memory[j] = memory[k] => j = k
      /\ \A j \in 1..size : memory[j] # x
    BY DEF SoleHolder, Held
<1>7. size' = size + 1 /\ mine' = mine \ {x} /\ freed' = freed
    BY DEF PutsIn, Given
<1>8. \A j, k \in 1..size' : memory'[j] = memory'[k] => j = k
    BY <1>2, <1>3, <1>4, <1>6, <1>7
<1>9. \A y \in Items : Held(y)' <=> Held(y) \/ y = x
    <2>1. i + 1 \in 1..(size + 1)
        BY <1>1
    <2> QED BY <1>2, <1>3, <1>5, <1>7, <2>1 DEF Held
<1> QED
    BY <1>1, <1>7, <1>8, <1>9 DEF SoleHolder

\* The element that is taken out goes to the program.
LEMMA TakeKeepsHolders ==
    ASSUME ListInv, SoleHolder, owning, owning', mode = "live", mode' = "live",
           NEW i \in 0..(size - 1), TakesOut(i)
    PROVE  SoleHolder'
<1> DEFINE old(j) == IF j <= i THEN j ELSE j + 1
<1>1. size \in Nat /\ i \in Nat /\ i < size /\ i + 1 \in 1..size /\ mine \subseteq Items
    BY ListsAssumption DEF ListInv, ListTypeOK
<1>2. \A j \in 1..(size - 1) : memory'[j] = memory[old(j)]
    BY <1>1 DEF TakesOut
<1>3. \A j \in 1..(size - 1) : old(j) \in 1..size /\ old(j) # i + 1
    BY <1>1
<1>4. \A j, k \in 1..(size - 1) : old(j) = old(k) => j = k
    BY <1>1
<1>5. \A j \in 1..size : j # i + 1 => \E k \in 1..(size - 1) : old(k) = j
    <2> SUFFICES ASSUME NEW j \in 1..size, j # i + 1 PROVE \E k \in 1..(size - 1) : old(k) = j
        OBVIOUS
    <2>1. CASE j <= i
        <3>1. j \in 1..(size - 1) /\ old(j) = j
            BY <1>1, <2>1
        <3> QED BY <3>1
    <2>2. CASE ~(j <= i)
        <3>1. j - 1 \in 1..(size - 1) /\ old(j - 1) = j
            BY <1>1, <2>2
        <3> QED BY <3>1
    <2> QED BY <2>1, <2>2
<1> HIDE DEF old
<1> DEFINE out == memory[i + 1]
<1>6. /\ \A j, k \in 1..size : memory[j] = memory[k] => j = k
      /\ out \in Items /\ out \notin mine /\ freed[out] = 0
    <2>1. Held(out)
        BY <1>1 DEF Held
    <2>2. out \in Items
        BY <1>1, ListBlock DEF Block
    <2> QED BY <2>1, <2>2 DEF SoleHolder
<1>7. size' = size - 1 /\ mine' = mine \cup {out} /\ freed' = freed
    BY DEF TakesOut, Got
<1>8. \A j, k \in 1..size' : memory'[j] = memory'[k] => j = k
    BY <1>2, <1>3, <1>4, <1>6, <1>7
<1>9. \A y \in Items : Held(y)' <=> Held(y) /\ y # out
    BY <1>1, <1>2, <1>3, <1>5, <1>6, <1>7 DEF Held
<1> HIDE DEF out
<1> QED
    BY <1>1, <1>6, <1>7, <1>8, <1>9 DEF SoleHolder

\* The element that is replaced is destroyed.
LEMMA ReplaceKeepsHolders ==
    ASSUME ListInv, SoleHolder, owning, owning', mode = "live", mode' = "live",
           NEW i \in 0..(size - 1), NEW x \in mine, Replaces(i, x)
    PROVE  SoleHolder'
<1> DEFINE out == memory[i + 1]
<1>1. /\ size \in Nat /\ i + 1 \in 1..size /\ mine \subseteq Items /\ x \in Items
      /\ freed \in [Items -> Nat]
    BY ListsAssumption DEF ListInv, ListTypeOK
<1>2. /\ \A j, k \in 1..size : memory[j] = memory[k] => j = k
      /\ \A j \in 1..size : memory[j] # x
      /\ out \in Items /\ out \notin mine /\ freed[out] = 0 /\ Held(out)
    <2>1. Held(out) /\ ~Held(x)
        BY <1>1 DEF Held, SoleHolder
    <2>2. out \in Items
        BY <1>1, ListBlock DEF Block
    <2> QED BY <2>1, <2>2 DEF SoleHolder, Held
<1>3. /\ size' = size /\ mine' = mine \ {x}
      /\ \A j \in 1..size : memory'[j] = IF j = i + 1 THEN x ELSE memory[j]
      /\ \A y \in Items : freed'[y] = IF y = out THEN 1 ELSE freed[y]
    BY <1>1, <1>2 DEF Replaces, Given, Free
<1>4. \A j, k \in 1..size' : memory'[j] = memory'[k] => j = k
    BY <1>2, <1>3
<1>5. \A y \in Items : Held(y)' <=> y = x \/ (Held(y) /\ y # out)
    BY <1>1, <1>2, <1>3 DEF Held
<1> HIDE DEF out
<1>6. \A y \in mine' : ~Held(y)' /\ freed'[y] = 0
    BY <1>1, <1>2, <1>3, <1>5 DEF SoleHolder
<1>7. \A y \in Items \ mine' : freed'[y] = IF Held(y)' THEN 0 ELSE 1
    BY <1>1, <1>2, <1>3, <1>5 DEF SoleHolder
<1> QED
    BY <1>4, <1>6, <1>7 DEF SoleHolder

\* All elements are destroyed at once.
LEMMA EmptyKeepsHolders ==
    ASSUME ListInv, SoleHolder, owning, owning', mode = "live", EmptiesList
    PROVE  SoleHolder'
<1>1. size \in Nat /\ freed \in [Items -> Nat] /\ mine \subseteq Items
    BY ListsAssumption DEF ListInv, ListTypeOK
<1>2. \A y \in Items : y \in Kept <=> Held(y)
    BY DEF Kept, Held
<1>3. \A y \in Items : freed'[y] = IF Held(y) THEN freed[y] + 1 ELSE freed[y]
    BY <1>1, <1>2 DEF EmptiesList, Free
<1>4. \A y : ~Held(y)'
    BY DEF EmptiesList, Held
<1>5. mode' # "dropped" => size' = 0
    BY DEF EmptiesList
<1> QED
    BY <1>1, <1>3, <1>4, <1>5 DEF EmptiesList, SoleHolder

LEMMA ReleaseKeepsHolders ==
    ASSUME ListInv, SoleHolder, owning, owning', mode # "dropped",
           KeepsElements, NEW x \in mine, Releases(x)
    PROVE  SoleHolder'
<1>1. size \in Nat /\ freed \in [Items -> Nat] /\ mine \subseteq Items
    BY ListsAssumption DEF ListInv, ListTypeOK
<1>2. \A y \in Items : freed'[y] = IF y = x THEN freed[y] + 1 ELSE freed[y]
    BY <1>1 DEF Releases, Free
<1>3. \A y : Held(y)' <=> Held(y)
    BY DEF KeepsElements, Held
<1>4. \A j, k \in 1..size' : memory'[j] = memory'[k] => j = k
    BY DEF KeepsElements, SoleHolder
<1> QED
    BY <1>1, <1>2, <1>3, <1>4 DEF Releases, SoleHolder

LEMMA HolderStep ==
    ASSUME ListInv, SoleHolder, [ListNext]_listVars
    PROVE  SoleHolder'
<1>1. ListKinds /\ owning \in BOOLEAN
    BY ListStepKinds DEF ListInv, ListTypeOK
<1>2. CASE UNCHANGED listVars
    BY <1>2 DEF listVars, SoleHolder, Held
<1> SUFFICES ASSUME owning, owning', ~UNCHANGED listVars PROVE SoleHolder'
    BY <1>1, <1>2 DEF ListKinds, SoleHolder
<1>3. CASE mode = "live" /\ Changes
    BY <1>3, PutKeepsHolders, TakeKeepsHolders, ReplaceKeepsHolders, EmptyKeepsHolders DEF Changes
<1>4. CASE mode # "dropped" /\ KeepsElements /\ UNCHANGED <<mine, freed>>
    <2>1. \A y : Held(y)' <=> Held(y)
        BY <1>4 DEF KeepsElements, Held
    <2> QED BY <1>4, <2>1 DEF KeepsElements, SoleHolder
<1>5. CASE mode # "dropped" /\ KeepsElements /\ \E x \in mine : Releases(x)
    BY <1>5, ReleaseKeepsHolders
<1> QED
    BY <1>1, <1>3, <1>4, <1>5 DEF ListKinds

LEMMA HolderBegins == ListInit => SoleHolder
<1> SUFFICES ASSUME ListInit, owning PROVE SoleHolder
    BY DEF SoleHolder
<1>1. PICK n \in 0..MaxSize : \E items \in [1..n -> Items] : Literal(items)
    BY DEF ListInit
<1>2. PICK items \in [1..n -> Items] : Literal(items)
    BY <1>1
<1>3. DOMAIN items = 1..n /\ Len(items) = n
    BY ListsAssumption
<1> QED
    BY <1>2, <1>3 DEF Literal, Distinct, ListInit, SoleHolder, Held

\* For any elements and any length: an element of a move-only type has one
\* owner, the program or one slot of the list, or was destroyed exactly once.
THEOREM ElementsHaveOneOwner == ListSpec => []OneElementOwner
<1>1. ListInv /\ SoleHolder => OneElementOwner
    BY SoleHolderIsOneOwner
<1>2. ListInv /\ SoleHolder /\ [ListNext]_listVars => SoleHolder'
    BY HolderStep
<1> QED
    BY <1>1, <1>2, ListBegins, ListStep, HolderBegins, PTL DEF ListSpec

----------------------------------------------------------------------------
(* The sequence a list promises to be.                                      *)

Shown ==
    /\ ListContents \in Seq(Items)
    /\ mode # "dropped" =>
         /\ ListContents = [j \in 1..size |-> memory[j]]
         /\ Len(ListContents) = size /\ DOMAIN ListContents = 1..size
         /\ \A j \in 1..size : ListContents[j] = memory[j]

LEMMA ContentsShown == ListInv => Shown
<1> SUFFICES ASSUME ListInv PROVE Shown
    OBVIOUS
<1> USE DEF Shown
<1>1. size \in Nat
    BY ListsAssumption DEF ListInv, ListTypeOK
<1>2. CASE mode = "dropped"
    BY <1>2 DEF ListContents
<1>3. CASE mode # "dropped"
    <2>1. \A j \in 1..size : memory[j] \in Items
        BY <1>3, ListBlock DEF Block
    <2>2. ListContents = [j \in 1..size |-> memory[j]]
        BY <1>3 DEF ListContents, Contents
    <2>3. ListContents \in [1..size -> Items]
        BY <2>1, <2>2
    <2>4. ListContents \in Seq(Items)
        BY <1>1, <2>3, SeqDef
    <2> QED BY <1>1, <1>3, <2>2, <2>4
<1> QED
    BY <1>2, <1>3

LEMMA ListShows ==
    ASSUME ListInv, ListInv', ListKinds
    PROVE  [ListAsSeries!SNext]_ListContents
<1> DEFINE s == ListContents
           t == ListContents'
<1>1. /\ s \in Seq(Items) /\ t \in Seq(Items) /\ size \in Nat
      /\ mode # "dropped" => /\ Len(s) = size /\ DOMAIN s = 1..size
                             /\ \A j \in 1..size : s[j] = memory[j]
      /\ mode' # "dropped" => /\ t = [j \in 1..size' |-> memory'[j]]
                              /\ Len(t) = size'
    <2>1. (ListInv => Shown)'
        BY ContentsShown, PTL
    <2> QED BY <2>1, ContentsShown, ListsAssumption DEF Shown, ListInv, ListTypeOK
<1> HIDE DEF s, t
<1>2. CASE mode = "live" /\ mode' = "live" /\ \E i \in 0..size, x \in mine : PutsIn(i, x)
    <2> PICK i \in 0..size, x \in mine : PutsIn(i, x)
        BY <1>2
    <2>1. t = [j \in 1..(Len(s) + 1) |-> IF j <= i THEN s[j] ELSE IF j = i + 1 THEN x ELSE s[j - 1]]
        <3>1. t = [j \in 1..(size + 1) |-> memory'[j]]
            BY <1>1, <1>2 DEF PutsIn
        <3>2. ASSUME NEW j \in 1..(size + 1)
              PROVE  memory'[j] = IF j <= i THEN s[j] ELSE IF j = i + 1 THEN x ELSE s[j - 1]
            BY <1>1, <1>2 DEF PutsIn
        <3> QED BY <1>1, <1>2, <3>1, <3>2
    <2>2. x \in Items /\ i \in 0..Len(s)
        BY <1>1, <1>2 DEF ListInv, ListTypeOK
    <2>3. ListAsSeries!PutIn
        BY <2>1, <2>2 DEF s, t, ListAsSeries!PutIn, ListAsSeries!InsertedAt
    <2> QED BY <2>3 DEF ListAsSeries!SNext
<1>3. CASE mode = "live" /\ mode' = "live" /\ \E i \in 0..(size - 1) : TakesOut(i)
    <2> PICK i \in 0..(size - 1) : TakesOut(i)
        BY <1>3
    <2>1. t = [j \in 1..(Len(s) - 1) |-> IF j <= i THEN s[j] ELSE s[j + 1]]
        <3>1. t = [j \in 1..(size - 1) |-> memory'[j]]
            BY <1>1, <1>3 DEF TakesOut
        <3>2. ASSUME NEW j \in 1..(size - 1)
              PROVE  memory'[j] = IF j <= i THEN s[j] ELSE s[j + 1]
            BY <1>1, <1>3 DEF TakesOut
        <3> QED BY <1>1, <1>3, <3>1, <3>2
    <2>2. ListAsSeries!PutOut
        BY <1>1, <1>3, <2>1 DEF s, t, ListAsSeries!PutOut, ListAsSeries!RemovedAt
    <2> QED BY <2>2 DEF ListAsSeries!SNext
<1>4. CASE mode = "live" /\ mode' = "live" /\ \E i \in 0..(size - 1), x \in mine : Replaces(i, x)
    <2> PICK i \in 0..(size - 1), x \in mine : Replaces(i, x)
        BY <1>4
    <2>1. t = [s EXCEPT ![i + 1] = x]
        <3>1. t = [j \in 1..size |-> memory'[j]]
            BY <1>1, <1>4 DEF Replaces
        <3>2. ASSUME NEW j \in 1..size
              PROVE  memory'[j] = IF j = i + 1 THEN x ELSE s[j]
            BY <1>1, <1>4 DEF Replaces
        <3> QED BY <1>1, <1>4, <3>1, <3>2
    <2>2. x \in Items
        BY DEF ListInv, ListTypeOK
    <2>3. ListAsSeries!Replace
        BY <1>1, <1>4, <2>1, <2>2 DEF s, t, ListAsSeries!Replace
    <2> QED BY <2>3 DEF ListAsSeries!SNext
<1>5. CASE EmptiesList
    <2>1. t = <<>>
        <3>1. CASE mode' = "dropped"
            BY <3>1 DEF t, ListContents
        <3>2. CASE mode' # "dropped"
            BY <1>1, <1>5, <3>2 DEF EmptiesList
        <3> QED BY <3>1, <3>2
    <2> QED BY <2>1 DEF t, ListAsSeries!SNext, ListAsSeries!Empty
<1>6. CASE mode # "dropped" /\ KeepsElements
    <2>1. mode' # "dropped" /\ size' = size /\ \A j \in 1..size : memory'[j] = s[j]
        BY <1>1, <1>6 DEF KeepsElements
    <2>2. t = s
        BY <1>1, <1>6, <2>1
    <2> QED BY <2>2 DEF s, t
<1>7. CASE UNCHANGED listVars
    BY <1>7 DEF listVars, ListContents, Contents
<1> QED
    BY <1>2, <1>3, <1>4, <1>5, <1>6, <1>7 DEF ListKinds, Changes

\* Every step of the descriptor and its block puts one item in, takes one out,
\* replaces one or all, or leaves the sequence they stand for alone.
THEOREM ListImplementsSeries == ListSpec => BehavesLikeSeries
<1>1. ListInv => ListContents \in Seq(Items)
    BY ContentsShown DEF Shown
<1>2. ListInv /\ ListInv' /\ [ListNext]_listVars => [ListAsSeries!SNext]_ListContents
    BY ListShows, ListStepKinds
<1> QED
    BY <1>1, <1>2, ListBegins, ListStep, PTL DEF ListSpec, BehavesLikeSeries, ListAsSeries!SSpec

----------------------------------------------------------------------------
(***************************************************************************)
(* Sets.                                                                   *)
(***************************************************************************)

\* A vector has the elements of a set, each once, and as many as there are.
Enumerates(s, M) ==
    /\ s \in Seq(Texts)
    /\ {s[i] : i \in DOMAIN s} = M
    /\ \A i, j \in DOMAIN s : s[i] = s[j] => i = j
    /\ IsFiniteSet(M) /\ Cardinality(M) = Len(s)

SetInv ==
    /\ SetTypeOK
    /\ Enumerates(sequence, members)
    /\ standing # "dropped" => count = Len(sequence)
    /\ members # {} => stored

----------------------------------------------------------------------------
(* The vector.                                                              *)

LEMMA NothingEnumerated == Enumerates(<<>>, {})
    BY FS_EmptySet DEF Enumerates

LEMMA PushedEnumerates ==
    ASSUME Enumerates(sequence, members), NEW e \in Texts
    PROVE  Enumerates(Pushed(e), members \cup {e})
<1>1. CASE e \in members
    <2>1. members \cup {e} = members
        BY <1>1
    <2> QED BY <1>1, <2>1 DEF Pushed
<1>2. CASE e \notin members
    <2> DEFINE n == Len(sequence)
               o == Append(sequence, e)
    <2>1. /\ sequence \in Seq(Texts) /\ n \in Nat /\ DOMAIN sequence = 1..n
          /\ {sequence[i] : i \in 1..n} = members
          /\ \A i, j \in 1..n : sequence[i] = sequence[j] => i = j
        BY DEF Enumerates
    <2>2. IsFiniteSet(members \cup {e}) /\ Cardinality(members \cup {e}) = n + 1
        BY <1>2, FS_AddElement DEF Enumerates
    <2>3. /\ o \in Seq(Texts) /\ Len(o) = n + 1 /\ DOMAIN o = 1..(n + 1)
          /\ (\A i \in 1..n : o[i] = sequence[i]) /\ o[n + 1] = e
        BY <2>1
    <2>4. Pushed(e) = o
        BY <1>2 DEF Pushed
    <2> HIDE DEF o, n
    <2>5. \A i \in 1..(n + 1) : i \in 1..n \/ i = n + 1
        BY <2>1
    <2>6. n + 1 \in 1..(n + 1) /\ 1..n \subseteq 1..(n + 1)
        BY <2>1
    <2>7. {o[i] : i \in DOMAIN o} = members \cup {e}
        BY <2>1, <2>3, <2>5, <2>6
    <2>8. \A i \in 1..n : o[i] # e
        BY <1>2, <2>1, <2>3
    <2>9. ASSUME NEW i \in DOMAIN o, NEW j \in DOMAIN o, o[i] = o[j] PROVE i = j
        BY <2>1, <2>3, <2>5, <2>8, <2>9
    <2> QED BY <2>2, <2>3, <2>4, <2>7, <2>9 DEF Enumerates
<1> QED
    BY <1>1, <1>2

LEMMA RetainedEnumerates ==
    ASSUME Enumerates(sequence, members), NEW e \in Texts
    PROVE  Enumerates(RetainedElements(e), members \ {e})
<1>1. CASE e \notin members
    <2>1. members \ {e} = members
        BY <1>1
    <2> QED BY <1>1, <2>1 DEF RetainedElements
<1>2. CASE e \in members
    <2> DEFINE n == Len(sequence)
               p == At(e)
               o == RetainedElements(e)
               from(i) == IF i < p THEN i ELSE i + 1
    <2>1. /\ sequence \in Seq(Texts) /\ n \in Nat /\ DOMAIN sequence = 1..n
          /\ {sequence[i] : i \in 1..n} = members
          /\ \A i, j \in 1..n : sequence[i] = sequence[j] => i = j
        BY DEF Enumerates
    <2>2. p \in 1..n /\ sequence[p] = e
        <3>1. \E i \in DOMAIN sequence : sequence[i] = e
            BY <1>2, <2>1
        <3> QED BY <2>1, <3>1 DEF At
    <2>3. n - 1 \in Nat /\ p \in Nat
        BY <2>1, <2>2
    <2>4. IsFiniteSet(members \ {e}) /\ Cardinality(members \ {e}) = n - 1
        BY <1>2, FS_RemoveElement DEF Enumerates
    <2>5. o = [i \in 1..(n - 1) |-> IF i < p THEN sequence[i] ELSE sequence[i + 1]]
        BY <1>2 DEF RetainedElements
    <2> HIDE DEF n, p, o
    <2>6. \A i \in 1..(n - 1) : o[i] = sequence[from(i)] /\ from(i) \in 1..n /\ from(i) # p
        BY <2>1, <2>2, <2>3, <2>5
    <2>7. \A j \in 1..n : j # p => \E i \in 1..(n - 1) : from(i) = j
        <3> SUFFICES ASSUME NEW j \in 1..n, j # p PROVE \E i \in 1..(n - 1) : from(i) = j
            OBVIOUS
        <3>1. CASE j < p
            <4>1. j \in 1..(n - 1) /\ from(j) = j
                BY <2>1, <2>2, <2>3, <3>1
            <4> QED BY <4>1
        <3>2. CASE ~(j < p)
            <4>1. j - 1 \in 1..(n - 1) /\ from(j - 1) = j
                BY <2>1, <2>2, <2>3, <3>2
            <4> QED BY <4>1
        <3> QED BY <3>1, <3>2
    <2>8. \A i, j \in 1..(n - 1) : from(i) = from(j) => i = j
        BY <2>3
    <2> HIDE DEF from
    <2>9. \A i \in 1..n : sequence[i] \in Texts
        BY <2>1 DEF n
    <2>10. o \in [1..(n - 1) -> Texts]
        BY <2>5, <2>6, <2>9
    <2>11. o \in Seq(Texts) /\ Len(o) = n - 1 /\ DOMAIN o = 1..(n - 1)
        BY <2>3, <2>10, SeqDef
    <2>12. {o[i] : i \in DOMAIN o} = members \ {e}
        <3>1. ASSUME NEW i \in 1..(n - 1) PROVE o[i] \in members \ {e}
            BY <2>1, <2>2, <2>6
        <3>2. ASSUME NEW x \in members \ {e} PROVE \E i \in 1..(n - 1) : o[i] = x
            <4>1. PICK j \in 1..n : sequence[j] = x
                BY <2>1
            <4>2. j # p
                BY <2>2, <4>1
            <4>3. PICK i \in 1..(n - 1) : from(i) = j
                BY <2>7, <4>2
            <4> QED BY <2>6, <4>1, <4>3
        <3> QED BY <2>11, <3>1, <3>2
    <2>13. ASSUME NEW i \in DOMAIN o, NEW j \in DOMAIN o, o[i] = o[j] PROVE i = j
        BY <2>1, <2>6, <2>8, <2>11, <2>13
    <2> QED BY <2>4, <2>11, <2>12, <2>13 DEF Enumerates, o
<1> QED
    BY <1>1, <1>2

----------------------------------------------------------------------------
(* The store.                                                               *)

\* Every step replaces the elements by some that are again listed once and
\* brings the descriptor up to date, or leaves them.
StoreKept ==
    /\ members' \in SUBSET Texts
    /\ Enumerates(sequence', members')
    /\ stored' \in BOOLEAN /\ count' \in Nat
    /\ standing' # "dropped" => count' = Len(sequence')
    /\ members' # {} => stored'

LEMMA MembersStep ==
    ASSUME SetInv, [SetNext]_setVars
    PROVE  StoreKept
<1> USE DEF StoreKept, SetInv, SetTypeOK, Up
<1>1. ASSUME NEW e \in Texts, SetInsert(e) PROVE StoreKept
    <2>1. Enumerates(sequence', members')
        BY <1>1, PushedEnumerates DEF SetInsert
    <2>2. Cardinality(members') = Len(sequence') /\ Len(sequence') \in Nat
        BY <2>1 DEF Enumerates
    <2>3. count' = Cardinality(members')
        BY <1>1 DEF SetInsert, Synced
    <2> QED BY <1>1, <2>1, <2>2, <2>3 DEF SetInsert
<1>2. ASSUME NEW e \in Texts, SetDelete(e) PROVE StoreKept
    <2>1. Enumerates(sequence', members')
        BY <1>2, RetainedEnumerates DEF SetDelete
    <2>2. Cardinality(members') = Len(sequence') /\ Len(sequence') \in Nat
        BY <2>1 DEF Enumerates
    <2>3. count' = Cardinality(members')
        BY <1>2 DEF SetDelete, Synced
    <2> QED BY <1>2, <2>1, <2>2, <2>3 DEF SetDelete
<1>3. CASE SetClear \/ SetDrop
    <2>1. members' = {} /\ sequence' = <<>> /\ Len(sequence') = 0
        BY <1>3 DEF SetClear, SetDrop
    <2>2. Enumerates(sequence', members')
        BY <2>1, NothingEnumerated
    <2>3. count' \in Nat /\ stored' \in BOOLEAN /\ (standing' # "dropped" => count' = 0)
        <3>1. CASE SetClear
            BY <3>1 DEF SetClear
        <3>2. CASE SetDrop
            BY <3>2 DEF SetDrop
        <3> QED BY <1>3, <3>1, <3>2
    <2>4. members' \in SUBSET Texts
        BY <2>1
    <2> QED BY <2>1, <2>2, <2>3, <2>4
<1>4. CASE SetReserve
    BY <1>4 DEF SetReserve, Synced, Enumerates
<1>5. CASE SetFail \/ StartTurns \/ EndTurns \/ (\E e \in Texts : Forget(e)) \/ UNCHANGED setVars
    BY <1>5 DEF SetFail, StartTurns, EndTurns, Forget, setVars, setStore
<1>6. CASE Turn
    BY <1>6 DEF Turn, setStore
<1> QED
    BY <1>1, <1>2, <1>3, <1>4, <1>5, <1>6 DEF SetNext

LEMMA TurnStep ==
    ASSUME SetInv, [SetNext]_setVars
    PROVE  turn' \in [at : Nat, count : Nat] \cup {NoTurn}
<1> USE DEF SetInv, SetTypeOK
<1>1. CASE StartTurns
    BY <1>1 DEF StartTurns
<1>2. CASE Turn
    <2>1. turn \in [at : Nat, count : Nat] /\ turn' \in {turn, [turn EXCEPT !.at = @ + 1]}
        BY <1>2 DEF Turn
    <2> QED BY <2>1
<1>3. CASE EndTurns
    BY <1>3 DEF EndTurns
<1>4. CASE \/ SetFail \/ SetClear \/ SetReserve \/ SetDrop
           \/ (\E e \in Texts : SetInsert(e) \/ SetDelete(e) \/ Forget(e)) \/ UNCHANGED setVars
    BY <1>4 DEF SetFail, SetClear, SetReserve, SetDrop, SetInsert, SetDelete, Forget, setVars
<1> QED
    BY <1>1, <1>2, <1>3, <1>4 DEF SetNext

LEMMA StringStep ==
    ASSUME SetInv, [SetNext]_setVars
    PROVE  /\ textual' \in BOOLEAN /\ copies' \in [Texts -> Nat] /\ consumed' \in [Texts -> Nat]
           /\ standing' \in {"live", "dropped", "failed"}
<1> USE DEF SetInv, SetTypeOK
<1>1. standing' \in {"live", "dropped", "failed"}
    BY DEF SetNext, SetInsert, SetDelete, Forget, SetClear, SetReserve, SetFail, SetDrop, StartTurns,
           Turn, EndTurns, setVars
<1>2. ASSUME NEW e \in Texts, copies[e] > 0, Consumed(e)
      PROVE  /\ textual' \in BOOLEAN /\ copies' \in [Texts -> Nat] /\ consumed' \in [Texts -> Nat]
    <2>1. copies[e] - 1 \in Nat /\ consumed[e] + 1 \in Nat
        BY <1>2
    <2> QED BY <1>2, <2>1 DEF Consumed
<1>3. UNCHANGED strings \/ \E e \in Texts : copies[e] > 0 /\ Consumed(e)
    BY DEF SetNext, SetInsert, SetDelete, Forget, SetClear, SetReserve, SetFail, SetDrop, StartTurns,
           Turn, EndTurns, setVars, strings
<1> QED
    BY <1>1, <1>2, <1>3 DEF strings

LEMMA SetBegins == SetInit => SetInv
<1> SUFFICES ASSUME SetInit PROVE SetInv
    OBVIOUS
<1>1. Enumerates(sequence, members) /\ Len(sequence) = 0 /\ sequence \in Seq(Texts)
    BY NothingEnumerated DEF SetInit
<1>2. copies \in [Texts -> Nat] /\ consumed \in [Texts -> Nat]
    BY SetsAssumption DEF SetInit
<1> QED
    BY <1>1, <1>2 DEF SetInit, SetInv, SetTypeOK

LEMMA SetStep == SetInv /\ [SetNext]_setVars => SetInv'
    BY MembersStep, TurnStep, StringStep DEF SetInv, SetTypeOK, StoreKept, Enumerates

\* For any elements: the vector lists the members of the hash set once each and
\* the descriptor has their number, whatever is done to the set.
THEOREM SetCorrect == SetSpec => [](SetTypeOK /\ SequenceMatchesMembers)
<1>1. SetInv => SetTypeOK /\ SequenceMatchesMembers
    BY DEF SetInv, Enumerates, SequenceMatchesMembers
<1> QED
    BY <1>1, SetBegins, SetStep, PTL DEF SetSpec

----------------------------------------------------------------------------
(***************************************************************************)
(* The three side by side.                                                 *)
(* A step of one collection leaves the two others alone.                   *)
(***************************************************************************)

LEMMA CollectionsApart == CollectionsSpec => Spec /\ ListSpec /\ SetSpec
<1>1. CollectionsInit => Init /\ ListInit /\ SetInit
    BY DEF CollectionsInit
<1>2. [CollectionsNext]_allCollections =>
        [Next]_vars /\ [ListNext]_listVars /\ [SetNext]_setVars
    BY DEF CollectionsNext, allCollections
<1> QED
    BY <1>1, <1>2, PTL DEF CollectionsSpec, Spec, ListSpec, SetSpec

\* Whichever collection a behaviour is about, the stores, descriptors and owners
\* of all three keep their types.
THEOREM CollectionsTypeCorrect == CollectionsSpec => []CollectionsTypeOK
    BY CollectionsApart, MapCorrect, ListCorrect, SetCorrect, PTL DEF CollectionsTypeOK
=============================================================================
