--------------------------- MODULE ExecutionProofs ---------------------------
(***************************************************************************)
(* What a body of the admitted shapes does when it runs, proved for every  *)
(* set of roots, every parameter list and bodies of any length.            *)
(*                                                                         *)
(* LoweringProofs gives an accepted body's code a belief at every point,   *)
(* each following from the one before by the instruction between them.     *)
(* Running the code agrees with the belief of the point it is at, so no    *)
(* instruction meets a root whose value is gone, and the cleanup of a      *)
(* departure ends with nothing held and nothing registered.                *)
(***************************************************************************)
EXTENDS LoweringProofs

----------------------------------------------------------------------------
(* Running the code of an accepted body.                                    *)

\* What Lowered promises, for the beliefs B at the points of the code.
Proven(E, B, J, P) ==
    /\ code \in Seq(Instr)
    /\ E \subseteq Bindings /\ UniqueRoots(E) /\ ParamBindings \subseteq E
    /\ Annotated(E, code, B, J, P, Nowhere)
    /\ Agreed(J, P) /\ \A l, b : <<l, b>> \in J => \E c : <<l, c>> \in P

\* The value of f's root is gone once f is processed.
Took(f) == f.kind = "drop" \/ (f.kind = "take" /\ Runs(f))

\* What is believed before the instruction is so; a cleanup under way has
\* processed its entries from the last registered on.
Confirmed(b) ==
    /\ b.class # "nowhere"
    /\ b.class = "ok" => ~err
    /\ DeferredIn(live) = b.calls \ done
    /\ owned = {r \in b.has : \A f \in done : f.root = r => ~Took(f)}
    /\ done # {} => Here.op = "cleanup" /\ done \subseteq Here.first \cup Here.plan
    /\ \A d \in done : \A e \in (Here.first \cup Here.plan) \ done : e.ord < d.ord

Executing(E, B) ==
    /\ pc \in 0..Len(code)
    /\ \A e \in live : Deferred(e) \/ e \in E
    /\ live \cap done = {}
    /\ pc = 0 => owned = {} /\ DeferredIn(live) = {}
    /\ pc # 0 => Confirmed(B[pc])

\* The last registered of finitely many entries, by the least distance from a bound.
LEMMA Latest ==
    ASSUME NEW S, S # {}, \A e \in S : e.ord \in Nat, NEW n \in Nat, \A e \in S : e.ord <= n
    PROVE  \E e \in S : \A f \in S : f.ord <= e.ord
<1> DEFINE D == {k \in Nat : \E e \in S : k = n - e.ord}
<1>1. \A e \in S : n - e.ord \in D
  OBVIOUS
<1>2. D # {} /\ D \in SUBSET Nat
  BY <1>1
<1> HIDE DEF D
<1>3. PICK R : R = OpToRel(<, Nat)
  OBVIOUS
<1>4. PICK k \in D : \A m \in D : ~(<<m, k>> \in R)
  BY <1>2, <1>3, NatLessThanWellFounded, WFMin
<1>5. PICK e \in S : k = n - e.ord
  BY <1>4 DEF D
<1>6. ASSUME NEW f \in S PROVE f.ord <= e.ord
  <2>1. PICK m : m = n - f.ord
    OBVIOUS
  <2>2. m \in D /\ m \in Nat /\ k \in Nat
    BY <1>1, <1>2, <1>4, <2>1
  <2>3. ~(m < k)
    BY <1>3, <1>4, <2>2 DEF OpToRel
  <2> QED
    BY <1>5, <1>6, <2>1, <2>2, <2>3
<1> QED
  BY <1>5, <1>6

\* At an instruction, what it requires is what the run has.
LEMMA AtPoint ==
    ASSUME NEW E, NEW B, NEW J, NEW P, Proven(E, B, J, P), Executing(E, B), pc # 0
    PROVE  /\ pc \in 1..Len(code) /\ Len(code) \in Nat
           /\ Follows(E, B[pc], Here, B[pc + 1]) /\ Confirmed(B[pc])
           /\ Here.op \in Jumps => <<Here.to, B[pc]>> \in J
           /\ B[Len(code) + 1] = Nowhere
<1>1. Annotated(E, code, B, J, P, Nowhere)
  BY DEF Proven
<1>2. pc \in 1..Len(code) /\ Len(code) \in Nat
  BY DEF Executing, Proven
<1> QED
  BY <1>1, <1>2 DEF Annotated, Executing, Here

\* The next point the program runs to.
LEMMA Arrives ==
    ASSUME NEW E, NEW B, NEW J, NEW P, Proven(E, B, J, P), code' = code,
           pc' \in 1..Len(code), done' = {},
           NEW c, c = B[pc'], c.class # "nowhere", c.class = "ok" => ~err',
           owned' = c.has, DeferredIn(live') = c.calls,
           \A e \in live' : Deferred(e) \/ e \in E
    PROVE  Executing(E, B)'
<1>1. pc' \in 0..Len(code') /\ pc' # 0
  OBVIOUS
<1>2. live' \cap done' = {}
  OBVIOUS
<1>3. Confirmed(B[pc])'
  <2>1. owned' = {r \in c.has : \A f \in done' : f.root = r => ~Took(f)'}
    OBVIOUS
  <2>2. DeferredIn(live)' = c.calls \ done'
    BY DEF DeferredIn
  <2> QED
    BY <2>1, <2>2 DEF Confirmed
<1> QED
  BY <1>1, <1>2, <1>3 DEF Executing

\* A run that has what the next point believes goes on to it.
LEMMA ArrivesNext ==
    ASSUME NEW E, NEW B, NEW J, NEW P, Proven(E, B, J, P), Executing(E, B), pc # 0, code' = code,
           pc' = pc + 1, done' = {},
           NEW c, c = B[pc + 1], c.class # "nowhere", c.class = "ok" => ~err',
           owned' = c.has, DeferredIn(live') = c.calls,
           \A e \in live' : Deferred(e) \/ e \in E
    PROVE  Executing(E, B)'
<1>1. pc \in 1..Len(code) /\ Len(code) \in Nat /\ B[Len(code) + 1] = Nowhere
  BY AtPoint
<1>2. pc # Len(code)
  BY <1>1, NowhereIs
<1>3. pc' \in 1..Len(code) /\ c = B[pc']
  BY <1>1, <1>2
<1> QED
  BY <1>3, Arrives

\* The label jumped to is there, and what is believed at the jump is believed
\* there.
LEMMA ArrivesAt ==
    ASSUME NEW E, NEW B, NEW J, NEW P, Proven(E, B, J, P), Executing(E, B), pc # 0, code' = code,
           Here.op \in Jumps, pc' = Target(Here.to), done' = {}, err' = err,
           NEW b, b = B[pc], b.class # "nowhere", b.class = "ok" => ~err,
           owned' = b.has, DeferredIn(live') = b.calls,
           \A e \in live' : Deferred(e) \/ e \in E
    PROVE  Executing(E, B)'
<1>1. <<Here.to, b>> \in J /\ Len(code) \in Nat
  BY AtPoint
<1>2. PICK l, c : l = Here.to /\ <<l, c>> \in P
  BY <1>1 DEF Proven
<1>3. Annotated(E, code, B, J, P, Nowhere) /\ Agreed(J, P)
  BY DEF Proven
<1>4. \E i \in 1..Len(code) : code[i].op = "label" /\ code[i].to = l
  <2>1. \E i \in 1..Len(code) : code[i].op = "label" /\ code[i].to = <<l, c>>[1]
    BY <1>2, <1>3 DEF Annotated
  <2> QED
    BY <2>1
<1>5. DOMAIN code = 1..Len(code)
  BY DEF Proven
<1>6. PICK t : t = Target(l)
  OBVIOUS
<1>7. t \in 1..Len(code) /\ code[t].op = "label" /\ code[t].to = l
  BY <1>4, <1>5, <1>6 DEF Target
<1>8. <<l, B[t]>> \in P
  BY <1>3, <1>7 DEF Annotated
<1>9. B[t] = b
  BY <1>1, <1>2, <1>3, <1>8 DEF Agreed
<1>10. pc' = t /\ b = B[pc']
  BY <1>2, <1>6, <1>9
<1> QED
  BY <1>7, <1>10, Arrives

\* Before a cleanup has processed an entry, the run has what its point believes.
LEMMA Untouched ==
    ASSUME NEW E, NEW B, NEW J, NEW P, Proven(E, B, J, P), Executing(E, B), pc # 0, done = {},
           NEW b, b = B[pc]
    PROVE  /\ b.class # "nowhere" /\ (b.class = "ok" => ~err)
           /\ owned = b.has /\ DeferredIn(live) = b.calls
  BY AtPoint DEF Confirmed

----------------------------------------------------------------------------
(* A cleanup under way.                                                     *)

\* What is still to process is what is due and not done.
LEMMA CleanupIs ==
    ASSUME NEW E, NEW B, NEW J, NEW P, Proven(E, B, J, P), Executing(E, B), pc # 0,
           Here.op = "cleanup", NEW b, b = B[pc], NEW c, c = B[pc + 1]
    PROVE  /\ b \in Belief /\ b.class # "nowhere" /\ (b.class = "ok" => ~err) /\ b.binds \subseteq E
           /\ \E d \in Nat : /\ CleanupIsSafe(b, Here.first, Here.plan, d) /\ c = Left(b, d)
                             /\ Remaining = Due(b, d) \ done /\ done \subseteq Due(b, d)
           /\ DeferredIn(live) = b.calls \ done
           /\ owned = {r \in b.has : \A f \in done : f.root = r => ~Took(f)}
<1>1. Follows(E, b, Here, c) /\ Confirmed(b)
  BY AtPoint
<1>2. PICK d \in Nat : CleanupIsSafe(b, Here.first, Here.plan, d) /\ c = Left(b, d)
  BY <1>1 DEF Follows
<1>3. (Here.first = {} \/ Here.plan = {}) /\ Here.first \cup Here.plan = Due(b, d)
  BY <1>2 DEF CleanupIsSafe
<1>4. Remaining = Due(b, d) \ done
  BY <1>3 DEF Remaining
<1>5. done \subseteq Due(b, d)
  BY <1>1, <1>3 DEF Confirmed
<1> QED
  BY <1>1, <1>2, <1>4, <1>5 DEF Confirmed, Follows

\* The entries a cleanup has to process.
LEMMA DueIs ==
    ASSUME NEW b \in Belief, NEW d \in Nat
    PROVE  \A e \in Due(b, d) :
             /\ e \in Entry /\ e.ord \in Nat /\ e.depth \in Nat /\ e.depth >= d
             /\ e \in b.binds \/ e \in b.calls
             /\ Deferred(e) <=> e \in b.calls
             /\ ~Deferred(e) => e \in b.binds /\ e.root \in b.has /\ e.kind = "drop"
  BY DEF Due, Belief, Bindings, Calls, Entry, Deferred

\* The entry that is processed next was registered last.
LEMMA NextIs ==
    ASSUME NEW E, NEW B, NEW J, NEW P, Proven(E, B, J, P), Executing(E, B), pc # 0,
           Here.op = "cleanup", Remaining # {}, NEW b, b = B[pc],
           NEW d \in Nat, CleanupIsSafe(b, Here.first, Here.plan, d), Remaining = Due(b, d) \ done
    PROVE  /\ NextEntry \in Remaining /\ \A f \in Remaining : f.ord <= NextEntry.ord
           /\ \A f \in Remaining : f # NextEntry => f.ord < NextEntry.ord
           /\ \A f \in done : NextEntry.ord < f.ord
<1>1. b \in Belief /\ Follows(E, b, Here, B[pc + 1]) /\ Confirmed(b)
  <2>1. Follows(E, b, Here, B[pc + 1]) /\ Confirmed(b)
    BY AtPoint
  <2> QED
    BY <2>1 DEF Follows
<1>2. \A e \in Remaining : e.ord \in Nat
  BY <1>1, DueIs
<1>3. PICK n \in Nat : \A e \in Remaining : e.ord <= n
  BY DEF CleanupIsSafe
<1>4. \E e \in Remaining : \A f \in Remaining : f.ord <= e.ord
  <2>1. PICK S : S = Remaining
    OBVIOUS
  <2>2. \E e \in S : \A f \in S : f.ord <= e.ord
    BY <1>2, <1>3, <2>1, Latest
  <2> QED
    BY <2>1, <2>2
<1>5. NextEntry \in Remaining /\ \A f \in Remaining : f.ord <= NextEntry.ord
  BY <1>4 DEF NextEntry
<1>6. ASSUME NEW f \in Remaining, f # NextEntry PROVE f.ord < NextEntry.ord
  <2>1. f \in b.binds \cup b.calls /\ NextEntry \in b.binds \cup b.calls
    BY <1>1, <1>5, DueIs
  <2>2. f.ord # NextEntry.ord
    BY <1>6, <2>1 DEF CleanupIsSafe, Ordered
  <2> QED
    BY <1>2, <1>5, <2>2
<1>7. ASSUME NEW f \in done PROVE NextEntry.ord < f.ord
  <2>1. NextEntry \in (Here.first \cup Here.plan) \ done
    BY <1>5 DEF Remaining
  <2> QED
    BY <1>1, <2>1 DEF Confirmed
<1> QED
  BY <1>5, <1>6, <1>7

\* A call that may run finds its root's value, and a drop that is not disarmed
\* its own.
LEMMA NextOwns ==
    ASSUME NEW E, NEW B, NEW J, NEW P, Proven(E, B, J, P), Executing(E, B), pc # 0,
           Here.op = "cleanup", Remaining # {}
    PROVE  /\ Deferred(NextEntry) /\ Runs(NextEntry) => NextEntry.root \in owned
           /\ ~Deferred(NextEntry) /\ ~Disarmed(NextEntry) => NextEntry.root \in owned
           /\ ~Deferred(NextEntry) => NextEntry \in E
           /\ Deferred(NextEntry) => NextEntry \in live
<1>1. PICK b, c : b = B[pc] /\ c = B[pc + 1]
  OBVIOUS
<1>2. /\ b \in Belief /\ (b.class = "ok" => ~err) /\ b.binds \subseteq E
      /\ DeferredIn(live) = b.calls \ done
      /\ owned = {r \in b.has : \A f \in done : f.root = r => ~Took(f)}
  BY <1>1, CleanupIs
<1>3. PICK d \in Nat : /\ CleanupIsSafe(b, Here.first, Here.plan, d)
                       /\ Remaining = Due(b, d) \ done /\ done \subseteq Due(b, d)
  BY <1>1, CleanupIs
<1>4. PICK e : e = NextEntry
  OBVIOUS
<1>5. e \in Due(b, d) /\ e \notin done /\ \A f \in done : e.ord < f.ord
  BY <1>1, <1>3, <1>4, NextIs
<1>6. \A x \in Due(b, d) : /\ x \in Entry /\ x.ord \in Nat /\ x.depth \in Nat /\ x.depth >= d
                           /\ x \in b.binds \/ x \in b.calls
                           /\ Deferred(x) <=> x \in b.calls
                           /\ ~Deferred(x) => x \in b.binds /\ x.root \in b.has /\ x.kind = "drop"
  BY <1>2, DueIs
<1>7. \A x \in Due(b, d) : Runs(x) => MayRun(b, x)
  BY <1>2, <1>6 DEF Runs, MayRun, Entry
<1>8. ASSUME Deferred(e), Runs(e) PROVE e.root \in owned
  <2>1. CallIsSafe(b, d, e)
    BY <1>3, <1>5, <1>7, <1>8 DEF CleanupIsSafe
  <2>2. ASSUME NEW f \in done, f.root = e.root, Took(f) PROVE FALSE
    <3>1. f \in Due(b, d) /\ e.ord < f.ord /\ e.ord \in Nat /\ f.ord \in Nat
      BY <1>3, <1>5, <1>6
    <3>2. CASE f.kind = "drop"
      <4>1. f \in b.binds
        BY <1>6, <3>1, <3>2 DEF Deferred
      <4>2. f.ord < e.ord
        BY <2>1, <2>2, <4>1 DEF CallIsSafe
      <4> QED
        BY <3>1, <4>2
    <3>3. CASE f.kind = "take" /\ Runs(f)
      <4>1. MayRun(b, f)
        BY <1>7, <3>1, <3>3
      <4>2. ~(f.ord > e.ord)
        BY <2>1, <2>2, <3>1, <3>3, <4>1 DEF CallIsSafe
      <4> QED
        BY <3>1, <4>2
    <3> QED
      BY <2>2, <3>2, <3>3 DEF Took
  <2>3. e.root \in b.has
    BY <2>1 DEF CallIsSafe
  <2> QED
    BY <1>2, <2>2, <2>3
<1>9. ASSUME ~Deferred(e), ~Disarmed(e) PROVE e.root \in owned
  <2>1. ASSUME NEW f \in done, f.root = e.root, Took(f) PROVE FALSE
    <3>1. f \in Due(b, d)
      BY <1>3
    <3>2. CASE f.kind = "drop"
      <4>1. f \in E /\ e \in E
        BY <1>2, <1>5, <1>6, <1>9, <3>1, <3>2 DEF Deferred
      <4>2. f = e
        BY <2>1, <4>1 DEF Proven, UniqueRoots
      <4> QED
        BY <1>5, <4>2
    <3>3. CASE f.kind = "take" /\ Runs(f)
      BY <1>9, <2>1, <3>3 DEF Disarmed
    <3> QED
      BY <2>1, <3>2, <3>3 DEF Took
  <2> QED
    BY <1>2, <1>5, <1>6, <1>9, <2>1
<1>10. (~Deferred(e) => e \in E) /\ (Deferred(e) => e \in live)
  BY <1>2, <1>5, <1>6 DEF DeferredIn
<1> QED
  BY <1>4, <1>8, <1>9, <1>10

\* A cleanup that processes one entry stays on the beliefs.
LEMMA EntryRuns ==
    ASSUME NEW E, NEW B, NEW J, NEW P, Proven(E, B, J, P), Executing(E, B), code' = code,
           CleanupEntry
    PROVE  Executing(E, B)'
<1>1. PICK b, c, e : b = B[pc] /\ c = B[pc + 1] /\ e = NextEntry
  OBVIOUS
<1>2. /\ pc # 0 /\ Here.op = "cleanup" /\ Remaining # {}
      /\ owned' = IF (e.kind = "drop" /\ ~Disarmed(e)) \/ (e.kind = "take" /\ Runs(e))
                  THEN owned \ {e.root} ELSE owned
      /\ live' = live \ {e} /\ done' = done \cup {e} /\ pc' = pc /\ err' = err
  BY <1>1 DEF CleanupEntry, At, Running
<1>3. /\ b \in Belief /\ b.class # "nowhere" /\ (b.class = "ok" => ~err)
      /\ DeferredIn(live) = b.calls \ done
      /\ owned = {r \in b.has : \A f \in done : f.root = r => ~Took(f)}
  BY <1>1, <1>2, CleanupIs
<1>4. PICK d \in Nat : /\ CleanupIsSafe(b, Here.first, Here.plan, d)
                       /\ Remaining = Due(b, d) \ done /\ done \subseteq Due(b, d)
  BY <1>1, <1>2, CleanupIs
<1>5. /\ e \in Remaining /\ \A f \in Remaining : f # e => f.ord < e.ord
  BY <1>1, <1>2, <1>4, NextIs
<1>6. Here' = Here /\ \A f : Took(f)' <=> Took(f)
  BY <1>2 DEF Here, Took, Runs
<1>7. owned' = {r \in b.has : \A f \in done' : f.root = r => ~Took(f)}
  <2>1. CASE e.kind = "drop" /\ Disarmed(e)
    <3>1. Took(e) /\ e.root \notin owned
      BY <1>3, <2>1 DEF Took, Disarmed
    <3>2. e.kind # "take"
      BY <2>1
    <3>3. owned' = owned
      BY <1>2, <2>1, <3>2
    <3> QED
      BY <1>2, <1>3, <3>1, <3>3
  <2>2. CASE e.kind = "drop" /\ ~Disarmed(e)
    <3>1. Took(e) /\ owned' = owned \ {e.root}
      BY <1>2, <2>2 DEF Took
    <3> QED
      BY <1>2, <1>3, <3>1
  <2>3. CASE e.kind = "take" /\ Runs(e)
    <3>1. Took(e) /\ owned' = owned \ {e.root}
      BY <1>2, <2>3 DEF Took
    <3> QED
      BY <1>2, <1>3, <3>1
  <2>4. CASE e.kind # "drop" /\ ~(e.kind = "take" /\ Runs(e))
    <3>1. ~Took(e) /\ owned' = owned
      BY <1>2, <2>4 DEF Took
    <3> QED
      BY <1>2, <1>3, <3>1
  <2> QED
    BY <2>1, <2>2, <2>3, <2>4
<1>8. DeferredIn(live') = b.calls \ done'
  BY <1>2, <1>3 DEF DeferredIn
<1>9. /\ done \subseteq Here.first \cup Here.plan
      /\ \A x \in done : \A y \in (Here.first \cup Here.plan) \ done : y.ord < x.ord
  BY <1>1, <1>2, AtPoint DEF Confirmed
<1>10. Here.first \cup Here.plan = Due(b, d)
  BY <1>4 DEF CleanupIsSafe
<1>11. \A x \in done' : \A y \in (Here.first \cup Here.plan) \ done' : y.ord < x.ord
  <2> SUFFICES ASSUME NEW x \in done', NEW y \in (Here.first \cup Here.plan) \ done'
               PROVE  y.ord < x.ord
    OBVIOUS
  <2>1. y \in (Here.first \cup Here.plan) \ done /\ y \in Remaining /\ y # e
    BY <1>2, <1>4, <1>10
  <2> QED
    BY <1>2, <1>5, <1>9, <2>1
<1>12. done' \subseteq Here.first \cup Here.plan
  BY <1>2, <1>4, <1>5, <1>9, <1>10
<1>13. Confirmed(B[pc])'
  <2>1. owned' = {r \in b.has : \A f \in done' : f.root = r => ~Took(f)'}
    BY <1>6, <1>7
  <2>2. b.class = "ok" => ~err'
    BY <1>2, <1>3
  <2>3. B[pc'] = b
    BY <1>1, <1>2
  <2>4. DeferredIn(live)' = b.calls \ done'
    BY <1>8 DEF DeferredIn
  <2> QED
    BY <1>2, <1>3, <1>6, <1>11, <1>12, <2>1, <2>2, <2>3, <2>4 DEF Confirmed
<1>14. pc' \in 0..Len(code') /\ pc' # 0 /\ live' \cap done' = {} /\ \A x \in live' : Deferred(x) \/ x \in E
  BY <1>2 DEF Executing
<1> QED
  BY <1>13, <1>14 DEF Executing

\* A cleanup that is done arrives at the next point.
LEMMA CleanupEnds ==
    ASSUME NEW E, NEW B, NEW J, NEW P, Proven(E, B, J, P), Executing(E, B), code' = code,
           CleanupEnd
    PROVE  Executing(E, B)'
<1>1. PICK b, c : b = B[pc] /\ c = B[pc + 1]
  OBVIOUS
<1>2. /\ pc # 0 /\ Here.op = "cleanup" /\ Remaining = {}
      /\ owned' = owned /\ live' = live /\ done' = {} /\ pc' = pc + 1 /\ err' = err
  BY DEF CleanupEnd, At, Running, Continue
<1>3. /\ b \in Belief /\ b.class # "nowhere" /\ (b.class = "ok" => ~err) /\ b.binds \subseteq E
      /\ DeferredIn(live) = b.calls \ done
      /\ owned = {r \in b.has : \A f \in done : f.root = r => ~Took(f)}
  BY <1>1, <1>2, CleanupIs
<1>4. PICK d \in Nat : /\ CleanupIsSafe(b, Here.first, Here.plan, d) /\ c = Left(b, d)
                       /\ Remaining = Due(b, d) \ done /\ done \subseteq Due(b, d)
  BY <1>1, <1>2, CleanupIs
<1>5. done = Due(b, d)
  BY <1>2, <1>4
<1>6. \A x \in Due(b, d) : /\ x \in Entry /\ x.depth \in Nat /\ x.depth >= d
                           /\ x \in b.binds \/ x \in b.calls
                           /\ Deferred(x) <=> x \in b.calls
                           /\ ~Deferred(x) => x \in b.binds /\ x.root \in b.has /\ x.kind = "drop"
  BY <1>3, DueIs
<1>7. /\ c.has = {x.root : x \in {y \in b.binds : y.depth < d /\ y.root \in b.has}}
      /\ c.calls = Outer(d, b.calls) /\ c.class = b.class
  BY <1>4 DEF Left
<1>8. \A x \in b.binds \cup b.calls : x \in Entry /\ x.depth \in Nat /\ (x \in b.calls => Deferred(x))
                                        /\ (x \in b.binds => ~Deferred(x) /\ x.kind = "drop")
  BY <1>3 DEF Belief, Bindings, Calls, Entry, Deferred
<1>9. DeferredIn(live') = c.calls
  <2>1. ASSUME NEW x \in b.calls PROVE x \in done <=> x.depth >= d
    <3>1. x.depth >= d => x \in Due(b, d)
      BY DEF Due
    <3> QED
      BY <1>5, <1>6, <3>1
  <2>2. b.calls \ done = Outer(d, b.calls)
    BY <1>8, <2>1 DEF Outer
  <2> QED
    BY <1>2, <1>3, <1>7, <2>2
<1>10. owned' = c.has
  <2>1. ASSUME NEW r \in owned PROVE r \in c.has
    <3>1. r \in b.has /\ \A f \in done : f.root = r => ~Took(f)
      BY <1>3
    <3>2. PICK x \in b.binds : x.root = r
      BY <1>4, <3>1 DEF CleanupIsSafe
    <3>3. x \notin Due(b, d)
      BY <1>5, <1>8, <3>1, <3>2 DEF Took
    <3>4. x.depth < d
      BY <1>8, <3>1, <3>2, <3>3 DEF Due
    <3> QED
      BY <1>7, <3>1, <3>2, <3>4
  <2>2. ASSUME NEW r \in c.has PROVE r \in owned
    <3>1. PICK x \in b.binds : x.root = r /\ x.depth < d /\ r \in b.has
      BY <1>7
    <3>2. ASSUME NEW f \in done, f.root = r, Took(f) PROVE FALSE
      <4>1. f \in Due(b, d) /\ f.depth >= d /\ f.depth \in Nat /\ x.depth \in Nat /\ f \in Entry
        BY <1>5, <1>6, <1>8
      <4>2. CASE f.kind = "drop"
        <5>1. f \in b.binds
          BY <1>6, <4>1, <4>2 DEF Deferred
        <5>2. f = x
          BY <1>3, <3>1, <3>2, <5>1 DEF Proven, UniqueRoots
        <5> QED
          BY <3>1, <4>1, <5>2
      <4>3. CASE f.kind = "take" /\ Runs(f)
        <5>1. MayRun(b, f)
          BY <1>3, <4>1, <4>3 DEF Runs, MayRun, Entry
        <5>2. CallIsSafe(b, d, f)
          BY <1>4, <4>1, <4>3, <5>1 DEF CleanupIsSafe, Deferred
        <5>3. x.depth >= d
          BY <3>1, <3>2, <4>3, <5>2 DEF CallIsSafe
        <5> QED
          BY <3>1, <4>1, <5>3
      <4> QED
        BY <3>2, <4>2, <4>3 DEF Took
    <3> QED
      BY <1>3, <3>1, <3>2
  <2> QED
    BY <1>2, <2>1, <2>2
<1>11. c.class # "nowhere" /\ (c.class = "ok" => ~err')
  BY <1>2, <1>3, <1>7
<1>12. \A e \in live' : Deferred(e) \/ e \in E
  BY <1>2 DEF Executing
<1> QED
  BY <1>1, <1>2, <1>9, <1>10, <1>11, <1>12, ArrivesNext

\* Every other instruction arrives at its next point.
LEMMA StepRuns ==
    ASSUME NEW E, NEW B, NEW J, NEW P, Proven(E, B, J, P), Executing(E, B), code' = code,
           \/ Store \/ Consume \/ Access \/ Register \/ Branch \/ Goto \/ Materialise \/ Return
    PROVE  Executing(E, B)'
<1>1. PICK b, c : b = B[pc] /\ c = B[pc + 1]
  OBVIOUS
<1>2. /\ pc # 0 /\ done' = done
      /\ Here.op \in {"store", "take", "drop", "use", "borrow", "label", "arm", "branch", "goto", "break",
                      "result", "ret"}
  BY DEF Store, Consume, Access, Register, Branch, Goto, Materialise, Return, At, Running
<1>3. Follows(E, b, Here, c) /\ Confirmed(b) /\ pc \in 1..Len(code) /\ Len(code) \in Nat
  BY <1>1, <1>2, AtPoint
<1>4. done = {} /\ done' = {}
  BY <1>2, <1>3 DEF Confirmed
<1>5. /\ b.class # "nowhere" /\ (b.class = "ok" => ~err)
      /\ owned = b.has /\ DeferredIn(live) = b.calls
  BY <1>1, <1>2, <1>4, Untouched
<1>6. b \in Belief /\ c \in Belief
  BY <1>3 DEF Follows
<1>7. \A e \in live : Deferred(e) \/ e \in E
  BY DEF Executing
<1>8. CASE Store \/ Consume \/ Access
  <2>1. /\ pc' = pc + 1 /\ err' = err /\ live' = live
        /\ Here.op \in {"store", "take", "drop", "use", "borrow", "label"}
        /\ owned' = IF Here.op = "store" THEN owned \cup {Here.root}
                    ELSE IF Here.op \in {"take", "drop"} THEN owned \ {Here.root} ELSE owned
    BY <1>8 DEF Store, Consume, Access, At, Continue
  <2>2. \/ Here.op = "store" /\ c = Having(b, b.has \cup {Here.root})
        \/ Here.op \in {"take", "drop"} /\ c = Having(b, b.has \ {Here.root})
        \/ Here.op \in {"use", "borrow", "label"} /\ c = b
    BY <1>3, <2>1 DEF Follows
  <2>3. c.has = owned' /\ c.calls = b.calls /\ c.class = b.class
    BY <1>5, <2>1, <2>2 DEF Having
  <2> QED
    BY <1>1, <1>2, <1>4, <1>5, <1>7, <2>1, <2>3, ArrivesNext
<1>9. CASE Register
  <2>1. /\ pc' = pc + 1 /\ err' = err /\ live' = live \cup {Here.entry} /\ owned' = owned
        /\ Here.op = "arm"
    BY <1>9 DEF Register, At, Continue
  <2>2. \/ Here.entry \in E /\ c = Binding(b, Here.entry)
        \/ Here.entry \in Calls /\ c = Calling(b, Here.entry)
    BY <1>3, <2>1 DEF Follows
  <2>3. c.has = owned' /\ c.class = b.class
    BY <1>5, <2>1, <2>2 DEF Binding, Calling
  <2>4. DeferredIn(live') = c.calls /\ \A e \in live' : Deferred(e) \/ e \in E
    <3>1. CASE Here.entry \in E /\ c = Binding(b, Here.entry)
      <4>1. ~Deferred(Here.entry) /\ c.calls = b.calls
        BY <3>1 DEF Proven, Bindings, Binding
      <4> QED
        BY <1>5, <1>7, <2>1, <3>1, <4>1 DEF DeferredIn
    <3>2. CASE Here.entry \in Calls /\ c = Calling(b, Here.entry)
      <4>1. Deferred(Here.entry) /\ c.calls = b.calls \cup {Here.entry}
        BY <3>2 DEF Calls, Calling
      <4> QED
        BY <1>5, <1>7, <2>1, <4>1 DEF DeferredIn
    <3> QED
      BY <2>2, <3>1, <3>2
  <2> QED
    BY <1>1, <1>2, <1>4, <1>5, <2>1, <2>3, <2>4, ArrivesNext
<1>10. CASE Branch \/ Goto
  <2>1. /\ err' = err /\ live' = live /\ owned' = owned /\ Here.op \in Jumps
        /\ pc' = Target(Here.to) \/ (Here.op = "branch" /\ pc' = pc + 1)
    BY <1>10 DEF Branch, Goto, At, Jumps
  <2>2. CASE pc' = Target(Here.to)
    BY <1>1, <1>2, <1>4, <1>5, <1>7, <2>1, <2>2, ArrivesAt
  <2>3. CASE Here.op = "branch" /\ pc' = pc + 1
    <3>1. c = b
      BY <1>3, <2>3 DEF Follows
    <3> QED
      BY <1>1, <1>2, <1>4, <1>5, <1>7, <2>1, <2>3, <3>1, ArrivesNext
  <2> QED
    BY <2>1, <2>2, <2>3
<1>11. CASE Materialise
  <2>1. /\ pc' = pc + 1 /\ live' = live /\ owned' = owned /\ Here.op = "result"
        /\ Here.class = "ok" => err' = FALSE
    BY <1>11 DEF Materialise, At, Continue
  <2>2. Here.class \in ExitClass /\ c = Giving(b, Here.class)
    BY <1>3, <2>1 DEF Follows
  <2>3. c.has = owned' /\ c.calls = b.calls /\ c.class = Here.class
    BY <1>5, <2>1, <2>2 DEF Giving
  <2>4. c.class # "nowhere" /\ (c.class = "ok" => ~err')
    BY <2>1, <2>2, <2>3 DEF ExitClass
  <2> QED
    BY <1>1, <1>2, <1>4, <1>5, <1>7, <2>1, <2>3, <2>4, ArrivesNext
<1>12. CASE Return
  <2>1. pc' = 0 /\ live' = live /\ owned' = owned /\ Here.op = "ret"
    BY <1>12 DEF Return, At
  <2>2. b.has = {} /\ b.calls = {}
    BY <1>3, <2>1 DEF Follows
  <2>3. pc' \in 0..Len(code') /\ live' \cap done' = {} /\ owned' = {} /\ DeferredIn(live)' = {}
    BY <1>3, <1>4, <1>5, <2>1, <2>2 DEF DeferredIn
  <2> QED
    BY <1>7, <2>1, <2>3 DEF Executing
<1> QED
  BY <1>8, <1>9, <1>10, <1>11, <1>12

----------------------------------------------------------------------------
(* Every program.                                                           *)

Runnable == \E E, B, J, P : Proven(E, B, J, P) /\ Executing(E, B)

\* A lowered body starts on its beliefs.
LEMMA Starts == Lowered /\ code \in Seq(Instr) /\ ExecInit => Runnable
<1> SUFFICES ASSUME Lowered, code \in Seq(Instr), ExecInit PROVE Runnable
  OBVIOUS
<1>1. PICK E, B, J, P : Proven(E, B, J, P)
  BY DEF Lowered, Flow, Proven
<1>2. /\ pc = 1 /\ owned = Params /\ ~err /\ live = ParamBindings /\ done = {}
  BY DEF ExecInit
<1>3. /\ B[1] = Start /\ B[Len(code) + 1] = Nowhere /\ Len(code) \in Nat
  BY <1>1 DEF Proven, Annotated
<1>4. /\ Start.class = "ok" /\ Start.calls = {} /\ Start.has = RootsOf(ParamBindings)
  BY DEF Start, Holding, RootsOf
<1>5. pc \in 0..Len(code)
  <2>1. Len(code) # 0
    BY <1>3, <1>4, NowhereIs
  <2> QED
    BY <1>2, <1>3, <2>1
<1>6. RootsOf(ParamBindings) = Params
  <2>1. \A i \in DOMAIN ParamOrder : DropOf(ParamOrder[i], 0, i).root = ParamOrder[i]
    BY DEF DropOf
  <2>2. \A e \in ParamBindings : \E i \in DOMAIN ParamOrder : e = DropOf(ParamOrder[i], 0, i)
    BY DEF ParamBindings
  <2>3. \A i \in DOMAIN ParamOrder : DropOf(ParamOrder[i], 0, i) \in ParamBindings
    BY DEF ParamBindings
  <2>4. RootsOf(ParamBindings) = {ParamOrder[i] : i \in DOMAIN ParamOrder}
    BY <2>1, <2>2, <2>3 DEF RootsOf
  <2> QED
    BY <2>4, RootsAssumption
<1>7. \A e \in live : ~Deferred(e) /\ e \in E
  BY <1>1, <1>2 DEF Proven, Bindings
<1>8. Confirmed(B[pc])
  <2>1. DeferredIn(live) = {}
    BY <1>7 DEF DeferredIn
  <2> QED
    BY <1>2, <1>3, <1>4, <1>6, <2>1 DEF Confirmed
<1>9. Executing(E, B)
  BY <1>2, <1>5, <1>7, <1>8 DEF Executing
<1> QED
  BY <1>1, <1>9 DEF Runnable

\* A run stays on them.
LEMMA RunsOn ==
    ASSUME Runnable, verdict = "accepted", ExecNext
    PROVE  Runnable'
<1>1. PICK E, B, J, P : Proven(E, B, J, P) /\ Executing(E, B)
  BY DEF Runnable
<1>2. code' = code
  BY DEF ExecNext, vars
<1>3. Executing(E, B)'
  BY <1>1, <1>2, EntryRuns, CleanupEnds, StepRuns DEF ExecNext
<1>4. Proven(E, B, J, P)'
  BY <1>1, <1>2 DEF Proven
<1> QED
  BY <1>3, <1>4 DEF Runnable

\* A body is being checked, or has been refused, or runs as its beliefs say.
ProgramInv ==
    /\ verdict = "checking" => CheckInv /\ GhostInv
    /\ verdict # "accepted" => ExecInit
    /\ verdict = "accepted" => Runnable

\* The invariant of checking and running holds at the start.
LEMMA ProgramStarts == ProgInit => ProgramInv
<1> SUFFICES ASSUME ProgInit PROVE ProgramInv
  OBVIOUS
<1>1. Init /\ ExecInit /\ verdict = "checking"
  BY DEF ProgInit, Init
<1> QED
  BY <1>1, CheckStart, GhostStart DEF ProgramInv

\* A checking step is taken only while checking.
LEMMA ChecksOnly ==
    ASSUME Shapes = {}, ProgNext
    PROVE  verdict = "checking"
<1>1. Admitted => verdict = "checking"
  BY DEF Admitted, Let, Assign, Use, Take, Borrow, CheckDefer, CheckReturnOnError, CheckReturn,
         ElseIf, Else, OpenIf, OpenWhile, OpenFor, EndIf, CloseLoop, EndBody, Element, InsideOf
<1> QED
  BY <1>1, StepIsAdmitted

\* Checking invariants survive steps that leave the checker alone.
LEMMA CheckKept ==
    ASSUME CheckInv, GhostInv, UNCHANGED vars
    PROVE  CheckInv' /\ GhostInv'
<1>1. TypeInv' /\ ScopeInv'
  BY StepType, ScopeStep DEF CheckInv
<1>2. /\ env' = env /\ declared' = declared /\ moved' = moved /\ cleanup' = cleanup
      /\ frames' = frames /\ clock' = clock /\ code' = code /\ verdict' = verdict /\ Depth' = Depth
  BY DEF vars, Depth
<1>3. NamesInv'
  BY <1>2 DEF CheckInv, NamesInv, InScope
<1>4. CallsInv'
  BY <1>2 DEF CheckInv, CallsInv
<1>5. FrameInv'
  BY <1>2 DEF CheckInv, FrameInv
<1>6. GhostInv'
  BY <1>2 DEF GhostInv, Ghost
<1> QED
  BY <1>1, <1>3, <1>4, <1>5, <1>6 DEF CheckInv

\* So does the run.
LEMMA RunKept ==
    ASSUME Runnable, UNCHANGED <<vars, exec>>
    PROVE  Runnable'
<1>1. PICK E, B, J, P : Proven(E, B, J, P) /\ Executing(E, B)
  BY DEF Runnable
<1>2. /\ code' = code /\ pc' = pc /\ owned' = owned /\ err' = err /\ live' = live /\ done' = done
      /\ Here' = Here
  BY DEF vars, exec, Here
<1>3. Proven(E, B, J, P)'
  BY <1>1, <1>2 DEF Proven
<1>4. Executing(E, B)'
  BY <1>1, <1>2 DEF Executing, Confirmed, DeferredIn, Took, Runs
<1> QED
  BY <1>3, <1>4 DEF Runnable

\* The invariant of checking and running is inductive.
LEMMA ProgramStep ==
    ASSUME Shapes = {}
    PROVE  ProgramInv /\ [ProgramNext]_progVars => ProgramInv'
<1> SUFFICES ASSUME ProgramInv, [ProgramNext]_progVars PROVE ProgramInv'
  OBVIOUS
<1>1. CASE CheckStep
  <2>1. verdict = "checking" /\ ProgNext /\ exec' = exec
    BY <1>1, ChecksOnly DEF CheckStep
  <2>2. ExecInit'
    BY <2>1 DEF ProgramInv, ExecInit, exec
  <2>3. /\ verdict' = "checking" => CheckInv' /\ GhostInv'
        /\ verdict' = "accepted" => Lowered' /\ code' \in Seq(Instr)
    BY <2>1, CheckedStep DEF ProgramInv
  <2>4. (Lowered /\ code \in Seq(Instr) /\ ExecInit => Runnable)'
    BY Starts, PTL
  <2> QED
    BY <2>2, <2>3, <2>4 DEF ProgramInv
<1>2. CASE ExecNext
  <2>1. verdict = "accepted" /\ verdict' = verdict
    BY <1>2 DEF ExecNext, Store, Consume, Access, Register, Branch, Goto, Materialise, CleanupEntry,
                CleanupEnd, Return, At, Running, vars
  <2> QED
    BY <1>2, <2>1, RunsOn DEF ProgramInv
<1>3. CASE Finished \/ UNCHANGED progVars
  <2>1. UNCHANGED <<vars, exec>> /\ verdict' = verdict /\ UNCHANGED vars
    BY <1>3 DEF Finished, progVars, allVars, vars
  <2>2. ExecInit => ExecInit'
    BY <2>1 DEF ExecInit, exec
  <2> QED
    BY <2>1, <2>2, CheckKept, RunKept DEF ProgramInv
<1> QED
  BY <1>1, <1>2, <1>3 DEF ProgramNext

\* On its beliefs a run uses, destroys and leaves behind what it should.
LEMMA RunsSafely ==
    ASSUME ProgramInv
    PROVE  /\ NoUseAfterMove /\ NoDoubleDrop /\ NoLeak /\ AvailabilityIsSound
           /\ DefersProcessedOnce
<1>1. CASE ~(verdict = "accepted" /\ pc # 0) /\ ~Returned
  BY <1>1 DEF NoUseAfterMove, Needed, NoDoubleDrop, Destroyed, NoLeak, AvailabilityIsSound,
              DefersProcessedOnce, Processing, At, Running
<1>2. CASE Returned
  <2>1. PICK E, B, J, P : Proven(E, B, J, P) /\ Executing(E, B)
    BY <1>2 DEF ProgramInv, Runnable, Returned
  <2>2. pc = 0 /\ owned = {} /\ DeferredIn(live) = {}
    BY <1>2, <2>1 DEF Executing, Returned
  <2>3. \A e \in live : e.kind = "drop"
    BY <2>2 DEF DeferredIn, Deferred
  <2> QED
    BY <2>2, <2>3 DEF NoUseAfterMove, Needed, NoDoubleDrop, Destroyed, NoLeak, AvailabilityIsSound,
                      DefersProcessedOnce, Processing, At, Running
<1>3. CASE verdict = "accepted" /\ pc # 0
  <2>1. PICK E, B, J, P : Proven(E, B, J, P) /\ Executing(E, B)
    BY <1>3 DEF ProgramInv, Runnable
  <2>2. PICK b, c : b = B[pc] /\ c = B[pc + 1]
    OBVIOUS
  <2>3. Follows(E, b, Here, c) /\ Confirmed(b)
    BY <1>3, <2>1, <2>2, AtPoint
  <2>4. Here.op # "cleanup" => owned = b.has /\ DeferredIn(live) = b.calls
    <3>1. Here.op # "cleanup" => done = {}
      BY <2>3 DEF Confirmed
    <3> QED
      BY <1>3, <2>1, <2>2, <3>1, Untouched
  <2>5. Processing =>
           /\ Deferred(NextEntry) /\ Runs(NextEntry) => NextEntry.root \in owned
           /\ ~Deferred(NextEntry) /\ ~Disarmed(NextEntry) => NextEntry.root \in owned
           /\ Deferred(NextEntry) => NextEntry \in live
    BY <1>3, <2>1, NextOwns DEF Processing, At
  <2>6. NoUseAfterMove
    <3>1. Here.op \in {"use", "borrow", "take"} => Here.root \in owned
      BY <2>3, <2>4 DEF Follows
    <3> QED
      BY <2>5, <3>1 DEF NoUseAfterMove, Needed, At, Deferred
  <2>7. NoDoubleDrop
    <3>1. Here.op = "drop" => Here.root \in owned
      BY <2>3, <2>4 DEF Follows
    <3> QED
      BY <2>5, <3>1 DEF NoDoubleDrop, Destroyed, At, Deferred
  <2>8. NoLeak
    BY <1>3, <2>3, <2>4 DEF NoLeak, Follows, At, Returned
  <2>9. AvailabilityIsSound
    BY <2>3, <2>4 DEF AvailabilityIsSound, Follows, At
  <2>10. DefersProcessedOnce
    <3>1. Here.op = "arm" => Here.entry \in E \/ Here.entry \notin b.calls
      BY <2>3 DEF Follows
    <3>2. \A e \in E : e.kind = "drop"
      BY <2>1 DEF Proven, Bindings, Deferred
    <3>3. Here.op = "arm" /\ Here.entry.kind # "drop" => Here.entry \notin live
      BY <2>4, <3>1, <3>2 DEF DeferredIn, Deferred
    <3> QED
      BY <1>3, <2>5, <3>3 DEF DefersProcessedOnce, At, Returned, Deferred
  <2> QED
    BY <2>6, <2>7, <2>8, <2>9, <2>10
<1> QED
  BY <1>1, <1>2, <1>3

\* On its beliefs a cleanup processes the latest entry first.
LEMMA RunsInReverse ==
    ASSUME ProgramInv
    PROVE  ReverseRegistration
<1> SUFFICES ASSUME Processing, NEW f \in live, f.ord > NextEntry.ord
             PROVE  f.kind = "drop" /\ f.root \notin owned
  BY DEF ReverseRegistration
<1>1. verdict = "accepted" /\ pc # 0 /\ Here.op = "cleanup" /\ Remaining # {}
  BY DEF Processing, At, Running
<1>2. PICK E, B, J, P : Proven(E, B, J, P) /\ Executing(E, B)
  BY <1>1 DEF ProgramInv, Runnable
<1>3. PICK b, c, e : b = B[pc] /\ c = B[pc + 1] /\ e = NextEntry
  OBVIOUS
<1>4. /\ b \in Belief /\ b.binds \subseteq E
      /\ DeferredIn(live) = b.calls \ done
      /\ owned = {r \in b.has : \A x \in done : x.root = r => ~Took(x)}
  BY <1>1, <1>2, <1>3, CleanupIs
<1>5. PICK d \in Nat : /\ CleanupIsSafe(b, Here.first, Here.plan, d)
                       /\ Remaining = Due(b, d) \ done /\ done \subseteq Due(b, d)
  BY <1>1, <1>2, <1>3, CleanupIs
<1>6. e \in Remaining /\ \A x \in Remaining : x.ord <= e.ord
  BY <1>1, <1>2, <1>3, <1>5, NextIs
<1>7. e \in Entry /\ e.ord \in Nat /\ e.depth \in Nat /\ e.depth >= d /\ e \in b.binds \cup b.calls
  BY <1>4, <1>5, <1>6, DueIs
<1>8. ASSUME f \in b.binds \cup b.calls, f.depth < d PROVE FALSE
  <2>1. f \in Entry /\ f.ord \in Nat /\ f.depth \in Nat
    BY <1>4, <1>8 DEF Belief, Bindings, Calls, Entry
  <2>2. f.ord < e.ord
    BY <1>5, <1>7, <1>8, <2>1 DEF CleanupIsSafe, Ordered
  <2> QED
    BY <1>3, <1>7, <2>1, <2>2
<1>9. ASSUME f \in Due(b, d) PROVE FALSE
  <2>1. f \notin done
    BY <1>2 DEF Executing
  <2>2. f.ord <= e.ord /\ f.ord \in Nat
    BY <1>4, <1>5, <1>6, <1>9, <2>1, DueIs
  <2> QED
    BY <1>3, <1>7, <2>2
<1>10. ~Deferred(f)
  <2> SUFFICES ASSUME Deferred(f) PROVE FALSE
    OBVIOUS
  <2>1. f \in b.calls
    BY <1>4 DEF DeferredIn
  <2>2. f.depth \in Nat
    BY <1>4, <2>1 DEF Belief, Calls, Entry
  <2>3. f.depth >= d
    BY <1>8, <2>1, <2>2
  <2> QED
    BY <1>9, <2>1, <2>3 DEF Due
<1>11. f \in E /\ f.kind = "drop"
  BY <1>2, <1>10 DEF Executing, Deferred
<1>12. f.root \notin owned
  <2> SUFFICES ASSUME f.root \in owned PROVE FALSE
    OBVIOUS
  <2>1. f.root \in b.has
    BY <1>4
  <2>2. PICK x \in b.binds : x.root = f.root
    BY <1>5, <2>1 DEF CleanupIsSafe
  <2>3. x = f
    BY <1>2, <1>4, <1>11, <2>2 DEF Proven, UniqueRoots
  <2>4. f \in b.binds /\ f.depth \in Nat
    BY <1>4, <2>2, <2>3 DEF Belief, Bindings, Entry
  <2>5. f.depth >= d
    BY <1>8, <2>4
  <2> QED
    BY <1>9, <2>1, <2>4, <2>5 DEF Due
<1> QED
  BY <1>11, <1>12

\* No accepted body uses, destroys twice or leaks a root on any of its paths,
\* whatever its length, its roots and its nesting, if it has none of the shapes
\* the checker gets wrong.
THEOREM MovesCorrect ==
    ASSUME Shapes = {}
    PROVE  Program => [](NoUseAfterMove /\ NoDoubleDrop /\ NoLeak /\ AvailabilityIsSound)
<1>1. ProgramInv /\ [ProgramNext]_progVars => ProgramInv'
  BY ProgramStep
<1>2. ProgramInv => NoUseAfterMove /\ NoDoubleDrop /\ NoLeak /\ AvailabilityIsSound
  BY RunsSafely
<1> QED
  BY <1>1, <1>2, ProgramStarts, PTL DEF Program

\* Its deferred calls run once and, with the destructions, in the reverse order
\* of registration.
THEOREM DefersCorrect ==
    ASSUME Shapes = {}
    PROVE  Program => [](ReverseRegistration /\ DefersProcessedOnce)
<1>1. ProgramInv /\ [ProgramNext]_progVars => ProgramInv'
  BY ProgramStep
<1>2. ProgramInv => ReverseRegistration /\ DefersProcessedOnce
  BY RunsSafely, RunsInReverse
<1> QED
  BY <1>1, <1>2, ProgramStarts, PTL DEF Program
=============================================================================
