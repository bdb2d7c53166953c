--------------------------- MODULE LoweringProofs ---------------------------
(***************************************************************************)
(* What a body of the admitted shapes does when it runs, proved for every  *)
(* set of roots, every parameter list and bodies of any length.            *)
(*                                                                         *)
(* The checker's state when it has emitted an instruction is what it       *)
(* believes of every run that gets past it.  The proof keeps these beliefs *)
(* beside the code: while a body is checked there is a belief for every    *)
(* point of the code, each follows from the one before by the instruction  *)
(* between them, and a jump and its label have the same one.  Running the  *)
(* code then only has to agree with the belief of the point it is at.      *)
(***************************************************************************)
EXTENDS Programs, MoveCheckProofs, SequenceTheorems, WellFoundedInduction

Bindings == {e \in Entry : ~Deferred(e)}
Calls    == {e \in Entry : Deferred(e)}

\* The roots that hold a value, the bindings in scope, the calls registered and
\* what is known of the exit value: "ok" where none is on its way.
Belief == [has : SUBSET Roots, binds : SUBSET Bindings, calls : SUBSET Calls,
           class : ExitClass \cup {"nowhere"}]

Holding(binds, calls, m) ==
    [has |-> {b.root : b \in binds} \ m, binds |-> binds, calls |-> calls, class |-> "ok"]

\* After an instruction that is never gone past.
Nowhere == [has |-> {}, binds |-> {}, calls |-> {}, class |-> "nowhere"]

----------------------------------------------------------------------------
(* One instruction.                                                         *)

MayRun(b, e) == ~(e.onErr /\ b.class = "ok")

\* What a cleanup of the scopes at depth >= d has to process, and what is
\* believed after it.
Due(b, d) == {x \in b.binds : x.depth >= d /\ x.root \in b.has} \cup {x \in b.calls : x.depth >= d}

Left(b, d) ==
    [has |-> {x.root : x \in {y \in b.binds : y.depth < d /\ y.root \in b.has}},
     binds |-> Outer(d, b.binds), calls |-> Outer(d, b.calls), class |-> b.class]

Ordered(S) ==
    \A e, f \in S : (e.ord = f.ord => e = f) /\ (e.depth < f.depth => e.ord < f.ord)

\* A call that may run finds its root: bound before it, and not consumed by one
\* that runs earlier.  What it consumes is of the scopes being left.
CallIsSafe(b, d, e) ==
    /\ e.root \in b.has
    /\ \A f \in Due(b, d) :
         f.kind = "take" /\ MayRun(b, f) /\ f.root = e.root => ~(f.ord > e.ord)
    /\ \A x \in b.binds : x.root = e.root => x.ord < e.ord /\ (e.kind = "take" => x.depth >= d)

CleanupIsSafe(b, first, plan, d) ==
    /\ first = {} \/ plan = {}
    /\ first \cup plan = Due(b, d)
    /\ \A r \in b.has : \E x \in b.binds : x.root = r
    /\ \E n \in Nat : \A e \in Due(b, d) : e.ord <= n
    /\ Ordered(b.binds \cup b.calls)
    /\ \A e \in Due(b, d) : Deferred(e) /\ MayRun(b, e) => CallIsSafe(b, d, e)

Having(b, has)   == [has |-> has, binds |-> b.binds, calls |-> b.calls, class |-> b.class]
Binding(b, e)    == [has |-> b.has, binds |-> b.binds \cup {e}, calls |-> b.calls, class |-> b.class]
Calling(b, e)    == [has |-> b.has, binds |-> b.binds, calls |-> b.calls \cup {e}, class |-> b.class]
Giving(b, class) == [has |-> b.has, binds |-> b.binds, calls |-> b.calls, class |-> class]

Jumps == {"branch", "goto", "break"}

\* Belief b allows the instruction, and c is believed after it.  "names" are all
\* the drop entries the code mentions.
Follows(names, b, i, c) ==
    /\ b \in Belief /\ c \in Belief /\ b.class # "nowhere" /\ b.binds \subseteq names
    /\ \/ i.op = "store" /\ i.root \notin b.has /\ c = Having(b, b.has \cup {i.root})
       \/ i.op \in {"take", "drop"} /\ i.root \in b.has /\ c = Having(b, b.has \ {i.root})
       \/ i.op \in {"use", "borrow"} /\ i.root \in b.has /\ c = b
       \/ i.op = "label" /\ i.avail \subseteq b.has /\ c = b
       \/ i.op = "arm" /\ i.entry \in names /\ c = Binding(b, i.entry)
       \/ i.op = "arm" /\ i.entry \in Calls /\ i.entry \notin b.calls /\ c = Calling(b, i.entry)
       \/ i.op = "branch" /\ c = b
       \/ i.op \in {"goto", "break"}
       \/ i.op = "result" /\ i.class \in ExitClass /\ c = Giving(b, i.class)
       \/ i.op = "cleanup" /\ \E d \in Nat : CleanupIsSafe(b, i.first, i.plan, d) /\ c = Left(b, d)
       \/ i.op = "ret" /\ b.has = {} /\ b.calls = {}

Start == Holding(ParamBindings, {}, {})

\* Beliefs at the points of a code, with the jumps from them and the labels at
\* them.
Annotated(names, is, B, jumps, places, b) ==
    /\ B \in [1..(Len(is) + 1) -> Belief]
    /\ B[1] = Start /\ B[Len(is) + 1] = b
    /\ \A i \in 1..Len(is) :
         /\ Follows(names, B[i], is[i], B[i + 1])
         /\ is[i].op \in Jumps => <<is[i].to, B[i]>> \in jumps
         /\ is[i].op = "label" => <<is[i].to, B[i]>> \in places
    /\ \A p \in places : \E i \in 1..Len(is) : is[i].op = "label" /\ is[i].to = p[1]

Flow(names, is, jumps, places, b) == \E B : Annotated(names, is, B, jumps, places, b)

\* A flow with one more instruction, whose jump or label is recorded, is a flow.
LEMMA FlowAppends ==
    ASSUME NEW names, NEW is \in Seq(Instr), NEW jumps, NEW places, NEW b,
           Flow(names, is, jumps, places, b),
           NEW i \in Instr, NEW c, Follows(names, b, i, c),
           NEW moreJumps, jumps \subseteq moreJumps,
           i.op \in Jumps => <<i.to, b>> \in moreJumps,
           NEW morePlaces, places \subseteq morePlaces,
           i.op = "label" => <<i.to, b>> \in morePlaces,
           \A p \in morePlaces : p \in places \/ (i.op = "label" /\ i.to = p[1])
    PROVE  Flow(names, is \o <<i>>, moreJumps, morePlaces, c)
<1>1. PICK B : Annotated(names, is, B, jumps, places, b)
  BY DEF Flow
<1> DEFINE n == Len(is)
           C == [k \in 1..(n + 2) |-> IF k = n + 2 THEN c ELSE B[k]]
<1>2. PICK s : s = is \o <<i>>
  OBVIOUS
<1>3. /\ n \in Nat /\ Len(s) = n + 1 /\ s[n + 1] = i
      /\ \A k \in 1..n : s[k] = is[k]
  <2>1. <<i>> \in Seq(Instr) /\ Len(<<i>>) = 1 /\ <<i>>[1] = i
    OBVIOUS
  <2> QED
    BY <1>2, <2>1, ConcatProperties, LenProperties
<1>4. /\ B \in [1..(n + 1) -> Belief] /\ B[1] = Start /\ B[n + 1] = b
      /\ \A k \in 1..n : /\ Follows(names, B[k], is[k], B[k + 1])
                         /\ is[k].op \in Jumps => <<is[k].to, B[k]>> \in jumps
                         /\ is[k].op = "label" => <<is[k].to, B[k]>> \in places
      /\ \A p \in places : \E k \in 1..n : is[k].op = "label" /\ is[k].to = p[1]
  BY <1>1 DEF Annotated
<1>5. c \in Belief
  BY DEF Follows
<1>6. C \in [1..((n + 1) + 1) -> Belief] /\ C[(n + 1) + 1] = c
      /\ \A k \in 1..(n + 1) : C[k] = B[k]
  <2>1. \A k \in 1..(n + 2) : k # n + 2 => k \in 1..(n + 1)
    BY <1>3
  <2>2. (n + 1) + 1 = n + 2 /\ n + 2 \in 1..(n + 2) /\ \A k \in 1..(n + 1) : k \in 1..(n + 2) /\ k # n + 2
    BY <1>3
  <2> QED
    BY <1>4, <1>5, <2>1, <2>2
<1> HIDE DEF C
<1>7. C[1] = Start
  BY <1>3, <1>4, <1>6
<1>8. ASSUME NEW k \in 1..(n + 1)
      PROVE  /\ Follows(names, C[k], s[k], C[k + 1])
             /\ s[k].op \in Jumps => <<s[k].to, C[k]>> \in moreJumps
             /\ s[k].op = "label" => <<s[k].to, C[k]>> \in morePlaces
  <2>1. CASE k \in 1..n
    <3>1. s[k] = is[k] /\ C[k] = B[k] /\ C[k + 1] = B[k + 1]
      BY <1>3, <1>6, <2>1
    <3> QED
      BY <1>4, <2>1, <3>1
  <2>2. CASE k = n + 1
    <3>1. s[k] = i /\ C[k] = b /\ C[k + 1] = c
      BY <1>3, <1>4, <1>6, <2>2
    <3> QED
      BY <3>1
  <2> QED
    BY <1>3, <2>1, <2>2
<1>9. ASSUME NEW p \in morePlaces PROVE \E k \in 1..(n + 1) : s[k].op = "label" /\ s[k].to = p[1]
  <2>1. CASE p \in places
    BY <1>3, <1>4, <2>1
  <2>2. CASE i.op = "label" /\ i.to = p[1]
    <3>1. n + 1 \in 1..(n + 1)
      BY <1>3
    <3> QED
      BY <1>3, <2>2, <3>1
  <2> QED
    BY <2>1, <2>2
<1>10. Annotated(names, s, C, moreJumps, morePlaces, c)
  BY <1>3, <1>6, <1>7, <1>8, <1>9 DEF Annotated
<1> QED
  BY <1>2, <1>10 DEF Flow

\* Past an instruction that is not gone past, anything may be believed.
LEMMA FlowRestarts ==
    ASSUME NEW names, NEW is \in Seq(Instr), NEW jumps, NEW places,
           NEW b, b.class = "nowhere", Flow(names, is, jumps, places, b), NEW c \in Belief
    PROVE  Flow(names, is, jumps, places, c)
<1>1. PICK B : Annotated(names, is, B, jumps, places, b)
  BY DEF Flow
<1> DEFINE n == Len(is)
           C == [k \in 1..(n + 1) |-> IF k = n + 1 THEN c ELSE B[k]]
<1>2. /\ B \in [1..(n + 1) -> Belief] /\ B[1] = Start /\ B[n + 1] = b
      /\ \A k \in 1..n : /\ Follows(names, B[k], is[k], B[k + 1])
                         /\ is[k].op \in Jumps => <<is[k].to, B[k]>> \in jumps
                         /\ is[k].op = "label" => <<is[k].to, B[k]>> \in places
      /\ \A p \in places : \E k \in 1..n : is[k].op = "label" /\ is[k].to = p[1]
  BY <1>1 DEF Annotated
<1>3. n \in Nat
  BY LenProperties
<1>4. n # 0
  <2>1. Start.class = "ok"
    BY DEF Start, Holding
  <2> QED
    BY <1>2, <2>1
<1>5. C \in [1..(n + 1) -> Belief] /\ C[n + 1] = c /\ \A k \in 1..n : C[k] = B[k]
  <2>1. \A k \in 1..n : k \in 1..(n + 1) /\ k # n + 1
    BY <1>3
  <2>2. n + 1 \in 1..(n + 1)
    BY <1>3
  <2> QED
    BY <1>2, <2>1, <2>2
<1> HIDE DEF C
<1>6. ASSUME NEW k \in 1..n PROVE Follows(names, C[k], is[k], C[k + 1])
  <2>1. CASE k # n
    <3>1. k + 1 \in 1..n
      BY <1>3, <2>1
    <3> QED
      BY <1>2, <1>5, <3>1
  <2>2. CASE k = n
    <3>1. Follows(names, B[n], is[n], b) /\ C[k] = B[n] /\ C[k + 1] = c
      BY <1>2, <1>3, <1>5, <2>2
    <3>2. /\ B[n] \in Belief /\ B[n].class # "nowhere" /\ B[n].binds \subseteq names
      BY <3>1 DEF Follows
    <3>3. is[n].op \in {"goto", "break"} \/ (is[n].op = "ret" /\ B[n].has = {} /\ B[n].calls = {})
      BY <3>1, <3>2 DEF Follows, Having, Binding, Calling, Giving, Left, ExitClass
    <3> QED
      BY <2>2, <3>1, <3>2, <3>3 DEF Follows
  <2> QED
    BY <2>1, <2>2
<1>7. C[1] = Start
  BY <1>2, <1>3, <1>4, <1>5
<1>8. Annotated(names, is, C, jumps, places, c)
  BY <1>2, <1>5, <1>6, <1>7 DEF Annotated
<1> QED
  BY <1>8 DEF Flow

\* More drop entries may be mentioned than are.
LEMMA FlowNames ==
    ASSUME NEW names, NEW more, names \subseteq more,
           NEW is, NEW jumps, NEW places, NEW b, Flow(names, is, jumps, places, b)
    PROVE  Flow(more, is, jumps, places, b)
<1>1. PICK B : Annotated(names, is, B, jumps, places, b)
  BY DEF Flow
<1>2. \A x, i, y : Follows(names, x, i, y) => Follows(more, x, i, y)
  BY DEF Follows
<1>3. Annotated(more, is, B, jumps, places, b)
  BY <1>1, <1>2 DEF Annotated
<1> QED
  BY <1>3 DEF Flow

----------------------------------------------------------------------------
(* Sequences of instructions.                                               *)

Ready(names, b) == b \in Belief /\ b.class # "nowhere" /\ b.binds \subseteq names

\* Emitted where b is believed, the instructions lead to c, with these jumps
\* and labels.
Emits(names, b, is, jumps, places, c) ==
    /\ is \in Seq(Instr)
    /\ \A s \in Seq(Instr) : \A j, p :
         Flow(names, s, j, p, b) => Flow(names, s \o is, j \cup jumps, p \cup places, c)

\* Emitting nothing leaves the belief as it is.
LEMMA EmitsNothing ==
    ASSUME NEW names, NEW b
    PROVE  Emits(names, b, <<>>, {}, {}, b)
<1>1. <<>> \in Seq(Instr)
  OBVIOUS
<1>2. ASSUME NEW s \in Seq(Instr), NEW j, NEW p, Flow(names, s, j, p, b)
      PROVE  Flow(names, s \o <<>>, j \cup {}, p \cup {}, b)
  <2>1. s \o <<>> = s
    BY ConcatEmptySeq
  <2>2. j \cup {} = j /\ p \cup {} = p
    OBVIOUS
  <2> QED
    BY <1>2, <2>1, <2>2
<1> QED
  BY <1>1, <1>2 DEF Emits

\* Two stretches of code, the second starting where the first ends, are one.
LEMMA EmitsThen ==
    ASSUME NEW names, NEW b, NEW x, NEW j1, NEW p1, NEW c, NEW y, NEW j2, NEW p2, NEW d,
           Emits(names, b, x, j1, p1, c), Emits(names, c, y, j2, p2, d)
    PROVE  Emits(names, b, x \o y, j1 \cup j2, p1 \cup p2, d)
<1>1. x \in Seq(Instr) /\ y \in Seq(Instr)
  BY DEF Emits
<1>2. x \o y \in Seq(Instr)
  BY <1>1, ConcatProperties
<1>3. ASSUME NEW s \in Seq(Instr), NEW j, NEW p, Flow(names, s, j, p, b)
      PROVE  Flow(names, s \o (x \o y), j \cup (j1 \cup j2), p \cup (p1 \cup p2), d)
  <2>1. Flow(names, s \o x, j \cup j1, p \cup p1, c)
    BY <1>3 DEF Emits
  <2>2. s \o x \in Seq(Instr)
    BY <1>1, ConcatProperties
  <2>3. Flow(names, (s \o x) \o y, (j \cup j1) \cup j2, (p \cup p1) \cup p2, d)
    BY <2>1, <2>2 DEF Emits
  <2>4. (s \o x) \o y = s \o (x \o y)
    BY <1>1, ConcatAssociative
  <2>5. (j \cup j1) \cup j2 = j \cup (j1 \cup j2) /\ (p \cup p1) \cup p2 = p \cup (p1 \cup p2)
    OBVIOUS
  <2> QED
    BY <2>3, <2>4, <2>5
<1> QED
  BY <1>2, <1>3 DEF Emits

\* An instruction that is neither a jump nor a label.
LEMMA EmitsPlain ==
    ASSUME NEW names, NEW b, NEW i \in Instr, NEW c, Follows(names, b, i, c),
           i.op \notin Jumps, i.op # "label"
    PROVE  Emits(names, b, <<i>>, {}, {}, c)
<1>1. ASSUME NEW s \in Seq(Instr), NEW j, NEW p, Flow(names, s, j, p, b)
      PROVE  Flow(names, s \o <<i>>, j \cup {}, p \cup {}, c)
  BY <1>1, FlowAppends
<1>2. <<i>> \in Seq(Instr)
  OBVIOUS
<1> QED
  BY <1>1, <1>2 DEF Emits

\* One jump records the belief it leaves with.
LEMMA EmitsJump ==
    ASSUME NEW names, NEW b, NEW i \in Instr, NEW c, Follows(names, b, i, c), i.op \in Jumps
    PROVE  Emits(names, b, <<i>>, {<<i.to, b>>}, {}, c)
<1>1. i.op # "label"
  BY DEF Jumps
<1>2. ASSUME NEW s \in Seq(Instr), NEW j, NEW p, Flow(names, s, j, p, b)
      PROVE  Flow(names, s \o <<i>>, j \cup {<<i.to, b>>}, p \cup {}, c)
  BY <1>1, <1>2, FlowAppends
<1>3. <<i>> \in Seq(Instr)
  OBVIOUS
<1> QED
  BY <1>2, <1>3 DEF Emits

\* One label records the belief it is reached with.
LEMMA EmitsLabel ==
    ASSUME NEW names, NEW b, NEW i \in Instr, NEW c, Follows(names, b, i, c), i.op = "label"
    PROVE  Emits(names, b, <<i>>, {}, {<<i.to, b>>}, c)
<1>1. i.op \notin Jumps
  BY DEF Jumps
<1>2. ASSUME NEW s \in Seq(Instr), NEW j, NEW p, Flow(names, s, j, p, b)
      PROVE  Flow(names, s \o <<i>>, j \cup {}, p \cup {<<i.to, b>>}, c)
  <2>1. \A q \in p \cup {<<i.to, b>>} : q \in p \/ (i.op = "label" /\ i.to = q[1])
    OBVIOUS
  <2>2. /\ p \subseteq p \cup {<<i.to, b>>} /\ <<i.to, b>> \in p \cup {<<i.to, b>>}
        /\ j \subseteq j \cup {}
    OBVIOUS
  <2> QED
    BY <1>1, <1>2, <2>1, <2>2, FlowAppends
<1>3. <<i>> \in Seq(Instr)
  OBVIOUS
<1> QED
  BY <1>2, <1>3 DEF Emits

\* What changes, and what does not, when only the held roots change.
LEMMA HavingIs ==
    ASSUME NEW names, NEW b, Ready(names, b), NEW has \in SUBSET Roots
    PROVE  /\ Ready(names, Having(b, has))
           /\ Having(b, has).has = has /\ Having(b, has).binds = b.binds
           /\ Having(b, has).calls = b.calls /\ Having(b, has).class = b.class
           /\ Having(b, b.has) = b
  BY DEF Ready, Having, Belief

\* A store gives an empty root its value.
LEMMA EmitsStore ==
    ASSUME NEW names, NEW b, Ready(names, b), NEW r \in Roots, r \notin b.has
    PROVE  Emits(names, b, Do("store", r), {}, {}, Having(b, b.has \cup {r}))
<1>1. PICK i \in Instr : i = [op |-> "store", root |-> r]
  BY DEF Instr
<1>2. b.has \cup {r} \in SUBSET Roots
  BY DEF Ready, Belief
<1>3. Follows(names, b, i, Having(b, b.has \cup {r}))
  BY <1>1, <1>2, HavingIs DEF Follows, Ready
<1>4. i.op \notin Jumps /\ i.op # "label" /\ Do("store", r) = <<i>>
  BY <1>1 DEF Jumps, Do
<1> QED
  BY <1>3, <1>4, EmitsPlain

\* A move or a destruction needs the value and takes it away.
LEMMA EmitsRemove ==
    ASSUME NEW names, NEW b, Ready(names, b), NEW op \in {"take", "drop"}, NEW r \in b.has
    PROVE  Emits(names, b, Do(op, r), {}, {}, Having(b, b.has \ {r}))
<1>0. r \in Roots /\ b.has \ {r} \in SUBSET Roots
  BY DEF Ready, Belief
<1>1. PICK i \in Instr : i = [op |-> op, root |-> r]
  BY <1>0 DEF Instr
<1>3. Follows(names, b, i, Having(b, b.has \ {r}))
  BY <1>0, <1>1, HavingIs DEF Follows, Ready
<1>4. i.op \notin Jumps /\ i.op # "label" /\ Do(op, r) = <<i>>
  BY <1>1 DEF Jumps, Do
<1> QED
  BY <1>3, <1>4, EmitsPlain

\* The move of an optional source.
LEMMA EmitsTakeOf ==
    ASSUME NEW names, NEW b, Ready(names, b), NEW s \in MaybeRoot, s = None \/ s \in b.has
    PROVE  Emits(names, b, TakeOf(s), {}, {}, Having(b, b.has \ Taken(s)))
<1>1. CASE s = None
  <2>1. b.has \ Taken(s) = b.has /\ b.has \in SUBSET Roots
    BY <1>1 DEF Taken, Ready, Belief
  <2>2. TakeOf(s) = <<>>
    BY <1>1 DEF TakeOf
  <2>3. Having(b, b.has \ Taken(s)) = b
    BY <2>1, HavingIs
  <2> QED
    BY <2>2, <2>3, EmitsNothing
<1>2. CASE s # None
  <2>1. TakeOf(s) = Do("take", s) /\ Taken(s) = {s} /\ s \in b.has
    BY <1>2 DEF TakeOf, Taken
  <2> QED
    BY <2>1, EmitsRemove
<1> QED
  BY <1>1, <1>2

\* A read or a borrow needs the value and leaves it.
LEMMA EmitsAccess ==
    ASSUME NEW names, NEW b, Ready(names, b), NEW op \in {"use", "borrow"}, NEW r \in b.has
    PROVE  Emits(names, b, Do(op, r), {}, {}, b)
<1>0. r \in Roots
  BY DEF Ready, Belief
<1>1. PICK i \in Instr : i = [op |-> op, root |-> r]
  BY <1>0 DEF Instr
<1>3. Follows(names, b, i, b)
  BY <1>1 DEF Follows, Ready
<1>4. i.op \notin Jumps /\ i.op # "label" /\ Do(op, r) = <<i>>
  BY <1>1 DEF Jumps, Do
<1> QED
  BY <1>3, <1>4, EmitsPlain

\* A binding enters the scope when its destruction is registered.
LEMMA EmitsArmDrop ==
    ASSUME NEW names, NEW b, Ready(names, b), NEW e \in Bindings, e \in names
    PROVE  /\ Emits(names, b, Arm(e), {}, {}, Binding(b, e))
           /\ Ready(names, Binding(b, e))
<1>1. PICK i \in Instr : i = [op |-> "arm", entry |-> e]
  BY DEF Instr, Bindings
<1>2. Ready(names, Binding(b, e))
  BY DEF Ready, Belief, Binding
<1>3. Follows(names, b, i, Binding(b, e))
  BY <1>1, <1>2 DEF Follows, Ready
<1>4. i.op \notin Jumps /\ i.op # "label" /\ Arm(e) = <<i>>
  BY <1>1 DEF Jumps, Arm
<1> QED
  BY <1>2, <1>3, <1>4, EmitsPlain

\* A deferred call joins the registered ones.
LEMMA EmitsArmCall ==
    ASSUME NEW names, NEW b, Ready(names, b), NEW e \in Calls, e \notin b.calls
    PROVE  Emits(names, b, Arm(e), {}, {}, Calling(b, e))
<1>1. PICK i \in Instr : i = [op |-> "arm", entry |-> e]
  BY DEF Instr, Calls
<1>2. Calling(b, e) \in Belief
  BY DEF Ready, Belief, Calling
<1>3. Follows(names, b, i, Calling(b, e))
  BY <1>1, <1>2 DEF Follows, Ready
<1>4. i.op \notin Jumps /\ i.op # "label" /\ Arm(e) = <<i>>
  BY <1>1 DEF Jumps, Arm
<1> QED
  BY <1>3, <1>4, EmitsPlain

\* The exit value fixes its class.
LEMMA EmitsResult ==
    ASSUME NEW names, NEW b, Ready(names, b), NEW class \in ExitClass
    PROVE  /\ Emits(names, b, Result(class), {}, {}, Giving(b, class))
           /\ Ready(names, Giving(b, class))
<1>1. PICK i \in Instr : i = [op |-> "result", class |-> class]
  BY DEF Instr
<1>2. Ready(names, Giving(b, class))
  BY DEF Ready, Belief, Giving, ExitClass
<1>3. Follows(names, b, i, Giving(b, class))
  BY <1>1, <1>2 DEF Follows, Ready
<1>4. i.op \notin Jumps /\ i.op # "label" /\ Result(class) = <<i>>
  BY <1>1 DEF Jumps, Result
<1> QED
  BY <1>2, <1>3, <1>4, EmitsPlain

\* A cleanup that is safe leaves what lies outside the depth it closes.
LEMMA EmitsClean ==
    ASSUME NEW names, NEW b, Ready(names, b), NEW d \in Nat,
           NEW first \in SUBSET Entry, NEW plan \in SUBSET Entry,
           CleanupIsSafe(b, first, plan, d)
    PROVE  /\ Emits(names, b, Clean(first, plan), {}, {}, Left(b, d))
           /\ Ready(names, Left(b, d))
<1>1. PICK i \in Instr : i = [op |-> "cleanup", first |-> first, plan |-> plan]
  BY DEF Instr
<1>2. Ready(names, Left(b, d))
  <2>1. /\ Left(b, d).has \subseteq b.has /\ Left(b, d).binds \subseteq b.binds
        /\ Left(b, d).calls \subseteq b.calls /\ Left(b, d).class = b.class
    BY DEF Left, Outer
  <2>2. b.has \subseteq Roots /\ b.binds \subseteq Bindings /\ b.calls \subseteq Calls
        /\ b.class \in ExitClass \cup {"nowhere"} /\ b.class # "nowhere" /\ b.binds \subseteq names
    BY DEF Ready, Belief
  <2>3. Left(b, d) = [has |-> Left(b, d).has, binds |-> Left(b, d).binds,
                      calls |-> Left(b, d).calls, class |-> Left(b, d).class]
    BY DEF Left
  <2> QED
    BY <2>1, <2>2, <2>3 DEF Ready, Belief
<1>3. Follows(names, b, i, Left(b, d))
  BY <1>1, <1>2 DEF Follows, Ready
<1>4. i.op \notin Jumps /\ i.op # "label" /\ Clean(first, plan) = <<i>>
  BY <1>1 DEF Jumps, Clean
<1> QED
  BY <1>2, <1>3, <1>4, EmitsPlain

\* A return is reached with nothing held and nothing registered.
LEMMA EmitsRet ==
    ASSUME NEW names, NEW b, Ready(names, b), b.has = {}, b.calls = {}
    PROVE  Emits(names, b, Ret, {}, {}, Nowhere)
<1>1. PICK i \in Instr : i = [op |-> "ret"]
  BY DEF Instr
<1>2. Nowhere \in Belief
  BY DEF Nowhere, Belief
<1>3. Follows(names, b, i, Nowhere)
  BY <1>1, <1>2 DEF Follows, Ready
<1>4. i.op \notin Jumps /\ i.op # "label" /\ Ret = <<i>>
  BY <1>1 DEF Jumps, Ret
<1> QED
  BY <1>3, <1>4, EmitsPlain

\* A conditional jump is passed, or taken, with the same belief.
LEMMA EmitsBranch ==
    ASSUME NEW names, NEW b, Ready(names, b), NEW l \in LabelName
    PROVE  Emits(names, b, Jump("branch", l), {<<l, b>>}, {}, b)
<1>1. PICK i \in Instr : i = [op |-> "branch", to |-> l, avail |-> {}]
  BY DEF Instr
<1>3. Follows(names, b, i, b)
  BY <1>1 DEF Follows, Ready
<1>4. i.op \in Jumps /\ Jump("branch", l) = <<i>> /\ i.to = l
  BY <1>1 DEF Jumps, Jump
<1> QED
  BY <1>3, <1>4, EmitsJump

\* Nothing is known after a jump: any belief may follow.
LEMMA EmitsGoto ==
    ASSUME NEW names, NEW b, Ready(names, b), NEW l \in LabelName, NEW c \in Belief
    PROVE  Emits(names, b, Jump("goto", l), {<<l, b>>}, {}, c)
<1>1. PICK i \in Instr : i = [op |-> "goto", to |-> l, avail |-> {}]
  BY DEF Instr
<1>3. Follows(names, b, i, c)
  BY <1>1 DEF Follows, Ready
<1>4. i.op \in Jumps /\ Jump("goto", l) = <<i>> /\ i.to = l
  BY <1>1 DEF Jumps, Jump
<1> QED
  BY <1>3, <1>4, EmitsJump

\* Nothing is known after a break either.
LEMMA EmitsBreak ==
    ASSUME NEW names, NEW b, Ready(names, b), NEW l \in LabelName, NEW n \in Nat, NEW c \in Belief
    PROVE  Emits(names, b, <<[op |-> "break", loop |-> n, to |-> l]>>, {<<l, b>>}, {}, c)
<1>1. PICK i \in Instr : i = [op |-> "break", loop |-> n, to |-> l]
  BY DEF Instr
<1>3. Follows(names, b, i, c)
  BY <1>1 DEF Follows, Ready
<1>4. i.op \in Jumps /\ i.to = l
  BY <1>1 DEF Jumps
<1> QED
  BY <1>1, <1>3, <1>4, EmitsJump

\* A label whose availability is held may be placed.
LEMMA EmitsPlace ==
    ASSUME NEW names, NEW b, Ready(names, b), NEW l \in LabelName, NEW avail \in SUBSET Roots,
           avail \subseteq b.has
    PROVE  Emits(names, b, Place(l, avail), {}, {<<l, b>>}, b)
<1>1. PICK i \in Instr : i = [op |-> "label", to |-> l, avail |-> avail]
  BY DEF Instr
<1>3. Follows(names, b, i, b)
  BY <1>1 DEF Follows, Ready
<1>4. i.op = "label" /\ Place(l, avail) = <<i>> /\ i.to = l
  BY <1>1 DEF Place
<1> QED
  BY <1>3, <1>4, EmitsLabel

----------------------------------------------------------------------------
(* What the checker's state says of the runs that are where it is.          *)

DeferredIn(cl) == {e \in cl : Deferred(e)}

\* In all scopes that are open, and in those at depth < d.
Inside(en, cl, m)    == Holding(en, DeferredIn(cl), m)
Around(en, cl, d, m) == Holding(Outer(d, en), Outer(d, DeferredIn(cl)), m)

Current(fr, en, cl, m) == IF fr[Len(fr)].dead THEN Nowhere ELSE Inside(en, cl, m)

UniqueRoots(S) == \A e, f \in S : e.root = f.root => e = f

\* A deferred call is registered inside the body, and one that may run when a
\* block is left consumes no root from outside the block.
CallsInv ==
    \A e \in cleanup : Deferred(e) =>
        /\ e.depth >= 1
        /\ e.kind = "take" /\ ~e.onErr /\ e.depth > 1 =>
              \A x \in env : x.root = e.root => x.depth >= e.depth

RootsOf(binds) == {b.root : b \in binds}

\* The belief of a checker state is well formed.
LEMMA HoldingIs ==
    ASSUME NEW names, NEW binds \in SUBSET Bindings, binds \subseteq names,
           NEW calls \in SUBSET Calls, NEW m
    PROVE  /\ Ready(names, Holding(binds, calls, m))
           /\ Holding(binds, calls, m).has = {b.root : b \in binds} \ m
           /\ Holding(binds, calls, m).binds = binds
           /\ Holding(binds, calls, m).calls = calls
           /\ Holding(binds, calls, m).class = "ok"
           /\ Giving(Holding(binds, calls, m), "ok") = Holding(binds, calls, m)
<1>1. {b.root : b \in binds} \ m \in SUBSET Roots
  BY DEF Bindings, Entry
<1> QED
  BY <1>1 DEF Ready, Holding, Belief, ExitClass, Giving

\* Moving a root out is recording it as moved.
LEMMA HoldingTakes ==
    ASSUME NEW binds, NEW calls, NEW m, NEW s
    PROVE  Having(Holding(binds, calls, m), Holding(binds, calls, m).has \ Taken(s))
             = Holding(binds, calls, m \cup Taken(s))
<1>1. ({b.root : b \in binds} \ m) \ Taken(s) = {b.root : b \in binds} \ (m \cup Taken(s))
  OBVIOUS
<1> QED
  BY <1>1 DEF Having, Holding

\* Storing into a root is forgetting that it was moved.
LEMMA HoldingStores ==
    ASSUME NEW binds, NEW calls, NEW m, NEW r \in RootsOf(binds)
    PROVE  Having(Holding(binds, calls, m), Holding(binds, calls, m).has \cup {r})
             = Holding(binds, calls, m \ {r})
<1>1. (RootsOf(binds) \ m) \cup {r} = RootsOf(binds) \ (m \ {r})
  OBVIOUS
<1> QED
  BY <1>1 DEF Having, Holding, RootsOf

\* A new binding holds its value.
LEMMA HoldingBinds ==
    ASSUME NEW binds, NEW calls, NEW m, NEW e, e.root \notin m
    PROVE  Binding(Having(Holding(binds, calls, m), Holding(binds, calls, m).has \cup {e.root}), e)
             = Holding(binds \cup {e}, calls, m)
<1>1. ({b.root : b \in binds} \ m) \cup {e.root} = {b.root : b \in binds \cup {e}} \ m
  OBVIOUS
<1> QED
  BY <1>1 DEF Having, Binding, Holding

\* Registering a call changes only the calls.
LEMMA HoldingCalls ==
    ASSUME NEW binds, NEW calls, NEW m, NEW e
    PROVE  Calling(Holding(binds, calls, m), e) = Holding(binds, calls \cup {e}, m)
  BY DEF Calling, Holding

\* Closing a scope leaves what the outer bindings and calls hold.
LEMMA HoldingLeaves ==
    ASSUME NEW binds, NEW calls, NEW m, NEW class, NEW d
    PROVE  Left(Giving(Holding(binds, calls, m), class), d)
             = Giving(Holding(Outer(d, binds), Outer(d, calls), m), class)
<1> DEFINE has == {b.root : b \in binds} \ m
<1>1. {x.root : x \in {y \in binds : y.depth < d /\ y.root \in has}}
        = {b.root : b \in {y \in binds : y.depth < d}} \ m
  OBVIOUS
<1> QED
  BY <1>1 DEF Left, Giving, Holding, Outer

\* Only the roots outside matter.
LEMMA AroundAgrees ==
    ASSUME NEW en, NEW cl, NEW d, NEW m, NEW n,
           m \cap {b.root : b \in Outer(d, en)} = n \cap {b.root : b \in Outer(d, en)}
    PROVE  Around(en, cl, d, m) = Around(en, cl, d, n)
<1>1. {b.root : b \in Outer(d, en)} \ m = {b.root : b \in Outer(d, en)} \ n
  OBVIOUS
<1> QED
  BY <1>1 DEF Around, Holding

----------------------------------------------------------------------------
(* Cleanup plans.                                                           *)

\* The types, depths and times of the entries in scope.
LEMMA ScopeTypes ==
    ASSUME TypeInv, ScopeInv
    PROVE  /\ env \in SUBSET Bindings /\ DeferredIn(cleanup) \in SUBSET Calls
           /\ \A d : Outer(d, env) \in SUBSET Bindings
           /\ \A d : Outer(d, DeferredIn(cleanup)) \in SUBSET Calls
           /\ \A e \in env \cup cleanup : e \in Entry /\ e.ord \in Nat /\ e.depth \in Nat
                                            /\ e.ord < clock /\ e.depth <= Depth
           /\ clock \in Nat /\ Depth \in Nat
  BY DepthType DEF TypeInv, TypeOK, ScopeInv, EntriesAreOpen, BindingsAreDrops, Bindings, Calls,
                   DeferredIn, Outer

\* A plan that covers what is due at depth d is safe if the checker validated
\* the dependencies of its calls.
LEMMA PlanIsSafe ==
    ASSUME TypeInv, ScopeInv, UniqueRoots(env),
           NEW m \in SUBSET Roots, NEW class \in ExitClass, NEW d \in Nat,
           NEW first, NEW plan, first = {} \/ plan = {},
           first \cup plan = Due(Giving(Inside(env, cleanup, m), class), d),
           NEW validated, NEW known \in ExitClass, known = "ok" => class = "ok",
           DependenciesOk(validated, m, known),
           \A e \in cleanup : Deferred(e) /\ e.depth >= d => e \in validated,
           \A e \in cleanup : e.kind = "take" /\ e.depth >= d /\ ~(e.onErr /\ class = "ok") =>
               \A x \in env : x.root = e.root => x.depth >= d
    PROVE  CleanupIsSafe(Giving(Inside(env, cleanup, m), class), first, plan, d)
<1> DEFINE b == Giving(Inside(env, cleanup, m), class)
           calls == DeferredIn(cleanup)
<1>1. /\ b.has = {x.root : x \in env} \ m /\ b.binds = env /\ b.calls = calls /\ b.class = class
  BY DEF Giving, Inside, Holding
<1>2. \A r \in b.has : \E x \in b.binds : x.root = r
  BY <1>1
<1>3. \A e \in Due(b, d) : e \in env \cup cleanup /\ e.depth >= d
  BY <1>1 DEF Due, DeferredIn
<1>4. \A e \in Due(b, d) : Deferred(e) => e \in cleanup
  BY <1>1, <1>3 DEF Due, DeferredIn, ScopeInv, BindingsAreDrops
<1>5. \E n \in Nat : \A e \in Due(b, d) : e.ord <= n
  <2>1. \A e \in Due(b, d) : e.ord <= clock
    BY <1>3, ScopeTypes
  <2> QED
    BY <2>1, ScopeTypes
<1>6. Ordered(b.binds \cup b.calls)
  <2>1. b.binds \cup b.calls \subseteq env \cup cleanup
    BY <1>1 DEF DeferredIn
  <2> QED
    BY <2>1 DEF Ordered, ScopeInv, RegistrationIsOrdered
<1>7. ASSUME NEW e \in Due(b, d), Deferred(e), MayRun(b, e)
      PROVE  CallIsSafe(b, d, e)
  <2>1. e \in cleanup /\ e.depth >= d /\ e \in validated
    BY <1>3, <1>4, <1>7
  <2>2. /\ e.root \notin m
        /\ \A f \in validated : f.kind # "drop" /\ ~(f.onErr /\ known = "ok") =>
             ~(f.ord > e.ord /\ f.kind = "take" /\ f.root = e.root)
    BY <2>1, <1>1, <1>7 DEF DependenciesOk, MayRun, Deferred
  <2>3. PICK x \in env : x.root = e.root /\ x.ord < e.ord
    BY <2>1, <1>7 DEF ScopeInv, DeferredRootsOutliveCalls
  <2>4. e.root \in b.has
    BY <1>1, <2>2, <2>3
  <2>5. \A f \in Due(b, d) : f.kind = "take" /\ MayRun(b, f) /\ f.root = e.root => ~(f.ord > e.ord)
    <3> SUFFICES ASSUME NEW f \in Due(b, d), f.kind = "take", MayRun(b, f), f.root = e.root
                 PROVE  ~(f.ord > e.ord)
      OBVIOUS
    <3>1. Deferred(f)
      BY DEF Deferred
    <3>2. f \in validated
      BY <1>3, <1>4, <3>1
    <3> QED
      BY <1>1, <2>2, <3>2 DEF MayRun
  <2>6. \A y \in b.binds : y.root = e.root => y = x
    BY <1>1, <2>3 DEF UniqueRoots
  <2>7. e.kind = "take" => x.depth >= d
    BY <1>1, <1>7, <2>1, <2>3 DEF MayRun
  <2> QED
    BY <2>3, <2>4, <2>5, <2>6, <2>7 DEF CallIsSafe
<1> QED
  BY <1>2, <1>5, <1>6, <1>7 DEF CleanupIsSafe

\* What is due where the callable is left: the calls, the locals and the
\* parameters that hold a value.
LEMMA DueOutside ==
    ASSUME TypeInv, ScopeInv, CallsInv, UniqueRoots(env), NEW m \in SUBSET Roots, NEW class
    PROVE  /\ Due(Giving(Inside(env, cleanup, m), class), 0) = Unregistered(1, m) \cup Registered(1, m)
           /\ Unregistered(1, m) = {b \in ComputeDrops(m) : b.depth = 0}
<1> DEFINE b == Giving(Inside(env, cleanup, m), class)
<1>1. Due(b, 0) = {x \in env : x.root \notin m} \cup {e \in cleanup : Deferred(e)}
  <2>1. /\ b.has = {x.root : x \in env} \ m /\ b.binds = env /\ b.calls = DeferredIn(cleanup)
    BY DEF Giving, Inside, Holding
  <2>2. \A e \in env \cup cleanup : e.depth >= 0
    BY ScopeTypes
  <2>3. \A x \in env : x.root \in b.has <=> x.root \notin m
    BY <2>1
  <2> HIDE DEF b
  <2> QED
    BY <2>1, <2>2, <2>3 DEF Due, DeferredIn
<1>2. \A e : e \in cleanup /\ ~Deferred(e) <=> e \in env /\ e.depth > 0
  BY DEF ScopeInv, CleanupMatchesScopes
<1>3. \A e \in env \cup cleanup : e.depth \in Nat
  BY ScopeTypes
<1>4. KnownRoots(1) = {x.root : x \in {y \in env : y.depth > 0}}
  <2>1. {x \in cleanup : x.kind = "drop" /\ x.depth >= 1} = {y \in env : y.depth > 0}
    BY <1>2, <1>3 DEF Deferred
  <2> QED
    BY <2>1 DEF KnownRoots
<1>5. \A x \in env : x.root \in KnownRoots(1) <=> x.depth > 0
  BY <1>4 DEF UniqueRoots
<1>6. Unregistered(1, m) = {x \in env : x.root \notin m /\ x.depth = 0}
  BY <1>3, <1>5 DEF Unregistered, ComputeDrops
<1>7. Registered(1, m) = {x \in env : x.root \notin m /\ x.depth > 0} \cup {e \in cleanup : Deferred(e)}
  BY <1>2, <1>3 DEF Registered, CallsInv, Deferred
<1>8. {x \in env : x.root \notin m}
        = {x \in env : x.root \notin m /\ x.depth = 0} \cup {x \in env : x.root \notin m /\ x.depth > 0}
  BY <1>3
<1> QED
  BY <1>1, <1>6, <1>7, <1>8 DEF ComputeDrops

\* What is due where a block or a loop is left.
LEMMA DueInside ==
    ASSUME TypeInv, ScopeInv, NEW m \in SUBSET Roots, NEW class, NEW d \in Nat, d >= 1
    PROVE  Due(Giving(Inside(env, cleanup, m), class), d) = Registered(d, m)
<1> DEFINE b == Giving(Inside(env, cleanup, m), class)
<1>1. Due(b, d) = {x \in env : x.depth >= d /\ x.root \notin m}
                    \cup {e \in cleanup : Deferred(e) /\ e.depth >= d}
  <2>1. /\ b.has = {x.root : x \in env} \ m /\ b.binds = env /\ b.calls = DeferredIn(cleanup)
    BY DEF Giving, Inside, Holding
  <2>2. \A x \in env : x.root \in b.has <=> x.root \notin m
    BY <2>1
  <2> HIDE DEF b
  <2> QED
    BY <2>1, <2>2 DEF Due, DeferredIn
<1>2. \A e : e \in cleanup /\ ~Deferred(e) <=> e \in env /\ e.depth > 0
  BY DEF ScopeInv, CleanupMatchesScopes
<1>3. \A e \in env \cup cleanup : e.depth \in Nat
  BY ScopeTypes
<1>4. Registered(d, m) = {x \in env : x.depth >= d /\ x.root \notin m}
                           \cup {e \in cleanup : Deferred(e) /\ e.depth >= d}
  BY <1>2, <1>3 DEF Registered, Deferred
<1> QED
  BY <1>1, <1>4

----------------------------------------------------------------------------
(* Jumps and labels.                                                        *)

Loops == {"while", "for"}

\* The construct of frame k awaits the label l with belief b, or has placed it
\* at its head, or will place it.  Where the block around the construct is
\* dead none of it is lowered.
Awaits(fr, en, cl, k, l, b) ==
    /\ ~fr[k - 1].dead
    /\ \/ /\ fr[k].kind = "if" /\ ~fr[k].covered
          /\ l = Label(fr[k].arm, "next") /\ b = Around(en, cl, k, fr[k].entry)
       \/ /\ fr[k].kind = "if" /\ fr[k].merged
          /\ l = Label(fr[k].id, "exit") /\ \E m \in fr[k].exits : b = Around(en, cl, k, m)
       \/ /\ fr[k].kind \in Loops
          /\ l = Label(fr[k].id, "exit") /\ b = Around(en, cl, k, fr[k].entry)

Heads(fr, en, cl, k, l, b) ==
    /\ ~fr[k - 1].dead
    /\ fr[k].kind \in Loops
    /\ l = Label(fr[k].id, "head") /\ b = Around(en, cl, k, fr[k].entry)

Reserves(f, l) ==
    \/ f.kind = "if" /\ ~f.covered /\ l = Label(f.arm, "next")
    \/ l = Label(f.id, "exit")

\* A label has one belief, what is not placed yet is awaited by one of the
\* constructs 2..n, and these have placed their heads and no other of their
\* labels.
Labelled(clk, J, P) == \A l, b : <<l, b>> \in J \cup P => l \in LabelName /\ l.id < clk
Agreed(J, P)        == \A l, b, c : <<l, b>> \in P /\ <<l, c>> \in J \cup P => b = c
Resolved(fr, en, cl, n, J, P) ==
    \A l, b : <<l, b>> \in J => (\E c : <<l, c>> \in P) \/ \E k \in 2..n : Awaits(fr, en, cl, k, l, b)
Headed(fr, en, cl, n, P) ==
    \A k \in 2..n : \A l, b : Heads(fr, en, cl, k, l, b) => <<l, b>> \in P
Pending(fr, n, P)   == \A k \in 2..n : \A l, b : Reserves(fr[k], l) => <<l, b>> \notin P

Linked(fr, en, cl, n, clk, J, P) ==
    /\ Labelled(clk, J, P)
    /\ Agreed(J, P)
    /\ Resolved(fr, en, cl, n, J, P)
    /\ Headed(fr, en, cl, n, P)
    /\ Pending(fr, n, P)

\* Constructs are opened one after another.
Increasing(fr, n, clk) ==
    \A k \in 1..n :
        /\ fr[k].id \in Nat /\ fr[k].arm \in Nat /\ fr[k].id <= fr[k].arm /\ fr[k].arm < clk
        /\ \A j \in 1..(k - 1) : fr[j].arm < fr[k].id

\* A label is its number and its part.
LEMMA LabelIs ==
    ASSUME NEW i, NEW p
    PROVE  Label(i, p).id = i /\ Label(i, p).part = p
  BY DEF Label

\* A construct awaits only labels it has reserved.
LEMMA AwaitsReserved ==
    ASSUME NEW fr, NEW en, NEW cl, NEW k, NEW l, NEW b, Awaits(fr, en, cl, k, l, b)
    PROVE  Reserves(fr[k], l)
  BY DEF Awaits, Reserves

\* A label is reserved by one open construct, from a number already taken.
LEMMA ReservedOnce ==
    ASSUME NEW n \in Nat, NEW clk \in Nat, NEW fr, Increasing(fr, n, clk),
           NEW k \in 1..n, NEW l, Reserves(fr[k], l)
    PROVE  /\ l.id < clk /\ l.part # "head"
           /\ l.id = fr[k].id \/ l.id = fr[k].arm
           /\ \A j \in 1..n : Reserves(fr[j], l) => j = k
<1>1. \A j \in 1..n : Reserves(fr[j], l) =>
         fr[j].id <= l.id /\ l.id <= fr[j].arm /\ (l.id = fr[j].id \/ l.id = fr[j].arm)
           /\ l.part # "head"
  <2> SUFFICES ASSUME NEW j \in 1..n, Reserves(fr[j], l)
               PROVE  fr[j].id <= l.id /\ l.id <= fr[j].arm /\ (l.id = fr[j].id \/ l.id = fr[j].arm)
                        /\ l.part # "head"
    OBVIOUS
  <2>1. fr[j].id \in Nat /\ fr[j].arm \in Nat /\ fr[j].id <= fr[j].arm
    BY DEF Increasing
  <2>2. (l.id = fr[j].id \/ l.id = fr[j].arm) /\ l.part # "head"
    BY LabelIs DEF Reserves
  <2> QED
    BY <2>1, <2>2
<1>2. \A i, j \in 1..n : i < j => fr[i].arm < fr[j].id
  <2> SUFFICES ASSUME NEW i \in 1..n, NEW j \in 1..n, i < j PROVE fr[i].arm < fr[j].id
    OBVIOUS
  <2>1. i \in 1..(j - 1)
    OBVIOUS
  <2> QED
    BY <2>1 DEF Increasing
<1>3. \A j \in 1..n : fr[j].id \in Nat /\ fr[j].arm \in Nat /\ fr[j].arm < clk
  BY DEF Increasing
<1>4. ASSUME NEW j \in 1..n, Reserves(fr[j], l) PROVE j = k
  <2>1. fr[j].id <= l.id /\ l.id <= fr[j].arm /\ fr[k].id <= l.id /\ l.id <= fr[k].arm
    BY <1>1, <1>4
  <2>2. l.id \in Nat
    BY <1>1, <1>3
  <2>3. ~(j < k) /\ ~(k < j)
    BY <1>2, <1>3, <2>1, <2>2
  <2> QED
    BY <2>3
<1> QED
  BY <1>1, <1>3, <1>4

\* The same constructs, with later elements.
LEMMA LinkedAgrees ==
    ASSUME NEW n \in Nat, NEW clk \in Nat, NEW clk2 \in Nat, clk <= clk2,
           NEW fr, NEW en, NEW cl, NEW fr2, NEW en2, NEW cl2, NEW J, NEW P,
           Linked(fr, en, cl, n, clk, J, P),
           \A k \in 2..n : /\ fr2[k].kind = fr[k].kind /\ fr2[k].id = fr[k].id
                           /\ fr2[k].arm = fr[k].arm /\ fr2[k].entry = fr[k].entry
                           /\ fr2[k].exits = fr[k].exits /\ fr2[k].covered = fr[k].covered
                           /\ fr2[k].merged = fr[k].merged /\ fr2[k - 1].dead = fr[k - 1].dead,
           \A k \in 2..n : \A m : Around(en2, cl2, k, m) = Around(en, cl, k, m)
    PROVE  Linked(fr2, en2, cl2, n, clk2, J, P)
<1>1. \A k \in 2..n : \A l, b : Awaits(fr, en, cl, k, l, b) => Awaits(fr2, en2, cl2, k, l, b)
  BY DEF Awaits
<1>2. \A k \in 2..n : \A l, b : Heads(fr2, en2, cl2, k, l, b) => Heads(fr, en, cl, k, l, b)
  BY DEF Heads
<1>3. \A k \in 2..n : \A l : Reserves(fr2[k], l) => Reserves(fr[k], l)
  BY DEF Reserves
<1>4. \A l \in LabelName : l.id < clk => l.id < clk2
  BY DEF LabelName
<1> QED
  BY <1>1, <1>2, <1>3, <1>4 DEF Linked, Labelled, Agreed, Resolved, Headed, Pending

\* One more jump to a label that is placed or awaited.
LEMMA LinkedJump ==
    ASSUME NEW n \in Nat, NEW clk \in Nat, NEW fr, NEW en, NEW cl, NEW J, NEW P,
           Linked(fr, en, cl, n, clk, J, P),
           NEW l \in LabelName, l.id < clk, NEW b,
           <<l, b>> \in P \/ \E k \in 2..n : Awaits(fr, en, cl, k, l, b)
    PROVE  Linked(fr, en, cl, n, clk, J \cup {<<l, b>>}, P)
<1>1. \A c : <<l, c>> \in P => c = b
  <2>1. CASE <<l, b>> \in P
    BY <2>1 DEF Linked, Labelled, Agreed, Resolved, Headed, Pending
  <2>2. CASE \E k \in 2..n : Awaits(fr, en, cl, k, l, b)
    BY <2>2, AwaitsReserved DEF Linked, Labelled, Agreed, Resolved, Headed, Pending
  <2> QED
    BY <2>1, <2>2
<1>2. \A x, y : <<x, y>> \in J \cup {<<l, b>>} => <<x, y>> \in J \/ (x = l /\ y = b)
  OBVIOUS
<1>3. \A x, y : <<x, y>> \in (J \cup {<<l, b>>}) \cup P => <<x, y>> \in J \cup P \/ (x = l /\ y = b)
  OBVIOUS
<1>4. \A x, y : <<x, y>> \in (J \cup {<<l, b>>}) \cup P => x \in LabelName /\ x.id < clk
  BY <1>3 DEF Linked, Labelled, Agreed, Resolved, Headed, Pending
<1>5. \A x, y, c : <<x, y>> \in P /\ <<x, c>> \in (J \cup {<<l, b>>}) \cup P => y = c
  BY <1>1, <1>3 DEF Linked, Labelled, Agreed, Resolved, Headed, Pending
<1>6. \A x, y : <<x, y>> \in J \cup {<<l, b>>} =>
         (\E c : <<x, c>> \in P) \/ \E k \in 2..n : Awaits(fr, en, cl, k, x, y)
  BY <1>2 DEF Linked, Resolved
<1> QED
  BY <1>4, <1>5, <1>6 DEF Linked, Labelled, Agreed, Resolved, Headed, Pending

\* One more label, which every jump to it agrees with and no construct reserves.
LEMMA LinkedPlace ==
    ASSUME NEW n \in Nat, NEW clk \in Nat, NEW fr, NEW en, NEW cl, NEW J, NEW P,
           Linked(fr, en, cl, n, clk, J, P),
           NEW l \in LabelName, l.id < clk, NEW b,
           \A c : <<l, c>> \in J \cup P => c = b,
           \A k \in 2..n : ~Reserves(fr[k], l)
    PROVE  Linked(fr, en, cl, n, clk, J, P \cup {<<l, b>>})
<1>1. \A x, y : <<x, y>> \in P \cup {<<l, b>>} => <<x, y>> \in P \/ (x = l /\ y = b)
  OBVIOUS
<1>2. \A x, y : <<x, y>> \in J \cup (P \cup {<<l, b>>}) => <<x, y>> \in J \cup P \/ (x = l /\ y = b)
  OBVIOUS
<1>3. \A x, y : <<x, y>> \in J \cup (P \cup {<<l, b>>}) => x \in LabelName /\ x.id < clk
  BY <1>2 DEF Linked, Labelled, Agreed, Resolved, Headed, Pending
<1>4. \A x, y, c : <<x, y>> \in P \cup {<<l, b>>} /\ <<x, c>> \in J \cup (P \cup {<<l, b>>}) => y = c
  <2> SUFFICES ASSUME NEW x, NEW y, NEW c, <<x, y>> \in P \cup {<<l, b>>},
                      <<x, c>> \in J \cup (P \cup {<<l, b>>})
               PROVE  y = c
    OBVIOUS
  <2>1. CASE x = l
    <3>1. y = b
      BY <1>1, <2>1
    <3>2. c = b
      BY <1>2, <2>1
    <3> QED
      BY <3>1, <3>2
  <2>2. CASE x # l
    BY <1>1, <1>2, <2>2 DEF Linked, Labelled, Agreed, Resolved, Headed, Pending
  <2> QED
    BY <2>1, <2>2
<1>5. \A x, y : <<x, y>> \in J =>
         (\E c : <<x, c>> \in P \cup {<<l, b>>}) \/ \E k \in 2..n : Awaits(fr, en, cl, k, x, y)
  BY DEF Linked, Labelled, Agreed, Resolved, Headed, Pending
<1>6. \A k \in 2..n : \A x, y : Heads(fr, en, cl, k, x, y) => <<x, y>> \in P \cup {<<l, b>>}
  BY DEF Linked, Labelled, Agreed, Resolved, Headed, Pending
<1>7. \A k \in 2..n : \A x, y : Reserves(fr[k], x) => <<x, y>> \notin P \cup {<<l, b>>}
  BY <1>1 DEF Linked, Pending
<1> QED
  BY <1>3, <1>4, <1>5, <1>6, <1>7 DEF Linked, Labelled, Agreed, Resolved, Headed, Pending

\* No jump or label uses the number that comes next.
LEMMA FreshLabel ==
    ASSUME NEW n \in Nat, NEW clk \in Nat, NEW fr, NEW en, NEW cl, NEW J, NEW P,
           Linked(fr, en, cl, n, clk, J, P), NEW p
    PROVE  \A b : <<Label(clk, p), b>> \notin J \cup P
  BY LabelIs DEF Linked, Labelled, Agreed, Resolved, Headed, Pending

\* A label with a jump to it of the present element (return_on_error).
LEMMA LinkedTry ==
    ASSUME NEW n \in Nat, NEW clk \in Nat, NEW fr, NEW en, NEW cl, NEW J, NEW P,
           Linked(fr, en, cl, n, clk, J, P), Increasing(fr, n, clk),
           NEW p \in {"head", "next", "exit"}, NEW b
    PROVE  /\ Linked(fr, en, cl, n, clk + 1, J, P \cup {<<Label(clk, p), b>>})
           /\ Linked(fr, en, cl, n, clk + 1, J \cup {<<Label(clk, p), b>>}, P \cup {<<Label(clk, p), b>>})
<1> DEFINE l == Label(clk, p)
<1>1. Linked(fr, en, cl, n, clk + 1, J, P)
  BY LinkedAgrees
<1>2. l \in LabelName /\ l.id < clk + 1
  BY LabelType, LabelIs
<1>3. \A c : <<l, c>> \in J \cup P => c = b
  BY FreshLabel
<1>4. \A k \in 2..n : ~Reserves(fr[k], l)
  <2> SUFFICES ASSUME NEW k \in 2..n, Reserves(fr[k], l) PROVE FALSE
    OBVIOUS
  <2>1. k \in 1..n
    OBVIOUS
  <2>2. l.id < clk
    BY <2>1, ReservedOnce
  <2> QED
    BY <2>2, LabelIs
<1> HIDE DEF l
<1>5. Linked(fr, en, cl, n, clk + 1, J, P \cup {<<l, b>>})
  <2>1. clk + 1 \in Nat
    OBVIOUS
  <2> QED
    BY <1>1, <1>2, <1>3, <1>4, <2>1, LinkedPlace
<1>6. <<l, b>> \in P \cup {<<l, b>>}
  OBVIOUS
<1>7. Linked(fr, en, cl, n, clk + 1, J \cup {<<l, b>>}, P \cup {<<l, b>>})
  BY <1>2, <1>5, <1>6, LinkedJump
<1> QED
  BY <1>5, <1>7 DEF l

\* A construct is opened.
LEMMA LinkedPush ==
    ASSUME NEW n \in Nat, NEW clk \in Nat, NEW fr, NEW en, NEW cl, NEW J, NEW P,
           Linked(fr, en, cl, n, clk, J, P),
           NEW fr2, \A k \in 1..n : fr2[k] = fr[k],
           \A l, b : Heads(fr2, en, cl, n + 1, l, b) => <<l, b>> \in P,
           \A l, b : Reserves(fr2[n + 1], l) => <<l, b>> \notin P
    PROVE  Linked(fr2, en, cl, n + 1, clk, J, P)
<1>1. \A k \in 2..n : fr2[k] = fr[k] /\ fr2[k - 1] = fr[k - 1]
  <2> SUFFICES ASSUME NEW k \in 2..n PROVE fr2[k] = fr[k] /\ fr2[k - 1] = fr[k - 1]
    OBVIOUS
  <2>1. k \in 1..n /\ k - 1 \in 1..n
    OBVIOUS
  <2> QED
    BY <2>1
<1>2. \A k \in 2..n : \A l, b : Awaits(fr, en, cl, k, l, b) => Awaits(fr2, en, cl, k, l, b)
  BY <1>1 DEF Awaits
<1>3. \A k \in 2..n : \A l, b : Heads(fr2, en, cl, k, l, b) => Heads(fr, en, cl, k, l, b)
  BY <1>1 DEF Heads
<1>4. \A k \in 2..(n + 1) : k \in 2..n \/ k = n + 1
  OBVIOUS
<1>5. \A k \in 2..n : k \in 2..(n + 1)
  OBVIOUS
<1>6. \A l, b : <<l, b>> \in J => (\E c : <<l, c>> \in P) \/ \E k \in 2..(n + 1) : Awaits(fr2, en, cl, k, l, b)
  BY <1>2, <1>5 DEF Linked, Labelled, Agreed, Resolved, Headed, Pending
<1>7. \A k \in 2..(n + 1) : \A l, b : Heads(fr2, en, cl, k, l, b) => <<l, b>> \in P
  BY <1>3, <1>4 DEF Linked, Headed
<1>8. \A k \in 2..(n + 1) : \A l, b : Reserves(fr2[k], l) => <<l, b>> \notin P
  BY <1>1, <1>4 DEF Linked, Labelled, Agreed, Resolved, Headed, Pending
<1> QED
  BY <1>6, <1>7, <1>8 DEF Linked, Labelled, Agreed, Resolved, Headed, Pending

\* The innermost construct changes.
LEMMA LinkedRetop ==
    ASSUME NEW n \in Nat, n >= 2, NEW clk \in Nat, NEW fr, NEW en, NEW cl, NEW J, NEW P,
           Linked(fr, en, cl, n, clk, J, P),
           NEW fr2, \A k \in 1..(n - 1) : fr2[k] = fr[k],
           \A l, b : Awaits(fr, en, cl, n, l, b) => Awaits(fr2, en, cl, n, l, b),
           \A l, b : Heads(fr2, en, cl, n, l, b) => <<l, b>> \in P,
           \A l, b : Reserves(fr2[n], l) => <<l, b>> \notin P
    PROVE  Linked(fr2, en, cl, n, clk, J, P)
<1>1. \A k \in 2..n : k = n \/ (fr2[k] = fr[k] /\ fr2[k - 1] = fr[k - 1])
  <2> SUFFICES ASSUME NEW k \in 2..n, k # n PROVE fr2[k] = fr[k] /\ fr2[k - 1] = fr[k - 1]
    OBVIOUS
  <2>1. k \in 1..(n - 1) /\ k - 1 \in 1..(n - 1)
    OBVIOUS
  <2> QED
    BY <2>1
<1>2. \A k \in 2..n : \A l, b : Awaits(fr, en, cl, k, l, b) => Awaits(fr2, en, cl, k, l, b)
  BY <1>1 DEF Awaits
<1>3. \A k \in 2..n : \A l, b : Heads(fr2, en, cl, k, l, b) => <<l, b>> \in P
  <2>1. \A k \in 2..n : k # n => \A l, b : Heads(fr2, en, cl, k, l, b) => Heads(fr, en, cl, k, l, b)
    BY <1>1 DEF Heads
  <2> QED
    BY <2>1 DEF Linked, Headed
<1>4. \A k \in 2..n : \A l, b : Reserves(fr2[k], l) => <<l, b>> \notin P
  BY <1>1 DEF Linked, Labelled, Agreed, Resolved, Headed, Pending
<1> QED
  BY <1>2, <1>3, <1>4 DEF Linked, Labelled, Agreed, Resolved, Headed, Pending

Awaited(fr, en, cl, n, l, b) == \A c : Awaits(fr, en, cl, n, l, c) => c = b

\* Jumps to a reserved label come from its construct.
LEMMA ReservedAgrees ==
    ASSUME NEW n \in Nat, n >= 2, NEW clk \in Nat, NEW fr, NEW en, NEW cl, NEW J, NEW P,
           Linked(fr, en, cl, n, clk, J, P), Increasing(fr, n, clk),
           NEW l, Reserves(fr[n], l), NEW b, Awaited(fr, en, cl, n, l, b)
    PROVE  /\ \A c : <<l, c>> \in J \cup P => c = b
           /\ \A k \in 2..(n - 1) : ~Reserves(fr[k], l)
<1>1. n \in 2..n /\ n \in 1..n
  OBVIOUS
<1>2. \A c : <<l, c>> \notin P
  BY <1>1 DEF Linked, Labelled, Agreed, Resolved, Headed, Pending
<1>3. \A k \in 2..n : Reserves(fr[k], l) => k = n
  <2>1. \A k \in 2..n : k \in 1..n
    OBVIOUS
  <2>2. \A j \in 1..n : Reserves(fr[j], l) => j = n
    BY <1>1, ReservedOnce, SMTT(20)
  <2> QED
    BY <2>1, <2>2
<1>4. \A c : <<l, c>> \in J => Awaits(fr, en, cl, n, l, c)
  BY <1>2, <1>3, AwaitsReserved DEF Linked, Resolved
<1>5. \A k \in 2..(n - 1) : k \in 2..n /\ k # n
  OBVIOUS
<1> QED
  BY <1>2, <1>3, <1>4, <1>5 DEF Awaited

\* The innermost construct places a label it reserved, and goes on.
LEMMA LinkedNext ==
    ASSUME NEW n \in Nat, n >= 2, NEW clk \in Nat, NEW fr, NEW en, NEW cl, NEW J, NEW P,
           Linked(fr, en, cl, n, clk, J, P), Increasing(fr, n, clk),
           NEW l \in LabelName, Reserves(fr[n], l), NEW b, Awaited(fr, en, cl, n, l, b),
           NEW fr2, \A k \in 1..(n - 1) : fr2[k] = fr[k],
           \A x, c : Awaits(fr, en, cl, n, x, c) /\ x # l => Awaits(fr2, en, cl, n, x, c),
           \A x, c : ~Heads(fr2, en, cl, n, x, c),
           \A x : Reserves(fr2[n], x) => x # l /\ \A c : <<x, c>> \notin P
    PROVE  Linked(fr2, en, cl, n, clk, J, P \cup {<<l, b>>})
<1>1. /\ \A c : <<l, c>> \in J \cup P => c = b
      /\ \A k \in 2..(n - 1) : ~Reserves(fr[k], l)
  <2>1. \A c : <<l, c>> \in J \cup P => c = b
    BY ReservedAgrees
  <2>2. \A k \in 2..(n - 1) : ~Reserves(fr[k], l)
    BY ReservedAgrees
  <2> QED
    BY <2>1, <2>2
<1>2. l.id < clk
  <2>1. n \in 1..n
    OBVIOUS
  <2> QED
    BY <2>1, ReservedOnce
<1>3. \A x, y : <<x, y>> \in P \cup {<<l, b>>} => <<x, y>> \in P \/ (x = l /\ y = b)
  OBVIOUS
<1>4. \A x, y : <<x, y>> \in J \cup (P \cup {<<l, b>>}) => <<x, y>> \in J \cup P \/ (x = l /\ y = b)
  OBVIOUS
<1>5. \A x, y : <<x, y>> \in J \cup (P \cup {<<l, b>>}) => x \in LabelName /\ x.id < clk
  BY <1>2, <1>4 DEF Linked, Labelled, Agreed, Resolved, Headed, Pending
<1>6. \A x, y, c : <<x, y>> \in P \cup {<<l, b>>} /\ <<x, c>> \in J \cup (P \cup {<<l, b>>}) => y = c
  <2> SUFFICES ASSUME NEW x, NEW y, NEW c, <<x, y>> \in P \cup {<<l, b>>},
                      <<x, c>> \in J \cup (P \cup {<<l, b>>})
               PROVE  y = c
    OBVIOUS
  <2>1. CASE x = l
    <3>1. y = b
      BY <1>1, <1>3, <2>1
    <3>2. c = b
      BY <1>1, <1>4, <2>1
    <3> QED
      BY <3>1, <3>2
  <2>2. CASE x # l
    BY <1>3, <1>4, <2>2 DEF Linked, Labelled, Agreed, Resolved, Headed, Pending
  <2> QED
    BY <2>1, <2>2
<1>7. \A k \in 2..n : k = n \/ (k \in 2..(n - 1) /\ fr2[k] = fr[k] /\ fr2[k - 1] = fr[k - 1])
  <2> SUFFICES ASSUME NEW k \in 2..n, k # n
               PROVE  k \in 2..(n - 1) /\ fr2[k] = fr[k] /\ fr2[k - 1] = fr[k - 1]
    OBVIOUS
  <2>1. k \in 1..(n - 1) /\ k - 1 \in 1..(n - 1) /\ k \in 2..(n - 1)
    OBVIOUS
  <2> QED
    BY <2>1
<1>8. \A x, y : <<x, y>> \in J =>
         (\E c : <<x, c>> \in P \cup {<<l, b>>}) \/ \E k \in 2..n : Awaits(fr2, en, cl, k, x, y)
  <2> SUFFICES ASSUME NEW x, NEW y, <<x, y>> \in J, x # l, \A c : <<x, c>> \notin P
               PROVE  \E k \in 2..n : Awaits(fr2, en, cl, k, x, y)
    OBVIOUS
  <2>1. PICK k \in 2..n : Awaits(fr, en, cl, k, x, y)
    BY DEF Linked, Labelled, Agreed, Resolved, Headed, Pending
  <2>2. CASE k = n
    BY <2>1, <2>2
  <2>3. CASE k # n
    <3>1. fr2[k] = fr[k] /\ fr2[k - 1] = fr[k - 1]
      BY <1>7, <2>3
    <3>2. Awaits(fr2, en, cl, k, x, y)
      BY <2>1, <3>1 DEF Awaits
    <3> QED
      BY <3>2
  <2> QED
    BY <2>2, <2>3
<1>9. \A k \in 2..n : \A x, y : Heads(fr2, en, cl, k, x, y) => <<x, y>> \in P \cup {<<l, b>>}
  <2> SUFFICES ASSUME NEW k \in 2..n, NEW x, NEW y, Heads(fr2, en, cl, k, x, y)
               PROVE  <<x, y>> \in P
    OBVIOUS
  <2>1. k # n
    OBVIOUS
  <2>2. fr2[k] = fr[k] /\ fr2[k - 1] = fr[k - 1]
    BY <1>7, <2>1
  <2>3. Heads(fr, en, cl, k, x, y)
    BY <2>2 DEF Heads
  <2> QED
    BY <2>3 DEF Linked, Labelled, Agreed, Resolved, Headed, Pending
<1>10. \A k \in 2..n : \A x, y : Reserves(fr2[k], x) => <<x, y>> \notin P \cup {<<l, b>>}
  <2> SUFFICES ASSUME NEW k \in 2..n, NEW x, NEW y, Reserves(fr2[k], x)
               PROVE  <<x, y>> \notin P /\ x # l
    BY <1>3
  <2>1. CASE k = n
    BY <2>1
  <2>2. CASE k # n
    <3>1. k \in 2..(n - 1) /\ Reserves(fr[k], x)
      BY <1>7, <2>2
    <3> QED
      BY <1>1, <3>1 DEF Linked, Labelled, Agreed, Resolved, Headed, Pending
  <2> QED
    BY <2>1, <2>2
<1> QED
  BY <1>5, <1>6, <1>8, <1>9, <1>10 DEF Linked, Labelled, Agreed, Resolved, Headed, Pending

\* The innermost construct is left without a label.
LEMMA LinkedDrop ==
    ASSUME NEW n \in Nat, n >= 2, NEW clk \in Nat, NEW fr, NEW en, NEW cl, NEW J, NEW P,
           Linked(fr, en, cl, n, clk, J, P),
           \A l, b : <<l, b>> \in J /\ Awaits(fr, en, cl, n, l, b) => \E c : <<l, c>> \in P
    PROVE  Linked(fr, en, cl, n - 1, clk, J, P)
<1>1. \A k \in 2..n : k = n \/ k \in 2..(n - 1)
  OBVIOUS
<1>2. \A k \in 2..(n - 1) : k \in 2..n
  OBVIOUS
<1>3. \A l, b : <<l, b>> \in J =>
         (\E c : <<l, c>> \in P) \/ \E k \in 2..(n - 1) : Awaits(fr, en, cl, k, l, b)
  BY <1>1 DEF Linked, Labelled, Agreed, Resolved, Headed, Pending
<1>4. \A k \in 2..(n - 1) : \A l, b : Heads(fr, en, cl, k, l, b) => <<l, b>> \in P
  BY <1>2 DEF Linked, Labelled, Agreed, Resolved, Headed, Pending
<1>5. \A k \in 2..(n - 1) : \A l, b : Reserves(fr[k], l) => <<l, b>> \notin P
  BY <1>2 DEF Linked, Labelled, Agreed, Resolved, Headed, Pending
<1> QED
  BY <1>3, <1>4, <1>5 DEF Linked, Labelled, Agreed, Resolved, Headed, Pending

\* The innermost construct places its exit and is left.
LEMMA LinkedExit ==
    ASSUME NEW n \in Nat, n >= 2, NEW clk \in Nat, NEW fr, NEW en, NEW cl, NEW J, NEW P,
           Linked(fr, en, cl, n, clk, J, P), Increasing(fr, n, clk),
           NEW l \in LabelName, Reserves(fr[n], l), NEW b,
           \A x, c : Awaits(fr, en, cl, n, x, c) => x = l /\ c = b
    PROVE  Linked(fr, en, cl, n - 1, clk, J, P \cup {<<l, b>>})
<1>1. /\ \A c : <<l, c>> \in J \cup P => c = b
      /\ \A k \in 2..(n - 1) : ~Reserves(fr[k], l)
  <2>1. Awaited(fr, en, cl, n, l, b)
    BY DEF Awaited
  <2> QED
    BY <2>1, ReservedAgrees
<1>2. l.id < clk
  <2>1. n \in 1..n
    OBVIOUS
  <2> QED
    BY <2>1, ReservedOnce
<1>3. \A x, y : <<x, y>> \in P \cup {<<l, b>>} => <<x, y>> \in P \/ (x = l /\ y = b)
  OBVIOUS
<1>4. \A x, y : <<x, y>> \in J \cup (P \cup {<<l, b>>}) => <<x, y>> \in J \cup P \/ (x = l /\ y = b)
  OBVIOUS
<1>5. \A x, y : <<x, y>> \in J \cup (P \cup {<<l, b>>}) => x \in LabelName /\ x.id < clk
  BY <1>2, <1>4 DEF Linked, Labelled, Agreed, Resolved, Headed, Pending
<1>6. \A x, y, c : <<x, y>> \in P \cup {<<l, b>>} /\ <<x, c>> \in J \cup (P \cup {<<l, b>>}) => y = c
  <2> SUFFICES ASSUME NEW x, NEW y, NEW c, <<x, y>> \in P \cup {<<l, b>>},
                      <<x, c>> \in J \cup (P \cup {<<l, b>>})
               PROVE  y = c
    OBVIOUS
  <2>1. CASE x = l
    <3>1. y = b
      BY <1>1, <1>3, <2>1
    <3>2. c = b
      BY <1>1, <1>4, <2>1
    <3> QED
      BY <3>1, <3>2
  <2>2. CASE x # l
    BY <1>3, <1>4, <2>2 DEF Linked, Labelled, Agreed, Resolved, Headed, Pending
  <2> QED
    BY <2>1, <2>2
<1>7. \A k \in 2..n : k = n \/ k \in 2..(n - 1)
  OBVIOUS
<1>8. \A k \in 2..(n - 1) : k \in 2..n
  OBVIOUS
<1>9. \A x, y : <<x, y>> \in J =>
         (\E c : <<x, c>> \in P \cup {<<l, b>>}) \/ \E k \in 2..(n - 1) : Awaits(fr, en, cl, k, x, y)
  <2> SUFFICES ASSUME NEW x, NEW y, <<x, y>> \in J
               PROVE  (\E c : <<x, c>> \in P \cup {<<l, b>>})
                        \/ \E k \in 2..(n - 1) : Awaits(fr, en, cl, k, x, y)
    OBVIOUS
  <2>1. CASE \E c : <<x, c>> \in P
    BY <2>1
  <2>2. CASE \E k \in 2..n : Awaits(fr, en, cl, k, x, y)
    <3>1. PICK k \in 2..n : Awaits(fr, en, cl, k, x, y)
      BY <2>2
    <3>2. CASE k = n
      BY <3>1, <3>2
    <3>3. CASE k # n
      BY <1>7, <3>1, <3>3
    <3> QED
      BY <3>2, <3>3
  <2> QED
    BY <2>1, <2>2 DEF Linked, Resolved
<1>10. \A k \in 2..(n - 1) : \A x, y : Heads(fr, en, cl, k, x, y) => <<x, y>> \in P \cup {<<l, b>>}
  BY <1>8 DEF Linked, Headed
<1>11. \A k \in 2..(n - 1) : \A x, y : Reserves(fr[k], x) => <<x, y>> \notin P \cup {<<l, b>>}
  BY <1>1, <1>3, <1>8 DEF Linked, Pending
<1> QED
  BY <1>5, <1>6, <1>9, <1>10, <1>11 DEF Linked, Labelled, Agreed, Resolved, Headed, Pending

----------------------------------------------------------------------------
(* The frames.                                                              *)

FrameOk(fr, k) ==
    /\ fr[k].returns => fr[k].dead
    /\ fr[k].allRet => ~fr[k].merged
    /\ fr[k].kind \in Loops => fr[k].loop = k
    /\ fr[k].loop # 0 =>
          /\ fr[k].loop >= 2 /\ fr[k].loop <= k
          /\ fr[fr[k].loop].kind \in Loops
          /\ fr[fr[k].loop].kind = "while" => fr[k].target = fr[fr[k].loop].id

DeadInside(fr, n) == \A k \in 1..n : \A j \in 1..(k - 1) : fr[j].dead => fr[k].dead

\* The blocks are opened one after another, one that returns is terminated, and
\* nothing is lowered inside a terminated block.
FrameInv ==
    verdict = "checking" =>
        /\ Increasing(frames, Depth, clock)
        /\ \A k \in 1..Depth : FrameOk(frames, k)
        /\ DeadInside(frames, Depth)

\* The types of the open frames.
LEMMA FrameTypes ==
    ASSUME TypeInv, verdict = "checking"
    PROVE  /\ frames \in Seq(Frame) /\ Depth \in Nat \ {0} /\ Depth = Len(frames) /\ clock \in Nat
           /\ \A k \in 1..Depth : /\ frames[k] \in Frame
                                  /\ frames[k].id \in Nat /\ frames[k].arm \in Nat
                                  /\ frames[k].loop \in Nat /\ frames[k].target \in Nat
                                  /\ frames[k].dead \in BOOLEAN /\ frames[k].returns \in BOOLEAN
                                  /\ frames[k].covered \in BOOLEAN /\ frames[k].merged \in BOOLEAN
                                  /\ frames[k].allRet \in BOOLEAN
                                  /\ frames[k].entry \in SUBSET Roots
                                  /\ frames[k].exits \in SUBSET (SUBSET Roots)
           /\ Depth \in 1..Depth /\ Top = frames[Depth]
<1>1. frames \in Seq(Frame) /\ Depth \in Nat \ {0} /\ Depth = Len(frames) /\ clock \in Nat
  BY TopType DEF TypeInv, TypeOK, Depth
<1>2. \A k \in 1..Depth : frames[k] \in Frame
  BY <1>1
<1>3. Depth \in 1..Depth /\ Top = frames[Depth]
  BY <1>1 DEF Top
<1> QED
  BY <1>1, <1>2, <1>3 DEF Frame

\* What a step does to the frames.
MarksTop(fr, f) ==
    /\ f.kind = fr[Len(fr)].kind /\ f.id = fr[Len(fr)].id /\ f.arm = fr[Len(fr)].arm
    /\ f.entry = fr[Len(fr)].entry /\ f.exits = fr[Len(fr)].exits
    /\ f.covered = fr[Len(fr)].covered /\ f.allRet = fr[Len(fr)].allRet
    /\ f.merged = fr[Len(fr)].merged /\ f.loop = fr[Len(fr)].loop /\ f.target = fr[Len(fr)].target
    /\ fr[Len(fr)].dead => f.dead
    /\ f.returns => f.dead

\* The fields of a marked frame.
LEMMA MarkIs ==
    ASSUME NEW f \in Frame, NEW ret \in BOOLEAN, NEW end \in BOOLEAN
    PROVE  /\ Mark(f, ret, end) \in Frame
           /\ Mark(f, ret, end).kind = f.kind /\ Mark(f, ret, end).id = f.id
           /\ Mark(f, ret, end).arm = f.arm /\ Mark(f, ret, end).entry = f.entry
           /\ Mark(f, ret, end).exits = f.exits /\ Mark(f, ret, end).covered = f.covered
           /\ Mark(f, ret, end).allRet = f.allRet /\ Mark(f, ret, end).merged = f.merged
           /\ Mark(f, ret, end).loop = f.loop /\ Mark(f, ret, end).target = f.target
           /\ Mark(f, ret, end).dead = (f.dead \/ end)
           /\ Mark(f, ret, end).returns = (f.returns \/ ret)
  BY DEF Mark, Frame

\* The fields of a new frame.
LEMMA NewFrameIs ==
    ASSUME NEW kind, NEW entry
    PROVE  /\ NewFrame(kind, entry).kind = kind /\ NewFrame(kind, entry).id = clock
           /\ NewFrame(kind, entry).arm = clock /\ NewFrame(kind, entry).entry = entry
           /\ NewFrame(kind, entry).exits = {} /\ ~NewFrame(kind, entry).covered
           /\ NewFrame(kind, entry).allRet /\ ~NewFrame(kind, entry).merged
           /\ ~NewFrame(kind, entry).returns /\ NewFrame(kind, entry).dead = Top.dead
           /\ NewFrame(kind, entry).loop = (IF kind \in {"while", "for"} THEN Depth + 1 ELSE Top.loop)
           /\ NewFrame(kind, entry).target = (IF kind = "while" THEN clock ELSE Top.target)
  BY DEF NewFrame

\* The fields of a frame whose next arm is opened.
LEMMA ReopenedIs ==
    ASSUME NEW f \in Frame, NEW id \in Nat, NEW exits \in SUBSET (SUBSET Roots),
           NEW isElse \in BOOLEAN, NEW dead \in BOOLEAN
    PROVE  /\ Reopened(f, id, exits, isElse, dead).kind = f.kind
           /\ Reopened(f, id, exits, isElse, dead).id = f.id
           /\ Reopened(f, id, exits, isElse, dead).arm = id
           /\ Reopened(f, id, exits, isElse, dead).entry = f.entry
           /\ Reopened(f, id, exits, isElse, dead).exits = exits
           /\ Reopened(f, id, exits, isElse, dead).covered = isElse
           /\ Reopened(f, id, exits, isElse, dead).allRet = (f.allRet /\ f.returns)
           /\ ~Reopened(f, id, exits, isElse, dead).returns
           /\ Reopened(f, id, exits, isElse, dead).dead = dead
           /\ Reopened(f, id, exits, isElse, dead).merged = (f.merged \/ ~f.dead)
           /\ Reopened(f, id, exits, isElse, dead).loop = f.loop
           /\ Reopened(f, id, exits, isElse, dead).target = f.target
  BY DEF Reopened, Frame

FramesKept   == frames' = frames
FramesMarked == \E f : SetTop(f) /\ MarksTop(frames, f)
FramesPushed == \E kind \in {"if", "while", "for"}, entry \in SUBSET Roots :
                   frames' = Append(frames, NewFrame(kind, entry))
FramesTurned == Top.kind = "if" /\ \E isElse \in BOOLEAN : SetTop(NextFrame(isElse))
FramesPopped == Depth >= 2 /\ frames' = SubSeq(frames, 1, Depth - 1)
FramesJoined ==
    /\ Depth >= 2
    /\ \E f : MarksTop(SubSeq(frames, 1, Depth - 1), f)
                /\ frames' = Append(SubSeq(frames, 1, Depth - 2), f)

\* The frames up to n are as before, apart from flags of the last.
LEMMA FramesAgree ==
    ASSUME NEW fr, NEW fr2, NEW n \in Nat, NEW clk \in Nat,
           Increasing(fr, n, clk), \A k \in 1..n : FrameOk(fr, k), DeadInside(fr, n),
           \A k \in 1..n : fr[k].loop \in Nat /\ fr[k].dead \in BOOLEAN,
           \A k \in 1..n : /\ fr2[k].kind = fr[k].kind /\ fr2[k].id = fr[k].id
                           /\ fr2[k].arm = fr[k].arm /\ fr2[k].allRet = fr[k].allRet
                           /\ fr2[k].merged = fr[k].merged /\ fr2[k].loop = fr[k].loop
                           /\ fr2[k].target = fr[k].target
                           /\ fr[k].dead => fr2[k].dead
                           /\ fr2[k].returns => fr2[k].dead
                           /\ k < n => fr2[k].dead = fr[k].dead
    PROVE  /\ Increasing(fr2, n, clk + 1)
           /\ \A k \in 1..n : FrameOk(fr2, k)
           /\ DeadInside(fr2, n)
<1>1. Increasing(fr2, n, clk + 1)
  <2> SUFFICES ASSUME NEW k \in 1..n
               PROVE  /\ fr2[k].id \in Nat /\ fr2[k].arm \in Nat /\ fr2[k].id <= fr2[k].arm
                      /\ fr2[k].arm < clk + 1
                      /\ \A j \in 1..(k - 1) : fr2[j].arm < fr2[k].id
    BY DEF Increasing
  <2>1. \A j \in 1..(k - 1) : j \in 1..n
    OBVIOUS
  <2> QED
    BY <2>1 DEF Increasing
<1>2. ASSUME NEW k \in 1..n PROVE FrameOk(fr2, k)
  <2>1. FrameOk(fr, k)
    OBVIOUS
  <2>2. fr[k].loop # 0 => fr[k].loop \in 1..n
    BY <2>1 DEF FrameOk
  <2> QED
    BY <2>1, <2>2 DEF FrameOk
<1>3. DeadInside(fr2, n)
  <2> SUFFICES ASSUME NEW k \in 1..n, NEW j \in 1..(k - 1), fr2[j].dead PROVE fr2[k].dead
    BY DEF DeadInside
  <2>1. j \in 1..n /\ j < n
    OBVIOUS
  <2>2. fr[j].dead
    BY <2>1
  <2>3. fr[k].dead
    BY <2>2 DEF DeadInside
  <2> QED
    BY <2>3
<1> QED
  BY <1>1, <1>2, <1>3

\* One more frame inside.
LEMMA FramesGrow ==
    ASSUME NEW fr, NEW fr2, NEW n \in Nat, NEW clk \in Nat,
           Increasing(fr, n, clk), \A k \in 1..n : FrameOk(fr, k), DeadInside(fr, n),
           \A k \in 1..n : fr[k].loop \in Nat,
           \A k \in 1..n : fr2[k] = fr[k],
           fr2[n + 1].id \in Nat, fr2[n + 1].arm \in Nat,
           fr2[n + 1].id <= fr2[n + 1].arm, fr2[n + 1].arm < clk + 1,
           \A j \in 1..n : fr[j].arm < fr2[n + 1].id,
           FrameOk(fr2, n + 1),
           \A j \in 1..n : fr[j].dead => fr2[n + 1].dead
    PROVE  /\ Increasing(fr2, n + 1, clk + 1)
           /\ \A k \in 1..(n + 1) : FrameOk(fr2, k)
           /\ DeadInside(fr2, n + 1)
<1>1. \A k \in 1..(n + 1) : k \in 1..n \/ k = n + 1
  OBVIOUS
<1>2. \A k \in 1..(n + 1) : \A j \in 1..(k - 1) : j \in 1..n
  OBVIOUS
<1>3. Increasing(fr2, n + 1, clk + 1)
  <2> SUFFICES ASSUME NEW k \in 1..(n + 1)
               PROVE  /\ fr2[k].id \in Nat /\ fr2[k].arm \in Nat /\ fr2[k].id <= fr2[k].arm
                      /\ fr2[k].arm < clk + 1
                      /\ \A j \in 1..(k - 1) : fr2[j].arm < fr2[k].id
    BY DEF Increasing
  <2>1. CASE k \in 1..n
    BY <1>2, <2>1 DEF Increasing
  <2>2. CASE k = n + 1
    BY <1>2, <2>2
  <2> QED
    BY <1>1, <2>1, <2>2
<1>4. ASSUME NEW k \in 1..(n + 1) PROVE FrameOk(fr2, k)
  <2>1. CASE k \in 1..n
    <3>1. FrameOk(fr, k)
      BY <2>1
    <3>2. fr[k].loop # 0 => fr[k].loop \in 1..n
      BY <2>1, <3>1 DEF FrameOk
    <3> QED
      BY <2>1, <3>1, <3>2 DEF FrameOk
  <2> QED
    BY <1>1, <2>1
<1>5. DeadInside(fr2, n + 1)
  <2> SUFFICES ASSUME NEW k \in 1..(n + 1), NEW j \in 1..(k - 1), fr2[j].dead PROVE fr2[k].dead
    BY DEF DeadInside
  <2>1. j \in 1..n /\ fr[j].dead
    BY <1>2
  <2>2. CASE k \in 1..n
    BY <2>1, <2>2 DEF DeadInside
  <2> QED
    BY <1>1, <2>1, <2>2
<1> QED
  BY <1>3, <1>4, <1>5

\* What relates the frames relates the frames below the innermost.
LEMMA FramesShrink ==
    ASSUME NEW fr, NEW n \in Nat, NEW clk, Increasing(fr, n, clk),
           \A k \in 1..n : FrameOk(fr, k), DeadInside(fr, n)
    PROVE  /\ Increasing(fr, n - 1, clk)
           /\ \A k \in 1..(n - 1) : FrameOk(fr, k)
           /\ DeadInside(fr, n - 1)
<1>1. \A k \in 1..(n - 1) : k \in 1..n
  OBVIOUS
<1> QED
  BY <1>1 DEF Increasing, DeadInside

\* Appending to a sequence, whatever the element.
LEMMA AppendAny ==
    ASSUME NEW S, NEW s \in Seq(S), NEW f
    PROVE  /\ Len(Append(s, f)) = Len(s) + 1
           /\ Append(s, f)[Len(s) + 1] = f
           /\ \A k \in 1..Len(s) : Append(s, f)[k] = s[k]
<1>1. s \in Seq(S \cup {f}) /\ f \in S \cup {f}
  OBVIOUS
<1> QED
  BY <1>1

\* A step that goes on keeps, marks, pushes, turns, pops or joins the frames.
LEMMA FrameKinds ==
    ASSUME TypeInv, FrameInv, verdict = "checking", Next, verdict' = "checking"
    PROVE  /\ clock' = clock + 1
           /\ \/ FramesKept \/ FramesMarked \/ FramesPushed
              \/ FramesTurned \/ FramesPopped \/ FramesJoined
<1>0. ~Reject
  BY DEF Reject
<1>1. /\ Depth \in 1..Depth /\ Depth = Len(frames) /\ Top = frames[Depth] /\ Top \in Frame
      /\ Top.returns \in BOOLEAN /\ Top.dead \in BOOLEAN /\ Top.allRet \in BOOLEAN
      /\ Top.covered \in BOOLEAN /\ Top.merged \in BOOLEAN
  BY FrameTypes
<1>2. FrameOk(frames, Depth)
  BY <1>1 DEF FrameInv
<1>3. ASSUME NEW ret \in BOOLEAN, NEW end \in BOOLEAN, ret => end
      PROVE  MarksTop(frames, Mark(Top, ret, end))
  <2>1. Top.returns => Top.dead
    BY <1>1, <1>2 DEF FrameOk
  <2>2. PICK f : f = Mark(Top, ret, end)
    OBVIOUS
  <2>3. /\ f.kind = Top.kind /\ f.id = Top.id
        /\ f.arm = Top.arm /\ f.entry = Top.entry
        /\ f.exits = Top.exits /\ f.covered = Top.covered
        /\ f.allRet = Top.allRet /\ f.merged = Top.merged
        /\ f.loop = Top.loop /\ f.target = Top.target
        /\ f.dead = (Top.dead \/ end)
        /\ f.returns = (Top.returns \/ ret)
    <3>1. Top \in Frame
      BY <1>1
    <3> QED
      BY <2>2, <3>1, MarkIs
  <2>4. (Top.dead => f.dead) /\ (f.returns => f.dead)
    BY <1>3, <2>1, <2>3
  <2>5. Top = frames[Len(frames)]
    BY <1>1
  <2> QED
    BY <2>2, <2>3, <2>4, <2>5 DEF MarksTop
<1>4. CASE \/ \E r \in Roots, s \in MaybeRoot : Let(r, s) \/ Assign(r, s)
           \/ \E r \in Roots : Use(r) \/ Take(r) \/ Borrow(r)
           \/ \E r \in Roots, how \in {"use", "borrow", "take"}, onErr \in BOOLEAN :
                CheckDefer(r, how, onErr)
           \/ CheckReturnOnError
  BY <1>0, <1>4 DEF Let, Assign, Use, Take, Borrow, CheckDefer, CheckReturnOnError, Element, FramesKept
<1>5. CASE \E s \in MaybeRoot, class \in ExitClass : CheckReturn(s, class)
  <2>1. clock' = clock + 1 /\ SetTop(Mark(Top, TRUE, TRUE))
    BY <1>0, <1>5 DEF CheckReturn, Element
  <2> QED
    BY <1>3, <2>1 DEF FramesMarked
<1>6. CASE Break
  <2>1. clock' = clock + 1 /\ SetTop(Mark(Top, FALSE, TRUE))
    BY <1>0, <1>6 DEF Break, Element
  <2> QED
    BY <1>3, <2>1 DEF FramesMarked
<1>7. CASE (\E c \in MaybeRoot : OpenIf(c) \/ OpenWhile(c)) \/ OpenFor
  <2>1. moved \in SUBSET Roots /\ \A c \in MaybeRoot : moved \cup Taken(c) \in SUBSET Roots
    BY RootTypes DEF TypeInv, TypeOK
  <2>2. clock' = clock + 1
    BY <1>0, <1>7 DEF OpenIf, OpenWhile, OpenFor, Element
  <2>3. FramesPushed
    BY <1>0, <1>7, <2>1 DEF OpenIf, OpenWhile, OpenFor, Element, FramesPushed
  <2> QED
    BY <2>2, <2>3
<1>8. CASE (\E c \in MaybeRoot : ElseIf(c)) \/ Else
  BY <1>0, <1>8 DEF ElseIf, Else, InsideOf, Construct, FramesTurned
<1>9. CASE EndIf
  <2> DEFINE reaches == Top.merged \/ ~Top.dead \/ ~Top.covered
             ret == Top.covered /\ Top.allRet /\ Top.returns
  <2>1. /\ clock' = clock + 1 /\ Top.kind = "if"
        /\ frames' = Append(SubSeq(frames, 1, Depth - 2), Mark(Parent, ret, ~reaches))
    BY <1>0, <1>9 DEF EndIf, InsideOf, Construct
  <2>2. Depth >= 2 /\ Parent \in Frame
    BY <2>1, TopType
  <2>3. ret \in BOOLEAN /\ (~reaches) \in BOOLEAN
    BY <1>1
  <2>4. ret => ~reaches
    BY <1>1, <1>2 DEF FrameOk
  <2>5. /\ Len(SubSeq(frames, 1, Depth - 1)) = Depth - 1
        /\ SubSeq(frames, 1, Depth - 1)[Depth - 1] = Parent
    BY <2>2, FrameTypes DEF Parent
  <2>6. Parent.returns => Parent.dead
    <3>1. Depth - 1 \in 1..Depth
      BY <1>1, <2>2, FrameTypes
    <3> QED
      BY <3>1 DEF FrameInv, FrameOk, Parent
  <2> HIDE DEF ret, reaches
  <2>7. MarksTop(SubSeq(frames, 1, Depth - 1), Mark(Parent, ret, ~reaches))
    <3>0. PICK end \in BOOLEAN : end = ~reaches
      BY <2>3
    <3>1. PICK f : f = Mark(Parent, ret, end)
      OBVIOUS
    <3>2. /\ f.kind = Parent.kind /\ f.id = Parent.id
          /\ f.arm = Parent.arm /\ f.entry = Parent.entry
          /\ f.exits = Parent.exits /\ f.covered = Parent.covered
          /\ f.allRet = Parent.allRet /\ f.merged = Parent.merged
          /\ f.loop = Parent.loop /\ f.target = Parent.target
          /\ f.dead = (Parent.dead \/ end)
          /\ f.returns = (Parent.returns \/ ret)
      BY <2>2, <2>3, <3>1, MarkIs
    <3>3. (Parent.dead => f.dead) /\ (f.returns => f.dead)
      BY <2>4, <2>6, <3>0, <3>2
    <3>4. MarksTop(SubSeq(frames, 1, Depth - 1), f)
      BY <2>5, <3>2, <3>3 DEF MarksTop
    <3> QED
      BY <3>0, <3>1, <3>4
  <2> QED
    BY <2>1, <2>2, <2>7 DEF FramesJoined
<1>10. CASE CloseLoop
  <2>1. clock' = clock + 1 /\ Top.kind # "body" /\ frames' = SubSeq(frames, 1, Depth - 1)
    BY <1>0, <1>10 DEF CloseLoop, InsideOf, Construct
  <2> QED
    BY <2>1, TopType DEF FramesPopped
<1>11. CASE \E s \in MaybeRoot, class \in ExitClass : EndBody(s, class)
  BY <1>0, <1>11 DEF EndBody
<1> QED
  BY <1>4, <1>5, <1>6, <1>7, <1>8, <1>9, <1>10, <1>11 DEF Next

\* The relations between the frames survive every step.
LEMMA FrameStep ==
    ASSUME TypeInv, FrameInv, verdict = "checking", Next
    PROVE  FrameInv'
<1> DEFINE Fine(fr, n, clk) == /\ Increasing(fr, n, clk)
                               /\ \A k \in 1..n : FrameOk(fr, k)
                               /\ DeadInside(fr, n)
<1> SUFFICES ASSUME verdict' = "checking"
             PROVE  Fine(frames', Depth', clock')
  BY DEF FrameInv
<1>1. /\ clock' = clock + 1 /\ clock \in Nat
      /\ FramesKept \/ FramesMarked \/ FramesPushed \/ FramesTurned \/ FramesPopped \/ FramesJoined
  BY FrameKinds, FrameTypes
<1>2. /\ Increasing(frames, Depth, clock)
      /\ \A k \in 1..Depth : FrameOk(frames, k)
      /\ DeadInside(frames, Depth)
  BY DEF FrameInv
<1>3. /\ frames \in Seq(Frame) /\ Depth \in Nat /\ Depth >= 1 /\ Depth = Len(frames)
      /\ Top = frames[Depth] /\ Depth' = Len(frames')
      /\ \A k \in 1..Depth : frames[k].loop \in Nat /\ frames[k].dead \in BOOLEAN
      /\ \A k \in 1..Depth : frames[k].returns => frames[k].dead
      /\ \A k \in 1..Depth : frames[k].id \in Nat /\ frames[k].arm \in Nat
                               /\ frames[k].id <= frames[k].arm /\ frames[k].arm < clock
  BY <1>2, FrameTypes DEF Depth, FrameOk, Increasing
<1>4. PICK fr2 : fr2 = frames'
  OBVIOUS
<1>5. CASE FramesKept
  <2>1. fr2 = frames /\ Depth' = Depth
    BY <1>3, <1>4, <1>5 DEF FramesKept
  <2>2. Fine(frames, Depth, clock + 1)
    BY <1>1, <1>2, <1>3, FramesAgree
  <2> QED
    BY <1>1, <1>4, <2>1, <2>2
<1>6. CASE FramesMarked
  <2>1. PICK f : SetTop(f) /\ MarksTop(frames, f)
    BY <1>6 DEF FramesMarked
  <2>2. /\ Depth' = Depth /\ fr2[Depth] = f
        /\ \A k \in 1..Depth : k < Depth => fr2[k] = frames[k]
    BY <1>3, <1>4, <2>1 DEF SetTop
  <2>3. \A k \in 1..Depth : k < Depth \/ k = Depth
    BY <1>3
  <2>4. ASSUME NEW k \in 1..Depth
        PROVE  /\ fr2[k].kind = frames[k].kind /\ fr2[k].id = frames[k].id
               /\ fr2[k].arm = frames[k].arm /\ fr2[k].allRet = frames[k].allRet
               /\ fr2[k].merged = frames[k].merged /\ fr2[k].loop = frames[k].loop
               /\ fr2[k].target = frames[k].target
               /\ frames[k].dead => fr2[k].dead
               /\ fr2[k].returns => fr2[k].dead
               /\ k < Depth => fr2[k].dead = frames[k].dead
    <3>1. CASE k < Depth
      BY <1>3, <2>2, <3>1
    <3>2. CASE k = Depth
      BY <1>3, <2>1, <2>2, <3>2 DEF MarksTop
    <3> QED
      BY <2>3, <3>1, <3>2
  <2>5. Fine(fr2, Depth, clock + 1)
    <3>1. \A k \in 1..Depth : frames[k].loop \in Nat /\ frames[k].dead \in BOOLEAN
      BY <1>3
    <3>2. Depth \in Nat /\ clock \in Nat
      BY <1>1, <1>3
    <3> QED
      BY <1>2, <2>4, <3>1, <3>2, FramesAgree
  <2> QED
    BY <1>1, <1>4, <2>2, <2>5
<1>7. CASE FramesPushed
  <2>1. PICK kind \in {"if", "while", "for"}, entry \in SUBSET Roots :
           frames' = Append(frames, NewFrame(kind, entry))
    BY <1>7 DEF FramesPushed
  <2>2. PICK f : f = NewFrame(kind, entry)
    OBVIOUS
  <2>3. /\ Depth' = Depth + 1 /\ fr2[Depth + 1] = f
        /\ \A k \in 1..Depth : fr2[k] = frames[k]
    BY <1>3, <1>4, <2>1, <2>2
  <2>4. /\ f.kind = kind /\ f.id = clock /\ f.arm = clock
        /\ f.allRet /\ ~f.merged /\ ~f.returns /\ f.dead = Top.dead
        /\ f.loop = (IF kind \in Loops THEN Depth + 1 ELSE Top.loop)
        /\ f.target = (IF kind = "while" THEN clock ELSE Top.target)
    <3>1. f.loop = (IF kind \in {"while", "for"} THEN Depth + 1 ELSE Top.loop)
      BY <2>2, NewFrameIs
    <3>2. f.loop = (IF kind \in Loops THEN Depth + 1 ELSE Top.loop)
      BY <3>1 DEF Loops
    <3>3. f.kind = kind /\ f.id = clock /\ f.arm = clock
      BY <2>2, NewFrameIs
    <3>4. f.target = (IF kind = "while" THEN clock ELSE Top.target)
      BY <2>2, NewFrameIs
    <3>5. f.allRet /\ ~f.merged
      BY <2>2, NewFrameIs
    <3>6. ~f.returns /\ f.dead = Top.dead
      BY <2>2, NewFrameIs
    <3> QED
      BY <3>2, <3>3, <3>4, <3>5, <3>6
  <2>5. FrameOk(frames, Depth) /\ Depth \in 1..Depth
    BY <1>2, <1>3
  <2>6. FrameOk(fr2, Depth + 1)
    <3>1. CASE kind \in Loops
      <4>1. f.loop = Depth + 1 /\ (kind = "while" => f.target = clock)
        BY <2>4, <3>1
      <4> QED
        BY <1>3, <2>3, <2>4, <3>1, <4>1 DEF FrameOk
    <3>2. CASE kind \notin Loops
      <4>1. f.loop = Top.loop /\ f.target = Top.target
        BY <2>4, <3>2 DEF Loops
      <4>2. Top.loop # 0 => Top.loop \in 1..Depth
        BY <1>3, <2>5 DEF FrameOk
      <4> QED
        BY <1>3, <2>3, <2>4, <2>5, <3>2, <4>1, <4>2 DEF FrameOk
    <3> QED
      BY <3>1, <3>2
  <2>7. \A j \in 1..Depth : frames[j].dead => f.dead
    <3>1. \A j \in 1..Depth : j = Depth \/ j \in 1..(Depth - 1)
      BY <1>3
    <3> QED
      BY <1>2, <1>3, <2>4, <2>5, <3>1 DEF DeadInside
  <2>8. Fine(fr2, Depth + 1, clock + 1)
    <3>1. /\ fr2[Depth + 1].id = clock /\ fr2[Depth + 1].arm = clock
          /\ \A j \in 1..Depth : frames[j].dead => fr2[Depth + 1].dead
      BY <2>3, <2>4, <2>7
    <3>2. /\ fr2[Depth + 1].id \in Nat /\ fr2[Depth + 1].arm \in Nat
          /\ fr2[Depth + 1].id <= fr2[Depth + 1].arm /\ fr2[Depth + 1].arm < clock + 1
          /\ \A j \in 1..Depth : frames[j].arm < fr2[Depth + 1].id
      BY <1>1, <1>3, <3>1
    <3>3. /\ \A k \in 1..Depth : frames[k].loop \in Nat
          /\ \A k \in 1..Depth : fr2[k] = frames[k]
      BY <1>3, <2>3
    <3> QED
      BY <1>1, <1>2, <1>3, <2>6, <3>1, <3>2, <3>3, FramesGrow
  <2> QED
    BY <1>1, <1>4, <2>3, <2>8
<1>8. CASE FramesTurned
  <2>1. PICK isElse \in BOOLEAN : SetTop(NextFrame(isElse)) /\ Top.kind = "if"
    BY <1>8 DEF FramesTurned
  <2>2. PICK f : f = NextFrame(isElse)
    OBVIOUS
  <2>3. Depth >= 2 /\ Top \in Frame /\ Parent \in Frame
    BY <2>1, TopType
  <2>4. Parent = frames[Depth - 1] /\ Depth - 1 \in 1..Depth
    BY <1>3, <2>3 DEF Parent
  <2>5. /\ Depth' = (Depth - 1) + 1 /\ fr2[(Depth - 1) + 1] = f
        /\ \A k \in 1..(Depth - 1) : fr2[k] = frames[k]
    BY <1>3, <1>4, <2>1, <2>2, <2>3 DEF SetTop
  <2>6. /\ f.kind = "if" /\ f.id = Top.id /\ f.arm = clock
        /\ f.allRet = (Top.allRet /\ Top.returns)
        /\ f.merged = (Top.merged \/ ~Top.dead) /\ ~f.returns /\ f.dead = Parent.dead
        /\ f.loop = Top.loop /\ f.target = Top.target
    <3>1. ArmExits \in SUBSET (SUBSET Roots) /\ Parent.dead \in BOOLEAN
      BY <1>3, <2>4, ExitsType
    <3>2. PICK exits \in SUBSET (SUBSET Roots), dead \in BOOLEAN : exits = ArmExits /\ dead = Parent.dead
      BY <3>1
    <3>3. f = Reopened(Top, clock, exits, isElse, dead)
      BY <2>2, <3>2 DEF NextFrame
    <3>4. clock \in Nat /\ Top \in Frame
      BY <1>1, <2>3
    <3>5. f.kind = Top.kind /\ f.id = Top.id /\ f.arm = clock /\ f.dead = dead
      BY <3>3, <3>4, ReopenedIs
    <3>6. f.loop = Top.loop /\ f.target = Top.target /\ ~f.returns
      BY <3>3, <3>4, ReopenedIs
    <3>7. f.allRet = (Top.allRet /\ Top.returns)
      BY <3>3, <3>4, ReopenedIs
    <3>8. f.merged = (Top.merged \/ ~Top.dead)
      BY <3>3, <3>4, ReopenedIs
    <3> QED
      BY <2>1, <3>2, <3>5, <3>6, <3>7, <3>8
  <2>7. FrameOk(frames, Depth) /\ Depth \in 1..Depth
    BY <1>2, <1>3
  <2>8. /\ Increasing(frames, Depth - 1, clock)
        /\ \A k \in 1..(Depth - 1) : FrameOk(frames, k)
        /\ DeadInside(frames, Depth - 1)
    BY <1>2, <1>3, FramesShrink
  <2>9. FrameOk(fr2, (Depth - 1) + 1)
    <3>1. Top.loop # 0 => Top.loop >= 2 /\ Top.loop <= Depth /\ frames[Top.loop].kind \in Loops
                            /\ (frames[Top.loop].kind = "while" => Top.target = frames[Top.loop].id)
      BY <1>3, <2>7 DEF FrameOk
    <3>2. Top.loop # 0 => Top.loop # Depth
      BY <1>3, <2>1, <3>1 DEF Loops
    <3>3. Top.loop # 0 => fr2[Top.loop] = frames[Top.loop] /\ Top.loop <= (Depth - 1) + 1
      BY <1>3, <2>5, <2>7, <3>1, <3>2
    <3>4. f.allRet => ~f.merged
      BY <1>3, <2>6, <2>7 DEF FrameOk
    <3> QED
      BY <2>5, <2>6, <3>1, <3>3, <3>4 DEF FrameOk, Loops
  <2>10. \A j \in 1..(Depth - 1) : frames[j].arm < f.id
    BY <1>2, <1>3, <2>6, <2>7 DEF Increasing
  <2>11. \A j \in 1..(Depth - 1) : frames[j].dead => f.dead
    <3>1. \A j \in 1..(Depth - 1) : j = Depth - 1 \/ j \in 1..((Depth - 1) - 1)
      BY <1>3
    <3> QED
      BY <1>2, <2>4, <2>6, <3>1 DEF DeadInside
  <2>12. f.id \in Nat /\ f.arm \in Nat /\ f.id <= f.arm /\ f.arm < clock + 1
    BY <1>1, <1>3, <2>6, <2>7
  <2>13. Depth - 1 \in Nat /\ \A k \in 1..(Depth - 1) : frames[k].loop \in Nat
    BY <1>3, <2>3
  <2>14. Fine(fr2, (Depth - 1) + 1, clock + 1)
    <3>1. /\ fr2[(Depth - 1) + 1].id \in Nat /\ fr2[(Depth - 1) + 1].arm \in Nat
          /\ fr2[(Depth - 1) + 1].id <= fr2[(Depth - 1) + 1].arm
          /\ fr2[(Depth - 1) + 1].arm < clock + 1
          /\ \A j \in 1..(Depth - 1) : frames[j].arm < fr2[(Depth - 1) + 1].id
          /\ \A j \in 1..(Depth - 1) : frames[j].dead => fr2[(Depth - 1) + 1].dead
          /\ \A k \in 1..(Depth - 1) : fr2[k] = frames[k]
      BY <2>5, <2>10, <2>11, <2>12
    <3> QED
      BY <1>1, <2>8, <2>9, <2>13, <3>1, FramesGrow
  <2> QED
    BY <1>1, <1>4, <2>5, <2>14
<1>9. CASE FramesPopped \/ FramesJoined
  <2>1. PICK n \in Nat : n = Depth - 1 /\ Depth >= 2
    <3>1. Depth >= 2
      BY <1>9 DEF FramesPopped, FramesJoined
    <3>2. Depth - 1 \in Nat
      BY <1>3, <3>1
    <3> QED
      BY <3>1, <3>2
  <2>2. /\ Increasing(frames, n, clock)
        /\ \A k \in 1..n : FrameOk(frames, k)
        /\ DeadInside(frames, n)
    BY <1>2, <1>3, <2>1, FramesShrink
  <2>3. /\ Depth' = n
        /\ \A k \in 1..n : k < n => fr2[k] = frames[k]
        /\ fr2[n] = frames[n] \/ \E f : MarksTop(SubSeq(frames, 1, n), f) /\ fr2[n] = f
    <3>1. CASE FramesPopped
      BY <1>3, <1>4, <2>1, <3>1 DEF FramesPopped
    <3>2. CASE FramesJoined
      <4>1. PICK f : MarksTop(SubSeq(frames, 1, Depth - 1), f)
                       /\ frames' = Append(SubSeq(frames, 1, Depth - 2), f)
        BY <3>2 DEF FramesJoined
      <4>2. PICK s : s = SubSeq(frames, 1, Depth - 2)
        OBVIOUS
      <4>3. s \in Seq(Frame) /\ Len(s) = Depth - 2 /\ \A k \in 1..(Depth - 2) : s[k] = frames[k]
        BY <1>3, <2>1, <4>2
      <4>4. fr2 = Append(s, f)
        BY <1>4, <4>1, <4>2
      <4>5. Len(fr2) = n /\ fr2[n] = f /\ \A k \in 1..n : k < n => fr2[k] = frames[k]
        <5>1. Len(fr2) = Len(s) + 1 /\ fr2[Len(s) + 1] = f
          BY <4>3, <4>4, AppendAny
        <5>2. \A k \in 1..Len(s) : fr2[k] = s[k]
          BY <4>3, <4>4, AppendAny
        <5>3. Len(s) + 1 = n /\ \A k \in 1..n : k < n => k \in 1..Len(s) /\ k \in 1..(Depth - 2)
          BY <1>3, <2>1, <4>3
        <5> QED
          BY <4>3, <5>1, <5>2, <5>3
      <4> QED
        BY <1>3, <1>4, <2>1, <4>1, <4>5
    <3> QED
      BY <1>9, <3>1, <3>2
  <2>4. \A k \in 1..n : k < n \/ k = n
    OBVIOUS
  <2>5. \A k \in 1..n : k \in 1..Depth
    BY <1>3, <2>1
  <2>6. Len(SubSeq(frames, 1, n)) = n /\ SubSeq(frames, 1, n)[n] = frames[n]
    BY <1>3, <2>1
  <2>7. ASSUME NEW k \in 1..n
        PROVE  /\ fr2[k].kind = frames[k].kind /\ fr2[k].id = frames[k].id
               /\ fr2[k].arm = frames[k].arm /\ fr2[k].allRet = frames[k].allRet
               /\ fr2[k].merged = frames[k].merged /\ fr2[k].loop = frames[k].loop
               /\ fr2[k].target = frames[k].target
               /\ frames[k].dead => fr2[k].dead
               /\ fr2[k].returns => fr2[k].dead
               /\ k < n => fr2[k].dead = frames[k].dead
    <3>1. CASE fr2[k] = frames[k]
      BY <1>3, <2>5, <3>1
    <3>2. CASE k = n /\ \E f : MarksTop(SubSeq(frames, 1, n), f) /\ fr2[n] = f
      BY <1>3, <2>6, <3>2 DEF MarksTop
    <3> QED
      BY <2>3, <2>4, <3>1, <3>2
  <2>8. \A k \in 1..n : frames[k].loop \in Nat /\ frames[k].dead \in BOOLEAN
    BY <1>3, <2>5
  <2>9. Fine(fr2, n, clock + 1)
    BY <1>1, <2>2, <2>7, <2>8, FramesAgree
  <2> QED
    BY <1>1, <1>4, <2>3, <2>9
<1> QED
  BY <1>1, <1>5, <1>6, <1>7, <1>8, <1>9

----------------------------------------------------------------------------
(* Names and calls.                                                         *)

Named(fr, names) ==
    \A k \in 1..Len(fr) : fr[k].entry \subseteq names /\ \A m \in fr[k].exits : m \subseteq names

\* What is in scope or moved, here or where a path waits to be joined, has been
\* declared.
NamesInv ==
    verdict = "checking" =>
        /\ InScope \subseteq declared
        /\ moved \subseteq declared
        /\ Named(frames, declared)

\* What a step moves has been declared.
LEMMA TakenNames ==
    ASSUME NamesInv, verdict = "checking", NEW s, s \in InScope \cup {None}
    PROVE  Taken(s) \subseteq declared
  BY DEF NamesInv, Taken

\* Whatever is in scope, moved or waiting to be joined stays declared.
LEMMA NamesStep ==
    ASSUME TypeInv, NamesInv, verdict = "checking", Next
    PROVE  NamesInv'
<1> SUFFICES ASSUME verdict' = "checking"
             PROVE  InScope' \subseteq declared' /\ moved' \subseteq declared' /\ Named(frames', declared')
  BY DEF NamesInv
<1>0. ~Reject
  BY DEF Reject
<1>1. InScope \subseteq declared /\ moved \subseteq declared /\ Named(frames, declared)
  BY DEF NamesInv
<1>2. /\ frames \in Seq(Frame) /\ Depth \in 1..Depth /\ Depth = Len(frames) /\ Top = frames[Depth]
      /\ Top \in Frame /\ Depth \in Nat
  BY FrameTypes
<1>3. Top.entry \subseteq declared /\ \A m \in Top.exits : m \subseteq declared
  BY <1>1, <1>2 DEF Named
<1>4. InScope = {b.root : b \in env} /\ InScope' = {b.root : b \in env'}
  BY DEF InScope
<1>5. \A s \in InScope \cup {None} : Taken(s) \subseteq declared
  BY TakenNames
<1>6. \A b \in env : b.root \in declared
  BY <1>1, <1>4
<1>7. \A b \in Outer(Depth, env) : b \in env
  BY DEF Outer
<1>8. CASE \E r \in Roots, s \in MaybeRoot : Let(r, s)
  <2>1. PICK r \in Roots, s \in MaybeRoot : Let(r, s)
    BY <1>8
  <2>2. /\ s \in InScope \cup {None} /\ moved' = moved \cup Taken(s) /\ declared' = declared \cup {r}
        /\ env' = env \cup {DropOf(r, Depth, clock)} /\ frames' = frames
    BY <1>0, <2>1 DEF Let, Element
  <2>3. DropOf(r, Depth, clock).root = r
    BY DEF DropOf
  <2>4. InScope' \subseteq declared'
    BY <1>4, <1>6, <2>2, <2>3
  <2>5. Named(frames', declared')
    BY <1>1, <2>2 DEF Named
  <2>6. moved' \subseteq declared'
    BY <1>1, <1>5, <2>2
  <2> QED
    BY <2>4, <2>5, <2>6
<1>9. CASE \E r \in Roots, s \in MaybeRoot : Assign(r, s)
  <2>1. PICK r \in Roots, s \in MaybeRoot : Assign(r, s)
    BY <1>9
  <2>2. /\ s \in InScope \cup {None} /\ moved' = (moved \cup Taken(s)) \ {r}
        /\ UNCHANGED <<env, declared, frames>>
    BY <1>0, <2>1 DEF Assign, Element
  <2> QED
    BY <1>1, <1>4, <1>5, <2>2
<1>10. CASE \E r \in Roots : Use(r) \/ Take(r) \/ Borrow(r)
  <2>1. PICK r \in Roots : Use(r) \/ Take(r) \/ Borrow(r)
    BY <1>10
  <2>2. r \in InScope /\ moved' \subseteq moved \cup {r} /\ UNCHANGED <<env, declared, frames>>
    BY <1>0, <2>1 DEF Use, Take, Borrow, Element
  <2> QED
    BY <1>1, <1>4, <2>2
<1>11. CASE \/ \E r \in Roots, how \in {"use", "borrow", "take"}, onErr \in BOOLEAN :
                 CheckDefer(r, how, onErr)
            \/ CheckReturnOnError
  <2>1. UNCHANGED <<env, declared, frames, moved>>
    BY <1>0, <1>11 DEF CheckDefer, CheckReturnOnError, Element
  <2> QED
    BY <1>1, <1>4, <2>1
<1>12. CASE Break \/ \E s \in MaybeRoot, class \in ExitClass : CheckReturn(s, class)
  <2>1. PICK s \in InScope \cup {None}, ret \in BOOLEAN, end \in BOOLEAN :
           /\ moved' \subseteq moved \cup Taken(s)
           /\ SetTop(Mark(Top, ret, end)) /\ UNCHANGED <<env, declared>>
    BY <1>0, <1>12 DEF Break, CheckReturn, Element
  <2>2. PICK f : f = Mark(Top, ret, end)
    OBVIOUS
  <2>3. f.entry = Top.entry /\ f.exits = Top.exits
    BY <1>2, <2>2, MarkIs
  <2>4. /\ Len(frames') = Depth /\ frames'[Depth] = f
        /\ \A k \in 1..Depth : k # Depth => frames'[k] = frames[k]
    BY <1>2, <2>1, <2>2 DEF SetTop
  <2>5. Named(frames', declared)
    BY <1>1, <1>2, <1>3, <2>3, <2>4 DEF Named
  <2> QED
    BY <1>1, <1>4, <1>5, <2>1, <2>5
<1>13. CASE (\E c \in MaybeRoot : OpenIf(c) \/ OpenWhile(c)) \/ OpenFor
  <2>1. PICK c, kind, entry :
           /\ c \in InScope \cup {None}
           /\ moved' \subseteq moved \cup Taken(c) /\ entry \subseteq moved \cup Taken(c)
           /\ frames' = Append(frames, NewFrame(kind, entry)) /\ UNCHANGED <<env, declared>>
    BY <1>0, <1>13 DEF OpenIf, OpenWhile, OpenFor, Element
  <2>2. PICK f : f = NewFrame(kind, entry)
    OBVIOUS
  <2>3. f.entry = entry /\ f.exits = {}
    BY <2>2, NewFrameIs
  <2>4. /\ Len(frames') = Depth + 1 /\ frames'[Depth + 1] = f
        /\ \A k \in 1..Depth : frames'[k] = frames[k]
    BY <1>2, <2>1, <2>2, AppendAny
  <2>5. \A k \in 1..(Depth + 1) : k \in 1..Depth \/ k = Depth + 1
    BY <1>2
  <2>6. entry \subseteq declared
    BY <1>1, <1>5, <2>1
  <2>7. Named(frames', declared)
    BY <1>1, <1>2, <2>3, <2>4, <2>5, <2>6 DEF Named
  <2> QED
    BY <1>1, <1>4, <1>5, <2>1, <2>7
<1>14. CASE (\E c \in MaybeRoot : ElseIf(c)) \/ Else
  <2>1. PICK c \in InScope \cup {None}, isElse \in BOOLEAN :
           /\ moved' \subseteq Top.entry \cup Taken(c)
           /\ SetTop(NextFrame(isElse)) /\ env' = Outer(Depth, env) /\ UNCHANGED declared
           /\ Top.kind = "if"
    BY <1>0, <1>4, <1>7, <1>14 DEF ElseIf, Else, Construct, LeaveScope, InsideOf
  <2>2. PICK f : f = NextFrame(isElse)
    OBVIOUS
  <2>3. f.entry = Top.entry /\ f.exits = ArmExits
    <3>1. ArmExits \in SUBSET (SUBSET Roots) /\ Parent.dead \in BOOLEAN /\ clock \in Nat
      BY <1>2, <2>1, TopType, ExitsType, FrameTypes DEF Frame
    <3>2. PICK exits \in SUBSET (SUBSET Roots), dead \in BOOLEAN : exits = ArmExits /\ dead = Parent.dead
      BY <3>1
    <3>3. f = Reopened(Top, clock, exits, isElse, dead)
      BY <2>2, <3>2 DEF NextFrame
    <3> QED
      BY <1>2, <3>1, <3>2, <3>3, ReopenedIs
  <2>4. /\ Len(frames') = Depth /\ frames'[Depth] = f
        /\ \A k \in 1..Depth : k # Depth => frames'[k] = frames[k]
    BY <1>2, <2>1, <2>2 DEF SetTop
  <2>5. \A m \in ArmExits : m \subseteq declared
    BY <1>1, <1>3 DEF ArmExits
  <2>6. Named(frames', declared)
    BY <1>1, <1>2, <1>3, <2>3, <2>4, <2>5 DEF Named
  <2>7. InScope' \subseteq declared
    BY <1>4, <1>6, <1>7, <2>1
  <2> QED
    BY <1>3, <1>5, <2>1, <2>6, <2>7
<1>15. CASE EndIf
  <2>1. PICK ret, end :
           /\ moved' = JoinedMoves /\ env' = Outer(Depth, env) /\ UNCHANGED declared
           /\ frames' = Append(SubSeq(frames, 1, Depth - 2), Mark(Parent, ret, end))
           /\ Top.kind = "if"
    BY <1>0, <1>15 DEF EndIf, Construct, LeaveScope, InsideOf
  <2>2. Depth >= 2 /\ Parent = frames[Depth - 1] /\ Depth - 1 \in 1..Depth
    BY <1>2, <2>1, TopType DEF Parent
  <2>3. PICK f, s : f = Mark(Parent, ret, end) /\ s = SubSeq(frames, 1, Depth - 2)
    OBVIOUS
  <2>4. f.entry = Parent.entry /\ f.exits = Parent.exits
    <3>1. Parent \in Frame
      BY <1>2, <2>2
    <3> QED
      BY <2>3, <3>1 DEF Mark, Frame
  <2>5. s \in Seq(Frame) /\ Len(s) = Depth - 2 /\ \A k \in 1..(Depth - 2) : s[k] = frames[k]
    BY <1>2, <2>2, <2>3
  <2>6. /\ Len(frames') = (Depth - 2) + 1 /\ frames'[(Depth - 2) + 1] = f
        /\ \A k \in 1..(Depth - 2) : frames'[k] = frames[k]
    BY <2>1, <2>3, <2>5, AppendAny
  <2>7. \A k \in 1..((Depth - 2) + 1) : k \in 1..Depth /\ (k \in 1..(Depth - 2) \/ k = Depth - 1)
    BY <1>2, <2>2
  <2>8. (Depth - 2) + 1 = Depth - 1
    BY <1>2
  <2>9. Named(frames', declared)
    BY <1>1, <1>2, <2>2, <2>4, <2>6, <2>7, <2>8 DEF Named
  <2>10. JoinedMoves \subseteq declared
    BY <1>1, <1>3 DEF JoinedMoves, ArmExits
  <2> QED
    BY <1>4, <1>6, <1>7, <2>1, <2>9, <2>10
<1>16. CASE CloseLoop
  <2>1. /\ moved' \subseteq Top.entry \cup moved /\ env' = Outer(Depth, env) /\ UNCHANGED declared
        /\ frames' = SubSeq(frames, 1, Depth - 1) /\ Top.kind # "body"
    BY <1>0, <1>16 DEF CloseLoop, Construct, LeaveScope, InsideOf
  <2>2. Depth >= 2
    BY <2>1, TopType
  <2>3. Len(frames') = Depth - 1 /\ \A k \in 1..(Depth - 1) : frames'[k] = frames[k] /\ k \in 1..Depth
    BY <1>2, <2>1, <2>2
  <2>4. Named(frames', declared)
    BY <1>1, <1>2, <2>3 DEF Named
  <2> QED
    BY <1>1, <1>3, <1>4, <1>6, <1>7, <2>1, <2>4
<1>17. CASE \E s \in MaybeRoot, class \in ExitClass : EndBody(s, class)
  BY <1>0, <1>17 DEF EndBody
<1> QED
  BY <1>8, <1>9, <1>10, <1>11, <1>12, <1>13, <1>14, <1>15, <1>16, <1>17 DEF Next

----------------------------------------------------------------------------
(* A step of a body of the shapes every run admits.                         *)

Admitted ==
    \/ \E r \in Roots, s \in MaybeRoot : Let(r, s) \/ Assign(r, s)
    \/ \E r \in Roots : Use(r) \/ Take(r) \/ (r \notin moved /\ Borrow(r))
    \/ \E r \in Roots, how \in {"use", "borrow", "take"}, onErr \in BOOLEAN :
         /\ how = "borrow" => r \notin moved
         /\ how = "take" /\ ~onErr /\ Depth # 1 => r \notin Outside(Depth)
         /\ CheckDefer(r, how, onErr)
    \/ verdict = "checking" /\ BreakShape /\ Break
    \/ ExitShape(moved) /\ CheckReturnOnError
    \/ \E s \in MaybeRoot, class \in ExitClass : ExitShape(moved \cup Taken(s)) /\ CheckReturn(s, class)
    \/ ElseIf(None) \/ Else
    \/ OpenIf(None) \/ OpenWhile(None) \/ OpenFor
    \/ BalancedChain /\ EndIf
    \/ BalancedLoop /\ CloseLoop
    \/ \E s \in MaybeRoot, class \in ExitClass : EndBody(s, class)

\* The classes of the explored exits are exit classes.
LEMMA ClassesAre == \A class \in Classes : class \in ExitClass
<1>1. Fallible \in BOOLEAN
  BY RootsAssumption
<1>2. CASE ~Fallible
  BY <1>2 DEF Classes, ExitClass
<1>3. CASE Fallible /\ With("on_error")
  BY <1>3 DEF Classes, ExitClass
<1>4. CASE Fallible /\ ~With("on_error")
  BY <1>4 DEF Classes, ExitClass
<1> QED
  BY <1>1, <1>2, <1>3, <1>4

\* With every shape kept out, a step is an admitted one or a rejection.
LEMMA StepIsAdmitted ==
    ASSUME Shapes = {}, ProgNext
    PROVE  Admitted \/ (verdict = "checking" /\ Reject)
<1>1. \A s : ~Has(s)
  BY DEF Has
<1>2. CASE Elementary
  <2>1. CASE \E r \in Roots, s \in MaybeRoot :
               /\ From(s)
               /\ \/ With("let") /\ Fresh(r) /\ Let(r, s)
                  \/ With("assign") /\ Assign(r, s)
    BY <2>1 DEF Admitted
  <2>2. CASE \E r \in Roots :
               \/ With("use") /\ Use(r)
               \/ With("take") /\ Take(r)
               \/ With("borrow") /\ (r \notin moved \/ Has("borrow_moved")) /\ Borrow(r)
    BY <1>1, <2>2 DEF Admitted
  <2>3. CASE \E r \in Roots, how \in {"use", "borrow", "take"}, onErr \in BOOLEAN :
               /\ DeferElement(how, onErr)
               /\ how # "borrow" \/ r \notin moved \/ Has("borrow_moved")
               /\ DeferShape(r, how, onErr)
               /\ CheckDefer(r, how, onErr)
    <3>1. PICK r \in Roots, how \in {"use", "borrow", "take"}, onErr \in BOOLEAN :
               /\ how # "borrow" \/ r \notin moved
               /\ DeferShape(r, how, onErr)
               /\ CheckDefer(r, how, onErr)
      BY <1>1, <2>3
    <3>2. how = "take" /\ ~onErr /\ Depth # 1 => r \notin Outside(Depth)
      BY <1>1, <3>1 DEF DeferShape
    <3> QED
      BY <3>1, <3>2 DEF Admitted
  <2>4. CASE With("break") /\ verdict = "checking" /\ BreakShape /\ Break
    BY <2>4 DEF Admitted
  <2>5. CASE With("try") /\ ExitShape(moved) /\ CheckReturnOnError
    BY <2>5 DEF Admitted
  <2>6. CASE \E s \in MaybeRoot, class \in Classes :
               With("return") /\ ExitShape(moved \cup Taken(s)) /\ CheckReturn(s, class)
    BY <2>6, ClassesAre DEF Admitted
  <2>7. CASE \E c \in MaybeRoot : With("elseif") /\ Condition(c) /\ ElseIf(c)
    BY <1>1, <2>7 DEF Admitted, Condition
  <2>8. CASE With("else") /\ Else
    BY <2>8 DEF Admitted
  <2> QED
    BY <1>2, <2>1, <2>2, <2>3, <2>4, <2>5, <2>6, <2>7, <2>8, Zenon DEF Elementary
<1>3. CASE Opening
  BY <1>1, <1>3 DEF Opening, Condition, Admitted
<1>4. CASE Completing
  <2>1. CASE InsideOf({"if"}) /\ Close(BalancedChain, EndIf)
    BY <1>1, <2>1 DEF Admitted, Close, InsideOf
  <2>2. CASE InsideOf({"while", "for"}) /\ Close(BalancedLoop, CloseLoop)
    BY <1>1, <2>2 DEF Admitted, Close, InsideOf
  <2>3. CASE \E s \in MaybeRoot, class \in Classes : EndBody(s, class)
    BY <2>3, ClassesAre DEF Admitted
  <2> QED
    BY <1>4, <2>1, <2>2, <2>3 DEF Completing
<1> QED
  BY <1>2, <1>3, <1>4 DEF ProgNext

\* An admitted step is a step of the checker.
LEMMA AdmittedIsStep == Admitted => Next
<1>1. None \in MaybeRoot
  BY DEF MaybeRoot
<1> QED
  BY <1>1 DEF Admitted, Next

\* CallsInv survives the admitted steps.
LEMMA CallsStep ==
    ASSUME TypeInv, ScopeInv, NamesInv, CallsInv, verdict = "checking", Admitted, ~Reject,
           verdict' = "checking"
    PROVE  CallsInv'
<1>1. Depth \in Nat \ {0} /\ clock \in Nat /\ \A e \in env \cup cleanup : e \in Entry /\ e.depth \in Nat
  BY DepthType, TopType
<1>2. \A e \in cleanup : Deferred(e) => e.root \in declared
  BY DEF ScopeInv, DeferredRootsOutliveCalls, NamesInv, InScope
<1>3. CASE \E r \in Roots, s \in MaybeRoot : Let(r, s)
  <2>1. PICK r \in Roots : /\ r \notin declared /\ env' = env \cup {DropOf(r, Depth, clock)}
                           /\ cleanup' = cleanup \cup {DropOf(r, Depth, clock)}
    BY <1>3 DEF Let, Element
  <2>2. PICK drop : drop = DropOf(r, Depth, clock)
    OBVIOUS
  <2>3. drop.root = r /\ ~Deferred(drop)
    BY <2>2 DEF DropOf, Deferred
  <2> QED
    BY <1>2, <2>1, <2>2, <2>3 DEF CallsInv
<1>4. CASE \E r \in Roots, how \in {"use", "borrow", "take"}, onErr \in BOOLEAN :
             /\ how = "take" /\ ~onErr /\ Depth # 1 => r \notin Outside(Depth)
             /\ CheckDefer(r, how, onErr)
  <2>1. PICK r \in Roots, how \in {"use", "borrow", "take"}, onErr \in BOOLEAN :
             /\ how = "take" /\ ~onErr /\ Depth # 1 => r \notin Outside(Depth)
             /\ env' = env
             /\ cleanup' = cleanup \cup {[kind |-> how, root |-> r, onErr |-> onErr,
                                          depth |-> Depth, ord |-> clock]}
    BY <1>4 DEF CheckDefer, Element
  <2>2. PICK c : c = [kind |-> how, root |-> r, onErr |-> onErr, depth |-> Depth, ord |-> clock]
    OBVIOUS
  <2>3. c.kind = how /\ c.root = r /\ c.onErr = onErr /\ c.depth = Depth
    BY <2>2
  <2>4. c.kind = "take" /\ ~c.onErr /\ c.depth > 1 => \A x \in env : x.root = c.root => x.depth >= c.depth
    <3> SUFFICES ASSUME how = "take", ~onErr, Depth > 1, NEW x \in env, x.root = r
                 PROVE  x.depth >= Depth
      BY <2>3
    <3>1. r \notin {b.root : b \in Outer(Depth, env)}
      BY <2>1 DEF Outside
    <3>2. x \notin Outer(Depth, env)
      BY <3>1
    <3> QED
      BY <1>1, <3>2 DEF Outer
  <2>5. c.depth >= 1
    BY <1>1, <2>3
  <2> QED
    BY <2>1, <2>2, <2>4, <2>5 DEF CallsInv
<1>5. CASE \/ \E r \in Roots, s \in MaybeRoot : Assign(r, s)
           \/ \E r \in Roots : Use(r) \/ Take(r) \/ Borrow(r)
           \/ Break \/ CheckReturnOnError
           \/ \E s \in MaybeRoot, class \in ExitClass : CheckReturn(s, class)
           \/ OpenIf(None) \/ OpenWhile(None) \/ OpenFor
  <2>1. UNCHANGED <<env, cleanup>>
    BY <1>5 DEF Assign, Use, Take, Borrow, Break, CheckReturnOnError, CheckReturn, OpenIf, OpenWhile,
                OpenFor, Element
  <2> QED
    BY <2>1 DEF CallsInv
<1>6. CASE ElseIf(None) \/ Else \/ EndIf \/ CloseLoop
  <2>1. env' \subseteq env /\ cleanup' \subseteq cleanup
    BY <1>6 DEF ElseIf, Else, EndIf, CloseLoop, Construct, LeaveScope, Outer
  <2> QED
    BY <2>1 DEF CallsInv
<1>7. CASE \E s \in MaybeRoot, class \in ExitClass : EndBody(s, class)
  BY <1>7 DEF EndBody
<1> QED
  BY <1>3, <1>4, <1>5, <1>6, <1>7 DEF Admitted

----------------------------------------------------------------------------
(* The beliefs kept while a body is checked.                                *)

\* names are the drop entries the code mentions, J its jumps and P its labels.
Ghost(names, J, P) ==
    /\ names \subseteq Bindings /\ UniqueRoots(names)
    /\ env \subseteq names /\ ParamBindings \subseteq names
    /\ \A e \in names : e.root \in declared
    /\ Flow(names, code, J, P, Current(frames, env, cleanup, moved))
    /\ Linked(frames, env, cleanup, Depth, clock, J, P)

GhostInv == verdict = "checking" => \E names, J, P : Ghost(names, J, P)

\* All that is known of a body that is being checked.
CheckInv == TypeInv /\ ScopeInv /\ NamesInv /\ CallsInv /\ FrameInv

\* What is held around a construct depends only on the entries outside it.
LEMMA AroundSame ==
    ASSUME NEW en, NEW cl, NEW en2, NEW cl2, NEW n \in Nat,
           \A e \in (en \cup cl) \cup (en2 \cup cl2) : e.depth \in Nat,
           Outer(n, en2) = Outer(n, en), Outer(n, cl2) = Outer(n, cl)
    PROVE  \A k \in 2..n : \A m : Around(en2, cl2, k, m) = Around(en, cl, k, m)
<1> SUFFICES ASSUME NEW k \in 2..n, NEW m PROVE Around(en2, cl2, k, m) = Around(en, cl, k, m)
  OBVIOUS
<1>1. \A e \in (en \cup cl) \cup (en2 \cup cl2) : e.depth < k => e.depth < n
  OBVIOUS
<1>2. \A e : e \in en2 /\ e.depth < n <=> e \in en /\ e.depth < n
  BY DEF Outer
<1>3. \A e : e \in cl2 /\ e.depth < n <=> e \in cl /\ e.depth < n
  BY DEF Outer
<1>4. Outer(k, en2) = Outer(k, en)
  BY <1>1, <1>2 DEF Outer
<1>5. Outer(k, DeferredIn(cl2)) = Outer(k, DeferredIn(cl))
  BY <1>1, <1>3 DEF Outer, DeferredIn
<1> QED
  BY <1>4, <1>5 DEF Around

\* The depths of the entries in scope.
LEMMA EntriesTyped ==
    ASSUME TypeInv
    PROVE  \A e \in env \cup cleanup : e.depth \in Nat
  BY DEF TypeInv, TypeOK, Entry

\* An element that opens and closes nothing.
LEMMA LinkedKept ==
    ASSUME TypeInv, TypeInv', verdict = "checking", NEW J, NEW P,
           Linked(frames, env, cleanup, Depth, clock, J, P),
           FramesKept \/ FramesMarked, clock' = clock + 1,
           Outer(Depth, env') = Outer(Depth, env), Outer(Depth, cleanup') = Outer(Depth, cleanup)
    PROVE  /\ Linked(frames', env', cleanup', Depth, clock, J, P)
           /\ Linked(frames', env', cleanup', Depth', clock', J, P)
           /\ Depth' = Depth
<1>1. /\ frames \in Seq(Frame) /\ Depth \in Nat /\ Depth \in 1..Depth /\ Depth = Len(frames)
      /\ clock \in Nat /\ clock + 1 \in Nat /\ clock <= clock + 1 /\ clock <= clock
  BY FrameTypes
<1>2. PICK fr2, en2, cl2 : fr2 = frames' /\ en2 = env' /\ cl2 = cleanup'
  OBVIOUS
<1>3. \A e \in (env \cup cleanup) \cup (en2 \cup cl2) : e.depth \in Nat
  <2>1. \A e \in env' \cup cleanup' : e.depth \in Nat
    BY DEF TypeInv, TypeOK, Entry
  <2> QED
    BY <1>2, <2>1, EntriesTyped
<1>4. \A k \in 2..Depth : \A m : Around(en2, cl2, k, m) = Around(env, cleanup, k, m)
  BY <1>1, <1>2, <1>3, AroundSame
<1>5. /\ Depth' = Depth
      /\ \A k \in 1..Depth : k # Depth => fr2[k] = frames[k]
      /\ fr2[Depth] = frames[Depth] \/ MarksTop(frames, fr2[Depth])
  <2>1. CASE FramesKept
    BY <1>2, <2>1 DEF FramesKept, Depth
  <2>2. CASE FramesMarked
    <3>1. PICK f : SetTop(f) /\ MarksTop(frames, f)
      BY <2>2 DEF FramesMarked
    <3> QED
      BY <1>1, <1>2, <3>1 DEF SetTop, Depth
  <2> QED
    BY <2>1, <2>2
<1>6. ASSUME NEW k \in 2..Depth
      PROVE  /\ fr2[k].kind = frames[k].kind /\ fr2[k].id = frames[k].id
             /\ fr2[k].arm = frames[k].arm /\ fr2[k].entry = frames[k].entry
             /\ fr2[k].exits = frames[k].exits /\ fr2[k].covered = frames[k].covered
             /\ fr2[k].merged = frames[k].merged /\ fr2[k - 1].dead = frames[k - 1].dead
  <2>1. k \in 1..Depth /\ k - 1 \in 1..Depth /\ k - 1 # Depth
    BY <1>1
  <2>2. fr2[k - 1].dead = frames[k - 1].dead
    BY <1>5, <2>1
  <2>3. CASE fr2[k] = frames[k]
    BY <2>2, <2>3
  <2>4. CASE k = Depth /\ MarksTop(frames, fr2[Depth])
    BY <1>1, <2>2, <2>4 DEF MarksTop
  <2> QED
    BY <1>5, <2>1, <2>3, <2>4
<1>7. Linked(fr2, en2, cl2, Depth, clock, J, P)
  BY <1>1, <1>4, <1>6, LinkedAgrees
<1>8. Linked(fr2, en2, cl2, Depth, clock + 1, J, P)
  <2>1. PICK later \in Nat : later = clock + 1
    BY <1>1
  <2>2. clock <= later
    BY <1>1, <2>1
  <2> QED
    BY <1>1, <1>4, <1>6, <2>1, <2>2, LinkedAgrees
<1> QED
  BY <1>2, <1>5, <1>7, <1>8

\* A step that emits a stretch of code extends the flow by it.
LEMMA GhostEmits ==
    ASSUME TypeInv, NEW names, NEW J, NEW P, Ghost(names, J, P),
           NEW more, names \subseteq more, more \subseteq Bindings, UniqueRoots(more),
           env' \subseteq more, \A e \in more : e.root \in declared',
           NEW is, NEW j, NEW p, NEW b, NEW c, Flow(names, code, J, P, b),
           Emits(more, b, is, j, p, c), code' = code \o is,
           c = Current(frames', env', cleanup', moved'),
           NEW J2, NEW P2, J2 = J \cup j, P2 = P \cup p,
           Linked(frames', env', cleanup', Depth', clock', J2, P2)
    PROVE  GhostInv'
<1>1. code \in Seq(Instr) /\ ParamBindings \subseteq more
  BY DEF TypeInv, TypeOK, Ghost
<1>2. Flow(more, code, J, P, b)
  BY FlowNames
<1>3. Flow(more, code \o is, J2, P2, c)
  BY <1>1, <1>2 DEF Emits
<1>4. Flow(more, code', J2, P2, Current(frames', env', cleanup', moved'))
  BY <1>3
<1>5. Ghost(more, J2, P2)'
  BY <1>1, <1>4 DEF Ghost, ParamBindings
<1> QED
  BY <1>5 DEF GhostInv

\* A step that emits nothing leaves the flow as it is.
LEMMA GhostIdles ==
    ASSUME NEW names, NEW J, NEW P, Ghost(names, J, P),
           env' \subseteq names, \A e \in names : e.root \in declared',
           NEW c, Flow(names, code, J, P, c), code' = code,
           c = Current(frames', env', cleanup', moved'),
           Linked(frames', env', cleanup', Depth', clock', J, P)
    PROVE  GhostInv'
<1>1. Flow(names, code', J, P, Current(frames', env', cleanup', moved'))
  OBVIOUS
<1>2. Ghost(names, J, P)'
  BY <1>1 DEF Ghost, ParamBindings
<1> QED
  BY <1>2 DEF GhostInv

----------------------------------------------------------------------------
(* Elements that open and close nothing.                                    *)

\* What the element appends leads to what is believed after it.
LEMMA GhostElement ==
    ASSUME CheckInv, TypeInv', verdict = "checking", NEW names, NEW J, NEW P, Ghost(names, J, P),
           FramesKept \/ FramesMarked, clock' = clock + 1,
           Outer(Depth, env') = Outer(Depth, env), Outer(Depth, cleanup') = Outer(Depth, cleanup),
           NEW more, names \subseteq more, more \subseteq Bindings, UniqueRoots(more),
           env' \subseteq more, \A e \in more : e.root \in declared', declared \subseteq declared',
           NEW is, Emit(is),
           ~Top.dead => Emits(more, Inside(env, cleanup, moved), is, {}, {},
                              Current(frames', env', cleanup', moved'))
    PROVE  GhostInv'
<1>1. /\ Depth' = Depth /\ Linked(frames', env', cleanup', Depth', clock', J, P)
  BY LinkedKept DEF Ghost, CheckInv
<1>2. Top = frames[Len(frames)] /\ TypeInv
  BY DEF Top, Depth, CheckInv
<1>3. CASE ~Top.dead
  <2>1. Flow(names, code, J, P, Inside(env, cleanup, moved))
    BY <1>2, <1>3 DEF Ghost, Current
  <2>2. code' = code \o is /\ J = J \cup {} /\ P = P \cup {}
    BY <1>3 DEF Emit
  <2>3. PICK b, c : b = Inside(env, cleanup, moved) /\ c = Current(frames', env', cleanup', moved')
    OBVIOUS
  <2> QED
    BY <1>1, <1>2, <1>3, <2>1, <2>2, <2>3, GhostEmits
<1>4. CASE Top.dead
  <2>1. Top'.dead
    <3>1. Depth \in Nat /\ Depth \in 1..Depth /\ Depth = Len(frames)
      BY <1>2, FrameTypes
    <3>2. CASE FramesKept
      BY <1>4, <3>2 DEF FramesKept, Top, Depth
    <3>3. CASE FramesMarked
      <4>1. PICK f : SetTop(f) /\ MarksTop(frames, f)
        BY <3>3 DEF FramesMarked
      <4>2. frames'[Depth] = f
        BY <3>1, <4>1 DEF SetTop
      <4>3. Top' = f
        BY <1>1, <4>2 DEF Top
      <4> QED
        BY <1>2, <1>4, <4>1, <4>3 DEF MarksTop
    <3> QED
      BY <3>2, <3>3
  <2>2. Current(frames', env', cleanup', moved') = Nowhere
    BY <2>1 DEF Current, Top, Depth
  <2>3. Flow(names, code, J, P, Nowhere)
    BY <1>2, <1>4 DEF Ghost, Current
  <2>4. code' = code
    BY <1>4 DEF Emit
  <2>5. Emits(more, Nowhere, <<>>, {}, {}, Nowhere)
    BY EmitsNothing
  <2>6. code \o <<>> = code /\ J = J \cup {} /\ P = P \cup {}
    BY <1>2, ConcatEmptySeq DEF TypeInv, TypeOK
  <2> QED
    BY <1>1, <1>2, <2>2, <2>3, <2>4, <2>5, <2>6, GhostEmits
<1> QED
  BY <1>3, <1>4

\* Two stretches without jumps or labels.
LEMMA EmitsBoth ==
    ASSUME NEW names, NEW b, NEW x, NEW c, NEW y, NEW d,
           Emits(names, b, x, {}, {}, c), Emits(names, c, y, {}, {}, d)
    PROVE  Emits(names, b, x \o y, {}, {}, d)
<1>1. Emits(names, b, x \o y, {} \cup {}, {} \cup {}, d)
  BY EmitsThen
<1>2. {} \cup {} = {}
  OBVIOUS
<1> QED
  BY <1>1, <1>2

\* A checker state gives a belief over any larger set of names.
LEMMA HeldReady ==
    ASSUME NEW names, NEW binds \in SUBSET Bindings, binds \subseteq names,
           NEW calls \in SUBSET Calls, NEW m
    PROVE  Ready(names, Holding(binds, calls, m))
  BY HoldingIs

\* The parts of such a belief.
LEMMA HeldFields ==
    ASSUME NEW binds, NEW calls, NEW m, NEW b, b = Holding(binds, calls, m)
    PROVE  b.has = RootsOf(binds) \ m /\ b.calls = calls /\ b.binds = binds /\ b.class = "ok"
  BY DEF Holding, RootsOf

\* The emitted move of an available root.
LEMMA HeldTake ==
    ASSUME NEW names, NEW binds \in SUBSET Bindings, binds \subseteq names,
           NEW calls \in SUBSET Calls, NEW m, NEW s \in MaybeRoot,
           s = None \/ (s \in RootsOf(binds) /\ s \notin m)
    PROVE  Emits(names, Holding(binds, calls, m), TakeOf(s), {}, {}, Holding(binds, calls, m \cup Taken(s)))
<1>1. PICK b : b = Holding(binds, calls, m)
  OBVIOUS
<1>2. Ready(names, b) /\ b.has = RootsOf(binds) \ m
  <2>1. Ready(names, b)
    BY <1>1, HeldReady
  <2>2. b.has = RootsOf(binds) \ m
    BY <1>1 DEF Holding, RootsOf
  <2> QED
    BY <2>1, <2>2
<1>3. Emits(names, b, TakeOf(s), {}, {}, Having(b, b.has \ Taken(s)))
  BY <1>2, EmitsTakeOf
<1>4. Having(b, b.has \ Taken(s)) = Holding(binds, calls, m \cup Taken(s))
  BY <1>1, HoldingTakes
<1> QED
  BY <1>1, <1>3, <1>4

\* The emitted store and registration of a new binding.
LEMMA HeldBind ==
    ASSUME NEW names, NEW binds \in SUBSET Bindings, binds \subseteq names,
           NEW calls \in SUBSET Calls, NEW m, NEW e \in Bindings, e \in names,
           e.root \notin m, e.root \notin RootsOf(binds)
    PROVE  Emits(names, Holding(binds, calls, m), Do("store", e.root) \o Arm(e), {}, {},
                 Holding(binds \cup {e}, calls, m))
<1>1. PICK b : b = Holding(binds, calls, m)
  OBVIOUS
<1>2. Ready(names, b) /\ b.has = RootsOf(binds) \ m
  <2>1. Ready(names, b)
    BY <1>1, HeldReady
  <2>2. b.has = RootsOf(binds) \ m
    BY <1>1 DEF Holding, RootsOf
  <2> QED
    BY <2>1, <2>2
<1>3. PICK r \in Roots : r = e.root
  BY DEF Bindings, Entry, RootsOf
<1>4. PICK c : c = Having(b, b.has \cup {r})
  OBVIOUS
<1>5. Emits(names, b, Do("store", r), {}, {}, c)
  BY <1>2, <1>3, <1>4, EmitsStore
<1>6. Ready(names, c)
  <2>1. b.has \cup {r} \in SUBSET Roots
    BY <1>2 DEF Ready, Belief
  <2> QED
    BY <1>2, <1>4, <2>1, HavingIs
<1>7. Emits(names, c, Arm(e), {}, {}, Binding(c, e))
  BY <1>6, EmitsArmDrop
<1>8. Binding(c, e) = Holding(binds \cup {e}, calls, m)
  BY <1>1, <1>3, <1>4, HoldingBinds
<1>9. Emits(names, b, Do("store", r) \o Arm(e), {}, {}, Binding(c, e))
  BY <1>5, <1>7, EmitsBoth
<1> QED
  BY <1>1, <1>3, <1>8, <1>9

\* The emitted destruction of the old value, where there is one, and the store.
LEMMA HeldAssign ==
    ASSUME NEW names, NEW binds \in SUBSET Bindings, binds \subseteq names,
           NEW calls \in SUBSET Calls, NEW m, NEW r \in RootsOf(binds)
    PROVE  Emits(names, Holding(binds, calls, m),
                 (IF r \in m THEN <<>> ELSE Do("drop", r)) \o Do("store", r), {}, {},
                 Holding(binds, calls, m \ {r}))
<1>0. r \in Roots
  BY DEF Bindings, Entry, RootsOf
<1>1. PICK b, c, x : /\ b = Holding(binds, calls, m) /\ c = Holding(binds, calls, m \cup {r})
                     /\ x = IF r \in m THEN <<>> ELSE Do("drop", r)
  OBVIOUS
<1>2. Ready(names, b) /\ b.has = RootsOf(binds) \ m
  <2>1. Ready(names, b)
    BY <1>1, HeldReady
  <2>2. b.has = RootsOf(binds) \ m
    BY <1>1 DEF Holding, RootsOf
  <2> QED
    BY <2>1, <2>2
<1>3. Ready(names, c) /\ c.has = RootsOf(binds) \ (m \cup {r})
  <2>1. Ready(names, c)
    BY <1>1, HeldReady
  <2>2. c.has = RootsOf(binds) \ (m \cup {r})
    BY <1>1 DEF Holding, RootsOf
  <2> QED
    BY <2>1, <2>2
<1>4. Emits(names, b, x, {}, {}, c)
  <2>1. CASE r \in m
    <3>1. x = <<>> /\ m \cup {r} = m
      BY <1>1, <2>1
    <3> QED
      BY <1>1, <3>1, EmitsNothing
  <2>2. CASE r \notin m
    <3>1. r \in b.has /\ x = Do("drop", r)
      BY <1>1, <1>2, <2>2
    <3>2. Emits(names, b, Do("drop", r), {}, {}, Having(b, b.has \ {r}))
      BY <1>2, <3>1, EmitsRemove
    <3>3. r # None
      BY <1>0, RootsAssumption
    <3>4. Taken(r) = {r}
      BY <3>3 DEF Taken
    <3>5. Having(b, b.has \ {r}) = c
      BY <1>1, <3>4, HoldingTakes
    <3> QED
      BY <3>1, <3>2, <3>5
  <2> QED
    BY <2>1, <2>2
<1>5. Emits(names, c, Do("store", r), {}, {}, Having(c, c.has \cup {r}))
  BY <1>0, <1>3, EmitsStore
<1>6. Having(c, c.has \cup {r}) = Holding(binds, calls, m \ {r})
  <2>1. Having(c, c.has \cup {r}) = Holding(binds, calls, (m \cup {r}) \ {r})
    <3>1. PICK taken : taken = m \cup {r}
      OBVIOUS
    <3>2. Having(Holding(binds, calls, taken), Holding(binds, calls, taken).has \cup {r})
            = Holding(binds, calls, taken \ {r})
      BY HoldingStores
    <3> QED
      BY <1>1, <3>1, <3>2
  <2>2. (m \cup {r}) \ {r} = m \ {r}
    OBVIOUS
  <2> QED
    BY <2>1, <2>2
<1> QED
  BY <1>1, <1>4, <1>5, <1>6, EmitsBoth

\* The emitted registration of a deferred call.
LEMMA HeldCall ==
    ASSUME NEW names, NEW binds \in SUBSET Bindings, binds \subseteq names,
           NEW calls \in SUBSET Calls, NEW m, NEW e \in Calls, e \notin calls
    PROVE  Emits(names, Holding(binds, calls, m), Arm(e), {}, {}, Holding(binds, calls \cup {e}, m))
<1>1. PICK b : b = Holding(binds, calls, m)
  OBVIOUS
<1>2. Ready(names, b) /\ b.calls = calls
  <2>1. Ready(names, b)
    BY <1>1, HeldReady
  <2>2. b.calls = calls
    BY <1>1 DEF Holding, RootsOf
  <2> QED
    BY <2>1, <2>2
<1>3. Emits(names, b, Arm(e), {}, {}, Calling(b, e))
  BY <1>2, EmitsArmCall
<1> QED
  BY <1>1, <1>3, HoldingCalls

----------------------------------------------------------------------------
(* Where the block is not terminated, and where it is.                      *)

\* What the checker believes at the end of the code it has emitted.
LEMMA CurrentIs ==
    ASSUME NEW en, NEW cl, NEW m, NEW fr
    PROVE  /\ ~fr[Len(fr)].dead => Current(fr, en, cl, m) = Holding(en, DeferredIn(cl), m)
           /\ fr[Len(fr)].dead => Current(fr, en, cl, m) = Nowhere
  BY DEF Current, Inside

\* An entry of the innermost scope is not among the outer ones.
LEMMA KeptOuter ==
    ASSUME CheckInv, verdict = "checking", NEW e, e.depth = Depth
    PROVE  /\ Outer(Depth, env \cup {e}) = Outer(Depth, env)
           /\ Outer(Depth, cleanup \cup {e}) = Outer(Depth, cleanup)
<1>1. Depth \in Nat
  BY TopType DEF CheckInv
<1> QED
  BY <1>1 DEF Outer

\* Let keeps the flow.
LEMMA GhostLet ==
    ASSUME CheckInv, TypeInv', GhostInv, verdict = "checking",
           NEW r \in Roots, NEW s \in MaybeRoot, Let(r, s), ~Reject
    PROVE  GhostInv'
<1>1. PICK names, J, P : Ghost(names, J, P)
  BY DEF GhostInv
<1>2. TypeInv /\ ScopeInv /\ NamesInv /\ Depth \in Nat /\ clock \in Nat
  BY DepthType DEF CheckInv
<1>3. PICK drop : drop = DropOf(r, Depth, clock)
  OBVIOUS
<1>4. /\ s \in InScope \cup {None} /\ s \notin moved /\ r \notin declared
      /\ moved' = moved \cup Taken(s) /\ declared' = declared \cup {r}
      /\ env' = env \cup {drop} /\ cleanup' = cleanup \cup {drop}
      /\ Emit(TakeOf(s) \o Do("store", r) \o Arm(drop))
      /\ frames' = frames /\ clock' = clock + 1
  BY <1>3 DEF Let, Element
<1>5. drop.root = r /\ drop.depth = Depth /\ drop \in Bindings /\ ~Deferred(drop)
  BY <1>2, <1>3, DropOfType DEF DropOf, Bindings, Deferred
<1>6. PICK more : more = names \cup {drop}
  OBVIOUS
<1>7. /\ names \subseteq Bindings /\ UniqueRoots(names) /\ env \subseteq names
      /\ \A e \in names : e.root \in declared
  BY <1>1 DEF Ghost
<1>8. /\ names \subseteq more /\ more \subseteq Bindings /\ env' \subseteq more /\ drop \in more
      /\ \A e \in more : e.root \in declared'
  BY <1>4, <1>5, <1>6, <1>7
<1>9. UniqueRoots(more)
  <2>1. \A e \in names : e.root # r
    BY <1>4, <1>7
  <2> QED
    BY <1>5, <1>6, <1>7, <2>1 DEF UniqueRoots
<1>10. Outer(Depth, env') = Outer(Depth, env) /\ Outer(Depth, cleanup') = Outer(Depth, cleanup)
  BY <1>4, <1>5, KeptOuter
<1>11. ASSUME ~Top.dead
       PROVE  Emits(more, Inside(env, cleanup, moved), TakeOf(s) \o Do("store", r) \o Arm(drop), {}, {},
                    Current(frames', env', cleanup', moved'))
  <2>1. PICK binds, calls, m : binds = env /\ calls = DeferredIn(cleanup) /\ m = moved
    OBVIOUS
  <2>2. binds \in SUBSET Bindings /\ calls \in SUBSET Calls /\ binds \subseteq more
    BY <1>2, <1>7, <1>8, <2>1, ScopeTypes
  <2>3. s = None \/ (s \in RootsOf(binds) /\ s \notin m)
    BY <1>4, <2>1 DEF InScope, RootsOf
  <2>4. Emits(more, Holding(binds, calls, m), TakeOf(s), {}, {}, Holding(binds, calls, m \cup Taken(s)))
    BY <2>2, <2>3, HeldTake
  <2>5. drop.root \notin m \cup Taken(s) /\ drop.root \notin RootsOf(binds)
    <3>1. moved \cup Taken(s) \subseteq declared
      BY <1>2, <1>4, TakenNames DEF NamesInv
    <3> QED
      BY <1>4, <1>5, <1>7, <2>1, <3>1 DEF RootsOf
  <2>6. PICK m2 : m2 = m \cup Taken(s)
    OBVIOUS
  <2>7. Emits(more, Holding(binds, calls, m2), Do("store", r) \o Arm(drop), {}, {},
              Holding(binds \cup {drop}, calls, m2))
    <3>1. Emits(more, Holding(binds, calls, m2), Do("store", drop.root) \o Arm(drop), {}, {},
                Holding(binds \cup {drop}, calls, m2))
      BY <1>5, <1>8, <2>2, <2>5, <2>6, HeldBind
    <3> QED
      BY <1>5, <3>1
  <2>8. Emits(more, Holding(binds, calls, m), TakeOf(s) \o (Do("store", r) \o Arm(drop)), {}, {},
              Holding(binds \cup {drop}, calls, m2))
    BY <2>4, <2>6, <2>7, EmitsBoth
  <2>9. TakeOf(s) \o (Do("store", r) \o Arm(drop)) = (TakeOf(s) \o Do("store", r)) \o Arm(drop)
    <3>1. TakeOf(s) \in Seq(Instr) /\ Do("store", r) \in Seq(Instr) /\ Arm(drop) \in Seq(Instr)
      BY <1>5, TakeOfType, DoType, ArmType DEF Bindings
    <3> QED
      BY <3>1, ConcatAssociative
  <2>10. DeferredIn(cleanup') = calls
    BY <1>4, <1>5, <2>1 DEF DeferredIn
  <2>11. Current(frames', env', cleanup', moved') = Holding(binds \cup {drop}, calls, m2)
    <3>1. ~frames'[Len(frames')].dead
      BY <1>4, <1>11 DEF Top, Depth
    <3> QED
      BY <1>4, <2>1, <2>6, <2>10, <3>1, CurrentIs
  <2>12. Inside(env, cleanup, moved) = Holding(binds, calls, m)
    BY <2>1 DEF Inside
  <2> QED
    BY <2>8, <2>9, <2>11, <2>12
<1>12. FramesKept /\ declared \subseteq declared'
  BY <1>4 DEF FramesKept
<1>13. PICK is : is = TakeOf(s) \o Do("store", r) \o Arm(drop)
  OBVIOUS
<1> QED
  BY <1>1, <1>4, <1>8, <1>9, <1>10, <1>11, <1>12, <1>13, GhostElement

\* An element that declares nothing.
LEMMA GhostPlain ==
    ASSUME CheckInv, TypeInv', verdict = "checking", NEW names, NEW J, NEW P, Ghost(names, J, P),
           FramesKept \/ FramesMarked, clock' = clock + 1, UNCHANGED <<env, declared>>,
           Outer(Depth, cleanup') = Outer(Depth, cleanup), NEW is, Emit(is),
           ~Top.dead => Emits(names, Inside(env, cleanup, moved), is, {}, {},
                              Current(frames', env', cleanup', moved'))
    PROVE  GhostInv'
<1>1. names \subseteq Bindings /\ UniqueRoots(names) /\ env \subseteq names
  BY DEF Ghost
<1>2. Outer(Depth, env') = Outer(Depth, env) /\ env' \subseteq names
  BY <1>1
<1>3. (\A e \in names : e.root \in declared') /\ declared \subseteq declared'
  BY DEF Ghost
<1> QED
  BY <1>1, <1>2, <1>3, GhostElement

\* The bindings and calls in scope are among the names.
LEMMA HeldNow ==
    ASSUME CheckInv, NEW names, NEW J, NEW P, Ghost(names, J, P)
    PROVE  /\ env \in SUBSET Bindings /\ env \subseteq names /\ UniqueRoots(env)
           /\ DeferredIn(cleanup) \in SUBSET Calls
<1>1. UniqueRoots(env)
  BY DEF Ghost, UniqueRoots
<1> QED
  BY <1>1, ScopeTypes DEF CheckInv, Ghost

\* Assign keeps the flow.
LEMMA GhostAssign ==
    ASSUME CheckInv, TypeInv', GhostInv, verdict = "checking",
           NEW r \in Roots, NEW s \in MaybeRoot, Assign(r, s), ~Reject
    PROVE  GhostInv'
<1>1. PICK names, J, P : Ghost(names, J, P)
  BY DEF GhostInv
<1>2. /\ r \in InScope /\ s \in InScope \cup {None} /\ s \notin moved /\ s # r
      /\ moved' = (moved \cup Taken(s)) \ {r}
      /\ Emit(TakeOf(s) \o DropBefore(r) \o Do("store", r))
      /\ UNCHANGED <<env, declared, cleanup, frames>> /\ clock' = clock + 1
  BY DEF Assign, Element
<1>3. PICK binds, calls, m : binds = env /\ calls = DeferredIn(cleanup) /\ m = moved
  OBVIOUS
<1>4. binds \in SUBSET Bindings /\ calls \in SUBSET Calls /\ binds \subseteq names
  BY <1>1, <1>3, HeldNow
<1>5. ASSUME ~Top.dead
      PROVE  Emits(names, Inside(env, cleanup, moved), TakeOf(s) \o DropBefore(r) \o Do("store", r), {}, {},
                   Current(frames', env', cleanup', moved'))
  <2>1. s = None \/ (s \in RootsOf(binds) /\ s \notin m)
    BY <1>2, <1>3 DEF InScope, RootsOf
  <2>2. Emits(names, Holding(binds, calls, m), TakeOf(s), {}, {}, Holding(binds, calls, m \cup Taken(s)))
    BY <1>4, <2>1, HeldTake
  <2>3. PICK m2 : m2 = m \cup Taken(s)
    OBVIOUS
  <2>4. r \in RootsOf(binds)
    BY <1>2, <1>3 DEF InScope, RootsOf
  <2>5. DropBefore(r) = IF r \in m2 THEN <<>> ELSE Do("drop", r)
    <3>1. r \notin Taken(s)
      BY <1>2 DEF Taken
    <3> QED
      BY <1>3, <2>3, <3>1 DEF DropBefore
  <2>6. Emits(names, Holding(binds, calls, m2), DropBefore(r) \o Do("store", r), {}, {},
              Holding(binds, calls, m2 \ {r}))
    <3>1. Emits(names, Holding(binds, calls, m2),
                (IF r \in m2 THEN <<>> ELSE Do("drop", r)) \o Do("store", r), {}, {},
                Holding(binds, calls, m2 \ {r}))
      BY <1>4, <2>4, HeldAssign
    <3> QED
      BY <2>5, <3>1
  <2>7. Emits(names, Holding(binds, calls, m), TakeOf(s) \o (DropBefore(r) \o Do("store", r)), {}, {},
              Holding(binds, calls, m2 \ {r}))
    BY <2>2, <2>3, <2>6, EmitsBoth
  <2>8. TakeOf(s) \o (DropBefore(r) \o Do("store", r)) = (TakeOf(s) \o DropBefore(r)) \o Do("store", r)
    <3>1. TakeOf(s) \in Seq(Instr) /\ Do("store", r) \in Seq(Instr) /\ Do("drop", r) \in Seq(Instr)
      BY TakeOfType, DoType
    <3>2. DropBefore(r) \in Seq(Instr)
      BY <3>1 DEF DropBefore
    <3> QED
      BY <3>1, <3>2, ConcatAssociative
  <2>9. Current(frames', env', cleanup', moved') = Holding(binds, calls, m2 \ {r})
    <3>1. ~frames'[Len(frames')].dead
      BY <1>2, <1>5 DEF Top, Depth
    <3> QED
      BY <1>2, <1>3, <2>3, <3>1, CurrentIs
  <2>10. Inside(env, cleanup, moved) = Holding(binds, calls, m)
    BY <1>3 DEF Inside
  <2> QED
    BY <2>7, <2>8, <2>9, <2>10
<1>6. FramesKept /\ Outer(Depth, cleanup') = Outer(Depth, cleanup) /\ UNCHANGED <<env, declared>>
  BY <1>2 DEF FramesKept
<1>7. PICK is : is = TakeOf(s) \o DropBefore(r) \o Do("store", r)
  OBVIOUS
<1> QED
  BY <1>1, <1>2, <1>5, <1>6, <1>7, GhostPlain

\* Use, Take and Borrow keep the flow.
LEMMA GhostAccess ==
    ASSUME CheckInv, TypeInv', GhostInv, verdict = "checking", NEW r \in Roots,
           Use(r) \/ Take(r) \/ (r \notin moved /\ Borrow(r)), ~Reject
    PROVE  GhostInv'
<1>1. PICK names, J, P : Ghost(names, J, P)
  BY DEF GhostInv
<1>2. /\ r \in InScope /\ r \notin moved
      /\ UNCHANGED <<env, declared, cleanup, frames>> /\ clock' = clock + 1
  BY DEF Use, Take, Borrow, Element
<1>3. PICK op \in {"use", "take", "borrow"} :
         /\ moved' = (IF op = "take" THEN moved \cup {r} ELSE moved)
         /\ Emit(Do(op, r))
  <2>1. CASE Use(r)
    <3>1. moved' = moved /\ Emit(Do("use", r))
      BY <2>1 DEF Use, Element
    <3> QED
      BY <3>1
  <2>2. CASE Take(r)
    <3>1. moved' = moved \cup {r} /\ Emit(Do("take", r))
      BY <2>2 DEF Take, Element
    <3> QED
      BY <3>1
  <2>3. CASE Borrow(r)
    <3>1. moved' = moved /\ Emit(Do("borrow", r))
      BY <2>3 DEF Borrow, Element
    <3> QED
      BY <3>1
  <2> QED
    BY <2>1, <2>2, <2>3
<1>4. PICK binds, calls, m : binds = env /\ calls = DeferredIn(cleanup) /\ m = moved
  OBVIOUS
<1>5. binds \in SUBSET Bindings /\ calls \in SUBSET Calls /\ binds \subseteq names
  BY <1>1, <1>4, HeldNow
<1>6. ASSUME ~Top.dead
      PROVE  Emits(names, Inside(env, cleanup, moved), Do(op, r), {}, {},
                   Current(frames', env', cleanup', moved'))
  <2>1. PICK b : b = Holding(binds, calls, m)
    OBVIOUS
  <2>2. Ready(names, b)
    BY <1>5, <2>1, HeldReady
  <2>3. r \in b.has
    <3>1. b.has = RootsOf(binds) \ m
      BY <2>1, HeldFields
    <3> QED
      BY <1>2, <1>4, <3>1 DEF InScope, RootsOf
  <2>4. ~frames'[Len(frames')].dead
    BY <1>2, <1>6 DEF Top, Depth
  <2>5. Inside(env, cleanup, moved) = b
    BY <1>4, <2>1 DEF Inside
  <2>6. CASE op = "take"
    <3>1. Emits(names, b, TakeOf(r), {}, {}, Holding(binds, calls, m \cup Taken(r)))
      <4>1. r \in MaybeRoot /\ r \in RootsOf(binds) /\ r \notin m
        BY <1>2, <1>4 DEF MaybeRoot, InScope, RootsOf
      <4> QED
        BY <1>5, <2>1, <4>1, HeldTake
    <3>2. r # None
      BY RootsAssumption
    <3>3. TakeOf(r) = Do(op, r) /\ Taken(r) = {r}
      BY <2>6, <3>2 DEF TakeOf, Taken
    <3>4. Current(frames', env', cleanup', moved') = Holding(binds, calls, m \cup Taken(r))
      BY <1>2, <1>3, <1>4, <2>4, <2>6, <3>3, CurrentIs
    <3> QED
      BY <2>5, <3>1, <3>3, <3>4
  <2>7. CASE op # "take"
    <3>1. op \in {"use", "borrow"}
      BY <2>7
    <3>2. Emits(names, b, Do(op, r), {}, {}, b)
      BY <2>2, <2>3, <3>1, EmitsAccess
    <3>3. Current(frames', env', cleanup', moved') = b
      BY <1>2, <1>3, <1>4, <2>1, <2>4, <2>7, CurrentIs
    <3> QED
      BY <2>5, <3>2, <3>3
  <2> QED
    BY <2>6, <2>7
<1>7. FramesKept /\ Outer(Depth, cleanup') = Outer(Depth, cleanup) /\ UNCHANGED <<env, declared>>
  BY <1>2 DEF FramesKept
<1>8. PICK is : is = Do(op, r)
  OBVIOUS
<1> QED
  BY <1>1, <1>2, <1>3, <1>6, <1>7, <1>8, GhostPlain

\* CheckDefer keeps the flow.
LEMMA GhostDefer ==
    ASSUME CheckInv, TypeInv', GhostInv, verdict = "checking",
           NEW r \in Roots, NEW how \in {"use", "borrow", "take"}, NEW onErr \in BOOLEAN,
           CheckDefer(r, how, onErr), ~Reject
    PROVE  GhostInv'
<1>1. PICK names, J, P : Ghost(names, J, P)
  BY DEF GhostInv
<1>2. PICK e : e = [kind |-> how, root |-> r, onErr |-> onErr, depth |-> Depth, ord |-> clock]
  OBVIOUS
<1>3. /\ cleanup' = cleanup \cup {e} /\ Emit(Arm(e))
      /\ UNCHANGED <<env, declared, moved, frames>> /\ clock' = clock + 1
  BY <1>2 DEF CheckDefer, Element
<1>4. e \in Calls /\ e.depth = Depth /\ e.ord = clock /\ Deferred(e)
  <2>1. Depth \in Nat /\ clock \in Nat
    BY DepthType DEF CheckInv
  <2>2. Deferred(e)
    BY <1>2 DEF Deferred
  <2> QED
    BY <1>2, <2>1, <2>2 DEF Calls, Entry
<1>5. e \notin DeferredIn(cleanup)
  <2>1. \A f \in cleanup : f.ord < clock /\ f.ord \in Nat
    BY ScopeTypes DEF CheckInv
  <2>2. clock \in Nat
    BY DepthType DEF CheckInv
  <2> QED
    BY <1>4, <2>1, <2>2 DEF DeferredIn
<1>6. PICK binds, calls, m : binds = env /\ calls = DeferredIn(cleanup) /\ m = moved
  OBVIOUS
<1>7. binds \in SUBSET Bindings /\ calls \in SUBSET Calls /\ binds \subseteq names
  BY <1>1, <1>6, HeldNow
<1>8. ASSUME ~Top.dead
      PROVE  Emits(names, Inside(env, cleanup, moved), Arm(e), {}, {},
                   Current(frames', env', cleanup', moved'))
  <2>1. Emits(names, Holding(binds, calls, m), Arm(e), {}, {}, Holding(binds, calls \cup {e}, m))
    BY <1>4, <1>5, <1>6, <1>7, HeldCall
  <2>2. DeferredIn(cleanup') = calls \cup {e}
    BY <1>3, <1>4, <1>6 DEF DeferredIn
  <2>3. ~frames'[Len(frames')].dead
    BY <1>3, <1>8 DEF Top, Depth
  <2>4. Current(frames', env', cleanup', moved') = Holding(binds, calls \cup {e}, m)
    BY <1>3, <1>6, <2>2, <2>3, CurrentIs
  <2>5. Inside(env, cleanup, moved) = Holding(binds, calls, m)
    BY <1>6 DEF Inside
  <2> QED
    BY <2>1, <2>4, <2>5
<1>9. FramesKept /\ UNCHANGED <<env, declared>>
  BY <1>3 DEF FramesKept
<1>10. Outer(Depth, cleanup') = Outer(Depth, cleanup)
  BY <1>3, <1>4, KeptOuter
<1>11. PICK is : is = Arm(e)
  OBVIOUS
<1> QED
  BY <1>1, <1>3, <1>8, <1>9, <1>10, <1>11, GhostPlain

\* Concatenation of code.
LEMMA InstrJoin ==
    ASSUME NEW x \in Seq(Instr), NEW y \in Seq(Instr)
    PROVE  x \o y \in Seq(Instr)
BY ConcatProperties

\* It is associative.
LEMMA InstrAssociates ==
    ASSUME NEW x \in Seq(Instr), NEW y \in Seq(Instr), NEW z \in Seq(Instr)
    PROVE  (x \o y) \o z = x \o (y \o z)
BY ConcatAssociative

\* The code of a departure: the value, its class, the cleanup and the return.
LEMMA LeavingCode ==
    ASSUME NEW w \in Seq(Instr), NEW class \in ExitClass,
           NEW first \in SUBSET Entry, NEW plan \in SUBSET Entry
    PROVE  /\ ((w \o Result(class)) \o Clean(first, plan)) \o Ret
                = w \o (Result(class) \o (Clean(first, plan) \o Ret))
           /\ Result(class) \o (Clean(first, plan) \o Ret) \in Seq(Instr)
<1>1. PICK x, y, z : /\ x = Result(class) /\ y = Clean(first, plan) /\ z = Ret
                     /\ x \in Seq(Instr) /\ y \in Seq(Instr) /\ z \in Seq(Instr)
  BY ResultType, CleanType, RetType
<1>2. PICK u : u = w \o x /\ u \in Seq(Instr)
  BY <1>1, InstrJoin
<1>3. PICK t : t = y \o z /\ t \in Seq(Instr)
  BY <1>1, InstrJoin
<1>4. x \in Seq(Instr) /\ y \in Seq(Instr) /\ z \in Seq(Instr)
  BY <1>1
<1>5. u \in Seq(Instr) /\ t \in Seq(Instr)
  BY <1>2, <1>3
<1>6. (u \o y) \o z = u \o (y \o z)
  BY <1>4, <1>5, InstrAssociates
<1>7. (w \o x) \o t = w \o (x \o t)
  BY <1>4, <1>5, InstrAssociates
<1>8. x \o t \in Seq(Instr)
  BY <1>4, <1>5, InstrJoin
<1>9. ((w \o x) \o y) \o z = w \o (x \o (y \o z)) /\ x \o (y \o z) \in Seq(Instr)
  BY <1>2, <1>3, <1>6, <1>7, <1>8, Zenon
<1> QED
  BY <1>1, <1>9, Zenon

----------------------------------------------------------------------------
(* Leaving the callable.                                                    *)

\* After the cleanup of a whole body nothing is held and nothing registered.
LEMMA LeavesNothing ==
    ASSUME CheckInv, NEW m, NEW class
    PROVE  /\ Left(Giving(Inside(env, cleanup, m), class), 0).has = {}
           /\ Left(Giving(Inside(env, cleanup, m), class), 0).calls = {}
<1>1. \A e \in env \cup cleanup : ~(e.depth < 0)
  BY EntriesTyped DEF CheckInv
<1>2. Outer(0, env) = {} /\ Outer(0, DeferredIn(cleanup)) = {}
  BY <1>1 DEF Outer, DeferredIn
<1>3. Left(Giving(Inside(env, cleanup, m), class), 0) = Giving(Holding({}, {}, m), class)
  BY <1>2, HoldingLeaves DEF Inside
<1>4. Giving(Holding({}, {}, m), class).has = {} /\ Giving(Holding({}, {}, m), class).calls = {}
  BY DEF Giving, Holding
<1> QED
  BY <1>3, <1>4

\* The result, the plan for everything there is, and the return.
LEMMA LeaveAll ==
    ASSUME CheckInv, NEW names, NEW J, NEW P, Ghost(names, J, P),
           NEW m \in SUBSET Roots, NEW class \in ExitClass,
           NEW first \in SUBSET Entry, NEW plan \in SUBSET Entry, first = {} \/ plan = {},
           first \cup plan = Unregistered(1, m) \cup Registered(1, m),
           DependenciesOk(Registered(1, m), m, class)
    PROVE  Emits(names, Holding(env, DeferredIn(cleanup), m),
                 Result(class) \o (Clean(first, plan) \o Ret), {}, {}, Nowhere)
<1>1. TypeInv /\ ScopeInv /\ CallsInv
  BY DEF CheckInv
<1>2. env \in SUBSET Bindings /\ env \subseteq names /\ UniqueRoots(env) /\ DeferredIn(cleanup) \in SUBSET Calls
  BY HeldNow
<1>3. PICK b, c, d : b = Inside(env, cleanup, m) /\ c = Giving(b, class) /\ d = Left(c, 0)
  OBVIOUS
<1>4. b = Holding(env, DeferredIn(cleanup), m)
  BY <1>3 DEF Inside
<1>5. Ready(names, b)
  BY <1>2, <1>4, HeldReady
<1>6. Emits(names, b, Result(class), {}, {}, c) /\ Ready(names, c)
  BY <1>3, <1>5, EmitsResult
<1>7. CleanupIsSafe(c, first, plan, 0)
  <2>1. first \cup plan = Due(c, 0)
    BY <1>1, <1>2, <1>3, DueOutside
  <2>2. \A e \in env \cup cleanup : e.depth >= 0 /\ e.depth \in Nat
    BY <1>1, EntriesTyped
  <2>3. \A e \in cleanup : Deferred(e) /\ e.depth >= 0 => e \in Registered(1, m)
    BY <1>1 DEF CallsInv, Registered, Deferred
  <2>4. \A e \in cleanup : e.kind = "take" /\ e.depth >= 0 /\ ~(e.onErr /\ class = "ok") =>
               \A x \in env : x.root = e.root => x.depth >= 0
    BY <2>2
  <2>5. PICK zero \in Nat : zero = 0
    OBVIOUS
  <2> QED
    BY <1>1, <1>2, <1>3, <2>1, <2>3, <2>4, <2>5, PlanIsSafe
<1>8. Emits(names, c, Clean(first, plan), {}, {}, d) /\ Ready(names, d)
  <2>1. PICK zero \in Nat : zero = 0
    OBVIOUS
  <2> QED
    BY <1>3, <1>6, <1>7, <2>1, EmitsClean
<1>9. d.has = {} /\ d.calls = {}
  BY <1>3, LeavesNothing
<1>10. Emits(names, d, Ret, {}, {}, Nowhere)
  BY <1>8, <1>9, EmitsRet
<1>11. Emits(names, c, Clean(first, plan) \o Ret, {}, {}, Nowhere)
  BY <1>8, <1>10, EmitsBoth
<1> QED
  BY <1>4, <1>6, <1>11, EmitsBoth

\* A departure marks the innermost frame dead.
LEMMA TopMarked ==
    ASSUME TypeInv, FrameInv, verdict = "checking", NEW ret \in BOOLEAN, SetTop(Mark(Top, ret, TRUE))
    PROVE  FramesMarked /\ frames'[Len(frames')].dead
<1>1. Top \in Frame /\ Depth \in Nat /\ Depth \in 1..Depth /\ Depth = Len(frames) /\ Top = frames[Depth]
  BY FrameTypes, TopType
<1>2. PICK f : f = Mark(Top, ret, TRUE)
  OBVIOUS
<1>3. /\ f.kind = Top.kind /\ f.id = Top.id
      /\ f.arm = Top.arm /\ f.entry = Top.entry
      /\ f.exits = Top.exits /\ f.covered = Top.covered
      /\ f.allRet = Top.allRet /\ f.merged = Top.merged
      /\ f.loop = Top.loop /\ f.target = Top.target
      /\ f.dead = (Top.dead \/ TRUE)
  <2>1. PICK end \in BOOLEAN : end = TRUE
    OBVIOUS
  <2>2. Top \in Frame /\ f = Mark(Top, ret, end)
    BY <1>1, <1>2, <2>1
  <2>3. /\ f.kind = Top.kind /\ f.id = Top.id
        /\ f.arm = Top.arm /\ f.entry = Top.entry
        /\ f.exits = Top.exits /\ f.covered = Top.covered
        /\ f.allRet = Top.allRet /\ f.merged = Top.merged
        /\ f.loop = Top.loop /\ f.target = Top.target
        /\ f.dead = (Top.dead \/ end)
    BY <2>2, MarkIs
  <2> QED
    BY <2>1, <2>3
<1>4. Top = frames[Len(frames)]
  BY <1>1
<1>5. MarksTop(frames, f)
  BY <1>3, <1>4 DEF MarksTop
<1>6. FramesMarked
  BY <1>2, <1>5 DEF FramesMarked
<1>7. Len(frames') = Depth /\ frames'[Depth] = f
  <2>1. frames' = [frames EXCEPT ![Depth] = f]
    BY <1>2 DEF SetTop
  <2>2. frames \in Seq(Frame) /\ Depth \in 1..Len(frames) /\ Depth = Len(frames)
    BY <1>1, FrameTypes
  <2> QED
    BY <2>1, <2>2
<1> QED
  BY <1>3, <1>6, <1>7

\* CheckReturn keeps the flow.
LEMMA GhostReturn ==
    ASSUME CheckInv, TypeInv', GhostInv, verdict = "checking", Shapes = {},
           NEW s \in MaybeRoot, NEW class \in ExitClass,
           ExitShape(moved \cup Taken(s)), CheckReturn(s, class), ~Reject
    PROVE  GhostInv'
<1>1. PICK names, J, P : Ghost(names, J, P)
  BY DEF GhostInv
<1>2. PICK m : m = moved \cup Taken(s)
  OBVIOUS
<1>3. /\ s \in InScope \cup {None} /\ s \notin moved /\ DependenciesOk(Registered(1, m), m, class)
      /\ Emit(TakeOf(s) \o Result(class) \o Clean(Unregistered(1, m), Registered(1, m)) \o Ret)
      /\ SetTop(Mark(Top, TRUE, TRUE)) /\ UNCHANGED <<env, declared, cleanup>> /\ clock' = clock + 1
  BY <1>2 DEF CheckReturn, Element
<1>4. TypeInv /\ FrameInv /\ TypeOK
  BY DEF CheckInv, TypeInv
<1>5. m \in SUBSET Roots
  BY <1>2, <1>4, RootTypes DEF TypeOK
<1>6. PICK first \in SUBSET Entry, plan \in SUBSET Entry : first = Unregistered(1, m) /\ plan = Registered(1, m)
  BY <1>4, <1>5, PlanTypes
<1>7. first = {} \/ plan = {}
  BY <1>2, <1>6 DEF ExitShape, Has
<1>8. FramesMarked /\ frames'[Len(frames')].dead
  <2>1. PICK ret \in BOOLEAN : ret = TRUE
    OBVIOUS
  <2>2. SetTop(Mark(Top, ret, TRUE))
    BY <1>3, <2>1
  <2> QED
    BY <1>4, <2>2, TopMarked
<1>9. PICK binds, calls, m0 : binds = env /\ calls = DeferredIn(cleanup) /\ m0 = moved
  OBVIOUS
<1>10. binds \in SUBSET Bindings /\ calls \in SUBSET Calls /\ binds \subseteq names
  BY <1>1, <1>9, HeldNow
<1>11. PICK is : is = TakeOf(s) \o Result(class) \o Clean(first, plan) \o Ret
  OBVIOUS
<1>12. Emits(names, Inside(env, cleanup, moved), is, {}, {}, Current(frames', env', cleanup', moved'))
  <2>1. Emits(names, Holding(binds, calls, m0), TakeOf(s), {}, {}, Holding(binds, calls, m0 \cup Taken(s)))
    <3>1. s = None \/ (s \in RootsOf(binds) /\ s \notin m0)
      BY <1>3, <1>9 DEF InScope, RootsOf
    <3> QED
      BY <1>10, <3>1, HeldTake
  <2>2. Emits(names, Holding(env, DeferredIn(cleanup), m), Result(class) \o (Clean(first, plan) \o Ret),
              {}, {}, Nowhere)
    BY <1>1, <1>3, <1>5, <1>6, <1>7, LeaveAll
  <2>3. Emits(names, Inside(env, cleanup, moved),
              TakeOf(s) \o (Result(class) \o (Clean(first, plan) \o Ret)), {}, {}, Nowhere)
    BY <1>2, <1>9, <2>1, <2>2, EmitsBoth DEF Inside
  <2>4. is = TakeOf(s) \o (Result(class) \o (Clean(first, plan) \o Ret))
    <3>1. PICK w : w = TakeOf(s) /\ w \in Seq(Instr)
      BY TakeOfType
    <3> QED
      BY <1>11, <3>1, LeavingCode
  <2>5. Current(frames', env', cleanup', moved') = Nowhere
    BY <1>8, CurrentIs
  <2> QED
    BY <2>3, <2>4, <2>5
<1>13. Outer(Depth, cleanup') = Outer(Depth, cleanup) /\ UNCHANGED <<env, declared>> /\ Emit(is)
  BY <1>3, <1>6, <1>11
<1> QED
  BY <1>1, <1>3, <1>8, <1>12, <1>13, GhostPlain

\* After an instruction that is not gone past, the code goes on from anywhere.
LEMMA EmitsAnew ==
    ASSUME NEW names, NEW b, b.class = "nowhere", NEW c \in Belief, NEW is, NEW j, NEW p, NEW d,
           Emits(names, c, is, j, p, d)
    PROVE  Emits(names, b, is, j, p, d)
<1>1. \A s \in Seq(Instr) : \A x, y : Flow(names, s, x, y, b) => Flow(names, s, x, y, c)
  BY FlowRestarts
<1> QED
  BY <1>1 DEF Emits

\* The belief after a departure.
LEMMA NowhereIs == Nowhere.class = "nowhere" /\ Nowhere \in Belief
  BY DEF Nowhere, Belief

\* CheckReturnOnError keeps the flow.
LEMMA GhostTry ==
    ASSUME CheckInv, TypeInv', GhostInv, verdict = "checking", Shapes = {},
           ExitShape(moved), CheckReturnOnError, ~Reject
    PROVE  GhostInv'
<1>1. PICK names, J, P : Ghost(names, J, P)
  BY DEF GhostInv
<1>2. PICK next \in LabelName : next = Label(clock, "next")
  BY LabelType, DepthType DEF CheckInv
<1>3. /\ DependenciesOk(Registered(1, moved), moved, "error")
      /\ Emit(Jump("branch", next) \o Result("error") \o Clean(Unregistered(1, moved), Registered(1, moved))
                \o Ret \o Place(next, InScope \ moved))
      /\ UNCHANGED <<env, declared, moved, cleanup, frames>> /\ clock' = clock + 1
  BY <1>2 DEF CheckReturnOnError, Element
<1>4. TypeInv /\ FrameInv /\ TypeOK /\ moved \in SUBSET Roots /\ InScope \in SUBSET Roots
  BY RootTypes DEF CheckInv, TypeInv, TypeOK
<1>5. PICK first \in SUBSET Entry, plan \in SUBSET Entry :
         first = Unregistered(1, moved) /\ plan = Registered(1, moved)
  BY <1>4, PlanTypes
<1>6. first = {} \/ plan = {}
  BY <1>5 DEF ExitShape, Has
<1>7. FramesKept /\ Outer(Depth, cleanup') = Outer(Depth, cleanup) /\ UNCHANGED <<env, declared>>
  BY <1>3 DEF FramesKept
<1>8. PICK is : is = Jump("branch", next) \o Result("error") \o Clean(first, plan) \o Ret
                       \o Place(next, InScope \ moved)
  OBVIOUS
<1>9. Emit(is)
  BY <1>3, <1>5, <1>8
<1>10. CASE Top.dead
  BY <1>1, <1>3, <1>7, <1>9, <1>10, GhostPlain
<1>11. CASE ~Top.dead
  <2>1. PICK b : b = Holding(env, DeferredIn(cleanup), moved)
    OBVIOUS
  <2>2. Ready(names, b) /\ b \in Belief
    <3>1. Ready(names, b)
      BY <1>1, <2>1, HeldNow, HeldReady
    <3> QED
      BY <3>1 DEF Ready
  <2>3. Emits(names, b, Jump("branch", next), {<<next, b>>}, {}, b)
    BY <2>2, EmitsBranch
  <2>4. Emits(names, b, Result("error") \o (Clean(first, plan) \o Ret), {}, {}, Nowhere)
    <3>1. PICK class \in ExitClass, m \in SUBSET Roots : class = "error" /\ m = moved
      BY <1>4 DEF ExitClass
    <3>2. /\ first = {} \/ plan = {}
          /\ first \cup plan = Unregistered(1, m) \cup Registered(1, m)
          /\ DependenciesOk(Registered(1, m), m, class)
      BY <1>3, <1>5, <1>6, <3>1
    <3>3. Emits(names, Holding(env, DeferredIn(cleanup), m), Result(class) \o (Clean(first, plan) \o Ret),
                {}, {}, Nowhere)
      BY <1>1, <3>2, LeaveAll
    <3> QED
      BY <2>1, <3>1, <3>3
  <2>5. Emits(names, Nowhere, Place(next, InScope \ moved), {}, {<<next, b>>}, b)
    <3>1. InScope \ moved \in SUBSET Roots
      BY <1>4
    <3>2. InScope \ moved \subseteq b.has
      <4>1. b.has = RootsOf(env) \ moved
        BY <2>1, HeldFields
      <4> QED
        BY <4>1 DEF InScope, RootsOf
    <3>3. Emits(names, b, Place(next, InScope \ moved), {}, {<<next, b>>}, b)
      BY <2>2, <3>1, <3>2, EmitsPlace
    <3> QED
      BY <2>2, <3>3, NowhereIs, EmitsAnew
  <2>6. Emits(names, b, (Result("error") \o (Clean(first, plan) \o Ret)) \o Place(next, InScope \ moved),
              {}, {<<next, b>>}, b)
    <3>1. {} \cup {} = {} /\ {} \cup {<<next, b>>} = {<<next, b>>}
      OBVIOUS
    <3>2. Emits(names, b, (Result("error") \o (Clean(first, plan) \o Ret)) \o Place(next, InScope \ moved),
                {} \cup {}, {} \cup {<<next, b>>}, b)
      BY <2>4, <2>5, EmitsThen
    <3> QED
      BY <3>1, <3>2
  <2>7. Emits(names, b,
              Jump("branch", next)
                \o ((Result("error") \o (Clean(first, plan) \o Ret)) \o Place(next, InScope \ moved)),
              {<<next, b>>}, {<<next, b>>}, b)
    <3>1. {<<next, b>>} \cup {} = {<<next, b>>} /\ {} \cup {<<next, b>>} = {<<next, b>>}
      OBVIOUS
    <3>2. Emits(names, b,
              Jump("branch", next)
                \o ((Result("error") \o (Clean(first, plan) \o Ret)) \o Place(next, InScope \ moved)),
              {<<next, b>>} \cup {}, {} \cup {<<next, b>>}, b)
      BY <2>3, <2>6, EmitsThen
    <3> QED
      BY <3>1, <3>2
  <2>8. is = Jump("branch", next)
               \o ((Result("error") \o (Clean(first, plan) \o Ret)) \o Place(next, InScope \ moved))
    <3>1. "error" \in ExitClass /\ InScope \ moved \in SUBSET Roots
      BY <1>4 DEF ExitClass
    <3>2. PICK v, z : /\ v = Jump("branch", next) /\ v \in Seq(Instr)
                      /\ z = Place(next, InScope \ moved) /\ z \in Seq(Instr)
      BY <3>1, JumpType, PlaceType
    <3>3. PICK t : t = Result("error") \o (Clean(first, plan) \o Ret)
      OBVIOUS
    <3>4. ((v \o Result("error")) \o Clean(first, plan)) \o Ret = v \o t /\ t \in Seq(Instr)
      BY <3>1, <3>2, <3>3, LeavingCode, Zenon
    <3>5. v \in Seq(Instr) /\ t \in Seq(Instr) /\ z \in Seq(Instr)
      BY <3>2, <3>4
    <3>6. (v \o t) \o z = v \o (t \o z)
      BY <3>5, InstrAssociates
    <3> QED
      BY <1>8, <3>2, <3>3, <3>4, <3>6
  <2>9. Current(frames', env', cleanup', moved') = b
    <3>1. ~frames'[Len(frames')].dead
      BY <1>3, <1>11 DEF Top, Depth
    <3> QED
      BY <1>3, <2>1, <3>1, CurrentIs
  <2>10. Flow(names, code, J, P, b)
    <3>1. Current(frames, env, cleanup, moved) = b
      BY <1>11, <2>1, CurrentIs DEF Top, Depth
    <3> QED
      BY <1>1, <3>1 DEF Ghost
  <2>11. code' = code \o is
    BY <1>9, <1>11 DEF Emit
  <2>12. PICK J2, P2 : J2 = J \cup {<<next, b>>} /\ P2 = P \cup {<<next, b>>}
    OBVIOUS
  <2>13. Linked(frames', env', cleanup', Depth', clock', J2, P2)
    <3>1. /\ Linked(frames, env, cleanup, Depth, clock, J, P) /\ Increasing(frames, Depth, clock)
          /\ Depth \in Nat /\ clock \in Nat
      BY <1>1, <1>4, DepthType DEF Ghost, FrameInv
    <3>2. PICK p \in {"head", "next", "exit"} : p = "next"
      OBVIOUS
    <3>3. Linked(frames, env, cleanup, Depth, clock + 1, J \cup {<<Label(clock, p), b>>},
                 P \cup {<<Label(clock, p), b>>})
      BY <3>1, LinkedTry
    <3>4. Depth' = Depth
      BY <1>3 DEF Depth
    <3> QED
      BY <1>2, <1>3, <2>12, <3>2, <3>3, <3>4
  <2>14. /\ names \subseteq Bindings /\ UniqueRoots(names) /\ env' \subseteq names
         /\ \A e \in names : e.root \in declared'
    BY <1>1, <1>3 DEF Ghost
  <2>15. PICK j, p : j = {<<next, b>>} /\ p = {<<next, b>>}
    OBVIOUS
  <2> QED
    BY <1>1, <1>4, <2>7, <2>8, <2>9, <2>10, <2>11, <2>12, <2>13, <2>14, <2>15, GhostEmits
<1> QED
  BY <1>10, <1>11

\* The loop a frame is in is an open one, numbered before now.
LEMMA LoopIs ==
    ASSUME CheckInv, verdict = "checking", Top.loop # 0
    PROVE  /\ Top.loop \in 2..Depth /\ frames[Top.loop].kind \in Loops
           /\ frames[Top.loop].kind = "while" => Top.target = frames[Top.loop].id
           /\ frames[Top.loop].id \in Nat /\ frames[Top.loop].id # 0 /\ frames[Top.loop].id < clock
           /\ ~Top.dead => ~frames[Top.loop - 1].dead
<1>1. /\ Depth \in Nat /\ Depth \in 1..Depth /\ Top = frames[Depth]
      /\ \A k \in 1..Depth : frames[k].loop \in Nat
  BY FrameTypes DEF CheckInv
<1>2. /\ Increasing(frames, Depth, clock) /\ FrameOk(frames, Depth) /\ DeadInside(frames, Depth)
  BY <1>1 DEF CheckInv, FrameInv
<1>3. PICK k : k = Top.loop
  OBVIOUS
<1>4. /\ k \in 2..Depth /\ frames[k].kind \in Loops
      /\ frames[k].kind = "while" => Top.target = frames[k].id
  BY <1>1, <1>2, <1>3 DEF FrameOk
<1>5. k \in 1..Depth /\ k - 1 \in 1..Depth /\ 1 \in 1..(k - 1) /\ 1 \in 1..Depth /\ k - 1 \in 1..(Depth - 1)
  BY <1>1, <1>4
<1>6. /\ frames[k].id \in Nat /\ frames[k].arm \in Nat /\ frames[k].id <= frames[k].arm
      /\ frames[k].arm < clock /\ frames[1].arm < frames[k].id /\ frames[1].arm \in Nat
  BY <1>2, <1>5 DEF Increasing
<1>7. clock \in Nat
  BY DepthType DEF CheckInv
<1>8. frames[k].id # 0 /\ frames[k].id < clock
  BY <1>6, <1>7
<1>9. ~Top.dead => ~frames[k - 1].dead
  BY <1>1, <1>2, <1>5 DEF DeadInside
<1> QED
  BY <1>3, <1>4, <1>6, <1>8, <1>9

\* What break does to the scopes it leaves.
LEMMA LeaveLoop ==
    ASSUME CheckInv, NEW names, NEW J, NEW P, Ghost(names, J, P),
           NEW d \in Nat, d >= 2, NEW m \in SUBSET Roots,
           NEW first \in SUBSET Entry, NEW plan \in SUBSET Entry, first = {}, plan = Registered(d, m),
           NEW known \in ExitClass, DependenciesOk(plan, m, known),
           NEW class \in ExitClass, class = "ok"
    PROVE  Emits(names, Holding(env, DeferredIn(cleanup), m), Clean(first, plan), {}, {},
                 Around(env, cleanup, d, m))
<1>1. TypeInv /\ ScopeInv /\ CallsInv
  BY DEF CheckInv
<1>2. env \in SUBSET Bindings /\ env \subseteq names /\ UniqueRoots(env) /\ DeferredIn(cleanup) \in SUBSET Calls
  BY HeldNow
<1>3. PICK b : b = Holding(env, DeferredIn(cleanup), m)
  OBVIOUS
<1>4. Ready(names, b) /\ b = Giving(Inside(env, cleanup, m), class)
  <2>1. Ready(names, b)
    BY <1>2, <1>3, HeldReady
  <2>2. Giving(b, "ok") = b
    BY <1>3 DEF Giving, Holding
  <2> QED
    BY <1>3, <2>1, <2>2 DEF Inside
<1>5. CleanupIsSafe(b, first, plan, d)
  <2>1. \A e \in env \cup cleanup : e.depth \in Nat
    BY <1>1, EntriesTyped
  <2>2. first \cup plan = Due(b, d)
    <3>1. Due(b, d) = Registered(d, m)
      BY <1>1, <1>4, DueInside
    <3> QED
      BY <3>1
  <2>3. \A e \in cleanup : Deferred(e) /\ e.depth >= d => e \in plan
    BY DEF Registered, Deferred
  <2>4. ASSUME NEW e \in cleanup, e.kind = "take", e.depth >= d, ~(e.onErr /\ class = "ok")
        PROVE  \A x \in env : x.root = e.root => x.depth >= d
    <3>1. Deferred(e) /\ ~e.onErr /\ e.depth > 1
      BY <2>1, <2>4 DEF Deferred
    <3>2. \A x \in env : x.root = e.root => x.depth >= e.depth
      BY <1>1, <2>4, <3>1 DEF CallsInv
    <3> QED
      BY <2>1, <2>4, <3>2
  <2>5. CleanupIsSafe(Giving(Inside(env, cleanup, m), class), first, plan, d)
    <3>1. first \cup plan = Due(Giving(Inside(env, cleanup, m), class), d)
      BY <1>4, <2>2
    <3>2. \A e \in cleanup : e.kind = "take" /\ e.depth >= d /\ ~(e.onErr /\ class = "ok") =>
               \A x \in env : x.root = e.root => x.depth >= d
      BY <2>4
    <3> QED
      BY <1>1, <1>2, <2>3, <3>1, <3>2, PlanIsSafe
  <2> QED
    BY <1>4, <2>5
<1>6. Emits(names, b, Clean(first, plan), {}, {}, Left(b, d))
  BY <1>4, <1>5, EmitsClean
<1>7. Left(b, d) = Around(env, cleanup, d, m)
  <2>1. Left(Giving(Holding(env, DeferredIn(cleanup), m), class), d)
          = Giving(Holding(Outer(d, env), Outer(d, DeferredIn(cleanup)), m), class)
    BY HoldingLeaves
  <2>2. \A x, y : Giving(Holding(x, y, m), "ok") = Holding(x, y, m)
    BY DEF Giving, Holding
  <2> QED
    BY <1>3, <2>1, <2>2 DEF Around
<1> QED
  BY <1>3, <1>6, <1>7

\* Break keeps the flow.
LEMMA GhostBreak ==
    ASSUME CheckInv, TypeInv', GhostInv, verdict = "checking", Shapes = {},
           BreakShape, Break, ~Reject
    PROVE  GhostInv'
<1>1. PICK names, J, P : Ghost(names, J, P)
  BY DEF GhostInv
<1>2. PICK d \in Nat : d = Top.loop
  <2>1. Depth \in 1..Depth /\ Top = frames[Depth]
    BY FrameTypes DEF CheckInv
  <2> QED
    BY <2>1, FrameTypes DEF CheckInv
<1>3. PICK exit : exit = IF Top.target = 0
                THEN <<[op |-> "nowhere"]>>
                ELSE <<[op |-> "break", loop |-> frames[d].id, to |-> Label(Top.target, "exit")]>>
  OBVIOUS
<1>4. /\ d # 0 /\ DependenciesOk(Registered(d, moved), moved, "ok")
      /\ Emit(Result("ok") \o Clean(Unregistered(d, moved), Registered(d, moved)) \o exit)
      /\ SetTop(Mark(Top, FALSE, TRUE)) /\ UNCHANGED <<env, declared, moved, cleanup>> /\ clock' = clock + 1
  BY <1>2, <1>3 DEF Break, Element
<1>5. /\ d \in 2..Depth /\ frames[d].kind \in Loops /\ frames[d].kind = "while"
      /\ Top.target = frames[d].id /\ frames[d].id \in Nat /\ frames[d].id # 0 /\ frames[d].id < clock
      /\ ~Top.dead => ~frames[d - 1].dead
  <2>1. frames[d].kind = "while"
    BY <1>2, <1>4 DEF BreakShape, Has
  <2> QED
    BY <1>2, <1>4, <2>1, LoopIs
<1>6. TypeInv /\ FrameInv /\ TypeOK /\ moved \in SUBSET Roots
  BY DEF CheckInv, TypeInv, TypeOK
<1>7. PICK first \in SUBSET Entry, plan \in SUBSET Entry :
         first = Unregistered(d, moved) /\ plan = Registered(d, moved)
  BY <1>6, PlanTypes
<1>8. first = {} /\ d >= 2
  BY <1>2, <1>4, <1>5, <1>7 DEF BreakShape, Has
<1>9. PICK l \in LabelName : l = Label(Top.target, "exit")
  BY <1>5, LabelType
<1>10. exit = <<[op |-> "break", loop |-> frames[d].id, to |-> l]>>
  BY <1>3, <1>5, <1>9
<1>11. PICK is : is = Result("ok") \o Clean(first, plan) \o exit
  OBVIOUS
<1>12. FramesMarked /\ frames'[Len(frames')].dead
  <2>1. PICK ret \in BOOLEAN : ret = FALSE
    OBVIOUS
  <2>2. SetTop(Mark(Top, ret, TRUE))
    BY <1>4, <2>1
  <2> QED
    BY <1>6, <2>2, TopMarked
<1>13. /\ Outer(Depth, cleanup') = Outer(Depth, cleanup) /\ Outer(Depth, env') = Outer(Depth, env)
       /\ UNCHANGED <<env, declared>> /\ Emit(is)
  BY <1>4, <1>7, <1>11
<1>14. CASE Top.dead
  BY <1>1, <1>4, <1>12, <1>13, <1>14, GhostPlain
<1>15. CASE ~Top.dead
  <2>1. PICK b, c : b = Holding(env, DeferredIn(cleanup), moved) /\ c = Around(env, cleanup, d, moved)
    OBVIOUS
  <2>2. Ready(names, b) /\ Ready(names, c)
    <3>1. Ready(names, b)
      BY <1>1, <2>1, HeldNow, HeldReady
    <3>2. Outer(d, env) \in SUBSET Bindings /\ Outer(d, env) \subseteq names
            /\ Outer(d, DeferredIn(cleanup)) \in SUBSET Calls
      BY <1>1, HeldNow DEF Outer
    <3>3. Ready(names, Holding(Outer(d, env), Outer(d, DeferredIn(cleanup)), moved))
      BY <3>2, HeldReady
    <3> QED
      BY <2>1, <3>1, <3>3 DEF Around
  <2>3. Emits(names, b, Result("ok"), {}, {}, b)
    <3>1. PICK class \in ExitClass : class = "ok"
      BY DEF ExitClass
    <3>2. Emits(names, b, Result(class), {}, {}, Giving(b, class))
      BY <2>2, EmitsResult
    <3>3. Giving(b, class) = b
      BY <2>1, <3>1 DEF Giving, Holding
    <3> QED
      BY <3>1, <3>2, <3>3
  <2>4. Emits(names, b, Clean(first, plan), {}, {}, c)
    <3>1. PICK class \in ExitClass, m \in SUBSET Roots : class = "ok" /\ m = moved
      BY <1>6 DEF ExitClass
    <3>2. DependenciesOk(plan, m, class)
      BY <1>4, <1>7, <3>1
    <3>3. Emits(names, Holding(env, DeferredIn(cleanup), m), Clean(first, plan), {}, {},
                Around(env, cleanup, d, m))
      BY <1>1, <1>2, <1>7, <1>8, <3>1, <3>2, LeaveLoop
    <3> QED
      BY <2>1, <3>1, <3>3
  <2>5. Emits(names, c, exit, {<<l, c>>}, {}, Nowhere)
    <3>1. PICK n \in Nat : n = frames[d].id
      BY <1>5
    <3>2. Emits(names, c, <<[op |-> "break", loop |-> n, to |-> l]>>, {<<l, c>>}, {}, Nowhere)
      BY <2>2, NowhereIs, EmitsBreak
    <3> QED
      BY <1>10, <3>1, <3>2
  <2>6. Emits(names, b, is, {<<l, c>>}, {}, Nowhere)
    <3>1. Emits(names, b, Result("ok") \o Clean(first, plan), {}, {}, c)
      BY <2>3, <2>4, EmitsBoth
    <3>2. Emits(names, b, (Result("ok") \o Clean(first, plan)) \o exit, {} \cup {<<l, c>>}, {} \cup {}, Nowhere)
      BY <2>5, <3>1, EmitsThen
    <3>3. {} \cup {<<l, c>>} = {<<l, c>>} /\ {} \cup {} = {}
      OBVIOUS
    <3> QED
      BY <1>11, <3>2, <3>3
  <2>7. Current(frames', env', cleanup', moved') = Nowhere
    BY <1>12, CurrentIs
  <2>8. Flow(names, code, J, P, b)
    <3>1. Current(frames, env, cleanup, moved) = b
      BY <1>15, <2>1, CurrentIs DEF Top, Depth
    <3> QED
      BY <1>1, <3>1 DEF Ghost
  <2>9. code' = code \o is
    BY <1>13, <1>15 DEF Emit
  <2>10. PICK J2, P2 : J2 = J \cup {<<l, c>>} /\ P2 = P \cup {}
    OBVIOUS
  <2>11. Linked(frames', env', cleanup', Depth', clock', J2, P2)
    <3>1. c = Around(env, cleanup, d, frames[d].entry)
      <4>1. moved \cap {x.root : x \in Outer(d, env)} = frames[d].entry \cap {x.root : x \in Outer(d, env)}
        BY <1>2, <1>4 DEF BreakShape, Has, Outside
      <4>2. PICK e : e = frames[d].entry
        OBVIOUS
      <4>3. Around(env, cleanup, d, moved) = Around(env, cleanup, d, e)
        BY <4>1, <4>2, AroundAgrees
      <4> QED
        BY <2>1, <4>2, <4>3
    <3>2. Awaits(frames, env, cleanup, d, l, c)
      BY <1>5, <1>9, <1>15, <3>1 DEF Awaits
    <3>3. Linked(frames, env, cleanup, Depth, clock, J, P) /\ Depth \in Nat /\ clock \in Nat
      BY <1>1, <1>6, DepthType DEF Ghost
    <3>4. l.id < clock
      BY <1>5, <1>9, LabelIs
    <3>5. Linked(frames, env, cleanup, Depth, clock, J \cup {<<l, c>>}, P)
      BY <1>5, <3>2, <3>3, <3>4, LinkedJump
    <3>6. P2 = P
      BY <2>10
    <3>7. Linked(frames, env, cleanup, Depth, clock, J2, P2)
      BY <2>10, <3>5, <3>6
    <3> QED
      BY <1>4, <1>6, <1>12, <1>13, <3>7, LinkedKept
  <2>12. /\ names \subseteq Bindings /\ UniqueRoots(names) /\ env' \subseteq names
         /\ \A e \in names : e.root \in declared'
    BY <1>1, <1>13 DEF Ghost
  <2>13. PICK j, p : j = {<<l, c>>} /\ p = {}
    OBVIOUS
  <2> QED
    BY <1>1, <1>6, <2>6, <2>7, <2>8, <2>9, <2>10, <2>11, <2>12, <2>13, GhostEmits
<1> QED
  BY <1>14, <1>15

----------------------------------------------------------------------------
(* Opening a construct.                                                     *)

\* What is held around the next construct is what is held now.
LEMMA AroundAll ==
    ASSUME CheckInv, NEW m
    PROVE  Around(env, cleanup, Depth + 1, m) = Holding(env, DeferredIn(cleanup), m)
<1>1. \A e \in env \cup cleanup : e.depth \in Nat /\ e.depth <= Depth
  BY ScopeTypes DEF CheckInv
<1>2. Depth \in Nat
  BY DepthType DEF CheckInv
<1>3. Outer(Depth + 1, env) = env
  BY <1>1, <1>2 DEF Outer
<1>4. Outer(Depth + 1, DeferredIn(cleanup)) = DeferredIn(cleanup)
  BY <1>1, <1>2 DEF Outer, DeferredIn
<1> QED
  BY <1>3, <1>4 DEF Around

\* The label a new construct awaits.
AwaitedOf(kind) == Label(clock, IF kind = "if" THEN "next" ELSE "exit")

\* Where nothing is lowered the construct awaits nothing.
LEMMA LinkedOpensDead ==
    ASSUME CheckInv, verdict = "checking", NEW J, NEW P,
           Linked(frames, env, cleanup, Depth, clock, J, P), Top.dead,
           NEW fr, NEW f, f.id = clock, f.arm = clock,
           \A k \in 1..Depth : fr[k] = frames[k], fr[Depth + 1] = f
    PROVE  Linked(fr, env, cleanup, Depth + 1, clock + 1, J, P)
<1>1. /\ Depth \in Nat /\ Depth \in 1..Depth /\ Top = frames[Depth] /\ clock \in Nat
      /\ clock + 1 \in Nat /\ clock <= clock + 1
  BY FrameTypes DEF CheckInv
<1>2. Linked(frames, env, cleanup, Depth, clock + 1, J, P)
  BY <1>1, LinkedAgrees
<1>3. \A l, b : ~Heads(fr, env, cleanup, Depth + 1, l, b)
  <2>1. fr[(Depth + 1) - 1] = Top
    BY <1>1
  <2> QED
    BY <2>1 DEF Heads
<1>4. \A l, b : Reserves(fr[Depth + 1], l) => <<l, b>> \notin P
  <2>1. \A p, b : <<Label(clock, p), b>> \notin J \cup P
    BY <1>1, FreshLabel
  <2>2. \A l : Reserves(f, l) => \E p : l = Label(clock, p)
    BY DEF Reserves
  <2> QED
    BY <2>1, <2>2
<1>5. PICK later \in Nat : later = clock + 1
  BY <1>1
<1>6. Linked(fr, env, cleanup, Depth + 1, later, J, P)
  BY <1>1, <1>2, <1>3, <1>4, <1>5, LinkedPush
<1> QED
  BY <1>5, <1>6

\* A construct that opens awaits the jump that skips it.
LEMMA LinkedOpens ==
    ASSUME CheckInv, verdict = "checking", NEW J, NEW P,
           Linked(frames, env, cleanup, Depth, clock, J, P), ~Top.dead,
           NEW kind \in {"if", "while", "for"}, NEW fr, NEW f,
           f.id = clock, f.arm = clock, f.kind = kind, f.entry = moved, ~f.covered,
           \A k \in 1..Depth : fr[k] = frames[k], fr[Depth + 1] = f,
           NEW b, b = Holding(env, DeferredIn(cleanup), moved),
           NEW P2, P2 = IF kind = "if" THEN P ELSE P \cup {<<Label(clock, "head"), b>>}
    PROVE  Linked(fr, env, cleanup, Depth + 1, clock + 1, J \cup {<<AwaitedOf(kind), b>>}, P2)
<1>1. /\ Depth \in Nat /\ Depth \in 1..Depth /\ Top = frames[Depth] /\ clock \in Nat
      /\ clock + 1 \in Nat /\ clock <= clock + 1
  BY FrameTypes DEF CheckInv
<1>2. PICK later \in Nat : later = clock + 1
  BY <1>1
<1>3. Linked(frames, env, cleanup, Depth, later, J, P2)
  <2>1. CASE kind = "if"
    <3>1. clock <= later
      BY <1>1, <1>2
    <3>2. Linked(frames, env, cleanup, Depth, later, J, P)
      BY <1>1, <3>1, LinkedAgrees
    <3> QED
      BY <2>1, <3>2
  <2>2. CASE kind # "if"
    <3>1. Increasing(frames, Depth, clock)
      BY DEF CheckInv, FrameInv
    <3>2. PICK p \in {"head", "next", "exit"} : p = "head"
      OBVIOUS
    <3>3. Linked(frames, env, cleanup, Depth, clock + 1, J, P \cup {<<Label(clock, p), b>>})
      BY <1>1, <3>1, LinkedTry
    <3> QED
      BY <1>2, <2>2, <3>2, <3>3
  <2> QED
    BY <2>1, <2>2
<1>4. Around(env, cleanup, Depth + 1, moved) = b
  BY AroundAll
<1>5. fr[(Depth + 1) - 1] = Top
  BY <1>1
<1>6. \A l, c : Heads(fr, env, cleanup, Depth + 1, l, c) => <<l, c>> \in P2
  <2> SUFFICES ASSUME NEW l, NEW c, Heads(fr, env, cleanup, Depth + 1, l, c)
               PROVE  <<l, c>> \in P2
    OBVIOUS
  <2>1. f.kind \in Loops /\ l = Label(clock, "head") /\ c = b
    BY <1>4 DEF Heads
  <2>2. kind # "if"
    BY <2>1 DEF Loops
  <2> QED
    BY <2>1, <2>2
<1>7. \A l, c : Reserves(fr[Depth + 1], l) => <<l, c>> \notin P2
  <2>1. \A p, c : <<Label(clock, p), c>> \notin J \cup P
    BY <1>1, FreshLabel
  <2>2. \A l : Reserves(f, l) => l = Label(clock, "next") \/ l = Label(clock, "exit")
    BY DEF Reserves
  <2>3. \A l : Reserves(f, l) => l # Label(clock, "head")
    BY <2>2, LabelIs
  <2> QED
    BY <2>1, <2>2, <2>3
<1>8. Linked(fr, env, cleanup, Depth + 1, later, J, P2)
  BY <1>1, <1>3, <1>6, <1>7, LinkedPush
<1>9. PICK l \in LabelName : l = AwaitedOf(kind)
  BY <1>1, LabelType DEF AwaitedOf
<1>10. Awaits(fr, env, cleanup, Depth + 1, l, b)
  <2>1. CASE kind = "if"
    BY <1>4, <1>5, <1>9, <2>1 DEF Awaits, AwaitedOf
  <2>2. CASE kind # "if"
    <3>1. kind \in Loops
      BY <2>2 DEF Loops
    <3> QED
      BY <1>4, <1>5, <1>9, <2>2, <3>1 DEF Awaits, AwaitedOf
  <2> QED
    BY <2>1, <2>2
<1>11. l.id < later
  BY <1>1, <1>2, <1>9, LabelIs DEF AwaitedOf
<1>12. PICK n \in Nat : n = Depth + 1
  BY <1>1
<1>13. n \in 2..n
  BY <1>1, <1>12
<1>14. Linked(fr, env, cleanup, n, later, J \cup {<<l, b>>}, P2)
  BY <1>8, <1>10, <1>11, <1>12, <1>13, LinkedJump
<1> QED
  BY <1>2, <1>9, <1>12, <1>14

\* The code of an opening keeps the flow.
LEMMA GhostOpens ==
    ASSUME CheckInv, TypeInv', GhostInv, verdict = "checking", NEW kind \in {"if", "while", "for"},
           frames' = Append(frames, NewFrame(kind, moved)),
           UNCHANGED <<env, declared, moved, cleanup>>, clock' = clock + 1,
           Emit(IF kind = "if" THEN Jump("branch", AwaitedOf(kind))
                ELSE Place(Label(clock, "head"), InScope \ moved) \o Jump("branch", AwaitedOf(kind)))
    PROVE  GhostInv'
<1>1. PICK names, J, P : Ghost(names, J, P)
  BY DEF GhostInv
<1>2. /\ frames \in Seq(Frame) /\ Depth \in Nat /\ Depth = Len(frames) /\ clock \in Nat /\ TypeInv
      /\ moved \in SUBSET Roots /\ InScope \in SUBSET Roots
  BY FrameTypes, RootTypes DEF CheckInv, TypeInv, TypeOK
<1>3. PICK f : f = NewFrame(kind, moved)
  OBVIOUS
<1>4. PICK fr : fr = frames'
  OBVIOUS
<1>5. /\ Len(fr) = Depth + 1 /\ fr[Depth + 1] = f
      /\ \A k \in 1..Depth : fr[k] = frames[k]
  BY <1>2, <1>3, <1>4, AppendAny
<1>6. /\ f.id = clock /\ f.arm = clock /\ f.kind = kind /\ f.entry = moved /\ ~f.covered
      /\ f.dead = Top.dead
  BY <1>3, NewFrameIs
<1>7. Depth' = Depth + 1
  BY <1>4, <1>5 DEF Depth
<1>8. Linked(frames, env, cleanup, Depth, clock, J, P)
  BY <1>1 DEF Ghost
<1>9. /\ names \subseteq Bindings /\ UniqueRoots(names) /\ env' \subseteq names
      /\ \A e \in names : e.root \in declared'
  BY <1>1 DEF Ghost
<1>10. Top = frames[Len(frames)] /\ frames'[Len(frames')] = f
  BY <1>4, <1>5 DEF Top, Depth
<1>11. CASE Top.dead
  <2>1. Linked(fr, env, cleanup, Depth + 1, clock + 1, J, P)
    BY <1>5, <1>6, <1>8, <1>11, LinkedOpensDead
  <2>2. Linked(frames', env', cleanup', Depth', clock', J, P)
    BY <1>4, <1>7, <2>1
  <2>3. Flow(names, code, J, P, Nowhere)
    BY <1>1, <1>10, <1>11 DEF Ghost, Current
  <2>4. Current(frames', env', cleanup', moved') = Nowhere
    <3>1. frames'[Len(frames')].dead
      BY <1>6, <1>10, <1>11
    <3> QED
      BY <3>1, CurrentIs
  <2>5. code' = code
    BY <1>11 DEF Emit
  <2> QED
    BY <1>1, <1>9, <2>2, <2>3, <2>4, <2>5, GhostIdles
<1>12. CASE ~Top.dead
  <2>1. PICK b : b = Holding(env, DeferredIn(cleanup), moved)
    OBVIOUS
  <2>2. PICK l \in LabelName, h \in LabelName : l = AwaitedOf(kind) /\ h = Label(clock, "head")
    BY <1>2, LabelType DEF AwaitedOf
  <2>3. Ready(names, b)
    BY <1>1, <2>1, HeldNow, HeldReady
  <2>4. PICK j, p, J2, P2 : /\ j = {<<l, b>>} /\ p = IF kind = "if" THEN {} ELSE {<<h, b>>}
                            /\ J2 = J \cup j /\ P2 = P \cup p
    OBVIOUS
  <2>5. PICK is : is = IF kind = "if" THEN Jump("branch", l)
                       ELSE Place(h, InScope \ moved) \o Jump("branch", l)
    OBVIOUS
  <2>6. Emits(names, b, Jump("branch", l), {<<l, b>>}, {}, b)
    BY <2>3, EmitsBranch
  <2>7. Emits(names, b, is, j, p, b)
    <3>1. CASE kind = "if"
      BY <2>4, <2>5, <2>6, <3>1
    <3>2. CASE kind # "if"
      <4>1. InScope \ moved \in SUBSET Roots /\ InScope \ moved \subseteq b.has
        <5>1. b.has = RootsOf(env) \ moved
          BY <2>1, HeldFields
        <5> QED
          BY <1>2, <5>1 DEF InScope, RootsOf
      <4>2. Emits(names, b, Place(h, InScope \ moved), {}, {<<h, b>>}, b)
        BY <2>3, <4>1, EmitsPlace
      <4>3. Emits(names, b, Place(h, InScope \ moved) \o Jump("branch", l), {} \cup {<<l, b>>},
                  {<<h, b>>} \cup {}, b)
        BY <2>6, <4>2, EmitsThen
      <4>4. {} \cup {<<l, b>>} = j /\ {<<h, b>>} \cup {} = p
        BY <2>4, <3>2
      <4> QED
        BY <2>5, <3>2, <4>3, <4>4
    <3> QED
      BY <3>1, <3>2
  <2>8. Linked(frames', env', cleanup', Depth', clock', J2, P2)
    <3>1. P2 = IF kind = "if" THEN P ELSE P \cup {<<Label(clock, "head"), b>>}
      BY <2>2, <2>4
    <3>2. Linked(fr, env, cleanup, Depth + 1, clock + 1, J \cup {<<AwaitedOf(kind), b>>}, P2)
      BY <1>5, <1>6, <1>8, <1>12, <2>1, <3>1, LinkedOpens
    <3> QED
      BY <1>4, <1>7, <2>2, <2>4, <3>2
  <2>9. Current(frames', env', cleanup', moved') = b
    <3>1. ~frames'[Len(frames')].dead
      BY <1>6, <1>10, <1>12
    <3>2. Current(frames', env', cleanup', moved') = Holding(env', DeferredIn(cleanup'), moved')
      BY <3>1, CurrentIs
    <3>3. UNCHANGED <<env, cleanup, moved>>
      OBVIOUS
    <3> QED
      BY <2>1, <3>2, <3>3
  <2>10. Flow(names, code, J, P, b)
    <3>1. Current(frames, env, cleanup, moved) = b
      BY <1>10, <1>12, <2>1, CurrentIs
    <3> QED
      BY <1>1, <3>1 DEF Ghost
  <2>11. code' = code \o is
    BY <1>12, <2>2, <2>5 DEF Emit
  <2> QED
    BY <1>1, <1>2, <1>9, <2>4, <2>7, <2>8, <2>9, <2>10, <2>11, GhostEmits
<1> QED
  BY <1>11, <1>12

\* OpenIf, OpenWhile and OpenFor keep the flow.
LEMMA GhostOpen ==
    ASSUME CheckInv, TypeInv', GhostInv, verdict = "checking",
           OpenIf(None) \/ OpenWhile(None) \/ OpenFor, ~Reject
    PROVE  GhostInv'
<1>1. /\ Taken(None) = {} /\ TakeOf(None) = <<>> /\ moved \cup {} = moved
  BY DEF Taken, TakeOf
<1>2. clock \in Nat /\ moved \in SUBSET Roots /\ InScope \in SUBSET Roots
  BY DepthType, RootTypes DEF CheckInv, TypeInv, TypeOK
<1>3. PICK place \in Seq(Instr), exit \in Seq(Instr), next \in Seq(Instr) :
         /\ place = Place(Label(clock, "head"), InScope \ moved)
         /\ exit = Jump("branch", Label(clock, "exit"))
         /\ next = Jump("branch", Label(clock, "next"))
  <2>1. InScope \ moved \in SUBSET Roots
    BY <1>2
  <2>2. Label(clock, "head") \in LabelName /\ Label(clock, "exit") \in LabelName
          /\ Label(clock, "next") \in LabelName
    BY <1>2, LabelType
  <2> QED
    BY <2>1, <2>2, PlaceType, JumpType
<1>4. CASE OpenIf(None)
  <2>1. /\ frames' = Append(frames, NewFrame("if", moved)) /\ moved' = moved /\ clock' = clock + 1
        /\ Emit(<<>> \o next) /\ UNCHANGED <<env, declared, cleanup>>
    BY <1>1, <1>3, <1>4 DEF OpenIf, Element
  <2>2. <<>> \o next = next
    BY ConcatEmptySeq
  <2>3. PICK kind \in {"if", "while", "for"} : kind = "if"
    OBVIOUS
  <2>4. AwaitedOf(kind) = Label(clock, "next")
    BY <2>3 DEF AwaitedOf
  <2> QED
    BY <1>3, <2>1, <2>2, <2>3, <2>4, GhostOpens
<1>5. CASE OpenWhile(None)
  <2>1. /\ frames' = Append(frames, NewFrame("while", moved)) /\ moved' = moved /\ clock' = clock + 1
        /\ Emit(place \o <<>> \o exit) /\ UNCHANGED <<env, declared, cleanup>>
    BY <1>1, <1>3, <1>5 DEF OpenWhile, Element
  <2>2. place \o <<>> = place
    BY ConcatEmptySeq
  <2>3. PICK kind \in {"if", "while", "for"} : kind = "while"
    OBVIOUS
  <2>4. AwaitedOf(kind) = Label(clock, "exit")
    BY <2>3 DEF AwaitedOf
  <2> QED
    BY <1>3, <2>1, <2>2, <2>3, <2>4, GhostOpens
<1>6. CASE OpenFor
  <2>1. /\ frames' = Append(frames, NewFrame("for", moved)) /\ moved' = moved /\ clock' = clock + 1
        /\ Emit(place \o exit) /\ UNCHANGED <<env, declared, cleanup>>
    BY <1>3, <1>6 DEF OpenFor, Element
  <2>3. PICK kind \in {"if", "while", "for"} : kind = "for"
    OBVIOUS
  <2>4. AwaitedOf(kind) = Label(clock, "exit")
    BY <2>3 DEF AwaitedOf
  <2> QED
    BY <1>3, <2>1, <2>3, <2>4, GhostOpens
<1> QED
  BY <1>4, <1>5, <1>6

----------------------------------------------------------------------------
(* The end of the body.                                                     *)

\* The code of an accepted body: a belief at each of its points, none after its
\* end, and the same one wherever a label is jumped to from.
Lowered ==
    \E names, J, P :
        /\ names \subseteq Bindings /\ UniqueRoots(names) /\ ParamBindings \subseteq names
        /\ Flow(names, code, J, P, Nowhere)
        /\ Agreed(J, P) /\ \A l, b : <<l, b>> \in J => \E c : <<l, c>> \in P

\* EndBody leaves a body every point of which has its belief.
LEMMA GhostEnds ==
    ASSUME CheckInv, GhostInv, verdict = "checking",
           NEW s \in MaybeRoot, NEW class \in ExitClass, EndBody(s, class), ~Reject
    PROVE  Lowered'
<1>1. PICK names, J, P : Ghost(names, J, P)
  BY DEF GhostInv
<1>2. PICK m, args : m = moved \cup Taken(s) /\ args = {b \in ComputeDrops(m) : b.depth = 0}
  OBVIOUS
<1>3. /\ Depth = 1 /\ s \in (IF Top.returns THEN {} ELSE InScope) \cup {None}
      /\ Top.returns \/ (s \notin moved /\ DependenciesOk(Registered(1, m), m, class))
      /\ Emit(TakeOf(s) \o Result(class) \o Clean({}, Registered(1, m) \cup args) \o Ret)
  BY <1>2 DEF EndBody
<1>4. /\ TypeInv /\ FrameInv /\ TypeOK /\ ScopeInv /\ CallsInv /\ moved \in SUBSET Roots
      /\ Depth \in 1..Depth /\ Top = frames[Depth] /\ Depth = Len(frames)
      /\ code \in Seq(Instr)
  BY FrameTypes DEF CheckInv, TypeInv, TypeOK
<1>5. /\ names \subseteq Bindings /\ UniqueRoots(names) /\ ParamBindings \subseteq names
      /\ Agreed(J, P)
  BY <1>1 DEF Ghost, Linked
<1>6. \A l, b : <<l, b>> \in J => \E c : <<l, c>> \in P
  <2>1. Resolved(frames, env, cleanup, Depth, J, P)
    BY <1>1 DEF Ghost, Linked
  <2>2. \A k \in 2..Depth : FALSE
    BY <1>3
  <2> QED
    BY <2>1, <2>2 DEF Resolved
<1>7. Flow(names, code', J, P, Nowhere)
  <2>1. CASE Top.dead
    <3>1. Flow(names, code, J, P, Nowhere)
      BY <1>1, <1>4, <2>1 DEF Ghost, Current
    <3>2. code' = code
      BY <1>3, <2>1 DEF Emit
    <3> QED
      BY <3>1, <3>2
  <2>2. CASE ~Top.dead
    <3>1. ~Top.returns
      BY <1>4, <2>2 DEF FrameInv, FrameOk
    <3>2. /\ s \in InScope \cup {None} /\ s \notin moved /\ DependenciesOk(Registered(1, m), m, class)
      BY <1>3, <3>1
    <3>3. m \in SUBSET Roots
      BY <1>2, <1>4, RootTypes
    <3>4. UniqueRoots(env)
      BY <1>1, HeldNow
    <3>5. args = Unregistered(1, m)
      BY <1>2, <1>4, <3>3, <3>4, DueOutside
    <3>6. PICK first \in SUBSET Entry, plan \in SUBSET Entry :
             first = {} /\ plan = Registered(1, m) \cup args
      <4>1. Registered(1, m) \in SUBSET Entry /\ Unregistered(1, m) \in SUBSET Entry
        BY <1>4, <3>3, PlanTypes
      <4> QED
        BY <3>5, <4>1
    <3>7. PICK binds, calls : binds = env /\ calls = DeferredIn(cleanup)
      OBVIOUS
    <3>8. binds \in SUBSET Bindings /\ calls \in SUBSET Calls /\ binds \subseteq names
      BY <1>1, <3>7, HeldNow
    <3>9. s = None \/ (s \in RootsOf(binds) /\ s \notin moved)
      BY <3>2, <3>7 DEF InScope, RootsOf
    <3>10. Emits(names, Holding(binds, calls, moved), TakeOf(s), {}, {}, Holding(binds, calls, m))
      BY <1>2, <3>8, <3>9, HeldTake
    <3>11. first \cup plan = Unregistered(1, m) \cup Registered(1, m)
      BY <3>5, <3>6
    <3>12. Emits(names, Holding(binds, calls, m), Result(class) \o (Clean(first, plan) \o Ret), {}, {}, Nowhere)
      BY <1>1, <3>2, <3>3, <3>6, <3>7, <3>11, LeaveAll
    <3>13. PICK is : is = TakeOf(s) \o (Result(class) \o (Clean(first, plan) \o Ret))
      OBVIOUS
    <3>14. Emits(names, Holding(binds, calls, moved), is, {}, {}, Nowhere)
      BY <3>10, <3>12, <3>13, EmitsBoth
    <3>15. code' = code \o is
      <4>1. PICK w : w = TakeOf(s) /\ w \in Seq(Instr)
        BY TakeOfType
      <4>2. ((w \o Result(class)) \o Clean(first, plan)) \o Ret = is
        BY <3>13, <4>1, LeavingCode
      <4>3. code' = code \o (((w \o Result(class)) \o Clean(first, plan)) \o Ret)
        BY <1>3, <2>2, <3>6, <4>1 DEF Emit
      <4> QED
        BY <4>2, <4>3
    <3>16. Flow(names, code, J, P, Holding(binds, calls, moved))
      <4>1. Current(frames, env, cleanup, moved) = Holding(binds, calls, moved)
        BY <1>4, <2>2, <3>7, CurrentIs
      <4> QED
        BY <1>1, <4>1 DEF Ghost
    <3>17. Flow(names, code \o is, J \cup {}, P \cup {}, Nowhere)
      BY <1>4, <3>14, <3>16 DEF Emits
    <3>18. J \cup {} = J /\ P \cup {} = P
      OBVIOUS
    <3> QED
      BY <3>15, <3>17, <3>18
  <2> QED
    BY <2>1, <2>2
<1> QED
  BY <1>5, <1>6, <1>7 DEF Lowered, ParamBindings

----------------------------------------------------------------------------
(* Closing a block.                                                         *)

\* What is around the block is what is in scope once it is left.
LEMMA AroundLeft ==
    ASSUME CheckInv, verdict = "checking", NEW names, NEW J, NEW P, Ghost(names, J, P),
           LeaveScope, NEW m \in SUBSET Roots
    PROVE  /\ Holding(env', DeferredIn(cleanup'), m) = Around(env, cleanup, Depth, m)
           /\ Ready(names, Around(env, cleanup, Depth, m))
           /\ OuterAvailable(m) \in SUBSET Roots
           /\ OuterAvailable(m) \subseteq Around(env, cleanup, Depth, m).has
           /\ env' \subseteq names
<1>1. env' = Outer(Depth, env) /\ cleanup' = Outer(Depth, cleanup)
  BY DEF LeaveScope
<1>2. DeferredIn(cleanup') = Outer(Depth, DeferredIn(cleanup))
  BY <1>1 DEF Outer, DeferredIn
<1>3. Outer(Depth, env) \in SUBSET Bindings /\ Outer(Depth, env) \subseteq names
        /\ Outer(Depth, DeferredIn(cleanup)) \in SUBSET Calls
  BY HeldNow DEF Outer
<1>4. Ready(names, Holding(Outer(Depth, env), Outer(Depth, DeferredIn(cleanup)), m))
  BY <1>3, HeldReady
<1>5. PICK b : b = Around(env, cleanup, Depth, m)
  OBVIOUS
<1>6. b.has = RootsOf(Outer(Depth, env)) \ m
  BY <1>5, HeldFields DEF Around
<1>7. OuterAvailable(m) \subseteq b.has
  BY <1>6 DEF OuterAvailable, RootsOf
<1>8. OuterAvailable(m) \in SUBSET Roots
  <2>1. b \in Belief
    BY <1>4, <1>5 DEF Around, Ready
  <2> QED
    BY <1>7, <2>1 DEF Belief
<1> QED
  BY <1>1, <1>2, <1>3, <1>4, <1>5, <1>7, <1>8 DEF Around

\* A block that is not terminated runs its cleanup.
LEMMA BlockLeft ==
    ASSUME CheckInv, verdict = "checking", NEW names, NEW J, NEW P, Ghost(names, J, P),
           Depth >= 2, ~Top.dead, BlockOk
    PROVE  Emits(names, Holding(env, DeferredIn(cleanup), moved), Clean({}, BlockPlan), {}, {},
                 Around(env, cleanup, Depth, moved))
<1>1. /\ TypeOK /\ moved \in SUBSET Roots /\ Depth \in Nat /\ Depth \in 1..Depth /\ Top = frames[Depth]
  BY FrameTypes DEF CheckInv, TypeInv, TypeOK
<1>2. ~Top.returns
  BY <1>1 DEF CheckInv, FrameInv, FrameOk
<1>3. DependenciesOk(BlockPlan, moved, "unknown")
  BY <1>2 DEF BlockOk
<1>4. PICK first \in SUBSET Entry, plan \in SUBSET Entry : first = {} /\ plan = Registered(Depth, moved)
  <2>1. PICK d \in Int, m \in SUBSET Roots : d = Depth /\ m = moved
    BY <1>1
  <2>2. Registered(d, m) \in SUBSET Entry
    BY <1>1, PlanTypes
  <2> QED
    BY <2>1, <2>2
<1>5. PICK known \in ExitClass, class \in ExitClass : known = "unknown" /\ class = "ok"
  BY DEF ExitClass
<1>6. PICK d \in Nat, m \in SUBSET Roots : d = Depth /\ m = moved
  BY <1>1
<1>7. DependenciesOk(plan, m, known) /\ plan = Registered(d, m) /\ d >= 2
  BY <1>3, <1>4, <1>5, <1>6 DEF BlockPlan
<1>8. Emits(names, Holding(env, DeferredIn(cleanup), m), Clean(first, plan), {}, {},
            Around(env, cleanup, d, m))
  BY <1>4, <1>5, <1>7, LeaveLoop
<1> QED
  BY <1>4, <1>6, <1>8 DEF BlockPlan

\* The constructs around the block stay as they are.
LEMMA LinkedLeft ==
    ASSUME CheckInv, TypeInv', verdict = "checking", NEW J, NEW P, LeaveScope,
           NEW n \in Nat, n <= Depth, Linked(frames, env, cleanup, n, clock, J, P),
           NEW fr,
           \A k \in 2..n : /\ fr[k].kind = frames[k].kind /\ fr[k].id = frames[k].id
                           /\ fr[k].arm = frames[k].arm /\ fr[k].entry = frames[k].entry
                           /\ fr[k].exits = frames[k].exits /\ fr[k].covered = frames[k].covered
                           /\ fr[k].merged = frames[k].merged /\ fr[k - 1].dead = frames[k - 1].dead
    PROVE  Linked(fr, env', cleanup', n, clock + 1, J, P)
<1>1. Depth \in Nat /\ clock \in Nat /\ clock + 1 \in Nat /\ clock <= clock + 1
  BY DepthType DEF CheckInv
<1>2. PICK en2, cl2 : en2 = env' /\ cl2 = cleanup'
  OBVIOUS
<1>3. \A e \in (env \cup cleanup) \cup (en2 \cup cl2) : e.depth \in Nat
  <2>1. \A e \in env' \cup cleanup' : e.depth \in Nat
    BY DEF TypeInv, TypeOK, Entry
  <2> QED
    BY <1>2, <2>1, EntriesTyped DEF CheckInv
<1>4. Outer(Depth, en2) = Outer(Depth, env) /\ Outer(Depth, cl2) = Outer(Depth, cleanup)
  BY <1>2 DEF LeaveScope, Outer
<1>5. \A k \in 2..Depth : \A m : Around(en2, cl2, k, m) = Around(env, cleanup, k, m)
  BY <1>1, <1>3, <1>4, AroundSame
<1>6. \A k \in 2..n : \A m : Around(en2, cl2, k, m) = Around(env, cleanup, k, m)
  <2>1. \A k \in 2..n : k \in 2..Depth
    BY <1>1
  <2> QED
    BY <1>5, <2>1
<1>7. PICK later \in Nat : later = clock + 1
  BY <1>1
<1>8. clock <= later
  BY <1>1, <1>7
<1>9. Linked(fr, en2, cl2, n, later, J, P)
  BY <1>1, <1>6, <1>8, LinkedAgrees
<1> QED
  BY <1>2, <1>7, <1>9

\* Where the block around is terminated, so is this one.
LEMMA InsideDead ==
    ASSUME CheckInv, verdict = "checking", Depth >= 2, Parent.dead
    PROVE  Top.dead
<1>1. /\ Depth \in Nat /\ Depth \in 1..Depth /\ Top = frames[Depth] /\ Parent = frames[Depth - 1]
      /\ DeadInside(frames, Depth)
  BY FrameTypes DEF CheckInv, FrameInv, Parent
<1>2. Depth - 1 \in 1..(Depth - 1)
  BY <1>1
<1> QED
  BY <1>1, <1>2 DEF DeadInside

\* CloseLoop keeps the flow: its head and its exit are met as they were left.
LEMMA GhostCloseLoop ==
    ASSUME CheckInv, TypeInv', GhostInv, verdict = "checking", BalancedLoop, CloseLoop, ~Reject
    PROVE  GhostInv'
<1>1. PICK names, J, P : Ghost(names, J, P)
  BY DEF GhostInv
<1>2. PICK after : after = IF Top.returns THEN Top.entry ELSE Top.entry \cup moved
  OBVIOUS
<1>3. /\ Top.kind \in Loops /\ BlockOk /\ moved \subseteq Top.entry
      /\ moved' = after /\ LeaveScope /\ frames' = SubSeq(frames, 1, Depth - 1)
      /\ EmitInParent(Closing(Jump("goto", Label(Top.id, "head")))
                        \o Place(Label(Top.id, "exit"), OuterAvailable(after)))
      /\ declared' = declared /\ clock' = clock + 1
  BY <1>2 DEF CloseLoop, Construct, InsideOf, LoopStable, Loops
<1>4. after = Top.entry
  BY <1>2, <1>3
<1>5. /\ TypeInv /\ frames \in Seq(Frame) /\ Depth \in Nat /\ Depth \in 1..Depth /\ Depth = Len(frames)
      /\ clock \in Nat /\ Top = frames[Depth] /\ Top.entry \in SUBSET Roots /\ moved \in SUBSET Roots
      /\ Top.id \in Nat /\ Top.arm \in Nat
  BY FrameTypes DEF CheckInv, TypeInv, TypeOK
<1>6. Depth >= 2 /\ Parent = frames[Depth - 1]
  BY <1>3, <1>5, TopType DEF Loops, Parent
<1>7. PICK n \in Nat : n = Depth - 1
  BY <1>5, <1>6
<1>8. PICK fr : fr = frames'
  OBVIOUS
<1>9. Len(fr) = n /\ n >= 1 /\ n <= Depth /\ Depth' = n /\ \A k \in 1..n : fr[k] = frames[k]
  BY <1>3, <1>5, <1>6, <1>7, <1>8 DEF Depth
<1>10. \A k \in 2..n : fr[k] = frames[k] /\ fr[k - 1] = frames[k - 1]
  <2> SUFFICES ASSUME NEW k \in 2..n PROVE fr[k] = frames[k] /\ fr[k - 1] = frames[k - 1]
    OBVIOUS
  <2>1. k \in 1..n /\ k - 1 \in 1..n
    OBVIOUS
  <2> QED
    BY <1>9, <2>1
<1>11. frames'[Len(frames')] = Parent
  <2>1. n \in 1..n
    BY <1>9
  <2> QED
    BY <1>6, <1>7, <1>8, <1>9, <2>1
<1>12. Linked(frames, env, cleanup, Depth, clock, J, P) /\ Increasing(frames, Depth, clock)
  BY <1>1 DEF Ghost, CheckInv, FrameInv
<1>13. PICK c : c = Around(env, cleanup, Depth, Top.entry)
  OBVIOUS
<1>14. /\ Holding(env', DeferredIn(cleanup'), Top.entry) = c /\ Ready(names, c)
       /\ OuterAvailable(Top.entry) \in SUBSET Roots /\ OuterAvailable(Top.entry) \subseteq c.has
       /\ env' \subseteq names
  <2>1. PICK m \in SUBSET Roots : m = Top.entry
    BY <1>5
  <2> QED
    BY <1>1, <1>3, <1>13, <2>1, AroundLeft
<1>15. /\ names \subseteq Bindings /\ UniqueRoots(names) /\ \A e \in names : e.root \in declared'
  BY <1>1, <1>3 DEF Ghost
<1>16. CASE Parent.dead
  <2>1. Top.dead
    BY <1>6, <1>16, InsideDead
  <2>2. Flow(names, code, J, P, Nowhere)
    BY <1>1, <1>5, <2>1 DEF Ghost, Current
  <2>3. Current(frames', env', cleanup', moved') = Nowhere
    BY <1>11, <1>16, CurrentIs
  <2>4. code' = code
    BY <1>3, <1>16 DEF EmitInParent
  <2>5. Linked(frames, env, cleanup, n, clock, J, P)
    <3>1. \A l, b : ~Awaits(frames, env, cleanup, Depth, l, b)
      BY <1>6, <1>16 DEF Awaits
    <3>2. Linked(frames, env, cleanup, Depth - 1, clock, J, P)
      BY <1>5, <1>6, <1>12, <3>1, LinkedDrop
    <3> QED
      BY <1>7, <3>2
  <2>6. Linked(fr, env', cleanup', n, clock + 1, J, P)
    BY <1>3, <1>9, <1>10, <2>5, LinkedLeft
  <2>7. Linked(frames', env', cleanup', Depth', clock', J, P)
    BY <1>3, <1>8, <1>9, <2>6
  <2> QED
    BY <1>1, <1>14, <1>15, <2>2, <2>3, <2>4, <2>7, GhostIdles
<1>17. CASE ~Parent.dead
  <2>1. PICK head \in LabelName, exit \in LabelName :
           head = Label(Top.id, "head") /\ exit = Label(Top.id, "exit")
    BY <1>5, LabelType
  <2>2. PICK place : place = Place(exit, OuterAvailable(Top.entry))
    OBVIOUS
  <2>3. Emits(names, c, place, {}, {<<exit, c>>}, c)
    BY <1>14, <2>2, EmitsPlace
  <2>4. c \in Belief
    BY <1>14 DEF Ready
  <2>5. PICK b : b = Current(frames, env, cleanup, moved)
    OBVIOUS
  <2>6. Flow(names, code, J, P, b)
    BY <1>1, <2>5 DEF Ghost
  <2>7. PICK is : is = Closing(Jump("goto", head)) \o place
    OBVIOUS
  <2>8. code' = code \o is
    BY <1>3, <1>4, <1>17, <2>1, <2>2, <2>7 DEF EmitInParent
  <2>9. PICK j : j = IF Top.dead THEN {} ELSE {<<head, c>>}
    OBVIOUS
  <2>10. Emits(names, b, is, j, {<<exit, c>>}, c)
    <3>1. CASE Top.dead
      <4>1. is = place
        <5>1. place \in Seq(Instr)
          BY <2>3 DEF Emits
        <5>2. <<>> \o place = place
          BY <5>1, ConcatEmptySeq
        <5> QED
          BY <2>7, <3>1, <5>2 DEF Closing
      <4>2. b = Nowhere
        BY <1>5, <2>5, <3>1, CurrentIs
      <4>3. Emits(names, b, place, {}, {<<exit, c>>}, c)
        BY <2>3, <2>4, <4>2, NowhereIs, EmitsAnew
      <4> QED
        BY <2>9, <3>1, <4>1, <4>3
    <3>2. CASE ~Top.dead
      <4>1. b = Holding(env, DeferredIn(cleanup), moved)
        BY <1>5, <2>5, <3>2, CurrentIs
      <4>2. Emits(names, b, Clean({}, BlockPlan), {}, {}, Around(env, cleanup, Depth, moved))
        BY <1>1, <1>3, <1>6, <3>2, <4>1, BlockLeft
      <4>3. Around(env, cleanup, Depth, moved) = c
        <5>1. ~Top.returns
          BY <1>5, <3>2 DEF CheckInv, FrameInv, FrameOk
        <5>2. Top.entry \cap Outside(Depth) \subseteq moved
          BY <5>1 DEF BalancedLoop
        <5>3. moved \cap Outside(Depth) = Top.entry \cap Outside(Depth)
          BY <1>3, <5>2
        <5>4. PICK x : x = Top.entry
          OBVIOUS
        <5>5. Around(env, cleanup, Depth, moved) = Around(env, cleanup, Depth, x)
          BY <5>3, <5>4, AroundAgrees DEF Outside
        <5> QED
          BY <1>13, <5>4, <5>5
      <4>4. Emits(names, c, Jump("goto", head), {<<head, c>>}, {}, c)
        BY <1>14, <2>4, EmitsGoto
      <4>5. Emits(names, b, Clean({}, BlockPlan) \o Jump("goto", head), {} \cup {<<head, c>>}, {} \cup {}, c)
        BY <4>2, <4>3, <4>4, EmitsThen
      <4>6. Emits(names, b, (Clean({}, BlockPlan) \o Jump("goto", head)) \o place,
                  ({} \cup {<<head, c>>}) \cup {}, ({} \cup {}) \cup {<<exit, c>>}, c)
        BY <2>3, <4>5, EmitsThen
      <4>7. ({} \cup {<<head, c>>}) \cup {} = j /\ ({} \cup {}) \cup {<<exit, c>>} = {<<exit, c>>}
        BY <2>9, <3>2
      <4>8. is = (Clean({}, BlockPlan) \o Jump("goto", head)) \o place
        BY <2>7, <3>2 DEF Closing
      <4> QED
        BY <4>6, <4>7, <4>8
    <3> QED
      BY <3>1, <3>2
  <2>11. PICK J2, P2 : J2 = J \cup j /\ P2 = P \cup {<<exit, c>>}
    OBVIOUS
  <2>12. Linked(frames, env, cleanup, Depth, clock, J2, P)
    <3>1. CASE Top.dead
      BY <1>12, <2>9, <2>11, <3>1
    <3>2. CASE ~Top.dead
      <4>1. Heads(frames, env, cleanup, Depth, head, c)
        BY <1>3, <1>5, <1>6, <1>13, <1>17, <2>1 DEF Heads
      <4>2. Depth \in 2..Depth
        BY <1>5, <1>6
      <4>3. <<head, c>> \in P
        BY <1>12, <4>1, <4>2 DEF Linked, Headed
      <4>4. head.id < clock
        <5>1. Increasing(frames, Depth, clock)
          BY <1>12
        <5>2. frames[Depth].id <= frames[Depth].arm /\ frames[Depth].arm < clock
          BY <1>5, <5>1 DEF Increasing
        <5>3. head.id = frames[Depth].id
          BY <1>5, <2>1, LabelIs
        <5> QED
          BY <1>5, <5>2, <5>3
      <4>5. Linked(frames, env, cleanup, Depth, clock, J \cup {<<head, c>>}, P)
        BY <1>5, <1>12, <4>3, <4>4, LinkedJump
      <4> QED
        BY <2>9, <2>11, <3>2, <4>5
    <3> QED
      BY <3>1, <3>2
  <2>13. Linked(frames, env, cleanup, n, clock, J2, P2)
    <3>1. Reserves(frames[Depth], exit)
      BY <1>5, <2>1 DEF Reserves
    <3>2. \A x, y : Awaits(frames, env, cleanup, Depth, x, y) => x = exit /\ y = c
      BY <1>3, <1>5, <1>13, <2>1 DEF Awaits, Loops
    <3>3. Linked(frames, env, cleanup, Depth - 1, clock, J2, P \cup {<<exit, c>>})
      BY <1>5, <1>6, <1>12, <2>12, <3>1, <3>2, LinkedExit
    <3> QED
      BY <1>7, <2>11, <3>3
  <2>14. Linked(fr, env', cleanup', n, clock + 1, J2, P2)
    BY <1>3, <1>9, <1>10, <2>13, LinkedLeft
  <2>15. Linked(frames', env', cleanup', Depth', clock', J2, P2)
    BY <1>3, <1>8, <1>9, <2>14
  <2>16. Current(frames', env', cleanup', moved') = c
    <3>1. ~frames'[Len(frames')].dead
      BY <1>11, <1>17
    <3>2. Current(frames', env', cleanup', moved') = Holding(env', DeferredIn(cleanup'), moved')
      BY <3>1, CurrentIs
    <3> QED
      BY <1>3, <1>4, <1>14, <3>2
  <2>17. PICK p : p = {<<exit, c>>}
    OBVIOUS
  <2> QED
    BY <1>1, <1>5, <1>14, <1>15, <2>6, <2>8, <2>10, <2>11, <2>15, <2>16, <2>17, GhostEmits
<1> QED
  BY <1>16, <1>17

----------------------------------------------------------------------------
(* The next arm of a chain.                                                 *)

\* What turning to the next arm makes of the frame.
Turned(f, g, isElse) ==
    /\ g.kind = "if" /\ g.id = f.id /\ g.arm = clock /\ g.entry = f.entry
    /\ f.exits \subseteq g.exits /\ (~f.returns => moved \in g.exits)
    /\ g.covered = isElse /\ (f.merged \/ ~f.dead => g.merged)

\* The next arm of a chain starts as the construct around it stands.
LEMMA NextFrameIs ==
    ASSUME CheckInv, verdict = "checking", Top.kind = "if", NEW isElse \in BOOLEAN
    PROVE  /\ Turned(Top, NextFrame(isElse), isElse)
           /\ NextFrame(isElse).dead = Parent.dead
<1>1. Top \in Frame /\ Parent.dead \in BOOLEAN /\ clock \in Nat /\ ArmExits \in SUBSET (SUBSET Roots)
  BY TopType, ExitsType, FrameTypes DEF CheckInv, Frame
<1>2. PICK exits \in SUBSET (SUBSET Roots), dead \in BOOLEAN : exits = ArmExits /\ dead = Parent.dead
  BY <1>1
<1>2a. PICK f : f = NextFrame(isElse)
  OBVIOUS
<1>3. f = Reopened(Top, clock, exits, isElse, dead)
  BY <1>2, <1>2a DEF NextFrame
<1>4. /\ f.kind = Top.kind /\ f.id = Top.id /\ f.arm = clock /\ f.entry = Top.entry
      /\ f.exits = exits /\ f.covered = isElse /\ f.dead = dead
      /\ f.merged = (Top.merged \/ ~Top.dead)
  BY <1>1, <1>3, ReopenedIs
<1>5. Top.exits \subseteq exits /\ (~Top.returns => moved \in exits)
  BY <1>2 DEF ArmExits
<1>6. Turned(Top, f, isElse)
  BY <1>4, <1>5 DEF Turned
<1> QED
  BY <1>2, <1>2a, <1>4, <1>6

\* The chain keeps its exit, and the next arm's label is a new one.
LEMMA TurnedReserves ==
    ASSUME CheckInv, verdict = "checking", Top.kind = "if", NEW isElse \in BOOLEAN, Depth >= 2,
           NEW J, NEW P, Linked(frames, env, cleanup, Depth, clock, J, P),
           NEW g, Turned(Top, g, isElse), NEW l, Reserves(g, l)
    PROVE  l # Label(Top.arm, "next") /\ \A b : <<l, b>> \notin P
<1>1. /\ Depth \in Nat /\ Depth \in 2..Depth /\ Top = frames[Depth] /\ clock \in Nat /\ Top.arm \in Nat
      /\ Top.arm < clock
  <2>1. /\ Depth \in Nat /\ Depth \in 1..Depth /\ Top = frames[Depth] /\ clock \in Nat /\ Top.arm \in Nat
    BY FrameTypes DEF CheckInv
  <2>2. frames[Depth].arm < clock
    BY <2>1 DEF CheckInv, FrameInv, Increasing
  <2> QED
    BY <2>1, <2>2
<1>2. l = Label(clock, "next") \/ l = Label(Top.id, "exit")
  BY DEF Turned, Reserves
<1>3. CASE l = Label(clock, "next")
  <2>1. \A b : <<l, b>> \notin J \cup P
    BY <1>1, <1>3, FreshLabel
  <2>2. l.id = clock /\ Label(Top.arm, "next").id = Top.arm
    BY <1>3, LabelIs
  <2> QED
    BY <1>1, <2>1, <2>2
<1>4. CASE l = Label(Top.id, "exit")
  <2>1. Reserves(frames[Depth], l)
    BY <1>1, <1>4 DEF Reserves
  <2>2. \A b : <<l, b>> \notin P
    BY <1>1, <2>1 DEF Linked, Pending
  <2>3. l.part = "exit" /\ Label(Top.arm, "next").part = "next"
    BY <1>4, LabelIs
  <2> QED
    BY <2>2, <2>3
<1> QED
  BY <1>2, <1>3, <1>4

\* Numbers stay below a later clock.
LEMMA IncreasingLater ==
    ASSUME NEW fr, NEW n \in Nat, NEW clk \in Nat, Increasing(fr, n, clk)
    PROVE  Increasing(fr, n, clk + 1)
  BY DEF Increasing

\* Nothing is lowered: the chain awaits nothing.
LEMMA LinkedTurnsDead ==
    ASSUME CheckInv, TypeInv', verdict = "checking", Top.kind = "if", NEW isElse \in BOOLEAN, Depth >= 2,
           NEW J, NEW P, Linked(frames, env, cleanup, Depth, clock, J, P), LeaveScope, Parent.dead,
           NEW fr, \A k \in 1..(Depth - 1) : fr[k] = frames[k], Turned(Top, fr[Depth], isElse)
    PROVE  Linked(fr, env', cleanup', Depth, clock + 1, J, P)
<1>1. Depth \in Nat /\ clock \in Nat /\ Parent = frames[Depth - 1]
  BY FrameTypes DEF CheckInv, Parent
<1>2. Linked(frames, env', cleanup', Depth, clock + 1, J, P)
  BY <1>1, LinkedLeft
<1>3. PICK later \in Nat : later = clock + 1
  BY <1>1
<1>3a. PICK en2, cl2 : en2 = env' /\ cl2 = cleanup'
  OBVIOUS
<1>4. \A l, b : ~Awaits(frames, en2, cl2, Depth, l, b)
  BY <1>1 DEF Awaits
<1>5. \A l, b : ~Heads(fr, en2, cl2, Depth, l, b)
  BY DEF Heads, Turned, Loops
<1>6. \A l, b : Reserves(fr[Depth], l) => <<l, b>> \notin P
  BY TurnedReserves
<1>7. Linked(fr, en2, cl2, Depth, later, J, P)
  BY <1>1, <1>2, <1>3, <1>3a, <1>4, <1>5, <1>6, LinkedRetop
<1> QED
  BY <1>3, <1>3a, <1>7

\* The chain places the label of the arm, with the jumps that close this arm
\* and open the next.
LEMMA LinkedTurns ==
    ASSUME CheckInv, TypeInv', verdict = "checking", Top.kind = "if", ~Top.covered,
           NEW isElse \in BOOLEAN, Depth >= 2,
           NEW J, NEW P, Linked(frames, env, cleanup, Depth, clock, J, P), LeaveScope, ~Parent.dead,
           NEW fr, \A k \in 1..(Depth - 1) : fr[k] = frames[k], Turned(Top, fr[Depth], isElse),
           NEW c, c = Around(env, cleanup, Depth, Top.entry),
           NEW j, j = (IF Top.dead THEN {}
                       ELSE {<<Label(Top.id, "exit"), Around(env, cleanup, Depth, moved)>>}),
           NEW k, k = (IF isElse THEN {} ELSE {<<Label(clock, "next"), c>>})
    PROVE  Linked(fr, env', cleanup', Depth, clock + 1, (J \cup j) \cup k,
                  P \cup {<<Label(Top.arm, "next"), c>>})
<1>1. /\ Depth \in Nat /\ clock \in Nat /\ Parent = frames[Depth - 1] /\ Top = frames[Depth]
      /\ Top.id \in Nat /\ Top.arm \in Nat /\ Depth \in 1..Depth /\ Depth \in 2..Depth
  <2>1. /\ Depth \in Nat /\ clock \in Nat /\ Top = frames[Depth] /\ Depth \in 1..Depth
        /\ frames[Depth].id \in Nat /\ frames[Depth].arm \in Nat
    BY FrameTypes DEF CheckInv
  <2> QED
    BY <2>1 DEF Parent
<1>2. Linked(frames, env', cleanup', Depth, clock + 1, J, P)
  BY <1>1, LinkedLeft
<1>3. PICK later \in Nat : later = clock + 1
  BY <1>1
<1>3a. PICK en2, cl2 : en2 = env' /\ cl2 = cleanup'
  OBVIOUS
<1>4. \A m : Around(en2, cl2, Depth, m) = Around(env, cleanup, Depth, m)
  <2>1. \A e \in (env \cup cleanup) \cup (en2 \cup cl2) : e.depth \in Nat
    <3>1. \A e \in env' \cup cleanup' : e.depth \in Nat
      BY DEF TypeInv, TypeOK, Entry
    <3> QED
      BY <1>3, <1>3a, <3>1, EntriesTyped DEF CheckInv
  <2>2. Outer(Depth, en2) = Outer(Depth, env) /\ Outer(Depth, cl2) = Outer(Depth, cleanup)
    BY <1>3, <1>3a DEF LeaveScope, Outer
  <2>3. \A k2 \in 2..Depth : \A m : Around(en2, cl2, k2, m) = Around(env, cleanup, k2, m)
    BY <1>1, <2>1, <2>2, AroundSame
  <2> QED
    BY <1>1, <2>3
<1>5. PICK l \in LabelName : l = Label(Top.arm, "next")
  BY <1>1, LabelType
<1>6. Increasing(frames, Depth, clock) /\ Increasing(frames, Depth, later)
  BY <1>1, <1>3, <1>3a, IncreasingLater DEF CheckInv, FrameInv
<1>7. fr[Depth - 1] = Parent
  <2>1. Depth - 1 \in 1..(Depth - 1)
    BY <1>1
  <2> QED
    BY <1>1, <2>1
<1>8. Linked(fr, en2, cl2, Depth, later, J, P \cup {<<l, c>>})
  <2>1. Reserves(frames[Depth], l)
    BY <1>1, <1>5 DEF Reserves
  <2>2. Awaited(frames, en2, cl2, Depth, l, c)
    <3> SUFFICES ASSUME NEW x, Awaits(frames, en2, cl2, Depth, l, x) PROVE x = c
      BY DEF Awaited
    <3>1. l.part = "next" /\ Label(Top.id, "exit").part = "exit"
      BY <1>5, LabelIs
    <3>2. x = Around(en2, cl2, Depth, Top.entry)
      BY <1>1, <3>1 DEF Awaits
    <3> QED
      BY <1>4, <3>2
  <2>3. ASSUME NEW x, NEW y, Awaits(frames, en2, cl2, Depth, x, y), x # l
        PROVE  Awaits(fr, en2, cl2, Depth, x, y)
    <3>1. /\ ~frames[Depth - 1].dead /\ Top.merged /\ x = Label(Top.id, "exit")
          /\ \E m \in Top.exits : y = Around(en2, cl2, Depth, m)
      BY <1>1, <1>5, <2>3 DEF Awaits, Loops
    <3> QED
      BY <1>1, <1>7, <3>1 DEF Awaits, Turned
  <2>4. \A x, y : ~Heads(fr, en2, cl2, Depth, x, y)
    BY DEF Heads, Turned, Loops
  <2>5. \A x : Reserves(fr[Depth], x) => x # l /\ \A y : <<x, y>> \notin P
    BY <1>5, TurnedReserves
  <2>6. Linked(frames, en2, cl2, Depth, later, J, P)
    BY <1>2, <1>3, <1>3a
  <2> QED
    BY <1>1, <1>6, <2>1, <2>2, <2>3, <2>4, <2>5, <2>6, LinkedNext
<1>9. PICK P2, J1 : P2 = P \cup {<<l, c>>} /\ J1 = J \cup j
  OBVIOUS
<1>10. Linked(fr, en2, cl2, Depth, later, J1, P2)
  <2>1. CASE Top.dead
    BY <1>8, <1>9, <2>1
  <2>2. CASE ~Top.dead
    <3>1. PICK exit, a : exit \in LabelName /\ exit = Label(Top.id, "exit") /\ a = Around(env, cleanup, Depth, moved)
      BY <1>1, LabelType
    <3>2. ~Top.returns
      BY <1>1, <2>2 DEF CheckInv, FrameInv, FrameOk
    <3>3. Awaits(fr, en2, cl2, Depth, exit, a)
      <4>1. fr[Depth].kind = "if" /\ fr[Depth].merged /\ exit = Label(fr[Depth].id, "exit")
              /\ moved \in fr[Depth].exits
        BY <2>2, <3>1, <3>2 DEF Turned
      <4>2. a = Around(en2, cl2, Depth, moved)
        BY <1>4, <3>1
      <4> QED
        BY <1>7, <4>1, <4>2 DEF Awaits
    <3>4. exit.id < later
      <4>1. frames[Depth].id <= frames[Depth].arm /\ frames[Depth].arm < clock
        BY <1>1, <1>6 DEF Increasing
      <4> QED
        BY <1>1, <1>3, <1>3a, <3>1, <4>1, LabelIs
    <3>5. Linked(fr, en2, cl2, Depth, later, J \cup {<<exit, a>>}, P2)
      BY <1>1, <1>8, <1>9, <3>1, <3>3, <3>4, LinkedJump
    <3>6. j = {<<exit, a>>}
      BY <2>2, <3>1
    <3> QED
      BY <1>9, <3>5, <3>6
  <2> QED
    BY <2>1, <2>2
<1>11. Linked(fr, en2, cl2, Depth, later, J1 \cup k, P2)
  <2>1. CASE isElse
    BY <1>10, <2>1
  <2>2. CASE ~isElse
    <3>1. PICK next \in LabelName : next = Label(clock, "next")
      BY <1>1, LabelType
    <3>2. Awaits(fr, en2, cl2, Depth, next, c)
      <4>1. c = Around(en2, cl2, Depth, Top.entry)
        BY <1>4
      <4>2. /\ fr[Depth].kind = "if" /\ ~fr[Depth].covered /\ next = Label(fr[Depth].arm, "next")
            /\ fr[Depth].entry = Top.entry
        BY <2>2, <3>1 DEF Turned
      <4> QED
        BY <1>7, <4>1, <4>2 DEF Awaits
    <3>3. next.id < later
      BY <1>1, <1>3, <1>3a, <3>1, LabelIs
    <3>4. Linked(fr, en2, cl2, Depth, later, J1 \cup {<<next, c>>}, P2)
      BY <1>1, <1>10, <3>2, <3>3, LinkedJump
    <3>5. k = {<<next, c>>}
      BY <2>2, <3>1
    <3> QED
      BY <3>4, <3>5
  <2> QED
    BY <2>1, <2>2
<1> QED
  BY <1>3, <1>3a, <1>5, <1>9, <1>11

\* The code between two arms keeps the flow.
LEMMA GhostTurns ==
    ASSUME CheckInv, TypeInv', GhostInv, verdict = "checking", NEW isElse \in BOOLEAN,
           Top.kind = "if", ~Top.covered, BlockOk, moved' = Top.entry, LeaveScope,
           SetTop(NextFrame(isElse)), declared' = declared, clock' = clock + 1,
           EmitInParent(IF isElse THEN CloseArm ELSE CloseArm \o Jump("branch", Label(clock, "next")))
    PROVE  GhostInv'
<1>1. PICK names, J, P : Ghost(names, J, P)
  BY DEF GhostInv
<1>2. /\ TypeInv /\ frames \in Seq(Frame) /\ Depth \in Nat /\ Depth \in 1..Depth /\ Depth = Len(frames)
      /\ clock \in Nat /\ Top = frames[Depth] /\ Top.entry \in SUBSET Roots /\ moved \in SUBSET Roots
      /\ Top.id \in Nat /\ Top.arm \in Nat
  BY FrameTypes DEF CheckInv, TypeInv, TypeOK
<1>3. Depth >= 2 /\ Parent = frames[Depth - 1]
  BY <1>2, TopType DEF Parent
<1>4. PICK fr, g : fr = frames' /\ g = NextFrame(isElse)
  OBVIOUS
<1>5. Turned(Top, g, isElse) /\ g.dead = Parent.dead
  BY <1>4, NextFrameIs
<1>6. Len(fr) = Depth /\ Depth' = Depth /\ fr[Depth] = g /\ \A k \in 1..(Depth - 1) : fr[k] = frames[k]
  BY <1>2, <1>4 DEF SetTop, Depth
<1>7. frames'[Len(frames')].dead <=> Parent.dead
  BY <1>4, <1>5, <1>6
<1>8. Linked(frames, env, cleanup, Depth, clock, J, P) /\ Turned(Top, fr[Depth], isElse)
  BY <1>1, <1>5, <1>6 DEF Ghost
<1>9. PICK c, a : c = Around(env, cleanup, Depth, Top.entry) /\ a = Around(env, cleanup, Depth, moved)
  OBVIOUS
<1>10. /\ Holding(env', DeferredIn(cleanup'), Top.entry) = c /\ Ready(names, c) /\ Ready(names, a)
       /\ OuterAvailable(Top.entry) \in SUBSET Roots /\ OuterAvailable(Top.entry) \subseteq c.has
       /\ env' \subseteq names
  <2>1. PICK m \in SUBSET Roots : m = Top.entry
    BY <1>2
  <2>2. Ready(names, a)
    BY <1>1, <1>2, <1>9, AroundLeft
  <2>3. /\ Holding(env', DeferredIn(cleanup'), m) = c /\ Ready(names, c)
        /\ OuterAvailable(m) \in SUBSET Roots /\ OuterAvailable(m) \subseteq c.has
        /\ env' \subseteq names
    BY <1>1, <1>9, <2>1, AroundLeft
  <2> QED
    BY <2>1, <2>2, <2>3
<1>11. /\ names \subseteq Bindings /\ UniqueRoots(names) /\ \A e \in names : e.root \in declared'
  BY <1>1 DEF Ghost
<1>12. CASE Parent.dead
  <2>1. Top.dead
    BY <1>3, <1>12, InsideDead
  <2>2. Flow(names, code, J, P, Nowhere)
    BY <1>1, <1>2, <2>1 DEF Ghost, Current
  <2>3. Current(frames', env', cleanup', moved') = Nowhere
    BY <1>7, <1>12, CurrentIs
  <2>4. code' = code
    BY <1>12 DEF EmitInParent
  <2>5. Linked(fr, env', cleanup', Depth, clock + 1, J, P)
    BY <1>3, <1>6, <1>8, <1>12, LinkedTurnsDead
  <2>6. Linked(frames', env', cleanup', Depth', clock', J, P)
    BY <1>4, <1>6, <2>5
  <2> QED
    BY <1>1, <1>10, <1>11, <2>2, <2>3, <2>4, <2>6, GhostIdles
<1>13. CASE ~Parent.dead
  <2>1. PICK exit \in LabelName, next \in LabelName, later \in LabelName :
           exit = Label(Top.id, "exit") /\ next = Label(Top.arm, "next") /\ later = Label(clock, "next")
    BY <1>2, LabelType
  <2>2. PICK place, close : place = Place(next, OuterAvailable(Top.entry)) /\ close = Closing(Jump("goto", exit))
    OBVIOUS
  <2>3. Emits(names, c, place, {}, {<<next, c>>}, c)
    BY <1>10, <2>2, EmitsPlace
  <2>4. c \in Belief
    BY <1>10 DEF Ready
  <2>5. PICK b : b = Current(frames, env, cleanup, moved)
    OBVIOUS
  <2>6. Flow(names, code, J, P, b)
    BY <1>1, <2>5 DEF Ghost
  <2>7. CloseArm = close \o place
    BY <2>1, <2>2 DEF CloseArm
  <2>8. PICK j, k : /\ j = (IF Top.dead THEN {} ELSE {<<exit, a>>})
                    /\ k = (IF isElse THEN {} ELSE {<<later, c>>})
    OBVIOUS
  <2>9. Emits(names, b, CloseArm, j, {<<next, c>>}, c)
    <3>1. CASE Top.dead
      <4>1. CloseArm = place
        <5>1. place \in Seq(Instr)
          BY <2>3 DEF Emits
        <5>2. <<>> \o place = place
          BY <5>1, ConcatEmptySeq
        <5> QED
          BY <2>2, <2>7, <3>1, <5>2 DEF Closing
      <4>2. b = Nowhere
        BY <1>2, <2>5, <3>1, CurrentIs
      <4>3. Emits(names, b, place, {}, {<<next, c>>}, c)
        BY <2>3, <2>4, <4>2, NowhereIs, EmitsAnew
      <4> QED
        BY <2>8, <3>1, <4>1, <4>3
    <3>2. CASE ~Top.dead
      <4>1. b = Holding(env, DeferredIn(cleanup), moved)
        BY <1>2, <2>5, <3>2, CurrentIs
      <4>2. Emits(names, b, Clean({}, BlockPlan), {}, {}, a)
        BY <1>1, <1>3, <1>9, <3>2, <4>1, BlockLeft
      <4>3. Emits(names, a, Jump("goto", exit), {<<exit, a>>}, {}, c)
        BY <1>10, <2>4, EmitsGoto
      <4>4. Emits(names, b, Clean({}, BlockPlan) \o Jump("goto", exit), {} \cup {<<exit, a>>}, {} \cup {}, c)
        BY <4>2, <4>3, EmitsThen
      <4>5. Emits(names, b, (Clean({}, BlockPlan) \o Jump("goto", exit)) \o place,
                  ({} \cup {<<exit, a>>}) \cup {}, ({} \cup {}) \cup {<<next, c>>}, c)
        BY <2>3, <4>4, EmitsThen
      <4>6. ({} \cup {<<exit, a>>}) \cup {} = j /\ ({} \cup {}) \cup {<<next, c>>} = {<<next, c>>}
        BY <2>8, <3>2
      <4>7. CloseArm = (Clean({}, BlockPlan) \o Jump("goto", exit)) \o place
        BY <2>2, <2>7, <3>2 DEF Closing
      <4> QED
        BY <4>5, <4>6, <4>7
    <3> QED
      BY <3>1, <3>2
  <2>10. PICK is : is = IF isElse THEN CloseArm ELSE CloseArm \o Jump("branch", later)
    OBVIOUS
  <2>11. code' = code \o is
    BY <1>13, <2>1, <2>10 DEF EmitInParent
  <2>12. PICK jk, p : jk = j \cup k /\ p = {<<next, c>>}
    OBVIOUS
  <2>13. Emits(names, b, is, jk, p, c)
    <3>1. CASE isElse
      <4>1. jk = j /\ is = CloseArm
        BY <2>8, <2>10, <2>12, <3>1
      <4> QED
        BY <2>9, <2>12, <4>1
    <3>2. CASE ~isElse
      <4>1. Emits(names, c, Jump("branch", later), {<<later, c>>}, {}, c)
        BY <1>10, EmitsBranch
      <4>2. Emits(names, b, CloseArm \o Jump("branch", later), j \cup {<<later, c>>}, {<<next, c>>} \cup {}, c)
        BY <2>9, <4>1, EmitsThen
      <4>3. j \cup {<<later, c>>} = jk /\ {<<next, c>>} \cup {} = p
        BY <2>8, <2>12, <3>2
      <4> QED
        BY <2>10, <3>2, <4>2, <4>3
    <3> QED
      BY <3>1, <3>2
  <2>14. PICK J2, P2 : J2 = J \cup jk /\ P2 = P \cup p
    OBVIOUS
  <2>15. Linked(frames', env', cleanup', Depth', clock', J2, P2)
    <3>1. /\ j = (IF Top.dead THEN {}
                  ELSE {<<Label(Top.id, "exit"), Around(env, cleanup, Depth, moved)>>})
          /\ k = (IF isElse THEN {} ELSE {<<Label(clock, "next"), c>>})
      BY <1>9, <2>1, <2>8
    <3>2. Linked(fr, env', cleanup', Depth, clock + 1, (J \cup j) \cup k,
                 P \cup {<<Label(Top.arm, "next"), c>>})
      BY <1>3, <1>6, <1>8, <1>9, <1>13, <3>1, LinkedTurns
    <3>3. (J \cup j) \cup k = J2 /\ P \cup {<<Label(Top.arm, "next"), c>>} = P2
      BY <2>1, <2>12, <2>14
    <3> QED
      BY <1>4, <1>6, <3>2, <3>3
  <2>16. Current(frames', env', cleanup', moved') = c
    <3>1. ~frames'[Len(frames')].dead
      BY <1>7, <1>13
    <3>2. Current(frames', env', cleanup', moved') = Holding(env', DeferredIn(cleanup'), moved')
      BY <3>1, CurrentIs
    <3> QED
      BY <1>10, <3>2
  <2> QED
    BY <1>1, <1>2, <1>10, <1>11, <2>6, <2>11, <2>13, <2>14, <2>15, <2>16, GhostEmits
<1> QED
  BY <1>12, <1>13

\* ElseIf and Else keep the flow.
LEMMA GhostTurn ==
    ASSUME CheckInv, TypeInv', GhostInv, verdict = "checking", ElseIf(None) \/ Else, ~Reject
    PROVE  GhostInv'
<1>1. /\ Taken(None) = {} /\ TakeOf(None) = <<>> /\ Top.entry \cup {} = Top.entry
  BY DEF Taken, TakeOf
<1>2. CASE ElseIf(None)
  <2>1. /\ Top.kind = "if" /\ ~Top.covered /\ BlockOk /\ moved' = Top.entry /\ LeaveScope
        /\ SetTop(NextFrame(FALSE)) /\ declared' = declared /\ clock' = clock + 1
        /\ EmitInParent(CloseArm \o <<>> \o Jump("branch", Label(clock, "next")))
    BY <1>1, <1>2 DEF ElseIf, InsideOf, Construct
  <2>2. CloseArm \o <<>> = CloseArm
    <3>1. CloseArm \in Seq(Instr)
      BY CloseArmType DEF CheckInv
    <3> QED
      BY <3>1, ConcatEmptySeq
  <2>3. PICK isElse \in BOOLEAN : isElse = FALSE
    OBVIOUS
  <2> QED
    BY <2>1, <2>2, <2>3, GhostTurns
<1>3. CASE Else
  <2>1. /\ Top.kind = "if" /\ ~Top.covered /\ BlockOk /\ moved' = Top.entry /\ LeaveScope
        /\ SetTop(NextFrame(TRUE)) /\ declared' = declared /\ clock' = clock + 1
        /\ EmitInParent(CloseArm)
    BY <1>3 DEF Else, InsideOf, Construct
  <2>2. PICK isElse \in BOOLEAN : isElse = TRUE
    OBVIOUS
  <2> QED
    BY <2>1, <2>2, GhostTurns
<1> QED
  BY <1>2, <1>3

----------------------------------------------------------------------------
(* The end of a chain.                                                      *)

\* What is held around the innermost construct survives the end of its scope.
LEMMA LeftAround ==
    ASSUME CheckInv, TypeInv', verdict = "checking", Depth >= 2, LeaveScope,
           NEW en2, en2 = env', NEW cl2, cl2 = cleanup'
    PROVE  \A m : Around(en2, cl2, Depth, m) = Around(env, cleanup, Depth, m)
<1>1. Depth \in Nat /\ Depth \in 2..Depth
  BY FrameTypes DEF CheckInv
<1>2. \A e \in (env \cup cleanup) \cup (en2 \cup cl2) : e.depth \in Nat
  <2>1. \A e \in env' \cup cleanup' : e.depth \in Nat
    BY DEF TypeInv, TypeOK, Entry
  <2> QED
    BY <2>1, EntriesTyped DEF CheckInv
<1>3. Outer(Depth, en2) = Outer(Depth, env) /\ Outer(Depth, cl2) = Outer(Depth, cleanup)
  BY DEF LeaveScope, Outer
<1>4. \A k \in 2..Depth : \A m : Around(en2, cl2, k, m) = Around(env, cleanup, k, m)
  BY <1>1, <1>2, <1>3, AroundSame
<1> QED
  BY <1>1, <1>4

\* The paths that meet at the end of a balanced chain agree there.
LEMMA JoinAgrees ==
    ASSUME CheckInv, verdict = "checking", BalancedChain
    PROVE  /\ JoinedMoves \in SUBSET Roots
           /\ \A m : m \in ArmExits \/ (~Top.covered /\ m = Top.entry) =>
                Around(env, cleanup, Depth, m) = Around(env, cleanup, Depth, JoinedMoves)
<1>1. /\ ArmExits \in SUBSET (SUBSET Roots) /\ Top.entry \in SUBSET Roots /\ Top.covered \in BOOLEAN
  BY ExitsType, TopType DEF CheckInv, Frame
<1>2. PICK exits : exits = ArmExits \cup (IF Top.covered THEN {} ELSE {Top.entry})
  OBVIOUS
<1>3. JoinedMoves = IF exits = {} THEN Top.entry ELSE UNION exits
  BY <1>2 DEF JoinedMoves
<1>4. exits \in SUBSET (SUBSET Roots)
  BY <1>1, <1>2
<1>5. JoinedMoves \in SUBSET Roots
  BY <1>1, <1>3, <1>4
<1>6. \A x, y \in exits : x \cap Outside(Depth) = y \cap Outside(Depth)
  BY <1>2 DEF BalancedChain
<1>7. ASSUME NEW m, m \in ArmExits \/ (~Top.covered /\ m = Top.entry)
      PROVE  Around(env, cleanup, Depth, m) = Around(env, cleanup, Depth, JoinedMoves)
  <2>1. m \in exits
    BY <1>2, <1>7
  <2>2. JoinedMoves = UNION exits
    BY <1>3, <2>1
  <2>3. m \cap Outside(Depth) = JoinedMoves \cap Outside(Depth)
    BY <1>6, <2>1, <2>2
  <2>4. PICK x : x = JoinedMoves
    OBVIOUS
  <2>5. Around(env, cleanup, Depth, m) = Around(env, cleanup, Depth, x)
    BY <2>3, <2>4, AroundAgrees DEF Outside
  <2> QED
    BY <2>4, <2>5
<1> QED
  BY <1>5, <1>7

\* The frames around a chain that ends, apart from what it adds to the innermost.
LEMMA JoinedFrames ==
    ASSUME CheckInv, verdict = "checking", Depth >= 2, NEW f,
           NEW fr, fr = Append(SubSeq(frames, 1, Depth - 2), f)
    PROVE  /\ Len(fr) = Depth - 1 /\ fr[Depth - 1] = f
           /\ \A k \in 1..(Depth - 2) : fr[k] = frames[k]
<1>1. frames \in Seq(Frame) /\ Depth = Len(frames) /\ Depth \in Nat
  BY FrameTypes DEF CheckInv
<1>2. PICK s : s = SubSeq(frames, 1, Depth - 2)
  OBVIOUS
<1>3. s \in Seq(Frame) /\ Len(s) = Depth - 2 /\ \A k \in 1..(Depth - 2) : s[k] = frames[k]
  BY <1>1, <1>2
<1>4. Len(fr) = Len(s) + 1 /\ fr[Len(s) + 1] = f /\ \A k \in 1..Len(s) : fr[k] = s[k]
  <2>1. fr = Append(s, f)
    BY <1>2
  <2> QED
    BY <1>3, <2>1, AppendAny
<1>5. Depth - 2 + 1 = Depth - 1
  BY <1>1
<1> QED
  BY <1>3, <1>4, <1>5

\* What the chain awaits at its end, with the belief its paths agree on.
LEMMA ChainAwaits ==
    ASSUME CheckInv, verdict = "checking", Top.kind = "if", Depth >= 2, BalancedChain,
           NEW c, c = Around(env, cleanup, Depth, JoinedMoves),
           NEW l, NEW b, Awaits(frames, env, cleanup, Depth, l, b)
    PROVE  b = c /\ (Top.covered => Top.merged /\ l = Label(Top.id, "exit"))
<1>1. Depth \in Nat /\ Top = frames[Depth]
  BY FrameTypes DEF CheckInv
<1>2. \/ ~Top.covered /\ b = Around(env, cleanup, Depth, Top.entry)
      \/ /\ Top.merged /\ l = Label(Top.id, "exit")
         /\ \E m \in Top.exits : b = Around(env, cleanup, Depth, m)
  BY <1>1 DEF Awaits, Loops
<1>3. \A m \in Top.exits : m \in ArmExits
  BY DEF ArmExits
<1>4. b = c
  <2>1. CASE ~Top.covered /\ b = Around(env, cleanup, Depth, Top.entry)
    BY <2>1, JoinAgrees
  <2>2. CASE \E m \in Top.exits : b = Around(env, cleanup, Depth, m)
    BY <1>3, <2>2, JoinAgrees
  <2> QED
    BY <1>2, <2>1, <2>2
<1> QED
  BY <1>2, <1>4

\* Without an else, the chain places the label of its last arm and its exit.
LEMMA LinkedEnds ==
    ASSUME CheckInv, TypeInv', verdict = "checking", Top.kind = "if", ~Top.covered, Depth >= 2,
           BalancedChain, NEW c, c = Around(env, cleanup, Depth, JoinedMoves),
           NEW J, NEW P, Linked(frames, env, cleanup, Depth, clock, J, P), LeaveScope, ~Parent.dead,
           NEW j, j = (IF Top.dead THEN {} ELSE {<<Label(Top.id, "exit"), c>>}),
           NEW fr2, \A k \in 1..(Depth - 2) : fr2[k] = frames[k],
           NEW f, MarksTop(SubSeq(frames, 1, Depth - 1), f), fr2[Depth - 1] = f
    PROVE  Linked(fr2, env', cleanup', Depth - 1, clock + 1, J \cup j,
                  (P \cup {<<Label(Top.arm, "next"), c>>}) \cup {<<Label(Top.id, "exit"), c>>})
<1>1. /\ Depth \in Nat /\ clock \in Nat /\ Parent = frames[Depth - 1] /\ Top = frames[Depth]
      /\ Top.id \in Nat /\ Top.arm \in Nat /\ Depth \in 1..Depth
      /\ frames \in Seq(Frame) /\ Depth = Len(frames) /\ Depth - 1 \in Nat
  <2>1. /\ Depth \in Nat /\ clock \in Nat /\ Top = frames[Depth] /\ Depth \in 1..Depth
        /\ frames[Depth].id \in Nat /\ frames[Depth].arm \in Nat
        /\ frames \in Seq(Frame) /\ Depth = Len(frames)
    BY FrameTypes DEF CheckInv
  <2> QED
    BY <2>1 DEF Parent
<1>2. PICK g : g = NextFrame(TRUE)
  OBVIOUS
<1>3. Turned(Top, g, TRUE)
  <2>1. PICK isElse \in BOOLEAN : isElse = TRUE
    OBVIOUS
  <2> QED
    BY <1>2, <2>1, NextFrameIs
<1>4. g.exits = ArmExits
  BY <1>2 DEF NextFrame, Reopened
<1>5. PICK fr : fr = [k \in 1..Depth |-> IF k = Depth THEN g ELSE frames[k]]
  OBVIOUS
<1>6. fr[Depth] = g /\ \A k \in 1..(Depth - 1) : fr[k] = frames[k]
  BY <1>1, <1>5
<1>7. c = Around(env, cleanup, Depth, Top.entry)
  BY JoinAgrees
<1>8. ~Top.dead => c = Around(env, cleanup, Depth, moved)
  <2>1. Top.returns => Top.dead
    BY <1>1 DEF CheckInv, FrameInv, FrameOk
  <2>2. ~Top.dead => moved \in ArmExits
    BY <2>1 DEF ArmExits
  <2> QED
    BY <2>2, JoinAgrees
<1>9. PICK none : none = {}
  OBVIOUS
<1>10. PICK later, en2, cl2, J2, P2 :
          /\ later \in Nat /\ later = clock + 1 /\ en2 = env' /\ cl2 = cleanup'
          /\ J2 = J \cup j /\ P2 = P \cup {<<Label(Top.arm, "next"), c>>}
  <2>1. clock + 1 \in Nat
    BY <1>1
  <2> QED
    BY <2>1
<1>11. Linked(fr, en2, cl2, Depth, later, J2, P2)
  <2>1. PICK isElse \in BOOLEAN : isElse = TRUE
    OBVIOUS
  <2>2. Turned(Top, fr[Depth], isElse)
    BY <1>3, <1>6, <2>1
  <2>3. j = (IF Top.dead THEN {} ELSE {<<Label(Top.id, "exit"), Around(env, cleanup, Depth, moved)>>})
    BY <1>8
  <2>4. none = (IF isElse THEN {} ELSE {<<Label(clock, "next"), c>>})
    BY <1>9, <2>1
  <2>5. Linked(fr, env', cleanup', Depth, clock + 1, (J \cup j) \cup none,
               P \cup {<<Label(Top.arm, "next"), c>>})
    BY <1>6, <1>7, <2>2, <2>3, <2>4, LinkedTurns
  <2>6. (J \cup j) \cup none = J2
    BY <1>9, <1>10
  <2> QED
    BY <1>10, <2>5, <2>6
<1>12. PICK exit \in LabelName : exit = Label(Top.id, "exit")
  BY <1>1, LabelType
<1>13. Linked(fr, en2, cl2, Depth - 1, later, J2, P2 \cup {<<exit, c>>})
  <2>1. Increasing(fr, Depth, later)
    <3>1. Increasing(frames, Depth, clock)
      BY DEF CheckInv, FrameInv
    <3>2. ASSUME NEW k \in 1..Depth
          PROVE  /\ fr[k].id \in Nat /\ fr[k].arm \in Nat /\ fr[k].id <= fr[k].arm /\ fr[k].arm < later
                 /\ \A i \in 1..(k - 1) : fr[i].arm < fr[k].id
      <4>1. /\ frames[k].id \in Nat /\ frames[k].arm \in Nat
            /\ frames[k].id <= frames[k].arm /\ frames[k].arm < clock
            /\ \A i \in 1..(k - 1) : frames[i].arm < frames[k].id
        BY <3>1 DEF Increasing
      <4>2. \A i \in 1..(k - 1) : fr[i] = frames[i]
        <5> SUFFICES ASSUME NEW i \in 1..(k - 1) PROVE fr[i] = frames[i]
          OBVIOUS
        <5>1. i \in 1..(Depth - 1)
          BY <1>1
        <5> QED
          BY <1>6, <5>1
      <4>3. CASE k = Depth
        <5>1. fr[k].id = frames[k].id /\ fr[k].arm = clock
          BY <1>1, <1>3, <1>6, <4>3 DEF Turned
        <5>2. clock < later /\ frames[k].id <= clock
          BY <1>1, <1>10, <4>1
        <5> QED
          BY <1>1, <4>1, <4>2, <5>1, <5>2
      <4>4. CASE k # Depth
        <5>1. k \in 1..(Depth - 1)
          BY <1>1, <4>4
        <5>2. fr[k] = frames[k]
          BY <1>6, <5>1
        <5>3. frames[k].arm < later
          BY <1>1, <1>10, <4>1
        <5> QED
          BY <4>1, <4>2, <5>2, <5>3
      <4> QED
        BY <4>3, <4>4
    <3> QED
      BY <3>2 DEF Increasing
  <2>2. Reserves(fr[Depth], exit)
    BY <1>3, <1>6, <1>12 DEF Reserves, Turned
  <2>3. ASSUME NEW x, NEW y, Awaits(fr, en2, cl2, Depth, x, y)
        PROVE  x = exit /\ y = c
    <3>1. x = Label(Top.id, "exit") /\ \E m \in g.exits : y = Around(en2, cl2, Depth, m)
      BY <1>3, <1>6, <2>3 DEF Awaits, Turned, Loops
    <3>2. \A m : Around(en2, cl2, Depth, m) = Around(env, cleanup, Depth, m)
      BY <1>10, LeftAround
    <3>3. \A m \in ArmExits : Around(env, cleanup, Depth, m) = c
      BY JoinAgrees
    <3> QED
      BY <1>4, <1>12, <3>1, <3>2, <3>3
  <2> QED
    BY <1>1, <1>10, <1>11, <2>1, <2>2, <2>3, LinkedExit
<1>14. PICK n, P3 : n \in Nat /\ n = Depth - 1 /\ P3 = P2 \cup {<<exit, c>>}
  BY <1>1
<1>15. Linked(fr2, en2, cl2, n, later, J2, P3)
  <2>1. \A k \in 2..n : /\ fr2[k].kind = fr[k].kind /\ fr2[k].id = fr[k].id
                        /\ fr2[k].arm = fr[k].arm /\ fr2[k].entry = fr[k].entry
                        /\ fr2[k].exits = fr[k].exits /\ fr2[k].covered = fr[k].covered
                        /\ fr2[k].merged = fr[k].merged /\ fr2[k - 1].dead = fr[k - 1].dead
    <3> SUFFICES ASSUME NEW k \in 2..n
                 PROVE  /\ fr2[k].kind = fr[k].kind /\ fr2[k].id = fr[k].id
                        /\ fr2[k].arm = fr[k].arm /\ fr2[k].entry = fr[k].entry
                        /\ fr2[k].exits = fr[k].exits /\ fr2[k].covered = fr[k].covered
                        /\ fr2[k].merged = fr[k].merged /\ fr2[k - 1].dead = fr[k - 1].dead
      OBVIOUS
    <3>1. k - 1 \in 1..(Depth - 2) /\ k - 1 \in 1..(Depth - 1) /\ k \in 1..(Depth - 1)
      BY <1>1, <1>14
    <3>2. fr2[k - 1] = fr[k - 1] /\ fr[k] = frames[k]
      BY <1>6, <3>1
    <3>3. CASE k = Depth - 1
      <4>1. PICK s : s = SubSeq(frames, 1, Depth - 1)
        OBVIOUS
      <4>2. Len(s) = Depth - 1 /\ s[Depth - 1] = frames[Depth - 1]
        BY <1>1, <4>1
      <4>3. fr2[k] = f /\ s[Len(s)] = fr[k]
        BY <3>2, <3>3, <4>2
      <4> QED
        BY <3>2, <4>1, <4>3 DEF MarksTop
    <3>4. CASE k # Depth - 1
      <4>1. k \in 1..(Depth - 2)
        BY <1>1, <1>14, <3>4
      <4> QED
        BY <3>2, <4>1
    <3> QED
      BY <3>3, <3>4
  <2>2. \A k \in 2..n : \A m : Around(en2, cl2, k, m) = Around(en2, cl2, k, m)
    OBVIOUS
  <2>3. Linked(fr, en2, cl2, n, later, J2, P3)
    BY <1>13, <1>14
  <2>4. n \in Nat /\ later \in Nat /\ later <= later
    BY <1>10, <1>14
  <2> QED
    BY <2>1, <2>2, <2>3, <2>4, LinkedAgrees
<1> QED
  BY <1>10, <1>12, <1>14, <1>15

\* Some path leads past the chain.
Reaches == Top.merged \/ ~Top.dead \/ ~Top.covered

\* The frame around a chain that ends.
LEMMA EndedFrame ==
    ASSUME CheckInv, verdict = "checking", Depth >= 2,
           NEW f, f = Mark(Parent, Top.covered /\ Top.allRet /\ Top.returns, ~Reaches)
    PROVE  /\ MarksTop(SubSeq(frames, 1, Depth - 1), f)
           /\ f.dead = (Parent.dead \/ ~Reaches)
<1> DEFINE ret == Top.covered /\ Top.allRet /\ Top.returns
<1>1. /\ Depth \in Nat /\ Depth \in 1..Depth /\ Top = frames[Depth] /\ Top \in Frame
      /\ Depth - 1 \in 1..Depth /\ Parent = frames[Depth - 1] /\ Parent \in Frame
      /\ frames \in Seq(Frame) /\ Depth = Len(frames)
  <2>1. /\ Depth \in Nat /\ Depth \in 1..Depth /\ Top = frames[Depth] /\ frames \in Seq(Frame)
        /\ Depth = Len(frames) /\ \A k \in 1..Depth : frames[k] \in Frame
    BY FrameTypes DEF CheckInv
  <2>2. Depth - 1 \in 1..Depth
    BY <2>1
  <2> QED
    BY <2>1, <2>2 DEF Parent
<1>2. FrameOk(frames, Depth) /\ FrameOk(frames, Depth - 1)
  BY <1>1 DEF CheckInv, FrameInv
<1>3. ret \in BOOLEAN /\ Reaches \in BOOLEAN /\ Parent.dead \in BOOLEAN /\ Parent.returns \in BOOLEAN
  BY <1>1 DEF Frame, Reaches
<1>4. ret => ~Reaches
  BY <1>1, <1>2 DEF FrameOk, Reaches
<1>5. Parent.returns => Parent.dead
  BY <1>1, <1>2 DEF FrameOk
<1> HIDE DEF ret
<1>6. PICK s : s = SubSeq(frames, 1, Depth - 1)
  OBVIOUS
<1>7. Len(s) = Depth - 1 /\ s[Depth - 1] = Parent
  BY <1>1, <1>6
<1>8. PICK end \in BOOLEAN : end = ~Reaches
  BY <1>3
<1>8a. PICK r \in BOOLEAN : r = ret
  BY <1>3
<1>9. f = Mark(Parent, r, end)
  BY <1>8, <1>8a DEF ret
<1>10. /\ f.kind = Parent.kind /\ f.id = Parent.id
       /\ f.arm = Parent.arm /\ f.entry = Parent.entry
       /\ f.exits = Parent.exits /\ f.covered = Parent.covered
       /\ f.allRet = Parent.allRet /\ f.merged = Parent.merged
       /\ f.loop = Parent.loop /\ f.target = Parent.target
       /\ f.dead = (Parent.dead \/ end)
       /\ f.returns = (Parent.returns \/ r)
  BY <1>1, <1>9, MarkIs, SMTT(20)
<1>11. (Parent.dead => f.dead) /\ (f.returns => f.dead)
  BY <1>4, <1>5, <1>8, <1>8a, <1>10
<1>12. s[Len(s)] = Parent
  BY <1>7
<1>13. MarksTop(s, f)
  BY <1>10, <1>11, <1>12 DEF MarksTop
<1> QED
  BY <1>6, <1>8, <1>10, <1>13

\* What the last arm emits, with the label of the chain's exit.
LEMMA ChainEmits ==
    ASSUME CheckInv, verdict = "checking", Top.kind = "if", Depth >= 2, BlockOk, BalancedChain,
           NEW names, NEW J, NEW P, Ghost(names, J, P), LeaveScope, Reaches,
           NEW c, c = Around(env, cleanup, Depth, JoinedMoves),
           NEW j, j = (IF Top.covered \/ Top.dead THEN {} ELSE {<<Label(Top.id, "exit"), c>>}),
           NEW p, p = (IF Top.covered THEN {} ELSE {<<Label(Top.arm, "next"), c>>})
    PROVE  Emits(names, Current(frames, env, cleanup, moved),
                 (IF Top.covered THEN Closing(<<>>) ELSE CloseArm)
                   \o Place(Label(Top.id, "exit"), OuterAvailable(JoinedMoves)),
                 j, p \cup {<<Label(Top.id, "exit"), c>>}, c)
<1>1. /\ Depth \in Nat /\ Depth \in 1..Depth /\ Top = frames[Depth] /\ Depth = Len(frames)
      /\ Top.id \in Nat /\ Top.arm \in Nat /\ Top.entry \in SUBSET Roots
  <2>1. /\ Depth \in Nat /\ Depth \in 1..Depth /\ Top = frames[Depth] /\ Depth = Len(frames)
        /\ frames[Depth].id \in Nat /\ frames[Depth].arm \in Nat /\ frames[Depth].entry \in SUBSET Roots
    BY FrameTypes DEF CheckInv
  <2> QED
    BY <2>1
<1>2. PICK m \in SUBSET Roots : m = JoinedMoves
  BY JoinAgrees
<1>3. Ready(names, c) /\ OuterAvailable(m) \in SUBSET Roots /\ OuterAvailable(m) \subseteq c.has
  BY <1>2, AroundLeft
<1>4. c \in Belief
  BY <1>3 DEF Ready
<1>5. PICK exit \in LabelName, next \in LabelName :
         exit = Label(Top.id, "exit") /\ next = Label(Top.arm, "next")
  BY <1>1, LabelType
<1>6. PICK b, place, arm : /\ b = Current(frames, env, cleanup, moved)
                           /\ place = Place(exit, OuterAvailable(m))
                           /\ arm = Place(next, OuterAvailable(Top.entry))
  OBVIOUS
<1>7. Emits(names, c, place, {}, {<<exit, c>>}, c) /\ place \in Seq(Instr)
  <2>1. Emits(names, c, place, {}, {<<exit, c>>}, c)
    BY <1>3, <1>6, EmitsPlace
  <2> QED
    BY <2>1 DEF Emits
<1>8. ~Top.covered => Emits(names, c, arm, {}, {<<next, c>>}, c) /\ arm \in Seq(Instr)
  <2> SUFFICES ASSUME ~Top.covered
               PROVE  Emits(names, c, arm, {}, {<<next, c>>}, c) /\ arm \in Seq(Instr)
    OBVIOUS
  <2>1. PICK x \in SUBSET Roots : x = Top.entry
    BY <1>1
  <2>2. c = Around(env, cleanup, Depth, x)
    BY <2>1, JoinAgrees
  <2>3. OuterAvailable(x) \in SUBSET Roots /\ OuterAvailable(x) \subseteq c.has
    BY <2>2, AroundLeft
  <2>4. Emits(names, c, arm, {}, {<<next, c>>}, c)
    BY <1>3, <1>6, <2>1, <2>3, EmitsPlace
  <2> QED
    BY <2>4 DEF Emits
<1>9. Top.dead => b = Nowhere
  BY <1>1, <1>6, CurrentIs
<1>10. ~Top.dead => Emits(names, b, Clean({}, BlockPlan), {}, {}, c)
  <2> SUFFICES ASSUME ~Top.dead PROVE Emits(names, b, Clean({}, BlockPlan), {}, {}, c)
    OBVIOUS
  <2>1. b = Holding(env, DeferredIn(cleanup), moved)
    BY <1>1, <1>6, CurrentIs
  <2>2. Emits(names, b, Clean({}, BlockPlan), {}, {}, Around(env, cleanup, Depth, moved))
    BY <2>1, BlockLeft
  <2>3. Top.returns => Top.dead
    BY <1>1 DEF CheckInv, FrameInv, FrameOk
  <2>4. moved \in ArmExits
    BY <2>3 DEF ArmExits
  <2>5. Around(env, cleanup, Depth, moved) = c
    BY <2>4, JoinAgrees
  <2> QED
    BY <2>2, <2>5
<1>11. PICK last : last = IF Top.covered THEN Closing(<<>>) ELSE CloseArm
  OBVIOUS
<1>12. Emits(names, b, last \o place, j, p \cup {<<exit, c>>}, c)
  <2>1. CASE Top.covered /\ Top.dead
    <3>1. last \o place = place
      <4>1. <<>> \o place = place
        BY <1>7, ConcatEmptySeq
      <4> QED
        BY <1>11, <2>1, <4>1 DEF Closing
    <3>2. j = {} /\ p \cup {<<exit, c>>} = {<<exit, c>>}
      BY <2>1
    <3>3. Emits(names, Nowhere, place, {}, {<<exit, c>>}, c)
      BY <1>4, <1>7, NowhereIs, EmitsAnew
    <3> QED
      BY <1>9, <2>1, <3>1, <3>2, <3>3
  <2>2. CASE Top.covered /\ ~Top.dead
    <3>1. Emits(names, c, <<>>, {}, {}, c)
      BY EmitsNothing
    <3>2. Emits(names, b, Clean({}, BlockPlan) \o <<>>, {} \cup {}, {} \cup {}, c)
      BY <1>10, <2>2, <3>1, EmitsThen
    <3>3. Emits(names, b, (Clean({}, BlockPlan) \o <<>>) \o place,
                ({} \cup {}) \cup {}, ({} \cup {}) \cup {<<exit, c>>}, c)
      BY <1>7, <3>2, EmitsThen
    <3>4. ({} \cup {}) \cup {} = j /\ ({} \cup {}) \cup {<<exit, c>>} = p \cup {<<exit, c>>}
      BY <2>2
    <3>5. last = Clean({}, BlockPlan) \o <<>>
      BY <1>11, <2>2 DEF Closing
    <3> QED
      BY <3>3, <3>4, <3>5
  <2>3. CASE ~Top.covered /\ Top.dead
    <3>1. last = arm
      <4>1. <<>> \o arm = arm
        BY <1>8, <2>3, ConcatEmptySeq
      <4> QED
        BY <1>5, <1>6, <1>11, <2>3, <4>1 DEF CloseArm, Closing
    <3>2. Emits(names, Nowhere, arm, {}, {<<next, c>>}, c)
      BY <1>4, <1>8, <2>3, NowhereIs, EmitsAnew
    <3>3. Emits(names, b, arm, {}, {<<next, c>>}, c)
      BY <1>9, <2>3, <3>2
    <3>4. Emits(names, b, arm \o place, {} \cup {}, {<<next, c>>} \cup {<<exit, c>>}, c)
      BY <1>7, <3>3, EmitsThen
    <3>5. {} \cup {} = j /\ {<<next, c>>} = p
      BY <1>5, <2>3
    <3> QED
      BY <3>1, <3>4, <3>5
  <2>4. CASE ~Top.covered /\ ~Top.dead
    <3>1. Emits(names, c, Jump("goto", exit), {<<exit, c>>}, {}, c)
      BY <1>3, <1>4, EmitsGoto
    <3>2. Emits(names, b, Clean({}, BlockPlan) \o Jump("goto", exit), {} \cup {<<exit, c>>}, {} \cup {}, c)
      BY <1>10, <2>4, <3>1, EmitsThen
    <3>3. Emits(names, b, (Clean({}, BlockPlan) \o Jump("goto", exit)) \o arm,
                ({} \cup {<<exit, c>>}) \cup {}, ({} \cup {}) \cup {<<next, c>>}, c)
      BY <1>8, <2>4, <3>2, EmitsThen
    <3>4. (Clean({}, BlockPlan) \o Jump("goto", exit)) \o arm = last
      BY <1>5, <1>6, <1>11, <2>4 DEF CloseArm, Closing
    <3>5. ({} \cup {<<exit, c>>}) \cup {} = j /\ ({} \cup {}) \cup {<<next, c>>} = p
      BY <1>5, <2>4
    <3>6. Emits(names, b, last, j, p, c)
      BY <3>3, <3>4, <3>5
    <3>7. Emits(names, b, last \o place, j \cup {}, p \cup {<<exit, c>>}, c)
      BY <1>7, <3>6, EmitsThen
    <3> QED
      BY <3>7
  <2>5. Top.covered \in BOOLEAN /\ Top.dead \in BOOLEAN
    BY TopType DEF CheckInv, Frame
  <2> QED
    BY <2>1, <2>2, <2>3, <2>4, <2>5
<1> QED
  BY <1>2, <1>5, <1>6, <1>11, <1>12

\* EndIf keeps the flow: every arm that goes on meets the others there.
LEMMA GhostEndIf ==
    ASSUME CheckInv, TypeInv', GhostInv, verdict = "checking", BalancedChain, EndIf, ~Reject
    PROVE  GhostInv'
<1>1. PICK names, J, P : Ghost(names, J, P)
  BY DEF GhostInv
<1>2. PICK f, fr : /\ f = Mark(Parent, Top.covered /\ Top.allRet /\ Top.returns, ~Reaches)
                   /\ fr = frames'
  OBVIOUS
<1>3. PICK last, merge : /\ last = IF Top.covered THEN Closing(<<>>) ELSE CloseArm
                         /\ merge = Place(Label(Top.id, "exit"), OuterAvailable(JoinedMoves))
  OBVIOUS
<1>4. /\ Top.kind = "if" /\ BlockOk /\ moved' = JoinedMoves /\ LeaveScope
      /\ frames' = Append(SubSeq(frames, 1, Depth - 2), f)
      /\ EmitInParent(last \o (IF Reaches THEN merge ELSE <<>>))
      /\ declared' = declared /\ clock' = clock + 1
  BY <1>2, <1>3 DEF EndIf, Construct, InsideOf, Reaches
<1>5. /\ Depth \in Nat /\ Depth \in 1..Depth /\ Depth = Len(frames) /\ clock \in Nat
      /\ Top = frames[Depth] /\ Top.id \in Nat /\ Top.arm \in Nat
      /\ Top.covered \in BOOLEAN /\ Top.dead \in BOOLEAN /\ Top.merged \in BOOLEAN
  <2>1. /\ Depth \in Nat /\ Depth \in 1..Depth /\ Depth = Len(frames) /\ clock \in Nat
        /\ Top = frames[Depth] /\ frames[Depth].id \in Nat /\ frames[Depth].arm \in Nat
    BY FrameTypes DEF CheckInv
  <2>2. Top.covered \in BOOLEAN /\ Top.dead \in BOOLEAN /\ Top.merged \in BOOLEAN
    BY TopType DEF CheckInv, Frame
  <2> QED
    BY <2>1, <2>2
<1>6. Depth >= 2 /\ Parent = frames[Depth - 1]
  BY <1>4, <1>5, TopType DEF CheckInv, Parent
<1>7. PICK n \in Nat : n = Depth - 1
  BY <1>5, <1>6
<1>8. Len(fr) = n /\ fr[n] = f /\ (\A k \in 1..(Depth - 2) : fr[k] = frames[k]) /\ Depth' = n
  <2>1. /\ Len(fr) = Depth - 1 /\ fr[Depth - 1] = f
        /\ \A k \in 1..(Depth - 2) : fr[k] = frames[k]
    <3>1. fr = Append(SubSeq(frames, 1, Depth - 2), f)
      BY <1>2, <1>4
    <3>2. Depth >= 2
      BY <1>6
    <3> QED
      BY <3>1, <3>2, JoinedFrames, Zenon
  <2> QED
    BY <1>2, <1>7, <2>1 DEF Depth
<1>9. MarksTop(SubSeq(frames, 1, Depth - 1), f) /\ f.dead = (Parent.dead \/ ~Reaches)
  BY <1>2, <1>6, EndedFrame
<1>10. \A k \in 2..n : /\ fr[k].kind = frames[k].kind /\ fr[k].id = frames[k].id
                       /\ fr[k].arm = frames[k].arm /\ fr[k].entry = frames[k].entry
                       /\ fr[k].exits = frames[k].exits /\ fr[k].covered = frames[k].covered
                       /\ fr[k].merged = frames[k].merged /\ fr[k - 1].dead = frames[k - 1].dead
  <2> SUFFICES ASSUME NEW k \in 2..n
               PROVE  /\ fr[k].kind = frames[k].kind /\ fr[k].id = frames[k].id
                      /\ fr[k].arm = frames[k].arm /\ fr[k].entry = frames[k].entry
                      /\ fr[k].exits = frames[k].exits /\ fr[k].covered = frames[k].covered
                      /\ fr[k].merged = frames[k].merged /\ fr[k - 1].dead = frames[k - 1].dead
    OBVIOUS
  <2>1. k - 1 \in 1..(Depth - 2)
    BY <1>5, <1>7
  <2>2. fr[k - 1] = frames[k - 1]
    BY <1>8, <2>1
  <2>3. CASE k = n
    <3>1. PICK s : s = SubSeq(frames, 1, Depth - 1)
      OBVIOUS
    <3>2. frames \in Seq(Frame)
      BY FrameTypes DEF CheckInv
    <3>3. Len(s) = n /\ s[n] = frames[n]
      BY <1>5, <1>6, <1>7, <3>1, <3>2
    <3>4. fr[k] = f /\ s[Len(s)] = frames[k]
      BY <1>8, <2>3, <3>3
    <3> QED
      BY <1>9, <2>2, <3>1, <3>4 DEF MarksTop
  <2>4. CASE k # n
    <3>1. k \in 1..(Depth - 2)
      BY <1>5, <1>7, <2>4
    <3>2. fr[k] = frames[k]
      BY <1>8, <3>1
    <3> QED
      BY <2>2, <3>2
  <2> QED
    BY <2>3, <2>4
<1>11. Linked(frames, env, cleanup, Depth, clock, J, P) /\ Increasing(frames, Depth, clock)
  BY <1>1 DEF Ghost, CheckInv, FrameInv
<1>12. PICK c : c = Around(env, cleanup, Depth, JoinedMoves)
  OBVIOUS
<1>13. Holding(env', DeferredIn(cleanup'), moved') = c /\ env' \subseteq names /\ c \in Belief
  <2>1. PICK m \in SUBSET Roots : m = JoinedMoves
    BY JoinAgrees
  <2>2. /\ Holding(env', DeferredIn(cleanup'), m) = Around(env, cleanup, Depth, m)
        /\ Ready(names, Around(env, cleanup, Depth, m)) /\ env' \subseteq names
    BY <1>1, <1>4, AroundLeft
  <2> QED
    BY <1>4, <1>12, <2>1, <2>2 DEF Ready
<1>14. /\ names \subseteq Bindings /\ UniqueRoots(names) /\ \A e \in names : e.root \in declared'
  BY <1>1, <1>4 DEF Ghost
<1>15. PICK b : b = Current(frames, env, cleanup, moved)
  OBVIOUS
<1>16. Flow(names, code, J, P, b)
  BY <1>1, <1>15 DEF Ghost
<1>17. fr[Len(fr)].dead = (Parent.dead \/ ~Reaches)
  BY <1>8, <1>9
<1>18. CASE Parent.dead \/ ~Reaches
  <2>1. Top.dead /\ code' = code
    <3>1. CASE Parent.dead
      BY <1>4, <1>6, <3>1, InsideDead DEF EmitInParent
    <3>2. CASE ~Parent.dead /\ ~Reaches
      <4>1. Top.dead /\ Top.covered
        BY <1>5, <3>2 DEF Reaches
      <4>2. last \o <<>> = <<>>
        BY <1>3, <4>1 DEF Closing
      <4>3. code \o <<>> = code
        <5>1. code \in Seq(Instr)
          BY DEF CheckInv, TypeInv, TypeOK
        <5> QED
          BY <5>1, ConcatEmptySeq
      <4> QED
        BY <1>4, <3>2, <4>1, <4>2, <4>3 DEF EmitInParent
    <3> QED
      BY <1>18, <3>1, <3>2
  <2>2. b = Nowhere
    BY <1>5, <1>15, <2>1, CurrentIs
  <2>3. Current(fr, env', cleanup', moved') = Nowhere
    BY <1>17, <1>18, CurrentIs
  <2>4. \A l, x : ~Awaits(frames, env, cleanup, Depth, l, x)
    <3>1. CASE Parent.dead
      BY <1>6, <3>1 DEF Awaits
    <3>2. CASE ~Reaches
      BY <1>4, <1>5, <3>2 DEF Awaits, Loops, Reaches
    <3> QED
      BY <1>18, <3>1, <3>2
  <2>5. Linked(frames, env, cleanup, Depth - 1, clock, J, P)
    BY <1>5, <1>6, <1>11, <2>4, LinkedDrop
  <2>6. Linked(frames, env, cleanup, n, clock, J, P) /\ n <= Depth
    BY <1>5, <1>7, <2>5
  <2>7. Linked(fr, env', cleanup', n, clock + 1, J, P)
    BY <1>4, <1>10, <2>6, LinkedLeft
  <2>8. Linked(frames', env', cleanup', Depth', clock', J, P)
    BY <1>2, <1>4, <1>8, <2>7
  <2> QED
    BY <1>1, <1>2, <1>13, <1>14, <1>16, <2>1, <2>2, <2>3, <2>8, GhostIdles
<1>19. CASE ~Parent.dead /\ Reaches
  <2>1. PICK j, p, is : /\ j = (IF Top.covered \/ Top.dead THEN {} ELSE {<<Label(Top.id, "exit"), c>>})
                        /\ p = (IF Top.covered THEN {} ELSE {<<Label(Top.arm, "next"), c>>})
                                  \cup {<<Label(Top.id, "exit"), c>>}
                        /\ is = last \o merge
    OBVIOUS
  <2>2. Emits(names, b, is, j, p, c)
    <3>1. PICK q : q = (IF Top.covered THEN {} ELSE {<<Label(Top.arm, "next"), c>>})
      OBVIOUS
    <3>2. Emits(names, Current(frames, env, cleanup, moved),
                (IF Top.covered THEN Closing(<<>>) ELSE CloseArm)
                  \o Place(Label(Top.id, "exit"), OuterAvailable(JoinedMoves)),
                j, q \cup {<<Label(Top.id, "exit"), c>>}, c)
      BY <1>1, <1>4, <1>6, <1>12, <1>19, <2>1, <3>1, ChainEmits
    <3> QED
      BY <1>3, <1>15, <2>1, <3>1, <3>2
  <2>3. code' = code \o is
    BY <1>4, <1>19, <2>1 DEF EmitInParent
  <2>4. Current(fr, env', cleanup', moved') = c
    <3>1. ~fr[Len(fr)].dead
      BY <1>17, <1>19
    <3> QED
      BY <1>13, <3>1, CurrentIs
  <2>5. PICK J2, P2 : J2 = J \cup j /\ P2 = P \cup p
    OBVIOUS
  <2>6. Linked(fr, env', cleanup', n, clock + 1, J2, P2)
    <3>1. CASE Top.covered
      <4>1. PICK exit \in LabelName : exit = Label(Top.id, "exit")
        BY <1>5, LabelType
      <4>2. J2 = J /\ P2 = P \cup {<<exit, c>>}
        BY <2>1, <2>5, <3>1, <4>1
      <4>3. Reserves(frames[Depth], exit)
        BY <1>5, <4>1 DEF Reserves
      <4>4. \A x, y : Awaits(frames, env, cleanup, Depth, x, y) => x = exit /\ y = c
        BY <1>4, <1>6, <1>12, <3>1, <4>1, ChainAwaits
      <4>5. Linked(frames, env, cleanup, Depth - 1, clock, J, P \cup {<<exit, c>>})
        BY <1>5, <1>6, <1>11, <4>3, <4>4, LinkedExit
      <4>6. Linked(frames, env, cleanup, n, clock, J2, P2) /\ n <= Depth
        BY <1>5, <1>7, <4>2, <4>5
      <4> QED
        BY <1>4, <1>10, <4>6, LinkedLeft
    <3>2. CASE ~Top.covered
      <4>1. j = (IF Top.dead THEN {} ELSE {<<Label(Top.id, "exit"), c>>})
        BY <2>1, <3>2
      <4>2. fr[Depth - 1] = f
        BY <1>7, <1>8
      <4>3. Linked(fr, env', cleanup', Depth - 1, clock + 1, J \cup j,
                   (P \cup {<<Label(Top.arm, "next"), c>>}) \cup {<<Label(Top.id, "exit"), c>>})
        BY <1>4, <1>6, <1>8, <1>9, <1>11, <1>12, <1>19, <3>2, <4>1, <4>2, LinkedEnds
      <4>4. P2 = (P \cup {<<Label(Top.arm, "next"), c>>}) \cup {<<Label(Top.id, "exit"), c>>}
        BY <2>1, <2>5, <3>2
      <4> QED
        BY <1>7, <2>5, <4>3, <4>4
    <3> QED
      BY <1>5, <3>1, <3>2
  <2>7. Linked(frames', env', cleanup', Depth', clock', J2, P2)
    BY <1>2, <1>4, <1>8, <2>6
  <2>8. TypeInv /\ names \subseteq names
    BY DEF CheckInv
  <2> QED
    BY <1>1, <1>2, <1>13, <1>14, <1>16, <2>2, <2>3, <2>4, <2>5, <2>7, <2>8, GhostEmits
<1> QED
  BY <1>18, <1>19 DEF Reaches

----------------------------------------------------------------------------
(* Checking a body.                                                         *)

\* The empty body, with its parameters.
LEMMA GhostStart ==
    ASSUME Init
    PROVE  GhostInv
<1>1. /\ env = ParamBindings /\ cleanup = {} /\ moved = {} /\ code = <<>> /\ declared = Params
      /\ clock = Len(ParamOrder) + 1 /\ Len(frames) = 1 /\ ~frames[1].dead /\ Depth = 1
  BY DEF Init, Depth
<1>2. Len(ParamOrder) \in Nat /\ DOMAIN ParamOrder = 1..Len(ParamOrder)
      /\ \A i \in DOMAIN ParamOrder : ParamOrder[i] \in Params /\ ParamOrder[i] \in Roots
  BY RootsAssumption
<1>3. \A e \in ParamBindings : \E i \in DOMAIN ParamOrder :
         e = DropOf(ParamOrder[i], 0, i) /\ e.root = ParamOrder[i]
  BY DEF ParamBindings, DropOf
<1>4. ParamBindings \subseteq Bindings
  <2> SUFFICES ASSUME NEW i \in DOMAIN ParamOrder PROVE DropOf(ParamOrder[i], 0, i) \in Bindings
    BY DEF ParamBindings
  <2>1. i \in Nat /\ ParamOrder[i] \in Roots
    BY <1>2
  <2> QED
    BY <2>1 DEF DropOf, Bindings, Entry, Deferred
<1>5. UniqueRoots(ParamBindings)
  BY <1>3, RootsAssumption DEF UniqueRoots
<1>6. \A e \in ParamBindings : e.root \in Params
  BY <1>2, <1>3
<1>7. PICK b : b = Holding(ParamBindings, {}, {})
  OBVIOUS
<1>8. Ready(ParamBindings, b)
  BY <1>4, <1>7, HeldReady
<1>9. Flow(ParamBindings, code, {}, {}, b)
  <2>1. PICK B : B = [i \in 1..1 |-> b]
    OBVIOUS
  <2>2. Len(code) = 0
    BY <1>1
  <2>3. B \in [1..(Len(code) + 1) -> Belief] /\ B[1] = Start /\ B[Len(code) + 1] = b
    BY <1>7, <1>8, <2>1, <2>2 DEF Ready, Start
  <2>4. Annotated(ParamBindings, code, B, {}, {}, b)
    BY <2>2, <2>3 DEF Annotated
  <2> QED
    BY <2>4 DEF Flow
<1>10. Current(frames, env, cleanup, moved) = b
  <2>1. ~frames[Len(frames)].dead
    BY <1>1
  <2>2. DeferredIn(cleanup) = {}
    BY <1>1 DEF DeferredIn
  <2>3. Current(frames, env, cleanup, moved) = Holding(env, DeferredIn(cleanup), moved)
    BY <2>1, CurrentIs
  <2> QED
    BY <1>1, <1>7, <2>2, <2>3
<1>11. Linked(frames, env, cleanup, Depth, clock, {}, {})
  <2>1. \A k \in 2..Depth : FALSE
    BY <1>1
  <2> QED
    BY <2>1 DEF Linked, Labelled, Agreed, Resolved, Headed, Pending
<1>12. Ghost(ParamBindings, {}, {})
  BY <1>1, <1>4, <1>5, <1>6, <1>9, <1>10, <1>11 DEF Ghost
<1> QED
  BY <1>12 DEF GhostInv

\* The invariants of the checker hold at the start.
LEMMA CheckStart ==
    ASSUME Init
    PROVE  CheckInv
<1>1. TypeInv /\ ScopeInv
  BY InitType, ScopeInit
<1>2. /\ env = ParamBindings /\ cleanup = {} /\ moved = {} /\ declared = Params
      /\ clock = Len(ParamOrder) + 1 /\ Len(frames) = 1 /\ Depth = 1
      /\ frames[1].id = 0 /\ frames[1].arm = 0 /\ frames[1].entry = {} /\ frames[1].exits = {}
      /\ frames[1].kind = "body" /\ frames[1].loop = 0 /\ ~frames[1].returns /\ ~frames[1].merged
  BY DEF Init, Depth
<1>3. NamesInv
  <2>1. \A e \in ParamBindings : e.root \in Params
    <3>1. \A i \in DOMAIN ParamOrder : ParamOrder[i] \in Params
      BY RootsAssumption
    <3> QED
      BY <3>1 DEF ParamBindings, DropOf
  <2>2. InScope \subseteq declared
    BY <1>2, <2>1 DEF InScope
  <2>3. Named(frames, declared)
    BY <1>2 DEF Named
  <2> QED
    BY <1>2, <2>2, <2>3 DEF NamesInv
<1>4. CallsInv
  BY <1>2 DEF CallsInv
<1>5. FrameInv
  <2>1. clock \in Nat /\ 0 < clock
    BY <1>2, RootsAssumption
  <2>2. Increasing(frames, Depth, clock)
    BY <1>2, <2>1 DEF Increasing
  <2>3. \A k \in 1..Depth : FrameOk(frames, k)
    BY <1>2 DEF FrameOk, Loops
  <2>4. DeadInside(frames, Depth)
    BY <1>2 DEF DeadInside
  <2> QED
    BY <2>2, <2>3, <2>4 DEF FrameInv
<1> QED
  BY <1>1, <1>3, <1>4, <1>5 DEF CheckInv

\* Every admitted step keeps the flow.
LEMMA GhostStep ==
    ASSUME Shapes = {}, CheckInv, TypeInv', GhostInv, verdict = "checking", Admitted, ~Reject,
           verdict' = "checking"
    PROVE  GhostInv'
<1>1. CASE \E r \in Roots, s \in MaybeRoot : Let(r, s) \/ Assign(r, s)
  BY <1>1, GhostLet, GhostAssign
<1>2. CASE \E r \in Roots : Use(r) \/ Take(r) \/ (r \notin moved /\ Borrow(r))
  BY <1>2, GhostAccess
<1>3. CASE \E r \in Roots, how \in {"use", "borrow", "take"}, onErr \in BOOLEAN : CheckDefer(r, how, onErr)
  BY <1>3, GhostDefer
<1>4. CASE BreakShape /\ Break
  BY <1>4, GhostBreak
<1>5. CASE ExitShape(moved) /\ CheckReturnOnError
  BY <1>5, GhostTry
<1>6. CASE \E s \in MaybeRoot, class \in ExitClass :
             ExitShape(moved \cup Taken(s)) /\ CheckReturn(s, class)
  BY <1>6, GhostReturn
<1>7. CASE ElseIf(None) \/ Else
  BY <1>7, GhostTurn
<1>8. CASE OpenIf(None) \/ OpenWhile(None) \/ OpenFor
  BY <1>8, GhostOpen
<1>9. CASE BalancedChain /\ EndIf
  BY <1>9, GhostEndIf
<1>10. CASE BalancedLoop /\ CloseLoop
  BY <1>10, GhostCloseLoop
<1>11. CASE \E s \in MaybeRoot, class \in ExitClass : EndBody(s, class)
  BY <1>11 DEF EndBody
<1> QED
  BY <1>1, <1>2, <1>3, <1>4, <1>5, <1>6, <1>7, <1>8, <1>9, <1>10, <1>11 DEF Admitted

\* A step of the checker keeps its invariants, or accepts a body that is lowered.
LEMMA CheckedStep ==
    ASSUME Shapes = {}, CheckInv, GhostInv, verdict = "checking", ProgNext
    PROVE  /\ verdict' = "checking" => CheckInv' /\ GhostInv'
           /\ verdict' = "accepted" => Lowered' /\ code' \in Seq(Instr)
<1>1. CASE Reject
  BY <1>1 DEF Reject
<1>2. CASE ~Reject
  <2>1. Admitted /\ Next
    BY <1>2, StepIsAdmitted, AdmittedIsStep
  <2>2. CASE verdict' = "checking"
    <3>1. TypeInv' /\ ScopeInv'
      BY <2>1, StepType, ScopeStep DEF CheckInv
    <3>2. NamesInv' /\ FrameInv'
      BY <2>1, NamesStep, FrameStep DEF CheckInv
    <3>3. CallsInv'
      BY <1>2, <2>1, <2>2, CallsStep DEF CheckInv
    <3>4. GhostInv'
      BY <1>2, <2>1, <2>2, <3>1, GhostStep
    <3> QED
      BY <2>2, <3>1, <3>2, <3>3, <3>4 DEF CheckInv
  <2>3. CASE verdict' = "accepted"
    <3>1. \E s \in MaybeRoot, class \in ExitClass : EndBody(s, class)
      BY <2>1, <2>3 DEF Admitted, Let, Assign, Use, Take, Borrow, CheckDefer, Break, CheckReturnOnError,
                        CheckReturn, ElseIf, Else, OpenIf, OpenWhile, OpenFor, EndIf, CloseLoop,
                        Element, Construct, Reject
    <3>2. code' \in Seq(Instr)
      BY <2>1, StepType DEF CheckInv, TypeInv, TypeOK
    <3> QED
      BY <1>2, <2>3, <3>1, <3>2, GhostEnds
  <2> QED
    BY <2>2, <2>3
<1> QED
  BY <1>1, <1>2
=============================================================================
