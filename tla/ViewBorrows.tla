---------------------------- MODULE ViewBorrows ----------------------------
(***************************************************************************)
(* Views and the values they borrow, for ONE callable body.                *)
(*                                                                         *)
(* A view holds an address inside the storage of an owning local.  The     *)
(* checker keeps, beside the move state, the list ctx.view_borrows: which  *)
(* view may borrow which owners, and refuses to move, assign or mutate an  *)
(* owner while a borrow of it is listed.  A borrow is forgotten as soon as *)
(* the rest of its block does not mention the view, so the checker looks   *)
(* ahead: here a body is written first, then checked element by element,   *)
(* then, if it was accepted, run along any path.                           *)
(*                                                                         *)
(* Owners are strings and collections; every change of one (assignment,    *)
(* move, a mutating method) may free its storage, and is the element       *)
(* "change".  That a moved owner is not used again is MoveCheck's subject. *)
(* "Shapes" names forms the checker accepts although the view outlives its *)
(* storage: a run that shows a property leaves them out.                   *)
(***************************************************************************)
EXTENDS Integers, Sequences, FiniteSets

CONSTANTS
    Owners,     \* names of owning locals
    Givens,     \* sets of owners a body may have as parameters
    Views,      \* names of view locals
    NoName,
    Shapes,
    MaxLength,  \* bound: elements of a body
    MaxRounds   \* bound: further iterations of a loop that is entered

AllShapes == {"loop_carried",  \* a loop lends an owner to a view for its next round
              "short_lived",   \* a view is set to an owner declared after it
              "lent"}          \* an owner is changed through a Ref argument or a method

ASSUME ViewsAssumption ==
    /\ Givens \subseteq SUBSET Owners
    /\ Owners \cap Views = {} /\ NoName \notin Owners \cup Views
    /\ (Owners \cup Views) \cap Nat = {}
    /\ Shapes \subseteq AllShapes
    /\ MaxLength \in Nat /\ MaxRounds \in Nat

VARIABLES
    given,    \* the owners that are parameters
    body,     \* the elements, as written
    phase,    \* "writing", "checking", "rejected", "running", "done"
    pc,       \* the element being checked or run
    borrows,  \* ctx.view_borrows
    joins,    \* what the open constructs keep for their join, innermost last
    claims,   \* the borrows the checker had at each element
    storage,  \* how often the storage of an owner was replaced or freed
    ref,      \* the storage each view points into
    loops,    \* the loops being run, innermost last
    tail      \* cleanup entries of the closing block from here on have run

vars == <<given, body, phase, pc, borrows, joins, claims, storage, ref, loops, tail>>
checker == <<borrows, joins, claims>>
runner == <<storage, ref, loops, tail>>

Names == Owners \cup Views
Pairs == {"let", "set"}                  \* name takes a view of, or copies, from
Singles == {"own", "change", "lend", "use", "defer"}
Openers == {"if", "while", "for"}
Closers == {"else", "end"}
Element == [op : Pairs \cup Singles \cup Openers \cup Closers,
            name : Names \cup {NoName}, from : Names \cup {NoName},
            level : 1..(MaxLength + 1)]

\* A for loop's borrow goes by the loop's own name, here its place in the body,
\* and lasts as long as the loop does.
Borrow == [view : Views \cup (1..MaxLength), sources : SUBSET Owners, scope : Nat, lasting : BOOLEAN]
Reference == [owner : Owners, at : Nat]
NoRef == [owner |-> NoName, at |-> 0]

TypeOK ==
    /\ given \in Givens
    /\ body \in Seq(Element) /\ Len(body) <= MaxLength
    /\ phase \in {"writing", "checking", "rejected", "running", "done"}
    /\ pc \in 1..(MaxLength + 1)
    /\ borrows \subseteq Borrow
    /\ joins \in Seq([entry : SUBSET Borrow, exits : SUBSET (SUBSET Borrow)])
    /\ claims \in Seq(SUBSET Borrow)
    /\ storage \in [Owners -> Nat]
    /\ ref \in [Views -> Reference \cup {NoRef}]
    /\ loops \in Seq([rounds : 0..MaxRounds, over : Reference \cup {NoRef}])
    /\ tail \in 1..(MaxLength + 1)

----------------------------------------------------------------------------
(* The text.                                                                *)

Op(i)  == body[i].op
Before(i, ops) == Cardinality({j \in 1..(i - 1) : Op(j) \in ops})

Here == Len(body) + 1

\* The number of blocks around element i.  A closer counts as inside.
Level(i) ==
    IF i \in DOMAIN body THEN body[i].level
    ELSE IF body = <<>> THEN 1
    ELSE LET last == body[Len(body)]
         IN  CASE last.op \in Openers -> last.level + 1
               [] last.op = "end"     -> last.level - 1
               [] OTHER               -> last.level

\* The block of element j is still open at i.
StillOpen(j, i) == \A k \in (j + 1)..(i - 1) : Op(k) \in Closers => Level(k) # Level(j)

Declares(j, n)  == Op(j) \in {"own", "let"} /\ body[j].name = n
Visible(n, i)   == n \in given \/ \E j \in 1..(i - 1) : Declares(j, n) /\ StillOpen(j, i)
Declaration(n)  == IF n \in given THEN 0 ELSE CHOOSE j \in DOMAIN body : Declares(j, n)
ScopeOf(n)      == IF n \in given THEN 0 ELSE Level(Declaration(n)) - 1

\* The element that opened the construct around i, and the one that ends it.
Opener(i) == CHOOSE j \in 1..(i - 1) :
                 /\ Op(j) \in Openers /\ Level(j) = Level(i) - 1
                 /\ \A k \in (j + 1)..(i - 1) : Op(k) \in Openers => Level(k) >= Level(i)
Closing(o, ops) == {k \in (o + 1)..Len(body) : Op(k) \in ops /\ Level(k) = Level(o) + 1 /\ StillOpen(o, k)}
Least(s) == CHOOSE k \in s : \A j \in s : k <= j
EndOf(o) == Least(Closing(o, {"end"}))
HasElse(o, i) == \E k \in Closing(o, {"else"}) : k < i

\* element_mentions_local for the elements after each other: a construct
\* mentions what its body does.
Mentions(i, v) == \/ Op(i) \in Pairs \cup {"for"} /\ body[i].from = v
                  \/ Op(i) \in {"use", "defer"} /\ body[i].name = v

\* The elements of the block of i from i on, nested ones included.
Remaining(i) == {k \in i..Len(body) : \A j \in i..k : Op(j) \in Closers => Level(j) > Level(i)}

Init ==
    /\ given \in Givens
    /\ body = <<>> /\ phase = "writing" /\ pc = 1
    /\ borrows = {} /\ joins = <<>> /\ claims = <<>>
    /\ storage = [o \in Owners |-> 0]
    /\ ref = [v \in Views |-> NoRef]
    /\ loops = <<>> /\ tail = 1

New(n) == n \notin given /\ \A j \in DOMAIN body : ~Declares(j, n)
Seen(n) == Visible(n, Here)
Innermost == IF Level(Here) = 1 THEN "body" ELSE Op(Opener(Here))

Bare(op)       == [op |-> op, name |-> NoName, from |-> NoName, level |-> Level(Here)]
Single(op, n)  == [Bare(op) EXCEPT !.name = n]
Pair(op, v, s) == [Single(op, v) EXCEPT !.from = s]

\* Bound: what is open can be closed.
Room(e) == Len(body) + Level(Here) + (IF e.op \in Openers THEN 1 ELSE IF e.op = "end" THEN -1 ELSE 0)
              <= MaxLength

\* Bound: nothing is said twice in a row, an owner is changed only where a view
\* or a loop may notice, and a body ends with something that may notice.
Noticing == {"use", "defer", "end"}
Changing == {"own", "change", "lend"}
Useful(e) ==
    /\ body # <<>> /\ e.op # "end" => e # body[Len(body)]
    /\ e.op \in {"change", "lend"} => Level(Here) > 1 \/ \E v \in Views : Seen(v)
    /\ Here = MaxLength => e.op \in Noticing /\ Before(Here, Changing) > 0

Write(e) ==
    /\ Room(e) /\ Useful(e)
    /\ body' = Append(body, e)
    /\ UNCHANGED <<given, phase, pc, checker, runner>>

\* Any element the parser and the rules of names let stand here.
WriteNext ==
    /\ phase = "writing"
    /\ \/ \E o \in Owners :
            \/ New(o) /\ Write(Single("own", o))
            \/ \E op \in {"change", "lend"} : Seen(o) /\ Write(Single(op, o))
       \/ \E v \in Views, s \in Names :
            /\ Seen(s) /\ s # v
            /\ \/ New(v) /\ Write(Pair("let", v, s))
               \/ Seen(v) /\ Write(Pair("set", v, s))
       \/ \E v \in Views, op \in {"use", "defer"} : Seen(v) /\ Write(Single(op, v))
       \/ \E s \in Names : Seen(s) /\ Write(Pair("for", NoName, s))
       \/ \E op \in {"if", "while"} : Write(Bare(op))
       \/ Level(Here) > 1 /\ Write(Bare("end"))
       \/ Innermost = "if" /\ ~HasElse(Opener(Here), Here) /\ Write(Bare("else"))

Written ==
    /\ phase = "writing" /\ Level(Here) = 1
    /\ Before(Here, Changing) > 0 /\ Op(Len(body)) \in Noticing
    /\ phase' = "checking"
    /\ UNCHANGED <<given, body, pc, checker, runner>>

----------------------------------------------------------------------------
(* The checker.                                                             *)

Scope == Level(pc) - 1

Deferred(v) == \E j \in 1..(pc - 1) : Op(j) = "defer" /\ body[j].name = v /\ StillOpen(j, pc)

\* Mutation: a deferred call does not keep the borrow.
PruneDeferred(bs) ==
    {b \in bs : b.scope < Scope \/ b.lasting \/ \E i \in Remaining(pc) : Mentions(i, b.view)}

\* prune_view_borrows, before every element of a block.
Prune(bs) ==
    {b \in bs : \/ b.scope < Scope \/ b.lasting
                \/ Deferred(b.view)
                \/ \E i \in Remaining(pc) : Mentions(i, b.view)}

\* view_sources: a view stands for the owners it was recorded with.
Sources(bs, n) == IF n \in Owners THEN {n} ELSE UNION {b.sources : b \in {c \in bs : c.view = n}}

\* reject_live_view_source.
Borrowed(bs, o) == \E b \in bs : o \in b.sources

\* Mutation: a view keeps the borrow of the first path only.
MergeFirst(exits) == CHOOSE bs \in exits : TRUE

\* merge_view_borrows: a view may borrow what it borrows on any path.
Merge(exits) ==
    LET all == UNION exits
        Of(v) == {b \in all : b.view = v}
    IN  {[view    |-> v,
          sources |-> UNION {b.sources : b \in Of(v)},
          scope   |-> Least({b.scope : b \in Of(v)}),
          lasting |-> \E b \in Of(v) : b.lasting] : v \in {b.view : b \in all}}

\* The borrows that outlive a block.
Leaving == {b \in borrows : b.scope < Scope}

ViewOf(v, sources, scope) == [view |-> v, sources |-> sources, scope |-> scope, lasting |-> FALSE]
LoopOver(sources, scope)  == [view |-> pc, sources |-> sources, scope |-> scope, lasting |-> TRUE]
Recorded(bs, v, s) == {b \in bs : b.view # v} \cup {ViewOf(v, Sources(bs, s), ScopeOf(v))}

Top == joins[Len(joins)]
Below == SubSeq(joins, 1, Len(joins) - 1)

Checked(bs, js) ==
    /\ borrows' = bs /\ joins' = js /\ claims' = Append(claims, borrows)
    /\ pc' = pc + 1
    /\ UNCHANGED <<given, body, phase, runner>>

Reject == phase' = "rejected" /\ UNCHANGED <<given, body, pc, checker, runner>>

At(op) == phase = "checking" /\ pc \in DOMAIN body /\ Op(pc) = op
E == body[pc]

\* Elements that borrow nothing: owners declared, views used now or later.
CheckPlain ==
    /\ \E op \in {"own", "use", "defer"} : At(op)
    /\ Checked(Prune(borrows), joins)

\* An owner passed to a Ref parameter, or to a method that writes it: nothing
\* asks for the borrows of it.
CheckLend ==
    /\ At("lend")
    /\ IF Borrowed(Prune(borrows), E.name) /\ "lent" \notin Shapes
       THEN Reject
       ELSE Checked(Prune(borrows), joins)

\* An assignment, a move or a mutating method of an owner.
CheckChange ==
    /\ At("change")
    /\ IF Borrowed(Prune(borrows), E.name) THEN Reject ELSE Checked(Prune(borrows), joins)

CheckLet == At("let") /\ Checked(Recorded(Prune(borrows), E.name, E.from), joins)

ShortLived(v, sources) == \E o \in sources : Declaration(o) > Declaration(v)

CheckSet ==
    /\ At("set")
    /\ IF ShortLived(E.name, Sources(Prune(borrows), E.from)) /\ "short_lived" \notin Shapes
       THEN Reject
       ELSE Checked(Recorded(Prune(borrows), E.name, E.from), joins)

\* check_if and while: what is listed here holds on the edge that skips the arm.
OpenArm ==
    /\ At("if") \/ At("while")
    /\ Checked(Prune(borrows), Append(joins, [entry |-> Prune(borrows), exits |-> {}]))

\* Mutation: the loop borrows nothing.
OpenForUnborrowed ==
    /\ At("for")
    /\ Checked(Prune(borrows), Append(joins, [entry |-> Prune(borrows), exits |-> {}]))

\* A for loop borrows what it iterates over until its body ends.
OpenFor ==
    /\ At("for")
    /\ Checked(Prune(borrows) \cup {LoopOver(Sources(Prune(borrows), E.from), Scope + 1)},
               Append(joins, [entry |-> Prune(borrows), exits |-> {}]))

Else ==
    /\ At("else")
    /\ Checked(Top.entry, Append(Below, [Top EXCEPT !.exits = @ \cup {Leaving}]))

\* A round of this loop lends an owner to a view, and the next one may mention
\* the view, or change the owner, before it does so again.
LoopCarried(o) ==
    \E b \in Leaving \ Top.entry, i \in (o + 1)..(pc - 1) :
        \/ Op(i) \in {"change", "lend"} /\ body[i].name \in b.sources
        \/ Mentions(i, b.view)

\* The join of an if without an else, or of a loop, includes the skipped edge.
End ==
    /\ At("end")
    /\ LET o == Opener(pc)
           skipped == IF Op(o) = "if" /\ HasElse(o, pc) THEN {} ELSE {Top.entry}
       IN  IF Op(o) # "if" /\ LoopCarried(o) /\ "loop_carried" \notin Shapes
           THEN Reject
           ELSE Checked(Merge(Top.exits \cup {Leaving} \cup skipped), Below)

Accept ==
    /\ phase = "checking" /\ pc = Len(body) + 1
    /\ phase' = "running" /\ pc' = 1
    /\ UNCHANGED <<given, body, checker, runner>>

CheckNext == CheckPlain \/ CheckLend \/ CheckChange \/ CheckLet \/ CheckSet \/ OpenArm \/ OpenFor
                \/ Else \/ End \/ Accept

----------------------------------------------------------------------------
(* The run of an accepted body.                                             *)

Running(op) == phase = "running" /\ pc \in DOMAIN body /\ Op(pc) = op
Goto(i)     == pc' = i /\ tail' = i /\ UNCHANGED <<given, body, phase, checker>>

Refer(n) == IF n \in Owners THEN [owner |-> n, at |-> storage[n]] ELSE ref[n]
Current(r) == r.owner # NoName /\ storage[r.owner] = r.at

RunPlain ==
    /\ \E op \in {"own", "use", "defer"} : Running(op)
    /\ Goto(pc + 1)
    /\ UNCHANGED <<storage, ref, loops>>

\* The storage is freed, moved or replaced.
RunChange ==
    /\ Running("change") \/ Running("lend")
    /\ storage' = [storage EXCEPT ![E.name] = @ + 1]
    /\ Goto(pc + 1)
    /\ UNCHANGED <<ref, loops>>

RunView ==
    /\ Running("let") \/ Running("set")
    /\ ref' = [ref EXCEPT ![E.name] = Refer(E.from)]
    /\ Goto(pc + 1)
    /\ UNCHANGED <<storage, loops>>

RunIf ==
    /\ Running("if")
    /\ \/ Goto(pc + 1)
       \/ Goto(Least(Closing(pc, Closers)) + 1)
    /\ UNCHANGED <<storage, ref, loops>>

RunLoop ==
    /\ Running("while") \/ Running("for")
    /\ \/ /\ loops' = Append(loops, [rounds |-> MaxRounds,
                                     over |-> IF Op(pc) = "for" THEN Refer(E.from) ELSE NoRef])
          /\ Goto(pc + 1)
       \/ Goto(EndOf(pc) + 1) /\ UNCHANGED loops
    /\ UNCHANGED <<storage, ref>>

\* Owners and deferred calls of the block that closes, latest first.
Closes  == phase = "running" /\ (pc = Len(body) + 1 \/ (pc \in DOMAIN body /\ Op(pc) \in Closers))
Pending == IF Closes
           THEN {j \in 1..(tail - 1) : /\ Op(j) \in {"own", "defer"}
                                       /\ Level(j) = Level(pc) /\ StillOpen(j, pc)}
           ELSE {}
Latest == CHOOSE j \in Pending : \A k \in Pending : k <= j

CleanUp ==
    /\ Pending # {}
    /\ tail' = Latest
    /\ storage' = IF Op(Latest) = "own"
                  THEN [storage EXCEPT ![body[Latest].name] = @ + 1]
                  ELSE storage
    /\ UNCHANGED <<given, body, phase, pc, checker, ref, loops>>

Iterating == loops[Len(loops)]

LeaveBlock ==
    /\ Closes /\ Pending = {} /\ pc \in DOMAIN body
    /\ LET o == Opener(pc)
       IN  \/ /\ Op(o) = "if"
              /\ Goto(EndOf(o) + 1) /\ UNCHANGED loops
           \/ /\ Op(o) # "if"
              /\ Goto(pc + 1) /\ loops' = SubSeq(loops, 1, Len(loops) - 1)
           \/ /\ Op(o) # "if" /\ Iterating.rounds > 0
              /\ Goto(o + 1) /\ loops' = [loops EXCEPT ![Len(loops)].rounds = @ - 1]
    /\ UNCHANGED <<storage, ref>>

Return ==
    /\ Closes /\ Pending = {} /\ pc = Len(body) + 1
    /\ phase' = "done"
    /\ UNCHANGED <<given, body, pc, checker, runner>>

RunNext == RunPlain \/ RunChange \/ RunView \/ RunIf \/ RunLoop \/ CleanUp \/ LeaveBlock \/ Return

Next == WriteNext \/ Written \/ CheckNext \/ RunNext

Spec == Init /\ [][Next]_vars

----------------------------------------------------------------------------
\* A view that is used, by an element or by a deferred call as its block
\* closes, points into storage that is still there.
UsedViewsAreLive ==
    /\ Running("use") => Current(ref[E.name])
    /\ Pending # {} /\ Op(Latest) = "defer" => Current(ref[body[Latest].name])

\* A loop's copy of the descriptor it iterates over stays good for every round.
IteratedStorageIsLive ==
    \A i \in DOMAIN loops : loops[i].over # NoRef => Current(loops[i].over)

\* Wherever a view that the rest of its block mentions points, the checker had
\* listed that owner for that view when it checked the element.
BorrowsCoverReferences ==
    phase = "running" /\ pc \in DOMAIN body /\ Op(pc) \notin Closers =>
        \A v \in Views :
            Visible(v, pc) /\ (\E i \in Remaining(pc) : Mentions(i, v)) =>
                ref[v].owner \in Sources(claims[pc], v)
=============================================================================
