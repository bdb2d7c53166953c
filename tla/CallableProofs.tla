--------------------------- MODULE CallableProofs ---------------------------
(***************************************************************************)
(* What the checker decides about a callable, proved.  The receiver-write   *)
(* effect: its types, that the solved effect is the least fixed point, and  *)
(* that no accepted program writes an immutable root unless a method        *)
(* mutates a collection in a field.  Views: in the shapes the README does   *)
(* not name as exceptions, an accepted body uses no dangling view, however  *)
(* long it is and however many owners and views it has.                     *)
(***************************************************************************)
EXTENDS Callables, SequenceTheorems, FiniteSetTheorems, WellFoundedInduction, TLAPS


----------------------------------------------------------------------------
(* Receivers: types.                                                        *)

Frame == [body : Callers, mutable : BOOLEAN]

\* The innermost frame is that of what executes.
LEMMA InnermostFrame ==
    ASSUME frames \in Seq(Frame)
    PROVE  /\ frames # <<>> => /\ Len(frames) \in DOMAIN frames
                              /\ frames[Len(frames)] \in Frame
           /\ Executing \in Callers
<1>1. frames # <<>> => Len(frames) \in DOMAIN frames /\ frames[Len(frames)] \in Frame
    OBVIOUS
<1>2. \A f \in Frame : f.body \in Callers
    BY DEF Frame
<1>3. Main \in Callers
    BY DEF Callers
<1> QED
    BY <1>1, <1>2, <1>3 DEF Executing

\* A written body's statement may stand in it.
LEMMA WrittenType ==
    ASSUME ReceiversTypeOK, NEW c \in Callers, WriteStatement(c)
    PROVE  ReceiversTypeOK'
<1>1. PICK s \in Statements(c) : bodies' = [bodies EXCEPT ![c] = @ \cup {s}]
    BY DEF WriteStatement
<1>2. s \in Writing \cup Calling
    BY DEF Statements
<1>3. bodies' \in [Callers -> SUBSET (Writing \cup Calling)]
    BY <1>1, <1>2 DEF ReceiversTypeOK
<1>4. \A d \in Callers : bodies'[d] \subseteq Statements(d)
    BY <1>1 DEF ReceiversTypeOK
<1> QED
    BY <1>3, <1>4 DEF WriteStatement, collected, solving, running, ReceiversTypeOK

\* Checking a body records calls on "self" as edges, and every call.
LEMMA CheckedType ==
    ASSUME ReceiversTypeOK, NEW c \in Callers, CheckBody(c)
    PROVE  ReceiversTypeOK'
<1>1. bodies[c] \subseteq Statements(c)
    BY DEF ReceiversTypeOK
<1>2. direct' \in SUBSET Methods
    <2>1. WritesSelf(c) => c \in Methods
        <3>1. ASSUME WritesSelf(c), c = Main PROVE FALSE
            <4>1. [what |-> "assign"] \in Statements(c)
                BY <1>1, <3>1 DEF WritesSelf
            <4>2. [what |-> "assign"] \notin Calling
                BY DEF Calling
            <4> QED BY <3>1, <4>1, <4>2 DEF Statements
        <3> QED BY <3>1 DEF Callers
    <2> QED BY <2>1 DEF CheckBody, ReceiversTypeOK
<1>3. SelfCalls(c) \subseteq Methods \X Methods
    <2> SUFFICES ASSUME NEW s \in bodies[c] \cap Calling, s.on = "self"
                 PROVE  <<c, s.method>> \in Methods \X Methods
        BY DEF SelfCalls
    <2>1. s.method \in Methods
        BY DEF Calling
    <2>2. s \notin Writing
        BY DEF Calling, Writing
    <2>3. c # Main
        BY <1>1, <2>2 DEF Statements
    <2> QED BY <2>1, <2>3 DEF Callers
<1>4. ReceiverCalls(c) \subseteq [method : Methods, mutable : BOOLEAN]
    <2> SUFFICES ASSUME NEW s \in Calling
                 PROVE  [method |-> s.method, mutable |-> s.on # "fixed"]
                            \in [method : Methods, mutable : BOOLEAN]
        BY DEF ReceiverCalls
    <2>1. s.method \in Methods
        BY DEF Calling
    <2>2. CASE s.on = "fixed"
        <3>1. (s.on # "fixed") = FALSE
            BY <2>2
        <3> QED BY <2>1, <3>1
    <2>3. CASE s.on # "fixed"
        <3>1. (s.on # "fixed") = TRUE
            BY <2>3
        <3> QED BY <2>1, <3>1
    <2> QED BY <2>2, <2>3
<1>5. edges' \in SUBSET (Methods \X Methods) /\ edges \subseteq edges'
    BY <1>3 DEF CheckBody, ReceiversTypeOK
<1>6. pending' \in SUBSET [method : Methods, mutable : BOOLEAN]
    BY <1>4 DEF CheckBody, ReceiversTypeOK
<1>7. pass' \in SUBSET edges'
    BY <1>5 DEF CheckBody, solving, ReceiversTypeOK
<1> QED
    BY <1>2, <1>5, <1>6, <1>7 DEF CheckBody, solving, running, ReceiversTypeOK

\* The frames of a run, called and left.
LEMMA RunType ==
    ASSUME ReceiversTypeOK,
           (\E s \in Calling : Call(s)) \/ (\E s \in Writing : Perform(s)) \/ EndCall
    PROVE  ReceiversTypeOK'
<1>1. CASE \E s \in Calling : Call(s)
    <2> PICK s \in Calling : Call(s)
        BY <1>1
    <2>1. Executing \in Callers /\ (frames # <<>> => frames[Len(frames)].mutable \in BOOLEAN)
        <3>1. frames \in Seq(Frame)
            BY DEF ReceiversTypeOK, Frame
        <3>2. \A f \in Frame : f.mutable \in BOOLEAN
            BY DEF Frame
        <3> QED BY <3>1, <3>2, InnermostFrame
    <2>2. s.on = "self" => frames # <<>>
        <3>1. s \in Statements(Executing) \/ frames # <<>>
            BY <2>1 DEF Call, ReceiversTypeOK
        <3>2. s \notin Writing
            BY DEF Calling, Writing
        <3> QED BY <3>1, <3>2 DEF Statements, Executing
    <2>3. s.method \in Callers
        BY DEF Calling, Callers
    <2>4. (IF s.on = "self" THEN SelfIsMutable ELSE s.on = "mutable") \in BOOLEAN
        BY <2>1, <2>2 DEF SelfIsMutable
    <2>5. frames' \in Seq([body : Callers, mutable : BOOLEAN])
        BY <2>3, <2>4 DEF Call, ReceiversTypeOK
    <2> QED BY <2>5 DEF Call, collected, solving, ReceiversTypeOK
<1>2. CASE \E s \in Writing : Perform(s)
    BY <1>2 DEF Perform, collected, solving, ReceiversTypeOK
<1>3. CASE EndCall
    <2>1. frames' \in Seq([body : Callers, mutable : BOOLEAN])
        <3>1. frames \in Seq(Frame) /\ Len(frames) - 1 \in Int
            BY DEF ReceiversTypeOK, Frame
        <3>2. \A i \in 1..(Len(frames) - 1) : frames[i] \in Frame
            BY <3>1
        <3>3. SubSeq(frames, 1, Len(frames) - 1) \in Seq(Frame)
            BY <3>1, <3>2, SubSeqProperties
        <3> QED BY <1>3, <3>3 DEF EndCall, Frame
    <2> QED BY <1>3, <2>1 DEF EndCall, collected, solving, ReceiversTypeOK
<1> QED BY <1>1, <1>2, <1>3

\* A program starts with its types right.
LEMMA InitType == ReceiversInit => ReceiversTypeOK
<1> SUFFICES ASSUME ReceiversInit PROVE ReceiversTypeOK
    OBVIOUS
<1>1. \A c \in Callers : bodies[c] = {}
    BY DEF ReceiversInit
<1>2. bodies \in [Callers -> SUBSET (Writing \cup Calling)]
    BY DEF ReceiversInit
<1>3. frames \in Seq([body : Callers, mutable : BOOLEAN])
    BY DEF ReceiversInit
<1> QED
    BY <1>1, <1>2, <1>3 DEF ReceiversInit, ReceiversTypeOK

\* Every step keeps them.
LEMMA StepType == ReceiversTypeOK /\ [ReceiversNext]_receiverVars => ReceiversTypeOK'
<1> SUFFICES ASSUME ReceiversTypeOK, [ReceiversNext]_receiverVars
             PROVE  ReceiversTypeOK'
    OBVIOUS
<1>1. CASE \E c \in Callers : WriteStatement(c)
    BY <1>1, WrittenType
<1>2. CASE \E c \in Callers : CheckBody(c)
    BY <1>2, CheckedType
<1>3. CASE EndOfText
    BY <1>3 DEF EndOfText, collected, solving, running, ReceiversTypeOK
<1>4. CASE Solve
    BY <1>4 DEF Solve, collected, running, ReceiversTypeOK
<1>5. CASE \E e \in pass : Look(e)
    BY <1>5 DEF Look, collected, running, ReceiversTypeOK
<1>6. CASE NextPass
    BY <1>6 DEF NextPass, collected, running, ReceiversTypeOK
<1>7. CASE Judge
    BY <1>7 DEF Judge, collected, solving, running, ReceiversTypeOK
<1>8. CASE (\E s \in Calling : Call(s)) \/ (\E s \in Writing : Perform(s)) \/ EndCall
    BY <1>8, RunType
<1>9. CASE UNCHANGED receiverVars
    BY <1>9 DEF receiverVars, collected, solving, running, ReceiversTypeOK
<1> QED
    BY <1>1, <1>2, <1>3, <1>4, <1>5, <1>6, <1>7, <1>8, <1>9 DEF ReceiversNext

\* Every state of the checker and of the run keeps its type.
THEOREM ReceiversTypeCorrect == ReceiversSpec => []ReceiversTypeOK
    BY InitType, StepType, PTL DEF ReceiversSpec

----------------------------------------------------------------------------
(* Receivers: the solution.                                                 *)

Solving == stage \in {"solve", "refused", "run"}
Solved == stage \in {"refused", "run"}

\* While the effects are solved: the direct writers are in, nobody is in for
\* nothing, and the edges a pass without change has left behind are satisfied.
SolveInv ==
    /\ Solving => direct \subseteq writes
    /\ Solving => \A set \in SUBSET Methods : Closed(set) => writes \subseteq set
    /\ stage = "solve" /\ ~changed => \A e \in edges \ pass : ~Spreads(e)
    /\ Solved => Closed(writes)

\* Solving keeps the marked methods among those that reach a direct write.
LEMMA SolveStep ==
    ASSUME ReceiversTypeOK, SolveInv, [ReceiversNext]_receiverVars
    PROVE  SolveInv'
<1> USE DEF SolveInv, Solving, Solved, Closed, Spreads
<1>1. CASE (\E c \in Callers : WriteStatement(c) \/ CheckBody(c)) \/ EndOfText
    BY <1>1 DEF WriteStatement, CheckBody, EndOfText, collected, solving
<1>2. CASE Solve
    BY <1>2 DEF Solve, collected
<1>3. ASSUME NEW e \in pass, Look(e) PROVE SolveInv'
    <2> USE <1>3 DEF Look, collected
    <2>1. e \in edges
        BY DEF ReceiversTypeOK
    <2>2. direct' \subseteq writes'
        OBVIOUS
    <2>3. ASSUME NEW set \in SUBSET Methods, Closed(set)'
          PROVE  writes' \subseteq set
        BY <2>1, <2>3
    <2>4. ~changed' => \A f \in edges' \ pass' : ~Spreads(f)'
        OBVIOUS
    <2> QED BY <2>2, <2>3, <2>4
<1>4. CASE NextPass
    BY <1>4 DEF NextPass, collected
<1>5. CASE Judge
    BY <1>5 DEF Judge, collected, solving
<1>6. CASE (\E s \in Calling : Call(s)) \/ (\E s \in Writing : Perform(s)) \/ EndCall
    BY <1>6 DEF Call, Perform, EndCall, collected, solving
<1>7. CASE UNCHANGED receiverVars
    BY <1>7 DEF receiverVars, collected, solving
<1> QED
    BY <1>1, <1>2, <1>3, <1>4, <1>5, <1>6, <1>7 DEF ReceiversNext

\* Nothing is marked at first.
LEMMA SolveInit == ReceiversInit => SolveInv
    BY DEF ReceiversInit, SolveInv, Solving, Solved

\* For any set of methods, however many: when the calls are judged, the effect
\* is the least one with the direct writers that calls on "self" spread.
THEOREM EffectCorrect == ReceiversSpec => []EffectIsLeast
<1>1. SolveInv => EffectIsLeast
    BY DEF SolveInv, EffectIsLeast, Solving, Solved
<1>2. SolveInv /\ ReceiversTypeOK /\ [ReceiversNext]_receiverVars => SolveInv'
    BY SolveStep
<1> QED
    BY <1>1, <1>2, SolveInit, ReceiversTypeCorrect, PTL DEF ReceiversSpec

----------------------------------------------------------------------------
(* The run.                                                                 *)

\* What the checker knows of the bodies it has seen.
CallsRecorded ==
    \A c \in Callers \ todo :
        /\ WritesSelf(c) => c \in direct
        /\ SelfCalls(c) \subseteq edges
        /\ ReceiverCalls(c) \subseteq pending

\* A method that runs on a root that is not mutable is not a writer.
FramesAreJudged ==
    \A i \in DOMAIN frames :
        /\ frames[i].body \in Methods
        /\ ~frames[i].mutable => frames[i].body \notin writes

KeptInv ==
    /\ stage = "write" => todo = Callers
    /\ Solving => todo = {}
    /\ CallsRecorded
    /\ stage = "run" => Misused = {}
    /\ stage # "run" => frames = <<>>
    /\ FramesAreJudged
    /\ ~spoiled

\* While no method changes a collection of its receiver, every frame was judged.
LEMMA KeptStep ==
    ASSUME Mutators = FALSE,
           ReceiversTypeOK, SolveInv, KeptInv, [ReceiversNext]_receiverVars
    PROVE  KeptInv'
<1> USE DEF KeptInv, Solving
<1>1. ASSUME NEW c \in Callers, WriteStatement(c) PROVE KeptInv'
    BY <1>1 DEF WriteStatement, collected, solving, running, CallsRecorded, FramesAreJudged, Misused
<1>2. ASSUME NEW c \in Callers, CheckBody(c) PROVE KeptInv'
    <2>1. CallsRecorded'
        BY <1>2 DEF CheckBody, CallsRecorded, WritesSelf, SelfCalls, ReceiverCalls
    <2> QED BY <1>2, <2>1 DEF CheckBody, solving, running, FramesAreJudged
<1>3. CASE EndOfText
    BY <1>3 DEF EndOfText, collected, solving, running, CallsRecorded, FramesAreJudged,
                WritesSelf, SelfCalls, ReceiverCalls
<1>4. CASE Solve
    BY <1>4 DEF Solve, collected, running, CallsRecorded, FramesAreJudged,
                WritesSelf, SelfCalls, ReceiverCalls
<1>5. CASE (\E e \in pass : Look(e)) \/ NextPass
    BY <1>5 DEF Look, NextPass, collected, running, CallsRecorded, FramesAreJudged,
                WritesSelf, SelfCalls, ReceiverCalls
<1>6. CASE Judge
    BY <1>6 DEF Judge, collected, solving, running, CallsRecorded, FramesAreJudged,
                WritesSelf, SelfCalls, ReceiverCalls, Misused
<1>7. ASSUME NEW s \in Calling, Call(s) PROVE KeptInv'
    <2> USE <1>7 DEF Call
    <2>1. CallsRecorded' /\ Misused' = Misused
        BY DEF collected, solving, CallsRecorded, WritesSelf, SelfCalls, ReceiverCalls, Misused
    <2>2. FramesAreJudged'
        <3>1. frames \in Seq(Frame)
            BY DEF ReceiversTypeOK, Frame
        <3>2. Executing \in Callers
            BY <3>1, InnermostFrame
        <3>3. s \in bodies[Executing] \cap Calling /\ todo = {}
            OBVIOUS
        <3> DEFINE called == [body |-> s.method,
                              mutable |-> IF s.on = "self" THEN SelfIsMutable ELSE s.on = "mutable"]
        <3>4. s.method \in Methods
            BY DEF Calling
        <3>5. ~called.mutable => s.method \notin writes
            <4>1. CASE s.on = "self"
                <5>1. <<Executing, s.method>> \in edges
                    BY <3>2, <3>3, <4>1 DEF CallsRecorded, SelfCalls
                <5>2. s.method \in writes => Executing \in writes
                    BY <5>1 DEF SolveInv, Solved, Closed
                <5>3. frames # <<>>
                    <6>1. s \in Statements(Executing) /\ s \notin Writing
                        BY <3>2, <3>3 DEF ReceiversTypeOK, Calling, Writing
                    <6> QED BY <4>1, <6>1 DEF Statements, Executing
                <5>4. Len(frames) \in DOMAIN frames
                    BY <3>1, <5>3
                <5> QED
                    BY <4>1, <5>2, <5>3, <5>4 DEF FramesAreJudged, SelfIsMutable, Executing
            <4>2. CASE s.on # "self"
                <5>1. [method |-> s.method, mutable |-> s.on # "fixed"] \in pending
                    BY <3>2, <3>3 DEF CallsRecorded, ReceiverCalls
                <5>2. s.on = "mutable" \/ s.on = "fixed"
                    BY <4>2 DEF Calling
                <5> QED BY <4>2, <5>1, <5>2 DEF Misused
            <4> QED BY <4>1, <4>2
        <3>6. frames' = Append(frames, called) /\ writes' = writes
            BY DEF solving
        <3>7. ASSUME NEW i \in DOMAIN frames'
              PROVE  (i \in DOMAIN frames /\ frames'[i] = frames[i]) \/ frames'[i] = called
            BY <3>1, <3>6
        <3> HIDE DEF called
        <3>8. called.body = s.method
            BY DEF called
        <3> QED BY <3>4, <3>5, <3>6, <3>7, <3>8 DEF FramesAreJudged
    <2> QED BY <2>1, <2>2 DEF collected, solving
<1>8. ASSUME NEW s \in Writing, Perform(s) PROVE KeptInv'
    <2> USE <1>8 DEF Perform
    <2>1. frames \in Seq([body : Callers, mutable : BOOLEAN]) /\ Len(frames) \in DOMAIN frames
        BY DEF ReceiversTypeOK
    <2>2. Executing \in Methods /\ (~SelfIsMutable => Executing \notin writes)
        BY <2>1 DEF FramesAreJudged, Executing, SelfIsMutable
    <2>3. s = [what |-> "assign"]
        <3>1. s \in Statements(Executing) /\ s \notin Calling
            BY <2>2 DEF ReceiversTypeOK, Callers, Calling, Writing
        <3>2. s.what # "mutate"
            BY <3>1 DEF Statements
        <3> QED BY <3>2 DEF Writing
    <2>4. Executing \in direct
        BY <2>2, <2>3 DEF CallsRecorded, WritesSelf, Callers
    <2>5. SelfIsMutable
        BY <2>2, <2>4 DEF SolveInv
    <2> QED
        BY <2>5 DEF collected, solving, CallsRecorded, WritesSelf, SelfCalls, ReceiverCalls, Misused,
                    FramesAreJudged
<1>9. CASE EndCall
    <2>1. ASSUME NEW i \in DOMAIN frames' PROVE i \in DOMAIN frames /\ frames'[i] = frames[i]
        BY <1>9 DEF EndCall, ReceiversTypeOK
    <2>2. FramesAreJudged'
        BY <1>9, <2>1 DEF EndCall, solving, FramesAreJudged
    <2> QED BY <1>9, <2>2 DEF EndCall, collected, solving, CallsRecorded, WritesSelf, SelfCalls,
                              ReceiverCalls, Misused
<1>10. CASE UNCHANGED receiverVars
    BY <1>10 DEF receiverVars, collected, solving, running, CallsRecorded, WritesSelf, SelfCalls,
                 ReceiverCalls, Misused, FramesAreJudged
<1> QED
    BY <1>1, <1>2, <1>3, <1>4, <1>5, <1>6, <1>7, <1>8, <1>9, <1>10 DEF ReceiversNext

\* Nothing runs at first.
LEMMA KeptInit == ReceiversInit => KeptInv
    BY DEF ReceiversInit, KeptInv, Solving, CallsRecorded, FramesAreJudged

\* For any methods and any depth of calls: when no method mutates a collection
\* in a field of "self", an accepted program writes no immutable root.
THEOREM RootsKept ==
    ASSUME Mutators = FALSE
    PROVE  ReceiversSpec => []ImmutableRootsAreKept
<1>1. KeptInv => ImmutableRootsAreKept
    BY DEF KeptInv, ImmutableRootsAreKept
<1>2. SolveInv /\ ReceiversTypeOK /\ KeptInv /\ [ReceiversNext]_receiverVars => KeptInv'
    BY KeptStep
<1>3. SolveInv /\ ReceiversTypeOK /\ [ReceiversNext]_receiverVars => SolveInv'
    BY SolveStep
<1> QED
    BY <1>1, <1>2, <1>3, SolveInit, KeptInit, ReceiversTypeCorrect, PTL DEF ReceiversSpec

----------------------------------------------------------------------------
(* Views: the text, a well-nested body in which each name is declared once  *)
(* and only visible names are mentioned.                                    *)

\* The elements, and the place after the last.
Places == 1..Here

\* Element j opened a construct that i is in.  The closer is inside.
Around(j, i) ==
    /\ j \in DOMAIN body /\ Op(j) \in Openers /\ j < i
    /\ \A k \in (j + 1)..i : Level(k) > Level(j)

\* Element k ends the construct j opened, or a part of it.
ClosedAt(j, k) == k \in DOMAIN body /\ Op(k) \in Closers /\ Around(j, k) /\ Level(k) = Level(j) + 1

\* A name the body declares, or was given.
Declared(n) == n \in given \/ \E j \in DOMAIN body : Declares(j, n)

\* An element.
Elem == [op : Pairs \cup Singles \cup Openers \cup Closers,
         name : Names \cup {NoName}, from : Names \cup {NoName}, level : Nat]

\* What an element may name.
NamesOK(i) ==
    /\ Op(i) = "own" => body[i].name \in Owners
    /\ Op(i) \in {"change", "lend"} => body[i].name \in Owners /\ Visible(body[i].name, i)
    /\ Op(i) \in {"use", "defer"} => body[i].name \in Views /\ Visible(body[i].name, i)
    /\ Op(i) \in Pairs => /\ body[i].name \in Views /\ body[i].from \in Names
                          /\ body[i].from # body[i].name /\ Visible(body[i].from, i)
    /\ Op(i) = "set" => Visible(body[i].name, i)
    /\ Op(i) = "for" => body[i].from \in Names /\ Visible(body[i].from, i)

\* Every level above one was opened by a construct around the place, every
\* construct that was opened is still around it or ended, and what is open is
\* not deeper than the place.
TextOK ==
    /\ given \subseteq Owners /\ body \in Seq(Elem)
    /\ Level(1) = 1
    /\ \A i \in Places : Level(i) \in Nat /\ Level(i) >= 1
    /\ \A i \in DOMAIN body :
          /\ Op(i) \in Openers => Level(i + 1) = Level(i) + 1
          /\ Op(i) = "end" => Level(i + 1) = Level(i) - 1
          /\ Op(i) \notin Openers \cup {"end"} => Level(i + 1) = Level(i)
    /\ \A i \in Places : \A l \in 1..(Level(i) - 1) : \E j \in 1..(i - 1) : Around(j, i) /\ Level(j) = l
    /\ \A i \in Places : \A j \in 1..(i - 1) : Op(j) \notin Closers /\ StillOpen(j, i) => Level(i) >= Level(j)
    /\ \A i \in Places : \A o \in 1..(i - 1) :
          Op(o) \in Openers => \/ Around(o, i)
                               \/ \E k \in (o + 1)..(i - 1) : Op(k) = "end" /\ ClosedAt(o, k)
    /\ \A i, j \in DOMAIN body : \A n \in Names : Declares(i, n) /\ Declares(j, n) => i = j
    /\ \A i \in DOMAIN body : \A n \in given : ~Declares(i, n)
    /\ \A i \in DOMAIN body : NamesOK(i)
    /\ \A i \in DOMAIN body : Op(i) \in Closers => Level(i) > 1
    /\ \A i \in DOMAIN body : Op(i) = "else" => \E o \in 1..(i - 1) : Op(o) = "if" /\ ClosedAt(o, i)

----------------------------------------------------------------------------
(* The checker: what it lists before an element, from which it follows what  *)
(* it lists after it.                                                       *)

\* prune_views where element i is checked.
PruneAt(i, bs) ==
    {b \in bs : \/ b.scope < Level(i) - 1 \/ b.lasting
                \/ \E j \in 1..(i - 1) : Op(j) = "defer" /\ body[j].name = b.view /\ StillOpen(j, i)
                \/ \E k \in Remaining(i) : Mentions(k, b.view)}

\* The borrows before an element, and while it is checked.
BorrowsAt(i) == IF i \in DOMAIN claims THEN claims[i] ELSE borrows
After(i) == PruneAt(i, BorrowsAt(i))
LeavingAt(i) == {b \in BorrowsAt(i) : b.scope < Level(i) - 1}

\* What the for loop at k iterates over, as long as it does.
LoopAt(k) == [view |-> k, sources |-> Sources(After(k), body[k].from), scope |-> Level(k), lasting |-> TRUE]

\* The arms that end before i.
ElsesOf(o, i) == {e \in (o + 1)..(i - 1) : Op(e) = "else" /\ ClosedAt(o, e)}

\* The exception for loops, at the loop from o to i.
LoopCarriedAt(o, i) ==
    \E b \in LeavingAt(i) \ After(o), k \in (o + 1)..(i - 1) :
        \/ Op(k) \in {"change", "lend"} /\ body[k].name \in b.sources
        \/ Mentions(k, b.view)

\* The borrows of the paths that meet after the construct from o to i.
Exits(o, i) ==
    {LeavingAt(e) : e \in ElsesOf(o, i)} \cup {LeavingAt(i)}
        \cup (IF Op(o) = "if" /\ HasElse(o, i) THEN {} ELSE {After(o)})

\* Element i was accepted, and leaves these borrows to what follows it.
FlowInto(i, next) ==
    /\ Op(i) \in Singles => next = After(i)
    /\ Op(i) \in {"change", "lend"} => ~Borrowed(After(i), body[i].name)
    /\ Op(i) \in Pairs => next = Recorded(After(i), body[i].name, body[i].from)
    /\ Op(i) = "set" => ~ShortLived(body[i].name, Sources(After(i), body[i].from))
    /\ Op(i) \in {"if", "while"} => next = After(i)
    /\ Op(i) = "for" => next = After(i) \cup {LoopAt(i)}
    /\ Op(i) = "else" => next = After(Opener(i))
    /\ Op(i) = "end" => /\ next = Merge(Exits(Opener(i), i))
                        /\ Op(Opener(i)) # "if" => ~LoopCarriedAt(Opener(i), i)

\* A borrow, and what is kept of an open construct, of any text.
AnyBorrow == [view : Views \cup Nat, sources : SUBSET Owners, scope : Nat, lasting : BOOLEAN]
AnyJoin == [entry : SUBSET AnyBorrow, exits : SUBSET (SUBSET AnyBorrow)]

\* A borrow before element i: a view's, of owners declared before it, or that
\* of a loop further up.
ViewBorrow(b) ==
    /\ b.view \in Views /\ Declared(b.view) /\ b.scope = ScopeOf(b.view) /\ b.lasting = FALSE
    /\ \A o \in b.sources : Declared(o) /\ Declaration(o) < Declaration(b.view)
LoopBorrow(b, i) ==
    /\ b.view \in 1..(i - 1) /\ Op(b.view) = "for" /\ b = LoopAt(b.view)
    /\ \A o \in b.sources : Declared(o) /\ Declaration(o) < b.view
GoodBorrow(b, i) == b \in AnyBorrow /\ (ViewBorrow(b) \/ LoopBorrow(b, i))

\* What the loops around a place iterate over is borrowed there.
LoopsListed(i, bs) == \A o \in 1..(i - 1) : Op(o) = "for" /\ Around(o, i) => LoopAt(o) \in bs

\* What holds of the borrows before every element up to n.
CheckedTo(n) ==
    /\ \A i \in 1..(n - 1) : FlowInto(i, BorrowsAt(i + 1))
    /\ \A i \in 1..n : \A b \in BorrowsAt(i) : GoodBorrow(b, i)
    /\ \A i \in 1..n : LoopsListed(i, BorrowsAt(i))

\* What the open constructs keep.
KeptFor(o, i) == [entry |-> After(o), exits |-> {LeavingAt(e) : e \in ElsesOf(o, i)}]
JoinsKept(i, js) ==
    /\ js \in Seq(AnyJoin) /\ Len(js) = Level(i) - 1
    /\ \A o \in 1..(i - 1) : Around(o, i) => js[Level(o)] = KeptFor(o, i)

\* The checker's part of the inductive invariant.
CheckInv ==
    /\ phase \in {"writing", "checking", "rejected", "running", "done"}
    /\ phase = "writing" => borrows = {} /\ claims = <<>> /\ joins = <<>> /\ pc = 1
    /\ phase \in {"writing", "checking"} =>
          /\ storage = [o \in Owners |-> 0] /\ ref = [v \in Views |-> NoRef]
          /\ loops = <<>> /\ tail = 1
    /\ phase # "writing" => Level(Here) = 1
    /\ claims \in Seq(SUBSET AnyBorrow)
    /\ phase = "checking" => /\ pc \in Places /\ Len(claims) = pc - 1
                             /\ CheckedTo(pc) /\ JoinsKept(pc, joins)
    /\ phase \in {"running", "done"} => Len(claims) = Len(body) /\ CheckedTo(Here)

----------------------------------------------------------------------------
(* The run: a view that will still be used points into storage that is good  *)
(* and that the checker knows of.                                           *)

\* A loop.
LoopSpan(o, e) == Op(o) \in {"while", "for"} /\ Op(e) = "end" /\ ClosedAt(o, e)

\* From p on the run may use v: below p, in another round of a loop around p
\* that v was declared outside of, or in a deferred call.
Needed(v, p) ==
    \/ \E i \in DOMAIN body : /\ Mentions(i, v)
                              /\ \/ i >= p
                                 \/ \E o \in 1..(i - 1) : Around(o, p) /\ Declaration(v) < o
    \/ \E j \in 1..(p - 1) : Op(j) = "defer" /\ body[j].name = v /\ StillOpen(j, p)

\* The checker lists x for v at p.
Direct(v, x, p) == \E b \in BorrowsAt(p) : b.view = v /\ x \in b.sources

\* The checker lists x for v at the end of a loop around p that neither names v
\* nor changes or lends x: v was lent x in an earlier round.
Carried(v, x, p) ==
    \E o, e \in DOMAIN body :
        /\ LoopSpan(o, e) /\ Around(o, p) /\ Declaration(v) < o /\ Direct(v, x, e)
        /\ \A i \in (o + 1)..(e - 1) : /\ ~Mentions(i, v)
                                       /\ Op(i) \in {"change", "lend"} => body[i].name # x

\* The views, those a block that is being left has destroyed left out.
ViewsOK ==
    \A v \in Views : Visible(v, pc) /\ Needed(v, pc) /\ Declaration(v) < tail =>
        /\ Current(ref[v])
        /\ Direct(v, ref[v].owner, pc) \/ Carried(v, ref[v].owner, pc)

\* The loops the run is in, and what those of them hold that iterate.
LoopsAround(p) == {o \in 1..Len(body) : Around(o, p) /\ Op(o) \in {"while", "for"}}

LoopsOK ==
    /\ Len(loops) = Cardinality(LoopsAround(pc))
    /\ \A k \in DOMAIN loops : loops[k].over # NoRef =>
          /\ Current(loops[k].over)
          /\ \E o \in LoopsAround(pc) : /\ Op(o) = "for" /\ Cardinality(LoopsAround(o)) = k - 1
                                        /\ loops[k].over.owner \in LoopAt(o).sources

\* The run's part of the inductive invariant.
RunInv ==
    phase = "running" =>
        /\ pc \in Places
        /\ storage \in [Owners -> Nat] /\ ref \in [Views -> Reference \cup {NoRef}]
        /\ loops \in Seq([rounds : 0..MaxRounds, over : Reference \cup {NoRef}])
        /\ tail \in 1..pc
        /\ tail # pc => /\ Closes /\ Op(tail) \in {"own", "defer"}
                        /\ Level(tail) = Level(pc) /\ StillOpen(tail, pc)
        /\ ViewsOK
        /\ LoopsOK

----------------------------------------------------------------------------
(* Blocks.                                                                  *)

\* Places and their levels are numbers.
LEMMA PlaceTypes ==
    ASSUME TextOK
    PROVE  /\ Len(body) \in Nat /\ DOMAIN body = 1..Len(body) /\ Here = Len(body) + 1
           /\ Places = 1..(Len(body) + 1)
           /\ \A i \in Places : Level(i) \in Nat /\ Level(i) >= 1
           /\ \A i \in DOMAIN body : i \in Places /\ i + 1 \in Places
BY DEF TextOK, Here, Places

\* An element is one of the elements.
LEMMA OpTypes ==
    ASSUME TextOK, NEW i \in DOMAIN body
    PROVE  /\ Op(i) \in Pairs \cup Singles \cup Openers \cup Closers
           /\ body[i] \in Elem
<1>1. body \in Seq(Elem)
  BY DEF TextOK
<1>2. body[i] \in Elem
  BY <1>1
<1> QED
  BY <1>2 DEF Elem, Op

\* Only an opener and an end change the level.
LEMMA NextLevel ==
    ASSUME TextOK, NEW i \in DOMAIN body
    PROVE  /\ Op(i) \in Openers => Level(i + 1) = Level(i) + 1
           /\ Op(i) = "end" => Level(i + 1) = Level(i) - 1
           /\ Op(i) \notin Openers \cup {"end"} => Level(i + 1) = Level(i)
BY DEF TextOK

\* A construct is around every place between its opener and one it is around.
LEMMA AroundBetween ==
    ASSUME TextOK, NEW i \in Places, NEW o, Around(o, i), NEW j \in (o + 1)..i
    PROVE  Around(o, j) /\ j \in Places
BY PlaceTypes DEF Around

\* What is around a place is above it, and less deep.
LEMMA AroundLevel ==
    ASSUME TextOK, NEW i \in Places, NEW o, Around(o, i)
    PROVE  /\ o \in DOMAIN body /\ o \in Places /\ o < i /\ Level(o) < Level(i)
           /\ \A k \in (o + 1)..i : Level(o) < Level(k)
           /\ Op(o) \in Openers
BY PlaceTypes DEF Around

\* Two constructs around a place are one inside the other.
LEMMA Nested ==
    ASSUME TextOK, NEW i \in Places, NEW o, NEW q, Around(o, i), Around(q, i)
    PROVE  /\ o < q => Around(o, q) /\ Level(o) < Level(q)
           /\ Level(o) = Level(q) => o = q
<1>1. ASSUME NEW x, NEW y, Around(x, i), Around(y, i), x < y PROVE Around(x, y) /\ Level(x) < Level(y)
  <2>1. x \in DOMAIN body /\ y \in DOMAIN body /\ y < i /\ Op(x) \in Openers
    BY <1>1, AroundLevel
  <2>2. y \in (x + 1)..i /\ \A k \in (x + 1)..y : k \in (x + 1)..i
    BY <1>1, <2>1, PlaceTypes
  <2>3. \A k \in (x + 1)..i : Level(k) > Level(x)
    BY <1>1 DEF Around
  <2>4. Level(y) > Level(x) /\ Level(x) \in Nat /\ Level(y) \in Nat
    BY <2>1, <2>2, <2>3, PlaceTypes
  <2> QED
    BY <1>1, <2>1, <2>2, <2>3, <2>4 DEF Around
<1>2. o < q \/ q < o \/ o = q
  BY PlaceTypes DEF Around
<1>3. Level(o) \in Nat /\ Level(q) \in Nat
  BY PlaceTypes, AroundLevel
<1> QED
  BY <1>1, <1>2, <1>3

\* A place inside a construct inside another is inside both.
LEMMA AroundThrough ==
    ASSUME TextOK, NEW i \in Places, NEW o, NEW q, Around(o, q), Around(q, i)
    PROVE  Around(o, i) /\ Level(o) < Level(q)
<1>1. q \in Places /\ i \in Places /\ q \in DOMAIN body
  BY AroundLevel
<1>2. o \in DOMAIN body /\ o < q /\ q < i /\ Op(o) \in Openers /\ Level(o) < Level(q)
  BY <1>1, AroundLevel
<1>3. \A k \in (o + 1)..q : Level(k) > Level(o)
  BY DEF Around
<1>4. \A k \in (q + 1)..i : Level(k) > Level(q)
  BY DEF Around
<1>5. ASSUME NEW k \in (o + 1)..i PROVE Level(k) > Level(o)
  <2>1. k \in Places /\ o \in Nat /\ q \in Nat /\ i \in Nat
    BY <1>1, <1>2, PlaceTypes
  <2>2. Level(k) \in Nat /\ Level(o) \in Nat /\ Level(q) \in Nat
    BY <2>1, <1>1, <1>2, PlaceTypes
  <2>3. k \in (o + 1)..q \/ k \in (q + 1)..i
    BY <2>1
  <2> QED
    BY <2>2, <2>3, <1>2, <1>3, <1>4
<1> QED
  BY <1>1, <1>2, <1>5, PlaceTypes DEF Around

\* The next place is in the same constructs, one more or one fewer.
LEMMA AroundNext ==
    ASSUME TextOK, NEW i \in DOMAIN body, NEW o
    PROVE  /\ o # i /\ Around(o, i + 1) => Around(o, i)
           /\ Op(i) # "end" /\ Around(o, i) => Around(o, i + 1)
           /\ Op(i) = "end" => (Around(o, i + 1) <=> Around(o, i) /\ Level(o) # Level(i) - 1)
           /\ Op(i) \in Openers => Around(i, i + 1)
           /\ Op(i) \notin Openers => ~Around(i, i + 1)
<1>0. i \in Places /\ i + 1 \in Places /\ i \in Nat /\ Level(i) \in Nat /\ Level(i + 1) \in Nat
  BY PlaceTypes
<1>1. o # i /\ Around(o, i + 1) => Around(o, i)
  BY <1>0, PlaceTypes DEF Around
<1>2. ASSUME Around(o, i), Level(i + 1) > Level(o) PROVE Around(o, i + 1)
  BY <1>0, <1>2, PlaceTypes DEF Around
<1>3. ASSUME Around(o, i) PROVE Level(o) \in Nat /\ Level(o) < Level(i)
  BY <1>0, <1>3, AroundLevel, PlaceTypes
<1>4. ASSUME Around(o, i + 1) PROVE Level(o) \in Nat /\ Level(o) < Level(i + 1)
  BY <1>0, <1>4, AroundLevel, PlaceTypes
<1>5. Op(i) # "end" /\ Around(o, i) => Around(o, i + 1)
  BY <1>0, <1>2, <1>3, NextLevel
<1>6. ASSUME Op(i) = "end" PROVE Around(o, i + 1) <=> Around(o, i) /\ Level(o) # Level(i) - 1
  <2>1. Level(i + 1) = Level(i) - 1
    BY <1>6, NextLevel
  <2>2. Around(o, i + 1) => Around(o, i) /\ Level(o) # Level(i) - 1
    <3>1. o = i => ~Around(o, i + 1)
      BY <1>6 DEF Around, Openers
    <3> QED
      BY <1>0, <1>1, <1>4, <2>1, <3>1
  <2>3. Around(o, i) /\ Level(o) # Level(i) - 1 => Around(o, i + 1)
    BY <1>0, <1>2, <1>3, <2>1
  <2> QED
    BY <2>2, <2>3
<1>7. Op(i) \in Openers => Around(i, i + 1)
  BY <1>0, NextLevel DEF Around
<1>8. Op(i) \notin Openers => ~Around(i, i + 1)
  BY DEF Around
<1> QED
  BY <1>1, <1>5, <1>6, <1>7, <1>8

\* Every place in a block that is not the body has one opener.
LEMMA OpenerAround ==
    ASSUME TextOK, NEW i \in Places, Level(i) > 1
    PROVE  /\ Opener(i) \in 1..(i - 1) /\ Opener(i) \in DOMAIN body
           /\ Around(Opener(i), i)
           /\ Level(Opener(i)) = Level(i) - 1 /\ Op(Opener(i)) \in Openers
<1> DEFINE P(j) == /\ Op(j) \in Openers /\ Level(j) = Level(i) - 1
                   /\ \A k \in (j + 1)..(i - 1) : Op(k) \in Openers => Level(k) >= Level(i)
<1>0. i \in Places /\ i \in Nat /\ Level(i) \in Nat /\ Level(i) > 1
  BY PlaceTypes
<1>1. \E j \in 1..(i - 1) : Around(j, i) /\ Level(j) = Level(i) - 1
  <2>1. Level(i) - 1 \in 1..(Level(i) - 1)
    BY <1>0
  <2> QED
    BY <1>0, <2>1 DEF TextOK
<1>2. PICK j \in 1..(i - 1) : Around(j, i) /\ Level(j) = Level(i) - 1
  BY <1>1
<1>3. P(j)
  <2>1. ASSUME NEW k \in (j + 1)..(i - 1) PROVE Level(k) >= Level(i)
    <3>1. k \in Places /\ Level(k) \in Nat /\ k \in (j + 1)..i
      BY <1>0, PlaceTypes
    <3> QED
      BY <1>0, <1>2, <3>1 DEF Around
  <2> QED
    BY <1>2, <2>1 DEF Around
<1>4. ASSUME NEW k \in 1..(i - 1), P(k) PROVE k = j
  <2>1. k \in Nat /\ j \in Nat /\ Level(j) \in Nat /\ Level(k) \in Nat
    BY <1>0, PlaceTypes
  <2>2. ~(k < j)
    <3> SUFFICES ASSUME k < j PROVE FALSE
      OBVIOUS
    <3>1. j \in (k + 1)..(i - 1)
      BY <2>1
    <3>2. Level(j) >= Level(i)
      BY <1>3, <1>4, <3>1
    <3> QED
      BY <1>0, <1>2, <2>1, <3>2
  <2>3. ~(j < k)
    <3> SUFFICES ASSUME j < k PROVE FALSE
      OBVIOUS
    <3>1. k \in (j + 1)..(i - 1)
      BY <1>0, <2>1
    <3>2. Level(k) >= Level(i)
      BY <1>3, <1>4, <3>1
    <3> QED
      BY <1>0, <1>4, <2>1, <3>2
  <2> QED
    BY <2>1, <2>2, <2>3
<1>5. Opener(i) = CHOOSE k \in 1..(i - 1) : P(k)
  BY DEF Opener
<1> HIDE DEF P
<1>6. Opener(i) = j
  BY <1>3, <1>4, <1>5
<1> QED
  BY <1>0, <1>2, <1>6, PlaceTypes DEF Around

\* An else or an end has an opener in its own level.
LEMMA OpenerOf ==
    ASSUME TextOK, NEW i \in DOMAIN body, Op(i) \in Closers
    PROVE  /\ Opener(i) \in 1..(i - 1) /\ Opener(i) \in DOMAIN body
           /\ ClosedAt(Opener(i), i) /\ Around(Opener(i), i)
           /\ Level(Opener(i)) = Level(i) - 1 /\ Op(Opener(i)) \in Openers
<1>1. i \in Places /\ Level(i) > 1 /\ Level(i) \in Nat
  BY PlaceTypes DEF TextOK
<1>2. Opener(i) \in Places /\ Level(Opener(i)) \in Nat
  BY <1>1, OpenerAround, PlaceTypes
<1> QED
  BY <1>1, <1>2, OpenerAround DEF ClosedAt

\* Whatever ends a construct has its opener as its own.
LEMMA OpenerIs ==
    ASSUME TextOK, NEW o, NEW i, ClosedAt(o, i)
    PROVE  Opener(i) = o /\ i \in DOMAIN body /\ i \in Places
<1>1. i \in DOMAIN body /\ Op(i) \in Closers /\ Around(o, i) /\ Level(i) = Level(o) + 1
  BY DEF ClosedAt
<1>2. i \in Places
  BY <1>1, PlaceTypes
<1>3. Around(Opener(i), i) /\ Level(Opener(i)) = Level(i) - 1
  BY <1>1, OpenerOf
<1>4. Level(o) \in Nat
  BY <1>1, <1>2, AroundLevel, PlaceTypes
<1> QED
  BY <1>1, <1>2, <1>3, <1>4, Nested

----------------------------------------------------------------------------
(* What is open.                                                            *)

\* What is open at a place was open all the way there.
LEMMA OpenLevel ==
    ASSUME TextOK, NEW i \in Places, NEW j \in 1..(i - 1), Op(j) \notin Closers, StillOpen(j, i)
    PROVE  /\ Level(i) >= Level(j)
           /\ \A k \in (j + 1)..i : StillOpen(j, k) /\ Level(k) >= Level(j)
           /\ \A k \in (j + 1)..(i - 1) : Op(k) \in Closers => Level(k) > Level(j)
<1>1. \A k \in (j + 1)..i : StillOpen(j, k) /\ k \in Places /\ j \in 1..(k - 1)
  BY PlaceTypes DEF StillOpen
<1>2. \A k \in (j + 1)..i : Level(k) >= Level(j)
  BY <1>1 DEF TextOK
<1>3. ASSUME NEW k \in (j + 1)..(i - 1), Op(k) \in Closers PROVE Level(k) > Level(j)
  <2>1. Level(k) # Level(j)
    BY <1>3 DEF StillOpen
  <2>2. k \in (j + 1)..i
    BY PlaceTypes
  <2>3. Level(k) \in Nat /\ Level(j) \in Nat
    BY PlaceTypes, <1>1, <2>2
  <2> QED
    BY <1>2, <2>1, <2>2, <2>3
<1>4. Level(i) >= Level(j)
  BY DEF TextOK
<1> QED
  BY <1>1, <1>2, <1>3, <1>4

\* What is open where a block element stands is open while that one is.
LEMMA OpenThrough ==
    ASSUME TextOK, NEW i \in Places, NEW j \in 1..(i - 1), NEW d \in 1..(j - 1),
           Op(d) \notin Closers, Op(j) \notin Closers, StillOpen(d, j), StillOpen(j, i)
    PROVE  StillOpen(d, i)
<1>0. j \in Places /\ d \in Places /\ i \in Nat /\ j \in Nat /\ d \in Nat
  BY PlaceTypes
<1>1. Level(j) >= Level(d) /\ Level(j) \in Nat /\ Level(d) \in Nat
  BY <1>0, OpenLevel, PlaceTypes
<1>2. ASSUME NEW k \in (d + 1)..(i - 1), Op(k) \in Closers PROVE Level(k) # Level(d)
  <2>1. CASE k < j
    BY <1>0, <1>2, <2>1 DEF StillOpen
  <2>2. CASE k = j
    BY <1>2, <2>2
  <2>3. CASE k > j
    <3>1. k \in (j + 1)..(i - 1)
      BY <1>0, <2>3
    <3>2. Level(k) > Level(j)
      BY <1>2, <3>1, OpenLevel
    <3>3. Level(k) \in Nat
      BY <1>0, PlaceTypes
    <3> QED
      BY <1>1, <3>2, <3>3
  <2> QED
    BY <1>0, <2>1, <2>2, <2>3
<1> QED
  BY <1>2 DEF StillOpen

\* What is open where a construct starts is open in it, a level out.
LEMMA OpenInside ==
    ASSUME TextOK, NEW i \in Places, NEW o, Around(o, i), NEW d \in 1..(o - 1),
           Op(d) \notin Closers, StillOpen(d, o)
    PROVE  StillOpen(d, i) /\ Level(d) < Level(i) /\ Level(d) <= Level(o)
<1>1. o \in DOMAIN body /\ o \in Places /\ o < i /\ Level(o) < Level(i) /\ Op(o) \in Openers
  BY AroundLevel
<1>2. d \in Places /\ d \in Nat /\ o \in Nat /\ i \in Nat
  BY <1>1, PlaceTypes
<1>3. Level(d) \in Nat /\ Level(o) \in Nat /\ Level(i) \in Nat
  BY <1>1, <1>2, PlaceTypes
<1>4. Level(d) <= Level(o)
  BY <1>1, <1>2, <1>3, OpenLevel
<1>5. ASSUME NEW k \in (d + 1)..(i - 1), Op(k) \in Closers PROVE Level(k) # Level(d)
  <2>1. CASE k < o
    BY <1>2, <1>5, <2>1 DEF StillOpen
  <2>2. CASE k = o
    BY <1>1, <1>5, <2>2 DEF Openers, Closers
  <2>3. CASE k > o
    <3>1. k \in (o + 1)..i /\ k \in Places
      BY <1>1, <1>2, <2>3, PlaceTypes
    <3>2. Level(k) > Level(o) /\ Level(k) \in Nat
      BY <3>1, PlaceTypes DEF Around
    <3> QED
      BY <1>3, <1>4, <3>2
  <2> QED
    BY <1>2, <2>1, <2>2, <2>3
<1> QED
  BY <1>1, <1>3, <1>4, <1>5 DEF StillOpen

\* Nothing declared in a construct is open after an end of it.
LEMMA ClosedAfter ==
    ASSUME TextOK, NEW o, NEW c, ClosedAt(o, c), NEW d \in 1..c,
           Op(d) \notin Closers \cup Openers, StillOpen(d, c + 1)
    PROVE  d < o /\ StillOpen(d, o)
<1>1. c \in DOMAIN body /\ Op(c) \in Closers /\ Around(o, c) /\ Level(c) = Level(o) + 1
  BY DEF ClosedAt
<1>2. c \in Places /\ c + 1 \in Places /\ o \in DOMAIN body /\ o < c /\ Op(o) \in Openers /\ o \in Places
  BY <1>1, PlaceTypes, AroundLevel
<1>3. c \in Nat /\ d \in Nat /\ o \in Nat /\ d \in Places
  BY <1>2, PlaceTypes
<1>4. Level(c) \in Nat /\ Level(o) \in Nat /\ Level(d) \in Nat /\ Level(c + 1) \in Nat
  BY <1>2, <1>3, PlaceTypes
<1>5. Level(c + 1) <= Level(c)
  BY <1>1, <1>4, NextLevel DEF Closers, Openers
<1>6. d # c /\ d # o
  BY <1>1, <1>2
<1>7. Level(c + 1) >= Level(d)
  BY <1>2, <1>3, OpenLevel
<1>8. Level(c) # Level(d)
  BY <1>1, <1>3, <1>6 DEF StillOpen
<1>9. ~(o < d)
  <2> SUFFICES ASSUME o < d PROVE FALSE
    OBVIOUS
  <2>1. d \in (o + 1)..c
    BY <1>3
  <2>2. Level(d) > Level(o)
    BY <1>1, <2>1 DEF Around
  <2> QED
    BY <1>1, <1>4, <1>5, <1>7, <1>8, <2>2
<1>10. d < o
  BY <1>3, <1>6, <1>9
<1> QED
  BY <1>2, <1>3, <1>10 DEF StillOpen

\* Least picks the least.
LEMMA LeastIs ==
    ASSUME NEW S \in SUBSET Nat, S # {}
    PROVE  Least(S) \in S /\ \A j \in S : Least(S) <= j
<1>1. PICK R : R = OpToRel(<, Nat)
  OBVIOUS
<1>2. IsWellFoundedOn(R, Nat)
  BY <1>1, NatLessThanWellFounded
<1>3. PICK k \in S : \A j \in S : ~(<<j, k>> \in R)
  BY <1>2, WFMin
<1>4. ASSUME NEW j \in S PROVE k <= j
  <2>1. j \in Nat /\ k \in Nat /\ (j < k => <<j, k>> \in R)
    BY <1>1 DEF OpToRel
  <2> QED
    BY <1>3, <2>1
<1> QED
  BY <1>4 DEF Least

\* An end of a construct is the last place in it.
LEMMA LastPlace ==
    ASSUME TextOK, NEW i \in Places, NEW o, NEW e, Around(o, i), ClosedAt(o, e), Op(e) = "end"
    PROVE  i <= e
<1>1. e \in DOMAIN body /\ Around(o, e) /\ Level(e) = Level(o) + 1
  BY DEF ClosedAt
<1>2. e \in Nat /\ i \in Nat /\ e \in Places /\ o \in Nat /\ o < e /\ Level(o) \in Nat
  BY <1>1, PlaceTypes, AroundLevel
<1>3. ~Around(o, e + 1)
  BY <1>1, <1>2, AroundNext
<1> SUFFICES ASSUME e < i PROVE FALSE
  BY <1>2
<1>4. e + 1 \in (o + 1)..i
  BY <1>2
<1> QED
  BY <1>3, <1>4, AroundBetween

\* A construct ends once.
LEMMA EndUnique ==
    ASSUME TextOK, NEW o, NEW e, NEW f, ClosedAt(o, e), ClosedAt(o, f), Op(e) = "end", Op(f) = "end"
    PROVE  e = f
<1>1. e \in Places /\ f \in Places /\ Around(o, e) /\ Around(o, f)
  BY PlaceTypes DEF ClosedAt
<1>2. e <= f /\ f <= e
  BY <1>1, LastPlace
<1> QED
  BY <1>1, <1>2, PlaceTypes

\* What ends a construct is among its candidates, and the least one ends it.
LEMMA ClosingHas ==
    ASSUME TextOK, NEW o \in DOMAIN body, NEW ops, NEW k, ClosedAt(o, k), Op(k) \in ops
    PROVE  k \in Closing(o, ops)
<1>1. k \in DOMAIN body /\ Around(o, k) /\ Level(k) = Level(o) + 1 /\ k \in Places
  BY PlaceTypes DEF ClosedAt
<1>2. o < k /\ k \in (o + 1)..Len(body)
  BY <1>1, PlaceTypes, AroundLevel
<1>3. ASSUME NEW j \in (o + 1)..(k - 1) PROVE Level(j) # Level(o)
  <2>1. j \in (o + 1)..k /\ j \in Places /\ o \in Places
    BY <1>2, PlaceTypes
  <2>2. Level(j) > Level(o) /\ Level(j) \in Nat /\ Level(o) \in Nat
    BY <1>1, <2>1, PlaceTypes DEF Around
  <2> QED
    BY <2>2
<1> QED
  BY <1>1, <1>2, <1>3 DEF Closing, StillOpen

\* The first of some of the elements that end a construct, or a part of it.
LEMMA ClosingLeast ==
    ASSUME TextOK, NEW o \in DOMAIN body, NEW ops, ops \subseteq Closers, NEW k, ClosedAt(o, k), Op(k) \in ops
    PROVE  LET c == Least(Closing(o, ops))
           IN  /\ ClosedAt(o, c) /\ Op(c) \in ops /\ c <= k
               /\ \A j \in (o + 1)..(c - 1) : j \notin Closing(o, ops)
<1> DEFINE S == Closing(o, ops)
           c == Least(S)
<1>1. k \in S /\ k \in DOMAIN body /\ Around(o, k) /\ k \in Places
  BY ClosingHas, PlaceTypes DEF ClosedAt
<1>2. S \in SUBSET Nat /\ \A j \in S : j \in (o + 1)..Len(body) /\ Op(j) \in ops /\ Level(j) = Level(o) + 1
  BY PlaceTypes DEF Closing
<1>3. c \in S /\ \A j \in S : c <= j
  BY <1>1, <1>2, LeastIs
<1>4. c <= k /\ c \in (o + 1)..k /\ c \in DOMAIN body
  BY <1>1, <1>2, <1>3, PlaceTypes
<1>5. Around(o, c)
  BY <1>1, <1>4, AroundBetween
<1>6. \A j \in (o + 1)..(c - 1) : j \notin S
  BY <1>2, <1>3, <1>4, PlaceTypes
<1> QED
  BY <1>2, <1>3, <1>4, <1>5, <1>6 DEF ClosedAt

\* In a whole text every construct ends.
LEMMA EndOfOpener ==
    ASSUME TextOK, Level(Here) = 1, NEW o \in DOMAIN body, Op(o) \in Openers
    PROVE  /\ ClosedAt(o, EndOf(o)) /\ Op(EndOf(o)) = "end" /\ EndOf(o) \in DOMAIN body
           /\ o < EndOf(o) /\ EndOf(o) \in Nat
<1>1. Here \in Places /\ o \in 1..(Here - 1) /\ o \in Places
  BY PlaceTypes
<1>2. ~Around(o, Here)
  <2>1. Around(o, Here) => Level(o) < Level(Here)
    BY <1>1, AroundLevel
  <2> QED
    BY <1>1, <2>1, PlaceTypes
<1>3. PICK k \in (o + 1)..(Here - 1) : Op(k) = "end" /\ ClosedAt(o, k)
  BY <1>1, <1>2 DEF TextOK
<1>4. ClosedAt(o, EndOf(o)) /\ Op(EndOf(o)) = "end"
  BY <1>3, ClosingLeast DEF EndOf, Closers
<1>5. EndOf(o) \in DOMAIN body /\ EndOf(o) \in Places /\ Around(o, EndOf(o))
  BY <1>4, PlaceTypes DEF ClosedAt
<1> QED
  BY <1>4, <1>5, AroundLevel, PlaceTypes

\* In a whole text, the first element that ends a part of a construct.
LEMMA FirstCloser ==
    ASSUME TextOK, Level(Here) = 1, NEW o \in DOMAIN body, Op(o) \in Openers
    PROVE  LET c == Least(Closing(o, Closers))
           IN  /\ ClosedAt(o, c) /\ Op(c) \in Closers /\ c \in DOMAIN body /\ o < c /\ c \in Nat
               /\ \A j \in (o + 1)..(c - 1) : j \notin Closing(o, Closers)
<1>1. ClosedAt(o, EndOf(o)) /\ Op(EndOf(o)) \in Closers
  BY EndOfOpener DEF Closers
<1> DEFINE c == Least(Closing(o, Closers))
<1>2. ClosedAt(o, c) /\ Op(c) \in Closers /\ \A j \in (o + 1)..(c - 1) : j \notin Closing(o, Closers)
  BY <1>1, ClosingLeast
<1>3. c \in DOMAIN body /\ c \in Places /\ Around(o, c)
  BY <1>2, PlaceTypes DEF ClosedAt
<1> QED
  BY <1>2, <1>3, AroundLevel, PlaceTypes

----------------------------------------------------------------------------
(* Names.                                                                   *)

\* A view is not an owner, is never given, and is not a place.
LEMMA ViewsApart ==
    ASSUME TextOK, NEW v \in Views
    PROVE  v \notin given /\ v \in Names /\ v \notin Nat /\ v \notin Owners
BY ViewsAssumption DEF TextOK, Names

\* What the element that declares a name says of it.
LEMMA DeclarationIs ==
    ASSUME TextOK, NEW n, NEW j \in DOMAIN body, Declares(j, n)
    PROVE  /\ n \in Names /\ n \notin given /\ Declaration(n) = j /\ ScopeOf(n) = Level(j) - 1
           /\ Op(j) \notin Closers \cup Openers /\ Declared(n)
           /\ Op(j) = "own" => n \in Owners
           /\ Op(j) = "let" => n \in Views
<1>1. NamesOK(j) /\ Op(j) \in {"own", "let"} /\ body[j].name = n
  BY DEF TextOK, Declares
<1>2. (Op(j) = "own" => n \in Owners) /\ (Op(j) = "let" => n \in Views) /\ n \in Names
  BY <1>1 DEF NamesOK, Pairs, Names
<1>3. n \notin given
  BY DEF TextOK
<1>4. \A i \in DOMAIN body : Declares(i, n) => i = j
  BY <1>2 DEF TextOK
<1>5. Declaration(n) = j
  BY <1>3, <1>4 DEF Declaration
<1> QED
  BY <1>1, <1>2, <1>3, <1>5 DEF ScopeOf, Closers, Openers, Declared

\* A declared name has a place, 0 for what was given.
LEMMA DeclarationType ==
    ASSUME TextOK, NEW n, Declared(n)
    PROVE  Declaration(n) \in 0..Len(body)
<1>1. CASE n \in given
  BY <1>1, PlaceTypes DEF Declaration
<1>2. CASE n \notin given
  <2>1. PICK j \in DOMAIN body : Declares(j, n)
    BY <1>2 DEF Declared
  <2> QED
    BY <2>1, DeclarationIs, PlaceTypes
<1> QED
  BY <1>1, <1>2

\* What is visible is declared above.
LEMMA VisibleName ==
    ASSUME TextOK, NEW i \in Places, NEW n, Visible(n, i)
    PROVE  Declared(n) /\ Declaration(n) \in Nat /\ Declaration(n) < i
<1>1. CASE n \in given
  BY <1>1, PlaceTypes DEF Declared, Declaration
<1>2. CASE n \notin given
  <2>1. PICK j \in 1..(i - 1) : Declares(j, n)
    BY <1>2 DEF Visible
  <2>2. j \in DOMAIN body /\ j \in Nat /\ i \in Nat /\ j < i
    BY PlaceTypes
  <2> QED
    BY <2>1, <2>2, DeclarationIs
<1> QED
  BY <1>1, <1>2

\* A visible view was let above, and its declaration is open.
LEMMA VisibleView ==
    ASSUME TextOK, NEW i \in Places, NEW v \in Views, Visible(v, i)
    PROVE  /\ Declaration(v) \in 1..(i - 1) /\ Declaration(v) \in DOMAIN body
           /\ Op(Declaration(v)) = "let" /\ body[Declaration(v)].name = v
           /\ StillOpen(Declaration(v), i)
           /\ ScopeOf(v) = Level(Declaration(v)) - 1
           /\ Declaration(v) \in Nat /\ Level(Declaration(v)) \in Nat
           /\ Op(Declaration(v)) \notin Closers \cup Openers
<1>1. PICK j \in 1..(i - 1) : Declares(j, v) /\ StillOpen(j, i)
  BY ViewsApart DEF Visible
<1>2. j \in DOMAIN body /\ j \in Nat /\ j \in Places
  BY PlaceTypes
<1>3. Declaration(v) = j /\ ScopeOf(v) = Level(j) - 1 /\ Op(j) \notin Closers \cup Openers
      /\ (Op(j) = "own" => v \in Owners)
  BY <1>1, <1>2, DeclarationIs
<1>4. Op(j) = "let" /\ body[j].name = v
  BY <1>1, <1>3, ViewsApart DEF Declares
<1> QED
  BY <1>1, <1>2, <1>3, <1>4, PlaceTypes

\* A view that was let above, with the declaration open, is visible.
LEMMA VisibleFrom ==
    ASSUME TextOK, NEW i \in Places, NEW v \in Views,
           NEW d \in 1..(i - 1), Op(d) = "let", body[d].name = v, StillOpen(d, i)
    PROVE  Visible(v, i)
BY DEF Visible, Declares

\* A view is visible wherever it was, from its declaration on.
LEMMA VisibleBefore ==
    ASSUME TextOK, NEW q \in Places, NEW v \in Views, Visible(v, q), NEW p \in Places,
           p <= q, Declaration(v) < p
    PROVE  Visible(v, p)
<1>1. Declaration(v) \in 1..(q - 1) /\ Op(Declaration(v)) = "let" /\ body[Declaration(v)].name = v
      /\ StillOpen(Declaration(v), q)
  BY VisibleView
<1>2. Declaration(v) \in 1..(p - 1)
  BY <1>1, PlaceTypes
<1>3. StillOpen(Declaration(v), p)
  BY <1>1, <1>2, PlaceTypes DEF StillOpen
<1> QED
  BY <1>1, <1>2, <1>3, VisibleFrom

\* What is visible where a construct starts is visible in it.
LEMMA VisibleInside ==
    ASSUME TextOK, NEW i \in Places, NEW o, Around(o, i), NEW v \in Views, Visible(v, o)
    PROVE  Visible(v, i) /\ Level(Declaration(v)) < Level(i) /\ Level(Declaration(v)) <= Level(o)
<1>0. o \in Places /\ o < i /\ o \in Nat /\ i \in Nat
  BY AroundLevel, PlaceTypes
<1>1. Declaration(v) \in 1..(o - 1) /\ Op(Declaration(v)) = "let" /\ body[Declaration(v)].name = v
      /\ StillOpen(Declaration(v), o) /\ Op(Declaration(v)) \notin Closers
  BY <1>0, VisibleView
<1>2. StillOpen(Declaration(v), i) /\ Level(Declaration(v)) < Level(i) /\ Level(Declaration(v)) <= Level(o)
  BY <1>1, OpenInside
<1>3. Declaration(v) \in 1..(i - 1)
  BY <1>0, <1>1
<1> QED
  BY <1>1, <1>2, <1>3, VisibleFrom

\* A view visible after a construct was before it.
LEMMA VisibleAfter ==
    ASSUME TextOK, NEW o, NEW c, ClosedAt(o, c), NEW v \in Views, Visible(v, c + 1)
    PROVE  Visible(v, o) /\ Visible(v, c) /\ Declaration(v) < o
<1>1. c \in DOMAIN body /\ c \in Places /\ c + 1 \in Places /\ c \in Nat /\ Around(o, c)
  BY PlaceTypes DEF ClosedAt
<1>2. o \in Places /\ o < c /\ o \in Nat
  BY <1>1, AroundLevel, PlaceTypes
<1>3. Declaration(v) \in 1..c /\ StillOpen(Declaration(v), c + 1)
      /\ Op(Declaration(v)) \notin Closers \cup Openers
  BY <1>1, VisibleView
<1>4. Declaration(v) < o
  BY <1>3, ClosedAfter
<1>5. Visible(v, o)
  BY <1>1, <1>2, <1>4, VisibleBefore
<1> QED
  BY <1>1, <1>4, <1>5, VisibleInside

\* Only visible views are mentioned.
LEMMA MentionVisible ==
    ASSUME TextOK, NEW i \in DOMAIN body, NEW v \in Views, Mentions(i, v)
    PROVE  Visible(v, i) /\ Op(i) \notin Closers
<1>1. NamesOK(i)
  BY DEF TextOK
<1> QED
  BY <1>1 DEF NamesOK, Mentions, Pairs, Closers

----------------------------------------------------------------------------
(* What the rest of a block, or a further round of a loop, needs.           *)

\* What a later place needs, an earlier one needs.
LEMMA NeededBefore ==
    ASSUME TextOK, NEW q \in Places, NEW p \in Places, p <= q, NEW v \in Views, Needed(v, q)
    PROVE  Needed(v, p)
<1>0. p \in Nat /\ q \in Nat /\ DOMAIN body = 1..Len(body) /\ q <= Len(body) + 1 /\ Len(body) \in Nat
  BY PlaceTypes
<1>1. CASE \E i \in DOMAIN body : Mentions(i, v) /\ i >= q
  BY <1>0, <1>1 DEF Needed
<1>2. CASE \E i \in DOMAIN body : Mentions(i, v) /\ \E o \in 1..(i - 1) : Around(o, q) /\ Declaration(v) < o
  <2>1. PICK i \in DOMAIN body : Mentions(i, v) /\ \E o \in 1..(i - 1) : Around(o, q) /\ Declaration(v) < o
    BY <1>2
  <2>2. PICK o \in 1..(i - 1) : Around(o, q) /\ Declaration(v) < o
    BY <2>1
  <2>3. CASE o >= p
    <3>1. i >= p
      BY <1>0, <2>3
    <3> QED
      BY <2>1, <3>1 DEF Needed
  <2>4. CASE o < p
    <3>1. p \in (o + 1)..q
      BY <1>0, <2>4
    <3>2. Around(o, p)
      BY <2>2, <3>1, AroundBetween
    <3> QED
      BY <2>1, <2>2, <3>2 DEF Needed
  <2> QED
    BY <1>0, <2>3, <2>4
<1>3. CASE \E j \in 1..(q - 1) : Op(j) = "defer" /\ body[j].name = v /\ StillOpen(j, q)
  <2>1. PICK j \in 1..(q - 1) : Op(j) = "defer" /\ body[j].name = v /\ StillOpen(j, q)
    BY <1>3
  <2>2. CASE j >= p
    <3>1. j \in DOMAIN body /\ Mentions(j, v)
      BY <1>0, <2>1 DEF Mentions
    <3> QED
      BY <2>2, <3>1 DEF Needed
  <2>3. CASE j < p
    <3>1. j \in 1..(p - 1) /\ StillOpen(j, p)
      BY <1>0, <2>1, <2>3 DEF StillOpen
    <3> QED
      BY <2>1, <3>1 DEF Needed
  <2> QED
    BY <1>0, <2>2, <2>3
<1> QED
  BY <1>1, <1>2, <1>3 DEF Needed

\* What the body of a loop needs, the end of the loop needs.
LEMMA NeededAgain ==
    ASSUME TextOK, NEW o, NEW e, ClosedAt(o, e), NEW v \in Views, Declaration(v) < o, Needed(v, o + 1)
    PROVE  Needed(v, e)
<1>0. /\ e \in DOMAIN body /\ e \in Places /\ e \in Nat /\ Around(o, e)
      /\ o \in DOMAIN body /\ o \in Places /\ o \in Nat /\ o < e /\ o + 1 \in Places /\ Op(o) \in Openers
  BY PlaceTypes, AroundLevel DEF ClosedAt
<1>1. CASE \E i \in DOMAIN body : Mentions(i, v) /\ i >= o + 1
  <2>1. PICK i \in DOMAIN body : Mentions(i, v) /\ i >= o + 1
    BY <1>1
  <2>2. o \in 1..(i - 1)
    BY <1>0, <2>1, PlaceTypes
  <2> QED
    BY <1>0, <2>1, <2>2 DEF Needed
<1>2. CASE \E i \in DOMAIN body : Mentions(i, v) /\ \E q \in 1..(i - 1) : Around(q, o + 1) /\ Declaration(v) < q
  <2>1. PICK i \in DOMAIN body : Mentions(i, v) /\ \E q \in 1..(i - 1) : Around(q, o + 1) /\ Declaration(v) < q
    BY <1>2
  <2>2. PICK q \in 1..(i - 1) : Around(q, o + 1) /\ Declaration(v) < q
    BY <2>1
  <2>3. Around(q, e)
    <3>1. CASE q = o
      BY <1>0, <3>1
    <3>2. CASE q # o
      <4>1. Around(q, o)
        BY <1>0, <2>2, <3>2, AroundNext
      <4> QED
        BY <1>0, <4>1, AroundThrough
    <3> QED
      BY <3>1, <3>2
  <2> QED
    BY <2>1, <2>2, <2>3 DEF Needed
<1>3. CASE \E j \in 1..o : Op(j) = "defer" /\ body[j].name = v /\ StillOpen(j, o + 1)
  <2>1. PICK j \in 1..o : Op(j) = "defer" /\ body[j].name = v /\ StillOpen(j, o + 1)
    BY <1>3
  <2>2. j # o /\ Op(j) \notin Closers
    BY <1>0, <2>1 DEF Openers, Closers
  <2>3. j \in 1..(o - 1) /\ StillOpen(j, o)
    BY <1>0, <2>1, <2>2 DEF StillOpen
  <2>4. StillOpen(j, e)
    BY <1>0, <2>2, <2>3, OpenInside
  <2>5. j \in 1..(e - 1)
    BY <1>0
  <2> QED
    BY <2>1, <2>4, <2>5 DEF Needed
<1>4. (o + 1) - 1 = o
  BY <1>0
<1> QED
  BY <1>1, <1>2, <1>3, <1>4 DEF Needed

\* The checker does not forget a borrow that is still needed.
LEMMA NeededKept ==
    ASSUME TextOK, NEW p \in Places, NEW v \in Views, Visible(v, p), Needed(v, p),
           NEW bs, NEW b \in bs, b.view = v, b.scope = ScopeOf(v)
    PROVE  b \in PruneAt(p, bs)
<1> DEFINE d == Declaration(v)
<1>0. /\ d \in 1..(p - 1) /\ d \in DOMAIN body /\ StillOpen(d, p) /\ ScopeOf(v) = Level(d) - 1
      /\ d \in Nat /\ Level(d) \in Nat /\ Op(d) \notin Closers
  BY VisibleView
<1>1. p \in Nat /\ Level(p) \in Nat /\ Level(p) >= Level(d)
  BY <1>0, OpenLevel, PlaceTypes
<1>2. CASE Level(p) > Level(d)
  BY <1>0, <1>1, <1>2 DEF PruneAt
<1>3. CASE Level(p) = Level(d)
  <2>1. CASE \E i \in DOMAIN body : Mentions(i, v) /\ i >= p
    <3>1. PICK i \in DOMAIN body : Mentions(i, v) /\ i >= p
      BY <2>1
    <3>2. Visible(v, i) /\ Op(i) \notin Closers /\ i \in Places /\ i \in Nat
      BY <3>1, MentionVisible, PlaceTypes
    <3>3. StillOpen(d, i) /\ d \in 1..(i - 1)
      BY <3>2, VisibleView
    <3>4. ASSUME NEW j \in p..i, Op(j) \in Closers PROVE Level(j) > Level(p)
      <4>1. j \in (d + 1)..(i - 1)
        <5>1. j # i
          BY <3>2, <3>4
        <5> QED
          BY <1>0, <1>1, <3>2, <5>1
      <4> QED
        BY <1>0, <1>3, <3>2, <3>3, <3>4, <4>1, OpenLevel
    <3>5. i \in Remaining(p)
      BY <1>1, <3>1, <3>2, <3>4, PlaceTypes DEF Remaining
    <3> QED
      BY <3>1, <3>5 DEF PruneAt
  <2>2. ASSUME NEW o, Around(o, p), d < o PROVE FALSE
    <3>1. o \in Places /\ o < p /\ o \in Nat
      BY <2>2, AroundLevel, PlaceTypes
    <3>2. d \in 1..(o - 1) /\ StillOpen(d, o)
      BY <1>0, <1>1, <2>2, <3>1 DEF StillOpen
    <3>3. Level(d) < Level(p)
      BY <1>0, <2>2, <3>2, OpenInside
    <3> QED
      BY <1>0, <1>3, <3>3
  <2>3. CASE \E j \in 1..(p - 1) : Op(j) = "defer" /\ body[j].name = v /\ StillOpen(j, p)
    BY <2>3 DEF PruneAt
  <2> QED
    BY <2>1, <2>2, <2>3 DEF Needed
<1> QED
  BY <1>0, <1>1, <1>2, <1>3

----------------------------------------------------------------------------
(* Writing.                                                                 *)

\* What an element that is written may be.
WellPlaced(e) ==
    /\ e \in Elem /\ e.level = Level(Here)
    /\ e.op = "own" => e.name \in Owners /\ New(e.name)
    /\ e.op \in {"change", "lend"} => e.name \in Owners /\ Seen(e.name)
    /\ e.op \in {"use", "defer"} => e.name \in Views /\ Seen(e.name)
    /\ e.op \in Pairs => /\ e.name \in Views /\ e.from \in Names /\ e.from # e.name /\ Seen(e.from)
                         /\ e.op = "let" => New(e.name)
                         /\ e.op = "set" => Seen(e.name)
    /\ e.op = "for" => e.from \in Names /\ Seen(e.from)
    /\ e.op \in Closers => Level(Here) > 1
    /\ e.op = "else" => Op(Opener(Here)) = "if"

\* Every way to write an element names only what it may.
LEMMA WriteForms ==
    ASSUME TextOK, WriteNext
    PROVE  \E e : Write(e) /\ WellPlaced(e)
<1>0. Level(Here) \in Nat
  BY PlaceTypes
<1> USE DEF Pairs, Singles, Openers, Closers, Names
<1>1. ASSUME NEW o \in Owners, New(o), Write(Single("own", o)) PROVE WellPlaced(Single("own", o))
  BY <1>0, <1>1 DEF WellPlaced, Single, Bare, Elem
<1>2. ASSUME NEW o \in Owners, NEW op \in {"change", "lend"}, Seen(o) PROVE WellPlaced(Single(op, o))
  BY <1>0, <1>2 DEF WellPlaced, Single, Bare, Elem
<1>3. ASSUME NEW v \in Views, NEW s \in Names, Seen(s), s # v, New(v) PROVE WellPlaced(Pair("let", v, s))
  BY <1>0, <1>3 DEF WellPlaced, Pair, Single, Bare, Elem
<1>4. ASSUME NEW v \in Views, NEW s \in Names, Seen(s), s # v, Seen(v) PROVE WellPlaced(Pair("set", v, s))
  BY <1>0, <1>4 DEF WellPlaced, Pair, Single, Bare, Elem
<1>5. ASSUME NEW v \in Views, NEW op \in {"use", "defer"}, Seen(v) PROVE WellPlaced(Single(op, v))
  BY <1>0, <1>5 DEF WellPlaced, Single, Bare, Elem
<1>6. ASSUME NEW s \in Names, Seen(s) PROVE WellPlaced(Pair("for", NoName, s))
  BY <1>0, <1>6 DEF WellPlaced, Pair, Single, Bare, Elem
<1>7. ASSUME NEW op \in {"if", "while"} PROVE WellPlaced(Bare(op))
  BY <1>0, <1>7 DEF WellPlaced, Bare, Elem
<1>8. ASSUME Level(Here) > 1 PROVE WellPlaced(Bare("end"))
  BY <1>0, <1>8 DEF WellPlaced, Bare, Elem
<1>9. ASSUME Innermost = "if" PROVE WellPlaced(Bare("else"))
  BY <1>0, <1>9, PlaceTypes DEF WellPlaced, Bare, Elem, Innermost
<1> QED
  BY <1>1, <1>2, <1>3, <1>4, <1>5, <1>6, <1>7, <1>8, <1>9 DEF WriteNext

\* What is written stays as it is, and the next place follows from it.
LEMMA WrittenText ==
    ASSUME TextOK, NEW e, Write(e), WellPlaced(e), NEW h, h = Here
    PROVE  /\ body' \in Seq(Elem) /\ Len(body') = h /\ DOMAIN body' = 1..h /\ h \in Nat /\ h >= 1
           /\ DOMAIN body = 1..(h - 1) /\ given' = given /\ Here' = h + 1
           /\ Places = 1..h /\ Places' = 1..(h + 1)
           /\ \A i \in 1..(h - 1) : body'[i] = body[i] /\ Op(i)' = Op(i)
           /\ body'[h] = e /\ Op(h)' = e.op
           /\ \A i \in 1..h : Level(i)' = Level(i)
           /\ Level(h) = e.level
           /\ Level(h + 1)' = IF e.op \in Openers THEN Level(h) + 1
                              ELSE IF e.op = "end" THEN Level(h) - 1
                              ELSE Level(h)
<1>0. Len(body) \in Nat /\ h = Len(body) + 1 /\ Places = 1..h /\ DOMAIN body = 1..(h - 1)
      /\ body \in Seq(Elem) /\ h \in Nat /\ h >= 1
  BY PlaceTypes DEF TextOK
<1>1. e \in Elem /\ body' = Append(body, e) /\ given' = given /\ e.level = Level(h)
  BY DEF Write, WellPlaced
<1>2. body' \in Seq(Elem) /\ Len(body') = h /\ DOMAIN body' = 1..h
  BY <1>0, <1>1
<1>3. \A i \in 1..(h - 1) : body'[i] = body[i]
  BY <1>0, <1>1
<1>4. body'[h] = e
  BY <1>0, <1>1
<1>5. \A i \in 1..(h - 1) : Op(i)' = Op(i)
  BY <1>3 DEF Op
<1>6. \A i \in 1..(h - 1) : Level(i)' = Level(i)
  BY <1>0, <1>2, <1>3 DEF Level
<1>7. Level(h)' = Level(h)
  BY <1>0, <1>1, <1>2, <1>4 DEF Level
<1>8. Level(h + 1)' = IF e.op \in Openers THEN Level(h) + 1
                      ELSE IF e.op = "end" THEN Level(h) - 1
                      ELSE Level(h)
  <2>1. h + 1 \notin DOMAIN body' /\ body' # <<>> /\ body'[Len(body')] = e
    BY <1>0, <1>2, <1>4
  <2>2. e.op = "end" => e.op \notin Openers
    BY DEF Openers
  <2> QED
    BY <1>1, <2>1, <2>2 DEF Level
<1>9. Here' = h + 1 /\ Places' = 1..(h + 1)
  BY <1>0, <1>2 DEF Here, Places
<1>10. \A i \in 1..h : Level(i)' = Level(i)
  BY <1>0, <1>6, <1>7
<1> QED
  BY <1>0, <1>1, <1>2, <1>3, <1>4, <1>5, <1>8, <1>9, <1>10 DEF Op

\* So does what is said of the places so far.
LEMMA WrittenShape ==
    ASSUME TextOK, NEW e, Write(e), WellPlaced(e), NEW h, h = Here
    PROVE  /\ \A i \in 1..h : \A j : Around(j, i)' <=> Around(j, i)
           /\ \A i \in 1..h : \A j \in 1..(i - 1) : StillOpen(j, i)' <=> StillOpen(j, i)
           /\ \A i \in 1..(h - 1) : \A j : ClosedAt(j, i)' <=> ClosedAt(j, i)
           /\ \A i \in 1..(h - 1) : \A n : Declares(i, n)' <=> Declares(i, n)
           /\ \A i \in 1..h : \A n : Visible(n, i)' <=> Visible(n, i)
<1>1. /\ DOMAIN body' = 1..h /\ h \in Nat /\ h >= 1 /\ DOMAIN body = 1..(h - 1) /\ given' = given
      /\ \A i \in 1..(h - 1) : body'[i] = body[i] /\ Op(i)' = Op(i)
      /\ \A i \in 1..h : Level(i)' = Level(i)
  BY WrittenText
<1>2. ASSUME NEW i \in 1..h, NEW j PROVE Around(j, i)' <=> Around(j, i)
  <2>1. ASSUME NEW k \in 1..(h - 1), j = k
        PROVE  (\A n \in (j + 1)..i : (Level(n) > Level(j))') <=> (\A n \in (j + 1)..i : Level(n) > Level(j))
    <3>1. Level(j)' = Level(j) /\ \A n \in (j + 1)..i : Level(n)' = Level(n)
      BY <1>1, <2>1
    <3> QED
      BY <3>1
  <2>2. j < i /\ j \in DOMAIN body' => j \in 1..(h - 1)
    BY <1>1
  <2>3. j \in 1..(h - 1) => Op(j)' = Op(j)
    BY <1>1
  <2> QED
    BY <1>1, <2>1, <2>2, <2>3 DEF Around, Openers
<1>3. ASSUME NEW i \in 1..h, NEW j \in 1..(i - 1) PROVE StillOpen(j, i)' <=> StillOpen(j, i)
  <2>1. Level(j)' = Level(j) /\ \A k \in (j + 1)..(i - 1) : Level(k)' = Level(k) /\ Op(k)' = Op(k)
    BY <1>1
  <2> QED
    BY <2>1 DEF StillOpen, Closers
<1>4. ASSUME NEW i \in 1..(h - 1), NEW j PROVE ClosedAt(j, i)' <=> ClosedAt(j, i)
  <2>1. Around(j, i)' <=> Around(j, i)
    BY <1>1, <1>2
  <2>2. Around(j, i) => j \in 1..h
    BY <1>1 DEF Around
  <2>3. Op(i)' = Op(i) /\ Level(i)' = Level(i) /\ (j \in 1..h => Level(j)' = Level(j))
    BY <1>1
  <2>4. i \in DOMAIN body' /\ i \in DOMAIN body
    BY <1>1
  <2> QED
    BY <2>1, <2>2, <2>3, <2>4 DEF ClosedAt, Closers
<1>5. ASSUME NEW i \in 1..(h - 1), NEW n PROVE Declares(i, n)' <=> Declares(i, n)
  BY <1>1 DEF Declares
<1>6. ASSUME NEW i \in 1..h, NEW n PROVE Visible(n, i)' <=> Visible(n, i)
  <2>1. \A j \in 1..(i - 1) : j \in 1..(h - 1) /\ (StillOpen(j, i)' <=> StillOpen(j, i))
                              /\ (Declares(j, n)' <=> Declares(j, n))
    BY <1>1, <1>3, <1>5
  <2> QED
    BY <1>1, <2>1 DEF Visible
<1> QED
  BY <1>2, <1>3, <1>4, <1>5, <1>6

\* Writing keeps the text well nested and its names unique.
LEMMA WriteKeepsText ==
    ASSUME TextOK, NEW e, Write(e), WellPlaced(e)
    PROVE  TextOK'
<1> PICK h : h = Here
  OBVIOUS
<1>1. /\ body' \in Seq(Elem) /\ DOMAIN body' = 1..h /\ h \in Nat /\ h >= 1
      /\ DOMAIN body = 1..(h - 1) /\ given' = given
      /\ Places = 1..h /\ Places' = 1..(h + 1)
  BY WrittenText
<1>2. /\ \A i \in 1..(h - 1) : body'[i] = body[i] /\ Op(i)' = Op(i)
      /\ body'[h] = e /\ Op(h)' = e.op
  BY WrittenText
<1>3. /\ \A i \in 1..h : Level(i)' = Level(i) /\ Level(i) \in Nat /\ Level(i) >= 1
      /\ Level(h + 1)' = IF e.op \in Openers THEN Level(h) + 1
                         ELSE IF e.op = "end" THEN Level(h) - 1
                         ELSE Level(h)
  BY <1>1, WrittenText, PlaceTypes
<1>4. /\ \A i \in 1..h : \A j : Around(j, i)' <=> Around(j, i)
      /\ \A i \in 1..h : \A j \in 1..(i - 1) : StillOpen(j, i)' <=> StillOpen(j, i)
      /\ \A i \in 1..(h - 1) : \A j : ClosedAt(j, i)' <=> ClosedAt(j, i)
  BY WrittenShape
<1>5. /\ \A i \in 1..(h - 1) : \A n : Declares(i, n)' <=> Declares(i, n)
      /\ \A i \in 1..h : \A n : Visible(n, i)' <=> Visible(n, i)
  BY WrittenShape
<1>6. e.op \in Closers => Level(h) > 1
  BY DEF WellPlaced
<1>7. Level(h + 1)' \in Nat /\ Level(h + 1)' >= 1
  BY <1>1, <1>3, <1>6 DEF Closers
<1>8. ASSUME NEW j, Around(j, h), Level(h + 1)' > Level(j) PROVE Around(j, h + 1)'
  <2>1. Around(j, h)' /\ j \in 1..(h - 1)
    BY <1>1, <1>4, <1>8 DEF Around
  <2>2. Level(j)' = Level(j)
    BY <1>1, <1>3, <2>1
  <2>3. \A k \in (j + 1)..h : Level(k)' > Level(j)'
    BY <2>1 DEF Around
  <2>4. \A k \in (j + 1)..(h + 1) : Level(k)' > Level(j)'
    BY <1>1, <1>8, <2>1, <2>2, <2>3
  <2> QED
    BY <1>1, <2>1, <2>4 DEF Around
<1>9. e.op \in Openers => Around(h, h + 1)'
  <2> SUFFICES ASSUME e.op \in Openers PROVE Around(h, h + 1)'
    OBVIOUS
  <2>1. Level(h + 1)' > Level(h)'
    BY <1>1, <1>3
  <2>2. \A k \in (h + 1)..(h + 1) : Level(k)' > Level(h)'
    BY <1>1, <2>1
  <2> QED
    BY <1>1, <1>2, <2>2 DEF Around, Openers
<1>10. (given \subseteq Owners)' /\ (Level(1) = 1)'
  BY <1>1, <1>3 DEF TextOK
<1>11. (\A i \in Places : Level(i) \in Nat /\ Level(i) >= 1)'
  BY <1>1, <1>3, <1>7
<1>12. (\A i \in DOMAIN body :
          /\ Op(i) \in Openers => Level(i + 1) = Level(i) + 1
          /\ Op(i) = "end" => Level(i + 1) = Level(i) - 1
          /\ Op(i) \notin Openers \cup {"end"} => Level(i + 1) = Level(i))'
  <2>1. ASSUME NEW i \in 1..(h - 1)
        PROVE  (/\ Op(i) \in Openers => Level(i + 1) = Level(i) + 1
                /\ Op(i) = "end" => Level(i + 1) = Level(i) - 1
                /\ Op(i) \notin Openers \cup {"end"} => Level(i + 1) = Level(i))'
    <3>1. i \in DOMAIN body /\ Op(i)' = Op(i) /\ Level(i)' = Level(i) /\ Level(i + 1)' = Level(i + 1)
      BY <1>1, <1>2, <1>3
    <3> QED
      BY <3>1, NextLevel DEF Openers
  <2>2. (/\ Op(h) \in Openers => Level(h + 1) = Level(h) + 1
         /\ Op(h) = "end" => Level(h + 1) = Level(h) - 1
         /\ Op(h) \notin Openers \cup {"end"} => Level(h + 1) = Level(h))'
    BY <1>1, <1>2, <1>3 DEF Openers
  <2>3. ASSUME NEW i \in 1..h PROVE i \in 1..(h - 1) \/ i = h
    BY <1>1
  <2> QED
    BY <1>1, <2>1, <2>2, <2>3
<1>13. (\A i \in Places : \A l \in 1..(Level(i) - 1) : \E j \in 1..(i - 1) : Around(j, i) /\ Level(j) = l)'
  <2>1. ASSUME NEW i \in 1..h, NEW l \in 1..(Level(i) - 1)
        PROVE  \E j \in 1..(i - 1) : Around(j, i)' /\ Level(j)' = l
    <3>1. PICK j \in 1..(i - 1) : Around(j, i) /\ Level(j) = l
      BY <1>1 DEF TextOK
    <3> QED
      BY <1>1, <1>3, <1>4, <3>1
  <2>2. ASSUME NEW l \in 1..(Level(h + 1)' - 1)
        PROVE  \E j \in 1..h : Around(j, h + 1)' /\ Level(j)' = l
    <3>1. CASE l <= Level(h) - 1
      <4>1. l \in 1..(Level(h) - 1) /\ h \in 1..h
        BY <1>1, <1>3, <3>1
      <4>2. PICK j \in 1..(h - 1) : Around(j, h) /\ Level(j) = l
        BY <1>1, <4>1 DEF TextOK
      <4>3. Around(j, h + 1)'
        BY <1>7, <1>8, <4>2
      <4> QED
        BY <1>1, <1>3, <4>2, <4>3
    <3>2. CASE l > Level(h) - 1
      <4>1. e.op \in Openers /\ l = Level(h)
        BY <1>1, <1>3, <3>2
      <4> QED
        BY <1>1, <1>3, <1>9, <4>1
    <3> QED
      BY <1>1, <1>3, <3>1, <3>2
  <2>3. ASSUME NEW i \in 1..(h + 1) PROVE (i \in 1..h /\ Level(i)' = Level(i)) \/ i = h + 1
    BY <1>1, <1>3
  <2>4. (h + 1) - 1 = h
    BY <1>1
  <2>5. ASSUME NEW i \in 1..(h + 1), NEW l \in 1..(Level(i)' - 1)
        PROVE  \E j \in 1..(i - 1) : Around(j, i)' /\ Level(j)' = l
    <3>1. CASE i \in 1..h /\ Level(i)' = Level(i)
      BY <2>1, <3>1
    <3>2. CASE i = h + 1
      BY <2>2, <2>4, <3>2
    <3> QED
      BY <2>3, <3>1, <3>2
  <2> QED
    BY <1>1, <2>5
<1>14. (\A i \in Places : \A j \in 1..(i - 1) :
            Op(j) \notin Closers /\ StillOpen(j, i) => Level(i) >= Level(j))'
  <2>1. ASSUME NEW i \in 1..h, NEW j \in 1..(i - 1), Op(j)' \notin Closers, StillOpen(j, i)'
        PROVE  Level(i)' >= Level(j)'
    <3>1. j \in 1..(h - 1) /\ j \in 1..h
      BY <1>1
    <3>2. Op(j) \notin Closers /\ StillOpen(j, i) /\ i \in Places
      BY <1>1, <1>2, <1>4, <2>1, <3>1
    <3>3. Level(i) >= Level(j)
      BY <3>2 DEF TextOK
    <3> QED
      BY <1>3, <3>1, <3>3
  <2>2. ASSUME NEW j \in 1..h, Op(j)' \notin Closers, StillOpen(j, h + 1)'
        PROVE  Level(h + 1)' >= Level(j)'
    <3>1. CASE j = h
      BY <1>1, <1>2, <1>3, <2>2, <3>1 DEF Closers
    <3>2. CASE j # h
      <4>1. j \in 1..(h - 1)
        BY <1>1, <3>2
      <4>2. StillOpen(j, h)'
        BY <1>1, <2>2, <4>1 DEF StillOpen
      <4>3. Level(h) >= Level(j)
        BY <1>1, <1>3, <2>1, <2>2, <4>1, <4>2
      <4>4. e.op \in Closers => Level(h) # Level(j)
        <5>1. h \in (j + 1)..((h + 1) - 1)
          BY <1>1, <4>1
        <5> QED
          BY <1>1, <1>2, <1>3, <2>2, <4>1, <5>1 DEF StillOpen, Closers
      <4> QED
        BY <1>1, <1>3, <4>1, <4>3, <4>4 DEF Closers
    <3> QED
      BY <3>1, <3>2
  <2>3. ASSUME NEW i \in 1..(h + 1) PROVE i \in 1..h \/ i = h + 1
    BY <1>1
  <2>4. ASSUME NEW i \in 1..(h + 1), NEW j \in 1..(i - 1), Op(j)' \notin Closers, StillOpen(j, i)'
        PROVE  Level(i)' >= Level(j)'
    <3>1. CASE i \in 1..h
      BY <2>1, <2>4, <3>1
    <3>2. CASE i = h + 1
      <4>1. j \in 1..h
        BY <1>1, <3>2
      <4> QED
        BY <2>2, <2>4, <3>2, <4>1
    <3> QED
      BY <2>3, <3>1, <3>2
  <2> QED
    BY <1>1, <2>4 DEF Closers
<1>15. (\A i \in Places : \A o \in 1..(i - 1) :
          Op(o) \in Openers => \/ Around(o, i)
                               \/ \E k \in (o + 1)..(i - 1) : Op(k) = "end" /\ ClosedAt(o, k))'
  <2>1. ASSUME NEW i \in 1..h, NEW o \in 1..(i - 1), Op(o)' \in Openers, ~Around(o, i)'
        PROVE  \E k \in (o + 1)..(i - 1) : Op(k)' = "end" /\ ClosedAt(o, k)'
    <3>1. o \in 1..(h - 1) /\ \A k \in (o + 1)..(i - 1) : k \in 1..(h - 1)
      BY <1>1
    <3>2. Op(o) \in Openers /\ ~Around(o, i) /\ i \in Places
      BY <1>1, <1>2, <1>4, <2>1, <3>1
    <3>3. PICK k \in (o + 1)..(i - 1) : Op(k) = "end" /\ ClosedAt(o, k)
      BY <3>2 DEF TextOK
    <3> QED
      BY <1>2, <1>4, <3>1, <3>3
  <2>2. ASSUME NEW o \in 1..h, Op(o)' \in Openers, ~Around(o, h + 1)'
        PROVE  \E k \in (o + 1)..h : Op(k)' = "end" /\ ClosedAt(o, k)'
    <3>1. o # h
      BY <1>2, <1>9, <2>2
    <3>2. o \in 1..(h - 1) /\ h \in 1..h
      BY <1>1, <3>1
    <3>3. CASE ~Around(o, h)'
      <4>1. PICK k \in (o + 1)..(h - 1) : Op(k)' = "end" /\ ClosedAt(o, k)'
        BY <2>1, <2>2, <3>2, <3>3
      <4> QED
        BY <1>1, <4>1
    <3>4. CASE Around(o, h)'
      <4>1. Around(o, h) /\ Level(o)' = Level(o) /\ Level(h)' = Level(h)
        BY <1>3, <1>4, <3>2, <3>4
      <4>2. Level(o) < Level(h) /\ Level(o) \in Nat
        BY <1>1, <1>3, <3>2, <4>1, AroundLevel
      <4>3. ~(Level(h + 1)' > Level(o))
        BY <1>8, <2>2, <4>1
      <4>4. e.op = "end" /\ Level(h) = Level(o) + 1
        BY <1>1, <1>3, <4>2, <4>3
      <4>5. Op(h)' = "end" /\ h \in DOMAIN body'
        BY <1>1, <1>2, <4>4
      <4>6. ClosedAt(o, h)'
        <5>1. Op(h)' \in Closers
          BY <4>5 DEF Closers
        <5>2. Level(h)' = Level(o)' + 1
          BY <4>1, <4>4
        <5> QED
          BY <3>4, <4>5, <5>1, <5>2 DEF ClosedAt, Closers
      <4> QED
        BY <1>1, <3>2, <4>5, <4>6
    <3> QED
      BY <3>3, <3>4
  <2>3. ASSUME NEW i \in 1..(h + 1) PROVE i \in 1..h \/ i = h + 1
    BY <1>1
  <2>4. ASSUME NEW i \in 1..(h + 1), NEW o \in 1..(i - 1), Op(o)' \in Openers, ~Around(o, i)'
        PROVE  \E k \in (o + 1)..(i - 1) : Op(k)' = "end" /\ ClosedAt(o, k)'
    <3>1. CASE i \in 1..h
      BY <2>1, <2>4, <3>1
    <3>2. CASE i = h + 1
      <4>1. o \in 1..h /\ i - 1 = h
        BY <1>1, <3>2
      <4> QED
        BY <2>2, <2>4, <3>2, <4>1
    <3> QED
      BY <2>3, <3>1, <3>2
  <2> QED
    BY <1>1, <2>4 DEF Openers
<1>16. ASSUME NEW n, Declares(h, n)'
       PROVE  n \notin given /\ n \in Names /\ \A j \in DOMAIN body : ~Declares(j, n)
  <2>1. e.op \in {"own", "let"} /\ e.name = n
    BY <1>2, <1>16 DEF Declares
  <2>2. New(n) /\ n \in Names
    BY <2>1 DEF WellPlaced, Pairs, Names
  <2> QED
    BY <2>2 DEF New
<1>17. (\A i, j \in DOMAIN body : \A n \in Names : Declares(i, n) /\ Declares(j, n) => i = j)'
  <2> SUFFICES ASSUME NEW i \in 1..h, NEW j \in 1..h, NEW n \in Names, Declares(i, n)', Declares(j, n)'
               PROVE  i = j
    BY <1>1
  <2>1. i \in 1..(h - 1) \/ i = h
    BY <1>1
  <2>2. j \in 1..(h - 1) \/ j = h
    BY <1>1
  <2>3. CASE i \in 1..(h - 1) /\ j \in 1..(h - 1)
    BY <1>1, <1>5, <2>3 DEF TextOK
  <2> QED
    BY <1>1, <1>5, <1>16, <2>1, <2>2, <2>3
<1>18. (\A i \in DOMAIN body : \A n \in given : ~Declares(i, n))'
  <2> SUFFICES ASSUME NEW i \in 1..h, NEW n \in given, Declares(i, n)' PROVE FALSE
    BY <1>1
  <2>1. i \in 1..(h - 1) \/ i = h
    BY <1>1
  <2> QED
    BY <1>1, <1>5, <1>16, <2>1 DEF TextOK
<1>19. (\A i \in DOMAIN body : NamesOK(i))'
  <2>1. ASSUME NEW i \in 1..(h - 1) PROVE NamesOK(i)'
    <3>1. NamesOK(i) /\ i \in 1..h /\ body'[i] = body[i] /\ Op(i)' = Op(i)
      BY <1>1, <1>2 DEF TextOK
    <3>2. \A n : Visible(n, i)' <=> Visible(n, i)
      BY <1>5, <3>1
    <3> QED
      BY <3>1, <3>2 DEF NamesOK, Names, Pairs
  <2>2. NamesOK(h)'
    <3>1. \A n : Visible(n, h)' <=> Seen(n)
      BY <1>1, <1>5 DEF Seen
    <3> QED
      BY <1>2, <3>1 DEF NamesOK, WellPlaced, Names, Pairs
  <2>3. ASSUME NEW i \in 1..h PROVE i \in 1..(h - 1) \/ i = h
    BY <1>1
  <2> QED
    BY <1>1, <2>1, <2>2, <2>3
<1>20. (\A i \in DOMAIN body : Op(i) \in Closers => Level(i) > 1)'
  <2>1. ASSUME NEW i \in 1..h, Op(i)' \in Closers PROVE Level(i)' > 1
    <3>1. i \in 1..(h - 1) \/ i = h
      BY <1>1
    <3>2. ASSUME NEW j \in 1..(h - 1), Op(j) \in Closers PROVE Level(j) > 1
      BY <1>1, <3>2 DEF TextOK
    <3>3. CASE i \in 1..(h - 1)
      BY <1>2, <1>3, <2>1, <3>2, <3>3
    <3>4. CASE i = h
      BY <1>1, <1>2, <1>3, <1>6, <2>1, <3>4
    <3> QED
      BY <3>1, <3>3, <3>4
  <2> QED
    BY <1>1, <2>1 DEF Closers
<1>21. (\A i \in DOMAIN body : Op(i) = "else" => \E o \in 1..(i - 1) : Op(o) = "if" /\ ClosedAt(o, i))'
  <2>1. ASSUME NEW i \in 1..(h - 1), Op(i)' = "else"
        PROVE  \E o \in 1..(i - 1) : Op(o)' = "if" /\ ClosedAt(o, i)'
    <3>1. Op(i) = "else" /\ i \in DOMAIN body
      BY <1>1, <1>2, <2>1
    <3>2. PICK o \in 1..(i - 1) : Op(o) = "if" /\ ClosedAt(o, i)
      BY <3>1 DEF TextOK
    <3>3. o \in 1..(h - 1)
      BY <1>1
    <3> QED
      BY <1>2, <1>4, <3>2, <3>3
  <2>2. ASSUME Op(h)' = "else" PROVE \E o \in 1..(h - 1) : Op(o)' = "if" /\ ClosedAt(o, h)'
    <3>1. e.op = "else" /\ Level(h) > 1 /\ Op(Opener(h)) = "if"
      BY <1>2, <1>6, <2>2 DEF WellPlaced, Closers
    <3>2. h \in Places /\ h \in 1..h
      BY <1>1
    <3>3. Opener(h) \in 1..(h - 1) /\ Around(Opener(h), h) /\ Level(Opener(h)) = Level(h) - 1
      BY <3>1, <3>2, OpenerAround
    <3>4. PICK o : o = Opener(h)
      OBVIOUS
    <3>5. o \in 1..(h - 1) /\ o \in 1..h /\ Around(o, h) /\ Level(o) = Level(h) - 1 /\ Op(o) = "if"
      BY <1>1, <3>1, <3>3, <3>4
    <3>6. Op(o)' = "if" /\ Around(o, h)' /\ Level(h)' = Level(o)' + 1 /\ h \in DOMAIN body'
      BY <1>1, <1>2, <1>3, <1>4, <3>2, <3>5
    <3>7. ClosedAt(o, h)'
      BY <2>2, <3>6 DEF ClosedAt, Closers
    <3> QED
      BY <3>5, <3>6, <3>7
  <2>3. ASSUME NEW i \in 1..h, Op(i)' = "else"
        PROVE  \E o \in 1..(i - 1) : Op(o)' = "if" /\ ClosedAt(o, i)'
    <3>1. i \in 1..(h - 1) \/ i = h
      BY <1>1
    <3> QED
      BY <2>1, <2>2, <2>3, <3>1
  <2> QED
    BY <1>1, <2>3
<1> QED
  BY <1>1, <1>10, <1>11, <1>12, <1>13, <1>14, <1>15, <1>17, <1>18, <1>19, <1>20, <1>21 DEF TextOK

\* The empty text is well nested.
LEMMA InitText == Init => TextOK
<1> SUFFICES ASSUME Init PROVE TextOK
  OBVIOUS
<1>1. given \subseteq Owners /\ body = <<>> /\ body \in Seq(Elem) /\ Here = 1 /\ Places = 1..1 /\ DOMAIN body = {}
  BY ViewsAssumption DEF Init, Here, Places
<1>2. Level(1) = 1
  BY <1>1 DEF Level
<1>3. \A i \in Places : i = 1
  BY <1>1
<1>4. \A i \in Places : Level(i) = 1
  BY <1>2, <1>3
<1> QED
  BY <1>1, <1>2, <1>3, <1>4 DEF TextOK

----------------------------------------------------------------------------
(* Once it is written, the text and what is said of it stay.                *)

\* Nothing said of places changes while the text stays.
LEMMA SameText ==
    ASSUME UNCHANGED <<given, body>>
    PROVE  /\ Here' = Here /\ Places' = Places
           /\ \A i : Op(i)' = Op(i) /\ Level(i)' = Level(i) /\ NamesOK(i)' = NamesOK(i)
           /\ \A i, j : /\ StillOpen(i, j)' = StillOpen(i, j)
                        /\ Around(i, j)' = Around(i, j)
                        /\ ClosedAt(i, j)' = ClosedAt(i, j)
                        /\ Visible(i, j)' = Visible(i, j)
                        /\ Declares(i, j)' = Declares(i, j)
                        /\ Mentions(i, j)' = Mentions(i, j)
           /\ \A n : Declared(n)' = Declared(n) /\ Declaration(n)' = Declaration(n) /\ ScopeOf(n)' = ScopeOf(n)
           /\ TextOK' = TextOK
<1>1. \A i : Op(i)' = Op(i) /\ Level(i)' = Level(i)
  BY DEF Op, Level
<1>2. Here' = Here /\ Places' = Places
  BY DEF Here, Places
<1>3. \A i, j : StillOpen(i, j)' = StillOpen(i, j)
  BY DEF StillOpen, Op, Level
<1>4. \A i, j : Around(i, j)' = Around(i, j)
  BY DEF Around, Op, Level
<1>5. \A i, j : ClosedAt(i, j)' = ClosedAt(i, j)
  BY DEF ClosedAt, Around, Op, Level
<1>6. \A i, j : Declares(i, j)' = Declares(i, j)
  BY DEF Declares, Op
<1>7. \A i, j : Visible(i, j)' = Visible(i, j)
  BY DEF Visible, Declares, StillOpen, Op, Level
<1>8. \A i, j : Mentions(i, j)' = Mentions(i, j)
  BY DEF Mentions, Op
<1>9. \A n : Declared(n)' = Declared(n) /\ Declaration(n)' = Declaration(n)
  BY DEF Declared, Declaration, Declares, Op
<1>10. \A n : ScopeOf(n)' = ScopeOf(n)
  BY DEF ScopeOf, Declaration, Declares, Op, Level
<1>11. \A i : NamesOK(i)' = NamesOK(i)
  BY DEF NamesOK, Visible, Declares, StillOpen, Op, Level
<1>12. TextOK' = TextOK
  BY DEF TextOK, Places, Here, Around, ClosedAt, StillOpen, Declares, NamesOK, Visible, Op, Level
<1> QED
  BY <1>1, <1>2, <1>3, <1>4, <1>5, <1>6, <1>7, <1>8, <1>9, <1>10, <1>11, <1>12

\* Nor does anything searched in it.
LEMMA SameSearches ==
    ASSUME UNCHANGED <<given, body>>
    PROVE  /\ \A i : Opener(i)' = Opener(i) /\ Remaining(i)' = Remaining(i)
           /\ \A o, i : ElsesOf(o, i)' = ElsesOf(o, i) /\ HasElse(o, i)' = HasElse(o, i)
           /\ \A o, ops : Closing(o, ops)' = Closing(o, ops)
           /\ \A i, bs : PruneAt(i, bs)' = PruneAt(i, bs)
<1>1. \A i : Opener(i)' = Opener(i)
  BY DEF Opener, Op, Level
<1>2. \A i : Remaining(i)' = Remaining(i)
  BY DEF Remaining, Op, Level
<1>3. \A o, i : ElsesOf(o, i)' = ElsesOf(o, i)
  BY DEF ElsesOf, ClosedAt, Around, Op, Level
<1>4. \A o, ops : Closing(o, ops)' = Closing(o, ops)
  BY DEF Closing, StillOpen, Op, Level
<1>5. \A o, i : HasElse(o, i)' = HasElse(o, i)
  BY DEF HasElse, Closing, StillOpen, Op, Level
<1>6. \A i, bs : PruneAt(i, bs)' = PruneAt(i, bs)
  BY DEF PruneAt, Remaining, Mentions, StillOpen, Op, Level
<1> QED
  BY <1>1, <1>2, <1>3, <1>4, <1>5, <1>6

----------------------------------------------------------------------------
(* What is known of an element before stays known.                          *)

\* An opener is above what ends it.
LEMMA OpenerBefore ==
    ASSUME TextOK, NEW i \in Places, i \in DOMAIN body, Op(i) \in Closers
    PROVE  Opener(i) \in 1..(i - 1)
BY OpenerOf

\* A step of the checker keeps the borrows before every element so far.
LEMMA StepKeepsBorrows ==
    ASSUME TextOK, CheckInv, phase = "checking", NEW p \in DOMAIN body, p = pc,
           NEW bs, NEW js, Checked(bs, js)
    PROVE  /\ UNCHANGED <<given, body>>
           /\ \A i \in 1..p : /\ BorrowsAt(i)' = BorrowsAt(i) /\ After(i)' = After(i)
                              /\ LeavingAt(i)' = LeavingAt(i) /\ LoopAt(i)' = LoopAt(i)
           /\ BorrowsAt(p + 1)' = bs /\ BorrowsAt(p) = borrows
           /\ claims' = Append(claims, borrows) /\ Len(claims) = p - 1
<1>0. /\ p \in Nat /\ p >= 1 /\ claims \in Seq(SUBSET AnyBorrow) /\ Len(claims) = p - 1
      /\ DOMAIN claims = 1..(p - 1)
  <2>1. claims \in Seq(SUBSET AnyBorrow) /\ Len(claims) = p - 1
    BY DEF CheckInv
  <2> QED
    BY <2>1, PlaceTypes
<1>1. UNCHANGED <<given, body>> /\ claims' = Append(claims, borrows) /\ borrows' = bs
  BY DEF Checked
<1>2. BorrowsAt(p) = borrows
  BY <1>0 DEF BorrowsAt
<1>3. Len(Append(claims, borrows)) = p /\ DOMAIN Append(claims, borrows) = 1..p
  BY <1>0
<1>4. BorrowsAt(p + 1)' = bs
  <2>1. p + 1 \notin DOMAIN claims'
    BY <1>0, <1>1, <1>3
  <2> QED
    BY <1>1, <2>1 DEF BorrowsAt
<1>5. ASSUME NEW i \in 1..p PROVE BorrowsAt(i)' = BorrowsAt(i)
  <2>1. i \in DOMAIN claims'
    BY <1>1, <1>3
  <2>2. CASE i = p
    <3>1. claims'[p] = borrows
      BY <1>0, <1>1
    <3> QED
      BY <1>2, <2>1, <2>2, <3>1 DEF BorrowsAt
  <2>3. CASE i # p
    <3>1. i \in DOMAIN claims
      BY <1>0, <2>3
    <3>2. claims'[i] = claims[i]
      BY <1>0, <1>1, <3>1
    <3> QED
      BY <2>1, <3>1, <3>2 DEF BorrowsAt
  <2> QED
    BY <2>2, <2>3
<1>6. ASSUME NEW i \in 1..p PROVE After(i)' = After(i)
  <2>1. BorrowsAt(i)' = BorrowsAt(i)
    BY <1>5
  <2> QED
    BY <1>1, <2>1 DEF After, PruneAt, Remaining, Mentions, StillOpen, Op, Level
<1>7. ASSUME NEW i \in 1..p PROVE LeavingAt(i)' = LeavingAt(i)
  <2>1. BorrowsAt(i)' = BorrowsAt(i)
    BY <1>5
  <2> QED
    BY <1>1, <2>1 DEF LeavingAt, Level
<1>8. ASSUME NEW i \in 1..p PROVE LoopAt(i)' = LoopAt(i)
  <2>1. After(i)' = After(i)
    BY <1>6
  <2> QED
    BY <1>1, <2>1 DEF LoopAt, Sources, Level
<1> QED
  BY <1>0, <1>1, <1>2, <1>4, <1>5, <1>6, <1>7, <1>8

\* It keeps what was concluded of them.
LEMMA StepKeepsFlow ==
    ASSUME TextOK, CheckInv, phase = "checking", NEW p \in DOMAIN body, p = pc,
           NEW bs, NEW js, Checked(bs, js), NEW i \in 1..p, NEW next
    PROVE  FlowInto(i, next)' <=> FlowInto(i, next)
<1>1. /\ UNCHANGED <<given, body>> /\ p \in Nat /\ i \in DOMAIN body /\ i \in Places /\ i \in Nat
      /\ After(i)' = After(i) /\ LoopAt(i)' = LoopAt(i)
  BY StepKeepsBorrows, PlaceTypes
<1>2. Op(i)' = Op(i) /\ body'[i] = body[i] /\ Opener(i)' = Opener(i) /\ Op(Opener(i))' = Op(Opener(i))
  BY <1>1, SameText, SameSearches DEF Op, Opener, Level
<1>3. \A s, b : Sources(s, b)' = Sources(s, b) /\ Borrowed(s, b)' = Borrowed(s, b)
  BY DEF Sources, Borrowed
<1>4. \A s, v, n : Recorded(s, v, n)' = Recorded(s, v, n)
  BY <1>1 DEF Recorded, Sources, ViewOf, ScopeOf, Declaration, Declares, Op, Level
<1>5. \A s, v : ShortLived(s, v)' = ShortLived(s, v)
  BY <1>1 DEF ShortLived, Declaration, Declares, Op
<1>6. CASE Op(i) \notin Closers
  <2>1. Op(i) # "else" /\ Op(i) # "end"
    BY <1>6 DEF Closers
  <2> QED
    BY <1>1, <1>2, <1>3, <1>4, <1>5, <2>1 DEF FlowInto, Pairs, Singles
<1>7. CASE Op(i) \in Closers
  <2>0. PICK o : o = Opener(i)
    OBVIOUS
  <2>1. o \in 1..(i - 1) /\ Opener(i)' = o
    BY <1>1, <1>2, <1>7, <2>0, OpenerBefore
  <2>2. o \in 1..p /\ \A e \in (o + 1)..(i - 1) : e \in 1..p
    BY <1>1, <2>1
  <2>3. After(o)' = After(o) /\ LeavingAt(i)' = LeavingAt(i)
    BY <2>2, StepKeepsBorrows
  <2>4. \A e \in ElsesOf(o, i) : LeavingAt(e)' = LeavingAt(e)
    BY <2>2, StepKeepsBorrows DEF ElsesOf
  <2>5. ElsesOf(o, i)' = ElsesOf(o, i) /\ HasElse(o, i)' = HasElse(o, i)
    BY <1>1, <1>2 DEF ElsesOf, ClosedAt, Around, HasElse, Closing, StillOpen, Op, Level
  <2>6. Exits(o, i)' = Exits(o, i)
    <3>1. {LeavingAt(e) : e \in ElsesOf(o, i)}' = {LeavingAt(e) : e \in ElsesOf(o, i)}
      BY <2>4, <2>5
    <3>2. Op(o)' = Op(o)
      BY <1>1 DEF Op
    <3> QED
      BY <2>3, <2>5, <3>1, <3>2 DEF Exits
  <2>7. LoopCarriedAt(o, i)' = LoopCarriedAt(o, i)
    BY <1>1, <1>2, <2>3 DEF LoopCarriedAt, Mentions, Op
  <2>8. Merge(Exits(o, i))' = Merge(Exits(o, i))
    BY <2>6 DEF Merge, Least
  <2>9. /\ Op(i) \notin Singles \cup Pairs \cup {"set", "if", "while", "for"}
        /\ Op(i) \notin {"change", "lend"}
    BY <1>7 DEF Closers, Singles, Pairs
  <2>10. \/ Op(i) = "else" /\ Op(i) # "end"
         \/ Op(i) = "end" /\ Op(i) # "else"
    BY <1>7 DEF Closers
  <2> QED
    BY <1>2, <2>0, <2>1, <2>3, <2>7, <2>8, <2>9, <2>10 DEF FlowInto
<1> QED
  BY <1>6, <1>7

\* It keeps which borrows are good.
LEMMA StepKeepsGood ==
    ASSUME TextOK, CheckInv, phase = "checking", NEW p \in DOMAIN body, p = pc,
           NEW bs, NEW js, Checked(bs, js), NEW i \in 1..(p + 1)
    PROVE  /\ \A b : GoodBorrow(b, i)' <=> GoodBorrow(b, i)
           /\ \A s : LoopsListed(i, s)' <=> LoopsListed(i, s)
<1>1. UNCHANGED <<given, body>> /\ p \in Nat /\ \A k \in 1..p : LoopAt(k)' = LoopAt(k)
  BY StepKeepsBorrows, PlaceTypes
<1>2. \A k \in 1..(i - 1) : k \in 1..p
  BY <1>1
<1>3. \A b : ViewBorrow(b)' <=> ViewBorrow(b)
  BY <1>1 DEF ViewBorrow, Declared, ScopeOf, Declaration, Declares, Op, Level
<1>4. \A b : LoopBorrow(b, i)' <=> LoopBorrow(b, i)
  BY <1>1, <1>2 DEF LoopBorrow, Declared, Declaration, Declares, Op
<1>5. \A s : LoopsListed(i, s)' <=> LoopsListed(i, s)
  BY <1>1, <1>2 DEF LoopsListed, Around, Op, Level
<1> QED
  BY <1>3, <1>4, <1>5 DEF GoodBorrow, AnyBorrow

\* It keeps what is expected of the open constructs.
LEMMA StepKeepsJoins ==
    ASSUME TextOK, CheckInv, phase = "checking", NEW p \in DOMAIN body, p = pc,
           NEW bs, NEW js, Checked(bs, js), NEW s
    PROVE  JoinsKept(p + 1, s)' <=> JoinsKept(p + 1, s)
<1>1. /\ UNCHANGED <<given, body>> /\ p \in Nat
      /\ \A k \in 1..p : After(k)' = After(k) /\ LeavingAt(k)' = LeavingAt(k)
  BY StepKeepsBorrows, PlaceTypes
<1>2. ASSUME NEW o \in 1..p PROVE KeptFor(o, p + 1)' = KeptFor(o, p + 1)
  <2>1. ElsesOf(o, p + 1)' = ElsesOf(o, p + 1)
    BY <1>1, SameSearches
  <2>2. \A e \in ElsesOf(o, p + 1) : e \in 1..p
    BY <1>1 DEF ElsesOf
  <2> QED
    BY <1>1, <2>1, <2>2 DEF KeptFor
<1>3. (p + 1) - 1 = p
  BY <1>1
<1>4. Level(p + 1)' = Level(p + 1) /\ \A o : Around(o, p + 1)' = Around(o, p + 1) /\ Level(o)' = Level(o)
  BY <1>1, SameText
<1> QED
  BY <1>2, <1>3, <1>4 DEF JoinsKept, AnyJoin, AnyBorrow

\* A step of the checker is right if what it leaves is.
LEMMA CheckedStep ==
    ASSUME TextOK, CheckInv, phase = "checking", NEW p \in DOMAIN body, p = pc,
           NEW bs, NEW js, Checked(bs, js),
           FlowInto(p, bs), \A b \in bs : GoodBorrow(b, p + 1), LoopsListed(p + 1, bs),
           JoinsKept(p + 1, js)
    PROVE  CheckInv'
<1>0. /\ p \in Nat /\ p >= 1 /\ claims \in Seq(SUBSET AnyBorrow) /\ Len(claims) = p - 1 /\ CheckedTo(p)
      /\ Level(Here) = 1 /\ storage = [o \in Owners |-> 0] /\ ref = [v \in Views |-> NoRef]
      /\ loops = <<>> /\ tail = 1 /\ p + 1 \in Places
  BY PlaceTypes DEF CheckInv
<1>1. /\ UNCHANGED <<given, body, phase, runner>> /\ claims' = Append(claims, borrows) /\ joins' = js
      /\ pc' = p + 1
  BY DEF Checked
<1>2. BorrowsAt(p) = borrows /\ BorrowsAt(p + 1)' = bs /\ \A i \in 1..p : BorrowsAt(i)' = BorrowsAt(i)
  BY StepKeepsBorrows
<1>3. borrows \in SUBSET AnyBorrow
  BY <1>0, <1>2 DEF CheckedTo, GoodBorrow
<1>4. claims' \in Seq(SUBSET AnyBorrow) /\ Len(claims') = p
  BY <1>0, <1>1, <1>3
<1>5. /\ \A i \in 1..p : FlowInto(i, BorrowsAt(i + 1))'
      /\ \A i \in 1..(p + 1) : \A b \in BorrowsAt(i)' : GoodBorrow(b, i)'
      /\ \A i \in 1..(p + 1) : LoopsListed(i, BorrowsAt(i))'
  <2>1. ASSUME NEW i \in 1..p PROVE FlowInto(i, BorrowsAt(i + 1))'
    <3> DEFINE next == IF i = p THEN bs ELSE BorrowsAt(i + 1)
    <3>1. FlowInto(i, next)
      BY <1>0 DEF CheckedTo
    <3>2. BorrowsAt(i + 1)' = next
      BY <1>0, <1>2
    <3>3. PICK n : n = next
      OBVIOUS
    <3>4. FlowInto(i, n)' /\ BorrowsAt(i + 1)' = n
      BY <3>1, <3>2, <3>3, StepKeepsFlow
    <3> QED
      BY <3>4 DEF FlowInto
  <2>2. ASSUME NEW i \in 1..(p + 1)
        PROVE  (\A b \in BorrowsAt(i)' : GoodBorrow(b, i)') /\ LoopsListed(i, BorrowsAt(i))'
    <3> DEFINE bb == IF i = p + 1 THEN bs ELSE BorrowsAt(i)
    <3>1. (\A b \in bb : GoodBorrow(b, i)) /\ LoopsListed(i, bb)
      BY <1>0 DEF CheckedTo
    <3>2. BorrowsAt(i)' = bb
      BY <1>0, <1>2
    <3>3. PICK n : n = bb
      OBVIOUS
    <3>4. (\A b \in n : GoodBorrow(b, i)') /\ LoopsListed(i, n)' /\ BorrowsAt(i)' = n
      BY <3>1, <3>2, <3>3, StepKeepsGood
    <3> QED
      BY <3>4 DEF LoopsListed
  <2> QED
    BY <2>1, <2>2
<1>6. CheckedTo(pc)'
  <2>1. pc' = p + 1 /\ (p + 1) - 1 = p
    BY <1>0, <1>1
  <2> QED
    BY <1>5, <2>1 DEF CheckedTo
<1>7. JoinsKept(pc, joins)'
  <2>1. PICK s : s = js
    OBVIOUS
  <2>2. JoinsKept(p + 1, s)' /\ joins' = s /\ pc' = p + 1
    BY <1>1, <2>1, StepKeepsJoins
  <2> QED
    BY <2>2 DEF JoinsKept
<1>8. Places' = Places /\ Level(Here)' = 1
  BY <1>0, <1>1, SameText DEF Level, Here
<1> QED
  BY <1>0, <1>1, <1>4, <1>6, <1>7, <1>8 DEF CheckInv, runner, NoRef

----------------------------------------------------------------------------
(* Good borrows.                                                            *)

\* A good borrow is good further down.
LEMMA GoodLater ==
    ASSUME TextOK, NEW i \in Nat, NEW j \in Nat, i <= j, NEW b, GoodBorrow(b, i)
    PROVE  GoodBorrow(b, j)
BY DEF GoodBorrow, LoopBorrow

\* A borrow is a view's or a loop's, by its name.
LEMMA GoodView ==
    ASSUME TextOK, NEW i, NEW b, GoodBorrow(b, i)
    PROVE  /\ b.view \in Views => ViewBorrow(b)
           /\ b.view \notin Views => b.view \in Nat /\ LoopBorrow(b, i)
           /\ b \in AnyBorrow
<1>1. b \in AnyBorrow /\ (ViewBorrow(b) \/ LoopBorrow(b, i))
  BY DEF GoodBorrow
<1>2. ViewBorrow(b) => b.view \in Views
  BY DEF ViewBorrow
<1>3. LoopBorrow(b, i) => b.view \in Nat
  BY DEF LoopBorrow
<1> QED
  BY <1>1, <1>2, <1>3, ViewsApart

\* Pruning only forgets, and never a loop's borrow.
LEMMA PruneKeeps ==
    ASSUME NEW i, NEW bs
    PROVE  /\ PruneAt(i, bs) \subseteq bs
           /\ \A b \in bs : b.lasting => b \in PruneAt(i, bs)
BY DEF PruneAt

\* What a name stands for was declared before it is named.
LEMMA SourcesDeclared ==
    ASSUME TextOK, NEW i \in Places, NEW n \in Names, Visible(n, i),
           NEW bs, \A b \in bs : GoodBorrow(b, i)
    PROVE  \A o \in Sources(bs, n) : o \in Owners /\ Declared(o) /\ Declaration(o) \in Nat /\ Declaration(o) < i
<1>1. CASE n \in Owners
  BY <1>1, VisibleName DEF Sources
<1>2. CASE n \notin Owners
  <2>1. n \in Views /\ Declaration(n) \in Nat /\ Declaration(n) < i
    BY <1>2, VisibleName DEF Names
  <2>2. TAKE o \in Sources(bs, n)
  <2>3. PICK b \in bs : b.view = n /\ o \in b.sources
    BY <1>2, <2>2 DEF Sources
  <2>4. ViewBorrow(b) /\ b \in AnyBorrow
    BY <2>1, <2>3, GoodView
  <2>5. Declared(o) /\ Declaration(o) < Declaration(n) /\ o \in Owners
    BY <2>3, <2>4 DEF ViewBorrow, AnyBorrow
  <2>6. Declaration(o) \in Nat
    BY <2>5, DeclarationType, PlaceTypes
  <2> QED
    BY <2>1, <2>5, <2>6, PlaceTypes
<1> QED
  BY <1>1, <1>2

\* What a for loop borrows is good in its body.
LEMMA LoopAtGood ==
    ASSUME TextOK, NEW i \in DOMAIN body, Op(i) = "for", \A b \in BorrowsAt(i) : GoodBorrow(b, i)
    PROVE  GoodBorrow(LoopAt(i), i + 1) /\ LoopAt(i).view = i /\ LoopAt(i).scope = Level(i) /\ LoopAt(i).lasting
<1>1. i \in Places /\ i \in Nat /\ Level(i) \in Nat /\ NamesOK(i)
  BY PlaceTypes DEF TextOK
<1>2. body[i].from \in Names /\ Visible(body[i].from, i)
  BY <1>1 DEF NamesOK
<1>3. \A b \in After(i) : GoodBorrow(b, i)
  BY PruneKeeps DEF After
<1>4. \A o \in Sources(After(i), body[i].from) : o \in Owners /\ Declared(o) /\ Declaration(o) < i
  BY <1>1, <1>2, <1>3, SourcesDeclared
<1>5. LoopAt(i) \in AnyBorrow
  BY <1>1, <1>4 DEF LoopAt, AnyBorrow
<1>6. /\ LoopAt(i).view = i /\ LoopAt(i).sources = Sources(After(i), body[i].from)
      /\ LoopAt(i).scope = Level(i) /\ LoopAt(i).lasting
  BY DEF LoopAt
<1>7. i \in 1..((i + 1) - 1)
  BY <1>1, PlaceTypes
<1>8. LoopBorrow(LoopAt(i), i + 1)
  BY <1>4, <1>6, <1>7 DEF LoopBorrow
<1> QED
  BY <1>5, <1>6, <1>8 DEF GoodBorrow

----------------------------------------------------------------------------
(* The join of the paths into a place.                                      *)

\* The least of one number.
LEMMA LeastOne ==
    ASSUME NEW S, NEW x \in Nat, \A y \in S : y = x, S # {}
    PROVE  Least(S) = x
<1>1. S = {x}
  OBVIOUS
<1>2. Least(S) \in S
  BY <1>1, LeastIs
<1> QED
  BY <1>2

\* A join keeps good borrows, loses no source, and leaves a loop's borrow as it is.
LEMMA MergeIs ==
    ASSUME TextOK, NEW i, NEW X, \A b \in UNION X : GoodBorrow(b, i)
    PROVE  /\ \A c \in Merge(X) : GoodBorrow(c, i)
           /\ \A b \in UNION X : \E c \in Merge(X) : c.view = b.view /\ b.sources \subseteq c.sources
           /\ \A b \in UNION X : b.view \in Nat => b \in Merge(X)
<1> DEFINE all == UNION X
           Of(v) == {b \in all : b.view = v}
           C(v) == [view    |-> v,
                    sources |-> UNION {b.sources : b \in Of(v)},
                    scope   |-> Least({b.scope : b \in Of(v)}),
                    lasting |-> \E b \in Of(v) : b.lasting]
<1>1. Merge(X) = {C(v) : v \in {b.view : b \in all}}
  BY DEF Merge
<1>2. ASSUME NEW b \in all, b.view \in Views
      PROVE  GoodBorrow(C(b.view), i)
  <2> DEFINE v == b.view
  <2>1. \A c \in Of(v) : ViewBorrow(c) /\ c \in AnyBorrow
    BY <1>2, GoodView
  <2>2. b \in Of(v) /\ ViewBorrow(b) /\ b \in AnyBorrow
    BY <2>1
  <2>3. b.scope \in Nat /\ b.scope = ScopeOf(v)
    BY <2>2 DEF ViewBorrow, AnyBorrow
  <2>4. \A s \in {c.scope : c \in Of(v)} : s = ScopeOf(v)
    BY <2>1 DEF ViewBorrow
  <2>5. {c.scope : c \in Of(v)} # {}
    BY <2>2
  <2>6. C(v).scope = ScopeOf(v)
    <3> HIDE DEF Of
    <3>1. Least({c.scope : c \in Of(v)}) = ScopeOf(v)
      BY <2>3, <2>4, <2>5, LeastOne
    <3> QED
      BY <3>1
  <2>7. C(v).lasting = FALSE
    <3>1. \A c \in Of(v) : c.lasting = FALSE
      BY <2>1 DEF ViewBorrow
    <3> QED
      BY <3>1
  <2>8. \A o \in C(v).sources : o \in Owners /\ Declared(o) /\ Declaration(o) < Declaration(v)
    BY <2>1 DEF ViewBorrow, AnyBorrow
  <2>9. C(v).view = v
    OBVIOUS
  <2>10. C(v) \in AnyBorrow
    <3>1. C(v) = [view |-> C(v).view, sources |-> C(v).sources, scope |-> C(v).scope, lasting |-> C(v).lasting]
      OBVIOUS
    <3>2. C(v).sources \in SUBSET Owners
      BY <2>8
    <3> HIDE DEF C
    <3>3. C(v).view \in Views \cup Nat /\ C(v).scope \in Nat /\ C(v).lasting \in BOOLEAN
      BY <1>2, <2>3, <2>6, <2>7, <2>9
    <3> QED
      BY <3>1, <3>2, <3>3 DEF AnyBorrow
  <2>11. ViewBorrow(C(v))
    <3> HIDE DEF C
    <3> QED
      BY <1>2, <2>2, <2>6, <2>7, <2>8, <2>9 DEF ViewBorrow
  <2> QED
    BY <2>10, <2>11 DEF GoodBorrow
<1>3. ASSUME NEW b \in all, b.view \notin Views
      PROVE  C(b.view) = b
  <2> DEFINE v == b.view
  <2>1. \A c \in Of(v) : c = LoopAt(v) /\ c \in AnyBorrow
    BY <1>3, GoodView DEF LoopBorrow
  <2>2. b \in Of(v)
    OBVIOUS
  <2>3. Of(v) = {b}
    BY <2>1, <2>2
  <2>4. C(v).scope = b.scope
    <3>1. b.scope \in Nat
      BY <2>1, <2>2 DEF AnyBorrow
    <3>2. \A s \in {c.scope : c \in Of(v)} : s = b.scope
      BY <2>3
    <3>3. {c.scope : c \in Of(v)} # {}
      BY <2>2
    <3> HIDE DEF Of
    <3>4. Least({c.scope : c \in Of(v)}) = b.scope
      BY <3>1, <3>2, <3>3, LeastOne
    <3> QED
      BY <3>4
  <2>5. C(v).sources = b.sources
    BY <2>3
  <2>6. C(v).lasting = b.lasting
    <3>1. b.lasting \in BOOLEAN
      BY <2>1, <2>2 DEF AnyBorrow
    <3>2. C(v).lasting = \E c \in {b} : c.lasting
      BY <2>3
    <3> QED
      BY <3>1, <3>2
  <2>7. b = [view |-> b.view, sources |-> b.sources, scope |-> b.scope, lasting |-> b.lasting]
    BY <2>1, <2>2 DEF AnyBorrow
  <2>8. C(v) = [view |-> v, sources |-> C(v).sources, scope |-> C(v).scope, lasting |-> C(v).lasting]
    OBVIOUS
  <2> HIDE DEF C
  <2> QED
    BY <2>4, <2>5, <2>6, <2>7, <2>8
<1>4. \A b \in all : C(b.view) \in Merge(X) /\ C(b.view).view = b.view /\ b.sources \subseteq C(b.view).sources
  BY <1>1
<1>5. ASSUME NEW c \in Merge(X)
      PROVE  \E b \in all : c = C(b.view)
  <2>1. PICK v \in {b.view : b \in all} : c = C(v)
    BY <1>1
  <2>2. PICK b \in all : v = b.view
    OBVIOUS
  <2> HIDE DEF C
  <2> QED
    BY <2>1, <2>2
<1> HIDE DEF C
<1>6. \A c \in Merge(X) : GoodBorrow(c, i)
  BY <1>2, <1>3, <1>5
<1>7. \A b \in all : b.view \in Nat => b \in Merge(X)
  <2>1. TAKE b \in all
  <2>2. HAVE b.view \in Nat
  <2>3. b.view \notin Views
    BY <2>2, ViewsApart
  <2> QED
    BY <1>3, <1>4, <2>3
<1> QED
  BY <1>4, <1>6, <1>7

----------------------------------------------------------------------------
(* What each element leaves for the next one.                               *)

\* The loops around an element's successor stay listed.
LEMMA LoopsCarry ==
    ASSUME TextOK, NEW p \in DOMAIN body, Op(p) \notin Closers, LoopsListed(p, BorrowsAt(p)),
           NEW bs, \A b \in After(p) : b.view \in Nat => b \in bs, Op(p) = "for" => LoopAt(p) \in bs
    PROVE  LoopsListed(p + 1, bs)
<1>1. p \in Nat
  BY PlaceTypes
<1>2. SUFFICES ASSUME NEW o \in 1..p, Op(o) = "for", Around(o, p + 1) PROVE LoopAt(o) \in bs
  BY <1>1 DEF LoopsListed
<1>3. CASE o # p
  <2>1. Around(o, p) /\ o \in 1..(p - 1)
    BY <1>1, <1>2, <1>3, AroundNext
  <2>2. LoopAt(o) \in BorrowsAt(p)
    BY <1>2, <2>1 DEF LoopsListed
  <2>3. LoopAt(o).lasting /\ LoopAt(o).view = o
    BY DEF LoopAt
  <2>4. LoopAt(o) \in After(p)
    BY <2>2, <2>3, PruneKeeps DEF After
  <2> QED
    BY <2>3, <2>4
<1> QED
  BY <1>2, <1>3

\* An element that opens and ends nothing leaves the open constructs.
LEMMA JoinsPlain ==
    ASSUME TextOK, NEW p \in DOMAIN body, Op(p) \notin Openers \cup Closers, NEW js, JoinsKept(p, js)
    PROVE  JoinsKept(p + 1, js)
<1>1. p \in Nat /\ Level(p + 1) = Level(p)
  BY PlaceTypes, NextLevel DEF Openers, Closers
<1>2. SUFFICES ASSUME NEW o \in 1..p, Around(o, p + 1) PROVE js[Level(o)] = KeptFor(o, p + 1)
  BY <1>1 DEF JoinsKept
<1>3. o # p
  BY <1>1, <1>2, AroundNext
<1>4. Around(o, p) /\ o \in 1..(p - 1)
  BY <1>1, <1>2, <1>3, AroundNext
<1>5. ElsesOf(o, p + 1) = ElsesOf(o, p)
  BY <1>1 DEF ElsesOf, Closers
<1> QED
  BY <1>4, <1>5 DEF JoinsKept, KeptFor

\* Good borrows are borrows.
LEMMA GoodAre ==
    ASSUME NEW i, NEW bs, \A b \in bs : GoodBorrow(b, i)
    PROVE  bs \in SUBSET AnyBorrow
BY DEF GoodBorrow

\* An opener keeps the borrows at its entry.
LEMMA JoinsOpen ==
    ASSUME TextOK, NEW p \in DOMAIN body, Op(p) \in Openers, NEW js, JoinsKept(p, js),
           \A b \in BorrowsAt(p) : GoodBorrow(b, p)
    PROVE  JoinsKept(p + 1, Append(js, [entry |-> After(p), exits |-> {}]))
<1> DEFINE top == [entry |-> After(p), exits |-> {}]
           ks == Append(js, top)
<1>1. p \in Nat /\ Level(p + 1) = Level(p) + 1 /\ p \in Places /\ Level(p) \in Nat /\ Level(p) >= 1
  BY PlaceTypes, NextLevel DEF Openers, Closers
<1>2. js \in Seq(AnyJoin) /\ Len(js) = Level(p) - 1
  BY DEF JoinsKept
<1>3. After(p) \in SUBSET AnyBorrow
  BY PruneKeeps, GoodAre DEF After
<1>4. top \in AnyJoin
  BY <1>3 DEF AnyJoin
<1>5. ks \in Seq(AnyJoin) /\ Len(ks) = Level(p + 1) - 1
  BY <1>1, <1>2, <1>4
<1> HIDE DEF ks
<1>6. SUFFICES ASSUME NEW o \in 1..p, Around(o, p + 1) PROVE ks[Level(o)] = KeptFor(o, p + 1)
  <2>1. (p + 1) - 1 = p
    BY <1>1
  <2> QED
    BY <1>5, <2>1 DEF JoinsKept, ks
<1> USE DEF ks
<1>7. CASE o = p
  <2>1. ElsesOf(p, p + 1) = {}
    BY <1>1 DEF ElsesOf
  <2>2. KeptFor(p, p + 1) = top
    BY <2>1 DEF KeptFor
  <2> QED
    BY <1>1, <1>2, <1>4, <1>7, <2>2
<1>8. CASE o # p
  <2>1. Around(o, p) /\ o \in 1..(p - 1)
    BY <1>1, <1>6, <1>8, AroundNext
  <2>2. ElsesOf(o, p + 1) = ElsesOf(o, p)
    BY <1>1 DEF ElsesOf, Closers, Openers
  <2>3. Level(o) \in 1..Len(js)
    BY <1>1, <1>2, <2>1, AroundLevel, PlaceTypes
  <2>4. ks[Level(o)] = js[Level(o)]
    BY <1>2, <1>4, <2>3
  <2> QED
    BY <2>1, <2>2, <2>4 DEF JoinsKept, KeptFor
<1> QED
  BY <1>7, <1>8

\* What the checker keeps for the innermost construct.
LEMMA TopKept ==
    ASSUME TextOK, NEW p \in DOMAIN body, Op(p) \in Closers, NEW js, JoinsKept(p, js), NEW o, o = Opener(p)
    PROVE  /\ Len(js) \in Nat /\ Len(js) >= 1 /\ Level(o) = Len(js) /\ Level(p) = Len(js) + 1
           /\ js[Len(js)] = KeptFor(o, p)
           /\ SubSeq(js, 1, Len(js) - 1) \in Seq(AnyJoin)
           /\ Len(SubSeq(js, 1, Len(js) - 1)) = Len(js) - 1
           /\ \A q \in 1..(p - 1) : Around(q, p) /\ q # o =>
                 /\ Level(q) \in 1..(Len(js) - 1) /\ q < o /\ Around(q, o)
                 /\ SubSeq(js, 1, Len(js) - 1)[Level(q)] = KeptFor(q, p)
           /\ o \in 1..(p - 1) /\ ClosedAt(o, p) /\ Around(o, p) /\ Op(o) \in Openers /\ o \in DOMAIN body
<1>1. /\ o \in 1..(p - 1) /\ ClosedAt(o, p) /\ Around(o, p) /\ Op(o) \in Openers /\ o \in DOMAIN body
      /\ Level(o) = Level(p) - 1
  BY OpenerOf
<1>2. p \in Nat /\ p \in Places /\ o \in Nat /\ o \in Places /\ Level(o) \in Nat /\ Level(o) >= 1 /\ Level(p) \in Nat
  BY <1>1, PlaceTypes
<1>3. js \in Seq(AnyJoin) /\ Len(js) = Level(p) - 1
  BY DEF JoinsKept
<1>4. Len(js) \in Nat /\ Len(js) >= 1 /\ Level(o) = Len(js) /\ Level(p) = Len(js) + 1
  BY <1>1, <1>2, <1>3
<1>5. js[Len(js)] = KeptFor(o, p)
  BY <1>1, <1>4 DEF JoinsKept
<1> DEFINE below == SubSeq(js, 1, Len(js) - 1)
<1>6. below \in Seq(AnyJoin) /\ Len(below) = Len(js) - 1 /\ \A k \in 1..(Len(js) - 1) : below[k] = js[k]
  BY <1>3, <1>4
<1>7. ASSUME NEW q \in 1..(p - 1), Around(q, p), q # o
      PROVE  /\ Level(q) \in 1..(Len(js) - 1) /\ q < o /\ Around(q, o)
             /\ below[Level(q)] = KeptFor(q, p)
  <2>1. Level(q) # Level(o) /\ q \in Places /\ Level(q) < Level(p)
    BY <1>1, <1>2, <1>7, Nested, AroundLevel
  <2>2. Level(q) \in Nat /\ Level(q) >= 1
    BY <2>1, PlaceTypes
  <2>3. Level(q) \in 1..(Len(js) - 1)
    BY <1>4, <2>1, <2>2
  <2>4. ~(o < q)
    <3>1. o < q => Level(o) < Level(q)
      BY <1>1, <1>2, <1>7, Nested
    <3> QED
      BY <1>4, <2>1, <2>2, <3>1
  <2>5. q < o
    BY <1>2, <1>7, <2>4
  <2>6. Around(q, o)
    BY <1>1, <1>2, <1>7, <2>5, Nested
  <2>7. js[Level(q)] = KeptFor(q, p)
    BY <1>7 DEF JoinsKept
  <2> QED
    BY <1>6, <2>3, <2>5, <2>6, <2>7
<1> QED
  BY <1>1, <1>4, <1>5, <1>6, <1>7

\* An else keeps those that leave its arm.
LEMMA JoinsElse ==
    ASSUME TextOK, NEW p \in DOMAIN body, Op(p) = "else", NEW js, JoinsKept(p, js), NEW top, top = js[Len(js)],
           \A b \in BorrowsAt(p) : GoodBorrow(b, p)
    PROVE  JoinsKept(p + 1, Append(SubSeq(js, 1, Len(js) - 1), [top EXCEPT !.exits = @ \cup {LeavingAt(p)}]))
<1> DEFINE below == SubSeq(js, 1, Len(js) - 1)
           new == [top EXCEPT !.exits = @ \cup {LeavingAt(p)}]
           ks == Append(below, new)
<1>0. PICK o : o = Opener(p)
  OBVIOUS
<1>1. Op(p) \in Closers /\ p \in Nat /\ p \in Places /\ Level(p) \in Nat /\ Level(p + 1) = Level(p)
  BY PlaceTypes, NextLevel DEF Closers, Openers
<1>2. /\ Len(js) \in Nat /\ Len(js) >= 1 /\ Level(o) = Len(js) /\ Level(p) = Len(js) + 1
      /\ top = KeptFor(o, p) /\ below \in Seq(AnyJoin) /\ Len(below) = Len(js) - 1
      /\ \A q \in 1..(p - 1) : Around(q, p) /\ q # o =>
           Level(q) \in 1..(Len(js) - 1) /\ below[Level(q)] = KeptFor(q, p)
      /\ o \in 1..(p - 1) /\ ClosedAt(o, p)
  BY <1>0, <1>1, TopKept
<1>3. top \in AnyJoin
  BY <1>2 DEF JoinsKept
<1>4. LeavingAt(p) \in SUBSET AnyBorrow
  BY GoodAre DEF LeavingAt
<1>5. new = [entry |-> top.entry, exits |-> top.exits \cup {LeavingAt(p)}] /\ new \in AnyJoin
  <2>1. top = [entry |-> top.entry, exits |-> top.exits]
    BY <1>3 DEF AnyJoin
  <2>2. top.entry \in SUBSET AnyBorrow /\ top.exits \in SUBSET (SUBSET AnyBorrow)
    BY <1>3 DEF AnyJoin
  <2>3. new \in AnyJoin /\ new.entry = top.entry /\ new.exits = top.exits \cup {LeavingAt(p)}
    BY <1>3, <1>4, <2>2 DEF AnyJoin
  <2> HIDE DEF new
  <2> QED
    BY <1>4, <2>2, <2>3 DEF AnyJoin
<1>6. ks \in Seq(AnyJoin) /\ Len(ks) = Level(p + 1) - 1
  BY <1>1, <1>2, <1>5
<1> HIDE DEF new, ks, below
<1>7. SUFFICES ASSUME NEW q \in 1..p, Around(q, p + 1) PROVE ks[Level(q)] = KeptFor(q, p + 1)
  <2>1. (p + 1) - 1 = p
    BY <1>1
  <2> QED
    BY <1>6, <2>1 DEF JoinsKept, ks, new, below
<1> USE DEF ks
<1>8. Around(q, p) /\ q \in 1..(p - 1)
  <2>1. q # p
    BY <1>1, <1>7, AroundNext DEF Openers
  <2> QED
    BY <1>1, <1>7, <2>1, AroundNext
<1>9. CASE q = o
  <2>1. ElsesOf(o, p + 1) = ElsesOf(o, p) \cup {p}
    BY <1>1, <1>2 DEF ElsesOf
  <2>2. {LeavingAt(e) : e \in ElsesOf(o, p + 1)} = {LeavingAt(e) : e \in ElsesOf(o, p)} \cup {LeavingAt(p)}
    BY <2>1
  <2>3. KeptFor(o, p + 1) = new
    <3>1. top.entry = After(o) /\ top.exits = {LeavingAt(e) : e \in ElsesOf(o, p)}
      BY <1>2 DEF KeptFor
    <3> QED
      BY <1>5, <2>2, <3>1 DEF KeptFor
  <2>4. ks[Len(js)] = new
    BY <1>2, <1>5
  <2> QED
    BY <1>2, <1>9, <2>3, <2>4
<1>10. CASE q # o
  <2>1. ~ClosedAt(q, p)
    BY <1>0, <1>10, OpenerIs
  <2>2. ElsesOf(q, p + 1) = ElsesOf(q, p)
    BY <1>1, <2>1 DEF ElsesOf
  <2>3. Level(q) \in 1..(Len(js) - 1) /\ below[Level(q)] = KeptFor(q, p)
    BY <1>2, <1>8, <1>10
  <2>4. ks[Level(q)] = below[Level(q)]
    BY <1>2, <1>5, <2>3
  <2> QED
    BY <2>2, <2>3, <2>4 DEF KeptFor
<1> QED
  BY <1>9, <1>10

\* An end forgets its construct.
LEMMA JoinsEnd ==
    ASSUME TextOK, NEW p \in DOMAIN body, Op(p) = "end", NEW js, JoinsKept(p, js)
    PROVE  JoinsKept(p + 1, SubSeq(js, 1, Len(js) - 1))
<1> DEFINE below == SubSeq(js, 1, Len(js) - 1)
<1>0. PICK o : o = Opener(p)
  OBVIOUS
<1>1. Op(p) \in Closers /\ p \in Nat /\ p \in Places /\ Level(p) \in Nat /\ Level(p + 1) = Level(p) - 1
  BY PlaceTypes, NextLevel DEF Closers, Openers
<1>2. /\ Len(js) \in Nat /\ Len(js) >= 1 /\ Level(o) = Len(js) /\ Level(p) = Len(js) + 1
      /\ below \in Seq(AnyJoin) /\ Len(below) = Len(js) - 1
      /\ \A q \in 1..(p - 1) : Around(q, p) /\ q # o =>
           Level(q) \in 1..(Len(js) - 1) /\ below[Level(q)] = KeptFor(q, p)
  BY <1>0, <1>1, TopKept
<1> HIDE DEF below
<1>3. SUFFICES ASSUME NEW q \in 1..p, Around(q, p + 1) PROVE below[Level(q)] = KeptFor(q, p + 1)
  <2>1. (p + 1) - 1 = p
    BY <1>1
  <2> QED
    BY <1>1, <1>2, <2>1 DEF JoinsKept, below
<1>4. Around(q, p) /\ Level(q) # Level(o) /\ q \in 1..(p - 1)
  <2>1. q # p
    BY <1>1, <1>3, AroundNext DEF Openers
  <2> QED
    BY <1>1, <1>2, <1>3, <2>1, AroundNext
<1>5. ElsesOf(q, p + 1) = ElsesOf(q, p)
  BY <1>1 DEF ElsesOf
<1> QED
  BY <1>2, <1>4, <1>5 DEF KeptFor

----------------------------------------------------------------------------
(* The checker's steps.                                                     *)

\* What is known where an element is checked.
LEMMA Checking ==
    ASSUME TextOK, CheckInv, phase = "checking", NEW p \in DOMAIN body, p = pc
    PROVE  /\ BorrowsAt(p) = borrows /\ Prune(borrows) = After(p) /\ Leaving = LeavingAt(p)
           /\ \A b \in BorrowsAt(p) : GoodBorrow(b, p)
           /\ \A b \in After(p) : GoodBorrow(b, p) /\ GoodBorrow(b, p + 1)
           /\ LoopsListed(p, BorrowsAt(p)) /\ JoinsKept(p, joins) /\ CheckedTo(p)
           /\ p \in Nat /\ p \in Places /\ NamesOK(p)
           /\ \A n : Sources(Prune(borrows), n) = Sources(After(p), n)
<1>1. p \in Nat /\ p \in Places /\ NamesOK(p)
  BY PlaceTypes DEF TextOK
<1>2. claims \in Seq(SUBSET AnyBorrow) /\ Len(claims) = p - 1 /\ CheckedTo(p) /\ JoinsKept(p, joins)
  BY DEF CheckInv
<1>3. BorrowsAt(p) = borrows
  BY <1>1, <1>2 DEF BorrowsAt
<1>4. Prune(borrows) = After(p) /\ Leaving = LeavingAt(p)
  BY <1>3 DEF Prune, After, PruneAt, Deferred, Scope, Leaving, LeavingAt
<1>5. (\A b \in BorrowsAt(p) : GoodBorrow(b, p)) /\ LoopsListed(p, BorrowsAt(p))
  BY <1>1, <1>2 DEF CheckedTo, Places
<1>6. \A b \in After(p) : GoodBorrow(b, p) /\ GoodBorrow(b, p + 1)
  BY <1>1, <1>5, PruneKeeps, GoodLater DEF After
<1> QED
  BY <1>1, <1>2, <1>3, <1>4, <1>5, <1>6

\* An element that lends no view.
LEMMA CheckSingle ==
    ASSUME TextOK, CheckInv, phase = "checking", NEW p \in DOMAIN body, p = pc,
           Op(p) \in Singles, Op(p) \in {"change", "lend"} => ~Borrowed(After(p), body[p].name),
           Checked(Prune(borrows), joins)
    PROVE  CheckInv'
<1>1. Op(p) \notin Openers \cup Closers /\ Op(p) \notin Pairs \cup {"if", "while", "for", "else", "end", "set"}
  BY DEF Singles, Openers, Closers, Pairs
<1>2. FlowInto(p, After(p))
  BY <1>1 DEF FlowInto
<1>3. LoopsListed(p + 1, After(p))
  BY <1>1, Checking, LoopsCarry
<1>4. JoinsKept(p + 1, joins)
  BY <1>1, Checking, JoinsPlain
<1> QED
  BY <1>2, <1>3, <1>4, Checking, CheckedStep

\* A view's new borrow.
LEMMA RecordGood ==
    ASSUME TextOK, NEW p \in DOMAIN body, Op(p) \in Pairs, \A b \in After(p) : GoodBorrow(b, p),
           Op(p) = "set" => ~ShortLived(body[p].name, Sources(After(p), body[p].from)),
           NEW v, v = body[p].name
    PROVE  /\ GoodBorrow(ViewOf(v, Sources(After(p), body[p].from), ScopeOf(v)), p + 1)
           /\ v \in Views /\ Declared(v)
<1>1. p \in Nat /\ p \in Places /\ NamesOK(p)
  BY PlaceTypes DEF TextOK
<1>2. v \in Views /\ body[p].from \in Names /\ body[p].from # v /\ Visible(body[p].from, p)
  BY <1>1 DEF NamesOK
<1> DEFINE ss == Sources(After(p), body[p].from)
<1>3. \A o \in ss : o \in Owners /\ Declared(o) /\ Declaration(o) \in Nat /\ Declaration(o) < p
  BY <1>1, <1>2, SourcesDeclared
<1>4. Declared(v) /\ Declaration(v) \in 1..p /\ Declaration(v) \in DOMAIN body /\ body[Declaration(v)].name = v
  <2>1. CASE Op(p) = "let"
    <3>1. Declares(p, v)
      BY <2>1 DEF Declares
    <3>2. Declaration(v) = p /\ Declared(v)
      BY <3>1, DeclarationIs
    <3> QED
      BY <1>1, <3>2, PlaceTypes
  <2>2. CASE Op(p) = "set"
    <3>1. Visible(v, p)
      BY <1>1, <2>2 DEF NamesOK
    <3> QED
      BY <1>1, <1>2, <3>1, VisibleView, VisibleName
  <2> QED
    BY <2>1, <2>2 DEF Pairs
<1>5. \A o \in ss : Declaration(o) < Declaration(v)
  <2>1. CASE Op(p) = "let"
    <3>1. Declaration(v) = p
      <4>1. Declares(p, v)
        BY <2>1 DEF Declares
      <4> QED
        BY <1>1, <4>1, DeclarationIs
    <3> QED
      BY <1>3, <3>1
  <2>2. CASE Op(p) = "set"
    <3>1. TAKE o \in ss
    <3>2. ~(Declaration(o) > Declaration(v))
      BY <2>2, <3>1 DEF ShortLived
    <3>3. Declaration(o) # Declaration(v)
      <4>1. CASE o \in given
        <5>1. Declaration(o) = 0
          BY <4>1 DEF Declaration
        <5> QED
          BY <1>1, <1>4, <5>1
      <4>2. CASE o \notin given
        <5>1. PICK j \in DOMAIN body : Declares(j, o)
          BY <1>3, <3>1, <4>2 DEF Declared
        <5>2. Declaration(o) = j /\ body[j].name = o
          BY <5>1, DeclarationIs DEF Declares
        <5>3. o # v
          BY <1>2, <1>3, <3>1, ViewsApart
        <5> QED
          BY <1>4, <5>2, <5>3
      <4> QED
        BY <4>1, <4>2
    <3> QED
      BY <1>3, <1>4, <3>1, <3>2, <3>3
  <2> QED
    BY <2>1, <2>2 DEF Pairs
<1>6. ScopeOf(v) \in Nat
  <2>1. Level(Declaration(v)) \in Nat /\ Level(Declaration(v)) >= 1
    BY <1>4, PlaceTypes
  <2>2. v \notin given
    BY <1>2, ViewsApart
  <2> QED
    BY <2>1, <2>2 DEF ScopeOf
<1> HIDE DEF ss
<1>7. ViewOf(v, ss, ScopeOf(v)) \in AnyBorrow
  BY <1>2, <1>3, <1>6 DEF AnyBorrow, ViewOf
<1>8. ViewBorrow(ViewOf(v, ss, ScopeOf(v)))
  BY <1>2, <1>3, <1>4, <1>5 DEF ViewBorrow, ViewOf
<1> QED
  BY <1>2, <1>4, <1>7, <1>8 DEF GoodBorrow, ss

\* An element that lends a view something.
LEMMA CheckPair ==
    ASSUME TextOK, CheckInv, phase = "checking", NEW p \in DOMAIN body, p = pc,
           Op(p) \in Pairs, Op(p) = "set" => ~ShortLived(body[p].name, Sources(After(p), body[p].from)),
           Checked(Recorded(Prune(borrows), body[p].name, body[p].from), joins)
    PROVE  CheckInv'
<1> DEFINE v == body[p].name
           next == Recorded(After(p), v, body[p].from)
<1>1. Op(p) \notin Openers \cup Closers /\ Op(p) \notin Singles \cup {"if", "while", "for", "else", "end"}
  BY DEF Singles, Openers, Closers, Pairs
<1>2. FlowInto(p, next)
  BY <1>1 DEF FlowInto, Singles
<1>3. GoodBorrow(ViewOf(v, Sources(After(p), body[p].from), ScopeOf(v)), p + 1) /\ v \in Views
  BY Checking, RecordGood
<1>4. \A b \in next : GoodBorrow(b, p + 1)
  BY <1>3, Checking DEF Recorded
<1>5. \A b \in After(p) : b.view \in Nat => b \in next
  BY <1>3, ViewsApart DEF Recorded
<1>6. LoopsListed(p + 1, next)
  BY <1>1, <1>5, Checking, LoopsCarry
<1>7. JoinsKept(p + 1, joins)
  BY <1>1, Checking, JoinsPlain
<1>8. Checked(next, joins)
  BY Checking DEF Recorded
<1> HIDE DEF next
<1> QED
  BY <1>2, <1>4, <1>6, <1>7, <1>8, CheckedStep

\* An opener.
LEMMA CheckOpens ==
    ASSUME TextOK, CheckInv, phase = "checking", NEW p \in DOMAIN body, p = pc, Op(p) \in Openers,
           NEW next, next = (IF Op(p) = "for" THEN After(p) \cup {LoopAt(p)} ELSE After(p)),
           Checked(next, Append(joins, [entry |-> Prune(borrows), exits |-> {}]))
    PROVE  CheckInv'
<1>1. Op(p) \notin Closers /\ Op(p) \notin Singles \cup Pairs \cup {"else", "end", "set", "change", "lend"}
  BY DEF Singles, Openers, Closers, Pairs
<1>2. FlowInto(p, next)
  BY <1>1 DEF FlowInto
<1>3. \A b \in next : GoodBorrow(b, p + 1)
  BY Checking, LoopAtGood
<1>4. LoopsListed(p + 1, next)
  BY <1>1, Checking, LoopsCarry
<1>5. JoinsKept(p + 1, Append(joins, [entry |-> After(p), exits |-> {}]))
  BY Checking, JoinsOpen
<1>6. Checked(next, Append(joins, [entry |-> After(p), exits |-> {}]))
  BY Checking
<1>7. PICK js : js = Append(joins, [entry |-> After(p), exits |-> {}])
  OBVIOUS
<1> QED
  BY <1>2, <1>3, <1>4, <1>5, <1>6, <1>7, CheckedStep

\* An else: the second arm starts from the entry.
LEMMA CheckElse ==
    ASSUME TextOK, CheckInv, phase = "checking", NEW p \in DOMAIN body, p = pc, Op(p) = "else",
           Checked(Top.entry, Append(Below, [Top EXCEPT !.exits = @ \cup {Leaving}]))
    PROVE  CheckInv'
<1>0. PICK o : o = Opener(p)
  OBVIOUS
<1>1. Op(p) \in Closers /\ Op(p) \notin Singles \cup Pairs \cup {"end", "set", "change", "lend", "if", "while", "for"}
  BY DEF Singles, Openers, Closers, Pairs
<1>2. /\ joins[Len(joins)] = KeptFor(o, p) /\ o \in 1..(p - 1) /\ ClosedAt(o, p) /\ Around(o, p)
      /\ o \in DOMAIN body
      /\ \A q \in 1..(p - 1) : Around(q, p) /\ q # o => q < o /\ Around(q, o)
  BY <1>0, <1>1, Checking, TopKept
<1>3. Top = KeptFor(o, p) /\ Top.entry = After(o)
  BY <1>2 DEF Top, KeptFor
<1>4. Op(o) = "if"
  <2>1. PICK q \in 1..(p - 1) : Op(q) = "if" /\ ClosedAt(q, p)
    BY DEF TextOK
  <2> QED
    BY <1>0, <2>1, OpenerIs
<1>5. FlowInto(p, After(o))
  BY <1>0, <1>1 DEF FlowInto
<1>6. (\A b \in BorrowsAt(o) : GoodBorrow(b, o)) /\ LoopsListed(o, BorrowsAt(o)) /\ o \in Nat /\ o <= p + 1 /\ p \in Nat
  BY <1>2, Checking DEF CheckedTo
<1>7. \A b \in After(o) : GoodBorrow(b, p + 1)
  BY <1>6, PruneKeeps, GoodLater DEF After
<1>8. LoopsListed(p + 1, After(o))
  <2>1. SUFFICES ASSUME NEW q \in 1..p, Op(q) = "for", Around(q, p + 1) PROVE LoopAt(q) \in After(o)
    <3>1. (p + 1) - 1 = p
      BY <1>6
    <3> QED
      BY <3>1 DEF LoopsListed
  <2>2. q # p
    BY <2>1
  <2>3. Around(q, p) /\ q \in 1..(p - 1)
    BY <1>6, <2>1, <2>2, AroundNext
  <2>4. q # o
    BY <1>4, <2>1
  <2>5. q \in 1..(o - 1) /\ Around(q, o)
    BY <1>2, <1>6, <2>3, <2>4
  <2>6. LoopAt(q) \in BorrowsAt(o) /\ LoopAt(q).lasting
    BY <1>6, <2>1, <2>5 DEF LoopsListed, LoopAt
  <2> QED
    BY <2>6, PruneKeeps DEF After
<1> DEFINE js == Append(Below, [Top EXCEPT !.exits = @ \cup {LeavingAt(p)}])
<1>9. JoinsKept(p + 1, js)
  BY Checking, JoinsElse DEF Below, Top
<1>10. Checked(After(o), js)
  BY <1>3, Checking
<1> HIDE DEF js
<1> QED
  BY <1>5, <1>7, <1>8, <1>9, <1>10, CheckedStep

\* The paths that meet after a construct.
LEMMA ExitsGood ==
    ASSUME TextOK, CheckInv, phase = "checking", NEW p \in DOMAIN body, p = pc, Op(p) = "end",
           NEW o, o = Opener(p)
    PROVE  \A b \in UNION Exits(o, p) : GoodBorrow(b, p + 1)
<1>1. o \in 1..(p - 1) /\ p \in Nat
  BY OpenerOf, PlaceTypes DEF Closers
<1>2. ASSUME NEW e \in 1..p PROVE \A b \in BorrowsAt(e) : GoodBorrow(b, p + 1)
  <2>1. \A b \in BorrowsAt(e) : GoodBorrow(b, e)
    BY <1>2, Checking DEF CheckedTo
  <2>2. e \in Nat /\ p + 1 \in Nat /\ e <= p + 1
    BY <1>1
  <2> QED
    BY <2>1, <2>2, GoodLater
<1>3. \A b \in After(o) : GoodBorrow(b, p + 1)
  BY <1>1, <1>2, PruneKeeps DEF After
<1>4. \A e \in ElsesOf(o, p) \cup {p} : \A b \in LeavingAt(e) : GoodBorrow(b, p + 1)
  BY <1>1, <1>2 DEF ElsesOf, LeavingAt
<1> QED
  BY <1>3, <1>4 DEF Exits

\* An end: the paths meet.
LEMMA CheckEnd ==
    ASSUME TextOK, CheckInv, phase = "checking", NEW p \in DOMAIN body, p = pc, Op(p) = "end",
           NEW o, o = Opener(p),
           Op(o) # "if" => ~LoopCarried(o),
           Checked(Merge(Top.exits \cup {Leaving} \cup (IF Op(o) = "if" /\ HasElse(o, p) THEN {} ELSE {Top.entry})),
                   Below)
    PROVE  CheckInv'
<1>1. Op(p) \in Closers /\ Op(p) \notin Singles \cup Pairs \cup {"else", "set", "change", "lend", "if", "while", "for"}
  BY DEF Singles, Openers, Closers, Pairs
<1>2. /\ joins[Len(joins)] = KeptFor(o, p) /\ o \in 1..(p - 1) /\ ClosedAt(o, p) /\ Around(o, p)
      /\ o \in DOMAIN body /\ Level(p) = Level(o) + 1
  BY <1>1, Checking, TopKept
<1>3. Top.entry = After(o) /\ Top.exits = {LeavingAt(e) : e \in ElsesOf(o, p)}
  BY <1>2 DEF Top, KeptFor
<1>4. Checked(Merge(Exits(o, p)), Below)
  BY <1>3, Checking DEF Exits
<1>5. FlowInto(p, Merge(Exits(o, p)))
  <2>1. Op(o) # "if" => ~LoopCarriedAt(o, p)
    BY <1>3, Checking DEF LoopCarried, LoopCarriedAt
  <2> QED
    BY <1>1, <2>1 DEF FlowInto
<1>6. /\ \A c \in Merge(Exits(o, p)) : GoodBorrow(c, p + 1)
      /\ \A b \in UNION Exits(o, p) : b.view \in Nat => b \in Merge(Exits(o, p))
  BY ExitsGood, MergeIs
<1>7. p \in Nat /\ p \in Places /\ Level(p) \in Nat /\ Level(o) \in Nat
  BY <1>2, PlaceTypes
<1>8. LoopsListed(p + 1, Merge(Exits(o, p)))
  <2>1. SUFFICES ASSUME NEW q \in 1..p, Op(q) = "for", Around(q, p + 1) PROVE LoopAt(q) \in Merge(Exits(o, p))
    <3>1. (p + 1) - 1 = p
      BY <1>7
    <3> QED
      BY <3>1 DEF LoopsListed
  <2>2. Around(q, p) /\ q \in 1..(p - 1) /\ Level(q) # Level(p) - 1
    BY <1>7, <2>1, AroundNext
  <2>3. LoopAt(q) \in BorrowsAt(p) /\ LoopAt(q).scope = Level(q) /\ LoopAt(q).view = q
    BY <2>1, <2>2, Checking DEF LoopsListed, LoopAt
  <2>4. Level(q) < Level(p) - 1
    BY <1>7, <2>2, AroundLevel, PlaceTypes
  <2>5. LoopAt(q) \in LeavingAt(p)
    BY <2>3, <2>4 DEF LeavingAt
  <2>6. LoopAt(q) \in UNION Exits(o, p)
    BY <2>5 DEF Exits
  <2>7. LoopAt(q).view \in Nat
    BY <2>3
  <2> QED
    BY <1>6, <2>6, <2>7
<1>9. JoinsKept(p + 1, Below)
  BY Checking, JoinsEnd DEF Below
<1>10. PICK bs : bs = Merge(Exits(o, p))
  OBVIOUS
<1> QED
  BY <1>4, <1>5, <1>6, <1>8, <1>9, <1>10, CheckedStep

\* What was checked stays so while the checker rests.
LEMMA SameChecked ==
    ASSUME UNCHANGED <<given, body, checker>>, NEW n
    PROVE  CheckedTo(n)' <=> CheckedTo(n)
<1>1. UNCHANGED <<given, body, borrows, claims>>
  BY DEF checker
<1>2. \A i : BorrowsAt(i)' = BorrowsAt(i)
  BY <1>1 DEF BorrowsAt
<1>3. \A i : After(i)' = After(i) /\ LeavingAt(i)' = LeavingAt(i)
  BY <1>1, <1>2 DEF After, PruneAt, LeavingAt, Remaining, Mentions, StillOpen, Op, Level
<1>4. \A i : LoopAt(i)' = LoopAt(i)
  <2>1. \A s, m : Sources(s, m)' = Sources(s, m)
    BY DEF Sources
  <2>2. TAKE i
  <2>3. PICK a, f : a = After(i) /\ f = body[i].from
    OBVIOUS
  <2>4. After(i)' = a /\ body'[i].from = f /\ Level(i)' = Level(i)
    BY <1>1, <1>3, <2>3 DEF Level
  <2> QED
    BY <2>1, <2>3, <2>4 DEF LoopAt
<1>5. \A i, s : LoopsListed(i, s)' <=> LoopsListed(i, s)
  BY <1>1, <1>4 DEF LoopsListed, Around, Op, Level
<1>6. \A i, b : GoodBorrow(b, i)' <=> GoodBorrow(b, i)
  <2>1. \A b : ViewBorrow(b)' <=> ViewBorrow(b)
    BY <1>1 DEF ViewBorrow, Declared, ScopeOf, Declaration, Declares, Op, Level
  <2>2. \A i, b : LoopBorrow(b, i)' <=> LoopBorrow(b, i)
    <3>1. TAKE i, b
    <3>2. PICK v : v = b.view
      OBVIOUS
    <3>3. LoopAt(v)' = LoopAt(v)
      BY <1>4
    <3> QED
      BY <1>1, <3>2, <3>3 DEF LoopBorrow, Declared, Declaration, Declares, Op
  <2> QED
    BY <2>1, <2>2 DEF GoodBorrow, AnyBorrow
<1>7. \A i, s : FlowInto(i, s)' <=> FlowInto(i, s)
  <2>1. \A o, i : Exits(o, i)' = Exits(o, i)
    BY <1>1, <1>3 DEF Exits, ElsesOf, ClosedAt, Around, HasElse, Closing, StillOpen, Op, Level
  <2>2. \A o, i : LoopCarriedAt(o, i)' = LoopCarriedAt(o, i)
    BY <1>1, <1>3 DEF LoopCarriedAt, Mentions, Op
  <2>3. \A i : Opener(i)' = Opener(i)
    BY <1>1, SameSearches
  <2>4. TAKE i, s
  <2>5. PICK o : o = Opener(i)
    OBVIOUS
  <2>6. Opener(i)' = o
    BY <2>3, <2>5
  <2>7. /\ After(o)' = After(o) /\ LoopCarriedAt(o, i)' = LoopCarriedAt(o, i)
        /\ Merge(Exits(o, i))' = Merge(Exits(o, i)) /\ Op(o)' = Op(o)
    BY <1>1, <1>3, <2>1, <2>2 DEF Merge, Least, Op
  <2>8. \A a, v, m : Recorded(a, v, m)' = Recorded(a, v, m) /\ ShortLived(a, v)' = ShortLived(a, v)
    BY <1>1 DEF Recorded, Sources, ViewOf, ScopeOf, ShortLived, Declaration, Declares, Op, Level
  <2>9. \A a, m : Sources(a, m)' = Sources(a, m) /\ Borrowed(a, m)' = Borrowed(a, m)
    BY DEF Sources, Borrowed
  <2>10. Op(i)' = Op(i) /\ body'[i] = body[i] /\ After(i)' = After(i) /\ LoopAt(i)' = LoopAt(i)
    BY <1>1, <1>3, <1>4 DEF Op
  <2> QED
    BY <2>5, <2>6, <2>7, <2>8, <2>9, <2>10 DEF FlowInto
<1> QED
  BY <1>2, <1>5, <1>6, <1>7 DEF CheckedTo

\* The run leaves the text and the checker's findings alone.
LEMMA RunKeeps ==
    ASSUME RunNext
    PROVE  UNCHANGED <<given, body, checker>> /\ phase = "running" /\ phase' \in {"running", "done"}
<1>1. Closes => phase = "running"
  BY DEF Closes
<1>2. Pending # {} => Closes
  BY DEF Pending
<1>3. \A op : Running(op) => phase = "running"
  BY DEF Running
<1>4. ASSUME RunPlain \/ RunChange \/ RunView \/ RunIf \/ RunLoop
      PROVE  UNCHANGED <<given, body, checker, phase>> /\ phase = "running"
  <2>1. \E i : Goto(i)
    BY <1>4 DEF RunPlain, RunChange, RunView, RunIf, RunLoop
  <2>2. phase = "running"
    BY <1>3, <1>4 DEF RunPlain, RunChange, RunView, RunIf, RunLoop
  <2> QED
    BY <2>1, <2>2 DEF Goto
<1>5. ASSUME LeaveBlock PROVE UNCHANGED <<given, body, checker, phase>> /\ phase = "running"
  <2>1. \E i : Goto(i)
    BY <1>5 DEF LeaveBlock
  <2>2. phase = "running"
    BY <1>1, <1>5 DEF LeaveBlock
  <2> QED
    BY <2>1, <2>2 DEF Goto
<1>6. ASSUME CleanUp PROVE UNCHANGED <<given, body, checker, phase>> /\ phase = "running"
  BY <1>1, <1>2, <1>6 DEF CleanUp
<1>7. ASSUME Return PROVE UNCHANGED <<given, body, checker>> /\ phase = "running" /\ phase' = "done"
  BY <1>1, <1>7 DEF Return
<1> QED
  BY <1>4, <1>5, <1>6, <1>7 DEF RunNext

\* Nothing is checked at first.
LEMMA InitChecks == Init => CheckInv
BY DEF Init, CheckInv

\* The checker starts with nothing borrowed.
LEMMA WrittenChecks ==
    ASSUME TextOK, CheckInv, Written
    PROVE  CheckInv'
<1>1. /\ phase = "writing" /\ Level(Here) = 1 /\ phase' = "checking"
      /\ UNCHANGED <<given, body, pc, checker, runner>>
  BY DEF Written
<1>2. borrows = {} /\ claims = <<>> /\ joins = <<>> /\ pc = 1
  BY <1>1 DEF CheckInv
<1>3. borrows' = {} /\ claims' = <<>> /\ joins' = <<>> /\ pc' = 1
  BY <1>1, <1>2 DEF checker
<1>4. TextOK' /\ Here' = Here /\ Level(Here)' = 1 /\ Level(1)' = 1
  <2>1. TextOK'
    BY <1>1, SameText
  <2>2. Here' = Here /\ Level(Here)' = 1
    BY <1>1 DEF Level, Here
  <2> QED
    BY <2>1, <2>2 DEF TextOK
<1>5. 1 \in Places'
  BY <1>4, PlaceTypes, SameText DEF Places
<1>6. BorrowsAt(1)' = {}
  BY <1>3 DEF BorrowsAt
<1>7. CheckedTo(1)'
  BY <1>6 DEF CheckedTo, LoopsListed
<1>8. JoinsKept(1, <<>>)'
  <2>1. <<>> \in Seq(AnyJoin') /\ Len(<<>>) = 0
    OBVIOUS
  <2> QED
    BY <1>4, <2>1 DEF JoinsKept
<1>9. /\ storage' = storage /\ ref' = ref /\ loops' = loops /\ tail' = tail
  BY <1>1 DEF runner
<1>10. storage = [o \in Owners |-> 0] /\ ref = [v \in Views |-> NoRef] /\ loops = <<>> /\ tail = 1
  BY <1>1 DEF CheckInv
<1>11. claims' \in Seq(SUBSET AnyBorrow) /\ Len(claims') = 0
  BY <1>3
<1>12. CheckedTo(pc)' /\ JoinsKept(pc, joins)'
  <2>1. CheckedTo(pc)' <=> CheckedTo(1)'
    BY <1>3 DEF CheckedTo
  <2>2. JoinsKept(pc, joins)' <=> JoinsKept(1, <<>>)'
    BY <1>3 DEF JoinsKept
  <2> QED
    BY <1>7, <1>8, <2>1, <2>2
<1> QED
  BY <1>1, <1>3, <1>4, <1>5, <1>9, <1>10, <1>11, <1>12 DEF CheckInv, NoRef

\* Acceptance ends the check with every element checked.
LEMMA AcceptChecks ==
    ASSUME TextOK, CheckInv, Accept
    PROVE  CheckInv'
<1>1. /\ phase = "checking" /\ pc = Here /\ phase' = "running" /\ pc' = 1
      /\ UNCHANGED <<given, body, checker, runner>>
  BY DEF Accept, Here
<1>2. PICK h : h = Here
  OBVIOUS
<1>3. claims \in Seq(SUBSET AnyBorrow) /\ Len(claims) = h - 1 /\ CheckedTo(h) /\ Level(Here) = 1
  BY <1>1, <1>2 DEF CheckInv
<1>4. CheckedTo(h)' /\ Here' = h
  BY <1>1, <1>2, <1>3, SameChecked, SameText
<1>5. CheckedTo(Here)'
  BY <1>4 DEF CheckedTo
<1>6. Level(Here)' = 1
  BY <1>1, <1>3 DEF Level, Here
<1>7. Len(claims) = Len(body) /\ claims' = claims /\ body' = body
  BY <1>1, <1>2, <1>3, PlaceTypes DEF checker
<1> QED
  BY <1>1, <1>3, <1>5, <1>6, <1>7 DEF CheckInv, AnyBorrow

\* A refusal ends it.
LEMMA RejectChecks ==
    ASSUME CheckInv, phase = "checking", Reject
    PROVE  CheckInv'
<1>1. phase' = "rejected" /\ UNCHANGED <<body, claims>>
  BY DEF Reject, checker
<1>2. Level(Here)' = Level(Here)
  BY <1>1 DEF Level, Here
<1> QED
  BY <1>1, <1>2 DEF CheckInv, AnyBorrow

\* The run keeps what was checked.
LEMMA RunChecks ==
    ASSUME TextOK, CheckInv, RunNext
    PROVE  CheckInv'
<1>1. UNCHANGED <<given, body, checker>> /\ phase = "running" /\ phase' \in {"running", "done"}
  BY RunKeeps
<1>2. PICK h : h = Here
  OBVIOUS
<1>3. CheckedTo(h)' /\ Here' = h
  BY <1>1, <1>2, SameChecked, SameText DEF CheckInv
<1>4. CheckedTo(Here)'
  BY <1>3 DEF CheckedTo
<1>5. Level(Here)' = Level(Here) /\ claims' = claims /\ body' = body
  BY <1>1 DEF Level, Here, checker
<1> QED
  BY <1>1, <1>4, <1>5 DEF CheckInv, AnyBorrow

\* Every step of the checker keeps its part of the invariant.
LEMMA CheckNextChecks ==
    ASSUME TextOK, CheckInv, Shapes = {}, CheckNext
    PROVE  CheckInv'
<1>0. \A op : At(op) => phase = "checking" /\ pc \in DOMAIN body /\ Op(pc) = op
  BY DEF At
<1>1. CASE CheckPlain
  <2>1. PICK op \in {"own", "use", "defer"} : At(op)
    BY <1>1 DEF CheckPlain
  <2>2. Op(pc) \in Singles /\ Op(pc) \notin {"change", "lend"}
    BY <1>0, <2>1 DEF Singles
  <2> QED
    BY <1>0, <1>1, <2>1, <2>2, CheckSingle DEF CheckPlain
<1>2. CASE CheckLend
  <2>1. phase = "checking" /\ pc \in DOMAIN body /\ Op(pc) = "lend"
    BY <1>0, <1>2 DEF CheckLend
  <2>2. CASE Borrowed(Prune(borrows), E.name)
    BY <1>2, <2>1, <2>2, RejectChecks DEF CheckLend
  <2>3. CASE ~Borrowed(Prune(borrows), E.name)
    <3>1. Checked(Prune(borrows), joins) /\ ~Borrowed(After(pc), body[pc].name)
      BY <1>2, <2>1, <2>3, Checking DEF CheckLend, E
    <3> QED
      BY <2>1, <3>1, CheckSingle DEF Singles
  <2> QED
    BY <2>2, <2>3
<1>3. CASE CheckChange
  <2>1. phase = "checking" /\ pc \in DOMAIN body /\ Op(pc) = "change"
    BY <1>0, <1>3 DEF CheckChange
  <2>2. CASE Borrowed(Prune(borrows), E.name)
    BY <1>3, <2>1, <2>2, RejectChecks DEF CheckChange
  <2>3. CASE ~Borrowed(Prune(borrows), E.name)
    <3>1. Checked(Prune(borrows), joins) /\ ~Borrowed(After(pc), body[pc].name)
      BY <1>3, <2>1, <2>3, Checking DEF CheckChange, E
    <3> QED
      BY <2>1, <3>1, CheckSingle DEF Singles
  <2> QED
    BY <2>2, <2>3
<1>4. CASE CheckLet
  <2>1. phase = "checking" /\ pc \in DOMAIN body /\ Op(pc) = "let"
    BY <1>0, <1>4 DEF CheckLet
  <2>2. Checked(Recorded(Prune(borrows), body[pc].name, body[pc].from), joins)
    BY <1>4 DEF CheckLet, E
  <2> QED
    BY <2>1, <2>2, CheckPair DEF Pairs
<1>5. CASE CheckSet
  <2>1. phase = "checking" /\ pc \in DOMAIN body /\ Op(pc) = "set"
    BY <1>0, <1>5 DEF CheckSet
  <2>2. CASE ShortLived(E.name, Sources(Prune(borrows), E.from))
    BY <1>5, <2>1, <2>2, RejectChecks DEF CheckSet
  <2>3. CASE ~ShortLived(E.name, Sources(Prune(borrows), E.from))
    <3>1. /\ Checked(Recorded(Prune(borrows), body[pc].name, body[pc].from), joins)
          /\ ~ShortLived(body[pc].name, Sources(After(pc), body[pc].from))
      BY <1>5, <2>1, <2>3, Checking DEF CheckSet, E
    <3> QED
      BY <2>1, <3>1, CheckPair DEF Pairs
  <2> QED
    BY <2>2, <2>3
<1>6. CASE OpenArm
  <2>1. phase = "checking" /\ pc \in DOMAIN body /\ Op(pc) \in Openers /\ Op(pc) # "for"
    BY <1>0, <1>6 DEF OpenArm, Openers
  <2>2. Checked(After(pc), Append(joins, [entry |-> Prune(borrows), exits |-> {}]))
    BY <1>6, <2>1, Checking DEF OpenArm
  <2>3. PICK n : n = After(pc)
    OBVIOUS
  <2> QED
    BY <2>1, <2>2, <2>3, CheckOpens
<1>7. CASE OpenFor
  <2>1. phase = "checking" /\ pc \in DOMAIN body /\ Op(pc) \in Openers /\ Op(pc) = "for"
    BY <1>0, <1>7 DEF OpenFor, Openers
  <2>2. Level(pc) \in Nat /\ Scope + 1 = Level(pc)
    BY <2>1, PlaceTypes DEF Scope
  <2>3. Prune(borrows) \cup {LoopOver(Sources(Prune(borrows), E.from), Scope + 1)} = After(pc) \cup {LoopAt(pc)}
    BY <2>1, <2>2, Checking DEF LoopOver, LoopAt, E
  <2>4. PICK n : n = After(pc) \cup {LoopAt(pc)}
    OBVIOUS
  <2>5. Checked(n, Append(joins, [entry |-> Prune(borrows), exits |-> {}]))
    BY <1>7, <2>3, <2>4 DEF OpenFor
  <2> QED
    BY <2>1, <2>4, <2>5, CheckOpens
<1>8. CASE Else
  <2>1. phase = "checking" /\ pc \in DOMAIN body /\ Op(pc) = "else"
    BY <1>0, <1>8 DEF Else
  <2> QED
    BY <1>8, <2>1, CheckElse DEF Else
<1>9. CASE End
  <2>1. phase = "checking" /\ pc \in DOMAIN body /\ Op(pc) = "end"
    BY <1>0, <1>9 DEF End
  <2>2. PICK o : o = Opener(pc)
    OBVIOUS
  <2>3. CASE Op(o) # "if" /\ LoopCarried(o)
    BY <1>9, <2>1, <2>2, <2>3, RejectChecks DEF End
  <2>4. CASE ~(Op(o) # "if" /\ LoopCarried(o))
    <3>1. Checked(Merge(Top.exits \cup {Leaving} \cup (IF Op(o) = "if" /\ HasElse(o, pc) THEN {} ELSE {Top.entry})),
                  Below)
      BY <1>9, <2>2, <2>4 DEF End
    <3> QED
      BY <2>1, <2>2, <2>4, <3>1, CheckEnd
  <2> QED
    BY <2>3, <2>4
<1> QED
  BY <1>1, <1>2, <1>3, <1>4, <1>5, <1>6, <1>7, <1>8, <1>9, AcceptChecks DEF CheckNext

\* So does every step.
LEMMA NextChecks ==
    ASSUME TextOK, CheckInv, Shapes = {}, [Next]_vars
    PROVE  TextOK' /\ CheckInv'
<1>1. CASE WriteNext
  <2>1. PICK e : Write(e) /\ WellPlaced(e)
    BY <1>1, WriteForms
  <2>2. TextOK'
    BY <2>1, WriteKeepsText
  <2>3. phase = "writing" /\ UNCHANGED <<phase, pc, checker, runner>>
    BY <1>1, <2>1 DEF WriteNext, Write
  <2> QED
    BY <2>2, <2>3 DEF CheckInv, checker, runner, AnyBorrow, NoRef
<1>2. ASSUME UNCHANGED <<given, body>> PROVE TextOK'
  BY <1>2, SameText
<1>3. CASE Written
  BY <1>2, <1>3, WrittenChecks DEF Written
<1>4. CASE CheckNext
  <2>1. UNCHANGED <<given, body>>
    BY <1>4 DEF CheckNext, CheckPlain, CheckLend, CheckChange, CheckLet, CheckSet, OpenArm, OpenFor,
                Else, End, Accept, Checked, Reject
  <2> QED
    BY <1>2, <1>4, <2>1, CheckNextChecks
<1>5. CASE RunNext
  BY <1>2, <1>5, RunChecks, RunKeeps
<1>6. CASE UNCHANGED vars
  <2>1. UNCHANGED <<given, body, checker>> /\ UNCHANGED vars
    BY <1>6 DEF vars, checker
  <2>2. PICK h, p : h = Here /\ p = pc
    OBVIOUS
  <2>3. /\ (CheckedTo(h)' <=> CheckedTo(h)) /\ (CheckedTo(p)' <=> CheckedTo(p)) /\ Here' = h /\ Places' = Places
        /\ pc' = p /\ Level(Here)' = Level(Here)
    <3>1. (CheckedTo(h)' <=> CheckedTo(h)) /\ (CheckedTo(p)' <=> CheckedTo(p))
      BY <2>1, SameChecked
    <3>2. Here' = h /\ Places' = Places
      BY <2>1, <2>2, SameText
    <3>3. pc' = p /\ Level(Here)' = Level(Here)
      BY <2>1, <2>2 DEF vars, Level, Here
    <3> QED
      BY <3>1, <3>2, <3>3
  <2>4. (CheckedTo(Here)' <=> CheckedTo(Here)) /\ (CheckedTo(pc)' <=> CheckedTo(pc))
    BY <2>2, <2>3 DEF CheckedTo
  <2>5. JoinsKept(pc, joins)' = JoinsKept(pc, joins)
    BY <2>1 DEF vars, JoinsKept, KeptFor, AnyJoin, AnyBorrow, ElsesOf, ClosedAt, Around, After, LeavingAt, PruneAt,
                BorrowsAt, Remaining, Mentions, StillOpen, Op, Level
  <2> QED
    BY <1>2, <2>1, <2>3, <2>4, <2>5 DEF CheckInv, vars, AnyBorrow, NoRef
<1> QED
  BY <1>1, <1>3, <1>4, <1>5, <1>6 DEF Next

----------------------------------------------------------------------------
(* How what the checker listed follows the paths of a run.                  *)

Accepted == TextOK /\ Level(Here) = 1 /\ CheckedTo(Here)

\* The checker knows, at p, that v may point into x.
Link(v, x, p) == Direct(v, x, p) \/ Carried(v, x, p)

\* What was concluded of an accepted text.
LEMMA AcceptedIs ==
    ASSUME Accepted
    PROVE  /\ TextOK
           /\ \A i \in DOMAIN body : FlowInto(i, BorrowsAt(i + 1))
           /\ \A i \in Places : (\A b \in BorrowsAt(i) : GoodBorrow(b, i)) /\ LoopsListed(i, BorrowsAt(i))
<1>1. TextOK /\ CheckedTo(Here)
  BY DEF Accepted
<1>2. Here \in Nat /\ DOMAIN body = 1..(Here - 1) /\ Places = 1..Here
  BY <1>1, PlaceTypes
<1> QED
  BY <1>1, <1>2 DEF CheckedTo

\* A view's own borrow, and what the checker still has of it afterwards.
LEMMA DirectAfter ==
    ASSUME Accepted, NEW p \in Places, NEW v \in Views, NEW x, Direct(v, x, p)
    PROVE  /\ \E b \in BorrowsAt(p) : /\ b.view = v /\ x \in b.sources /\ b.scope = ScopeOf(v)
                                      /\ Visible(v, p) /\ Needed(v, p) => b \in After(p)
           /\ Declared(x) /\ Declaration(x) < Declaration(v)
<1>1. PICK b \in BorrowsAt(p) : b.view = v /\ x \in b.sources
  BY DEF Direct
<1>2. ViewBorrow(b)
  BY <1>1, AcceptedIs, GoodView
<1>3. b.scope = ScopeOf(v) /\ Declared(x) /\ Declaration(x) < Declaration(v)
  BY <1>1, <1>2 DEF ViewBorrow
<1>4. Visible(v, p) /\ Needed(v, p) => b \in After(p)
  BY <1>1, <1>3, AcceptedIs, NeededKept DEF After
<1> QED
  BY <1>1, <1>3, <1>4

\* A view points only into what was declared before it.
LEMMA LinkDeclared ==
    ASSUME Accepted, NEW p \in Places, NEW v \in Views, NEW x, Link(v, x, p)
    PROVE  Declared(x) /\ Declaration(x) < Declaration(v)
<1>1. CASE Direct(v, x, p)
  BY <1>1, DirectAfter
<1>2. CASE Carried(v, x, p)
  <2>1. PICK e \in DOMAIN body : Direct(v, x, e)
    BY <1>2 DEF Carried
  <2>2. e \in Places
    BY <2>1, AcceptedIs, PlaceTypes
  <2> QED
    BY <2>1, <2>2, DirectAfter
<1> QED
  BY <1>1, <1>2 DEF Link

\* An element that mentions the view, or changes the owner, is not one a
\* borrow is carried past.
LEMMA NotCarried ==
    ASSUME Accepted, NEW p \in DOMAIN body, Op(p) \notin Closers, NEW v, NEW x, Carried(v, x, p)
    PROVE  /\ ~Mentions(p, v)
           /\ Op(p) \in {"change", "lend"} => body[p].name # x
<1>1. PICK o, e \in DOMAIN body :
          /\ LoopSpan(o, e) /\ Around(o, p)
          /\ \A i \in (o + 1)..(e - 1) : /\ ~Mentions(i, v)
                                         /\ Op(i) \in {"change", "lend"} => body[i].name # x
  BY DEF Carried
<1>2. TextOK /\ p \in Places /\ p \in Nat /\ e \in Nat /\ o \in Nat
  BY <1>1, AcceptedIs, PlaceTypes
<1>3. p <= e /\ p # e /\ o < p
  BY <1>1, <1>2, LastPlace, AroundLevel DEF LoopSpan, Closers
<1>4. p \in (o + 1)..(e - 1)
  BY <1>2, <1>3
<1> QED
  BY <1>1, <1>4

\* Where a view is mentioned, the checker has what it points into listed.
LEMMA MentionedDirect ==
    ASSUME Accepted, NEW p \in DOMAIN body, NEW v \in Views, NEW x, Mentions(p, v), Link(v, x, p)
    PROVE  /\ Direct(v, x, p) /\ Visible(v, p) /\ Needed(v, p) /\ Declaration(v) < p
           /\ \E b \in After(p) : b.view = v /\ x \in b.sources
<1>1. TextOK /\ p \in Places /\ p \in Nat
  BY AcceptedIs, PlaceTypes
<1>2. Visible(v, p) /\ Op(p) \notin Closers
  BY <1>1, MentionVisible
<1>3. Direct(v, x, p)
  BY <1>2, NotCarried DEF Link
<1>4. Needed(v, p) /\ Declaration(v) < p
  BY <1>1, <1>2, VisibleName DEF Needed
<1> QED
  BY <1>1, <1>2, <1>3, <1>4, DirectAfter

\* Storage a view that is needed points into is not changed.
LEMMA LinkUnchanged ==
    ASSUME Accepted, NEW p \in DOMAIN body, Op(p) \in {"change", "lend"},
           NEW v \in Views, Visible(v, p), Needed(v, p), NEW x, Link(v, x, p)
    PROVE  body[p].name # x
<1>1. TextOK /\ p \in Places /\ FlowInto(p, BorrowsAt(p + 1)) /\ Op(p) \notin Closers
  BY AcceptedIs, PlaceTypes DEF Closers
<1>2. CASE Direct(v, x, p)
  <2>1. PICK b \in After(p) : x \in b.sources
    BY <1>1, <1>2, DirectAfter
  <2>2. ~Borrowed(After(p), body[p].name)
    BY <1>1 DEF FlowInto
  <2> QED
    BY <2>1, <2>2 DEF Borrowed
<1> QED
  BY <1>1, <1>2, NotCarried DEF Link

\* The loops and arms around what follows a construct are those around it.
LEMMA AroundCloser ==
    ASSUME TextOK, NEW o, NEW c, ClosedAt(o, c), NEW q
    PROVE  /\ Around(q, c) <=> q = o \/ Around(q, o)
           /\ Op(c) = "else" => (Around(q, c + 1) <=> q = o \/ Around(q, o))
           /\ Op(c) = "end" => (Around(q, c + 1) <=> Around(q, o))
<1>1. c \in DOMAIN body /\ Op(c) \in Closers /\ Around(o, c) /\ Level(c) = Level(o) + 1
  BY DEF ClosedAt
<1>2. c \in Places /\ c \in Nat /\ o \in DOMAIN body /\ o \in Places /\ o \in Nat /\ Level(o) \in Nat /\ Level(c) \in Nat
  BY <1>1, AroundLevel, PlaceTypes
<1>3. Around(q, o) => Around(q, c)
  BY <1>1, <1>2, AroundThrough
<1>4. ASSUME Around(q, c), q # o PROVE Around(q, o)
  <2>1. q \in DOMAIN body /\ Level(q) < Level(c) /\ q \in Nat /\ Level(q) \in Nat
    BY <1>2, <1>4, AroundLevel, PlaceTypes
  <2>2. ~(o < q)
    <3>1. o < q => Level(o) < Level(q)
      BY <1>1, <1>2, <1>4, Nested
    <3> QED
      BY <1>1, <1>2, <2>1, <3>1
  <2>3. q < o
    BY <1>2, <1>4, <2>1, <2>2
  <2> QED
    BY <1>1, <1>2, <1>4, <2>3, Nested
<1>5. Around(q, c) <=> q = o \/ Around(q, o)
  BY <1>1, <1>3, <1>4
<1>6. ASSUME Op(c) = "else" PROVE Around(q, c + 1) <=> Around(q, c)
  <2>1. Op(c) \notin Openers
    BY <1>6 DEF Openers
  <2> QED
    BY <1>1, <1>6, <2>1, AroundNext
<1>7. ASSUME Op(c) = "end" PROVE Around(q, c + 1) <=> Around(q, o)
  <2>1. Around(q, c + 1) <=> Around(q, c) /\ Level(q) # Level(o)
    BY <1>1, <1>2, <1>7, AroundNext
  <2>2. Around(q, o) => Level(q) # Level(o)
    BY <1>2, AroundLevel, PlaceTypes
  <2> QED
    BY <1>5, <2>1, <2>2
<1> QED
  BY <1>5, <1>6, <1>7

\* A carried borrow stays carried within the same loops.
LEMMA CarriedOn ==
    ASSUME NEW v, NEW x, NEW p, NEW q, Carried(v, x, p),
           \A o : Op(o) \in {"while", "for"} /\ Around(o, p) => Around(o, q)
    PROVE  Carried(v, x, q)
BY DEF Carried, LoopSpan

\* The edge to the next element.
LEMMA LinkNext ==
    ASSUME Accepted, NEW p \in DOMAIN body, Op(p) \notin Closers,
           NEW v \in Views, Visible(v, p), Needed(v, p), NEW x, Link(v, x, p),
           ~(Op(p) \in Pairs /\ body[p].name = v)
    PROVE  Link(v, x, p + 1)
<1>1. TextOK /\ p \in Places /\ FlowInto(p, BorrowsAt(p + 1)) /\ Op(p) # "end" /\ Op(p) # "else"
  BY AcceptedIs, PlaceTypes DEF Closers
<1>2. CASE Direct(v, x, p)
  <2>1. PICK b \in After(p) : b.view = v /\ x \in b.sources
    BY <1>1, <1>2, DirectAfter
  <2>2. Op(p) \in Pairs \cup Singles \cup Openers
    BY <1>1, OpTypes
  <2>3. b \in BorrowsAt(p + 1)
    BY <1>1, <2>1, <2>2 DEF FlowInto, Recorded, Openers
  <2> QED
    BY <2>1, <2>3 DEF Direct, Link
<1>3. CASE Carried(v, x, p)
  <2>1. \A o : Around(o, p) => Around(o, p + 1)
    BY <1>1, AroundNext
  <2> QED
    BY <1>3, <2>1, CarriedOn DEF Link
<1> QED
  BY <1>2, <1>3 DEF Link

\* A borrow one of the paths into a place has is there.
LEMMA MergedDirect ==
    ASSUME Accepted, NEW c \in DOMAIN body, Op(c) = "end", NEW o, o = Opener(c),
           NEW bs \in Exits(o, c), NEW b \in bs, NEW x \in b.sources, NEW v, v = b.view
    PROVE  Direct(v, x, c + 1)
<1>1. TextOK /\ FlowInto(c, BorrowsAt(c + 1)) /\ c \in Nat /\ c \in Places
  BY AcceptedIs, PlaceTypes
<1>2. BorrowsAt(c + 1) = Merge(Exits(o, c))
  BY <1>1 DEF FlowInto
<1>3. o \in 1..(c - 1)
  BY <1>1, OpenerOf DEF Closers
<1>4. \A q \in Exits(o, c) : \A d \in q : GoodBorrow(d, c)
  <2>1. \A e \in 1..c : \A d \in BorrowsAt(e) : GoodBorrow(d, c)
    <3>1. TAKE e \in 1..c
    <3>2. e \in Places /\ e \in Nat /\ e <= c
      BY <1>1, PlaceTypes
    <3> QED
      BY <1>1, <3>2, AcceptedIs, GoodLater
  <2>2. \A d \in After(o) : GoodBorrow(d, c)
    BY <1>1, <1>3, <2>1, PruneKeeps DEF After
  <2>3. \A e \in ElsesOf(o, c) \cup {c} : \A d \in LeavingAt(e) : GoodBorrow(d, c)
    BY <1>1, <1>3, <2>1 DEF ElsesOf, LeavingAt
  <2> QED
    BY <2>2, <2>3 DEF Exits
<1>5. b \in UNION Exits(o, c)
  OBVIOUS
<1>6. \A d \in UNION Exits(o, c) : GoodBorrow(d, c)
  BY <1>4
<1>7. \E d \in Merge(Exits(o, c)) : d.view = b.view /\ b.sources \subseteq d.sources
  BY <1>1, <1>5, <1>6, MergeIs
<1> QED
  BY <1>2, <1>7 DEF Direct

\* The edge that skips an arm or a loop.
LEMMA LinkSkip ==
    ASSUME Accepted, NEW p \in DOMAIN body, Op(p) \in Openers, NEW c, ClosedAt(p, c),
           Op(c) = "end" => Op(p) # "if" \/ ~HasElse(p, c),
           NEW v \in Views, Visible(v, p), Needed(v, p), NEW x, Link(v, x, p)
    PROVE  Link(v, x, c + 1)
<1>1. /\ TextOK /\ p \in Places /\ c \in DOMAIN body /\ Opener(c) = p /\ FlowInto(c, BorrowsAt(c + 1))
      /\ Op(c) \in Closers
  BY AcceptedIs, PlaceTypes, OpenerIs DEF ClosedAt
<1>2. CASE Carried(v, x, p)
  <2>1. \A o : Around(o, p) => Around(o, c + 1)
    BY <1>1, AroundCloser DEF Closers
  <2> QED
    BY <1>2, <2>1, CarriedOn DEF Link
<1>3. CASE Direct(v, x, p)
  <2>1. PICK b \in After(p) : b.view = v /\ x \in b.sources
    BY <1>1, <1>3, DirectAfter
  <2>2. CASE Op(c) = "else"
    BY <1>1, <2>1, <2>2 DEF FlowInto, Direct, Link
  <2>3. CASE Op(c) = "end"
    <3>1. After(p) \in Exits(p, c)
      BY <2>3 DEF Exits
    <3> QED
      BY <1>1, <2>1, <2>3, <3>1, MergedDirect DEF Link
  <2> QED
    BY <1>1, <2>2, <2>3 DEF Closers
<1> QED
  BY <1>2, <1>3 DEF Link

\* What a borrow at the end of a block is worth to a view declared before it.
LEMMA LeavingDirect ==
    ASSUME Accepted, NEW o, NEW p, ClosedAt(o, p), NEW v \in Views, Visible(v, o), NEW x, Direct(v, x, p)
    PROVE  \E b \in LeavingAt(p) : b.view = v /\ x \in b.sources
<1>1. TextOK /\ p \in Places /\ Around(o, p) /\ o \in Places
  <2>1. TextOK /\ p \in DOMAIN body /\ Around(o, p)
    BY AcceptedIs DEF ClosedAt
  <2>2. p \in Places
    BY <2>1, PlaceTypes
  <2> QED
    BY <2>1, <2>2, AroundLevel
<1>2. PICK b \in BorrowsAt(p) : b.view = v /\ x \in b.sources /\ b.scope = ScopeOf(v)
  BY <1>1, DirectAfter
<1>3. Level(Declaration(v)) < Level(p)
  BY <1>1, VisibleInside
<1>4. ScopeOf(v) = Level(Declaration(v)) - 1 /\ Level(Declaration(v)) \in Nat /\ Level(p) \in Nat
  BY <1>1, VisibleView, PlaceTypes
<1> QED
  BY <1>2, <1>3, <1>4 DEF LeavingAt

\* The edge from the end of an arm, or of a loop's last round.
LEMMA LinkLeave ==
    ASSUME Accepted, NEW o, NEW p, ClosedAt(o, p), NEW e, ClosedAt(o, e), Op(e) = "end",
           Op(o) = "if" \/ p = e,
           NEW v \in Views, Visible(v, o), NEW x, Link(v, x, p)
    PROVE  Link(v, x, e + 1)
<1>1. /\ TextOK /\ Around(o, p) /\ o \in DOMAIN body /\ p \in DOMAIN body /\ p \in Places /\ e \in DOMAIN body
      /\ Opener(e) = o /\ Op(p) \in Closers /\ p \in Nat /\ e \in Nat /\ o \in Nat /\ e \in Places
  BY AcceptedIs, PlaceTypes, OpenerIs DEF ClosedAt, Around
<1>2. ASSUME Direct(v, x, p) PROVE Direct(v, x, e + 1)
  <2>1. PICK b \in LeavingAt(p) : b.view = v /\ x \in b.sources
    BY <1>2, LeavingDirect
  <2>2. LeavingAt(p) \in Exits(o, e)
    <3>1. CASE p = e
      BY <3>1 DEF Exits
    <3>2. CASE p # e
      <4>1. p <= e
        BY <1>1, LastPlace
      <4>2. Op(p) = "else"
        <5>1. Op(p) # "end"
          BY <1>1, <3>2, EndUnique
        <5> QED
          BY <1>1, <5>1 DEF Closers
      <4>3. o < p
        BY <1>1 DEF Around
      <4>4. p \in ElsesOf(o, e)
        BY <1>1, <3>2, <4>1, <4>2, <4>3 DEF ElsesOf
      <4> QED
        BY <4>4 DEF Exits
    <3> QED
      BY <3>1, <3>2
  <2> QED
    BY <1>1, <2>1, <2>2, MergedDirect
<1>3. CASE Carried(v, x, p)
  <2>1. PICK q, f \in DOMAIN body :
            /\ LoopSpan(q, f) /\ Around(q, p) /\ Declaration(v) < q /\ Direct(v, x, f)
            /\ \A i \in (q + 1)..(f - 1) : /\ ~Mentions(i, v)
                                           /\ Op(i) \in {"change", "lend"} => body[i].name # x
    BY <1>3 DEF Carried
  <2>2. CASE q = o
    <3>1. p = e
      BY <2>1, <2>2 DEF LoopSpan
    <3>2. f = e
      BY <1>1, <2>1, <2>2, EndUnique DEF LoopSpan
    <3> QED
      BY <1>2, <2>1, <3>1, <3>2 DEF Link
  <2>3. CASE q # o
    <3>1. Around(q, o)
      BY <1>1, <2>1, <2>3, AroundCloser
    <3>2. Around(q, e + 1)
      BY <1>1, <3>1, AroundCloser
    <3>3. Carried(v, x, e + 1)
      BY <2>1, <3>2 DEF Carried
    <3> QED
      BY <3>3 DEF Link
  <2> QED
    BY <2>2, <2>3
<1> QED
  BY <1>2, <1>3 DEF Link

\* The edge from the end of a round back to the body.
LEMMA LinkBack ==
    ASSUME Accepted, NEW o, NEW e, LoopSpan(o, e), NEW v \in Views, Visible(v, o), NEW x, Link(v, x, e)
    PROVE  Link(v, x, o + 1)
<1>1. /\ TextOK /\ Around(o, e) /\ o \in DOMAIN body /\ e \in DOMAIN body /\ e \in Places /\ o \in Places
      /\ ClosedAt(o, e) /\ Op(e) = "end" /\ Op(o) \in {"while", "for"} /\ Op(o) \in Openers /\ Opener(e) = o
      /\ FlowInto(o, BorrowsAt(o + 1)) /\ FlowInto(e, BorrowsAt(e + 1)) /\ Around(o, o + 1)
  <2>1. /\ TextOK /\ Around(o, e) /\ o \in DOMAIN body /\ e \in DOMAIN body
        /\ ClosedAt(o, e) /\ Op(e) = "end" /\ Op(o) \in {"while", "for"} /\ Op(o) \in Openers
    BY AcceptedIs DEF LoopSpan, ClosedAt, Around, Openers
  <2> QED
    BY <2>1, AcceptedIs, PlaceTypes, OpenerIs, AroundNext
<1>2. Declaration(v) < o
  BY <1>1, VisibleName
<1>3. CASE Direct(v, x, e)
  <2>1. PICK b \in LeavingAt(e) : b.view = v /\ x \in b.sources
    BY <1>1, <1>3, LeavingDirect
  <2>2. CASE b \in After(o)
    <3>1. b \in BorrowsAt(o + 1)
      BY <1>1, <2>2 DEF FlowInto
    <3> QED
      BY <2>1, <3>1 DEF Direct, Link
  <2>3. CASE b \notin After(o)
    <3>1. ~LoopCarriedAt(o, e)
      BY <1>1 DEF FlowInto
    <3>2. \A i \in (o + 1)..(e - 1) : /\ ~Mentions(i, v)
                                      /\ Op(i) \in {"change", "lend"} => body[i].name # x
      BY <2>1, <2>3, <3>1 DEF LoopCarriedAt
    <3>3. Carried(v, x, o + 1)
      BY <1>1, <1>2, <1>3, <3>2 DEF Carried
    <3> QED
      BY <3>3 DEF Link
  <2> QED
    BY <2>2, <2>3
<1>4. CASE Carried(v, x, e)
  <2>1. \A q : Around(q, e) => Around(q, o + 1)
    <3>1. TAKE q
    <3>2. HAVE Around(q, e)
    <3>3. q = o \/ Around(q, o)
      BY <1>1, <3>2, AroundCloser
    <3>4. Op(o) # "end"
      BY <1>1
    <3> QED
      BY <1>1, <3>3, <3>4, AroundNext
  <2> QED
    BY <1>4, <2>1, CarriedOn DEF Link
<1> QED
  BY <1>3, <1>4 DEF Link

----------------------------------------------------------------------------
(* The loops around a place.                                                *)

\* There are finitely many loops around a place.
LEMMA LoopsFinite ==
    ASSUME TextOK, NEW p
    PROVE  IsFiniteSet(LoopsAround(p)) /\ Cardinality(LoopsAround(p)) \in Nat
<1>1. IsFiniteSet(1..Len(body))
  BY PlaceTypes, FS_Interval
<1>2. LoopsAround(p) \subseteq 1..Len(body)
  BY DEF LoopsAround
<1>3. IsFiniteSet(LoopsAround(p))
  BY <1>1, <1>2, FS_Subset
<1> QED
  BY <1>3, FS_CardinalityType

\* In a loop's body there is one more.
LEMMA LoopsEnter ==
    ASSUME TextOK, NEW o \in DOMAIN body, NEW p, Op(o) \in {"while", "for"},
           \A q : Around(q, p) <=> q = o \/ Around(q, o)
    PROVE  /\ LoopsAround(p) = LoopsAround(o) \cup {o} /\ o \notin LoopsAround(o)
           /\ Cardinality(LoopsAround(p)) = Cardinality(LoopsAround(o)) + 1
<1>1. o \in 1..Len(body) /\ o \in Places
  BY PlaceTypes
<1>2. LoopsAround(p) = LoopsAround(o) \cup {o}
  BY <1>1 DEF LoopsAround
<1>3. o \notin LoopsAround(o)
  BY <1>1 DEF LoopsAround, Around
<1>4. Cardinality(LoopsAround(o) \cup {o}) = Cardinality(LoopsAround(o)) + 1
  BY <1>3, LoopsFinite, FS_AddElement
<1> QED
  BY <1>2, <1>3, <1>4

\* Which loops are around a place is all that counts.
LEMMA LoopsSame ==
    ASSUME NEW p, NEW q, \A o : Op(o) \in {"while", "for"} => (Around(o, p) <=> Around(o, q))
    PROVE  LoopsAround(p) = LoopsAround(q)
BY DEF LoopsAround

\* A loop's borrow is listed, and kept, at every place it is around.
LEMMA LoopHeld ==
    ASSUME Accepted, NEW p \in Places, NEW o \in LoopsAround(p), Op(o) = "for"
    PROVE  /\ LoopAt(o) \in After(p)
           /\ \A x \in LoopAt(o).sources : Declared(x) /\ Declaration(x) < o
           /\ o \in 1..(p - 1) /\ Around(o, p) /\ o \in DOMAIN body
<1>1. Around(o, p) /\ o \in 1..(p - 1) /\ o \in DOMAIN body /\ o \in Nat
  <2>1. Around(o, p)
    BY DEF LoopsAround
  <2> QED
    BY <2>1, AcceptedIs, AroundLevel, PlaceTypes
<1>2. LoopAt(o) \in BorrowsAt(p)
  BY <1>1, AcceptedIs DEF LoopsListed
<1>3. LoopAt(o).lasting /\ LoopAt(o).view = o
  BY DEF LoopAt
<1>4. LoopBorrow(LoopAt(o), p)
  <2>1. GoodBorrow(LoopAt(o), p)
    BY <1>2, AcceptedIs
  <2>2. o \notin Views
    BY <1>1, AcceptedIs, ViewsApart
  <2> QED
    BY <1>3, <2>1, <2>2, AcceptedIs, GoodView
<1>5. LoopAt(o) \in After(p)
  BY <1>2, <1>3, PruneKeeps DEF After
<1> QED
  BY <1>1, <1>3, <1>4, <1>5 DEF LoopBorrow

----------------------------------------------------------------------------
(* Moving without touching storage or views.                                *)

\* The loops being run are those around p.
LoopsFit(p) ==
    /\ Len(loops) = Cardinality(LoopsAround(p))
    /\ \A k \in DOMAIN loops : loops[k].over # NoRef =>
          /\ Current(loops[k].over)
          /\ \E o \in LoopsAround(p) : /\ Op(o) = "for" /\ Cardinality(LoopsAround(o)) = k - 1
                                       /\ loops[k].over.owner \in LoopAt(o).sources

Types ==
    /\ storage \in [Owners -> Nat] /\ ref \in [Views -> Reference \cup {NoRef}]
    /\ loops \in Seq([rounds : 0..MaxRounds, over : Reference \cup {NoRef}])

Ready(p) == \A v \in Views : Visible(v, p) /\ Needed(v, p) =>
                Current(ref[v]) /\ Link(v, ref[v].owner, p)


\* What is around p and unchanged reads the same before and after a step.
LEMMA SameRun ==
    ASSUME UNCHANGED <<given, body, checker>>
    PROVE  /\ \A v, x, p : Link(v, x, p)' <=> Link(v, x, p)
           /\ \A v, p : Needed(v, p)' <=> Needed(v, p)
           /\ \A p : LoopsAround(p)' = LoopsAround(p) /\ LoopAt(p)' = LoopAt(p) /\ After(p)' = After(p)
           /\ Accepted' <=> Accepted
<1>1. UNCHANGED <<given, body, borrows, claims>>
  BY DEF checker
<1>2. \A i : BorrowsAt(i)' = BorrowsAt(i)
  BY <1>1 DEF BorrowsAt
<1>3. \A v, x, p : Direct(v, x, p)' <=> Direct(v, x, p)
  BY <1>2 DEF Direct
<1>4. \A v, x, p : Carried(v, x, p)' <=> Carried(v, x, p)
  <2>1. /\ \A i, v : Mentions(i, v)' <=> Mentions(i, v)
        /\ \A o, e : Around(o, e)' <=> Around(o, e)
        /\ \A o, e : LoopSpan(o, e)' <=> LoopSpan(o, e)
        /\ \A v : Declaration(v)' = Declaration(v) /\ \A i : Op(i)' = Op(i)
    BY <1>1, SameText DEF LoopSpan
  <2> QED
    BY <1>1, <1>3, <2>1 DEF Carried
<1>5. \A v, p : Needed(v, p)' <=> Needed(v, p)
  BY <1>1 DEF Needed, Mentions, Around, StillOpen, Declaration, Declares, Op, Level
<1>6. \A p : LoopsAround(p)' = LoopsAround(p)
  BY <1>1 DEF LoopsAround, Around, Op, Level
<1>7. \A i : After(i)' = After(i)
  BY <1>1, <1>2 DEF After, PruneAt, Remaining, Mentions, StillOpen, Op, Level
<1>8. ASSUME NEW i PROVE LoopAt(i)' = LoopAt(i)
  <2>1. \A s, n : Sources(s, n)' = Sources(s, n)
    BY DEF Sources
  <2>2. PICK a, f : a = After(i) /\ f = body[i].from
    OBVIOUS
  <2>3. After(i)' = a /\ body'[i].from = f /\ Level(i)' = Level(i)
    BY <1>1, <1>7, <2>2 DEF Level
  <2> QED
    BY <2>1, <2>2, <2>3 DEF LoopAt
<1>9. Accepted' <=> Accepted
  <2>1. PICK h : h = Here
    OBVIOUS
  <2>2. Here' = h /\ (CheckedTo(h)' <=> CheckedTo(h))
    BY <1>1, <2>1, SameChecked, SameText
  <2>3. (Level(Here)' = 1) <=> (Level(Here) = 1)
    BY <1>1 DEF Level, Here
  <2>4. CheckedTo(Here)' <=> CheckedTo(Here)
    BY <2>1, <2>2 DEF CheckedTo
  <2>5. TextOK' <=> TextOK
    BY <1>1, SameText
  <2> QED
    BY <2>3, <2>4, <2>5 DEF Accepted
<1> QED
  BY <1>3, <1>4, <1>5, <1>6, <1>7, <1>8, <1>9 DEF Link

\* A step that arrives with views and loops in order keeps the run's invariant.
LEMMA Lands ==
    ASSUME Accepted, phase = "running", NEW q \in Places, Goto(q), Types', Ready(q)', LoopsFit(q)'
    PROVE  RunInv'
<1>1. phase' = "running" /\ pc' = q /\ tail' = q /\ UNCHANGED <<given, body, checker>>
  BY DEF Goto
<1>2. Places' = Places /\ q \in Nat /\ q >= 1
  BY <1>1, SameText, AcceptedIs, PlaceTypes
<1>3. ViewsOK'
  BY <1>1 DEF Ready, ViewsOK, Link
<1>4. LoopsOK'
  BY <1>1 DEF LoopsFit, LoopsOK
<1> QED
  BY <1>1, <1>2, <1>3, <1>4 DEF RunInv, Types, Reference, NoRef

\* What is known where an element that ends no block is run.
LEMMA RunningAt ==
    ASSUME Accepted, RunInv, phase = "running", NEW p \in DOMAIN body, p = pc, Op(p) \notin Closers
    PROVE  Ready(p) /\ LoopsFit(p) /\ Types /\ tail = p /\ p \in Places /\ p + 1 \in Places /\ p \in Nat
<1>1. p \in Places /\ p + 1 \in Places /\ p \in Nat /\ Len(body) \in Nat /\ p <= Len(body)
  BY AcceptedIs, PlaceTypes
<1>2. ~Closes
  BY <1>1 DEF Closes
<1>3. tail = p
  BY <1>2 DEF RunInv
<1>4. Ready(p)
  <2>1. ViewsOK
    BY DEF RunInv
  <2>2. \A v \in Views : Visible(v, p) => Declaration(v) < p
    BY <1>1, AcceptedIs, VisibleName
  <2> QED
    BY <1>3, <2>1, <2>2 DEF Ready, ViewsOK, Link
<1> QED
  BY <1>1, <1>3, <1>4 DEF RunInv, LoopsOK, LoopsFit, Types

\* A reference that is good names an owner.
LEMMA CurrentOwner ==
    ASSUME NEW r \in Reference \cup {NoRef}, Current(r)
    PROVE  r \in Reference /\ r.owner \in Owners /\ r.owner # NoName
BY DEF Current, Reference, NoRef

\* The types of a loop in progress.
LEMMA LoopTypes ==
    ASSUME Types, NEW k \in DOMAIN loops
    PROVE  loops[k].over \in Reference \cup {NoRef} /\ loops[k].rounds \in 0..MaxRounds
<1> DEFINE All == [rounds : 0..MaxRounds, over : Reference \cup {NoRef}]
<1>1. loops \in Seq(All)
  BY DEF Types
<1>2. loops[k] \in All
  <2> HIDE DEF All
  <2> QED
    BY <1>1
<1> QED
  BY <1>2

----------------------------------------------------------------------------
(* Steps to the next element.                                               *)

\* Views that are not lent anything are in order at the next element.
LEMMA ReadyNext ==
    ASSUME Accepted, NEW p \in DOMAIN body, Op(p) \notin Closers, Ready(p),
           NEW v \in Views, Visible(v, p + 1), Needed(v, p + 1), ~(Op(p) \in Pairs /\ body[p].name = v)
    PROVE  Visible(v, p) /\ Needed(v, p) /\ Current(ref[v]) /\ Link(v, ref[v].owner, p + 1)
<1>1. TextOK /\ p \in Places /\ p + 1 \in Places /\ p \in Nat
  BY AcceptedIs, PlaceTypes
<1>2. Declaration(v) # p
  <2>1. Op(Declaration(v)) = "let" /\ body[Declaration(v)].name = v
    BY <1>1, VisibleView
  <2> QED
    BY <2>1 DEF Pairs
<1>3. Declaration(v) < p
  <2>1. Declaration(v) < p + 1 /\ Declaration(v) \in Nat
    BY <1>1, VisibleName
  <2> QED
    BY <1>1, <1>2, <2>1
<1>4. Visible(v, p)
  BY <1>1, <1>3, VisibleBefore
<1>5. Needed(v, p)
  BY <1>1, NeededBefore
<1>6. Current(ref[v]) /\ Link(v, ref[v].owner, p)
  BY <1>4, <1>5 DEF Ready
<1> QED
  BY <1>4, <1>5, <1>6, LinkNext

\* Wherever control arrives with nothing replaced and nothing lent.
LEMMA StaysReady ==
    ASSUME NEW q, Goto(q), UNCHANGED <<storage, ref>>, Ready(q)
    PROVE  Ready(q)'
<1>1. UNCHANGED <<given, body, checker>>
  BY DEF Goto
<1>2. /\ \A v : Visible(v, q)' <=> Visible(v, q)
      /\ \A v : Needed(v, q)' <=> Needed(v, q)
      /\ \A v, x : Link(v, x, q)' <=> Link(v, x, q)
  BY <1>1, SameText, SameRun
<1>3. \A r : Current(r)' <=> Current(r)
  BY DEF Current
<1> QED
  BY <1>2, <1>3 DEF Ready

\* So are loops, while nothing is replaced.
LEMMA StaysFit ==
    ASSUME NEW p, NEW q, Goto(q), UNCHANGED <<storage, loops>>, LoopsFit(p), LoopsAround(q) = LoopsAround(p)
    PROVE  LoopsFit(q)'
<1>1. UNCHANGED <<given, body, checker>>
  BY DEF Goto
<1>2. /\ \A o : LoopsAround(o)' = LoopsAround(o) /\ LoopAt(o)' = LoopAt(o)
      /\ \A o : Op(o)' = Op(o)
  BY <1>1, SameText, SameRun
<1>3. \A r : Current(r)' <=> Current(r)
  BY DEF Current
<1>4. Cardinality(LoopsAround(q))' = Cardinality(LoopsAround(p))
  BY <1>2
<1> QED
  BY <1>2, <1>3, <1>4 DEF LoopsFit

\* The next element is in the same loops.
LEMMA LoopsNext ==
    ASSUME TextOK, NEW p \in DOMAIN body, Op(p) \notin Closers \cup {"while", "for"}
    PROVE  LoopsAround(p + 1) = LoopsAround(p)
<1>1. \A o : Op(o) \in {"while", "for"} => (Around(o, p + 1) <=> Around(o, p))
  <2>1. TAKE o
  <2>2. HAVE Op(o) \in {"while", "for"}
  <2>3. o # p /\ Op(p) # "end"
    BY <2>2 DEF Closers
  <2> QED
    BY <2>3, AroundNext
<1> QED
  BY <1>1, LoopsSame

\* An element that changes neither storage nor views.
LEMMA PlainRuns ==
    ASSUME Accepted, RunInv, RunPlain
    PROVE  RunInv'
<1>1. PICK op \in {"own", "use", "defer"} : Running(op)
  BY DEF RunPlain
<1>2. PICK p : p = pc
  OBVIOUS
<1>3. /\ phase = "running" /\ p \in DOMAIN body /\ Op(p) \notin Closers \cup Openers \cup Pairs
      /\ Goto(p + 1) /\ UNCHANGED <<storage, ref, loops>>
  BY <1>1, <1>2 DEF Running, RunPlain, Closers, Openers, Pairs
<1>4. Ready(p) /\ LoopsFit(p) /\ Types /\ p + 1 \in Places
  BY <1>2, <1>3, RunningAt
<1>5. Ready(p + 1)
  BY <1>3, <1>4, ReadyNext DEF Ready
<1>6. LoopsAround(p + 1) = LoopsAround(p)
  BY <1>3, AcceptedIs, LoopsNext DEF Openers
<1>7. Ready(p + 1)' /\ LoopsFit(p + 1)' /\ Types'
  BY <1>3, <1>4, <1>5, <1>6, StaysReady, StaysFit DEF Types, Reference, NoRef
<1> QED
  BY <1>3, <1>4, <1>7, Lands

\* A change gives its owner new storage; no view that is needed points into the old.
LEMMA ChangeRuns ==
    ASSUME Accepted, RunInv, RunChange
    PROVE  RunInv'
<1>1. PICK p, x : p = pc /\ x = body[p].name
  OBVIOUS
<1>2. /\ phase = "running" /\ p \in DOMAIN body /\ Op(p) \in {"change", "lend"}
      /\ Op(p) \notin Closers \cup Openers \cup Pairs
      /\ Goto(p + 1) /\ UNCHANGED <<ref, loops>> /\ storage' = [storage EXCEPT ![x] = @ + 1]
  BY <1>1 DEF Running, RunChange, Closers, Openers, Pairs, E
<1>3. Ready(p) /\ LoopsFit(p) /\ Types /\ p + 1 \in Places /\ p \in Places /\ TextOK
  BY <1>1, <1>2, RunningAt, AcceptedIs
<1>4. x \in Owners /\ FlowInto(p, BorrowsAt(p + 1))
  BY <1>1, <1>2, AcceptedIs DEF TextOK, NamesOK
<1>5. Types'
  BY <1>2, <1>3, <1>4 DEF Types, Reference, NoRef
<1>6. ASSUME NEW r \in Reference \cup {NoRef}, Current(r), r.owner # x PROVE Current(r)'
  BY <1>2, <1>3, <1>6 DEF Current, Types, Reference, NoRef
<1>7. UNCHANGED <<given, body, checker>>
  BY <1>2 DEF Goto
<1>8. Ready(p + 1)'
  <2>1. SUFFICES ASSUME NEW v \in Views, Visible(v, p + 1), Needed(v, p + 1)
                 PROVE  Current(ref[v])' /\ Link(v, ref[v].owner, p + 1)
    BY <1>2, <1>7, SameText, SameRun DEF Ready
  <2>2. Visible(v, p) /\ Needed(v, p) /\ Current(ref[v]) /\ Link(v, ref[v].owner, p + 1)
    BY <1>2, <1>3, <2>1, ReadyNext
  <2>3. Link(v, ref[v].owner, p)
    BY <1>3, <2>2 DEF Ready
  <2>4. ref[v].owner # x
    BY <1>1, <1>2, <2>2, <2>3, LinkUnchanged
  <2>5. ref[v] \in Reference \cup {NoRef}
    BY <1>3 DEF Types
  <2>6. PICK r : r = ref[v]
    OBVIOUS
  <2>7. Current(r)' /\ ref'[v] = r
    BY <1>2, <1>6, <2>2, <2>4, <2>5, <2>6
  <2> QED
    BY <2>2, <2>7 DEF Current
<1>9. LoopsFit(p + 1)'
  <2>1. LoopsAround(p + 1) = LoopsAround(p)
    BY <1>2, <1>3, LoopsNext DEF Openers
  <2>2. ASSUME NEW k \in DOMAIN loops, loops[k].over # NoRef
        PROVE  Current(loops[k].over)'
    <3>1. Current(loops[k].over)
      BY <1>3, <2>2 DEF LoopsFit
    <3>2. PICK o \in LoopsAround(p) : Op(o) = "for" /\ loops[k].over.owner \in LoopAt(o).sources
      BY <1>3, <2>2 DEF LoopsFit
    <3>3. LoopAt(o) \in After(p)
      BY <1>3, <3>2, LoopHeld
    <3>4. loops[k].over.owner # x
      BY <1>1, <1>2, <1>4, <3>2, <3>3 DEF FlowInto, Borrowed
    <3>5. loops[k].over \in Reference \cup {NoRef}
      BY <1>3, LoopTypes
    <3>6. PICK r : r = loops[k].over
      OBVIOUS
    <3>7. Current(r)' /\ loops'[k].over = r
      BY <1>2, <1>6, <3>1, <3>4, <3>5, <3>6
    <3> QED
      BY <3>7 DEF Current
  <2>3. \A o : LoopsAround(o)' = LoopsAround(o) /\ LoopAt(o)' = LoopAt(o) /\ Op(o)' = Op(o)
    BY <1>7, SameText, SameRun
  <2>4. Cardinality(LoopsAround(p + 1))' = Cardinality(LoopsAround(p))
    BY <2>1, <2>3
  <2> QED
    BY <1>2, <1>3, <2>1, <2>2, <2>3, <2>4 DEF LoopsFit
<1> QED
  BY <1>2, <1>3, <1>5, <1>8, <1>9, Lands

\* Where a name that is lent points.
LEMMA Lent ==
    ASSUME Accepted, NEW p \in DOMAIN body, Ready(p), Types, Op(p) \in Pairs \cup {"for"},
           NEW r, r = Refer(body[p].from)
    PROVE  r \in Reference /\ Current(r) /\ r.owner \in Sources(After(p), body[p].from)
<1>1. TextOK /\ p \in Places /\ NamesOK(p)
  BY AcceptedIs, PlaceTypes DEF TextOK
<1>2. PICK n : n = body[p].from
  OBVIOUS
<1>3. n \in Names
  BY <1>1, <1>2 DEF NamesOK
<1>4. CASE n \in Owners
  <2>1. r = [owner |-> n, at |-> storage[n]] /\ n # NoName /\ Sources(After(p), n) = {n}
    BY <1>2, <1>4, ViewsAssumption DEF Refer, Sources
  <2>2. storage[n] \in Nat
    BY <1>4 DEF Types
  <2> QED
    BY <1>2, <1>4, <2>1, <2>2 DEF Reference, Current
<1>5. CASE n \notin Owners
  <2>1. n \in Views /\ r = ref[n]
    BY <1>2, <1>3, <1>5 DEF Names, Refer
  <2>2. Mentions(p, n)
    BY <1>2 DEF Mentions
  <2>3. Visible(n, p) /\ p \in Nat
    BY <1>1, <2>1, <2>2, MentionVisible, PlaceTypes
  <2>4. Needed(n, p)
    BY <2>2, <2>3 DEF Needed
  <2>5. Current(r) /\ Link(n, r.owner, p)
    BY <2>1, <2>3, <2>4 DEF Ready
  <2>6. \E b \in After(p) : b.view = n /\ r.owner \in b.sources
    BY <2>1, <2>2, <2>5, MentionedDirect
  <2>7. r.owner \in Sources(After(p), n)
    BY <1>5, <2>6 DEF Sources
  <2>8. r \in Reference \cup {NoRef}
    BY <2>1 DEF Types
  <2> QED
    BY <1>2, <2>5, <2>7, <2>8, CurrentOwner
<1> QED
  BY <1>4, <1>5

\* A view is lent an owner, or what another view points into.
LEMMA ViewRuns ==
    ASSUME Accepted, RunInv, RunView
    PROVE  RunInv'
<1>1. PICK p, w, r : p = pc /\ w = body[p].name /\ r = Refer(body[p].from)
  OBVIOUS
<1>2. /\ phase = "running" /\ p \in DOMAIN body /\ Op(p) \in Pairs
      /\ Op(p) \notin Closers \cup Openers
      /\ Goto(p + 1) /\ UNCHANGED <<storage, loops>> /\ ref' = [ref EXCEPT ![w] = r]
  BY <1>1 DEF Running, RunView, Closers, Openers, Pairs, E
<1>3. Ready(p) /\ LoopsFit(p) /\ Types /\ p + 1 \in Places /\ p \in Places /\ TextOK
  BY <1>1, <1>2, RunningAt, AcceptedIs
<1>4. w \in Views /\ FlowInto(p, BorrowsAt(p + 1))
  BY <1>1, <1>2, AcceptedIs DEF TextOK, NamesOK
<1>5. r \in Reference /\ Current(r) /\ r.owner \in Sources(After(p), body[p].from)
  BY <1>1, <1>2, <1>3, Lent
<1>6. Types'
  BY <1>2, <1>3, <1>4, <1>5 DEF Types, Reference, NoRef
<1>7. UNCHANGED <<given, body, checker>> /\ \A s : Current(s)' <=> Current(s)
  BY <1>2 DEF Goto, Current
<1>8. Ready(p + 1)'
  <2>1. SUFFICES ASSUME NEW v \in Views, Visible(v, p + 1), Needed(v, p + 1)
                 PROVE  Current(ref'[v]) /\ Link(v, ref'[v].owner, p + 1)
    <3>1. /\ \A v, i : Visible(v, i)' <=> Visible(v, i)
          /\ \A v, i : Needed(v, i)' <=> Needed(v, i)
          /\ \A v, x, i : Link(v, x, i)' <=> Link(v, x, i)
      BY <1>7, SameText, SameRun
    <3>2. \A v \in Views : Current(ref[v])' <=> Current(ref'[v])
      BY <1>2 DEF Current
    <3> QED
      BY <2>1, <3>1, <3>2 DEF Ready
  <2>2. CASE v = w
    <3>1. ref'[v] = r
      BY <1>2, <1>3, <1>4, <2>2 DEF Types
    <3>2. BorrowsAt(p + 1) = Recorded(After(p), w, body[p].from)
      BY <1>1, <1>2, <1>4 DEF FlowInto
    <3>3. Direct(w, r.owner, p + 1)
      <4>1. ViewOf(w, Sources(After(p), body[p].from), ScopeOf(w)) \in BorrowsAt(p + 1)
        BY <3>2 DEF Recorded
      <4> QED
        BY <1>5, <4>1 DEF Direct, ViewOf
    <3> QED
      BY <1>5, <2>2, <3>1, <3>3 DEF Link
  <2>3. CASE v # w
    <3>1. ref'[v] = ref[v]
      BY <1>2, <1>3, <2>3 DEF Types
    <3> QED
      BY <1>1, <1>2, <1>3, <2>1, <2>3, <3>1, ReadyNext
  <2> QED
    BY <2>2, <2>3
<1>9. LoopsFit(p + 1)'
  BY <1>2, <1>3, LoopsNext, StaysFit DEF Openers
<1> QED
  BY <1>2, <1>3, <1>6, <1>8, <1>9, Lands

----------------------------------------------------------------------------
(* Steps that open a construct, or skip it.                                 *)

\* Views are in order after an arm or a loop that is skipped.
LEMMA ReadySkip ==
    ASSUME Accepted, NEW p \in DOMAIN body, Op(p) \in Openers, NEW c, ClosedAt(p, c),
           Op(c) = "end" => Op(p) # "if" \/ ~HasElse(p, c), Ready(p)
    PROVE  Ready(c + 1) /\ LoopsAround(c + 1) = (IF Op(c) = "else" /\ Op(p) # "if" THEN LoopsAround(c) ELSE LoopsAround(p))
           /\ c + 1 \in Places
<1>1. /\ TextOK /\ c \in DOMAIN body /\ Op(c) \in Closers /\ c \in Nat /\ c + 1 \in Places /\ p < c /\ p \in Nat
      /\ p \in Places
  BY AcceptedIs, PlaceTypes DEF ClosedAt, Around
<1>2. ASSUME NEW v \in Views, Visible(v, c + 1), Needed(v, c + 1)
      PROVE  Current(ref[v]) /\ Link(v, ref[v].owner, c + 1)
  <2>1. Visible(v, p)
    BY <1>1, <1>2, VisibleAfter
  <2>2. Needed(v, p)
    BY <1>1, <1>2, NeededBefore
  <2>3. Current(ref[v]) /\ Link(v, ref[v].owner, p)
    BY <2>1, <2>2 DEF Ready
  <2> QED
    BY <2>1, <2>2, <2>3, LinkSkip
<1>3. CASE Op(c) = "end"
  <2>1. \A o : Around(o, c + 1) <=> Around(o, p)
    BY <1>1, <1>3, AroundCloser
  <2> QED
    BY <1>1, <1>2, <1>3, <2>1, LoopsSame DEF Ready
<1>4. CASE Op(c) = "else" /\ Op(p) = "if"
  <2>1. \A o : Op(o) \in {"while", "for"} => (Around(o, c + 1) <=> Around(o, p))
    BY <1>1, <1>4, AroundCloser
  <2> QED
    BY <1>1, <1>2, <1>4, <2>1, LoopsSame DEF Ready
<1>5. CASE Op(c) = "else" /\ Op(p) # "if"
  <2>1. \A o : Around(o, c + 1) <=> Around(o, c)
    BY <1>1, <1>5, AroundCloser
  <2> QED
    BY <1>1, <1>2, <1>5, <2>1, LoopsSame DEF Ready
<1> QED
  BY <1>1, <1>3, <1>4, <1>5 DEF Closers

\* An if enters its arm or skips it.
LEMMA IfRuns ==
    ASSUME Accepted, RunInv, RunIf
    PROVE  RunInv'
<1>1. PICK p, c : p = pc /\ c = Least(Closing(p, Closers))
  OBVIOUS
<1>2. /\ phase = "running" /\ p \in DOMAIN body /\ Op(p) = "if" /\ Op(p) \in Openers
      /\ Op(p) \notin Closers \cup Pairs \cup {"while", "for"}
      /\ Goto(p + 1) \/ Goto(c + 1)
      /\ UNCHANGED <<storage, ref, loops>>
  BY <1>1 DEF Running, RunIf, Closers, Openers, Pairs
<1>3. Ready(p) /\ LoopsFit(p) /\ Types /\ p + 1 \in Places /\ p \in Nat
  BY <1>1, <1>2, RunningAt
<1>4. Types'
  BY <1>2, <1>3 DEF Types, Reference, NoRef
<1>5. CASE Goto(p + 1)
  <2>1. Ready(p + 1) /\ LoopsAround(p + 1) = LoopsAround(p)
    BY <1>2, <1>3, ReadyNext, LoopsNext, AcceptedIs DEF Ready
  <2> QED
    BY <1>2, <1>3, <1>4, <1>5, <2>1, StaysReady, StaysFit, Lands
<1>6. CASE Goto(c + 1)
  <2>1. /\ ClosedAt(p, c) /\ Op(c) \in Closers /\ c \in Nat
        /\ \A j \in (p + 1)..(c - 1) : j \notin Closing(p, Closers)
    BY <1>1, <1>2, FirstCloser DEF Accepted
  <2>2. Op(c) = "end" => ~HasElse(p, c)
    <3>1. SUFFICES ASSUME NEW k \in Closing(p, {"else"}), k < c PROVE FALSE
      BY DEF HasElse
    <3>2. k \in Closing(p, Closers) /\ k \in (p + 1)..Len(body)
      BY <3>1 DEF Closing, Closers
    <3> QED
      BY <1>3, <2>1, <3>1, <3>2
  <2>3. Ready(c + 1) /\ LoopsAround(c + 1) = LoopsAround(p) /\ c + 1 \in Places
    BY <1>2, <1>3, <2>1, <2>2, ReadySkip
  <2> QED
    BY <1>2, <1>4, <1>3, <1>6, <2>3, StaysReady, StaysFit, Lands
<1> QED
  BY <1>2, <1>5, <1>6

\* A loop starts its first round or is skipped.
LEMMA LoopRuns ==
    ASSUME Accepted, RunInv, RunLoop
    PROVE  RunInv'
<1>1. PICK p, c, over :
          p = pc /\ c = EndOf(p) /\ over = IF Op(p) = "for" THEN Refer(body[p].from) ELSE NoRef
  OBVIOUS
<1>2. /\ phase = "running" /\ p \in DOMAIN body /\ Op(p) \in {"while", "for"} /\ Op(p) \in Openers
      /\ Op(p) \notin Closers \cup Pairs /\ Op(p) # "if"
      /\ \/ loops' = Append(loops, [rounds |-> MaxRounds, over |-> over]) /\ Goto(p + 1)
         \/ Goto(c + 1) /\ UNCHANGED loops
      /\ UNCHANGED <<storage, ref>>
  BY <1>1 DEF Running, RunLoop, Closers, Openers, Pairs, E
<1>3. Ready(p) /\ LoopsFit(p) /\ Types /\ p + 1 \in Places /\ p \in Nat /\ TextOK
  BY <1>1, <1>2, RunningAt, AcceptedIs
<1>4. CASE loops' = Append(loops, [rounds |-> MaxRounds, over |-> over]) /\ Goto(p + 1)
  <2> DEFINE top == [rounds |-> MaxRounds, over |-> over]
  <2>1. Ready(p + 1)
    BY <1>2, <1>3, ReadyNext DEF Ready
  <2>2. Ready(p + 1)'
    BY <1>2, <1>4, <2>1, StaysReady
  <2>3. Op(p) = "for" => /\ over \in Reference /\ Current(over)
                         /\ over.owner \in LoopAt(p).sources
    BY <1>1, <1>2, <1>3, Lent DEF LoopAt
  <2>4. over \in Reference \cup {NoRef} /\ (over # NoRef => Op(p) = "for")
    BY <1>1, <2>3
  <2>5. top \in [rounds : 0..MaxRounds, over : Reference \cup {NoRef}]
    BY <2>4, ViewsAssumption
  <2>6. loops \in Seq([rounds : 0..MaxRounds, over : Reference \cup {NoRef}])
    BY <1>3 DEF Types
  <2>7. Types'
    <3> DEFINE All == [rounds : 0..MaxRounds, over : Reference \cup {NoRef}]
    <3> HIDE DEF All, top
    <3>1. loops' \in Seq(All)
      BY <1>4, <2>5, <2>6 DEF All, top
    <3> QED
      BY <1>2, <1>3, <3>1 DEF Types, Reference, NoRef, All
  <2>8. \A q : Around(q, p + 1) <=> q = p \/ Around(q, p)
    BY <1>2, <1>3, AroundNext DEF Closers
  <2>9. /\ LoopsAround(p + 1) = LoopsAround(p) \cup {p}
        /\ Cardinality(LoopsAround(p + 1)) = Cardinality(LoopsAround(p)) + 1
    BY <1>2, <1>3, <2>8, LoopsEnter
  <2>10. Len(loops) = Cardinality(LoopsAround(p)) /\ Len(loops) \in Nat
    BY <1>3, <2>6 DEF LoopsFit
  <2>11. /\ Len(loops') = Len(loops) + 1 /\ DOMAIN loops' = 1..(Len(loops) + 1) /\ DOMAIN loops = 1..Len(loops)
         /\ \A k \in 1..Len(loops) : loops'[k] = loops[k]
         /\ loops'[Len(loops) + 1].over = over
    <3>1. loops'[Len(loops) + 1] = top
      BY <1>4, <2>5, <2>6
    <3> QED
      BY <1>4, <2>5, <2>6, <3>1
  <2>12. UNCHANGED <<given, body, checker>> /\ \A s : Current(s)' <=> Current(s)
    BY <1>2, <1>4 DEF Goto, Current
  <2>13. \A o : LoopsAround(o)' = LoopsAround(o) /\ LoopAt(o)' = LoopAt(o) /\ Op(o)' = Op(o)
    BY <2>12, SameText, SameRun
  <2>14. ASSUME NEW k \in DOMAIN loops', loops'[k].over # NoRef
         PROVE  /\ Current(loops'[k].over)
                /\ \E o \in LoopsAround(p + 1) : /\ Op(o) = "for" /\ Cardinality(LoopsAround(o)) = k - 1
                                                 /\ loops'[k].over.owner \in LoopAt(o).sources
    <3>1. CASE k \in DOMAIN loops
      BY <1>3, <2>9, <2>11, <2>14, <3>1 DEF LoopsFit
    <3>2. CASE k = Len(loops) + 1
      BY <2>3, <2>4, <2>9, <2>10, <2>11, <2>14, <3>2
    <3> QED
      BY <2>10, <2>11, <3>1, <3>2
  <2>15. LoopsFit(p + 1)'
    <3>1. Cardinality(LoopsAround(p + 1))' = Cardinality(LoopsAround(p + 1))
      BY <2>13
    <3>2. \A s : Current(s)' <=> Current(s)
      BY <2>12
    <3>3. \A k \in DOMAIN loops' : loops'[k].over # NoRef => Current(loops[k].over)'
      <4>1. TAKE k \in DOMAIN loops'
      <4>2. HAVE loops'[k].over # NoRef
      <4>3. PICK r : r = loops'[k].over
        OBVIOUS
      <4>4. Current(r)'
        BY <2>12, <2>14, <4>2, <4>3
      <4> QED
        BY <4>3, <4>4 DEF Current
    <3> QED
      BY <2>9, <2>10, <2>11, <2>13, <2>14, <3>1, <3>3 DEF LoopsFit, NoRef
  <2> QED
    BY <1>2, <1>3, <1>4, <2>2, <2>7, <2>15, Lands
<1>5. CASE Goto(c + 1) /\ UNCHANGED loops
  <2>1. ClosedAt(p, c) /\ Op(c) = "end"
    BY <1>1, <1>2, EndOfOpener DEF Accepted
  <2>2. Ready(c + 1) /\ LoopsAround(c + 1) = LoopsAround(p) /\ c + 1 \in Places
    BY <1>2, <1>3, <2>1, ReadySkip
  <2>3. Types'
    BY <1>2, <1>3, <1>5 DEF Types, Reference, NoRef
  <2> QED
    BY <1>2, <1>3, <1>5, <2>2, <2>3, StaysReady, StaysFit, Lands
<1> QED
  BY <1>2, <1>4, <1>5

----------------------------------------------------------------------------
(* The end of a block.                                                      *)

\* What is known at the end of a block, cleaned up down to tail.
LEMMA ClosingAt ==
    ASSUME Accepted, RunInv, phase = "running", NEW p, p = pc
    PROVE  /\ p \in Places /\ p \in Nat /\ tail \in 1..p /\ Types /\ LoopsFit(p) /\ TextOK
           /\ \A v \in Views : Visible(v, p) /\ Needed(v, p) /\ Declaration(v) < tail =>
                 Current(ref[v]) /\ Link(v, ref[v].owner, p)
           /\ \A o : Around(o, p) => o < tail /\ o \in DOMAIN body
<1>1. p \in Places /\ p \in Nat /\ tail \in 1..p /\ Types /\ LoopsFit(p) /\ TextOK
  BY AcceptedIs, PlaceTypes DEF RunInv, LoopsOK, LoopsFit, Types
<1>2. \A v \in Views : Visible(v, p) /\ Needed(v, p) /\ Declaration(v) < tail =>
          Current(ref[v]) /\ Link(v, ref[v].owner, p)
  BY DEF RunInv, ViewsOK, Link
<1>3. ASSUME NEW o, Around(o, p) PROVE o < tail /\ o \in DOMAIN body
  <2>1. o \in DOMAIN body /\ o < p /\ Level(o) < Level(p) /\ o \in Nat /\ Level(o) \in Nat /\ Level(p) \in Nat
        /\ Op(o) \in Openers
    BY <1>1, <1>3, AroundLevel, PlaceTypes
  <2>2. CASE tail = p
    BY <2>1, <2>2
  <2>3. CASE tail # p
    <3>1. Op(tail) \in {"own", "defer"} /\ Level(tail) = Level(p) /\ StillOpen(tail, p)
      BY <2>3 DEF RunInv
    <3>2. tail \in 1..(p - 1) /\ Op(tail) \notin Closers /\ tail # o
      BY <1>1, <2>1, <2>3, <3>1 DEF Closers, Openers
    <3>3. \A k \in (tail + 1)..p : Level(k) >= Level(tail)
      BY <1>1, <3>1, <3>2, OpenLevel
    <3>4. ~(tail < o)
      BY <1>1, <2>1, <3>1, <3>3
    <3> QED
      BY <1>1, <2>1, <3>2, <3>4
  <2> QED
    BY <2>2, <2>3
<1> QED
  BY <1>1, <1>2, <1>3

\* The entry that runs next is above those that ran.
LEMMA LatestIs ==
    ASSUME Pending # {}, tail \in Nat
    PROVE  Latest \in Pending /\ Closes /\ Latest \in 1..(tail - 1)
<1> DEFINE S == {n \in Nat : tail - n \in Pending}
<1>1. Pending \subseteq 1..(tail - 1) /\ Closes
  BY DEF Pending
<1>2. PICK j \in Pending : TRUE
  OBVIOUS
<1>3. tail - j \in S
  BY <1>1, <1>2
<1>4. Least(S) \in S /\ \A k \in S : Least(S) <= k
  <2>1. S \in SUBSET Nat /\ S # {}
    BY <1>3
  <2> HIDE DEF S
  <2> QED
    BY <2>1, LeastIs
<1>5. tail - Least(S) \in Pending
  BY <1>4
<1>6. \A k \in Pending : k <= tail - Least(S)
  <2>1. TAKE k \in Pending
  <2>2. tail - k \in S /\ k \in Nat
    BY <1>1, <2>1
  <2>3. Least(S) <= tail - k /\ Least(S) \in Nat
    BY <1>4, <2>2
  <2> HIDE DEF S
  <2> QED
    BY <2>2, <2>3
<1>7. \E k \in Pending : \A q \in Pending : q <= k
  BY <1>5, <1>6
<1> QED
  BY <1>1, <1>7 DEF Latest

\* It belongs to the block that ends.
LEMMA PendingIs ==
    ASSUME Accepted, RunInv, Pending # {}, NEW p, p = pc, NEW k, k = Latest
    PROVE  /\ phase = "running" /\ Closes /\ k \in 1..(tail - 1) /\ k \in 1..(p - 1) /\ k \in DOMAIN body
           /\ Op(k) \in {"own", "defer"} /\ Level(k) = Level(p) /\ StillOpen(k, p)
           /\ Op(k) \notin Closers \cup Openers
<1>1. Closes
  BY DEF Pending
<1>2. phase = "running"
  BY <1>1 DEF Closes
<1>3. tail \in 1..p /\ p \in Nat /\ p \in Places
  BY <1>2, ClosingAt
<1>4. k \in Pending /\ k \in 1..(tail - 1)
  BY <1>3, LatestIs
<1>5. k \in 1..(p - 1) /\ k \in DOMAIN body
  BY <1>3, <1>4, AcceptedIs, PlaceTypes
<1>6. Op(k) \in {"own", "defer"} /\ Level(k) = Level(p) /\ StillOpen(k, p)
  BY <1>1, <1>4 DEF Pending
<1> QED
  BY <1>1, <1>2, <1>4, <1>5, <1>6 DEF Closers, Openers

\* An owner is destroyed, or a deferred call runs, in reverse order.
LEMMA CleanUpRuns ==
    ASSUME Accepted, RunInv, CleanUp
    PROVE  RunInv'
<1>1. PICK p, k, x : p = pc /\ k = Latest /\ x = body[k].name
  OBVIOUS
<1>2. /\ Pending # {} /\ tail' = k /\ UNCHANGED <<given, body, phase, pc, checker, ref, loops>>
      /\ storage' = IF Op(k) = "own" THEN [storage EXCEPT ![x] = @ + 1] ELSE storage
  BY <1>1 DEF CleanUp
<1>3. /\ phase = "running" /\ Closes /\ k \in 1..(tail - 1) /\ k \in 1..(p - 1) /\ k \in DOMAIN body
      /\ Op(k) \in {"own", "defer"} /\ Level(k) = Level(p) /\ StillOpen(k, p)
      /\ Op(k) \notin Closers \cup Openers
  BY <1>1, <1>2, PendingIs
<1>4. /\ p \in Places /\ p \in Nat /\ tail \in 1..p /\ Types /\ LoopsFit(p) /\ TextOK
      /\ \A v \in Views : Visible(v, p) /\ Needed(v, p) /\ Declaration(v) < tail =>
            Current(ref[v]) /\ Link(v, ref[v].owner, p)
  BY <1>1, <1>3, ClosingAt
<1>5. Op(k) = "own" => x \in Owners /\ Declaration(x) = k
  <2>1. Op(k) = "own" => Declares(k, x)
    BY <1>1 DEF Declares
  <2> QED
    BY <1>3, <1>4, <2>1, DeclarationIs
<1>6. Types'
  <2>1. storage' \in [Owners -> Nat]
    BY <1>2, <1>4, <1>5 DEF Types
  <2> QED
    BY <1>2, <1>4, <2>1 DEF Types, Reference, NoRef
<1>7. ASSUME NEW r \in Reference \cup {NoRef}, Current(r), Op(k) = "own" => r.owner # x PROVE Current(r)'
  <2>1. r.owner \in Owners /\ r.owner # NoName /\ storage[r.owner] = r.at
    BY <1>7, CurrentOwner DEF Current
  <2>2. storage'[r.owner] = storage[r.owner]
    BY <1>2, <1>4, <1>7, <2>1 DEF Types
  <2> QED
    BY <2>1, <2>2 DEF Current
<1>8. ViewsOK'
  <2>1. SUFFICES ASSUME NEW v \in Views, Visible(v, p), Needed(v, p), Declaration(v) < k
                 PROVE  Current(ref[v])' /\ Link(v, ref[v].owner, p)
    <3>1. UNCHANGED <<given, body, checker>> /\ pc' = p /\ tail' = k /\ ref' = ref
      BY <1>1, <1>2
    <3>2. /\ \A v : Visible(v, p)' <=> Visible(v, p)
          /\ \A v : Needed(v, p)' <=> Needed(v, p)
          /\ \A v, x1 : Link(v, x1, p)' <=> Link(v, x1, p)
          /\ \A v : Declaration(v)' = Declaration(v)
      BY <3>1, SameText, SameRun
    <3>3. \A v \in Views : Visible(v, p)' /\ Needed(v, p)' /\ Declaration(v)' < k =>
             Current(ref[v])' /\ Link(v, ref[v].owner, p)'
      BY <2>1, <3>1, <3>2
    <3> QED
      BY <3>1, <3>3 DEF ViewsOK, Link
  <2>2. Declaration(v) \in Nat /\ Declaration(v) < tail
    BY <1>3, <1>4, <2>1, VisibleView
  <2>3. Current(ref[v]) /\ Link(v, ref[v].owner, p)
    BY <1>4, <2>1, <2>2
  <2>4. Op(k) = "own" => ref[v].owner # x
    <3>1. Declared(ref[v].owner) /\ Declaration(ref[v].owner) < Declaration(v)
      BY <1>4, <2>3, LinkDeclared
    <3>2. Declaration(ref[v].owner) \in Int
      BY <1>4, <3>1, DeclarationType
    <3> QED
      BY <1>3, <1>5, <2>1, <2>2, <3>1, <3>2
  <2>5. PICK r : r = ref[v]
    OBVIOUS
  <2>6. r \in Reference \cup {NoRef}
    BY <1>4, <2>5 DEF Types
  <2>7. Current(r)' /\ ref'[v] = r
    BY <1>2, <1>7, <2>3, <2>4, <2>5, <2>6
  <2> QED
    BY <2>3, <2>7 DEF Current
<1>9. LoopsOK'
  <2>1. ASSUME NEW i \in DOMAIN loops, loops[i].over # NoRef
        PROVE  Current(loops[i].over)'
    <3>1. Current(loops[i].over)
      BY <1>4, <2>1 DEF LoopsFit
    <3>2. PICK o \in LoopsAround(p) : Op(o) = "for" /\ loops[i].over.owner \in LoopAt(o).sources
      BY <1>4, <2>1 DEF LoopsFit
    <3>3. /\ Declared(loops[i].over.owner) /\ Declaration(loops[i].over.owner) < o
          /\ o \in 1..(p - 1) /\ Around(o, p) /\ o \in DOMAIN body
      BY <1>4, <3>2, LoopHeld
    <3>4. o < k
      <4>1. Level(o) < Level(p) /\ Level(o) \in Nat /\ Level(p) \in Nat /\ o \in Nat
        BY <1>4, <3>3, AroundLevel, PlaceTypes
      <4>2. \A j \in (k + 1)..p : Level(j) >= Level(k)
        BY <1>3, <1>4, OpenLevel
      <4>3. o # k
        BY <1>3, <3>2
      <4> QED
        BY <1>3, <1>4, <3>3, <4>1, <4>2, <4>3
    <3>5. Op(k) = "own" => loops[i].over.owner # x
      <4>1. Declaration(loops[i].over.owner) \in Int
        BY <1>4, <3>3, DeclarationType
      <4> QED
        BY <1>3, <1>5, <3>3, <3>4, <4>1
    <3>6. PICK r : r = loops[i].over
      OBVIOUS
    <3>7. r \in Reference \cup {NoRef}
      BY <1>4, <2>1, <3>6, LoopTypes
    <3>8. Current(r)' /\ loops'[i].over = r
      BY <1>2, <1>7, <3>1, <3>5, <3>6, <3>7
    <3> QED
      BY <3>8 DEF Current
  <2>2. UNCHANGED <<given, body, checker>> /\ pc' = p /\ loops' = loops
    BY <1>1, <1>2
  <2>3. \A o : LoopsAround(o)' = LoopsAround(o) /\ LoopAt(o)' = LoopAt(o) /\ Op(o)' = Op(o)
    BY <2>2, SameText, SameRun
  <2>4. Cardinality(LoopsAround(pc))' = Cardinality(LoopsAround(p))
    <3>1. LoopsAround(p)' = LoopsAround(p)
      BY <2>3
    <3>2. LoopsAround(pc)' = LoopsAround(p)
      BY <2>2, <3>1 DEF LoopsAround
    <3> QED
      BY <3>2
  <2>5. LoopsAround(pc)' = LoopsAround(p)
    <3>1. LoopsAround(p)' = LoopsAround(p)
      BY <2>3
    <3> QED
      BY <2>2, <3>1 DEF LoopsAround
  <2> QED
    BY <1>4, <2>1, <2>2, <2>3, <2>4, <2>5 DEF LoopsFit, LoopsOK, NoRef
<1>10. /\ phase' = "running" /\ pc' = p /\ Places' = Places /\ Closes' /\ Op(k)' = Op(k)
       /\ Level(k)' = Level(k) /\ Level(p)' = Level(p) /\ StillOpen(k, p)'
  <2>1. UNCHANGED <<given, body, phase, pc>> /\ pc' = p
    BY <1>1, <1>2
  <2>2. Closes'
    BY <1>3, <2>1 DEF Closes, Op
  <2> QED
    BY <1>3, <2>1, <2>2, SameText
<1>11. tail' \in 1..pc'
  BY <1>2, <1>3, <1>4, <1>10
<1>12. Level(tail)' = Level(k)' /\ Op(tail)' = Op(k)' /\ Level(pc)' = Level(p)' /\ StillOpen(tail, pc)' = StillOpen(k, p)'
  BY <1>2, <1>10 DEF Level, Op, StillOpen
<1> QED
  BY <1>2, <1>3, <1>4, <1>6, <1>8, <1>9, <1>10, <1>11, <1>12 DEF RunInv, Types, Reference, NoRef

\* Leaving the block of the construct o from its closer p, to q.
LEMMA LeaveViews ==
    ASSUME Accepted, RunInv, phase = "running", NEW p, p = pc, NEW o, ClosedAt(o, p), NEW q \in Places,
           \A v \in Views : Visible(v, q) /\ Needed(v, q) =>
               /\ Visible(v, o) /\ Needed(v, p)
               /\ \A x : Link(v, x, p) => Link(v, x, q)
    PROVE  Ready(q)
<1>1. /\ p \in Places /\ TextOK
      /\ \A v \in Views : Visible(v, p) /\ Needed(v, p) /\ Declaration(v) < tail =>
            Current(ref[v]) /\ Link(v, ref[v].owner, p)
      /\ \A i : Around(i, p) => i < tail /\ i \in DOMAIN body
      /\ tail \in 1..p /\ p \in Nat
  BY ClosingAt
<1>2. Around(o, p)
  BY DEF ClosedAt
<1>3. o < tail /\ o \in Places /\ o \in Nat
  BY <1>1, <1>2, PlaceTypes
<1>4. ASSUME NEW v \in Views, Visible(v, q), Needed(v, q)
      PROVE  Current(ref[v]) /\ Link(v, ref[v].owner, q)
  <2>1. Visible(v, o) /\ Needed(v, p) /\ \A x : Link(v, x, p) => Link(v, x, q)
    BY <1>4
  <2>2. Visible(v, p)
    BY <1>1, <1>2, <2>1, VisibleInside
  <2>3. Declaration(v) < o /\ Declaration(v) \in Nat
    BY <1>1, <1>3, <2>1, VisibleName
  <2>4. Declaration(v) < tail
    BY <1>1, <1>3, <2>3
  <2> QED
    BY <1>1, <2>1, <2>2, <2>4
<1> QED
  BY <1>4 DEF Ready

\* The loops that go on, when the innermost one is left or starts another round.
LEMMA LeaveFit ==
    ASSUME Accepted, NEW q, Goto(q), UNCHANGED storage, Types, NEW p, LoopsFit(p), LoopsAround(q) \subseteq LoopsAround(p),
           Len(loops') = Cardinality(LoopsAround(q)),
           \A o \in LoopsAround(p) : Cardinality(LoopsAround(o)) < Len(loops') => o \in LoopsAround(q),
           DOMAIN loops' \subseteq DOMAIN loops, DOMAIN loops' = 1..Len(loops'),
           \A k \in DOMAIN loops' : loops'[k].over = loops[k].over
    PROVE  LoopsFit(q)'
<1>1. UNCHANGED <<given, body, checker>> /\ \A s : Current(s)' <=> Current(s)
  BY DEF Goto, Current
<1>2. \A o : LoopsAround(o)' = LoopsAround(o) /\ LoopAt(o)' = LoopAt(o) /\ Op(o)' = Op(o)
  BY <1>1, SameText, SameRun
<1>3. Cardinality(LoopsAround(q))' = Cardinality(LoopsAround(q))
  BY <1>2
<1>4. ASSUME NEW k \in DOMAIN loops', loops'[k].over # NoRef
      PROVE  /\ Current(loops[k].over)'
             /\ \E o \in LoopsAround(q) : /\ Op(o) = "for" /\ Cardinality(LoopsAround(o)) = k - 1
                                          /\ loops'[k].over.owner \in LoopAt(o).sources
  <2>1. k \in DOMAIN loops /\ loops'[k].over = loops[k].over /\ k \in 1..Len(loops')
    BY <1>4
  <2>2. Current(loops[k].over)
    BY <1>4, <2>1 DEF LoopsFit
  <2>3. PICK o \in LoopsAround(p) : /\ Op(o) = "for" /\ Cardinality(LoopsAround(o)) = k - 1
                                    /\ loops[k].over.owner \in LoopAt(o).sources
    BY <1>4, <2>1 DEF LoopsFit
  <2>4. Len(loops') \in Nat
    BY LoopsFinite, AcceptedIs
  <2>5. o \in LoopsAround(q)
    BY <2>1, <2>3, <2>4
  <2>6. PICK r : r = loops[k].over
    OBVIOUS
  <2>7. Current(r)' /\ loops'[k].over = r
    BY <1>1, <2>1, <2>2, <2>6
  <2>8. Current(loops[k].over)'
    BY <2>7 DEF Current
  <2> QED
    BY <2>1, <2>3, <2>5, <2>8
<1> QED
  BY <1>2, <1>3, <1>4 DEF LoopsFit, NoRef

\* Leaving an arm.
LEMMA LeaveIf ==
    ASSUME Accepted, RunInv, phase = "running", NEW p, p = pc, NEW o, ClosedAt(o, p), Op(o) = "if",
           Goto(EndOf(o) + 1), UNCHANGED <<storage, ref, loops>>
    PROVE  RunInv'
<1>1. PICK e : e = EndOf(o)
  OBVIOUS
<1>2. TextOK /\ o \in DOMAIN body /\ Op(o) \in Openers /\ Around(o, p) /\ Level(Here) = 1
  BY AcceptedIs DEF ClosedAt, Around, Accepted
<1>3. ClosedAt(o, e) /\ Op(e) = "end" /\ e \in DOMAIN body /\ e \in Nat
  BY <1>1, <1>2, EndOfOpener
<1>4. p \in Places /\ p \in Nat /\ e + 1 \in Places /\ p <= e + 1 /\ Types /\ LoopsFit(p)
  <2>1. p \in Places /\ p \in Nat /\ Types /\ LoopsFit(p)
    BY ClosingAt
  <2> QED
    BY <1>2, <1>3, <2>1, LastPlace, PlaceTypes
<1>5. ASSUME NEW v \in Views, Visible(v, e + 1), Needed(v, e + 1)
      PROVE  /\ Visible(v, o) /\ Needed(v, p)
             /\ \A x : Link(v, x, p) => Link(v, x, e + 1)
  <2>1. Visible(v, o)
    BY <1>2, <1>3, <1>5, VisibleAfter
  <2>2. Needed(v, p)
    BY <1>2, <1>4, <1>5, NeededBefore
  <2> QED
    BY <1>3, <2>1, <2>2, LinkLeave
<1>6. Ready(e + 1)
  BY <1>4, <1>5, LeaveViews
<1>7. LoopsAround(e + 1) = LoopsAround(p)
  <2>1. \A q : Op(q) \in {"while", "for"} => (Around(q, e + 1) <=> Around(q, p))
    BY <1>2, <1>3, AroundCloser
  <2> QED
    BY <2>1, LoopsSame
<1>8. Goto(e + 1) /\ Types'
  BY <1>1, <1>4 DEF Types, Reference, NoRef
<1> QED
  BY <1>4, <1>6, <1>7, <1>8, StaysReady, StaysFit, Lands

\* The loop a round ends, and the loops around it.
LEMMA LoopClosed ==
    ASSUME Accepted, RunInv, phase = "running", NEW p, p = pc, NEW o, ClosedAt(o, p), Op(o) # "if"
    PROVE  /\ Op(p) = "end" /\ Op(o) \in {"while", "for"} /\ LoopSpan(o, p) /\ p \in DOMAIN body /\ p \in Places
           /\ o \in DOMAIN body /\ o + 1 \in Places /\ p + 1 \in Places /\ Around(o, p) /\ Around(o, o + 1)
           /\ LoopsAround(p) = LoopsAround(o) \cup {o} /\ LoopsAround(o + 1) = LoopsAround(p)
           /\ LoopsAround(p + 1) = LoopsAround(o)
           /\ Cardinality(LoopsAround(p)) = Cardinality(LoopsAround(o)) + 1
           /\ Cardinality(LoopsAround(o)) \in Nat
<1>1. /\ TextOK /\ o \in DOMAIN body /\ Op(o) \in Openers /\ Around(o, p) /\ Op(o) \in {"while", "for"}
      /\ p \in DOMAIN body /\ Op(p) \in Closers
  BY AcceptedIs DEF ClosedAt, Around, Openers
<1>2. Op(p) = "end"
  <2>1. SUFFICES ASSUME Op(p) = "else" PROVE FALSE
    BY <1>1 DEF Closers
  <2>2. PICK q \in 1..(p - 1) : Op(q) = "if" /\ ClosedAt(q, p)
    BY <1>1, <2>1 DEF TextOK
  <2>3. q = o
    BY <1>1, <2>2, OpenerIs
  <2> QED
    BY <2>2, <2>3
<1>3. p \in Places /\ p + 1 \in Places /\ o \in Places /\ o + 1 \in Places
  BY <1>1, PlaceTypes
<1>4. /\ \A q : Around(q, p) <=> q = o \/ Around(q, o)
      /\ \A q : Around(q, p + 1) <=> Around(q, o)
      /\ \A q : Around(q, o + 1) <=> q = o \/ Around(q, o)
  <2>1. Op(o) # "end"
    BY <1>1
  <2> QED
    BY <1>1, <1>2, <2>1, AroundCloser, AroundNext
<1>5. LoopsAround(p + 1) = LoopsAround(o) /\ LoopsAround(o + 1) = LoopsAround(p)
  BY <1>4, LoopsSame
<1>6. /\ LoopsAround(p) = LoopsAround(o) \cup {o}
      /\ Cardinality(LoopsAround(p)) = Cardinality(LoopsAround(o)) + 1
  BY <1>1, <1>4, LoopsEnter
<1>7. Cardinality(LoopsAround(o)) \in Nat
  BY <1>1, LoopsFinite
<1> QED
  BY <1>1, <1>2, <1>3, <1>4, <1>5, <1>6, <1>7 DEF LoopSpan

\* Leaving a loop.
LEMMA LeaveLoop ==
    ASSUME Accepted, RunInv, phase = "running", NEW p, p = pc, NEW o, ClosedAt(o, p), Op(o) # "if",
           Goto(p + 1), loops' = SubSeq(loops, 1, Len(loops) - 1), UNCHANGED <<storage, ref>>
    PROVE  RunInv'
<1>1. /\ TextOK /\ p \in Places /\ p \in Nat /\ Types /\ LoopsFit(p)
  BY ClosingAt
<1>2. /\ Op(p) = "end" /\ p + 1 \in Places /\ Around(o, p) /\ LoopsAround(p) = LoopsAround(o) \cup {o}
      /\ LoopsAround(p + 1) = LoopsAround(o) /\ Cardinality(LoopsAround(o)) \in Nat
      /\ Cardinality(LoopsAround(p)) = Cardinality(LoopsAround(o)) + 1
  BY LoopClosed
<1>3. ASSUME NEW v \in Views, Visible(v, p + 1), Needed(v, p + 1)
      PROVE  /\ Visible(v, o) /\ Needed(v, p)
             /\ \A x : Link(v, x, p) => Link(v, x, p + 1)
  <2>1. Visible(v, o)
    BY <1>1, <1>3, VisibleAfter
  <2>2. Needed(v, p)
    BY <1>1, <1>2, <1>3, NeededBefore
  <2> QED
    BY <1>2, <2>1, <2>2, LinkLeave
<1>4. Ready(p + 1)
  BY <1>2, <1>3, LeaveViews
<1> DEFINE All == [rounds : 0..MaxRounds, over : Reference \cup {NoRef}]
<1>5. loops \in Seq(All) /\ Len(loops) = Cardinality(LoopsAround(o)) + 1
  BY <1>1, <1>2 DEF Types, LoopsFit
<1>6. /\ loops' \in Seq(All) /\ Len(loops') = Cardinality(LoopsAround(o))
      /\ DOMAIN loops' = 1..Len(loops') /\ DOMAIN loops' \subseteq DOMAIN loops
      /\ \A k \in DOMAIN loops' : loops'[k] = loops[k]
  <2> HIDE DEF All
  <2> QED
    BY <1>2, <1>5
<1>7. Types'
  BY <1>1, <1>6 DEF Types, Reference, NoRef
<1>8. \A q \in LoopsAround(p) : Cardinality(LoopsAround(q)) < Len(loops') => q \in LoopsAround(p + 1)
  BY <1>2, <1>6
<1>9. LoopsFit(p + 1)'
  <2>1. LoopsAround(p + 1) \subseteq LoopsAround(p)
    BY <1>2
  <2>2. \A k \in DOMAIN loops' : loops'[k].over = loops[k].over
    BY <1>6
  <2> HIDE DEF All
  <2> QED
    BY <1>1, <1>2, <1>6, <1>8, <2>1, <2>2, LeaveFit
<1> QED
  BY <1>2, <1>4, <1>7, <1>9, StaysReady, Lands

\* A further round.
LEMMA LoopAgain ==
    ASSUME Accepted, RunInv, phase = "running", NEW p, p = pc, NEW o, ClosedAt(o, p), Op(o) # "if",
           Iterating.rounds > 0, Goto(o + 1), loops' = [loops EXCEPT ![Len(loops)].rounds = @ - 1],
           UNCHANGED <<storage, ref>>
    PROVE  RunInv'
<1>1. /\ TextOK /\ p \in Places /\ p \in Nat /\ Types /\ LoopsFit(p)
  BY ClosingAt
<1>2. /\ Op(p) = "end" /\ o + 1 \in Places /\ Around(o, p) /\ LoopsAround(p) = LoopsAround(o) \cup {o}
      /\ LoopsAround(o + 1) = LoopsAround(p) /\ Cardinality(LoopsAround(o)) \in Nat
      /\ Cardinality(LoopsAround(p)) = Cardinality(LoopsAround(o)) + 1
      /\ LoopSpan(o, p) /\ Op(o) \in {"while", "for"} /\ o \in DOMAIN body
  BY LoopClosed
<1>3. ASSUME NEW v \in Views, Visible(v, o + 1), Needed(v, o + 1)
      PROVE  /\ Visible(v, o) /\ Needed(v, p)
             /\ \A x : Link(v, x, p) => Link(v, x, o + 1)
  <2>1. Declaration(v) \in 1..o /\ Op(Declaration(v)) = "let" /\ o \in Places /\ o \in Nat
    BY <1>1, <1>2, <1>3, VisibleView, PlaceTypes
  <2>2. Declaration(v) < o
    BY <1>2, <2>1
  <2>3. Visible(v, o)
    BY <1>1, <1>2, <1>3, <2>1, <2>2, VisibleBefore
  <2>4. Needed(v, p)
    BY <1>1, <1>3, <2>2, NeededAgain
  <2> QED
    BY <1>2, <2>3, <2>4, LinkBack
<1>4. Ready(o + 1)
  BY <1>2, <1>3, LeaveViews
<1> DEFINE All == [rounds : 0..MaxRounds, over : Reference \cup {NoRef}]
<1>5. loops \in Seq(All) /\ Len(loops) = Cardinality(LoopsAround(o)) + 1
  BY <1>1, <1>2 DEF Types, LoopsFit
<1>6. PICK n : n = Len(loops)
  OBVIOUS
<1>7. n \in DOMAIN loops /\ n \in Nat /\ DOMAIN loops = 1..n
  BY <1>2, <1>5, <1>6
<1>8. PICK last : last = loops[n]
  OBVIOUS
<1>9. last \in All /\ last.rounds > 0
  <2>1. last \in All
    <3> HIDE DEF All
    <3> QED
      BY <1>5, <1>7, <1>8
  <2> QED
    BY <1>6, <1>8, <2>1 DEF Iterating
<1>10. PICK next : next = [last EXCEPT !.rounds = @ - 1]
  OBVIOUS
<1>11. next \in All /\ next.over = last.over
  BY <1>9, <1>10, ViewsAssumption
<1>12. loops' = [loops EXCEPT ![n] = next]
  BY <1>6, <1>8, <1>10
<1>13. /\ loops' \in Seq(All) /\ Len(loops') = Len(loops) /\ DOMAIN loops' = DOMAIN loops
       /\ \A k \in DOMAIN loops : loops'[k].over = loops[k].over
  <2>1. \A k \in DOMAIN loops : loops'[k] = IF k = n THEN next ELSE loops[k]
    BY <1>7, <1>12
  <2> HIDE DEF All
  <2>2. loops' \in Seq(All) /\ Len(loops') = Len(loops) /\ DOMAIN loops' = DOMAIN loops
    BY <1>5, <1>7, <1>11, <1>12
  <2> QED
    BY <1>7, <1>8, <1>11, <2>1, <2>2
<1>14. Types'
  BY <1>1, <1>13 DEF Types, Reference, NoRef
<1>15. LoopsFit(o + 1)'
  <2>1. \A k \in DOMAIN loops' : loops'[k].over = loops[k].over
    BY <1>13
  <2>2. LoopsAround(o + 1) \subseteq LoopsAround(p) /\ DOMAIN loops' = 1..Len(loops') /\ DOMAIN loops' \subseteq DOMAIN loops
    BY <1>2, <1>6, <1>7, <1>13
  <2>3. Len(loops') = Cardinality(LoopsAround(o + 1))
    BY <1>2, <1>5, <1>13
  <2>4. \A q \in LoopsAround(p) : Cardinality(LoopsAround(q)) < Len(loops') => q \in LoopsAround(o + 1)
    BY <1>2
  <2> QED
    BY <1>1, <2>1, <2>2, <2>3, <2>4, LeaveFit
<1> QED
  BY <1>2, <1>4, <1>14, <1>15, StaysReady, Lands

\* The end of a block, when all is cleaned up.
LEMMA LeaveRuns ==
    ASSUME Accepted, RunInv, LeaveBlock
    PROVE  RunInv'
<1>1. PICK p, o : p = pc /\ o = Opener(pc)
  OBVIOUS
<1>2. /\ phase = "running" /\ p \in DOMAIN body /\ Op(p) \in Closers /\ UNCHANGED <<storage, ref>>
      /\ \/ Op(o) = "if" /\ Goto(EndOf(o) + 1) /\ UNCHANGED loops
         \/ Op(o) # "if" /\ Goto(p + 1) /\ loops' = SubSeq(loops, 1, Len(loops) - 1)
         \/ /\ Op(o) # "if" /\ Iterating.rounds > 0
            /\ Goto(o + 1) /\ loops' = [loops EXCEPT ![Len(loops)].rounds = @ - 1]
  <2>1. Closes /\ pc \in DOMAIN body
    BY DEF LeaveBlock
  <2>2. phase = "running" /\ Op(pc) \in Closers
    BY <2>1, AcceptedIs, PlaceTypes DEF Closes
  <2> QED
    BY <1>1, <2>1, <2>2 DEF LeaveBlock
<1>3. ClosedAt(o, p)
  BY <1>1, <1>2, AcceptedIs, OpenerOf
<1> QED
  BY <1>1, <1>2, <1>3, LeaveIf, LeaveLoop, LoopAgain

\* Every step of the run keeps its part of the invariant.
LEMMA RunNextRuns ==
    ASSUME Accepted, RunInv, RunNext
    PROVE  RunInv'
<1>1. Return => RunInv'
  BY DEF Return, RunInv
<1> QED
  BY <1>1, PlainRuns, ChangeRuns, ViewRuns, IfRuns, LoopRuns, CleanUpRuns, LeaveRuns DEF RunNext

\* An accepted body starts with no view.
LEMMA AcceptRuns ==
    ASSUME TextOK, CheckInv, Accept
    PROVE  RunInv'
<1>1. /\ phase = "checking" /\ phase' = "running" /\ pc' = 1 /\ UNCHANGED <<given, body, checker, runner>>
  BY DEF Accept
<1>2. storage = [o \in Owners |-> 0] /\ ref = [v \in Views |-> NoRef] /\ loops = <<>> /\ tail = 1
  BY <1>1 DEF CheckInv
<1>3. UNCHANGED <<storage, ref, loops, tail>>
  BY <1>1 DEF runner
<1>4. TextOK' /\ Places' = Places /\ 1 \in Places
  BY <1>1, SameText, PlaceTypes
<1>5. \A v \in Views : ~Visible(v, 1)'
  <2>1. \A v \in Views : ~Visible(v, 1)
    BY ViewsApart DEF Visible
  <2> QED
    BY <1>1, <2>1, SameText
<1>6. LoopsAround(1)' = {}
  <2>1. \A o \in 1..Len(body) : ~Around(o, 1)
    BY DEF Around
  <2>2. LoopsAround(1) = {}
    BY <2>1 DEF LoopsAround
  <2>3. UNCHANGED <<given, body, checker>>
    BY <1>1
  <2> QED
    BY <2>2, <2>3, SameRun
<1>7. Cardinality({}) = 0
  BY FS_EmptySet
<1>8. LoopsAround(pc)' = {}
  BY <1>1, <1>6 DEF LoopsAround
<1>9. ViewsOK'
  <2>1. \A v \in Views : ~Visible(v, pc)'
    BY <1>1, <1>5 DEF Visible
  <2> QED
    BY <2>1 DEF ViewsOK
<1>10. LoopsOK'
  BY <1>2, <1>3, <1>7, <1>8 DEF LoopsOK
<1> QED
  BY <1>1, <1>2, <1>3, <1>4, <1>9, <1>10 DEF RunInv, Reference, NoRef

----------------------------------------------------------------------------
(* Views: the invariant, and what follows.                                  *)

ViewInv == TextOK /\ CheckInv /\ RunInv /\ IteratedStorageIsLive

\* What runs was accepted.
LEMMA RunningAccepted ==
    ASSUME ViewInv, phase = "running"
    PROVE  Accepted /\ RunInv
BY DEF ViewInv, CheckInv, Accepted

\* The invariant holds at first.
LEMMA InitViews == Init => ViewInv
BY InitText, InitChecks DEF ViewInv, Init, RunInv, IteratedStorageIsLive

\* Every step keeps its three parts.
LEMMA NextRuns ==
    ASSUME Shapes = {}, ViewInv, [Next]_vars
    PROVE  TextOK' /\ CheckInv' /\ RunInv'
<1>1. TextOK' /\ CheckInv'
  BY NextChecks DEF ViewInv
<1>2. CASE RunNext
  <2>1. phase = "running"
    BY <1>2, RunKeeps
  <2> QED
    BY <1>1, <1>2, <2>1, RunningAccepted, RunNextRuns DEF ViewInv
<1>3. CASE Accept
  BY <1>1, <1>3, AcceptRuns DEF ViewInv
<1>4. CASE WriteNext \/ Written \/ (CheckNext /\ ~Accept)
  <2>1. phase' \in {"writing", "checking", "rejected"}
    <3>1. CASE WriteNext
      <4>1. phase = "writing" /\ \E e : Write(e)
        BY <3>1 DEF WriteNext
      <4> QED
        BY <4>1 DEF Write
    <3>2. CASE Written
      BY <3>2 DEF Written
    <3>3. CASE CheckNext /\ ~Accept
      <4>1. phase = "checking" /\ (Reject \/ \E bs, js : Checked(bs, js))
        BY <3>3 DEF CheckNext, CheckPlain, CheckLend, CheckChange, CheckLet, CheckSet, OpenArm, OpenFor,
                    Else, End, At
      <4> QED
        BY <4>1 DEF Reject, Checked
    <3> QED
      BY <1>4, <3>1, <3>2, <3>3
  <2> QED
    BY <1>1, <2>1 DEF ViewInv, RunInv
<1>5. CASE UNCHANGED vars
  <2>1. SUFFICES ASSUME phase = "running" PROVE RunInv'
    BY <1>1, <1>5 DEF ViewInv, RunInv, vars
  <2>2. PICK p, t : p = pc /\ t = tail
    OBVIOUS
  <2>3. RunInv /\ UNCHANGED <<given, body, checker, phase>> /\ pc' = p /\ tail' = t
        /\ UNCHANGED <<storage, ref, loops>>
    BY <1>5, <2>2 DEF ViewInv, vars, checker
  <2>4. /\ Places' = Places /\ Op(t)' = Op(t) /\ Level(t)' = Level(t) /\ Level(p)' = Level(p)
        /\ (StillOpen(t, p)' <=> StillOpen(t, p)) /\ (Closes' <=> Closes)
    BY <2>2, <2>3, SameText DEF Closes, Op
  <2>5. \A r : Current(r)' <=> Current(r)
    BY <2>3 DEF Current
  <2>6. ViewsOK'
    <3>1. \A v : /\ (Visible(v, p)' <=> Visible(v, p)) /\ (Needed(v, p)' <=> Needed(v, p))
                 /\ Declaration(v)' = Declaration(v) /\ \A x : Link(v, x, p)' <=> Link(v, x, p)
      BY <2>3, SameText, SameRun
    <3>2. \A v \in Views : Visible(v, p) /\ Needed(v, p) /\ Declaration(v) < t =>
              Current(ref[v]) /\ Link(v, ref[v].owner, p)
      BY <2>1, <2>2, <2>3 DEF RunInv, ViewsOK, Link
    <3>3. \A v \in Views : Visible(v, p)' /\ Needed(v, p)' /\ Declaration(v)' < t =>
              Current(ref[v])' /\ Link(v, ref[v].owner, p)'
      <4>1. TAKE v \in Views
      <4>2. HAVE Visible(v, p)' /\ Needed(v, p)' /\ Declaration(v)' < t
      <4>3. PICK r : r = ref[v]
        OBVIOUS
      <4>4. Current(r) /\ Link(v, r.owner, p) /\ ref'[v] = r
        BY <2>3, <3>1, <3>2, <4>2, <4>3
      <4>5. Current(r)' /\ Link(v, r.owner, p)'
        BY <2>5, <3>1, <4>4
      <4> QED
        BY <4>4, <4>5 DEF Current, Link, Direct, Carried
    <3> QED
      BY <2>3, <3>3 DEF ViewsOK, Link
  <2>7. LoopsOK'
    <3>1. \A o : LoopsAround(o)' = LoopsAround(o) /\ LoopAt(o)' = LoopAt(o) /\ Op(o)' = Op(o)
      BY <2>3, SameText, SameRun
    <3>2. LoopsFit(p)
      BY <2>1, <2>2, <2>3 DEF RunInv, LoopsOK, LoopsFit
    <3>3. Cardinality(LoopsAround(p))' = Cardinality(LoopsAround(p))
      BY <3>1
    <3>4. LoopsFit(p)'
      BY <2>3, <2>5, <3>1, <3>2, <3>3 DEF LoopsFit
    <3> QED
      BY <2>3, <3>4 DEF LoopsFit, LoopsOK
  <2>8. Level(tail)' = Level(t)' /\ Op(tail)' = Op(t)' /\ Level(pc)' = Level(p)' /\ StillOpen(tail, pc)' = StillOpen(t, p)'
    BY <2>3 DEF Level, Op, StillOpen
  <2> QED
    BY <2>1, <2>2, <2>3, <2>4, <2>6, <2>7, <2>8 DEF RunInv, Reference, NoRef
<1> QED
  BY <1>1, <1>2, <1>3, <1>4, <1>5 DEF Next, CheckNext

\* A step that does not run a body replaces no storage and enters no loop.
LEMMA NextViews ==
    ASSUME Shapes = {}, ViewInv, [Next]_vars
    PROVE  ViewInv'
<1>1. TextOK' /\ CheckInv' /\ RunInv'
  BY NextRuns
<1>2. CASE phase' = "running"
  <2>1. LoopsOK'
    BY <1>1, <1>2 DEF RunInv
  <2>2. IteratedStorageIsLive'
    BY <2>1 DEF LoopsOK, IteratedStorageIsLive
  <2> QED
    BY <1>1, <2>2 DEF ViewInv
<1>3. CASE phase' # "running"
  <2>1. UNCHANGED <<storage, loops>>
    <3>1. CASE WriteNext
      <4>1. \E e : Write(e)
        BY <3>1 DEF WriteNext
      <4> QED
        BY <4>1 DEF Write, runner
    <3>2. CASE Written
      BY <3>2 DEF Written, runner
    <3>3. CASE CheckNext
      <4>1. Accept \/ Reject \/ \E bs, js : Checked(bs, js)
        BY <3>3 DEF CheckNext, CheckPlain, CheckLend, CheckChange, CheckLet, CheckSet, OpenArm, OpenFor,
                    Else, End
      <4> QED
        BY <4>1 DEF Reject, Checked, Accept, runner
    <3>4. CASE RunNext
      <4>1. Return \/ phase' = phase
        BY <3>4 DEF RunNext, RunPlain, RunChange, RunView, RunIf, RunLoop, CleanUp, LeaveBlock, Goto
      <4>2. Return
        BY <1>3, <3>4, <4>1, RunKeeps
      <4> QED
        BY <4>2 DEF Return, runner
    <3>5. CASE UNCHANGED vars
      BY <3>5 DEF vars
    <3> QED
      BY <3>1, <3>2, <3>3, <3>4, <3>5 DEF Next
  <2>2. IteratedStorageIsLive
    BY DEF ViewInv
  <2>3. IteratedStorageIsLive'
    BY <2>1, <2>2 DEF IteratedStorageIsLive, Current, NoRef
  <2> QED
    BY <1>1, <2>3 DEF ViewInv
<1> QED
  BY <1>2, <1>3

\* A view that is used now is needed, so it is in order.
LEMMA UsedAreLive ==
    ASSUME ViewInv
    PROVE  UsedViewsAreLive
<1>1. ASSUME Running("use") PROVE Current(ref[E.name])
  <2>1. PICK p, v : p = pc /\ v = body[p].name
    OBVIOUS
  <2>2. phase = "running" /\ p \in DOMAIN body /\ Op(p) = "use" /\ Op(p) \notin Closers
    BY <1>1, <2>1 DEF Running, Closers
  <2>3. Accepted /\ RunInv
    BY <2>2, RunningAccepted
  <2>4. Ready(p) /\ p \in Nat
    BY <2>1, <2>2, <2>3, RunningAt
  <2>5. v \in Views /\ Mentions(p, v)
    BY <2>1, <2>2, <2>3, AcceptedIs DEF TextOK, NamesOK, Mentions
  <2>6. Visible(v, p) /\ Needed(v, p)
    BY <2>2, <2>3, <2>4, <2>5, AcceptedIs, MentionVisible DEF Needed
  <2> QED
    BY <2>1, <2>4, <2>5, <2>6 DEF Ready, E
<1>2. ASSUME Pending # {}, Op(Latest) = "defer" PROVE Current(ref[body[Latest].name])
  <2>1. PICK p, k, v : p = pc /\ k = Latest /\ v = body[k].name
    OBVIOUS
  <2>2. phase = "running"
    BY <1>2 DEF Pending, Closes
  <2>3. Accepted /\ RunInv
    BY <2>2, RunningAccepted
  <2>4. /\ k \in 1..(tail - 1) /\ k \in 1..(p - 1) /\ k \in DOMAIN body /\ StillOpen(k, p)
        /\ Op(k) = "defer" /\ Op(k) \notin Closers
    BY <1>2, <2>1, <2>3, PendingIs
  <2>5. /\ p \in Places /\ TextOK /\ p \in Nat /\ tail \in 1..p
        /\ \A w \in Views : Visible(w, p) /\ Needed(w, p) /\ Declaration(w) < tail => Current(ref[w])
    BY <2>1, <2>2, <2>3, ClosingAt
  <2>6. v \in Views /\ Visible(v, k) /\ k \in Places
    BY <2>1, <2>4, <2>5, PlaceTypes DEF TextOK, NamesOK
  <2>7. /\ Declaration(v) \in 1..(k - 1) /\ StillOpen(Declaration(v), k) /\ Op(Declaration(v)) = "let"
        /\ body[Declaration(v)].name = v /\ Op(Declaration(v)) \notin Closers
    BY <2>5, <2>6, VisibleView
  <2>8. StillOpen(Declaration(v), p) /\ Declaration(v) \in 1..(p - 1)
    BY <2>4, <2>5, <2>7, OpenThrough
  <2>9. Visible(v, p)
    BY <2>5, <2>6, <2>7, <2>8, VisibleFrom
  <2>10. Needed(v, p)
    BY <2>1, <2>4 DEF Needed
  <2>11. Declaration(v) < tail
    BY <2>4, <2>5, <2>7
  <2> QED
    BY <2>1, <2>5, <2>6, <2>9, <2>10, <2>11
<1> QED
  BY <1>1, <1>2 DEF UsedViewsAreLive

\* Where it is used below in the same block, its borrow is not a carried one.
LEMMA BorrowsCover ==
    ASSUME ViewInv
    PROVE  BorrowsCoverReferences
<1>1. PICK p : p = pc
  OBVIOUS
<1>2. SUFFICES ASSUME phase = "running", p \in DOMAIN body, Op(p) \notin Closers,
                      NEW v \in Views, Visible(v, p), NEW k \in Remaining(p), Mentions(k, v)
               PROVE  ref[v].owner \in Sources(claims[p], v)
  BY <1>1 DEF BorrowsCoverReferences
<1>3. Accepted /\ RunInv
  BY <1>2, RunningAccepted
<1>4. Ready(p) /\ p \in Places /\ p \in Nat /\ TextOK
  BY <1>1, <1>2, <1>3, RunningAt, AcceptedIs
<1>5. /\ k \in p..Len(body) /\ k \in DOMAIN body /\ k \in Nat /\ k >= p
      /\ \A j \in p..k : Op(j) \in Closers => Level(j) > Level(p)
  <2>1. k \in p..Len(body) /\ \A j \in p..k : Op(j) \in Closers => Level(j) > Level(p)
    BY <1>2 DEF Remaining
  <2> QED
    BY <1>4, <2>1, PlaceTypes
<1>6. Needed(v, p)
  BY <1>2, <1>5 DEF Needed
<1>7. Link(v, ref[v].owner, p)
  BY <1>2, <1>4, <1>6 DEF Ready
<1>8. ~Carried(v, ref[v].owner, p)
  <2>1. SUFFICES ASSUME NEW o \in DOMAIN body, NEW e \in DOMAIN body, LoopSpan(o, e), Around(o, p),
                        \A i \in (o + 1)..(e - 1) : ~Mentions(i, v)
                 PROVE  FALSE
    BY DEF Carried
  <2>2. /\ ClosedAt(o, e) /\ Op(e) = "end" /\ Op(e) \in Closers /\ Level(e) = Level(o) + 1 /\ e \in Nat
        /\ o \in Nat /\ o < p /\ Level(o) \in Nat /\ Level(p) \in Nat /\ Level(o) < Level(p) /\ e \in Places
    BY <1>4, <2>1, AroundLevel, PlaceTypes DEF LoopSpan, ClosedAt
  <2>3. p <= e
    BY <1>4, <2>1, <2>2, LastPlace
  <2>4. ~(e <= k)
    BY <1>4, <1>5, <2>2, <2>3
  <2>5. k \in (o + 1)..(e - 1)
    BY <1>4, <1>5, <2>2, <2>4
  <2> QED
    BY <1>2, <2>1, <2>5
<1>9. PICK b \in BorrowsAt(p) : b.view = v /\ ref[v].owner \in b.sources
  BY <1>7, <1>8 DEF Link, Direct
<1>10. BorrowsAt(p) = claims[p]
  <2>1. claims \in Seq(SUBSET AnyBorrow) /\ Len(claims) = Len(body)
    BY <1>2 DEF ViewInv, CheckInv
  <2>2. p \in DOMAIN claims
    BY <1>2, <1>4, <2>1, PlaceTypes
  <2> QED
    BY <2>2 DEF BorrowsAt
<1>11. v \notin Owners
  BY <1>4, ViewsApart
<1> QED
  BY <1>9, <1>10, <1>11 DEF Sources

\* An accepted body, in the shapes that are not exceptions, uses no view of
\* storage that was replaced or destroyed (stmt.rs, the refusals of check_stmt and
\* check_view_let), keeps the collection a loop iterates over, and never lends a
\* view that is still needed more than the checker has listed for it (places.rs,
\* prune_views and merge_views).
THEOREM ViewsCorrect ==
    ASSUME Shapes = {}
    PROVE  Spec => [](UsedViewsAreLive /\ IteratedStorageIsLive /\ BorrowsCoverReferences)
<1>1. ViewInv => UsedViewsAreLive /\ IteratedStorageIsLive /\ BorrowsCoverReferences
  BY UsedAreLive, BorrowsCover DEF ViewInv
<1>2. ViewInv /\ [Next]_vars => ViewInv'
  BY NextViews
<1> QED
  BY <1>1, <1>2, InitViews, PTL DEF Spec

----------------------------------------------------------------------------
(* Both, as they are checked together.                                      *)

\* A behaviour of the two is one of each.
LEMMA CallablesAreBoth == CallablesSpec => Spec /\ ReceiversSpec
<1>1. CallablesInit => Init /\ ReceiversInit
    BY DEF CallablesInit
<1>2. [CallablesNext]_allCallables => [Next]_vars /\ [ReceiversNext]_receiverVars
    BY DEF CallablesNext, allCallables
<1> QED
    BY <1>1, <1>2, PTL DEF CallablesSpec, Spec, ReceiversSpec
=============================================================================
