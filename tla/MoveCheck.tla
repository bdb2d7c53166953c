----------------------------- MODULE MoveCheck -----------------------------
(***************************************************************************)
(* The ownership part of the snacc checker, together with the lowering of  *)
(* what it decides, for ONE callable body.                                 *)
(*                                                                         *)
(* checker/stmt.rs walks a body element by element.  It keeps the set of   *)
(* move-only roots that are already moved (ctx.move_state), the stack of   *)
(* registered cleanup entries (ctx.cleanup_scopes), the bindings in scope  *)
(* (env) and, for every block it is inside of, what the block needs when   *)
(* it is closed.  Every way out of a scope gets a cleanup plan computed    *)
(* from that state; llvm/lower/stmt.rs turns the elements and the plans    *)
(* into a control-flow graph.  Both walks visit the elements in the same   *)
(* order, so one action here is one element: it checks the element and     *)
(* appends what lowering emits for it to "code".                           *)
(*                                                                         *)
(* Every root is of a move-only type (a Box, a String, a collection):      *)
(* copyable values never enter move_state nor a plan.  A program the       *)
(* checker reports any error for is never lowered: it is "rejected".       *)
(***************************************************************************)
EXTENDS Integers, Sequences, FiniteSets

CONSTANTS
    Roots,        \* names of the roots the body may declare or receive
    ValueParams,  \* roots that are by-value parameters
    RefParams,    \* roots that are Ref<T> parameters
    ParamOrder,   \* the parameters in declaration order
    None,         \* "no root": a fresh value, or a condition that moves nothing
    Fallible,     \* the declared result is a sum that contains Error
    MaxClock      \* bound: parameters plus block elements of one body

Params == ValueParams \cup RefParams

ASSUME RootsAssumption ==
    /\ Params \subseteq Roots
    /\ None \notin Roots
    /\ Fallible \in BOOLEAN
    /\ MaxClock \in Nat
    /\ ParamOrder \in Seq(Params)
    /\ {ParamOrder[i] : i \in DOMAIN ParamOrder} = Params
    /\ \A i, j \in DOMAIN ParamOrder : ParamOrder[i] = ParamOrder[j] => i = j
    /\ Len(ParamOrder) < MaxClock

VARIABLES
    env,       \* bindings in scope, as the drop entry each would need
    declared,  \* names used so far (function-wide uniqueness)
    moved,     \* ctx.move_state: roots currently unavailable
    cleanup,   \* ctx.cleanup_scopes, every entry carrying its scope's depth
    frames,    \* the blocks being checked, innermost last
    clock,     \* elements seen: the registration order of entries
    code,      \* what lowering has emitted
    verdict    \* "checking", "rejected", "accepted", or "internal": lowering failed

vars == <<env, declared, moved, cleanup, frames, clock, code, verdict>>

----------------------------------------------------------------------------
(* Data.                                                                    *)

MaybeRoot == Roots \cup {None}

\* One TCleanup: an automatic drop, or a deferred call that reads, borrows or
\* consumes "root".  "depth" is the scope that registered it.
Entry == [kind  : {"drop", "use", "borrow", "take"},
          root  : Roots,
          onErr : BOOLEAN,
          depth : Nat,
          ord   : Nat]

DropOf(r, d, o) == [kind |-> "drop", root |-> r, onErr |-> FALSE, depth |-> d, ord |-> o]

\* What is statically known about the value an exit carries
\* (expression_error_exit): Some(false), Some(true) or None.
ExitClass == {"ok", "error", "unknown"}

\* A basic block is named by the element that appends it and its part in it.
LabelName == [id : Nat, part : {"head", "next", "exit"}]
Label(i, p) == [id |-> i, part |-> p]

Instr ==
    [op : {"store", "take", "use", "borrow", "drop"}, root : Roots]
      \cup [op : {"arm"}, entry : Entry]
      \cup [op : {"branch", "goto", "label"}, to : LabelName, avail : SUBSET Roots]
      \cup [op : {"break"}, to : LabelName, loop : Nat]
      \cup [op : {"nowhere"}]
      \cup [op : {"result"}, class : ExitClass]
      \cup [op : {"cleanup"}, first : SUBSET Entry, plan : SUBSET Entry]
      \cup [op : {"ret"}]

Do(op, r)     == <<[op |-> op, root |-> r]>>
Arm(e)        == <<[op |-> "arm", entry |-> e]>>
Jump(op, l)   == <<[op |-> op, to |-> l, avail |-> {}]>>
Place(l, a)   == <<[op |-> "label", to |-> l, avail |-> a]>>
Result(class) == <<[op |-> "result", class |-> class]>>
Clean(f, p)   == <<[op |-> "cleanup", first |-> f, plan |-> p]>>
Ret           == <<[op |-> "ret"]>>
TakeOf(s)     == IF s = None THEN <<>> ELSE Do("take", s)

Frame == [kind     : {"body", "if", "while", "for"},
          id       : Nat,                  \* element that opened the construct
          arm      : Nat,                  \* element that opened this arm
          entry    : SUBSET Roots,         \* check_if's `entry`, a loop's `pre`
          exits    : SUBSET (SUBSET Roots),\* move states of arms that fall through
          covered  : BOOLEAN,              \* an `else` has been seen
          allRet   : BOOLEAN,              \* every closed arm returns
          returns  : BOOLEAN,              \* this block has returned
          dead     : BOOLEAN,              \* lowering has terminated this block
          merged   : BOOLEAN,              \* some arm reaches the merge block
          loop     : Nat,                  \* ctx.loops.last(): depth of its body, or 0
          target   : Nat]                  \* Codegen's loops.last(), or 0

TypeOK ==
    /\ env \subseteq Entry
    /\ declared \subseteq Roots
    /\ moved \subseteq Roots
    /\ cleanup \subseteq Entry
    /\ frames \in Seq(Frame)
    /\ clock \in Nat
    /\ code \in Seq(Instr)
    /\ verdict \in {"checking", "rejected", "accepted", "internal"}

----------------------------------------------------------------------------
(* Operators of the checker.                                                *)

Depth  == Len(frames)
Top    == frames[Depth]
Parent == frames[Depth - 1]

InScope  == {b.root : b \in env}
\* Mutation: an expression that is no root is recorded too.
TakenAnything(s) == {s}

Taken(s) == IF s = None THEN {} ELSE {s}

Outer(d, entries) == {e \in entries : e.depth < d}

\* compute_drops(ctx, env, 0) under move state m.
ComputeDrops(m) == {b \in env : b.root \notin m}

\* Mutations: a plan that also drops moved roots, one that stops a scope too
\* early, and one that forgets the scopes inside the one it leaves.
RegisteredMoved(d, m) == {e \in cleanup : e.depth >= d}
RegisteredInner(d, m) == {e \in cleanup : e.depth > d /\ ~(e.kind = "drop" /\ e.root \in m)}
RegisteredHere(d, m)  == {e \in cleanup : e.depth = d /\ ~(e.kind = "drop" /\ e.root \in m)}

\* The entries of scopes at depth >= d that still apply under m.
Registered(d, m) == {e \in cleanup : e.depth >= d /\ ~(e.kind = "drop" /\ e.root \in m)}

KnownRoots(d) == {e.root : e \in {x \in cleanup : x.kind = "drop" /\ x.depth >= d}}

\* cleanup_for_exit appends these to the registered entries BEFORE reversing
\* the list, so they run first.
Unregistered(d, m) == {b \in ComputeDrops(m) : b.root \notin KnownRoots(d)}

\* Mutation: the effect of the calls that run before is not considered.
DependenciesNow(plan, m, class) ==
    \A e \in plan : e.kind # "drop" /\ ~(e.onErr /\ class = "ok") => e.root \notin m

\* validate_cleanup_dependencies: no deferred call of the plan may depend on a
\* root that is moved, or that a deferred call running before it consumes.
DependenciesOk(plan, m, class) ==
    LET checked == {e \in plan : e.kind # "drop" /\ ~(e.onErr /\ class = "ok")}
    IN  \A e \in checked :
            /\ e.root \notin m
            /\ ~ \E f \in checked : f.ord > e.ord /\ f.kind = "take" /\ f.root = e.root

NewFrame(kind, entry) ==
    [kind |-> kind, id |-> clock, arm |-> clock, entry |-> entry, exits |-> {},
     covered |-> FALSE, allRet |-> TRUE, returns |-> FALSE, dead |-> Top.dead,
     merged |-> FALSE,
     loop   |-> IF kind \in {"while", "for"} THEN Depth + 1 ELSE Top.loop,
     target |-> IF kind = "while" THEN clock ELSE Top.target]

\* What an element adds to a block: it has returned, or lowering has ended it.
Mark(f, ret, end) == [f EXCEPT !.returns = @ \/ ret, !.dead = @ \/ end]

\* Lowering appends nothing once the current block is terminated.
Emit(is) == code' = IF Top.dead THEN code ELSE code \o is

SetTop(f) == frames' = [frames EXCEPT ![Depth] = f]

\* The region's state does not outlive it (the next begin_region clears it).
EndRegion ==
    /\ frames' = <<>> /\ env' = {} /\ cleanup' = {}
    /\ moved' = {} /\ declared' = {} /\ clock' = 0

\* A reported error: nothing of the program is lowered.
Reject == verdict' = "rejected" /\ EndRegion /\ code' = <<>>

\* One block element: reported as unreachable after a return, as an error when
\* its own check fails, and otherwise checked and lowered.
Element(ok, Checked) ==
    /\ verdict = "checking"
    /\ clock < MaxClock
    /\ IF ok /\ ~Top.returns
       THEN Checked /\ clock' = clock + 1 /\ UNCHANGED verdict
       ELSE Reject

----------------------------------------------------------------------------
(* begin_region, and check_block opening the body: parameters sit at depth  *)
(* 0 of env without a cleanup entry of their own.                           *)

ParamBindings == {DropOf(ParamOrder[i], 0, i) : i \in DOMAIN ParamOrder}

Init ==
    /\ env = ParamBindings
    /\ declared = Params
    /\ moved = {}
    /\ cleanup = {}
    /\ clock = Len(ParamOrder) + 1
    /\ frames = << [kind |-> "body", id |-> 0, arm |-> 0, entry |-> {}, exits |-> {},
                    covered |-> FALSE, allRet |-> TRUE, returns |-> FALSE,
                    dead |-> FALSE, merged |-> FALSE, loop |-> 0, target |-> 0] >>
    /\ code = <<>>
    /\ verdict = "checking"

----------------------------------------------------------------------------
(* Simple elements.                                                         *)

\* let mut r = <fresh value | s>
Let(r, s) ==
    /\ s \in InScope \cup {None}
    /\ LET drop == DropOf(r, Depth, clock)
       IN  Element(r \notin declared /\ s \notin moved,
               /\ moved' = moved \cup Taken(s)
               /\ declared' = declared \cup {r}
               /\ env' = env \cup {drop}
               /\ cleanup' = cleanup \cup {drop}
               /\ Emit(TakeOf(s) \o Do("store", r) \o Arm(drop))
               /\ UNCHANGED frames)

\* An element that reads r, passes it by value, or lends it to a Ref parameter.
\* check_reference_arg requires a mutable root and, unlike the other two, does
\* not look at move_state.
Use(r) ==
    /\ r \in InScope
    /\ Element(r \notin moved,
           /\ Emit(Do("use", r))
           /\ UNCHANGED <<env, declared, moved, cleanup, frames>>)

Take(r) ==
    /\ r \in InScope
    /\ Element(r \notin moved,
           /\ moved' = moved \cup {r}
           /\ Emit(Do("take", r))
           /\ UNCHANGED <<env, declared, cleanup, frames>>)

Borrow(r) ==
    /\ r \in InScope
    /\ Element(r \notin ValueParams,
           /\ Emit(Do("borrow", r))
           /\ UNCHANGED <<env, declared, moved, cleanup, frames>>)

\* An assignment first drops the value it replaces, unless that was moved.
DropBefore(r) == IF r \in moved THEN <<>> ELSE Do("drop", r)

\* r = <fresh value | s>.
Assign(r, s) ==
    /\ r \in InScope
    /\ s \in InScope \cup {None}
    /\ Element(r \notin ValueParams /\ s \notin moved /\ s # r,
           /\ moved' = (moved \cup Taken(s)) \ {r}
           /\ Emit(TakeOf(s) \o DropBefore(r) \o Do("store", r))
           /\ UNCHANGED <<env, declared, cleanup, frames>>)

\* defer / defer_on_error of a call using, borrowing or consuming r.  The call
\* is checked now, its effect on move_state is undone and recorded instead.
CheckDefer(r, how, onErr) ==
    /\ r \in InScope
    /\ LET entry == [kind |-> how, root |-> r, onErr |-> onErr, depth |-> Depth, ord |-> clock]
       IN  Element(/\ how = "borrow" => r \notin ValueParams
                   /\ how # "borrow" => r \notin moved
                   /\ onErr => Fallible,
               /\ cleanup' = cleanup \cup {entry}
               /\ Emit(Arm(entry))
               /\ UNCHANGED <<env, declared, moved, frames>>)

----------------------------------------------------------------------------
(* Leaving the callable or a loop early.                                    *)

\* return [s]: the value is consumed before the plan is computed.
CheckReturn(s, class) ==
    /\ s \in InScope \cup {None}
    /\ LET m    == moved \cup Taken(s)
           plan == Registered(1, m)
       IN  Element(s \notin moved /\ DependenciesOk(plan, m, class),
               /\ moved' = m
               /\ Emit(TakeOf(s) \o Result(class) \o Clean(Unregistered(1, m), plan) \o Ret)
               /\ SetTop(Mark(Top, TRUE, TRUE))
               /\ UNCHANGED <<env, declared, cleanup>>)

\* return_on_error of a fresh `Nil | Error`: the error edge leaves the
\* callable under its own plan, the success edge goes on.
CheckReturnOnError ==
    LET plan == Registered(1, moved)
        next == Label(clock, "next")
    IN  Element(Fallible /\ DependenciesOk(plan, moved, "error"),
            /\ Emit(Jump("branch", next) \o Result("error")
                      \o Clean(Unregistered(1, moved), plan) \o Ret
                      \o Place(next, InScope \ moved))
            /\ UNCHANGED <<env, declared, moved, cleanup, frames>>)

\* break: the plan retains the scopes outside the innermost loop.  Lowering
\* jumps to the exit block on top of ITS loop stack, where only `while` pushes.
Break ==
    LET plan == Registered(Top.loop, moved)
        exit == IF Top.target = 0
                THEN <<[op |-> "nowhere"]>>
                ELSE <<[op |-> "break", loop |-> frames[Top.loop].id,
                        to |-> Label(Top.target, "exit")]>>
    IN  Element(Top.loop # 0 /\ DependenciesOk(plan, moved, "ok"),
            /\ Emit(Result("ok") \o Clean(Unregistered(Top.loop, moved), plan) \o exit)
            /\ SetTop(Mark(Top, FALSE, TRUE))
            /\ UNCHANGED <<env, declared, moved, cleanup>>)

----------------------------------------------------------------------------
(* Blocks.  CloseBlock is the end of check_block: the block's own entries,  *)
(* unless it has returned.                                                  *)

BlockPlan == Registered(Depth, moved)
BlockOk   == Top.returns \/ DependenciesOk(BlockPlan, moved, "unknown")

\* Mutation: the scope's cleanup entries are not popped.
LeaveKeepingCleanup ==
    /\ env' = Outer(Depth, env)
    /\ cleanup' = cleanup

LeaveScope ==
    /\ env' = Outer(Depth, env)
    /\ cleanup' = Outer(Depth, cleanup)

\* Roots the enclosing block sees as available under move state m.
OuterAvailable(m) == {b.root : b \in Outer(Depth, env)} \ m

Closing(next) == IF Top.dead THEN <<>> ELSE Clean({}, BlockPlan) \o next

\* What lowering emits while a construct is open goes nowhere when the block
\* around the construct is terminated.
EmitInParent(is) == code' = IF Parent.dead THEN code ELSE code \o is

\* if c do: a condition may consume a root.  `entry` is taken before it.
OpenIf(c) ==
    /\ c \in InScope \cup {None}
    /\ Element(c \notin moved,
           /\ moved' = moved \cup Taken(c)
           /\ frames' = Append(frames, NewFrame("if", moved))
           /\ Emit(TakeOf(c) \o Jump("branch", Label(clock, "next")))
           /\ UNCHANGED <<env, declared, cleanup>>)

\* Mutation: the move states of the arms that return are joined.
ArmExitsReturned == IF Top.returns THEN Top.exits \cup {moved} ELSE Top.exits

ArmExits == IF Top.returns THEN Top.exits ELSE Top.exits \cup {moved}

Reopened(f, id, exits, isElse, dead) ==
    [f EXCEPT !.arm = id, !.exits = exits, !.covered = isElse,
              !.allRet = @ /\ f.returns, !.returns = FALSE,
              !.dead = dead, !.merged = @ \/ ~f.dead]

NextFrame(isElse) == Reopened(Top, clock, ArmExits, isElse, Parent.dead)

CloseArm == Closing(Jump("goto", Label(Top.id, "exit")))
              \o Place(Label(Top.arm, "next"), OuterAvailable(Top.entry))

\* What closes a block is no element of it: it may follow a return.
Construct(ok, Checked) ==
    /\ clock < MaxClock
    /\ IF ok THEN Checked /\ clock' = clock + 1 /\ UNCHANGED verdict ELSE Reject

InsideOf(kinds) == verdict = "checking" /\ Top.kind \in kinds

\* elseif c do: checked from the chain's entry state again.
ElseIf(c) ==
    /\ InsideOf({"if"}) /\ ~Top.covered
    /\ c \in {b.root : b \in Outer(Depth, env)} \cup {None}
    /\ Construct(BlockOk /\ c \notin Top.entry,
           /\ moved' = Top.entry \cup Taken(c)
           /\ LeaveScope
           /\ SetTop(NextFrame(FALSE))
           /\ EmitInParent(CloseArm \o TakeOf(c) \o Jump("branch", Label(clock, "next")))
           /\ UNCHANGED declared)

Else ==
    /\ InsideOf({"if"}) /\ ~Top.covered
    /\ Construct(BlockOk,
           /\ moved' = Top.entry
           /\ LeaveScope
           /\ SetTop(NextFrame(TRUE))
           /\ EmitInParent(CloseArm)
           /\ UNCHANGED declared)

\* Mutation: the chain is taken to move nothing.
JoinedEntry == Top.entry

\* The chain's move state: the union over the edges that reach its end.
JoinedMoves ==
    LET exits == ArmExits \cup (IF Top.covered THEN {} ELSE {Top.entry})
    IN  IF exits = {} THEN Top.entry ELSE UNION exits

EndIf ==
    /\ InsideOf({"if"})
    /\ LET reaches == Top.merged \/ ~Top.dead \/ ~Top.covered
           last    == IF Top.covered THEN Closing(<<>>) ELSE CloseArm
           merge   == Place(Label(Top.id, "exit"), OuterAvailable(JoinedMoves))
       IN  Construct(BlockOk,
               /\ moved' = JoinedMoves
               /\ LeaveScope
               /\ frames' = Append(SubSeq(frames, 1, Depth - 2),
                      Mark(Parent, Top.covered /\ Top.allRet /\ Top.returns, ~reaches))
               /\ EmitInParent(last \o (IF reaches THEN merge ELSE <<>>))
               /\ UNCHANGED declared)

\* while c do: the condition is checked once, before `pre` is taken.
OpenWhile(c) ==
    /\ c \in InScope \cup {None}
    /\ Element(c \notin moved,
           /\ moved' = moved \cup Taken(c)
           /\ frames' = Append(frames, NewFrame("while", moved \cup Taken(c)))
           /\ Emit(Place(Label(clock, "head"), InScope \ moved) \o TakeOf(c)
                     \o Jump("branch", Label(clock, "exit")))
           /\ UNCHANGED <<env, declared, cleanup>>)

\* for v in iterable do: the iterable is evaluated once, before the loop.
OpenFor ==
    Element(TRUE,
        /\ frames' = Append(frames, NewFrame("for", moved))
        /\ Emit(Place(Label(clock, "head"), InScope \ moved)
                  \o Jump("branch", Label(clock, "exit")))
        /\ UNCHANGED <<env, declared, moved, cleanup>>)

\* A root the body leaves moved must have been moved before it.
LoopStable == moved \subseteq Top.entry

\* The end of a loop body.
CloseLoop ==
    /\ InsideOf({"while", "for"})
    /\ LET after == IF Top.returns THEN Top.entry ELSE Top.entry \cup moved
       IN  Construct(BlockOk /\ LoopStable,
               /\ moved' = after
               /\ LeaveScope
               /\ frames' = SubSeq(frames, 1, Depth - 1)
               /\ EmitInParent(Closing(Jump("goto", Label(Top.id, "head")))
                                 \o Place(Label(Top.id, "exit"), OuterAvailable(after)))
               /\ UNCHANGED declared)

\* The end of the body, with its trailing value s: append_parameter_drops adds
\* the parameters' drops to the body's own plan.  The region's state is done.
EndBody(s, class) ==
    /\ verdict = "checking"
    /\ Depth = 1
    /\ s \in (IF Top.returns THEN {} ELSE InScope) \cup {None}
    /\ LET m    == moved \cup Taken(s)
           plan == Registered(1, m)
           args == {b \in ComputeDrops(m) : b.depth = 0}
       IN  IF Top.returns \/ (s \notin moved /\ DependenciesOk(plan, m, class))
           THEN /\ Emit(TakeOf(s) \o Result(class) \o Clean({}, plan \cup args) \o Ret)
                /\ verdict' = IF \E i \in DOMAIN code : code[i].op = "nowhere"
                               THEN "internal" ELSE "accepted"
                /\ EndRegion
           ELSE Reject

----------------------------------------------------------------------------
Next ==
    \/ \E r \in Roots, s \in MaybeRoot : Let(r, s) \/ Assign(r, s)
    \/ \E r \in Roots : Use(r) \/ Take(r) \/ Borrow(r)
    \/ \E r \in Roots, how \in {"use", "borrow", "take"}, onErr \in BOOLEAN :
          CheckDefer(r, how, onErr)
    \/ \E c \in MaybeRoot : OpenIf(c) \/ ElseIf(c) \/ OpenWhile(c)
    \/ Else \/ EndIf \/ OpenFor \/ CloseLoop
    \/ Break \/ CheckReturnOnError
    \/ \E s \in MaybeRoot, class \in ExitClass : CheckReturn(s, class) \/ EndBody(s, class)

Spec == Init /\ [][Next]_vars

----------------------------------------------------------------------------
(* Properties of the checker's own state.                                   *)

Deferred(e) == e.kind # "drop"

\* Every local in scope has a drop entry in the scope that declares it, and
\* every drop entry belongs to a local in scope: no plan misses a local or
\* destroys one that is gone (check_block's push, pop and env.truncate).
CleanupMatchesScopes ==
    {e \in cleanup : ~Deferred(e)} = {b \in env : b.depth > 0}

\* The root a deferred call mentions is still in scope, was bound before the
\* call was registered, and by a scope that closes no earlier: in reverse
\* registration order the root outlives the call.
DeferredRootsOutliveCalls ==
    \A e \in cleanup : Deferred(e) =>
        \E b \in env : b.root = e.root /\ b.ord < e.ord /\ b.depth <= e.depth

\* Registration order is total, over parameters, locals and deferred calls of
\* all open scopes, and nests: what an inner scope registers comes after
\* everything its enclosing scopes hold, so the plan of an exit is unique.
RegistrationIsOrdered ==
    \A e, f \in env \cup cleanup :
        /\ e.ord = f.ord => e = f
        /\ e.depth < f.depth => e.ord < f.ord
=============================================================================
