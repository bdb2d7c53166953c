----------------------------- MODULE Receivers -----------------------------
(***************************************************************************)
(* The receiver-write effect: which methods may assign through "self", so  *)
(* that the checker (checker/calls.rs, stmt.rs, program.rs, mod.rs) can    *)
(* refuse to call one on a root that is not mutable.  A method may be      *)
(* called before it is checked, so calls and effects are collected first,  *)
(* the effects are solved to their least fixed point, and only then is     *)
(* every call judged.  An accepted program is then run.                    *)
(*                                                                         *)
(* A body is the set of what it does to receivers, in no order and any     *)
(* number of times.  The emitter hands a method the address of a mutable   *)
(* root, and of a copy otherwise (llvm/lower/mod.rs, receiver_ptr): a      *)
(* write into a copy is lost, or is a second owner's.                      *)
(***************************************************************************)
EXTENDS Naturals, Sequences, FiniteSets

CONSTANTS
    Methods,        \* method ids
    Main,           \* a body without "self": the program's or a function's
    Mutators,       \* whether a method may push to, or index-assign, a
                    \* collection in a field of "self"
    MaxStatements,  \* bound: statements of a program
    MaxFrames       \* bound: nested calls

ASSUME ReceiversAssumption == Main \notin Methods /\ Mutators \in BOOLEAN

VARIABLES
    bodies,   \* what is written
    stage,    \* "write", "check", "solve", "refused", "run"
    todo,     \* bodies not yet checked
    direct,   \* ctx.direct_writes, as a set
    edges,    \* ctx.effect_edges: <<caller, callee>> on a receiver in "self"
    pending,  \* ctx.receiver_calls: [method, mutable]
    writes,   \* solve_receiver_writes: the methods found to write
    pass,     \* the edges this pass has not yet looked at
    changed,  \* whether this pass found a method
    frames,   \* the run: what executes, and whether its root is mutable
    spoiled   \* whether a root that is not mutable was written

collected == <<direct, edges, pending>>
solving == <<writes, pass, changed>>
running == <<frames, spoiled>>
receiverVars == <<bodies, stage, todo, collected, solving, running>>

Callers == Methods \cup {Main}

\* "assign": self.x = e, or a place in "self" passed to a Ref parameter.
\* "mutate": self.xs.push(e), self.xs[i] = e and their like.
Writing == [what : {"assign", "mutate"}]
\* On a place in "self", in a mutable root, or in an immutable root or a
\* temporary.
Calling == [on : {"self", "mutable", "fixed"}, method : Methods]

Statements(c) ==
    {s \in Writing : c # Main /\ (s.what = "mutate" => Mutators)}
        \cup {s \in Calling : s.on = "self" => c # Main}

ReceiversTypeOK ==
    /\ bodies \in [Callers -> SUBSET (Writing \cup Calling)]
    /\ \A c \in Callers : bodies[c] \subseteq Statements(c)
    /\ stage \in {"write", "check", "solve", "refused", "run"}
    /\ todo \in SUBSET Callers
    /\ direct \in SUBSET Methods
    /\ edges \in SUBSET (Methods \X Methods)
    /\ pending \in SUBSET [method : Methods, mutable : BOOLEAN]
    /\ writes \in SUBSET Methods
    /\ pass \in SUBSET edges
    /\ changed \in BOOLEAN
    /\ frames \in Seq([body : Callers, mutable : BOOLEAN])
    /\ spoiled \in BOOLEAN

ReceiversInit ==
    /\ bodies = [c \in Callers |-> {}]
    /\ stage = "write"
    /\ todo = Callers
    /\ direct = {} /\ edges = {} /\ pending = {}
    /\ writes = {} /\ pass = {} /\ changed = FALSE
    /\ frames = <<>> /\ spoiled = FALSE

----------------------------------------------------------------------------
(* The text.                                                                *)

Programmed == UNION {{<<c, s>> : s \in bodies[c]} : c \in Callers}

WriteStatement(c) ==
    /\ stage = "write" /\ Cardinality(Programmed) < MaxStatements
    /\ \E s \in Statements(c) \ bodies[c] : bodies' = [bodies EXCEPT ![c] = @ \cup {s}]
    /\ UNCHANGED <<stage, todo, collected, solving, running>>

EndOfText ==
    /\ stage = "write"
    /\ stage' = "check"
    /\ UNCHANGED <<bodies, todo, collected, solving, running>>

----------------------------------------------------------------------------
(* The checker.                                                             *)

\* Assign and check_reference_arg; check_list_mutation, check_map_set_method
\* and IndexedAssign ask for a mutable root, which "self" is, and leave it at
\* that.
WritesSelf(c) == [what |-> "assign"] \in bodies[c]

\* Mutation: calls on "self" are not recorded.
SelfCallsForgotten(c) == {}

SelfCalls(c) == {<<c, s.method>> : s \in {t \in bodies[c] \cap Calling : t.on = "self"}}

ReceiverCalls(c) ==
    {[method |-> s.method, mutable |-> s.on # "fixed"] : s \in bodies[c] \cap Calling}

CheckBody(c) ==
    /\ stage = "check" /\ c \in todo
    /\ todo' = todo \ {c}
    /\ direct' = IF WritesSelf(c) THEN direct \cup {c} ELSE direct
    /\ edges' = edges \cup SelfCalls(c)
    /\ pending' = pending \cup ReceiverCalls(c)
    /\ UNCHANGED <<bodies, stage, solving, running>>

\* solve_receiver_writes starts from the direct writes.
Solve ==
    /\ stage = "check" /\ todo = {}
    /\ stage' = "solve"
    /\ writes' = direct /\ pass' = edges /\ changed' = FALSE
    /\ UNCHANGED <<bodies, todo, collected, running>>

Spreads(e) == e[2] \in writes /\ e[1] \notin writes

\* One edge of a pass; the order does not matter.
Look(e) ==
    /\ stage = "solve" /\ e \in pass
    /\ pass' = pass \ {e}
    /\ writes' = IF Spreads(e) THEN writes \cup {e[1]} ELSE writes
    /\ changed' = (changed \/ Spreads(e))
    /\ UNCHANGED <<bodies, stage, todo, collected, running>>

NextPass ==
    /\ stage = "solve" /\ pass = {} /\ changed
    /\ pass' = edges /\ changed' = FALSE
    /\ UNCHANGED <<bodies, stage, todo, collected, writes, running>>

Misused == {call \in pending : call.method \in writes /\ ~call.mutable}

\* Mutation: a single pass.
JudgeEarly ==
    /\ stage = "solve" /\ pass = {}
    /\ stage' = IF Misused = {} THEN "run" ELSE "refused"
    /\ UNCHANGED <<bodies, todo, collected, solving, running>>

\* The deferred judgement of every call.
Judge ==
    /\ stage = "solve" /\ pass = {} /\ ~changed
    /\ stage' = IF Misused = {} THEN "run" ELSE "refused"
    /\ UNCHANGED <<bodies, todo, collected, solving, running>>

----------------------------------------------------------------------------
(* The run of an accepted program.                                          *)

Executing == IF frames = <<>> THEN Main ELSE frames[Len(frames)].body

\* The root of "self" in the body that executes.
SelfIsMutable == frames[Len(frames)].mutable

\* method_call and receiver_ptr: a receiver in "self" is the caller's own.
Call(s) ==
    /\ stage = "run" /\ Len(frames) < MaxFrames
    /\ s \in bodies[Executing] \cap Calling
    /\ frames' = Append(frames,
                    [body    |-> s.method,
                     mutable |-> IF s.on = "self" THEN SelfIsMutable ELSE s.on = "mutable"])
    /\ UNCHANGED <<bodies, stage, todo, collected, solving, spoiled>>

Perform(s) ==
    /\ stage = "run" /\ frames # <<>>
    /\ s \in bodies[Executing] \cap Writing
    /\ spoiled' = (spoiled \/ ~SelfIsMutable)
    /\ UNCHANGED <<bodies, stage, todo, collected, solving, frames>>

EndCall ==
    /\ stage = "run" /\ frames # <<>>
    /\ frames' = SubSeq(frames, 1, Len(frames) - 1)
    /\ UNCHANGED <<bodies, stage, todo, collected, solving, spoiled>>

----------------------------------------------------------------------------
ReceiversNext ==
    \/ \E c \in Callers : WriteStatement(c) \/ CheckBody(c)
    \/ EndOfText \/ Solve \/ NextPass \/ Judge
    \/ \E e \in pass : Look(e)
    \/ \E s \in Calling : Call(s)
    \/ \E s \in Writing : Perform(s)
    \/ EndCall

ReceiversSpec == ReceiversInit /\ [][ReceiversNext]_receiverVars

----------------------------------------------------------------------------
\* "A method that may assign through self, including through methods it calls,
\* requires a mutable receiver root" (LANGUAGE.md:594-597): no accepted program
\* writes an immutable root or a temporary, along any chain of calls.
ImmutableRootsAreKept == ~spoiled

\* Methods that hold what is written and, with a callee, its caller.
Closed(set) == direct \subseteq set /\ \A e \in edges : e[2] \in set => e[1] \in set

\* Once solved, the effect is the least set with the direct writers that is
\* closed under calls on "self": recursion included, and no method for nothing.
EffectIsLeast ==
    stage \in {"refused", "run"} =>
        /\ Closed(writes)
        /\ \A set \in SUBSET Methods : Closed(set) => writes \subseteq set
=============================================================================
