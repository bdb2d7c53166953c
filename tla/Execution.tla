----------------------------- MODULE Execution -----------------------------
(***************************************************************************)
(* An accepted body and its execution.  MoveCheck produces "code"; this    *)
(* module runs it, one instruction or one cleanup entry at a time, every   *)
(* condition and every fallible result going either way.                   *)
(*                                                                         *)
(* "owned" are the roots whose storage holds a live value: what the        *)
(* checker reasons about statically and what the program must never use,   *)
(* destroy or forget wrongly.  "live" are the cleanup entries registered   *)
(* and not yet processed at run time.                                      *)
(***************************************************************************)
EXTENDS MoveCheck

VARIABLES
    pc,     \* the instruction to run, 0 once the callable has returned
    owned,  \* roots holding a live value
    err,    \* the returned value's active member is Error
    live,   \* entries armed and not yet processed
    done    \* entries of the current plan already processed

exec == <<pc, owned, err, live, done>>
allVars == <<vars, exec>>

ExecTypeOK ==
    /\ pc \in Nat
    /\ owned \subseteq Roots
    /\ err \in BOOLEAN
    /\ live \subseteq Entry
    /\ done \subseteq Entry

ExecInit ==
    /\ pc = 1
    /\ owned = Params
    /\ err = FALSE
    /\ live = ParamBindings
    /\ done = {}

----------------------------------------------------------------------------
Running == verdict = "accepted" /\ pc # 0
Here    == code[pc]
At(ops) == Running /\ Here.op \in ops

Target(l) == CHOOSE i \in DOMAIN code : code[i].op = "label" /\ code[i].to = l

Continue == pc' = pc + 1

\* Codegen::cleanup: the entries still to process, in the stored order.
Remaining == IF Here.first \ done # {} THEN Here.first \ done ELSE Here.plan \ done

\* Mutation: entries are processed in registration order.
OldestEntry == CHOOSE e \in Remaining : \A f \in Remaining : e.ord <= f.ord

NextEntry == CHOOSE e \in Remaining : \A f \in Remaining : f.ord <= e.ord

Runs(e) == e.onErr => err

\* Mutations: no drop is disarmed, or one is by a call that did not run.
NeverDisarmed(e)  == FALSE
AlwaysDisarmed(e) == \E f \in done : f.kind = "take" /\ f.root = e.root

\* A deferred call that ran and consumed the root disarms its later drop.
Disarmed(e) == \E f \in done : f.kind = "take" /\ f.root = e.root /\ Runs(f)

----------------------------------------------------------------------------
Store ==
    /\ At({"store"})
    /\ owned' = owned \cup {Here.root}
    /\ Continue /\ UNCHANGED <<err, live, done>>

Consume ==
    /\ At({"take", "drop"})
    /\ owned' = owned \ {Here.root}
    /\ Continue /\ UNCHANGED <<err, live, done>>

Access == At({"use", "borrow", "label"}) /\ Continue /\ UNCHANGED <<owned, err, live, done>>

Register ==
    /\ At({"arm"})
    /\ live' = live \cup {Here.entry}
    /\ Continue /\ UNCHANGED <<owned, err, done>>

Branch ==
    /\ At({"branch"})
    /\ pc' \in {pc + 1, Target(Here.to)}
    /\ UNCHANGED <<owned, err, live, done>>

Goto ==
    /\ At({"goto", "break"})
    /\ pc' = Target(Here.to)
    /\ UNCHANGED <<owned, err, live, done>>

\* The exit value is materialised; its tag decides the error-only entries.
Materialise ==
    /\ At({"result"})
    /\ err' \in CASE Here.class = "ok"      -> {FALSE}
                  [] Here.class = "error"   -> {TRUE}
                  [] Here.class = "unknown" -> IF Fallible THEN BOOLEAN ELSE {FALSE}
    /\ Continue /\ UNCHANGED <<owned, live, done>>

CleanupEntry ==
    /\ At({"cleanup"})
    /\ Remaining # {}
    /\ LET e == NextEntry
       IN  /\ owned' = IF \/ e.kind = "drop" /\ ~Disarmed(e)
                          \/ e.kind = "take" /\ Runs(e)
                       THEN owned \ {e.root} ELSE owned
           /\ live' = live \ {e}
           /\ done' = done \cup {e}
    /\ UNCHANGED <<pc, err>>

CleanupEnd ==
    /\ At({"cleanup"})
    /\ Remaining = {}
    /\ done' = {}
    /\ Continue /\ UNCHANGED <<owned, err, live>>

Return ==
    /\ At({"ret"})
    /\ pc' = 0
    /\ UNCHANGED <<owned, err, live, done>>

ExecNext ==
    /\ \/ Store \/ Consume \/ Access \/ Register \/ Branch \/ Goto
       \/ Materialise \/ CleanupEntry \/ CleanupEnd \/ Return
    /\ UNCHANGED vars

Returned == verdict = "accepted" /\ pc = 0

----------------------------------------------------------------------------
(* Properties of every execution of an accepted program.                    *)

Processing == At({"cleanup"}) /\ Remaining # {}

\* Roots the next step reads, lends or moves out of.
Needed ==
    IF At({"use", "borrow", "take"}) THEN {Here.root}
    ELSE IF Processing /\ NextEntry.kind # "drop" /\ Runs(NextEntry) THEN {NextEntry.root}
    ELSE {}

\* Roots the next step destroys the value of.
Destroyed ==
    IF At({"drop"}) THEN {Here.root}
    ELSE IF Processing /\ NextEntry.kind = "drop" /\ ~Disarmed(NextEntry) THEN {NextEntry.root}
    ELSE {}

\* No element and no deferred call touches a root whose value was moved away
\* or destroyed on the path that led here (check_move, deferred dependencies).
NoUseAfterMove == Needed \subseteq owned

\* No value is destroyed twice, and none after it was moved (cleanup plans,
\* drop_before).
NoDoubleDrop == Destroyed \subseteq owned

\* No value is overwritten undestroyed and none outlives the callable, apart
\* from those the caller still owns.
NoLeak ==
    /\ At({"store"}) => Here.root \notin owned
    /\ Returned => owned \subseteq RefParams

\* What the checker considers available where control flow joins holds a value
\* on every path that reaches the join (merge_moves, the loop rules).
AvailabilityIsSound == At({"label"}) => Here.avail \subseteq owned

\* While an entry is processed, nothing registered after it is still to be
\* processed: neither a deferred call nor the drop of a root that is owned.
ReverseRegistration ==
    Processing =>
        \A f \in live : f.ord > NextEntry.ord => (f.kind = "drop" /\ f.root \notin owned)

\* Every deferred call that is armed is processed exactly once before its
\* scope is entered again and before the callable returns.
DefersProcessedOnce ==
    /\ (At({"arm"}) /\ Here.entry.kind # "drop") => Here.entry \notin live
    /\ (Processing /\ NextEntry.kind # "drop") => NextEntry \in live
    /\ Returned => \A e \in live : e.kind = "drop"
=============================================================================
