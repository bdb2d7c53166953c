# Verification of snacc

snacc is a small statically checked language with move-only values, automatic
destruction and `defer`. A compiler in Rust lowers it to LLVM objects that link
against a Rust runtime; a Cargo subcommand builds mixed projects and a local web
workbench compiles and runs programs on request.

This directory holds TLA+ models of that code, the TLC configurations that check
them, and theorems about them with proofs TLAPS checks.

    tlc -workers 2 -config MCScopes.cfg MCPrograms      # model-check a run
    tlapm MoveCheckProofs.tla                           # check the proofs of a module

`PROJECT.json` lists the runs, the mutants that show each property can fail, the
source lines every definition stands for, the findings and the hazards.

## 1. Inventory

### Compiler (`crates/snacc-compiler`)

| Component | State | Operations | Correct when |
|---|---|---|---|
| Ownership checker (`checker/stmt.rs`, `places.rs`, parts of `calls.rs`, `expr.rs`, `program.rs`) | `env`, `move_state`, `cleanup_scopes`, `loops` of one callable | one per statement form; a cleanup plan for every exit | on every path each owned value is destroyed exactly once, nothing is used after a move, deferred calls run in reverse registration order before their roots go |
| View borrows (`places.rs`, `stmt.rs`, `calls.rs`) | `view_borrows`: which view may point into which owners | take, prune, merge at joins, refuse a change | no owner changes under a view that is used later |
| Receiver-write effect (`program.rs`, `calls.rs`) | direct writes, edges and calls of the methods | collect, solve, judge | the least fixed point; no accepted call writes an immutable root |
| Types, specialisation, layouts (`types.rs`, `program.rs`, `mod.rs`, `llvm/types.rs`) | definitions, move-only and equality tables, stack and queue of specialisations, counters | collect, specialise, refresh, lay out | ends within depth 128 and 4096 instances; tables say what the definitions say; the emitter agrees |
| Lowering of statements and cleanup (`llvm/lower/stmt.rs`, `cleanup.rs`, `equality.rs`) | the block being emitted, loop exits, the places of roots | one per statement form; emission of plans | the emitted graph does what the checked program says |
| Lowering of collections (`llvm/lower/collections.rs`) | emitted code around the runtime calls | one per method | values that leave a collection have exactly one owner |
| Expression checking, conversions, imports, symbols | tables of signatures | pure functions | agree with the runtime's ABI |
| Lexer, parser, AST, diagnostics | none | pure functions | — |

The checker decides everything about ownership and writes it into a typed tree; the
lowering trusts the tree. The two walk a body in the same order but keep separate
stacks of scopes and loops, and each decides for itself which types own something:
that is where they can disagree.

### Runtime (`crates/snacc-runtime`)

| Component | State | Operations | Correct when |
|---|---|---|---|
| Maps (`map.rs`) | hash map, vector of keys in insertion order, the descriptor in the program | insert, delete, take, index, contains, clear, reserve, drop, `key_at`, `value_at` | the vector, the hash map and the descriptor agree; a loop meets the keys that stay |
| Lists (`list.rs`) | block, length, capacity | push, insert, pop, remove, store, clear, reserve, slice, drop | every operation is the one on sequences; each element has one owner |
| Sets (`set.rs`) | hash set, vector of elements, the descriptor | insert, delete, contains, clear, reserve, drop, `at` | the three agree; an inserted string is consumed once |
| Strings, views, print, failure | bytes | pure functions on bytes, output, abort | — |

### Tools

| Component | State | Operations | Correct when |
|---|---|---|---|
| Workbench (`apps/snacc-workbench`) | `Shared.active`; per run a child process, two capture threads, a feeding thread, two limit flags | accept, admit or refuse, compile, spawn, poll, kill, join, respond | one run at a time; every admitted run ends; the report says what happened |
| Artifact cache (`apps/cargo-snacc/src/cache.rs`, `bridge.rs`, `commands/build.rs`) | files under the target directory: object and manifest per identity, assertion file per bridge | build, clean | what is linked was emitted for the version that was checked, whatever other builds and crashes did; later builds recover |
| Other cargo-snacc commands, the driver (`crates/snacc-driver`), the plain compiler CLI | none that outlives a command | sequential I/O | — |

### How they interact, and what is hard

* *Control flow against ownership.* A static analysis of one pass over a body must
  be right for every path, every number of loop iterations, and every exit. Tests
  fix a handful of programs.
* *Deferred evaluation.* `defer` is checked where it stands and executed at every
  exit of its scope, interleaved with destruction.
* *Facts that arrive late.* A method is called before its effect is known, a generic
  type is used in the middle of its own specialisation, a loop's next round uses a
  view the checker has already forgotten.
* *Compiler and runtime.* Values pass between program, store and destructor in
  emitted code; the parts of a collection change in different functions.
* *Threads and processes.* The workbench polls a child that may do anything.
* *Shared files.* Concurrent builds, kills and power loss over one target directory.
  Publication is by rename; object and manifest are two files.

`PROJECT.json` has the full list of hazards, each at its line.

## 2. Modules

    MoveCheck ── Execution ── Programs ── MCPrograms
        └── MoveCheckProofs ── LoweringProofs (with Programs) ── ExecutionProofs
    ViewBorrows ─┬─ Callables ── MCCallables
    Receivers ───┘       └── CallableProofs
    TypeTable ── MCTypes
        └── TypeTableProofs
    Association (abstract) ── OrderedMap ─┬─ Collections ── MCCollections
    Series (abstract) ─────── Lists ──────┤
                              Sets ───────┘
        └── CollectionProofs (of Collections and its three parts)
    Workbench ── MCWorkbench
        └── WorkbenchProofs
    ObjectCache ── MCObjectCache
        └── ObjectCacheProofs

`Callables` and `Collections` put models side by side that share no state, so that
one run explores them; a behaviour is about one of them.

### MoveCheck: checking and lowering one body

One action is one block element: it checks the element (state of `Ctx`) and appends
what the lowering emits for it to `code`. Both walks visit the elements in the same
order, so nothing is lost by merging them; a rejected body is never lowered, so its
code does not matter.

| State | Code |
|---|---|
| `env` | the bindings in scope, each as the drop entry it would need |
| `moved` | `ctx.move_state` |
| `cleanup` | `ctx.cleanup_scopes`; an entry carries the depth of its scope and its registration order, which replaces the vector of vectors |
| `frames` | the locals of `check_block`, `check_if` and the loop cases: entry state, exits of the arms so far, whether the block always returns, the enclosing loop |
| `code` | labels, jumps, element effects, registered entries and cleanup plans, in emission order |
| `verdict` | errors reported; `"internal"` when the lowering itself fails |

| Action | Code |
|---|---|
| `Let`, `Use`, `Take`, `Borrow`, `Assign` | declaration, read, by-value argument, Ref argument, assignment with `drop_before` |
| `CheckDefer` | `check_defer` with its `consumes` set and dependency validation at every exit |
| `CheckReturn`, `CheckReturnOnError`, `Break`, `EndBody` | exits with their plans (`cleanup_for_exit`, `append_parameter_drops`) |
| `OpenIf`, `ElseIf`, `Else`, `EndIf` | `check_if`: each arm starts from the entry state, reachable exits are merged |
| `OpenWhile`, `OpenFor`, `CloseLoop` | the single pass over a loop body and the fixed-point comparison |

What is abstracted: a root is a name of a move-only type; types, expressions and
spans are gone, and an element concerns one root. Left out: partial places (moves of
fields), copyable types, value-form `if`, exhaustive type-test chains, indexed
assignment. None of them adds a way to leave a scope; partial places add conditions
under which elements are rejected.

### Execution: running what was lowered

Executes the code of an accepted body with nondeterministic branches. `owned` is the
set of roots that hold a value, `live` the entries that are armed, `done` the
entries of the current plan already processed, `err` whether the result of an exit
is an error. `CleanupEntry` follows `Codegen::cleanup`: entries newest first,
error-only calls on the error edge only, and drops disarmed by deferred calls that
consume.

### Programs: which bodies a run explores

A family chooses the statement forms, roots and length of bodies; a run goes through
several. `Shapes` names uses of the language that the checker accepts and then gets
wrong. The passing runs exclude them, because the properties are false with them;
each exclusion is a condition in `Programs` and covers nothing else. Adding a shape
to a run's `Shapes` reproduces its counterexample, with `NoUseAfterMove`,
`NoDoubleDrop` or `NoLeak`.

| Shape | Smallest body | What happens |
|---|---|---|
| `condition_moves` | `let mut a; while take(a) do … end` | the condition is checked once, evaluated many times: use after move. Likewise a condition of an `if` that fails: the next arm starts from the state before it |
| `break_outer` | `let mut a; while c do break end` | the break's plan destroys `a`, the end of the body destroys it again (run `break_outer`) |
| `break_for` | `for … do break end` inside or outside a `while` | leaves the enclosing `while`, or the lowering fails |
| `unbalanced` | `let mut a; if c do take(a) end` | with `c` false `a` is never destroyed |
| `break_moved` | `let mut a; while c do take(a) break a = fresh end use(a)` | the state after the loop ignores the break edge: use after move |
| `defer_outer` | `let mut a; if c do defer take(a) end use(a)` | the checker restores `a` when the defer is armed and does not mark it when it has run |
| `return_param` | `defer use(p) return` with a value parameter `p` | the early exit appends parameter drops, then reverses: `p` is destroyed before the call |
| `borrow_moved` | `let mut a; take(a) lend(a)` | `check_reference_arg` does not look at `move_state` |

A Ref parameter is destroyed by the callee it was lent to; the passing runs have value
parameters only.

### ViewBorrows: views and what they borrow

A body is first written, any of up to `MaxLength` elements, because the checker looks
ahead: a borrow is forgotten when the rest of the block does not mention its view. It
is then checked element by element (`CheckLet`, `CheckSet`, `CheckChange`,
`CheckLend`, `OpenArm`, `Else`, `OpenFor`, `End`, `Accept`), with `borrows` as
`ctx.view_borrows`, `Prune` as the pruning by later mentions and by deferred calls,
`Merge` as the union at a join, and a persistent borrow for the collection a `for`
goes over, which goes by the loop's own place in the body; an accepted body is run, with the storage of an owner as a number that every change
increases and a view as a reference to one such number. Owners are strings and
collections; "change" stands for assignment, move and every mutating method, each of
which may free the storage.

Excluded, each by a member of `Shapes`:

| Shape | Smallest body | What happens |
|---|---|---|
| `loop_carried` | `while c do use(v) change(a) set v = a.view end` | the body is checked once, from the borrows at its entry; the next round uses a view of freed storage (run `views_loop`). The shape is a borrow at a loop's end that its entry does not have, whose view the loop mentions or whose owner it changes or lends |
| `short_lived` | `let v; if c do let a; set v = a.view end use(v)` | the borrow is forgotten with the inner scope, `a` is destroyed, `v` stays |
| `lent` | `let v = a.view; lend(a); use(v)` | a Ref argument or a receiver may be changed while a view of it is live |

### Receivers: the receiver-write effect

Bodies are sets of what they do to receivers. `CheckBody` collects direct writes,
edges for calls on `self` and the calls to be judged; `Solve`, `Look` and `NextPass`
are the passes of `solve_receiver_writes`; `Judge` refuses a writing call on a root
that is not mutable. `Call`, `Perform` and `EndCall` run an accepted program:
`receiver_ptr` hands over the address of a mutable root and of a copy otherwise, so a
write under an immutable root spoils it. `Mutators` says whether methods may change
collections in fields of `self`: the code records no write for them.

### TypeTable: declarations, specialisations, tables, walks

A type is the sequence of its constructors, `<<"Box", "G", "Int">>`; replacing `T` is
a concatenation. `Write` and `Collect` choose a program; `CollectDeclaration`,
`ResolveField`, `FinishDeclaration` and `Freeze` are `types.rs`'s collection, with
specialisations made in the middle of each other on `stack`; `MentionType`,
`CallFunction`, `NextSignature`, `NextBody` and `FinishSpecialisation` are `check`'s
bodies and its work queue; a generic signature is resolved by the call, under the
caller's depth, and once more at depth 0 before the body is checked under the depth of
the request. `Accept` ends in emission or rejection. `Start`, `Descend` and `Ascend`
are the emitter's walk when it writes destruction code, equality code or a layout.
The two limits are `MaxDepth` and `MaxCount`, tested where the code tests them.

`collection_field` in `Shapes` admits fields that have a collection that owns
something and no box around it, or that name one for `T`. Without it the two decisions
about ownership agree.

### Lists, Sets, OrderedMap: collections

`Lists` has the block with its stale slots, the descriptor, any reallocation the
runtime can make, and who owns each element; it implements `Series`, a sequence.
`Sets` has the hash set, its vector and the descriptor; an insertion of a string
consumes it whether or not it is new. `OrderedMap` has the hash map, the key vector,
the descriptor's length and the emitted ownership code; it implements `Association`,
a list of entries with one entry per key, under
`entries <- [i |-> <<order[i], map[order[i]]>>]`. All three have iteration over a
copy of the descriptor, a failing operation that stops the program, and destruction
at the end of the scope.

Any operation may come between two elements of an iteration. The checker refuses an
operation that changes the collection by name in the body of a `for` over it
(`reject_live_view_source`), but asks for no live borrow where the collection is reached
through a Ref argument or by a method of its owner (`check_reference_arg` and
`check_method_call`, `calls.rs:1204-1374`): `for x in s.items do s.wipe() end` is
accepted, and `wipe` may clear `self.items`. This is the shape `lent` of `ViewBorrows`,
and it contradicts `LANGUAGE.md:360-361`, by which the body of such a loop "cannot
structurally mutate the iterated array or list". What is left to hold, and is checked:

* `LoopMeetsItsKeys`: a map's keys keep their index up to the first one that is
  removed. `loop.keys` is a history of the keys the loop has to meet; what is
  inserted or replaced meanwhile changes none of them. After a removal the loop may
  miss a key, or ask for an index the vector no longer has, which stops the program.
* `VisitReadsElements`: a list's iteration, which checks nothing, reads slots that are
  inside the block and were written, as long as the list is in the block it began with
  (`visit.room` is that block's capacity, which every later block exceeds). It may meet
  an element twice or one that has left the list; if the elements own something, that
  one may have been destroyed. After a reallocation, or the end of the list, the
  iteration reads freed memory: that is not modelled, and nothing is claimed of it.

`m[k] = v` on a map with `String` keys is excluded: the checker coerces the key to a
view and the runtime reads an owned string there, which is undefined behaviour.

### Workbench: admission and one run

`active` is `Shared.active`. Per connection: `stage` is the program counter of
`handle_connection` and `run_process`, `child`, `written`, `pipe` and `capture` the
process, its pipes and the two capture threads, `feeding` the stdin thread, `late`
the deadline. The child is external and arbitrary: it writes, reads, exits or hangs.
A read error ends a capture as an end of file does, and a `try_wait` error is
reported as failed-to-start, as in the code.

### ObjectCache: concurrent builds

One entry per source version, as the identity digest makes it; one action per file
operation, since each is where another build, a kill (`Interrupted`, `Exit`),
`Clean` or a power loss can come between. Objects of one version differ (`Objects`):
emission follows hash-map order. A refused rename (`RefusedObject`,
`RefusedManifest`) is tolerated when a file is there. `PowerLoss` needs every build
to be gone, which loses nothing, since every build can be killed at any step first;
it leaves any file as it was, torn or absent, because nothing is synced.

## 3. Runs

| Run | Question | Bounds | States, time |
|---|---|---|---|
| `scopes` | do scopes, branches, loops, breaks and returns keep each value with one owner? | locals a, b, parameter p; 8 elements | 2.8 M, 60 s |
| `defer` | deferred calls against moves, destruction, reassignment, loops, both exits of a fallible callable | a, b with 7 elements; a with loops and 8 elements | 2.7 M, 75 s |
| `callables` | do views stay valid, and immutable roots unchanged? | two owners, two views, 6 elements, 1 further round; three methods, 4 statements, 3 nested calls | 3.6 M, 65 s |
| `types` | does specialisation end with right tables, and does the emitter agree? | two declared types, G<T>, F<T>, whose signature may mention G<T> and a box of it; 3 written mentions; depth 2, count 3 | 320 k, 35 s |
| `collections` | every sequence of operations on a map, a list or a set, in a loop over it or not | 3 keys, 4 values; 3 elements, length 4, first capacity 2; 3 texts, 2 copies | 383 k, 45 s |
| `workbench` | two connections, arbitrary child, failures, deadline, limit | limit 1, pipe 2, input 2, output ≤ 2 | 260 k, 30 s |
| `cache` | two builds, two versions over one bridge, crashes | 2 builders, 2 sources, 2 objects each | 3.2 M, 40 s |

and five that exhibit a finding: `break_outer`, `views_loop`, `receivers`, `glue`,
`owners`.

*Why the bounds are enough.* `MaxClock` and `length` count parameters and elements,
the closing of a construct included. Eight elements hold a loop inside a branch with
a declaration, a move, a reassignment and an exit; every shape above needs at most
seven, and each mutant of the ownership rules is caught within the bounds. Loops
iterate without bound: only the program text is bounded. Two locals are what a
pairwise order or a disagreement needs; parameters differ from locals only in
`ParamOrder` and depth 0. Six elements with two views hold a construct, a view taken
before, inside and after it and a change between them; a second further round repeats
the first, since a round leaves only references and storage numbers behind. Three
methods have a cycle and a caller outside it. In `TypeTable` the limits of the code
are 128 and 4096; 2 and 3 are reached by the same steps. `Depths` up to 6 exceeds
the longest walk by value that does not repeat a type. A length of four with a first capacity of 2
reallocates in the middle of a shift. In `OrderedMap` three keys give a removal a
first, a middle and a last place, four values a replacement beside three stored ones.
In `Workbench` a limit of 1 with outputs of 0, 1 and 2 is below, at and above it, and
a pipe of 2 is filled by a program that writes and is not read. A third connection
adds only another refusal, and a third builder only another writer of the same two
files.

*Symmetry.* Locals a and b, the views, and the methods are interchangeable in the
runs with symmetry, which check invariants only.

*Deadlock* is checked where the system should not stop: an accepted body runs to its
return (`Finished` then stutters) in `scopes` and `defer`, and a build can always be
started in `cache`. Programs of `callables` and `types` are refused or come to their
end, collections are dropped and connections close, so those say
`CHECK_DEADLOCK FALSE`.

### The properties

* `NoUseAfterMove`, `NoDoubleDrop`, `NoLeak` — on every path of every accepted body.
* `AvailabilityIsSound` — what the checker believes available at a join holds a
  value on every path into it.
* `ReverseRegistration`, `DefersProcessedOnce` — order and multiplicity of deferred
  calls.
* `CleanupMatchesScopes` — drop entries and locals in scope correspond. With it
  `DeferredRootsOutliveCalls` and `RegistrationIsOrdered` are proved, which no run
  needs to repeat.
* `UsedViewsAreLive`, `IteratedStorageIsLive`, `BorrowsCoverReferences` — views: what
  is used is there, what is iterated stays, and the checker's list covers what the
  program's views point into.
* `ImmutableRootsAreKept`, `EffectIsLeast` — receivers.
* `LayoutIsFinite`, `TablesAreCurrent`, `OwnersAgree`, `EqualityIsSupported`,
  `CountIsExact`, `SpecialisationEnds` — types; `GlueIsFinite` is documented and
  violated.
* `OrderMatchesMap`, `OneOwner`, `LoopMeetsItsKeys`, `BehavesLikeAssociation` —
  maps; `BlockIsInitialised`, `OneElementOwner`, `VisitReadsElements`,
  `BehavesLikeSeries` — lists; `SequenceMatchesMembers` — sets.
* `OneRunAtATime`, `RunLeavesNothingBehind`, `OutputIsAccountedFor`,
  `StatusIsJustified`, `EveryRunEnds` — the workbench's report and its flag.
* `LinkedObjectIsCurrent`, `EntriesHeal` — the cache.

### Fairness

`TypeTable`: weak fairness of `Resolve`, the steps of the compiler between the
written program and its acceptance: a sequential program that is running takes its
next step. The emitter's walk is not covered, and need not end (`glue`).

`Workbench`: weak fairness of the server's threads (the operating system schedules
them; the polling loop sleeps 5 ms and comes back), of the feeding and capturing
threads, and of time. Nothing is assumed of the program, of the client or of failing
reads. The response's write is not covered: it happens with the flag held and without
a timeout, so a client that stops reading can keep every other run refused;
`EveryRunEnds` ends where the response is built. A program of the language starts no
process of its own, so the pipes close with it. `EveryRunEnds` assumes that compilation
ends, as a step of the server's thread. The code gives it no timeout, and run `glue`
shows a program the checker accepts and the emitter does not get to the end of: a
request with that program keeps the flag.

## 4. Proofs

Every theorem holds for all values of the constants that satisfy the module's named
assumptions. None uses an assumption besides those, except `RootsKept`,
`ViewsCorrect`, `EqualityCorrect`, `DecisionsAgree` and the two theorems of
`ExecutionProofs`, which say it in their statements. Two named assumptions say what the
code guarantees of its input: `RootsAssumption`, that the parameters of a callable have
different names (`check_duplicate_params`), and `TypesAssumption`, that a declared name
is none of the constructors or built-in types and that what is written as a type is
one, in which a generic function is called and is no part of a type; it also says that
walks are followed to each depth below one they are followed to.

`MoveCheckProofs!TypeCorrect`: `Spec => []TypeOK`, for any roots, parameters and
`MaxClock`. `TypeOK` is not inductive: closing a construct needs a frame below the
innermost one. `TypeInv` adds `FramesNested`: the blocks are nested in exactly one
body, and a frame's loop is one that encloses it. Each operator that builds entries,
instructions or frames has a typing lemma, and each action one lemma from those;
`StepType` combines them.

`MoveCheckProofs!ScopesCorrect`: `CleanupMatchesScopes`, `DeferredRootsOutliveCalls` and
`RegistrationIsOrdered` hold of every body of any length. `ScopeInv` adds what makes
them inductive: entries were registered before the present element by a scope that
is still open (`EntriesAreOpen`), and bindings are drop entries
(`BindingsAreDrops`). The proof first shows that every action does one of five
things to the scopes (`StepKinds`: keep, bind a local, defer a call, leave a block,
clear the region), then that each preserves the invariant; leaving a block relies on
`RegistrationIsOrdered` to see that no binding a remaining call mentions goes away.

`ExecutionProofs!MovesCorrect` and `DefersCorrect`: `NoUseAfterMove`, `NoDoubleDrop`,
`NoLeak`, `AvailabilityIsSound`, `ReverseRegistration` and `DefersProcessedOnce`, for any
roots and parameters, fallible or not, and bodies of any length and nesting, under
`Shapes = {}`: bodies without the eight shapes `Programs` names, as in the runs `scopes`
and `defer`. The hypothesis cannot be dropped: let a shape in, and TLC finds a body for
which a property fails (section 2; run `break_outer`). The proof relates three things, the checker's
state, the code emitted so far, and a run of the finished code:

* A *belief* (`Belief`) is what the checker knows at a point of the code: the roots that
  hold a value, the bindings in scope, the registered calls, and the class of an exit
  value on its way. `Follows` says what an instruction requires of the belief before it
  and leaves to the one after it; a cleanup requires, for instance, that no deferred
  call it will run needs a root that an entry it processes earlier takes. `Flow` says
  that a text has a belief for each of its points, with the beliefs its jumps leave and
  its labels are reached with, and the lemmas `Emits...` say what each piece the checker
  emits adds to one (`EmitsThen` puts two together).
* `Ghost` holds while a body is checked: the code so far flows to the checker's present
  state (`Current`, and `Nowhere` after a departure), and `Linked` ties open constructs to
  unplaced labels: each jump whose label is still to come is one an open chain or loop
  awaits, with what is held around that construct, the head of every open loop is
  placed with the loop's entry state, and a label has one belief. `CheckInv` collects what
  the steps need of the checker's state: types and scopes as above, that everything in
  scope or moved is declared (`NamesInv`), that a deferred move inside a block is of a
  root of that block (`CallsInv`), and how open frames are numbered, which loop they are
  in and that what lies inside dead code is dead (`FrameInv`). There is one lemma per
  action (`GhostLet` to `GhostEndIf`). The joins are where the shapes matter: `BalancedChain`
  and `BalancedLoop` make the state after the construct the one every path arrives with.
* An accepted body is `Lowered`: every jump has a label and agrees with it. `Executing` says
  of a run that it has what the belief of its point says, and in the middle of a
  cleanup what is left of it after the entries done so far (`Confirmed`). `ProgramInv` is `CheckInv`
  and `Ghost` until the verdict and `Executing` from then on; the six properties follow
  from what `Follows` requires.

The induction is over steps only: beliefs are added one emission at a time, so nothing
is shown by induction on the code, and how often a loop runs does not appear.

`CallableProofs!EffectCorrect`: `EffectIsLeast` for any set of methods, infinite ones
included. `SolveInv` carries it through the passes: the solution so far is below every
closed set, and the edges the present pass has left behind without a change are
satisfied. `CallableProofs!RootsKept`: `ImmutableRootsAreKept` under
`Mutators = FALSE`. `KeptInv` says that a body that was checked left its writes, edges
and calls in the tables, and that a frame under an immutable root runs a method the
solution does not contain; a call on `self` keeps that because the solution is closed.

`CallableProofs!ViewsCorrect`: `UsedViewsAreLive`, `IteratedStorageIsLive` and
`BorrowsCoverReferences`, for any owners and views and bodies of any length and nesting,
under `Shapes = {}` as in the run `callables`; run `views_loop` is what happens
otherwise. `ViewInv` has three parts:

* `TextOK`: the text is well nested. Every level is opened by a construct around the
  place and every construct that was opened is around it or has ended, a name is
  declared once, and an element mentions visible names only. All that the checker and the
  run look for in the text, ahead (`Remaining`, `Closing`) or behind (`Opener`,
  `Declaration`), follows from it; the first and last place of something are found by
  well-founded induction on numbers, not on the text.
* `CheckInv`: what was listed before each element follows from what was listed before the
  elements that lead to it (`FlowInto`: the next one, an arm's entry at an `else`, the
  join at an `end`); what is listed is a view's borrow of owners declared before it, or a `for`'s (`GoodBorrow`); the collection a `for` goes over is listed all through the
  loop (`LoopsListed`); and the open constructs keep their entry and the arms that ended
  (`JoinsKept`). Once a body is accepted this is a fact about the text, and the run uses
  nothing else of the checker.
* `RunInv`: a view that is visible and still *needed* points into storage that is good, and
  the checker knows of it. Needed means mentioned below, mentioned in a loop around the
  place that the view was declared outside of (so that a further round may use it), or
  used by a deferred call that is due (`Needed`). That the checker knows means that the
  borrow is listed here (`Direct`), or that it is listed at the end of a loop around the
  place that neither mentions the view nor changes or lends the owner (`Carried`: the
  borrow comes from an earlier round, and the body was checked without it). So a
  change that is accepted never hits storage a needed view points into (`LinkUnchanged`).
  The loops in progress are those around the place, each with its collection listed
  (`LoopsOK`), and while a block is cleaned up the same holds of the views
  declared before the entry that is due next.

The lemmas `Link...` follow a borrow along each edge of a run: to the next element, past an
arm or a loop, out of one, and back to the start of a round. Only the edge back makes
a borrow `Carried`, and that is where the shape `loop_carried` matters; `short_lived`
matters where a block ends and its owners are destroyed, `lent` where an owner is lent.
`CallablesAreBoth`: a behaviour of the run's specification `CallablesSpec` is one of
`ViewBorrows` and one of `Receivers`, so the theorems apply to it.

`CollectionProofs!MapCorrect`: `OrderMatchesMap` and `LoopMeetsItsKeys` for any
sets of keys and values. `MapInv` adds that the keys of the hash map are finitely many
and that the vector's length is their number, so that the number the runtime returns,
`Cardinality(DOMAIN map)`, is the vector's length; a step adds a key, removes one,
empties the store or keeps it (`StoreKinds`), and the lemmas `OrderedLists` and
`RetainedLists` say what the two changes of the vector preserve. A key that is added
leaves the others where they were, a removal those before its place, so the loop's
keys, cut there, are still the first of the vector.
`OwnersCorrect`: `OneOwner`. `SoleOwner` says it without counting: entries hold
different values, none held by the program or destroyed, and a value nobody owns was
destroyed once. Clearing and dropping need `MapInv`: the emitted loop destroys the
values at indices below the descriptor's length, which are all of them
(`StoredValues`). `MapImplementsAssociation`: each kind of step is a step of
`Association` on the entries or a stutter; a removal needs the equality of the
closed-up vector with the two parts of the list around the entry (`RemoveShown`).

`CollectionProofs!ListCorrect`: `BlockIsInitialised` and `VisitReadsElements`, by one lemma
per operation. The invariant adds that an iteration's block is not larger than the
list's, and that while it is as large it is the same: its slots are written, since
operations in place leave every slot they vacate with what it had. `ListKinds` then says what a step does to the elements below the
length (append, insert, remove, replace, empty, keep), whatever it does to the block;
`ElementsHaveOneOwner` (through `SoleHolder`) and `ListImplementsSeries` follow from
it and never look at a block again.

`CollectionProofs!SetCorrect`: `SequenceMatchesMembers`. `SetInv` says that the vector
enumerates the hash set (`Enumerates`), which is finite and as large as the vector is
long.
`CollectionsTypeCorrect`: `CollectionsTypeOK`, from the three invariants above, each of
which the other two stores leave alone.

`TypeTableProofs!TablesCorrect`: `TablesAreCurrent`, for any leaves and generic types.
`Forms` types the state and says what each frame of the stack is about, for types of
any depth; with it the property is preserved by every step (`TablesStep`): a definition
completed under another leaves the stack non-empty, and the last one refreshes both
tables. `CountCorrect`: `CountIsExact`, from `CountInv`: no function is specialised and
the structs are within the limit while declarations are collected, and from then on the
counter is the number of both. `LayoutCorrect`: `LayoutIsFinite`.
The searches (`Found`) are recursive functions, so what they find is shown by induction
on a set of numbers that has a least element (`Least`, `Induction`): the types found at
each depth form the table's `Layers`, which reach down to every depth that is followed
(`LayersExist`), and only one at each (`LayersAgree`), even where walks are followed to
any depth (`Depths = Nat`). If the search for cycles finds none, no type leads to
itself. `CycleInv` keeps that from the check on, and `WalkInv` says of the emitter's walk
that what is on its stack leads from one to the next, so no type is on it twice.
`TypesCorrect`: `TypesTypeOK`.

`TypeTableProofs!EqualityCorrect` and `DecisionsAgree`: `EqualityIsSupported` and
`OwnersAgree`, for any declarations, templates and bodies, under `Shapes = {}` as in the
run `types`; run `owners` is what happens otherwise. Both rest on `PlainInv`: no type in
a declaration, a body, the table, the stack or the queue is a collection that owns, or
has one that no box hides. Substituting for `T` keeps that, and so do taking a
specialisation out of a type that mentions it (`PlainApplications`) and taking the type
behind a constructor (`PlainTail`); a box hides only what is inside of it, so that
`G<Box<List<Int>>>` is plain and the body of `G` sees a box. Then `EqualInv` says that a
comparison has got, in n steps, to a type the table looked into n steps from the type it
admitted, or to the `Int` of an array: the table would have found the box. For
`OwnersAgree`, a walk that is followed to any depth finds the least set that has the
type and all that is in what it has (`TableClosed`, `EmitterClosed`). By that, the
emitter finds what the table found and the elements of arrays, which own nothing
(`FoundAlike`), and in a sum whatever is found in its member (`FoundInSum`), which is how
`is_move_only` reads the table; that the member is no sum itself is `NilOnce`. The
hypothesis `Depths = Nat` is needed there: a walk cut off at a depth would find less in
the sum than in its member.

`WorkbenchProofs`: `WorkbenchTypeCorrect`; `AdmissionCorrect`, for any number of
connections; `ReportsCorrect`: `RunLeavesNothingBehind`, `OutputIsAccountedFor` and
`StatusIsJustified`. A step concerns one connection (`OthersAreLeft`), so `ConnInv` is
shown of the one that moves: what the stage says of the child, of the threads and of
every byte written (`RunInv`, `StreamInv`), and what each status rests on
(`StatusInv`).

`ObjectCacheProofs`: `CacheTypeCorrect`; `CacheCorrect`: `LinkedObjectIsCurrent` and
`EntriesHeal`, for any builds, versions and bridges. `FilesInv`: a file at a version's
path is of that version or torn. `BuildInv` says what a build relies on at each step;
another build's step only replaces a file it relies on by a whole one, or leaves it
(`FilesGrow`), a removal marks every running build as disturbed, and a power loss finds no
build running.

Only model-checked, being out of the prover's reach: `EveryRunEnds` and
`SpecialisationEnds` (fairness, ENABLED), and whatever needs induction over data. Every
invariant of a passing run is a theorem.

## 5. Findings

Five runs exhibit a disagreement between the code and a sentence of its
documentation or comments; `PROJECT.json` quotes each:

* `break_outer`: a break destroys roots outside the loop;
* `views_loop`: a view carried into a loop's next round is used after its owner
  changed;
* `receivers`: a method that pushes to a list in a field of `self` counts as one that
  does not write;
* `glue`: destruction (and equality) code of a type that is recursive through a box
  is written inside itself, without end;
* `owners`: a struct with a collection field is copyable to the checker and destroyed
  by the emitter.

The other shapes of section 2 are reproducible in the same way. Also seen while
modelling, without a run:

* `equality_support` (`types.rs:1169`) grants equality to a struct with a field that is
  a map, a set or a list of boxes, which `equal` has no code for;
* collections end the edges of the layout check, so a struct with an array of itself
  is accepted, and the emitter's `is_move_only` follows arrays without end; the
  comparison of a struct with a list of itself is written without end too. The shape
  `collection_field` of `TypeTable` lets such fields in;
* the cache's assertion file is rendered only when absent (`bridge.rs:259-268`),
  although the rendered text says it is regenerated on every build
  (`bridge.rs:177`); `EntriesHeal` names the one failure that follows;
* `run` executes the program at a path concurrent builds share (`build.rs:88-104`);
* a `try_wait` error reports failed-to-start for a program that has started
  (`run.rs:202`);
* a `for` over a temporary collection never destroys the temporary
  (`llvm/lower/stmt.rs:503`);
* bodies rejected without need: a body-local root moved in a loop body, and
  error-only deferred calls validated where a block falls through.

## 6. Not modelled, and what is next

Not modelled for good: lexer, parser, diagnostics, symbols, text of every kind (pure
functions the repository's cases test), the driver and the remaining commands
(sequential I/O), HTTP parsing (one connection's own bytes), strings and views as
bytes.

What could still be added, in this order:

1. `MoveCheck`: partial places (a field moved out of a struct), value-form `if`,
   type-test chains and exhaustiveness, several roots per element.
2. Equality of collections as a computation (`equal_collection`), and bridge
   signatures in `TypeTable`.
3. A client that stops reading, with the write timeout the workbench would need.
