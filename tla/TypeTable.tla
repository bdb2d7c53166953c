----------------------------- MODULE TypeTable -----------------------------
(***************************************************************************)
(* Nominal types, from their declarations to the code emitted for them:    *)
(* declaration collection (types.rs), the specialisation of a generic      *)
(* struct G<T> and of a generic function F<T> (checker/program.rs,         *)
(* checker/calls.rs, checker/mod.rs), the two tables the checker keeps of  *)
(* every nominal type (moves only, supports equality), and the walks the   *)
(* emitter makes over a type when it writes the code that drops a value of *)
(* it or compares two (llvm/lower/cleanup.rs, llvm/lower/equality.rs).     *)
(*                                                                         *)
(* Every constructor has one argument that matters here, so a type is the  *)
(* sequence of its constructors ending in a leaf: <<"Box", "G", "Int">> is *)
(* Box<G<Int>>, <<"OrNil", n>> the inline sum n | Nil, <<"Map", n>> a map  *)
(* from a scalar to n, and replacing T is a concatenation.  A declared     *)
(* type stands for its fields as a set; a union is the struct whose fields *)
(* have the types of its members, a represented type one of a single field.*)
(***************************************************************************)
EXTENDS Naturals, FiniteSets, Sequences, SequencesExt

CONSTANTS
  Names,        \* the declared types that are not generic
  FieldTypes,   \* what a field of one may be written as
  Templates,    \* what a field of G<T> may be written as
  Signatures,   \* what the parameters and the result of F<T> may be written as
  Bodies,       \* what the body of F<T> may mention
  Mains,        \* what the body of the program may mention
  Shapes,       \* "collection_field": fields may be collections that own
  MaxWritten,   \* bound: fields and mentions in a program
  MaxDepth,     \* MAX_SPECIALIZATION_DEPTH
  MaxCount,     \* MAX_SPECIALIZATIONS
  Depths        \* bound: how deep a walk over a type is followed, 0 to some
                \* number, or Nat for any depth

VARIABLES
  source,     \* what is written in each declaration and body
  phase,      \* "write", "collect", "check", then "emit" or "rejected"
  todo,       \* the declarations, or the mentions of a body, not yet resolved
  defs,       \* Types::defs, with the specialisations by their type
  stack,      \* generic_stack / generic_type_stack with the fields to resolve
  moveOnly,   \* Types::move_only
  equality,   \* Types::equality
  count,      \* specialization_count
  queue,      \* generic_queue: [of, depth, signed], signed once the signature
              \* is resolved
  seen,       \* generic_seen
  depth,      \* generic_depth
  errors,     \* the kinds of error reported
  glue, walk  \* the code being emitted and the types it is inside of

declared == <<source, phase, todo>>
tables == <<defs, moveOnly, equality>>
requests == <<count, queue, seen, depth>>
emitted == <<glue, walk>>
vars == <<declared, tables, stack, requests, errors, emitted>>

----------------------------------------------------------------------------
Leaves == Names \cup {"Int", "String", "T"}
Wraps  == {"Box", "OrNil", "Array", "List", "Map", "Set", "G", "F"}

\* A type: constructors, then a leaf.
IsType(t) ==
  /\ t \in Seq(Wraps \cup Leaves) /\ t # <<>>
  /\ \A i \in DOMAIN t : t[i] \in Leaves <=> i = Len(t)

ASSUME TypesAssumption ==
  /\ Names \cap ({"Int", "String", "T", "Signature", "Main"} \cup Wraps) = {}
  /\ \A t \in FieldTypes \cup Templates \cup Signatures \cup Bodies \cup Mains : IsType(t)
  \* A function is called, and is no part of a type.
  /\ \A t \in FieldTypes \cup Templates \cup Signatures : \A i \in DOMAIN t : t[i] # "F"
  /\ \A t \in Bodies \cup Mains : \A i \in DOMAIN t : t[i] = "F" => i = 1
  /\ MaxDepth \in Nat /\ MaxCount \in Nat
  /\ Depths \subseteq Nat /\ 0 \in Depths /\ \A n \in Depths : 0..n \subseteq Depths

Declarations == Names \cup {"G", "Signature", "F", "Main"}
IsNominal(t) == Head(t) \in Names \cup {"G"}
Specialised(d) == {t \in DOMAIN d : Head(t) = "G"}

\* The written type with the argument in the place of T.
Substitute(t, arg) == IF Last(t) = "T" THEN Front(t) \o arg ELSE t

\* The specialisation of G a resolved type asks for, as a set of at most one.
Applications(t) == {SubSeq(t, i, Len(t)) : i \in {j \in DOMAIN t : t[j] = "G"}}

\* A sum that has Nil twice once the sum given for T is flattened into it.
RepeatsNil(t) ==
  \E i \in 1..(Len(t) - 1) : t[i] = "OrNil" /\ t[i + 1] = "OrNil"

\* The types by value in a field, box and collection ending the edge.
Bare(t) == IF Head(t) = "OrNil" THEN Tail(t) ELSE t
Contained(d, id) == {Bare(f) : f \in d[id]} \cap DOMAIN d

\* What the checker's two tables look into, and what the emitter looks into.
TableParts(d, t) ==
  IF t \in DOMAIN d THEN d[t] ELSE IF Head(t) = "OrNil" THEN {Tail(t)} ELSE {}
EmitterParts(d, t) ==
  IF Head(t) = "Array" THEN {Tail(t)} ELSE TableParts(d, t)

\* The types found from a set of them by looking into one after another.
Found(from, Parts(_)) ==
  LET found[i \in Depths] ==
        IF i = 0 THEN from
        ELSE LET before == found[i - 1] IN before \cup UNION {Parts(t) : t \in before}
  IN  UNION {found[i] : i \in Depths}

\* A cycle of the by-value graph through one of these types.
HasCycle(d, from) ==
  LET Edges(t) == Contained(d, t)
  IN  \E t \in Found(from, Edges) : t \in Found(Edges(t), Edges)

\* Mutations: strings forgotten, and sums not looked into.
MoveOnlyBoxes(d) ==
  LET Parts(t) == TableParts(d, t)
  IN  [id \in DOMAIN d |-> \E t \in Found({id}, Parts) : Head(t) = "Box"]
EqualityOfFields(d) ==
  LET Parts(t) == IF t \in DOMAIN d THEN d[t] ELSE {}
  IN  [id \in DOMAIN d |-> \A t \in Found({id}, Parts) : Head(t) # "Box"]

\* move_only_support and equality_support, for every type of the table.
MoveOnlySupport(d) ==
  LET Parts(t) == TableParts(d, t)
  IN  [id \in DOMAIN d |->
         \E t \in Found({id}, Parts) : Head(t) \in {"Box", "String"}]
EqualitySupport(d) ==
  LET Parts(t) == TableParts(d, t)
  IN  [id \in DOMAIN d |-> \A t \in Found({id}, Parts) : Head(t) # "Box"]

\* Types::is_move_only, which looks through sums and arrays into its table.
IsMoveOnly(t) ==
  \E i \in DOMAIN t :
    /\ t[i] \notin {"OrNil", "Array"} /\ \A j \in 1..(i - 1) : t[j] \in {"OrNil", "Array"}
    /\ LET elem == SubSeq(t, i, Len(t))
       IN  IF elem \in DOMAIN moveOnly
             THEN moveOnly[elem]
             ELSE Head(elem) \in {"Box", "String", "List", "Map", "Set"}

\* is_move_only of the emitter, from the definitions alone.
EmitterMoveOnly(t) ==
  LET Parts(u) == EmitterParts(defs, u)
  IN  \E u \in Found({t}, Parts) :
        Head(u) \in {"Box", "String", "List", "Map", "Set"}

----------------------------------------------------------------------------
(***************************************************************************)
(* The program text.                                                       *)
(***************************************************************************)
Written(o) ==
  CASE o = "G" -> Templates
    [] o = "Signature" -> Signatures
    [] o = "F" -> Bodies
    [] o = "Main" -> Mains
    [] OTHER -> FieldTypes

\* A field the two tables read wrongly: they stop at a collection, whatever
\* it owns.  A field of that type, or one that has it for T, and not in a box.
OwningCollection(t) ==
  \E i \in DOMAIN t :
    /\ t[i] \in {"List", "Map", "Set"} \/ (t[i] = "Array" /\ t[i + 1] # "Int")
    /\ \A j \in 1..(i - 1) : t[j] = "Box" => \E k \in (j + 1)..(i - 1) : t[k] = "G"

Write(o) ==
  /\ phase = "write"
  /\ \E t \in Written(o) \ source[o] :
       /\ OwningCollection(t) => "collection_field" \in Shapes
       /\ source' = [source EXCEPT ![o] = @ \cup {t}]
  /\ LET Length(n) == Cardinality(source[n])
     IN  FoldSet(LAMBDA n, sum : sum + Length(n), 0, Declarations) < MaxWritten
  /\ UNCHANGED <<phase, todo, tables, stack, requests, errors, emitted>>

\* The end of the text: the names of all declarations are known from here on.
Collect ==
  /\ phase = "write"
  /\ phase' = "collect"
  /\ todo' = {<<n>> : n \in Names}
  /\ UNCHANGED <<source, tables, stack, requests, errors, emitted>>

----------------------------------------------------------------------------
(***************************************************************************)
(* Resolution of the fields of a declaration or of a specialisation.  The  *)
(* frame of a declaration is not on the code's own stack.                  *)
(***************************************************************************)
Frame(id) ==
  [id |-> id,
   left |-> IF Head(id) = "G"
              THEN {Substitute(t, Tail(id)) : t \in source["G"]}
              ELSE source[Head(id)],
   found |-> {}]

InProgress == {i \in DOMAIN stack : Head(stack[i].id) = "G"}

AtDepth == depth + Cardinality(InProgress) >= MaxDepth
AtCount == IF phase = "collect" THEN Cardinality(Specialised(defs)) >= MaxCount
                                ELSE count >= MaxCount

\* resolve_apply while collecting, instantiate_generic_type while checking:
\* a type id is reserved, with no fields yet, before its fields are resolved.
Reserve(id) ==
  /\ defs' = [t \in DOMAIN defs \cup {id} |-> IF t = id THEN {} ELSE defs[t]]
  /\ stack' = Append(stack, Frame(id))
  /\ IF phase = "collect"
       THEN UNCHANGED <<moveOnly, equality, count>>
       ELSE /\ moveOnly' = [t \in DOMAIN defs' |-> t # id /\ moveOnly[t]]
            /\ equality' = [t \in DOMAIN defs' |-> t # id /\ equality[t]]
            /\ count' = count + 1

CollectDeclaration ==
  /\ phase = "collect" /\ stack = <<>>
  /\ \E id \in todo :
       /\ todo' = todo \ {id}
       /\ stack' = <<Frame(id)>>
  /\ UNCHANGED <<source, phase, tables, requests, errors, emitted>>

ResolveField ==
  /\ stack # <<>>
  /\ LET top == Len(stack) IN \E t \in stack[top].left :
       LET new == Applications(t) \ DOMAIN defs
           failed == (IF RepeatsNil(t) THEN {"repeated"} ELSE {}) \cup
                     (IF new = {} THEN {}
                      ELSE IF AtDepth THEN {"depth"}
                      ELSE IF AtCount THEN {"count"} ELSE {})
       IN  IF failed # {}
             THEN /\ errors' = errors \cup failed
                  /\ stack' = [stack EXCEPT ![top].left = @ \ {t}]
                  /\ UNCHANGED <<tables, count>>
             ELSE /\ errors' = errors
                  /\ IF new = {}
                       THEN /\ stack' = [stack EXCEPT ![top].left = @ \ {t},
                                                      ![top].found = @ \cup {t}]
                            /\ UNCHANGED <<tables, count>>
                       ELSE \E id \in new : Reserve(id)
  /\ UNCHANGED <<declared, queue, seen, depth, emitted>>

\* The fields of a declaration are all resolved while collecting.
FinishDeclaration ==
  /\ phase = "collect" /\ stack # <<>>
  /\ LET top == Last(stack)
     IN  /\ top.left = {}
         /\ defs' = [t \in DOMAIN defs \cup {top.id} |->
                       IF t = top.id THEN top.found ELSE defs[t]]
  /\ stack' = Front(stack)
  /\ UNCHANGED <<declared, moveOnly, equality, requests, errors, emitted>>

\* Mutation: the specialisations the declarations made are not counted.
FreezeUncounted ==
  /\ phase = "collect" /\ stack = <<>> /\ todo = {}
  /\ errors' = errors \cup (IF HasCycle(defs, DOMAIN defs) THEN {"layout"} ELSE {})
  /\ moveOnly' = MoveOnlySupport(defs) /\ equality' = EqualitySupport(defs)
  /\ count' = 0
  /\ phase' = "check" /\ todo' = source["Main"]
  /\ UNCHANGED <<source, defs, stack, queue, seen, depth, emitted>>

\* collect's end: the layout is checked and the tables are computed.
Freeze ==
  /\ phase = "collect" /\ stack = <<>> /\ todo = {}
  /\ IF HasCycle(defs, DOMAIN defs)
       THEN /\ errors' = errors \cup {"layout"}
            /\ moveOnly' = [t \in DOMAIN defs |-> TRUE]
            /\ equality' = [t \in DOMAIN defs |-> FALSE]
       ELSE /\ errors' = errors
            /\ moveOnly' = MoveOnlySupport(defs)
            /\ equality' = EqualitySupport(defs)
  /\ count' = Cardinality(Specialised(defs))
  /\ phase' = "check"
  /\ todo' = source["Main"]
  /\ UNCHANGED <<source, defs, stack, queue, seen, depth, emitted>>

----------------------------------------------------------------------------
(***************************************************************************)
(* Checking bodies: a mention of G<t> specialises the struct at once.  A   *)
(* call of F<t> resolves t and the signature of F<t> and puts the function *)
(* in the queue; its turn come, the signature is resolved once more.       *)
(***************************************************************************)
MentionType ==
  /\ phase = "check" /\ stack = <<>>
  /\ \E t \in todo :
       LET new == Applications(t) \ DOMAIN defs
       IN  /\ Head(t) # "F"
           /\ todo' = todo \ {t}
           /\ IF new = {} \/ AtDepth \/ AtCount
                THEN /\ errors' = errors \cup (IF new = {} THEN {} ELSE {"limit"})
                     /\ UNCHANGED <<tables, stack, count>>
                ELSE /\ errors' = errors
                     /\ \E id \in new : Reserve(id)
  /\ UNCHANGED <<source, phase, queue, seen, depth, emitted>>

Signature(arg) == {Substitute(t, arg) : t \in source["Signature"]}

CallFunction ==
  /\ phase = "check" /\ stack = <<>>
  /\ \E t \in todo :
       /\ Head(t) = "F"
       /\ todo' = (todo \ {t}) \cup {Tail(t)} \cup Signature(Tail(t))
       /\ IF t \in seen
            THEN UNCHANGED <<queue, seen, count, errors>>
            ELSE IF depth >= MaxDepth \/ count >= MaxCount
            THEN /\ errors' = errors \cup {"limit"}
                 /\ UNCHANGED <<queue, seen, count>>
            ELSE /\ seen' = seen \cup {t}
                 /\ count' = count + 1
                 /\ queue' = Append(queue, [of |-> t, depth |-> depth + 1, signed |-> FALSE])
                 /\ errors' = errors
  /\ UNCHANGED <<source, phase, tables, stack, depth, emitted>>

\* Mutations: the cycle check before the fields are there, and no refresh.
FinishUnseen ==
  /\ phase = "check" /\ stack # <<>>
  /\ Last(stack).left = {}
  /\ defs' = [defs EXCEPT ![Last(stack).id] = Last(stack).found]
  /\ errors' = errors \cup (IF HasCycle(defs, {Last(stack).id}) THEN {"layout"} ELSE {})
  /\ moveOnly' = MoveOnlySupport(defs') /\ equality' = EqualitySupport(defs')
  /\ stack' = Front(stack)
  /\ UNCHANGED <<declared, requests, emitted>>
FinishStale ==
  /\ phase = "check" /\ stack # <<>>
  /\ Last(stack).left = {}
  /\ defs' = [defs EXCEPT ![Last(stack).id] = Last(stack).found]
  /\ errors' = errors \cup (IF HasCycle(defs', {Last(stack).id}) THEN {"layout"} ELSE {})
  /\ stack' = Front(stack)
  /\ UNCHANGED <<declared, moveOnly, equality, requests, emitted>>

\* finish_generic_struct, the cycle check from the new type and, when there is
\* no cycle, refresh_generic_properties.
FinishSpecialisation ==
  /\ phase = "check" /\ stack # <<>>
  /\ LET top == Last(stack)
     IN  /\ top.left = {}
         /\ defs' = [defs EXCEPT ![top.id] = top.found]
         /\ IF HasCycle(defs', {top.id})
              THEN /\ errors' = errors \cup {"layout"}
                   /\ UNCHANGED <<moveOnly, equality>>
              ELSE /\ errors' = errors
                   /\ moveOnly' = MoveOnlySupport(defs')
                   /\ equality' = EqualitySupport(defs')
  /\ stack' = Front(stack)
  /\ UNCHANGED <<declared, requests, emitted>>

\* The work queue of `check`: the next signature, at no depth, ...
NextSignature ==
  /\ phase = "check" /\ stack = <<>> /\ todo = {} /\ queue # <<>> /\ ~Head(queue).signed
  /\ todo' = Signature(Tail(Head(queue).of))
  /\ depth' = 0
  /\ queue' = [queue EXCEPT ![1].signed = TRUE]
  /\ UNCHANGED <<source, phase, tables, stack, count, seen, errors, emitted>>

\* Mutation: the request stays in the queue.
NextBodyAgain ==
  /\ phase = "check" /\ stack = <<>> /\ todo = {} /\ queue # <<>> /\ Head(queue).signed
  /\ todo' = {Substitute(t, Tail(Head(queue).of)) : t \in source["F"]}
  /\ depth' = Head(queue).depth
  /\ UNCHANGED <<source, phase, queue, tables, stack, count, seen, errors, emitted>>

\* ... and its body, under the depth of the request.
NextBody ==
  /\ phase = "check" /\ stack = <<>> /\ todo = {} /\ queue # <<>> /\ Head(queue).signed
  /\ LET request == Head(queue)
     IN  /\ todo' = {Substitute(t, Tail(request.of)) : t \in source["F"]}
         /\ depth' = request.depth
  /\ queue' = Tail(queue)
  /\ UNCHANGED <<source, phase, tables, stack, count, seen, errors, emitted>>

Accept ==
  /\ phase = "check" /\ stack = <<>> /\ todo = {} /\ queue = <<>>
  /\ phase' = IF errors = {} THEN "emit" ELSE "rejected"
  /\ UNCHANGED <<source, todo, tables, stack, requests, errors, emitted>>

----------------------------------------------------------------------------
(***************************************************************************)
(* Emission.  drop_value and equal write their code in place: the code of  *)
(* a part is written inside the code of the whole.                         *)
(***************************************************************************)
DropParts(t) ==
  LET inside == IF t \in DOMAIN defs THEN defs[t]
                ELSE IF Head(t) \in {"Box", "OrNil", "Array", "List", "Map"}
                       THEN {Tail(t)} ELSE {}
  IN  {part \in inside : EmitterMoveOnly(part)}

EqualParts(t) ==
  IF t \in DOMAIN defs THEN defs[t]
  ELSE IF Head(t) \in {"OrNil", "Array", "List"} THEN {Tail(t)} ELSE {}

\* build_layout resolves every nominal type and sum a type has by value first.
LayoutParts(t) ==
  {part \in TableParts(defs, t) : part \in DOMAIN defs \/ Head(part) = "OrNil"}

\* Every type is laid out; a local of it goes out of scope; two values of it
\* are compared.
Start ==
  /\ phase = "emit" /\ walk = <<>>
  /\ \E t \in DOMAIN defs :
       /\ walk' = <<t>>
       /\ \/ glue' = "layout"
          \/ glue' = "drop" /\ moveOnly[t]
          \/ glue' = "equal" /\ equality[t]
  /\ UNCHANGED <<declared, tables, stack, requests, errors>>

Descend ==
  /\ walk # <<>> /\ Len(walk) + 1 \in Depths
  /\ \E part \in (CASE glue = "layout" -> LayoutParts(Last(walk))
                      [] glue = "drop"   -> DropParts(Last(walk))
                      [] glue = "equal"  -> EqualParts(Last(walk))) :
       walk' = Append(walk, part)
  /\ UNCHANGED <<declared, tables, stack, requests, errors, glue>>

Ascend ==
  /\ walk # <<>>
  /\ walk' = Front(walk)
  /\ UNCHANGED <<declared, tables, stack, requests, errors, glue>>

----------------------------------------------------------------------------
Init ==
  /\ source = [o \in Declarations |-> {}]
  /\ phase = "write"
  /\ todo = {}
  /\ defs = <<>> /\ moveOnly = <<>> /\ equality = <<>>
  /\ stack = <<>>
  /\ count = 0 /\ queue = <<>> /\ seen = {} /\ depth = 0
  /\ errors = {}
  /\ glue = "drop" /\ walk = <<>>

Resolve ==
  \/ Collect \/ CollectDeclaration \/ ResolveField \/ FinishDeclaration \/ Freeze
  \/ MentionType \/ CallFunction \/ FinishSpecialisation
  \/ NextSignature \/ NextBody \/ Accept

Next ==
  \/ \E o \in Declarations : Write(o)
  \/ Resolve
  \/ Start \/ Descend \/ Ascend

\* The compiler runs on: only the text is not bound to be written.
Spec == Init /\ [][Next]_vars /\ WF_vars(Resolve)

----------------------------------------------------------------------------
(***************************************************************************)
(* Properties.                                                             *)
(***************************************************************************)

\* The tables have an entry for every type they are asked about, and the code
\* is where its phase says.
TypesTypeOK ==
  /\ phase \in {"write", "collect", "check", "emit", "rejected"}
  /\ source \in [Declarations ->
                 SUBSET (FieldTypes \cup Templates \cup Signatures \cup Bodies \cup Mains)]
  /\ \A id \in DOMAIN defs : IsNominal(id)
  /\ phase \in {"check", "emit"} =>
       DOMAIN moveOnly = DOMAIN defs /\ DOMAIN equality = DOMAIN defs
  /\ phase \in {"write", "emit", "rejected"} => stack = <<>>
  /\ walk # <<>> => phase = "emit" /\ Head(walk) \in DOMAIN defs
  /\ errors \subseteq {"repeated", "depth", "count", "limit", "layout"}

\* An accepted program has no type that contains itself by value, whichever
\* specialisation was made in the middle of which other: build_layout lays
\* every type out after its parts (llvm/types.rs, `resolve`) and fails on one
\* it is inside of.  The specialisation in progress has no fields yet, so the
\* check made at the end of an inner one cannot see the cycle.
LayoutIsFinite ==
  glue = "layout" => \A i, j \in DOMAIN walk : walk[i] = walk[j] => i = j

\* Between two bodies of a program without error the tables say of every type,
\* the ones specialised on the way included, what its definition says now: a
\* specialisation is entered with FALSE in both until the outermost is done.
TablesAreCurrent ==
  phase \in {"check", "emit"} /\ stack = <<>> /\ errors = {} =>
    moveOnly = MoveOnlySupport(defs) /\ equality = EqualitySupport(defs)

\* A type whose values the checker moves is one whose values the emitter drops,
\* and no other: "Mirrors `Types::is_move_only`" (llvm/lower/mod.rs:738).
OwnersAgree ==
  phase = "emit" =>
    \A t \in DOMAIN defs \cup UNION {defs[id] : id \in DOMAIN defs} :
      IsMoveOnly(t) <=> EmitterMoveOnly(t)

\* Comparing two values never gets to a box, a map or a set, which `equal` has
\* no code for: the checker's table refused the type that contains one.
EqualityIsSupported ==
  glue = "equal" =>
    \A i \in DOMAIN walk : Head(walk[i]) \notin {"Box", "Map", "Set"}

\* The code of a type is not written inside itself, so writing it ends:
\* recursive layouts may cross a box (LANGUAGE.md:401) and all remaining owners
\* are destroyed on scope exit (LANGUAGE.md:430).
GlueIsFinite ==
  glue # "layout" => \A i, j \in DOMAIN walk : walk[i] = walk[j] => i = j

\* The count that the limit is tested against is the number of specialisations
\* there are, those the declarations made included.
CountIsExact ==
  phase \in {"check", "emit", "rejected"} =>
    count = Cardinality(Specialised(defs)) + Cardinality(seen) /\ count <= MaxCount

\* A chain of specialisations that each ask for another one comes to an end,
\* with the program accepted or refused: the limits on their depth and number
\* are tested wherever one is made.
SpecialisationEnds ==
  (phase # "write") ~> (phase \in {"emit", "rejected"})

=============================================================================
