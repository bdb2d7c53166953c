-------------------------- MODULE MoveCheckProofs --------------------------
(***************************************************************************)
(* Theorems about MoveCheck, for every set of roots, every parameter list  *)
(* and bodies of any length.                                               *)
(***************************************************************************)
EXTENDS MoveCheck, TLAPS

\* The blocks being checked are nested in exactly one body.
FramesNested ==
    verdict = "checking" =>
        /\ Depth >= 1
        /\ \A i \in 1..Depth :
              /\ frames[i].kind = "body" <=> i = 1
              /\ frames[i].loop <= i

TypeInv == TypeOK /\ FramesNested

\* The operators that build entries, instructions and frames build what their
\* names say.
LEMMA DropOfType ==
    ASSUME NEW r \in Roots, NEW d \in Nat, NEW o \in Nat
    PROVE  DropOf(r, d, o) \in Entry
  BY DEF DropOf, Entry

LEMMA DoType ==
    ASSUME NEW op \in {"store", "take", "use", "borrow", "drop"}, NEW r \in Roots
    PROVE  Do(op, r) \in Seq(Instr)
<1>1. [op |-> op, root |-> r] \in Instr
  BY DEF Instr
<1> QED
  BY <1>1 DEF Do

LEMMA ArmType ==
    ASSUME NEW e \in Entry
    PROVE  Arm(e) \in Seq(Instr)
<1>1. [op |-> "arm", entry |-> e] \in Instr
  BY DEF Instr
<1> QED
  BY <1>1 DEF Arm

LEMMA LabelType ==
    ASSUME NEW i \in Nat, NEW part \in {"head", "next", "exit"}
    PROVE  Label(i, part) \in LabelName
  BY DEF Label, LabelName

LEMMA JumpType ==
    ASSUME NEW op \in {"branch", "goto"}, NEW l \in LabelName
    PROVE  Jump(op, l) \in Seq(Instr)
<1>1. [op |-> op, to |-> l, avail |-> {}] \in Instr
  BY DEF Instr
<1> QED
  BY <1>1 DEF Jump

LEMMA PlaceType ==
    ASSUME NEW l \in LabelName, NEW A \in SUBSET Roots
    PROVE  Place(l, A) \in Seq(Instr)
<1>1. [op |-> "label", to |-> l, avail |-> A] \in Instr
  BY DEF Instr
<1> QED
  BY <1>1 DEF Place

LEMMA ResultType ==
    ASSUME NEW class \in ExitClass
    PROVE  Result(class) \in Seq(Instr)
<1>1. [op |-> "result", class |-> class] \in Instr
  BY DEF Instr
<1> QED
  BY <1>1 DEF Result

LEMMA CleanType ==
    ASSUME NEW f \in SUBSET Entry, NEW plan \in SUBSET Entry
    PROVE  Clean(f, plan) \in Seq(Instr)
<1>1. [op |-> "cleanup", first |-> f, plan |-> plan] \in Instr
  BY DEF Instr
<1> QED
  BY <1>1 DEF Clean

LEMMA RetType == Ret \in Seq(Instr)
<1>1. [op |-> "ret"] \in Instr
  BY DEF Instr
<1> QED
  BY <1>1 DEF Ret

LEMMA TakeOfType ==
    ASSUME NEW s \in MaybeRoot
    PROVE  TakeOf(s) \in Seq(Instr)
<1>1. CASE s = None
  BY <1>1 DEF TakeOf
<1>2. CASE s # None
  BY <1>2, DoType DEF TakeOf, MaybeRoot
<1> QED
  BY <1>1, <1>2

----------------------------------------------------------------------------
(* What the state-dependent operators return in a typed state.              *)

LEMMA PlanTypes ==
    ASSUME TypeOK, NEW d \in Int, NEW m \in SUBSET Roots
    PROVE  /\ Registered(d, m) \in SUBSET Entry
           /\ Unregistered(d, m) \in SUBSET Entry
           /\ ComputeDrops(m) \in SUBSET Entry
           /\ Outer(d, env) \in SUBSET Entry
           /\ Outer(d, cleanup) \in SUBSET Entry
  BY DEF TypeOK, Registered, Unregistered, ComputeDrops, Outer

LEMMA RootTypes ==
    ASSUME TypeOK
    PROVE  /\ InScope \in SUBSET Roots
           /\ \A d \in Int : {b.root : b \in Outer(d, env)} \in SUBSET Roots
           /\ \A s \in MaybeRoot : Taken(s) \in SUBSET Roots
           /\ InScope \cup {None} \in SUBSET MaybeRoot
  BY DEF TypeOK, InScope, Outer, Entry, Taken, MaybeRoot

LEMMA TopType ==
    ASSUME TypeInv, verdict = "checking"
    PROVE  /\ Depth \in Nat \ {0}
           /\ Top \in Frame
           /\ Top.kind # "body" => Depth >= 2 /\ Parent \in Frame
  BY DEF TypeInv, TypeOK, FramesNested, Depth, Top, Parent

LEMMA EmitType ==
    ASSUME TypeOK, NEW is \in Seq(Instr), Emit(is)
    PROVE  code' \in Seq(Instr)
  BY DEF TypeOK, Emit

LEMMA EmitInParentType ==
    ASSUME TypeOK, NEW is \in Seq(Instr), EmitInParent(is)
    PROVE  code' \in Seq(Instr)
  BY DEF TypeOK, EmitInParent

LEMMA SetTopType ==
    ASSUME TypeInv, verdict = "checking", NEW f \in Frame, f.kind = Top.kind, f.loop = Top.loop,
           SetTop(f), UNCHANGED verdict
    PROVE  frames' \in Seq(Frame) /\ FramesNested'
<1>1. Depth \in Nat \ {0} /\ frames \in Seq(Frame)
  BY TopType DEF TypeInv, TypeOK
<1>2. frames' \in Seq(Frame) /\ Len(frames') = Len(frames)
  BY <1>1 DEF SetTop, Depth
<1>3. \A i \in 1..Depth : frames'[i].kind = frames[i].kind /\ frames'[i].loop = frames[i].loop
  BY <1>1 DEF SetTop, Top, Depth
<1> QED
  BY <1>1, <1>2, <1>3 DEF TypeInv, FramesNested, Depth

LEMMA PushType ==
    ASSUME TypeInv, verdict = "checking", NEW f \in Frame, f.kind # "body",
           f.loop <= Depth + 1, frames' = Append(frames, f), UNCHANGED verdict
    PROVE  frames' \in Seq(Frame) /\ FramesNested'
<1>1. Depth \in Nat \ {0} /\ frames \in Seq(Frame)
  BY TopType DEF TypeInv, TypeOK
<1>2. frames' \in Seq(Frame) /\ Len(frames') = Len(frames) + 1
  BY <1>1
<1>3. \A i \in 1..Depth' : frames'[i] = IF i <= Depth THEN frames[i] ELSE f
  BY <1>1, <1>2 DEF Depth
<1> QED
  BY <1>1, <1>2, <1>3 DEF TypeInv, FramesNested, Depth

LEMMA RejectType ==
    ASSUME Reject
    PROVE  TypeInv'
  BY DEF Reject, EndRegion, TypeInv, TypeOK, FramesNested

LEMMA NewFrameType ==
    ASSUME TypeInv, verdict = "checking", NEW kind \in {"if", "while", "for"},
           NEW entry \in SUBSET Roots
    PROVE  /\ NewFrame(kind, entry) \in Frame
           /\ NewFrame(kind, entry).kind = kind
           /\ NewFrame(kind, entry).loop <= Depth + 1
<1>1. Top \in Frame /\ Depth \in Nat /\ Top.loop <= Depth /\ clock \in Nat
  BY TopType DEF TypeInv, TypeOK, FramesNested, Top
<1>2. Top.dead \in BOOLEAN /\ Top.loop \in Nat /\ Top.target \in Nat
  BY <1>1 DEF Frame
<1> QED
  BY <1>1, <1>2 DEF NewFrame, Frame

\* A block's flags are set without touching the rest of its frame.
LEMMA MarkType ==
    ASSUME NEW f \in Frame, NEW ret \in BOOLEAN, NEW end \in BOOLEAN
    PROVE  /\ Mark(f, ret, end) \in Frame
           /\ Mark(f, ret, end).kind = f.kind
           /\ Mark(f, ret, end).loop = f.loop
  BY DEF Frame, Mark

----------------------------------------------------------------------------
(* Each action preserves the types.                                         *)

LEMMA LetType ==
    ASSUME TypeInv, NEW r \in Roots, NEW s \in MaybeRoot, Let(r, s)
    PROVE  TypeInv'
<1> DEFINE drop == DropOf(r, Depth, clock)
<1>1. CASE Reject
  BY <1>1, RejectType
<1>2. CASE ~Reject
  <2>1. /\ verdict = "checking"
        /\ moved' = moved \cup Taken(s)
        /\ declared' = declared \cup {r}
        /\ env' = env \cup {drop}
        /\ cleanup' = cleanup \cup {drop}
        /\ Emit(TakeOf(s) \o Do("store", r) \o Arm(drop))
        /\ UNCHANGED <<frames, verdict>>
        /\ clock' = clock + 1
    BY <1>2 DEF Let, Element
  <2>2. drop \in Entry
    BY <2>1, TopType, DropOfType DEF TypeInv, TypeOK
  <2>3. TakeOf(s) \o Do("store", r) \o Arm(drop) \in Seq(Instr)
    BY <2>2, TakeOfType, DoType, ArmType
  <2>4. code' \in Seq(Instr)
    BY <2>1, <2>3, EmitType DEF TypeInv
  <2>5. Taken(s) \in SUBSET Roots
    BY RootTypes DEF TypeInv
  <2> QED
    BY <2>1, <2>2, <2>4, <2>5 DEF TypeInv, TypeOK, FramesNested, Depth
<1> QED
  BY <1>1, <1>2

\* Elements that change nothing but "moved" and "code".
LEMMA UseType ==
    ASSUME TypeInv, NEW r \in Roots, Use(r) \/ Take(r) \/ Borrow(r)
    PROVE  TypeInv'
<1>1. CASE Reject
  BY <1>1, RejectType
<1>2. CASE ~Reject
  <2>1. PICK op \in {"use", "take", "borrow"} : Emit(Do(op, r))
    BY <1>2 DEF Use, Take, Borrow, Element
  <2>2. /\ moved' = moved \/ moved' = moved \cup {r}
        /\ UNCHANGED <<env, declared, cleanup, frames, verdict>>
        /\ clock' = clock + 1
    BY <1>2 DEF Use, Take, Borrow, Element
  <2>3. code' \in Seq(Instr)
    BY <2>1, DoType, EmitType DEF TypeInv
  <2> QED
    BY <2>2, <2>3 DEF TypeInv, TypeOK, FramesNested, Depth
<1> QED
  BY <1>1, <1>2

LEMMA AssignType ==
    ASSUME TypeInv, NEW r \in Roots, NEW s \in MaybeRoot, Assign(r, s)
    PROVE  TypeInv'
<1>1. CASE Reject
  BY <1>1, RejectType
<1>2. CASE ~Reject
  <2>1. /\ moved' = (moved \cup Taken(s)) \ {r}
        /\ Emit(TakeOf(s) \o DropBefore(r) \o Do("store", r))
        /\ UNCHANGED <<env, declared, cleanup, frames, verdict>>
        /\ clock' = clock + 1
    BY <1>2 DEF Assign, Element
  <2>2. DropBefore(r) \in Seq(Instr)
    BY DoType DEF DropBefore
  <2>3. TakeOf(s) \o DropBefore(r) \o Do("store", r) \in Seq(Instr)
    BY <2>2, TakeOfType, DoType
  <2>4. code' \in Seq(Instr)
    BY <2>1, <2>3, EmitType DEF TypeInv
  <2>5. Taken(s) \in SUBSET Roots
    BY RootTypes DEF TypeInv
  <2> QED
    BY <2>1, <2>4, <2>5 DEF TypeInv, TypeOK, FramesNested, Depth
<1> QED
  BY <1>1, <1>2

LEMMA CheckDeferType ==
    ASSUME TypeInv, NEW r \in Roots, NEW how \in {"use", "borrow", "take"},
           NEW onErr \in BOOLEAN, CheckDefer(r, how, onErr)
    PROVE  TypeInv'
<1> DEFINE entry == [kind |-> how, root |-> r, onErr |-> onErr, depth |-> Depth, ord |-> clock]
<1>1. CASE Reject
  BY <1>1, RejectType
<1>2. CASE ~Reject
  <2>1. /\ verdict = "checking"
        /\ cleanup' = cleanup \cup {entry}
        /\ Emit(Arm(entry))
        /\ UNCHANGED <<env, declared, moved, frames, verdict>>
        /\ clock' = clock + 1
    BY <1>2 DEF CheckDefer, Element
  <2>2. entry \in Entry
    BY <2>1, TopType DEF TypeInv, TypeOK, Entry
  <2>3. code' \in Seq(Instr)
    BY <2>1, <2>2, ArmType, EmitType DEF TypeInv
  <2> QED
    BY <2>1, <2>2, <2>3 DEF TypeInv, TypeOK, FramesNested, Depth
<1> QED
  BY <1>1, <1>2

LEMMA CheckReturnType ==
    ASSUME TypeInv, NEW s \in MaybeRoot, NEW class \in ExitClass, CheckReturn(s, class)
    PROVE  TypeInv'
<1> DEFINE m == moved \cup Taken(s)
           plan == Registered(1, m)
           first == Unregistered(1, m)
           f == Mark(Top, TRUE, TRUE)
<1>1. CASE Reject
  BY <1>1, RejectType
<1>2. CASE ~Reject
  <2>1. /\ verdict = "checking"
        /\ moved' = m
        /\ Emit(TakeOf(s) \o Result(class) \o Clean(first, plan) \o Ret)
        /\ SetTop(f)
        /\ UNCHANGED <<env, declared, cleanup, verdict>>
        /\ clock' = clock + 1
    BY <1>2 DEF CheckReturn, Element
  <2>2. m \in SUBSET Roots
    BY RootTypes DEF TypeInv, TypeOK
  <2>3. plan \in SUBSET Entry /\ first \in SUBSET Entry
    BY <2>2, PlanTypes DEF TypeInv
  <2>4. TakeOf(s) \o Result(class) \o Clean(first, plan) \o Ret \in Seq(Instr)
    <3>1. TakeOf(s) \in Seq(Instr) /\ Result(class) \in Seq(Instr)
      BY TakeOfType, ResultType
    <3>2. Clean(first, plan) \in Seq(Instr) /\ Ret \in Seq(Instr)
      BY <2>3, CleanType, RetType
    <3> QED
      BY <3>1, <3>2
  <2>5. code' \in Seq(Instr)
    BY <2>1, <2>4, EmitType DEF TypeInv
  <2>6. f \in Frame /\ f.kind = Top.kind /\ f.loop = Top.loop
    BY <2>1, TopType, MarkType
  <2>7. frames' \in Seq(Frame) /\ FramesNested'
    BY <2>1, <2>6, SetTopType
  <2> QED
    BY <2>1, <2>2, <2>5, <2>7 DEF TypeInv, TypeOK
<1> QED
  BY <1>1, <1>2

LEMMA CheckReturnOnErrorType ==
    ASSUME TypeInv, CheckReturnOnError
    PROVE  TypeInv'
<1> DEFINE plan == Registered(1, moved)
           first == Unregistered(1, moved)
           next == Label(clock, "next")
<1>1. CASE Reject
  BY <1>1, RejectType
<1>2. CASE ~Reject
  <2>1. /\ Emit(Jump("branch", next) \o Result("error") \o Clean(first, plan) \o Ret
                  \o Place(next, InScope \ moved))
        /\ UNCHANGED <<env, declared, moved, cleanup, frames, verdict>>
        /\ clock' = clock + 1
    BY <1>2 DEF CheckReturnOnError, Element
  <2>2. plan \in SUBSET Entry /\ first \in SUBSET Entry
    BY PlanTypes DEF TypeInv, TypeOK
  <2>3. next \in LabelName
    BY LabelType DEF TypeInv, TypeOK
  <2>4. Jump("branch", next) \in Seq(Instr) /\ Result("error") \in Seq(Instr)
    BY <2>3, JumpType, ResultType DEF ExitClass
  <2>5. Place(next, InScope \ moved) \in Seq(Instr)
    BY <2>3, PlaceType, RootTypes DEF TypeInv
  <2>6. Jump("branch", next) \o Result("error") \o Clean(first, plan) \o Ret
          \o Place(next, InScope \ moved) \in Seq(Instr)
    BY <2>2, <2>4, <2>5, CleanType, RetType
  <2>7. code' \in Seq(Instr)
    BY <2>1, <2>6, EmitType DEF TypeInv
  <2> QED
    BY <2>1, <2>7 DEF TypeInv, TypeOK, FramesNested, Depth
<1> QED
  BY <1>1, <1>2


LEMMA BreakType ==
    ASSUME TypeInv, Break
    PROVE  TypeInv'
<1> DEFINE plan  == Registered(Top.loop, moved)
           first == Unregistered(Top.loop, moved)
           break == [op |-> "break", loop |-> frames[Top.loop].id,
                     to |-> Label(Top.target, "exit")]
           exit  == IF Top.target = 0 THEN <<[op |-> "nowhere"]>> ELSE <<break>>
           f     == Mark(Top, FALSE, TRUE)
<1>1. CASE Reject
  BY <1>1, RejectType
<1>2. CASE ~Reject
  <2>1. /\ verdict = "checking"
        /\ Top.loop # 0
        /\ Emit(Result("ok") \o Clean(first, plan) \o exit)
        /\ SetTop(f)
        /\ UNCHANGED <<env, declared, moved, cleanup, verdict>>
        /\ clock' = clock + 1
    BY <1>2 DEF Break, Element
  <2>2. Top \in Frame /\ Top.loop \in 1..Depth /\ Top.target \in Nat
    <3>1. Top \in Frame /\ Depth \in Nat \ {0}
      BY <2>1, TopType
    <3>2. Top.loop <= Depth
      BY <2>1, <3>1 DEF TypeInv, FramesNested, Top
    <3> QED
      BY <2>1, <3>1, <3>2 DEF Frame
  <2>3. frames[Top.loop].id \in Nat
    <3>1. frames[Top.loop] \in Frame
      BY <2>2 DEF TypeInv, TypeOK, Depth
    <3> QED
      BY <3>1 DEF Frame
  <2>4. exit \in Seq(Instr)
    <3>1. break \in Instr
      BY <2>2, <2>3, LabelType DEF Instr
    <3>2. [op |-> "nowhere"] \in Instr
      BY DEF Instr
    <3> QED
      BY <3>1, <3>2
  <2>5. plan \in SUBSET Entry /\ first \in SUBSET Entry
    BY <2>2, PlanTypes DEF TypeInv, TypeOK
  <2>6. Result("ok") \o Clean(first, plan) \o exit \in Seq(Instr)
    BY <2>4, <2>5, ResultType, CleanType DEF ExitClass
  <2>7. code' \in Seq(Instr)
    BY <2>1, <2>6, EmitType DEF TypeInv
  <2>8. f \in Frame /\ f.kind = Top.kind /\ f.loop = Top.loop
    BY <2>2, MarkType
  <2>9. frames' \in Seq(Frame) /\ FramesNested'
    BY <2>1, <2>8, SetTopType
  <2> QED
    BY <2>1, <2>7, <2>9 DEF TypeInv, TypeOK
<1> QED
  BY <1>1, <1>2

LEMMA OpenIfType ==
    ASSUME TypeInv, NEW c \in MaybeRoot, OpenIf(c)
    PROVE  TypeInv'
<1> DEFINE next == Label(clock, "next")
<1>1. CASE Reject
  BY <1>1, RejectType
<1>2. CASE ~Reject
  <2>1. /\ verdict = "checking"
        /\ moved' = moved \cup Taken(c)
        /\ frames' = Append(frames, NewFrame("if", moved))
        /\ Emit(TakeOf(c) \o Jump("branch", next))
        /\ UNCHANGED <<env, declared, cleanup, verdict>>
        /\ clock' = clock + 1
    BY <1>2 DEF OpenIf, Element
  <2>2. TakeOf(c) \o Jump("branch", next) \in Seq(Instr)
    BY TakeOfType, JumpType, LabelType DEF TypeInv, TypeOK
  <2>3. code' \in Seq(Instr)
    BY <2>1, <2>2, EmitType DEF TypeInv
  <2>4. frames' \in Seq(Frame) /\ FramesNested'
    BY <2>1, NewFrameType, PushType DEF TypeInv, TypeOK
  <2>5. Taken(c) \in SUBSET Roots
    BY RootTypes DEF TypeInv
  <2> QED
    BY <2>1, <2>3, <2>4, <2>5 DEF TypeInv, TypeOK
<1> QED
  BY <1>1, <1>2

LEMMA OpenLoopType ==
    ASSUME TypeInv, (\E c \in MaybeRoot : OpenWhile(c)) \/ OpenFor
    PROVE  TypeInv'
<1>1. CASE Reject
  BY <1>1, RejectType
<1>2. CASE ~Reject
  <2> DEFINE head == Place(Label(clock, "head"), InScope \ moved)
             exit == Jump("branch", Label(clock, "exit"))
  <2>1. PICK c \in MaybeRoot, kind \in {"while", "for"} :
          /\ verdict = "checking"
          /\ moved' = moved \cup Taken(c)
          /\ frames' = Append(frames, NewFrame(kind, moved \cup Taken(c)))
          /\ code' = code \/ Emit(head \o TakeOf(c) \o exit) \/ Emit(head \o exit)
          /\ UNCHANGED <<env, declared, cleanup, verdict>>
          /\ clock' = clock + 1
    <3>1. CASE OpenFor
      <4>1. Taken(None) = {} /\ None \in MaybeRoot
        BY DEF Taken, MaybeRoot
      <4> QED
        BY <3>1, <4>1, <1>2 DEF OpenFor, Element
    <3>2. CASE \E c \in MaybeRoot : OpenWhile(c)
      BY <3>2, <1>2 DEF OpenWhile, Element
    <3> QED
      BY <3>1, <3>2
  <2>2. clock \in Nat
    BY DEF TypeInv, TypeOK
  <2>3. head \in Seq(Instr) /\ exit \in Seq(Instr)
    BY <2>2, PlaceType, JumpType, LabelType, RootTypes DEF TypeInv
  <2>4. head \o TakeOf(c) \o exit \in Seq(Instr) /\ head \o exit \in Seq(Instr)
    BY <2>3, TakeOfType
  <2>5. code' \in Seq(Instr)
    BY <2>1, <2>4, EmitType DEF TypeInv, TypeOK
  <2>6. moved \cup Taken(c) \in SUBSET Roots
    BY RootTypes DEF TypeInv, TypeOK
  <2>7. frames' \in Seq(Frame) /\ FramesNested'
    BY <2>1, <2>6, NewFrameType, PushType
  <2> QED
    BY <2>1, <2>5, <2>6, <2>7 DEF TypeInv, TypeOK
<1> QED
  BY <1>1, <1>2

----------------------------------------------------------------------------
(* What closing a block returns.                                            *)

LEMMA ClosingTypes ==
    ASSUME TypeInv, verdict = "checking"
    PROVE  /\ \A next \in Seq(Instr) : Closing(next) \in Seq(Instr)
           /\ \A m : OuterAvailable(m) \in SUBSET Roots
           /\ LeaveScope => env' \in SUBSET Entry /\ cleanup' \in SUBSET Entry
<1>1. Depth \in Nat
  BY TopType
<1>2. BlockPlan \in SUBSET Entry
  BY <1>1, PlanTypes DEF BlockPlan, TypeInv, TypeOK
<1>3. Clean({}, BlockPlan) \in Seq(Instr)
  BY <1>2, CleanType
<1>4. \A next \in Seq(Instr) : Closing(next) \in Seq(Instr)
  BY <1>3 DEF Closing
<1>5. \A m : OuterAvailable(m) \in SUBSET Roots
  BY <1>1, RootTypes DEF OuterAvailable, TypeInv
<1>6. LeaveScope => env' \in SUBSET Entry /\ cleanup' \in SUBSET Entry
  BY <1>1, PlanTypes DEF LeaveScope, TypeInv
<1> QED
  BY <1>4, <1>5, <1>6

LEMMA CloseArmType ==
    ASSUME TypeInv, verdict = "checking"
    PROVE  CloseArm \in Seq(Instr)
<1> DEFINE exit == Label(Top.id, "exit")
           next == Label(Top.arm, "next")
           avail == OuterAvailable(Top.entry)
<1>1. Top.id \in Nat /\ Top.arm \in Nat
  BY TopType DEF Frame
<1>2. exit \in LabelName /\ next \in LabelName
  BY <1>1, LabelType
<1>3. Closing(Jump("goto", exit)) \in Seq(Instr)
  BY <1>2, JumpType, ClosingTypes
<1>4. Place(next, avail) \in Seq(Instr)
  BY <1>2, PlaceType, ClosingTypes
<1> QED
  BY <1>3, <1>4 DEF CloseArm

LEMMA ExitsType ==
    ASSUME TypeInv, verdict = "checking"
    PROVE  /\ ArmExits \in SUBSET (SUBSET Roots)
           /\ JoinedMoves \in SUBSET Roots
           /\ Top.entry \in SUBSET Roots
<1>1. /\ Top.exits \in SUBSET (SUBSET Roots)
      /\ Top.entry \in SUBSET Roots
      /\ moved \in SUBSET Roots
  BY TopType DEF Frame, TypeInv, TypeOK
<1>2. ArmExits \in SUBSET (SUBSET Roots)
  BY <1>1 DEF ArmExits
<1>3. JoinedMoves \in SUBSET Roots
  BY <1>1, <1>2 DEF JoinedMoves
<1> QED
  BY <1>1, <1>2, <1>3

LEMMA ReopenedType ==
    ASSUME NEW f \in Frame, NEW id \in Nat, NEW exits \in SUBSET (SUBSET Roots),
           NEW isElse \in BOOLEAN, NEW dead \in BOOLEAN
    PROVE  /\ Reopened(f, id, exits, isElse, dead) \in Frame
           /\ Reopened(f, id, exits, isElse, dead).kind = f.kind
           /\ Reopened(f, id, exits, isElse, dead).loop = f.loop
  BY ZenonT(60) DEF Reopened, Frame

LEMMA NextFrameType ==
    ASSUME TypeInv, verdict = "checking", Top.kind = "if", NEW isElse \in BOOLEAN
    PROVE  /\ NextFrame(isElse) \in Frame
           /\ NextFrame(isElse).kind = Top.kind
           /\ NextFrame(isElse).loop = Top.loop
<1>1. Top \in Frame /\ Parent \in Frame
  BY TopType
<1>2. Parent.dead \in BOOLEAN
  BY <1>1 DEF Frame
<1>3. ArmExits \in SUBSET (SUBSET Roots) /\ clock \in Nat
  BY ExitsType DEF TypeInv, TypeOK
<1> QED
  BY <1>1, <1>2, <1>3, ReopenedType DEF NextFrame

----------------------------------------------------------------------------
LEMMA ElseIfType ==
    ASSUME TypeInv, NEW c \in MaybeRoot, ElseIf(c)
    PROVE  TypeInv'
<1> DEFINE next == Label(clock, "next")
<1>1. CASE Reject
  BY <1>1, RejectType
<1>2. CASE ~Reject
  <2>1. /\ verdict = "checking"
        /\ Top.kind = "if"
        /\ moved' = Top.entry \cup Taken(c)
        /\ LeaveScope
        /\ SetTop(NextFrame(FALSE))
        /\ EmitInParent(CloseArm \o TakeOf(c) \o Jump("branch", next))
        /\ UNCHANGED <<declared, verdict>>
        /\ clock' = clock + 1
    BY <1>2 DEF ElseIf, InsideOf, Construct
  <2>2. Jump("branch", next) \in Seq(Instr)
    BY JumpType, LabelType DEF TypeInv, TypeOK
  <2>3. TakeOf(c) \in Seq(Instr) /\ CloseArm \in Seq(Instr)
    BY <2>1, TakeOfType, CloseArmType
  <2>4. CloseArm \o TakeOf(c) \o Jump("branch", next) \in Seq(Instr)
    BY <2>2, <2>3
  <2>5. code' \in Seq(Instr)
    BY <2>1, <2>4, EmitInParentType DEF TypeInv
  <2>6. frames' \in Seq(Frame) /\ FramesNested'
    BY <2>1, NextFrameType, SetTopType
  <2>7. moved' \in SUBSET Roots
    BY <2>1, ExitsType, RootTypes DEF TypeInv
  <2>8. env' \in SUBSET Entry /\ cleanup' \in SUBSET Entry
    BY <2>1, ClosingTypes
  <2> QED
    BY <2>1, <2>5, <2>6, <2>7, <2>8 DEF TypeInv, TypeOK
<1> QED
  BY <1>1, <1>2

LEMMA ElseType ==
    ASSUME TypeInv, Else
    PROVE  TypeInv'
<1>1. CASE Reject
  BY <1>1, RejectType
<1>2. CASE ~Reject
  <2>1. /\ verdict = "checking"
        /\ Top.kind = "if"
        /\ moved' = Top.entry
        /\ LeaveScope
        /\ SetTop(NextFrame(TRUE))
        /\ EmitInParent(CloseArm)
        /\ UNCHANGED <<declared, verdict>>
        /\ clock' = clock + 1
    BY <1>2 DEF Else, InsideOf, Construct
  <2>2. code' \in Seq(Instr)
    BY <2>1, CloseArmType, EmitInParentType DEF TypeInv
  <2>3. frames' \in Seq(Frame) /\ FramesNested'
    BY <2>1, NextFrameType, SetTopType
  <2>4. moved' \in SUBSET Roots
    BY <2>1, ExitsType
  <2>5. env' \in SUBSET Entry /\ cleanup' \in SUBSET Entry
    BY <2>1, ClosingTypes
  <2> QED
    BY <2>1, <2>2, <2>3, <2>4, <2>5 DEF TypeInv, TypeOK
<1> QED
  BY <1>1, <1>2

\* Closing a construct leaves the blocks around it as they were.
LEMMA PopType ==
    ASSUME TypeInv, verdict = "checking", Depth >= 2, UNCHANGED verdict
    PROVE  /\ frames' = SubSeq(frames, 1, Depth - 1) => frames' \in Seq(Frame) /\ FramesNested'
           /\ \A f \in Frame :
                 f.kind = Parent.kind /\ f.loop = Parent.loop
                   /\ frames' = Append(SubSeq(frames, 1, Depth - 2), f)
                 => frames' \in Seq(Frame) /\ FramesNested'
<1>1. Depth \in Nat /\ frames \in Seq(Frame) /\ Depth = Len(frames)
  BY TopType DEF TypeInv, TypeOK, Depth
<1>2. \A i \in 1..Depth : (frames[i].kind = "body" <=> i = 1) /\ frames[i].loop <= i
  BY DEF TypeInv, FramesNested
<1>3. ASSUME frames' = SubSeq(frames, 1, Depth - 1)
      PROVE  frames' \in Seq(Frame) /\ FramesNested'
  <2>1. /\ frames' \in Seq(Frame)
        /\ Len(frames') = Depth - 1
        /\ \A i \in 1..(Depth - 1) : frames'[i] = frames[i]
    BY <1>1, <1>3
  <2> QED
    BY <1>1, <1>2, <2>1 DEF FramesNested, Depth
<1>4. ASSUME NEW f \in Frame, f.kind = Parent.kind, f.loop = Parent.loop,
             frames' = Append(SubSeq(frames, 1, Depth - 2), f)
      PROVE  frames' \in Seq(Frame) /\ FramesNested'
  <2> DEFINE outer == SubSeq(frames, 1, Depth - 2)
  <2>1. /\ outer \in Seq(Frame)
        /\ Len(outer) = Depth - 2
        /\ \A i \in 1..(Depth - 2) : outer[i] = frames[i]
    BY <1>1
  <2> HIDE DEF outer
  <2>2. /\ frames' \in Seq(Frame)
        /\ Len(frames') = Depth - 1
        /\ \A i \in 1..(Depth - 2) : frames'[i] = frames[i]
        /\ frames'[Depth - 1] = f
    BY <1>1, <1>4, <2>1 DEF outer
  <2>3. \A i \in 1..(Depth - 1) : frames'[i].kind = frames[i].kind /\ frames'[i].loop = frames[i].loop
    BY <1>1, <1>4, <2>2 DEF Parent
  <2> QED
    BY <1>1, <1>2, <2>2, <2>3 DEF FramesNested, Depth
<1> QED
  BY <1>3, <1>4

LEMMA EndIfType ==
    ASSUME TypeInv, EndIf
    PROVE  TypeInv'
<1> DEFINE reaches == Top.merged \/ ~Top.dead \/ ~Top.covered
           returns == Top.covered /\ Top.allRet /\ Top.returns
           last    == IF Top.covered THEN Closing(<<>>) ELSE CloseArm
           merge   == Place(Label(Top.id, "exit"), OuterAvailable(JoinedMoves))
           tail    == IF reaches THEN merge ELSE <<>>
           f       == Mark(Parent, returns, ~reaches)
<1>1. CASE Reject
  BY <1>1, RejectType
<1>2. CASE ~Reject
  <2>1. /\ verdict = "checking"
        /\ Top.kind = "if"
        /\ moved' = JoinedMoves
        /\ LeaveScope
        /\ frames' = Append(SubSeq(frames, 1, Depth - 2), f)
        /\ EmitInParent(last \o tail)
        /\ UNCHANGED <<declared, verdict>>
        /\ clock' = clock + 1
    BY <1>2 DEF EndIf, InsideOf, Construct
  <2>2. Top \in Frame /\ Parent \in Frame /\ Depth >= 2
    BY <2>1, TopType
  <2>3. Top.id \in Nat
    BY <2>2 DEF Frame
  <2>4. last \in Seq(Instr)
    <3>1. <<>> \in Seq(Instr)
      OBVIOUS
    <3>2. Closing(<<>>) \in Seq(Instr)
      BY <2>1, <3>1, ClosingTypes
    <3>3. CloseArm \in Seq(Instr)
      BY <2>1, CloseArmType
    <3> QED
      BY <3>2, <3>3
  <2>5. tail \in Seq(Instr)
    <3>1. merge \in Seq(Instr)
      BY <2>1, <2>3, LabelType, PlaceType, ClosingTypes
    <3> QED
      BY <3>1
  <2> HIDE DEF last, tail
  <2>6. code' \in Seq(Instr)
    <3>1. last \o tail \in Seq(Instr)
      BY <2>4, <2>5
    <3> QED
      BY <2>1, <3>1, EmitInParentType DEF TypeInv
  <2>7. f \in Frame /\ f.kind = Parent.kind /\ f.loop = Parent.loop
    BY <2>2, MarkType
  <2> HIDE DEF f
  <2>8. frames' \in Seq(Frame) /\ FramesNested'
    BY <2>1, <2>2, <2>7, PopType
  <2>9. moved' \in SUBSET Roots
    BY <2>1, ExitsType
  <2>10. env' \in SUBSET Entry /\ cleanup' \in SUBSET Entry
    BY <2>1, ClosingTypes
  <2> QED
    BY <2>1, <2>6, <2>8, <2>9, <2>10 DEF TypeInv, TypeOK
<1> QED
  BY <1>1, <1>2

LEMMA CloseLoopType ==
    ASSUME TypeInv, CloseLoop
    PROVE  TypeInv'
<1> DEFINE after == IF Top.returns THEN Top.entry ELSE Top.entry \cup moved
           head  == Label(Top.id, "head")
           exit  == Label(Top.id, "exit")
           body  == Closing(Jump("goto", head))
           place == Place(exit, OuterAvailable(after))
<1>1. CASE Reject
  BY <1>1, RejectType
<1>2. CASE ~Reject
  <2>1. /\ verdict = "checking"
        /\ Top.kind \in {"while", "for"}
        /\ moved' = after
        /\ LeaveScope
        /\ frames' = SubSeq(frames, 1, Depth - 1)
        /\ EmitInParent(body \o place)
        /\ UNCHANGED <<declared, verdict>>
        /\ clock' = clock + 1
    BY <1>2 DEF CloseLoop, InsideOf, Construct
  <2>2. Top \in Frame /\ Depth >= 2
    BY <2>1, TopType
  <2>3. head \in LabelName /\ exit \in LabelName
    BY <2>2, LabelType DEF Frame
  <2>4. body \in Seq(Instr) /\ place \in Seq(Instr)
    BY <2>1, <2>3, JumpType, PlaceType, ClosingTypes
  <2>5. code' \in Seq(Instr)
    <3> HIDE DEF body, place
    <3>1. body \o place \in Seq(Instr)
      BY <2>4
    <3> QED
      BY <2>1, <3>1, EmitInParentType DEF TypeInv
  <2>6. frames' \in Seq(Frame) /\ FramesNested'
    BY <2>1, <2>2, PopType
  <2>7. moved' \in SUBSET Roots
    BY <2>1, ExitsType DEF TypeInv, TypeOK
  <2>8. env' \in SUBSET Entry /\ cleanup' \in SUBSET Entry
    BY <2>1, ClosingTypes
  <2> QED
    BY <2>1, <2>5, <2>6, <2>7, <2>8 DEF TypeInv, TypeOK
<1> QED
  BY <1>1, <1>2

LEMMA EndBodyType ==
    ASSUME TypeInv, NEW s \in MaybeRoot, NEW class \in ExitClass, EndBody(s, class)
    PROVE  TypeInv'
<1> DEFINE m    == moved \cup Taken(s)
           plan == Registered(1, m)
           args == {b \in ComputeDrops(m) : b.depth = 0}
<1>1. CASE Reject
  BY <1>1, RejectType
<1>2. CASE ~Reject
  <2>1. /\ Emit(TakeOf(s) \o Result(class) \o Clean({}, plan \cup args) \o Ret)
        /\ verdict' \in {"internal", "accepted"}
        /\ EndRegion
    BY <1>2 DEF EndBody
  <2>2. m \in SUBSET Roots
    BY RootTypes DEF TypeInv, TypeOK
  <2>3. plan \cup args \in SUBSET Entry
    BY <2>2, PlanTypes DEF TypeInv
  <2>4. TakeOf(s) \o Result(class) \o Clean({}, plan \cup args) \o Ret \in Seq(Instr)
    <3>1. TakeOf(s) \in Seq(Instr) /\ Result(class) \in Seq(Instr)
      BY TakeOfType, ResultType
    <3>2. Clean({}, plan \cup args) \in Seq(Instr) /\ Ret \in Seq(Instr)
      BY <2>3, CleanType, RetType
    <3> QED
      BY <3>1, <3>2
  <2>5. code' \in Seq(Instr)
    BY <2>1, <2>4, EmitType DEF TypeInv
  <2> QED
    BY <2>1, <2>5 DEF EndRegion, TypeInv, TypeOK, FramesNested
<1> QED
  BY <1>1, <1>2

----------------------------------------------------------------------------
LEMMA InitType == Init => TypeInv
<1> SUFFICES ASSUME Init PROVE TypeInv
  OBVIOUS
<1> DEFINE body == [kind |-> "body", id |-> 0, arm |-> 0, entry |-> {}, exits |-> {},
                    covered |-> FALSE, allRet |-> TRUE, returns |-> FALSE,
                    dead |-> FALSE, merged |-> FALSE, loop |-> 0, target |-> 0]
<1>1. ParamBindings \in SUBSET Entry
  BY RootsAssumption, DropOfType DEF ParamBindings
<1>2. body \in Frame
  BY DEF Frame
<1>3. frames = <<body>> /\ body.kind = "body" /\ body.loop = 0
  BY DEF Init
<1> HIDE DEF body
<1>4. frames \in Seq(Frame) /\ FramesNested
  BY <1>2, <1>3 DEF FramesNested, Depth
<1>5. clock \in Nat /\ Params \subseteq Roots
  BY RootsAssumption DEF Init
<1> QED
  BY <1>1, <1>4, <1>5 DEF Init, TypeInv, TypeOK

LEMMA StepType == TypeInv /\ [Next]_vars => TypeInv'
<1> SUFFICES ASSUME TypeInv, [Next]_vars PROVE TypeInv'
  OBVIOUS
<1>1. CASE UNCHANGED vars
  BY <1>1 DEF vars, TypeInv, TypeOK, FramesNested, Depth
<1>2. CASE Next
  BY <1>2, LetType, UseType, AssignType, CheckDeferType, CheckReturnType,
     CheckReturnOnErrorType, BreakType, OpenIfType, OpenLoopType, ElseIfType,
     ElseType, EndIfType, CloseLoopType, EndBodyType
  DEF Next
<1> QED
  BY <1>1, <1>2

\* Every reachable state of the checker is well typed, for every set of roots
\* and bodies of any length.
THEOREM TypeCorrect == Spec => []TypeOK
<1>1. Spec => []TypeInv
  BY InitType, StepType, PTL DEF Spec
<1>2. TypeInv => TypeOK
  BY DEF TypeInv
<1> QED
  BY <1>1, <1>2, PTL

----------------------------------------------------------------------------
(***************************************************************************)
(* The registered cleanup entries follow the lexical scopes, for bodies of *)
(* any length: the three structural invariants of MoveCheck, from one      *)
(* inductive invariant.  Every action does one of five things to the       *)
(* scopes; StepKinds says which, and the invariant is shown for each.      *)
(***************************************************************************)

\* What the three properties need to be inductive: entries carry the element
\* that registered them and an open scope, and bindings are drop entries.
EntriesAreOpen ==
    \A e \in env \cup cleanup : e.ord < clock /\ e.depth <= Depth

BindingsAreDrops == \A b \in env : ~Deferred(b)

ScopeInv ==
    /\ EntriesAreOpen
    /\ BindingsAreDrops
    /\ CleanupMatchesScopes
    /\ DeferredRootsOutliveCalls
    /\ RegistrationIsOrdered

----------------------------------------------------------------------------
(* The kinds of steps.                                                      *)

KeepsScopes == UNCHANGED <<env, cleanup>> /\ clock' >= clock /\ Depth' >= Depth

BindsLocal ==
    /\ verdict = "checking"
    /\ \E r \in Roots :
          /\ env' = env \cup {DropOf(r, Depth, clock)}
          /\ cleanup' = cleanup \cup {DropOf(r, Depth, clock)}
          /\ clock' = clock + 1 /\ Depth' = Depth

DefersCall ==
    \E e \in Entry :
        /\ Deferred(e) /\ e.root \in InScope /\ e.depth = Depth /\ e.ord = clock
        /\ cleanup' = cleanup \cup {e} /\ UNCHANGED env
        /\ clock' = clock + 1 /\ Depth' = Depth

LeavesBlock == LeaveScope /\ clock' = clock + 1 /\ Depth' >= Depth - 1

ClearsRegion == env' = {} /\ cleanup' = {}

LEMMA SetTopDepth ==
    ASSUME TypeInv, verdict = "checking", NEW f, SetTop(f)
    PROVE  Depth' = Depth
  BY TopType DEF SetTop, Depth, TypeInv, TypeOK

LEMMA SimpleKinds ==
    ASSUME TypeInv,
           \/ \E r \in Roots, s \in MaybeRoot : Assign(r, s)
           \/ \E r \in Roots : Use(r) \/ Take(r) \/ Borrow(r)
           \/ CheckReturnOnError \/ Break
           \/ \E s \in MaybeRoot, class \in ExitClass : CheckReturn(s, class)
    PROVE  KeepsScopes \/ ClearsRegion
<1>1. CASE Reject
  BY <1>1 DEF Reject, EndRegion, ClearsRegion
<1>2. CASE ~Reject
  <2>1. /\ verdict = "checking"
        /\ UNCHANGED <<env, cleanup>>
        /\ clock' = clock + 1
        /\ UNCHANGED frames \/ \E f : SetTop(f)
    BY <1>2 DEF Assign, Use, Take, Borrow, CheckReturnOnError, Break, CheckReturn, Element
  <2>2. Depth' = Depth
    BY <2>1, SetTopDepth DEF Depth
  <2>3. clock \in Nat /\ Depth \in Nat
    BY <2>1, TopType DEF TypeInv, TypeOK
  <2> QED
    BY <2>1, <2>2, <2>3 DEF KeepsScopes
<1> QED
  BY <1>1, <1>2

LEMMA OpenKinds ==
    ASSUME TypeInv, (\E c \in MaybeRoot : OpenIf(c) \/ OpenWhile(c)) \/ OpenFor
    PROVE  KeepsScopes \/ ClearsRegion
<1>1. CASE Reject
  BY <1>1 DEF Reject, EndRegion, ClearsRegion
<1>2. CASE ~Reject
  <2>1. /\ UNCHANGED <<env, cleanup>>
        /\ clock' = clock + 1
        /\ \E f : frames' = Append(frames, f)
    BY <1>2 DEF OpenIf, OpenWhile, OpenFor, Element
  <2>2. Depth' >= Depth /\ clock \in Nat
    BY <2>1 DEF Depth, TypeInv, TypeOK
  <2> QED
    BY <2>1, <2>2 DEF KeepsScopes
<1> QED
  BY <1>1, <1>2

LEMMA CloseKinds ==
    ASSUME TypeInv, (\E c \in MaybeRoot : ElseIf(c)) \/ Else \/ EndIf \/ CloseLoop
    PROVE  LeavesBlock \/ ClearsRegion
<1>1. CASE Reject
  BY <1>1 DEF Reject, EndRegion, ClearsRegion
<1>2. CASE ~Reject
  <2>1. /\ verdict = "checking" /\ Top.kind # "body"
        /\ LeaveScope
        /\ clock' = clock + 1
        /\ \/ \E f : SetTop(f)
           \/ frames' = SubSeq(frames, 1, Depth - 1)
           \/ \E f : frames' = Append(SubSeq(frames, 1, Depth - 2), f)
    BY <1>2 DEF ElseIf, Else, EndIf, CloseLoop, InsideOf, Construct
  <2>2. Depth \in Nat /\ Depth >= 2 /\ frames \in Seq(Frame) /\ Depth = Len(frames)
    BY <2>1, TopType DEF TypeInv, TypeOK, Depth
  <2>3. CASE \E f : SetTop(f)
    BY <2>1, <2>2, <2>3, SetTopDepth DEF LeavesBlock
  <2>4. CASE frames' = SubSeq(frames, 1, Depth - 1)
    BY <2>1, <2>2, <2>4 DEF LeavesBlock, Depth
  <2>5. CASE \E f : frames' = Append(SubSeq(frames, 1, Depth - 2), f)
    <3>1. Len(SubSeq(frames, 1, Depth - 2)) = Depth - 2
      BY <2>2
    <3>2. PICK f : frames' = Append(SubSeq(frames, 1, Depth - 2), f)
      BY <2>5
    <3>3. SubSeq(frames, 1, Depth - 2) \in Seq(Frame)
      BY <2>2
    <3>4. Len(frames') = Depth - 1
      BY <2>2, <3>1, <3>2, <3>3
    <3> QED
      BY <2>1, <2>2, <3>4 DEF LeavesBlock, Depth
  <2> QED
    BY <2>1, <2>3, <2>4, <2>5
<1> QED
  BY <1>1, <1>2

LEMMA LetKind ==
    ASSUME TypeInv, NEW r \in Roots, NEW s \in MaybeRoot, Let(r, s)
    PROVE  BindsLocal \/ ClearsRegion
<1>1. CASE Reject
  BY <1>1 DEF Reject, EndRegion, ClearsRegion
<1>2. CASE ~Reject
  BY <1>2 DEF Let, Element, BindsLocal, Depth
<1> QED
  BY <1>1, <1>2

LEMMA DeferKind ==
    ASSUME TypeInv, NEW r \in Roots, NEW how \in {"use", "borrow", "take"},
           NEW onErr \in BOOLEAN, CheckDefer(r, how, onErr)
    PROVE  DefersCall \/ ClearsRegion
<1> DEFINE entry == [kind |-> how, root |-> r, onErr |-> onErr, depth |-> Depth, ord |-> clock]
<1>1. CASE Reject
  BY <1>1 DEF Reject, EndRegion, ClearsRegion
<1>2. CASE ~Reject
  <2>1. /\ verdict = "checking" /\ r \in InScope
        /\ cleanup' = cleanup \cup {entry} /\ UNCHANGED <<env, frames>>
        /\ clock' = clock + 1
    BY <1>2 DEF CheckDefer, Element
  <2>2. entry \in Entry /\ Deferred(entry) /\ entry.root = r
          /\ entry.depth = Depth /\ entry.ord = clock
    BY <2>1, TopType DEF TypeInv, TypeOK, Entry, Deferred
  <2> QED
    BY <2>1, <2>2 DEF DefersCall, Depth
<1> QED
  BY <1>1, <1>2

LEMMA StepKinds ==
    ASSUME TypeInv, [Next]_vars
    PROVE  KeepsScopes \/ BindsLocal \/ DefersCall \/ LeavesBlock \/ ClearsRegion
<1>1. CASE UNCHANGED vars
  BY <1>1 DEF vars, KeepsScopes, Depth, TypeInv, TypeOK
<1>2. CASE \E s \in MaybeRoot, class \in ExitClass : EndBody(s, class)
  BY <1>2 DEF EndBody, Reject, EndRegion, ClearsRegion
<1> QED
  BY <1>1, <1>2, SimpleKinds, OpenKinds, CloseKinds, LetKind, DeferKind DEF Next

----------------------------------------------------------------------------
(* Each kind of step preserves the invariant.                               *)

LEMMA DepthType ==
    ASSUME TypeInv
    PROVE  /\ Depth \in Nat /\ clock \in Nat
           /\ \A e \in env \cup cleanup : e \in Entry /\ e.ord \in Nat /\ e.depth \in Nat
  BY DEF TypeInv, TypeOK, Depth, Entry

LEMMA KeepsScopeInv ==
    ASSUME TypeInv, TypeInv', ScopeInv, KeepsScopes
    PROVE  ScopeInv'
<1>1. /\ env' = env /\ cleanup' = cleanup
      /\ clock' >= clock /\ Depth' >= Depth
  BY DEF KeepsScopes
<1>2. EntriesAreOpen'
  <2>1. /\ Depth \in Nat /\ Depth' \in Nat /\ clock \in Nat /\ clock' \in Nat
        /\ \A e \in env \cup cleanup : e.ord \in Nat /\ e.depth \in Nat
    BY DepthType DEF TypeInv, TypeOK, Depth
  <2> QED
    BY <1>1, <2>1 DEF ScopeInv, EntriesAreOpen
<1> QED
  BY <1>1, <1>2 DEF ScopeInv, BindingsAreDrops, CleanupMatchesScopes,
                    DeferredRootsOutliveCalls, RegistrationIsOrdered

LEMMA ClearsScopeInv ==
    ASSUME ClearsRegion
    PROVE  ScopeInv'
  BY DEF ClearsRegion, ScopeInv, EntriesAreOpen, BindingsAreDrops, CleanupMatchesScopes,
         DeferredRootsOutliveCalls, RegistrationIsOrdered

\* Adding a last entry to the innermost scope keeps the order.
LEMMA NewestIsLast ==
    ASSUME TypeInv, EntriesAreOpen, RegistrationIsOrdered, NEW n \in Entry,
           n.ord = clock, n.depth = Depth, clock' = clock + 1, Depth' = Depth,
           env' \cup cleanup' = env \cup cleanup \cup {n}
    PROVE  EntriesAreOpen' /\ RegistrationIsOrdered'
<1>1. /\ Depth \in Nat /\ clock \in Nat
      /\ \A e \in env \cup cleanup : e.ord \in Nat /\ e.depth \in Nat
  BY DepthType
<1>2. \A e \in env \cup cleanup : e.ord < clock /\ e.depth <= Depth
  BY DEF EntriesAreOpen
<1>3. EntriesAreOpen'
  BY <1>1, <1>2 DEF EntriesAreOpen
<1>4. ASSUME NEW e \in env' \cup cleanup', NEW f \in env' \cup cleanup'
      PROVE  (e.ord = f.ord => e = f) /\ (e.depth < f.depth => e.ord < f.ord)
  <2>1. CASE e = n /\ f = n
    BY <2>1, <1>1
  <2>2. CASE e = n /\ f # n
    <3>1. f.ord < clock /\ f.depth <= Depth /\ f.ord \in Nat /\ f.depth \in Nat
      BY <2>2, <1>1, <1>2
    <3> QED
      BY <2>2, <3>1, <1>1
  <2>3. CASE e # n /\ f = n
    <3>1. e.ord < clock /\ e.ord \in Nat
      BY <2>3, <1>1, <1>2
    <3> QED
      BY <2>3, <3>1, <1>1
  <2>4. CASE e # n /\ f # n
    BY <2>4 DEF RegistrationIsOrdered
  <2> QED
    BY <2>1, <2>2, <2>3, <2>4
<1> QED
  BY <1>3, <1>4 DEF RegistrationIsOrdered

LEMMA BindsScopeInv ==
    ASSUME TypeInv, ScopeInv, BindsLocal
    PROVE  ScopeInv'
<1>1. PICK r \in Roots :
        /\ env' = env \cup {DropOf(r, Depth, clock)}
        /\ cleanup' = cleanup \cup {DropOf(r, Depth, clock)}
        /\ clock' = clock + 1 /\ Depth' = Depth
  BY DEF BindsLocal
<1> DEFINE n == DropOf(r, Depth, clock)
<1>2. n \in Entry /\ n.ord = clock /\ n.depth = Depth /\ ~Deferred(n) /\ n.root = r
  BY DepthType, DropOfType DEF DropOf, Deferred
<1>3. Depth > 0
  BY TopType DEF BindsLocal
<1> HIDE DEF n
<1>4. env' = env \cup {n} /\ cleanup' = cleanup \cup {n}
  BY <1>1 DEF n
<1>5. EntriesAreOpen' /\ RegistrationIsOrdered'
  BY <1>1, <1>2, <1>4, NewestIsLast DEF ScopeInv
<1>6. BindingsAreDrops'
  BY <1>2, <1>4 DEF ScopeInv, BindingsAreDrops
<1>7. CleanupMatchesScopes'
  BY <1>2, <1>3, <1>4 DEF ScopeInv, CleanupMatchesScopes
<1>8. DeferredRootsOutliveCalls'
  BY <1>2, <1>4 DEF ScopeInv, DeferredRootsOutliveCalls
<1> QED
  BY <1>5, <1>6, <1>7, <1>8 DEF ScopeInv

LEMMA DefersScopeInv ==
    ASSUME TypeInv, ScopeInv, DefersCall
    PROVE  ScopeInv'
<1>1. PICK n \in Entry :
        /\ Deferred(n) /\ n.root \in InScope /\ n.depth = Depth /\ n.ord = clock
        /\ cleanup' = cleanup \cup {n} /\ env' = env
        /\ clock' = clock + 1 /\ Depth' = Depth
  BY DEF DefersCall
<1>2. EntriesAreOpen' /\ RegistrationIsOrdered'
  BY <1>1, NewestIsLast DEF ScopeInv
<1>3. BindingsAreDrops' /\ CleanupMatchesScopes'
  BY <1>1 DEF ScopeInv, BindingsAreDrops, CleanupMatchesScopes
<1>4. DeferredRootsOutliveCalls'
  <2>1. PICK b \in env : b.root = n.root
    BY <1>1 DEF InScope
  <2>2. b.ord < n.ord /\ b.depth <= n.depth
    BY <1>1, <2>1 DEF ScopeInv, EntriesAreOpen
  <2> QED
    BY <1>1, <2>1, <2>2 DEF ScopeInv, DeferredRootsOutliveCalls
<1> QED
  BY <1>2, <1>3, <1>4 DEF ScopeInv

LEMMA LeavesScopeInv ==
    ASSUME TypeInv, TypeInv', ScopeInv, LeavesBlock
    PROVE  ScopeInv'
<1>1. /\ env' = {e \in env : e.depth < Depth}
      /\ cleanup' = {e \in cleanup : e.depth < Depth}
      /\ clock' = clock + 1 /\ Depth' >= Depth - 1
  BY DEF LeavesBlock, LeaveScope, Outer
<1>2. /\ Depth \in Nat /\ clock \in Nat
      /\ \A e \in env \cup cleanup : e.ord \in Nat /\ e.depth \in Nat
  BY DepthType
<1>3. Depth' \in Nat
  BY DEF TypeInv, TypeOK, Depth
<1>4. EntriesAreOpen'
  <2> SUFFICES ASSUME NEW e \in env' \cup cleanup'
               PROVE  e.ord < clock' /\ e.depth <= Depth'
    BY DEF EntriesAreOpen
  <2>1. e \in env \cup cleanup /\ e.depth < Depth
    BY <1>1
  <2>2. e.ord < clock /\ e.ord \in Nat /\ e.depth \in Nat
    BY <2>1, <1>2 DEF ScopeInv, EntriesAreOpen
  <2> QED
    BY <2>1, <2>2, <1>1, <1>2, <1>3
<1>5. BindingsAreDrops' /\ CleanupMatchesScopes'
  BY <1>1 DEF ScopeInv, BindingsAreDrops, CleanupMatchesScopes
<1>6. DeferredRootsOutliveCalls'
  <2> SUFFICES ASSUME NEW e \in cleanup', Deferred(e)
               PROVE  \E b \in env' : b.root = e.root /\ b.ord < e.ord /\ b.depth <= e.depth
    BY DEF DeferredRootsOutliveCalls
  <2>1. e \in cleanup /\ e.depth < Depth /\ e.depth \in Nat
    BY <1>1, <1>2
  <2>2. PICK b \in env : b.root = e.root /\ b.ord < e.ord /\ b.depth <= e.depth
    BY <2>1 DEF ScopeInv, DeferredRootsOutliveCalls
  <2>3. b.depth < Depth
    BY <2>1, <2>2, <1>2
  <2> QED
    BY <2>2, <2>3, <1>1
<1>7. RegistrationIsOrdered'
  BY <1>1 DEF ScopeInv, RegistrationIsOrdered
<1> QED
  BY <1>4, <1>5, <1>6, <1>7 DEF ScopeInv

----------------------------------------------------------------------------
LEMMA ScopeInit == Init => ScopeInv
<1> SUFFICES ASSUME Init PROVE ScopeInv
  OBVIOUS
<1>1. env = ParamBindings /\ cleanup = {} /\ clock = Len(ParamOrder) + 1 /\ Depth = 1
  BY DEF Init, Depth
<1>2. Len(ParamOrder) \in Nat /\ DOMAIN ParamOrder = 1..Len(ParamOrder)
  BY RootsAssumption
<1>3. \A e \in env : \E i \in 1..Len(ParamOrder) : e = DropOf(ParamOrder[i], 0, i)
  BY <1>1, <1>2 DEF ParamBindings
<1>4. \A e \in env : ~Deferred(e) /\ e.depth = 0 /\ e.ord \in 1..Len(ParamOrder)
                       /\ e = DropOf(ParamOrder[e.ord], 0, e.ord)
  BY <1>3 DEF DropOf, Deferred
<1>5. EntriesAreOpen /\ BindingsAreDrops /\ RegistrationIsOrdered
  BY <1>1, <1>2, <1>4 DEF EntriesAreOpen, BindingsAreDrops, RegistrationIsOrdered
<1>6. CleanupMatchesScopes /\ DeferredRootsOutliveCalls
  BY <1>1, <1>4 DEF CleanupMatchesScopes, DeferredRootsOutliveCalls
<1> QED
  BY <1>5, <1>6 DEF ScopeInv

LEMMA ScopeStep == TypeInv /\ ScopeInv /\ [Next]_vars => ScopeInv'
<1> SUFFICES ASSUME TypeInv, ScopeInv, [Next]_vars PROVE ScopeInv'
  OBVIOUS
<1>1. TypeInv'
  BY StepType
<1>2. CASE KeepsScopes
  BY <1>1, <1>2, KeepsScopeInv
<1>3. CASE BindsLocal
  BY <1>3, BindsScopeInv
<1>4. CASE DefersCall
  BY <1>4, DefersScopeInv
<1>5. CASE LeavesBlock
  BY <1>1, <1>5, LeavesScopeInv
<1>6. CASE ClearsRegion
  BY <1>6, ClearsScopeInv
<1> QED
  BY <1>2, <1>3, <1>4, <1>5, <1>6, StepKinds

\* In every reachable state, for bodies of any length and any parameters, the
\* entries of the open scopes are exactly the locals in scope, every deferred
\* call's root outlives it, and the order of cleanup is total and nested.
THEOREM ScopesCorrect ==
    Spec => [](CleanupMatchesScopes /\ DeferredRootsOutliveCalls /\ RegistrationIsOrdered)
<1>1. Spec => [](TypeInv /\ ScopeInv)
  BY InitType, StepType, ScopeInit, ScopeStep, PTL DEF Spec
<1>2. ScopeInv => CleanupMatchesScopes /\ DeferredRootsOutliveCalls /\ RegistrationIsOrdered
  BY DEF ScopeInv
<1> QED
  BY <1>1, <1>2, PTL
=============================================================================
