-------------------------- MODULE TypeTableProofs ---------------------------
(***************************************************************************)
(* Types, proved for every set of declarations, every text, every value of *)
(* the limits and walks followed to any depth.                             *)
(***************************************************************************)
EXTENDS TypeTable, FiniteSetTheorems, SequenceTheorems, WellFoundedInduction, TLAPS

Type == {t \in Seq(Wraps \cup Leaves) : IsType(t)}

Request == [of : {t \in Type : Head(t) = "F"}, depth : Nat, signed : BOOLEAN]
StackFrame == [id : Type, left : SUBSET Type, found : SUBSET Type]

\* What a frame of the stack is about: a specialisation whose type id is
\* reserved or, while collecting, a declaration.
Open(frame) ==
  \/ Head(frame.id) = "G" /\ frame.id \in DOMAIN defs
  \/ Head(frame.id) \in Names /\ phase = "collect"

Forms ==
  /\ phase \in {"write", "collect", "check", "emit", "rejected"}
  /\ source \in [Declarations -> SUBSET Type]
  /\ todo \subseteq Type
  /\ phase = "collect" => \A t \in todo : Head(t) \in Names
  /\ DOMAIN defs \subseteq Type
  /\ \A id \in DOMAIN defs : IsNominal(id) /\ defs[id] \subseteq Type
  /\ stack \in Seq(StackFrame)
  /\ \A i \in DOMAIN stack : Open(stack[i])
  /\ phase \notin {"collect", "check"} => stack = <<>>
  /\ queue \in Seq(Request)
  /\ seen \subseteq Type
  /\ depth \in Nat

----------------------------------------------------------------------------
(* Types.                                                                   *)

\* A part of a sequence.
LEMMA Segment ==
  ASSUME NEW S, NEW s \in Seq(S), NEW m \in 1..Len(s), NEW n \in 0..Len(s), m <= n + 1
  PROVE  /\ SubSeq(s, m, n) \in Seq(S)
         /\ Len(SubSeq(s, m, n)) = n - m + 1
         /\ \A j \in 1..(n - m + 1) : SubSeq(s, m, n)[j] = s[m + j - 1]
<1>1. \A i \in m..n : s[i] \in S
  BY LenProperties, ElementOfSeq
<1>2. m \in Int /\ n \in Int
  BY LenProperties
<1>3. /\ SubSeq(s, m, n) \in Seq(S)
      /\ Len(SubSeq(s, m, n)) = IF m <= n THEN n - m + 1 ELSE 0
      /\ \A j \in 1..(n - m + 1) : SubSeq(s, m, n)[j] = s[m + j - 1]
  BY <1>1, <1>2, SubSeqProperties
<1> QED
  BY <1>2, <1>3

\* Two sequences, one after the other.
LEMMA Joined ==
  ASSUME NEW S, NEW s \in Seq(S), NEW t \in Seq(S)
  PROVE  /\ s \o t \in Seq(S)
         /\ Len(s \o t) = Len(s) + Len(t)
         /\ \A i \in 1..Len(s) : (s \o t)[i] = s[i]
         /\ \A i \in 1..Len(t) : (s \o t)[i + Len(s)] = t[i]
<1>1. /\ s \o t \in Seq(S) /\ Len(s \o t) = Len(s) + Len(t)
      /\ \A i \in 1..Len(s) + Len(t) :
           (s \o t)[i] = IF i <= Len(s) THEN s[i] ELSE t[i - Len(s)]
  BY ConcatProperties
<1>2. Len(s) \in Nat /\ Len(t) \in Nat
  BY LenProperties
<1>3. ASSUME NEW i \in 1..Len(s) PROVE (s \o t)[i] = s[i]
  <2>1. i \in 1..(Len(s) + Len(t)) /\ i <= Len(s)
    BY <1>2
  <2> QED
    BY <1>1, <2>1
<1>4. ASSUME NEW i \in 1..Len(t) PROVE (s \o t)[i + Len(s)] = t[i]
  <2>0. PICK m : m = Len(s)
    OBVIOUS
  <2>1. PICK n : n = Len(t)
    OBVIOUS
  <2>2. i + m \in 1..(m + n) /\ ~(i + m <= m) /\ (i + m) - m = i
    BY <1>2, <2>0, <2>1
  <2> QED
    BY <1>1, <2>0, <2>1, <2>2
<1> QED
  BY <1>1, <1>3, <1>4

\* A leaf, and nothing but a leaf, ends the type.
Ends(s) == \A j \in 1..Len(s) : s[j] \in Leaves <=> j = Len(s)

\* What a type is made of.
LEMMA TypeIsSequence ==
  ASSUME NEW t \in Type
  PROVE  /\ t \in Seq(Wraps \cup Leaves) /\ t # <<>>
         /\ Len(t) \in Nat \ {0} /\ DOMAIN t = 1..Len(t)
         /\ \A j \in 1..Len(t) : t[j] \in Leaves <=> j = Len(t)
<1>1. t \in Seq(Wraps \cup Leaves) /\ t # <<>>
  BY DEF Type, IsType
<1>2. Len(t) \in Nat \ {0} /\ DOMAIN t = 1..Len(t)
  BY <1>1, EmptySeq, LenProperties
<1>3. \A j \in DOMAIN t : t[j] \in Leaves <=> j = Len(t)
  BY DEF Type, IsType
<1> QED
  BY <1>1, <1>2, <1>3

\* A sequence that a leaf ends, and nothing but its end, is a type.
LEMMA SequenceIsType ==
  ASSUME NEW s \in Seq(Wraps \cup Leaves), Len(s) # 0,
         Ends(s)
  PROVE  s \in Type
<1>1. s # <<>> /\ DOMAIN s = 1..Len(s)
  BY EmptySeq, LenProperties
<1> QED
  BY <1>1 DEF Type, IsType, Ends

\* What is left of a type from a place on is a type.
LEMMA SuffixType ==
  ASSUME NEW t \in Type, NEW i \in DOMAIN t
  PROVE  /\ SubSeq(t, i, Len(t)) \in Type
         /\ Head(SubSeq(t, i, Len(t))) = t[i]
<1>1. PICK s : s = SubSeq(t, i, Len(t))
  OBVIOUS
<1>2. /\ t \in Seq(Wraps \cup Leaves) /\ Len(t) \in Nat /\ i \in 1..Len(t) /\ i \in Int
      /\ \A j \in 1..Len(t) : t[j] \in Wraps \cup Leaves
      /\ \A j \in 1..Len(t) : t[j] \in Leaves <=> j = Len(t)
  BY TypeIsSequence, ElementOfSeq
<1>3. /\ s \in Seq(Wraps \cup Leaves) /\ Len(s) = Len(t) - i + 1
      /\ \A j \in 1..(Len(t) - i + 1) : s[j] = t[i + j - 1]
  <2>1. Len(t) \in 0..Len(t) /\ i <= Len(t) + 1
    BY <1>2
  <2> QED
    BY <1>1, <1>2, <2>1, Segment
<1>4. ASSUME NEW j \in 1..Len(s) PROVE s[j] \in Leaves <=> j = Len(s)
  <2>1. s[j] = t[i + j - 1] /\ i + j - 1 \in 1..Len(t)
    BY <1>2, <1>3
  <2>2. t[i + j - 1] \in Leaves <=> i + j - 1 = Len(t)
    BY <1>2, <2>1
  <2> QED
    BY <1>2, <1>3, <2>1, <2>2
<1>5. Ends(s)
  BY <1>4 DEF Ends
<1>6. Len(s) # 0
  BY <1>2, <1>3
<1>7. s \in Type
  BY <1>3, <1>5, <1>6, SequenceIsType
<1>8. s[1] = t[i]
  <2>1. 1 \in 1..(Len(t) - i + 1) /\ i + 1 - 1 = i
    BY <1>2
  <2> QED
    BY <1>3, <2>1
<1>9. Head(s) = s[1]
  <2>1. s # <<>>
    BY <1>6
  <2> QED
    BY <1>3, <2>1
<1> QED
  BY <1>1, <1>7, <1>8, <1>9

\* So is the specialisation a type asks for, ...
LEMMA ApplicationsType ==
  ASSUME NEW t \in Type, NEW id \in Applications(t)
  PROVE  id \in Type /\ Head(id) = "G" /\ IsNominal(id)
<1>1. PICK i \in DOMAIN t : t[i] = "G" /\ id = SubSeq(t, i, Len(t))
  BY DEF Applications
<1> QED
  BY <1>1, SuffixType DEF IsNominal

\* ... the type behind a constructor, ...
LEMMA TailType ==
  ASSUME NEW t \in Type, Head(t) \in Wraps
  PROVE  Tail(t) \in Type
<1>1. t \in Seq(Wraps \cup Leaves) /\ t # <<>> /\ Len(t) \in Nat \ {0}
  BY TypeIsSequence
<1>2. t[1] \notin Leaves
  BY <1>1, TypesAssumption DEF Leaves, Wraps
<1>3. 2 \in DOMAIN t
  BY <1>1, <1>2, TypeIsSequence
<1>4. Tail(t) = SubSeq(t, 2, Len(t))
  BY <1>1, TailIsSubSeq
<1> QED
  BY <1>3, <1>4, SuffixType

\* ... and a template with a type for T.
LEMMA SubstituteType ==
  ASSUME NEW t \in Type, NEW arg \in Type
  PROVE  Substitute(t, arg) \in Type
<1>1. PICK u : u = Front(t)
  OBVIOUS
<1>2. PICK s : s = u \o arg
  OBVIOUS
<1>3. /\ t \in Seq(Wraps \cup Leaves) /\ Len(t) \in Nat \ {0}
      /\ \A j \in 1..Len(t) : t[j] \in Wraps \cup Leaves
      /\ \A j \in 1..Len(t) : t[j] \in Leaves <=> j = Len(t)
      /\ arg \in Seq(Wraps \cup Leaves) /\ Len(arg) \in Nat \ {0}
      /\ \A j \in 1..Len(arg) : arg[j] \in Leaves <=> j = Len(arg)
  BY TypeIsSequence, ElementOfSeq
<1>4. /\ u \in Seq(Wraps \cup Leaves) /\ Len(u) = Len(t) - 1
      /\ \A j \in 1..(Len(t) - 1) : u[j] = t[j]
  <2>1. u = SubSeq(t, 1, Len(t) - 1)
    BY <1>1 DEF Front
  <2>2. 1 \in 1..Len(t) /\ Len(t) - 1 \in 0..Len(t) /\ 1 <= (Len(t) - 1) + 1
    BY <1>3
  <2>3. PICK n : n = Len(t) - 1
    OBVIOUS
  <2>5. n \in 0..Len(t) /\ 1 <= n + 1 /\ t \in Seq(Wraps \cup Leaves) /\ u = SubSeq(t, 1, n)
    BY <2>1, <2>2, <2>3, <1>3
  <2>6. 1 \in 1..Len(t)
    BY <1>3
  <2>4. /\ u \in Seq(Wraps \cup Leaves)
        /\ Len(u) = n - 1 + 1
        /\ \A j \in 1..(n - 1 + 1) : u[j] = t[1 + j - 1]
    BY <2>5, <2>6, Segment
  <2> QED
    BY <2>3, <2>4, <1>3
<1>5. /\ s \in Seq(Wraps \cup Leaves) /\ Len(s) = Len(u) + Len(arg)
      /\ \A j \in 1..Len(u) : s[j] = u[j]
      /\ \A j \in 1..Len(arg) : s[j + Len(u)] = arg[j]
  BY <1>2, <1>3, <1>4, Joined
<1>6. ASSUME NEW j \in 1..Len(s) PROVE s[j] \in Leaves <=> j = Len(s)
  <2>0. Len(u) \in Nat /\ Len(arg) \in Nat \ {0} /\ j \in Nat /\ Len(s) = Len(u) + Len(arg)
        /\ Len(t) \in Nat /\ Len(u) = Len(t) - 1 /\ j >= 1 /\ j <= Len(s)
    BY <1>3, <1>4, <1>5
  <2>1. CASE j <= Len(u)
    <3>1. j \in 1..Len(u) /\ j \in 1..Len(t) /\ j # Len(t) /\ j # Len(s)
      BY <2>0, <2>1
    <3>2. s[j] = t[j]
      BY <3>1, <2>0, <1>4, <1>5
    <3>3. t[j] \notin Leaves
      BY <3>1, <1>3
    <3> QED
      BY <3>1, <3>2, <3>3
  <2>2. CASE ~(j <= Len(u))
    <3>1. j - Len(u) \in 1..Len(arg) /\ j = (j - Len(u)) + Len(u)
      BY <2>0, <2>2
    <3>2. PICK k \in 1..Len(arg) : j = k + Len(u)
      BY <3>1
    <3>3. s[j] = arg[k] /\ (k = Len(arg) <=> j = Len(s))
      BY <3>2, <2>0, <1>5
    <3>4. arg[k] \in Leaves <=> k = Len(arg)
      BY <1>3
    <3> QED
      BY <3>3, <3>4
  <2> QED
    BY <2>1, <2>2
<1>7. Ends(s)
  BY <1>6 DEF Ends
<1>8. Len(s) # 0
  BY <1>3, <1>4, <1>5
<1>9. s \in Type
  BY <1>5, <1>7, <1>8, SequenceIsType
<1> QED
  BY <1>1, <1>2, <1>9 DEF Substitute

\* A frame has types to resolve.
LEMMA FrameType ==
  ASSUME Forms, NEW id \in Type, IsNominal(id)
  PROVE  Frame(id) \in StackFrame /\ Frame(id).id = id
<1>1. CASE Head(id) = "G"
  <2>1. Tail(id) \in Type
    BY <1>1, TailType DEF Wraps
  <2>2. source["G"] \subseteq Type
    BY DEF Forms, Declarations
  <2>3. {Substitute(t, Tail(id)) : t \in source["G"]} \subseteq Type
    BY <2>1, <2>2, SubstituteType
  <2> QED
    BY <1>1, <2>3 DEF Frame, StackFrame
<1>2. CASE Head(id) # "G"
  <2>1. source[Head(id)] \subseteq Type
    BY <1>2 DEF Forms, Declarations, IsNominal
  <2> QED
    BY <1>2, <2>1 DEF Frame, StackFrame
<1> QED
  BY <1>1, <1>2

----------------------------------------------------------------------------
(* The stack.                                                               *)

\* A sequence without its last element.
LEMMA FrontOf ==
  ASSUME NEW S, NEW s \in Seq(S), s # <<>>
  PROVE  /\ Front(s) \in Seq(S) /\ Len(Front(s)) = Len(s) - 1
         /\ \A i \in 1..(Len(s) - 1) : Front(s)[i] = s[i]
         /\ Last(s) = s[Len(s)] /\ Len(s) \in 1..Len(s) /\ s[Len(s)] \in S
<1>1. Len(s) \in Nat /\ Len(s) # 0
  BY EmptySeq, LenProperties
<1>2. 1 \in 1..Len(s) /\ Len(s) - 1 \in 0..Len(s) /\ 1 <= (Len(s) - 1) + 1
  BY <1>1
<1>3. PICK n : n = Len(s) - 1
  OBVIOUS
<1>4. /\ Front(s) \in Seq(S)
      /\ Len(Front(s)) = n - 1 + 1
      /\ \A j \in 1..(n - 1 + 1) : Front(s)[j] = s[1 + j - 1]
  BY <1>2, <1>3, Segment DEF Front
<1>5. Len(s) \in 1..Len(s) /\ s[Len(s)] \in S
  BY <1>1, ElementOfSeq
<1> QED
  BY <1>1, <1>3, <1>4, <1>5 DEF Last

\* The innermost frame is about a type that is not finished.
LEMMA TopFrame ==
  ASSUME Forms, stack # <<>>
  PROVE  /\ Len(stack) \in DOMAIN stack /\ stack[Len(stack)] \in StackFrame
         /\ Last(stack) = stack[Len(stack)]
         /\ Open(stack[Len(stack)])
         /\ phase \in {"collect", "check"}
<1>1. stack \in Seq(StackFrame)
  BY DEF Forms
<1>2. Len(stack) \in DOMAIN stack /\ stack[Len(stack)] \in StackFrame
        /\ Last(stack) = stack[Len(stack)]
  BY <1>1, FrontOf, LenProperties
<1> QED
  BY <1>2 DEF Forms

\* The frames of a stack that is shorter, or whose frames are changed in place,
\* are about the same types.
Stacked(s) == s \in Seq(StackFrame) /\ \A i \in DOMAIN s : Open(s[i])

\* A frame is taken off, ...
LEMMA PoppedFrame ==
  ASSUME Forms, stack # <<>>
  PROVE  Stacked(Front(stack))
<1>1. stack \in Seq(StackFrame) /\ \A i \in DOMAIN stack : Open(stack[i])
  BY DEF Forms
<1>2. /\ Front(stack) \in Seq(StackFrame) /\ Len(Front(stack)) = Len(stack) - 1
      /\ \A i \in 1..(Len(stack) - 1) : Front(stack)[i] = stack[i]
      /\ Len(stack) \in Nat /\ DOMAIN stack = 1..Len(stack)
      /\ DOMAIN Front(stack) = 1..Len(Front(stack))
  BY <1>1, FrontOf, LenProperties
<1>3. ASSUME NEW i \in DOMAIN Front(stack) PROVE Open(Front(stack)[i])
  <2>1. i \in 1..(Len(stack) - 1) /\ i \in DOMAIN stack
    BY <1>2
  <2> QED
    BY <1>1, <1>2, <2>1
<1> QED
  BY <1>2, <1>3 DEF Stacked

\* ... one is put on, ...
LEMMA PushedFrame ==
  ASSUME Forms, NEW frame \in StackFrame, Open(frame)
  PROVE  Stacked(Append(stack, frame))
<1>1. stack \in Seq(StackFrame) /\ \A i \in DOMAIN stack : Open(stack[i])
  BY DEF Forms
<1>2. PICK s : s = Append(stack, frame)
  OBVIOUS
<1>3. /\ s \in Seq(StackFrame) /\ Len(s) = Len(stack) + 1 /\ DOMAIN s = 1..Len(s)
      /\ \A i \in 1..Len(stack) : s[i] = stack[i]
      /\ s[Len(stack) + 1] = frame
      /\ Len(stack) \in Nat /\ DOMAIN stack = 1..Len(stack)
  BY <1>1, <1>2, AppendProperties, LenProperties
<1>4. ASSUME NEW i \in DOMAIN s PROVE Open(s[i])
  <2>1. i \in 1..Len(stack) \/ i = Len(stack) + 1
    BY <1>3
  <2> QED
    BY <1>1, <1>3, <2>1
<1> QED
  BY <1>2, <1>3, <1>4 DEF Stacked

\* ... or one is changed in its place.
LEMMA ChangedFrame ==
  ASSUME Forms, NEW top \in DOMAIN stack, NEW changed \in StackFrame,
         changed.id = stack[top].id, stack' = [stack EXCEPT ![top] = changed]
  PROVE  /\ Stacked(stack') /\ Len(stack') = Len(stack)
         /\ \A i \in DOMAIN stack : i # top => stack'[i] = stack[i]
         /\ stack'[top] = changed
<1>1. /\ stack \in Seq(StackFrame) /\ \A i \in DOMAIN stack : Open(stack[i])
      /\ top \in DOMAIN stack
  BY DEF Forms
<1>2. PICK s : s = stack'
  OBVIOUS
<1>3. /\ s \in Seq(StackFrame) /\ DOMAIN s = DOMAIN stack /\ Len(s) = Len(stack)
      /\ \A i \in DOMAIN s : s[i] = IF i = top THEN changed ELSE stack[i]
  BY <1>1, <1>2, ExceptSeq, LenProperties
<1>4. \A i \in DOMAIN s : s[i].id = stack[i].id
  BY <1>3
<1>5. Stacked(s)
  BY <1>1, <1>3, <1>4 DEF Stacked, Open
<1> QED
  BY <1>1, <1>2, <1>3, <1>5

\* What reserving a type id does to the table and the stack.
LEMMA Reserved ==
  ASSUME Forms, NEW id \in Type, Head(id) = "G", id \notin DOMAIN defs, Reserve(id)
  PROVE  /\ DOMAIN defs' = DOMAIN defs \cup {id} /\ defs'[id] = {}
         /\ \A t \in DOMAIN defs : defs'[t] = defs[t]
         /\ stack' = Append(stack, Frame(id))
         /\ Frame(id) \in StackFrame /\ Frame(id).id = id
<1>1. IsNominal(id)
  BY DEF IsNominal
<1> QED
  BY <1>1, FrameType DEF Reserve

\* Reserved types stay reserved.
LEMMA StillOpen ==
  ASSUME NEW s, Stacked(s), DOMAIN defs \subseteq DOMAIN defs', phase' = phase, stack' = s
  PROVE  stack' \in Seq(StackFrame) /\ \A i \in DOMAIN stack' : Open(stack[i])'
<1>1. \A i \in DOMAIN s : Open(s[i])
  BY DEF Stacked
<1>2. \A i \in DOMAIN s : \/ Head(s[i].id) = "G" /\ s[i].id \in DOMAIN defs'
                          \/ Head(s[i].id) \in Names /\ phase' = "collect"
  BY <1>1 DEF Open
<1>3. s \in Seq(StackFrame)
  BY DEF Stacked
<1> QED
  BY <1>2, <1>3 DEF Open

----------------------------------------------------------------------------
(* Every step keeps the forms.                                              *)

\* What can be written in a declaration is a type.
LEMMA WrittenType ==
  ASSUME NEW o \in Declarations
  PROVE  Written(o) \subseteq Type
<1>1. \A t \in FieldTypes \cup Templates \cup Signatures \cup Bodies \cup Mains : t \in Type
  BY TypesAssumption DEF Type, IsType
<1> QED
  BY <1>1 DEF Written

\* Writing a field keeps the forms, ...
LEMMA WriteForms ==
  ASSUME Forms, NEW o \in Declarations, Write(o)
  PROVE  Forms'
<1>1. PICK t \in Written(o) : source' = [source EXCEPT ![o] = @ \cup {t}]
  BY DEF Write
<1>2. /\ phase = "write" /\ stack = <<>>
      /\ UNCHANGED <<phase, todo, defs, stack, queue, seen, depth>>
  BY DEF Write, Forms, tables, requests
<1>3. source' \in [Declarations -> SUBSET Type]
  BY <1>1, WrittenType DEF Forms
<1>4. stack' \in Seq(StackFrame) /\ \A i \in DOMAIN stack' : Open(stack[i])'
  BY <1>2 DEF Forms, Open
<1> QED
  BY <1>2, <1>3, <1>4 DEF Forms

\* ... so does the end of a phase, ...
LEMMA PhaseForms ==
  ASSUME Forms, Collect \/ Freeze \/ Accept
  PROVE  Forms'
<1>1. /\ stack = <<>> /\ stack' = stack
      /\ UNCHANGED <<source, defs, queue, seen, depth>>
      /\ phase' \in {"collect", "check", "emit", "rejected"}
  BY DEF Collect, Freeze, Accept, Forms, tables, requests
<1>2. todo' \subseteq Type
  <2>1. CASE Collect
    <3>1. todo' = {<<n>> : n \in Names}
      BY <2>1 DEF Collect
    <3>2. ASSUME NEW n \in Names PROVE <<n>> \in Type
      <4>1. PICK s : s = <<n>>
        OBVIOUS
      <4>2. n \in Leaves
        BY DEF Leaves
      <4>3. s \in Seq(Wraps \cup Leaves) /\ Len(s) = 1 /\ s[1] = n
        BY <4>1, <4>2
      <4>4. Ends(s)
        BY <4>2, <4>3 DEF Ends
      <4>5. Len(s) # 0
        BY <4>3
      <4>6. s \in Type
        BY <4>3, <4>4, <4>5, SequenceIsType
      <4> QED
        BY <4>1, <4>6
    <3> QED
      BY <3>1, <3>2
  <2>2. CASE Freeze
    BY <2>2 DEF Freeze, Forms, Declarations
  <2>3. CASE Accept
    BY <2>3 DEF Accept, Forms
  <2> QED
    BY <2>1, <2>2, <2>3
<1>3. phase' = "collect" => \A t \in todo' : Head(t) \in Names
  <2>1. CASE Collect
    BY <2>1 DEF Collect
  <2>2. CASE Freeze \/ Accept
    BY <2>2 DEF Freeze, Accept
  <2> QED
    BY <2>1, <2>2
<1>4. stack' \in Seq(StackFrame) /\ \A i \in DOMAIN stack' : Open(stack[i])'
  BY <1>1 DEF Forms
<1> QED
  BY <1>1, <1>2, <1>3, <1>4 DEF Forms

\* ... the first frame of a declaration, ...
LEMMA CollectDeclarationForms ==
  ASSUME Forms, CollectDeclaration
  PROVE  Forms'
<1>1. PICK id \in todo : todo' = todo \ {id} /\ stack' = <<Frame(id)>>
  BY DEF CollectDeclaration
<1>2. phase = "collect" /\ UNCHANGED <<source, phase, defs, queue, seen, depth>>
  BY DEF CollectDeclaration, tables, requests
<1>3. id \in Type /\ Head(id) \in Names
  BY <1>1, <1>2 DEF Forms
<1>4. Frame(id) \in StackFrame /\ Frame(id).id = id
  BY <1>3, FrameType DEF IsNominal
<1>5. PICK frame : frame = Frame(id)
  OBVIOUS
<1>6. stack' = <<frame>> /\ frame \in StackFrame /\ frame.id = id
  BY <1>1, <1>4, <1>5
<1>7. stack' \in Seq(StackFrame) /\ \A i \in DOMAIN stack' : Open(stack[i])'
  <2>1. DOMAIN stack' = {1} /\ stack'[1] = frame
    BY <1>6
  <2>2. stack' \in Seq(StackFrame)
    BY <1>6
  <2> QED
    BY <2>1, <2>2, <1>2, <1>3, <1>6 DEF Open
<1>8. todo' \subseteq Type /\ \A t \in todo' : Head(t) \in Names
  BY <1>1, <1>2 DEF Forms
<1> QED
  BY <1>2, <1>7, <1>8 DEF Forms

\* ... and a specialisation reserved.
LEMMA ReserveForms ==
  ASSUME Forms, phase \in {"collect", "check"}, NEW id \in Type, Head(id) = "G",
         id \notin DOMAIN defs, Reserve(id),
         UNCHANGED <<source, phase, queue, seen, depth>>, todo' \subseteq todo
  PROVE  Forms'
<1>1. /\ DOMAIN defs' = DOMAIN defs \cup {id} /\ defs'[id] = {}
      /\ \A t \in DOMAIN defs : defs'[t] = defs[t]
      /\ stack' = Append(stack, Frame(id))
      /\ Frame(id) \in StackFrame /\ Frame(id).id = id
  BY Reserved
<1>2. PICK frame \in StackFrame : frame = Frame(id)
  BY <1>1
<1>3. \A i \in DOMAIN stack : Open(stack[i])'
  BY <1>1 DEF Forms, Open
<1>4. Open(frame)'
  BY <1>1, <1>2 DEF Open
<1>5. /\ stack' \in Seq(StackFrame) /\ Len(stack') = Len(stack) + 1 /\ DOMAIN stack' = 1..Len(stack')
      /\ \A i \in 1..Len(stack) : stack'[i] = stack[i]
      /\ stack'[Len(stack) + 1] = frame
      /\ Len(stack) \in Nat /\ DOMAIN stack = 1..Len(stack)
  BY <1>1, <1>2, AppendProperties, LenProperties DEF Forms
<1>6. ASSUME NEW i \in DOMAIN stack' PROVE Open(stack[i])'
  <2>1. i \in DOMAIN stack \/ i = Len(stack) + 1
    BY <1>5
  <2>2. CASE i \in DOMAIN stack
    <3>1. stack'[i] = stack[i]
      BY <2>2, <1>5
    <3> QED
      BY <3>1, <2>2, <1>3 DEF Open
  <2>3. CASE i = Len(stack) + 1
    <3>1. stack'[i] = frame
      BY <2>3, <1>5
    <3> QED
      BY <3>1, <1>4 DEF Open
  <2> QED
    BY <2>1, <2>2, <2>3
<1>7. DOMAIN defs' \subseteq Type /\ \A t \in DOMAIN defs' : IsNominal(t) /\ defs'[t] \subseteq Type
  BY <1>1 DEF Forms, IsNominal
<1>8. todo' \subseteq Type /\ (phase' = "collect" => \A t \in todo' : Head(t) \in Names)
  BY DEF Forms
<1> QED
  BY <1>5, <1>6, <1>7, <1>8 DEF Forms

\* A field to resolve either changes the innermost frame and, when it asks for
\* what it cannot have, the errors; or a specialisation is reserved for it.
MarksField ==
  /\ UNCHANGED <<tables, count>>
  /\ errors \subseteq errors'
  /\ Stacked(stack') /\ Len(stack') = Len(stack)
  /\ \A i \in DOMAIN stack :
       /\ stack'[i].left \subseteq stack[i].left
       /\ stack'[i].found \subseteq stack[i].found \cup {t \in stack[i].left : ~RepeatsNil(t)}

\* The specialisations that what is not resolved yet can ask for.
Pending == todo \cup UNION {stack[i].left : i \in DOMAIN stack}
Asked == UNION {Applications(t) : t \in Pending}

ReservesOne ==
  \E id \in Type \cap Asked :
    /\ Head(id) = "G" /\ id \notin DOMAIN defs /\ Reserve(id)
    /\ ~AtCount /\ errors' = errors

\* A field is resolved in one of the two ways.
LEMMA ResolveKinds ==
  ASSUME Forms, ResolveField
  PROVE  MarksField \/ ReservesOne
<1> DEFINE top == Len(stack)
<1>1. /\ top \in DOMAIN stack /\ stack[top] \in StackFrame /\ stack # <<>>
  BY TopFrame DEF ResolveField
<1>2. PICK t \in stack[top].left :
       LET new == Applications(t) \ DOMAIN defs
           failed == (IF RepeatsNil(t) THEN {"repeated"} ELSE {}) \cup
                     (IF new = {} THEN {}
                      ELSE IF AtDepth THEN {"depth"}
                      ELSE IF AtCount THEN {"count"} ELSE {})
       IN  IF failed # {}
             THEN /\ errors' = errors \cup failed
                  /\ stack' = [stack EXCEPT ![top].left = @ \ {t}]
                  /\ UNCHANGED <<tables, count>>
             ELSE /\ errors' = errors
                  /\ IF new = {}
                       THEN /\ stack' = [stack EXCEPT ![top].left = @ \ {t},
                                                      ![top].found = @ \cup {t}]
                            /\ UNCHANGED <<tables, count>>
                       ELSE \E id \in new : Reserve(id)
  BY DEF ResolveField
<1>3. t \in Type /\ stack[top].left \subseteq Type /\ stack[top].found \subseteq Type
  BY <1>1 DEF StackFrame
<1> DEFINE new == Applications(t) \ DOMAIN defs
           failed == (IF RepeatsNil(t) THEN {"repeated"} ELSE {}) \cup
                     (IF new = {} THEN {}
                      ELSE IF AtDepth THEN {"depth"}
                      ELSE IF AtCount THEN {"count"} ELSE {})
<1>4. CASE failed # {}
  <2>1. /\ errors' = errors \cup failed
        /\ stack' = [stack EXCEPT ![top].left = @ \ {t}]
        /\ UNCHANGED <<tables, count>>
    BY <1>2, <1>4
  <2>2. PICK changed \in StackFrame : changed = [stack[top] EXCEPT !.left = @ \ {t}]
    BY <1>1, <1>3 DEF StackFrame
  <2>3. /\ changed.id = stack[top].id
        /\ changed.left = stack[top].left \ {t} /\ changed.found = stack[top].found
    BY <1>1, <2>2 DEF StackFrame
  <2>4. stack' = [stack EXCEPT ![top] = changed]
    BY <2>1, <2>2
  <2>5. /\ Stacked(stack') /\ Len(stack') = Len(stack)
        /\ \A i \in DOMAIN stack : i # top => stack'[i] = stack[i]
        /\ stack'[top] = changed
    <3>1. top \in DOMAIN stack
      BY <1>1
    <3> HIDE DEF top
    <3> QED
      BY <2>3, <2>4, <3>1, ChangedFrame
  <2> QED
    BY <2>1, <2>3, <2>5 DEF MarksField
<1>5. CASE failed = {} /\ new = {}
  <2>1. /\ errors' = errors
        /\ stack' = [stack EXCEPT ![top].left = @ \ {t}, ![top].found = @ \cup {t}]
        /\ UNCHANGED <<tables, count>>
    BY <1>2, <1>5
  <2>2. PICK changed \in StackFrame :
          changed = [stack[top] EXCEPT !.left = @ \ {t}, !.found = @ \cup {t}]
    BY <1>1, <1>3 DEF StackFrame
  <2>3. /\ changed.id = stack[top].id
        /\ changed.left = stack[top].left \ {t} /\ changed.found = stack[top].found \cup {t}
    BY <1>1, <2>2 DEF StackFrame
  <2>4. stack' = [stack EXCEPT ![top] = changed]
    BY <2>1, <2>2 DEF StackFrame
  <2>5. /\ Stacked(stack') /\ Len(stack') = Len(stack)
        /\ \A i \in DOMAIN stack : i # top => stack'[i] = stack[i]
        /\ stack'[top] = changed
    <3>1. top \in DOMAIN stack
      BY <1>1
    <3> HIDE DEF top
    <3> QED
      BY <2>3, <2>4, <3>1, ChangedFrame
  <2>6. ~RepeatsNil(t)
    BY <1>5
  <2>7. \A i \in DOMAIN stack :
          /\ stack'[i].left \subseteq stack[i].left
          /\ stack'[i].found \subseteq stack[i].found \cup {u \in stack[i].left : ~RepeatsNil(u)}
    BY <1>2, <2>3, <2>5, <2>6
  <2> QED
    BY <2>1, <2>5, <2>7 DEF MarksField
<1>6. CASE failed = {} /\ new # {}
  <2>1. ~AtCount
    BY <1>6
  <2>2. errors' = errors /\ \E id \in new : Reserve(id)
    BY <1>2, <1>6
  <2>3. \A id \in new : id \in Type \cap Asked /\ Head(id) = "G" /\ id \notin DOMAIN defs
    <3>1. t \in Pending
      BY <1>1 DEF Pending
    <3> QED
      BY <1>3, <3>1, ApplicationsType DEF Asked
  <2> QED
    BY <2>1, <2>2, <2>3 DEF ReservesOne
<1> QED
  BY <1>4, <1>5, <1>6

\* Both keep the forms.
LEMMA ResolveForms ==
  ASSUME Forms, ResolveField
  PROVE  Forms'
<1>1. /\ UNCHANGED <<source, phase, todo, queue, seen, depth>> /\ phase \in {"collect", "check"}
      /\ stack # <<>>
  BY TopFrame DEF ResolveField, declared
<1>2. CASE MarksField
  <2>1. UNCHANGED defs /\ Stacked(stack')
    BY <1>2 DEF MarksField, tables
  <2>2. PICK s : s = stack'
    OBVIOUS
  <2>3. stack' \in Seq(StackFrame) /\ \A i \in DOMAIN stack' : Open(stack[i])'
    BY <1>1, <2>1, <2>2, StillOpen
  <2> QED
    BY <1>1, <2>1, <2>3 DEF Forms
<1>3. CASE ReservesOne
  BY <1>1, <1>3, ReserveForms DEF ReservesOne
<1> QED
  BY <1>2, <1>3, ResolveKinds

\* A mention in a body changes nothing but the errors, or reserves.
LEMMA MentionKinds ==
  ASSUME Forms, MentionType
  PROVE  \/ UNCHANGED <<tables, stack, count>> /\ errors \subseteq errors'
         \/ ReservesOne
<1>1. PICK t \in todo :
        LET new == Applications(t) \ DOMAIN defs
        IN  IF new = {} \/ AtDepth \/ AtCount
              THEN /\ errors' = errors \cup (IF new = {} THEN {} ELSE {"limit"})
                   /\ UNCHANGED <<tables, stack, count>>
              ELSE /\ errors' = errors
                   /\ \E id \in new : Reserve(id)
  BY DEF MentionType
<1>2. \A id \in Applications(t) \ DOMAIN defs :
         id \in Type \cap Asked /\ Head(id) = "G" /\ id \notin DOMAIN defs
  BY ApplicationsType DEF Forms, Asked, Pending
<1> QED
  BY <1>1, <1>2 DEF ReservesOne

\* The signature of a function is of types for every argument, ...
LEMMA SignatureType ==
  ASSUME Forms, NEW arg \in Type
  PROVE  Signature(arg) \subseteq Type
<1>1. source["Signature"] \subseteq Type
  BY DEF Forms, Declarations
<1> QED
  BY <1>1, SubstituteType DEF Signature

\* ... its request stays one when the signature is resolved, ...
LEMMA SignedQueue ==
  ASSUME queue \in Seq(Request), queue # <<>>, queue' = [queue EXCEPT ![1].signed = TRUE]
  PROVE  /\ Head(queue) \in Request /\ queue' \in Seq(Request)
         /\ DOMAIN queue' = DOMAIN queue /\ 1 \in DOMAIN queue /\ Head(queue) = queue[1]
         /\ \A i \in DOMAIN queue : queue'[i].of = queue[i].of
<1>1. /\ Head(queue) \in Request /\ Head(queue) = queue[1]
      /\ Len(queue) \in Nat \ {0} /\ DOMAIN queue = 1..Len(queue)
  BY HeadTailProperties, LenProperties, EmptySeq
<1>2. \A i \in DOMAIN queue : queue[i] \in Request
  BY <1>1, ElementOfSeq
<1>3. PICK q : q = [queue EXCEPT ![1].signed = TRUE]
  OBVIOUS
<1>4. /\ DOMAIN q = 1..Len(queue)
      /\ q[1] = [queue[1] EXCEPT !.signed = TRUE]
      /\ \A i \in DOMAIN queue \ {1} : q[i] = queue[i]
  <2>1. PICK r : r = [queue[1] EXCEPT !.signed = TRUE]
    OBVIOUS
  <2>2. q = [queue EXCEPT ![1] = r]
    BY <1>3, <2>1
  <2>3. DOMAIN q = DOMAIN queue /\ q[1] = r /\ \A i \in DOMAIN queue \ {1} : q[i] = queue[i]
    BY <1>1, <2>2
  <2> QED
    BY <1>1, <2>1, <2>3
<1>5. ASSUME NEW r \in Request
      PROVE  [r EXCEPT !.signed = TRUE] \in Request /\ [r EXCEPT !.signed = TRUE].of = r.of
  BY DEF Request
<1>6. \A i \in 1..Len(queue) : q[i] \in Request /\ q[i].of = queue[i].of
  <2> TAKE i \in 1..Len(queue)
  <2>1. CASE i = 1
    BY <1>1, <1>2, <1>4, <1>5, <2>1
  <2>2. CASE i # 1
    BY <1>1, <1>2, <1>4, <2>2
  <2> QED
    BY <2>1, <2>2
<1>7. q \in [1..Len(queue) -> Request]
  <2>1. q = [i \in 1..Len(queue) |-> q[i]]
    BY <1>1, <1>3
  <2> QED
    BY <1>6, <2>1
<1>8. q \in Seq(Request)
  BY <1>1, <1>7, SeqDef
<1> QED
  BY <1>1, <1>3, <1>4, <1>6, <1>8

\* ... so that the steps in a body keep the forms, ...
LEMMA BodyForms ==
  ASSUME Forms, MentionType \/ CallFunction \/ NextSignature \/ NextBody
  PROVE  Forms'
<1>1. phase = "check" /\ stack = <<>> /\ UNCHANGED <<source, phase>>
  BY DEF MentionType, CallFunction, NextSignature, NextBody
<1>2. CASE MentionType
  <2>1. todo' \subseteq todo /\ UNCHANGED <<queue, seen, depth>>
    BY <1>2 DEF MentionType
  <2>2. CASE UNCHANGED <<tables, stack, count>>
    BY <1>1, <2>1, <2>2 DEF Forms, tables, Open
  <2>3. CASE ReservesOne
    BY <1>1, <2>1, <2>3, ReserveForms DEF ReservesOne
  <2> QED
    BY <1>2, <2>2, <2>3, MentionKinds
<1>3. CASE CallFunction
  <2>1. UNCHANGED <<defs, stack, depth>>
    BY <1>3 DEF CallFunction, tables
  <2>2. PICK t \in todo :
          /\ Head(t) = "F"
          /\ todo' = (todo \ {t}) \cup {Tail(t)} \cup Signature(Tail(t))
          /\ \/ UNCHANGED <<queue, seen>>
             \/ /\ seen' = seen \cup {t}
                /\ queue' = Append(queue, [of |-> t, depth |-> depth + 1, signed |-> FALSE])
    BY <1>3 DEF CallFunction
  <2>3. t \in Type /\ [of |-> t, depth |-> depth + 1, signed |-> FALSE] \in Request
    BY <2>2 DEF Forms, Request
  <2>4. queue' \in Seq(Request)
    <3>1. PICK request \in Request : request = [of |-> t, depth |-> depth + 1, signed |-> FALSE]
      BY <2>3
    <3>2. Append(queue, request) \in Seq(Request) /\ queue \in Seq(Request)
      BY AppendProperties DEF Forms
    <3> QED
      BY <2>2, <3>1, <3>2
  <2>5. seen' \subseteq Type
    BY <2>2, <2>3 DEF Forms
  <2>6. Tail(t) \in Type /\ Signature(Tail(t)) \subseteq Type
    BY <2>2, <2>3, TailType, SignatureType DEF Wraps
  <2>7. todo' \subseteq Type
    BY <2>2, <2>6 DEF Forms
  <2> QED
    BY <1>1, <2>1, <2>4, <2>5, <2>7 DEF Forms, Open
<1>4. CASE NextBody
  <2>1. /\ todo' = {Substitute(t, Tail(Head(queue).of)) : t \in source["F"]}
        /\ depth' = Head(queue).depth /\ queue # <<>> /\ queue' = Tail(queue)
        /\ UNCHANGED <<defs, stack, seen>>
    BY <1>4 DEF NextBody, tables
  <2>2. Head(queue) \in Request /\ queue' \in Seq(Request)
    BY <2>1, HeadTailProperties DEF Forms
  <2>3. Tail(Head(queue).of) \in Type /\ depth' \in Nat
    BY <2>1, <2>2, TailType DEF Request, Wraps
  <2>4. source["F"] \subseteq Type
    BY DEF Forms, Declarations
  <2>5. todo' \subseteq Type
    BY <2>1, <2>3, <2>4, SubstituteType
  <2> QED
    BY <1>1, <2>1, <2>2, <2>3, <2>5 DEF Forms, Open
<1>5. CASE NextSignature
  <2>1. /\ todo' = Signature(Tail(Head(queue).of)) /\ depth' = 0
        /\ queue # <<>> /\ queue' = [queue EXCEPT ![1].signed = TRUE]
        /\ UNCHANGED <<defs, stack, seen>>
    BY <1>5 DEF NextSignature, tables
  <2>2. Head(queue) \in Request /\ queue' \in Seq(Request)
    BY <2>1, SignedQueue DEF Forms
  <2>3. Tail(Head(queue).of) \in Type
    BY <2>2, TailType DEF Request, Wraps
  <2>4. todo' \subseteq Type
    BY <2>1, <2>3, SignatureType
  <2> QED
    BY <1>1, <2>1, <2>2, <2>4 DEF Forms, Open
<1> QED
  BY <1>2, <1>3, <1>4, <1>5

\* ... so does a type that is finished, and it is no new specialisation, ...
LEMMA FinishForms ==
  ASSUME Forms, FinishDeclaration \/ FinishSpecialisation
  PROVE  Forms' /\ DOMAIN defs \subseteq DOMAIN defs'
           /\ Specialised(defs') = Specialised(defs)
<1> DEFINE top == stack[Len(stack)]
<1>1. /\ stack # <<>> /\ stack' = Front(stack)
      /\ UNCHANGED <<source, phase, todo, queue, seen, depth>>
  BY DEF FinishDeclaration, FinishSpecialisation, declared, requests
<1>2. /\ top \in StackFrame /\ Last(stack) = top /\ Open(top)
      /\ phase \in {"collect", "check"}
  BY <1>1, TopFrame
<1>3. top.id \in Type /\ top.found \subseteq Type
  BY <1>2 DEF StackFrame
<1>4. /\ DOMAIN defs' = DOMAIN defs \cup {top.id}
      /\ \A t \in DOMAIN defs' : defs'[t] = IF t = top.id THEN top.found ELSE defs[t]
  <2>1. CASE FinishDeclaration
    BY <1>2, <2>1 DEF FinishDeclaration
  <2>2. CASE FinishSpecialisation
    <3>1. phase = "check" /\ defs' = [defs EXCEPT ![top.id] = top.found]
      BY <1>2, <2>2 DEF FinishSpecialisation
    <3>2. top.id \in DOMAIN defs
      BY <1>2, <3>1 DEF Open
    <3> QED
      BY <3>1, <3>2
  <2> QED
    BY <2>1, <2>2
<1>5. IsNominal(top.id)
  BY <1>2 DEF Open, IsNominal
<1>6. DOMAIN defs' \subseteq Type /\ \A t \in DOMAIN defs' : IsNominal(t) /\ defs'[t] \subseteq Type
  BY <1>3, <1>4, <1>5 DEF Forms
<1>7. PICK s : s = Front(stack)
  OBVIOUS
<1>8. stack' \in Seq(StackFrame) /\ \A i \in DOMAIN stack' : Open(stack[i])'
  <2>1. Stacked(s) /\ stack' = s /\ phase' = phase /\ DOMAIN defs \subseteq DOMAIN defs'
    BY <1>1, <1>4, <1>7, PoppedFrame
  <2> QED
    BY <2>1, StillOpen
<1>9. Specialised(defs') = Specialised(defs)
  <2>1. "G" \notin Names
    BY TypesAssumption DEF Wraps
  <2> QED
    BY <1>2, <1>4, <2>1 DEF Open, Specialised
<1>10. Forms'
  BY <1>1, <1>2, <1>6, <1>8 DEF Forms
<1> QED
  BY <1>4, <1>9, <1>10

\* ... and so do the walks of the emitter.
LEMMA WalkForms ==
  ASSUME Forms, Start \/ Descend \/ Ascend \/ UNCHANGED vars
  PROVE  Forms'
<1>1. UNCHANGED <<source, phase, todo, defs, stack, queue, seen, depth>>
  BY DEF Start, Descend, Ascend, vars, declared, tables, requests
<1> QED
  BY <1>1 DEF Forms, Open

\* The forms hold at the start ...
LEMMA InitForms == Init => Forms
<1> SUFFICES ASSUME Init PROVE Forms
  OBVIOUS
<1>1. /\ phase = "write" /\ todo = {} /\ defs = <<>> /\ stack = <<>> /\ queue = <<>>
      /\ seen = {} /\ depth = 0 /\ source = [o \in Declarations |-> {}]
  BY DEF Init
<1>2. DOMAIN defs = {} /\ DOMAIN stack = {} /\ stack \in Seq(StackFrame) /\ queue \in Seq(Request)
  BY <1>1
<1> QED
  BY <1>1, <1>2 DEF Forms

\* ... and after every step.
LEMMA StepForms == Forms /\ [Next]_vars => Forms'
<1> SUFFICES ASSUME Forms, [Next]_vars PROVE Forms'
  OBVIOUS
<1>1. CASE Start \/ Descend \/ Ascend \/ UNCHANGED vars
  BY <1>1, WalkForms
<1>2. CASE Collect \/ Freeze \/ Accept
  BY <1>2, PhaseForms
<1>3. CASE MentionType \/ CallFunction \/ NextSignature \/ NextBody
  BY <1>3, BodyForms
<1>4. CASE FinishDeclaration \/ FinishSpecialisation
  BY <1>4, FinishForms
<1> QED
  BY <1>1, <1>2, <1>3, <1>4, WriteForms, CollectDeclarationForms, ResolveForms
  DEF Next, Resolve

----------------------------------------------------------------------------
(* The tables.                                                              *)

\* Errors stay, and a body is left only with its specialisations finished: each
\* refreshed the tables or reported a cycle.
LEMMA TablesStep ==
  Forms /\ TablesAreCurrent /\ [Next]_vars => TablesAreCurrent'
<1> SUFFICES ASSUME Forms, TablesAreCurrent, [Next]_vars,
                    phase' \in {"check", "emit"}, stack' = <<>>, errors' = {}
             PROVE  moveOnly' = MoveOnlySupport(defs') /\ equality' = EqualitySupport(defs')
  BY DEF TablesAreCurrent
<1>1. CASE Freeze
  BY <1>1 DEF Freeze
<1>2. CASE FinishSpecialisation
  BY <1>2 DEF FinishSpecialisation
<1>3. CASE UNCHANGED <<tables, stack>> /\ errors \subseteq errors' /\
           (phase' = phase \/ phase = "check")
  BY <1>3 DEF TablesAreCurrent, tables
<1>4. ReservesOne => stack' # <<>>
  <2>1. ASSUME NEW id \in Type, Head(id) = "G", id \notin DOMAIN defs, Reserve(id)
        PROVE  stack' # <<>>
    <3>1. PICK frame \in StackFrame : stack' = Append(stack, frame)
      BY <2>1, Reserved
    <3> QED
      BY <3>1, AppendProperties DEF Forms
  <2> QED
    BY <2>1 DEF ReservesOne
<1>5. CASE ResolveField
  <2>1. stack # <<>> /\ stack \in Seq(StackFrame)
    BY <1>5 DEF ResolveField, Forms
  <2>2. CASE MarksField
    <3>1. Len(stack') = Len(stack) /\ Len(stack) # 0
      BY <2>1, <2>2, EmptySeq DEF MarksField
    <3> QED
      BY <3>1
  <2> QED
    BY <1>4, <1>5, <2>2, ResolveKinds
<1>6. CASE MentionType
  <2>1. phase' = phase
    BY <1>6 DEF MentionType
  <2> QED
    BY <1>3, <1>4, <1>6, <2>1, MentionKinds DEF tables
<1>7. CASE CallFunction \/ NextSignature \/ NextBody \/ Accept
  BY <1>3, <1>7 DEF CallFunction, NextSignature, NextBody, Accept, requests
<1>8. CASE Start \/ Descend \/ Ascend \/ UNCHANGED vars
  BY <1>3, <1>8 DEF Start, Descend, Ascend, vars, declared, tables
<1>9. CASE (\E o \in Declarations : Write(o)) \/ Collect \/ CollectDeclaration \/ FinishDeclaration
  BY <1>9 DEF Write, Collect, CollectDeclaration, FinishDeclaration, declared
<1> QED
  BY <1>1, <1>2, <1>5, <1>6, <1>7, <1>8, <1>9 DEF Next, Resolve

\* Whatever is specialised in the middle of what, the two tables say of every
\* type what its definition says once a body without error is checked.
THEOREM TablesCorrect == Spec => []TablesAreCurrent
<1>1. Init => TablesAreCurrent
  BY DEF Init, TablesAreCurrent
<1> QED
  BY <1>1, InitForms, StepForms, TablesStep, PTL DEF Spec

----------------------------------------------------------------------------
(* The counter.                                                             *)

Instances == Cardinality(Specialised(defs))

CountInv ==
  /\ IsFiniteSet(Specialised(defs)) /\ IsFiniteSet(seen)
  /\ phase \in {"write", "collect"} => seen = {} /\ Instances <= MaxCount
  /\ phase \notin {"write", "collect"} =>
       count = Instances + Cardinality(seen) /\ count <= MaxCount

\* A specialisation is reserved under the limit, and counted where it is made.
LEMMA ReserveCounts ==
  ASSUME Forms, CountInv, ReservesOne, phase' = phase, seen' = seen,
         phase \in {"collect", "check"}
  PROVE  CountInv'
<1>1. PICK id \in Type : Head(id) = "G" /\ id \notin DOMAIN defs /\ Reserve(id) /\ ~AtCount
  BY DEF ReservesOne
<1>2. Specialised(defs') = Specialised(defs) \cup {id} /\ id \notin Specialised(defs)
  <2>1. DOMAIN defs' = DOMAIN defs \cup {id}
    BY <1>1, Reserved
  <2> QED
    BY <1>1, <2>1 DEF Specialised
<1>3. IsFiniteSet(Specialised(defs')) /\ Instances' = Instances + 1
  BY <1>2, FS_AddElement DEF CountInv, Instances
<1>4. Instances \in Nat /\ Cardinality(seen) \in Nat /\ MaxCount \in Nat
  BY FS_CardinalityType, TypesAssumption DEF CountInv, Instances
<1>5. CASE phase = "collect"
  <2>1. Instances < MaxCount
    BY <1>1, <1>4, <1>5 DEF AtCount, Instances
  <2> QED
    BY <1>3, <1>4, <1>5, <2>1 DEF CountInv
<1>6. CASE phase = "check"
  <2>1. count' = count + 1 /\ ~(count >= MaxCount)
    BY <1>1, <1>6 DEF Reserve, AtCount
  <2>2. count = Instances + Cardinality(seen)
    BY <1>6 DEF CountInv
  <2> QED
    BY <1>3, <1>4, <1>6, <2>1, <2>2 DEF CountInv
<1> QED
  BY <1>5, <1>6

\* Every step keeps the count.
LEMMA CountStep ==
  Forms /\ CountInv /\ [Next]_vars => CountInv'
<1> SUFFICES ASSUME Forms, CountInv, [Next]_vars PROVE CountInv'
  OBVIOUS
<1>1. Instances \in Nat /\ Cardinality(seen) \in Nat /\ MaxCount \in Nat
  BY FS_CardinalityType, TypesAssumption DEF CountInv, Instances
<1>2. ASSUME Specialised(defs') = Specialised(defs), UNCHANGED <<count, seen>>,
             phase' = phase \/ {phase, phase'} = {"write", "collect"}
                \/ {phase, phase'} \cap {"write", "collect"} = {}
      PROVE  CountInv'
  <2>1. Instances' = Instances
    BY <1>2 DEF Instances
  <2>2. phase' \in {"write", "collect"} <=> phase \in {"write", "collect"}
    BY <1>2
  <2>3. count' = count /\ seen' = seen
    BY <1>2
  <2>4. IsFiniteSet(Specialised(defs')) /\ IsFiniteSet(seen')
    BY <1>2, <2>3 DEF CountInv
  <2> QED
    BY <2>1, <2>2, <2>3, <2>4 DEF CountInv
<1>3. CASE Freeze
  <2>1. /\ phase = "collect" /\ phase' = "check" /\ defs' = defs /\ seen' = seen
        /\ count' = Cardinality(Specialised(defs))
    BY <1>3 DEF Freeze
  <2>2. Cardinality({}) = 0
    BY FS_EmptySet
  <2> QED
    BY <1>1, <2>1, <2>2 DEF CountInv, Instances
<1>4. CASE CallFunction
  <2>1. phase = "check" /\ phase' = phase /\ defs' = defs
    BY <1>4 DEF CallFunction, tables
  <2>2. PICK t \in todo :
          \/ UNCHANGED <<seen, count>>
          \/ t \notin seen /\ ~(count >= MaxCount) /\ seen' = seen \cup {t} /\ count' = count + 1
    BY <1>4 DEF CallFunction
  <2>3. CASE UNCHANGED <<seen, count>>
    BY <1>2, <2>1, <2>3
  <2>4. CASE t \notin seen /\ ~(count >= MaxCount) /\ seen' = seen \cup {t} /\ count' = count + 1
    <3>1. IsFiniteSet(seen') /\ Cardinality(seen') = Cardinality(seen) + 1
      BY <2>4, FS_AddElement DEF CountInv
    <3>2. Instances' = Instances /\ Specialised(defs') = Specialised(defs)
      BY <2>1 DEF Instances
    <3>3. count = Instances + Cardinality(seen)
      BY <2>1 DEF CountInv
    <3> QED
      BY <1>1, <2>1, <2>4, <3>1, <3>2, <3>3 DEF CountInv
  <2> QED
    BY <2>2, <2>3, <2>4
<1>5. CASE ResolveField
  <2>1. /\ phase' = phase /\ seen' = seen /\ phase \in {"collect", "check"}
    BY <1>5, TopFrame DEF ResolveField, declared
  <2>2. CASE MarksField
    BY <1>2, <2>1, <2>2 DEF MarksField, tables
  <2> QED
    BY <1>5, <2>1, <2>2, ReserveCounts, ResolveKinds
<1>6. CASE MentionType
  <2>1. phase' = phase /\ seen' = seen /\ phase = "check"
    BY <1>6 DEF MentionType
  <2> QED
    BY <1>2, <1>6, <2>1, ReserveCounts, MentionKinds DEF tables
<1>7. CASE FinishDeclaration \/ FinishSpecialisation
  <2>1. phase' = phase /\ UNCHANGED <<count, seen>>
    BY <1>7 DEF FinishDeclaration, FinishSpecialisation, declared, requests
  <2> QED
    BY <1>2, <1>7, <2>1, FinishForms
<1>8. CASE (\E o \in Declarations : Write(o)) \/ Collect \/ CollectDeclaration \/ NextSignature \/ NextBody
             \/ Start \/ Descend \/ Ascend \/ UNCHANGED vars
  <2>1. /\ UNCHANGED <<defs, count, seen>>
        /\ phase' = phase \/ {phase, phase'} = {"write", "collect"}
    BY <1>8 DEF Write, Collect, CollectDeclaration, NextSignature, NextBody, Start, Descend, Ascend, vars,
                declared, tables, requests
  <2> QED
    BY <1>2, <2>1
<1>9. CASE Accept
  <2>1. /\ UNCHANGED <<defs, count, seen>>
        /\ phase = "check" /\ phase' \in {"emit", "rejected"}
    BY <1>9 DEF Accept, tables, requests
  <2> QED
    BY <1>2, <2>1
<1> QED
  BY <1>3, <1>4, <1>5, <1>6, <1>7, <1>8, <1>9 DEF Next, Resolve

\* The counter the limit is tested against is the number of specialisations of
\* structs and functions there are, those of the declarations included, and
\* the limit is kept, whatever it is.
THEOREM CountCorrect == Spec => []CountIsExact
<1>1. Init => CountInv
  <2> SUFFICES ASSUME Init PROVE CountInv
    OBVIOUS
  <2>1. Specialised(defs) = {} /\ seen = {} /\ phase = "write"
    BY DEF Init, Specialised
  <2>2. IsFiniteSet({}) /\ Cardinality({}) = 0 /\ MaxCount \in Nat
    BY FS_EmptySet, TypesAssumption
  <2> QED
    BY <2>1, <2>2 DEF CountInv, Instances
<1>2. CountInv => CountIsExact
  BY DEF CountInv, CountIsExact, Instances
<1> QED
  BY <1>1, <1>2, InitForms, StepForms, CountStep, PTL DEF Spec

----------------------------------------------------------------------------
(***************************************************************************)
(* Walks.  "Found" is a recursive function, so what it holds is shown by   *)
(* induction, on a set of numbers.                                         *)
(***************************************************************************)

\* A set of numbers has a least one.
LEMMA Least ==
  ASSUME NEW S \in SUBSET Nat, S # {}
  PROVE  \E n \in S : \A m \in S : n <= m
<1>1. PICK R : R = OpToRel(<, Nat)
  OBVIOUS
<1>2. IsWellFoundedOn(R, Nat)
  BY <1>1, NatLessThanWellFounded
<1>3. PICK n \in S : \A m \in S : ~(<<m, n>> \in R)
  BY <1>2, WFMin
<1>4. ASSUME NEW m \in S PROVE n <= m
  <2>1. m \in Nat /\ n \in Nat /\ (m < n => <<m, n>> \in R)
    BY <1>1 DEF OpToRel
  <2> QED
    BY <1>3, <2>1
<1> QED
  BY <1>4

\* By induction, what holds at 0 and at the next number holds up to n.
LEMMA Induction ==
  ASSUME NEW n \in Nat, NEW S, 0 \in S, \A i \in 0..(n - 1) : i \in S => i + 1 \in S
  PROVE  \A i \in 0..n : i \in S
<1> DEFINE Missing == {i \in 0..n : i \notin S}
<1> SUFFICES ASSUME Missing # {} PROVE FALSE
  OBVIOUS
<1>1. Missing \in SUBSET Nat
  OBVIOUS
<1>2. PICK k \in Missing : \A m \in Missing : k <= m
  BY <1>1, Least
<1>3. k # 0 /\ k \in 0..n
  BY <1>2
<1>4. k - 1 \in 0..(n - 1) /\ k - 1 \in 0..n /\ ~(k <= k - 1) /\ (k - 1) + 1 = k
  BY <1>3
<1>5. k - 1 \in S
  BY <1>2, <1>4
<1> QED
  BY <1>2, <1>4, <1>5

\* What is found at a depth that is followed is found at every depth above.
LEMMA DepthsClosed ==
  ASSUME NEW n \in Depths
  PROVE  n \in Nat /\ \A i \in 0..n : i \in Depths
BY TypesAssumption

\* By induction, what holds at depth 0 and at the next depth holds at every one.
LEMMA DepthInduction ==
  ASSUME NEW S, 0 \in S, \A i \in Nat : i + 1 \in Depths /\ i \in S => i + 1 \in S
  PROVE  Depths \subseteq S
<1> SUFFICES ASSUME NEW n \in Depths PROVE n \in S
  OBVIOUS
<1>1. n \in Nat /\ \A i \in 0..(n - 1) : i \in Nat /\ i + 1 \in Depths
  BY DepthsClosed
<1>2. \A i \in 0..n : i \in S
  BY <1>1, Induction
<1> QED
  BY <1>1, <1>2

\* The layers of types found by looking into the types of a universe U.
Layers(f, from, P, D) ==
  /\ f[0] = from
  /\ \A i \in Nat : i + 1 \in D => f[i + 1] = f[i] \cup UNION {P[t] : t \in f[i]}

\* There are layers down to every number, ...
LEMMA FiniteLayers ==
  ASSUME NEW U, NEW from \in SUBSET U, NEW P \in [U -> SUBSET U], NEW m \in Nat
  PROVE  \E f \in [0..m -> SUBSET U] : Layers(f, from, P, 0..m)
<1> DEFINE S == {n \in Nat : \E f \in [0..n -> SUBSET U] : Layers(f, from, P, 0..n)}
<1>1. 0 \in S
  <2> DEFINE f == [i \in 0..0 |-> from]
  <2>1. f \in [0..0 -> SUBSET U] /\ f[0] = from
    OBVIOUS
  <2>2. \A i \in Nat : i + 1 \notin 0..0
    OBVIOUS
  <2>3. Layers(f, from, P, 0..0)
    BY <2>1, <2>2 DEF Layers
  <2> QED
    BY <2>1, <2>3
<1>2. ASSUME NEW n \in Nat, n \in S PROVE n + 1 \in S
  <2>1. PICK f \in [0..n -> SUBSET U] : Layers(f, from, P, 0..n)
    BY <1>2
  <2> DEFINE more == f[n] \cup UNION {P[t] : t \in f[n]}
             g == [i \in 0..(n + 1) |-> IF i = n + 1 THEN more ELSE f[i]]
  <2>2. more \in SUBSET U /\ n \in 0..n
    BY <2>1
  <2>3. g \in [0..(n + 1) -> SUBSET U]
    <3>1. \A i \in 0..(n + 1) : i # n + 1 => i \in 0..n
      OBVIOUS
    <3> HIDE DEF more
    <3> QED
      BY <2>1, <2>2, <3>1
  <2>4. g[0] = from
    BY <2>1 DEF Layers
  <2>5. ASSUME NEW i \in Nat, i + 1 \in 0..(n + 1)
        PROVE  g[i + 1] = g[i] \cup UNION {P[t] : t \in g[i]}
    <3>1. i \in 0..n /\ i # n + 1 /\ i \in 0..(n + 1) /\ i + 1 \in 0..(n + 1)
      BY <2>5
    <3>2. g[i] = f[i]
      BY <3>1
    <3>3. CASE i = n
      BY <3>1, <3>2, <3>3
    <3>4. CASE i # n
      <4>1. i + 1 \in 0..n /\ i + 1 # n + 1
        BY <3>1, <3>4
      <4>2. f[i + 1] = f[i] \cup UNION {P[t] : t \in f[i]}
        BY <2>1, <4>1 DEF Layers
      <4>3. g[i + 1] = f[i + 1]
        BY <3>1, <4>1
      <4> QED
        BY <3>2, <4>2, <4>3
    <3> QED
      BY <3>3, <3>4
  <2>6. Layers(g, from, P, 0..(n + 1))
    BY <2>4, <2>5 DEF Layers
  <2> HIDE DEF g
  <2> QED
    BY <2>3, <2>6
<1> HIDE DEF S
<1>3. \A i \in 0..(m - 1) : i \in S => i + 1 \in S
  BY <1>2
<1>4. m \in 0..m /\ \A i \in 0..m : i \in S
  BY <1>1, <1>3, Induction
<1>5. m \in S
  BY <1>4
<1> QED
  BY <1>5 DEF S

\* ... only one at each, ...
LEMMA LayersAgree ==
  ASSUME NEW f, NEW g, NEW from, NEW P, NEW D, NEW E, NEW n \in Nat,
         Layers(f, from, P, D), Layers(g, from, P, E), 0..n \subseteq D, 0..n \subseteq E
  PROVE  f[n] = g[n]
<1> DEFINE S == {i \in Nat : f[i] = g[i]}
<1>1. 0 \in S
  BY DEF Layers
<1>2. ASSUME NEW i \in 0..(n - 1), i \in S PROVE i + 1 \in S
  <2>1. i \in Nat /\ i + 1 \in Nat /\ i + 1 \in D /\ i + 1 \in E
    <3>1. i + 1 \in 0..n
      OBVIOUS
    <3> QED
      BY <3>1
  <2> QED
    BY <1>2, <2>1 DEF Layers
<1> HIDE DEF S
<1>3. n \in 0..n /\ \A i \in 0..n : i \in S
  BY <1>1, <1>2, Induction
<1> QED
  BY <1>3 DEF S

\* ... so there are layers at every depth that is followed, however many.
LEMMA LayersExist ==
  ASSUME NEW U, NEW from \in SUBSET U, NEW P \in [U -> SUBSET U]
  PROVE  \E f \in [Depths -> SUBSET U] : Layers(f, from, P, Depths)
<1> DEFINE L(n) == CHOOSE g \in [0..n -> SUBSET U] : Layers(g, from, P, 0..n)
           f == [n \in Depths |-> L(n)[n]]
<1>1. ASSUME NEW n \in Nat PROVE L(n) \in [0..n -> SUBSET U] /\ Layers(L(n), from, P, 0..n)
  BY FiniteLayers
<1> HIDE DEF L
<1>2. f \in [Depths -> SUBSET U]
  <2>1. ASSUME NEW n \in Depths PROVE L(n)[n] \in SUBSET U
    <3>1. n \in Nat /\ n \in 0..n
      BY DepthsClosed
    <3> QED
      BY <1>1, <3>1
  <2> QED
    BY <2>1
<1>3. f[0] = from
  <2>1. f[0] = L(0)[0]
    BY TypesAssumption
  <2> QED
    BY <1>1, <2>1 DEF Layers
<1>4. ASSUME NEW i \in Nat, i + 1 \in Depths
      PROVE  f[i + 1] = f[i] \cup UNION {P[t] : t \in f[i]}
  <2>1. i \in Depths /\ i + 1 \in Nat /\ i + 1 \in 0..(i + 1) /\ 0..i \subseteq 0..(i + 1)
    <3>1. i \in 0..(i + 1)
      OBVIOUS
    <3> QED
      BY <1>4, <3>1, DepthsClosed
  <2>2. f[i + 1] = L(i + 1)[i + 1] /\ f[i] = L(i)[i]
    BY <1>4, <2>1
  <2>3. L(i + 1)[i + 1] = L(i + 1)[i] \cup UNION {P[t] : t \in L(i + 1)[i]}
    BY <1>1, <2>1 DEF Layers
  <2>4. L(i)[i] = L(i + 1)[i]
    <3>1. PICK g, h : g = L(i) /\ h = L(i + 1)
      OBVIOUS
    <3>2. Layers(g, from, P, 0..i) /\ Layers(h, from, P, 0..(i + 1))
      BY <1>1, <2>1, <3>1
    <3> HIDE DEF f
    <3>3. g[i] = h[i]
      BY <2>1, <3>2, LayersAgree
    <3> QED
      BY <3>1, <3>3
  <2> QED
    BY <2>2, <2>3, <2>4
<1> HIDE DEF f
<1>5. Layers(f, from, P, Depths)
  BY <1>3, <1>4 DEF Layers
<1> QED
  BY <1>2, <1>5

\* What is reached on a path is found at its length.
LEMMA PathFound ==
  ASSUME NEW f, NEW from, NEW P, Layers(f, from, P, Depths),
         NEW n \in Depths, NEW p,
         p[0] \in from, \A i \in 0..(n - 1) : p[i + 1] \in P[p[i]]
  PROVE  p[n] \in f[n]
<1> DEFINE S == {i \in Nat : p[i] \in f[i]}
<1>1. n \in Nat /\ n \in 0..n
  BY DepthsClosed
<1>2. 0 \in S
  BY DEF Layers
<1>3. ASSUME NEW i \in 0..(n - 1), i \in S PROVE i + 1 \in S
  <2>1. i \in Nat /\ i + 1 \in Depths /\ i + 1 \in Nat
    <3>1. i + 1 \in 0..n
      BY <1>1
    <3> QED
      BY <3>1, DepthsClosed
  <2>2. f[i + 1] = f[i] \cup UNION {P[t] : t \in f[i]}
    BY <2>1 DEF Layers
  <2> QED
    BY <1>3, <2>1, <2>2
<1> HIDE DEF S
<1>4. \A i \in 0..n : i \in S
  BY <1>1, <1>2, <1>3, Induction
<1> QED
  BY <1>1, <1>4 DEF S

\* A set that has what is looked into and all that is in it has all that is found.
LEMMA FoundWithin ==
  ASSUME NEW f, NEW from, NEW P, Layers(f, from, P, Depths), NEW S,
         from \subseteq S, \A t \in S : P[t] \subseteq S
  PROVE  \A n \in Depths : f[n] \subseteq S
<1> DEFINE T == {i \in Nat : f[i] \subseteq S}
<1>1. 0 \in T
  BY DEF Layers
<1>2. ASSUME NEW i \in Nat, i + 1 \in Depths, i \in T PROVE i + 1 \in T
  BY <1>2 DEF Layers
<1> HIDE DEF T
<1>3. Depths \subseteq T
  BY <1>1, <1>2, DepthInduction
<1> QED
  BY <1>3 DEF T

\* The layers' equations, where they are about types of U.
LayersIn(U, g, from, P) ==
  /\ g[0] = from
  /\ \A i \in Nat : i + 1 \in Depths /\ g[i] \subseteq U =>
       g[i + 1] = g[i] \cup UNION {P[t] : t \in g[i]}

\* A function that has them is the layers.
LEMMA SameLayers ==
  ASSUME NEW U, NEW f \in [Depths -> SUBSET U], NEW from, NEW P, Layers(f, from, P, Depths),
         NEW g, LayersIn(U, g, from, P)
  PROVE  \A i \in Depths : g[i] = f[i]
<1> DEFINE S == {i \in Nat : i \in Depths => g[i] = f[i]}
<1>1. 0 \in S
  BY DEF Layers, LayersIn
<1>2. ASSUME NEW i \in Nat, i + 1 \in Depths, i \in S PROVE i + 1 \in S
  <2>1. i \in Depths
    <3>1. i \in 0..(i + 1)
      OBVIOUS
    <3> QED
      BY <1>2, <3>1, DepthsClosed
  <2>2. g[i] = f[i] /\ g[i] \subseteq U
    BY <1>2, <2>1
  <2>3. f[i + 1] = f[i] \cup UNION {P[t] : t \in f[i]}
    BY <1>2 DEF Layers
  <2>4. g[i + 1] = g[i] \cup UNION {P[t] : t \in g[i]}
    BY <1>2, <2>2 DEF LayersIn
  <2>5. g[i + 1] = f[i + 1]
    BY <2>2, <2>3, <2>4
  <2> QED
    BY <2>5
<1> HIDE DEF S
<1>3. Depths \subseteq S
  BY <1>1, <1>2, DepthInduction
<1> QED
  BY <1>3 DEF S

\* The types reached by value.
Reached(d, from) == LET Edges(t) == Contained(d, t) IN Found(from, Edges)
Edges(d) == [t \in Type |-> Contained(d, t)]

\* They are the union of layers.
LEMMA ReachedLayers ==
  ASSUME NEW d, DOMAIN d \subseteq Type, NEW from \in SUBSET Type
  PROVE  \E f \in [Depths -> SUBSET Type] :
           Layers(f, from, Edges(d), Depths) /\ Reached(d, from) = UNION {f[i] : i \in Depths}
<1> DEFINE Parts(t) == Contained(d, t)
           P == Edges(d)
           Step(g) == [i \in Depths |->
                         IF i = 0 THEN from
                         ELSE g[i - 1] \cup UNION {Parts(t) : t \in g[i - 1]}]
           found == CHOOSE g : g = Step(g)
<1>1. P \in [Type -> SUBSET Type]
  BY DEF Contained, Edges
<1>2. PICK f \in [Depths -> SUBSET Type] : Layers(f, from, P, Depths)
  BY <1>1, LayersExist
<1>3. f = Step(f)
  <2>1. ASSUME NEW i \in Depths, i # 0
        PROVE  f[i] = f[i - 1] \cup UNION {Parts(t) : t \in f[i - 1]}
    <3>1. i - 1 \in Nat /\ i - 1 \in Depths /\ (i - 1) + 1 = i
      BY <2>1, DepthsClosed
    <3>2. f[i] = f[i - 1] \cup UNION {P[t] : t \in f[i - 1]}
      BY <1>2, <3>1 DEF Layers
    <3>3. \A t \in f[i - 1] : P[t] = Parts(t)
      BY <3>1 DEF Edges
    <3> QED
      BY <3>2, <3>3
  <2>2. f[0] = from
    BY <1>2 DEF Layers
  <2> QED
    BY <2>1, <2>2
<1>4. found = Step(found)
  BY <1>3
<1>5. Reached(d, from) = UNION {found[i] : i \in Depths}
  BY DEF Found, Reached
<1> HIDE DEF found
<1>6. ASSUME NEW i \in Nat, i + 1 \in Depths, found[i] \subseteq Type
      PROVE  found[i + 1] = found[i] \cup UNION {P[t] : t \in found[i]}
  <2>1. i + 1 # 0 /\ (i + 1) - 1 = i
    OBVIOUS
  <2>2. found[i + 1] = found[i] \cup UNION {Parts(t) : t \in found[i]}
    BY <1>4, <1>6, <2>1
  <2>3. \A t \in found[i] : P[t] = Parts(t)
    BY <1>6 DEF Edges
  <2> QED
    BY <2>2, <2>3
<1>7. found[0] = from
  BY <1>4, TypesAssumption
<1> HIDE DEF P
<1>8. \A i \in Depths : found[i] = f[i]
  <2>1. LayersIn(Type, found, from, P)
    BY <1>6, <1>7 DEF LayersIn
  <2> QED
    BY <1>2, <2>1, SameLayers
<1>9. {found[i] : i \in Depths} = {f[i] : i \in Depths}
  BY <1>8
<1>10. Layers(f, from, Edges(d), Depths)
  BY <1>2 DEF P
<1> QED
  BY <1>5, <1>9, <1>10

----------------------------------------------------------------------------
(* Cycles of the by-value graph.                                            *)

Edge(d, s, t) == t \in Contained(d, s)

\* A path of n edges, as a function.
Path(d, p, n) == \A i \in 0..(n - 1) : Edge(d, p[i], p[i + 1])

\* A path back to where it began.
Circle(d, p, n) == p \in [0..n -> DOMAIN d] /\ Path(d, p, n) /\ p[0] = p[n]

\* A type on such a path, and a path that begins and ends with it.
On(p, n, t) == \E k \in 0..(n - 1) : p[k] = t
Turned(d, n, t) == \E q : Circle(d, q, n) /\ q[0] = t

\* The lengths of the paths between what is found.
Lengths == {n \in Nat : n >= 1 /\ n - 1 \in Depths}

\* Shorter paths are followed if longer ones are.
LEMMA LengthsClosed ==
  ASSUME NEW n \in Lengths
  PROVE  n \in Nat /\ n >= 1 /\ n - 1 \in Depths /\ \A i \in 1..n : i \in Lengths
<1>1. n \in Nat /\ n >= 1 /\ n - 1 \in Depths
  BY DEF Lengths
<1>2. ASSUME NEW i \in 1..n PROVE i \in Lengths
  <2>1. i - 1 \in 0..(n - 1)
    BY <1>1
  <2> QED
    BY <1>1, <2>1, DepthsClosed DEF Lengths
<1> QED
  BY <1>1, <1>2

\* No type contains itself by value, as far as walks are followed.
NoCycle(d) ==
  \A n \in Lengths : \A p \in [0..n -> DOMAIN d] : Path(d, p, n) => p[0] # p[n]

\* The check finds every cycle through one of the types it starts from.
LEMMA CycleFound ==
  ASSUME NEW d, DOMAIN d \subseteq Type, NEW from \in SUBSET Type,
         NEW n \in Lengths, NEW p, Circle(d, p, n), p[0] \in from
  PROVE  HasCycle(d, from)
<1> USE DEF Circle
<1> DEFINE P == Edges(d)
           id == p[0]
<1>0. n \in Nat /\ n >= 1 /\ n - 1 \in Depths /\ 0 \in 0..n /\ id \in DOMAIN d /\ id \in Type
  BY LengthsClosed
<1>1. id \in Reached(d, from)
  <2>1. PICK f \in [Depths -> SUBSET Type] :
          Layers(f, from, P, Depths) /\ Reached(d, from) = UNION {f[i] : i \in Depths}
    BY ReachedLayers
  <2>2. 0 \in Depths /\ f[0] = from
    BY <2>1, TypesAssumption DEF Layers
  <2> QED
    BY <2>1, <2>2
<1>2. id \in Reached(d, Contained(d, id))
  <2>1. Contained(d, id) \in SUBSET Type
    BY DEF Contained
  <2>2. PICK f \in [Depths -> SUBSET Type] :
          /\ Layers(f, Contained(d, id), P, Depths)
          /\ Reached(d, Contained(d, id)) = UNION {f[i] : i \in Depths}
    BY <2>1, ReachedLayers
  <2> DEFINE q == [i \in 0..(n - 1) |-> p[i + 1]]
  <2>3. n - 1 \in Depths
    BY <1>0
  <2>4. q[0] \in Contained(d, id)
    <3>1. 0 \in 0..(n - 1) /\ Edge(d, p[0], p[0 + 1])
      BY <1>0 DEF Path
    <3> QED
      BY <3>1 DEF Edge
  <2>5. ASSUME NEW i \in 0..((n - 1) - 1) PROVE q[i + 1] \in P[q[i]]
    <3>1. i \in 0..(n - 1) /\ i + 1 \in 0..(n - 1) /\ i + 1 \in 0..n
      BY <1>0
    <3>2. q[i] = p[i + 1] /\ q[i + 1] = p[(i + 1) + 1] /\ p[i + 1] \in Type
      BY <3>1
    <3>3. Edge(d, p[i + 1], p[(i + 1) + 1])
      BY <3>1 DEF Path
    <3> QED
      BY <3>2, <3>3 DEF Edge, Edges
  <2>6. q[n - 1] = p[n]
    BY <1>0
  <2> HIDE DEF q, P
  <2>7. q[n - 1] \in f[n - 1]
    BY <2>2, <2>3, <2>4, <2>5, PathFound
  <2> QED
    BY <2>2, <2>3, <2>6, <2>7
<1>3. \E t \in Reached(d, from) : t \in Reached(d, Contained(d, t))
  BY <1>1, <1>2
<1> QED
  BY <1>3 DEF HasCycle, Reached

\* A cycle with a type in it, read from that type on.
LEMMA CycleTurned ==
  ASSUME NEW d, NEW n \in Lengths, NEW p, Circle(d, p, n), NEW t, On(p, n, t)
  PROVE  Turned(d, n, t)
<1> USE DEF Circle
<1> PICK k \in 0..(n - 1) : p[k] = t
  BY DEF On
<1> DEFINE q == [i \in 0..n |-> IF i + k <= n THEN p[i + k] ELSE p[(i + k) - n]]
<1>0. n \in Nat /\ k \in Nat /\ k < n /\ n >= 1
  BY LengthsClosed
<1>1. ASSUME NEW i \in 0..n
      PROVE  (i + k <= n => i + k \in 0..n) /\ (~(i + k <= n) => (i + k) - n \in 0..n)
  BY <1>0
<1>2. q \in [0..n -> DOMAIN d]
  BY <1>1
<1>3. q[0] = p[k] /\ q[n] = p[k]
  <2>1. 0 \in 0..n /\ n \in 0..n /\ 0 + k <= n /\ 0 + k = k /\ (n + k) - n = k
    BY <1>0
  <2>2. n + k <= n => k = 0 /\ n + k = n
    BY <1>0
  <2> QED
    BY <2>1, <2>2
<1>4. ASSUME NEW i \in 0..(n - 1) PROVE Edge(d, q[i], q[i + 1])
  <2>0. i \in 0..n /\ i + 1 \in 0..n /\ i \in Nat
    BY <1>0
  <2>1. CASE i + k < n
    <3>1. i + k \in 0..(n - 1) /\ i + k <= n /\ (i + 1) + k <= n /\ (i + 1) + k = (i + k) + 1
      BY <1>0, <2>0, <2>1
    <3>2. Edge(d, p[i + k], p[(i + k) + 1])
      BY <3>1 DEF Path
    <3>3. q[i] = p[i + k] /\ q[i + 1] = p[(i + k) + 1]
      BY <2>0, <3>1
    <3> QED
      BY <3>2, <3>3
  <2>2. CASE i + k >= n
    <3>1. /\ (i + k) - n \in 0..(n - 1) /\ ~((i + 1) + k <= n)
          /\ ((i + 1) + k) - n = ((i + k) - n) + 1
      BY <1>0, <2>0, <2>2
    <3>2. Edge(d, p[(i + k) - n], p[((i + k) - n) + 1])
      BY <3>1 DEF Path
    <3>3. q[i + 1] = p[((i + k) - n) + 1]
      BY <2>0, <3>1
    <3>4. q[i] = p[(i + k) - n]
      <4>1. CASE i + k = n
        <5>1. q[i] = p[n] /\ (i + k) - n = 0
          BY <1>0, <2>0, <4>1
        <5> QED
          BY <5>1
      <4>2. CASE i + k > n
        BY <1>0, <2>0, <4>2
      <4> QED
        BY <1>0, <2>0, <2>2, <4>1, <4>2
    <3> QED
      BY <3>2, <3>3, <3>4
  <2> QED
    BY <1>0, <2>0, <2>1, <2>2
<1> HIDE DEF q
<1>5. Path(d, q, n)
  BY <1>4 DEF Path
<1> QED
  BY <1>2, <1>3, <1>5 DEF Turned

\* A type that is defined closes no cycle but one through itself.
LEMMA DefinedLast ==
  ASSUME NEW d, NEW e, DOMAIN d \subseteq Type, NoCycle(d), NEW id \in DOMAIN d,
         DOMAIN e = DOMAIN d, \A t \in DOMAIN d : t # id => e[t] = d[t],
         ~HasCycle(e, {id})
  PROVE  NoCycle(e)
<1> SUFFICES ASSUME NEW n \in Lengths, NEW p \in [0..n -> DOMAIN e],
                    Path(e, p, n), p[0] = p[n]
             PROVE  FALSE
  BY DEF NoCycle
<1>0. n \in Nat /\ n >= 1 /\ 0 \in 0..n
  BY LengthsClosed
<1>1. CASE \E k \in 0..(n - 1) : p[k] = id
  <2>1. PICK q : Circle(e, q, n) /\ q[0] = id
    <3>1. On(p, n, id)
      BY <1>1 DEF On
    <3>2. Circle(e, p, n)
      BY DEF Circle
    <3>3. Turned(e, n, id)
      BY <3>1, <3>2, CycleTurned
    <3> QED
      BY <3>3 DEF Turned
  <2>2. PICK from \in SUBSET Type : from = {id}
    OBVIOUS
  <2>3. q[0] \in from /\ DOMAIN e \subseteq Type
    BY <2>1, <2>2
  <2>4. HasCycle(e, from)
    BY <2>1, <2>3, CycleFound
  <2> QED
    BY <2>2, <2>4
<1>2. CASE \A k \in 0..(n - 1) : p[k] # id
  <2>1. p \in [0..n -> DOMAIN d]
    OBVIOUS
  <2>2. ASSUME NEW i \in 0..(n - 1) PROVE Edge(d, p[i], p[i + 1])
    <3>1. p[i] \in DOMAIN d /\ e[p[i]] = d[p[i]]
      BY <1>0, <1>2
    <3>2. Edge(e, p[i], p[i + 1])
      BY DEF Path
    <3> QED
      BY <3>1, <3>2 DEF Edge, Contained
  <2>3. Path(d, p, n)
    BY <2>2 DEF Path
  <2> QED
    BY <2>1, <2>3 DEF NoCycle
<1> QED
  BY <1>1, <1>2

\* A type id that has no fields yet is in no cycle.
LEMMA ReservedLast ==
  ASSUME NEW d, NEW e, NoCycle(d), NEW id,
         DOMAIN e = DOMAIN d \cup {id}, e[id] = {}, \A t \in DOMAIN d : t # id => e[t] = d[t]
  PROVE  NoCycle(e)
<1> SUFFICES ASSUME NEW n \in Lengths, NEW p \in [0..n -> DOMAIN e],
                    Path(e, p, n), p[0] = p[n]
             PROVE  FALSE
  BY DEF NoCycle
<1>0. n \in Nat /\ n >= 1 /\ 0 \in 0..n
  BY LengthsClosed
<1>1. ASSUME NEW i \in 0..(n - 1) PROVE p[i] # id /\ Edge(e, p[i], p[i + 1])
  <2>1. Edge(e, p[i], p[i + 1])
    BY DEF Path
  <2> QED
    BY <2>1 DEF Edge, Contained
<1>2. ASSUME NEW i \in 0..n PROVE p[i] # id
  <2>1. CASE i = n
    <3>1. 0 \in 0..(n - 1)
      BY <1>0
    <3> QED
      BY <1>1, <2>1, <3>1
  <2>2. CASE i # n
    <3>1. i \in 0..(n - 1)
      BY <1>0, <2>2
    <3> QED
      BY <1>1, <3>1
  <2> QED
    BY <2>1, <2>2
<1>3. p \in [0..n -> DOMAIN d]
  BY <1>2
<1>4. ASSUME NEW i \in 0..(n - 1) PROVE Edge(d, p[i], p[i + 1])
  <2>1. i \in 0..n /\ i + 1 \in 0..n
    BY <1>0
  <2>2. p[i] \in DOMAIN d /\ p[i + 1] \in DOMAIN d /\ e[p[i]] = d[p[i]]
    BY <1>2, <1>3, <2>1
  <2> QED
    BY <1>1, <2>2 DEF Edge, Contained
<1>5. Path(d, p, n)
  BY <1>4 DEF Path
<1> QED
  BY <1>3, <1>5 DEF NoCycle

----------------------------------------------------------------------------
(* Layouts.                                                                 *)

\* No field is a sum that has Nil twice.
NilOnce ==
  /\ \A id \in DOMAIN defs : \A t \in defs[id] : ~RepeatsNil(t)
  /\ \A i \in DOMAIN stack : \A t \in stack[i].found : ~RepeatsNil(t)

\* What the stack's frames have after a reservation.
LEMMA ReservedStack ==
  ASSUME Forms, ReservesOne
  PROVE  \E id \in Type \cap Asked :
           /\ Head(id) = "G" /\ id \notin DOMAIN defs
           /\ DOMAIN defs' = DOMAIN defs \cup {id} /\ defs'[id] = {}
           /\ \A t \in DOMAIN defs : defs'[t] = defs[t]
           /\ DOMAIN stack' = 1..(Len(stack) + 1) /\ DOMAIN stack = 1..Len(stack)
           /\ Len(stack) \in Nat
           /\ \A i \in DOMAIN stack : stack'[i] = stack[i]
           /\ stack'[Len(stack) + 1] = Frame(id)
<1>1. PICK id \in Type \cap Asked : Head(id) = "G" /\ id \notin DOMAIN defs /\ Reserve(id)
  BY DEF ReservesOne
<1>2. /\ DOMAIN defs' = DOMAIN defs \cup {id} /\ defs'[id] = {}
      /\ \A t \in DOMAIN defs : defs'[t] = defs[t]
      /\ stack' = Append(stack, Frame(id))
      /\ Frame(id) \in StackFrame
  BY <1>1, Reserved
<1>3. PICK frame \in StackFrame : frame = Frame(id)
  BY <1>2
<1>4. stack \in Seq(StackFrame)
  BY DEF Forms
<1>5. PICK s : s = Append(stack, frame)
  OBVIOUS
<1>6. /\ s \in Seq(StackFrame) /\ Len(s) = Len(stack) + 1 /\ DOMAIN s = 1..Len(s)
      /\ Len(stack) \in Nat /\ DOMAIN stack = 1..Len(stack)
      /\ \A i \in 1..Len(stack) : s[i] = stack[i]
      /\ s[Len(stack) + 1] = frame
  BY <1>4, <1>5, AppendProperties, LenProperties
<1>7. s = stack'
  BY <1>2, <1>3, <1>5
<1> QED
  BY <1>1, <1>2, <1>3, <1>6, <1>7

\* What a finished type's table entry is, and what is left of the stack.
LEMMA FinishedStack ==
  ASSUME Forms, FinishDeclaration \/ FinishSpecialisation
  PROVE  \E top \in DOMAIN stack :
           /\ DOMAIN defs' = DOMAIN defs \cup {stack[top].id}
           /\ \A t \in DOMAIN defs' : defs'[t] = IF t = stack[top].id THEN stack[top].found ELSE defs[t]
           /\ DOMAIN stack' \subseteq DOMAIN stack
           /\ \A i \in DOMAIN stack' : stack'[i] = stack[i]
           /\ Open(stack[top])
           /\ FinishSpecialisation => stack[top].id = Last(stack).id
<1> DEFINE top == Len(stack)
<1>1. stack # <<>> /\ stack' = Front(stack) /\ stack \in Seq(StackFrame)
  BY DEF FinishDeclaration, FinishSpecialisation, Forms
<1>2. /\ top \in DOMAIN stack /\ Last(stack) = stack[top] /\ Open(stack[top])
  BY <1>1, TopFrame
<1>3. /\ DOMAIN defs' = DOMAIN defs \cup {stack[top].id}
      /\ \A t \in DOMAIN defs' : defs'[t] = IF t = stack[top].id THEN stack[top].found ELSE defs[t]
  <2>1. CASE FinishDeclaration
    BY <1>2, <2>1 DEF FinishDeclaration
  <2>2. CASE FinishSpecialisation
    <3>1. phase = "check" /\ defs' = [defs EXCEPT ![stack[top].id] = stack[top].found]
      BY <1>2, <2>2 DEF FinishSpecialisation
    <3>2. stack[top].id \in DOMAIN defs
      BY <1>2, <3>1 DEF Open
    <3> QED
      BY <3>1, <3>2
  <2> QED
    BY <2>1, <2>2
<1>4. /\ Len(Front(stack)) = Len(stack) - 1 /\ Front(stack) \in Seq(StackFrame)
      /\ \A i \in 1..(Len(stack) - 1) : Front(stack)[i] = stack[i]
      /\ DOMAIN Front(stack) = 1..Len(Front(stack)) /\ DOMAIN stack = 1..Len(stack)
      /\ Len(stack) \in Nat
  BY <1>1, FrontOf, LenProperties
<1>5. DOMAIN stack' \subseteq DOMAIN stack /\ \A i \in DOMAIN stack' : stack'[i] = stack[i]
  BY <1>1, <1>4
<1> QED
  BY <1>2, <1>3, <1>5

\* A field that repeats Nil is an error and is in no table.
LEMMA NilOnceStep == Forms /\ NilOnce /\ [Next]_vars => NilOnce'
<1> SUFFICES ASSUME Forms, NilOnce, [Next]_vars PROVE NilOnce'
  OBVIOUS
<1>1. CASE UNCHANGED <<defs, stack>>
  BY <1>1 DEF NilOnce
<1>2. CASE ReservesOne
  <2>1. PICK id \in Type :
           /\ DOMAIN defs' = DOMAIN defs \cup {id} /\ defs'[id] = {}
           /\ \A t \in DOMAIN defs : defs'[t] = defs[t]
           /\ DOMAIN stack' = 1..(Len(stack) + 1) /\ DOMAIN stack = 1..Len(stack)
           /\ Len(stack) \in Nat
           /\ \A i \in DOMAIN stack : stack'[i] = stack[i]
           /\ stack'[Len(stack) + 1] = Frame(id)
    BY <1>2, ReservedStack
  <2>2. Frame(id).found = {}
    BY DEF Frame
  <2>3. \A i \in DOMAIN stack' : i \in DOMAIN stack \/ i = Len(stack) + 1
    BY <2>1
  <2> QED
    BY <2>1, <2>2, <2>3 DEF NilOnce
<1>3. CASE ResolveField
  <2>1. CASE MarksField
    <3>1. /\ defs' = defs /\ DOMAIN stack' = DOMAIN stack
          /\ \A i \in DOMAIN stack :
               stack'[i].found \subseteq stack[i].found \cup {t \in stack[i].left : ~RepeatsNil(t)}
      <4>1. stack \in Seq(StackFrame) /\ stack' \in Seq(StackFrame) /\ Len(stack') = Len(stack)
        BY <2>1 DEF MarksField, Stacked, Forms
      <4>2. DOMAIN stack' = DOMAIN stack
        BY <4>1, LenProperties
      <4> QED
        BY <2>1, <4>2 DEF MarksField, tables
    <3> QED
      BY <3>1 DEF NilOnce
  <2> QED
    BY <1>2, <1>3, <2>1, ResolveKinds
<1>4. CASE FinishDeclaration \/ FinishSpecialisation
  BY <1>4, FinishedStack DEF NilOnce
<1>5. CASE CollectDeclaration
  <2>1. defs' = defs /\ \E id : stack' = <<Frame(id)>>
    BY <1>5 DEF CollectDeclaration, tables
  <2>2. \A i \in DOMAIN stack' : stack'[i].found = {}
    BY <2>1 DEF Frame
  <2> QED
    BY <2>1, <2>2 DEF NilOnce
<1>6. CASE MentionType
  BY <1>1, <1>2, <1>6, MentionKinds DEF tables
<1>7. CASE (\E o \in Declarations : Write(o)) \/ Collect \/ Freeze \/ CallFunction \/ NextSignature \/ NextBody
             \/ Accept \/ Start \/ Descend \/ Ascend \/ UNCHANGED vars
  <2>1. UNCHANGED <<defs, stack>>
    BY <1>7 DEF Write, Collect, Freeze, CallFunction, NextSignature, NextBody, Accept, Start, Descend, Ascend,
                vars, declared, tables
  <2> QED
    BY <1>1, <2>1
<1> QED
  BY <1>3, <1>4, <1>5, <1>6, <1>7 DEF Next, Resolve

----------------------------------------------------------------------------
(* Cycles and layouts.                                                      *)

CycleInv == phase \in {"check", "emit"} /\ errors = {} => NoCycle(defs)

\* Every definition is checked when it is complete, the ones of the
\* declarations together: the last type of a cycle to be defined finds it.
LEMMA CycleStep == Forms /\ CycleInv /\ [Next]_vars => CycleInv'
<1> SUFFICES ASSUME Forms, CycleInv, [Next]_vars, phase' \in {"check", "emit"}, errors' = {}
             PROVE  NoCycle(defs')
  BY DEF CycleInv
<1>1. CASE UNCHANGED defs /\ errors \subseteq errors' /\ (phase' = phase \/ phase = "check")
  <2>1. NoCycle(defs) /\ defs' = defs
    BY <1>1 DEF CycleInv
  <2> QED
    BY <2>1
<1>2. CASE ReservesOne /\ UNCHANGED phase
  <2>1. NoCycle(defs)
    BY <1>2 DEF ReservesOne, CycleInv
  <2>2. PICK id \in Type :
           /\ DOMAIN defs' = DOMAIN defs \cup {id} /\ defs'[id] = {}
           /\ \A t \in DOMAIN defs : defs'[t] = defs[t]
    BY <1>2, ReservedStack
  <2>3. PICK d : d = defs
    OBVIOUS
  <2>4. PICK e : e = defs'
    OBVIOUS
  <2>5. NoCycle(e)
    BY <2>1, <2>2, <2>3, <2>4, ReservedLast
  <2> QED
    BY <2>4, <2>5
<1>3. CASE Freeze
  <2>1. ~HasCycle(defs, DOMAIN defs) /\ defs' = defs
    BY <1>3 DEF Freeze
  <2>2. NoCycle(defs)
    <3>1. DOMAIN defs \subseteq Type /\ DOMAIN defs \in SUBSET Type
      BY DEF Forms
    <3>2. ASSUME NEW n \in Lengths, NEW p \in [0..n -> DOMAIN defs],
                 Path(defs, p, n), p[0] = p[n]
          PROVE  FALSE
      <4>1. 0 \in 0..n
        BY LengthsClosed
      <4>2. p[0] \in DOMAIN defs
        BY <4>1
      <4>3. Circle(defs, p, n)
        BY <3>2 DEF Circle
      <4> QED
        BY <2>1, <3>1, <3>2, <4>2, <4>3, CycleFound
    <3> QED
      BY <3>2 DEF NoCycle
  <2> QED
    BY <2>1, <2>2
<1>4. CASE FinishSpecialisation
  <2>1. PICK top \in DOMAIN stack :
           /\ DOMAIN defs' = DOMAIN defs \cup {stack[top].id}
           /\ \A t \in DOMAIN defs' : defs'[t] = IF t = stack[top].id THEN stack[top].found ELSE defs[t]
           /\ Open(stack[top])
           /\ stack[top].id = Last(stack).id
    BY <1>4, FinishedStack
  <2>2. /\ phase = "check" /\ errors = {}
        /\ ~HasCycle(defs', {stack[top].id})
    BY <1>4, <2>1 DEF FinishSpecialisation
  <2>3. PICK id : id = stack[top].id
    OBVIOUS
  <2>4. NoCycle(defs) /\ id \in DOMAIN defs /\ DOMAIN defs \subseteq Type
    BY <2>1, <2>2, <2>3 DEF CycleInv, Open, Forms
  <2>5. PICK e : e = defs'
    OBVIOUS
  <2>6. DOMAIN e = DOMAIN defs /\ \A t \in DOMAIN defs : t # id => e[t] = defs[t]
    BY <2>1, <2>3, <2>4, <2>5
  <2>7. ~HasCycle(e, {id})
    BY <2>2, <2>3, <2>5
  <2>8. NoCycle(e)
    BY <2>4, <2>6, <2>7, DefinedLast
  <2> QED
    BY <2>5, <2>8
<1>5. CASE ResolveField
  <2>1. phase' = phase
    BY <1>5 DEF ResolveField, declared
  <2>2. MarksField => UNCHANGED defs /\ errors \subseteq errors'
    BY DEF MarksField, tables
  <2> QED
    BY <1>1, <1>2, <1>5, <2>1, <2>2, ResolveKinds
<1>6. CASE MentionType
  <2>1. phase' = phase /\ errors \subseteq errors'
    BY <1>6 DEF MentionType
  <2> QED
    BY <1>1, <1>2, <1>6, <2>1, MentionKinds DEF tables
<1>7. CASE CallFunction \/ NextSignature \/ NextBody \/ Accept
  BY <1>1, <1>7 DEF CallFunction, NextSignature, NextBody, Accept, requests, tables
<1>8. CASE Start \/ Descend \/ Ascend \/ UNCHANGED vars
  BY <1>1, <1>8 DEF Start, Descend, Ascend, vars, declared, tables
<1>9. CASE (\E o \in Declarations : Write(o)) \/ Collect \/ CollectDeclaration \/ FinishDeclaration
  BY <1>9 DEF Write, Collect, CollectDeclaration, FinishDeclaration, declared
<1> QED
  BY <1>3, <1>4, <1>5, <1>6, <1>7, <1>8, <1>9 DEF Next, Resolve

\* There is a path by value of at most n edges, and of one at least if n is not
\* 0, from a type to another.
Leads(d, s, t, n) ==
  \E m \in 0..n : \E p \in [0..m -> DOMAIN d] :
    Path(d, p, m) /\ p[0] = s /\ p[m] = t /\ (n > 0 => m > 0)

\* A path goes on by an edge, ...
LEMMA LeadsFurther ==
  ASSUME NEW d, NEW s, NEW t, NEW u \in DOMAIN d, NEW n \in Nat, NEW k \in Nat, n < k,
         Leads(d, s, t, n), Edge(d, t, u)
  PROVE  Leads(d, s, u, k)
<1>0. PICK m \in 0..n :
        \E p \in [0..m -> DOMAIN d] : Path(d, p, m) /\ p[0] = s /\ p[m] = t
  BY DEF Leads
<1>1. PICK p \in [0..m -> DOMAIN d] : Path(d, p, m) /\ p[0] = s /\ p[m] = t
  BY <1>0
<1>2. m \in Nat /\ m + 1 \in 0..k /\ k > 0 /\ m + 1 > 0 /\ 0 \in 0..m
  OBVIOUS
<1> DEFINE q == [i \in 0..(m + 1) |-> IF i = m + 1 THEN u ELSE p[i]]
<1>3. \A i \in 0..(m + 1) : i # m + 1 => i \in 0..m
  OBVIOUS
<1>4. q \in [0..(m + 1) -> DOMAIN d]
  BY <1>3
<1>5. q[0] = s /\ q[m + 1] = u /\ \A i \in 0..m : q[i] = p[i]
  BY <1>1, <1>2
<1> HIDE DEF q
<1>6. ASSUME NEW i \in 0..((m + 1) - 1) PROVE Edge(d, q[i], q[i + 1])
  <2>1. i \in 0..m
    OBVIOUS
  <2>2. CASE i = m
    BY <1>1, <1>5, <2>1, <2>2
  <2>3. CASE i # m
    <3>1. i \in 0..(m - 1) /\ i + 1 \in 0..m
      BY <2>1, <2>3
    <3>2. Edge(d, p[i], p[i + 1])
      BY <1>1, <3>1 DEF Path
    <3> QED
      BY <1>5, <2>1, <3>1, <3>2
  <2> QED
    BY <2>2, <2>3
<1>7. Path(d, q, m + 1)
  BY <1>6 DEF Path
<1> QED
  BY <1>2, <1>4, <1>5, <1>7 DEF Leads

\* ... and is empty at first.
LEMMA LeadsNowhere ==
  ASSUME NEW d, NEW s \in DOMAIN d
  PROVE  Leads(d, s, s, 0)
<1> DEFINE p == [i \in 0..0 |-> s]
<1>1. p \in [0..0 -> DOMAIN d] /\ Path(d, p, 0) /\ p[0] = s
  BY DEF Path
<1>2. 0 \in 0..0
  OBVIOUS
<1> HIDE DEF p
<1> QED
  BY <1>1, <1>2 DEF Leads

\* Where build_layout is: inside a nominal type, or inside a sum that is a
\* field of the nominal type around it and has a nominal member.
IsSum(d, t) == t \notin DOMAIN d /\ Head(t) = "OrNil"
SumPart(d, s, t) == t = Tail(s) /\ t \in DOMAIN d

LaidOut(d, w) ==
  /\ Len(w) = 0 \/ Len(w) \in Lengths
  /\ \A i \in 1..Len(w) : w[i] \notin DOMAIN d =>
       /\ IsSum(d, w[i]) /\ i > 1 /\ w[i - 1] \in DOMAIN d
       /\ w[i] \in d[w[i - 1]] /\ ~RepeatsNil(w[i])
       /\ i < Len(w) => SumPart(d, w[i], w[i + 1])
  /\ \A i, j \in 1..Len(w) :
       i <= j /\ w[i] \in DOMAIN d /\ w[j] \in DOMAIN d => Leads(d, w[i], w[j], j - i)

\* The member of a sum that has Nil once is no sum.
LEMMA NoSecondNil ==
  ASSUME NEW t \in Type, Head(t) = "OrNil", ~RepeatsNil(t)
  PROVE  Tail(t) \in Type /\ Head(Tail(t)) # "OrNil"
<1>1. Head(t) \in Wraps
  BY DEF Wraps
<1>2. t \in Seq(Wraps \cup Leaves) /\ t # <<>> /\ Tail(t) \in Type
  BY <1>1, TypeIsSequence, TailType
<1>3. Tail(t) \in Seq(Wraps \cup Leaves) /\ Tail(t) # <<>>
  BY <1>2, TypeIsSequence
<1>4. PICK u : u = Tail(t)
  OBVIOUS
<1>5. /\ Len(u) = Len(t) - 1 /\ Len(t) \in Nat /\ Len(u) \in Nat /\ Len(u) # 0
      /\ \A i \in 1..Len(u) : u[i] = t[i + 1]
      /\ Head(t) = t[1] /\ Head(u) = u[1]
  BY <1>2, <1>3, <1>4, HeadTailProperties, EmptySeq, LenProperties
<1>6. 1 \in 1..(Len(t) - 1) /\ 1 \in 1..Len(u) /\ Head(u) = t[1 + 1]
  BY <1>5
<1>7. t[1] = "OrNil" /\ Head(u) = "OrNil" => RepeatsNil(t)
  BY <1>6 DEF RepeatsNil
<1> QED
  BY <1>2, <1>4, <1>5, <1>7

\* A field by value is an edge, and so is the member of a field that is a sum.
LEMMA FieldEdge ==
  ASSUME NEW d, NEW s \in DOMAIN d, NEW t \in d[s], NEW u \in DOMAIN d, IsNominal(u),
         u = t \/ (Head(t) = "OrNil" /\ u = Tail(t))
  PROVE  Edge(d, s, u)
<1>1. Head(u) # "OrNil"
  BY TypesAssumption DEF IsNominal, Wraps
<1>2. Bare(t) = u
  BY <1>1 DEF Bare
<1> QED
  BY <1>2 DEF Edge, Contained

\* The layout goes into a part, ...
LEMMA LaidOutFurther ==
  ASSUME NEW d, \A id \in DOMAIN d : IsNominal(id),
         \A id \in DOMAIN d : \A t \in d[id] : t \in Type /\ ~RepeatsNil(t),
         NEW w \in Seq(Type), w # <<>>, Len(w) + 1 \in Depths, LaidOut(d, w),
         NEW part \in Type, part \in TableParts(d, Last(w)),
         part \in DOMAIN d \/ Head(part) = "OrNil",
         NEW v, v = Append(w, part)
  PROVE  LaidOut(d, v)
<1> DEFINE n == Len(w)
<1>1. /\ n \in Nat /\ n \in 1..n /\ n # 0 /\ Last(w) = w[n] /\ w[n] \in Type
      /\ Len(v) = n + 1 /\ \A i \in 1..n : v[i] = w[i] /\ v[n + 1] = part
      /\ \A i \in 1..Len(v) : i \in 1..n \/ i = n + 1
      /\ Len(v) \in Lengths
  <2>1. /\ n \in Nat /\ n \in 1..n /\ n # 0 /\ Last(w) = w[n] /\ w[n] \in Type
    BY FrontOf, EmptySeq, LenProperties
  <2>2. Len(v) = n + 1 /\ (\A i \in 1..n : v[i] = w[i]) /\ v[n + 1] = part
    BY AppendProperties
  <2>3. n \in Depths /\ n + 1 \in Nat /\ n + 1 >= 1 /\ (n + 1) - 1 = n
    <3>1. n \in 0..(n + 1)
      BY <2>1
    <3> QED
      BY <2>1, <3>1, DepthsClosed
  <2>4. n + 1 \in Lengths
    BY <2>3 DEF Lengths
  <2> QED
    BY <2>1, <2>2, <2>4
<1>2. w[n] \in DOMAIN d =>
        part \in d[w[n]] /\ ~RepeatsNil(part) /\ (part \in DOMAIN d => Edge(d, w[n], part))
  <2>1. SUFFICES ASSUME w[n] \in DOMAIN d
                 PROVE  part \in d[w[n]] /\ ~RepeatsNil(part)
                          /\ (part \in DOMAIN d => Edge(d, w[n], part))
    OBVIOUS
  <2>2. part \in d[w[n]] /\ ~RepeatsNil(part)
    BY <1>1, <2>1 DEF TableParts
  <2>3. ASSUME part \in DOMAIN d PROVE Edge(d, w[n], part)
    <3>1. IsNominal(part)
      BY <2>3
    <3> QED
      BY <2>1, <2>2, <2>3, <3>1, FieldEdge
  <2> QED
    BY <2>2, <2>3
<1>3. w[n] \notin DOMAIN d =>
        /\ n - 1 \in 1..n /\ w[n - 1] \in DOMAIN d
        /\ SumPart(d, w[n], part) /\ Edge(d, w[n - 1], part)
  <2>1. SUFFICES ASSUME w[n] \notin DOMAIN d
                 PROVE  /\ n - 1 \in 1..n /\ w[n - 1] \in DOMAIN d
                        /\ SumPart(d, w[n], part) /\ Edge(d, w[n - 1], part)
    OBVIOUS
  <2>2. /\ IsSum(d, w[n]) /\ n > 1 /\ w[n - 1] \in DOMAIN d
        /\ w[n] \in d[w[n - 1]] /\ ~RepeatsNil(w[n])
    BY <1>1, <2>1 DEF LaidOut
  <2>3. Head(w[n]) = "OrNil" /\ part = Tail(w[n])
    BY <1>1, <2>2 DEF IsSum, TableParts
  <2>4. part \in DOMAIN d
    BY <1>1, <2>2, <2>3, NoSecondNil
  <2>5. Edge(d, w[n - 1], part)
    BY <2>2, <2>3, <2>4, FieldEdge
  <2> QED
    BY <1>1, <2>2, <2>3, <2>4, <2>5 DEF SumPart
<1>4. ASSUME NEW i \in 1..Len(v), v[i] \notin DOMAIN d
      PROVE  /\ IsSum(d, v[i]) /\ i > 1 /\ v[i - 1] \in DOMAIN d
             /\ v[i] \in d[v[i - 1]] /\ ~RepeatsNil(v[i])
             /\ i < Len(v) => SumPart(d, v[i], v[i + 1])
  <2>1. CASE i \in 1..n
    <3>1. v[i] = w[i] /\ w[i] \notin DOMAIN d
      BY <1>1, <1>4, <2>1
    <3>2. /\ IsSum(d, w[i]) /\ i > 1 /\ w[i - 1] \in DOMAIN d
          /\ w[i] \in d[w[i - 1]] /\ ~RepeatsNil(w[i])
          /\ i < n => SumPart(d, w[i], w[i + 1])
      BY <2>1, <3>1 DEF LaidOut
    <3>3. i - 1 \in 1..n /\ v[i - 1] = w[i - 1]
      BY <1>1, <2>1, <3>2
    <3>4. CASE i < n
      <4>1. i + 1 \in 1..n /\ v[i + 1] = w[i + 1]
        BY <1>1, <2>1, <3>4
      <4> QED
        BY <3>1, <3>2, <3>3, <3>4, <4>1
    <3>5. CASE i = n
      BY <1>1, <1>3, <3>1, <3>2, <3>3, <3>5
    <3> QED
      BY <1>1, <2>1, <3>4, <3>5
  <2>2. CASE i = n + 1
    <3>1. v[i] = part /\ part \notin DOMAIN d /\ i - 1 = n /\ v[i - 1] = w[n]
      BY <1>1, <1>4, <2>2
    <3>2. w[n] \in DOMAIN d
      BY <1>3, <3>1 DEF SumPart
    <3> QED
      BY <1>1, <1>2, <2>2, <3>1, <3>2 DEF IsSum
  <2> QED
    BY <1>1, <2>1, <2>2
<1>5. ASSUME NEW i \in 1..Len(v), NEW j \in 1..Len(v),
             i <= j, v[i] \in DOMAIN d, v[j] \in DOMAIN d
      PROVE  Leads(d, v[i], v[j], j - i)
  <2>1. CASE j \in 1..n
    <3>1. i \in 1..n /\ v[i] = w[i] /\ v[j] = w[j]
      BY <1>1, <1>5, <2>1
    <3> QED
      BY <1>5, <2>1, <3>1 DEF LaidOut
  <2>2. CASE i = n + 1
    <3>1. j = i /\ j - i = 0
      BY <1>1, <1>5, <2>2
    <3> QED
      BY <1>5, <3>1, LeadsNowhere
  <2>3. CASE j = n + 1 /\ i \in 1..n
    <3>1. v[j] = part /\ v[i] = w[i] /\ part \in DOMAIN d /\ w[i] \in DOMAIN d
      BY <1>1, <1>5, <2>3
    <3>2. CASE w[n] \in DOMAIN d
      <4>1. Leads(d, w[i], w[n], n - i)
        BY <1>1, <2>3, <3>1, <3>2 DEF LaidOut
      <4>2. n - i \in Nat /\ j - i \in Nat /\ n - i < j - i
        BY <1>1, <2>3
      <4>3. Edge(d, w[n], part)
        BY <1>2, <3>1, <3>2
      <4> QED
        BY <3>1, <4>1, <4>2, <4>3, LeadsFurther
    <3>3. CASE w[n] \notin DOMAIN d
      <4>1. n - 1 \in 1..n /\ w[n - 1] \in DOMAIN d /\ Edge(d, w[n - 1], part)
        BY <1>3, <3>3
      <4>2. i # n /\ i <= n - 1
        BY <1>1, <2>3, <3>1, <3>3
      <4>3. Leads(d, w[i], w[n - 1], (n - 1) - i)
        BY <2>3, <3>1, <4>1, <4>2 DEF LaidOut
      <4>4. (n - 1) - i \in Nat /\ j - i \in Nat /\ (n - 1) - i < j - i
        BY <1>1, <2>3, <4>2
      <4> QED
        BY <3>1, <4>1, <4>3, <4>4, LeadsFurther
    <3> QED
      BY <3>2, <3>3
  <2> QED
    BY <1>1, <2>1, <2>2, <2>3
<1> QED
  BY <1>1, <1>4, <1>5 DEF LaidOut

\* ... and comes back.
LEMMA LaidOutBack ==
  ASSUME NEW d, NEW w \in Seq(Type), w # <<>>, LaidOut(d, w), NEW v, v = Front(w)
  PROVE  LaidOut(d, v)
<1>1. /\ Len(v) = Len(w) - 1 /\ Len(w) \in Nat /\ Len(w) # 0
      /\ \A i \in 1..Len(v) : v[i] = w[i] /\ i \in 1..Len(w)
  <2>1. Len(v) = Len(w) - 1 /\ \A i \in 1..(Len(w) - 1) : v[i] = w[i]
    BY FrontOf
  <2>2. Len(w) \in Nat /\ Len(w) # 0
    BY EmptySeq, LenProperties
  <2>3. \A i \in 1..Len(v) : i \in 1..Len(w)
    BY <2>1, <2>2
  <2> QED
    BY <2>1, <2>2, <2>3
<1>2. ASSUME NEW i \in 1..Len(v), v[i] \notin DOMAIN d
      PROVE  /\ IsSum(d, v[i]) /\ i > 1 /\ v[i - 1] \in DOMAIN d
             /\ v[i] \in d[v[i - 1]] /\ ~RepeatsNil(v[i])
             /\ i < Len(v) => SumPart(d, v[i], v[i + 1])
  <2>1. /\ IsSum(d, w[i]) /\ i > 1 /\ w[i - 1] \in DOMAIN d
        /\ w[i] \in d[w[i - 1]] /\ ~RepeatsNil(w[i])
        /\ i < Len(w) => SumPart(d, w[i], w[i + 1])
    BY <1>1, <1>2 DEF LaidOut
  <2>2. v[i] = w[i] /\ i - 1 \in 1..Len(v) /\ v[i - 1] = w[i - 1]
    BY <1>1, <2>1
  <2>3. i < Len(v) => i < Len(w) /\ v[i + 1] = w[i + 1]
    BY <1>1
  <2> QED
    BY <2>1, <2>2, <2>3
<1>3. ASSUME NEW i \in 1..Len(v), NEW j \in 1..Len(v),
             i <= j, v[i] \in DOMAIN d, v[j] \in DOMAIN d
      PROVE  Leads(d, v[i], v[j], j - i)
  BY <1>1, <1>3 DEF LaidOut
<1>4. Len(v) = 0 \/ Len(v) \in Lengths
  <2>1. Len(w) \in Lengths /\ (Len(v) # 0 => Len(v) \in 1..Len(w))
    BY <1>1 DEF LaidOut
  <2> QED
    BY <2>1, LengthsClosed
<1>5. \A i \in 1..Len(v) : v[i] \notin DOMAIN d =>
        /\ IsSum(d, v[i]) /\ i > 1 /\ v[i - 1] \in DOMAIN d
        /\ v[i] \in d[v[i - 1]] /\ ~RepeatsNil(v[i])
        /\ i < Len(v) => SumPart(d, v[i], v[i + 1])
  BY <1>2
<1>6. \A i, j \in 1..Len(v) :
        i <= j /\ v[i] \in DOMAIN d /\ v[j] \in DOMAIN d => Leads(d, v[i], v[j], j - i)
  BY <1>3
<1> QED
  BY <1>4, <1>5, <1>6 DEF LaidOut

\* In a walk without a cycle no type is inside of itself.
LEMMA LaidOutOnce ==
  ASSUME NEW d, \A id \in DOMAIN d : IsNominal(id), NoCycle(d),
         NEW w, Len(w) \in Nat, LaidOut(d, w),
         NEW i \in 1..Len(w), NEW j \in 1..Len(w), i < j, w[i] = w[j]
  PROVE  FALSE
<1>1. /\ i \in Nat /\ j \in Nat /\ Len(w) \in Lengths
      /\ \A m \in 1..Len(w) : m \in Lengths
  <2>1. i \in Nat /\ j \in Nat /\ Len(w) # 0
    OBVIOUS
  <2>2. Len(w) \in Lengths
    BY <2>1 DEF LaidOut
  <2> QED
    BY <2>1, <2>2, LengthsClosed
<1>2. ASSUME NEW t, NEW n \in Lengths, Leads(d, t, t, n) PROVE FALSE
  <2>1. PICK m \in 0..n :
          \E p \in [0..m -> DOMAIN d] : Path(d, p, m) /\ p[0] = t /\ p[m] = t /\ (n > 0 => m > 0)
    BY <1>2 DEF Leads
  <2>2. m \in Lengths
    <3>1. n \in Nat /\ n >= 1 /\ \A k \in 1..n : k \in Lengths
      BY LengthsClosed
    <3>2. m \in 1..n
      BY <2>1, <3>1
    <3> QED
      BY <3>1, <3>2
  <2> QED
    BY <2>1, <2>2 DEF NoCycle
<1>3. CASE w[i] \in DOMAIN d
  <2>1. Leads(d, w[i], w[i], j - i)
    BY <1>3 DEF LaidOut
  <2>2. j - i \in Lengths
    <3>1. j - i \in 1..Len(w)
      BY <1>1
    <3> QED
      BY <1>1, <3>1
  <2> QED
    BY <1>2, <2>1, <2>2
<1>4. CASE w[i] \notin DOMAIN d
  <2>1. /\ Head(w[i]) = "OrNil" /\ w[i + 1] = Tail(w[i]) /\ w[i + 1] \in DOMAIN d
    BY <1>4 DEF LaidOut, IsSum, SumPart
  <2>2. /\ w[j] \notin DOMAIN d /\ j > 1 /\ w[j - 1] \in DOMAIN d /\ w[j] \in d[w[j - 1]]
    BY <1>4 DEF LaidOut
  <2>3. i + 1 # j /\ i + 1 \in 1..Len(w) /\ j - 1 \in 1..Len(w) /\ i + 1 <= j - 1
    BY <2>1, <2>2
  <2>4. Leads(d, w[i + 1], w[j - 1], (j - 1) - (i + 1))
    BY <2>1, <2>2, <2>3 DEF LaidOut
  <2>5. Edge(d, w[j - 1], w[i + 1])
    BY <2>1, <2>2, FieldEdge
  <2>6. /\ (j - 1) - (i + 1) \in Nat /\ j - i \in Nat /\ (j - 1) - (i + 1) < j - i
        /\ j - i \in Lengths
    <3>1. j - i \in 1..Len(w)
      BY <1>1
    <3>2. (j - 1) - (i + 1) \in Nat /\ j - i \in Nat /\ (j - 1) - (i + 1) < j - i
      BY <1>1, <2>3
    <3> QED
      BY <1>1, <3>1, <3>2
  <2>7. Leads(d, w[i + 1], w[i + 1], j - i)
    BY <2>1, <2>4, <2>5, <2>6, LeadsFurther
  <2> QED
    BY <1>2, <2>6, <2>7
<1> QED
  BY <1>3, <1>4

WalkInv ==
  /\ phase = "emit" => errors = {}
  /\ walk # <<>> => phase = "emit"
  /\ walk \in Seq(Type)
  /\ glue \in {"layout", "drop", "equal"}
  /\ glue = "layout" => LaidOut(defs, walk)

\* The emitter runs on a program without error, and lays types out from the outside in.
LEMMA WalkStep == Forms /\ NilOnce /\ WalkInv /\ [Next]_vars => WalkInv'
<1> SUFFICES ASSUME Forms, NilOnce, WalkInv, [Next]_vars PROVE WalkInv'
  OBVIOUS
<1>1. CASE UNCHANGED vars
  BY <1>1 DEF WalkInv, vars, tables, emitted, declared
<1>2. CASE Start
  <2>1. PICK t \in DOMAIN defs : walk' = <<t>>
    BY <1>2 DEF Start
  <2>2. phase = "emit" /\ UNCHANGED <<phase, errors, defs>> /\ t \in Type
        /\ glue' \in {"layout", "drop", "equal"}
    BY <1>2, <2>1 DEF Start, declared, tables, Forms
  <2>3. PICK w : w = <<t>>
    OBVIOUS
  <2>4. w \in Seq(Type) /\ Len(w) = 1 /\ w[1] = t
    BY <2>2, <2>3
  <2>5. LaidOut(defs, w)
    <3>1. \A i \in 1..Len(w) : i = 1
      BY <2>4
    <3>2. Leads(defs, t, t, 1 - 1)
      BY <2>1, LeadsNowhere
    <3>3. Len(w) \in Lengths
      BY <2>4, TypesAssumption DEF Lengths
    <3>4. \A i \in 1..Len(w) : w[i] \in DOMAIN defs
      BY <2>1, <2>4, <3>1
    <3>5. \A i, j \in 1..Len(w) : Leads(defs, w[i], w[j], j - i)
      BY <2>4, <3>1, <3>2
    <3> QED
      BY <3>3, <3>4, <3>5 DEF LaidOut
  <2> QED
    BY <2>1, <2>2, <2>3, <2>4, <2>5 DEF WalkInv
<1>3. CASE Descend
  <2>1. /\ walk # <<>> /\ Len(walk) + 1 \in Depths /\ UNCHANGED <<phase, errors, defs, glue>>
        /\ phase = "emit" /\ walk \in Seq(Type)
    BY <1>3 DEF Descend, WalkInv, declared, tables
  <2>2. PICK part : /\ walk' = Append(walk, part)
                    /\ part \in (CASE glue = "layout" -> LayoutParts(Last(walk))
                                    [] glue = "drop"   -> DropParts(Last(walk))
                                    [] glue = "equal"  -> EqualParts(Last(walk)))
    BY <1>3 DEF Descend
  <2>3. PICK last \in Type : last = Last(walk)
    BY <2>1, FrontOf
  <2>4. part \in Type
    <3>1. Head(last) \in Wraps => Tail(last) \in Type
      BY TailType
    <3>2. /\ LayoutParts(last) \subseteq Type /\ DropParts(last) \subseteq Type
          /\ EqualParts(last) \subseteq Type
      BY <3>1 DEF LayoutParts, DropParts, EqualParts, TableParts, Forms, Wraps
    <3>3. glue \in {"layout", "drop", "equal"} => part \in Type
      BY <2>2, <2>3, <3>2
    <3> QED
      BY <3>3 DEF WalkInv
  <2>5. PICK v : v = Append(walk, part)
    OBVIOUS
  <2>6. v \in Seq(Type)
    BY <2>1, <2>4, <2>5, AppendProperties
  <2>7. ASSUME glue = "layout" PROVE LaidOut(defs, v)
    <3>1. part \in TableParts(defs, last) /\ (part \in DOMAIN defs \/ Head(part) = "OrNil")
      BY <2>2, <2>3, <2>7 DEF LayoutParts
    <3>2. /\ \A id \in DOMAIN defs : IsNominal(id)
          /\ \A id \in DOMAIN defs : \A t \in defs[id] : t \in Type /\ ~RepeatsNil(t)
      BY DEF Forms, NilOnce
    <3>3. LaidOut(defs, walk)
      BY <2>7 DEF WalkInv
    <3> QED
      BY <2>1, <2>3, <2>4, <2>5, <3>1, <3>2, <3>3, LaidOutFurther
  <2> QED
    BY <2>1, <2>2, <2>5, <2>6, <2>7 DEF WalkInv
<1>4. CASE Ascend
  <2>1. /\ walk # <<>> /\ walk' = Front(walk) /\ UNCHANGED <<phase, errors, defs, glue>>
        /\ walk \in Seq(Type)
    BY <1>4 DEF Ascend, WalkInv, declared, tables
  <2>2. PICK v : v = Front(walk)
    OBVIOUS
  <2>3. v \in Seq(Type)
    BY <2>1, <2>2, FrontOf
  <2>4. LaidOut(defs, walk) => LaidOut(defs, v)
    BY <2>1, <2>2, LaidOutBack
  <2> QED
    BY <2>1, <2>2, <2>3, <2>4 DEF WalkInv
<1>5. CASE (\E o \in Declarations : Write(o)) \/ Resolve
  <2>1. walk = <<>>
    BY <1>5, TopFrame DEF WalkInv, Write, Resolve, Collect, CollectDeclaration, ResolveField,
      FinishDeclaration, Freeze, MentionType, CallFunction, FinishSpecialisation, NextSignature, NextBody, Accept
  <2>2. UNCHANGED <<walk, glue>> /\ (phase' = "emit" => errors' = {})
    BY <1>5, TopFrame DEF WalkInv, Write, Resolve, Collect, CollectDeclaration, ResolveField,
      FinishDeclaration, Freeze, MentionType, CallFunction, FinishSpecialisation, NextSignature, NextBody, Accept,
      emitted, declared
  <2>3. PICK d : d = defs'
    OBVIOUS
  <2>4. PICK w : w = <<>>
    OBVIOUS
  <2>5. LaidOut(d, w)
    BY <2>4, TypesAssumption DEF LaidOut
  <2> QED
    BY <2>1, <2>2, <2>3, <2>4, <2>5 DEF WalkInv
<1> QED
  BY <1>1, <1>2, <1>3, <1>4, <1>5 DEF Next

\* No type contains itself by value once the program is accepted, so laying a
\* type out after its parts comes to an end.
THEOREM LayoutCorrect == Spec => []LayoutIsFinite
<1> DEFINE Inv == Forms /\ NilOnce /\ CycleInv /\ WalkInv
<1>1. Init => Inv
  <2> SUFFICES ASSUME Init PROVE Inv
    OBVIOUS
  <2>1. DOMAIN defs = {} /\ DOMAIN stack = {} /\ phase = "write" /\ walk = <<>> /\ glue = "drop"
    BY DEF Init
  <2>2. NilOnce /\ CycleInv /\ WalkInv
    BY <2>1 DEF NilOnce, CycleInv, WalkInv
  <2> QED
    BY <2>2, InitForms
<1>2. Inv /\ [Next]_vars => Inv'
  BY StepForms, NilOnceStep, CycleStep, WalkStep
<1>3. Inv => LayoutIsFinite
  <2> SUFFICES ASSUME Inv, glue = "layout",
                      NEW i \in DOMAIN walk, NEW j \in DOMAIN walk, walk[i] = walk[j], i # j
               PROVE  FALSE
    BY DEF LayoutIsFinite
  <2>1. Len(walk) \in Nat /\ DOMAIN walk = 1..Len(walk) /\ walk # <<>>
    BY LenProperties, EmptySeq DEF WalkInv
  <2>2. NoCycle(defs) /\ LaidOut(defs, walk) /\ \A id \in DOMAIN defs : IsNominal(id)
    BY <2>1 DEF WalkInv, CycleInv, Forms
  <2>3. i < j \/ j < i
    BY <2>1
  <2> QED
    BY <2>1, <2>2, <2>3, LaidOutOnce
<1> QED
  BY <1>1, <1>2, <1>3, PTL DEF Spec

----------------------------------------------------------------------------
(* The type invariant.                                                      *)

\* The tables keep an entry for every type, from the end of the collection on.
LEMMA TypesStep ==
  Forms /\ WalkInv /\ TypesTypeOK /\ [Next]_vars => TypesTypeOK'
<1> DEFINE Kinds == {"repeated", "depth", "count", "limit", "layout"}
           Covered == /\ DOMAIN moveOnly' = DOMAIN defs' /\ DOMAIN equality' = DOMAIN defs'
           Texts == FieldTypes \cup Templates \cup Signatures \cup Bodies \cup Mains
<1> SUFFICES ASSUME Forms, WalkInv, TypesTypeOK, [Next]_vars PROVE TypesTypeOK'
  OBVIOUS
<1>1. Forms'
  BY StepForms
<1>2. source' \in [Declarations -> SUBSET Texts]
  <2>1. ASSUME NEW o \in Declarations, Write(o) PROVE source' \in [Declarations -> SUBSET Texts]
    <3>1. PICK t \in Written(o) : source' = [source EXCEPT ![o] = @ \cup {t}]
      BY <2>1 DEF Write
    <3>2. t \in Texts
      BY <3>1 DEF Written
    <3> QED
      BY <3>1, <3>2 DEF TypesTypeOK
  <2>2. CASE UNCHANGED source
    BY <2>2 DEF TypesTypeOK
  <2>3. CASE Resolve \/ Start \/ Descend \/ Ascend \/ UNCHANGED vars
    <3>1. UNCHANGED source
      BY <2>3 DEF Resolve, Collect, CollectDeclaration, ResolveField, FinishDeclaration, Freeze,
        MentionType, CallFunction, FinishSpecialisation, NextSignature, NextBody, Accept, Start, Descend,
        Ascend, vars, declared
    <3> QED
      BY <2>2, <3>1
  <2> QED
    BY <2>1, <2>3 DEF Next
<1>3. errors' \subseteq Kinds
  <2>1. errors \subseteq Kinds
    BY DEF TypesTypeOK
  <2>2. CASE ResolveField
    <3>1. \E failed \in SUBSET Kinds : errors' = errors \cup failed
      BY <2>2 DEF ResolveField
    <3> QED
      BY <2>1, <3>1
  <2>3. CASE ~ResolveField
    BY <2>1, <2>3 DEF Next, Resolve, Write, Collect, CollectDeclaration, FinishDeclaration, Freeze,
      MentionType, CallFunction, FinishSpecialisation, NextSignature, NextBody, Accept, Start, Descend, Ascend,
      vars
  <2> QED
    BY <2>2, <2>3
<1>4. phase' \in {"check", "emit"} => Covered
  <2> SUFFICES ASSUME phase' \in {"check", "emit"} PROVE Covered
    OBVIOUS
  <2>1. CASE UNCHANGED tables /\ phase \in {"check", "emit"}
    BY <2>1 DEF TypesTypeOK, tables
  <2>2. CASE Freeze
    BY <2>2 DEF Freeze, MoveOnlySupport, EqualitySupport
  <2>3. CASE FinishSpecialisation
    <3>1. DOMAIN defs' = DOMAIN defs /\ phase = "check"
      BY <2>3 DEF FinishSpecialisation
    <3>2. CASE UNCHANGED <<moveOnly, equality>>
      BY <3>1, <3>2 DEF TypesTypeOK
    <3>3. CASE moveOnly' = MoveOnlySupport(defs') /\ equality' = EqualitySupport(defs')
      BY <3>3 DEF MoveOnlySupport, EqualitySupport
    <3> QED
      BY <2>3, <3>2, <3>3 DEF FinishSpecialisation
  <2>4. CASE ReservesOne /\ UNCHANGED phase
    BY <2>4 DEF ReservesOne, Reserve
  <2>5. CASE ResolveField \/ MentionType
    <3>1. UNCHANGED phase
      BY <2>5 DEF ResolveField, MentionType, declared
    <3> QED
      BY <2>1, <2>4, <2>5, <3>1, ResolveKinds, MentionKinds DEF MarksField
  <2>6. CASE CallFunction \/ NextSignature \/ NextBody \/ Accept \/ Start \/ Descend \/ Ascend \/ UNCHANGED vars
    <3>1. UNCHANGED tables /\ phase \in {"check", "emit"}
      BY <2>6 DEF CallFunction, NextSignature, NextBody, Accept, Start, Descend, Ascend, vars, declared
    <3> QED
      BY <2>1, <3>1
  <2>7. CASE (\E o \in Declarations : Write(o)) \/ Collect \/ CollectDeclaration \/ FinishDeclaration
    BY <2>7 DEF Write, Collect, CollectDeclaration, FinishDeclaration, declared
  <2> QED
    BY <2>2, <2>3, <2>5, <2>6, <2>7 DEF Next, Resolve
<1>5. walk' # <<>> => phase' = "emit" /\ Head(walk') \in DOMAIN defs'
  <2>1. CASE UNCHANGED vars
    BY <2>1 DEF TypesTypeOK, vars, declared, tables, emitted
  <2>2. CASE Start
    BY <2>2 DEF Start, declared, tables
  <2>3. CASE Descend
    <3>1. PICK part : walk' = Append(walk, part)
      BY <2>3 DEF Descend
    <3>2. walk # <<>> /\ walk \in Seq(Type) /\ UNCHANGED <<phase, defs>>
      BY <2>3 DEF Descend, declared, tables, WalkInv
    <3>3. Head(Append(walk, part)) = Head(walk)
      BY <3>2
    <3> QED
      BY <3>1, <3>2, <3>3 DEF TypesTypeOK
  <2>4. CASE Ascend
    <3>1. walk # <<>> /\ walk \in Seq(Type) /\ UNCHANGED <<phase, defs>> /\ walk' = Front(walk)
      BY <2>4 DEF Ascend, declared, tables, WalkInv
    <3>2. PICK w : w = Front(walk)
      OBVIOUS
    <3>3. /\ w \in Seq(Type) /\ Len(w) = Len(walk) - 1
          /\ \A i \in 1..(Len(walk) - 1) : w[i] = walk[i]
      BY <3>1, <3>2, FrontOf
    <3>4. ASSUME w # <<>> PROVE Head(w) = Head(walk)
      <4>1. Len(w) \in Nat /\ Len(w) # 0
        BY <3>3, <3>4, EmptySeq, LenProperties
      <4>2. 1 \in 1..(Len(walk) - 1)
        BY <3>3, <4>1
      <4>3. Head(w) = w[1] /\ Head(walk) = walk[1]
        BY <3>1, <3>3, <3>4
      <4> QED
        BY <3>3, <4>2, <4>3
    <3> QED
      BY <3>1, <3>2, <3>4 DEF TypesTypeOK
  <2>5. CASE (\E o \in Declarations : Write(o)) \/ Resolve
    <3>1. walk = <<>>
      BY <2>5, TopFrame DEF WalkInv, Write, Resolve, Collect, CollectDeclaration, ResolveField,
        FinishDeclaration, Freeze, MentionType, CallFunction, FinishSpecialisation, NextSignature, NextBody, Accept
    <3>2. UNCHANGED walk
      BY <2>5 DEF Write, Resolve, Collect, CollectDeclaration, ResolveField,
        FinishDeclaration, Freeze, MentionType, CallFunction, FinishSpecialisation, NextSignature, NextBody, Accept,
        emitted
    <3> QED
      BY <3>1, <3>2
  <2> QED
    BY <2>1, <2>2, <2>3, <2>4, <2>5 DEF Next
<1> QED
  BY <1>1, <1>2, <1>3, <1>4, <1>5 DEF TypesTypeOK, Forms

\* The tables have an entry for every type they are asked about.
THEOREM TypesCorrect == Spec => []TypesTypeOK
<1> DEFINE Inv == Forms /\ NilOnce /\ WalkInv /\ TypesTypeOK
<1>1. Init => Inv
  <2> SUFFICES ASSUME Init PROVE Inv
    OBVIOUS
  <2>1. /\ DOMAIN defs = {} /\ DOMAIN stack = {} /\ phase = "write" /\ walk = <<>>
        /\ glue = "drop" /\ stack = <<>> /\ errors = {} /\ source = [o \in Declarations |-> {}]
    BY DEF Init
  <2>2. NilOnce /\ WalkInv /\ TypesTypeOK
    BY <2>1 DEF NilOnce, WalkInv, TypesTypeOK
  <2> QED
    BY <2>2, InitForms
<1>2. Inv /\ [Next]_vars => Inv'
  BY StepForms, NilOnceStep, WalkStep, TypesStep
<1>3. Inv => TypesTypeOK
  OBVIOUS
<1> QED
  BY <1>1, <1>2, <1>3, PTL DEF Spec

----------------------------------------------------------------------------
(***************************************************************************)
(* Fields that are no collections that own: the programs the checker's     *)
(* tables read rightly.                                                    *)
(***************************************************************************)
Plain(t) == ~OwningCollection(t)

\* A collection that owns something, and no box around it.
Owns(t, i) == t[i] \in {"List", "Map", "Set"} \/ (t[i] = "Array" /\ t[i + 1] # "Int")
Unboxed(t, i) == \A j \in 1..(i - 1) : t[j] = "Box" => \E k \in (j + 1)..(i - 1) : t[k] = "G"

\* A type is plain if each collection in it is of scalars or in a box.
LEMMA PlainPositions ==
  ASSUME NEW t \in Type
  PROVE  Plain(t) <=> \A i \in 1..Len(t) : ~(Owns(t, i) /\ Unboxed(t, i))
<1>1. DOMAIN t = 1..Len(t)
  BY TypeIsSequence
<1> QED
  BY <1>1 DEF Plain, OwningCollection, Owns, Unboxed

\* A place of a suffix, as a place of the whole.
LEMMA BetweenPlaces ==
  ASSUME NEW i \in Int, NEW j \in Int, NEW m \in Int, NEW k \in Int, NEW l \in Int,
         k >= (j - i + 1) + 1, k <= m - 1, j >= i, m <= l - i + 1
  PROVE  i + k - 1 \in (j + 1)..((i + m - 1) - 1) /\ k \in 1..(l - i + 1)
OBVIOUS

\* A type is plain from an application of G on, and behind a constructor that is no box.
LEMMA PlainSuffix ==
  ASSUME NEW t \in Type, Plain(t), NEW i \in DOMAIN t,
         \A j \in 1..(i - 1) : t[j] = "Box" => \E k \in (j + 1)..i : t[k] = "G"
  PROVE  Plain(SubSeq(t, i, Len(t)))
<1>1. PICK s : s = SubSeq(t, i, Len(t))
  OBVIOUS
<1>2. t \in Seq(Wraps \cup Leaves) /\ Len(t) \in Nat /\ i \in 1..Len(t) /\ i \in Int
  BY TypeIsSequence
<1>3. /\ s \in Seq(Wraps \cup Leaves) /\ Len(s) = Len(t) - i + 1
      /\ \A j \in 1..(Len(t) - i + 1) : s[j] = t[i + j - 1]
  <2>1. Len(t) \in 0..Len(t) /\ i <= Len(t) + 1
    BY <1>2
  <2> QED
    BY <1>1, <1>2, <2>1, Segment
<1>4. s \in Type
  BY <1>1, SuffixType
<1>5. ASSUME NEW m \in 1..Len(s), Owns(s, m), Unboxed(s, m) PROVE FALSE
  <2> DEFINE n == i + m - 1
  <2>1. n \in 1..Len(t) /\ s[m] = t[n] /\ n >= i
    BY <1>2, <1>3
  <2>2. Owns(t, n)
    <3>1. CASE s[m] = "Array"
      <4>1. m + 1 \in 1..Len(s)
        <5>1. s[m] \notin Leaves
          BY <3>1, TypesAssumption DEF Leaves, Wraps
        <5>2. m # Len(s)
          BY <1>4, <5>1, TypeIsSequence
        <5> QED
          BY <1>2, <1>3, <5>2
      <4>2. s[m + 1] = t[n + 1]
        BY <1>2, <1>3, <4>1
      <4> QED
        BY <1>5, <2>1, <3>1, <4>2 DEF Owns
    <3>2. CASE s[m] # "Array"
      BY <1>5, <2>1, <3>2 DEF Owns
    <3> QED
      BY <3>1, <3>2
  <2>3. ASSUME NEW j \in 1..(n - 1), t[j] = "Box" PROVE \E k \in (j + 1)..(n - 1) : t[k] = "G"
    <3>1. CASE j \in 1..(i - 1)
      <4>1. PICK k \in (j + 1)..i : t[k] = "G"
        BY <2>3, <3>1
      <4>2. k # n
        BY <2>2, <4>1 DEF Owns
      <4>3. k \in (j + 1)..(n - 1)
        BY <1>2, <2>1, <3>1, <4>2
      <4> QED
        BY <4>1, <4>3
    <3>2. CASE ~(j \in 1..(i - 1))
      <4>1. j - i + 1 \in 1..(m - 1) /\ j - i + 1 \in 1..(Len(t) - i + 1) /\ i + (j - i + 1) - 1 = j
        <5>1. i \in Int /\ j \in Int /\ m \in Int /\ Len(t) \in Int /\ i >= 1 /\ j >= i
          BY <1>2, <1>3, <2>1, <2>3, <3>2
        <5>2. j <= (i + m - 1) - 1 /\ m <= Len(t) - i + 1
          BY <1>3, <2>1, <5>1
        <5> QED
          BY <5>1, <5>2
      <4>2. s[j - i + 1] = "Box"
        BY <1>3, <2>3, <4>1
      <4>3. PICK k \in ((j - i + 1) + 1)..(m - 1) : s[k] = "G"
        BY <1>5, <4>1, <4>2 DEF Unboxed
      <4>4. i + k - 1 \in (j + 1)..(n - 1) /\ k \in 1..(Len(t) - i + 1)
        <5>1. i \in Int /\ j \in Int /\ m \in Int /\ k \in Int /\ Len(t) \in Int
          BY <1>2, <1>3, <4>3
        <5>2. k >= (j - i + 1) + 1 /\ k <= m - 1 /\ j >= i /\ m <= Len(t) - i + 1
          BY <1>2, <1>3, <3>2, <4>3, <5>1
        <5>3. PICK l : l = Len(t)
          OBVIOUS
        <5> QED
          BY <5>1, <5>2, <5>3, BetweenPlaces
      <4>5. t[i + k - 1] = "G"
        BY <1>3, <4>3, <4>4
      <4> HIDE DEF n
      <4> QED
        BY <4>4, <4>5
    <3> QED
      BY <3>1, <3>2
  <2>4. Unboxed(t, n)
    BY <2>3 DEF Unboxed
  <2> QED
    BY <2>1, <2>2, <2>4, PlainPositions
<1>6. Plain(s)
  BY <1>4, <1>5, PlainPositions
<1> QED
  BY <1>1, <1>6

\* So are the specialisations a plain type asks for.
LEMMA PlainApplications ==
  ASSUME NEW t \in Type, Plain(t), NEW id \in Applications(t)
  PROVE  Plain(id)
<1>1. PICK i \in DOMAIN t : t[i] = "G" /\ id = SubSeq(t, i, Len(t))
  BY DEF Applications
<1>2. i \in Nat
  BY TypeIsSequence
<1>3. \A j \in 1..(i - 1) : \E k \in (j + 1)..i : t[k] = "G"
  <2>1. \A j \in 1..(i - 1) : i \in (j + 1)..i
    BY <1>2
  <2> QED
    BY <1>1, <2>1
<1> QED
  BY <1>1, <1>3, PlainSuffix

\* A type is plain behind its first constructor if that is no box.
LEMMA PlainTail ==
  ASSUME NEW t \in Type, Plain(t), Head(t) \in Wraps, Head(t) # "Box"
  PROVE  Plain(Tail(t))
<1>1. t \in Seq(Wraps \cup Leaves) /\ t # <<>> /\ Len(t) \in Nat \ {0} /\ Head(t) = t[1]
  BY TypeIsSequence
<1>2. t[1] \notin Leaves
  BY <1>1, TypesAssumption DEF Leaves, Wraps
<1>3. 2 \in DOMAIN t
  BY <1>1, <1>2, TypeIsSequence
<1>4. Tail(t) = SubSeq(t, 2, Len(t))
  BY <1>1, TailIsSubSeq
<1>5. \A j \in 1..(2 - 1) : t[j] # "Box"
  BY <1>1
<1> QED
  BY <1>3, <1>4, <1>5, PlainSuffix

\* A plain type is no collection that owns; the elements of an array are of type Int.
LEMMA PlainHead ==
  ASSUME NEW t \in Type, Plain(t)
  PROVE  /\ Head(t) \notin {"List", "Map", "Set"}
         /\ Head(t) = "Array" => Tail(t) = <<"Int">>
<1>1. t \in Seq(Wraps \cup Leaves) /\ t # <<>> /\ Len(t) \in Nat \ {0} /\ Head(t) = t[1]
      /\ 1 \in 1..Len(t)
  BY TypeIsSequence
<1>2. Unboxed(t, 1)
  BY DEF Unboxed
<1>3. ~Owns(t, 1)
  BY <1>1, <1>2, PlainPositions
<1>4. ASSUME Head(t) = "Array" PROVE Tail(t) = <<"Int">>
  <2>1. t[2] = "Int"
    BY <1>1, <1>3, <1>4 DEF Owns
  <2>2. t[1] \notin Leaves
    BY <1>1, <1>4, TypesAssumption DEF Leaves, Wraps
  <2>3. Len(t) # 1
    BY <1>1, <2>2, TypeIsSequence
  <2>4. 2 \in 1..Len(t) /\ t[2] \in Leaves
    <3>1. "Int" \in Leaves
      BY DEF Leaves
    <3>2. t[2] \in Leaves
      BY <2>1, <3>1, Zenon
    <3>3. 2 \in 1..Len(t)
      <4>1. PICK n \in Nat : n = Len(t) /\ n # 0 /\ n # 1
        BY <1>1, <2>3
      <4> QED
        BY <4>1
    <3> QED
      BY <3>2, <3>3
  <2>5. Len(t) = 2
    BY <2>4, TypeIsSequence
  <2>6. PICK u : u = Tail(t)
    OBVIOUS
  <2>7. u \in Seq(Wraps \cup Leaves) /\ Len(u) = 1 /\ u[1] = "Int"
    <3>1. u \in Seq(Wraps \cup Leaves) /\ Len(u) = Len(t) - 1 /\ \A i \in 1..Len(u) : u[i] = t[i + 1]
      BY <1>1, <2>6, HeadTailProperties
    <3>2. Len(u) = 1 /\ u[1] = t[1 + 1]
      BY <2>5, <3>1
    <3>3. t[1 + 1] = "Int"
      <4>1. 1 + 1 = 2
        OBVIOUS
      <4> QED
        BY <2>1, <4>1, Zenon
    <3> QED
      BY <3>1, <3>2, <3>3
  <2>8. u = <<"Int">>
    BY <2>7
  <2> QED
    BY <2>6, <2>8
<1> QED
  BY <1>1, <1>3, <1>4 DEF Owns

\* A leaf is a plain type.
LEMMA PlainLeaf ==
  ASSUME NEW n \in Leaves
  PROVE  <<n>> \in Type /\ Plain(<<n>>) /\ Head(<<n>>) = n
<1>1. PICK s : s = <<n>>
  OBVIOUS
<1>2. s \in Seq(Wraps \cup Leaves) /\ Len(s) = 1 /\ s[1] = n /\ Head(s) = n
  BY <1>1
<1>3. Ends(s) /\ Len(s) # 0
  BY <1>2 DEF Ends
<1>4. s \in Type
  BY <1>2, <1>3, SequenceIsType
<1>5. n \notin Wraps
  BY TypesAssumption DEF Leaves, Wraps
<1>6. \A i \in 1..Len(s) : ~Owns(s, i)
  <2>1. s[1] \notin {"List", "Map", "Set", "Array"}
    BY <1>2, <1>5 DEF Wraps
  <2>2. \A i \in 1..Len(s) : i = 1
    BY <1>2
  <2> QED
    BY <2>1, <2>2 DEF Owns
<1>7. Plain(s)
  BY <1>4, <1>6, PlainPositions
<1> QED
  BY <1>1, <1>2, <1>4, <1>7

\* A template that is plain is so with a plain type for T.
LEMMA PlainSubstitute ==
  ASSUME NEW t \in Type, Plain(t), NEW arg \in Type, Plain(arg)
  PROVE  Plain(Substitute(t, arg))
<1>1. CASE Last(t) # "T"
  BY <1>1 DEF Substitute
<1>2. CASE Last(t) = "T"
  <2>1. PICK u : u = Front(t)
    OBVIOUS
  <2>2. PICK s : s = u \o arg
    OBVIOUS
  <2>3. s = Substitute(t, arg)
    BY <1>2, <2>1, <2>2 DEF Substitute
  <2>4. s \in Type
    BY <2>3, SubstituteType
  <2>5. /\ t \in Seq(Wraps \cup Leaves) /\ Len(t) \in Nat \ {0} /\ t # <<>>
        /\ arg \in Seq(Wraps \cup Leaves) /\ Len(arg) \in Nat \ {0}
    BY TypeIsSequence
  <2>6. /\ u \in Seq(Wraps \cup Leaves) /\ Len(u) = Len(t) - 1
        /\ \A j \in 1..(Len(t) - 1) : u[j] = t[j]
        /\ t[Len(t)] = "T"
    BY <1>2, <2>1, <2>5, FrontOf
  <2>7. /\ Len(s) = Len(u) + Len(arg)
        /\ \A j \in 1..Len(u) : s[j] = t[j]
        /\ \A j \in 1..Len(arg) : s[j + Len(u)] = arg[j]
        /\ Len(u) \in Nat
    <3>1. /\ Len(s) = Len(u) + Len(arg)
          /\ \A j \in 1..Len(u) : s[j] = u[j]
          /\ \A j \in 1..Len(arg) : s[j + Len(u)] = arg[j]
      <4>1. u \in Seq(Wraps \cup Leaves) /\ arg \in Seq(Wraps \cup Leaves)
        BY <2>5, <2>6
      <4>2. /\ Len(u \o arg) = Len(u) + Len(arg)
            /\ \A j \in 1..Len(u) : (u \o arg)[j] = u[j]
            /\ \A j \in 1..Len(arg) : (u \o arg)[j + Len(u)] = arg[j]
        BY <4>1, Joined
      <4> QED
        BY <2>2, <4>2
    <3>2. Len(u) \in Nat /\ 1..Len(u) = 1..(Len(t) - 1)
      BY <2>5, <2>6
    <3>3. \A j \in 1..Len(u) : u[j] = t[j]
      BY <2>6, <3>2
    <3> QED
      BY <3>1, <3>2, <3>3
  <2>8. ASSUME NEW m \in 1..Len(u), Owns(s, m), Unboxed(s, m) PROVE FALSE
    <3>1. m \in 1..Len(t) /\ s[m] = t[m] /\ m \in Nat /\ Len(t) = Len(u) + 1
      BY <2>5, <2>6, <2>7
    <3>2. Owns(t, m)
      <4>1. CASE s[m] = "Array"
        <5>1. CASE m = Len(u)
          <6>1. t[m + 1] = "T"
            BY <2>6, <3>1, <5>1
          <6> QED
            BY <3>1, <4>1, <6>1 DEF Owns
        <5>2. CASE m # Len(u)
          <6>1. s[m + 1] = t[m + 1]
            BY <2>7, <5>2
          <6> QED
            BY <2>8, <3>1, <4>1, <6>1 DEF Owns
        <5> QED
          BY <5>1, <5>2
      <4>2. CASE s[m] # "Array"
        BY <2>8, <3>1, <4>2 DEF Owns
      <4> QED
        BY <4>1, <4>2
    <3>3. \A j \in 1..(m - 1) : s[j] = t[j]
      BY <2>7, <3>1
    <3>4. ASSUME NEW j \in 1..(m - 1), t[j] = "Box" PROVE \E k \in (j + 1)..(m - 1) : t[k] = "G"
      <4>1. PICK k \in (j + 1)..(m - 1) : s[k] = "G"
        BY <2>8, <3>3, <3>4 DEF Unboxed
      <4>2. k \in 1..(m - 1)
        BY <3>1, <4>1
      <4> QED
        BY <3>3, <4>1, <4>2
    <3>5. Unboxed(t, m)
      BY <3>4 DEF Unboxed
    <3> QED
      BY <3>1, <3>2, <3>5, PlainPositions
  <2>9. ASSUME NEW n \in 1..Len(arg), Owns(s, n + Len(u)), Unboxed(s, n + Len(u)) PROVE FALSE
    <3>1. s[n + Len(u)] = arg[n] /\ n \in Nat /\ Len(u) \in Nat
      BY <2>7
    <3>2. Owns(arg, n)
      <4>1. CASE s[n + Len(u)] = "Array"
        <5>1. arg[n] \notin Leaves
          BY <3>1, <4>1, TypesAssumption DEF Leaves, Wraps
        <5>2. n # Len(arg)
          BY <5>1, TypeIsSequence
        <5>3. n + 1 \in 1..Len(arg) /\ (n + 1) + Len(u) = (n + Len(u)) + 1
          BY <2>5, <3>1, <5>2
        <5>4. s[(n + Len(u)) + 1] = arg[n + 1]
          BY <2>7, <5>3
        <5> QED
          BY <2>9, <3>1, <4>1, <5>4 DEF Owns
      <4>2. CASE s[n + Len(u)] # "Array"
        BY <2>9, <3>1, <4>2 DEF Owns
      <4> QED
        BY <4>1, <4>2
    <3>3. ASSUME NEW j \in 1..(n - 1), arg[j] = "Box"
          PROVE  \E k \in (j + 1)..(n - 1) : arg[k] = "G"
      <4>1. j + Len(u) \in 1..((n + Len(u)) - 1) /\ j \in 1..Len(arg) /\ j \in Nat
        BY <2>5, <3>1
      <4>2. s[j + Len(u)] = "Box"
        BY <2>7, <3>3, <4>1
      <4>3. PICK k \in ((j + Len(u)) + 1)..((n + Len(u)) - 1) : s[k] = "G"
        BY <2>9, <4>1, <4>2 DEF Unboxed
      <4>4. PICK i \in (j + 1)..(n - 1) : k = i + Len(u)
        <5>1. k - Len(u) \in (j + 1)..(n - 1) /\ k = (k - Len(u)) + Len(u)
          BY <3>1, <4>1, <4>3
        <5> QED
          BY <5>1
      <4>5. i \in 1..Len(arg)
        BY <2>5, <3>1, <4>1, <4>4
      <4>6. arg[i] = "G"
        BY <2>7, <4>3, <4>4, <4>5
      <4> QED
        BY <4>4, <4>6
    <3>4. Unboxed(arg, n)
      BY <3>3 DEF Unboxed
    <3> QED
      BY <3>2, <3>4, PlainPositions
  <2>10. ASSUME NEW i \in 1..Len(s), Owns(s, i), Unboxed(s, i) PROVE FALSE
    <3>1. CASE i \in 1..Len(u)
      BY <2>8, <2>10, <3>1
    <3>2. CASE i \notin 1..Len(u)
      <4>1. i - Len(u) \in 1..Len(arg) /\ i = (i - Len(u)) + Len(u)
        BY <2>5, <2>7, <3>2
      <4>2. PICK n \in 1..Len(arg) : i = n + Len(u)
        BY <4>1
      <4> QED
        BY <2>9, <2>10, <4>2
    <3> QED
      BY <3>1, <3>2
  <2>11. Plain(s)
    BY <2>4, <2>10, PlainPositions
  <2> QED
    BY <2>3, <2>11
<1> QED
  BY <1>1, <1>2

PlainInv ==
  /\ \A o \in Declarations : \A t \in source[o] : Plain(t)
  /\ \A t \in todo : Plain(t)
  /\ \A id \in DOMAIN defs : \A t \in defs[id] : Plain(t)
  /\ \A i \in DOMAIN stack : \A t \in stack[i].left \cup stack[i].found : Plain(t)
  /\ \A i \in DOMAIN queue : Plain(queue[i].of)

\* What a declaration or a specialisation has to resolve is plain.
LEMMA PlainFrame ==
  ASSUME Forms, PlainInv, NEW id \in Type, IsNominal(id), Plain(id)
  PROVE  \A t \in Frame(id).left \cup Frame(id).found : Plain(t)
<1>1. CASE Head(id) = "G"
  <2>1. Tail(id) \in Type /\ Plain(Tail(id))
    BY <1>1, TailType, PlainTail DEF Wraps
  <2>2. source["G"] \subseteq Type /\ \A t \in source["G"] : Plain(t)
    BY DEF Forms, Declarations, PlainInv
  <2>3. \A t \in source["G"] : Plain(Substitute(t, Tail(id)))
    BY <2>1, <2>2, PlainSubstitute
  <2> QED
    BY <1>1, <2>3 DEF Frame
<1>2. CASE Head(id) # "G"
  <2>1. Head(id) \in Declarations
    BY <1>2 DEF Declarations, IsNominal
  <2> QED
    BY <1>2, <2>1 DEF Frame, PlainInv
<1> QED
  BY <1>1, <1>2

\* So is the signature of a function for a plain argument.
LEMMA PlainSignature ==
  ASSUME Forms, PlainInv, NEW arg \in Type, Plain(arg)
  PROVE  \A t \in Signature(arg) : Plain(t)
<1>1. source["Signature"] \subseteq Type /\ \A t \in source["Signature"] : Plain(t)
  BY DEF Forms, Declarations, PlainInv
<1> QED
  BY <1>1, PlainSubstitute DEF Signature

\* Every field, mention and request stays plain, specialised or not.
LEMMA PlainStep ==
  ASSUME Shapes = {}
  PROVE  Forms /\ PlainInv /\ [Next]_vars => PlainInv'
<1> SUFFICES ASSUME Forms, PlainInv, [Next]_vars PROVE PlainInv'
  OBVIOUS
<1>1. CASE UNCHANGED <<source, todo, defs, stack, queue>>
  BY <1>1 DEF PlainInv
<1>2. ASSUME NEW o \in Declarations, Write(o) PROVE PlainInv'
  <2>1. PICK t : /\ OwningCollection(t) => "collection_field" \in Shapes
                 /\ source' = [source EXCEPT ![o] = @ \cup {t}]
    BY <1>2 DEF Write
  <2>2. Plain(t) /\ UNCHANGED <<todo, defs, stack, queue>>
    BY <1>2, <2>1 DEF Plain, Write, tables, requests
  <2>3. \A p \in Declarations : source'[p] \subseteq source[p] \cup {t}
    BY <2>1 DEF Forms
  <2> QED
    BY <2>2, <2>3 DEF PlainInv
<1>3. CASE Collect
  <2>1. todo' = {<<n>> : n \in Names} /\ UNCHANGED <<source, defs, stack, queue>>
    BY <1>3 DEF Collect, tables, requests
  <2>2. \A t \in todo' : Plain(t)
    BY <2>1, PlainLeaf DEF Leaves
  <2> QED
    BY <2>1, <2>2 DEF PlainInv
<1>4. CASE CollectDeclaration
  <2>1. PICK id \in todo : todo' = todo \ {id} /\ stack' = <<Frame(id)>>
    BY <1>4 DEF CollectDeclaration
  <2>2. phase = "collect" /\ UNCHANGED <<source, defs, queue>>
    BY <1>4 DEF CollectDeclaration, tables, requests
  <2>3. id \in Type /\ IsNominal(id) /\ Plain(id)
    BY <2>1, <2>2 DEF Forms, PlainInv, IsNominal
  <2>4. DOMAIN stack' = {1} /\ stack'[1] = Frame(id)
    BY <2>1
  <2>5. \A i \in DOMAIN stack' : \A t \in stack'[i].left \cup stack'[i].found : Plain(t)
    BY <2>3, <2>4, PlainFrame
  <2> QED
    BY <2>1, <2>2, <2>5 DEF PlainInv
<1>5. CASE ReservesOne /\ todo' \subseteq todo /\ UNCHANGED <<source, queue>>
  <2>1. PICK id \in Type \cap Asked :
           /\ Head(id) = "G"
           /\ DOMAIN defs' = DOMAIN defs \cup {id} /\ defs'[id] = {}
           /\ \A t \in DOMAIN defs : defs'[t] = defs[t]
           /\ DOMAIN stack' = 1..(Len(stack) + 1) /\ DOMAIN stack = 1..Len(stack)
           /\ Len(stack) \in Nat
           /\ \A i \in DOMAIN stack : stack'[i] = stack[i]
           /\ stack'[Len(stack) + 1] = Frame(id)
    BY <1>5, ReservedStack
  <2>2. Plain(id)
    <3>1. PICK t \in Pending : id \in Applications(t)
      BY DEF Asked
    <3>2. t \in Type /\ Plain(t)
      <4>1. CASE t \in todo
        BY <4>1 DEF Forms, PlainInv
      <4>2. CASE \E i \in DOMAIN stack : t \in stack[i].left
        <5>1. PICK i \in DOMAIN stack : t \in stack[i].left
          BY <4>2
        <5>2. stack[i] \in StackFrame
          BY ElementOfSeq, LenProperties DEF Forms
        <5> QED
          BY <5>1, <5>2 DEF StackFrame, PlainInv
      <4> QED
        BY <3>1, <4>1, <4>2 DEF Pending
    <3> QED
      BY <3>1, <3>2, PlainApplications
  <2>3. \A t \in Frame(id).left \cup Frame(id).found : Plain(t)
    BY <2>1, <2>2, PlainFrame DEF IsNominal
  <2>4. \A i \in DOMAIN stack' : i \in DOMAIN stack \/ i = Len(stack) + 1
    BY <2>1
  <2>5. \A i \in DOMAIN stack' : \A t \in stack'[i].left \cup stack'[i].found : Plain(t)
    BY <2>1, <2>3, <2>4 DEF PlainInv
  <2>6. \A i \in DOMAIN defs' : \A t \in defs'[i] : Plain(t)
    BY <2>1 DEF PlainInv
  <2> QED
    BY <1>5, <2>5, <2>6 DEF PlainInv
<1>6. CASE ResolveField
  <2>1. UNCHANGED <<source, todo, queue>>
    BY <1>6 DEF ResolveField, declared
  <2>2. CASE MarksField
    <3>1. /\ defs' = defs /\ DOMAIN stack' = DOMAIN stack
          /\ \A i \in DOMAIN stack :
               stack'[i].left \cup stack'[i].found \subseteq stack[i].left \cup stack[i].found
      <4>1. stack \in Seq(StackFrame) /\ stack' \in Seq(StackFrame) /\ Len(stack') = Len(stack)
        BY <2>2 DEF MarksField, Stacked, Forms
      <4>2. DOMAIN stack' = DOMAIN stack
        BY <4>1, LenProperties
      <4> QED
        BY <2>2, <4>2 DEF MarksField, tables
    <3> QED
      BY <2>1, <3>1 DEF PlainInv
  <2> QED
    BY <1>5, <1>6, <2>1, <2>2, ResolveKinds
<1>7. CASE FinishDeclaration \/ FinishSpecialisation
  <2>1. PICK top \in DOMAIN stack :
           /\ DOMAIN defs' = DOMAIN defs \cup {stack[top].id}
           /\ \A t \in DOMAIN defs' : defs'[t] = IF t = stack[top].id THEN stack[top].found ELSE defs[t]
           /\ DOMAIN stack' \subseteq DOMAIN stack
           /\ \A i \in DOMAIN stack' : stack'[i] = stack[i]
    BY <1>7, FinishedStack
  <2>2. UNCHANGED <<source, todo, queue>>
    BY <1>7 DEF FinishDeclaration, FinishSpecialisation, declared, requests
  <2>3. \A i \in DOMAIN defs' : \A t \in defs'[i] : Plain(t)
    BY <2>1 DEF PlainInv
  <2>4. \A i \in DOMAIN stack' : \A t \in stack'[i].left \cup stack'[i].found : Plain(t)
    BY <2>1 DEF PlainInv
  <2> QED
    BY <2>2, <2>3, <2>4 DEF PlainInv
<1>8. CASE Freeze
  <2>1. todo' = source["Main"] /\ UNCHANGED <<source, defs, stack, queue>>
    BY <1>8 DEF Freeze
  <2>2. \A t \in todo' : Plain(t)
    BY <2>1 DEF PlainInv, Declarations
  <2> QED
    BY <2>1, <2>2 DEF PlainInv
<1>9. CASE MentionType
  <2>1. todo' \subseteq todo /\ UNCHANGED <<source, queue>>
    BY <1>9 DEF MentionType
  <2>2. CASE UNCHANGED <<tables, stack, count>>
    BY <2>1, <2>2 DEF PlainInv, tables
  <2> QED
    BY <1>5, <1>9, <2>1, <2>2, MentionKinds
<1>10. CASE CallFunction
  <2>1. UNCHANGED <<source, defs, stack>>
    BY <1>10 DEF CallFunction, tables
  <2>2. PICK t \in todo :
          /\ Head(t) = "F"
          /\ todo' = (todo \ {t}) \cup {Tail(t)} \cup Signature(Tail(t))
          /\ \/ UNCHANGED <<queue, seen>>
             \/ /\ seen' = seen \cup {t}
                /\ queue' = Append(queue, [of |-> t, depth |-> depth + 1, signed |-> FALSE])
    BY <1>10 DEF CallFunction
  <2>5. \A u \in todo' : Plain(u)
    <3>1. t \in Type /\ Plain(t)
      BY <2>2 DEF Forms, PlainInv
    <3>2. Tail(t) \in Type /\ Plain(Tail(t))
      BY <2>2, <3>1, TailType, PlainTail DEF Wraps
    <3>3. \A u \in Signature(Tail(t)) : Plain(u)
      BY <3>2, PlainSignature
    <3> QED
      BY <2>2, <3>2, <3>3 DEF PlainInv
  <2>3. CASE UNCHANGED queue
    BY <2>1, <2>3, <2>5 DEF PlainInv
  <2>4. CASE queue' = Append(queue, [of |-> t, depth |-> depth + 1, signed |-> FALSE])
    <3>1. t \in Type /\ [of |-> t, depth |-> depth + 1, signed |-> FALSE] \in Request /\ queue \in Seq(Request)
      BY <2>2 DEF Forms, Request
    <3>2. PICK request \in Request : request = [of |-> t, depth |-> depth + 1, signed |-> FALSE]
      BY <3>1
    <3>3. PICK q : q = Append(queue, request)
      OBVIOUS
    <3>4. /\ DOMAIN q = 1..(Len(queue) + 1) /\ DOMAIN queue = 1..Len(queue) /\ Len(queue) \in Nat
          /\ \A i \in 1..Len(queue) : q[i] = queue[i]
          /\ q[Len(queue) + 1] = request
      BY <3>1, <3>3, AppendProperties, LenProperties
    <3>5. \A i \in DOMAIN q : i \in DOMAIN queue \/ i = Len(queue) + 1
      BY <3>4
    <3>6. Plain(request.of)
      BY <3>2 DEF PlainInv
    <3>7. \A i \in DOMAIN q : Plain(q[i].of)
      BY <3>4, <3>5, <3>6 DEF PlainInv
    <3>8. q = queue'
      BY <2>4, <3>2, <3>3
    <3> QED
      BY <2>1, <2>5, <3>7, <3>8 DEF PlainInv
  <2> QED
    BY <2>2, <2>3, <2>4
<1>11. CASE NextBody
  <2>1. /\ todo' = {Substitute(t, Tail(Head(queue).of)) : t \in source["F"]}
        /\ queue # <<>> /\ queue' = Tail(queue) /\ queue \in Seq(Request)
        /\ UNCHANGED <<source, defs, stack>>
    BY <1>11 DEF NextBody, tables, Forms
  <2>2. PICK q : q = Tail(queue)
    OBVIOUS
  <2>3. /\ q \in Seq(Request) /\ Len(q) = Len(queue) - 1 /\ Len(queue) \in Nat \ {0}
        /\ \A i \in 1..Len(q) : q[i] = queue[i + 1]
        /\ DOMAIN q = 1..Len(q) /\ DOMAIN queue = 1..Len(queue) /\ Head(queue) = queue[1]
    BY <2>1, <2>2, HeadTailProperties, LenProperties, EmptySeq
  <2>4. \A i \in DOMAIN q : i + 1 \in DOMAIN queue
    BY <2>3
  <2>5. \A i \in DOMAIN q : Plain(q[i].of)
    BY <2>3, <2>4 DEF PlainInv
  <2>6. 1 \in DOMAIN queue
    BY <2>3
  <2>7. Head(queue) \in Request /\ Plain(Head(queue).of)
    BY <2>1, <2>3, <2>6, HeadTailProperties DEF PlainInv
  <2>8. Tail(Head(queue).of) \in Type /\ Plain(Tail(Head(queue).of))
    BY <2>7, TailType, PlainTail DEF Request, Wraps
  <2>9. source["F"] \subseteq Type /\ \A t \in source["F"] : Plain(t)
    BY DEF Forms, Declarations, PlainInv
  <2>10. \A t \in todo' : Plain(t)
    BY <2>1, <2>8, <2>9, PlainSubstitute
  <2> QED
    BY <2>1, <2>2, <2>5, <2>10 DEF PlainInv
<1>13. CASE NextSignature
  <2>1. /\ todo' = Signature(Tail(Head(queue).of))
        /\ queue # <<>> /\ queue' = [queue EXCEPT ![1].signed = TRUE] /\ queue \in Seq(Request)
        /\ UNCHANGED <<source, defs, stack>>
    BY <1>13 DEF NextSignature, tables, Forms
  <2>2. /\ Head(queue) \in Request /\ 1 \in DOMAIN queue /\ Head(queue) = queue[1]
        /\ DOMAIN queue' = DOMAIN queue /\ \A i \in DOMAIN queue : queue'[i].of = queue[i].of
    BY <2>1, SignedQueue
  <2>3. \A i \in DOMAIN queue' : Plain(queue'[i].of)
    BY <2>2 DEF PlainInv
  <2>4. Plain(Head(queue).of)
    BY <2>2 DEF PlainInv
  <2>5. Tail(Head(queue).of) \in Type /\ Plain(Tail(Head(queue).of))
    BY <2>2, <2>4, TailType, PlainTail DEF Request, Wraps
  <2>6. \A t \in todo' : Plain(t)
    BY <2>1, <2>5, PlainSignature
  <2> QED
    BY <2>1, <2>3, <2>6 DEF PlainInv
<1>12. CASE Accept \/ Start \/ Descend \/ Ascend \/ UNCHANGED vars
  <2>1. UNCHANGED <<source, todo, defs, stack, queue>>
    BY <1>12 DEF Accept, Start, Descend, Ascend, vars, declared, tables, requests
  <2> QED
    BY <1>1, <2>1
<1> QED
  BY <1>2, <1>3, <1>4, <1>6, <1>7, <1>8, <1>9, <1>10, <1>11, <1>12, <1>13 DEF Next, Resolve

----------------------------------------------------------------------------
(***************************************************************************)
(* What the checker's tables and the emitter find in a type.               *)
(***************************************************************************)
TableFound(d, from) == LET Parts(t) == TableParts(d, t) IN Found(from, Parts)
TableEdges(d) == [t \in Type |-> TableParts(d, t)]

EmitterFound(d, from) == LET Parts(t) == EmitterParts(d, t) IN Found(from, Parts)
EmitterEdges(d) == [t \in Type |-> EmitterParts(d, t)]

\* The types the checker's tables find are the union of layers.
LEMMA TableLayers ==
  ASSUME NEW d, \A t \in DOMAIN d : d[t] \subseteq Type, NEW from \in SUBSET Type
  PROVE  \E f \in [Depths -> SUBSET Type] :
           Layers(f, from, TableEdges(d), Depths) /\ TableFound(d, from) = UNION {f[i] : i \in Depths}
<1> DEFINE Parts(t) == TableParts(d, t)
           P == TableEdges(d)
           Step(g) == [i \in Depths |->
                         IF i = 0 THEN from
                         ELSE g[i - 1] \cup UNION {Parts(t) : t \in g[i - 1]}]
           found == CHOOSE g : g = Step(g)
<1>1. P \in [Type -> SUBSET Type]
  <2>1. \A t \in Type : TableParts(d, t) \in SUBSET Type
    BY TailType DEF EmitterParts, TableParts, Wraps
  <2> QED
    BY <2>1 DEF TableEdges
<1>2. PICK f \in [Depths -> SUBSET Type] : Layers(f, from, P, Depths)
  BY <1>1, LayersExist
<1>3. f = Step(f)
  <2>1. ASSUME NEW i \in Depths, i # 0
        PROVE  f[i] = f[i - 1] \cup UNION {Parts(t) : t \in f[i - 1]}
    <3>1. i - 1 \in Nat /\ i - 1 \in Depths /\ (i - 1) + 1 = i
      BY <2>1, DepthsClosed
    <3>2. f[i] = f[i - 1] \cup UNION {P[t] : t \in f[i - 1]}
      BY <1>2, <3>1 DEF Layers
    <3>3. \A t \in f[i - 1] : P[t] = Parts(t)
      BY <3>1 DEF TableEdges
    <3> QED
      BY <3>2, <3>3
  <2>2. f[0] = from
    BY <1>2 DEF Layers
  <2> QED
    BY <2>1, <2>2
<1>4. found = Step(found)
  BY <1>3
<1>5. TableFound(d, from) = UNION {found[i] : i \in Depths}
  BY DEF Found, TableFound
<1> HIDE DEF found
<1>6. ASSUME NEW i \in Nat, i + 1 \in Depths, found[i] \subseteq Type
      PROVE  found[i + 1] = found[i] \cup UNION {P[t] : t \in found[i]}
  <2>1. i + 1 # 0 /\ (i + 1) - 1 = i
    OBVIOUS
  <2>2. found[i + 1] = found[i] \cup UNION {Parts(t) : t \in found[i]}
    BY <1>4, <1>6, <2>1
  <2>3. \A t \in found[i] : P[t] = Parts(t)
    BY <1>6 DEF TableEdges
  <2> QED
    BY <2>2, <2>3
<1>7. found[0] = from
  BY <1>4, TypesAssumption
<1> HIDE DEF P
<1>8. \A i \in Depths : found[i] = f[i]
  <2>1. LayersIn(Type, found, from, P)
    BY <1>6, <1>7 DEF LayersIn
  <2> QED
    BY <1>2, <2>1, SameLayers
<1>9. {found[i] : i \in Depths} = {f[i] : i \in Depths}
  BY <1>8
<1>10. Layers(f, from, TableEdges(d), Depths)
  BY <1>2 DEF P
<1> QED
  BY <1>5, <1>9, <1>10

\* So are the types the emitter finds.
LEMMA EmitterLayers ==
  ASSUME NEW d, \A t \in DOMAIN d : d[t] \subseteq Type, NEW from \in SUBSET Type
  PROVE  \E f \in [Depths -> SUBSET Type] :
           Layers(f, from, EmitterEdges(d), Depths) /\ EmitterFound(d, from) = UNION {f[i] : i \in Depths}
<1> DEFINE Parts(t) == EmitterParts(d, t)
           P == EmitterEdges(d)
           Step(g) == [i \in Depths |->
                         IF i = 0 THEN from
                         ELSE g[i - 1] \cup UNION {Parts(t) : t \in g[i - 1]}]
           found == CHOOSE g : g = Step(g)
<1>1. P \in [Type -> SUBSET Type]
  <2>1. \A t \in Type : EmitterParts(d, t) \in SUBSET Type
    BY TailType DEF EmitterParts, TableParts, Wraps
  <2> QED
    BY <2>1 DEF EmitterEdges
<1>2. PICK f \in [Depths -> SUBSET Type] : Layers(f, from, P, Depths)
  BY <1>1, LayersExist
<1>3. f = Step(f)
  <2>1. ASSUME NEW i \in Depths, i # 0
        PROVE  f[i] = f[i - 1] \cup UNION {Parts(t) : t \in f[i - 1]}
    <3>1. i - 1 \in Nat /\ i - 1 \in Depths /\ (i - 1) + 1 = i
      BY <2>1, DepthsClosed
    <3>2. f[i] = f[i - 1] \cup UNION {P[t] : t \in f[i - 1]}
      BY <1>2, <3>1 DEF Layers
    <3>3. \A t \in f[i - 1] : P[t] = Parts(t)
      BY <3>1 DEF EmitterEdges
    <3> QED
      BY <3>2, <3>3
  <2>2. f[0] = from
    BY <1>2 DEF Layers
  <2> QED
    BY <2>1, <2>2
<1>4. found = Step(found)
  BY <1>3
<1>5. EmitterFound(d, from) = UNION {found[i] : i \in Depths}
  BY DEF Found, EmitterFound
<1> HIDE DEF found
<1>6. ASSUME NEW i \in Nat, i + 1 \in Depths, found[i] \subseteq Type
      PROVE  found[i + 1] = found[i] \cup UNION {P[t] : t \in found[i]}
  <2>1. i + 1 # 0 /\ (i + 1) - 1 = i
    OBVIOUS
  <2>2. found[i + 1] = found[i] \cup UNION {Parts(t) : t \in found[i]}
    BY <1>4, <1>6, <2>1
  <2>3. \A t \in found[i] : P[t] = Parts(t)
    BY <1>6 DEF EmitterEdges
  <2> QED
    BY <2>2, <2>3
<1>7. found[0] = from
  BY <1>4, TypesAssumption
<1> HIDE DEF P
<1>8. \A i \in Depths : found[i] = f[i]
  <2>1. LayersIn(Type, found, from, P)
    BY <1>6, <1>7 DEF LayersIn
  <2> QED
    BY <1>2, <2>1, SameLayers
<1>9. {found[i] : i \in Depths} = {f[i] : i \in Depths}
  BY <1>8
<1>10. Layers(f, from, EmitterEdges(d), Depths)
  BY <1>2 DEF P
<1> QED
  BY <1>5, <1>9, <1>10

\* The tables, read from what is found.
LEMMA TablesFound ==
  ASSUME NEW d, NEW id \in DOMAIN d
  PROVE  /\ EqualitySupport(d)[id] <=> \A t \in TableFound(d, {id}) : Head(t) # "Box"
         /\ MoveOnlySupport(d)[id] <=> \E t \in TableFound(d, {id}) : Head(t) \in {"Box", "String"}
BY DEF EqualitySupport, MoveOnlySupport, TableFound

\* The emitter's answer, read from what it finds.
LEMMA EmitterMoves ==
  ASSUME NEW t
  PROVE  EmitterMoveOnly(t) <=>
           \E u \in EmitterFound(defs, {t}) : Head(u) \in {"Box", "String", "List", "Map", "Set"}
BY DEF EmitterMoveOnly, EmitterFound

----------------------------------------------------------------------------
(* Comparisons.                                                             *)

\* The checker's table looked into t, n steps from s, when it was computed for s.
LookedInto(s, t, n) ==
  /\ n \in Depths
  /\ \A f \in [Depths -> SUBSET Type] :
       Layers(f, {s}, TableEdges(defs), Depths) => t \in f[n]

\* A nominal type, or a plain one.
Readable(t) == t \in DOMAIN defs \/ Plain(t)

\* Neither is a collection that owns; the elements of an array are of type Int.
LEMMA ReadableHead ==
  ASSUME Forms, NEW t \in Type, Readable(t)
  PROVE  /\ Head(t) \notin {"List", "Map", "Set"}
         /\ Head(t) = "Array" => Tail(t) = <<"Int">>
<1>1. CASE t \in DOMAIN defs
  <2>1. Head(t) \in Names \cup {"G"}
    BY <1>1 DEF Forms, IsNominal
  <2>2. Head(t) \notin {"List", "Map", "Set", "Array"}
    BY <2>1, TypesAssumption DEF Wraps
  <2> QED
    BY <2>2
<1> QED
  BY <1>1, PlainHead DEF Readable

Compared(w) ==
  w # <<>> =>
    /\ w[1] \in DOMAIN defs /\ equality[w[1]]
    /\ \A i \in 1..Len(w) :
         Readable(w[i]) /\ (w[i] = <<"Int">> \/ LookedInto(w[1], w[i], i - 1))

EqualInv == glue = "equal" => Compared(walk)

\* Comparing two numbers ends there.
LEMMA IntHasNoParts ==
  ASSUME Forms
  PROVE  EqualParts(<<"Int">>) = {}
<1>1. "Int" \in Leaves /\ "Int" \notin Wraps /\ "Int" \notin Names /\ "G" \in Wraps
  BY TypesAssumption DEF Leaves, Wraps
<1>2. Head(<<"Int">>) = "Int"
  BY <1>1, PlainLeaf
<1>3. <<"Int">> \notin DOMAIN defs
  BY <1>1, <1>2 DEF Forms, IsNominal
<1> QED
  BY <1>1, <1>2, <1>3 DEF EqualParts, Wraps

\* What is compared inside of a type the table looked into is what the table
\* looked into next, but for the elements of an array.
LEMMA ComparedPart ==
  ASSUME Forms, PlainInv, NEW s \in Type, NEW t \in Type, Readable(t), NEW part \in EqualParts(t),
         NEW n, LookedInto(s, t, n), n + 1 \in Depths
  PROVE  Plain(part) /\ (part = <<"Int">> \/ LookedInto(s, part, n + 1))
<1>1. CASE Head(t) = "Array" /\ t \notin DOMAIN defs
  <2>1. part = <<"Int">>
    BY <1>1, ReadableHead DEF EqualParts
  <2> QED
    BY <2>1, PlainLeaf DEF Leaves
<1>2. CASE ~(Head(t) = "Array" /\ t \notin DOMAIN defs)
  <2>1. part \in TableParts(defs, t) /\ Plain(part)
    <3>1. CASE t \in DOMAIN defs
      BY <3>1 DEF EqualParts, TableParts, PlainInv
    <3>2. CASE t \notin DOMAIN defs
      <4>1. Head(t) = "OrNil" /\ part = Tail(t)
        BY <1>2, <3>2, ReadableHead DEF EqualParts
      <4>2. Plain(Tail(t))
        BY <3>2, <4>1, PlainTail DEF Wraps, Readable
      <4> QED
        BY <3>2, <4>1, <4>2 DEF TableParts
    <3> QED
      BY <3>1, <3>2
  <2>2. ASSUME NEW f \in [Depths -> SUBSET Type], Layers(f, {s}, TableEdges(defs), Depths)
        PROVE  part \in f[n + 1]
    <3>1. n \in Nat /\ t \in f[n]
      BY <2>2, DepthsClosed DEF LookedInto
    <3>2. f[n + 1] = f[n] \cup UNION {TableEdges(defs)[u] : u \in f[n]}
      BY <2>2, <3>1 DEF Layers
    <3>3. TableEdges(defs)[t] = TableParts(defs, t)
      BY DEF TableEdges
    <3> QED
      BY <2>1, <3>1, <3>2, <3>3
  <2>3. LookedInto(s, part, n + 1)
    BY <2>2 DEF LookedInto
  <2> QED
    BY <2>1, <2>3
<1> QED
  BY <1>1, <1>2

\* A walk of a comparison stays where the table looked.
LEMMA EqualStep ==
  Forms /\ WalkInv /\ PlainInv /\ EqualInv /\ [Next]_vars => EqualInv'
<1> SUFFICES ASSUME Forms, WalkInv, PlainInv, EqualInv, [Next]_vars, glue' = "equal"
             PROVE  Compared(walk)'
  BY DEF EqualInv
<1>0. ASSUME UNCHANGED <<defs, equality>>, NEW w, w = walk', Compared(w) PROVE Compared(walk)'
  BY <1>0 DEF Compared, LookedInto, Readable
<1>1. CASE UNCHANGED vars
  <2>1. UNCHANGED <<defs, equality, walk, glue>>
    BY <1>1 DEF vars, tables, emitted
  <2> QED
    BY <1>0, <2>1 DEF EqualInv
<1>2. CASE Start
  <2>1. PICK t \in DOMAIN defs : walk' = <<t>> /\ equality[t]
    BY <1>2 DEF Start
  <2>2. UNCHANGED <<defs, equality>> /\ t \in Type /\ IsNominal(t)
    BY <1>2, <2>1 DEF Start, tables, Forms
  <2>3. PICK w : w = <<t>>
    OBVIOUS
  <2>4. Len(w) = 1 /\ w[1] = t /\ \A i \in 1..Len(w) : i = 1
    BY <2>3
  <2>5. Readable(t)
    BY DEF Readable
  <2>6. LookedInto(t, t, 1 - 1)
    BY TypesAssumption DEF LookedInto, Layers
  <2>7. Compared(w)
    BY <2>1, <2>4, <2>5, <2>6 DEF Compared
  <2> QED
    BY <1>0, <2>1, <2>2, <2>3, <2>7
<1>3. CASE Descend
  <2>1. /\ walk # <<>> /\ Len(walk) + 1 \in Depths /\ UNCHANGED <<defs, equality, glue>>
        /\ walk \in Seq(Type) /\ Compared(walk)
    BY <1>3 DEF Descend, WalkInv, tables, EqualInv
  <2>2. PICK part \in EqualParts(Last(walk)) : walk' = Append(walk, part)
    BY <1>3, <2>1 DEF Descend
  <2> DEFINE n == Len(walk)
  <2>3. n \in Nat /\ n \in 1..n /\ Last(walk) = walk[n] /\ walk[n] \in Type /\ walk[1] \in Type
        /\ 1 \in 1..n
    BY <2>1, FrontOf, ElementOfSeq, LenProperties
  <2>4. Readable(walk[n]) /\ LookedInto(walk[1], walk[n], n - 1)
    BY <2>1, <2>2, <2>3, IntHasNoParts DEF Compared
  <2>5. (n - 1) + 1 = n /\ n \in Depths
    <3>1. n \in 0..(n + 1)
      BY <2>3
    <3> QED
      BY <2>1, <2>3, <3>1, DepthsClosed
  <2>6. Plain(part) /\ (part = <<"Int">> \/ LookedInto(walk[1], part, n))
    <3>1. PICK m : m = n - 1
      OBVIOUS
    <3>2. LookedInto(walk[1], walk[n], m) /\ m + 1 \in Depths /\ m + 1 = n
      BY <2>4, <2>5, <3>1
    <3> QED
      BY <2>2, <2>3, <2>4, <3>2, ComparedPart
  <2>7. part \in Type
    BY <2>2, <2>3, TailType DEF EqualParts, Forms, Wraps
  <2>8. PICK w : w = Append(walk, part)
    OBVIOUS
  <2>9. /\ w # <<>> /\ Len(w) = n + 1 /\ (\A i \in 1..n : w[i] = walk[i]) /\ w[n + 1] = part
    BY <2>1, <2>7, <2>8, AppendProperties
  <2>10. ASSUME NEW i \in 1..Len(w)
         PROVE  Readable(w[i]) /\ (w[i] = <<"Int">> \/ LookedInto(w[1], w[i], i - 1))
    <3>1. w[1] = walk[1]
      BY <2>3, <2>9
    <3>2. CASE i \in 1..n
      BY <2>1, <2>9, <3>1, <3>2 DEF Compared
    <3>3. CASE i = n + 1
      <4>1. w[i] = part /\ i - 1 = n
        BY <2>3, <2>9, <3>3
      <4> QED
        BY <2>6, <3>1, <4>1 DEF Readable
    <3> QED
      BY <2>3, <2>9, <3>2, <3>3
  <2>11. w[1] \in DOMAIN defs /\ equality[w[1]]
    BY <2>1, <2>3, <2>9 DEF Compared
  <2>12. Compared(w)
    BY <2>10, <2>11 DEF Compared
  <2> QED
    BY <1>0, <2>1, <2>2, <2>8, <2>12
<1>4. CASE Ascend
  <2>1. /\ walk # <<>> /\ walk' = Front(walk) /\ UNCHANGED <<defs, equality, glue>>
        /\ walk \in Seq(Type) /\ Compared(walk)
    BY <1>4 DEF Ascend, WalkInv, tables, EqualInv
  <2>2. PICK w : w = Front(walk)
    OBVIOUS
  <2>3. /\ w \in Seq(Type) /\ Len(w) = Len(walk) - 1 /\ Len(walk) \in Nat
        /\ \A i \in 1..Len(w) : w[i] = walk[i] /\ i \in 1..Len(walk)
    <3>1. /\ w \in Seq(Type) /\ Len(w) = Len(walk) - 1
          /\ \A i \in 1..(Len(walk) - 1) : w[i] = walk[i]
      BY <2>1, <2>2, FrontOf
    <3>2. Len(walk) \in Nat
      BY <2>1, LenProperties
    <3>3. \A i \in 1..Len(w) : i \in 1..Len(walk)
      BY <3>1, <3>2
    <3> QED
      BY <3>1, <3>2, <3>3
  <2>4. w # <<>> => 1 \in 1..Len(w)
    BY <2>3, EmptySeq, LenProperties
  <2>5. Compared(w)
    <3>1. SUFFICES ASSUME w # <<>> PROVE Compared(w)
      BY DEF Compared
    <3>2. w[1] = walk[1] /\ walk[1] \in DOMAIN defs /\ equality[walk[1]]
      BY <2>1, <2>3, <2>4, <3>1 DEF Compared
    <3>3. ASSUME NEW i \in 1..Len(w)
          PROVE  Readable(w[i]) /\ (w[i] = <<"Int">> \/ LookedInto(w[1], w[i], i - 1))
      <4>1. w[i] = walk[i] /\ i \in 1..Len(walk)
        BY <2>3
      <4> QED
        BY <2>1, <3>2, <4>1 DEF Compared
    <3> QED
      BY <3>2, <3>3 DEF Compared
  <2> QED
    BY <1>0, <2>1, <2>2, <2>5
<1>5. CASE (\E o \in Declarations : Write(o)) \/ Resolve
  <2>1. walk = <<>>
    BY <1>5, TopFrame DEF WalkInv, Write, Resolve, Collect, CollectDeclaration, ResolveField,
      FinishDeclaration, Freeze, MentionType, CallFunction, FinishSpecialisation, NextSignature, NextBody, Accept
  <2>2. UNCHANGED walk
    BY <1>5 DEF Write, Resolve, Collect, CollectDeclaration, ResolveField,
      FinishDeclaration, Freeze, MentionType, CallFunction, FinishSpecialisation, NextSignature, NextBody, Accept,
      emitted
  <2> QED
    BY <2>1, <2>2 DEF Compared
<1> QED
  BY <1>1, <1>2, <1>3, <1>4, <1>5 DEF Next

\* Of a program whose fields are no collections that own, whatever types it
\* declares and specialises, a comparison never gets to a box, a map or a set.
THEOREM EqualityCorrect ==
  ASSUME Shapes = {}
  PROVE  Spec => []EqualityIsSupported
<1> DEFINE Inv == /\ Forms /\ NilOnce /\ WalkInv
                  /\ TablesAreCurrent /\ PlainInv /\ EqualInv
<1>1. Init => Inv
  <2> SUFFICES ASSUME Init PROVE Inv
    OBVIOUS
  <2>1. /\ DOMAIN defs = {} /\ DOMAIN stack = {} /\ phase = "write" /\ walk = <<>>
        /\ glue = "drop" /\ todo = {} /\ DOMAIN queue = {}
        /\ \A o \in Declarations : source[o] = {}
    BY DEF Init
  <2>2. NilOnce /\ WalkInv /\ TablesAreCurrent /\ PlainInv /\ EqualInv
    BY <2>1 DEF NilOnce, WalkInv, TablesAreCurrent, PlainInv, EqualInv
  <2> QED
    BY <2>2, InitForms
<1>2. Inv /\ [Next]_vars => Inv'
  BY StepForms, NilOnceStep, WalkStep, TablesStep, PlainStep, EqualStep
<1>3. Inv => EqualityIsSupported
  <2> SUFFICES ASSUME Inv, glue = "equal", NEW i \in DOMAIN walk
               PROVE  Head(walk[i]) \notin {"Box", "Map", "Set"}
    BY DEF EqualityIsSupported
  <2>1. /\ walk \in Seq(Type) /\ DOMAIN walk = 1..Len(walk) /\ Len(walk) \in Nat /\ walk # <<>>
        /\ 1 \in 1..Len(walk) /\ walk[i] \in Type /\ i \in 1..Len(walk)
    BY ElementOfSeq, LenProperties, EmptySeq DEF WalkInv
  <2>2. /\ Readable(walk[i]) /\ (walk[i] = <<"Int">> \/ LookedInto(walk[1], walk[i], i - 1))
        /\ walk[1] \in DOMAIN defs /\ equality[walk[1]]
    BY <2>1 DEF EqualInv, Compared
  <2>3. Head(walk[i]) \notin {"Map", "Set"}
    BY <2>1, <2>2, ReadableHead
  <2>4. CASE walk[i] = <<"Int">>
    <3>1. Head(walk[i]) = "Int"
      BY <2>4, PlainLeaf DEF Leaves
    <3> QED
      BY <3>1
  <2>5. CASE LookedInto(walk[1], walk[i], i - 1)
    <3>1. equality = EqualitySupport(defs)
      BY <2>1 DEF WalkInv, Forms, TablesAreCurrent
    <3>2. \A t \in TableFound(defs, {walk[1]}) : Head(t) # "Box"
      BY <2>2, <3>1, TablesFound
    <3>3. PICK from \in SUBSET Type : from = {walk[1]}
      BY <2>2 DEF Forms
    <3>4. \A t \in DOMAIN defs : defs[t] \subseteq Type
      BY DEF Forms
    <3>5. PICK f \in [Depths -> SUBSET Type] :
            /\ Layers(f, from, TableEdges(defs), Depths)
            /\ TableFound(defs, from) = UNION {f[k] : k \in Depths}
      BY <3>4, TableLayers
    <3>6. i - 1 \in Depths /\ walk[i] \in f[i - 1]
      BY <2>5, <3>3, <3>5 DEF LookedInto
    <3>7. walk[i] \in TableFound(defs, {walk[1]})
      BY <3>3, <3>5, <3>6
    <3> QED
      BY <2>3, <3>2, <3>7
  <2> QED
    BY <2>2, <2>4, <2>5
<1> QED
  BY <1>1, <1>2, <1>3, PTL DEF Spec

----------------------------------------------------------------------------
(***************************************************************************)
(* Owners.  A walk that is followed to every depth finds the least set     *)
(* that has the type and all that is in what it has.                       *)
(***************************************************************************)

\* The least set, for the checker's tables, ...
LEMMA TableClosed ==
  ASSUME Depths = Nat, NEW d, \A t \in DOMAIN d : d[t] \subseteq Type, NEW s \in Type
  PROVE  /\ s \in TableFound(d, {s}) /\ TableFound(d, {s}) \subseteq Type
         /\ \A t \in TableFound(d, {s}) : TableParts(d, t) \subseteq TableFound(d, {s})
         /\ \A S \in SUBSET Type :
              s \in S /\ (\A t \in S : TableParts(d, t) \subseteq S) => TableFound(d, {s}) \subseteq S
<1> DEFINE E == TableEdges(d)
<1>1. PICK from \in SUBSET Type : from = {s}
  OBVIOUS
<1>2. PICK F : F = TableFound(d, from)
  OBVIOUS
<1>3. PICK f \in [Depths -> SUBSET Type] :
        Layers(f, from, E, Depths) /\ F = UNION {f[i] : i \in Depths}
  BY <1>2, TableLayers
<1>4. \A t \in Type : E[t] = TableParts(d, t)
  BY DEF TableEdges
<1> HIDE DEF E
<1>5. s \in F /\ F \subseteq Type
  <2>1. 0 \in Depths /\ f[0] = from
    BY <1>3, TypesAssumption DEF Layers
  <2> QED
    BY <1>1, <1>3, <2>1
<1>6. ASSUME NEW t \in F PROVE TableParts(d, t) \subseteq F
  <2>1. PICK i \in Depths : t \in f[i]
    BY <1>3
  <2>2. i + 1 \in Depths /\ f[i + 1] = f[i] \cup UNION {E[u] : u \in f[i]}
    BY <1>3 DEF Layers
  <2>3. E[t] \subseteq f[i + 1] /\ f[i + 1] \subseteq F
    BY <1>3, <2>1, <2>2
  <2> QED
    BY <1>4, <1>5, <2>3
<1>7. ASSUME NEW S \in SUBSET Type, s \in S, \A t \in S : TableParts(d, t) \subseteq S
      PROVE  F \subseteq S
  <2>1. from \subseteq S /\ \A t \in S : E[t] \subseteq S
    BY <1>1, <1>4, <1>7
  <2>2. \A n \in Depths : f[n] \subseteq S
    BY <1>3, <2>1, FoundWithin
  <2> QED
    BY <1>3, <2>2
<1> QED
  BY <1>1, <1>2, <1>5, <1>6, <1>7

\* ... and for the emitter.
LEMMA EmitterClosed ==
  ASSUME Depths = Nat, NEW d, \A t \in DOMAIN d : d[t] \subseteq Type, NEW s \in Type
  PROVE  /\ s \in EmitterFound(d, {s}) /\ EmitterFound(d, {s}) \subseteq Type
         /\ \A t \in EmitterFound(d, {s}) : EmitterParts(d, t) \subseteq EmitterFound(d, {s})
         /\ \A S \in SUBSET Type :
              s \in S /\ (\A t \in S : EmitterParts(d, t) \subseteq S) => EmitterFound(d, {s}) \subseteq S
<1> DEFINE E == EmitterEdges(d)
<1>1. PICK from \in SUBSET Type : from = {s}
  OBVIOUS
<1>2. PICK F : F = EmitterFound(d, from)
  OBVIOUS
<1>3. PICK f \in [Depths -> SUBSET Type] :
        Layers(f, from, E, Depths) /\ F = UNION {f[i] : i \in Depths}
  BY <1>2, EmitterLayers
<1>4. \A t \in Type : E[t] = EmitterParts(d, t)
  BY DEF EmitterEdges
<1> HIDE DEF E
<1>5. s \in F /\ F \subseteq Type
  <2>1. 0 \in Depths /\ f[0] = from
    BY <1>3, TypesAssumption DEF Layers
  <2> QED
    BY <1>1, <1>3, <2>1
<1>6. ASSUME NEW t \in F PROVE EmitterParts(d, t) \subseteq F
  <2>1. PICK i \in Depths : t \in f[i]
    BY <1>3
  <2>2. i + 1 \in Depths /\ f[i + 1] = f[i] \cup UNION {E[u] : u \in f[i]}
    BY <1>3 DEF Layers
  <2>3. E[t] \subseteq f[i + 1] /\ f[i + 1] \subseteq F
    BY <1>3, <2>1, <2>2
  <2> QED
    BY <1>4, <1>5, <2>3
<1>7. ASSUME NEW S \in SUBSET Type, s \in S, \A t \in S : EmitterParts(d, t) \subseteq S
      PROVE  F \subseteq S
  <2>1. from \subseteq S /\ \A t \in S : E[t] \subseteq S
    BY <1>1, <1>4, <1>7
  <2>2. \A n \in Depths : f[n] \subseteq S
    BY <1>3, <2>1, FoundWithin
  <2> QED
    BY <1>3, <2>2
<1> QED
  BY <1>1, <1>2, <1>5, <1>6, <1>7

\* The emitter finds what the checker's tables find, and the elements of arrays.
LEMMA FoundAlike ==
  ASSUME Forms, PlainInv, Depths = Nat, NEW s \in Type, Readable(s)
  PROVE  /\ \A t \in TableFound(defs, {s}) : Readable(t)
         /\ TableFound(defs, {s}) \subseteq EmitterFound(defs, {s})
         /\ EmitterFound(defs, {s}) \subseteq TableFound(defs, {s}) \cup {<<"Int">>}
<1>1. PICK T, E : T = TableFound(defs, {s}) /\ E = EmitterFound(defs, {s})
  OBVIOUS
<1>2. \A t \in DOMAIN defs : defs[t] \subseteq Type
  BY DEF Forms
<1>3. /\ s \in T /\ T \subseteq Type
      /\ \A t \in T : TableParts(defs, t) \subseteq T
      /\ \A S \in SUBSET Type :
           s \in S /\ (\A t \in S : TableParts(defs, t) \subseteq S) => T \subseteq S
  BY <1>1, <1>2, TableClosed
<1>4. /\ s \in E /\ E \subseteq Type
      /\ \A t \in E : EmitterParts(defs, t) \subseteq E
      /\ \A S \in SUBSET Type :
           s \in S /\ (\A t \in S : EmitterParts(defs, t) \subseteq S) => E \subseteq S
  BY <1>1, <1>2, EmitterClosed
<1>5. \A t \in T : Readable(t)
  <2> DEFINE S == {t \in Type : Readable(t)}
  <2>1. ASSUME NEW t \in S PROVE TableParts(defs, t) \subseteq S
    <3>1. CASE t \in DOMAIN defs
      BY <1>2, <3>1 DEF TableParts, PlainInv, Readable
    <3>2. CASE t \notin DOMAIN defs
      <4>1. Head(t) = "OrNil" => Tail(t) \in Type /\ Plain(Tail(t))
        BY <3>2, TailType, PlainTail DEF Wraps, Readable
      <4> QED
        BY <3>2, <4>1 DEF TableParts, Readable
    <3> QED
      BY <3>1, <3>2
  <2>2. S \in SUBSET Type /\ s \in S
    OBVIOUS
  <2>3. T \subseteq S
    BY <1>3, <2>1, <2>2
  <2> QED
    BY <2>3
<1>6. \A t \in DOMAIN defs : Head(t) # "Array"
  BY TypesAssumption DEF Forms, IsNominal, Wraps
<1>7. T \subseteq E
  <2>1. \A t \in E : TableParts(defs, t) \subseteq EmitterParts(defs, t)
    BY <1>6 DEF TableParts, EmitterParts
  <2> QED
    BY <1>3, <1>4, <2>1
<1>8. E \subseteq T \cup {<<"Int">>}
  <2> DEFINE S == T \cup {<<"Int">>}
  <2>1. <<"Int">> \in Type /\ Head(<<"Int">>) = "Int"
    BY PlainLeaf DEF Leaves
  <2>2. S \in SUBSET Type /\ s \in S
    BY <1>3, <2>1
  <2>3. ASSUME NEW t \in S PROVE EmitterParts(defs, t) \subseteq S
    <3>1. CASE t = <<"Int">>
      <4>1. "Int" \notin Names /\ "G" # "Int"
        BY TypesAssumption
      <4>2. t \notin DOMAIN defs
        BY <2>1, <3>1, <4>1 DEF Forms, IsNominal
      <4> QED
        BY <2>1, <3>1, <4>2 DEF EmitterParts, TableParts
    <3>2. CASE t \in T /\ Head(t) = "Array"
      <4>1. Tail(t) = <<"Int">>
        BY <1>3, <1>5, <3>2, ReadableHead
      <4> QED
        BY <3>2, <4>1 DEF EmitterParts
    <3>3. CASE t \in T /\ Head(t) # "Array"
      BY <1>3, <3>3 DEF EmitterParts
    <3> QED
      BY <3>1, <3>2, <3>3
  <2> HIDE DEF S
  <2>4. E \subseteq S
    BY <1>4, <2>2, <2>3
  <2> QED
    BY <2>4 DEF S
<1> QED
  BY <1>1, <1>5, <1>7, <1>8

\* So the emitter moves a type if the tables find an owner in it.
LEMMA EmitterOwners ==
  ASSUME Forms, PlainInv, Depths = Nat, NEW s \in Type, Readable(s)
  PROVE  EmitterMoveOnly(s) <=> \E t \in TableFound(defs, {s}) : Head(t) \in {"Box", "String"}
<1>1. \A t \in DOMAIN defs : defs[t] \subseteq Type
  BY DEF Forms
<1>2. TableFound(defs, {s}) \subseteq Type
  BY <1>1, TableClosed
<1>3. \A t \in TableFound(defs, {s}) : Head(t) \notin {"List", "Map", "Set"}
  BY <1>2, FoundAlike, ReadableHead
<1>4. Head(<<"Int">>) = "Int"
  BY PlainLeaf DEF Leaves
<1>5. \A t \in EmitterFound(defs, {s}) : t \in TableFound(defs, {s}) \/ t = <<"Int">>
  BY FoundAlike
<1>6. TableFound(defs, {s}) \subseteq EmitterFound(defs, {s})
  BY FoundAlike
<1> QED
  BY <1>3, <1>4, <1>5, <1>6, EmitterMoves

\* A type that has no parts, ...
LEMMA FoundAlone ==
  ASSUME Forms, Depths = Nat, NEW s \in Type, s \notin DOMAIN defs, Head(s) # "OrNil"
  PROVE  TableFound(defs, {s}) = {s}
<1>1. \A t \in DOMAIN defs : defs[t] \subseteq Type
  BY DEF Forms
<1>2. TableParts(defs, s) = {}
  BY DEF TableParts
<1>3. PICK S \in SUBSET Type : S = {s}
  OBVIOUS
<1>4. s \in S /\ \A t \in S : TableParts(defs, t) \subseteq S
  BY <1>2, <1>3
<1>5. TableFound(defs, {s}) \subseteq S
  BY <1>1, <1>4, TableClosed
<1>6. s \in TableFound(defs, {s})
  BY <1>1, TableClosed
<1> QED
  BY <1>3, <1>5, <1>6

\* ... and a sum, in which is found what is found in its member.
LEMMA FoundInSum ==
  ASSUME Forms, Depths = Nat, NEW s \in Type, s \notin DOMAIN defs, Head(s) = "OrNil"
  PROVE  Tail(s) \in Type /\ TableFound(defs, {s}) = {s} \cup TableFound(defs, {Tail(s)})
<1>1. \A t \in DOMAIN defs : defs[t] \subseteq Type
  BY DEF Forms
<1>2. PICK u \in Type : u = Tail(s)
  BY TailType DEF Wraps
<1>3. PICK A, B : A = TableFound(defs, {s}) /\ B = TableFound(defs, {u})
  OBVIOUS
<1>4. TableParts(defs, s) = {u}
  BY <1>2 DEF TableParts
<1>5. /\ s \in A /\ A \subseteq Type /\ \A t \in A : TableParts(defs, t) \subseteq A
      /\ \A S \in SUBSET Type :
           s \in S /\ (\A t \in S : TableParts(defs, t) \subseteq S) => A \subseteq S
  BY <1>1, <1>3, TableClosed
<1>6. /\ u \in B /\ B \subseteq Type /\ \A t \in B : TableParts(defs, t) \subseteq B
      /\ \A S \in SUBSET Type :
           u \in S /\ (\A t \in S : TableParts(defs, t) \subseteq S) => B \subseteq S
  BY <1>1, <1>3, TableClosed
<1>7. B \subseteq A
  BY <1>4, <1>5, <1>6
<1>8. A \subseteq {s} \cup B
  <2>1. PICK S \in SUBSET Type : S = {s} \cup B
    BY <1>6
  <2>2. s \in S /\ \A t \in S : TableParts(defs, t) \subseteq S
    BY <1>4, <1>6, <2>1
  <2> QED
    BY <1>5, <2>1, <2>2
<1>9. A = {s} \cup B
  BY <1>5, <1>7, <1>8
<1> QED
  BY <1>2, <1>3, <1>9

\* What follows a place behind the first is what follows it in the tail.
LEMMA TailSuffix ==
  ASSUME NEW S, NEW s \in Seq(S), s # <<>>, NEW i \in 1..Len(Tail(s))
  PROVE  SubSeq(s, i + 1, Len(s)) = SubSeq(Tail(s), i, Len(Tail(s)))
<1>1. PICK u : u = Tail(s)
  OBVIOUS
<1>2. /\ u \in Seq(S) /\ Len(u) = Len(s) - 1 /\ Len(s) \in Nat \ {0} /\ Len(u) \in Nat
      /\ \A j \in 1..Len(u) : u[j] = s[j + 1]
  BY <1>1, HeadTailProperties, LenProperties, EmptySeq
<1>3. /\ SubSeq(s, i + 1, Len(s)) \in Seq(S)
      /\ Len(SubSeq(s, i + 1, Len(s))) = Len(s) - i
      /\ \A j \in 1..(Len(s) - i) : SubSeq(s, i + 1, Len(s))[j] = s[i + j]
  BY <1>1, <1>2, Segment
<1>4. /\ SubSeq(u, i, Len(u)) \in Seq(S)
      /\ Len(SubSeq(u, i, Len(u))) = Len(s) - i
      /\ \A j \in 1..(Len(s) - i) : SubSeq(u, i, Len(u))[j] = u[i + j - 1]
  BY <1>1, <1>2, Segment
<1>5. \A j \in 1..(Len(s) - i) : u[i + j - 1] = s[i + j]
  BY <1>1, <1>2
<1> QED
  BY <1>1, <1>3, <1>4, <1>5, SeqEqual

\* The checker's answer for one constructor.
LEMMA Peeled ==
  ASSUME NEW t \in Type
  PROVE  IsMoveOnly(t) <=>
           IF Head(t) \in {"OrNil", "Array"} THEN IsMoveOnly(Tail(t))
           ELSE IF t \in DOMAIN moveOnly THEN moveOnly[t]
           ELSE Head(t) \in {"Box", "String", "List", "Map", "Set"}
<1> DEFINE Inline == {"OrNil", "Array"}
           Elem(x) == IF x \in DOMAIN moveOnly THEN moveOnly[x]
                      ELSE Head(x) \in {"Box", "String", "List", "Map", "Set"}
           At(x, i) == x[i] \notin Inline /\ \A j \in 1..(i - 1) : x[j] \in Inline
<1>1. /\ t \in Seq(Wraps \cup Leaves) /\ t # <<>> /\ Len(t) \in Nat \ {0}
      /\ DOMAIN t = 1..Len(t) /\ Head(t) = t[1] /\ 1 \in DOMAIN t
  BY TypeIsSequence
<1>2. \A x : IsMoveOnly(x) <=> \E i \in DOMAIN x : At(x, i) /\ Elem(SubSeq(x, i, Len(x)))
  BY DEF IsMoveOnly
<1> HIDE DEF Elem
<1>3. CASE Head(t) \notin Inline
  <2>1. \A i \in DOMAIN t : At(t, i) <=> i = 1
    BY <1>1, <1>3
  <2>2. SubSeq(t, 1, Len(t)) = t
    BY <1>1, SubSeqFull
  <2>3. IsMoveOnly(t) <=> Elem(t)
    BY <1>1, <1>2, <2>1, <2>2
  <2> QED
    BY <1>3, <2>3 DEF Elem
<1>4. CASE Head(t) \in Inline
  <2>1. Tail(t) \in Type
    BY <1>4, TailType DEF Wraps
  <2>2. PICK u \in Type : u = Tail(t)
    BY <2>1
  <2>3. /\ u \in Seq(Wraps \cup Leaves) /\ Len(u) = Len(t) - 1 /\ DOMAIN u = 1..Len(u)
        /\ \A i \in 1..Len(u) : u[i] = t[i + 1]
    BY <1>1, <2>2, HeadTailProperties, TypeIsSequence
  <2>4. ~At(t, 1)
    BY <1>1, <1>4
  <2>5. ASSUME NEW i \in DOMAIN u
        PROVE  (At(u, i) <=> At(t, i + 1)) /\ SubSeq(t, i + 1, Len(t)) = SubSeq(u, i, Len(u))
    <3>1. u[i] = t[i + 1] /\ i \in Nat /\ i >= 1
      BY <2>3
    <3>2. \A j \in 1..(i - 1) : u[j] = t[j + 1]
      BY <1>1, <2>3
    <3>3. (\A j \in 1..(i - 1) : t[j + 1] \in Inline) <=> \A j \in 2..i : t[j] \in Inline
      <4>1. \A j \in 2..i : j - 1 \in 1..(i - 1) /\ (j - 1) + 1 = j
        BY <3>1
      <4>2. \A j \in 1..(i - 1) : j + 1 \in 2..i
        BY <3>1
      <4> QED
        BY <4>1, <4>2
    <3>4. (\A j \in 2..i : t[j] \in Inline) <=> \A j \in 1..((i + 1) - 1) : t[j] \in Inline
      <4>1. \A j \in 1..i : j = 1 \/ j \in 2..i
        BY <3>1
      <4>2. 2..i \subseteq 1..i /\ (i + 1) - 1 = i
        BY <3>1
      <4> QED
        BY <1>1, <1>4, <4>1, <4>2
    <3>5. At(u, i) <=> At(t, i + 1)
      BY <3>1, <3>2, <3>3, <3>4
    <3>6. SubSeq(t, i + 1, Len(t)) = SubSeq(u, i, Len(u))
      BY <1>1, <2>2, <2>3, <3>1, TailSuffix
    <3> QED
      BY <3>5, <3>6
  <2>6. \A i \in DOMAIN t : i = 1 \/ (i - 1 \in DOMAIN u /\ (i - 1) + 1 = i)
    BY <1>1, <2>3
  <2>7. \A i \in DOMAIN u : i + 1 \in DOMAIN t
    BY <1>1, <2>3
  <2> HIDE DEF At
  <2>8. IsMoveOnly(t) <=> IsMoveOnly(u)
    BY <1>2, <2>4, <2>5, <2>6, <2>7
  <2> QED
    BY <1>4, <2>2, <2>8
<1> QED
  BY <1>3, <1>4

\* Numbers are copied.
LEMMA IntIsCopied ==
  ASSUME Forms, DOMAIN moveOnly = DOMAIN defs
  PROVE  ~IsMoveOnly(<<"Int">>)
<1>1. PICK s : s = <<"Int">>
  OBVIOUS
<1>2. s \in Type /\ Head(s) = "Int"
  BY <1>1, PlainLeaf DEF Leaves
<1>3. "Int" \notin Names
  BY TypesAssumption
<1>4. s \notin DOMAIN defs
  BY <1>2, <1>3 DEF Forms, IsNominal
<1>5. ~IsMoveOnly(s)
  BY <1>2, <1>4, Peeled
<1> QED
  BY <1>1, <1>5

\* The checker's answer and the emitter's, for a type of the table or a field of one.
LEMMA SameOwner ==
  ASSUME Forms, NilOnce, PlainInv, Depths = Nat, moveOnly = MoveOnlySupport(defs),
         NEW t \in Type, Readable(t), t \in DOMAIN defs \/ ~RepeatsNil(t)
  PROVE  IsMoveOnly(t) <=> EmitterMoveOnly(t)
<1> DEFINE Owner(u) == Head(u) \in {"Box", "String"}
<1>1. /\ DOMAIN moveOnly = DOMAIN defs
      /\ \A id \in DOMAIN defs : moveOnly[id] <=> \E u \in TableFound(defs, {id}) : Owner(u)
  <2>1. DOMAIN MoveOnlySupport(defs) = DOMAIN defs
    BY DEF MoveOnlySupport
  <2>2. ASSUME NEW id \in DOMAIN defs
        PROVE  MoveOnlySupport(defs)[id] <=> \E u \in TableFound(defs, {id}) : Owner(u)
    BY TablesFound
  <2> HIDE DEF Owner
  <2> QED
    BY <2>1, <2>2
<1>2. EmitterMoveOnly(t) <=> \E u \in TableFound(defs, {t}) : Owner(u)
  BY EmitterOwners
<1>3. \A id \in DOMAIN defs : Head(id) \notin {"OrNil", "Array"}
  BY TypesAssumption DEF Forms, IsNominal, Wraps
<1>4. CASE t \in DOMAIN defs
  BY <1>1, <1>2, <1>3, <1>4, Peeled
<1>5. CASE t \notin DOMAIN defs /\ Head(t) = "OrNil"
  <2>1. PICK u \in Type : u = Tail(t) /\ TableFound(defs, {t}) = {t} \cup TableFound(defs, {u})
    BY <1>5, FoundInSum
  <2>2. Plain(u) /\ Head(u) # "OrNil"
    BY <1>5, <2>1, PlainTail, NoSecondNil DEF Readable, Wraps
  <2>3. EmitterMoveOnly(t) <=> \E v \in TableFound(defs, {u}) : Owner(v)
    BY <1>2, <1>5, <2>1
  <2>4. CASE u \in DOMAIN defs
    BY <1>1, <1>3, <1>5, <2>1, <2>3, <2>4, Peeled
  <2>5. CASE u \notin DOMAIN defs
    <3>1. TableFound(defs, {u}) = {u}
      BY <2>2, <2>5, FoundAlone
    <3>2. Head(u) \notin {"List", "Map", "Set"}
      BY <2>2, PlainHead
    <3>3. EmitterMoveOnly(t) <=> Owner(u)
      BY <2>3, <3>1
    <3>4. IsMoveOnly(t) <=> Head(u) \in {"Box", "String", "List", "Map", "Set"}
      <4>1. IsMoveOnly(t) <=> IsMoveOnly(u)
        BY <1>5, <2>1, Peeled
      <4>2. CASE Head(u) # "Array"
        BY <1>1, <2>2, <2>5, <4>1, <4>2, Peeled
      <4>3. CASE Head(u) = "Array"
        <5>1. Tail(u) = <<"Int">>
          BY <2>2, <4>3, PlainHead
        <5>2. ~IsMoveOnly(<<"Int">>)
          BY <1>1, IntIsCopied
        <5> QED
          BY <4>1, <4>3, <5>1, <5>2, Peeled
      <4> QED
        BY <4>2, <4>3
    <3> QED
      BY <3>2, <3>3, <3>4
  <2> QED
    BY <2>4, <2>5
<1>6. CASE t \notin DOMAIN defs /\ Head(t) # "OrNil"
  <2>1. EmitterMoveOnly(t) <=> Owner(t)
    BY <1>2, <1>6, FoundAlone
  <2>2. Head(t) \notin {"List", "Map", "Set"}
    BY ReadableHead
  <2>3. CASE Head(t) = "Array"
    <3>1. Tail(t) = <<"Int">> /\ Head(<<"Int">>) = "Int"
      BY <2>3, ReadableHead, PlainLeaf DEF Leaves
    <3>2. ~IsMoveOnly(<<"Int">>)
      BY <1>1, IntIsCopied
    <3>4. ~IsMoveOnly(t)
      BY <2>3, <3>1, <3>2, Peeled
    <3> QED
      BY <2>1, <2>3, <3>4
  <2>4. CASE Head(t) # "Array"
    <3>1. IsMoveOnly(t) <=> Head(t) \in {"Box", "String", "List", "Map", "Set"}
      BY <1>1, <1>6, <2>4, Peeled
    <3> QED
      BY <2>1, <2>2, <3>1
  <2> QED
    BY <2>3, <2>4
<1> QED
  BY <1>4, <1>5, <1>6

\* Of a program whose fields are no collections that own, whatever types it
\* declares and specialises, the emitter drops the values of the types the
\* checker moves, and of no other.
THEOREM DecisionsAgree ==
  ASSUME Shapes = {}, Depths = Nat
  PROVE  Spec => []OwnersAgree
<1> DEFINE Inv == /\ Forms /\ NilOnce /\ WalkInv
                  /\ TablesAreCurrent /\ PlainInv
<1>1. Init => Inv
  <2> SUFFICES ASSUME Init PROVE Inv
    OBVIOUS
  <2>1. /\ DOMAIN defs = {} /\ DOMAIN stack = {} /\ phase = "write" /\ walk = <<>>
        /\ glue = "drop" /\ todo = {} /\ DOMAIN queue = {}
        /\ \A o \in Declarations : source[o] = {}
    BY DEF Init
  <2>2. NilOnce /\ WalkInv /\ TablesAreCurrent /\ PlainInv
    BY <2>1 DEF NilOnce, WalkInv, TablesAreCurrent, PlainInv
  <2> QED
    BY <2>2, InitForms
<1>2. Inv /\ [Next]_vars => Inv'
  BY StepForms, NilOnceStep, WalkStep, TablesStep, PlainStep
<1>3. Inv => OwnersAgree
  <2> SUFFICES ASSUME Inv, phase = "emit",
                      NEW t \in DOMAIN defs \cup UNION {defs[id] : id \in DOMAIN defs}
               PROVE  IsMoveOnly(t) <=> EmitterMoveOnly(t)
    BY DEF OwnersAgree
  <2>1. moveOnly = MoveOnlySupport(defs)
    BY DEF WalkInv, Forms, TablesAreCurrent
  <2>2. t \in Type /\ Readable(t) /\ (t \in DOMAIN defs \/ ~RepeatsNil(t))
    BY DEF Forms, PlainInv, NilOnce, Readable
  <2> QED
    BY <2>1, <2>2, SameOwner
<1> QED
  BY <1>1, <1>2, <1>3, PTL DEF Spec

=============================================================================
