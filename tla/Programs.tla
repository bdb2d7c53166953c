------------------------------ MODULE Programs ------------------------------
(***************************************************************************)
(* Every body of a given shape, checked, lowered and executed.             *)
(*                                                                         *)
(* A family says which block elements the bodies are made of, which roots  *)
(* they declare and how long they are; it only keeps a run small, and a    *)
(* run goes through all of its families.  "Shapes" says which of the       *)
(* shapes below the bodies may contain.  Each names a use of the language  *)
(* the checker accepts and then gets wrong; README.md describes them.  A   *)
(* run that shows a property leaves them out, a run that exhibits one lets *)
(* it in.                                                                  *)
(***************************************************************************)
EXTENDS Execution

CONSTANTS Families, Shapes

VARIABLE family   \* the family of the body; no step changes it

progVars == <<allVars, family>>

AllElements == {"let", "move", "assign", "use", "take", "borrow", "defer", "defer_take",
                "on_error", "if", "elseif", "else", "while", "for", "break", "return", "try"}

AllShapes == {"condition_moves",  \* a condition consumes a root
              "break_outer",      \* break while a root outside the loop is available
              "break_moved",      \* break with other moves than the loop was entered with
              "break_for",        \* break out of a for loop
              "unbalanced",       \* paths that join disagree on a root's move
              "defer_outer",      \* an inner scope defers a move of an outer root
              "return_param",     \* an early exit with a parameter available
              "borrow_moved"}     \* a Ref argument that is moved

ASSUME ShapesAssumption ==
    /\ Families \subseteq [elements : SUBSET AllElements, roots : SUBSET Roots, length : 0..MaxClock]
    /\ Shapes \subseteq AllShapes

With(e)  == e \in family.elements
Has(s)   == s \in Shapes
Outside(d) == {b.root : b \in Outer(d, env)}

\* Names are interchangeable: a body declares them in one order.
Fresh(r) == r \in family.roots \ declared

From(s) == s # None => With("move")

\* Bound: every construct still open can be closed within the family's length.
Room(opened) == clock + Depth + opened <= family.length

Condition(c) == c = None \/ Has("condition_moves")

\* The move states that meet at the end of a chain agree.
BalancedChain ==
    LET exits == ArmExits \cup (IF Top.covered THEN {} ELSE {Top.entry})
    IN  \A x, y \in exits : x \cap Outside(Depth) = y \cap Outside(Depth)

\* A loop body leaves moved what it found moved.
BalancedLoop == Top.returns \/ Top.entry \cap Outside(Depth) \subseteq moved

BreakShape ==
    Top.loop # 0 =>
        LET loop == frames[Top.loop]
        IN  /\ Unregistered(Top.loop, moved) = {} \/ Has("break_outer")
            /\ \/ moved \cap Outside(Top.loop) = loop.entry \cap Outside(Top.loop)
               \/ Has("break_moved")
            /\ loop.kind = "while" \/ Has("break_for")

ExitShape(m) == \/ Unregistered(1, m) = {}
                \/ Registered(1, m) = {}
                \/ Has("return_param")

DeferShape(r, how, onErr) ==
    \/ how # "take" \/ onErr \/ Depth = 1 \/ r \notin Outside(Depth)
    \/ Has("defer_outer")

DeferElement(how, onErr) ==
    /\ With(IF how = "take" THEN "defer_take" ELSE "defer")
    /\ onErr => With("on_error")
    /\ how = "borrow" => With("borrow")

\* The value an exit carries makes a difference to error-only calls.
Classes ==
    CASE ~Fallible        -> {"unknown"}
      [] With("on_error") -> ExitClass
      [] OTHER            -> {"ok"}

Elementary ==
    \/ \E r \in Roots, s \in MaybeRoot :
         /\ From(s)
         /\ \/ With("let") /\ Fresh(r) /\ Let(r, s)
            \/ With("assign") /\ Assign(r, s)
    \/ \E r \in Roots :
         \/ With("use") /\ Use(r)
         \/ With("take") /\ Take(r)
         \/ With("borrow") /\ (r \notin moved \/ Has("borrow_moved")) /\ Borrow(r)
    \/ \E r \in Roots, how \in {"use", "borrow", "take"}, onErr \in BOOLEAN :
         /\ DeferElement(how, onErr)
         /\ how # "borrow" \/ r \notin moved \/ Has("borrow_moved")
         /\ DeferShape(r, how, onErr)
         /\ CheckDefer(r, how, onErr)
    \/ With("break") /\ verdict = "checking" /\ BreakShape /\ Break
    \/ With("try") /\ ExitShape(moved) /\ CheckReturnOnError
    \/ \E s \in MaybeRoot, class \in Classes :
         With("return") /\ ExitShape(moved \cup Taken(s)) /\ CheckReturn(s, class)
    \/ \E c \in MaybeRoot : With("elseif") /\ Condition(c) /\ ElseIf(c)
    \/ With("else") /\ Else

Opening ==
    \/ \E c \in MaybeRoot :
         /\ Condition(c)
         /\ \/ With("if") /\ OpenIf(c)
            \/ With("while") /\ OpenWhile(c)
    \/ With("for") /\ OpenFor

\* A body whose construct cannot be closed in an admitted shape is abandoned.
Close(balanced, Closed) ==
    IF balanced \/ Has("unbalanced") THEN Closed ELSE Reject

Completing ==
    \/ InsideOf({"if"}) /\ Close(BalancedChain, EndIf)
    \/ InsideOf({"while", "for"}) /\ Close(BalancedLoop, CloseLoop)
    \/ \E s \in MaybeRoot, class \in Classes : EndBody(s, class)

ProgNext ==
    \/ Room(0) /\ Elementary
    \/ Room(1) /\ Opening
    \/ Completing

\* The callable returned, the program was refused, or it cannot be linked.
Finished ==
    /\ verdict \in {"rejected", "internal"} \/ Returned
    /\ UNCHANGED allVars

ProgInit == Init /\ ExecInit /\ family \in Families

CheckStep == ProgNext /\ UNCHANGED exec

ProgramNext == (CheckStep \/ ExecNext \/ Finished) /\ UNCHANGED family

Program == ProgInit /\ [][ProgramNext]_progVars
=============================================================================
