----------------------------- MODULE Callables -----------------------------
(***************************************************************************)
(* The two analyses that decide who may write a root: the borrows of views *)
(* within one callable, and the receiver-write effect between methods.  A  *)
(* behaviour is about one of them; they share the root and nothing else.   *)
(***************************************************************************)
EXTENDS ViewBorrows, Receivers

CONSTANT Subjects

ASSUME SubjectsAssumption == Subjects \subseteq {"views", "receivers"}

VARIABLE subject

allCallables == <<subject, vars, receiverVars>>

CallablesInit == subject \in Subjects /\ Init /\ ReceiversInit

CallablesNext ==
    /\ UNCHANGED subject
    /\ \/ subject = "views" /\ Next /\ UNCHANGED receiverVars
       \/ subject = "receivers" /\ ReceiversNext /\ UNCHANGED vars

CallablesSpec == CallablesInit /\ [][CallablesNext]_allCallables
=============================================================================
