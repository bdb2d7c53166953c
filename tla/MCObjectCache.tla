--------------------------- MODULE MCObjectCache ---------------------------
(* Two builds over one target directory; the program is edited once without  *)
(* touching its extern declarations, and an emission has two outcomes.       *)
EXTENDS ObjectCache

CONSTANTS b1, b2, s1, s2, v1, v2, extern

MCExterns == [s \in {s1, s2} |-> extern]
=============================================================================
