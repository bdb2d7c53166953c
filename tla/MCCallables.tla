---------------------------- MODULE MCCallables ----------------------------
(* Bodies with one owner as a parameter and one local, or with two           *)
(* parameters; programs with three methods that may call each other.         *)
EXTENDS Callables, TLC

CONSTANTS a, b, v, w, l, m, n

CallableSymmetry == Permutations({v, w}) \cup Permutations({l, m, n})
=============================================================================
