--------------------------- MODULE MCCollections ---------------------------
(* Maps: three keys, so that one between two others can go; four values, so  *)
(* that one can be replaced while the map is full.  Lists: capacities 2, 3   *)
(* and 4 and a length of four, so that a shift crosses a reallocation.       *)
EXTENDS Collections

CONSTANTS k1, k2, k3, v1, v2, v3, v4
=============================================================================
