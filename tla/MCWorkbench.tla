---------------------------- MODULE MCWorkbench ----------------------------
(* Two connections contend for the run; a stream may exceed its limit by one *)
(* pipeful.                                                                  *)
EXTENDS Workbench

CONSTANTS c1, c2
=============================================================================
