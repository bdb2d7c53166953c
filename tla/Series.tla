------------------------------- MODULE Series -------------------------------
(***************************************************************************)
(* What a List<T> promises: a finite sequence.  One item is put in at some *)
(* place, leaves its place or is replaced there, and all the others stay   *)
(* in order; or all of them go.                                            *)
(***************************************************************************)
EXTENDS Integers, Sequences

CONSTANT Things

VARIABLE series

InsertedAt(i, x) == [j \in 1..(Len(series) + 1) |->
                        IF j <= i THEN series[j] ELSE IF j = i + 1 THEN x ELSE series[j - 1]]
RemovedAt(i) == [j \in 1..(Len(series) - 1) |-> IF j <= i THEN series[j] ELSE series[j + 1]]

\* i items stay before the one that comes, goes or changes.
PutIn   == \E i \in 0..Len(series), x \in Things : series' = InsertedAt(i, x)
PutOut  == \E i \in 0..(Len(series) - 1) : series' = RemovedAt(i)
Replace == \E i \in 0..(Len(series) - 1), x \in Things : series' = [series EXCEPT ![i + 1] = x]
Empty   == series' = <<>>

SNext == PutIn \/ PutOut \/ Replace \/ Empty

SSpec == series \in Seq(Things) /\ [][SNext]_series
=============================================================================
