---------------------------- MODULE Association ----------------------------
(***************************************************************************)
(* What an insertion-ordered map promises: a list of entries, one per key. *)
(* A new key goes to the end, a key that is there keeps its place, and a   *)
(* key that is removed gives its place up.                                 *)
(***************************************************************************)
EXTENDS Sequences, Integers

CONSTANTS Keys, Values

VARIABLE entries  \* sequence of <<key, value>>

KeysOf(e) == {e[i][1] : i \in DOMAIN e}

AInit == entries = <<>>

APut(k, v) ==
    entries' = IF k \in KeysOf(entries)
               THEN [i \in DOMAIN entries |-> IF entries[i][1] = k THEN <<k, v>> ELSE entries[i]]
               ELSE Append(entries, <<k, v>>)

ARemove(i) ==
    entries' = SubSeq(entries, 1, i - 1) \o SubSeq(entries, i + 1, Len(entries))

AClear == entries' = <<>>

ANext ==
    \/ \E k \in Keys, v \in Values : APut(k, v)
    \/ \E i \in DOMAIN entries : ARemove(i)
    \/ AClear

ASpec == AInit /\ [][ANext]_entries
=============================================================================
