---------------------------- MODULE Collections ----------------------------
(***************************************************************************)
(* The three collections of the language side by side: a run explores one  *)
(* of them at a time, since they share nothing but the runtime's code for  *)
(* descriptors.                                                            *)
(***************************************************************************)
EXTENDS OrderedMap, Lists, Sets

VARIABLE kind  \* the collection this behaviour is about

allCollections == <<kind, vars, listVars, setVars>>

\* The collections a behaviour is not about stay as they are declared.
CollectionsInit ==
    /\ kind \in {"map", "list", "set"}
    /\ Init /\ ListInit /\ SetInit
    /\ kind # "map" => ~moveOnly
    /\ kind # "list" => ~owning /\ size = 0
    /\ kind # "set" => ~textual

CollectionsNext ==
    /\ UNCHANGED kind
    /\ \/ kind = "map" /\ Next /\ UNCHANGED <<listVars, setVars>>
       \/ kind = "list" /\ ListNext /\ UNCHANGED <<vars, setVars>>
       \/ kind = "set" /\ SetNext /\ UNCHANGED <<vars, listVars>>

CollectionsSpec == CollectionsInit /\ [][CollectionsNext]_allCollections

\* The stores, descriptors and owners of all three keep their types.
CollectionsTypeOK == TypeOK /\ ListTypeOK /\ SetTypeOK
=============================================================================
