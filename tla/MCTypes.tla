------------------------------ MODULE MCTypes ------------------------------
(* Two declared types, a generic struct and a generic function, with one   *)
(* of every kind of edge a field can make.                                 *)
EXTENDS TypeTable

CONSTANTS A, B

OfNames(prefix) == {prefix \o <<n>> : n \in Names}

SomeFields ==
  {<<"String">>, <<"Array", "Int">>, <<"List", "Box", "Int">>, <<"G", "Int">>,
   <<"G", "Box", "List", "Int">>}
    \cup OfNames(<<>>) \cup OfNames(<<"OrNil", "Box">>) \cup OfNames(<<"OrNil">>)
    \cup OfNames(<<"G">>) \cup OfNames(<<"Array">>)
SomeTemplates ==
  {<<"T">>, <<"OrNil", "T">>, <<"OrNil", "G", "T">>, <<"Box", "G", "T">>, <<"Box", "G", "Box", "T">>,
   <<"G", "Box", "T">>, <<A>>}
SomeSignatures == {<<"Box", "G", "T">>, <<"G", "T">>}
SomeBodies == {<<"F", "Box", "T">>, <<"F", "T">>, <<"G", "T">>}
SomeMains ==
  {<<"F", "Int">>, <<"G", "OrNil", "Int">>, <<"G", "String">>, <<"G", B>>}

=============================================================================
