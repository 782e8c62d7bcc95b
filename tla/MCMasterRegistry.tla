-------------------------- MODULE MCMasterRegistry --------------------------
(* Instances of MasterRegistry for TLC.                                     *)
EXTENDS MasterRegistry

CONSTANTS n1, n2, a1, a2, b1, w1, w2, w3

client(c, a) == [caller_id |-> c, api |-> a]

\* n1 is restarted under a new URI, and n2 is not.
RestartClients == {client(n1, a1), client(n1, a2), client(n2, b1)}
\* No two processes of one name.
UniqueClients == {client(n1, a1), client(n2, b1)}

Key == <<"k">>
SubKeyOfKey == <<"k", "s">>
NestedKeys == {Key, SubKeyOfKey}
OneKey == {Key}
NoKeys == {}

Scalar == << >> :> "one"
Dictionary == << >> :> DictValue @@ <<"s">> :> "one"
DictionaryOnly == {Dictionary}
ScalarOnly == {Scalar}

WorkerSymmetry == Permutations(Workers)
=============================================================================
