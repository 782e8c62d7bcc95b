------------------------- MODULE MCRegistryClients -------------------------
(* Instances of RegistryClients for TLC.                                    *)
EXTENDS RegistryClients

CONSTANTS n1, n2, a1, a2, b1, w1, w2, w3

client(c, a) == [caller_id |-> c, api |-> a]

\* n1 is restarted under a new URI, and n2 is not.
RestartClients == {client(n1, a1), client(n1, a2), client(n2, b1)}

Key == <<"k">>
OneKey == {Key}
NoKeys == {}

Scalar == << >> :> "one"
ScalarOnly == {Scalar}

WorkerSymmetry == Permutations(Workers)
=============================================================================
