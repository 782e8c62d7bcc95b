-------------------------- MODULE MCTopicSubscriber --------------------------
(* Instances of TopicSubscriber for TLC.                                    *)
EXTENDS TopicSubscriber, TLC

CONSTANTS s1, s2, p1, p2, c1, c2, c3

Symmetry == Permutations(Streams) \cup Permutations(Publishers) \cup Permutations(Connections)
=============================================================================
