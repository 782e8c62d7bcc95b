--------------------------- MODULE MCTopicPublisher ---------------------------
(* Instances of TopicPublisher for TLC.                                     *)
EXTENDS TopicPublisher, TLC

CONSTANTS u1, u2, h1, h2, w1, m1, m2

Symmetry == Permutations(Users) \cup Permutations(Handlers) \cup Permutations(Messages)
=============================================================================
