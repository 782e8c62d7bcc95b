---------------------------- MODULE MCParamServer ----------------------------
(* Instances of ParamServer for TLC.                                        *)
EXTENDS ParamServer

CONSTANTS n1, n2, t1, t2, t3

MCOwner == [t \in Tasks |-> IF t = t3 THEN n2 ELSE n1]
MCNamespace == [n \in Nodes |-> <<"a">>]
MCRemapping == [k \in {<<"c">>} |-> << >>]
MCNames == {[kind |-> "absolute", path |-> <<"c">>],
            [kind |-> "absolute", path |-> <<"a">>],
            [kind |-> "relative", path |-> <<"b">>]}
MCText(s) == Scalar(Str(s, FALSE))
MCValues == {Scalar(Integer(MaxInt)), Scalar(Float(0, FALSE)), EmptyTree,
             Stored(EmptyTree, <<"b">>, MCText("s2")),
             Stored(Stored(EmptyTree, <<"">>, MCText("s2")), <<"b">>, Scalar(Str("s3", TRUE))),
             Stored(EmptyTree, <<"a", "b">>, Scalar(Binary("s1")))}
MCInitTrees == {EmptyTree, Stored(EmptyTree, <<"a", "b">>, MCText("s0")),
                Stored(EmptyTree, <<"a">>, MCText("s0"))}

\* The two tasks of n1 can be exchanged.
TaskSymmetry == Permutations({t1, t2})
=============================================================================
