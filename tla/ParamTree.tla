------------------------------ MODULE ParamTree ------------------------------
(***************************************************************************)
(* Values of parameters, which are scalars or dictionaries of values, and   *)
(* what the parameter caches do to them.  A value is a tree: a              *)
(* prefix-closed set of paths, each labelled by DictValue or by a scalar;   *)
(* the empty path is the value itself.  A path is the sequence of names     *)
(* that split returns.  No path that is looked up or stored leads into an   *)
(* array (see ArraysAssumption): what follows takes its items for members.  *)
(***************************************************************************)
EXTENDS Naturals, FiniteSets, SequencesExt

DictValue == [dict |-> TRUE]

EmptyTree == [p \in {<< >>} |-> DictValue]
Scalar(s) == [p \in {<< >>} |-> s]

IsTree(tree) ==
  /\ tree = [p \in DOMAIN tree |-> tree[p]] /\ IsFiniteSet(DOMAIN tree)
  /\ << >> \in DOMAIN tree
  /\ \A p \in DOMAIN tree : p \in Seq(STRING) /\ Prefixes(p) \subseteq DOMAIN tree

IsDictValue(tree) == tree[<< >>] = DictValue

SubTree(tree, path) ==
  [p \in {SubSeq(q, Len(path) + 1, Len(q)) : q \in {q \in DOMAIN tree : IsPrefix(path, q)}}
     |-> tree[path \o p]]

\* What is found below a path, which is an empty dictionary if nothing is.
Found(tree, path) == IF path \in DOMAIN tree THEN SubTree(tree, path) ELSE EmptyTree

\* A value put at a path, with the dictionaries on the way to it.
Stored(tree, path, value) ==
  LET kept == {q \in DOMAIN tree : ~IsPrefix(path, q) /\ ~IsPrefix(q, path)}
      onTheWay == {q \in Prefixes(path) : q # path}
  IN [q \in kept \cup onTheWay \cup {path \o p : p \in DOMAIN value} |->
        CASE q \in onTheWay -> DictValue
          [] q \in kept -> tree[q]
          [] OTHER -> value[SubSeq(q, Len(path) + 1, Len(q))]]

Removed(tree, path) == [q \in {q \in DOMAIN tree : ~IsPrefix(path, q)} |-> tree[q]]

\* A path leads through a scalar.
Blocked(tree, path) ==
  \E q \in DOMAIN tree : IsStrictPrefix(q, path) /\ tree[q] # DictValue

\* Mutant: the root is not searched.
NamespacesBelowRoot(caller) ==
  [i \in 1..Len(caller) |-> SubSeq(caller, 1, Len(caller) + 1 - i)]

\* The namespaces that search looks at, from the caller's name outwards.
SearchNamespaces(caller) ==
  [i \in 1..(Len(caller) + 1) |-> SubSeq(caller, 1, Len(caller) + 1 - i)]

\* search of a relative key: the first namespace that has the key's first name
\* is taken, whether it has the rest or not; << >> if there is none.
Search(tree, path, caller) ==
  LET namespaces == SearchNamespaces(caller)
      i == SelectInSeq(namespaces, LAMBDA ns : Append(ns, Head(path)) \in DOMAIN tree)
  IN IF i = 0 THEN << >> ELSE namespaces[i] \o path

\* The scalars of a tree with their paths, which keys lists.
Leaves(tree) == {<<p, tree[p]>> : p \in {p \in DOMAIN tree : tree[p] # DictValue}}
=============================================================================
