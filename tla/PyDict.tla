------------------------------- MODULE PyDict -------------------------------
(***************************************************************************)
(* Python dictionaries as partial functions: which keys are present is     *)
(* part of the value, since the code tests "key in table" and a defaultdict *)
(* can hold a key whose set of values is empty.                            *)
(***************************************************************************)

\* d is a dictionary whose keys are in K and whose values are in V.
IsDict(d, K, V) == DOMAIN d \subseteq K /\ d \in [DOMAIN d -> V]

EmptyDict == [k \in {} |-> {}]

\* d.get(k, default)
GetOr(d, k, default) == IF k \in DOMAIN d THEN d[k] ELSE default

\* d[k] = v
Put(d, k, v) == [j \in DOMAIN d \cup {k} |-> IF j = k THEN v ELSE d[j]]

\* d.pop(k, None)
Drop(d, k) == [j \in DOMAIN d \ {k} |-> d[j]]

\* d[k].add(v) of a defaultdict(set)
AddTo(d, k, v) == Put(d, k, GetOr(d, k, {}) \cup {v})

(* Remove v from the set kept under k, and the key with its last value.    *)
DiscardFrom(d, k, v) ==
  IF k \notin DOMAIN d THEN d
  ELSE IF d[k] \ {v} = {} THEN Drop(d, k)
  ELSE Put(d, k, d[k] \ {v})
=============================================================================
