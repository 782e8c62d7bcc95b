----------------------------- MODULE ParamServer -----------------------------
(***************************************************************************)
(* Parameters: the master's tree and its subscribers                        *)
(* (src/aioros/master/_param_cache.py, _registry.py), and the nodes' caches *)
(* of what they subscribed to (src/aioros/_node/_param_cache.py).  The      *)
(* calls of a node and the master's updates to it travel independently of   *)
(* each other; the updates of one node are called one after the other.      *)
(***************************************************************************)
EXTENDS Wire, FiniteSets, PyDict

CONSTANTS
  Nodes,
  Tasks,      \* tasks of the nodes that use parameters
  Owner,      \* task |-> its node
  Namespace,  \* node |-> its namespace, a path
  Remapping,  \* key |-> key, of some keys
  Names,      \* the names that tasks use, see Resolve
  Values,     \* values that are written
  InitTrees,  \* parameters at the start
  MaxOps      \* bound: operations started

ASSUME OwnerAssumption == Owner \in [Tasks -> Nodes]
\* A namespace has no empty name, since split drops those.
ASSUME NamespaceAssumption == Namespace \in [Nodes -> Seq(STRING \ {""})]
ASSUME MaxOpsAssumption == MaxOps \in Nat
\* Values are what XML-RPC can send, but for an integer beyond the range of a
\* double: it becomes infinite at the master and is refused by who reads it.
ASSUME ValuesAssumption == \A value \in Values : IsValue(value)

VARIABLES
  params,       \* the master's _params
  subscribers,  \* param_subscribers: key |-> nodes
  queue,        \* node |-> updates queued for it
  calling,      \* node |-> the update that is being called, at most one
  cache,        \* node |-> its ParamCache: key |-> value
  task,         \* task |-> where it is with its operation
  ops,
  behind,       \* nodes whose cache may not follow, see Overlaps and Unseen
  scalars,      \* paths that have been written as scalars
  above,        \* paths above keys that have been used, see Mixed
  down          \* serve has failed on an update: the master is gone

master == <<params, subscribers>>
updates == <<queue, calling>>
kinds == <<scalars, above>>
vars == <<master, updates, cache, task, ops, behind, kinds, down>>

-----------------------------------------------------------------------------
FullName(n) == Append(Namespace[n], n)

\* resolve_name: a name is absolute, private to a node or relative to its
\* namespace; what it resolves to may be mapped to another key.
Resolve(n, name) ==
  LET key == CASE name.kind = "absolute" -> name.path
               [] name.kind = "relative" -> Namespace[n] \o name.path
               [] name.kind = "private" -> FullName(n) \o name.path
  IN GetOr(Remapping, key, key)

Keys == {Resolve(n, name) : n \in Nodes, name \in Names}

\* split leaves no empty name.
ASSUME KeysAssumption == Keys \subseteq Seq(STRING \ {""})

Idle == [at |-> "idle"]
IsUpdate(u) == u.key \in Keys /\ << >> \in DOMAIN u.value /\ u.live \in BOOLEAN

TypeOK ==
  /\ << >> \in DOMAIN params /\ IsDictValue(params)
  /\ subscribers \in [Keys -> SUBSET Nodes]
  /\ \A n \in Nodes : \A i \in DOMAIN queue[n] : IsUpdate(queue[n][i])
  /\ \A n \in Nodes : Len(calling[n]) <= 1
  /\ \A n \in Nodes : DOMAIN cache[n] \subseteq Keys
  /\ \A t \in Tasks :
       task[t] = Idle
         \/ /\ task[t].at \in {"sent", "answered"} /\ task[t].key \in Keys
            /\ task[t].op \in {"subscribe", "set", "delete"}
  /\ ops \in 0..MaxOps
  /\ behind \subseteq Nodes
  /\ scalars \subseteq Seq(STRING) /\ above \subseteq Seq(STRING)
  /\ down \in BOOLEAN

-----------------------------------------------------------------------------
(* What paths have been used as.  A delete does not take it back, since what *)
(* was queued before it is still on its way.                                *)

\* The paths below a key that are scalars in a value that is put there.
ScalarPaths(key, value) == {key \o p : p \in {p \in DOMAIN value : value[p] # DictValue}}

WayTo(key) == Prefixes(key) \ {key}

\* A path has been a scalar, and has been taken for a dictionary.
Mixed == scalars \cap above # {}

Init ==
  /\ params \in InitTrees
  /\ subscribers = [k \in Keys |-> {}]
  /\ queue = [n \in Nodes |-> << >>]
  /\ calling = [n \in Nodes |-> << >>]
  /\ cache = [n \in Nodes |-> EmptyDict]
  /\ task = [t \in Tasks |-> Idle]
  /\ ops = 0
  /\ scalars = ScalarPaths(<< >>, params) /\ above = {}
  /\ behind = {} /\ down = FALSE

-----------------------------------------------------------------------------
(* The ParamCache of a node                                                 *)

\* The keys a cache has at or above a key.
Namespaces(c, key) == {k \in DOMAIN c : IsPrefix(k, key)}

IsCached(c, key) == Namespaces(c, key) # {}

Below(namespace, key) == SubSeq(key, Len(namespace) + 1, Len(key))

\* __getitem__ of a key that is contained; the shortest namespace answers.  A
\* KeyError is told from an empty dictionary nowhere, see Found.
Lookup(c, key) ==
  LET first == CHOOSE k \in Namespaces(c, key) :
                 \A j \in Namespaces(c, key) : Len(k) <= Len(j)
  IN Found(c[first], Below(first, key))

\* What namespaces are changed, in the order of their length, if those in
\* failing raise.
Before(namespaces, failing) ==
  {k \in namespaces : \A f \in failing : Len(k) < Len(f)}

\* Mutant: the dictionaries on the way to the key are not created.
UpdateFailsUnknown(c, key) ==
  {k \in Namespaces(c, key) : k # key /\ Front(Below(k, key)) \notin DOMAIN c[k]}

UpdateFails(c, key) ==
  {k \in Namespaces(c, key) : k # key /\ Blocked(c[k], Below(k, key))}

\* update
Updated(c, key, value) ==
  [k \in DOMAIN c |->
     IF k \in Before(Namespaces(c, key), UpdateFails(c, key))
     THEN Stored(c[k], Below(k, key), value) ELSE c[k]]

\* The deletion of what is not there raises, if the dictionary it is not in is there.
DeleteFails(c, key) ==
  {k \in Namespaces(c, key) \ {key} :
     LET path == Below(k, key)
     IN \/ Blocked(c[k], path)
        \/ Front(path) \in DOMAIN c[k] /\ path \notin DOMAIN c[k]}

\* delete: nothing is done to a namespace that is deleted itself.
Deleted(c, key) ==
  [k \in DOMAIN c |->
     IF k \in Before(Namespaces(c, key) \ {key}, DeleteFails(c, key))
     THEN Removed(c[k], Below(k, key)) ELSE c[k]]

-----------------------------------------------------------------------------
(* The calls, in both directions                                            *)

Transferred(value) == Received(value, SetToSeq(UNION {{p[i] : i \in DOMAIN p} : p \in DOMAIN value}))

\* The items of an array are paths below it, which no index of the code leads
\* to: no key and no node's name goes into an array.
ArrayPaths(tree) == {p \in DOMAIN tree : tree[p] \in {ListValue, TupleValue}}
ReachesInto(path) ==
  \/ \E key \in Keys : IsStrictPrefix(path, key)
  \/ \E n \in Nodes : IsPrefix(path, FullName(n))
ASSUME ArraysAssumption ==
  /\ \A tree \in InitTrees : \A p \in ArrayPaths(tree) : ~ReachesInto(p)
  /\ \A value \in Values, key \in Keys :
       \A p \in ArrayPaths(value) \cup ArrayPaths(Transferred(value)) : ~ReachesInto(key \o p)

ASSUME InitTreesAssumption ==
  \A tree \in InitTrees :
    IsValue(tree) /\ IsDictValue(tree) /\ Accepted(tree) /\ Transferred(tree) = tree

-----------------------------------------------------------------------------
(* The operations of a node, up to their call                               *)

Call(t, request) ==
  /\ task' = [task EXCEPT ![t] = request]
  /\ ops' = ops + 1
  /\ UNCHANGED <<master, updates, cache, behind, kinds, down>>

MayCall(t) == ~down /\ task[t] = Idle /\ ops < MaxOps

\* get_param_cached of a key that the cache does not answer.
GetParamCached(t) ==
  /\ MayCall(t)
  /\ \E name \in Names :
       LET key == Resolve(Owner[t], name)
       IN /\ ~IsCached(cache[Owner[t]], key)
          /\ Call(t, [at |-> "sent", op |-> "subscribe", key |-> key])

SetParam(t) ==
  /\ MayCall(t)
  /\ \E name \in Names, value \in Values :
       Call(t, [at |-> "sent", op |-> "set", key |-> Resolve(Owner[t], name), value |-> value])

DeleteParam(t) ==
  /\ MayCall(t)
  /\ \E name \in Names :
       Call(t, [at |-> "sent", op |-> "delete", key |-> Resolve(Owner[t], name)])

-----------------------------------------------------------------------------
(* The master                                                               *)

Update(key, value, live) == [key |-> key, value |-> value, live |-> live]

\* Mutant: the subscribers of what a new dictionary lacks are not notified.
NoticesOfPresent(n, key, value) ==
  {k \in Keys : n \in subscribers[k] /\ IsPrefix(k, key)}

\* The subscribed keys that an update is about: those at and above its key, and
\* those below that a new dictionary lacks.
Notices(n, key, value) ==
  {k \in Keys : n \in subscribers[k] /\
     \/ IsPrefix(k, key)
     \/ IsDictValue(value) /\ IsPrefix(key, k) /\ Below(key, k) \notin DOMAIN value}

\* Those below that it has, told in a second round to the caller as well.
NestedNotices(n, key, value) ==
  {k \in Keys : n \in subscribers[k] /\ IsStrictPrefix(key, k)
                  /\ Below(key, k) \in DOMAIN value}

\* What is queued is the dictionary that is in the tree, as long as it is: it
\* changes with the tree until it is sent.
Refreshed(u, key, tree) ==
  IF ~u.live THEN u
  ELSE IF IsPrefix(key, u.key) THEN [u EXCEPT !.live = FALSE]
  ELSE IF IsPrefix(u.key, key) THEN [u EXCEPT !.value = SubTree(tree, u.key)]
  ELSE u

\* on_param_update, the order among its keys being that of a dict and a set.
OnParamUpdate(key, value, caller, live) ==
  \E order \in SetToSeqs({k \in Keys : subscribers[k] # {}}) :
    LET first(n) == Filtered(order, IF n = caller THEN {} ELSE Notices(n, key, value))
        second(n) == Filtered(order, NestedNotices(n, key, value))
        notice(k) == IF IsPrefix(k, key) THEN Update(key, value, live)
                     ELSE Update(k, EmptyTree, FALSE)
        nested(k) == LET part == SubTree(value, Below(key, k))
                     IN Update(k, part, live /\ IsDictValue(part))
    IN queue' = [n \in Nodes |->
         [i \in DOMAIN queue[n] |-> Refreshed(queue[n][i], key, params')]
           \o [i \in DOMAIN first(n) |-> notice(first(n)[i])]
           \o [i \in DOMAIN second(n) |-> nested(second(n)[i])]]

\* Its tasks whose calls are answered, and the updates that are on their way to it.
Answered(n) == {t \in Tasks : Owner[t] = n /\ task[t].at = "answered"}
Updating(n) == queue[n] # << >> \/ calling[n] # << >>

\* Answers and updates may overtake each other.
Overlaps(n) == \E t \in Answered(n) : Updating(n) \/ Answered(n) # {t}

HandleSubscribe(t) ==
  /\ ~down /\ task[t].at = "sent" /\ task[t].op = "subscribe"
  /\ task' = [task EXCEPT ![t] = [at |-> "answered", op |-> "subscribe", key |-> @.key,
                                  value |-> Transferred(Found(params, @.key))]]
  /\ subscribers' = [subscribers EXCEPT ![task[t].key] = @ \cup {Owner[t]}]
  /\ above' = above \cup WayTo(task[t].key)
  /\ UNCHANGED <<params, updates, cache, ops, scalars, down>>
  /\ behind' = behind \cup {n \in Nodes : Overlaps(n)'}

\* A call that the schema does not accept raises out of the server: the master
\* is down, and the call is not answered.
CallNotAccepted(t) ==
  /\ ~down /\ task[t].at = "sent" /\ task[t].op = "set" /\ ~Accepted(task[t].value)
  /\ down' = TRUE
  /\ UNCHANGED <<master, updates, cache, task, ops, behind, kinds>>

\* The root takes a dictionary only: ValueError.
HandleSet(t) ==
  /\ ~down /\ task[t].at = "sent" /\ task[t].op = "set" /\ Accepted(task[t].value)
  /\ LET key == task[t].key
         value == Transferred(task[t].value)
     IN IF key = << >> /\ ~IsDictValue(value)
        THEN /\ task' = [task EXCEPT ![t] = Idle]
             /\ UNCHANGED <<params, queue, kinds>>
        ELSE /\ params' = Stored(params, key, value)
             /\ OnParamUpdate(key, value, Owner[t], IsDictValue(value))
             /\ scalars' = scalars \cup ScalarPaths(key, value) \cup ScalarPaths(key, task[t].value)
             /\ above' = above \cup WayTo(key)
             /\ task' = [task EXCEPT ![t].at = "answered"]
  /\ UNCHANGED <<subscribers, calling, cache, ops, down>>
  /\ behind' = behind \cup {n \in Nodes : Overlaps(n)'}

\* What the subscribers of a deleted parameter are told.
DeletedValue == EmptyTree

\* A key that is not there, the root, or one below a scalar raises.
HandleDelete(t) ==
  /\ ~down /\ task[t].at = "sent" /\ task[t].op = "delete"
  /\ LET key == task[t].key
     IN IF key = << >> \/ key \notin DOMAIN params
        THEN /\ task' = [task EXCEPT ![t] = Idle]
             /\ UNCHANGED <<params, queue, above>>
        ELSE /\ params' = Removed(params, key)
             /\ OnParamUpdate(key, DeletedValue, Owner[t], FALSE)
             /\ above' = above \cup WayTo(key)
             /\ task' = [task EXCEPT ![t].at = "answered"]
  /\ UNCHANGED <<subscribers, calling, cache, ops, scalars, down>>
  /\ behind' = behind \cup {n \in Nodes : Overlaps(n)'}

\* serve takes the next update and sends it.  It is accepted, see HeldSettled.
ServeTakes(n) ==
  /\ ~down /\ calling[n] = << >> /\ queue[n] # << >>
  /\ calling' = [calling EXCEPT ![n] = <<[Head(queue[n]) EXCEPT !.value = Transferred(@)]>>]
  /\ queue' = [queue EXCEPT ![n] = Tail(@)]
  /\ UNCHANGED <<master, cache, task, ops, behind, kinds, down>>

\* paramUpdate at the node: status 500 if the cache raises, which serve asserts.
ParamUpdate(n) ==
  /\ ~down /\ calling[n] # << >>
  /\ LET u == Head(calling[n])
     IN /\ cache' = [cache EXCEPT ![n] = Updated(@, u.key, u.value)]
        /\ down' = (UpdateFails(cache[n], u.key) # {})
  /\ calling' = [calling EXCEPT ![n] = << >>]
  /\ UNCHANGED <<master, queue, task, ops, behind, kinds>>

-----------------------------------------------------------------------------
(* The operations of a node, once they are answered                         *)

\* The node's own write is not seen by what it caches below the key, and it is
\* seen above it as it was before it was sent.
Unseen(n, key) ==
  \E k \in DOMAIN cache[n] : IsStrictPrefix(key, k)

\* An empty dictionary is stored too, before KeyError is raised for it.
SubscribeAnswered(t) ==
  /\ ~down /\ task[t].at = "answered" /\ task[t].op = "subscribe"
  /\ cache' = [cache EXCEPT ![Owner[t]] = Put(@, task[t].key, task[t].value)]
  /\ task' = [task EXCEPT ![t] = Idle]
  /\ UNCHANGED <<master, updates, ops, behind, kinds, down>>

SetAnswered(t) ==
  /\ ~down /\ task[t].at = "answered" /\ task[t].op = "set"
  /\ LET n == Owner[t]
         key == task[t].key
         value == task[t].value
     IN /\ cache' = [cache EXCEPT ![n] = Updated(@, key, value)]
        /\ behind' = IF \/ IsCached(cache[n], key) /\ Transferred(value) # value
                        \/ Unseen(n, key)
                     THEN behind \cup {n} ELSE behind
  /\ task' = [task EXCEPT ![t] = Idle]
  /\ UNCHANGED <<master, updates, ops, kinds, down>>

DeleteAnswered(t) ==
  /\ ~down /\ task[t].at = "answered" /\ task[t].op = "delete"
  /\ LET n == Owner[t]
         key == task[t].key
     IN /\ cache' = [cache EXCEPT ![n] = Deleted(@, key)]
        /\ behind' = IF Unseen(n, key) \/ key \in DOMAIN cache[n]
                          \/ DeleteFails(cache[n], key) # {}
                     THEN behind \cup {n} ELSE behind
  /\ task' = [task EXCEPT ![t] = Idle]
  /\ UNCHANGED <<master, updates, ops, kinds, down>>

Next ==
  \/ \E t \in Tasks :
       \/ GetParamCached(t) \/ SetParam(t) \/ DeleteParam(t)
       \/ HandleSubscribe(t) \/ HandleSet(t) \/ HandleDelete(t) \/ CallNotAccepted(t)
       \/ SubscribeAnswered(t) \/ SetAnswered(t) \/ DeleteAnswered(t)
  \/ \E n \in Nodes : ServeTakes(n) \/ ParamUpdate(n)

Spec == Init /\ [][Next]_vars

-----------------------------------------------------------------------------
(* Properties                                                               *)

\* A value changes on its first way only: what the master holds and sends a node
\* can be sent again, so that no receiver's schema refuses it, and all who read
\* it read the same.
HeldSettled ==
  LET sent == UNION {{queue[n][i].value : i \in DOMAIN queue[n]}
                        \cup {calling[n][i].value : i \in DOMAIN calling[n]} : n \in Nodes}
  IN \A value \in {params} \cup sent : Accepted(value) /\ Transferred(value) = value

\* With nothing on its way to a node, its cache answers as the master would,
\* whoever wrote at, above or below the cached keys; an empty dictionary is as
\* good as none.  Not so after an answer and an update could overtake each
\* other, or after a write of the node's own that its cache does not see.
CacheFollows ==
  ~Mixed => \A n \in Nodes \ behind : ~Updating(n) /\ Answered(n) = {} =>
    \A k \in Keys : IsCached(cache[n], k)
      => Leaves(Lookup(cache[n], k)) = Leaves(Found(params, k))

\* A search by a relative name, from a node upwards, finds the parameter that
\* the name is in the node's namespace, or one in a namespace that is closer to
\* the node, and finds none only where no namespace from the node's name up to
\* the root has the first part of the name.
SearchReaches ==
  \A n \in Nodes, path \in Keys \ {<< >>} :
    LET found == Search(params, path, FullName(n))
        named == Namespace[n] \o path
    IN /\ named \in DOMAIN params => Len(found) >= Len(named)
       /\ found = << >> <=>
            \A p \in Prefixes(FullName(n)) : Append(p, Head(path)) \notin DOMAIN params

\* The master is taken down by an update only below what has been a scalar at
\* some time; or by a call that it does not accept.
DownOnlyIfMixed ==
  down => \/ Mixed
          \/ \E t \in Tasks :
               task[t].at = "sent" /\ task[t].op = "set" /\ ~Accepted(task[t].value)
=============================================================================
