--------------------------- MODULE MasterRegistry ---------------------------
(***************************************************************************)
(* The master's Registry (src/aioros/master/_registry.py): the tables of    *)
(* services, publishers, subscribers and parameter subscribers, the Node    *)
(* object kept for every registered caller, and the task that calls that    *)
(* node back.  A method of Registry runs without awaiting, so each is one   *)
(* step; the serve tasks run between them.  The master is an open server:   *)
(* any client may call any method at any time, in particular the old        *)
(* process of a restarted node.                                             *)
(***************************************************************************)
EXTENDS Naturals, FiniteSets, SequencesExt, PyDict

CONSTANTS
  Callers,      \* caller ids: resolved node names
  Apis,         \* XML-RPC URIs
  Clients,      \* processes: a restarted node keeps its name, not its URI
  Topics,
  Types,        \* concrete topic types
  AnyType,      \* "*", the type a subscriber to any type registers
  Services,
  Keys,         \* parameter keys, as the sequence of their names
  ParamValues,  \* values written to a parameter: see OnParamUpdate
  Workers,      \* identities of serve tasks
  MaxPending    \* bound: tasks pending on the send streams together

ASSUME ClientsAssumption == Clients \subseteq [caller_id : Callers, api : Apis]
ASSUME TypesAssumption == AnyType \notin Types
ASSUME MaxPendingAssumption == MaxPending \in Nat

VARIABLES
  services,           \* service |-> its provider
  publications,       \* topic |-> set of registrations
  subscriptions,      \* topic |-> set of registrations
  param_subscribers,  \* key |-> set of registrations
  topic_types,        \* topic |-> type
  nodes,              \* caller id |-> Node
  serving,            \* serve task |-> whom it calls, and whether its stream is closed
  queue,              \* serve task |-> tasks not completed, the head in flight
  up                  \* FALSE once the master's task group is cancelled

tables == <<services, publications, subscriptions, param_subscribers, topic_types>>
vars == <<tables, nodes, serving, queue, up>>

PublisherUpdate(topic, apis) ==
  [method |-> "publisher_update", topic |-> topic, publishers |-> apis]
ParamUpdate(key, value) == [method |-> "param_update", key |-> key, value |-> value]
ShutdownTask == [method |-> "shutdown"]

\* A parameter value is a tree: a prefix-closed set of paths, each labelled
\* by DictValue or by a scalar; the empty path is the value itself.
DictValue == "dict"
EmptyTree == << >> :> DictValue
SubTree(value, path) ==
  [p \in {SubSeq(q, Len(path) + 1, Len(q)) :
            q \in {q \in DOMAIN value : IsPrefix(path, q)}} |-> value[path \o p]]

Node == [api : Apis, services : SUBSET Services, publications : SUBSET Topics,
         subscriptions : SUBSET Topics, param_subscriptions : SUBSET Keys,
         worker : Workers]

Task == [method : {"publisher_update"}, topic : Topics, publishers : SUBSET Apis]
        \cup {ShutdownTask}
        \cup [method : {"param_update"}, key : Keys,
              value : (UNION {{SubTree(v, p) : p \in DOMAIN v} : v \in ParamValues})
                      \cup ParamValues \cup {EmptyTree}]

TablesTypeOK ==
  /\ IsDict(services, Services, Clients)
  /\ IsDict(publications, Topics, SUBSET Clients)
  /\ IsDict(subscriptions, Topics, SUBSET Clients)
  /\ IsDict(param_subscribers, Keys, SUBSET Clients)
  /\ IsDict(topic_types, Topics, Types)
  /\ IsDict(nodes, Callers, Node)
  /\ IsDict(serving, Workers, [api : Apis, closed : BOOLEAN])
  /\ up \in BOOLEAN

\* The registry's tables, its nodes and the tasks it queues are of their types.
TypeOK == TablesTypeOK /\ queue \in [Workers -> Seq(Task)]

Init ==
  /\ services = EmptyDict
  /\ publications = EmptyDict
  /\ subscriptions = EmptyDict
  /\ param_subscribers = EmptyDict
  /\ topic_types = EmptyDict
  /\ nodes = EmptyDict
  /\ serving = EmptyDict
  /\ queue = [w \in Workers |-> << >>]
  /\ up = TRUE

-----------------------------------------------------------------------------
(* Sending: a batch is the sequence of <<serve task, task>> a method sends. *)

Enqueue(batch) ==
  queue' = [w \in Workers |-> queue[w] \o FlattenSeq(
    [i \in DOMAIN batch |-> IF batch[i][1] = w THEN <<batch[i][2]>> ELSE << >>])]

\* Bound: the send streams are unbounded in the code.
QueueBound == MapThenSumSet(LAMBDA w : Len(queue[w]), Workers) <= MaxPending

ApisOf(regs) == {r.api : r \in regs}

UpdateSubscribers(topic, publishers, subs, nds) ==
  LET known == SetToSeq({r \in GetOr(subs, topic, {}) : r.caller_id \in DOMAIN nds})
  IN [i \in DOMAIN known |-> <<nds[known[i].caller_id].worker,
                               PublisherUpdate(topic, ApisOf(publishers))>>]

-----------------------------------------------------------------------------
(* _register_node: the caller's Node if it calls from the URI the master    *)
(* knows; otherwise a new Node with its own serve task, after the Node of   *)
(* the same name, if any, is told to shut down and unregistered.            *)

Known(p) == p.caller_id \in DOMAIN nodes /\ nodes[p.caller_id].api = p.api
Replaces(p) == p.caller_id \in DOMAIN nodes /\ nodes[p.caller_id].api # p.api

WorkerFor(p) == IF Known(p) THEN {nodes[p.caller_id].worker}
                ELSE Workers \ DOMAIN serving

\* Mutant: the Node of a restarted node is taken over with its lists.
RegisterNodeInPlace(p, w) ==
  IF p.caller_id \in DOMAIN nodes THEN [nodes[p.caller_id] EXCEPT !.api = p.api]
  ELSE [api |-> p.api, services |-> {}, publications |-> {}, subscriptions |-> {},
        param_subscriptions |-> {}, worker |-> w]

RegisterNode(p, w) ==
  IF Known(p) THEN nodes[p.caller_id]
  ELSE [api |-> p.api, services |-> {}, publications |-> {}, subscriptions |-> {},
        param_subscriptions |-> {}, worker |-> w]

StartServe(p, w) ==
  IF Known(p) THEN serving ELSE Put(serving, w, [api |-> p.api, closed |-> FALSE])

\* Mutant: the services of the old process stay.
KeepServices(p) == services

\* Mutant: every service is removed with those of the replaced node.
UnregisterEveryService(p) == IF Replaces(p) THEN EmptyDict ELSE services

(* _unregister_all, on the tables: the keys of publications and             *)
(* subscriptions stay, with possibly no registration left.                  *)
UnregisterServices(p) ==
  IF Replaces(p)
  THEN Restrict(services, {s \in DOMAIN services : services[s].caller_id # p.caller_id})
  ELSE services

UnregisterAll(table, p) ==
  IF Replaces(p)
  THEN [t \in DOMAIN table |-> {r \in table[t] : r.caller_id # p.caller_id}]
  ELSE table

(* _unregister_all, on the queues: the publishers it removes, topic by      *)
(* topic in any order, each followed by an update of the topic's subscribers.*)
Removals(p) ==
  LET own == {m \in Topics \X Clients :
                /\ m[1] \in DOMAIN publications /\ m[2] \in publications[m[1]]
                /\ m[2].caller_id = p.caller_id}
  IN IF ~Replaces(p) THEN {<< >>}
     ELSE {f \in SetToSeqs(own) : \A i, j, k \in DOMAIN f :
             i < j /\ j < k /\ f[i][1] = f[k][1] => f[j][1] = f[i][1]}

\* Mutant: the publishers of the old process go without an update.
ReplacementShutdownOnly(p, removals) ==
  IF ~Replaces(p) THEN << >> ELSE <<<<nodes[p.caller_id].worker, ShutdownTask>>>>

ReplacementTasks(p, removals) ==
  IF ~Replaces(p) THEN << >>
  ELSE <<<<nodes[p.caller_id].worker, ShutdownTask>>>> \o FlattenSeq(
         [i \in DOMAIN removals |->
            LET topic == removals[i][1]
                left == publications[topic] \
                          {removals[j][2] : j \in {j \in 1..i : removals[j][1] = topic}}
            IN UpdateSubscribers(topic, left, subscriptions, nodes)])

-----------------------------------------------------------------------------
\* Mutant: parameter subscriptions do not count.
HasAnyTopicOrService(n) == n.services \cup n.publications \cup n.subscriptions # {}

HasAnyRegistration(n) ==
  n.services \cup n.publications \cup n.subscriptions # {} \/ n.param_subscriptions # {}

\* Mutant: a Node is never deleted.
KeepNode(c, n) ==
  /\ nodes' = [nodes EXCEPT ![c] = n]
  /\ UNCHANGED serving

\* Mutant: the stream is closed and the Node stays.
CloseStreamOnly(c, n) ==
  /\ nodes' = [nodes EXCEPT ![c] = n]
  /\ IF c \in DOMAIN nodes /\ ~HasAnyRegistration(n)
     THEN serving' = [serving EXCEPT ![n.worker].closed = TRUE]
     ELSE UNCHANGED serving

(* The caller's Node, if there is one, becomes n; without a registration it *)
(* is deleted and its stream closed: what is queued is still served.        *)
CheckNode(c, n) ==
  \/ c \notin DOMAIN nodes /\ UNCHANGED <<nodes, serving>>
  \/ /\ c \in DOMAIN nodes /\ HasAnyRegistration(n)
     /\ nodes' = [nodes EXCEPT ![c] = n]
     /\ UNCHANGED serving
  \/ /\ c \in DOMAIN nodes /\ ~HasAnyRegistration(n)
     /\ nodes' = Drop(nodes, c)
     /\ serving' = [serving EXCEPT ![n.worker].closed = TRUE]

\* Mutant: the wildcard is taken for a type.
RegisterTopicOfAnyType(topic, type) ==
  topic_types' = IF topic \notin DOMAIN topic_types
                 THEN Put(topic_types, topic, type) ELSE topic_types

RegisterTopic(topic, type) ==
  topic_types' = IF type # AnyType /\ topic \notin DOMAIN topic_types
                 THEN Put(topic_types, topic, type) ELSE topic_types

\* Mutants: a topic is dropped although it has subscribers, or publishers.
CheckTopicPublished(topic) ==
  topic_types' = IF topic \notin DOMAIN publications'
                 THEN Drop(topic_types, topic) ELSE topic_types
CheckTopicSubscribed(topic) ==
  topic_types' = IF topic \notin DOMAIN subscriptions'
                 THEN Drop(topic_types, topic) ELSE topic_types

CheckTopic(topic) ==
  topic_types' = IF topic \notin DOMAIN publications' \cup DOMAIN subscriptions'
                 THEN Drop(topic_types, topic) ELSE topic_types

-----------------------------------------------------------------------------
(* The methods the API handlers call.  p is the calling process; the URI of *)
(* the service it offers, one per process, is identified with p.api.        *)

RegisterService(p, service) ==
  /\ up
  /\ \E w \in WorkerFor(p), removals \in Removals(p) :
       /\ nodes' = Put(nodes, p.caller_id,
                       [RegisterNode(p, w) EXCEPT !.services = @ \cup {service}])
       /\ serving' = StartServe(p, w)
       /\ Enqueue(ReplacementTasks(p, removals))
  /\ services' = Put(UnregisterServices(p), service, p)
  /\ publications' = UnregisterAll(publications, p)
  /\ subscriptions' = UnregisterAll(subscriptions, p)
  /\ UNCHANGED <<param_subscribers, topic_types, up>>
  /\ QueueBound'

UnregisterService(p, service) ==
  /\ up
  /\ services' = Drop(services, service)
  /\ CheckNode(p.caller_id, [nodes[p.caller_id] EXCEPT !.services = @ \ {service}])
  /\ UNCHANGED <<publications, subscriptions, param_subscribers, topic_types, queue, up>>

RegisterSubscriber(p, topic, type) ==
  /\ up
  /\ RegisterTopic(topic, type)
  /\ \E w \in WorkerFor(p), removals \in Removals(p) :
       /\ nodes' = Put(nodes, p.caller_id,
                       [RegisterNode(p, w) EXCEPT !.subscriptions = @ \cup {topic}])
       /\ serving' = StartServe(p, w)
       /\ Enqueue(ReplacementTasks(p, removals))
  /\ services' = UnregisterServices(p)
  /\ publications' = UnregisterAll(publications, p)
  /\ subscriptions' = AddTo(UnregisterAll(subscriptions, p), topic, p)
  /\ UNCHANGED <<param_subscribers, up>>
  /\ QueueBound'

UnregisterSubscriber(p, topic) ==
  /\ up
  /\ subscriptions' = DiscardFrom(subscriptions, topic, p)
  /\ CheckNode(p.caller_id, [nodes[p.caller_id] EXCEPT !.subscriptions = @ \ {topic}])
  /\ UNCHANGED publications
  /\ CheckTopic(topic)
  /\ UNCHANGED <<services, param_subscribers, queue, up>>

RegisterPublisher(p, topic, type) ==
  /\ up
  /\ RegisterTopic(topic, type)
  /\ services' = UnregisterServices(p)
  /\ publications' = AddTo(UnregisterAll(publications, p), topic, p)
  /\ subscriptions' = UnregisterAll(subscriptions, p)
  /\ \E w \in WorkerFor(p), removals \in Removals(p) :
       /\ nodes' = Put(nodes, p.caller_id,
                       [RegisterNode(p, w) EXCEPT !.publications = @ \cup {topic}])
       /\ serving' = StartServe(p, w)
       /\ Enqueue(ReplacementTasks(p, removals) \o
                  UpdateSubscribers(topic, publications'[topic], subscriptions', nodes'))
  /\ UNCHANGED <<param_subscribers, up>>
  /\ QueueBound'

UnregisterPublisher(p, topic) ==
  /\ up
  /\ publications' = DiscardFrom(publications, topic, p)
  /\ CheckNode(p.caller_id, [nodes[p.caller_id] EXCEPT !.publications = @ \ {topic}])
  /\ UNCHANGED subscriptions
  /\ CheckTopic(topic)
  /\ Enqueue(UpdateSubscribers(topic, GetOr(publications', topic, {}),
                               subscriptions, nodes'))
  /\ UNCHANGED <<services, param_subscribers, up>>
  /\ QueueBound'

RegisterParamSubscriber(p, key) ==
  /\ up
  /\ \E w \in WorkerFor(p), removals \in Removals(p) :
       /\ nodes' = Put(nodes, p.caller_id,
                       [RegisterNode(p, w) EXCEPT !.param_subscriptions = @ \cup {key}])
       /\ serving' = StartServe(p, w)
       /\ Enqueue(ReplacementTasks(p, removals))
  /\ services' = UnregisterServices(p)
  /\ publications' = UnregisterAll(publications, p)
  /\ subscriptions' = UnregisterAll(subscriptions, p)
  /\ param_subscribers' = AddTo(param_subscribers, key, p)
  /\ UNCHANGED <<topic_types, up>>
  /\ QueueBound'

UnregisterParamSubscriber(p, key) ==
  /\ up
  /\ param_subscribers' = DiscardFrom(param_subscribers, key, p)
  /\ CheckNode(p.caller_id,
               [nodes[p.caller_id] EXCEPT !.param_subscriptions = @ \ {key}])
  /\ UNCHANGED <<services, publications, subscriptions, topic_types, queue, up>>

-----------------------------------------------------------------------------
(* on_param_update: first the subscribers of the key, of its ancestors, and *)
(* of descendants the new dictionary lacks, then, the caller not excepted,  *)
(* the subscribers of descendants it has.  The lookup of a subscriber's     *)
(* Node raises KeyError if there is none, and the rest is not notified.  A  *)
(* notice carries the subscribed key, once for each.                        *)

SubKey(key, k) == SubSeq(k, Len(key) + 1, Len(k))

ParamNotices(key, value, caller) ==
  LET below(k) == value[<< >>] = DictValue /\ IsStrictPrefix(key, k)
      notice(k) == IF IsPrefix(k, key) THEN ParamUpdate(key, value)
                                       ELSE ParamUpdate(k, EmptyTree)
  IN UNION {{<<r, notice(k), k>> : r \in {r \in param_subscribers[k] : r.caller_id # caller}} :
              k \in {k \in DOMAIN param_subscribers :
                       \/ IsPrefix(k, key)
                       \/ below(k) /\ SubKey(key, k) \notin DOMAIN value}}

NestedParamNotices(key, value) ==
  UNION {{<<r, ParamUpdate(k, SubTree(value, SubKey(key, k))), k>> : r \in param_subscribers[k]} :
           k \in {k \in DOMAIN param_subscribers :
                    /\ value[<< >>] = DictValue /\ IsStrictPrefix(key, k)
                    /\ SubKey(key, k) \in DOMAIN value}}

OnParamUpdate(p, key, value) ==
  /\ up
  /\ \E first \in SetToSeqs(ParamNotices(key, value, p.caller_id)),
        second \in SetToSeqs(NestedParamNotices(key, value)) :
       LET all == first \o second
           failing == {i \in DOMAIN all : all[i][1].caller_id \notin DOMAIN nodes}
           sent == {i \in DOMAIN all : \A j \in failing : i < j}
       IN Enqueue([i \in sent |-> <<nodes[all[i][1].caller_id].worker, all[i][2]>>])
  /\ UNCHANGED <<tables, nodes, serving, up>>
  /\ QueueBound'

-----------------------------------------------------------------------------
\* Mutant: a task given up is queued again.
ServeTaskAgain(w) ==
  /\ up /\ w \in DOMAIN serving /\ queue[w] # << >>
  /\ queue' = [queue EXCEPT ![w] = Tail(@) \o <<Head(@)>>]
  /\ UNCHANGED <<tables, nodes, serving, up>>

(* The serve task of a Node.  The task at the head is in flight until the   *)
(* call returns or the connection times out, when it is given up.           *)
ServeTask(w) ==
  /\ up /\ w \in DOMAIN serving /\ queue[w] # << >>
  /\ queue' = [queue EXCEPT ![w] = Tail(@)]
  /\ UNCHANGED <<tables, nodes, serving, up>>

(* A closed stream ends the loop once it is drained.                        *)
ServeEnds(w) ==
  /\ up /\ w \in DOMAIN serving /\ serving[w].closed /\ queue[w] = << >>
  /\ serving' = Drop(serving, w)
  /\ UNCHANGED <<tables, nodes, queue, up>>

(* Any other failure of the call leaves serve and cancels the task group.   *)
ServeFails(w) ==
  /\ up /\ w \in DOMAIN serving /\ queue[w] # << >>
  /\ up' = FALSE
  /\ UNCHANGED <<tables, nodes, serving, queue>>

(* The shutdown call of the master API cancels the same task group.         *)
Shutdown ==
  /\ up /\ up' = FALSE
  /\ UNCHANGED <<tables, nodes, serving, queue>>

Next ==
  \/ \E p \in Clients :
       \/ \E s \in Services : RegisterService(p, s) \/ UnregisterService(p, s)
       \/ \E t \in Topics, type \in Types \cup {AnyType} : RegisterSubscriber(p, t, type)
       \/ \E t \in Topics : UnregisterSubscriber(p, t) \/ UnregisterPublisher(p, t)
       \/ \E t \in Topics, type \in Types : RegisterPublisher(p, t, type)
       \/ \E k \in Keys : RegisterParamSubscriber(p, k) \/ UnregisterParamSubscriber(p, k)
       \/ \E k \in Keys, v \in ParamValues : OnParamUpdate(p, k, v)
  \/ \E w \in Workers : ServeTask(w) \/ ServeEnds(w) \/ ServeFails(w)
  \/ Shutdown

Spec == Init /\ [][Next]_vars

(* Every serve task keeps running: its receive loop and its calls return.   *)
FairSpec == Spec /\ \A w \in Workers : WF_vars(ServeTask(w) \/ ServeEnds(w))

-----------------------------------------------------------------------------
(* Properties                                                               *)

\* A node is kept as long as it has a registration and no longer: the four
\* unregister methods and the replacement of a restarted node leave no entry
\* in nodes (what lookupNode answers from) that has nothing registered.
NodeHasRegistration == \A c \in DOMAIN nodes : HasAnyRegistration(nodes[c])

\* The topics and the parameter keys a Node lists as its own are really in the
\* tables, under the URI the node now has, whatever late calls of an older
\* process of that name did to the lists.  Not so its services: see
\* ServiceTakenByCall.
IndexSound ==
  \A c \in DOMAIN nodes :
    LET n == nodes[c]
        self == [caller_id |-> c, api |-> n.api]
    IN /\ \A t \in n.publications : t \in DOMAIN publications /\ self \in publications[t]
       /\ \A t \in n.subscriptions : t \in DOMAIN subscriptions /\ self \in subscriptions[t]
       /\ \A k \in n.param_subscriptions :
            k \in DOMAIN param_subscribers /\ self \in param_subscribers[k]

\* A service that lookupService finds belongs to a node the master knows, is
\* offered by the newest process of that name, and is on the node's own list.
ServiceOwnerCurrent ==
  \A s \in DOMAIN services :
    LET p == services[s]
    IN Known(p) /\ s \in nodes[p.caller_id].services

\* The caller is known before and after a step, with the same Node.
NodeStays(c) ==
  c \in DOMAIN nodes \cap DOMAIN nodes' /\ nodes[c].worker = nodes'[c].worker

\* Services the Node lists that are not the node's in the table.
StaleServices(c) ==
  {s \in nodes[c].services :
     ~(s \in DOMAIN services /\ services[s] = [caller_id |-> c, api |-> nodes[c].api])}

\* register_service takes a service over, and unregister_service removes it,
\* whoever owns it, and the owner's Node keeps it on its list.  That is the only
\* way a list of services comes to differ from the table: another node's call on
\* this very service, never a restart, the own calls or the late ones of an old
\* process; and a new Node starts without such a service.
ServiceTakenByCall ==
  [][\A c \in DOMAIN nodes' :
       \A s \in StaleServices(c)' \ (IF NodeStays(c) THEN StaleServices(c) ELSE {}) :
         \E q \in Clients : /\ q.caller_id # c
                            /\ RegisterService(q, s) \/ UnregisterService(q, s)]_vars

\* Topic types are kept for the topics in the tables and for no other, and a
\* published topic always has one: getPublishedTopics looks it up unguarded.
TopicTypesMatchTopics ==
  /\ DOMAIN topic_types \subseteq DOMAIN publications \cup DOMAIN subscriptions
  /\ DOMAIN publications \subseteq DOMAIN topic_types

\* Every node has a serve task of its own that calls the node's present URI
\* and whose stream is open: a notification is never sent on a closed stream
\* (send_nowait would raise) nor queued for the process that was replaced.
NodeServed ==
  \A c \in DOMAIN nodes :
    /\ nodes[c].worker \in DOMAIN serving
    /\ serving[nodes[c].worker] = [api |-> nodes[c].api, closed |-> FALSE]
    /\ \A d \in DOMAIN nodes : nodes[d].worker = nodes[c].worker => d = c

\* The first concrete type registered for a topic stays its type until the
\* last registration of the topic is gone, restarts and late calls included.
FirstTypeWins ==
  [][\A t \in DOMAIN topic_types :
       \/ t \in DOMAIN topic_types' /\ topic_types'[t] = topic_types[t]
       \/ t \notin DOMAIN publications' \cup DOMAIN subscriptions']_vars

PublisherApis(t) == ApisOf(GetOr(publications, t, {}))
LastUpdate(w, t) ==
  LET i == SelectLastInSeq(queue[w], LAMBDA task :
             task.method = "publisher_update" /\ task.topic = t)
  IN IF i = 0 THEN {"none"} ELSE queue[w][i].publishers
PublishersChange(t) == PublisherApis(t)' # PublisherApis(t)
StayingSubscribers(t) == GetOr(subscriptions, t, {}) \cap GetOr(subscriptions', t, {})

\* Whatever step changes the publishers of a topic, the last thing queued for
\* each subscriber that stays registered, and whose Node stays, is the new list
\* of publishers (a new subscriber gets the list as its answer).
PublisherChangeNotified ==
  [][\A t \in Topics : PublishersChange(t) =>
       \A r \in StayingSubscribers(t) : NodeStays(r.caller_id) =>
         LastUpdate(nodes[r.caller_id].worker, t)' = PublisherApis(t)']_vars

PublishersReachable ==
  \A t \in DOMAIN publications : publications[t] # {} /\
    \A r \in publications[t] : Known(r) /\ t \in nodes[r.caller_id].publications
SubscribersReachable ==
  \A t \in DOMAIN subscriptions : subscriptions[t] # {} /\
    \A r \in subscriptions[t] : Known(r) /\ t \in nodes[r.caller_id].subscriptions
ParamSubscribersReachable ==
  \A k \in DOMAIN param_subscribers : param_subscribers[k] # {} /\
    \A r \in param_subscribers[k] : Known(r) /\ k \in nodes[r.caller_id].param_subscriptions

\* As long as no two processes share a name, every registration in the tables
\* belongs to a known node that lists it, and no key is left without one: a
\* published topic has a publisher and on_param_update finds every subscriber.
RegistrationsReachable ==
  PublishersReachable /\ SubscribersReachable /\ ParamSubscribersReachable

\* The serve task of a deleted node works off what was queued and ends, unless
\* the master goes down first.
ClosedServeEnds ==
  \A w \in Workers : w \in DOMAIN serving /\ serving[w].closed ~>
                        w \notin DOMAIN serving \/ ~serving[w].closed \/ ~up

(* Claims of the repository that the code does not keep.                    *)

\* _node/_api.py says of register_subscriber that the subscriber will receive
\* notifications of new publishers: each registered one gets every new list.
SubscribersNotified ==
  [][\A t \in Topics : PublishersChange(t) =>
       \A r \in StayingSubscribers(t) : r.caller_id \in DOMAIN nodes']_vars

\* xmlrpc/_client.py asserts of every answer that its status is 200: setParam
\* must not fail on the lookup of a subscriber's node.
ParamSubscribersKnown ==
  \A k \in DOMAIN param_subscribers :
    \A r \in param_subscribers[k] : r.caller_id \in DOMAIN nodes
=============================================================================
