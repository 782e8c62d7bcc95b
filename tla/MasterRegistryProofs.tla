------------------------ MODULE MasterRegistryProofs ------------------------
(***************************************************************************)
(* The invariants of MasterRegistry, for any callers, URIs, processes,      *)
(* topics, services and keys.                                               *)
(***************************************************************************)
EXTENDS MasterRegistry, OperatorProofs

\* The inductive invariant.
IInv ==
  /\ TablesTypeOK
  /\ NodeHasRegistration
  /\ IndexSound
  /\ ServiceOwnerCurrent
  /\ TopicTypesMatchTopics
  /\ NodeServed

-----------------------------------------------------------------------------
(* _register_node and _unregister_all: what the four register methods find. *)

\* The service table after _unregister_all of the caller's old Node: the
\* entries of other callers, and the caller's own if its Node is kept.
LEMMA TakeOverServices ==
  ASSUME TablesTypeOK, ServiceOwnerCurrent, NEW p \in Clients
  PROVE  /\ IsDict(UnregisterServices(p), Services, Clients)
         /\ DOMAIN UnregisterServices(p) \subseteq DOMAIN services
         /\ \A s \in DOMAIN UnregisterServices(p) :
              /\ UnregisterServices(p)[s] = services[s]
              /\ services[s].caller_id = p.caller_id => Known(p)
<1>1. CASE Replaces(p)
  BY <1>1 DEF UnregisterServices, Restrict, TablesTypeOK, IsDict
<1>2. CASE ~Replaces(p)
  BY <1>2 DEF UnregisterServices, TablesTypeOK, IsDict, ServiceOwnerCurrent, Known, Replaces
<1>3. QED
  BY <1>1, <1>2

\* A table of registrations after _unregister_all keeps its keys and the
\* registrations of other callers, and all of them if the Node is kept.
LEMMA TakeOverTable ==
  ASSUME NEW K, NEW table, IsDict(table, K, SUBSET Clients), NEW p \in Clients
  PROVE  /\ IsDict(UnregisterAll(table, p), K, SUBSET Clients)
         /\ DOMAIN UnregisterAll(table, p) = DOMAIN table
         /\ \A t \in DOMAIN table : \A r \in table[t] :
              Known(p) \/ r.caller_id # p.caller_id => r \in UnregisterAll(table, p)[t]
<1>1. CASE Replaces(p)
  BY <1>1 DEF UnregisterAll, IsDict, Known, Replaces
<1>2. CASE ~Replaces(p)
  BY <1>2 DEF UnregisterAll, IsDict
<1>3. QED
  BY <1>1, <1>2

\* The Node that _register_node returns has the caller's URI and an open serve
\* task that no other Node has; the other serve tasks are as they were.
LEMMA TakeOverNode ==
  ASSUME TablesTypeOK, NodeServed, NEW p \in Clients, NEW w \in WorkerFor(p)
  PROVE  /\ RegisterNode(p, w) \in Node
         /\ RegisterNode(p, w).api = p.api
         /\ IsDict(StartServe(p, w), Workers, [api : Apis, closed : BOOLEAN])
         /\ RegisterNode(p, w).worker \in DOMAIN StartServe(p, w)
         /\ StartServe(p, w)[RegisterNode(p, w).worker] = [api |-> p.api, closed |-> FALSE]
         /\ \A c \in DOMAIN nodes : c # p.caller_id =>
              /\ nodes[c].worker # RegisterNode(p, w).worker
              /\ nodes[c].worker \in DOMAIN StartServe(p, w)
              /\ StartServe(p, w)[nodes[c].worker] = serving[nodes[c].worker]
<1>1. p.api \in Apis /\ p.caller_id \in Callers
  BY ClientsAssumption
<1>2. CASE Known(p)
  BY <1>1, <1>2 DEF Known, RegisterNode, StartServe, TablesTypeOK, IsDict, NodeServed
<1>3. CASE ~Known(p)
  <2>1. w \in Workers /\ w \notin DOMAIN serving
    BY <1>3 DEF WorkerFor
  <2>2. RegisterNode(p, w) \in Node /\ RegisterNode(p, w).api = p.api
        /\ RegisterNode(p, w).worker = w
    BY <1>1, <1>3, <2>1 DEF RegisterNode, Node
  <2>3. StartServe(p, w) = Put(serving, w, [api |-> p.api, closed |-> FALSE])
    BY <1>3 DEF StartServe
  <2>4. [api |-> p.api, closed |-> FALSE] \in [api : Apis, closed : BOOLEAN]
    BY <1>1
  <2>5. IsDict(serving, Workers, [api : Apis, closed : BOOLEAN])
    BY DEF TablesTypeOK
  <2>6. \A c \in DOMAIN nodes : nodes[c].worker \in DOMAIN serving
    BY DEF NodeServed
  <2>7. QED
    BY <2>1, <2>2, <2>3, <2>4, <2>5, <2>6 DEF IsDict, Put
<1>4. QED
  BY <1>2, <1>3

-----------------------------------------------------------------------------
(* nodes and serve tasks across a register and across an unregister method. *)

\* The caller's Node becomes n, that of _register_node with one registration
\* more: every Node keeps a registration and a serve task of its own.
LEMMA RegisterNodes ==
  ASSUME TablesTypeOK, NodeHasRegistration, NodeServed,
         NEW p \in Clients, NEW w \in WorkerFor(p), NEW n \in Node,
         n.api = p.api, n.worker = RegisterNode(p, w).worker, HasAnyRegistration(n),
         nodes' = Put(nodes, p.caller_id, n), serving' = StartServe(p, w)
  PROVE  /\ IsDict(nodes', Callers, Node)
         /\ IsDict(serving', Workers, [api : Apis, closed : BOOLEAN])
         /\ DOMAIN nodes' = DOMAIN nodes \cup {p.caller_id}
         /\ nodes'[p.caller_id] = n
         /\ \A c \in DOMAIN nodes : c # p.caller_id => nodes'[c] = nodes[c]
         /\ NodeHasRegistration'
         /\ NodeServed'
<1>1. p.caller_id \in Callers
  BY ClientsAssumption
<1>2. IsDict(nodes, Callers, Node)
  BY DEF TablesTypeOK
<1>3. /\ IsDict(nodes', Callers, Node)
      /\ DOMAIN nodes' = DOMAIN nodes \cup {p.caller_id}
      /\ nodes'[p.caller_id] = n
      /\ \A c \in DOMAIN nodes : c # p.caller_id => nodes'[c] = nodes[c]
  BY <1>1, <1>2 DEF IsDict, Put
<1>4. IsDict(serving', Workers, [api : Apis, closed : BOOLEAN])
  BY TakeOverNode
<1>5. NodeHasRegistration'
  BY <1>3 DEF NodeHasRegistration
<1>6. /\ n.worker \in DOMAIN serving'
      /\ serving'[n.worker] = [api |-> p.api, closed |-> FALSE]
      /\ \A c \in DOMAIN nodes : c # p.caller_id =>
           /\ nodes[c].worker # n.worker
           /\ nodes[c].worker \in DOMAIN serving'
           /\ serving'[nodes[c].worker] = serving[nodes[c].worker]
  BY TakeOverNode
<1>7. NodeServed'
  <2>1. ASSUME NEW c \in DOMAIN nodes'
        PROVE  /\ nodes'[c].worker \in DOMAIN serving'
               /\ serving'[nodes'[c].worker] = [api |-> nodes'[c].api, closed |-> FALSE]
    <3>1. CASE c = p.caller_id
      BY <1>3, <1>6, <3>1
    <3>2. CASE c # p.caller_id
      BY <1>3, <1>6, <3>2 DEF NodeServed
    <3>3. QED
      BY <3>1, <3>2
  <2>2. ASSUME NEW c \in DOMAIN nodes', NEW d \in DOMAIN nodes',
               nodes'[d].worker = nodes'[c].worker
        PROVE  d = c
    <3>1. CASE c # p.caller_id /\ d # p.caller_id
      <4>1. c \in DOMAIN nodes /\ d \in DOMAIN nodes
        BY <1>3, <3>1
      <4>2. nodes[d].worker = nodes[c].worker
        BY <1>3, <2>2, <3>1, <4>1
      <4>3. QED
        BY <4>1, <4>2 DEF NodeServed
    <3>2. CASE c = p.caller_id /\ d # p.caller_id
      BY <1>3, <1>6, <2>2, <3>2
    <3>3. CASE c # p.caller_id /\ d = p.caller_id
      BY <1>3, <1>6, <2>2, <3>3
    <3>4. QED
      BY <3>1, <3>2, <3>3
  <2>3. QED
    BY <2>1, <2>2 DEF NodeServed
<1>8. QED
  BY <1>3, <1>4, <1>5, <1>7

\* _check_node: the caller's Node, if any, becomes n or is deleted because n has
\* no registration, when its stream is closed; the other Nodes are untouched.
LEMMA CheckNodeStep ==
  ASSUME TablesTypeOK, NodeHasRegistration, NodeServed, NEW c, NEW n,
         c \in DOMAIN nodes =>
           n \in Node /\ n.api = nodes[c].api /\ n.worker = nodes[c].worker,
         CheckNode(c, n)
  PROVE  /\ IsDict(nodes', Callers, Node)
         /\ IsDict(serving', Workers, [api : Apis, closed : BOOLEAN])
         /\ DOMAIN nodes' \subseteq DOMAIN nodes
         /\ DOMAIN nodes \subseteq DOMAIN nodes' \cup {c}
         /\ \A d \in DOMAIN nodes' : nodes'[d] = IF d = c THEN n ELSE nodes[d]
         /\ c \in DOMAIN nodes \ DOMAIN nodes' => ~HasAnyRegistration(n)
         /\ NodeHasRegistration'
         /\ NodeServed'
<1>1. IsDict(nodes, Callers, Node) /\ IsDict(serving, Workers, [api : Apis, closed : BOOLEAN])
  BY DEF TablesTypeOK
<1>2. CASE c \notin DOMAIN nodes /\ UNCHANGED <<nodes, serving>>
  BY <1>1, <1>2 DEF NodeHasRegistration, NodeServed, IsDict
<1>3. CASE /\ c \in DOMAIN nodes /\ HasAnyRegistration(n)
           /\ nodes' = [nodes EXCEPT ![c] = n]
           /\ UNCHANGED serving
  <2>1. /\ IsDict(nodes', Callers, Node)
        /\ DOMAIN nodes' = DOMAIN nodes
        /\ \A d \in DOMAIN nodes' : nodes'[d] = IF d = c THEN n ELSE nodes[d]
    BY <1>1, <1>3 DEF IsDict
  <2>2. NodeHasRegistration'
    BY <1>3, <2>1 DEF NodeHasRegistration
  <2>3. NodeServed'
    BY <1>3, <2>1 DEF NodeServed
  <2>4. QED
    BY <1>1, <1>3, <2>1, <2>2, <2>3
<1>4. CASE /\ c \in DOMAIN nodes /\ ~HasAnyRegistration(n)
           /\ nodes' = Drop(nodes, c)
           /\ serving' = [serving EXCEPT ![n.worker].closed = TRUE]
  <2>1. /\ IsDict(nodes', Callers, Node)
        /\ DOMAIN nodes' = DOMAIN nodes \ {c}
        /\ \A d \in DOMAIN nodes' : nodes'[d] = nodes[d]
    BY <1>1, <1>4 DEF IsDict, Drop
  <2>2. /\ IsDict(serving', Workers, [api : Apis, closed : BOOLEAN])
        /\ DOMAIN serving' = DOMAIN serving
        /\ \A w \in DOMAIN serving : w # n.worker => serving'[w] = serving[w]
    BY <1>1, <1>4 DEF IsDict
  <2>3. \A d \in DOMAIN nodes' : d \in DOMAIN nodes /\ nodes[d].worker # n.worker
    BY <1>4, <2>1 DEF NodeServed
  <2>4. NodeHasRegistration'
    BY <2>1 DEF NodeHasRegistration
  <2>5. NodeServed'
    BY <2>1, <2>2, <2>3 DEF NodeServed
  <2>6. QED
    BY <1>4, <2>1, <2>2, <2>4, <2>5
<1>5. QED
  BY <1>2, <1>3, <1>4 DEF CheckNode

-----------------------------------------------------------------------------
(* The index of every Node, across a register and an unregister method.     *)

\* The registrations of callers other than c under the keys of table remain.
OthersKept(table, newTable, c) ==
  \A t \in DOMAIN table : \A r \in table[t] :
    r.caller_id # c => t \in DOMAIN newTable /\ r \in newTable[t]

Lists(names, table, r) == \A t \in names : t \in DOMAIN table /\ r \in table[t]

\* If what the new Node lists is registered and other callers lose nothing,
\* what every Node lists is registered.
LEMMA IndexStep ==
  ASSUME TablesTypeOK, IndexSound, NEW p \in Clients,
         p.caller_id \in DOMAIN nodes' =>
           LET n == nodes'[p.caller_id]
               self == [caller_id |-> p.caller_id, api |-> n.api]
           IN /\ Lists(n.publications, publications', self)
              /\ Lists(n.subscriptions, subscriptions', self)
              /\ Lists(n.param_subscriptions, param_subscribers', self),
         \A c \in DOMAIN nodes' :
           c # p.caller_id => c \in DOMAIN nodes /\ nodes'[c] = nodes[c],
         OthersKept(publications, publications', p.caller_id),
         OthersKept(subscriptions, subscriptions', p.caller_id),
         OthersKept(param_subscribers, param_subscribers', p.caller_id)
  PROVE  IndexSound'
<1> SUFFICES ASSUME NEW c \in DOMAIN nodes'
             PROVE  LET n == nodes'[c]
                        self == [caller_id |-> c, api |-> n.api]
                    IN /\ Lists(n.publications, publications', self)
                       /\ Lists(n.subscriptions, subscriptions', self)
                       /\ Lists(n.param_subscriptions, param_subscribers', self)
  BY DEF IndexSound, Lists
<1>1. CASE c = p.caller_id
  BY <1>1
<1>2. CASE c # p.caller_id
  <2>1. c \in DOMAIN nodes /\ nodes'[c] = nodes[c]
    BY <1>2
  <2> DEFINE self == [caller_id |-> c, api |-> nodes[c].api]
  <2>2. /\ Lists(nodes[c].publications, publications, self)
        /\ Lists(nodes[c].subscriptions, subscriptions, self)
        /\ Lists(nodes[c].param_subscriptions, param_subscribers, self)
    BY <2>1 DEF IndexSound, Lists
  <2>3. self.caller_id # p.caller_id
    BY <1>2
  <2> HIDE DEF self
  <2>4. /\ Lists(nodes[c].publications, publications', self)
        /\ Lists(nodes[c].subscriptions, subscriptions', self)
        /\ Lists(nodes[c].param_subscriptions, param_subscribers', self)
    BY <2>2, <2>3 DEF Lists, OthersKept
  <2>5. QED
    BY <2>1, <2>4 DEF self
<1>3. QED
  BY <1>1, <1>2

-----------------------------------------------------------------------------
(* What the register methods have in common.                                *)

\* What the Node of _register_node lists is still registered after
\* _unregister_all, which takes nothing from the other callers.
LEMMA TakeOverIndex ==
  ASSUME TablesTypeOK, IndexSound, NEW p \in Clients, NEW w \in WorkerFor(p)
  PROVE  LET n == RegisterNode(p, w)
         IN /\ Lists(n.publications, UnregisterAll(publications, p), p)
            /\ Lists(n.subscriptions, UnregisterAll(subscriptions, p), p)
            /\ Lists(n.param_subscriptions, param_subscribers, p)
            /\ OthersKept(publications, UnregisterAll(publications, p), p.caller_id)
            /\ OthersKept(subscriptions, UnregisterAll(subscriptions, p), p.caller_id)
<1>1. /\ OthersKept(publications, UnregisterAll(publications, p), p.caller_id)
      /\ OthersKept(subscriptions, UnregisterAll(subscriptions, p), p.caller_id)
  BY TakeOverTable DEF OthersKept, TablesTypeOK
<1>2. CASE Known(p)
  <2>1. RegisterNode(p, w) = nodes[p.caller_id] /\ p.caller_id \in DOMAIN nodes
    BY <1>2 DEF RegisterNode, Known
  <2>2. p = [caller_id |-> p.caller_id, api |-> nodes[p.caller_id].api]
    BY <1>2, ClientsAssumption DEF Known
  <2>3. /\ Lists(nodes[p.caller_id].publications, publications, p)
        /\ Lists(nodes[p.caller_id].subscriptions, subscriptions, p)
        /\ Lists(nodes[p.caller_id].param_subscriptions, param_subscribers, p)
    BY <2>1, <2>2 DEF IndexSound, Lists
  <2>4. UnregisterAll(publications, p) = publications
        /\ UnregisterAll(subscriptions, p) = subscriptions
    BY <1>2 DEF UnregisterAll, Known, Replaces
  <2>5. QED
    BY <1>1, <2>1, <2>3, <2>4
<1>3. CASE ~Known(p)
  BY <1>1, <1>3 DEF RegisterNode, Lists
<1>4. QED
  BY <1>2, <1>3

\* A register method that sets the caller's Node to n keeps the invariant of
\* the Nodes, given what it does to the tables: of the registrations it finds
\* after _unregister_all none is lost, and what n lists is registered.
LEMMA RegisterStep ==
  ASSUME IInv, NEW p \in Clients, NEW w \in WorkerFor(p), NEW n \in Node,
         n.api = p.api, n.worker = RegisterNode(p, w).worker, HasAnyRegistration(n),
         RegisterNode(p, w).services \subseteq n.services,
         nodes' = Put(nodes, p.caller_id, n), serving' = StartServe(p, w),
         \A s \in DOMAIN services' :
           \/ s \in DOMAIN UnregisterServices(p) /\ services'[s] = UnregisterServices(p)[s]
           \/ services'[s] = p /\ s \in n.services,
         Lists(n.publications, publications', p),
         Lists(n.subscriptions, subscriptions', p),
         Lists(n.param_subscriptions, param_subscribers', p),
         OthersKept(publications, publications', p.caller_id),
         OthersKept(subscriptions, subscriptions', p.caller_id),
         OthersKept(param_subscribers, param_subscribers', p.caller_id)
  PROVE  /\ IsDict(nodes', Callers, Node)
         /\ IsDict(serving', Workers, [api : Apis, closed : BOOLEAN])
         /\ NodeHasRegistration' /\ NodeServed' /\ IndexSound' /\ ServiceOwnerCurrent'
<1>1. /\ IsDict(nodes', Callers, Node)
      /\ IsDict(serving', Workers, [api : Apis, closed : BOOLEAN])
      /\ DOMAIN nodes' = DOMAIN nodes \cup {p.caller_id}
      /\ nodes'[p.caller_id] = n
      /\ \A c \in DOMAIN nodes : c # p.caller_id => nodes'[c] = nodes[c]
      /\ NodeHasRegistration'
      /\ NodeServed'
  BY RegisterNodes DEF IInv
<1>2. p = [caller_id |-> p.caller_id, api |-> n.api]
  BY ClientsAssumption
<1>3. IndexSound'
  BY <1>1, <1>2, IndexStep DEF IInv
<1>4. ASSUME NEW s \in DOMAIN services'
      PROVE  /\ services'[s].caller_id \in DOMAIN nodes'
             /\ nodes'[services'[s].caller_id].api = services'[s].api
             /\ s \in nodes'[services'[s].caller_id].services
  <2>1. CASE services'[s] = p /\ s \in n.services
    BY <1>1, <2>1
  <2>2. CASE s \in DOMAIN UnregisterServices(p) /\ services'[s] = UnregisterServices(p)[s]
    <3>1. /\ s \in DOMAIN services /\ services'[s] = services[s]
          /\ services[s].caller_id = p.caller_id => Known(p)
      BY <2>2, TakeOverServices DEF IInv
    <3>2. /\ services[s].caller_id \in DOMAIN nodes
          /\ nodes[services[s].caller_id].api = services[s].api
          /\ s \in nodes[services[s].caller_id].services
      BY <3>1 DEF IInv, ServiceOwnerCurrent, Known
    <3>3. CASE services[s].caller_id # p.caller_id
      BY <1>1, <3>1, <3>2, <3>3
    <3>4. CASE services[s].caller_id = p.caller_id
      <4>1. RegisterNode(p, w) = nodes[p.caller_id] /\ nodes[p.caller_id].api = p.api
        BY <3>1, <3>4 DEF RegisterNode, Known
      <4>2. QED
        BY <1>1, <3>1, <3>2, <3>4, <4>1
    <3>5. QED
      BY <3>3, <3>4
  <2>3. QED
    BY <2>1, <2>2
<1>5. ServiceOwnerCurrent'
  BY <1>4 DEF ServiceOwnerCurrent, Known
<1>6. QED
  BY <1>1, <1>3, <1>5

-----------------------------------------------------------------------------
(* What the unregister methods have in common.                              *)

\* An unregister method that reduces the caller's Node to n keeps the invariant
\* of the Nodes, given what it does to the tables: what n lists stays
\* registered, and a service of the caller that stays is one that n lists.
LEMMA UnregisterStep ==
  ASSUME IInv, NEW p \in Clients, NEW n,
         p.caller_id \in DOMAIN nodes =>
           /\ n \in Node
           /\ n.api = nodes[p.caller_id].api /\ n.worker = nodes[p.caller_id].worker
           /\ LET self == [caller_id |-> p.caller_id, api |-> n.api]
              IN /\ Lists(n.publications, publications', self)
                 /\ Lists(n.subscriptions, subscriptions', self)
                 /\ Lists(n.param_subscriptions, param_subscribers', self)
           /\ \A s \in DOMAIN services' : s \in nodes[p.caller_id].services => s \in n.services,
         CheckNode(p.caller_id, n),
         \A s \in DOMAIN services' : s \in DOMAIN services /\ services'[s] = services[s],
         OthersKept(publications, publications', p.caller_id),
         OthersKept(subscriptions, subscriptions', p.caller_id),
         OthersKept(param_subscribers, param_subscribers', p.caller_id)
  PROVE  /\ IsDict(nodes', Callers, Node)
         /\ IsDict(serving', Workers, [api : Apis, closed : BOOLEAN])
         /\ NodeHasRegistration' /\ NodeServed' /\ IndexSound' /\ ServiceOwnerCurrent'
<1> DEFINE c == p.caller_id
<1>1. /\ IsDict(nodes', Callers, Node)
      /\ IsDict(serving', Workers, [api : Apis, closed : BOOLEAN])
      /\ DOMAIN nodes' \subseteq DOMAIN nodes
      /\ DOMAIN nodes \subseteq DOMAIN nodes' \cup {c}
      /\ \A d \in DOMAIN nodes' : nodes'[d] = IF d = c THEN n ELSE nodes[d]
      /\ c \in DOMAIN nodes \ DOMAIN nodes' => ~HasAnyRegistration(n)
      /\ NodeHasRegistration'
      /\ NodeServed'
  BY CheckNodeStep DEF IInv
<1>2. IndexSound'
  <2>1. \A d \in DOMAIN nodes' : d # c => d \in DOMAIN nodes /\ nodes'[d] = nodes[d]
    BY <1>1
  <2>2. c \in DOMAIN nodes' => c \in DOMAIN nodes /\ nodes'[c] = n
    BY <1>1
  <2>3. QED
    BY <2>1, <2>2, IndexStep DEF IInv
<1>3. ASSUME NEW s \in DOMAIN services'
      PROVE  /\ services'[s].caller_id \in DOMAIN nodes'
             /\ nodes'[services'[s].caller_id].api = services'[s].api
             /\ s \in nodes'[services'[s].caller_id].services
  <2>1. /\ s \in DOMAIN services /\ services'[s] = services[s]
        /\ services[s].caller_id \in DOMAIN nodes
        /\ nodes[services[s].caller_id].api = services[s].api
        /\ s \in nodes[services[s].caller_id].services
    BY DEF IInv, ServiceOwnerCurrent, Known
  <2>2. CASE services[s].caller_id # c
    BY <1>1, <2>1, <2>2
  <2>3. CASE services[s].caller_id = c
    <3>1. s \in n.services /\ n.api = services[s].api
      BY <2>1, <2>3
    <3>2. HasAnyRegistration(n)
      BY <3>1 DEF HasAnyRegistration
    <3>3. QED
      BY <1>1, <2>1, <2>3, <3>1, <3>2
  <2>4. QED
    BY <2>2, <2>3
<1>4. ServiceOwnerCurrent'
  BY <1>3 DEF ServiceOwnerCurrent, Known
<1>5. QED
  BY <1>1, <1>2, <1>4

\* What a caller's Node lists is registered under the URI of the Node.
LEMMA OwnIndex ==
  ASSUME IndexSound, NEW c \in DOMAIN nodes
  PROVE  LET self == [caller_id |-> c, api |-> nodes[c].api]
         IN /\ Lists(nodes[c].publications, publications, self)
            /\ Lists(nodes[c].subscriptions, subscriptions, self)
            /\ Lists(nodes[c].param_subscriptions, param_subscribers, self)
BY DEF IndexSound, Lists

\* Discarding a registration of p under k takes nothing from other callers,
\* nor from any caller under another key.
LEMMA DiscardKeeps ==
  ASSUME NEW K, NEW table, IsDict(table, K, SUBSET Clients), NEW p \in Clients, NEW k \in K,
         NEW names, NEW self, Lists(names, table, self)
  PROVE  /\ OthersKept(table, DiscardFrom(table, k, p), p.caller_id)
         /\ Lists(names \ {k}, DiscardFrom(table, k, p), self)
BY DiscardFromType DEF OthersKept, Lists

\* _check_topic: a topic whose last key is gone loses its type, no other does.
LEMMA CheckTopicStep ==
  ASSUME TablesTypeOK, TopicTypesMatchTopics, NEW topic \in Topics,
         DOMAIN publications' \subseteq DOMAIN publications,
         DOMAIN publications \subseteq DOMAIN publications' \cup {topic},
         DOMAIN subscriptions' \subseteq DOMAIN subscriptions,
         DOMAIN subscriptions \subseteq DOMAIN subscriptions' \cup {topic},
         CheckTopic(topic)
  PROVE  IsDict(topic_types', Topics, Types) /\ TopicTypesMatchTopics'
<1>1. CASE topic \notin DOMAIN publications' \cup DOMAIN subscriptions'
  BY <1>1 DEF CheckTopic, TopicTypesMatchTopics, TablesTypeOK, IsDict, Drop
<1>2. CASE topic \in DOMAIN publications' \cup DOMAIN subscriptions'
  BY <1>2 DEF CheckTopic, TopicTypesMatchTopics, TablesTypeOK, IsDict
<1>3. QED
  BY <1>1, <1>2

-----------------------------------------------------------------------------
(* The invariant across every step.                                         *)

\* The tables that _unregister_all leaves to a register method.
LEMMA TakeOverTypes ==
  ASSUME TablesTypeOK, NEW p \in Clients
  PROVE  /\ IsDict(UnregisterAll(publications, p), Topics, SUBSET Clients)
         /\ DOMAIN UnregisterAll(publications, p) = DOMAIN publications
         /\ IsDict(UnregisterAll(subscriptions, p), Topics, SUBSET Clients)
         /\ DOMAIN UnregisterAll(subscriptions, p) = DOMAIN subscriptions
BY TakeOverTable DEF TablesTypeOK

\* registerService.
LEMMA RegisterServiceStep ==
  ASSUME IInv, NEW p \in Clients, NEW service \in Services, RegisterService(p, service)
  PROVE  IInv'
<1>1. PICK w \in WorkerFor(p) :
        /\ nodes' = Put(nodes, p.caller_id,
                        [RegisterNode(p, w) EXCEPT !.services = @ \cup {service}])
        /\ serving' = StartServe(p, w)
  BY DEF RegisterService
<1> DEFINE base == RegisterNode(p, w)
           n == [base EXCEPT !.services = @ \cup {service}]
<1>2. base \in Node /\ base.api = p.api
  BY TakeOverNode DEF IInv
<1>3. /\ n \in Node /\ n.api = p.api /\ n.worker = base.worker
      /\ base.services \subseteq n.services
      /\ HasAnyRegistration(n)
  BY <1>2 DEF Node, HasAnyRegistration
<1>4. /\ Lists(base.publications, UnregisterAll(publications, p), p)
      /\ Lists(base.subscriptions, UnregisterAll(subscriptions, p), p)
      /\ Lists(base.param_subscriptions, param_subscribers, p)
      /\ OthersKept(publications, UnregisterAll(publications, p), p.caller_id)
      /\ OthersKept(subscriptions, UnregisterAll(subscriptions, p), p.caller_id)
  BY TakeOverIndex DEF IInv
<1>5. /\ IsDict(UnregisterAll(publications, p), Topics, SUBSET Clients)
      /\ DOMAIN UnregisterAll(publications, p) = DOMAIN publications
      /\ IsDict(UnregisterAll(subscriptions, p), Topics, SUBSET Clients)
      /\ DOMAIN UnregisterAll(subscriptions, p) = DOMAIN subscriptions
  BY TakeOverTypes DEF IInv
<1>6. /\ services' = Put(UnregisterServices(p), service, p)
      /\ publications' = UnregisterAll(publications, p)
      /\ subscriptions' = UnregisterAll(subscriptions, p)
      /\ UNCHANGED <<param_subscribers, topic_types, up>>
  BY DEF RegisterService
<1>7. /\ IsDict(services', Services, Clients)
      /\ \A s \in DOMAIN services' :
           \/ s \in DOMAIN UnregisterServices(p) /\ services'[s] = UnregisterServices(p)[s]
           \/ services'[s] = p /\ s \in n.services
  <2>1. service \in n.services
    BY <1>2 DEF Node
  <2>2. IsDict(UnregisterServices(p), Services, Clients)
    BY TakeOverServices DEF IInv
  <2>3. QED
    BY <1>6, <2>1, <2>2 DEF IsDict, Put
<1>8. /\ Lists(n.publications, publications', p)
      /\ Lists(n.subscriptions, subscriptions', p)
      /\ Lists(n.param_subscriptions, param_subscribers', p)
      /\ OthersKept(publications, publications', p.caller_id)
      /\ OthersKept(subscriptions, subscriptions', p.caller_id)
      /\ OthersKept(param_subscribers, param_subscribers', p.caller_id)
  BY <1>2, <1>4, <1>6 DEF Node, OthersKept
<1> HIDE DEF n
<1>9. /\ IsDict(nodes', Callers, Node)
      /\ IsDict(serving', Workers, [api : Apis, closed : BOOLEAN])
      /\ NodeHasRegistration' /\ NodeServed' /\ IndexSound' /\ ServiceOwnerCurrent'
  BY <1>1, <1>3, <1>7, <1>8, RegisterStep DEF n
<1>10. TablesTypeOK'
  BY <1>5, <1>6, <1>7, <1>9 DEF IInv, TablesTypeOK
<1>11. TopicTypesMatchTopics'
  BY <1>5, <1>6 DEF IInv, TopicTypesMatchTopics
<1>12. QED
  BY <1>9, <1>10, <1>11 DEF IInv

\* registerSubscriber.
LEMMA RegisterSubscriberStep ==
  ASSUME IInv, NEW p \in Clients, NEW topic \in Topics, NEW type \in Types \cup {AnyType}, RegisterSubscriber(p, topic, type)
  PROVE  IInv'
<1>1. PICK w \in WorkerFor(p) :
        /\ nodes' = Put(nodes, p.caller_id,
                        [RegisterNode(p, w) EXCEPT !.subscriptions = @ \cup {topic}])
        /\ serving' = StartServe(p, w)
  BY DEF RegisterSubscriber
<1> DEFINE base == RegisterNode(p, w)
           n == [base EXCEPT !.subscriptions = @ \cup {topic}]
<1>2. base \in Node /\ base.api = p.api
  BY TakeOverNode DEF IInv
<1>3. /\ n \in Node /\ n.api = p.api /\ n.worker = base.worker
      /\ base.services \subseteq n.services
      /\ HasAnyRegistration(n)
  BY <1>2 DEF Node, HasAnyRegistration
<1>4. /\ Lists(base.publications, UnregisterAll(publications, p), p)
      /\ Lists(base.subscriptions, UnregisterAll(subscriptions, p), p)
      /\ Lists(base.param_subscriptions, param_subscribers, p)
      /\ OthersKept(publications, UnregisterAll(publications, p), p.caller_id)
      /\ OthersKept(subscriptions, UnregisterAll(subscriptions, p), p.caller_id)
  BY TakeOverIndex DEF IInv
<1>5. /\ IsDict(UnregisterAll(publications, p), Topics, SUBSET Clients)
      /\ DOMAIN UnregisterAll(publications, p) = DOMAIN publications
      /\ IsDict(UnregisterAll(subscriptions, p), Topics, SUBSET Clients)
      /\ DOMAIN UnregisterAll(subscriptions, p) = DOMAIN subscriptions
      /\ IsDict(param_subscribers, Keys, SUBSET Clients)
  BY TakeOverTypes DEF IInv, TablesTypeOK
<1>6. /\ services' = UnregisterServices(p)
      /\ subscriptions' = AddTo(UnregisterAll(subscriptions, p), topic, p)
      /\ publications' = UnregisterAll(publications, p)
      /\ param_subscribers' = param_subscribers
      /\ RegisterTopic(topic, type) /\ UNCHANGED up
  BY DEF RegisterSubscriber
<1>7. /\ IsDict(services', Services, Clients)
      /\ \A s \in DOMAIN services' :
           \/ s \in DOMAIN UnregisterServices(p) /\ services'[s] = UnregisterServices(p)[s]
           \/ services'[s] = p /\ s \in n.services
  BY <1>6, TakeOverServices DEF IInv
<1>8. /\ IsDict(subscriptions', Topics, SUBSET Clients)
      /\ DOMAIN subscriptions' = DOMAIN subscriptions \cup {topic}
      /\ Lists(base.subscriptions \cup {topic}, subscriptions', p)
      /\ OthersKept(subscriptions, subscriptions', p.caller_id)
  <2> DEFINE before == UnregisterAll(subscriptions, p)
  <2>1. IsDict(before, Topics, SUBSET Clients) /\ DOMAIN before = DOMAIN subscriptions
    BY <1>5
  <2>2. Lists(base.subscriptions, before, p) /\ OthersKept(subscriptions, before, p.caller_id)
    BY <1>4 DEF OthersKept
  <2> HIDE DEF before, base
  <2>3. subscriptions' = AddTo(before, topic, p)
    BY <1>6 DEF before
  <2>4. QED
    BY <2>1, <2>2, <2>3 DEF IsDict, AddTo, GetOr, Put, Lists, OthersKept
<1>9. /\ Lists(n.publications, publications', p)
      /\ Lists(n.subscriptions, subscriptions', p)
      /\ Lists(n.param_subscriptions, param_subscribers', p)
      /\ OthersKept(publications, publications', p.caller_id)
      /\ OthersKept(subscriptions, subscriptions', p.caller_id)
      /\ OthersKept(param_subscribers, param_subscribers', p.caller_id)
  BY <1>2, <1>4, <1>6, <1>8 DEF Node, OthersKept
<1> HIDE DEF n
<1>10. /\ IsDict(nodes', Callers, Node)
       /\ IsDict(serving', Workers, [api : Apis, closed : BOOLEAN])
       /\ NodeHasRegistration' /\ NodeServed' /\ IndexSound' /\ ServiceOwnerCurrent'
  BY <1>1, <1>3, <1>7, <1>9, RegisterStep DEF n
<1>11. IsDict(topic_types', Topics, Types) /\ TopicTypesMatchTopics'
  BY <1>5, <1>6, <1>8, TypesAssumption
     DEF IInv, TablesTypeOK, TopicTypesMatchTopics, RegisterTopic, IsDict, Put
<1>12. TablesTypeOK'
  BY <1>5, <1>6, <1>7, <1>8, <1>10, <1>11 DEF IInv, TablesTypeOK
<1>13. QED
  BY <1>10, <1>11, <1>12 DEF IInv

\* registerPublisher.
LEMMA RegisterPublisherStep ==
  ASSUME IInv, NEW p \in Clients, NEW topic \in Topics, NEW type \in Types, RegisterPublisher(p, topic, type)
  PROVE  IInv'
<1>1. PICK w \in WorkerFor(p) :
        /\ nodes' = Put(nodes, p.caller_id,
                        [RegisterNode(p, w) EXCEPT !.publications = @ \cup {topic}])
        /\ serving' = StartServe(p, w)
  BY DEF RegisterPublisher
<1> DEFINE base == RegisterNode(p, w)
           n == [base EXCEPT !.publications = @ \cup {topic}]
<1>2. base \in Node /\ base.api = p.api
  BY TakeOverNode DEF IInv
<1>3. /\ n \in Node /\ n.api = p.api /\ n.worker = base.worker
      /\ base.services \subseteq n.services
      /\ HasAnyRegistration(n)
  BY <1>2 DEF Node, HasAnyRegistration
<1>4. /\ Lists(base.publications, UnregisterAll(publications, p), p)
      /\ Lists(base.subscriptions, UnregisterAll(subscriptions, p), p)
      /\ Lists(base.param_subscriptions, param_subscribers, p)
      /\ OthersKept(publications, UnregisterAll(publications, p), p.caller_id)
      /\ OthersKept(subscriptions, UnregisterAll(subscriptions, p), p.caller_id)
  BY TakeOverIndex DEF IInv
<1>5. /\ IsDict(UnregisterAll(publications, p), Topics, SUBSET Clients)
      /\ DOMAIN UnregisterAll(publications, p) = DOMAIN publications
      /\ IsDict(UnregisterAll(subscriptions, p), Topics, SUBSET Clients)
      /\ DOMAIN UnregisterAll(subscriptions, p) = DOMAIN subscriptions
      /\ IsDict(param_subscribers, Keys, SUBSET Clients)
  BY TakeOverTypes DEF IInv, TablesTypeOK
<1>6. /\ services' = UnregisterServices(p)
      /\ publications' = AddTo(UnregisterAll(publications, p), topic, p)
      /\ subscriptions' = UnregisterAll(subscriptions, p)
      /\ param_subscribers' = param_subscribers
      /\ RegisterTopic(topic, type) /\ UNCHANGED up
  BY DEF RegisterPublisher
<1>7. /\ IsDict(services', Services, Clients)
      /\ \A s \in DOMAIN services' :
           \/ s \in DOMAIN UnregisterServices(p) /\ services'[s] = UnregisterServices(p)[s]
           \/ services'[s] = p /\ s \in n.services
  BY <1>6, TakeOverServices DEF IInv
<1>8. /\ IsDict(publications', Topics, SUBSET Clients)
      /\ DOMAIN publications' = DOMAIN publications \cup {topic}
      /\ Lists(base.publications \cup {topic}, publications', p)
      /\ OthersKept(publications, publications', p.caller_id)
  <2> DEFINE before == UnregisterAll(publications, p)
  <2>1. IsDict(before, Topics, SUBSET Clients) /\ DOMAIN before = DOMAIN publications
    BY <1>5
  <2>2. Lists(base.publications, before, p) /\ OthersKept(publications, before, p.caller_id)
    BY <1>4 DEF OthersKept
  <2> HIDE DEF before, base
  <2>3. publications' = AddTo(before, topic, p)
    BY <1>6 DEF before
  <2>4. QED
    BY <2>1, <2>2, <2>3 DEF IsDict, AddTo, GetOr, Put, Lists, OthersKept
<1>9. /\ Lists(n.publications, publications', p)
      /\ Lists(n.subscriptions, subscriptions', p)
      /\ Lists(n.param_subscriptions, param_subscribers', p)
      /\ OthersKept(publications, publications', p.caller_id)
      /\ OthersKept(subscriptions, subscriptions', p.caller_id)
      /\ OthersKept(param_subscribers, param_subscribers', p.caller_id)
  BY <1>2, <1>4, <1>6, <1>8 DEF Node, OthersKept
<1> HIDE DEF n
<1>10. /\ IsDict(nodes', Callers, Node)
       /\ IsDict(serving', Workers, [api : Apis, closed : BOOLEAN])
       /\ NodeHasRegistration' /\ NodeServed' /\ IndexSound' /\ ServiceOwnerCurrent'
  BY <1>1, <1>3, <1>7, <1>9, RegisterStep DEF n
<1>11. IsDict(topic_types', Topics, Types) /\ TopicTypesMatchTopics'
  BY <1>5, <1>6, <1>8, TypesAssumption
     DEF IInv, TablesTypeOK, TopicTypesMatchTopics, RegisterTopic, IsDict, Put
<1>12. TablesTypeOK'
  BY <1>5, <1>6, <1>7, <1>8, <1>10, <1>11 DEF IInv, TablesTypeOK
<1>13. QED
  BY <1>10, <1>11, <1>12 DEF IInv

\* subscribeParam.
LEMMA RegisterParamSubscriberStep ==
  ASSUME IInv, NEW p \in Clients, NEW key \in Keys, RegisterParamSubscriber(p, key)
  PROVE  IInv'
<1>1. PICK w \in WorkerFor(p) :
        /\ nodes' = Put(nodes, p.caller_id,
                        [RegisterNode(p, w) EXCEPT !.param_subscriptions = @ \cup {key}])
        /\ serving' = StartServe(p, w)
  BY DEF RegisterParamSubscriber
<1> DEFINE base == RegisterNode(p, w)
           n == [base EXCEPT !.param_subscriptions = @ \cup {key}]
<1>2. base \in Node /\ base.api = p.api
  BY TakeOverNode DEF IInv
<1>3. /\ n \in Node /\ n.api = p.api /\ n.worker = base.worker
      /\ base.services \subseteq n.services
      /\ HasAnyRegistration(n)
  BY <1>2 DEF Node, HasAnyRegistration
<1>4. /\ Lists(base.publications, UnregisterAll(publications, p), p)
      /\ Lists(base.subscriptions, UnregisterAll(subscriptions, p), p)
      /\ Lists(base.param_subscriptions, param_subscribers, p)
      /\ OthersKept(publications, UnregisterAll(publications, p), p.caller_id)
      /\ OthersKept(subscriptions, UnregisterAll(subscriptions, p), p.caller_id)
  BY TakeOverIndex DEF IInv
<1>5. /\ IsDict(UnregisterAll(publications, p), Topics, SUBSET Clients)
      /\ DOMAIN UnregisterAll(publications, p) = DOMAIN publications
      /\ IsDict(UnregisterAll(subscriptions, p), Topics, SUBSET Clients)
      /\ DOMAIN UnregisterAll(subscriptions, p) = DOMAIN subscriptions
      /\ IsDict(param_subscribers, Keys, SUBSET Clients)
  BY TakeOverTypes DEF IInv, TablesTypeOK
<1>6. /\ services' = UnregisterServices(p)
      /\ param_subscribers' = AddTo(param_subscribers, key, p)
      /\ publications' = UnregisterAll(publications, p)
      /\ subscriptions' = UnregisterAll(subscriptions, p)
      /\ UNCHANGED <<topic_types, up>>
  BY DEF RegisterParamSubscriber
<1>7. /\ IsDict(services', Services, Clients)
      /\ \A s \in DOMAIN services' :
           \/ s \in DOMAIN UnregisterServices(p) /\ services'[s] = UnregisterServices(p)[s]
           \/ services'[s] = p /\ s \in n.services
  BY <1>6, TakeOverServices DEF IInv
<1>8. /\ IsDict(param_subscribers', Keys, SUBSET Clients)
      /\ DOMAIN param_subscribers' = DOMAIN param_subscribers \cup {key}
      /\ Lists(base.param_subscriptions \cup {key}, param_subscribers', p)
      /\ OthersKept(param_subscribers, param_subscribers', p.caller_id)
  <2> DEFINE before == param_subscribers
  <2>1. IsDict(before, Keys, SUBSET Clients) /\ DOMAIN before = DOMAIN param_subscribers
    BY <1>5
  <2>2. Lists(base.param_subscriptions, before, p) /\ OthersKept(param_subscribers, before, p.caller_id)
    BY <1>4 DEF OthersKept
  <2> HIDE DEF before, base
  <2>3. param_subscribers' = AddTo(before, key, p)
    BY <1>6 DEF before
  <2>4. QED
    BY <2>1, <2>2, <2>3 DEF IsDict, AddTo, GetOr, Put, Lists, OthersKept
<1>9. /\ Lists(n.publications, publications', p)
      /\ Lists(n.subscriptions, subscriptions', p)
      /\ Lists(n.param_subscriptions, param_subscribers', p)
      /\ OthersKept(publications, publications', p.caller_id)
      /\ OthersKept(subscriptions, subscriptions', p.caller_id)
      /\ OthersKept(param_subscribers, param_subscribers', p.caller_id)
  BY <1>2, <1>4, <1>6, <1>8 DEF Node, OthersKept
<1> HIDE DEF n
<1>10. /\ IsDict(nodes', Callers, Node)
       /\ IsDict(serving', Workers, [api : Apis, closed : BOOLEAN])
       /\ NodeHasRegistration' /\ NodeServed' /\ IndexSound' /\ ServiceOwnerCurrent'
  BY <1>1, <1>3, <1>7, <1>9, RegisterStep DEF n
<1>11. IsDict(topic_types', Topics, Types) /\ TopicTypesMatchTopics'
  BY <1>5, <1>6 DEF IInv, TablesTypeOK, TopicTypesMatchTopics
<1>12. TablesTypeOK'
  BY <1>5, <1>6, <1>7, <1>8, <1>10, <1>11 DEF IInv, TablesTypeOK
<1>13. QED
  BY <1>10, <1>11, <1>12 DEF IInv

\* unregisterSubscriber.
LEMMA UnregisterSubscriberStep ==
  ASSUME IInv, NEW p \in Clients, NEW topic \in Topics, UnregisterSubscriber(p, topic)
  PROVE  IInv'
<1> DEFINE c == p.caller_id
           n == [nodes[c] EXCEPT !.subscriptions = @ \ {topic}]
<1>1. /\ subscriptions' = DiscardFrom(subscriptions, topic, p)
      /\ CheckNode(c, n)
      /\ UNCHANGED <<services, publications, param_subscribers, up>>
  BY DEF UnregisterSubscriber
<1>2. IsDict(subscriptions, Topics, SUBSET Clients)
  BY DEF IInv, TablesTypeOK
<1>3. /\ IsDict(subscriptions', Topics, SUBSET Clients)
      /\ DOMAIN subscriptions' \subseteq DOMAIN subscriptions
      /\ DOMAIN subscriptions \subseteq DOMAIN subscriptions' \cup {topic}
  BY <1>1, <1>2, DiscardFromType
<1>4. /\ OthersKept(publications, publications', c)
      /\ OthersKept(subscriptions, subscriptions', c)
      /\ OthersKept(param_subscribers, param_subscribers', c)
  <2>1. Lists({}, subscriptions, p)
    BY DEF Lists
  <2>2. OthersKept(subscriptions, subscriptions', c)
    BY <1>1, <1>2, <2>1, DiscardKeeps
  <2>3. QED
    BY <1>1, <2>2 DEF OthersKept
<1>5. ASSUME c \in DOMAIN nodes
      PROVE  /\ n \in Node
             /\ n.api = nodes[c].api /\ n.worker = nodes[c].worker
             /\ n.services = nodes[c].services
             /\ LET self == [caller_id |-> c, api |-> n.api]
                IN /\ Lists(n.publications, publications', self)
                   /\ Lists(n.subscriptions, subscriptions', self)
                   /\ Lists(n.param_subscriptions, param_subscribers', self)
  <2>1. nodes[c] \in Node
    BY <1>5 DEF IInv, TablesTypeOK, IsDict
  <2> DEFINE self == [caller_id |-> c, api |-> nodes[c].api]
  <2>2. /\ Lists(nodes[c].publications, publications, self)
        /\ Lists(nodes[c].subscriptions, subscriptions, self)
        /\ Lists(nodes[c].param_subscriptions, param_subscribers, self)
    BY <1>5, OwnIndex DEF IInv
  <2>3. Lists(nodes[c].subscriptions \ {topic}, subscriptions', self)
    BY <1>1, <1>2, <2>2, DiscardKeeps
  <2>4. QED
    BY <1>1, <2>1, <2>2, <2>3 DEF Node
<1>6. \A s \in DOMAIN services' : s \in DOMAIN services /\ services'[s] = services[s]
  BY <1>1
<1> HIDE DEF n
<1>7. /\ IsDict(nodes', Callers, Node)
      /\ IsDict(serving', Workers, [api : Apis, closed : BOOLEAN])
      /\ NodeHasRegistration' /\ NodeServed' /\ IndexSound' /\ ServiceOwnerCurrent'
  BY <1>1, <1>4, <1>5, <1>6, UnregisterStep
<1>8. IsDict(topic_types', Topics, Types) /\ TopicTypesMatchTopics'
  <2>1. CheckTopic(topic)
    BY DEF UnregisterSubscriber
  <2>2. QED
    BY <1>1, <1>3, <2>1, CheckTopicStep DEF IInv
<1>9. TablesTypeOK'
  BY <1>1, <1>3, <1>7, <1>8 DEF IInv, TablesTypeOK
<1>10. QED
  BY <1>7, <1>8, <1>9 DEF IInv

\* unregisterPublisher.
LEMMA UnregisterPublisherStep ==
  ASSUME IInv, NEW p \in Clients, NEW topic \in Topics, UnregisterPublisher(p, topic)
  PROVE  IInv'
<1> DEFINE c == p.caller_id
           n == [nodes[c] EXCEPT !.publications = @ \ {topic}]
<1>1. /\ publications' = DiscardFrom(publications, topic, p)
      /\ CheckNode(c, n)
      /\ UNCHANGED <<services, subscriptions, param_subscribers, up>>
  BY DEF UnregisterPublisher
<1>2. IsDict(publications, Topics, SUBSET Clients)
  BY DEF IInv, TablesTypeOK
<1>3. /\ IsDict(publications', Topics, SUBSET Clients)
      /\ DOMAIN publications' \subseteq DOMAIN publications
      /\ DOMAIN publications \subseteq DOMAIN publications' \cup {topic}
  BY <1>1, <1>2, DiscardFromType
<1>4. /\ OthersKept(publications, publications', c)
      /\ OthersKept(subscriptions, subscriptions', c)
      /\ OthersKept(param_subscribers, param_subscribers', c)
  <2>1. Lists({}, publications, p)
    BY DEF Lists
  <2>2. OthersKept(publications, publications', c)
    BY <1>1, <1>2, <2>1, DiscardKeeps
  <2>3. QED
    BY <1>1, <2>2 DEF OthersKept
<1>5. ASSUME c \in DOMAIN nodes
      PROVE  /\ n \in Node
             /\ n.api = nodes[c].api /\ n.worker = nodes[c].worker
             /\ n.services = nodes[c].services
             /\ LET self == [caller_id |-> c, api |-> n.api]
                IN /\ Lists(n.publications, publications', self)
                   /\ Lists(n.subscriptions, subscriptions', self)
                   /\ Lists(n.param_subscriptions, param_subscribers', self)
  <2>1. nodes[c] \in Node
    BY <1>5 DEF IInv, TablesTypeOK, IsDict
  <2> DEFINE self == [caller_id |-> c, api |-> nodes[c].api]
  <2>2. /\ Lists(nodes[c].publications, publications, self)
        /\ Lists(nodes[c].subscriptions, subscriptions, self)
        /\ Lists(nodes[c].param_subscriptions, param_subscribers, self)
    BY <1>5, OwnIndex DEF IInv
  <2>3. Lists(nodes[c].publications \ {topic}, publications', self)
    BY <1>1, <1>2, <2>2, DiscardKeeps
  <2>4. QED
    BY <1>1, <2>1, <2>2, <2>3 DEF Node
<1>6. \A s \in DOMAIN services' : s \in DOMAIN services /\ services'[s] = services[s]
  BY <1>1
<1> HIDE DEF n
<1>7. /\ IsDict(nodes', Callers, Node)
      /\ IsDict(serving', Workers, [api : Apis, closed : BOOLEAN])
      /\ NodeHasRegistration' /\ NodeServed' /\ IndexSound' /\ ServiceOwnerCurrent'
  BY <1>1, <1>4, <1>5, <1>6, UnregisterStep
<1>8. IsDict(topic_types', Topics, Types) /\ TopicTypesMatchTopics'
  <2>1. CheckTopic(topic)
    BY DEF UnregisterPublisher
  <2>2. QED
    BY <1>1, <1>3, <2>1, CheckTopicStep DEF IInv
<1>9. TablesTypeOK'
  BY <1>1, <1>3, <1>7, <1>8 DEF IInv, TablesTypeOK
<1>10. QED
  BY <1>7, <1>8, <1>9 DEF IInv

\* unsubscribeParam.
LEMMA UnregisterParamSubscriberStep ==
  ASSUME IInv, NEW p \in Clients, NEW key \in Keys, UnregisterParamSubscriber(p, key)
  PROVE  IInv'
<1> DEFINE c == p.caller_id
           n == [nodes[c] EXCEPT !.param_subscriptions = @ \ {key}]
<1>1. /\ param_subscribers' = DiscardFrom(param_subscribers, key, p)
      /\ CheckNode(c, n)
      /\ UNCHANGED <<services, publications, subscriptions, topic_types, up>>
  BY DEF UnregisterParamSubscriber
<1>2. IsDict(param_subscribers, Keys, SUBSET Clients)
  BY DEF IInv, TablesTypeOK
<1>3. /\ IsDict(param_subscribers', Keys, SUBSET Clients)
      /\ DOMAIN param_subscribers' \subseteq DOMAIN param_subscribers
      /\ DOMAIN param_subscribers \subseteq DOMAIN param_subscribers' \cup {key}
  BY <1>1, <1>2, DiscardFromType
<1>4. /\ OthersKept(publications, publications', c)
      /\ OthersKept(subscriptions, subscriptions', c)
      /\ OthersKept(param_subscribers, param_subscribers', c)
  <2>1. Lists({}, param_subscribers, p)
    BY DEF Lists
  <2>2. OthersKept(param_subscribers, param_subscribers', c)
    BY <1>1, <1>2, <2>1, DiscardKeeps
  <2>3. QED
    BY <1>1, <2>2 DEF OthersKept
<1>5. ASSUME c \in DOMAIN nodes
      PROVE  /\ n \in Node
             /\ n.api = nodes[c].api /\ n.worker = nodes[c].worker
             /\ n.services = nodes[c].services
             /\ LET self == [caller_id |-> c, api |-> n.api]
                IN /\ Lists(n.publications, publications', self)
                   /\ Lists(n.subscriptions, subscriptions', self)
                   /\ Lists(n.param_subscriptions, param_subscribers', self)
  <2>1. nodes[c] \in Node
    BY <1>5 DEF IInv, TablesTypeOK, IsDict
  <2> DEFINE self == [caller_id |-> c, api |-> nodes[c].api]
  <2>2. /\ Lists(nodes[c].publications, publications, self)
        /\ Lists(nodes[c].subscriptions, subscriptions, self)
        /\ Lists(nodes[c].param_subscriptions, param_subscribers, self)
    BY <1>5, OwnIndex DEF IInv
  <2>3. Lists(nodes[c].param_subscriptions \ {key}, param_subscribers', self)
    BY <1>1, <1>2, <2>2, DiscardKeeps
  <2>4. QED
    BY <1>1, <2>1, <2>2, <2>3 DEF Node
<1>6. \A s \in DOMAIN services' : s \in DOMAIN services /\ services'[s] = services[s]
  BY <1>1
<1> HIDE DEF n
<1>7. /\ IsDict(nodes', Callers, Node)
      /\ IsDict(serving', Workers, [api : Apis, closed : BOOLEAN])
      /\ NodeHasRegistration' /\ NodeServed' /\ IndexSound' /\ ServiceOwnerCurrent'
  BY <1>1, <1>4, <1>5, <1>6, UnregisterStep
<1>8. IsDict(topic_types', Topics, Types) /\ TopicTypesMatchTopics'
  BY <1>1 DEF IInv, TablesTypeOK, TopicTypesMatchTopics
<1>9. TablesTypeOK'
  BY <1>1, <1>3, <1>7, <1>8 DEF IInv, TablesTypeOK
<1>10. QED
  BY <1>7, <1>8, <1>9 DEF IInv

\* unregisterService: whoever calls it, no entry of the service is left.
LEMMA UnregisterServiceStep ==
  ASSUME IInv, NEW p \in Clients, NEW service \in Services, UnregisterService(p, service)
  PROVE  IInv'
<1> DEFINE c == p.caller_id
           n == [nodes[c] EXCEPT !.services = @ \ {service}]
<1>1. /\ services' = Drop(services, service)
      /\ CheckNode(c, n)
      /\ UNCHANGED <<publications, subscriptions, param_subscribers, topic_types, up>>
  BY DEF UnregisterService
<1>2. /\ IsDict(services', Services, Clients)
      /\ DOMAIN services' = DOMAIN services \ {service}
      /\ \A s \in DOMAIN services' : s \in DOMAIN services /\ services'[s] = services[s]
  BY <1>1 DEF IInv, TablesTypeOK, IsDict, Drop
<1>3. /\ OthersKept(publications, publications', c)
      /\ OthersKept(subscriptions, subscriptions', c)
      /\ OthersKept(param_subscribers, param_subscribers', c)
  BY <1>1 DEF OthersKept
<1>4. ASSUME c \in DOMAIN nodes
      PROVE  /\ n \in Node
             /\ n.api = nodes[c].api /\ n.worker = nodes[c].worker
             /\ n.services = nodes[c].services \ {service}
             /\ LET self == [caller_id |-> c, api |-> n.api]
                IN /\ Lists(n.publications, publications', self)
                   /\ Lists(n.subscriptions, subscriptions', self)
                   /\ Lists(n.param_subscriptions, param_subscribers', self)
  <2>1. nodes[c] \in Node
    BY <1>4 DEF IInv, TablesTypeOK, IsDict
  <2> DEFINE self == [caller_id |-> c, api |-> nodes[c].api]
  <2>2. /\ Lists(nodes[c].publications, publications, self)
        /\ Lists(nodes[c].subscriptions, subscriptions, self)
        /\ Lists(nodes[c].param_subscriptions, param_subscribers, self)
    BY <1>4, OwnIndex DEF IInv
  <2>3. QED
    BY <1>1, <2>1, <2>2 DEF Node
<1> HIDE DEF n
<1>5. /\ IsDict(nodes', Callers, Node)
      /\ IsDict(serving', Workers, [api : Apis, closed : BOOLEAN])
      /\ NodeHasRegistration' /\ NodeServed' /\ IndexSound' /\ ServiceOwnerCurrent'
  BY <1>1, <1>2, <1>3, <1>4, UnregisterStep
<1>6. TablesTypeOK' /\ TopicTypesMatchTopics'
  BY <1>1, <1>2, <1>5 DEF IInv, TablesTypeOK, TopicTypesMatchTopics
<1>7. QED
  BY <1>5, <1>6 DEF IInv

\* The end of a serve task: only a task whose stream is closed, and no Node
\* has one, ends.
LEMMA ServeEndsStep ==
  ASSUME IInv, NEW w \in Workers, ServeEnds(w)
  PROVE  IInv'
<1>1. /\ w \in DOMAIN serving /\ serving[w].closed
      /\ serving' = Drop(serving, w)
      /\ UNCHANGED <<tables, nodes, up>>
  BY DEF ServeEnds
<1>2. /\ IsDict(serving', Workers, [api : Apis, closed : BOOLEAN])
      /\ DOMAIN serving' = DOMAIN serving \ {w}
      /\ \A v \in DOMAIN serving' : serving'[v] = serving[v]
  BY <1>1 DEF IInv, TablesTypeOK, IsDict, Drop
<1>3. ASSUME NEW c \in DOMAIN nodes
      PROVE  nodes[c].worker # w
  <2>1. serving[nodes[c].worker] = [api |-> nodes[c].api, closed |-> FALSE]
    BY DEF IInv, NodeServed
  <2>2. serving[nodes[c].worker].closed = FALSE
    BY <2>1
  <2>3. QED
    BY <1>1, <2>2
<1>4. NodeServed'
  BY <1>1, <1>2, <1>3 DEF IInv, NodeServed, tables
<1>5. QED
  BY <1>1, <1>2, <1>4 DEF IInv, tables, TablesTypeOK, NodeHasRegistration, IndexSound,
                          ServiceOwnerCurrent, Known, TopicTypesMatchTopics

\* A step that changes no table, no Node and no serve task keeps the invariant.
LEMMA QuietStep ==
  ASSUME IInv, UNCHANGED <<tables, nodes, serving>>, up' \in BOOLEAN
  PROVE  IInv'
BY DEF IInv, tables, TablesTypeOK, NodeHasRegistration, IndexSound, ServiceOwnerCurrent,
       Known, TopicTypesMatchTopics, NodeServed

\* The empty registry satisfies the invariant.
LEMMA InitIInv == Init => IInv
BY DEF Init, IInv, EmptyDict, IsDict, TablesTypeOK, NodeHasRegistration, IndexSound,
       ServiceOwnerCurrent, TopicTypesMatchTopics, NodeServed

\* Every step keeps the invariant.
LEMMA NextIInv == IInv /\ [Next]_vars => IInv'
<1> SUFFICES ASSUME IInv, [Next]_vars PROVE IInv'
  OBVIOUS
<1>1. ASSUME NEW p \in Clients, NEW s \in Services, RegisterService(p, s)
      PROVE  IInv'
  BY <1>1, RegisterServiceStep
<1>2. ASSUME NEW p \in Clients, NEW s \in Services, UnregisterService(p, s)
      PROVE  IInv'
  BY <1>2, UnregisterServiceStep
<1>3. ASSUME NEW p \in Clients, NEW t \in Topics, NEW type \in Types \cup {AnyType},
             RegisterSubscriber(p, t, type)
      PROVE  IInv'
  BY <1>3, RegisterSubscriberStep
<1>4. ASSUME NEW p \in Clients, NEW t \in Topics, UnregisterSubscriber(p, t)
      PROVE  IInv'
  BY <1>4, UnregisterSubscriberStep
<1>5. ASSUME NEW p \in Clients, NEW t \in Topics, UnregisterPublisher(p, t)
      PROVE  IInv'
  BY <1>5, UnregisterPublisherStep
<1>6. ASSUME NEW p \in Clients, NEW t \in Topics, NEW type \in Types,
             RegisterPublisher(p, t, type)
      PROVE  IInv'
  BY <1>6, RegisterPublisherStep
<1>7. ASSUME NEW p \in Clients, NEW k \in Keys, RegisterParamSubscriber(p, k)
      PROVE  IInv'
  BY <1>7, RegisterParamSubscriberStep
<1>8. ASSUME NEW p \in Clients, NEW k \in Keys, UnregisterParamSubscriber(p, k)
      PROVE  IInv'
  BY <1>8, UnregisterParamSubscriberStep
<1>9. ASSUME NEW p \in Clients, NEW k \in Keys, NEW v \in ParamValues, OnParamUpdate(p, k, v)
      PROVE  IInv'
  BY <1>9, QuietStep DEF OnParamUpdate, IInv, TablesTypeOK
<1>10. ASSUME NEW w \in Workers, ServeTask(w)
       PROVE  IInv'
  BY <1>10, QuietStep DEF ServeTask, IInv, TablesTypeOK
<1>11. ASSUME NEW w \in Workers, ServeEnds(w)
       PROVE  IInv'
  BY <1>11, ServeEndsStep
<1>12. ASSUME NEW w \in Workers, ServeFails(w)
       PROVE  IInv'
  BY <1>12, QuietStep DEF ServeFails
<1>13. ASSUME Shutdown
       PROVE  IInv'
  BY <1>13, QuietStep DEF Shutdown
<1>14. CASE UNCHANGED vars
  BY <1>14, QuietStep DEF vars, IInv, TablesTypeOK
<1>15. QED
  BY <1>1, <1>2, <1>3, <1>4, <1>5, <1>6, <1>7, <1>8, <1>9, <1>10, <1>11, <1>12, <1>13,
     <1>14 DEF Next

\* IInv is an invariant of the registry.
THEOREM Invariance == Spec => []IInv
BY InitIInv, NextIInv, PTL DEF Spec

\* The registry's tables, Nodes and serve tasks are of their types.
THEOREM TypeCorrect == Spec => []TablesTypeOK
BY Invariance, PTL DEF IInv

\* No method leaves a Node without a registration in nodes.
THEOREM NodesRegistered == Spec => []NodeHasRegistration
BY Invariance, PTL DEF IInv

\* The topics and parameter keys a Node lists are in the tables, under the URI
\* the Node has; for its services see ServicesTakenByCall.
THEOREM IndexesSound == Spec => []IndexSound
BY Invariance, PTL DEF IInv

\* A service found by lookupService belongs to the newest process of its name.
THEOREM ServiceOwnersCurrent == Spec => []ServiceOwnerCurrent
BY Invariance, PTL DEF IInv

\* Types are kept for the topics in the tables only, and for every published one.
THEOREM TypesMatchTopics == Spec => []TopicTypesMatchTopics
BY Invariance, PTL DEF IInv

\* Every Node is served by a task of its own, on an open stream, at its URI.
THEOREM NodesServed == Spec => []NodeServed
BY Invariance, PTL DEF IInv

-----------------------------------------------------------------------------
(* The type of a topic.                                                     *)

TypeKept(t) ==
  \/ t \in DOMAIN topic_types' /\ topic_types'[t] = topic_types[t]
  \/ t \notin DOMAIN publications' \cup DOMAIN subscriptions'

\* _register_topic adds types and changes none.
LEMMA RegisterTopicKeeps ==
  ASSUME NEW topic, NEW type, RegisterTopic(topic, type), NEW t \in DOMAIN topic_types
  PROVE  TypeKept(t)
BY DEF RegisterTopic, Put, TypeKept

\* _check_topic drops no type but that of a topic without a key.
LEMMA CheckTopicKeeps ==
  ASSUME NEW topic, CheckTopic(topic), NEW t \in DOMAIN topic_types
  PROVE  TypeKept(t)
BY DEF CheckTopic, Drop, TypeKept

\* The first type registered for a topic stays as long as the topic has a key.
THEOREM TypesStable == Spec => FirstTypeWins
<1>1. ASSUME [Next]_vars, NEW t \in DOMAIN topic_types
      PROVE  TypeKept(t)
  <2>1. ASSUME UNCHANGED topic_types
        PROVE  TypeKept(t)
    BY <2>1 DEF TypeKept
  <2>2. ASSUME NEW p \in Clients, NEW topic \in Topics, NEW type,
               RegisterSubscriber(p, topic, type) \/ RegisterPublisher(p, topic, type)
        PROVE  TypeKept(t)
    BY <2>2, RegisterTopicKeeps DEF RegisterSubscriber, RegisterPublisher
  <2>3. ASSUME NEW p \in Clients, NEW topic \in Topics,
               UnregisterSubscriber(p, topic) \/ UnregisterPublisher(p, topic)
        PROVE  TypeKept(t)
    BY <2>3, CheckTopicKeeps DEF UnregisterSubscriber, UnregisterPublisher
  <2>4. ASSUME NEW p \in Clients, NEW s \in Services,
               RegisterService(p, s) \/ UnregisterService(p, s)
        PROVE  UNCHANGED topic_types
    BY <2>4 DEF RegisterService, UnregisterService
  <2>5. ASSUME NEW p \in Clients, NEW k \in Keys, NEW v \in ParamValues,
               OnParamUpdate(p, k, v)
        PROVE  UNCHANGED topic_types
    BY <2>5 DEF OnParamUpdate, tables
  <2>6. ASSUME NEW p \in Clients, NEW k \in Keys,
               RegisterParamSubscriber(p, k) \/ UnregisterParamSubscriber(p, k)
        PROVE  UNCHANGED topic_types
    BY <2>6 DEF RegisterParamSubscriber, UnregisterParamSubscriber
  <2>7. ASSUME NEW w \in Workers, ServeTask(w) \/ ServeEnds(w) \/ ServeFails(w)
        PROVE  UNCHANGED topic_types
    BY <2>7 DEF ServeTask, ServeEnds, ServeFails, tables
  <2>8. Shutdown \/ UNCHANGED vars => UNCHANGED topic_types
    BY DEF Shutdown, vars, tables
  <2>9. QED
    BY <1>1, <2>1, <2>2, <2>3, <2>4, <2>5, <2>6, <2>7, <2>8 DEF Next
<1>2. [Next]_vars => [\A t \in DOMAIN topic_types :
         \/ t \in DOMAIN topic_types' /\ topic_types'[t] = topic_types[t]
         \/ t \notin DOMAIN publications' \cup DOMAIN subscriptions']_vars
  BY <1>1 DEF TypeKept
<1>3. QED
  BY <1>2, PTL DEF Spec, FirstTypeWins

-----------------------------------------------------------------------------
(* The services a Node lists and the table of services.                     *)

\* After a step, s is on c's list and not c's in the table only if it was so
\* before, or a call of another node on one of the services S made it so.
TakenOnlyBy(c, s, p, S) ==
  \/ NodeStays(c) /\ s \in StaleServices(c)
  \/ c # p.caller_id /\ s \in S

\* A register method of p, which adds the services S to p's list and the table.
LEMMA RegisterTakes ==
  ASSUME IInv, NEW p \in Clients, NEW w \in WorkerFor(p), NEW n \in Node, NEW S,
         n.api = p.api, n.worker = RegisterNode(p, w).worker, HasAnyRegistration(n),
         n.services = RegisterNode(p, w).services \cup S,
         nodes' = Put(nodes, p.caller_id, n), serving' = StartServe(p, w),
         \A s \in DOMAIN UnregisterServices(p) :
           s \notin S => s \in DOMAIN services' /\ services'[s] = UnregisterServices(p)[s],
         \A s \in S : s \in DOMAIN services' /\ services'[s] = p,
         NEW c \in DOMAIN nodes', NEW s \in StaleServices(c)'
  PROVE  TakenOnlyBy(c, s, p, S)
<1>1. /\ DOMAIN nodes' = DOMAIN nodes \cup {p.caller_id}
      /\ nodes'[p.caller_id] = n
      /\ \A d \in DOMAIN nodes : d # p.caller_id => nodes'[d] = nodes[d]
  BY RegisterNodes DEF IInv
<1>2. /\ s \in nodes'[c].services
      /\ ~(s \in DOMAIN services' /\ services'[s] = [caller_id |-> c, api |-> nodes'[c].api])
  BY DEF StaleServices
<1>3. CASE c = p.caller_id
  <2>1. s \notin S
    <3>1. p = [caller_id |-> c, api |-> n.api]
      BY <1>3, ClientsAssumption
    <3>2. QED
      BY <1>1, <1>2, <1>3, <3>1
  <2>2. s \in RegisterNode(p, w).services
    BY <1>1, <1>2, <1>3, <2>1
  <2>3. Known(p)
    BY <2>2 DEF RegisterNode
  <2>4. /\ c \in DOMAIN nodes /\ nodes[c].api = p.api
        /\ RegisterNode(p, w) = nodes[c] /\ UnregisterServices(p) = services
    BY <1>3, <2>3 DEF Known, Replaces, RegisterNode, UnregisterServices
  <2>5. NodeStays(c)
    BY <1>1, <1>3, <2>4 DEF NodeStays
  <2>6. s \in StaleServices(c)
    BY <1>1, <1>2, <1>3, <2>1, <2>2, <2>4 DEF StaleServices
  <2>7. QED
    BY <2>5, <2>6 DEF TakenOnlyBy
<1>4. CASE c # p.caller_id
  <2>1. c \in DOMAIN nodes /\ nodes'[c] = nodes[c]
    BY <1>1, <1>4
  <2>2. NodeStays(c)
    BY <2>1 DEF NodeStays
  <2>3. ASSUME s \notin S
        PROVE  s \in StaleServices(c)
    <3>1. SUFFICES ASSUME s \in DOMAIN services,
                          services[s] = [caller_id |-> c, api |-> nodes[c].api]
                   PROVE  FALSE
      BY <1>2, <2>1 DEF StaleServices
    <3>2. services[s].caller_id # p.caller_id
      BY <1>4, <3>1
    <3>3. s \in DOMAIN UnregisterServices(p) /\ UnregisterServices(p)[s] = services[s]
      BY <3>1, <3>2 DEF UnregisterServices, Restrict
    <3>4. QED
      BY <1>2, <2>1, <2>3, <3>1, <3>3
  <2>4. QED
    BY <1>4, <2>2, <2>3 DEF TakenOnlyBy
<1>5. QED
  BY <1>3, <1>4

\* An unregister method of p, which strikes the services S from p's list and the
\* table.
LEMMA UnregisterTakes ==
  ASSUME IInv, NEW p \in Clients, NEW n, NEW S,
         p.caller_id \in DOMAIN nodes =>
           /\ n \in Node /\ n.api = nodes[p.caller_id].api
           /\ n.worker = nodes[p.caller_id].worker
           /\ n.services = nodes[p.caller_id].services \ S,
         CheckNode(p.caller_id, n),
         \A s \in DOMAIN services :
           s \notin S => s \in DOMAIN services' /\ services'[s] = services[s],
         NEW c \in DOMAIN nodes', NEW s \in StaleServices(c)'
  PROVE  TakenOnlyBy(c, s, p, S)
<1>1. /\ c \in DOMAIN nodes
      /\ nodes'[c] = IF c = p.caller_id THEN n ELSE nodes[c]
  BY CheckNodeStep DEF IInv
<1>2. /\ s \in nodes'[c].services
      /\ ~(s \in DOMAIN services' /\ services'[s] = [caller_id |-> c, api |-> nodes'[c].api])
  BY DEF StaleServices
<1>3. NodeStays(c) /\ nodes'[c].api = nodes[c].api
  BY <1>1 DEF NodeStays
<1>4. s \in nodes[c].services /\ (c = p.caller_id => s \notin S)
  BY <1>1, <1>2
<1>5. ASSUME s \notin S
      PROVE  s \in StaleServices(c)
  BY <1>2, <1>3, <1>4, <1>5 DEF StaleServices
<1>6. QED
  BY <1>3, <1>4, <1>5 DEF TakenOnlyBy

\* Only another node's call on the service makes the list of a Node differ from
\* the table of services: restarts and the calls of the node's own name do not.
THEOREM ServicesTakenByCall == Spec => ServiceTakenByCall
<1> DEFINE Taken(c, s) ==
             \/ NodeStays(c) /\ s \in StaleServices(c)
             \/ \E q \in Clients : /\ q.caller_id # c
                                   /\ RegisterService(q, s) \/ UnregisterService(q, s)
<1>1. ASSUME IInv, [Next]_vars, NEW c \in DOMAIN nodes', NEW s \in StaleServices(c)'
      PROVE  Taken(c, s)
  <2>1. ASSUME UNCHANGED <<services, nodes>>
        PROVE  Taken(c, s)
    BY <2>1 DEF StaleServices, NodeStays
  <2>2. ASSUME NEW p \in Clients, NEW service \in Services, RegisterService(p, service)
        PROVE  Taken(c, s)
    <3>1. PICK w \in WorkerFor(p) :
            /\ nodes' = Put(nodes, p.caller_id,
                            [RegisterNode(p, w) EXCEPT !.services = @ \cup {service}])
            /\ serving' = StartServe(p, w)
      BY <2>2 DEF RegisterService
    <3> DEFINE n == [RegisterNode(p, w) EXCEPT !.services = @ \cup {service}]
    <3>2. RegisterNode(p, w) \in Node /\ RegisterNode(p, w).api = p.api
      BY <1>1, TakeOverNode DEF IInv
    <3>3. /\ n \in Node /\ n.api = p.api /\ n.worker = RegisterNode(p, w).worker
          /\ n.services = RegisterNode(p, w).services \cup {service}
          /\ HasAnyRegistration(n)
      BY <3>2 DEF Node, HasAnyRegistration
    <3>4. services' = Put(UnregisterServices(p), service, p)
      BY <2>2 DEF RegisterService
    <3>5. /\ \A t \in DOMAIN UnregisterServices(p) : t \notin {service} =>
               t \in DOMAIN services' /\ services'[t] = UnregisterServices(p)[t]
          /\ \A t \in {service} : t \in DOMAIN services' /\ services'[t] = p
      BY <3>4 DEF Put
    <3> HIDE DEF n
    <3>6. TakenOnlyBy(c, s, p, {service})
      BY <1>1, <3>1, <3>3, <3>5, RegisterTakes DEF n
    <3>7. QED
      BY <2>2, <3>6 DEF TakenOnlyBy
  <2>3. ASSUME NEW p \in Clients, NEW w \in WorkerFor(p), NEW n \in Node,
               n.api = p.api, n.worker = RegisterNode(p, w).worker, HasAnyRegistration(n),
               n.services = RegisterNode(p, w).services,
               nodes' = Put(nodes, p.caller_id, n), serving' = StartServe(p, w),
               services' = UnregisterServices(p)
        PROVE  Taken(c, s)
    <3>1. TakenOnlyBy(c, s, p, {})
      BY <1>1, <2>3, RegisterTakes
    <3>2. QED
      BY <3>1 DEF TakenOnlyBy
  <2>4. ASSUME NEW p \in Clients, NEW t \in Topics, NEW type, RegisterSubscriber(p, t, type)
        PROVE  Taken(c, s)
    <3>1. PICK w \in WorkerFor(p) :
            /\ nodes' = Put(nodes, p.caller_id,
                            [RegisterNode(p, w) EXCEPT !.subscriptions = @ \cup {t}])
            /\ serving' = StartServe(p, w)
      BY <2>4 DEF RegisterSubscriber
    <3>2. RegisterNode(p, w) \in Node /\ RegisterNode(p, w).api = p.api
      BY <1>1, TakeOverNode DEF IInv
    <3> DEFINE n == [RegisterNode(p, w) EXCEPT !.subscriptions = @ \cup {t}]
    <3>3. /\ n \in Node /\ n.api = p.api /\ n.worker = RegisterNode(p, w).worker
          /\ n.services = RegisterNode(p, w).services /\ HasAnyRegistration(n)
      BY <3>2 DEF Node, HasAnyRegistration
    <3>4. services' = UnregisterServices(p)
      BY <2>4 DEF RegisterSubscriber
    <3> HIDE DEF n, Taken
    <3>5. QED
      BY <2>3, <3>1, <3>3, <3>4 DEF n
  <2>5. ASSUME NEW p \in Clients, NEW t \in Topics, NEW type, RegisterPublisher(p, t, type)
        PROVE  Taken(c, s)
    <3>1. PICK w \in WorkerFor(p) :
            /\ nodes' = Put(nodes, p.caller_id,
                            [RegisterNode(p, w) EXCEPT !.publications = @ \cup {t}])
            /\ serving' = StartServe(p, w)
      BY <2>5 DEF RegisterPublisher
    <3>2. RegisterNode(p, w) \in Node /\ RegisterNode(p, w).api = p.api
      BY <1>1, TakeOverNode DEF IInv
    <3> DEFINE n == [RegisterNode(p, w) EXCEPT !.publications = @ \cup {t}]
    <3>3. /\ n \in Node /\ n.api = p.api /\ n.worker = RegisterNode(p, w).worker
          /\ n.services = RegisterNode(p, w).services /\ HasAnyRegistration(n)
      BY <3>2 DEF Node, HasAnyRegistration
    <3>4. services' = UnregisterServices(p)
      BY <2>5 DEF RegisterPublisher
    <3> HIDE DEF n, Taken
    <3>5. QED
      BY <2>3, <3>1, <3>3, <3>4 DEF n
  <2>6. ASSUME NEW p \in Clients, NEW k \in Keys, RegisterParamSubscriber(p, k)
        PROVE  Taken(c, s)
    <3>1. PICK w \in WorkerFor(p) :
            /\ nodes' = Put(nodes, p.caller_id,
                            [RegisterNode(p, w) EXCEPT !.param_subscriptions = @ \cup {k}])
            /\ serving' = StartServe(p, w)
      BY <2>6 DEF RegisterParamSubscriber
    <3>2. RegisterNode(p, w) \in Node /\ RegisterNode(p, w).api = p.api
      BY <1>1, TakeOverNode DEF IInv
    <3> DEFINE n == [RegisterNode(p, w) EXCEPT !.param_subscriptions = @ \cup {k}]
    <3>3. /\ n \in Node /\ n.api = p.api /\ n.worker = RegisterNode(p, w).worker
          /\ n.services = RegisterNode(p, w).services /\ HasAnyRegistration(n)
      BY <3>2 DEF Node, HasAnyRegistration
    <3>4. services' = UnregisterServices(p)
      BY <2>6 DEF RegisterParamSubscriber
    <3> HIDE DEF n, Taken
    <3>5. QED
      BY <2>3, <3>1, <3>3, <3>4 DEF n
  <2>7. ASSUME NEW p \in Clients, NEW service \in Services, UnregisterService(p, service)
        PROVE  Taken(c, s)
    <3> DEFINE n == [nodes[p.caller_id] EXCEPT !.services = @ \ {service}]
    <3>1. services' = Drop(services, service) /\ CheckNode(p.caller_id, n)
      BY <2>7 DEF UnregisterService
    <3>2. p.caller_id \in DOMAIN nodes =>
            /\ n \in Node /\ n.api = nodes[p.caller_id].api
            /\ n.worker = nodes[p.caller_id].worker
            /\ n.services = nodes[p.caller_id].services \ {service}
      <4>1. p.caller_id \in DOMAIN nodes => nodes[p.caller_id] \in Node
        BY <1>1 DEF IInv, TablesTypeOK, IsDict
      <4>2. QED
        BY <4>1 DEF Node
    <3>3. \A t \in DOMAIN services : t \notin {service} =>
            t \in DOMAIN services' /\ services'[t] = services[t]
      BY <3>1 DEF Drop
    <3> HIDE DEF n
    <3>4. TakenOnlyBy(c, s, p, {service})
      BY <1>1, <3>1, <3>2, <3>3, UnregisterTakes
    <3>5. QED
      BY <2>7, <3>4 DEF TakenOnlyBy
  <2>8. ASSUME NEW p \in Clients, NEW n, UNCHANGED services, CheckNode(p.caller_id, n),
               p.caller_id \in DOMAIN nodes =>
                 /\ n \in Node /\ n.api = nodes[p.caller_id].api
                 /\ n.worker = nodes[p.caller_id].worker
                 /\ n.services = nodes[p.caller_id].services
        PROVE  Taken(c, s)
    <3>1. TakenOnlyBy(c, s, p, {})
      BY <1>1, <2>8, UnregisterTakes
    <3>2. QED
      BY <3>1 DEF TakenOnlyBy
  <2>9. ASSUME NEW p \in Clients, NEW t \in Topics,
               UnregisterSubscriber(p, t) \/ UnregisterPublisher(p, t)
        PROVE  Taken(c, s)
    <3>1. p.caller_id \in DOMAIN nodes => nodes[p.caller_id] \in Node
      BY <1>1 DEF IInv, TablesTypeOK, IsDict
    <3> DEFINE n1 == [nodes[p.caller_id] EXCEPT !.subscriptions = @ \ {t}]
               n2 == [nodes[p.caller_id] EXCEPT !.publications = @ \ {t}]
    <3>2. UNCHANGED services /\ (CheckNode(p.caller_id, n1) \/ CheckNode(p.caller_id, n2))
      BY <2>9 DEF UnregisterSubscriber, UnregisterPublisher
    <3>3. p.caller_id \in DOMAIN nodes => \A n \in {n1, n2} :
            /\ n \in Node /\ n.api = nodes[p.caller_id].api
            /\ n.worker = nodes[p.caller_id].worker
            /\ n.services = nodes[p.caller_id].services
      BY <3>1 DEF Node
    <3> HIDE DEF n1, n2, Taken
    <3>4. QED
      BY <2>8, <3>2, <3>3
  <2>10. ASSUME NEW p \in Clients, NEW k \in Keys, UnregisterParamSubscriber(p, k)
         PROVE  Taken(c, s)
    <3>1. p.caller_id \in DOMAIN nodes => nodes[p.caller_id] \in Node
      BY <1>1 DEF IInv, TablesTypeOK, IsDict
    <3> DEFINE n == [nodes[p.caller_id] EXCEPT !.param_subscriptions = @ \ {k}]
    <3>2. UNCHANGED services /\ CheckNode(p.caller_id, n)
      BY <2>10 DEF UnregisterParamSubscriber
    <3>3. p.caller_id \in DOMAIN nodes =>
            /\ n \in Node /\ n.api = nodes[p.caller_id].api
            /\ n.worker = nodes[p.caller_id].worker
            /\ n.services = nodes[p.caller_id].services
      BY <3>1 DEF Node
    <3> HIDE DEF n, Taken
    <3>4. QED
      BY <2>8, <3>2, <3>3
  <2>11. ASSUME NEW p \in Clients, NEW k \in Keys, NEW v \in ParamValues,
                OnParamUpdate(p, k, v)
         PROVE  UNCHANGED <<services, nodes>>
    BY <2>11 DEF OnParamUpdate, tables
  <2>12. ASSUME NEW w \in Workers, ServeTask(w) \/ ServeEnds(w) \/ ServeFails(w)
         PROVE  UNCHANGED <<services, nodes>>
    BY <2>12 DEF ServeTask, ServeEnds, ServeFails, tables
  <2>13. Shutdown \/ UNCHANGED vars => UNCHANGED <<services, nodes>>
    BY DEF Shutdown, vars, tables
  <2> HIDE DEF Taken
  <2>14. QED
    BY <1>1, <2>1, <2>2, <2>4, <2>5, <2>6, <2>7, <2>9, <2>10, <2>11, <2>12, <2>13 DEF Next
<1>2. IInv /\ [Next]_vars =>
        [\A c \in DOMAIN nodes' :
           \A s \in StaleServices(c)' \ (IF NodeStays(c) THEN StaleServices(c) ELSE {}) :
             \E q \in Clients : /\ q.caller_id # c
                                /\ RegisterService(q, s) \/ UnregisterService(q, s)]_vars
  BY <1>1
<1>3. QED
  BY <1>2, Invariance, PTL DEF Spec, ServiceTakenByCall

-----------------------------------------------------------------------------
(* As long as no two processes share a name, the tables match the Nodes.    *)

UniqueNames == \A p, q \in Clients : p.caller_id = q.caller_id => p = q

\* The URI of a Node is that of a process of its name.
NodesAreClients ==
  \A c \in DOMAIN nodes : [caller_id |-> c, api |-> nodes[c].api] \in Clients

UInv == IInv /\ NodesAreClients /\ RegistrationsReachable

\* A process never finds a Node of its name with another URI.
LEMMA NothingReplaced ==
  ASSUME UniqueNames, UInv, NEW p \in Clients
  PROVE  /\ ~Replaces(p)
         /\ UnregisterAll(publications, p) = publications
         /\ UnregisterAll(subscriptions, p) = subscriptions
<1>1. ~Replaces(p)
  <2>1. SUFFICES ASSUME Replaces(p) PROVE FALSE
    OBVIOUS
  <2> DEFINE q == [caller_id |-> p.caller_id, api |-> nodes[p.caller_id].api]
  <2>2. q \in Clients
    BY <2>1 DEF UInv, NodesAreClients, Replaces
  <2>3. q.caller_id = p.caller_id /\ q.api # p.api
    BY <2>1 DEF Replaces
  <2>4. QED
    BY <2>2, <2>3 DEF UniqueNames
<1>2. QED
  BY <1>1 DEF UnregisterAll

\* The Nodes after a register method: the caller's has its URI and lists what it
\* listed before, and no other Node changes.
RegisteredNodes(p) ==
  /\ DOMAIN nodes' = DOMAIN nodes \cup {p.caller_id}
  /\ nodes'[p.caller_id].api = p.api
  /\ \A c \in DOMAIN nodes : c # p.caller_id => nodes'[c] = nodes[c]
  /\ p.caller_id \in DOMAIN nodes =>
       /\ nodes[p.caller_id].publications \subseteq nodes'[p.caller_id].publications
       /\ nodes[p.caller_id].subscriptions \subseteq nodes'[p.caller_id].subscriptions
       /\ nodes[p.caller_id].param_subscriptions \subseteq nodes'[p.caller_id].param_subscriptions

\* Every registration in a table belongs to a known node that has the key on its
\* list, and every key has a registration.
Reachable(table, nds, list) ==
  \A t \in DOMAIN table : table[t] # {} /\
    \A r \in table[t] : /\ r.caller_id \in DOMAIN nds /\ nds[r.caller_id].api = r.api
                        /\ t \in list[r.caller_id]

\* The lists of publications, subscriptions and parameter subscriptions.
Publications(nds) == [c \in DOMAIN nds |-> nds[c].publications]
Subscriptions(nds) == [c \in DOMAIN nds |-> nds[c].subscriptions]
ParamSubscriptions(nds) == [c \in DOMAIN nds |-> nds[c].param_subscriptions]

\* RegistrationsReachable says the same of each of the three tables.
LEMMA ReachableTables ==
  RegistrationsReachable <=>
    /\ Reachable(publications, nodes, Publications(nodes))
    /\ Reachable(subscriptions, nodes, Subscriptions(nodes))
    /\ Reachable(param_subscribers, nodes, ParamSubscriptions(nodes))
BY DEF RegistrationsReachable, PublishersReachable, SubscribersReachable,
       ParamSubscribersReachable, Known, Reachable, Publications, Subscriptions,
       ParamSubscriptions

\* The same of the tables after a step.
LEMMA ReachableTablesNext ==
  RegistrationsReachable' <=>
    /\ Reachable(publications', nodes', Publications(nodes'))
    /\ Reachable(subscriptions', nodes', Subscriptions(nodes'))
    /\ Reachable(param_subscribers', nodes', ParamSubscriptions(nodes'))
BY DEF RegistrationsReachable, PublishersReachable, SubscribersReachable,
       ParamSubscribersReachable, Known, Reachable, Publications, Subscriptions,
       ParamSubscriptions

\* After a register method of p: its Node has its URI, every list is at least as
\* long, and no other Node changes.
Grows(p, nds, list, newNds, newList) ==
  /\ p.caller_id \in DOMAIN newNds /\ newNds[p.caller_id].api = p.api
  /\ \A c \in DOMAIN nds :
       /\ c \in DOMAIN newNds /\ list[c] \subseteq newList[c]
       /\ c # p.caller_id => newNds[c] = nds[c]

\* A register method keeps a table reachable, whether it leaves the table alone or
\* adds the caller under a key that is now on the caller's list.
LEMMA ReachableRegistered ==
  ASSUME UniqueNames, NEW p \in Clients, NEW K, NEW nds, NEW newNds,
         NEW list, NEW newList, NEW table,
         IsDict(table, K, SUBSET Clients), Reachable(table, nds, list),
         Grows(p, nds, list, newNds, newList)
  PROVE  /\ Reachable(table, newNds, newList)
         /\ \A k \in newList[p.caller_id] : Reachable(AddTo(table, k, p), newNds, newList)
<1>1. ASSUME NEW t \in DOMAIN table, NEW r \in table[t]
      PROVE  /\ r.caller_id \in DOMAIN newNds /\ newNds[r.caller_id].api = r.api
             /\ t \in newList[r.caller_id]
  <2>1. /\ r \in Clients /\ r.caller_id \in DOMAIN nds /\ nds[r.caller_id].api = r.api
        /\ t \in list[r.caller_id]
    BY <1>1 DEF IsDict, Reachable
  <2>2. t \in newList[r.caller_id]
    BY <2>1 DEF Grows
  <2>3. CASE r.caller_id = p.caller_id
    <3>1. r = p
      BY <2>1, <2>3 DEF UniqueNames
    <3>2. QED
      BY <2>2, <3>1 DEF Grows
  <2>4. CASE r.caller_id # p.caller_id
    BY <2>1, <2>2, <2>4 DEF Grows
  <2>5. QED
    BY <2>3, <2>4
<1>2. Reachable(table, newNds, newList)
  BY <1>1 DEF Reachable
<1>3. ASSUME NEW k \in newList[p.caller_id]
      PROVE  Reachable(AddTo(table, k, p), newNds, newList)
  <2>1. ASSUME NEW t \in DOMAIN AddTo(table, k, p)
        PROVE  AddTo(table, k, p)[t] # {} /\ \A r \in AddTo(table, k, p)[t] :
                 \/ r = p /\ t = k
                 \/ t \in DOMAIN table /\ r \in table[t]
    BY <2>1 DEF AddTo, Put, GetOr, Reachable, IsDict
  <2>2. QED
    BY <1>1, <1>3, <2>1 DEF Reachable, Grows
<1>4. QED
  BY <1>2, <1>3

\* After an unregister method of p: no other Node changes, and p's keeps its URI and
\* has the list left, unless it is deleted with nothing left on the list.
Shrinks(p, nds, list, newNds, newList, left) ==
  /\ \A c \in DOMAIN nds : c # p.caller_id =>
       c \in DOMAIN newNds /\ newNds[c] = nds[c] /\ newList[c] = list[c]
  /\ p.caller_id \in DOMAIN nds /\ left # {} =>
       /\ p.caller_id \in DOMAIN newNds
       /\ newNds[p.caller_id].api = nds[p.caller_id].api
       /\ newList[p.caller_id] = left

\* The table shrinks and no key is left empty; under a key that is struck from the
\* caller's list, the table no longer has the caller.
TableShrinks(p, nds, list, table, newTable, left) ==
  \A t \in DOMAIN newTable :
    /\ t \in DOMAIN table /\ newTable[t] \subseteq table[t] /\ newTable[t] # {}
    /\ p.caller_id \in DOMAIN nds /\ p \in newTable[t] /\ t \in list[p.caller_id]
         => t \in left

\* An unregister method keeps a table reachable if it removes from the caller's list
\* no key under which the table still has the caller.
LEMMA ReachableStruck ==
  ASSUME UniqueNames, NEW p \in Clients, NEW K, NEW nds, NEW newNds,
         NEW list, NEW newList, NEW table, NEW newTable, NEW left,
         IsDict(table, K, SUBSET Clients), Reachable(table, nds, list),
         Shrinks(p, nds, list, newNds, newList, left),
         TableShrinks(p, nds, list, table, newTable, left)
  PROVE  Reachable(newTable, newNds, newList)
<1>1. ASSUME NEW t \in DOMAIN newTable, NEW r \in newTable[t]
      PROVE  /\ r.caller_id \in DOMAIN newNds /\ newNds[r.caller_id].api = r.api
             /\ t \in newList[r.caller_id]
  <2>1. /\ r \in Clients /\ r.caller_id \in DOMAIN nds /\ nds[r.caller_id].api = r.api
        /\ t \in list[r.caller_id]
    BY <1>1 DEF IsDict, Reachable, TableShrinks
  <2>2. CASE r.caller_id # p.caller_id
    BY <2>1, <2>2 DEF Shrinks
  <2>3. CASE r.caller_id = p.caller_id
    <3>1. r = p
      BY <2>1, <2>3 DEF UniqueNames
    <3>2. t \in left
      BY <1>1, <2>1, <3>1 DEF TableShrinks
    <3>3. QED
      BY <2>1, <2>3, <3>2 DEF Shrinks
  <2>4. QED
    BY <2>2, <2>3
<1>2. QED
  BY <1>1 DEF Reachable, TableShrinks

\* The two ways in which an unregister method treats a table: it leaves the table
\* and the list alone, or it removes the caller from under the key it strikes.
LEMMA ReachableUnregistered ==
  ASSUME UniqueNames, NEW p \in Clients, NEW K, NEW nds, NEW newNds,
         NEW list, NEW newList, NEW table, NEW left,
         IsDict(table, K, SUBSET Clients), Reachable(table, nds, list),
         Shrinks(p, nds, list, newNds, newList, left)
  PROVE  /\ (p.caller_id \in DOMAIN nds => left = list[p.caller_id]) =>
              Reachable(table, newNds, newList)
         /\ \A k \in K : (p.caller_id \in DOMAIN nds => left = list[p.caller_id] \ {k}) =>
              Reachable(DiscardFrom(table, k, p), newNds, newList)
<1>1. \A t \in DOMAIN table : table[t] # {}
  BY DEF Reachable
<1>2. ASSUME p.caller_id \in DOMAIN nds => left = list[p.caller_id]
      PROVE  Reachable(table, newNds, newList)
  <2>1. TableShrinks(p, nds, list, table, table, left)
    BY <1>1, <1>2 DEF TableShrinks
  <2>2. QED
    BY <2>1, ReachableStruck
<1>3. ASSUME NEW k \in K, p.caller_id \in DOMAIN nds => left = list[p.caller_id] \ {k}
      PROVE  Reachable(DiscardFrom(table, k, p), newNds, newList)
  <2> DEFINE newTable == DiscardFrom(table, k, p)
  <2>1. \A t \in DOMAIN newTable :
          /\ t \in DOMAIN table /\ newTable[t] \subseteq table[t]
          /\ table[t] # {} => newTable[t] # {}
          /\ t = k => p \notin newTable[t]
    <3>1. DOMAIN newTable \subseteq DOMAIN table
      BY DiscardFromType
    <3>2. \A t \in DOMAIN newTable : /\ newTable[t] \subseteq table[t]
                                     /\ table[t] # {} => newTable[t] # {}
                                     /\ t = k => p \notin newTable[t]
      BY DiscardFromType
    <3>3. QED
      BY <3>1, <3>2
  <2> HIDE DEF newTable
  <2>2. TableShrinks(p, nds, list, table, newTable, left)
    BY <1>1, <1>3, <2>1 DEF TableShrinks
  <2>3. Reachable(newTable, newNds, newList)
    BY <2>2, ReachableStruck
  <2>4. QED
    BY <2>3 DEF newTable
<1>4. QED
  BY <1>2, <1>3

-----------------------------------------------------------------------------
(* The three tables and the Nodes after a method.                           *)

\* A register method that adds the caller to at most one table, and to the
\* caller's list, keeps all registrations reachable.
LEMMA RegisteredReachable ==
  ASSUME UniqueNames, UInv, NEW p \in Clients, RegisteredNodes(p), NEW k,
         \/ UNCHANGED publications
         \/ /\ publications' = AddTo(publications, k, p)
            /\ k \in nodes'[p.caller_id].publications,
         \/ UNCHANGED subscriptions
         \/ /\ subscriptions' = AddTo(subscriptions, k, p)
            /\ k \in nodes'[p.caller_id].subscriptions,
         \/ UNCHANGED param_subscribers
         \/ /\ param_subscribers' = AddTo(param_subscribers, k, p)
            /\ k \in nodes'[p.caller_id].param_subscriptions
  PROVE  NodesAreClients' /\ RegistrationsReachable'
<1>1. NodesAreClients'
  <2>1. p = [caller_id |-> p.caller_id, api |-> p.api]
    BY ClientsAssumption
  <2>2. QED
    BY <2>1 DEF RegisteredNodes, UInv, NodesAreClients
<1>2. /\ p.caller_id \in DOMAIN nodes' /\ nodes'[p.caller_id].api = p.api
      /\ \A c \in DOMAIN nodes : c # p.caller_id => nodes'[c] = nodes[c]
      /\ DOMAIN nodes \subseteq DOMAIN nodes'
  BY DEF RegisteredNodes
<1>3. Reachable(publications', nodes', Publications(nodes'))
  <2> DEFINE list == Publications(nodes)
             newList == Publications(nodes')
  <2>1. IsDict(publications, Topics, SUBSET Clients) /\ Reachable(publications, nodes, list)
    BY ReachableTables DEF UInv, IInv, TablesTypeOK
  <2>2. Grows(p, nodes, list, nodes', newList)
    BY <1>2 DEF RegisteredNodes, Publications, Grows
  <2>3. \/ publications' = publications
        \/ publications' = AddTo(publications, k, p) /\ k \in newList[p.caller_id]
    BY <1>2 DEF Publications
  <2> HIDE DEF list, newList
  <2>4. Reachable(publications', nodes', newList)
    BY <2>1, <2>2, <2>3, ReachableRegistered
  <2>5. QED
    BY <2>4 DEF newList
<1>4. Reachable(subscriptions', nodes', Subscriptions(nodes'))
  <2> DEFINE list == Subscriptions(nodes)
             newList == Subscriptions(nodes')
  <2>1. IsDict(subscriptions, Topics, SUBSET Clients) /\ Reachable(subscriptions, nodes, list)
    BY ReachableTables DEF UInv, IInv, TablesTypeOK
  <2>2. Grows(p, nodes, list, nodes', newList)
    BY <1>2 DEF RegisteredNodes, Subscriptions, Grows
  <2>3. \/ subscriptions' = subscriptions
        \/ subscriptions' = AddTo(subscriptions, k, p) /\ k \in newList[p.caller_id]
    BY <1>2 DEF Subscriptions
  <2> HIDE DEF list, newList
  <2>4. Reachable(subscriptions', nodes', newList)
    BY <2>1, <2>2, <2>3, ReachableRegistered
  <2>5. QED
    BY <2>4 DEF newList
<1>5. Reachable(param_subscribers', nodes', ParamSubscriptions(nodes'))
  <2> DEFINE list == ParamSubscriptions(nodes)
             newList == ParamSubscriptions(nodes')
  <2>1. IsDict(param_subscribers, Keys, SUBSET Clients) /\ Reachable(param_subscribers, nodes, list)
    BY ReachableTables DEF UInv, IInv, TablesTypeOK
  <2>2. Grows(p, nodes, list, nodes', newList)
    BY <1>2 DEF RegisteredNodes, ParamSubscriptions, Grows
  <2>3. \/ param_subscribers' = param_subscribers
        \/ param_subscribers' = AddTo(param_subscribers, k, p) /\ k \in newList[p.caller_id]
    BY <1>2 DEF ParamSubscriptions
  <2> HIDE DEF list, newList
  <2>4. Reachable(param_subscribers', nodes', newList)
    BY <2>1, <2>2, <2>3, ReachableRegistered
  <2>5. QED
    BY <2>4 DEF newList
<1>6. QED
  BY <1>1, <1>3, <1>4, <1>5, ReachableTablesNext

\* An unregister method that removes the caller from at most one table, and from
\* the caller's list, keeps all registrations that remain reachable.
LEMMA UnregisteredReachable ==
  ASSUME UniqueNames, UInv, NEW p \in Clients, NEW n, CheckNode(p.caller_id, n),
         p.caller_id \in DOMAIN nodes =>
           n \in Node /\ n.api = nodes[p.caller_id].api /\ n.worker = nodes[p.caller_id].worker,
         NEW k,
         \/ /\ UNCHANGED publications
            /\ p.caller_id \in DOMAIN nodes => n.publications = nodes[p.caller_id].publications
         \/ /\ k \in Topics /\ publications' = DiscardFrom(publications, k, p)
            /\ p.caller_id \in DOMAIN nodes =>
                 n.publications = nodes[p.caller_id].publications \ {k},
         \/ /\ UNCHANGED subscriptions
            /\ p.caller_id \in DOMAIN nodes => n.subscriptions = nodes[p.caller_id].subscriptions
         \/ /\ k \in Topics /\ subscriptions' = DiscardFrom(subscriptions, k, p)
            /\ p.caller_id \in DOMAIN nodes =>
                 n.subscriptions = nodes[p.caller_id].subscriptions \ {k},
         \/ /\ UNCHANGED param_subscribers
            /\ p.caller_id \in DOMAIN nodes => n.param_subscriptions = nodes[p.caller_id].param_subscriptions
         \/ /\ k \in Keys /\ param_subscribers' = DiscardFrom(param_subscribers, k, p)
            /\ p.caller_id \in DOMAIN nodes =>
                 n.param_subscriptions = nodes[p.caller_id].param_subscriptions \ {k}
  PROVE  NodesAreClients' /\ RegistrationsReachable'
<1> DEFINE c == p.caller_id
<1>1. /\ DOMAIN nodes' \subseteq DOMAIN nodes
      /\ DOMAIN nodes \subseteq DOMAIN nodes' \cup {c}
      /\ \A d \in DOMAIN nodes' : nodes'[d] = IF d = c THEN n ELSE nodes[d]
      /\ c \in DOMAIN nodes \ DOMAIN nodes' => ~HasAnyRegistration(n)
  BY CheckNodeStep DEF UInv, IInv
<1>2. NodesAreClients'
  BY <1>1 DEF UInv, NodesAreClients
<1>3. Reachable(publications', nodes', Publications(nodes'))
  <2> DEFINE list == Publications(nodes)
             newList == Publications(nodes')
  <2>1. IsDict(publications, Topics, SUBSET Clients) /\ Reachable(publications, nodes, list)
    BY ReachableTables DEF UInv, IInv, TablesTypeOK
  <2>2. Shrinks(p, nodes, list, nodes', newList, n.publications)
    <3>1. \A d \in DOMAIN nodes : d # c =>
            d \in DOMAIN nodes' /\ nodes'[d] = nodes[d] /\ newList[d] = list[d]
      BY <1>1 DEF Publications
    <3>2. c \in DOMAIN nodes /\ n.publications # {} =>
            c \in DOMAIN nodes' /\ nodes'[c].api = nodes[c].api /\ newList[c] = n.publications
      BY <1>1 DEF Publications, HasAnyRegistration
    <3>3. QED
      BY <3>1, <3>2 DEF Shrinks
  <2>3. \/ publications' = publications /\ (c \in DOMAIN nodes => n.publications = list[c])
        \/ /\ k \in Topics /\ publications' = DiscardFrom(publications, k, p)
           /\ c \in DOMAIN nodes => n.publications = list[c] \ {k}
    BY DEF Publications
  <2> HIDE DEF list, newList
  <2>4. /\ (c \in DOMAIN nodes => n.publications = list[c]) =>
             Reachable(publications, nodes', newList)
        /\ \A j \in Topics : (c \in DOMAIN nodes => n.publications = list[c] \ {j}) =>
             Reachable(DiscardFrom(publications, j, p), nodes', newList)
    BY <2>1, <2>2, ReachableUnregistered
  <2>5. Reachable(publications', nodes', newList)
    BY <2>3, <2>4
  <2>6. QED
    BY <2>5 DEF newList
<1>4. Reachable(subscriptions', nodes', Subscriptions(nodes'))
  <2> DEFINE list == Subscriptions(nodes)
             newList == Subscriptions(nodes')
  <2>1. IsDict(subscriptions, Topics, SUBSET Clients) /\ Reachable(subscriptions, nodes, list)
    BY ReachableTables DEF UInv, IInv, TablesTypeOK
  <2>2. Shrinks(p, nodes, list, nodes', newList, n.subscriptions)
    <3>1. \A d \in DOMAIN nodes : d # c =>
            d \in DOMAIN nodes' /\ nodes'[d] = nodes[d] /\ newList[d] = list[d]
      BY <1>1 DEF Subscriptions
    <3>2. c \in DOMAIN nodes /\ n.subscriptions # {} =>
            c \in DOMAIN nodes' /\ nodes'[c].api = nodes[c].api /\ newList[c] = n.subscriptions
      BY <1>1 DEF Subscriptions, HasAnyRegistration
    <3>3. QED
      BY <3>1, <3>2 DEF Shrinks
  <2>3. \/ subscriptions' = subscriptions /\ (c \in DOMAIN nodes => n.subscriptions = list[c])
        \/ /\ k \in Topics /\ subscriptions' = DiscardFrom(subscriptions, k, p)
           /\ c \in DOMAIN nodes => n.subscriptions = list[c] \ {k}
    BY DEF Subscriptions
  <2> HIDE DEF list, newList
  <2>4. /\ (c \in DOMAIN nodes => n.subscriptions = list[c]) =>
             Reachable(subscriptions, nodes', newList)
        /\ \A j \in Topics : (c \in DOMAIN nodes => n.subscriptions = list[c] \ {j}) =>
             Reachable(DiscardFrom(subscriptions, j, p), nodes', newList)
    BY <2>1, <2>2, ReachableUnregistered
  <2>5. Reachable(subscriptions', nodes', newList)
    BY <2>3, <2>4
  <2>6. QED
    BY <2>5 DEF newList
<1>5. Reachable(param_subscribers', nodes', ParamSubscriptions(nodes'))
  <2> DEFINE list == ParamSubscriptions(nodes)
             newList == ParamSubscriptions(nodes')
  <2>1. IsDict(param_subscribers, Keys, SUBSET Clients) /\ Reachable(param_subscribers, nodes, list)
    BY ReachableTables DEF UInv, IInv, TablesTypeOK
  <2>2. Shrinks(p, nodes, list, nodes', newList, n.param_subscriptions)
    <3>1. \A d \in DOMAIN nodes : d # c =>
            d \in DOMAIN nodes' /\ nodes'[d] = nodes[d] /\ newList[d] = list[d]
      BY <1>1 DEF ParamSubscriptions
    <3>2. c \in DOMAIN nodes /\ n.param_subscriptions # {} =>
            c \in DOMAIN nodes' /\ nodes'[c].api = nodes[c].api /\ newList[c] = n.param_subscriptions
      BY <1>1 DEF ParamSubscriptions, HasAnyRegistration
    <3>3. QED
      BY <3>1, <3>2 DEF Shrinks
  <2>3. \/ param_subscribers' = param_subscribers /\ (c \in DOMAIN nodes => n.param_subscriptions = list[c])
        \/ /\ k \in Keys /\ param_subscribers' = DiscardFrom(param_subscribers, k, p)
           /\ c \in DOMAIN nodes => n.param_subscriptions = list[c] \ {k}
    BY DEF ParamSubscriptions
  <2> HIDE DEF list, newList
  <2>4. /\ (c \in DOMAIN nodes => n.param_subscriptions = list[c]) =>
             Reachable(param_subscribers, nodes', newList)
        /\ \A j \in Keys : (c \in DOMAIN nodes => n.param_subscriptions = list[c] \ {j}) =>
             Reachable(DiscardFrom(param_subscribers, j, p), nodes', newList)
    BY <2>1, <2>2, ReachableUnregistered
  <2>5. Reachable(param_subscribers', nodes', newList)
    BY <2>3, <2>4
  <2>6. QED
    BY <2>5 DEF newList
<1>6. QED
  BY <1>2, <1>3, <1>4, <1>5, ReachableTablesNext

-----------------------------------------------------------------------------
(* One lemma per method.                                                    *)

\* register_service keeps all registrations reachable.
LEMMA RegisterServiceReachable ==
  ASSUME UniqueNames, UInv, NEW p \in Clients, NEW service, RegisterService(p, service)
  PROVE  NodesAreClients' /\ RegistrationsReachable'
<1>1. PICK w \in WorkerFor(p) :
        nodes' = Put(nodes, p.caller_id,
                     [RegisterNode(p, w) EXCEPT !.services = @ \cup {service}])
  BY DEF RegisterService
<1>2. RegisterNode(p, w) \in Node /\ RegisterNode(p, w).api = p.api
      /\ (p.caller_id \in DOMAIN nodes => RegisterNode(p, w) = nodes[p.caller_id])
  BY NothingReplaced, TakeOverNode DEF UInv, IInv, RegisterNode, Known, Replaces
<1>3. RegisteredNodes(p) /\ service \in nodes'[p.caller_id].services
  BY <1>1, <1>2 DEF RegisteredNodes, Put, Node
<1>4. /\ UNCHANGED publications
      /\ UNCHANGED subscriptions
      /\ UNCHANGED param_subscribers
  BY NothingReplaced DEF RegisterService
<1>5. QED
  BY <1>3, <1>4, RegisteredReachable

\* register_subscriber keeps all registrations reachable.
LEMMA RegisterSubscriberReachable ==
  ASSUME UniqueNames, UInv, NEW p \in Clients, NEW topic, NEW type, RegisterSubscriber(p, topic, type)
  PROVE  NodesAreClients' /\ RegistrationsReachable'
<1>1. PICK w \in WorkerFor(p) :
        nodes' = Put(nodes, p.caller_id,
                     [RegisterNode(p, w) EXCEPT !.subscriptions = @ \cup {topic}])
  BY DEF RegisterSubscriber
<1>2. RegisterNode(p, w) \in Node /\ RegisterNode(p, w).api = p.api
      /\ (p.caller_id \in DOMAIN nodes => RegisterNode(p, w) = nodes[p.caller_id])
  BY NothingReplaced, TakeOverNode DEF UInv, IInv, RegisterNode, Known, Replaces
<1>3. RegisteredNodes(p) /\ topic \in nodes'[p.caller_id].subscriptions
  BY <1>1, <1>2 DEF RegisteredNodes, Put, Node
<1>4. /\ UNCHANGED publications
      /\ subscriptions' = AddTo(subscriptions, topic, p)
      /\ UNCHANGED param_subscribers
  BY NothingReplaced DEF RegisterSubscriber
<1>5. QED
  BY <1>3, <1>4, RegisteredReachable

\* register_publisher keeps all registrations reachable.
LEMMA RegisterPublisherReachable ==
  ASSUME UniqueNames, UInv, NEW p \in Clients, NEW topic, NEW type, RegisterPublisher(p, topic, type)
  PROVE  NodesAreClients' /\ RegistrationsReachable'
<1>1. PICK w \in WorkerFor(p) :
        nodes' = Put(nodes, p.caller_id,
                     [RegisterNode(p, w) EXCEPT !.publications = @ \cup {topic}])
  BY DEF RegisterPublisher
<1>2. RegisterNode(p, w) \in Node /\ RegisterNode(p, w).api = p.api
      /\ (p.caller_id \in DOMAIN nodes => RegisterNode(p, w) = nodes[p.caller_id])
  BY NothingReplaced, TakeOverNode DEF UInv, IInv, RegisterNode, Known, Replaces
<1>3. RegisteredNodes(p) /\ topic \in nodes'[p.caller_id].publications
  BY <1>1, <1>2 DEF RegisteredNodes, Put, Node
<1>4. /\ publications' = AddTo(publications, topic, p)
      /\ UNCHANGED subscriptions
      /\ UNCHANGED param_subscribers
  BY NothingReplaced DEF RegisterPublisher
<1>5. QED
  BY <1>3, <1>4, RegisteredReachable

\* register_param_subscriber keeps all registrations reachable.
LEMMA RegisterParamSubscriberReachable ==
  ASSUME UniqueNames, UInv, NEW p \in Clients, NEW key, RegisterParamSubscriber(p, key)
  PROVE  NodesAreClients' /\ RegistrationsReachable'
<1>1. PICK w \in WorkerFor(p) :
        nodes' = Put(nodes, p.caller_id,
                     [RegisterNode(p, w) EXCEPT !.param_subscriptions = @ \cup {key}])
  BY DEF RegisterParamSubscriber
<1>2. RegisterNode(p, w) \in Node /\ RegisterNode(p, w).api = p.api
      /\ (p.caller_id \in DOMAIN nodes => RegisterNode(p, w) = nodes[p.caller_id])
  BY NothingReplaced, TakeOverNode DEF UInv, IInv, RegisterNode, Known, Replaces
<1>3. RegisteredNodes(p) /\ key \in nodes'[p.caller_id].param_subscriptions
  BY <1>1, <1>2 DEF RegisteredNodes, Put, Node
<1>4. /\ UNCHANGED publications
      /\ UNCHANGED subscriptions
      /\ param_subscribers' = AddTo(param_subscribers, key, p)
  BY NothingReplaced DEF RegisterParamSubscriber
<1>5. QED
  BY <1>3, <1>4, RegisteredReachable

\* unregister_service keeps the registrations that remain reachable.
LEMMA UnregisterServiceReachable ==
  ASSUME UniqueNames, UInv, NEW p \in Clients, NEW service \in Services, UnregisterService(p, service)
  PROVE  NodesAreClients' /\ RegistrationsReachable'
<1> DEFINE c == p.caller_id
           n == [nodes[c] EXCEPT !.services = @ \ {service}]
<1>1. ASSUME c \in DOMAIN nodes
      PROVE  /\ n \in Node /\ n.api = nodes[c].api /\ n.worker = nodes[c].worker
             /\ n.publications = nodes[c].publications
             /\ n.subscriptions = nodes[c].subscriptions
             /\ n.param_subscriptions = nodes[c].param_subscriptions
  <2>1. nodes[c] \in Node
    BY <1>1 DEF UInv, IInv, TablesTypeOK, IsDict
  <2>2. QED
    BY <2>1 DEF Node
<1>2. /\ CheckNode(c, n)
      /\ UNCHANGED publications
      /\ UNCHANGED subscriptions
      /\ UNCHANGED param_subscribers
  BY DEF UnregisterService
<1> HIDE DEF n
<1>3. QED
  BY <1>1, <1>2, UnregisteredReachable

\* unregister_subscriber keeps the registrations that remain reachable.
LEMMA UnregisterSubscriberReachable ==
  ASSUME UniqueNames, UInv, NEW p \in Clients, NEW topic \in Topics, UnregisterSubscriber(p, topic)
  PROVE  NodesAreClients' /\ RegistrationsReachable'
<1> DEFINE c == p.caller_id
           n == [nodes[c] EXCEPT !.subscriptions = @ \ {topic}]
<1>1. ASSUME c \in DOMAIN nodes
      PROVE  /\ n \in Node /\ n.api = nodes[c].api /\ n.worker = nodes[c].worker
             /\ n.publications = nodes[c].publications
             /\ n.subscriptions = nodes[c].subscriptions \ {topic}
             /\ n.param_subscriptions = nodes[c].param_subscriptions
  <2>1. nodes[c] \in Node
    BY <1>1 DEF UInv, IInv, TablesTypeOK, IsDict
  <2>2. QED
    BY <2>1 DEF Node
<1>2. /\ CheckNode(c, n)
      /\ UNCHANGED publications
      /\ subscriptions' = DiscardFrom(subscriptions, topic, p)
      /\ UNCHANGED param_subscribers
  BY DEF UnregisterSubscriber
<1> HIDE DEF n
<1>3. QED
  BY <1>1, <1>2, UnregisteredReachable

\* unregister_publisher keeps the registrations that remain reachable.
LEMMA UnregisterPublisherReachable ==
  ASSUME UniqueNames, UInv, NEW p \in Clients, NEW topic \in Topics, UnregisterPublisher(p, topic)
  PROVE  NodesAreClients' /\ RegistrationsReachable'
<1> DEFINE c == p.caller_id
           n == [nodes[c] EXCEPT !.publications = @ \ {topic}]
<1>1. ASSUME c \in DOMAIN nodes
      PROVE  /\ n \in Node /\ n.api = nodes[c].api /\ n.worker = nodes[c].worker
             /\ n.publications = nodes[c].publications \ {topic}
             /\ n.subscriptions = nodes[c].subscriptions
             /\ n.param_subscriptions = nodes[c].param_subscriptions
  <2>1. nodes[c] \in Node
    BY <1>1 DEF UInv, IInv, TablesTypeOK, IsDict
  <2>2. QED
    BY <2>1 DEF Node
<1>2. /\ CheckNode(c, n)
      /\ publications' = DiscardFrom(publications, topic, p)
      /\ UNCHANGED subscriptions
      /\ UNCHANGED param_subscribers
  BY DEF UnregisterPublisher
<1> HIDE DEF n
<1>3. QED
  BY <1>1, <1>2, UnregisteredReachable

\* unregister_param_subscriber keeps the registrations that remain reachable.
LEMMA UnregisterParamSubscriberReachable ==
  ASSUME UniqueNames, UInv, NEW p \in Clients, NEW key \in Keys, UnregisterParamSubscriber(p, key)
  PROVE  NodesAreClients' /\ RegistrationsReachable'
<1> DEFINE c == p.caller_id
           n == [nodes[c] EXCEPT !.param_subscriptions = @ \ {key}]
<1>1. ASSUME c \in DOMAIN nodes
      PROVE  /\ n \in Node /\ n.api = nodes[c].api /\ n.worker = nodes[c].worker
             /\ n.publications = nodes[c].publications
             /\ n.subscriptions = nodes[c].subscriptions
             /\ n.param_subscriptions = nodes[c].param_subscriptions \ {key}
  <2>1. nodes[c] \in Node
    BY <1>1 DEF UInv, IInv, TablesTypeOK, IsDict
  <2>2. QED
    BY <2>1 DEF Node
<1>2. /\ CheckNode(c, n)
      /\ UNCHANGED publications
      /\ UNCHANGED subscriptions
      /\ param_subscribers' = DiscardFrom(param_subscribers, key, p)
  BY DEF UnregisterParamSubscriber
<1> HIDE DEF n
<1>3. QED
  BY <1>1, <1>2, UnregisteredReachable

\* A step that touches no table and no Node disturbs nothing.
LEMMA QuietReachable ==
  ASSUME UInv, UNCHANGED <<tables, nodes>>
  PROVE  NodesAreClients' /\ RegistrationsReachable'
BY DEF UInv, tables, NodesAreClients, RegistrationsReachable, PublishersReachable,
       SubscribersReachable, ParamSubscribersReachable, Known

\* Every step keeps all registrations reachable.
LEMMA NextReachable == ASSUME UniqueNames PROVE UInv /\ [Next]_vars => UInv'
<1> SUFFICES ASSUME UInv, [Next]_vars PROVE UInv'
  OBVIOUS
<1>1. IInv'
  BY NextIInv DEF UInv
<1>2. ASSUME NEW p \in Clients, NEW s \in Services, RegisterService(p, s)
      PROVE  NodesAreClients' /\ RegistrationsReachable'
  BY <1>2, RegisterServiceReachable
<1>3. ASSUME NEW p \in Clients, NEW s \in Services, UnregisterService(p, s)
      PROVE  NodesAreClients' /\ RegistrationsReachable'
  BY <1>3, UnregisterServiceReachable
<1>4. ASSUME NEW p \in Clients, NEW t \in Topics, NEW type, RegisterSubscriber(p, t, type)
      PROVE  NodesAreClients' /\ RegistrationsReachable'
  BY <1>4, RegisterSubscriberReachable
<1>5. ASSUME NEW p \in Clients, NEW t \in Topics, UnregisterSubscriber(p, t)
      PROVE  NodesAreClients' /\ RegistrationsReachable'
  BY <1>5, UnregisterSubscriberReachable
<1>6. ASSUME NEW p \in Clients, NEW t \in Topics, NEW type, RegisterPublisher(p, t, type)
      PROVE  NodesAreClients' /\ RegistrationsReachable'
  BY <1>6, RegisterPublisherReachable
<1>7. ASSUME NEW p \in Clients, NEW t \in Topics, UnregisterPublisher(p, t)
      PROVE  NodesAreClients' /\ RegistrationsReachable'
  BY <1>7, UnregisterPublisherReachable
<1>8. ASSUME NEW p \in Clients, NEW k \in Keys, RegisterParamSubscriber(p, k)
      PROVE  NodesAreClients' /\ RegistrationsReachable'
  BY <1>8, RegisterParamSubscriberReachable
<1>9. ASSUME NEW p \in Clients, NEW k \in Keys, UnregisterParamSubscriber(p, k)
      PROVE  NodesAreClients' /\ RegistrationsReachable'
  BY <1>9, UnregisterParamSubscriberReachable
<1>10. ASSUME NEW p \in Clients, NEW key \in Keys, NEW v \in ParamValues, OnParamUpdate(p, key, v)
      PROVE  NodesAreClients' /\ RegistrationsReachable'
  BY <1>10, QuietReachable DEF OnParamUpdate
<1>11. ASSUME NEW w \in Workers, ServeTask(w) \/ ServeEnds(w) \/ ServeFails(w)
      PROVE  NodesAreClients' /\ RegistrationsReachable'
  BY <1>11, QuietReachable DEF ServeTask, ServeEnds, ServeFails
<1>12. ASSUME Shutdown
      PROVE  NodesAreClients' /\ RegistrationsReachable'
  BY <1>12, QuietReachable DEF Shutdown
<1>13. CASE UNCHANGED vars
  BY <1>1, <1>13, QuietReachable DEF vars, UInv
<1>14. QED
  BY <1>1, <1>2, <1>3, <1>4, <1>5, <1>6, <1>7,
     <1>8, <1>9, <1>10, <1>11, <1>12, <1>13 DEF Next, UInv

\* As long as no two processes share a name, every registration in the tables
\* belongs to a known node that lists it, and no key is left without one.
THEOREM UniqueReachable ==
  ASSUME UniqueNames
  PROVE  Spec => []RegistrationsReachable
<1>1. Init => UInv
  <2>1. Init => IInv
    BY InitIInv
  <2>2. Init => NodesAreClients /\ RegistrationsReachable
    BY DEF Init, EmptyDict, NodesAreClients, RegistrationsReachable, PublishersReachable,
           SubscribersReachable, ParamSubscribersReachable
  <2>3. QED
    BY <2>1, <2>2 DEF UInv
<1>2. UInv /\ [Next]_vars => UInv'
  BY NextReachable
<1>3. UInv => RegistrationsReachable
  BY DEF UInv
<1>4. QED
  BY <1>1, <1>2, <1>3, PTL DEF Spec

-----------------------------------------------------------------------------
(* The send streams: what a step appends to them.  A batch is flattened     *)
(* serve task by serve task, and _unregister_all sends as many updates as   *)
(* the old Node had topics, so that the last one about a topic counts.      *)

\* A table as a set of pairs <<name, registration>>.
Registered(names, table) ==
  {m \in names \X Clients : m[1] \in DOMAIN table /\ m[2] \in table[m[1]]}

\* Only finitely many calls have been made: UpdateSubscribers and
\* OnParamUpdate put all registrations of a name in some order.
FiniteTables ==
  /\ IsFiniteSet(Registered(Topics, publications))
  /\ IsFiniteSet(Registered(Topics, subscriptions))
  /\ IsFiniteSet(Registered(Keys, param_subscribers))

\* The inductive invariant of the send streams.
QueueInv == IInv /\ FiniteTables /\ queue \in [Workers -> Seq(Task)]

\* A table with no more registrations than a finite one is finite.
LEMMA FewerRegistered ==
  ASSUME NEW names, NEW table, NEW less, IsFiniteSet(Registered(names, table)),
         DOMAIN less \subseteq DOMAIN table, \A k \in DOMAIN less : less[k] \subseteq table[k]
  PROVE  IsFiniteSet(Registered(names, less))
<1>1. Registered(names, less) \in SUBSET Registered(names, table)
  BY DEF Registered
<1> QED  BY <1>1, FS_Subset

\* So is one with one registration more,
LEMMA OneRegistered ==
  ASSUME NEW names, NEW table, IsFiniteSet(Registered(names, table)), NEW k, NEW r
  PROVE  IsFiniteSet(Registered(names, AddTo(table, k, r)))
<1>1. Registered(names, AddTo(table, k, r)) \in SUBSET (Registered(names, table) \cup {<<k, r>>})
  <2> SUFFICES ASSUME NEW m \in Registered(names, AddTo(table, k, r))
               PROVE  m \in Registered(names, table) \cup {<<k, r>>}
    OBVIOUS
  <2>1. m \in names \X Clients /\ m = <<m[1], m[2]>>
    BY DEF Registered
  <2>2. /\ m[1] \in DOMAIN table \cup {k}
        /\ m[2] \in IF m[1] = k THEN GetOr(table, k, {}) \cup {r} ELSE table[m[1]]
    BY DEF Registered, AddTo, Put
  <2> QED  BY <2>1, <2>2 DEF Registered, GetOr
<1> QED  BY <1>1, FS_AddElement, FS_Subset

\* one without the registrations of a caller,
LEMMA Unregistered ==
  ASSUME NEW names, NEW table, IsFiniteSet(Registered(names, table)), NEW p
  PROVE  IsFiniteSet(Registered(names, UnregisterAll(table, p)))
<1>1. /\ DOMAIN UnregisterAll(table, p) = DOMAIN table
      /\ \A k \in DOMAIN table : UnregisterAll(table, p)[k] \subseteq table[k]
  BY DEF UnregisterAll
<1> QED  BY <1>1, FewerRegistered

\* and one without a registration.
LEMMA Discarded ==
  ASSUME NEW names, NEW table, IsFiniteSet(Registered(names, table)), NEW k, NEW r
  PROVE  IsFiniteSet(Registered(names, DiscardFrom(table, k, r)))
<1>1. /\ DOMAIN DiscardFrom(table, k, r) \subseteq DOMAIN table
      /\ \A j \in DOMAIN DiscardFrom(table, k, r) : DiscardFrom(table, k, r)[j] \subseteq table[j]
  BY DEF DiscardFrom, Drop, Put
<1> QED  BY <1>1, FewerRegistered

\* An empty table is finite.
LEMMA InitFinite == Init => FiniteTables
<1>1. ASSUME NEW names PROVE Registered(names, EmptyDict) = {}
  BY DEF Registered, EmptyDict
<1> QED  BY <1>1, FS_EmptySet DEF Init, FiniteTables

\* Every step leaves the tables finite.
LEMMA NextFinite == FiniteTables /\ [Next]_vars => FiniteTables'
<1> SUFFICES ASSUME FiniteTables, [Next]_vars PROVE FiniteTables'
  OBVIOUS
<1>1. IsFiniteSet(Registered(Topics, publications'))
  <2>1. \/ publications' = publications
        \/ \E p \in Clients : publications' = UnregisterAll(publications, p)
        \/ \E p \in Clients, t \in Topics : publications' = AddTo(UnregisterAll(publications, p), t, p)
        \/ \E p \in Clients, t \in Topics : publications' = DiscardFrom(publications, t, p)
    BY DEF Next, vars, tables, RegisterService, UnregisterService, RegisterSubscriber,
           UnregisterSubscriber, RegisterPublisher, UnregisterPublisher, RegisterParamSubscriber,
           UnregisterParamSubscriber, OnParamUpdate, ServeTask, ServeEnds, ServeFails, Shutdown
  <2> QED  BY <2>1, OneRegistered, Unregistered, Discarded DEF FiniteTables
<1>2. IsFiniteSet(Registered(Topics, subscriptions'))
  <2>1. \/ subscriptions' = subscriptions
        \/ \E p \in Clients : subscriptions' = UnregisterAll(subscriptions, p)
        \/ \E p \in Clients, t \in Topics : subscriptions' = AddTo(UnregisterAll(subscriptions, p), t, p)
        \/ \E p \in Clients, t \in Topics : subscriptions' = DiscardFrom(subscriptions, t, p)
    BY DEF Next, vars, tables, RegisterService, UnregisterService, RegisterSubscriber,
           UnregisterSubscriber, RegisterPublisher, UnregisterPublisher, RegisterParamSubscriber,
           UnregisterParamSubscriber, OnParamUpdate, ServeTask, ServeEnds, ServeFails, Shutdown
  <2> QED  BY <2>1, OneRegistered, Unregistered, Discarded DEF FiniteTables
<1>3. IsFiniteSet(Registered(Keys, param_subscribers'))
  <2>1. \/ param_subscribers' = param_subscribers
        \/ \E p \in Clients, k \in Keys : param_subscribers' = AddTo(param_subscribers, k, p)
        \/ \E p \in Clients, k \in Keys : param_subscribers' = DiscardFrom(param_subscribers, k, p)
    BY DEF Next, vars, tables, RegisterService, UnregisterService, RegisterSubscriber,
           UnregisterSubscriber, RegisterPublisher, UnregisterPublisher, RegisterParamSubscriber,
           UnregisterParamSubscriber, OnParamUpdate, ServeTask, ServeEnds, ServeFails, Shutdown
  <2> QED  BY <2>1, OneRegistered, Discarded DEF FiniteTables
<1> QED  BY <1>1, <1>2, <1>3 DEF FiniteTables, Registered

\* A name of a finite table has finitely many registrations.
LEMMA FiniteOfKey ==
  ASSUME NEW names, NEW table, IsFiniteSet(Registered(names, table)),
         IsDict(table, names, SUBSET Clients), NEW k
  PROVE  IsFiniteSet(GetOr(table, k, {}))
<1>1. CASE k \notin DOMAIN table
  BY <1>1, FS_EmptySet DEF GetOr
<1>2. CASE k \in DOMAIN table
  <2> DEFINE f == [r \in table[k] |-> <<k, r>>]
  <2>1. \A r \in table[k] : <<k, r>> \in Registered(names, table)
    BY <1>2 DEF Registered, IsDict
  <2>2. f \in Injection(table[k], Registered(names, table))
    BY <2>1 DEF Injection, IsInjective
  <2> QED  BY <1>2, <2>2, FS_Injection DEF GetOr
<1> QED  BY <1>1, <1>2

\* The publisher updates of a topic.
UpdatesOf(t) == {PublisherUpdate(t, apis) : apis \in SUBSET Apis}

\* A batch keeps the streams in their type, and if the last of its tasks in T
\* for w is x, so is the last one of w's stream.
LEMMA Enqueued ==
  ASSUME queue \in [Workers -> Seq(Task)], NEW batch \in Seq(Workers \X Task), Enqueue(batch)
  PROVE  /\ queue' \in [Workers -> Seq(Task)]
         /\ \A w \in Workers : \A T, x : LastIs(batch, {w} \X T, <<w, x>>) => LastIs(queue'[w], T, x)
<1> DEFINE part(w) == [i \in 1..Len(batch) |-> IF batch[i][1] = w THEN <<batch[i][2]>> ELSE << >>]
<1>1. /\ Len(batch) \in Nat /\ DOMAIN batch = 1..Len(batch)
      /\ \A i \in 1..Len(batch) : batch[i] \in Workers \X Task
  OBVIOUS
<1>2. ASSUME NEW w \in Workers PROVE part(w) \in Seq(Seq(Task)) /\ Len(part(w)) = Len(batch)
  <2>1. \A i \in 1..Len(batch) : (IF batch[i][1] = w THEN <<batch[i][2]>> ELSE << >>) \in Seq(Task)
    BY <1>1
  <2> QED  BY <1>1, <2>1
<1>3. \A w \in Workers : queue'[w] = queue[w] \o FlattenSeq(part(w))
  BY <1>1 DEF Enqueue
<1>4. \A w \in Workers : FlattenSeq(part(w)) \in Seq(Task)
  <2> HIDE DEF part
  <2> QED  BY <1>2, FlattenedType
<1>5. queue' \in [Workers -> Seq(Task)]
  <2>1. DOMAIN queue' = Workers /\ queue' = [w \in Workers |-> queue'[w]]
    BY DEF Enqueue
  <2> HIDE DEF part
  <2>2. ASSUME NEW w \in Workers PROVE queue'[w] \in Seq(Task)
    <3>1. queue[w] \in Seq(Task) /\ FlattenSeq(part(w)) \in Seq(Task)
      BY <1>4
    <3>2. queue[w] \o FlattenSeq(part(w)) \in Seq(Task)
      BY <3>1, ConcatProperties
    <3> QED  BY <1>3, <3>2
  <2> QED  BY <2>1, <2>2
<1>6. ASSUME NEW w \in Workers, NEW T, NEW x, LastIs(batch, {w} \X T, <<w, x>>)
      PROVE  LastIs(queue'[w], T, x)
  <2>1. PICK k \in 1..Len(batch) : /\ batch[k] = <<w, x>>
                                   /\ \A j \in 1..Len(batch) : j > k /\ batch[j] \in {w} \X T => batch[j] = <<w, x>>
    BY <1>1, <1>6 DEF LastIs
  <2>2. LastIs(part(w)[k], T, x)
    <3>1. part(w)[k] = <<x>>
      BY <2>1
    <3>2. LastIs(<<x>>, T, x)
      BY DEF LastIs
    <3> QED  BY <3>1, <3>2
  <2>3. ASSUME NEW i \in 1..Len(batch), i > k PROVE Only(part(w)[i], T, x)
    <3>1. CASE batch[i][1] = w
      <4>1. part(w)[i] = <<batch[i][2]>> /\ batch[i] = <<w, batch[i][2]>>
        BY <1>1, <3>1
      <4>2. batch[i][2] \in T => batch[i][2] = x
        BY <2>1, <2>3, <4>1
      <4> QED  BY <4>1, <4>2 DEF Only
    <3>2. CASE batch[i][1] # w
      BY <3>2 DEF Only
    <3> QED  BY <3>1, <3>2
  <2> HIDE DEF part
  <2>4. LastIs(FlattenSeq(part(w)), T, x)
    BY <1>2, <2>1, <2>2, <2>3, LastOfFlattened
  <2>5. queue[w] \in Seq(Task) /\ FlattenSeq(part(w)) \in Seq(Task)
    BY <1>4
  <2>6. LastIs(queue[w] \o FlattenSeq(part(w)), T, x)
    BY <2>4, <2>5, LastOfConcat
  <2> QED  BY <1>3, <2>6
<1> QED  BY <1>5, <1>6

\* UpdateSubscribers sends the same update to the Node of every subscriber
\* that has one.
LEMMA Updates ==
  ASSUME NEW topic \in Topics, NEW publishers \in SUBSET Clients, NEW subs, NEW nds,
         IsDict(subs, Topics, SUBSET Clients), IsFiniteSet(Registered(Topics, subs)),
         IsDict(nds, Callers, Node)
  PROVE  LET u == UpdateSubscribers(topic, publishers, subs, nds)
             x == PublisherUpdate(topic, ApisOf(publishers))
         IN /\ u \in Seq(Workers \X {x}) /\ x \in Task /\ x \in UpdatesOf(topic)
            /\ \A r \in GetOr(subs, topic, {}) : r.caller_id \in DOMAIN nds =>
                 LastIs(u, {nds[r.caller_id].worker} \X UpdatesOf(topic), <<nds[r.caller_id].worker, x>>)
<1> DEFINE K == {r \in GetOr(subs, topic, {}) : r.caller_id \in DOMAIN nds}
           known == SetToSeq(K)
           x == PublisherUpdate(topic, ApisOf(publishers))
           u == UpdateSubscribers(topic, publishers, subs, nds)
<1>1. ApisOf(publishers) \in SUBSET Apis
  BY ClientsAssumption DEF ApisOf
<1>2. x \in Task /\ x \in UpdatesOf(topic)
  BY <1>1 DEF PublisherUpdate, Task, UpdatesOf
<1>3. IsFiniteSet(K)
  <2>1. IsFiniteSet(GetOr(subs, topic, {})) /\ K \in SUBSET GetOr(subs, topic, {})
    BY FiniteOfKey
  <2> QED  BY <2>1, FS_Subset
<1>4. \A r \in K : nds[r.caller_id].worker \in Workers
  BY DEF IsDict, Node
<1>5. u = [i \in DOMAIN known |-> <<nds[known[i].caller_id].worker, x>>]
  BY DEF UpdateSubscribers
<1> HIDE DEF K
<1>6. known \in Seq(K) /\ \A r \in K : \E i \in DOMAIN known : known[i] = r
  BY <1>3, Enumerated
<1> HIDE DEF known, x, u
<1>7. \A i \in DOMAIN known : known[i] \in K
  BY <1>6
<1>8. u \in Seq(Workers \X {x}) /\ DOMAIN u = DOMAIN known
  <2>1. \A i \in DOMAIN known : <<nds[known[i].caller_id].worker, x>> \in Workers \X {x}
    BY <1>4, <1>7
  <2>2. DOMAIN known = 1..Len(known) /\ Len(known) \in Nat
    BY <1>6
  <2> QED  BY <1>5, <2>1, <2>2
<1>9. ASSUME NEW r \in K
      PROVE  LastIs(u, {nds[r.caller_id].worker} \X UpdatesOf(topic), <<nds[r.caller_id].worker, x>>)
  <2>1. PICK i \in DOMAIN known : known[i] = r
    BY <1>6
  <2>2. i \in DOMAIN u /\ u[i] = <<nds[r.caller_id].worker, x>>
    BY <1>5, <2>1
  <2>3. \A j \in DOMAIN u : u[j] \in {nds[r.caller_id].worker} \X UpdatesOf(topic) => u[j] = <<nds[r.caller_id].worker, x>>
    BY <1>5
  <2> QED  BY <2>2, <2>3 DEF LastIs
<1> QED  BY <1>2, <1>8, <1>9 DEF K, x, u

\* The registrations of a caller name, as pairs <<topic, publisher>>.
Own(p) == {m \in Topics \X Clients :
             /\ m[1] \in DOMAIN publications /\ m[2] \in publications[m[1]]
             /\ m[2].caller_id = p.caller_id}

\* What is left of the topic of the i-th removal after it.
Left(removals, i) ==
  publications[removals[i][1]] \
    {removals[j][2] : j \in {j \in 1..i : removals[j][1] = removals[i][1]}}

\* Removals puts all of the caller name's registrations in some order.
LEMMA RemovalsOrdered ==
  ASSUME QueueInv, NEW p \in Clients, Replaces(p), NEW removals \in Removals(p)
  PROVE  removals \in Seq(Own(p)) /\ \A m \in Own(p) : \E i \in DOMAIN removals : removals[i] = m
<1>1. IsFiniteSet(Own(p))
  <2>1. Own(p) \in SUBSET Registered(Topics, publications)
    BY DEF Own, Registered
  <2> QED  BY <2>1, FS_Subset DEF QueueInv, FiniteTables
<1>2. removals \in SetToSeqs(Own(p))
  BY DEF Removals, Own
<1> QED  BY <1>1, <1>2, Ordered

\* The tasks of _unregister_all: shutdown to the old Node, then the updates
\* of one removal after the other.
LEMMA ReplacementTasksAre ==
  ASSUME QueueInv, NEW p \in Clients, Replaces(p), NEW removals \in Removals(p)
  PROVE  LET told == [i \in 1..Len(removals) |->
                       UpdateSubscribers(removals[i][1], Left(removals, i), subscriptions, nodes)]
         IN /\ told \in Seq(Seq(Workers \X Task))
            /\ ReplacementTasks(p, removals) =
                 <<<<nodes[p.caller_id].worker, ShutdownTask>>>> \o FlattenSeq(told)
            /\ nodes[p.caller_id].worker \in Workers
            /\ ReplacementTasks(p, removals) \in Seq(Workers \X Task)
<1> DEFINE e(i) == UpdateSubscribers(removals[i][1], Left(removals, i), subscriptions, nodes)
           told == [i \in 1..Len(removals) |-> e(i)]
<1>1. /\ removals \in Seq(Own(p)) /\ Len(removals) \in Nat /\ DOMAIN removals = 1..Len(removals)
      /\ \A i \in 1..Len(removals) : removals[i] \in Own(p)
  BY RemovalsOrdered
<1>2. ASSUME NEW i \in 1..Len(removals) PROVE e(i) \in Seq(Workers \X Task)
  <2>1. removals[i][1] \in Topics /\ Left(removals, i) \in SUBSET Clients
    BY <1>1 DEF Own, Left, QueueInv, IInv, TablesTypeOK, IsDict
  <2> DEFINE x == PublisherUpdate(removals[i][1], ApisOf(Left(removals, i)))
  <2>2. e(i) \in Seq(Workers \X {x}) /\ x \in Task
    BY <2>1, Updates DEF QueueInv, IInv, TablesTypeOK, FiniteTables
  <2> QED  BY <2>2
<1>3. nodes[p.caller_id].worker \in Workers
  BY DEF Replaces, QueueInv, IInv, TablesTypeOK, IsDict, Node
<1>4. ReplacementTasks(p, removals) =
        <<<<nodes[p.caller_id].worker, ShutdownTask>>>> \o FlattenSeq(told)
  BY <1>1 DEF ReplacementTasks, Left
<1> HIDE DEF e
<1>5. told \in Seq(Seq(Workers \X Task))
  BY <1>1, <1>2
<1> HIDE DEF told
<1>6. FlattenSeq(told) \in Seq(Workers \X Task)
  BY <1>5, FlattenedType
<1>7. <<<<nodes[p.caller_id].worker, ShutdownTask>>>> \in Seq(Workers \X Task)
  BY <1>3 DEF Task
<1> QED  BY <1>3, <1>4, <1>5, <1>6, <1>7, ConcatProperties DEF told, e

\* They are tasks, each for a serve task.
LEMMA ReplacementTyped ==
  ASSUME QueueInv, NEW p \in Clients, NEW removals \in Removals(p)
  PROVE  ReplacementTasks(p, removals) \in Seq(Workers \X Task)
<1>1. CASE Replaces(p)
  BY <1>1, ReplacementTasksAre
<1>2. CASE ~Replaces(p)
  BY <1>2 DEF ReplacementTasks
<1> QED  BY <1>1, <1>2

\* The last of them about a topic that loses a publisher, to a subscriber of
\* it, has the publishers that are left.
LEMMA ReplacementTold ==
  ASSUME QueueInv, NEW p \in Clients, NEW removals \in Removals(p),
         NEW t \in DOMAIN publications, UnregisterAll(publications, p)[t] # publications[t],
         NEW r \in GetOr(subscriptions, t, {}), r.caller_id \in DOMAIN nodes
  PROVE  LET w == nodes[r.caller_id].worker
         IN LastIs(ReplacementTasks(p, removals), {w} \X UpdatesOf(t),
                   <<w, PublisherUpdate(t, ApisOf(UnregisterAll(publications, p)[t]))>>)
<1> DEFINE w == nodes[r.caller_id].worker
           x == PublisherUpdate(t, ApisOf(UnregisterAll(publications, p)[t]))
           n == Len(removals)
           e(i) == UpdateSubscribers(removals[i][1], Left(removals, i), subscriptions, nodes)
           told == [i \in 1..n |-> e(i)]
           T == {i \in 1..n : removals[i][1] = t}
<1>1. Replaces(p) /\ t \in Topics
  BY DEF UnregisterAll, QueueInv, IInv, TablesTypeOK, IsDict
<1>2. /\ n \in Nat /\ DOMAIN removals = 1..n
      /\ \A i \in 1..n : removals[i] \in Own(p)
      /\ \A m \in Own(p) : \E i \in 1..n : removals[i] = m
  BY <1>1, RemovalsOrdered
<1>3. T # {}
  <2>1. PICK q \in publications[t] : q.caller_id = p.caller_id
    BY <1>1 DEF UnregisterAll, QueueInv, IInv, TablesTypeOK, IsDict
  <2>2. <<t, q>> \in Own(p)
    BY <1>1, <2>1 DEF Own, QueueInv, IInv, TablesTypeOK, IsDict
  <2>3. PICK i \in 1..n : removals[i] = <<t, q>>
    BY <1>2, <2>2
  <2> QED  BY <2>3
<1>4. PICK k \in T : \A i \in T : i <= k
  <2>1. T \in SUBSET (1..n)
    OBVIOUS
  <2> HIDE DEF T
  <2> QED  BY <1>2, <1>3, <2>1, Greatest
<1>5. Left(removals, k) = UnregisterAll(publications, p)[t]
  <2>1. \A j \in 1..k : removals[j][1] = t => removals[j] \in Own(p)
    BY <1>2, <1>4
  <2>2. \A q \in publications[t] : q.caller_id = p.caller_id =>
           \E j \in 1..k : removals[j][1] = t /\ removals[j][2] = q
    <3>1. ASSUME NEW q \in publications[t], q.caller_id = p.caller_id
          PROVE  \E j \in 1..k : removals[j][1] = t /\ removals[j][2] = q
      <4>1. <<t, q>> \in Own(p)
        BY <1>1, <3>1 DEF Own, QueueInv, IInv, TablesTypeOK, IsDict
      <4>2. PICK j \in 1..n : removals[j] = <<t, q>>
        BY <1>2, <4>1
      <4>3. j \in T /\ j \in 1..k
        BY <1>2, <1>4, <4>2
      <4> QED  BY <4>2, <4>3
    <3> QED  BY <3>1
  <2>3. UnregisterAll(publications, p)[t] = {q \in publications[t] : q.caller_id # p.caller_id}
    BY <1>1 DEF UnregisterAll
  <2>4. removals[k][1] = t
    BY <1>4
  <2>5. \A j \in 1..k : removals[j][1] = t => removals[j][2].caller_id = p.caller_id
    BY <2>1 DEF Own
  <2> QED  BY <2>2, <2>3, <2>4, <2>5 DEF Left
<1>6. UnregisterAll(publications, p)[t] \in SUBSET Clients /\ k \in 1..n /\ removals[k][1] = t
  BY <1>1, <1>4 DEF UnregisterAll, QueueInv, IInv, TablesTypeOK, IsDict
<1>7. LastIs(told[k], {w} \X UpdatesOf(t), <<w, x>>)
  <2>1. told[k] = UpdateSubscribers(t, UnregisterAll(publications, p)[t], subscriptions, nodes)
    BY <1>5, <1>6
  <2> QED  BY <1>1, <1>6, <2>1, Updates DEF QueueInv, IInv, TablesTypeOK, FiniteTables
<1>8. ASSUME NEW i \in 1..n, i > k PROVE Only(told[i], {w} \X UpdatesOf(t), <<w, x>>)
  <2>1. removals[i][1] # t /\ removals[i][1] \in Topics /\ Left(removals, i) \in SUBSET Clients
    BY <1>2, <1>4, <1>8 DEF Own, Left, QueueInv, IInv, TablesTypeOK, IsDict
  <2> DEFINE y == PublisherUpdate(removals[i][1], ApisOf(Left(removals, i)))
  <2>2. told[i] \in Seq(Workers \X {y})
    BY <2>1, Updates DEF QueueInv, IInv, TablesTypeOK, FiniteTables
  <2>3. y \notin UpdatesOf(t)
    BY <2>1 DEF UpdatesOf, PublisherUpdate
  <2> HIDE DEF y, told
  <2>4. \A j \in DOMAIN told[i] : told[i][j] \in Workers \X {y}
    BY <2>2
  <2> QED  BY <2>3, <2>4 DEF Only
<1>9. /\ told \in Seq(Seq(Workers \X Task)) /\ Len(told) = n
      /\ ReplacementTasks(p, removals) =
           <<<<nodes[p.caller_id].worker, ShutdownTask>>>> \o FlattenSeq(told)
      /\ nodes[p.caller_id].worker \in Workers
  <2>1. /\ told \in Seq(Seq(Workers \X Task)) /\ nodes[p.caller_id].worker \in Workers
        /\ ReplacementTasks(p, removals) =
             <<<<nodes[p.caller_id].worker, ShutdownTask>>>> \o FlattenSeq(told)
    BY <1>1, ReplacementTasksAre
  <2>2. Len(told) = n
    BY <1>2
  <2> QED  BY <2>1, <2>2
<1> HIDE DEF told, x, w
<1>10. LastIs(FlattenSeq(told), {w} \X UpdatesOf(t), <<w, x>>)
  BY <1>6, <1>7, <1>8, <1>9, LastOfFlattened
<1>11. /\ <<<<nodes[p.caller_id].worker, ShutdownTask>>>> \in Seq(Workers \X Task)
       /\ FlattenSeq(told) \in Seq(Workers \X Task)
  BY <1>9, FlattenedType DEF Task
<1> QED  BY <1>9, <1>10, <1>11, LastOfConcat DEF x, w

\* LastUpdate finds that last update in a stream.
LEMMA LastUpdateRead ==
  ASSUME NEW q \in Seq(Task), NEW t, NEW A \in SUBSET Apis,
         LastIs(q, UpdatesOf(t), PublisherUpdate(t, A))
  PROVE  LET i == SelectLastInSeq(q, LAMBDA task :
                    task.method = "publisher_update" /\ task.topic = t)
         IN i # 0 /\ q[i].publishers = A
<1> DEFINE I == {i \in 1..Len(q) : q[i].method = "publisher_update" /\ q[i].topic = t}
<1>1. Len(q) \in Nat /\ DOMAIN q = 1..Len(q) /\ \A i \in 1..Len(q) : q[i] \in Task
  OBVIOUS
<1>2. PICK k \in 1..Len(q) : /\ q[k] = PublisherUpdate(t, A)
                             /\ \A j \in 1..Len(q) : j > k /\ q[j] \in UpdatesOf(t) => q[j] = PublisherUpdate(t, A)
  BY <1>1 DEF LastIs
<1>3. \A i \in I : q[i] \in UpdatesOf(t)
  <2>1. \A task \in Task : task.method = "publisher_update" /\ task.topic = t => task \in UpdatesOf(t)
    BY DEF Task, ShutdownTask, UpdatesOf, PublisherUpdate
  <2> QED  BY <1>1, <2>1
<1>4. k \in I /\ I \in SUBSET (1..Len(q))
  BY <1>2 DEF PublisherUpdate
<1>5. SelectLastInSeq(q, LAMBDA task : task.method = "publisher_update" /\ task.topic = t)
        = IF I # {} THEN Max(I) ELSE 0
  BY DEF SelectLastInSeq
<1> HIDE DEF I
<1>6. \E m \in I : \A i \in I : m >= i
  <2>1. PICK m \in I : \A i \in I : i <= m
    BY <1>1, <1>4, Greatest
  <2>2. \A i \in I : m >= i
    BY <1>4, <2>1
  <2> QED  BY <2>2
<1>7. Max(I) \in I /\ \A i \in I : Max(I) >= i
  BY <1>6 DEF Max
<1>8. Max(I) # 0 /\ Max(I) \in 1..Len(q) /\ (Max(I) > k \/ Max(I) = k)
  <2> DEFINE m == Max(I)
  <2>1. m \in 1..Len(q) /\ m >= k
    BY <1>4, <1>7
  <2> HIDE DEF m
  <2>2. m # 0 /\ (m > k \/ m = k)
    BY <1>1, <2>1
  <2> QED  BY <2>1, <2>2 DEF m
<1>9. q[Max(I)] = PublisherUpdate(t, A)
  BY <1>2, <1>3, <1>7, <1>8
<1> QED  BY <1>4, <1>5, <1>8, <1>9 DEF PublisherUpdate

\* Parameter updates are tasks, and there are finitely many.
LEMMA NoticesTyped ==
  ASSUME TablesTypeOK, FiniteTables, NEW key \in Keys, NEW value \in ParamValues, NEW caller
  PROVE  /\ ParamNotices(key, value, caller) \in SUBSET (Clients \X Task \X Keys)
         /\ NestedParamNotices(key, value) \in SUBSET (Clients \X Task \X Keys)
         /\ IsFiniteSet(ParamNotices(key, value, caller))
         /\ IsFiniteSet(NestedParamNotices(key, value))
<1> DEFINE notice(k) == IF IsPrefix(k, key) THEN ParamUpdate(key, value) ELSE ParamUpdate(k, EmptyTree)
           nested(k) == ParamUpdate(k, SubTree(value, SubKey(key, k)))
           N == ParamNotices(key, value, caller)
           M == NestedParamNotices(key, value)
<1>1. \A k \in DOMAIN param_subscribers : k \in Keys /\ param_subscribers[k] \subseteq Clients
  BY DEF TablesTypeOK, IsDict
<1>2. \A m \in N : \E k \in DOMAIN param_subscribers : \E r \in param_subscribers[k] : m = <<r, notice(k), k>>
  BY DEF ParamNotices
<1>3. \A m \in M : \E k \in DOMAIN param_subscribers : \E r \in param_subscribers[k] :
        m = <<r, nested(k), k>> /\ SubKey(key, k) \in DOMAIN value
  BY DEF NestedParamNotices
<1> DEFINE Parts == UNION {{SubTree(v, p) : p \in DOMAIN v} : v \in ParamValues}
<1>4. \A k \in Keys, v \in Parts \cup ParamValues \cup {EmptyTree} : ParamUpdate(k, v) \in Task
  <2> DEFINE Values == Parts \cup ParamValues \cup {EmptyTree}
  <2>1. Task = [method : {"publisher_update"}, topic : Topics, publishers : SUBSET Apis]
               \cup {ShutdownTask} \cup [method : {"param_update"}, key : Keys, value : Values]
    BY DEF Task
  <2> HIDE DEF Values, Parts
  <2>2. \A k \in Keys, v \in Values :
          ParamUpdate(k, v) \in [method : {"param_update"}, key : Keys, value : Values]
    BY DEF ParamUpdate
  <2>3. \A k \in Keys, v \in Values : ParamUpdate(k, v) \in Task
    BY <2>1, <2>2
  <2> QED  BY <2>3 DEF Values
<1>5. \A k \in Keys : notice(k) \in Task
  <2> HIDE DEF Parts
  <2> QED  BY <1>4
<1>6. \A p \in DOMAIN value : SubTree(value, p) \in Parts
  OBVIOUS
<1>7. \A k \in Keys : SubKey(key, k) \in DOMAIN value => nested(k) \in Task
  <2> HIDE DEF Parts
  <2> QED  BY <1>4, <1>6
<1> HIDE DEF notice, nested, N, M
<1>8. N \in SUBSET (Clients \X Task \X Keys)
  BY <1>1, <1>2, <1>5
<1>9. M \in SUBSET (Clients \X Task \X Keys)
  BY <1>1, <1>3, <1>7
<1>10. IsFiniteSet(N)
  <2> DEFINE f == [m \in N |-> <<m[3], m[1]>>]
  <2>1. \A m \in N : <<m[3], m[1]>> \in Registered(Keys, param_subscribers)
    BY <1>1, <1>2 DEF Registered
  <2>2. \A m, o \in N : m[3] = o[3] /\ m[1] = o[1] => m = o
    BY <1>2
  <2>3. f \in Injection(N, Registered(Keys, param_subscribers))
    BY <2>1, <2>2 DEF Injection, IsInjective
  <2> QED  BY <2>3, FS_Injection DEF FiniteTables
<1>11. IsFiniteSet(M)
  <2> DEFINE f == [m \in M |-> <<m[3], m[1]>>]
  <2>1. \A m \in M : <<m[3], m[1]>> \in Registered(Keys, param_subscribers)
    BY <1>1, <1>3 DEF Registered
  <2>2. \A m, o \in M : m[3] = o[3] /\ m[1] = o[1] => m = o
    BY <1>3
  <2>3. f \in Injection(M, Registered(Keys, param_subscribers))
    BY <2>1, <2>2 DEF Injection, IsInjective
  <2> QED  BY <2>3, FS_Injection DEF FiniteTables
<1> QED  BY <1>8, <1>9, <1>10, <1>11 DEF N, M

\* _on_param_update sends a prefix of them: those before the first subscriber
\* without a Node.
LEMMA ParamUpdateQueues ==
  ASSUME QueueInv, NEW p \in Clients, NEW key \in Keys, NEW value \in ParamValues,
         OnParamUpdate(p, key, value)
  PROVE  queue' \in [Workers -> Seq(Task)]
<1> DEFINE N == ParamNotices(key, value, p.caller_id)
           M == NestedParamNotices(key, value)
<1>1. PICK first \in SetToSeqs(N), second \in SetToSeqs(M) :
        LET all == first \o second
            failing == {i \in DOMAIN all : all[i][1].caller_id \notin DOMAIN nodes}
            sent == {i \in DOMAIN all : \A j \in failing : i < j}
        IN Enqueue([i \in sent |-> <<nodes[all[i][1].caller_id].worker, all[i][2]>>])
  BY DEF OnParamUpdate
<1> DEFINE all == first \o second
           failing == {i \in DOMAIN all : all[i][1].caller_id \notin DOMAIN nodes}
           sent == {i \in DOMAIN all : \A j \in failing : i < j}
           batch == [i \in sent |-> <<nodes[all[i][1].caller_id].worker, all[i][2]>>]
<1>2. first \in Seq(N) /\ second \in Seq(M)
  BY NoticesTyped, Ordered DEF QueueInv, IInv
<1>3. all \in Seq(Clients \X Task \X Keys)
  <2>1. first \in Seq(Clients \X Task \X Keys) /\ second \in Seq(Clients \X Task \X Keys)
    <3>1. N \subseteq Clients \X Task \X Keys /\ M \subseteq Clients \X Task \X Keys
      BY NoticesTyped DEF QueueInv, IInv
    <3> HIDE DEF N, M
    <3> QED  BY <1>2, <3>1
  <2> QED  BY <2>1, ConcatProperties
<1>4. Enqueue(batch)
  BY <1>1
<1> HIDE DEF all
<1>5. Len(all) \in Nat /\ DOMAIN all = 1..Len(all) /\ \A i \in 1..Len(all) : all[i] \in Clients \X Task \X Keys
  BY <1>3
<1>6. \E n \in Nat : sent = 1..n
  <2>1. CASE failing = {}
    BY <1>5, <2>1
  <2>2. CASE failing # {}
    <3>1. failing \in SUBSET Nat /\ failing \subseteq 1..Len(all)
      BY <1>5
    <3>2. PICK j \in failing : \A i \in failing : j <= i
      <4> HIDE DEF failing
      <4> QED  BY <2>2, <3>1, Least
    <3>3. j - 1 \in Nat /\ j \in 1..Len(all)
      BY <3>1
    <3>4. ASSUME NEW i \in sent PROVE i \in 1..(j - 1)
      BY <1>5, <3>1, <3>3
    <3>5. ASSUME NEW i \in 1..(j - 1) PROVE i \in sent
      <4>1. \A k \in failing : k \in Nat /\ j <= k /\ i < j
        BY <3>1, <3>2, <3>3
      <4>2. \A k \in failing : i < k
        BY <3>3, <4>1
      <4>3. i \in DOMAIN all
        BY <1>5, <3>3
      <4> HIDE DEF failing
      <4> QED  BY <4>2, <4>3
    <3> QED  BY <3>3, <3>4, <3>5
  <2> QED  BY <2>1, <2>2
<1>7. ASSUME NEW i \in sent
      PROVE  <<nodes[all[i][1].caller_id].worker, all[i][2]>> \in Workers \X Task
  <2>1. i \in 1..Len(all) /\ i \notin failing
    BY <1>5
  <2>2. all[i][1].caller_id \in DOMAIN nodes
    BY <1>5, <2>1
  <2>3. nodes[all[i][1].caller_id] \in Node
    BY <2>2 DEF QueueInv, IInv, TablesTypeOK, IsDict
  <2> QED  BY <1>5, <2>1, <2>3 DEF Node
<1> HIDE DEF sent
<1>8. batch \in Seq(Workers \X Task)
  BY <1>6, <1>7
<1> HIDE DEF batch
<1> QED  BY <1>4, <1>8, Enqueued DEF QueueInv

\* The invariant holds at first,
LEMMA InitQueues == Init => QueueInv
BY InitIInv, InitFinite DEF Init, QueueInv

\* and after every step.
LEMMA NextQueues == QueueInv /\ [Next]_vars => QueueInv'
<1> SUFFICES ASSUME QueueInv, [Next]_vars PROVE QueueInv'
  OBVIOUS
<1>1. IInv' /\ FiniteTables'
  BY NextIInv, NextFinite DEF QueueInv
<1>2. ASSUME NEW p \in Clients, NEW removals \in Removals(p), Enqueue(ReplacementTasks(p, removals))
      PROVE  queue' \in [Workers -> Seq(Task)]
  BY <1>2, ReplacementTyped, Enqueued DEF QueueInv
<1>3. ASSUME NEW p \in Clients, NEW t \in Topics, NEW type \in Types, RegisterPublisher(p, t, type)
      PROVE  queue' \in [Workers -> Seq(Task)]
  <2>1. PICK removals \in Removals(p) :
          Enqueue(ReplacementTasks(p, removals) \o
                    UpdateSubscribers(t, publications'[t], subscriptions', nodes'))
    BY <1>3 DEF RegisterPublisher
  <2>2. t \in DOMAIN publications'
    BY <1>3 DEF RegisterPublisher, AddTo, Put
  <2>3. UpdateSubscribers(t, publications'[t], subscriptions', nodes') \in Seq(Workers \X Task)
    <3> DEFINE x == PublisherUpdate(t, ApisOf(publications'[t]))
               u == UpdateSubscribers(t, publications'[t], subscriptions', nodes')
    <3>1. publications'[t] \in SUBSET Clients
      BY <1>1, <2>2 DEF IInv, TablesTypeOK, IsDict
    <3>2. /\ IsDict(subscriptions', Topics, SUBSET Clients) /\ IsDict(nodes', Callers, Node)
          /\ IsFiniteSet(Registered(Topics, subscriptions'))
      BY <1>1 DEF IInv, TablesTypeOK, FiniteTables, Registered, IsDict
    <3>3. u \in Seq(Workers \X {x}) /\ x \in Task
      BY <3>1, <3>2, Updates
    <3> QED  BY <3>3
  <2>4. ReplacementTasks(p, removals) \o
          UpdateSubscribers(t, publications'[t], subscriptions', nodes') \in Seq(Workers \X Task)
    BY <2>3, ReplacementTyped, ConcatProperties
  <2> QED  BY <2>1, <2>4, Enqueued DEF QueueInv
<1>4. ASSUME NEW p \in Clients, NEW t \in Topics, UnregisterPublisher(p, t)
      PROVE  queue' \in [Workers -> Seq(Task)]
  <2> DEFINE x == PublisherUpdate(t, ApisOf(GetOr(publications', t, {})))
             u == UpdateSubscribers(t, GetOr(publications', t, {}), subscriptions, nodes')
  <2>1. Enqueue(u)
    BY <1>4 DEF UnregisterPublisher
  <2>2. GetOr(publications', t, {}) \in SUBSET Clients /\ IsDict(nodes', Callers, Node)
    BY <1>1 DEF IInv, TablesTypeOK, IsDict, GetOr
  <2>3. u \in Seq(Workers \X {x}) /\ x \in Task
    BY <2>2, Updates DEF QueueInv, IInv, TablesTypeOK, FiniteTables
  <2>4. u \in Seq(Workers \X Task)
    BY <2>3
  <2> QED  BY <2>1, <2>4, Enqueued DEF QueueInv
<1>5. ASSUME NEW w \in Workers, ServeTask(w) PROVE queue' \in [Workers -> Seq(Task)]
  <2>1. queue[w] \in Seq(Task) /\ queue[w] # << >> /\ queue' = [queue EXCEPT ![w] = Tail(@)]
    BY <1>5 DEF ServeTask, QueueInv
  <2>2. Tail(queue[w]) \in Seq(Task)
    BY <2>1
  <2> QED  BY <2>1, <2>2 DEF QueueInv
<1>6. \/ queue' = queue
      \/ \E p \in Clients : \E removals \in Removals(p) : Enqueue(ReplacementTasks(p, removals))
      \/ \E p \in Clients, t \in Topics, type \in Types : RegisterPublisher(p, t, type)
      \/ \E p \in Clients, t \in Topics : UnregisterPublisher(p, t)
      \/ \E p \in Clients, k \in Keys, v \in ParamValues : OnParamUpdate(p, k, v)
      \/ \E w \in Workers : ServeTask(w)
  BY DEF Next, vars, RegisterService, UnregisterService, RegisterSubscriber, UnregisterSubscriber,
         RegisterParamSubscriber, UnregisterParamSubscriber, ServeEnds, ServeFails, Shutdown
<1>7. queue' \in [Workers -> Seq(Task)]
  BY <1>2, <1>3, <1>4, <1>5, <1>6, ParamUpdateQueues DEF QueueInv
<1> QED  BY <1>1, <1>7 DEF QueueInv

\* It holds in every reachable state.
LEMMA QueueInvariant == Spec => []QueueInv
BY InitQueues, NextQueues, PTL DEF Spec

\* The registry's tables, its nodes and the tasks on its send streams are of
\* their types in every reachable state.
THEOREM TypesCorrect == Spec => []TypeOK
<1>1. QueueInv => TypeOK
  BY DEF QueueInv, IInv, TypeOK
<1> QED  BY <1>1, QueueInvariant, PTL

\* After the step the last update of t on the stream of every subscriber that
\* stays has the topic's publishers.
Notified(t) ==
  \A r \in StayingSubscribers(t) : NodeStays(r.caller_id) =>
    LastIs(queue'[nodes'[r.caller_id].worker], UpdatesOf(t), PublisherUpdate(t, PublisherApis(t)'))

\* A step whose only change of t is the replacement of a caller's Node,
LEMMA ReplacementNotifies ==
  ASSUME QueueInv, NEW p \in Clients, NEW removals \in Removals(p), Enqueue(ReplacementTasks(p, removals)),
         NEW t \in Topics, GetOr(publications', t, {}) = GetOr(UnregisterAll(publications, p), t, {}),
         PublishersChange(t)
  PROVE  Notified(t)
<1> SUFFICES ASSUME NEW r \in StayingSubscribers(t), NodeStays(r.caller_id)
             PROVE  LastIs(queue'[nodes'[r.caller_id].worker], UpdatesOf(t), PublisherUpdate(t, PublisherApis(t)'))
  BY DEF Notified
<1> DEFINE w == nodes[r.caller_id].worker
<1>1. /\ t \in DOMAIN publications /\ UnregisterAll(publications, p)[t] # publications[t]
      /\ PublisherApis(t)' = ApisOf(UnregisterAll(publications, p)[t])
  BY DEF PublishersChange, PublisherApis, GetOr, UnregisterAll
<1>2. /\ r \in GetOr(subscriptions, t, {}) /\ r.caller_id \in DOMAIN nodes
      /\ nodes'[r.caller_id].worker = w /\ w \in Workers
  BY DEF StayingSubscribers, NodeStays, QueueInv, IInv, TablesTypeOK, IsDict, Node
<1> DEFINE x == PublisherUpdate(t, ApisOf(UnregisterAll(publications, p)[t]))
<1>3. LastIs(ReplacementTasks(p, removals), {w} \X UpdatesOf(t), <<w, x>>)
  BY <1>1, <1>2, ReplacementTold
<1> HIDE DEF w, x
<1>4. LastIs(queue'[w], UpdatesOf(t), x)
  BY <1>2, <1>3, ReplacementTyped, Enqueued DEF QueueInv
<1> QED  BY <1>1, <1>2, <1>4 DEF x

\* registerPublisher, which may also replace the caller's Node,
LEMMA RegisterPublisherNotifies ==
  ASSUME QueueInv, QueueInv', NEW p \in Clients, NEW topic \in Topics, NEW type \in Types,
         RegisterPublisher(p, topic, type), NEW t \in Topics, PublishersChange(t)
  PROVE  Notified(t)
<1> SUFFICES ASSUME NEW r \in StayingSubscribers(t), NodeStays(r.caller_id)
             PROVE  LastIs(queue'[nodes'[r.caller_id].worker], UpdatesOf(t), PublisherUpdate(t, PublisherApis(t)'))
  BY DEF Notified
<1> DEFINE w == nodes[r.caller_id].worker
           u == UpdateSubscribers(topic, publications'[topic], subscriptions', nodes')
           y == PublisherUpdate(topic, ApisOf(publications'[topic]))
           x == PublisherUpdate(t, PublisherApis(t)')
<1>1. PICK removals \in Removals(p) : Enqueue(ReplacementTasks(p, removals) \o u)
  BY DEF RegisterPublisher
<1>2. /\ r \in GetOr(subscriptions, t, {}) /\ r \in GetOr(subscriptions', t, {})
      /\ r.caller_id \in DOMAIN nodes /\ r.caller_id \in DOMAIN nodes'
      /\ nodes'[r.caller_id].worker = w /\ w \in Workers
  BY DEF StayingSubscribers, NodeStays, QueueInv, IInv, TablesTypeOK, IsDict, Node
<1>3. topic \in DOMAIN publications'
  BY DEF RegisterPublisher, AddTo, Put
<1>4. /\ u \in Seq(Workers \X {y}) /\ y \in Task
      /\ \A q \in GetOr(subscriptions', topic, {}) : q.caller_id \in DOMAIN nodes' =>
           LastIs(u, {nodes'[q.caller_id].worker} \X UpdatesOf(topic), <<nodes'[q.caller_id].worker, y>>)
  <2>1. publications'[topic] \in SUBSET Clients
    BY <1>3 DEF QueueInv, IInv, TablesTypeOK, IsDict
  <2>2. /\ IsDict(subscriptions', Topics, SUBSET Clients) /\ IsDict(nodes', Callers, Node)
        /\ IsFiniteSet(Registered(Topics, subscriptions'))
    BY DEF QueueInv, IInv, TablesTypeOK, FiniteTables, Registered, IsDict
  <2> QED  BY <2>1, <2>2, Updates
<1>5. u \in Seq(Workers \X Task) /\ ReplacementTasks(p, removals) \in Seq(Workers \X Task)
  BY <1>4, ReplacementTyped
<1>6. LastIs(ReplacementTasks(p, removals) \o u, {w} \X UpdatesOf(t), <<w, x>>)
  <2>1. CASE t = topic
    <3>1. x = y
      BY <1>3, <2>1 DEF PublisherApis, GetOr
    <3>2. LastIs(u, {w} \X UpdatesOf(t), <<w, x>>)
      BY <1>2, <1>4, <2>1, <3>1
    <3> HIDE DEF u, x, w
    <3> QED  BY <1>5, <3>2, LastOfConcat
  <2>2. CASE t # topic
    <3>1. GetOr(publications', t, {}) = GetOr(UnregisterAll(publications, p), t, {})
      BY <2>2 DEF RegisterPublisher, AddTo, Put, GetOr
    <3>2. /\ t \in DOMAIN publications /\ UnregisterAll(publications, p)[t] # publications[t]
          /\ PublisherApis(t)' = ApisOf(UnregisterAll(publications, p)[t])
      BY <3>1 DEF PublishersChange, PublisherApis, GetOr, UnregisterAll
    <3>3. LastIs(ReplacementTasks(p, removals), {w} \X UpdatesOf(t), <<w, x>>)
      BY <1>2, <3>2, ReplacementTold
    <3>4. y \notin UpdatesOf(t)
      BY <2>2 DEF UpdatesOf, PublisherUpdate
    <3> HIDE DEF u, x, y, w
    <3>5. Only(u, {w} \X UpdatesOf(t), <<w, x>>)
      <4>1. \A i \in DOMAIN u : u[i] \in Workers \X {y}
        BY <1>4
      <4> QED  BY <3>4, <4>1 DEF Only
    <3> QED  BY <1>5, <3>3, <3>5, LastOfConcat
  <2> QED  BY <2>1, <2>2
<1> HIDE DEF u, x, w
<1>7. ReplacementTasks(p, removals) \o u \in Seq(Workers \X Task)
  BY <1>5, ConcatProperties
<1>8. LastIs(queue'[w], UpdatesOf(t), x)
  BY <1>1, <1>2, <1>6, <1>7, Enqueued DEF QueueInv
<1> QED  BY <1>2, <1>8 DEF x

\* and unregisterPublisher leave their subscribers notified.
LEMMA UnregisterPublisherNotifies ==
  ASSUME QueueInv, QueueInv', NEW p \in Clients, NEW topic \in Topics,
         UnregisterPublisher(p, topic), NEW t \in Topics, PublishersChange(t)
  PROVE  Notified(t)
<1> SUFFICES ASSUME NEW r \in StayingSubscribers(t), NodeStays(r.caller_id)
             PROVE  LastIs(queue'[nodes'[r.caller_id].worker], UpdatesOf(t), PublisherUpdate(t, PublisherApis(t)'))
  BY DEF Notified
<1> DEFINE w == nodes[r.caller_id].worker
           u == UpdateSubscribers(topic, GetOr(publications', topic, {}), subscriptions, nodes')
           x == PublisherUpdate(t, PublisherApis(t)')
<1>1. t = topic
  BY DEF UnregisterPublisher, PublishersChange, PublisherApis, DiscardFrom, Drop, Put, GetOr
<1>2. /\ r \in GetOr(subscriptions, t, {}) /\ r.caller_id \in DOMAIN nodes'
      /\ nodes'[r.caller_id].worker = w /\ w \in Workers
  BY DEF StayingSubscribers, NodeStays, QueueInv, IInv, TablesTypeOK, IsDict, Node
<1>3. x = PublisherUpdate(topic, ApisOf(GetOr(publications', topic, {})))
  BY <1>1 DEF PublisherApis
<1>4. u \in Seq(Workers \X {x}) /\ x \in Task /\ LastIs(u, {w} \X UpdatesOf(t), <<w, x>>)
  <2>1. GetOr(publications', topic, {}) \in SUBSET Clients /\ IsDict(nodes', Callers, Node)
    BY DEF QueueInv, IInv, TablesTypeOK, IsDict, GetOr
  <2> QED  BY <1>1, <1>2, <1>3, <2>1, Updates DEF QueueInv, IInv, TablesTypeOK, FiniteTables
<1>5. Enqueue(u)
  BY DEF UnregisterPublisher
<1> HIDE DEF u, x, w
<1>6. u \in Seq(Workers \X Task)
  BY <1>4
<1>7. LastIs(queue'[w], UpdatesOf(t), x)
  BY <1>2, <1>4, <1>5, <1>6, Enqueued DEF QueueInv
<1> QED  BY <1>2, <1>7 DEF x

\* Whenever the publishers of a topic change, by a call about it or because a
\* restarted publisher is replaced, the last update on the stream of every
\* subscriber that stays has all its publishers and no other.
THEOREM PublisherChangesNotified == Spec => PublisherChangeNotified
<1>1. ASSUME QueueInv, QueueInv', [Next]_vars, NEW t \in Topics, PublishersChange(t),
             NEW r \in StayingSubscribers(t), NodeStays(r.caller_id)
      PROVE  LastUpdate(nodes[r.caller_id].worker, t)' = PublisherApis(t)'
  <2>1. ASSUME NEW p \in Clients, NEW removals \in Removals(p),
               Enqueue(ReplacementTasks(p, removals)),
               publications' = UnregisterAll(publications, p)
        PROVE  Notified(t)
    BY <1>1, <2>1, ReplacementNotifies
  <2>2. publications' # publications
    BY <1>1 DEF PublishersChange, PublisherApis
  <2>3. \/ \E p \in Clients : \E removals \in Removals(p) :
             Enqueue(ReplacementTasks(p, removals)) /\ publications' = UnregisterAll(publications, p)
        \/ \E p \in Clients, topic \in Topics, type \in Types : RegisterPublisher(p, topic, type)
        \/ \E p \in Clients, topic \in Topics : UnregisterPublisher(p, topic)
    BY <1>1, <2>2
       DEF Next, vars, tables, RegisterService, UnregisterService, RegisterSubscriber,
           UnregisterSubscriber, RegisterParamSubscriber, UnregisterParamSubscriber,
           OnParamUpdate, ServeTask, ServeEnds, ServeFails, Shutdown
  <2>4. Notified(t)
    BY <1>1, <2>1, <2>3, RegisterPublisherNotifies, UnregisterPublisherNotifies
  <2> DEFINE w == nodes'[r.caller_id].worker
             A == PublisherApis(t)'
  <2>5. LastIs(queue'[w], UpdatesOf(t), PublisherUpdate(t, A))
    BY <1>1, <2>4 DEF Notified
  <2>6. A \in SUBSET Apis /\ queue'[w] \in Seq(Task)
    <3>1. GetOr(publications', t, {}) \in SUBSET Clients
      BY <1>1 DEF QueueInv, IInv, TablesTypeOK, IsDict, GetOr
    <3>2. A \in SUBSET Apis
      BY <3>1, ClientsAssumption DEF PublisherApis, ApisOf
    <3>3. w \in Workers
      BY <1>1 DEF NodeStays, QueueInv, IInv, TablesTypeOK, IsDict, Node
    <3> QED  BY <1>1, <3>2, <3>3 DEF QueueInv
  <2> HIDE DEF A
  <2>7. LastUpdate(nodes[r.caller_id].worker, t)' = A
    <3> DEFINE Q == queue'[w]
               i == SelectLastInSeq(Q, LAMBDA task :
                      task.method = "publisher_update" /\ task.topic = t)
    <3>1. i # 0 /\ Q[i].publishers = A
      <4> HIDE DEF Q
      <4>1. LastIs(Q, UpdatesOf(t), PublisherUpdate(t, A)) /\ A \in SUBSET Apis /\ Q \in Seq(Task)
        BY <2>5, <2>6 DEF Q
      <4> QED  BY <4>1, LastUpdateRead
    <3>2. LastUpdate(nodes[r.caller_id].worker, t)' = IF i = 0 THEN {"none"} ELSE Q[i].publishers
      BY DEF LastUpdate, SelectLastInSeq
    <3> HIDE DEF i, Q
    <3> QED  BY <3>1, <3>2
  <2> QED  BY <2>7 DEF A
<1>2. QueueInv /\ QueueInv' /\ [Next]_vars => [\A t \in Topics : PublishersChange(t) =>
       \A r \in StayingSubscribers(t) : NodeStays(r.caller_id) =>
         LastUpdate(nodes[r.caller_id].worker, t)' = PublisherApis(t)']_vars
  BY <1>1
<1> QED  BY <1>2, QueueInvariant, PTL DEF Spec, PublisherChangeNotified
=============================================================================
