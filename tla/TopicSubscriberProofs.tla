------------------------ MODULE TopicSubscriberProofs ------------------------
(***************************************************************************)
(* For any number of subscriptions and publishers: the entries of           *)
(* connected_publishers are live connections, and the subscriptions share   *)
(* one registration with the master.                                        *)
(***************************************************************************)
EXTENDS TopicSubscriber, TLAPS

\* The part of TypeOK that the connections need.
ConnectionsTypeOK ==
  /\ IsDict(connected_publishers, Publishers, Connections)
  /\ IsDict(tasks, Connections, TaskState)
  /\ IsDict(replies, Streams, SUBSET Publishers)
  /\ publications \subseteq Publishers
  /\ updates \in Seq(SUBSET Publishers)

ConnectionsInv == ConnectionsTypeOK /\ EntriesLive

-----------------------------------------------------------------------------
(* update_publishers and the end of a task keep the entries live.           *)

\* The connections stay typed and live whatever list of publishers arrives.
LEMMA UpdatePublishersStep ==
  ASSUME ConnectionsInv, NEW publishers \in SUBSET Publishers,
         UpdatePublishers(publishers)
  PROVE  /\ IsDict(connected_publishers, Publishers, Connections)'
         /\ IsDict(tasks, Connections, TaskState)'
         /\ EntriesLive'
<1> DEFINE known == DOMAIN connected_publishers
           discarded == {connected_publishers[u] : u \in known \ publishers}
           kept == known \cap publishers
           free == Connections \ (DOMAIN tasks \cup Range(connected_publishers))
<1>1. PICK new \in Injection(publishers \ known, free) :
        /\ connected_publishers' =
             [u \in kept \cup DOMAIN new |->
                IF u \in kept THEN connected_publishers[u] ELSE new[u]]
        /\ tasks' =
             [c \in DOMAIN tasks \cup Range(new) |->
                IF c \in DOMAIN tasks
                THEN IF c \in discarded THEN [tasks[c] EXCEPT !.cancelled = TRUE]
                     ELSE tasks[c]
                ELSE [uri |-> CHOOSE u \in DOMAIN new : new[u] = c,
                      point |-> "connecting", cancelled |-> FALSE]]
  BY DEF UpdatePublishers
<1>2. /\ new \in [publishers \ known -> free]
      /\ \A u, v \in DOMAIN new : new[u] = new[v] => u = v
      /\ Range(new) = {new[u] : u \in DOMAIN new}
      /\ DOMAIN new = publishers \ known
      /\ \A u \in DOMAIN new : new[u] \in Connections /\ new[u] \notin DOMAIN tasks
  BY DEF Injection, IsInjective, Range
<1>3. /\ known \subseteq Publishers
      /\ \A u \in known : connected_publishers[u] \in Connections
      /\ DOMAIN tasks \subseteq Connections
      /\ \A c \in DOMAIN tasks : tasks[c] \in TaskState
  BY DEF ConnectionsInv, ConnectionsTypeOK, IsDict
<1>4. \A u \in DOMAIN new : (CHOOSE v \in DOMAIN new : new[v] = new[u]) = u
  BY <1>2
<1>5. \A u \in DOMAIN new :
        /\ new[u] \in DOMAIN tasks'
        /\ tasks'[new[u]] = [uri |-> u, point |-> "connecting", cancelled |-> FALSE]
  BY <1>1, <1>2, <1>4
<1>6. \A c \in DOMAIN tasks :
        /\ c \in DOMAIN tasks'
        /\ tasks'[c] = IF c \in discarded THEN [tasks[c] EXCEPT !.cancelled = TRUE]
                       ELSE tasks[c]
  BY <1>1
<1>7. \A c \in DOMAIN tasks :
        /\ tasks'[c] \in TaskState
        /\ tasks'[c].uri = tasks[c].uri
        /\ c \notin discarded => tasks'[c].cancelled = tasks[c].cancelled
  BY <1>3, <1>6 DEF TaskState
<1>8. IsDict(connected_publishers, Publishers, Connections)'
  BY <1>1, <1>2, <1>3 DEF IsDict
<1>9. IsDict(tasks, Connections, TaskState)'
  <2>1. DOMAIN tasks' = DOMAIN tasks \cup {new[u] : u \in DOMAIN new}
    BY <1>1, <1>2
  <2>2. \A c \in DOMAIN tasks' : tasks'[c] \in TaskState
    <3>1. \A u \in DOMAIN new : tasks'[new[u]] \in TaskState
      <4>1. \A u \in Publishers :
              [uri |-> u, point |-> "connecting", cancelled |-> FALSE] \in TaskState
        BY DEF TaskState
      <4>2. DOMAIN new \subseteq Publishers
        BY <1>2
      <4>3. QED
        BY <4>1, <4>2, <1>5
    <3>2. QED
      BY <2>1, <3>1, <1>7
  <2>3. tasks' = [c \in DOMAIN tasks' |-> tasks'[c]]
    BY <1>1
  <2>4. QED
    BY <2>1, <2>2, <2>3, <1>2, <1>3 DEF IsDict
<1>10. EntriesLive'
  <2> SUFFICES ASSUME NEW u \in DOMAIN connected_publishers'
               PROVE  LET c == connected_publishers'[u]
                      IN c \in DOMAIN tasks' /\ tasks'[c].uri = u /\ ~tasks'[c].cancelled
    BY DEF EntriesLive
  <2>1. CASE u \in kept
    <3>1. connected_publishers'[u] = connected_publishers[u]
      BY <1>1, <2>1
    <3>2. /\ connected_publishers[u] \in DOMAIN tasks
          /\ tasks[connected_publishers[u]].uri = u
          /\ ~tasks[connected_publishers[u]].cancelled
      BY <2>1 DEF ConnectionsInv, EntriesLive
    <3>3. connected_publishers[u] \notin discarded
      BY <2>1, <3>2 DEF ConnectionsInv, EntriesLive
    <3>4. QED
      BY <3>1, <3>2, <3>3, <1>6, <1>7
  <2>2. CASE u \notin kept
    BY <1>1, <1>2, <1>5, <2>2
  <2>3. QED
    BY <2>1, <2>2
<1>11. QED
  BY <1>8, <1>9, <1>10

\* The end of a task that reads, or of one that is cancelled, leaves no entry
\* without its task.
LEMMA EndStep ==
  ASSUME ConnectionsInv, NEW c \in DOMAIN tasks,
         tasks[c].cancelled \/ tasks[c].point = "reading", End(c)
  PROVE  /\ IsDict(connected_publishers, Publishers, Connections)'
         /\ IsDict(tasks, Connections, TaskState)'
         /\ EntriesLive'
<1>1. /\ DOMAIN tasks' = DOMAIN tasks \ {c}
      /\ tasks' = [d \in DOMAIN tasks \ {c} |-> tasks[d]]
  BY DEF End, Drop
<1>2. /\ DOMAIN connected_publishers' \subseteq DOMAIN connected_publishers
      /\ connected_publishers' =
           [u \in DOMAIN connected_publishers' |-> connected_publishers[u]]
      /\ tasks[c].point = "reading" => tasks[c].uri \notin DOMAIN connected_publishers'
  <2>1. CASE tasks[c].point = "reading"
    BY <2>1 DEF End, Drop
  <2>2. CASE tasks[c].point # "reading"
    BY <2>2 DEF End, ConnectionsInv, ConnectionsTypeOK, IsDict
  <2>3. QED
    BY <2>1, <2>2
<1>3. /\ IsDict(connected_publishers, Publishers, Connections)'
      /\ IsDict(tasks, Connections, TaskState)'
  BY <1>1, <1>2 DEF ConnectionsInv, ConnectionsTypeOK, IsDict
<1>4. EntriesLive'
  BY <1>1, <1>2 DEF ConnectionsInv, EntriesLive
<1>5. QED
  BY <1>3, <1>4

-----------------------------------------------------------------------------
\* A step that leaves the connections alone, up to what the master has sent.
LEMMA ConnectionsUnchanged ==
  ASSUME ConnectionsInv, UNCHANGED <<connected_publishers, tasks>>,
         IsDict(replies, Streams, SUBSET Publishers)',
         publications' \subseteq Publishers, updates' \in Seq(SUBSET Publishers)
  PROVE  ConnectionsInv'
BY DEF ConnectionsInv, ConnectionsTypeOK, EntriesLive, IsDict

\* The answer of a stream is taken or thrown away, the others stay.
LEMMA RepliesDropped ==
  ASSUME ConnectionsInv, NEW s
  PROVE  IsDict(Drop(replies, s), Streams, SUBSET Publishers)
BY DEF ConnectionsInv, ConnectionsTypeOK, IsDict, Drop

\* The answer of the master to a stream.
LEMMA RepliesPut ==
  ASSUME ConnectionsInv, NEW s \in Streams, NEW p \in SUBSET Publishers
  PROVE  IsDict(Put(replies, s, p), Streams, SUBSET Publishers)
BY DEF ConnectionsInv, ConnectionsTypeOK, IsDict, Put

\* The callers of register and unregister.
LEMMA StreamConnections ==
  ASSUME ConnectionsInv, NEW s \in Streams,
         \/ Enter(s) \/ Register(s) \/ Registered(s)
         \/ RegisterTimesOut(s) \/ RegisterUnreachable(s) \/ CancelEnter(s)
         \/ Leave(s) \/ CancelledLeave(s) \/ Unregister(s) \/ Unregistered(s)
         \/ UnregisterTimesOut(s)
  PROVE  ConnectionsInv'
<1>0. ConnectionsTypeOK
  BY DEF ConnectionsInv
<1>1. CASE Registered(s)
  <2>1. /\ replies[s] \in SUBSET Publishers /\ UpdatePublishers(replies[s])
        /\ replies' = Drop(replies, s) /\ UNCHANGED <<publications, updates>>
    BY <1>0, <1>1 DEF Registered, ConnectionsTypeOK, IsDict, master
  <2>2. QED
    BY <2>1, <1>0, UpdatePublishersStep, RepliesDropped DEF ConnectionsInv, ConnectionsTypeOK, IsDict
<1>2. CASE Unregistered(s)
  <2>1. /\ {} \in SUBSET Publishers /\ UpdatePublishers({})
        /\ replies' = Drop(replies, s) /\ UNCHANGED <<publications, updates>>
    BY <1>2 DEF Unregistered, master
  <2>2. QED
    BY <2>1, <1>0, UpdatePublishersStep, RepliesDropped DEF ConnectionsInv, ConnectionsTypeOK, IsDict
<1>3. CASE RegisterTimesOut(s) \/ UnregisterTimesOut(s)
  <2>1. /\ UNCHANGED <<connected_publishers, tasks, publications, updates>>
        /\ replies' = Drop(replies, s)
    BY <1>3 DEF RegisterTimesOut, UnregisterTimesOut, manager, master
  <2>2. QED
    BY <2>1, <1>0, ConnectionsUnchanged, RepliesDropped DEF ConnectionsTypeOK, IsDict
<1>4. CASE \/ Enter(s) \/ Register(s) \/ RegisterUnreachable(s) \/ CancelEnter(s)
           \/ Leave(s) \/ CancelledLeave(s) \/ Unregister(s)
  <2>1. UNCHANGED <<connected_publishers, tasks, replies, publications, updates>>
    BY <1>4 DEF Enter, Register, RegisterUnreachable, CancelEnter, Leave, CancelledLeave,
                Unregister, manager, master
  <2>2. QED
    BY <2>1, <1>0, ConnectionsUnchanged DEF ConnectionsTypeOK, IsDict
<1>5. QED
  BY <1>1, <1>2, <1>3, <1>4

\* The connections' own tasks.
LEMMA TaskConnections ==
  ASSUME ConnectionsInv, NEW c \in Connections,
         \/ Connect(c) \/ SubscribeTaskEnds(c)
         \/ MessageToClosedStream(c) \/ SubscribeTaskFails(c)
  PROVE  ConnectionsInv'
<1>0. ConnectionsTypeOK
  BY DEF ConnectionsInv
<1>1. CASE Connect(c)
  <2>1. /\ c \in DOMAIN tasks /\ tasks' = [tasks EXCEPT ![c].point = "reading"]
        /\ UNCHANGED <<connected_publishers, replies, publications, updates>>
    BY <1>1 DEF Connect, master
  <2>2. \A d \in DOMAIN tasks : tasks[d] \in TaskState
    BY <1>0 DEF ConnectionsTypeOK, IsDict
  <2>3. /\ DOMAIN tasks' = DOMAIN tasks
        /\ tasks' = [d \in DOMAIN tasks |-> tasks'[d]]
        /\ \A d \in DOMAIN tasks : /\ tasks'[d] \in TaskState
                                   /\ tasks'[d].uri = tasks[d].uri
                                   /\ tasks'[d].cancelled = tasks[d].cancelled
    BY <2>1, <2>2 DEF TaskState
  <2>4. IsDict(tasks, Connections, TaskState)'
    BY <1>0, <2>3 DEF ConnectionsTypeOK, IsDict
  <2>5. EntriesLive'
    BY <2>1, <2>3 DEF ConnectionsInv, EntriesLive
  <2>6. QED
    BY <1>0, <2>1, <2>4, <2>5 DEF ConnectionsInv, ConnectionsTypeOK, IsDict
<1>2. CASE SubscribeTaskEnds(c)
  <2>1. /\ c \in DOMAIN tasks /\ End(c) /\ UNCHANGED <<replies, publications, updates>>
        /\ tasks[c].cancelled \/ tasks[c].point = "reading"
    BY <1>2 DEF SubscribeTaskEnds, master
  <2>2. QED
    BY <1>0, <2>1, EndStep DEF ConnectionsInv, ConnectionsTypeOK, IsDict
<1>3. CASE MessageToClosedStream(c) \/ SubscribeTaskFails(c)
  <2>1. UNCHANGED <<connected_publishers, tasks, replies, publications, updates>>
    BY <1>3 DEF MessageToClosedStream, SubscribeTaskFails, manager, master
  <2>2. QED
    BY <2>1, <1>0, ConnectionsUnchanged DEF ConnectionsTypeOK, IsDict
<1>4. QED
  BY <1>1, <1>2, <1>3

\* The master, and its publisherUpdate call.
LEMMA MasterConnections ==
  ASSUME ConnectionsInv,
         \/ \E s \in Streams : MasterRegisters(s) \/ MasterUnregisters(s)
         \/ \E p \in Publishers : \/ PublisherChange(publications \cup {p})
                                  \/ PublisherChange(publications \ {p})
         \/ PublisherUpdate
  PROVE  ConnectionsInv'
<1>0. ConnectionsTypeOK
  BY DEF ConnectionsInv
<1>1. ASSUME NEW s \in Streams, MasterRegisters(s) \/ MasterUnregisters(s)
      PROVE  ConnectionsInv'
  <2>1. /\ UNCHANGED <<connected_publishers, tasks, publications, updates>>
        /\ \/ replies' = replies
           \/ replies' = Put(replies, s, publications)
           \/ replies' = Put(replies, s, {})
    BY <1>1 DEF MasterRegisters, MasterUnregisters, manager
  <2>2. publications \in SUBSET Publishers /\ {} \in SUBSET Publishers
    BY <1>0 DEF ConnectionsTypeOK
  <2>3. IsDict(replies, Streams, SUBSET Publishers)'
    BY <1>0, <2>1, <2>2, RepliesPut DEF ConnectionsTypeOK, IsDict
  <2>4. QED
    BY <1>0, <2>1, <2>3, ConnectionsUnchanged DEF ConnectionsTypeOK
<1>2. ASSUME NEW publishers \in SUBSET Publishers, PublisherChange(publishers)
      PROVE  ConnectionsInv'
  <2>1. /\ UNCHANGED <<connected_publishers, tasks, replies>>
        /\ publications' = publishers
        /\ updates' \in Seq(SUBSET Publishers)
    BY <1>0, <1>2 DEF PublisherChange, manager, ConnectionsTypeOK
  <2>2. QED
    BY <1>0, <2>1, ConnectionsUnchanged DEF ConnectionsTypeOK, IsDict
<1>3. CASE PublisherUpdate
  <2>1. /\ Head(updates) \in SUBSET Publishers /\ Tail(updates) \in Seq(SUBSET Publishers)
        /\ UpdatePublishers(Head(updates)) /\ updates' = Tail(updates)
        /\ UNCHANGED <<replies, publications>>
    BY <1>0, <1>3 DEF PublisherUpdate, ConnectionsTypeOK
  <2>2. QED
    BY <1>0, <2>1, UpdatePublishersStep DEF ConnectionsInv, ConnectionsTypeOK, IsDict
<1>4. QED
  BY <1>0, <1>1, <1>2, <1>3 DEF ConnectionsTypeOK

\* The connections of the first state, none, are live.
LEMMA InitConnections == Init => ConnectionsInv
BY DEF Init, ConnectionsInv, ConnectionsTypeOK, EntriesLive, EmptyDict, IsDict

\* Every step keeps them so.
LEMMA NextConnections == ConnectionsInv /\ [Next]_vars => ConnectionsInv'
<1>1. CASE UNCHANGED vars
  BY <1>1 DEF vars, manager, master, ConnectionsInv, ConnectionsTypeOK, EntriesLive, IsDict
<1>2. CASE Next
  BY <1>2, StreamConnections, TaskConnections, MasterConnections DEF Next
<1>3. QED
  BY <1>1, <1>2

\* An entry of connected_publishers is a connection that is made or read, to
\* that publisher, and not cancelled.
THEOREM ConnectionsAreLive == Spec => []EntriesLive
<1>1. ConnectionsInv => EntriesLive
  BY DEF ConnectionsInv
<1>2. QED
  BY <1>1, InitConnections, NextConnections, PTL DEF Spec

-----------------------------------------------------------------------------
(* The registration.  Until a call fails, the stream that holds the lock    *)
(* says how far the manager and the master have come.                       *)

Holds(s) == at[s] \in {"registering", "unregistering"}

Exclusion == \A s, t \in Streams : Holds(s) /\ Holds(t) => s = t

\* A call of the master, or its answer, is that of the stream that waits for it.
CallsWaitedFor ==
  \A s \in Streams :
    /\ <<s, "register">> \in calls => at[s] = "registering" /\ s \notin DOMAIN replies
    /\ <<s, "unregister">> \in calls => at[s] = "unregistering" /\ s \notin DOMAIN replies
    /\ s \in DOMAIN replies => Holds(s)

\* The master has done what it has answered.
HolderState ==
  \A s \in Streams :
    /\ at[s] = "registering" => /\ ~registered /\ subscriptions = {}
                                /\ s \in DOMAIN replies => subscribed
    /\ at[s] = "unregistering" => /\ registered /\ subscriptions = {}
                                  /\ s \in DOMAIN replies => ~subscribed
    /\ at[s] \in {"open", "leaving"} => s \in subscriptions

Agreement ==
  LockFree => (registered <=> subscribed) /\ (registered <=> subscriptions # {})

RegistrationTypeOK ==
  /\ at \in [Streams -> Points]
  /\ registered \in BOOLEAN
  /\ subscriptions \subseteq Streams
  /\ calls \subseteq Streams \X {"register", "unregister"}
  /\ subscribed \in BOOLEAN
  /\ faults \in Nat

RegistrationInv ==
  /\ RegistrationTypeOK
  /\ Exclusion
  /\ faults = 0 => CallsWaitedFor /\ HolderState /\ Agreement

\* Entering asks for the lock.
LEMMA EnterStep ==
  ASSUME RegistrationInv, NEW s \in Streams, Enter(s)
  PROVE  RegistrationInv'
<1>1. RegistrationTypeOK'
  BY DEF Enter, RegistrationInv, RegistrationTypeOK, Points, GoTo, Fault, manager, master
<1>2. Exclusion'
  BY DEF Enter, RegistrationInv, RegistrationTypeOK, Exclusion, Holds, LockFree, GoTo,
         Points
<1>3. faults' = 0 => CallsWaitedFor' /\ HolderState' /\ Agreement'
  BY DEF Enter, RegistrationInv, RegistrationTypeOK, Exclusion, CallsWaitedFor,
         HolderState, Agreement, LockFree, Holds, GoTo, Points, Drop, Put, Fault, manager, master
<1>4. QED
  BY <1>1, <1>2, <1>3 DEF RegistrationInv

\* With the lock the first subscription calls the master.
LEMMA RegisterStep ==
  ASSUME RegistrationInv, NEW s \in Streams, Register(s)
  PROVE  RegistrationInv'
<1>1. RegistrationTypeOK'
  BY DEF Register, RegistrationInv, RegistrationTypeOK, Points, GoTo, Fault, manager, master
<1>2. Exclusion'
  BY DEF Register, RegistrationInv, RegistrationTypeOK, Exclusion, Holds, LockFree, GoTo,
         Points
<1>3. ASSUME faults' = 0
      PROVE  CallsWaitedFor' /\ HolderState' /\ Agreement'
  <2>1. /\ at \in [Streams -> Points] /\ at[s] = "entering" /\ LockFree
        /\ UNCHANGED <<registered, subscribed, replies, faults>>
        /\ CallsWaitedFor /\ HolderState /\ Agreement
    BY <1>3 DEF Register, RegistrationInv, RegistrationTypeOK, master
  <2>2. \A t \in Streams : ~Holds(t) /\ t \notin DOMAIN replies
    BY <2>1 DEF LockFree, CallsWaitedFor, Holds
  <2>3. CASE ~registered
    <3>1. /\ at' = [at EXCEPT ![s] = "registering"]
          /\ calls' = calls \cup {<<s, "register">>} /\ UNCHANGED subscriptions
          /\ subscriptions = {}
      BY <2>1, <2>3 DEF Register, GoTo, Agreement
    <3>2. CallsWaitedFor'
      BY <2>1, <2>2, <3>1 DEF CallsWaitedFor, Holds
    <3>3. HolderState'
      BY <2>1, <2>2, <2>3, <3>1 DEF HolderState, Holds
    <3>4. ~LockFree'
      BY <2>1, <3>1 DEF LockFree
    <3>5. QED
      BY <3>2, <3>3, <3>4 DEF Agreement
  <2>4. CASE registered
    <3>1. /\ at' = [at EXCEPT ![s] = "open"]
          /\ UNCHANGED calls /\ subscriptions' = subscriptions \cup {s}
      BY <2>1, <2>4 DEF Register, GoTo
    <3>2. CallsWaitedFor'
      BY <2>1, <2>2, <3>1 DEF CallsWaitedFor, Holds
    <3>3. HolderState'
      BY <2>1, <2>2, <3>1 DEF HolderState, Holds
    <3>4. Agreement'
      BY <2>1, <2>4, <3>1 DEF Agreement
    <3>5. QED
      BY <3>2, <3>3, <3>4
  <2>5. QED
    BY <2>3, <2>4
<1>4. QED
  BY <1>1, <1>2, <1>3 DEF RegistrationInv

\* The answer to register releases it with a first subscription.
LEMMA RegisteredStep ==
  ASSUME RegistrationInv, NEW s \in Streams, Registered(s)
  PROVE  RegistrationInv'
<1>1. RegistrationTypeOK'
  BY DEF Registered, RegistrationInv, RegistrationTypeOK, Points, GoTo, Fault, manager, master
<1>2. Exclusion'
  BY DEF Registered, RegistrationInv, RegistrationTypeOK, Exclusion, Holds, LockFree, GoTo,
         Points
<1>3. ASSUME faults' = 0
      PROVE  CallsWaitedFor' /\ HolderState' /\ Agreement'
  <2>1. /\ at \in [Streams -> Points] /\ at[s] = "registering" /\ s \in DOMAIN replies
        /\ at' = [at EXCEPT ![s] = "open"]
        /\ registered' = TRUE /\ subscriptions' = subscriptions \cup {s}
        /\ DOMAIN replies' = DOMAIN replies \ {s}
        /\ UNCHANGED <<calls, subscribed, faults>>
        /\ CallsWaitedFor /\ HolderState /\ Exclusion
    BY <1>3 DEF Registered, RegistrationInv, RegistrationTypeOK, GoTo, Drop, master
  <2>2. \A t \in Streams : t # s => ~Holds(t)
    BY <2>1 DEF Exclusion, Holds
  <2>3. <<s, "register">> \notin calls /\ <<s, "unregister">> \notin calls
    BY <2>1 DEF CallsWaitedFor
  <2>4. CallsWaitedFor'
    BY <2>1, <2>2, <2>3 DEF CallsWaitedFor, Holds
  <2>5. HolderState'
    BY <2>1, <2>2 DEF HolderState, Holds
  <2>6. Agreement'
    BY <2>1 DEF Agreement, HolderState
  <2>7. QED
    BY <2>4, <2>5, <2>6
<1>4. QED
  BY <1>1, <1>2, <1>3 DEF RegistrationInv

\* A failed register counts as a fault.
LEMMA RegisterFailsStep ==
  ASSUME RegistrationInv, NEW s \in Streams, RegisterTimesOut(s)
  PROVE  RegistrationInv'
<1>1. RegistrationTypeOK'
  BY DEF RegisterTimesOut, RegistrationInv, RegistrationTypeOK, Points, GoTo, Fault, manager, master
<1>2. Exclusion'
  BY DEF RegisterTimesOut, RegistrationInv, RegistrationTypeOK, Exclusion, Holds, LockFree, GoTo,
         Points
<1>3. faults' = 0 => CallsWaitedFor' /\ HolderState' /\ Agreement'
  BY DEF RegisterTimesOut, RegistrationInv, RegistrationTypeOK, Exclusion, CallsWaitedFor,
         HolderState, Agreement, LockFree, Holds, GoTo, Points, Drop, Put, Fault, manager, master
<1>4. QED
  BY <1>1, <1>2, <1>3 DEF RegistrationInv

\* So does one the master is not there for.
LEMMA RegisterUnreachableStep ==
  ASSUME RegistrationInv, NEW s \in Streams, RegisterUnreachable(s)
  PROVE  RegistrationInv'
<1>1. RegistrationTypeOK'
  BY DEF RegisterUnreachable, RegistrationInv, RegistrationTypeOK, Points, GoTo, Fault, manager, master
<1>2. Exclusion'
  BY DEF RegisterUnreachable, RegistrationInv, RegistrationTypeOK, Exclusion, Holds, LockFree, GoTo,
         Points
<1>3. faults' = 0 => CallsWaitedFor' /\ HolderState' /\ Agreement'
  BY DEF RegisterUnreachable, RegistrationInv, RegistrationTypeOK, Exclusion, CallsWaitedFor,
         HolderState, Agreement, LockFree, Holds, GoTo, Points, Drop, Put, Fault, manager, master
<1>4. QED
  BY <1>1, <1>2, <1>3 DEF RegistrationInv

\* Cancelled before it has the lock, a stream is not added.
LEMMA CancelEnterStep ==
  ASSUME RegistrationInv, NEW s \in Streams, CancelEnter(s)
  PROVE  RegistrationInv'
<1>1. RegistrationTypeOK'
  BY DEF CancelEnter, RegistrationInv, RegistrationTypeOK, Points, GoTo, Fault, manager, master
<1>2. Exclusion'
  BY DEF CancelEnter, RegistrationInv, RegistrationTypeOK, Exclusion, Holds, LockFree, GoTo,
         Points
<1>3. faults' = 0 => CallsWaitedFor' /\ HolderState' /\ Agreement'
  BY DEF CancelEnter, RegistrationInv, RegistrationTypeOK, Exclusion, CallsWaitedFor,
         HolderState, Agreement, LockFree, Holds, GoTo, Points, Drop, Put, Fault, manager, master
<1>4. QED
  BY <1>1, <1>2, <1>3 DEF RegistrationInv

\* Leaving asks for the lock.
LEMMA LeaveStep ==
  ASSUME RegistrationInv, NEW s \in Streams, Leave(s)
  PROVE  RegistrationInv'
<1>1. RegistrationTypeOK'
  BY DEF Leave, RegistrationInv, RegistrationTypeOK, Points, GoTo, Fault, manager, master
<1>2. Exclusion'
  BY DEF Leave, RegistrationInv, RegistrationTypeOK, Exclusion, Holds, LockFree, GoTo,
         Points
<1>3. faults' = 0 => CallsWaitedFor' /\ HolderState' /\ Agreement'
  BY DEF Leave, RegistrationInv, RegistrationTypeOK, Exclusion, CallsWaitedFor,
         HolderState, Agreement, LockFree, Holds, GoTo, Points, Drop, Put, Fault, manager, master
<1>4. QED
  BY <1>1, <1>2, <1>3 DEF RegistrationInv

\* Cancelled, a stream stays where it is.
LEMMA CancelledLeaveStep ==
  ASSUME RegistrationInv, NEW s \in Streams, CancelledLeave(s)
  PROVE  RegistrationInv'
<1>1. RegistrationTypeOK'
  BY DEF CancelledLeave, RegistrationInv, RegistrationTypeOK, Points, GoTo, Fault, manager, master
<1>2. Exclusion'
  BY DEF CancelledLeave, RegistrationInv, RegistrationTypeOK, Exclusion, Holds, LockFree, GoTo,
         Points
<1>3. faults' = 0 => CallsWaitedFor' /\ HolderState' /\ Agreement'
  BY DEF CancelledLeave, RegistrationInv, RegistrationTypeOK, Exclusion, CallsWaitedFor,
         HolderState, Agreement, LockFree, Holds, GoTo, Points, Drop, Put, Fault, manager, master
<1>4. QED
  BY <1>1, <1>2, <1>3 DEF RegistrationInv

\* With the lock the last subscription calls the master.
LEMMA UnregisterStep ==
  ASSUME RegistrationInv, NEW s \in Streams, Unregister(s)
  PROVE  RegistrationInv'
<1>1. RegistrationTypeOK'
  BY DEF Unregister, RegistrationInv, RegistrationTypeOK, Points, GoTo, Fault, manager, master
<1>2. Exclusion'
  BY DEF Unregister, RegistrationInv, RegistrationTypeOK, Exclusion, Holds, LockFree, GoTo,
         Points
<1>3. ASSUME faults' = 0
      PROVE  CallsWaitedFor' /\ HolderState' /\ Agreement'
  <2>1. /\ at \in [Streams -> Points] /\ at[s] = "leaving" /\ LockFree
        /\ subscriptions' = subscriptions \ {s}
        /\ UNCHANGED <<registered, subscribed, replies, faults>>
        /\ CallsWaitedFor /\ HolderState /\ Agreement
    BY <1>3 DEF Unregister, RegistrationInv, RegistrationTypeOK, master
  <2>2. /\ \A t \in Streams : ~Holds(t) /\ t \notin DOMAIN replies
        /\ s \in subscriptions /\ registered /\ subscribed
    BY <2>1 DEF LockFree, CallsWaitedFor, HolderState, Agreement, Holds
  <2>3. CASE subscriptions' = {}
    <3>1. /\ at' = [at EXCEPT ![s] = "unregistering"]
          /\ calls' = calls \cup {<<s, "unregister">>}
      BY <2>3 DEF Unregister, GoTo
    <3>2. CallsWaitedFor'
      BY <2>1, <2>2, <3>1 DEF CallsWaitedFor, Holds
    <3>3. \A t \in Streams : t # s => at[t] \notin {"open", "leaving"}
      BY <2>1, <2>3 DEF HolderState
    <3>4. HolderState'
      BY <2>1, <2>2, <2>3, <3>1, <3>3 DEF HolderState, Holds
    <3>5. ~LockFree'
      BY <2>1, <3>1 DEF LockFree
    <3>6. QED
      BY <3>2, <3>4, <3>5 DEF Agreement
  <2>4. CASE subscriptions' # {}
    <3>1. at' = [at EXCEPT ![s] = "left"] /\ UNCHANGED calls
      BY <2>4 DEF Unregister, GoTo
    <3>2. CallsWaitedFor'
      BY <2>1, <2>2, <3>1 DEF CallsWaitedFor, Holds
    <3>3. HolderState'
      BY <2>1, <2>2, <3>1 DEF HolderState, Holds
    <3>4. Agreement'
      BY <2>1, <2>2, <2>4 DEF Agreement
    <3>5. QED
      BY <3>2, <3>3, <3>4
  <2>5. QED
    BY <2>3, <2>4
<1>4. QED
  BY <1>1, <1>2, <1>3 DEF RegistrationInv

\* The answer to unregister releases it without a subscription.
LEMMA UnregisteredStep ==
  ASSUME RegistrationInv, NEW s \in Streams, Unregistered(s)
  PROVE  RegistrationInv'
<1>1. /\ at \in [Streams -> Points] /\ at[s] = "unregistering"
      /\ at' = [at EXCEPT ![s] = "left"]
      /\ registered' = FALSE /\ UNCHANGED <<subscriptions, subscribed>>
      /\ DOMAIN replies' = DOMAIN replies \ {s}
      /\ \/ s \in DOMAIN replies /\ UNCHANGED <<calls, faults>>
         \/ faults' = faults + 1 /\ calls' = calls \ {<<s, "unregister">>}
  BY DEF Unregistered, RegistrationInv, RegistrationTypeOK, GoTo, Drop, Fault, master
<1>2. RegistrationTypeOK'
  <2>1. /\ subscriptions' \subseteq Streams /\ subscribed' \in BOOLEAN
        /\ registered' \in BOOLEAN
    BY <1>1 DEF RegistrationInv, RegistrationTypeOK
  <2>2. at' \in [Streams -> Points]
    BY <1>1 DEF Points
  <2>3. calls' \subseteq Streams \X {"register", "unregister"} /\ faults' \in Nat
    BY <1>1 DEF RegistrationInv, RegistrationTypeOK
  <2>4. QED
    BY <2>1, <2>2, <2>3 DEF RegistrationTypeOK
<1>3. Exclusion'
  BY <1>1 DEF RegistrationInv, Exclusion, Holds
<1>4. ASSUME faults' = 0
      PROVE  CallsWaitedFor' /\ HolderState' /\ Agreement'
  <2>1. /\ s \in DOMAIN replies /\ UNCHANGED <<calls, faults>>
        /\ CallsWaitedFor /\ HolderState /\ Exclusion
    BY <1>1, <1>4 DEF RegistrationInv, RegistrationTypeOK
  <2>2. \A t \in Streams : t # s => ~Holds(t)
    BY <1>1, <2>1 DEF Exclusion, Holds
  <2>3. CallsWaitedFor'
    BY <1>1, <2>1, <2>2 DEF CallsWaitedFor, Holds
  <2>4. subscriptions = {} /\ ~subscribed
    BY <1>1, <2>1 DEF HolderState
  <2>5. HolderState'
    BY <1>1, <2>1, <2>2 DEF HolderState, Holds
  <2>6. Agreement'
    BY <1>1, <2>4 DEF Agreement
  <2>7. QED
    BY <2>3, <2>5, <2>6
<1>5. QED
  BY <1>2, <1>3, <1>4 DEF RegistrationInv

\* A failed unregister counts as a fault.
LEMMA UnregisterTimesOutStep ==
  ASSUME RegistrationInv, NEW s \in Streams, UnregisterTimesOut(s)
  PROVE  RegistrationInv'
<1>1. RegistrationTypeOK'
  BY DEF UnregisterTimesOut, RegistrationInv, RegistrationTypeOK, Points, GoTo, Fault, manager, master
<1>2. Exclusion'
  BY DEF UnregisterTimesOut, RegistrationInv, RegistrationTypeOK, Exclusion, Holds, LockFree, GoTo,
         Points
<1>3. faults' = 0 => CallsWaitedFor' /\ HolderState' /\ Agreement'
  BY DEF UnregisterTimesOut, RegistrationInv, RegistrationTypeOK, Exclusion, CallsWaitedFor,
         HolderState, Agreement, LockFree, Holds, GoTo, Points, Drop, Put, Fault, manager, master
<1>4. QED
  BY <1>1, <1>2, <1>3 DEF RegistrationInv

\* The master registers for the stream that holds the lock.
LEMMA MasterRegistersStep ==
  ASSUME RegistrationInv, NEW s \in Streams, MasterRegisters(s)
  PROVE  RegistrationInv'
<1>1. RegistrationTypeOK'
  BY DEF MasterRegisters, RegistrationInv, RegistrationTypeOK, Points, GoTo, Fault, manager, master
<1>2. Exclusion'
  BY DEF MasterRegisters, RegistrationInv, RegistrationTypeOK, Exclusion, Holds, LockFree, GoTo,
         Points
<1>3. faults' = 0 => CallsWaitedFor' /\ HolderState' /\ Agreement'
  BY DEF MasterRegisters, RegistrationInv, RegistrationTypeOK, Exclusion, CallsWaitedFor,
         HolderState, Agreement, LockFree, Holds, GoTo, Points, Drop, Put, Fault, manager, master
<1>4. QED
  BY <1>1, <1>2, <1>3 DEF RegistrationInv

\* And unregisters for the stream that holds the lock.
LEMMA MasterUnregistersStep ==
  ASSUME RegistrationInv, NEW s \in Streams, MasterUnregisters(s)
  PROVE  RegistrationInv'
<1>1. RegistrationTypeOK'
  BY DEF MasterUnregisters, RegistrationInv, RegistrationTypeOK, Points, GoTo, Fault, manager, master
<1>2. Exclusion'
  BY DEF MasterUnregisters, RegistrationInv, RegistrationTypeOK, Exclusion, Holds, LockFree, GoTo,
         Points
<1>3. faults' = 0 => CallsWaitedFor' /\ HolderState' /\ Agreement'
  BY DEF MasterUnregisters, RegistrationInv, RegistrationTypeOK, Exclusion, CallsWaitedFor,
         HolderState, Agreement, LockFree, Holds, GoTo, Points, Drop, Put, Fault, manager, master
<1>4. QED
  BY <1>1, <1>2, <1>3 DEF RegistrationInv

\* The connections and the publishers have no part in it.
LEMMA OtherStep ==
  ASSUME RegistrationInv,
         UNCHANGED <<at, registered, subscriptions, calls, replies, subscribed, faults>>
  PROVE  RegistrationInv'
BY DEF RegistrationInv, RegistrationTypeOK, Exclusion, CallsWaitedFor, HolderState, Agreement,
       LockFree, Holds

\* Nothing is registered in the first state.
LEMMA InitRegistration == Init => RegistrationInv
<1> SUFFICES ASSUME Init PROVE RegistrationInv
  OBVIOUS
<1>1. /\ \A s \in Streams : at[s] = "new"
      /\ DOMAIN replies = {} /\ calls = {} /\ subscriptions = {}
      /\ ~registered /\ ~subscribed
  BY DEF Init, EmptyDict
<1>2. RegistrationTypeOK
  BY DEF Init, RegistrationTypeOK, Points
<1>3. Exclusion /\ CallsWaitedFor /\ HolderState /\ Agreement
  BY <1>1 DEF Exclusion, CallsWaitedFor, HolderState, Agreement, Holds
<1>4. QED
  BY <1>2, <1>3 DEF RegistrationInv

\* Every step preserves RegistrationInv.
LEMMA NextRegistration == RegistrationInv /\ [Next]_vars => RegistrationInv'
<1> SUFFICES ASSUME RegistrationInv, [Next]_vars PROVE RegistrationInv'
  OBVIOUS
<1>1. ASSUME NEW s \in Streams,
             \/ Enter(s) \/ Register(s) \/ Registered(s)
             \/ RegisterTimesOut(s) \/ RegisterUnreachable(s) \/ CancelEnter(s)
             \/ Leave(s) \/ CancelledLeave(s) \/ Unregister(s) \/ Unregistered(s)
             \/ UnregisterTimesOut(s)
             \/ MasterRegisters(s) \/ MasterUnregisters(s)
      PROVE  RegistrationInv'
  BY <1>1, EnterStep, RegisterStep, RegisteredStep, RegisterFailsStep, RegisterUnreachableStep,
     CancelEnterStep, LeaveStep, CancelledLeaveStep, UnregisterStep, UnregisteredStep,
     UnregisterTimesOutStep, MasterRegistersStep, MasterUnregistersStep
<1>2. ASSUME NEW c \in Connections,
             \/ Connect(c) \/ SubscribeTaskEnds(c)
             \/ MessageToClosedStream(c) \/ SubscribeTaskFails(c)
      PROVE  RegistrationInv'
  <2>1. UNCHANGED <<at, registered, subscriptions, calls, replies, subscribed, faults>>
    BY <1>2 DEF Connect, SubscribeTaskEnds, MessageToClosedStream, SubscribeTaskFails,
                manager, master
  <2>2. QED
    BY <2>1, OtherStep
<1>3. ASSUME NEW publishers, PublisherChange(publishers)
      PROVE  RegistrationInv'
  BY <1>3, OtherStep DEF PublisherChange, manager
<1>4. CASE PublisherUpdate
  BY <1>4, OtherStep DEF PublisherUpdate
<1>5. CASE UNCHANGED vars
  BY <1>5, OtherStep DEF vars, manager, master
<1>6. QED
  BY <1>1, <1>2, <1>3, <1>4, <1>5 DEF Next

\* Between the calls of the master the manager is registered exactly as long as
\* it has a subscription, unless a call has failed.
THEOREM OneRegistration == Spec => []RegistrationShared
<1>1. RegistrationInv => RegistrationShared
  BY DEF RegistrationInv, RegistrationShared, Agreement
<1>2. QED
  BY <1>1, InitRegistration, NextRegistration, PTL DEF Spec
=============================================================================
