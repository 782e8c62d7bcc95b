--------------------------- MODULE TopicSubscriber ---------------------------
(***************************************************************************)
(* SubscriptionManager (src/aioros/_node/_tcpros/_topic_subscriber.py): the *)
(* subscriptions of a node to one topic share one registration with the     *)
(* master and one connection per publisher.  The callers of register and    *)
(* unregister, the master's publisherUpdate calls and one task per          *)
(* connection interleave wherever the code awaits; between two awaits a     *)
(* task runs alone.  The master is its part in this topic: the publishers,  *)
(* whether the node is subscribed, and the updates queued for it.  The node *)
(* has something else registered (init_node registers its log topic), so    *)
(* the master keeps one Node with one queue for it throughout.              *)
(***************************************************************************)
EXTENDS Naturals, Sequences, Functions, PyDict

CONSTANTS
  Streams,      \* Subscription objects, each entered once and left once
  Publishers,   \* XML-RPC URIs of nodes that may publish the topic
  Connections,  \* bound: ConnectedPublisher objects with a running task
  MaxUpdates,   \* bound: updates queued for the node
  MaxFaults     \* bound: calls of the master that time out or do not connect

ASSUME MaxUpdatesAssumption == MaxUpdates \in Nat
ASSUME MaxFaultsAssumption == MaxFaults \in Nat

VARIABLES
  at,                    \* stream |-> where its caller is
  registered,
  subscriptions,         \* streams messages are sent to
  connected_publishers,  \* uri |-> ConnectedPublisher
  tasks,                 \* ConnectedPublisher |-> its running _subscribe_task
  down,                  \* an exception has left a task: the node is gone
  calls,                 \* <<stream, method>>: calls the master has not handled
  replies,               \* stream |-> what the master answered
  publications,          \* the master's publishers of the topic
  subscribed,            \* the master has this node as a subscriber
  updates,               \* publisher lists the master has queued for the node
  faults

manager == <<registered, subscriptions, connected_publishers, tasks>>
master == <<publications, subscribed, updates>>
vars == <<at, manager, down, calls, replies, master, faults>>

\* entering and leaving: waiting for the lock; registering and unregistering:
\* holding it and waiting for the master.
Points == {"new", "entering", "registering", "open", "leaving", "unregistering", "left"}

TaskState == [uri : Publishers, point : {"connecting", "reading"}, cancelled : BOOLEAN]

TypeOK ==
  /\ at \in [Streams -> Points]
  /\ registered \in BOOLEAN
  /\ subscriptions \subseteq Streams
  /\ IsDict(connected_publishers, Publishers, Connections)
  /\ IsDict(tasks, Connections, TaskState)
  /\ down \in BOOLEAN
  /\ calls \subseteq Streams \X {"register", "unregister"}
  /\ IsDict(replies, Streams, SUBSET Publishers)
  /\ publications \subseteq Publishers
  /\ subscribed \in BOOLEAN
  /\ updates \in Seq(SUBSET Publishers)
  /\ faults \in 0..MaxFaults

Init ==
  /\ at = [s \in Streams |-> "new"]
  /\ registered = FALSE
  /\ subscriptions = {}
  /\ connected_publishers = EmptyDict
  /\ tasks = EmptyDict
  /\ down = FALSE
  /\ calls = {}
  /\ replies = EmptyDict
  /\ publications \in SUBSET Publishers
  /\ subscribed = FALSE
  /\ updates = << >>
  /\ faults = 0

-----------------------------------------------------------------------------
GoTo(s, point) == at' = [at EXCEPT ![s] = point]

\* The lock is held across a call of the master and nowhere else.
LockFree == \A s \in Streams : at[s] \notin {"registering", "unregistering"}

Fault == faults < MaxFaults /\ faults' = faults + 1

(* Connections to publishers that are not listed are forgotten and their    *)
(* tasks cancelled; those to new publishers get a task.                     *)
UpdatePublishers(publishers) ==
  LET known == DOMAIN connected_publishers
      discarded == {connected_publishers[u] : u \in known \ publishers}
      kept == known \cap publishers
      free == Connections \ (DOMAIN tasks \cup Range(connected_publishers))
  IN \E new \in Injection(publishers \ known, free) :
       /\ connected_publishers' =
            [u \in kept \cup DOMAIN new |->
               IF u \in kept THEN connected_publishers[u] ELSE new[u]]
       /\ tasks' =
            [c \in DOMAIN tasks \cup Range(new) |->
               IF c \in DOMAIN tasks
               THEN IF c \in discarded THEN [tasks[c] EXCEPT !.cancelled = TRUE]
                    ELSE tasks[c]
               ELSE [uri |-> CHOOSE u \in DOMAIN new : new[u] = c,
                     point |-> "connecting", cancelled |-> FALSE]]

-----------------------------------------------------------------------------
(* register                                                                 *)

Enter(s) ==
  /\ ~down /\ at[s] = "new"
  /\ GoTo(s, "entering")
  /\ UNCHANGED <<manager, down, calls, replies, master, faults>>

\* Mutant: register does not take the lock.
RegisterUnlocked(s) ==
  /\ ~down /\ at[s] = "entering"
  /\ \/ /\ ~registered
        /\ GoTo(s, "registering") /\ calls' = calls \cup {<<s, "register">>}
        /\ UNCHANGED subscriptions
     \/ /\ registered
        /\ GoTo(s, "open") /\ subscriptions' = subscriptions \cup {s}
        /\ UNCHANGED calls
  /\ UNCHANGED <<registered, connected_publishers, tasks, down, replies, master, faults>>

\* With the lock: the first subscription calls the master, any other is added.
Register(s) ==
  /\ ~down /\ at[s] = "entering" /\ LockFree
  /\ \/ /\ ~registered
        /\ GoTo(s, "registering") /\ calls' = calls \cup {<<s, "register">>}
        /\ UNCHANGED subscriptions
     \/ /\ registered
        /\ GoTo(s, "open") /\ subscriptions' = subscriptions \cup {s}
        /\ UNCHANGED calls
  /\ UNCHANGED <<registered, connected_publishers, tasks, down, replies, master, faults>>

Registered(s) ==
  /\ ~down /\ at[s] = "registering" /\ s \in DOMAIN replies
  /\ registered' = TRUE
  /\ UpdatePublishers(replies[s])
  /\ subscriptions' = subscriptions \cup {s}
  /\ GoTo(s, "open")
  /\ replies' = Drop(replies, s)
  /\ UNCHANGED <<down, calls, master, faults>>

\* After one second the call is abandoned, registered is set, and the use of
\* the list that never came raises.
RegisterTimesOut(s) ==
  /\ ~down /\ at[s] = "registering" /\ Fault
  /\ registered' = TRUE
  /\ GoTo(s, "left")
  /\ replies' = Drop(replies, s)
  /\ UNCHANGED <<subscriptions, connected_publishers, tasks, down, calls, master>>

\* The master cannot be reached: register raises.
RegisterUnreachable(s) ==
  /\ ~down /\ at[s] = "registering" /\ <<s, "register">> \in calls /\ Fault
  /\ calls' = calls \ {<<s, "register">>}
  /\ GoTo(s, "left")
  /\ UNCHANGED <<manager, down, replies, master>>

\* The caller is cancelled while it waits for the lock: the rest is shielded.
CancelEnter(s) ==
  /\ ~down /\ at[s] = "entering"
  /\ GoTo(s, "left")
  /\ UNCHANGED <<manager, down, calls, replies, master, faults>>

-----------------------------------------------------------------------------
(* aclose and unregister                                                    *)

\* The receive stream is closed, and then the lock asked for.
Leave(s) ==
  /\ ~down /\ at[s] = "open"
  /\ GoTo(s, "leaving")
  /\ UNCHANGED <<manager, down, calls, replies, master, faults>>

\* Of a caller that is cancelled the closing of the receive stream raises, and
\* unregister, shielded as it is, is not reached.
CancelledLeave(s) ==
  /\ ~down /\ at[s] = "open"
  /\ GoTo(s, "left")
  /\ UNCHANGED <<manager, down, calls, replies, master, faults>>

\* With the lock: the last subscription calls the master.
Unregister(s) ==
  /\ ~down /\ at[s] = "leaving" /\ LockFree
  /\ subscriptions' = subscriptions \ {s}
  /\ IF subscriptions' = {}
     THEN GoTo(s, "unregistering") /\ calls' = calls \cup {<<s, "unregister">>}
     ELSE GoTo(s, "left") /\ UNCHANGED calls
  /\ UNCHANGED <<registered, connected_publishers, tasks, down, replies, master, faults>>

\* The master has answered, or (ConnectError) could not be reached.
Unregistered(s) ==
  /\ ~down /\ at[s] = "unregistering"
  /\ \/ s \in DOMAIN replies /\ UNCHANGED <<calls, faults>>
     \/ /\ <<s, "unregister">> \in calls /\ Fault
        /\ calls' = calls \ {<<s, "unregister">>}
  /\ replies' = Drop(replies, s)
  /\ registered' = FALSE
  /\ UpdatePublishers({})
  /\ GoTo(s, "left")
  /\ UNCHANGED <<subscriptions, down, master>>

\* aclose gives up after one second, wherever unregister is.
UnregisterTimesOut(s) ==
  /\ ~down /\ at[s] \in {"leaving", "unregistering"} /\ Fault
  /\ GoTo(s, "left")
  /\ replies' = Drop(replies, s)
  /\ UNCHANGED <<manager, down, calls, master>>

-----------------------------------------------------------------------------
(* _subscribe_task.  Its finally drops whatever is kept under its URI.      *)

\* Mutant: the ended connection is not forgotten.
EndKeepsEntry(c) ==
  /\ tasks' = Drop(tasks, c)
  /\ UNCHANGED connected_publishers

End(c) ==
  /\ tasks' = Drop(tasks, c)
  /\ connected_publishers' = IF tasks[c].point = "reading"
                             THEN Drop(connected_publishers, tasks[c].uri)
                             ELSE connected_publishers

\* requestTopic answered, and the connection made: if that was under way, the
\* cancellation of the task is raised at a later await.
Connect(c) ==
  /\ ~down /\ c \in DOMAIN tasks /\ tasks[c].point = "connecting"
  /\ tasks' = [tasks EXCEPT ![c].point = "reading"]
  /\ UNCHANGED <<at, registered, subscriptions, connected_publishers, down,
                 calls, replies, master, faults>>

\* The publisher closes the connection, or the task is cancelled.
SubscribeTaskEnds(c) ==
  /\ ~down /\ c \in DOMAIN tasks
  /\ tasks[c].cancelled \/ tasks[c].point = "reading"
  /\ End(c)
  /\ UNCHANGED <<at, registered, subscriptions, down, calls, replies, master, faults>>

\* A message is sent to a stream that is closed at its receiving end
\* (BrokenResourceError).  Sent to open streams it changes nothing here.
MessageToClosedStream(c) ==
  /\ ~down /\ c \in DOMAIN tasks /\ tasks[c].point = "reading"
  /\ \E s \in subscriptions : at[s] \in {"leaving", "unregistering", "left"}
  /\ down' = TRUE
  /\ UNCHANGED <<at, manager, calls, replies, master, faults>>

\* The publisher refuses the request, the connection or the header.
SubscribeTaskFails(c) ==
  /\ ~down /\ c \in DOMAIN tasks
  /\ down' = TRUE
  /\ UNCHANGED <<at, manager, calls, replies, master, faults>>

-----------------------------------------------------------------------------
(* The master: MasterRegistry, as one of its subscribers sees it.           *)

MasterRegisters(s) ==
  /\ <<s, "register">> \in calls
  /\ calls' = calls \ {<<s, "register">>}
  /\ subscribed' = TRUE
  /\ replies' = IF at[s] = "registering" THEN Put(replies, s, publications) ELSE replies
  /\ UNCHANGED <<at, manager, down, publications, updates, faults>>

MasterUnregisters(s) ==
  /\ <<s, "unregister">> \in calls
  /\ calls' = calls \ {<<s, "unregister">>}
  /\ subscribed' = FALSE
  /\ replies' = IF at[s] = "unregistering" THEN Put(replies, s, {}) ELSE replies
  /\ UNCHANGED <<at, manager, down, publications, updates, faults>>

\* Another node starts or stops publishing the topic, or says so once more.
PublisherChange(publishers) ==
  /\ publications' = publishers
  /\ updates' = IF subscribed THEN Append(updates, publishers) ELSE updates
  /\ Len(updates') <= MaxUpdates
  /\ UNCHANGED <<at, manager, down, calls, replies, subscribed, faults>>

\* publisherUpdate, whether or not a subscription is left.
PublisherUpdate ==
  /\ ~down /\ updates # << >>
  /\ UpdatePublishers(Head(updates))
  /\ updates' = Tail(updates)
  /\ UNCHANGED <<at, registered, subscriptions, down, calls, replies,
                 publications, subscribed, faults>>

Next ==
  \/ \E s \in Streams :
       \/ Enter(s) \/ Register(s) \/ Registered(s)
       \/ RegisterTimesOut(s) \/ RegisterUnreachable(s) \/ CancelEnter(s)
       \/ Leave(s) \/ CancelledLeave(s) \/ Unregister(s) \/ Unregistered(s)
       \/ UnregisterTimesOut(s)
       \/ MasterRegisters(s) \/ MasterUnregisters(s)
  \/ \E c \in Connections : \/ Connect(c) \/ SubscribeTaskEnds(c)
                            \/ MessageToClosedStream(c) \/ SubscribeTaskFails(c)
  \/ \E p \in Publishers : \/ PublisherChange(publications \cup {p})
                           \/ PublisherChange(publications \ {p})
  \/ PublisherUpdate

Spec == Init /\ [][Next]_vars

-----------------------------------------------------------------------------
(* Properties                                                               *)

\* What connected_publishers holds is a connection that is being made or read,
\* to that publisher and not cancelled: an entry whose task has ended would
\* keep update_publishers from ever connecting to that publisher again.
EntriesLive ==
  \A u \in DOMAIN connected_publishers :
    LET c == connected_publishers[u]
    IN c \in DOMAIN tasks /\ tasks[c].uri = u /\ ~tasks[c].cancelled

\* Whatever register and unregister calls overlap, between them the manager is
\* registered with the master exactly as long as it has a subscription, unless
\* a call of the master has failed.
RegistrationShared ==
  LockFree /\ faults = 0 =>
    /\ registered <=> subscribed
    /\ registered <=> subscriptions # {}

(* A claim of the repository that the code does not keep.                   *)

\* NodeApiHandle.publisherUpdate is documented to bring the current publishers:
\* when nothing is on its way between the master and the subscribed node, no
\* connection is kept to a publisher the master does not list.
ConnectedPublishersCurrent ==
  registered /\ subscribed /\ LockFree /\ calls = {} /\ updates = << >> /\ faults = 0
    => DOMAIN connected_publishers \subseteq publications
=============================================================================
