---------------------------- MODULE TopicPublisher ----------------------------
(***************************************************************************)
(* Publication and LatchedPublication                                       *)
(* (src/aioros/_node/_tcpros/_topic_publisher.py): the users of a node's    *)
(* one publication of a topic, its registration with the master, one task   *)
(* per connected subscriber, the messages, and those who wait for a peer.   *)
(* They interleave wherever the code awaits; between two awaits a task runs *)
(* alone.  The condition's lock is first come, first served.                *)
(***************************************************************************)
EXTENDS Naturals, FiniteSets, SequencesExt

CONSTANTS
  Users,      \* those who enter the publication, and close it once
  Handlers,   \* tasks of handle_tcpros, one per connection of a subscriber
  Waiters,    \* calls of wait_for_peers
  Messages,   \* messages, each published once
  MaxFaults   \* bound: calls of the master that fail or time out

ASSUME TasksAssumption == Handlers \cap Waiters = {}
ASSUME MaxFaultsAssumption == MaxFaults \in Nat

VARIABLES
  latched,      \* the publication is a LatchedPublication
  instances,
  at,           \* user |-> where it is
  listed,       \* the master lists the node as a publisher of the topic
  calls,        \* <<user, method>>: calls the master has not handled
  overtaken,    \* a user entered with an unregistration on its way
  iteration,    \* user |-> aclose's iteration over the subscribers
  subscribers,  \* _subscribers
  handler,      \* handler |-> where it is
  stream,       \* handler |-> messages in its memory stream
  closed,       \* handlers whose send stream is closed
  latch,        \* handler |-> the latched message it is about to send
  received,     \* handler |-> messages sent to its subscriber
  message,      \* message |-> where its publish call is
  log,          \* the messages in the order they were sent in
  waiter,       \* waiter |-> where it is
  lock_q,       \* the tasks that ask for the condition's lock, its owner first
  faults,
  down          \* an exception has left a task: the node is gone

registration == <<instances, at, listed, calls, overtaken, iteration, faults>>
connection == <<handler, latch, received>>
publishing == <<stream, message, log>>
waiting == <<waiter, lock_q>>
vars == <<latched, registration, subscribers, connection, closed, publishing, waiting, down>>

Points == {"new", "registering", "open", "unregistering", "closing", "closed", "failed"}
HandlerPoints == {"none", "greeting", "notifying", "latching", "sending", "ended"}

NoIteration == [left |-> {}, size |-> 0]

TypeOK ==
  /\ latched \in BOOLEAN
  /\ instances \in Nat
  /\ at \in [Users -> Points]
  /\ listed \in BOOLEAN
  /\ calls \subseteq Users \X {"register", "unregister"}
  /\ overtaken \in BOOLEAN
  /\ iteration \in [Users -> [left : SUBSET Handlers, size : Nat]]
  /\ subscribers \subseteq Handlers
  /\ handler \in [Handlers -> HandlerPoints]
  /\ stream \in [Handlers -> Seq(Messages)]
  /\ closed \subseteq Handlers
  /\ latch \in [Handlers -> Seq(Messages)]
  /\ received \in [Handlers -> Seq(Messages)]
  /\ message \in [Messages -> {"new", "serializing", "published", "dropped"}]
  /\ log \in Seq(Messages)
  /\ waiter \in [Waiters -> {"new", "entering", "waiting", "woken", "leaving", "done"}]
  /\ lock_q \in Seq(Handlers \cup Waiters)
  /\ faults \in 0..MaxFaults
  /\ down \in BOOLEAN

Init ==
  /\ latched \in BOOLEAN
  /\ instances = 0
  /\ at = [u \in Users |-> "new"]
  /\ listed = FALSE
  /\ calls = {}
  /\ overtaken = FALSE
  /\ iteration = [u \in Users |-> NoIteration]
  /\ subscribers = {}
  /\ handler = [h \in Handlers |-> "none"]
  /\ stream = [h \in Handlers |-> << >>]
  /\ closed = {}
  /\ latch = [h \in Handlers |-> << >>]
  /\ received = [h \in Handlers |-> << >>]
  /\ message = [m \in Messages |-> "new"]
  /\ log = << >>
  /\ waiter = [w \in Waiters |-> "new"]
  /\ lock_q = << >>
  /\ faults = 0
  /\ down = FALSE

GoTo(u, point) == at' = [at EXCEPT ![u] = point]
HandlerAt(h, point) == handler' = [handler EXCEPT ![h] = point]
WaiterAt(w, point) == waiter' = [waiter EXCEPT ![w] = point]

Fault == faults < MaxFaults /\ faults' = faults + 1

Owns(t) == lock_q # << >> /\ Head(lock_q) = t

-----------------------------------------------------------------------------
(* __aenter__ and aclose                                                    *)

\* The first user registers, and is counted before it has.
Enter(u) ==
  /\ ~down /\ at[u] = "new"
  /\ instances' = instances + 1
  /\ IF instances = 0
     THEN GoTo(u, "registering") /\ calls' = calls \cup {<<u, "register">>}
     ELSE GoTo(u, "open") /\ UNCHANGED calls
  /\ overtaken' = (overtaken \/ \E v \in Users : <<v, "unregister">> \in calls)
  /\ UNCHANGED <<latched, listed, iteration, faults, subscribers, connection, closed,
                 publishing, waiting, down>>

MasterHandles(u, method) ==
  /\ ~down /\ <<u, method>> \in calls
  /\ calls' = calls \ {<<u, method>>}
  /\ listed' = (method = "register")
  /\ UNCHANGED <<latched, instances, at, overtaken, iteration, faults, subscribers, connection,
                 closed, publishing, waiting, down>>

Registered(u) ==
  /\ ~down /\ at[u] = "registering" /\ <<u, "register">> \notin calls
  /\ GoTo(u, "open")
  /\ UNCHANGED <<latched, instances, listed, calls, overtaken, iteration, faults, subscribers,
                 connection, closed, publishing, waiting, down>>

\* The registration raises or is cancelled: the user stays counted.
RegisterFails(u) ==
  /\ ~down /\ at[u] = "registering" /\ Fault
  /\ GoTo(u, "failed")
  /\ UNCHANGED <<latched, instances, listed, calls, overtaken, iteration, subscribers,
                 connection, closed, publishing, waiting, down>>

\* Mutant: every user that leaves unregisters the topic.
CloseEach(u) ==
  /\ ~down /\ at[u] = "open"
  /\ instances' = instances - 1
  /\ GoTo(u, "unregistering") /\ calls' = calls \cup {<<u, "unregister">>}
  /\ UNCHANGED <<latched, listed, overtaken, iteration, faults, subscribers, connection, closed,
                 publishing, waiting, down>>

\* Mutant: the only user does not unregister.
CloseSilently(u) ==
  /\ ~down /\ at[u] = "open"
  /\ instances' = IF instances = 1 THEN 0 ELSE instances
  /\ GoTo(u, "closed")
  /\ UNCHANGED <<latched, listed, calls, overtaken, iteration, faults, subscribers, connection,
                 closed, publishing, waiting, down>>

\* aclose does nothing unless one user is counted; others are not counted down.
Close(u) ==
  /\ ~down /\ at[u] = "open"
  /\ IF instances = 1
     THEN /\ instances' = 0
          /\ GoTo(u, "unregistering") /\ calls' = calls \cup {<<u, "unregister">>}
     ELSE GoTo(u, "closed") /\ UNCHANGED <<instances, calls>>
  /\ UNCHANGED <<latched, listed, overtaken, iteration, faults, subscribers, connection, closed,
                 publishing, waiting, down>>

\* Unregistered, or after a second, the subscribers' streams are closed.
Unregistered(u) ==
  /\ ~down /\ at[u] = "unregistering"
  /\ \/ <<u, "unregister">> \notin calls /\ UNCHANGED faults
     \/ Fault
  /\ GoTo(u, "closing")
  /\ iteration' = [iteration EXCEPT ![u] = [left |-> subscribers,
                                            size |-> Cardinality(subscribers)]]
  /\ UNCHANGED <<latched, instances, listed, calls, overtaken, subscribers, connection, closed,
                 publishing, waiting, down>>

\* The unregistration raises: the streams stay open.
UnregisterFails(u) ==
  /\ ~down /\ at[u] = "unregistering" /\ Fault
  /\ GoTo(u, "failed")
  /\ UNCHANGED <<latched, instances, listed, calls, overtaken, iteration, subscribers,
                 connection, closed, publishing, waiting, down>>

\* One step of the iteration.  It awaits, and may be cancelled there; a set that
\* has another size then raises: either way the set is not cleared.  A subscriber
\* added since may be come across or not.
CloseStream(u) ==
  /\ ~down /\ at[u] = "closing"
  /\ \/ /\ Cardinality(subscribers) # iteration[u].size
        /\ GoTo(u, "failed")
        /\ iteration' = [iteration EXCEPT ![u] = NoIteration]
        /\ UNCHANGED <<subscribers, closed>>
     \/ /\ Cardinality(subscribers) = iteration[u].size
        /\ \E h \in iteration[u].left \cap subscribers :
             /\ closed' = closed \cup {h}
             /\ \/ iteration' = [iteration EXCEPT ![u].left = @ \ {h}] /\ UNCHANGED at
                \/ iteration' = [iteration EXCEPT ![u] = NoIteration] /\ GoTo(u, "failed")
        /\ UNCHANGED subscribers
     \/ /\ Cardinality(subscribers) = iteration[u].size
        /\ iteration[u].left \cap subscribers = {}
        /\ subscribers' = {}
        /\ GoTo(u, "closed")
        /\ iteration' = [iteration EXCEPT ![u] = NoIteration]
        /\ UNCHANGED closed
  /\ UNCHANGED <<latched, instances, listed, calls, overtaken, faults, connection, publishing,
                 waiting, down>>

-----------------------------------------------------------------------------
(* handle_tcpros                                                            *)

\* requestTopic finds the publication, which stays in the node's registry.
RequestTopic(h) ==
  /\ ~down /\ handler[h] = "none" /\ \E u \in Users : at[u] # "new"
  /\ HandlerAt(h, "greeting")
  /\ UNCHANGED <<latched, registration, subscribers, latch, received, closed,
                 publishing, waiting, down>>

\* Mutant: the waiters are notified as the subscriber is added, without the
\* lock, and those about to wait are not.
GreetNotifyingAtOnce(h) ==
  /\ ~down /\ handler[h] = "greeting"
  /\ HandlerAt(h, "sending")
  /\ subscribers' = subscribers \cup {h}
  /\ waiter' = [w \in Waiters |-> IF waiter[w] = "waiting" THEN "woken" ELSE waiter[w]]
  /\ UNCHANGED <<latched, registration, latch, received, closed, publishing, lock_q, down>>

\* The header is answered, or refused; either raises if the subscriber has
\* gone.  Answered, the subscriber is added and the lock asked for.
Greet(h) ==
  /\ ~down /\ handler[h] = "greeting"
  /\ \/ /\ HandlerAt(h, "notifying")
        /\ subscribers' = subscribers \cup {h}
        /\ lock_q' = Append(lock_q, h)
        /\ UNCHANGED down
     \/ /\ HandlerAt(h, "ended")
        /\ down' \in BOOLEAN
        /\ UNCHANGED <<subscribers, lock_q>>
  /\ UNCHANGED <<latched, registration, latch, received, closed, publishing, waiter>>

\* Mutant: the latched message is not sent.
NotifyWithoutLatch(h) ==
  /\ ~down /\ handler[h] = "notifying" /\ Owns(h)
  /\ waiter' = [w \in Waiters |-> IF waiter[w] = "waiting" THEN "woken" ELSE waiter[w]]
  /\ lock_q' = Tail(lock_q)
  /\ HandlerAt(h, "sending")
  /\ UNCHANGED <<latched, registration, subscribers, latch, received, closed, publishing, down>>

\* With the lock, all who wait are notified.  The message to send first is the
\* one latched now.
Notify(h) ==
  /\ ~down /\ handler[h] = "notifying" /\ Owns(h)
  /\ waiter' = [w \in Waiters |-> IF waiter[w] = "waiting" THEN "woken" ELSE waiter[w]]
  /\ lock_q' = Tail(lock_q)
  /\ IF latched /\ log # << >>
     THEN HandlerAt(h, "latching") /\ latch' = [latch EXCEPT ![h] = <<Last(log)>>]
     ELSE HandlerAt(h, "sending") /\ UNCHANGED latch
  /\ UNCHANGED <<latched, registration, subscribers, received, closed, publishing, down>>

\* It is put into the stream a checkpoint later; into a closed one that raises.
SendLatch(h) ==
  /\ ~down /\ handler[h] = "latching"
  /\ HandlerAt(h, "sending")
  /\ IF h \in closed THEN down' = TRUE /\ UNCHANGED stream
     ELSE stream' = [stream EXCEPT ![h] = @ \o latch[h]] /\ UNCHANGED down
  /\ latch' = [latch EXCEPT ![h] = << >>]
  /\ UNCHANGED <<latched, registration, subscribers, received, closed, message, log, waiting>>

\* A message goes to the subscriber.
SendMessage(h) ==
  /\ ~down /\ handler[h] = "sending" /\ stream[h] # << >>
  /\ received' = [received EXCEPT ![h] = Append(@, Head(stream[h]))]
  /\ stream' = [stream EXCEPT ![h] = Tail(@)]
  /\ UNCHANGED <<latched, registration, subscribers, handler, latch, closed, message, log,
                 waiting, down>>

\* The sending raises as the subscriber has gone, or the stream is closed and
\* empty.  What was received and sent is not kept.
HandlerEnds(h) ==
  /\ ~down /\ handler[h] = "sending"
  /\ stream[h] # << >> \/ h \in closed
  /\ HandlerAt(h, "ended")
  /\ subscribers' = subscribers \ {h}
  /\ closed' = closed \ {h}
  /\ stream' = [stream EXCEPT ![h] = << >>]
  /\ received' = [received EXCEPT ![h] = << >>]
  /\ UNCHANGED <<latched, registration, latch, message, log, waiting, down>>

-----------------------------------------------------------------------------
(* publish                                                                  *)

\* Without a subscriber the message is dropped, unless it is to be latched.
Publish(m) ==
  /\ ~down /\ message[m] = "new"
  /\ message' = [message EXCEPT ![m] = IF latched \/ subscribers # {} THEN "serializing"
                                       ELSE "dropped"]
  /\ UNCHANGED <<latched, registration, subscribers, connection, closed, stream, log, waiting, down>>

\* Mutant: the streams are filled in steps of their own.
InternalPublishInSteps(m) ==
  /\ ~down /\ message[m] = "serializing"
  /\ \E reached \in SUBSET (subscribers \ closed) :
       /\ stream' = [h \in Handlers |-> IF h \in reached THEN Append(stream[h], m) ELSE stream[h]]
       /\ IF reached = subscribers \ closed
          THEN message' = [message EXCEPT ![m] = "published"] /\ log' = Append(log, m)
          ELSE UNCHANGED <<message, log>>
  /\ UNCHANGED <<latched, registration, subscribers, connection, closed, waiting, down>>

\* Serialized in a thread, at its own time, the message is latched and put into
\* the stream of every subscriber; the first one that is closed raises.
InternalPublish(m) ==
  /\ ~down /\ message[m] = "serializing"
  /\ message' = [message EXCEPT ![m] = "published"]
  /\ log' = Append(log, m)
  /\ \E reached \in SUBSET (subscribers \ closed) :
       /\ subscribers \cap closed = {} => reached = subscribers
       /\ stream' = [h \in Handlers |-> IF h \in reached THEN Append(stream[h], m) ELSE stream[h]]
  /\ UNCHANGED <<latched, registration, subscribers, connection, closed, waiting, down>>

-----------------------------------------------------------------------------
(* wait_for_peers                                                           *)

\* The look at the subscribers; without one, the lock is asked for.
Look(w) ==
  IF subscribers # {} THEN WaiterAt(w, "done") /\ UNCHANGED lock_q
  ELSE WaiterAt(w, "entering") /\ lock_q' = Append(lock_q, w)

WaitForPeers(w) ==
  /\ ~down /\ waiter[w] = "new"
  /\ Look(w)
  /\ UNCHANGED <<latched, registration, subscribers, connection, closed, publishing, down>>

\* wait gives the lock away and waits for notify.
Park(w) ==
  /\ ~down /\ waiter[w] = "entering" /\ Owns(w)
  /\ WaiterAt(w, "waiting")
  /\ lock_q' = Tail(lock_q)
  /\ UNCHANGED <<latched, registration, subscribers, connection, closed, publishing, down>>

\* Notified, it takes the lock again to leave it.
Wake(w) ==
  /\ ~down /\ waiter[w] = "woken"
  /\ WaiterAt(w, "leaving")
  /\ lock_q' = Append(lock_q, w)
  /\ UNCHANGED <<latched, registration, subscribers, connection, closed, publishing, down>>

LookAgain(w) ==
  /\ ~down /\ waiter[w] = "leaving" /\ Owns(w)
  /\ IF subscribers # {} THEN WaiterAt(w, "done") /\ lock_q' = Tail(lock_q)
     ELSE WaiterAt(w, "entering") /\ lock_q' = Append(Tail(lock_q), w)
  /\ UNCHANGED <<latched, registration, subscribers, connection, closed, publishing, down>>

-----------------------------------------------------------------------------
\* With the node gone nothing more is modelled.
Next ==
  \/ \E u \in Users :
       \/ Enter(u) \/ Registered(u) \/ RegisterFails(u)
       \/ Close(u) \/ Unregistered(u) \/ UnregisterFails(u) \/ CloseStream(u)
       \/ \E method \in {"register", "unregister"} : MasterHandles(u, method)
  \/ \E h \in Handlers :
       \/ RequestTopic(h) \/ Greet(h) \/ Notify(h) \/ SendLatch(h)
       \/ SendMessage(h) \/ HandlerEnds(h)
  \/ \E m \in Messages : Publish(m) \/ InternalPublish(m)
  \/ \E w \in Waiters : WaitForPeers(w) \/ Park(w) \/ Wake(w) \/ LookAgain(w)

Spec == Init /\ [][Next]_vars

-----------------------------------------------------------------------------
(* Properties                                                               *)

\* As long as a user has the publication open the master lists it, or the first
\* user's call to register it has not returned yet, whatever others enter and
\* leave, also while the answer to an unregistration is on its way.  Not so if a
\* user entered before the master had handled an unregistration (there is no
\* mutex: it may be handled after the new registration), or if a call failed.
ListedWhileOpen ==
  ~overtaken /\ faults = 0 =>
    \A u \in Users : at[u] = "open" => listed \/ \E v \in Users : at[v] = "registering"

\* With all users gone the topic is unregistered, unless two had it at a time
\* (then nobody unregisters it), a call failed, or a user entered before the
\* master had handled an unregistration.
ReleasedAtEnd ==
  (\A u \in Users : at[u] = "closed") /\ instances <= 1 /\ ~overtaken /\ faults = 0
    => ~listed /\ instances = 0

\* wait_for_peers looks at the subscribers before it takes the lock: no
\* subscriber that comes in between is missed, or its notify is still to come.
NoPeerMissed ==
  subscribers # {} =>
    \A w \in Waiters : waiter[w] = "waiting" =>
      \E h \in subscribers : handler[h] = "notifying"

InLogOrder(s) ==
  \A i, j \in 1..Len(s) : i < j =>
    \E k, l \in 1..Len(log) : k < l /\ log[k] = s[i] /\ log[l] = s[j]

\* A subscriber gets the messages in the order all others get them in, each
\* once.  Only the latched message it is greeted with may come twice, or late.
SentInOrder ==
  \A h \in Handlers :
    LET all == received[h] \o stream[h]
    IN \/ InLogOrder(all)
       \/ latched /\ \E i \in 1..Len(all) : InLogOrder(RemoveAt(all, i))

\* A subscriber of a latched topic whose stream is empty has got the latest
\* message, whether it was published before, while or after it connected, as
\* long as no user closes the streams.
LatestSent ==
  latched /\ log # << >> /\ (\A u \in Users : at[u] \notin {"closing", "closed", "failed"}) =>
    \A h \in subscribers :
      handler[h] = "sending" /\ stream[h] = << >>
        => \E i \in 1..Len(received[h]) : received[h][i] = Last(log)
=============================================================================
