------------------------ MODULE TopicPublisherProofs ------------------------
(***************************************************************************)
(* The registration of a publication, the notification of those who wait    *)
(* for a peer, and the order of the messages, for any number of users,      *)
(* subscribers, waiters and messages.                                       *)
(***************************************************************************)
EXTENDS TopicPublisher, OperatorProofs, FiniteSetTheorems

-----------------------------------------------------------------------------
(* Types                                                                    *)

\* One subscriber is added at a time, so that there is a number of them.
TypeInv == TypeOK /\ IsFiniteSet(subscribers)

\* The steps of the users keep the types.
LEMMA UserTypes ==
  ASSUME TypeInv, NEW u \in Users,
         \/ Enter(u) \/ Registered(u) \/ RegisterFails(u)
         \/ Close(u) \/ Unregistered(u) \/ UnregisterFails(u) \/ CloseStream(u)
         \/ \E method \in {"register", "unregister"} : MasterHandles(u, method)
  PROVE  TypeInv'
<1> USE MaxFaultsAssumption DEF TypeInv, registration, connection, publishing, waiting, GoTo, Fault
<1>a. at \in [Users -> Points] /\ instances \in Nat /\ faults \in 0..MaxFaults
  BY DEF TypeOK
<1>b. \A p \in Points : [at EXCEPT ![u] = p] \in [Users -> Points]
  BY <1>a
<1>1. CASE Enter(u)
  <2>1. at' \in [Users -> Points] /\ instances' \in Nat
    BY <1>a, <1>b, <1>1 DEF Enter, Points
  <2>2. calls' \subseteq Users \X {"register", "unregister"} /\ overtaken' \in BOOLEAN
    BY <1>1 DEF TypeOK, Enter
  <2>3. QED
    BY <1>1, <2>1, <2>2 DEF TypeOK, Enter
<1>2. CASE Registered(u) \/ RegisterFails(u) \/ UnregisterFails(u)
  <2>1. at' \in [Users -> Points] /\ faults' \in 0..MaxFaults
    BY <1>a, <1>b, <1>2 DEF Registered, RegisterFails, UnregisterFails, Points
  <2>2. QED
    BY <1>2, <2>1 DEF TypeOK, Registered, RegisterFails, UnregisterFails
<1>3. CASE Close(u)
  <2>1. at' \in [Users -> Points] /\ instances' \in Nat
    BY <1>a, <1>b, <1>3 DEF Close, Points
  <2>2. calls' \subseteq Users \X {"register", "unregister"}
    BY <1>3 DEF TypeOK, Close
  <2>3. QED
    BY <1>3, <2>1, <2>2 DEF TypeOK, Close
<1>4. CASE Unregistered(u)
  <2>1. Cardinality(subscribers) \in Nat
    BY FS_CardinalityType
  <2>2. [left |-> subscribers, size |-> Cardinality(subscribers)]
          \in [left : SUBSET Handlers, size : Nat]
    BY <2>1 DEF TypeOK
  <2>3. iteration' \in [Users -> [left : SUBSET Handlers, size : Nat]]
    BY <1>4, <2>2 DEF TypeOK, Unregistered
  <2>4. at' \in [Users -> Points] /\ faults' \in 0..MaxFaults
    BY <1>4 DEF TypeOK, Unregistered, Points
  <2>5. QED
    BY <1>4, <2>3, <2>4 DEF TypeOK, Unregistered
<1>5. CASE CloseStream(u)
  <2>1. iteration' \in [Users -> [left : SUBSET Handlers, size : Nat]]
    <3>1. NoIteration \in [left : SUBSET Handlers, size : Nat]
      BY DEF NoIteration
    <3>2. \A h : [iteration[u] EXCEPT !.left = @ \ {h}] \in [left : SUBSET Handlers, size : Nat]
      BY DEF TypeOK
    <3>3. \/ iteration' = [iteration EXCEPT ![u] = NoIteration]
          \/ \E h : iteration' = [iteration EXCEPT ![u] = [iteration[u] EXCEPT !.left = @ \ {h}]]
      BY <1>5 DEF TypeOK, CloseStream
    <3>4. iteration \in [Users -> [left : SUBSET Handlers, size : Nat]]
      BY DEF TypeOK
    <3>5. QED
      BY <3>1, <3>2, <3>3, <3>4
  <2>2. at' \in [Users -> Points] /\ subscribers' \subseteq Handlers /\ closed' \subseteq Handlers
    BY <1>5 DEF TypeOK, CloseStream, Points
  <2>3. IsFiniteSet(subscribers')
    BY <1>5, FS_EmptySet DEF CloseStream
  <2>4. QED
    BY <1>5, <2>1, <2>2, <2>3 DEF TypeOK, CloseStream
<1>6. ASSUME NEW method \in {"register", "unregister"}, MasterHandles(u, method)
      PROVE  TypeInv'
  BY <1>6 DEF TypeOK, MasterHandles
<1>7. QED
  BY <1>1, <1>2, <1>3, <1>4, <1>5, <1>6

\* The steps of the connections keep the types.
LEMMA HandlerTypes ==
  ASSUME TypeInv, NEW h \in Handlers,
         \/ RequestTopic(h) \/ Greet(h) \/ Notify(h) \/ SendLatch(h)
         \/ SendMessage(h) \/ HandlerEnds(h)
  PROVE  TypeInv'
<1> USE DEF TypeInv, registration, connection, publishing, waiting, HandlerAt
<1>a. /\ handler \in [Handlers -> HandlerPoints] /\ subscribers \subseteq Handlers
      /\ lock_q \in Seq(Handlers \cup Waiters) /\ down \in BOOLEAN
  BY DEF TypeOK
<1>1. CASE RequestTopic(h)
  BY <1>1 DEF TypeOK, RequestTopic, HandlerPoints
<1>2. CASE Greet(h)
  <2>1. IsFiniteSet(subscribers')
    BY <1>2, FS_AddElement DEF Greet
  <2>2. handler' \in [Handlers -> HandlerPoints] /\ subscribers' \subseteq Handlers
    BY <1>a, <1>2 DEF Greet, HandlerPoints
  <2>3. Append(lock_q, h) \in Seq(Handlers \cup Waiters)
    BY <1>a
  <2>4. lock_q' \in Seq(Handlers \cup Waiters) /\ down' \in BOOLEAN
    BY <1>a, <1>2, <2>3, Zenon DEF Greet
  <2>5. QED
    BY <1>2, <2>1, <2>2, <2>4 DEF TypeOK, Greet
<1>3. CASE Notify(h)
  <2>1. waiter' \in [Waiters -> {"new", "entering", "waiting", "woken", "leaving", "done"}]
    BY <1>3 DEF TypeOK, Notify
  <2>2. lock_q' \in Seq(Handlers \cup Waiters)
    BY <1>3 DEF TypeOK, Notify, Owns
  <2>3. log # << >> => <<Last(log)>> \in Seq(Messages)
    <3>1. log \in Seq(Messages)
      BY DEF TypeOK
    <3>2. log # << >> => Last(log) \in Messages
      BY <3>1 DEF Last
    <3>3. QED
      BY <3>2
  <2>4. handler' \in [Handlers -> HandlerPoints] /\ latch' \in [Handlers -> Seq(Messages)]
    BY <1>3, <2>3 DEF TypeOK, Notify, HandlerPoints
  <2>5. QED
    BY <1>3, <2>1, <2>2, <2>4 DEF TypeOK, Notify
<1>4. CASE SendLatch(h)
  <2>1. stream[h] \o latch[h] \in Seq(Messages) /\ << >> \in Seq(Messages)
    BY DEF TypeOK
  <2>2. /\ handler' \in [Handlers -> HandlerPoints] /\ down' \in BOOLEAN
        /\ stream' \in [Handlers -> Seq(Messages)] /\ latch' \in [Handlers -> Seq(Messages)]
    BY <1>4, <2>1 DEF TypeOK, SendLatch, HandlerPoints
  <2>3. QED
    BY <1>4, <2>2 DEF TypeOK, SendLatch
<1>5. CASE SendMessage(h)
  <2>1. /\ Append(received[h], Head(stream[h])) \in Seq(Messages)
        /\ Tail(stream[h]) \in Seq(Messages)
    BY <1>5 DEF TypeOK, SendMessage
  <2>2. received' \in [Handlers -> Seq(Messages)] /\ stream' \in [Handlers -> Seq(Messages)]
    BY <1>5, <2>1 DEF TypeOK, SendMessage
  <2>3. QED
    BY <1>5, <2>2 DEF TypeOK, SendMessage
<1>6. CASE HandlerEnds(h)
  <2>1. IsFiniteSet(subscribers \ {h})
    BY FS_RemoveElement
  <2>2. QED
    BY <1>6, <2>1 DEF TypeOK, HandlerEnds, HandlerPoints
<1>7. QED
  BY <1>1, <1>2, <1>3, <1>4, <1>5, <1>6

\* The steps of publish and wait_for_peers keep the types.
LEMMA PublishTypes ==
  ASSUME TypeInv,
         \/ \E m \in Messages : Publish(m) \/ InternalPublish(m)
         \/ \E w \in Waiters : WaitForPeers(w) \/ Park(w) \/ Wake(w) \/ LookAgain(w)
         \/ UNCHANGED vars
  PROVE  TypeInv'
<1> USE DEF TypeInv, registration, connection, publishing, waiting, WaiterAt
<1>1. ASSUME NEW m \in Messages, Publish(m) PROVE TypeInv'
  BY <1>1 DEF TypeOK, Publish
<1>2. ASSUME NEW m \in Messages, InternalPublish(m) PROVE TypeInv'
  <2>1. log' \in Seq(Messages)
    BY <1>2 DEF TypeOK, InternalPublish
  <2>2. stream' \in [Handlers -> Seq(Messages)]
    BY <1>2 DEF TypeOK, InternalPublish
  <2>3. QED
    BY <1>2, <2>1, <2>2 DEF TypeOK, InternalPublish
<1>3. ASSUME NEW w \in Waiters, WaitForPeers(w) \/ Park(w) \/ Wake(w) \/ LookAgain(w)
      PROVE  TypeInv'
  <2> DEFINE T == {"new", "entering", "waiting", "woken", "leaving", "done"}
             Q == Seq(Handlers \cup Waiters)
  <2>1. waiter \in [Waiters -> T] /\ lock_q \in Q
    BY DEF TypeOK
  <2>2. \A p \in T : [waiter EXCEPT ![w] = p] \in [Waiters -> T]
    BY <2>1
  <2>3. waiter' \in [Waiters -> T]
    BY <1>3, <2>1, <2>2 DEF WaitForPeers, Park, Wake, LookAgain, Look
  <2>4. \A q \in Q : Append(q, w) \in Q /\ (q # << >> => Tail(q) \in Q)
    OBVIOUS
  <2>5. \/ lock_q' = lock_q
        \/ lock_q' = Append(lock_q, w)
        \/ lock_q # << >> /\ (lock_q' = Tail(lock_q) \/ lock_q' = Append(Tail(lock_q), w))
    BY <1>3, Zenon DEF WaitForPeers, Park, Wake, LookAgain, Look, Owns
  <2>6. lock_q' \in Q
    BY <2>1, <2>4, <2>5
  <2>7. QED
    BY <1>3, <2>3, <2>6 DEF TypeOK, WaitForPeers, Park, Wake, LookAgain
<1>4. CASE UNCHANGED vars
  BY <1>4 DEF TypeOK, vars
<1>5. QED
  BY <1>1, <1>2, <1>3, <1>4

LEMMA InitTypes == Init => TypeInv
<1> SUFFICES ASSUME Init PROVE TypeInv
  OBVIOUS
<1>1. /\ at \in [Users -> Points] /\ handler \in [Handlers -> HandlerPoints]
      /\ iteration \in [Users -> [left : SUBSET Handlers, size : Nat]]
      /\ message \in [Messages -> {"new", "serializing", "published", "dropped"}]
      /\ waiter \in [Waiters -> {"new", "entering", "waiting", "woken", "leaving", "done"}]
  BY DEF Init, Points, HandlerPoints, NoIteration
<1>2. /\ stream \in [Handlers -> Seq(Messages)] /\ latch \in [Handlers -> Seq(Messages)]
      /\ received \in [Handlers -> Seq(Messages)] /\ log \in Seq(Messages)
      /\ lock_q \in Seq(Handlers \cup Waiters)
  BY DEF Init
<1>3. faults \in 0..MaxFaults /\ instances \in Nat
  BY MaxFaultsAssumption DEF Init
<1>4. QED
  BY <1>1, <1>2, <1>3, FS_EmptySet DEF Init, TypeInv, TypeOK

LEMMA NextTypes == TypeInv /\ [Next]_vars => TypeInv'
BY UserTypes, HandlerTypes, PublishTypes DEF Next

LEMMA TypeInvariant == Spec => []TypeInv
BY InitTypes, NextTypes, PTL DEF Spec

\* The publication, its connections and the condition keep their shape; a user's
\* iteration is over a set that has a size.
THEOREM TypeCorrect == Spec => []TypeOK
BY TypeInvariant, PTL DEF TypeInv

-----------------------------------------------------------------------------
(* The registration                                                         *)

Registrants == {"registering", "open"}

\* Users are counted from before they register until they close: with none counted
\* nobody has the publication, with one counted at most one.
Counted ==
  /\ instances = 0 => \A u \in Users : at[u] \notin Registrants
  /\ instances = 1 =>
       \A u, v \in Users : at[u] \in Registrants /\ at[v] \in Registrants => u = v

\* No call has failed, and no user entered before an unregistration was handled.
Regular == ~overtaken /\ faults = 0

\* Then a call is under way only for the user that awaits it, an unregistration
\* only while nobody is counted, and the master has what the calls asked for.
Orderly ==
  /\ instances = 1 => \E u \in Users : at[u] \in Registrants
  /\ instances # 0 => listed \/ \E u \in Users : at[u] = "registering"
  /\ instances = 0 => ~listed \/ \E u \in Users : <<u, "unregister">> \in calls
  /\ \A u \in Users :
       /\ <<u, "register">> \in calls => at[u] = "registering"
       /\ <<u, "unregister">> \in calls => at[u] = "unregistering" /\ instances = 0
       /\ at[u] = "registering" => listed \/ <<u, "register">> \in calls

RegistrationInv == Counted /\ (Regular => Orderly)

\* What the registration is about does not change.
Quiet == UNCHANGED <<instances, at, listed, calls, overtaken, faults>>

LEMMA QuietRegistration == RegistrationInv /\ Quiet => RegistrationInv'
BY DEF Quiet, RegistrationInv, Counted, Regular, Orderly

\* A user goes to a point where it neither has the publication nor calls, and
\* somebody has failed.
LEMMA FaultRegistration ==
  ASSUME TypeInv, RegistrationInv, NEW u \in Users, NEW point \in {"failed", "closing"},
         GoTo(u, point), Fault, UNCHANGED instances
  PROVE  RegistrationInv'
<1>1. at \in [Users -> Points] /\ faults \in Nat /\ at' = [at EXCEPT ![u] = point]
  BY MaxFaultsAssumption DEF TypeInv, TypeOK, GoTo
<1>2. faults' # 0
  BY <1>1 DEF Fault
<1>3. \A v \in Users : at'[v] \in Registrants => at[v] \in Registrants
  BY <1>1 DEF Registrants
<1>4. QED
  BY <1>2, <1>3 DEF RegistrationInv, Counted, Regular

\* The first user registers, with no unregistration on its way; further ones find
\* the topic listed or the first one registering.
LEMMA EnterRegistration ==
  ASSUME TypeInv, RegistrationInv, NEW u \in Users, Enter(u)
  PROVE  RegistrationInv'
<1>1. /\ at \in [Users -> Points] /\ instances \in Nat /\ instances' = instances + 1
      /\ at[u] = "new" /\ faults' = faults /\ listed' = listed
      /\ calls \subseteq Users \X {"register", "unregister"}
  BY DEF TypeInv, TypeOK, Enter
<1>2. overtaken' <=> overtaken \/ \E v \in Users : <<v, "unregister">> \in calls
  BY DEF Enter
<1>3. instances' # 0
  BY <1>1
<1>4. ASSUME Regular'
      PROVE  Orderly /\ \A v \in Users : <<v, "unregister">> \notin calls
  BY <1>1, <1>2, <1>4 DEF Regular, RegistrationInv
<1>5. CASE instances = 0
  <2>1. at' = [at EXCEPT ![u] = "registering"] /\ calls' = calls \cup {<<u, "register">>}
    BY <1>5 DEF Enter, GoTo
  <2>2. \A v \in Users : at[v] \notin Registrants
    BY <1>5 DEF RegistrationInv, Counted
  <2>3. Counted'
    BY <1>1, <1>3, <2>1, <2>2 DEF Counted, Registrants
  <2>4. ASSUME Regular' PROVE Orderly'
    <3>1. \A v \in Users \ {u} : at'[v] = at[v] /\ at[v] \notin Registrants
      BY <1>1, <2>1, <2>2
    <3>2. at'[u] = "registering" /\ <<u, "register">> \in calls'
      BY <1>1, <2>1
    <3>3. \A v \in Users : <<v, "unregister">> \notin calls'
      BY <1>4, <2>1, <2>4
    <3>4. \A v \in Users : <<v, "register">> \in calls' => v = u
      BY <1>4, <2>1, <2>2, <2>4 DEF Orderly, Registrants
    <3>5. QED
      BY <1>3, <3>1, <3>2, <3>3, <3>4 DEF Orderly, Registrants
  <2>5. QED
    BY <2>3, <2>4 DEF RegistrationInv
<1>6. CASE instances # 0
  <2>1. at' = [at EXCEPT ![u] = "open"] /\ calls' = calls
    BY <1>6 DEF Enter, GoTo
  <2>2. instances' # 1 /\ instances' # 0
    BY <1>1, <1>6
  <2>3. ASSUME Regular' PROVE Orderly'
    BY <1>1, <1>4, <1>6, <2>1, <2>2, <2>3 DEF Orderly
  <2>4. QED
    BY <2>2, <2>3 DEF RegistrationInv, Counted
<1>7. QED
  BY <1>5, <1>6

\* The master does what a user asks for: it registers the topic only for a user
\* that is counted, and unregisters it only while none is.
LEMMA MasterRegistration ==
  ASSUME TypeInv, RegistrationInv, NEW u \in Users, NEW method \in {"register", "unregister"},
         MasterHandles(u, method)
  PROVE  RegistrationInv'
<1>1. /\ <<u, method>> \in calls /\ calls' = calls \ {<<u, method>>}
      /\ listed' <=> method = "register"
      /\ UNCHANGED <<instances, at, overtaken, faults>>
  BY DEF MasterHandles
<1>2. Counted'
  BY <1>1 DEF RegistrationInv, Counted
<1>3. ASSUME Regular' PROVE Orderly'
  <2>1. Orderly
    BY <1>1, <1>3 DEF Regular, RegistrationInv
  <2>2. CASE method = "register"
    <3>1. at[u] = "registering" /\ listed'
      BY <1>1, <2>1, <2>2 DEF Orderly
    <3>2. instances # 0
      BY <3>1 DEF RegistrationInv, Counted, Registrants
    <3>3. QED
      BY <1>1, <2>1, <3>1, <3>2 DEF Orderly
  <2>3. CASE method = "unregister"
    <3>1. ~listed' /\ instances = 0
      BY <1>1, <2>1, <2>3 DEF Orderly
    <3>2. \A v \in Users : at[v] # "registering"
      BY <3>1 DEF RegistrationInv, Counted, Registrants
    <3>3. QED
      BY <1>1, <2>1, <3>1, <3>2 DEF Orderly
  <2>4. QED
    BY <2>2, <2>3
<1>4. QED
  BY <1>2, <1>3 DEF RegistrationInv

\* The call of the master has returned.
LEMMA RegisteredRegistration ==
  ASSUME TypeInv, RegistrationInv, NEW u \in Users, Registered(u)
  PROVE  RegistrationInv'
<1>1. /\ at \in [Users -> Points] /\ at' = [at EXCEPT ![u] = "open"]
      /\ at[u] = "registering" /\ <<u, "register">> \notin calls
      /\ UNCHANGED <<instances, listed, calls, overtaken, faults>>
  BY DEF TypeInv, TypeOK, Registered, GoTo
<1>2. \A v \in Users : at'[v] \in Registrants <=> at[v] \in Registrants
  BY <1>1 DEF Registrants
<1>3. Counted'
  BY <1>1, <1>2 DEF RegistrationInv, Counted
<1>4. ASSUME Regular' PROVE Orderly'
  <2>1. Orderly
    BY <1>1, <1>4 DEF Regular, RegistrationInv
  <2>2. listed /\ instances # 0
    BY <1>1, <2>1 DEF Orderly, RegistrationInv, Counted, Registrants
  <2>3. \A v \in Users \ {u} : at'[v] = at[v]
    BY <1>1
  <2>4. QED
    BY <1>1, <1>2, <2>1, <2>2, <2>3 DEF Orderly
<1>5. QED
  BY <1>3, <1>4 DEF RegistrationInv

\* A user that is the only one counted unregisters the topic, and nobody else has it.
LEMMA CloseRegistration ==
  ASSUME TypeInv, RegistrationInv, NEW u \in Users, Close(u)
  PROVE  RegistrationInv'
<1>1. /\ at \in [Users -> Points] /\ at[u] = "open"
      /\ UNCHANGED <<listed, overtaken, faults>>
  BY DEF TypeInv, TypeOK, Close
<1>2. CASE instances = 1
  <2>1. /\ at' = [at EXCEPT ![u] = "unregistering"] /\ calls' = calls \cup {<<u, "unregister">>}
        /\ instances' = 0
    BY <1>2 DEF Close, GoTo
  <2>2. \A v \in Users \ {u} : at[v] \notin Registrants
    BY <1>1, <1>2 DEF RegistrationInv, Counted, Registrants
  <2>3. Counted'
    BY <1>1, <2>1, <2>2 DEF Counted, Registrants
  <2>4. ASSUME Regular' PROVE Orderly'
    <3>1. Orderly
      BY <1>1, <2>4 DEF Regular, RegistrationInv
    <3>2. \A v \in Users \ {u} : at'[v] = at[v] /\ at[v] # "registering"
      BY <1>1, <2>1, <2>2 DEF Registrants
    <3>3. \A v \in Users : <<v, "register">> \notin calls'
      BY <1>1, <2>1, <3>1, <3>2 DEF Orderly
    <3>4. \A v \in Users : <<v, "unregister">> \in calls' => v = u
      <4>1. \A v \in Users : <<v, "unregister">> \notin calls
        <5>1. instances # 0
          BY <1>2
        <5>2. QED
          BY <3>1, <5>1, Zenon DEF Orderly
      <4>2. QED
        BY <2>1, <4>1
    <3>5. at'[u] = "unregistering" /\ <<u, "unregister">> \in calls'
      BY <1>1, <2>1
    <3>6. QED
      BY <2>1, <3>2, <3>3, <3>4, <3>5 DEF Orderly
  <2>5. QED
    BY <2>3, <2>4 DEF RegistrationInv
<1>3. CASE instances # 1
  <2>1. at' = [at EXCEPT ![u] = "closed"] /\ UNCHANGED <<instances, calls>>
    BY <1>3 DEF Close, GoTo
  <2>2. instances # 0
    BY <1>1 DEF RegistrationInv, Counted, Registrants
  <2>3. Counted'
    BY <1>3, <2>1, <2>2 DEF Counted
  <2>4. ASSUME Regular' PROVE Orderly'
    <3>1. Orderly
      BY <1>1, <2>4 DEF Regular, RegistrationInv
    <3>2. \A v \in Users \ {u} : at'[v] = at[v]
      BY <1>1, <2>1
    <3>3. QED
      BY <1>1, <1>3, <2>1, <2>2, <3>1, <3>2 DEF Orderly
  <2>5. QED
    BY <2>3, <2>4 DEF RegistrationInv
<1>4. QED
  BY <1>2, <1>3

\* Unregistered, the user closes the streams, which the master has no part in.
LEMMA UnregisteredRegistration ==
  ASSUME TypeInv, RegistrationInv, NEW u \in Users, Unregistered(u) \/ CloseStream(u)
  PROVE  RegistrationInv'
<1>1. CASE Unregistered(u) /\ Fault
  <2>1. GoTo(u, "closing") /\ UNCHANGED instances
    BY <1>1 DEF Unregistered
  <2>2. QED
    BY <1>1, <2>1, FaultRegistration
<1>2. ASSUME NEW from \in {"unregistering", "closing"}, NEW to \in {"closing", "failed", "closed"},
             at[u] = from, <<u, "unregister">> \notin calls \/ from = "closing",
             at' = at \/ at' = [at EXCEPT ![u] = to],
             UNCHANGED <<instances, listed, calls, overtaken, faults>>
      PROVE  RegistrationInv'
  <2>1. /\ at \in [Users -> Points]
        /\ \A v \in Users \ {u} : at'[v] = at[v]
        /\ at'[u] \notin Registrants /\ at[u] \notin Registrants
    BY <1>2 DEF TypeInv, TypeOK, Registrants
  <2>2. \A v \in Users : \A p \in Registrants : at'[v] = p <=> at[v] = p
    BY <2>1
  <2>3. Counted'
    BY <1>2, <2>2 DEF RegistrationInv, Counted
  <2>4. ASSUME Regular' PROVE Orderly'
    <3>1. Orderly
      BY <1>2, <2>4 DEF Regular, RegistrationInv
    <3>2. <<u, "unregister">> \notin calls /\ <<u, "register">> \notin calls
      BY <1>2, <3>1 DEF Orderly
    <3>3. QED
      BY <1>2, <2>1, <2>2, <3>1, <3>2 DEF Orderly, Registrants
  <2>5. QED
    BY <2>3, <2>4 DEF RegistrationInv
<1>3. CASE Unregistered(u) /\ <<u, "unregister">> \notin calls /\ UNCHANGED faults
  <2>1. /\ at[u] = "unregistering" /\ at' = [at EXCEPT ![u] = "closing"]
        /\ UNCHANGED <<instances, listed, calls, overtaken>>
    BY <1>3 DEF Unregistered, GoTo
  <2>2. QED
    BY <1>2, <1>3, <2>1
<1>4. CASE CloseStream(u)
  <2>1. /\ at[u] = "closing"
        /\ at' = at \/ at' = [at EXCEPT ![u] = "failed"] \/ at' = [at EXCEPT ![u] = "closed"]
        /\ UNCHANGED <<instances, listed, calls, overtaken, faults>>
    BY <1>4 DEF CloseStream, GoTo
  <2>2. QED
    BY <1>2, <2>1
<1>5. QED
  BY <1>1, <1>3, <1>4 DEF Unregistered

\* Connections, messages and waiters leave the registration alone.
LEMMA OthersQuiet ==
  ASSUME \/ \E h \in Handlers :
              \/ RequestTopic(h) \/ Greet(h) \/ Notify(h) \/ SendLatch(h)
              \/ SendMessage(h) \/ HandlerEnds(h)
         \/ \E m \in Messages : Publish(m) \/ InternalPublish(m)
         \/ \E w \in Waiters : WaitForPeers(w) \/ Park(w) \/ Wake(w) \/ LookAgain(w)
         \/ UNCHANGED vars
  PROVE  Quiet
BY DEF Quiet, registration, vars, RequestTopic, Greet, Notify, SendLatch, SendMessage,
       HandlerEnds, Publish, InternalPublish, WaitForPeers, Park, Wake, LookAgain

LEMMA InitRegistration == Init => RegistrationInv
BY DEF Init, RegistrationInv, Counted, Regular, Orderly, Registrants

LEMMA NextRegistration == TypeInv /\ RegistrationInv /\ [Next]_vars => RegistrationInv'
<1> SUFFICES ASSUME TypeInv, RegistrationInv, [Next]_vars PROVE RegistrationInv'
  OBVIOUS
<1>1. ASSUME NEW u \in Users,
             \/ Enter(u) \/ Registered(u) \/ Close(u) \/ Unregistered(u) \/ CloseStream(u)
             \/ \E method \in {"register", "unregister"} : MasterHandles(u, method)
      PROVE  RegistrationInv'
  BY <1>1, EnterRegistration, RegisteredRegistration, CloseRegistration,
     UnregisteredRegistration, MasterRegistration
<1>2. ASSUME NEW u \in Users, RegisterFails(u) \/ UnregisterFails(u)
      PROVE  RegistrationInv'
  <2>1. GoTo(u, "failed") /\ Fault /\ UNCHANGED instances
    BY <1>2 DEF RegisterFails, UnregisterFails
  <2>2. QED
    BY <2>1, FaultRegistration
<1>3. CASE \E u \in Users :
             \/ Enter(u) \/ Registered(u) \/ RegisterFails(u)
             \/ Close(u) \/ Unregistered(u) \/ UnregisterFails(u) \/ CloseStream(u)
             \/ \E method \in {"register", "unregister"} : MasterHandles(u, method)
  BY <1>1, <1>2, <1>3
<1>4. QED
  BY <1>3, OthersQuiet, QuietRegistration DEF Next

LEMMA RegistrationInvariant == Spec => []RegistrationInv
BY TypeInvariant, InitRegistration, NextRegistration, PTL DEF Spec

\* A user that has the publication open is listed, or the first user is registering,
\* unless a call failed or one entered before an unregistration was handled.
THEOREM ListedWhileOpenHolds == Spec => []ListedWhileOpen
<1>1. RegistrationInv => ListedWhileOpen
  <2> SUFFICES ASSUME RegistrationInv, Regular, NEW u \in Users, at[u] = "open"
               PROVE  listed \/ \E v \in Users : at[v] = "registering"
    BY DEF ListedWhileOpen, Regular
  <2>1. instances # 0
    BY DEF RegistrationInv, Counted, Registrants
  <2>2. QED
    BY <2>1 DEF RegistrationInv, Orderly
<1>2. QED
  BY <1>1, RegistrationInvariant, PTL

\* With all users gone the topic is unregistered, unless two had it at a time, a
\* call failed, or one entered before an unregistration was handled.
THEOREM ReleasedAtEndHolds == Spec => []ReleasedAtEnd
<1>1. TypeInv /\ RegistrationInv => ReleasedAtEnd
  <2> SUFFICES ASSUME TypeInv, RegistrationInv, Regular, instances <= 1,
                      \A u \in Users : at[u] = "closed"
               PROVE  ~listed /\ instances = 0
    BY DEF ReleasedAtEnd, Regular
  <2>1. Orderly
    BY DEF RegistrationInv
  <2>2. instances = 0
    <3>1. instances # 1
      BY <2>1 DEF Orderly, Registrants
    <3>2. QED
      BY <3>1 DEF TypeInv, TypeOK
  <2>3. \A u \in Users : <<u, "unregister">> \notin calls
    BY <2>1 DEF Orderly
  <2>4. QED
    BY <2>1, <2>2, <2>3 DEF Orderly
<1>2. QED
  BY <1>1, TypeInvariant, RegistrationInvariant, PTL

-----------------------------------------------------------------------------
(* Waiting for a peer                                                       *)

\* Who asks for the condition's lock is queued for it once: the subscribers that are
\* to notify, and who is about to wait or has been woken.
QueueInv ==
  /\ Distinct(lock_q)
  /\ \A h \in Handlers : In(lock_q, h) <=> handler[h] = "notifying"
  /\ \A w \in Waiters : In(lock_q, w) <=> waiter[w] \in {"entering", "leaving"}

\* A subscriber that came after a waiter's look is behind it in the queue, if the
\* waiter is still in it.
PeerBehind ==
  subscribers # {} =>
    \A w \in Waiters :
      /\ waiter[w] = "entering" => \E h \in subscribers : Sooner(lock_q, w, h)
      /\ waiter[w] = "waiting" => \E h \in subscribers : In(lock_q, h)

PeerInv == QueueInv /\ PeerBehind

\* Steps that leave the condition alone; a subscriber that goes has notified.
LEMMA OutsideTheLock ==
  ASSUME PeerInv, UNCHANGED <<waiter, lock_q>>,
         \A h \in Handlers : handler'[h] = "notifying" <=> handler[h] = "notifying",
         \/ subscribers' = subscribers
         \/ subscribers' = {}
         \/ \E h \in Handlers : handler[h] # "notifying" /\ subscribers' = subscribers \ {h},
         subscribers \subseteq Handlers
  PROVE  PeerInv'
<1>1. QueueInv'
  BY DEF PeerInv, QueueInv
<1>2. ASSUME NEW h \in subscribers, In(lock_q, h), subscribers' # {}
      PROVE  h \in subscribers'
  BY <1>2 DEF PeerInv, QueueInv
<1>3. \A w, h : Sooner(lock_q, w, h) => In(lock_q, h)
  BY DEF Sooner, In
<1>4. subscribers' # {} => subscribers # {}
  OBVIOUS
<1>5. PeerBehind'
  BY <1>2, <1>3, <1>4 DEF PeerInv, PeerBehind
<1>6. QED
  BY <1>1, <1>5 DEF PeerInv

\* What a task that has the lock finds: it is the first, and the others keep their
\* places when it goes.
LEMMA FirstInQueue ==
  ASSUME TypeInv, PeerInv, NEW t, Owns(t)
  PROVE  /\ lock_q # << >> /\ Tail(lock_q) \in Seq(Handlers \cup Waiters)
         /\ In(lock_q, t)
         /\ \A u : In(Tail(lock_q), u) <=> In(lock_q, u) /\ u # t
         /\ \A u, v : Sooner(lock_q, u, v) <=> (u = t /\ In(Tail(lock_q), v))
                                                \/ Sooner(Tail(lock_q), u, v)
         /\ Distinct(Tail(lock_q))
<1>1. lock_q \in Seq(Handlers \cup Waiters) /\ lock_q # << >> /\ Distinct(lock_q)
  BY DEF TypeInv, TypeOK, PeerInv, QueueInv, Owns
<1>2. t = Head(lock_q)
  BY DEF Owns
<1>3. QED
  BY <1>1, <1>2, Popped

\* A new subscriber is behind all who are to wait.
LEMMA GreetPeers ==
  ASSUME TypeInv, PeerInv, NEW h \in Handlers, Greet(h)
  PROVE  PeerInv'
<1>1. /\ handler \in [Handlers -> HandlerPoints] /\ handler[h] = "greeting"
      /\ lock_q \in Seq(Handlers \cup Waiters) /\ waiter' = waiter
      /\ subscribers \subseteq Handlers
  BY DEF TypeInv, TypeOK, Greet
<1>2. CASE handler' = [handler EXCEPT ![h] = "ended"] /\ UNCHANGED <<subscribers, lock_q>>
  BY <1>1, <1>2, OutsideTheLock
<1>3. CASE /\ handler' = [handler EXCEPT ![h] = "notifying"]
           /\ subscribers' = subscribers \cup {h} /\ lock_q' = Append(lock_q, h)
  <2>1. ~In(lock_q, h) /\ Distinct(lock_q) /\ h \in Handlers \cup Waiters
    BY <1>1 DEF PeerInv, QueueInv
  <2>2. /\ \A u : In(lock_q', u) <=> In(lock_q, u) \/ u = h
        /\ \A u, v : Sooner(lock_q', u, v) <=> Sooner(lock_q, u, v) \/ (In(lock_q, u) /\ v = h)
        /\ Distinct(lock_q')
    BY <1>1, <1>3, <2>1, Appended
  <2>3. QueueInv'
    BY <1>1, <1>3, <2>2, TasksAssumption DEF PeerInv, QueueInv
  <2>4. ASSUME NEW w \in Waiters
        PROVE  /\ waiter[w] = "entering" => Sooner(lock_q', w, h)
               /\ waiter[w] = "waiting" => In(lock_q', h)
    BY <2>2 DEF PeerInv, QueueInv
  <2>5. PeerBehind'
    BY <1>1, <1>3, <2>4 DEF PeerBehind
  <2>6. QED
    BY <2>3, <2>5 DEF PeerInv
<1>4. QED
  BY <1>2, <1>3 DEF Greet, HandlerAt

\* The notification leaves nobody waiting.
LEMMA NotifyPeers ==
  ASSUME TypeInv, PeerInv, NEW h \in Handlers, Notify(h)
  PROVE  PeerInv'
<1>1. /\ handler \in [Handlers -> HandlerPoints]
      /\ handler'[h] # "notifying" /\ \A g \in Handlers \ {h} : handler'[g] = handler[g]
      /\ subscribers' = subscribers /\ lock_q' = Tail(lock_q) /\ Owns(h)
  BY DEF TypeInv, TypeOK, Notify, HandlerAt
<1>2. /\ In(lock_q, h) /\ \A u : In(lock_q', u) <=> In(lock_q, u) /\ u # h
      /\ \A u, v : Sooner(lock_q, u, v) <=> (u = h /\ In(lock_q', v)) \/ Sooner(lock_q', u, v)
      /\ Distinct(lock_q')
  BY <1>1, FirstInQueue
<1>3. \A w \in Waiters : /\ w # h /\ waiter'[w] # "waiting"
                         /\ \A p \in {"entering", "leaving"} : waiter'[w] = p <=> waiter[w] = p
  BY TasksAssumption DEF Notify
<1>4. QueueInv'
  BY <1>1, <1>2, <1>3 DEF PeerInv, QueueInv
<1>5. PeerBehind'
  BY <1>1, <1>2, <1>3 DEF PeerInv, PeerBehind
<1>6. QED
  BY <1>4, <1>5 DEF PeerInv

\* A waiter goes to the end of the queue; it is to wait if there is no subscriber.
LEMMA WaiterQueues ==
  ASSUME TypeInv, PeerInv, NEW w \in Waiters, waiter[w] \notin {"entering", "leaving"},
         lock_q' = Append(lock_q, w), NEW point \in {"entering", "leaving"}, WaiterAt(w, point),
         point = "entering" => subscribers = {}, UNCHANGED <<handler, subscribers>>
  PROVE  PeerInv'
<1>1. /\ waiter' = [waiter EXCEPT ![w] = point] /\ lock_q \in Seq(Handlers \cup Waiters)
      /\ w \in DOMAIN waiter /\ w \notin Handlers
  BY TasksAssumption DEF TypeInv, TypeOK, WaiterAt
<1>2. ~In(lock_q, w) /\ Distinct(lock_q) /\ w \in Handlers \cup Waiters
  BY DEF PeerInv, QueueInv
<1>3. /\ \A u : In(lock_q', u) <=> In(lock_q, u) \/ u = w
      /\ \A u, v : Sooner(lock_q', u, v) <=> Sooner(lock_q, u, v) \/ (In(lock_q, u) /\ v = w)
      /\ Distinct(lock_q')
  BY <1>1, <1>2, Appended
<1>4. waiter'[w] = point /\ \A v \in Waiters \ {w} : waiter'[v] = waiter[v]
  BY <1>1 DEF TypeInv, TypeOK
<1>5. QueueInv'
  BY <1>1, <1>3, <1>4 DEF PeerInv, QueueInv
<1>6. PeerBehind'
  BY <1>3, <1>4 DEF PeerInv, PeerBehind
<1>7. QED
  BY <1>5, <1>6 DEF PeerInv

\* A waiter leaves the queue, to wait or because it has found a subscriber.
LEMMA WaiterLeaves ==
  ASSUME TypeInv, PeerInv, NEW w \in Waiters, Owns(w), lock_q' = Tail(lock_q),
         NEW point \in {"waiting", "done"}, WaiterAt(w, point),
         point = "waiting" => waiter[w] = "entering", UNCHANGED <<handler, subscribers>>
  PROVE  PeerInv'
<1>1. waiter' = [waiter EXCEPT ![w] = point] /\ w \in DOMAIN waiter /\ w \notin Handlers
  BY TasksAssumption DEF TypeInv, TypeOK, WaiterAt
<1>2. /\ \A u : In(lock_q', u) <=> In(lock_q, u) /\ u # w
      /\ \A u, v : Sooner(lock_q, u, v) <=> (u = w /\ In(lock_q', v)) \/ Sooner(lock_q', u, v)
      /\ Distinct(lock_q')
  BY FirstInQueue
<1>3. waiter'[w] = point /\ \A v \in Waiters \ {w} : waiter'[v] = waiter[v]
  BY <1>1 DEF TypeInv, TypeOK
<1>4. QueueInv'
  BY <1>1, <1>2, <1>3 DEF PeerInv, QueueInv
<1>5. subscribers \subseteq Handlers /\ ~Sooner(lock_q', w, w)
  BY <1>2 DEF TypeInv, TypeOK, Sooner, In
<1>6. ~In(lock_q', w) /\ \A h : ~Sooner(lock_q', w, h)
  BY <1>2 DEF Sooner, In
<1>7. PeerBehind'
  BY <1>1, <1>2, <1>3, <1>5, <1>6 DEF PeerInv, PeerBehind
<1>8. QED
  BY <1>4, <1>7 DEF PeerInv

\* A woken waiter that finds no subscriber goes to the end of the queue again.
LEMMA LookAgainPeers ==
  ASSUME TypeInv, PeerInv, NEW w \in Waiters, LookAgain(w)
  PROVE  PeerInv'
<1>1. CASE subscribers # {}
  <2>1. WaiterAt(w, "done") /\ lock_q' = Tail(lock_q) /\ Owns(w) /\ UNCHANGED <<handler, subscribers>>
    BY <1>1 DEF LookAgain, connection
  <2>2. QED
    BY <2>1, WaiterLeaves
<1>2. CASE subscribers = {}
  <2>1. /\ waiter' = [waiter EXCEPT ![w] = "entering"] /\ lock_q' = Append(Tail(lock_q), w)
        /\ Owns(w) /\ UNCHANGED <<handler, subscribers>>
        /\ w \in Handlers \cup Waiters /\ w \notin Handlers
    BY <1>2, TasksAssumption DEF LookAgain, WaiterAt, connection
  <2> DEFINE rest == Tail(lock_q)
  <2>2. /\ rest \in Seq(Handlers \cup Waiters) /\ Distinct(rest) /\ ~In(rest, w) /\ In(lock_q, w)
        /\ \A u : In(rest, u) <=> In(lock_q, u) /\ u # w
    BY <2>1, FirstInQueue
  <2> HIDE DEF rest
  <2>3. lock_q' = Append(rest, w)
    BY <2>1 DEF rest
  <2>4. Distinct(lock_q') /\ \A u : In(lock_q', u) <=> In(rest, u) \/ u = w
    <3>1. w \in Handlers \cup Waiters
      OBVIOUS
    <3>2. /\ \A u : In(Append(rest, w), u) <=> In(rest, u) \/ u = w
          /\ Distinct(rest) /\ ~In(rest, w) => Distinct(Append(rest, w))
      BY <2>2, <3>1, Appended
    <3>3. QED
      BY <2>2, <2>3, <3>2
  <2>5. waiter'[w] = "entering" /\ \A v \in Waiters \ {w} : waiter'[v] = waiter[v]
    BY <2>1 DEF TypeInv, TypeOK
  <2>6. QueueInv'
    BY <2>1, <2>2, <2>4, <2>5 DEF PeerInv, QueueInv
  <2>7. QED
    BY <1>2, <2>1, <2>6 DEF PeerInv, PeerBehind
<1>3. QED
  BY <1>1, <1>2

\* Users, messages and the other steps of the connections leave the condition alone.
LEMMA OutsidePeers ==
  ASSUME TypeInv, PeerInv,
         \/ \E u \in Users :
              \/ Enter(u) \/ Registered(u) \/ RegisterFails(u)
              \/ Close(u) \/ Unregistered(u) \/ UnregisterFails(u) \/ CloseStream(u)
              \/ \E method \in {"register", "unregister"} : MasterHandles(u, method)
         \/ \E h \in Handlers :
              RequestTopic(h) \/ SendLatch(h) \/ SendMessage(h) \/ HandlerEnds(h)
         \/ \E m \in Messages : Publish(m) \/ InternalPublish(m)
         \/ UNCHANGED vars
  PROVE  PeerInv'
<1> USE DEF connection, waiting
<1>1. /\ handler \in [Handlers -> HandlerPoints] /\ subscribers \subseteq Handlers
  BY DEF TypeInv, TypeOK
<1>2. ASSUME NEW u \in Users,
             \/ Enter(u) \/ Registered(u) \/ RegisterFails(u)
             \/ Close(u) \/ Unregistered(u) \/ UnregisterFails(u) \/ CloseStream(u)
             \/ \E method \in {"register", "unregister"} : MasterHandles(u, method)
      PROVE  PeerInv'
  <2>1. /\ UNCHANGED <<waiter, lock_q, handler>>
        /\ subscribers' = subscribers \/ subscribers' = {}
    BY <1>2 DEF Enter, Registered, RegisterFails, Close, Unregistered, UnregisterFails,
                CloseStream, MasterHandles
  <2>2. QED
    BY <1>1, <2>1, OutsideTheLock
<1>3. ASSUME NEW h \in Handlers, RequestTopic(h) \/ SendLatch(h) \/ SendMessage(h) \/ HandlerEnds(h)
      PROVE  PeerInv'
  <2>1. /\ UNCHANGED <<waiter, lock_q>>
        /\ \/ handler' = handler
           \/ handler[h] # "notifying"
              /\ \E p \in {"greeting", "sending", "ended"} : handler' = [handler EXCEPT ![h] = p]
    BY <1>3 DEF RequestTopic, SendLatch, SendMessage, HandlerEnds, HandlerAt
  <2>2. \A g \in Handlers : handler'[g] = "notifying" <=> handler[g] = "notifying"
    BY <1>1, <2>1
  <2>3. subscribers' = subscribers \/ (handler[h] # "notifying" /\ subscribers' = subscribers \ {h})
    BY <1>3 DEF RequestTopic, SendLatch, SendMessage, HandlerEnds
  <2>4. QED
    BY <1>1, <2>1, <2>2, <2>3, OutsideTheLock
<1>4. ASSUME NEW m \in Messages, Publish(m) \/ InternalPublish(m)
      PROVE  PeerInv'
  <2>1. UNCHANGED <<waiter, lock_q, handler, subscribers>>
    BY <1>4 DEF Publish, InternalPublish
  <2>2. QED
    BY <1>1, <2>1, OutsideTheLock
<1>5. CASE UNCHANGED vars
  <2>1. UNCHANGED <<waiter, lock_q, handler, subscribers>>
    BY <1>5 DEF vars
  <2>2. QED
    BY <1>1, <2>1, OutsideTheLock
<1>6. QED
  BY <1>2, <1>3, <1>4, <1>5

LEMMA InitPeers == Init => PeerInv
BY DEF Init, PeerInv, QueueInv, PeerBehind, Distinct, In

LEMMA NextPeers == TypeInv /\ PeerInv /\ [Next]_vars => PeerInv'
<1> SUFFICES ASSUME TypeInv, PeerInv, [Next]_vars PROVE PeerInv'
  OBVIOUS
<1>1. ASSUME NEW w \in Waiters, WaitForPeers(w)
      PROVE  PeerInv'
  <2>1. CASE subscribers # {}
    <3>1. UNCHANGED <<lock_q, handler, subscribers>> /\ waiter' = [waiter EXCEPT ![w] = "done"]
          /\ waiter[w] = "new"
      BY <1>1, <2>1 DEF WaitForPeers, Look, WaiterAt, connection
    <3>2. \A v \in Waiters : \A p \in {"entering", "leaving", "waiting"} :
            waiter'[v] = p <=> waiter[v] = p
      BY <3>1 DEF TypeInv, TypeOK
    <3>3. QED
      BY <3>1, <3>2 DEF PeerInv, QueueInv, PeerBehind
  <2>2. CASE subscribers = {}
    <3>1. /\ lock_q' = Append(lock_q, w) /\ WaiterAt(w, "entering") /\ waiter[w] = "new"
          /\ UNCHANGED <<handler, subscribers>>
      BY <1>1, <2>2 DEF WaitForPeers, Look, connection
    <3>2. QED
      BY <2>2, <3>1, WaiterQueues
  <2>3. QED
    BY <2>1, <2>2
<1>2. ASSUME NEW w \in Waiters, Park(w)
      PROVE  PeerInv'
  <2>1. /\ Owns(w) /\ lock_q' = Tail(lock_q) /\ WaiterAt(w, "waiting") /\ waiter[w] = "entering"
        /\ UNCHANGED <<handler, subscribers>>
    BY <1>2 DEF Park, connection
  <2>2. QED
    BY <2>1, WaiterLeaves
<1>3. ASSUME NEW w \in Waiters, Wake(w)
      PROVE  PeerInv'
  <2>1. /\ lock_q' = Append(lock_q, w) /\ WaiterAt(w, "leaving") /\ waiter[w] = "woken"
        /\ UNCHANGED <<handler, subscribers>>
    BY <1>3 DEF Wake, connection
  <2>2. QED
    BY <2>1, WaiterQueues
<1>4. QED
  BY <1>1, <1>2, <1>3, GreetPeers, NotifyPeers, LookAgainPeers, OutsidePeers DEF Next

LEMMA PeerInvariant == Spec => []PeerInv
BY TypeInvariant, InitPeers, NextPeers, PTL DEF Spec

\* A waiter that waits although there is a subscriber is about to be notified.
THEOREM NoPeerIsMissed == Spec => []NoPeerMissed
<1>1. TypeInv /\ PeerInv => NoPeerMissed
  BY DEF TypeInv, TypeOK, PeerInv, QueueInv, PeerBehind, NoPeerMissed
<1>2. QED
  BY <1>1, TypeInvariant, PeerInvariant, PTL

-----------------------------------------------------------------------------
(* The order of the messages                                                *)

\* What a subscriber has been sent and what is to be sent to it.
All(h) == received[h] \o stream[h]

\* The elements of s are in q in their order, but for the one at i.
OrderedBut(q, s, i) ==
  \A a, b \in 1..Len(s) : a < b /\ a # i /\ b # i => Sooner(q, s[a], s[b])

AllIn(q, s) == \A a \in 1..Len(s) : In(q, s[a])

\* What is in a queue in order stays so as the queue grows.
LEMMA OrderedGrows ==
  ASSUME NEW S, NEW q \in Seq(S), NEW m \in S, NEW s \in Seq(S), NEW i \in Nat,
         OrderedBut(q, s, i), AllIn(q, s)
  PROVE  OrderedBut(Append(q, m), s, i) /\ AllIn(Append(q, m), s)
<1>1. /\ \A u : In(Append(q, m), u) <=> In(q, u) \/ u = m
      /\ \A u, v : Sooner(Append(q, m), u, v) <=> Sooner(q, u, v) \/ (In(q, u) /\ v = m)
  BY Appended
<1>2. QED
  BY <1>1 DEF OrderedBut, AllIn

\* What is appended to both is the last of both.
LEMMA OrderedAppend ==
  ASSUME NEW S, NEW q \in Seq(S), NEW m \in S, NEW s \in Seq(S), NEW i \in Nat,
         OrderedBut(q, s, i), AllIn(q, s)
  PROVE  OrderedBut(Append(q, m), Append(s, m), i) /\ AllIn(Append(q, m), Append(s, m))
<1> DEFINE r == Append(s, m)
           p == Append(q, m)
<1>1. /\ \A u : In(p, u) <=> In(q, u) \/ u = m
      /\ \A u, v : Sooner(p, u, v) <=> Sooner(q, u, v) \/ (In(q, u) /\ v = m)
  BY Appended
<1>2. /\ Len(s) \in Nat /\ Len(r) = Len(s) + 1 /\ r[Len(s) + 1] = m
      /\ \A a \in 1..Len(s) : r[a] = s[a]
  OBVIOUS
<1> HIDE DEF r, p
<1>3. ASSUME NEW a \in 1..Len(r), NEW b \in 1..Len(r), a < b, a # i, b # i
      PROVE  Sooner(p, r[a], r[b])
  <2>1. a \in 1..Len(s) /\ r[a] = s[a]
    BY <1>2, <1>3
  <2>2. CASE b = Len(s) + 1
    BY <1>1, <1>2, <2>1, <2>2 DEF AllIn
  <2>3. CASE b # Len(s) + 1
    <3>1. b \in 1..Len(s) /\ r[b] = s[b]
      BY <1>2, <1>3, <2>3
    <3>2. QED
      BY <1>1, <1>3, <2>1, <3>1 DEF OrderedBut
  <2>4. QED
    BY <2>2, <2>3
<1>4. ASSUME NEW a \in 1..Len(r)
      PROVE  In(p, r[a])
  <2>1. CASE a = Len(s) + 1
    BY <1>1, <1>2, <2>1
  <2>2. CASE a # Len(s) + 1
    <3>1. a \in 1..Len(s) /\ r[a] = s[a]
      BY <1>2, <2>2
    <3>2. QED
      BY <1>1, <3>1 DEF AllIn
  <2>3. QED
    BY <2>1, <2>2
<1>5. QED
  BY <1>3, <1>4 DEF OrderedBut, AllIn, r, p

\* What is appended out of order is the one that is.
LEMMA OrderedLate ==
  ASSUME NEW S, NEW q, NEW m \in S, NEW s \in Seq(S), OrderedBut(q, s, 0), AllIn(q, s), In(q, m)
  PROVE  /\ Len(s) + 1 \in 1..Len(Append(s, m))
         /\ OrderedBut(q, Append(s, m), Len(s) + 1) /\ AllIn(q, Append(s, m))
<1> DEFINE r == Append(s, m)
<1>1. /\ Len(s) \in Nat /\ Len(r) = Len(s) + 1 /\ r[Len(s) + 1] = m
      /\ \A a \in 1..Len(s) : r[a] = s[a]
  OBVIOUS
<1> HIDE DEF r
<1>2. \A a \in 1..Len(r) : a = Len(s) + 1 \/ (a \in 1..Len(s) /\ r[a] = s[a] /\ a # 0)
  BY <1>1
<1>3. OrderedBut(q, r, Len(s) + 1) /\ AllIn(q, r)
  BY <1>1, <1>2 DEF OrderedBut, AllIn
<1>4. Len(s) + 1 \in 1..Len(r)
  BY <1>1
<1>5. QED
  BY <1>3, <1>4 DEF r

\* Without that one the others are in order.
LEMMA OrderedWithout ==
  ASSUME NEW S, NEW q, NEW s \in Seq(S), NEW i \in 1..Len(s), OrderedBut(q, s, i)
  PROVE  OrderedBut(q, RemoveAt(s, i), 0)
<1> DEFINE r == RemoveAt(s, i)
           old(a) == IF a < i THEN a ELSE a + 1
<1>1. Len(s) \in Nat /\ Len(r) = Len(s) - 1
  BY RemovedElements
<1>2. \A a \in 1..(Len(s) - 1) : r[a] = s[old(a)]
  BY RemovedElements
<1> HIDE DEF r
<1>3. \A a, b \in 1..Len(r) : a < b => old(a) < old(b)
  BY <1>1
<1>4. \A a \in 1..Len(r) : old(a) \in 1..Len(s) /\ old(a) # i /\ r[a] = s[old(a)]
  BY <1>1, <1>2
<1> HIDE DEF old
<1>5. OrderedBut(q, r, 0)
  BY <1>3, <1>4 DEF OrderedBut
<1>6. QED
  BY <1>5 DEF r

\* A message is sent once.
LogInv == Distinct(log) /\ \A m \in Messages : In(log, m) <=> message[m] = "published"

\* What a subscriber gets has been sent, and is in the order of the log but for one
\* message at most: the latched one, once the subscriber has been greeted.
Greeted(h) == \E i \in 0..Len(All(h)) : /\ OrderedBut(log, All(h), i)
                                        /\ i # 0 => latched /\ handler[h] = "sending"

StreamInv ==
  \A h \in Handlers :
    /\ AllIn(log, All(h)) /\ Greeted(h)
    /\ handler[h] = "latching" => latched /\ \E m \in Messages : latch[h] = <<m>> /\ In(log, m)

MessageInv == LogInv /\ StreamInv

LEMMA AllType ==
  ASSUME TypeInv, NEW h \in Handlers
  PROVE  /\ received[h] \in Seq(Messages) /\ stream[h] \in Seq(Messages)
         /\ All(h) \in Seq(Messages) /\ Len(All(h)) \in Nat
<1>1. received[h] \in Seq(Messages) /\ stream[h] \in Seq(Messages)
  BY DEF TypeInv, TypeOK
<1>2. All(h) \in Seq(Messages)
  BY <1>1, ConcatProperties DEF All
<1>3. QED
  BY <1>1, <1>2, LenProperties

\* Taken from the stream and sent, a message stays where it is among all.
LEMMA AllSent ==
  ASSUME NEW S, NEW r \in Seq(S), NEW s \in Seq(S), s # << >>
  PROVE  Append(r, Head(s)) \o Tail(s) = r \o s
<1>1. Head(s) \in S /\ Tail(s) \in Seq(S) /\ <<Head(s)>> \in Seq(S)
  BY HeadTailProperties
<1>2. Append(r, Head(s)) = r \o <<Head(s)>>
  BY <1>1, AppendIsConcat
<1>3. (r \o <<Head(s)>>) \o Tail(s) = r \o (<<Head(s)>> \o Tail(s))
  BY <1>1, ConcatAssociative
<1>4. <<Head(s)>> \o Tail(s) = s
  <2>1. /\ Len(s) \in Nat \ {0} /\ Head(s) = s[1] /\ Len(Tail(s)) = Len(s) - 1
        /\ \A i \in 1..Len(Tail(s)) : Tail(s)[i] = s[i + 1]
    BY EmptySeq, HeadTailProperties
  <2>2. /\ <<Head(s)>> \o Tail(s) \in Seq(S)
        /\ Len(<<Head(s)>> \o Tail(s)) = Len(<<Head(s)>>) + Len(Tail(s))
        /\ \A i \in 1..(Len(<<Head(s)>>) + Len(Tail(s))) : (<<Head(s)>> \o Tail(s))[i] =
             IF i <= Len(<<Head(s)>>) THEN <<Head(s)>>[i] ELSE Tail(s)[i - Len(<<Head(s)>>)]
    BY <1>1, ConcatProperties
  <2>3. Len(<<Head(s)>>) = 1 /\ <<Head(s)>>[1] = Head(s)
    OBVIOUS
  <2>4. Len(<<Head(s)>> \o Tail(s)) = Len(s)
    BY <2>1, <2>2, <2>3
  <2>5. ASSUME NEW i \in 1..Len(s)
        PROVE  (<<Head(s)>> \o Tail(s))[i] = s[i]
    <3>1. CASE i = 1
      BY <2>1, <2>2, <2>3, <3>1
    <3>2. CASE i # 1
      <4>1. i - 1 \in 1..Len(Tail(s)) /\ ~(i <= 1) /\ (i - 1) + 1 = i
            /\ i \in 1..(1 + Len(Tail(s)))
        BY <2>1, <3>2
      <4>2. QED
        BY <2>1, <2>2, <2>3, <4>1
    <3>3. QED
      BY <3>1, <3>2
  <2>6. QED
    BY <2>2, <2>4, <2>5, SeqEqual
<1>5. QED
  BY <1>2, <1>3, <1>4

\* A message appended to the stream is the last of all.
LEMMA AllAppended ==
  ASSUME NEW S, NEW r \in Seq(S), NEW s \in Seq(S), NEW m \in S
  PROVE  /\ r \o Append(s, m) = Append(r \o s, m)
         /\ r \o (s \o <<m>>) = Append(r \o s, m)
<1>1. /\ Append(s, m) = s \o <<m>> /\ <<m>> \in Seq(S) /\ r \o s \in Seq(S)
      /\ Append(r \o s, m) = (r \o s) \o <<m>>
  BY AppendIsConcat, ConcatProperties
<1>2. (r \o s) \o <<m>> = r \o (s \o <<m>>)
  BY <1>1, ConcatAssociative
<1>3. QED
  BY <1>1, <1>2

\* Nothing is sent.
LEMMA NothingSent ==
  ASSUME MessageInv, UNCHANGED <<latched, stream, received, log, latch>>,
         \A m \in Messages : message'[m] = "published" <=> message[m] = "published",
         \A h \in Handlers : /\ handler'[h] = "latching" => handler[h] = "latching"
                             /\ handler[h] = "sending" => handler'[h] = "sending"
  PROVE  MessageInv'
<1>1. LogInv'
  BY DEF MessageInv, LogInv
<1>2. \A h : All(h)' = All(h)
  BY DEF All
<1>3. StreamInv'
  BY <1>2 DEF MessageInv, StreamInv, Greeted
<1>4. QED
  BY <1>1, <1>3 DEF MessageInv

\* The notification of a subscriber chooses the message it is greeted with.
LEMMA NotifyMessages ==
  ASSUME TypeInv, MessageInv, NEW h \in Handlers, Notify(h)
  PROVE  MessageInv'
<1>1. /\ handler \in [Handlers -> HandlerPoints] /\ handler[h] = "notifying"
      /\ latch \in [Handlers -> Seq(Messages)] /\ log \in Seq(Messages)
      /\ UNCHANGED <<latched, stream, received, log, message>>
  BY DEF TypeInv, TypeOK, Notify, publishing
<1>2. LogInv'
  BY <1>1 DEF MessageInv, LogInv
<1>3. \A g : All(g)' = All(g)
  BY <1>1 DEF All
<1>4. /\ handler'[h] # "notifying"
      /\ \A g \in Handlers \ {h} : handler'[g] = handler[g] /\ latch'[g] = latch[g]
  BY <1>1 DEF Notify, HandlerAt
<1>5. \A g \in Handlers : AllIn(log, All(g))' /\ Greeted(g)'
  BY <1>1, <1>3, <1>4 DEF MessageInv, StreamInv, Greeted
<1>6. ASSUME handler'[h] = "latching"
      PROVE  latched /\ \E m \in Messages : latch'[h] = <<m>> /\ In(log, m)
  <2>1. latched /\ log # << >> /\ latch'[h] = <<Last(log)>>
    BY <1>1, <1>6 DEF Notify, HandlerAt
  <2>2. Last(log) \in Messages /\ In(log, Last(log))
    BY <1>1, <2>1 DEF Last, In
  <2>3. QED
    BY <2>1, <2>2
<1>7. StreamInv'
  BY <1>1, <1>4, <1>5, <1>6 DEF MessageInv, StreamInv
<1>8. QED
  BY <1>2, <1>7 DEF MessageInv

\* Put into the stream, the latched message comes after newer ones, if there are any.
LEMMA SendLatchMessages ==
  ASSUME TypeInv, MessageInv, NEW h \in Handlers, SendLatch(h)
  PROVE  MessageInv'
<1>1. /\ handler \in [Handlers -> HandlerPoints] /\ handler[h] = "latching"
      /\ stream \in [Handlers -> Seq(Messages)]
      /\ handler' = [handler EXCEPT ![h] = "sending"]
      /\ UNCHANGED <<latched, received, log, message>>
      /\ UNCHANGED stream \/ stream' = [stream EXCEPT ![h] = @ \o latch[h]]
  BY DEF TypeInv, TypeOK, SendLatch, HandlerAt
<1>2. LogInv'
  BY <1>1 DEF MessageInv, LogInv
<1>3. \A g \in Handlers \ {h} : /\ All(g)' = All(g) /\ handler'[g] = handler[g]
                                /\ latch'[g] = latch[g]
  BY <1>1 DEF All, SendLatch, TypeInv, TypeOK
<1>4. PICK m \in Messages : latch[h] = <<m>> /\ In(log, m)
  BY <1>1 DEF MessageInv, StreamInv
<1>5. latched /\ handler'[h] = "sending" /\ OrderedBut(log, All(h), 0) /\ AllIn(log, All(h))
  BY <1>1 DEF MessageInv, StreamInv, Greeted
<1>6. AllIn(log, All(h))' /\ Greeted(h)'
  <2>1. CASE UNCHANGED stream
    BY <1>1, <1>5, <2>1 DEF MessageInv, StreamInv, Greeted, All
  <2>2. CASE stream' = [stream EXCEPT ![h] = @ \o latch[h]]
    <3>1. All(h)' = Append(All(h), m) /\ All(h) \in Seq(Messages) /\ Len(All(h)) \in Nat
      <4>1. received'[h] = received[h] /\ stream'[h] = stream[h] \o <<m>>
        BY <1>1, <1>4, <2>2
      <4>2. received[h] \in Seq(Messages) /\ stream[h] \in Seq(Messages)
        BY AllType
      <4>3. received[h] \o (stream[h] \o <<m>>) = Append(received[h] \o stream[h], m)
        <5>1. \A r, s \in Seq(Messages) : r \o (s \o <<m>>) = Append(r \o s, m)
          BY AllAppended
        <5>2. QED
          BY <4>2, <5>1
      <4>4. QED
        BY <4>1, <4>3, AllType DEF All
    <3>2. /\ Len(All(h)) + 1 \in 1..Len(All(h)') /\ OrderedBut(log, All(h)', Len(All(h)) + 1)
          /\ AllIn(log, All(h)')
      BY <1>4, <1>5, <3>1, OrderedLate
    <3>3. Len(All(h)) + 1 \in 0..Len(All(h)')
      BY <3>1, <3>2
    <3>4. QED
      BY <1>1, <1>5, <3>2, <3>3 DEF Greeted
  <2>3. QED
    BY <1>1, <2>1, <2>2
<1>7. StreamInv'
  BY <1>1, <1>3, <1>5, <1>6 DEF MessageInv, StreamInv, Greeted
<1>8. QED
  BY <1>2, <1>7 DEF MessageInv

\* What was to be sent has been.
LEMMA AllUnchanged ==
  ASSUME TypeInv, NEW h \in Handlers, SendMessage(h)
  PROVE  \A g \in Handlers : All(g)' = All(g)
<1>1. /\ received' = [received EXCEPT ![h] = Append(@, Head(stream[h]))]
      /\ stream' = [stream EXCEPT ![h] = Tail(@)] /\ stream[h] # << >>
  BY DEF SendMessage
<1>2. \A g \in Handlers \ {h} : received'[g] = received[g] /\ stream'[g] = stream[g]
  BY <1>1 DEF TypeInv, TypeOK
<1>3. received'[h] = Append(received[h], Head(stream[h])) /\ stream'[h] = Tail(stream[h])
  BY <1>1 DEF TypeInv, TypeOK
<1>4. Append(received[h], Head(stream[h])) \o Tail(stream[h]) = received[h] \o stream[h]
  BY <1>1, AllType, AllSent
<1>5. QED
  BY <1>2, <1>3, <1>4 DEF All

LEMMA SendMessages ==
  ASSUME TypeInv, MessageInv, NEW h \in Handlers, SendMessage(h)
  PROVE  MessageInv'
<1>1. UNCHANGED <<latched, handler, latch, log, message>>
  BY DEF SendMessage
<1>2. QED
  BY <1>1, AllUnchanged DEF MessageInv, LogInv, StreamInv, Greeted

\* Of a subscriber that has gone nothing is kept.
LEMMA HandlerEndsMessages ==
  ASSUME TypeInv, MessageInv, NEW h \in Handlers, HandlerEnds(h)
  PROVE  MessageInv'
<1>1. /\ UNCHANGED <<latched, latch, log, message>>
      /\ handler' = [handler EXCEPT ![h] = "ended"] /\ handler \in [Handlers -> HandlerPoints]
      /\ \A g \in Handlers \ {h} : received'[g] = received[g] /\ stream'[g] = stream[g]
      /\ received'[h] = << >> /\ stream'[h] = << >>
  BY DEF TypeInv, TypeOK, HandlerEnds, HandlerAt
<1>2. \A g \in Handlers \ {h} : All(g)' = All(g) /\ handler'[g] = handler[g]
  BY <1>1 DEF All
<1>3. All(h)' = << >> /\ handler'[h] = "ended"
  <2>1. << >> \o << >> = << >>
    BY EmptySeq, ConcatEmptySeq
  <2>2. QED
    BY <1>1, <2>1 DEF All
<1>4. AllIn(log, All(h))' /\ Greeted(h)'
  <2>1. Len(All(h)') = 0
    BY <1>3, EmptySeq
  <2>2. QED
    BY <2>1 DEF AllIn, Greeted, OrderedBut
<1>5. QED
  BY <1>1, <1>2, <1>3, <1>4 DEF MessageInv, LogInv, StreamInv, Greeted

\* A message is sent to the subscribers as the last.
LEMMA InternalPublishMessages ==
  ASSUME TypeInv, MessageInv, NEW m \in Messages, InternalPublish(m)
  PROVE  MessageInv'
<1>1. /\ UNCHANGED <<latched, handler, latch, received>> /\ log' = Append(log, m)
      /\ log \in Seq(Messages) /\ message[m] = "serializing"
      /\ message' = [message EXCEPT ![m] = "published"]
  BY DEF TypeInv, TypeOK, InternalPublish, connection
<1>2. /\ \A u : In(log', u) <=> In(log, u) \/ u = m
      /\ Distinct(log) /\ ~In(log, m) => Distinct(log')
  BY <1>1, Appended
<1>3. LogInv'
  BY <1>1, <1>2 DEF MessageInv, LogInv, TypeInv, TypeOK
<1>4. ASSUME NEW h \in Handlers
      PROVE  AllIn(log, All(h))' /\ Greeted(h)'
  <2>1. All(h)' = All(h) \/ All(h)' = Append(All(h), m)
    <3>1. stream'[h] = stream[h] \/ stream'[h] = Append(stream[h], m)
      BY DEF InternalPublish
    <3>2. received[h] \o Append(stream[h], m) = Append(received[h] \o stream[h], m)
      <4>1. received[h] \in Seq(Messages) /\ stream[h] \in Seq(Messages)
        BY AllType
      <4>2. \A r, s \in Seq(Messages) : r \o Append(s, m) = Append(r \o s, m)
        BY AllAppended
      <4>3. QED
        BY <4>1, <4>2
    <3>3. QED
      BY <1>1, <3>1, <3>2 DEF All
  <2>2. PICK i \in 0..Len(All(h)) : /\ OrderedBut(log, All(h), i)
                                    /\ i # 0 => latched /\ handler[h] = "sending"
    BY DEF MessageInv, StreamInv, Greeted
  <2>3. AllIn(log, All(h)) /\ All(h) \in Seq(Messages) /\ Len(All(h)) \in Nat /\ i \in Nat
    BY <2>2, AllType DEF MessageInv, StreamInv
  <2>4. /\ OrderedBut(log', All(h), i) /\ AllIn(log', All(h))
        /\ OrderedBut(log', Append(All(h), m), i) /\ AllIn(log', Append(All(h), m))
    BY <1>1, <2>2, <2>3, OrderedGrows, OrderedAppend
  <2>5. Len(Append(All(h), m)) = Len(All(h)) + 1
    BY <2>3, AppendProperties
  <2>6. i \in 0..Len(All(h)')
    BY <2>1, <2>2, <2>3, <2>5
  <2>7. OrderedBut(log', All(h)', i) /\ AllIn(log', All(h)')
    BY <2>1, <2>4
  <2>8. QED
    BY <1>1, <2>2, <2>6, <2>7 DEF Greeted
<1>5. ASSUME NEW h \in Handlers, handler'[h] = "latching"
      PROVE  latched' /\ \E n \in Messages : latch'[h] = <<n>> /\ In(log', n)
  BY <1>1, <1>2, <1>5 DEF MessageInv, StreamInv
<1>6. QED
  BY <1>3, <1>4, <1>5 DEF MessageInv, StreamInv

LEMMA InitMessages == Init => MessageInv
<1> SUFFICES ASSUME Init PROVE MessageInv
  OBVIOUS
<1>1. LogInv
  BY DEF Init, LogInv, Distinct, In
<1>2. \A h \in Handlers : All(h) = << >> /\ Len(All(h)) = 0
  <2>1. << >> \o << >> = << >> /\ Len(<< >>) = 0
    BY EmptySeq, ConcatEmptySeq
  <2>2. QED
    BY <2>1 DEF Init, All
<1>3. StreamInv
  BY <1>2 DEF Init, StreamInv, AllIn, Greeted, OrderedBut
<1>4. QED
  BY <1>1, <1>3 DEF MessageInv

\* The other steps send nothing.
LEMMA OthersSendNothing ==
  ASSUME TypeInv, MessageInv,
         \/ \E u \in Users :
              \/ Enter(u) \/ Registered(u) \/ RegisterFails(u)
              \/ Close(u) \/ Unregistered(u) \/ UnregisterFails(u) \/ CloseStream(u)
              \/ \E method \in {"register", "unregister"} : MasterHandles(u, method)
         \/ \E h \in Handlers : RequestTopic(h) \/ Greet(h)
         \/ \E m \in Messages : Publish(m)
         \/ \E w \in Waiters : WaitForPeers(w) \/ Park(w) \/ Wake(w) \/ LookAgain(w)
         \/ UNCHANGED vars
  PROVE  MessageInv'
<1> USE DEF connection, publishing, waiting
<1>1. CASE \/ \E u \in Users :
                \/ Enter(u) \/ Registered(u) \/ RegisterFails(u)
                \/ Close(u) \/ Unregistered(u) \/ UnregisterFails(u) \/ CloseStream(u)
                \/ \E method \in {"register", "unregister"} : MasterHandles(u, method)
           \/ \E w \in Waiters : WaitForPeers(w) \/ Park(w) \/ Wake(w) \/ LookAgain(w)
           \/ UNCHANGED vars
  <2>1. UNCHANGED <<latched, stream, received, log, latch, message, handler>>
    BY <1>1 DEF Enter, Registered, RegisterFails, Close, Unregistered, UnregisterFails,
                CloseStream, MasterHandles, WaitForPeers, Park, Wake, LookAgain, vars
  <2>2. QED
    BY <2>1, NothingSent
<1>2. ASSUME NEW h \in Handlers, RequestTopic(h) \/ Greet(h)
      PROVE  MessageInv'
  <2>1. /\ UNCHANGED <<latched, stream, received, log, latch, message>>
        /\ handler[h] \in {"none", "greeting"}
        /\ \E p \in {"greeting", "notifying", "ended"} : handler' = [handler EXCEPT ![h] = p]
    BY <1>2 DEF RequestTopic, Greet, HandlerAt
  <2>2. \A g \in Handlers : /\ handler'[g] = "latching" => handler[g] = "latching"
                            /\ handler[g] = "sending" => handler'[g] = "sending"
    BY <2>1 DEF TypeInv, TypeOK
  <2>3. QED
    BY <2>1, <2>2, NothingSent
<1>3. ASSUME NEW m \in Messages, Publish(m)
      PROVE  MessageInv'
  <2>1. /\ UNCHANGED <<latched, stream, received, log, latch, handler>> /\ message[m] = "new"
        /\ \E p \in {"serializing", "dropped"} : message' = [message EXCEPT ![m] = p]
    BY <1>3 DEF Publish
  <2>2. \A n \in Messages : message'[n] = "published" <=> message[n] = "published"
    BY <2>1 DEF TypeInv, TypeOK
  <2>3. QED
    BY <2>1, <2>2, NothingSent
<1>4. QED
  BY <1>1, <1>2, <1>3

LEMMA NextMessages == TypeInv /\ MessageInv /\ [Next]_vars => MessageInv'
BY NotifyMessages, SendLatchMessages, SendMessages, HandlerEndsMessages,
   InternalPublishMessages, OthersSendNothing DEF Next

LEMMA MessageInvariant == Spec => []MessageInv
BY TypeInvariant, InitMessages, NextMessages, PTL DEF Spec

\* Every message is sent once.
THEOREM MessagesSentOnce == Spec => []Distinct(log)
BY MessageInvariant, PTL DEF MessageInv, LogInv

\* Every subscriber gets the messages in the order they are sent in; the latched
\* message it is greeted with may come twice, or late.
THEOREM SentInOrderHolds == Spec => []SentInOrder
<1>1. ASSUME TypeInv, MessageInv
      PROVE  SentInOrder
  <2> SUFFICES ASSUME NEW h \in Handlers
               PROVE  \/ InLogOrder(All(h))
                      \/ latched /\ \E i \in 1..Len(All(h)) : InLogOrder(RemoveAt(All(h), i))
    BY DEF SentInOrder, All
  <2>1. \A s \in Seq(Messages) : OrderedBut(log, s, 0) => InLogOrder(s)
    <3>1. log \in Seq(Messages) /\ DOMAIN log = 1..Len(log)
      BY <1>1, LenProperties DEF TypeInv, TypeOK
    <3>2. ASSUME NEW s \in Seq(Messages), OrderedBut(log, s, 0),
                 NEW a \in 1..Len(s), NEW b \in 1..Len(s), a < b
          PROVE  \E k, l \in 1..Len(log) : k < l /\ log[k] = s[a] /\ log[l] = s[b]
      <4>1. Sooner(log, s[a], s[b])
        BY <3>2, LenProperties DEF OrderedBut
      <4>2. QED
        BY <3>1, <4>1 DEF Sooner
    <3>3. QED
      BY <3>2 DEF InLogOrder
  <2>2. PICK i \in 0..Len(All(h)) : OrderedBut(log, All(h), i) /\ (i # 0 => latched)
    BY <1>1 DEF MessageInv, StreamInv, Greeted
  <2>3. CASE i = 0
    BY <1>1, <2>1, <2>2, <2>3, AllType
  <2>4. CASE i # 0
    <3>1. i \in 1..Len(All(h)) /\ All(h) \in Seq(Messages)
      BY <1>1, <2>2, <2>4, AllType
    <3>2. RemoveAt(All(h), i) \in Seq(Messages) /\ OrderedBut(log, RemoveAt(All(h), i), 0)
      BY <2>2, <3>1, OrderedWithout, RemovedElements
    <3>3. QED
      BY <2>1, <2>2, <2>4, <3>1, <3>2
  <2>5. QED
    BY <2>3, <2>4
<1>2. QED
  BY <1>1, TypeInvariant, MessageInvariant, PTL

-----------------------------------------------------------------------------
(* The latched message                                                      *)

\* No user has begun to close the streams, or failed.
Unclosed == \A u \in Users : at[u] \notin {"closing", "closed", "failed"}

\* What a latched topic has sent last is among what each subscriber gets, or is what
\* it is about to be greeted with.
LatestInv ==
  Unclosed =>
    /\ closed = {}
    /\ latched /\ log # << >> =>
         \A h \in subscribers :
           /\ handler[h] = "sending" => In(All(h), Last(log))
           /\ handler[h] = "latching" => In(All(h), Last(log)) \/ latch[h] = <<Last(log)>>

\* What is in a sequence stays in a longer one.
LEMMA InAppended ==
  ASSUME NEW S, NEW s \in Seq(S), NEW m \in S
  PROVE  In(Append(s, m), m) /\ \A n : In(s, n) => In(Append(s, m), n)
BY Appended

\* A user that has begun to close goes on.
LEMMA UnclosedBefore ==
  ASSUME TypeInv, [Next]_vars, Unclosed'
  PROVE  Unclosed
<1> SUFFICES ASSUME NEW v \in Users, at[v] \in {"closing", "closed", "failed"}
             PROVE  FALSE
  BY DEF Unclosed
<1>1. at \in [Users -> Points] /\ at'[v] \notin {"closing", "closed", "failed"}
  BY DEF TypeInv, TypeOK, Unclosed
<1>2. ASSUME NEW u \in Users,
             \/ Enter(u) \/ Registered(u) \/ RegisterFails(u)
             \/ Close(u) \/ Unregistered(u) \/ UnregisterFails(u) \/ CloseStream(u)
             \/ \E method \in {"register", "unregister"} : MasterHandles(u, method)
      PROVE  \/ at' = at
             \/ at[u] # "closing" /\ at[u] # "closed" /\ at[u] # "failed"
                /\ \E p \in Points : at' = [at EXCEPT ![u] = p]
             \/ \E p \in {"closed", "failed"} : at' = [at EXCEPT ![u] = p]
  BY <1>2 DEF Enter, Registered, RegisterFails, Close, Unregistered, UnregisterFails,
              CloseStream, MasterHandles, GoTo, Points
<1>3. CASE \E u \in Users :
             \/ Enter(u) \/ Registered(u) \/ RegisterFails(u)
             \/ Close(u) \/ Unregistered(u) \/ UnregisterFails(u) \/ CloseStream(u)
             \/ \E method \in {"register", "unregister"} : MasterHandles(u, method)
  BY <1>1, <1>2, <1>3
<1>4. CASE UNCHANGED at
  BY <1>1, <1>4
<1>5. QED
  BY <1>3, <1>4, OthersQuiet DEF Next, Quiet

\* A step that neither sends a message nor brings a subscriber further.
LEMMA LatestKept ==
  ASSUME LatestInv, Unclosed, closed' = closed \/ closed' = {}, UNCHANGED <<latched, log>>,
         \A h \in subscribers' : handler'[h] \in {"sending", "latching"} =>
           h \in subscribers /\ handler'[h] = handler[h] /\ latch'[h] = latch[h]
             /\ All(h)' = All(h)
  PROVE  LatestInv'
BY DEF LatestInv

\* The latched message is put into the stream, which nobody has closed.
LEMMA SendLatchLatest ==
  ASSUME TypeInv, MessageInv, LatestInv, Unclosed, NEW h \in Handlers, SendLatch(h)
  PROVE  LatestInv'
<1>1. closed = {}
  BY DEF LatestInv
<1>2. /\ handler \in [Handlers -> HandlerPoints] /\ handler[h] = "latching"
      /\ stream \in [Handlers -> Seq(Messages)]
      /\ handler' = [handler EXCEPT ![h] = "sending"]
      /\ UNCHANGED <<latched, received, log, subscribers, closed>>
      /\ stream' = [stream EXCEPT ![h] = @ \o latch[h]]
  BY <1>1 DEF TypeInv, TypeOK, SendLatch, HandlerAt
<1>3. PICK m \in Messages : latch[h] = <<m>>
  BY <1>2 DEF MessageInv, StreamInv
<1>4. All(h)' = Append(All(h), m)
  <2>1. received'[h] = received[h] /\ stream'[h] = stream[h] \o <<m>>
    BY <1>2, <1>3
  <2>2. \A r, s \in Seq(Messages) : r \o (s \o <<m>>) = Append(r \o s, m)
    BY AllAppended
  <2>3. QED
    BY <2>1, <2>2, AllType DEF All
<1>5. \A g \in Handlers \ {h} : All(g)' = All(g) /\ handler'[g] = handler[g] /\ latch'[g] = latch[g]
  BY <1>2 DEF All, SendLatch, TypeInv, TypeOK
<1>6. In(All(h)', m) /\ \A n : In(All(h), n) => In(All(h)', n)
  BY <1>4, AllType, InAppended
<1>7. ASSUME latched, log # << >>, h \in subscribers
      PROVE  In(All(h)', Last(log))
  <2>1. In(All(h), Last(log)) \/ latch[h] = <<Last(log)>>
    BY <1>2, <1>7 DEF LatestInv
  <2>2. latch[h] = <<Last(log)>> => m = Last(log)
    BY <1>3
  <2>3. QED
    BY <1>6, <2>1, <2>2
<1>8. subscribers \subseteq Handlers /\ handler'[h] = "sending"
  BY <1>2 DEF TypeInv, TypeOK
<1>9. QED
  BY <1>1, <1>2, <1>5, <1>7, <1>8 DEF LatestInv

\* A notified subscriber is to be greeted with the message sent last, if there is one.
LEMMA NotifyLatest ==
  ASSUME TypeInv, LatestInv, Unclosed, NEW h \in Handlers, Notify(h)
  PROVE  LatestInv'
<1>1. /\ handler \in [Handlers -> HandlerPoints] /\ latch \in [Handlers -> Seq(Messages)]
      /\ UNCHANGED <<latched, received, stream, log, subscribers, closed>>
      /\ subscribers \subseteq Handlers
  BY DEF TypeInv, TypeOK, Notify, publishing
<1>2. \A g : All(g)' = All(g)
  BY <1>1 DEF All
<1>3. \A g \in Handlers \ {h} : handler'[g] = handler[g] /\ latch'[g] = latch[g]
  BY <1>1 DEF Notify, HandlerAt
<1>4. latched /\ log # << >> => handler'[h] = "latching" /\ latch'[h] = <<Last(log)>>
  BY <1>1 DEF Notify, HandlerAt
<1>5. QED
  BY <1>1, <1>2, <1>3, <1>4 DEF LatestInv

\* A message is put into the stream of every subscriber: none is closed.
LEMMA InternalPublishLatest ==
  ASSUME TypeInv, LatestInv, Unclosed, NEW m \in Messages, InternalPublish(m)
  PROVE  LatestInv'
<1>1. /\ UNCHANGED <<latched, handler, latch, received, subscribers, closed>>
      /\ log' = Append(log, m) /\ log \in Seq(Messages) /\ subscribers \subseteq Handlers
  BY DEF TypeInv, TypeOK, InternalPublish, connection
<1>2. closed = {}
  BY DEF LatestInv
<1>3. \A h \in subscribers : stream'[h] = Append(stream[h], m)
  BY <1>1, <1>2 DEF InternalPublish
<1>4. ASSUME NEW h \in subscribers
      PROVE  In(All(h)', m)
  <2>1. \A r, s \in Seq(Messages) : r \o Append(s, m) = Append(r \o s, m)
    BY AllAppended
  <2>2. received[h] \in Seq(Messages) /\ stream[h] \in Seq(Messages)
    BY <1>1, AllType
  <2>3. All(h)' = Append(All(h), m)
    BY <1>1, <1>3, <2>1, <2>2 DEF All
  <2>4. QED
    BY <1>1, <2>3, AllType, InAppended
<1>5. Last(log') = m
  BY <1>1 DEF Last
<1>6. QED
  BY <1>1, <1>2, <1>4, <1>5 DEF LatestInv

\* The other steps.
LEMMA OthersLatest ==
  ASSUME TypeInv, LatestInv, Unclosed,
         \/ \E u \in Users :
              \/ Enter(u) \/ Registered(u) \/ RegisterFails(u)
              \/ Close(u) \/ Unregistered(u) \/ UnregisterFails(u) \/ CloseStream(u)
              \/ \E method \in {"register", "unregister"} : MasterHandles(u, method)
         \/ \E h \in Handlers : RequestTopic(h) \/ Greet(h) \/ SendMessage(h) \/ HandlerEnds(h)
         \/ \E m \in Messages : Publish(m)
         \/ \E w \in Waiters : WaitForPeers(w) \/ Park(w) \/ Wake(w) \/ LookAgain(w)
         \/ UNCHANGED vars
  PROVE  LatestInv'
<1> USE DEF connection, publishing, waiting
<1>1. CASE \/ \E u \in Users :
                \/ Enter(u) \/ Registered(u) \/ RegisterFails(u)
                \/ Close(u) \/ Unregistered(u) \/ UnregisterFails(u) \/ CloseStream(u)
                \/ \E method \in {"register", "unregister"} : MasterHandles(u, method)
           \/ \E m \in Messages : Publish(m)
           \/ \E w \in Waiters : WaitForPeers(w) \/ Park(w) \/ Wake(w) \/ LookAgain(w)
           \/ UNCHANGED vars
  <2>1. ~\E u \in Users : CloseStream(u)
    BY DEF CloseStream, Unclosed
  <2>2. UNCHANGED <<latched, stream, received, log, latch, handler, subscribers, closed>>
    BY <1>1, <2>1 DEF Enter, Registered, RegisterFails, Close, Unregistered, UnregisterFails,
                      MasterHandles, Publish, WaitForPeers, Park, Wake, LookAgain, vars
  <2>3. QED
    BY <2>2, LatestKept DEF All
<1>2. ASSUME NEW h \in Handlers, RequestTopic(h) \/ Greet(h)
      PROVE  LatestInv'
  <2>1. /\ UNCHANGED <<latched, stream, received, log, latch, closed>>
        /\ subscribers' \subseteq subscribers \cup {h} /\ subscribers' \subseteq Handlers
        /\ \E p \in {"greeting", "notifying", "ended"} : handler' = [handler EXCEPT ![h] = p]
    BY <1>2 DEF RequestTopic, Greet, HandlerAt, TypeInv, TypeOK
  <2>2. \A g \in subscribers' : handler'[g] \in {"sending", "latching"} =>
          g \in subscribers /\ handler'[g] = handler[g]
    BY <2>1 DEF TypeInv, TypeOK
  <2>3. QED
    BY <2>1, <2>2, LatestKept DEF All
<1>3. ASSUME NEW h \in Handlers, SendMessage(h)
      PROVE  LatestInv'
  <2>1. UNCHANGED <<latched, log, latch, handler, subscribers, closed>> /\ subscribers \subseteq Handlers
    BY <1>3 DEF SendMessage, TypeInv, TypeOK
  <2>2. \A g \in Handlers : All(g)' = All(g)
    BY <1>3, AllUnchanged
  <2>3. QED
    BY <2>1, <2>2, LatestKept
<1>4. ASSUME NEW h \in Handlers, HandlerEnds(h)
      PROVE  LatestInv'
  <2>1. /\ UNCHANGED <<latched, log, latch>> /\ subscribers' = subscribers \ {h}
        /\ subscribers \subseteq Handlers /\ closed' = {}
        /\ \A g \in Handlers \ {h} : /\ received'[g] = received[g] /\ stream'[g] = stream[g]
                                     /\ handler'[g] = handler[g]
    BY <1>4 DEF HandlerEnds, HandlerAt, TypeInv, TypeOK, LatestInv
  <2>2. QED
    BY <2>1, LatestKept DEF All
<1>5. QED
  BY <1>1, <1>2, <1>3, <1>4

LEMMA InitLatest == Init => LatestInv
BY DEF Init, LatestInv

LEMMA NextLatest == TypeInv /\ MessageInv /\ LatestInv /\ [Next]_vars => LatestInv'
<1> SUFFICES ASSUME TypeInv, MessageInv, LatestInv, [Next]_vars PROVE LatestInv'
  OBVIOUS
<1>1. CASE Unclosed
  BY <1>1, SendLatchLatest, NotifyLatest, InternalPublishLatest, OthersLatest DEF Next
<1>2. CASE ~Unclosed
  BY <1>2, UnclosedBefore DEF LatestInv
<1>3. QED
  BY <1>1, <1>2

LEMMA LatestInvariant == Spec => []LatestInv
BY TypeInvariant, MessageInvariant, InitLatest, NextLatest, PTL DEF Spec

\* A subscriber of a latched topic whose stream is empty has got the latest message.
THEOREM LatestSentHolds == Spec => []LatestSent
<1>1. ASSUME TypeInv, LatestInv PROVE LatestSent
  <2> SUFFICES ASSUME latched, log # << >>, Unclosed, NEW h \in subscribers,
                      handler[h] = "sending", stream[h] = << >>
               PROVE  \E i \in 1..Len(received[h]) : received[h][i] = Last(log)
    BY DEF LatestSent, Unclosed
  <2>1. In(All(h), Last(log))
    BY <1>1 DEF LatestInv
  <2>2. received[h] \in Seq(Messages)
    BY <1>1 DEF TypeInv, TypeOK
  <2>3. All(h) = received[h]
    BY <2>2, ConcatEmptySeq DEF All
  <2>4. QED
    BY <2>1, <2>2, <2>3, LenProperties DEF In
<1>2. QED
  BY <1>1, TypeInvariant, LatestInvariant, PTL
=============================================================================
