-------------------------- MODULE ServiceCallProofs --------------------------
(***************************************************************************)
(* For any number of callers, servers and connections: the response a call  *)
(* returns is that to its own request; what the client leaves open is       *)
(* accounted for; a server that serves is listed, but for what another      *)
(* server's unregistration takes from it, and one that is listed serves, as *)
(* long as nothing was cut short.                                           *)
(***************************************************************************)
EXTENDS ServiceCall, SequenceTheorems, TLAPS

Busy(k) == at[k] \notin {"new", "locking", "ended"}
InFlight == {"greeting", "sending", "awaiting", "misreading"}

\* One call at a time has the lock.
LockHeld == \A k, j \in Callers : Busy(k) /\ Busy(j) => k = j

\* A call that connects has been told a server.
Targeted == \A k \in Callers : at[k] = "connecting" => target[k] \in Servers

\* A call has a connection from its connect to its end, and only then; its end
\* of it is open.
Using ==
  \A k \in Callers :
    IF at[k] \in InFlight
    THEN uses[k] \in DOMAIN connections /\ connections[uses[k]].open
    ELSE uses[k] = None

\* The stream that is kept is a persistent client's, and open.
StreamKept ==
  stream # None =>
    persistent /\ stream \in DOMAIN connections /\ connections[stream].open

\* Only a request is handled.
Requested ==
  \A c \in DOMAIN connections :
    connections[c].point = "handling" => connections[c].requests # << >>

\* The call that waits for a response on a connection, if any.
Waiting(c) == {k \in Callers : uses[k] = c /\ at[k] \in {"awaiting", "misreading"}}

\* What is on its way is one request or one response, of the calls in S.  A
\* request to a server that is gone stays there.
Clean(connection, S) ==
  /\ Len(connection.replies) <= 1
  /\ \A i \in DOMAIN connection.replies : connection.replies[i][1] \in S
  /\ ~Gone(connection) =>
       /\ Len(connection.requests) + Len(connection.replies) <= 1
       /\ \A i \in DOMAIN connection.requests : connection.requests[i] \in S

\* What is on its way on a connection in use belongs to the call that waits.
Separate ==
  ~(persistent /\ cuts > 0) =>
    \A c \in DOMAIN connections :
      c = stream \/ (\E k \in Callers : uses[k] = c) => Clean(connections[c], Waiting(c))

Calling == LockHeld /\ Targeted /\ Using /\ StreamKept /\ Requested /\ Separate

CallInv == TypeOK /\ Calling /\ AnswersOwn

-----------------------------------------------------------------------------
(* Connections.                                                             *)

\* What SetConnection leaves: c with its new state, unless both ends are closed,
\* and the others as they were.
LEMMA ConnectionSet ==
  ASSUME IsDict(connections, Connections, Connection),
         NEW c \in Connections, NEW n \in Connection, SetConnection(c, n)
  PROVE  /\ IsDict(connections, Connections, Connection)'
         /\ \A d \in DOMAIN connections' :
              IF d = c THEN connections'[d] = n
              ELSE d \in DOMAIN connections /\ connections'[d] = connections[d]
         /\ \A d \in DOMAIN connections : d # c => d \in DOMAIN connections'
         /\ n.open \/ ~Gone(n) <=> c \in DOMAIN connections'
<1>1. CASE ~n.open /\ Gone(n)
  <2>1. connections' = [j \in DOMAIN connections \ {c} |-> connections[j]]
    BY <1>1 DEF SetConnection, Drop
  <2> QED  BY <1>1, <2>1 DEF IsDict
<1>2. CASE ~(~n.open /\ Gone(n))
  <2>1. connections' = [j \in DOMAIN connections \cup {c} |-> IF j = c THEN n ELSE connections[j]]
    BY <1>2 DEF SetConnection, Put
  <2> QED  BY <1>2, <2>1 DEF IsDict
<1> QED  BY <1>1, <1>2

\* What a node that goes leaves: the connections whose client's end is open,
\* with nothing but their server's end changed.
LEMMA ConnectionsLeft ==
  ASSUME IsDict(connections, Connections, Connection), NEW v \in Servers, NodeGone(v)
  PROVE  /\ IsDict(connections, Connections, Connection)'
         /\ \A c \in DOMAIN connections' :
              /\ c \in DOMAIN connections
              /\ \/ connections'[c] = connections[c]
                 \/ connections'[c] = [connections[c] EXCEPT !.point = "closed"]
         /\ \A c \in DOMAIN connections : connections[c].open => c \in DOMAIN connections'
<1>1. connections' =
       [c \in {d \in DOMAIN connections : connections[d].server = v => connections[d].open} |->
          IF connections[c].server = v THEN [connections[c] EXCEPT !.point = "closed"]
          ELSE connections[c]]
  BY DEF NodeGone
<1>2. \A c \in DOMAIN connections :
        /\ connections[c] \in Connection
        /\ [connections[c] EXCEPT !.point = "closed"] \in Connection
  BY DEF IsDict, Connection
<1> QED  BY <1>1, <1>2 DEF IsDict

-----------------------------------------------------------------------------
(* Types.                                                                   *)

LEMMA NothingSent == << >> \in Seq(Callers) /\ << >> \in Seq(Callers \X BOOLEAN)
  OBVIOUS

\* A connection stays one when a part of it changes.
LEMMA ConnectionFields ==
  ASSUME NEW n \in Connection, NEW requests \in Seq(Callers),
         NEW replies \in Seq(Callers \X BOOLEAN),
         NEW point \in {"greeting", "reading", "handling", "refused", "closed"}
  PROVE  /\ [n EXCEPT !.requests = requests] \in Connection
         /\ [n EXCEPT !.replies = replies] \in Connection
         /\ [n EXCEPT !.point = point] \in Connection
         /\ [n EXCEPT !.open = FALSE] \in Connection
         /\ [n EXCEPT !.read = TRUE] \in Connection
         /\ [n EXCEPT !.requests = requests, !.replies = replies, !.point = point] \in Connection
  BY DEF Connection

\* A request that is sent.
LEMMA RequestSent ==
  ASSUME NEW n \in Connection, NEW k \in Callers
  PROVE  /\ Append(n.requests, k) \in Seq(Callers)
         /\ [n EXCEPT !.requests = Append(@, k)] = [n EXCEPT !.requests = Append(n.requests, k)]
  BY DEF Connection

\* The reply to the request that is handled.
LEMMA RequestReplied ==
  ASSUME NEW n \in Connection, n.requests # << >>, NEW ok \in BOOLEAN
  PROVE  /\ Head(n.requests) \in Callers
         /\ Tail(n.requests) \in Seq(Callers)
         /\ Append(n.replies, <<Head(n.requests), ok>>) \in Seq(Callers \X BOOLEAN)
<1>1. n.requests \in Seq(Callers) /\ n.replies \in Seq(Callers \X BOOLEAN)
  BY DEF Connection
<1>2. Head(n.requests) \in Callers /\ Tail(n.requests) \in Seq(Callers)
  BY <1>1
<1> QED  BY <1>1, <1>2

\* The response that is read, and what may be left behind it.
LEMMA ReplyRead ==
  ASSUME NEW n \in Connection, n.replies # << >>, NEW rest \in {Tail(n.replies), << >>}
  PROVE  Head(n.replies)[1] \in Callers /\ rest \in Seq(Callers \X BOOLEAN)
<1>1. n.replies \in Seq(Callers \X BOOLEAN)
  BY DEF Connection
<1>2. Head(n.replies) \in Callers \X BOOLEAN /\ Tail(n.replies) \in Seq(Callers \X BOOLEAN)
  BY <1>1
<1>3. << >> \in Seq(Callers \X BOOLEAN)
  OBVIOUS
<1> QED  BY <1>2, <1>3

\* Every step keeps the types, given that calls use connections that are there.
LEMMA TypeStep ==
  ASSUME TypeOK, Targeted, Using, StreamKept, Requested, [Next]_vars PROVE TypeOK'
<1> USE DEF client, registration
<1>0. /\ IsDict(connections, Connections, Connection)
      /\ \A c \in DOMAIN connections : c \in Connections /\ connections[c] \in Connection
  BY DEF TypeOK, IsDict
<1>1. CASE UNCHANGED vars
  BY <1>1 DEF TypeOK, vars
<1>2. ASSUME NEW k \in Callers, Call(k) \/ Locked(k) \/ LookupService(k) PROVE TypeOK'
  BY <1>2 DEF TypeOK, Call, Locked, LookupService, GoTo, Points
<1>3. ASSUME NEW k \in Callers, Connect(k) PROVE TypeOK'
  <2>1. CASE serving[target[k]] = "dead"
    BY <1>3, <2>1 DEF TypeOK, Connect, GoTo, Points
  <2>2. CASE serving[target[k]] # "dead"
    <3>1. PICK c \in Connections \ DOMAIN connections :
            /\ uses' = [uses EXCEPT ![k] = c]
            /\ connections' = Put(connections, c,
                 [server |-> target[k], open |-> TRUE, read |-> FALSE, point |-> "greeting",
                  requests |-> << >>, replies |-> << >>])
      BY <1>3, <2>2 DEF Connect
    <3>2. target[k] \in Servers
      BY <1>3 DEF Targeted, Connect
    <3>3. [server |-> target[k], open |-> TRUE, read |-> FALSE, point |-> "greeting",
           requests |-> << >>, replies |-> << >>] \in Connection
      BY <3>2 DEF Connection
    <3>4. IsDict(connections, Connections, Connection)'
      BY <1>0, <3>1, <3>3 DEF Put, IsDict
    <3> QED  BY <1>3, <2>2, <3>1, <3>4 DEF TypeOK, Connect, GoTo, Points
  <2> QED  BY <1>3, <2>1, <2>2 DEF Connect
<1>4. ASSUME NEW k \in Callers, Greeted(k) PROVE TypeOK'
  <2>1. uses[k] \in DOMAIN connections
    BY <1>4 DEF Using, InFlight, Greeted
  <2>2. IsDict(connections, Connections, Connection)'
    <3>1. CASE UNCHANGED connections
      BY <1>0, <3>1
    <3>2. CASE connections' = [connections EXCEPT ![uses[k]].read = TRUE]
      BY <1>0, <2>1, <3>2 DEF IsDict, Connection
    <3> QED  BY <1>4, <3>1, <3>2 DEF Greeted
  <2> QED  BY <1>4, <2>2 DEF TypeOK, Greeted, GoTo, Points
<1>5. ASSUME NEW k \in Callers, NEW n \in Connection, at[k] \in InFlight, End(k, n)
      PROVE  /\ IsDict(connections, Connections, Connection)'
             /\ at' \in [Callers -> Points]
             /\ uses' \in [Callers -> Connections \cup {None}]
  <2>1. uses[k] \in Connections
    BY <1>0, <1>5 DEF Using
  <2>2. [n EXCEPT !.open = FALSE] \in Connection
    BY DEF Connection
  <2>3. IsDict(connections, Connections, Connection)'
    <3>1. CASE SetConnection(uses[k], n)
      BY <1>0, <2>1, <3>1, ConnectionSet
    <3>2. CASE SetConnection(uses[k], [n EXCEPT !.open = FALSE])
      BY <1>0, <2>1, <2>2, <3>2, ConnectionSet
    <3> QED  BY <1>5, <3>1, <3>2 DEF End
  <2> QED  BY <1>5, <2>3 DEF TypeOK, End, GoTo, Points
<1>6. ASSUME NEW k \in Callers, Send(k) PROVE TypeOK'
  <2>1. uses[k] \in DOMAIN connections /\ at[k] \in InFlight
    BY <1>6 DEF Using, InFlight, Send
  <2>2. CASE End(k, connections[uses[k]])
    BY <1>0, <1>5, <1>6, <2>1, <2>2 DEF TypeOK, Send
  <2>3. CASE GoTo(k, "awaiting") /\ UNCHANGED uses
    <3>1. [connections[uses[k]] EXCEPT !.requests = Append(@, k)] \in Connection
      BY <1>0, <2>1, RequestSent, ConnectionFields, NothingSent
    <3>2. \/ UNCHANGED connections
          \/ connections' = Put(connections, uses[k],
                                [connections[uses[k]] EXCEPT !.requests = Append(@, k)])
      BY <1>6, <2>3 DEF Send, End, GoTo, TypeOK
    <3>3. IsDict(connections, Connections, Connection)'
      BY <1>0, <2>1, <3>1, <3>2 DEF IsDict, Put
    <3> QED  BY <1>6, <2>3, <3>3 DEF TypeOK, Send, GoTo, Points
  <2> QED  BY <1>6, <2>2, <2>3 DEF Send
<1>7. ASSUME NEW k \in Callers, Respond(k) PROVE TypeOK'
  <2>1. uses[k] \in DOMAIN connections /\ at[k] \in InFlight
    BY <1>7 DEF Using, InFlight, Respond
  <2>2. PICK rest \in {Tail(connections[uses[k]].replies), << >>} :
          End(k, [connections[uses[k]] EXCEPT !.replies = rest])
    BY <1>7 DEF Respond
  <2>3. Head(connections[uses[k]].replies)[1] \in Callers /\ rest \in Seq(Callers \X BOOLEAN)
    BY <1>0, <1>7, <2>1, ReplyRead DEF Respond
  <2>4. [connections[uses[k]] EXCEPT !.replies = rest] \in Connection
    BY <1>0, <2>1, <2>3, ConnectionFields, NothingSent
  <2> QED  BY <1>5, <1>7, <2>1, <2>2, <2>3, <2>4 DEF TypeOK, Respond
<1>8. ASSUME NEW k \in Callers, ReadError(k) PROVE TypeOK'
  <2>1. uses[k] \in DOMAIN connections
    BY <1>8 DEF Using, InFlight, ReadError
  <2>2. [connections[uses[k]] EXCEPT !.replies = << >>] \in Connection
    BY <1>0, <2>1, ConnectionFields, NothingSent
  <2>3. IsDict(connections, Connections, Connection)'
    BY <1>0, <1>8, <2>1, <2>2 DEF IsDict, Put, ReadError
  <2> QED  BY <1>8, <2>3 DEF TypeOK, ReadError, GoTo, Points
<1>9. ASSUME NEW k \in Callers, Incomplete(k) PROVE TypeOK'
  <2>1. uses[k] \in DOMAIN connections /\ at[k] \in InFlight
    BY <1>9 DEF Using, InFlight, Incomplete
  <2> QED  BY <1>0, <1>5, <1>9, <2>1 DEF TypeOK, Incomplete
<1>10. ASSUME NEW k \in Callers, Cancel(k) PROVE TypeOK'
  <2>1. cuts' \in 0..MaxCuts
    BY <1>10, BoundsAssumption DEF TypeOK, Cancel
  <2>2. CASE at[k] \in {"sending", "awaiting", "misreading"}
    <3>1. uses[k] \in DOMAIN connections /\ at[k] \in InFlight
      BY <2>2 DEF Using, InFlight
    <3>2. End(k, connections[uses[k]])
      BY <1>10, <2>2 DEF Cancel
    <3> QED  BY <1>0, <1>5, <1>10, <2>1, <3>1, <3>2 DEF TypeOK, Cancel
  <2>3. CASE at[k] \notin {"sending", "awaiting", "misreading"}
    BY <1>10, <2>1, <2>3 DEF TypeOK, Cancel, GoTo, Points
  <2> QED  BY <2>2, <2>3
<1>11. ASSUME NEW c \in Connections, NEW n \in Connection, SetConnection(c, n),
              stream' \in {stream, None},
              UNCHANGED <<persistent, at, uses, target, answer, cuts, registration>>,
              errors' \in 0..MaxErrors
       PROVE  TypeOK'
  <2>1. IsDict(connections, Connections, Connection)'
    BY <1>0, <1>11, ConnectionSet
  <2> QED  BY <1>11, <2>1 DEF TypeOK
<1>12. CASE Aclose \/ \E c \in Connections : Collect(c)
  <2>1. PICK c \in DOMAIN connections :
          /\ CloseEnd(c) /\ stream' \in {stream, None}
          /\ UNCHANGED <<persistent, at, uses, target, answer, cuts, registration, errors>>
    BY <1>12 DEF Aclose, Collect, StreamKept
  <2>2. [connections[c] EXCEPT !.open = FALSE] \in Connection
    BY <1>0, ConnectionFields, NothingSent
  <2> QED  BY <1>0, <1>11, <2>1, <2>2 DEF TypeOK, CloseEnd
<1>13. ASSUME NEW c \in Connections, Greet(c) \/ ReadRequest(c) PROVE TypeOK'
  <2>1. PICK point \in {"reading", "refused", "handling", "closed"} :
          SetConnection(c, [connections[c] EXCEPT !.point = point])
    BY <1>13 DEF Greet, ReadRequest
  <2>2. c \in DOMAIN connections /\ UNCHANGED <<client, registration, errors>>
    BY <1>13 DEF Greet, ReadRequest
  <2>3. [connections[c] EXCEPT !.point = point] \in Connection
    BY <1>0, <2>2, ConnectionFields, NothingSent
  <2> QED  BY <1>11, <2>1, <2>2, <2>3 DEF TypeOK
<1>14. ASSUME NEW c \in Connections, Handle(c) PROVE TypeOK'
  <2>1. PICK ok \in BOOLEAN : Reply(c, ok)
    BY <1>14 DEF Handle
  <2>2. c \in DOMAIN connections /\ connections[c].requests # << >>
    BY <1>14 DEF Handle, Requested
  <2>3. errors' \in 0..MaxErrors
    <3>1. errors' = errors \/ (errors < MaxErrors /\ errors' = errors + 1)
      BY <1>14 DEF Handle
    <3>2. errors \in 0..MaxErrors
      BY DEF TypeOK
    <3> QED  BY <3>1, <3>2, BoundsAssumption
  <2> DEFINE n == connections[c]
             replies == Append(n.replies, <<Head(n.requests), ok>>)
             point == IF persistent THEN "reading" ELSE "closed"
  <2>4. [n EXCEPT !.requests = Tail(n.requests), !.replies = replies, !.point = point] \in Connection
    BY <1>0, <2>2, RequestReplied, ConnectionFields
  <2>5. SetConnection(c, [n EXCEPT !.requests = Tail(n.requests), !.replies = replies, !.point = point])
    BY <2>1 DEF Reply
  <2> QED  BY <1>11, <1>14, <2>3, <2>4, <2>5 DEF TypeOK, Handle
<1>15. ASSUME NEW v \in Servers, NodeGone(v), UNCHANGED <<client, service, calls, errors>>,
              faults' \in 0..MaxFaults
       PROVE  TypeOK'
  <2>1. IsDict(connections, Connections, Connection)'
    BY <1>0, <1>15, ConnectionsLeft
  <2> QED  BY <1>15, <2>1 DEF TypeOK, NodeGone, ServerPoints
<1>16. ASSUME NEW c \in Connections, Reset(c) PROVE TypeOK'
  <2>1. connections[c].server \in Servers
    BY <1>0, <1>16 DEF Reset, Connection
  <2> QED  BY <1>15, <1>16, <2>1 DEF Reset, TypeOK
<1>17. ASSUME NEW v \in Servers, Crash(v) PROVE TypeOK'
  BY <1>15, <1>17, BoundsAssumption DEF Crash, Fault, TypeOK
<1>18. ASSUME NEW v \in Servers,
              \/ Serve(v) \/ RegisterService(v) \/ ServeCancelled(v) \/ ServeLeaves(v)
              \/ UnregisterService(v)
       PROVE  TypeOK'
  BY <1>18, BoundsAssumption
     DEF TypeOK, Serve, RegisterService, ServeCancelled, ServeLeaves, UnregisterService, Fault,
         ServerPoints
<1> QED
  BY <1>1, <1>2, <1>3, <1>4, <1>6, <1>7, <1>8, <1>9, <1>10, <1>12, <1>13, <1>14, <1>16, <1>17,
     <1>18 DEF Next

-----------------------------------------------------------------------------
(* The server's side: the client's state stays as it is.                    *)

\* A step of the server's handler on one connection.  What it may not do is to
\* answer for a call that does not wait.
LEMMA HandlerStep ==
  ASSUME TypeOK, Calling, NEW c \in DOMAIN connections, NEW n \in Connection,
         SetConnection(c, n), UNCHANGED client,
         n.point = "handling" => n.requests # << >>,
         \/ n.open /\ \A S : Clean(connections[c], S) => Clean(n, S)
         \/ ~connections[c].open /\ \A S : Clean(connections[c], S) => Clean(n, S)
         \/ c # stream /\ \A k \in Callers : uses[k] # c
  PROVE  Calling'
<1> USE DEF client
<1>1. /\ IsDict(connections, Connections, Connection) /\ c \in Connections
  BY DEF TypeOK, IsDict
<1>2. /\ \A d \in DOMAIN connections' :
           IF d = c THEN connections'[d] = n
           ELSE d \in DOMAIN connections /\ connections'[d] = connections[d]
      /\ \A d \in DOMAIN connections : d # c => d \in DOMAIN connections'
      /\ n.open => c \in DOMAIN connections'
  BY <1>1, ConnectionSet
<1>3. LockHeld' /\ Targeted'
  BY DEF Calling, LockHeld, Busy, Targeted
<1>4. Using'
  BY <1>2 DEF Calling, Using
<1>5. StreamKept'
  BY <1>2 DEF Calling, StreamKept
<1>6. Requested'
  BY <1>2 DEF Calling, Requested
<1>7. Separate'
  <2>1. SUFFICES ASSUME ~(persistent /\ cuts > 0), NEW d \in DOMAIN connections',
                        d = stream \/ \E k \in Callers : uses[k] = d
                 PROVE  Clean(connections'[d], Waiting(d))
    BY DEF Separate, Waiting
  <2>2. CASE d = c
    BY <1>2, <2>1, <2>2 DEF Calling, Separate, Using, StreamKept
  <2>3. CASE d # c
    BY <1>2, <2>1, <2>3 DEF Calling, Separate
  <2> QED  BY <2>2, <2>3
<1> QED  BY <1>3, <1>4, <1>5, <1>6, <1>7 DEF Calling

\* A node that goes closes its ends and sends nothing more.
LEMMA NodeGoneStep ==
  ASSUME TypeOK, Calling, NEW v \in Servers, NodeGone(v), UNCHANGED client
  PROVE  Calling'
<1> USE DEF client
<1>1. /\ \A c \in DOMAIN connections' :
           /\ c \in DOMAIN connections
           /\ \/ connections'[c] = connections[c]
              \/ connections'[c] = [connections[c] EXCEPT !.point = "closed"]
      /\ \A c \in DOMAIN connections : connections[c].open => c \in DOMAIN connections'
  BY ConnectionsLeft DEF TypeOK
<1>2. ASSUME NEW c \in DOMAIN connections'
      PROVE  /\ connections'[c].open = connections[c].open
             /\ connections'[c].replies = connections[c].replies
             /\ connections'[c].requests = connections[c].requests
             /\ connections'[c].point \in {connections[c].point, "closed"}
  <2>1. connections[c] \in Connection
    BY <1>1 DEF TypeOK, IsDict
  <2> QED  BY <1>1, <2>1 DEF Connection
<1>3. LockHeld' /\ Targeted'
  BY DEF Calling, LockHeld, Busy, Targeted
<1>4. Using' /\ StreamKept'
  BY <1>1, <1>2 DEF Calling, Using, StreamKept
<1>5. Requested'
  BY <1>1, <1>2 DEF Calling, Requested
<1>6. Separate'
  <2>1. \A c \in DOMAIN connections' : \A S : Clean(connections[c], S) => Clean(connections'[c], S)
    BY <1>2 DEF Clean, Gone
  <2> QED  BY <1>1, <2>1 DEF Calling, Separate, Waiting
<1> QED  BY <1>3, <1>4, <1>5, <1>6 DEF Calling

\* With one request or response on its way, the request that is handled was the
\* only one, and its response is.
LEMMA Exchanged ==
  ASSUME NEW s \in Seq(Callers), NEW r \in Seq(Callers \X BOOLEAN), s # << >>,
         Len(s) + Len(r) <= 1, NEW e \in Callers \X BOOLEAN
  PROVE  DOMAIN s = {1} /\ Head(s) = s[1] /\ Tail(s) = << >> /\ Append(r, e) = <<e>>
<1>1. Len(s) = 1 /\ Len(r) = 0
  <2>1. Len(s) \in Nat /\ Len(r) \in Nat
    OBVIOUS
  <2>2. Len(s) # 0
    BY EmptySeq
  <2>3. \A a, b \in Nat : a # 0 /\ a + b <= 1 => a = 1 /\ b = 0
    OBVIOUS
  <2> QED  BY <2>1, <2>2, <2>3
<1>2. Len(Tail(s)) = 0 /\ Tail(s) \in Seq(Callers)
  BY <1>1
<1>3. Tail(s) = << >>
  BY <1>2
<1>4. r = << >>
  BY <1>1
<1>5. Append(r, e) = <<e>>
  BY <1>4
<1> QED  BY <1>1, <1>3, <1>5

\* A response, to a call in S, and nothing else.
LEMMA OneReply ==
  ASSUME NEW n, NEW S, NEW k \in S, NEW ok, n.requests = << >>, n.replies = <<<<k, ok>>>>
  PROVE  Clean(n, S)
<1>1. \A e : Len(<<e>>) = 1 /\ DOMAIN <<e>> = {1} /\ <<e>>[1] = e
  OBVIOUS
<1>2. Len(<< >>) = 0 /\ DOMAIN << >> = {}
  OBVIOUS
<1>3. /\ Len(n.replies) = 1 /\ DOMAIN n.replies = {1} /\ n.replies[1] = <<k, ok>>
      /\ Len(n.requests) = 0 /\ DOMAIN n.requests = {}
  BY <1>1, <1>2
<1> QED  BY <1>3 DEF Clean

\* Steps of the server and of the network keep the calls apart.
LEMMA ServerStep ==
  ASSUME TypeOK, Calling,
         \/ \E c \in Connections : Collect(c) \/ Greet(c) \/ ReadRequest(c) \/ Handle(c) \/ Reset(c)
         \/ \E v \in Servers :
              \/ Serve(v) \/ RegisterService(v) \/ ServeCancelled(v) \/ ServeLeaves(v)
              \/ UnregisterService(v) \/ Crash(v)
  PROVE  Calling' /\ UNCHANGED client
<1>0. \A c \in DOMAIN connections : c \in Connections /\ connections[c] \in Connection
  BY DEF TypeOK, IsDict
<1>1. ASSUME NEW c \in Connections, Collect(c) PROVE Calling' /\ UNCHANGED client
  <2>1. [connections[c] EXCEPT !.open = FALSE] \in Connection
    BY <1>0, <1>1, ConnectionFields, NothingSent DEF Collect
  <2>2. [connections[c] EXCEPT !.open = FALSE].point = "handling" =>
          [connections[c] EXCEPT !.open = FALSE].requests # << >>
    BY <1>0, <1>1 DEF Collect, Calling, Requested, Connection
  <2> QED  BY <1>1, <2>1, <2>2, HandlerStep DEF Collect, CloseEnd
<1>2. ASSUME NEW c \in Connections, Greet(c) PROVE Calling' /\ UNCHANGED client
  <2>1. PICK point \in {"reading", "refused"} :
          SetConnection(c, [connections[c] EXCEPT !.point = point])
    BY <1>2 DEF Greet
  <2> DEFINE n == [connections[c] EXCEPT !.point = point]
  <2>2. c \in DOMAIN connections /\ connections[c].point = "greeting" /\ UNCHANGED client
    BY <1>2 DEF Greet
  <2>3. n \in Connection
    BY <1>0, <2>2, ConnectionFields, NothingSent
  <2>4. /\ n.point = point /\ n.open = connections[c].open
        /\ n.requests = connections[c].requests /\ n.replies = connections[c].replies
        /\ n.open \in BOOLEAN
    BY <1>0, <2>2 DEF Connection
  <2>5. \A S : Clean(connections[c], S) => Clean(n, S)
    BY <2>2, <2>4 DEF Clean, Gone
  <2> HIDE DEF n
  <2> QED  BY <2>1, <2>2, <2>3, <2>4, <2>5, HandlerStep DEF n
<1>3. ASSUME NEW c \in Connections, ReadRequest(c) PROVE Calling' /\ UNCHANGED client
  <2>1. PICK point \in {"handling", "closed"} :
          /\ SetConnection(c, [connections[c] EXCEPT !.point = point])
          /\ point = "handling" => connections[c].requests # << >>
    BY <1>3 DEF ReadRequest
  <2> DEFINE n == [connections[c] EXCEPT !.point = point]
  <2>2. c \in DOMAIN connections /\ connections[c].point = "reading" /\ UNCHANGED client
    BY <1>3 DEF ReadRequest
  <2>3. n \in Connection
    BY <1>0, <2>2, ConnectionFields, NothingSent
  <2>4. /\ n.point = point /\ n.open = connections[c].open
        /\ n.requests = connections[c].requests /\ n.replies = connections[c].replies
        /\ n.open \in BOOLEAN
    BY <1>0, <2>2 DEF Connection
  <2>5. \A S : Clean(connections[c], S) => Clean(n, S)
    BY <2>2, <2>4 DEF Clean, Gone
  <2> HIDE DEF n
  <2> QED  BY <2>1, <2>2, <2>3, <2>4, <2>5, HandlerStep DEF n
<1>4. ASSUME NEW c \in Connections, Handle(c) PROVE Calling' /\ UNCHANGED client
  <2>1. PICK ok \in BOOLEAN : Reply(c, ok)
    BY <1>4 DEF Handle
  <2>2. /\ c \in DOMAIN connections /\ connections[c].requests # << >>
        /\ connections[c].point = "handling" /\ UNCHANGED client
    BY <1>4 DEF Handle, Calling, Requested
  <2> DEFINE m == connections[c]
             replies == Append(m.replies, <<Head(m.requests), ok>>)
             point == IF persistent THEN "reading" ELSE "closed"
             n == [m EXCEPT !.requests = Tail(m.requests), !.replies = replies, !.point = point]
  <2>3. m \in Connection /\ n \in Connection
    BY <1>0, <2>2, RequestReplied, ConnectionFields
  <2>4. SetConnection(c, n)
    BY <2>1 DEF Reply
  <2>5. /\ n.point # "handling" /\ n.open = m.open /\ n.open \in BOOLEAN
        /\ n.requests = Tail(m.requests) /\ n.replies = replies
    BY <2>3 DEF Connection
  <2>6. ASSUME NEW S, Clean(m, S) PROVE Clean(n, S)
    <3>1. /\ m.requests \in Seq(Callers) /\ m.replies \in Seq(Callers \X BOOLEAN)
          /\ Len(m.requests) + Len(m.replies) <= 1
          /\ \A i \in DOMAIN m.requests : m.requests[i] \in S
      BY <2>2, <2>3, <2>6 DEF Clean, Gone, Connection
    <3>2. <<Head(m.requests), ok>> \in Callers \X BOOLEAN
      BY <2>2, <2>3, RequestReplied
    <3>3. /\ Head(m.requests) \in S /\ Tail(m.requests) = << >>
          /\ replies = <<<<Head(m.requests), ok>>>>
      BY <2>2, <3>1, <3>2, Exchanged
    <3>4. n.requests = << >> /\ n.replies = <<<<Head(m.requests), ok>>>>
      BY <2>5, <3>3
    <3> HIDE DEF n
    <3> QED  BY <3>3, <3>4, OneReply
  <2> HIDE DEF n
  <2> QED  BY <2>2, <2>3, <2>4, <2>5, <2>6, HandlerStep
<1>5. ASSUME NEW c \in Connections, Reset(c) PROVE Calling' /\ UNCHANGED client
  <2>1. connections[c].server \in Servers
    BY <1>0, <1>5 DEF Reset, Connection
  <2> QED  BY <1>5, <2>1, NodeGoneStep DEF Reset
<1>6. ASSUME NEW v \in Servers, Crash(v) PROVE Calling' /\ UNCHANGED client
  BY <1>6, NodeGoneStep DEF Crash
<1>7. ASSUME NEW v \in Servers,
             \/ Serve(v) \/ RegisterService(v) \/ ServeCancelled(v) \/ ServeLeaves(v)
             \/ UnregisterService(v)
      PROVE  Calling' /\ UNCHANGED client
  <2>1. UNCHANGED <<client, connections>>
    BY <1>7 DEF Serve, RegisterService, ServeCancelled, ServeLeaves, UnregisterService
  <2> QED
    BY <2>1 DEF client, Calling, LockHeld, Busy, Targeted, Using, StreamKept, Requested, Separate,
                Waiting
<1> QED  BY <1>1, <1>2, <1>3, <1>4, <1>5, <1>6, <1>7

-----------------------------------------------------------------------------
(* The client's side.                                                       *)

\* The call that has the lock is the only one with a connection.
LEMMA Alone ==
  ASSUME Calling, NEW k \in Callers, Busy(k)
  PROVE  \A j \in Callers : j # k => ~Busy(j) /\ at[j] \notin InFlight /\ uses[j] = None
  BY DEF Calling, LockHeld, Using, Busy, InFlight

\* With the lock free, no call has a connection.
LEMMA NobodyUses ==
  ASSUME Calling, LockFree
  PROVE  \A j \in Callers : ~Busy(j) /\ at[j] \notin InFlight /\ uses[j] = None
  BY DEF Calling, LockFree, Using, Busy, InFlight

\* Nothing is on its way on a connection that is clean for no call.
LEMMA CleanForNone ==
  ASSUME NEW n \in Connection, Clean(n, {})
  PROVE  n.replies = << >> /\ (~Gone(n) => n.requests = << >>)
<1>1. ASSUME NEW T, NEW s \in Seq(T), \A i \in DOMAIN s : FALSE PROVE s = << >>
  <2>1. DOMAIN s = 1..Len(s)
    BY LenProperties
  <2>2. s # << >> => Len(s) \in Nat \ {0}
    BY EmptySeq
  <2>3. s # << >> => 1 \in DOMAIN s
    BY <2>1, <2>2
  <2> QED  BY <1>1, <2>3
<1>2. n.requests \in Seq(Callers) /\ n.replies \in Seq(Callers \X BOOLEAN)
  BY DEF Connection
<1>3. n.replies = << >>
  BY <1>1, <1>2 DEF Clean
<1>4. ~Gone(n) => n.requests = << >>
  BY <1>1, <1>2 DEF Clean
<1> QED  BY <1>3, <1>4

\* A request of a call in S, and nothing else, on a connection that is served.
LEMMA OneRequest ==
  ASSUME NEW n, NEW S, NEW k \in S, n.replies = << >>, ~Gone(n) => n.requests = <<k>>
  PROVE  Clean(n, S)
<1>1. Len(<<k>>) = 1 /\ DOMAIN <<k>> = {1} /\ <<k>>[1] = k
  OBVIOUS
<1>2. Len(<< >>) = 0 /\ DOMAIN << >> = {}
  OBVIOUS
<1>3. Len(n.replies) = 0 /\ DOMAIN n.replies = {}
  BY <1>2
<1>4. CASE Gone(n)
  BY <1>3, <1>4 DEF Clean
<1>5. CASE ~Gone(n)
  <2>1. Len(n.requests) = 1 /\ DOMAIN n.requests = {1} /\ n.requests[1] = k
    BY <1>1, <1>5
  <2> QED  BY <1>3, <2>1 DEF Clean
<1> QED  BY <1>4, <1>5

\* A connection stays clean when its responses are lost.
LEMMA NothingReplied ==
  ASSUME NEW n \in Connection, NEW m, NEW S, Clean(n, S), m.replies = << >>,
         m.requests = n.requests, Gone(m) = Gone(n)
  PROVE  Clean(m, S)
<1>1. Len(<< >>) = 0 /\ DOMAIN << >> = {}
  OBVIOUS
<1>2. Len(n.replies) \in Nat /\ Len(n.requests) \in Nat
  BY LenProperties DEF Connection
<1>3. \A a, b \in Nat : a + b <= 1 => a + 0 <= 1
  OBVIOUS
<1>4. Len(m.replies) = 0 /\ DOMAIN m.replies = {}
  BY <1>1
<1>5. ~Gone(m) => Len(m.requests) + 0 <= 1 /\ \A i \in DOMAIN m.requests : m.requests[i] \in S
  BY <1>2, <1>3 DEF Clean
<1> QED  BY <1>4, <1>5 DEF Clean

\* The one response that can be on its way is the waiting call's, and nothing is
\* left behind it.
LEMMA OneReplyRead ==
  ASSUME NEW n \in Connection, NEW k \in Callers, n.replies # << >>, Clean(n, {k}),
         NEW m, m.requests = n.requests, m.point = n.point,
         m.replies \in {Tail(n.replies), << >>}
  PROVE  Head(n.replies)[1] = k /\ Clean(m, {})
<1>1. n.requests \in Seq(Callers) /\ n.replies \in Seq(Callers \X BOOLEAN)
  BY DEF Connection
<1>2. Len(n.requests) \in Nat /\ Len(n.replies) \in Nat \ {0} /\ Len(n.replies) <= 1
  BY <1>1, EmptySeq, LenProperties DEF Clean
<1>3. Len(n.replies) = 1
  <2>1. \A a \in Nat \ {0} : a <= 1 => a = 1
    OBVIOUS
  <2> QED  BY <1>2, <2>1
<1>4. DOMAIN n.replies = {1} /\ Head(n.replies) = n.replies[1] /\ Len(Tail(n.replies)) = 0
  BY <1>1, <1>3
<1>5. Tail(n.replies) = << >>
  <2>1. Tail(n.replies) \in Seq(Callers \X BOOLEAN)
    BY <1>1
  <2> QED  BY <1>4, <2>1, EmptySeq
<1>6. ~Gone(n) => n.requests = << >>
  <2>1. \A a \in Nat : a + 1 <= 1 => a = 0
    OBVIOUS
  <2>2. ~Gone(n) => Len(n.requests) = 0
    BY <1>2, <1>3, <2>1 DEF Clean
  <2> QED  BY <1>1, <2>2, EmptySeq
<1>7. Len(<< >>) = 0 /\ DOMAIN << >> = {}
  OBVIOUS
<1>8. Clean(m, {})
  <2>1. Len(m.replies) = 0 /\ DOMAIN m.replies = {}
    BY <1>5, <1>7
  <2>2. CASE Gone(m)
    BY <2>1, <2>2 DEF Clean
  <2>3. CASE ~Gone(m)
    <3>1. Len(m.requests) = 0 /\ DOMAIN m.requests = {}
      BY <1>6, <1>7, <2>3 DEF Gone
    <3> QED  BY <2>1, <3>1 DEF Clean
  <2> QED  BY <2>2, <2>3
<1> QED  BY <1>4, <1>8 DEF Clean

\* The end of a call that has a connection: what it leaves on a persistent
\* client's stream is nothing, unless it was cut short.
LEMMA EndStep ==
  ASSUME TypeOK, Calling, NEW k \in Callers, at[k] \in {"sending", "awaiting", "misreading"},
         NEW n \in Connection, n.open, n.point = "handling" => n.requests # << >>,
         End(k, n), UNCHANGED <<persistent, target, stream>>,
         cuts' > 0 \/ (cuts' = cuts /\ (~(persistent /\ cuts > 0) => Clean(n, {})))
  PROVE  Calling'
<1> DEFINE c == uses[k]
           m == IF persistent THEN n ELSE [n EXCEPT !.open = FALSE]
<1>1. /\ c \in DOMAIN connections /\ c \in Connections /\ c # None
      /\ IsDict(connections, Connections, Connection)
  BY NoneAssumption DEF Calling, Using, InFlight, TypeOK, IsDict
<1>2. \A j \in Callers : j # k => ~Busy(j) /\ at[j] \notin InFlight /\ uses[j] = None
  BY Alone DEF Busy
<1>3. m \in Connection /\ SetConnection(c, m)
  BY ConnectionFields, NothingSent DEF End
<1>4. m.point = n.point /\ m.requests = n.requests /\ (persistent => m = n)
  BY DEF Connection
<1>5. /\ at' = [at EXCEPT ![k] = "ended"] /\ uses' = [uses EXCEPT ![k] = None]
      /\ at \in [Callers -> Points] /\ uses \in [Callers -> Connections \cup {None}]
  BY DEF End, GoTo, TypeOK
<1> HIDE DEF c, m
<1>6. /\ \A d \in DOMAIN connections' :
           IF d = c THEN connections'[d] = m
           ELSE d \in DOMAIN connections /\ connections'[d] = connections[d]
      /\ \A d \in DOMAIN connections : d # c => d \in DOMAIN connections'
      /\ m.open => c \in DOMAIN connections'
  BY <1>1, <1>3, ConnectionSet
<1>7. LockHeld' /\ Targeted'
  BY <1>2, <1>5 DEF Calling, LockHeld, Busy, Targeted
<1>8. \A j \in Callers : uses'[j] = None /\ at'[j] \notin InFlight
  BY <1>2, <1>5 DEF InFlight
<1>9. Using'
  BY <1>8 DEF Using
<1>10. StreamKept'
  BY <1>4, <1>6 DEF Calling, StreamKept
<1>11. Requested'
  BY <1>4, <1>6 DEF Calling, Requested
<1>12. Separate'
  <2>1. SUFFICES ASSUME ~(persistent /\ cuts' > 0), NEW d \in DOMAIN connections',
                        d = stream \/ \E j \in Callers : uses'[j] = d
                 PROVE  Clean(connections'[d], Waiting(d)')
    BY DEF Separate
  <2>2. d # None
    BY <1>1, <1>6, NoneAssumption DEF IsDict
  <2>3. Waiting(d)' = {} /\ d = stream
    BY <1>8, <2>1, <2>2 DEF Waiting
  <2>4. persistent /\ ~(cuts' > 0)
    BY <2>1, <2>2, <2>3 DEF Calling, StreamKept
  <2>5. CASE d = c
    BY <1>4, <1>6, <2>3, <2>4, <2>5
  <2>6. CASE d # c
    <3>1. d \in DOMAIN connections /\ connections'[d] = connections[d]
      BY <1>6, <2>6
    <3>2. Waiting(d) = {}
      BY <1>2, <2>2, <2>6 DEF Waiting, c
    <3>3. Clean(connections[d], {})
      BY <2>3, <2>4, <3>1, <3>2 DEF Calling, Separate
    <3> QED  BY <2>3, <3>1, <3>3
  <2> QED  BY <2>5, <2>6
<1> QED  BY <1>7, <1>9, <1>10, <1>11, <1>12 DEF Calling

\* A step that changes a call's place alone, from and to one where it waits for
\* no response, with the connections and the use it makes of them as they were.
LEMMA PlaceStep ==
  ASSUME TypeOK, Calling, NEW k \in Callers, NEW point \in Points, GoTo(k, point),
         at[k] \notin InFlight, point \notin InFlight,
         Busy(k) \/ LockFree \/ point \in {"locking", "ended"},
         point = "connecting" => target'[k] \in Servers,
         \A j \in Callers : j # k => target'[j] = target[j],
         UNCHANGED <<persistent, uses, stream, connections>>,
         cuts' > 0 \/ cuts' = cuts
  PROVE  Calling'
<1>1. at' = [at EXCEPT ![k] = point] /\ at \in [Callers -> Points]
  BY DEF GoTo, TypeOK
<1>2. LockHeld'
  BY <1>1 DEF Calling, LockHeld, Busy, LockFree
<1>3. Targeted'
  BY <1>1 DEF Calling, Targeted
<1>4. Using' /\ StreamKept' /\ Requested'
  BY <1>1 DEF Calling, Using, StreamKept, Requested
<1>5. Separate'
  <2>1. \A c : Waiting(c)' = Waiting(c)
    BY <1>1 DEF Waiting, InFlight
  <2>2. ~(persistent /\ cuts' > 0) =>
          ~(persistent /\ cuts > 0)
    OBVIOUS
  <2> QED  BY <2>1, <2>2 DEF Calling, Separate
<1> QED  BY <1>2, <1>3, <1>4, <1>5 DEF Calling

\* A call whose header exchange fails or is cut short leaves its connection.
LEMMA LeaveStep ==
  ASSUME TypeOK, Calling, NEW k \in Callers, at[k] = "greeting", GoTo(k, "ended"),
         uses' = [uses EXCEPT ![k] = None],
         UNCHANGED <<persistent, target, stream, connections>>, cuts' > 0 \/ cuts' = cuts
  PROVE  Calling'
<1>1. /\ at' = [at EXCEPT ![k] = "ended"] /\ at \in [Callers -> Points]
      /\ uses \in [Callers -> Connections \cup {None}]
  BY DEF GoTo, TypeOK
<1>2. \A j \in Callers : uses'[j] = None /\ at'[j] \notin InFlight
  BY <1>1, Alone DEF Busy, InFlight
<1>3. LockHeld' /\ Targeted'
  BY <1>1 DEF Calling, LockHeld, Targeted, Busy
<1>4. Using' /\ StreamKept' /\ Requested'
  BY <1>2 DEF Calling, Using, StreamKept, Requested
<1>5. Separate'
  <2>1. \A c : Waiting(c)' = Waiting(c)
    <3>1. \A c : Waiting(c)' = {}
      BY <1>2 DEF Waiting, InFlight
    <3>2. \A c : Waiting(c) = {}
      BY Alone DEF Waiting, Busy, InFlight
    <3> QED  BY <3>1, <3>2
  <2>2. \A c \in DOMAIN connections :
          c = stream \/ (\E j \in Callers : uses'[j] = c) => c = stream
    BY <1>2, NoneAssumption DEF TypeOK, IsDict
  <2> QED  BY <2>1, <2>2 DEF Calling, Separate
<1> QED  BY <1>3, <1>4, <1>5 DEF Calling

\* What the calls send and read stays with the call that waits for it, and the
\* response a call returns is its own.
LEMMA ClientStep ==
  ASSUME TypeOK, Calling, AnswersOwn, NEW k \in Callers,
         \/ Call(k) \/ Locked(k) \/ LookupService(k) \/ Connect(k) \/ Greeted(k) \/ Send(k)
         \/ Respond(k) \/ ReadError(k) \/ Incomplete(k) \/ Cancel(k)
  PROVE  Calling' /\ AnswersOwn'
<1> DEFINE c == uses[k]
           n == connections[c]
<1>0. /\ \A d \in DOMAIN connections : d \in Connections /\ connections[d] \in Connection
      /\ at \in [Callers -> Points] /\ uses \in [Callers -> Connections \cup {None}]
      /\ cuts \in Nat
  BY DEF TypeOK, IsDict
<1>1. ASSUME at[k] \in {"sending", "awaiting", "misreading"}
      PROVE  /\ c \in DOMAIN connections /\ c \in Connections /\ n \in Connection
             /\ n.open /\ (n.point = "handling" => n.requests # << >>)
             /\ \A j \in Callers : j # k => ~Busy(j) /\ at[j] \notin InFlight /\ uses[j] = None
             /\ Waiting(c) = IF at[k] = "sending" THEN {} ELSE {k}
             /\ ~(persistent /\ cuts > 0) => Clean(n, Waiting(c))
  <2>1. c \in DOMAIN connections /\ n.open
    BY <1>1 DEF Calling, Using, InFlight
  <2>2. \A j \in Callers : j # k => ~Busy(j) /\ at[j] \notin InFlight /\ uses[j] = None
    BY <1>1, Alone DEF Busy
  <2>3. Waiting(c) = IF at[k] = "sending" THEN {} ELSE {k}
    BY <1>1, <2>2 DEF Waiting, InFlight
  <2> QED  BY <1>0, <2>1, <2>2, <2>3 DEF Calling, Requested, Separate
<1>2. CASE Call(k)
  <2>1. Calling'
    BY <1>2, PlaceStep DEF Call, Points, InFlight, registration
  <2> QED  BY <1>2, <2>1 DEF Call, AnswersOwn
<1>3. CASE Locked(k)
  <2>1. AnswersOwn'
    BY <1>3 DEF Locked, AnswersOwn
  <2>2. CASE stream = None
    BY <1>3, <2>1, <2>2, PlaceStep DEF Locked, Points, InFlight
  <2>3. CASE stream # None
    <3>1. /\ at' = [at EXCEPT ![k] = "sending"] /\ uses' = [uses EXCEPT ![k] = stream]
          /\ UNCHANGED <<persistent, target, stream, cuts, connections>>
          /\ \A j \in Callers : ~Busy(j) /\ at[j] \notin InFlight /\ uses[j] = None
      BY <1>3, <2>3, NobodyUses DEF Locked, GoTo
    <3>2. LockHeld' /\ Targeted' /\ StreamKept' /\ Requested'
      BY <1>0, <3>1 DEF Calling, LockHeld, Busy, Targeted, StreamKept, Requested
    <3>3. Using'
      BY <1>0, <2>3, <3>1 DEF Calling, Using, StreamKept, InFlight
    <3>4. Separate'
      <4>1. \A d : Waiting(d) = {} /\ Waiting(d)' = {}
        BY <1>0, <3>1 DEF Waiting, InFlight
      <4>2. \A d \in DOMAIN connections :
              d = stream \/ (\E j \in Callers : uses'[j] = d) => d = stream
        BY <1>0, <3>1, NoneAssumption
      <4> QED  BY <3>1, <4>1, <4>2 DEF Calling, Separate
    <3> QED  BY <2>1, <3>2, <3>3, <3>4 DEF Calling
  <2> QED  BY <2>2, <2>3
<1>4. CASE LookupService(k)
  <2>1. target'[k] = service /\ (service # None => service \in Servers)
        /\ \A j \in Callers : j # k => target'[j] = target[j]
    BY <1>4 DEF LookupService, TypeOK
  <2>2. Calling'
    BY <1>4, <2>1, PlaceStep DEF LookupService, Points, InFlight, Busy
  <2> QED  BY <1>4, <2>2 DEF LookupService, AnswersOwn
<1>5. CASE Connect(k)
  <2>1. AnswersOwn'
    BY <1>5 DEF Connect, AnswersOwn
  <2>2. CASE serving[target[k]] = "dead"
    BY <1>5, <2>1, <2>2, PlaceStep DEF Connect, Points, InFlight
  <2>3. CASE serving[target[k]] # "dead"
    <3>1. PICK d \in Connections \ DOMAIN connections :
            /\ uses' = [uses EXCEPT ![k] = d]
            /\ connections' = Put(connections, d,
                 [server |-> target[k], open |-> TRUE, read |-> FALSE, point |-> "greeting",
                  requests |-> << >>, replies |-> << >>])
            /\ at' = [at EXCEPT ![k] = "greeting"]
      BY <1>5, <2>3 DEF Connect, GoTo
    <3>2. /\ DOMAIN connections' = DOMAIN connections \cup {d}
          /\ \A e \in DOMAIN connections : connections'[e] = connections[e]
          /\ connections'[d].open /\ connections'[d].point = "greeting"
          /\ connections'[d].requests = << >> /\ connections'[d].replies = << >>
      BY <3>1 DEF Put
    <3>3. \A j \in Callers : j # k => ~Busy(j) /\ at[j] \notin InFlight /\ uses[j] = None
      BY <1>5, Alone DEF Connect, Busy
    <3>4. LockHeld' /\ Targeted' /\ Using' /\ StreamKept' /\ Requested'
      <4>1. LockHeld'
        BY <1>0, <3>1, <3>3 DEF LockHeld, Busy
      <4>2. Targeted' /\ StreamKept' /\ Requested'
        BY <1>0, <1>5, <3>1, <3>2 DEF Calling, Targeted, StreamKept, Requested, Connect
      <4>3. uses'[k] = d /\ at'[k] = "greeting"
            /\ \A j \in Callers : j # k => uses'[j] = None /\ at'[j] \notin InFlight
        BY <1>0, <3>1, <3>3
      <4>4. Using'
        BY <3>2, <4>3 DEF Using, InFlight
      <4> QED  BY <4>1, <4>2, <4>4
    <3>5. Separate'
      <4>1. Clean(connections'[d], {})
        BY <3>2 DEF Clean
      <4>2. \A e : Waiting(e) = {} /\ Waiting(e)' = {}
        BY <1>0, <1>5, <3>1, <3>3 DEF Waiting, InFlight, Connect
      <4>3. \A e \in DOMAIN connections :
              e = stream' \/ (\E j \in Callers : uses'[j] = e) => e = stream
        BY <1>0, <1>5, <3>1, <3>3, NoneAssumption DEF Connect
      <4> QED  BY <1>5, <3>2, <4>1, <4>2, <4>3 DEF Calling, Separate, Connect
    <3> QED  BY <2>1, <3>4, <3>5 DEF Calling
  <2> QED  BY <2>2, <2>3
<1>6. CASE Greeted(k)
  <2>1. AnswersOwn'
    BY <1>6 DEF Greeted, AnswersOwn
  <2>2. CASE Gone(connections[uses[k]])
    BY <1>6, <2>1, <2>2, LeaveStep DEF Greeted
  <2>3. CASE ~Gone(connections[uses[k]])
    <3>1. /\ at' = [at EXCEPT ![k] = "sending"] /\ at[k] = "greeting"
          /\ stream' = IF persistent THEN c ELSE stream
          /\ connections' = [connections EXCEPT ![c].read = TRUE]
          /\ UNCHANGED <<persistent, target, uses, cuts>>
      BY <1>6, <2>3 DEF Greeted, GoTo
    <3>2. c \in DOMAIN connections /\ n.open /\ n \in Connection
      BY <1>0, <3>1 DEF Calling, Using, InFlight
    <3>3. /\ DOMAIN connections' = DOMAIN connections
          /\ \A d \in DOMAIN connections :
               /\ connections'[d].open = connections[d].open
               /\ connections'[d].point = connections[d].point
               /\ connections'[d].requests = connections[d].requests
               /\ connections'[d].replies = connections[d].replies
      BY <3>1, <3>2 DEF Connection
    <3>4. \A j \in Callers : j # k => ~Busy(j) /\ at[j] \notin InFlight /\ uses[j] = None
      BY <3>1, Alone DEF Busy
    <3>5. LockHeld' /\ Targeted' /\ Requested'
      BY <1>0, <3>1, <3>3 DEF Calling, LockHeld, Busy, Targeted, Requested
    <3>6. Using'
      BY <1>0, <3>1, <3>3 DEF Calling, Using, InFlight
    <3>7. StreamKept'
      BY <3>1, <3>2, <3>3 DEF Calling, StreamKept
    <3>8. Separate'
      <4>1. \A d : Waiting(d) = {} /\ Waiting(d)' = {}
        BY <1>0, <3>1, <3>4 DEF Waiting, InFlight
      <4>2. \A d \in DOMAIN connections :
              d = stream' \/ (\E j \in Callers : uses'[j] = d) =>
                d = stream \/ (\E j \in Callers : uses[j] = d)
        BY <3>1
      <4>3. \A d \in DOMAIN connections : Clean(connections[d], {}) => Clean(connections'[d], {})
        BY <3>3 DEF Clean, Gone
      <4> QED  BY <3>1, <3>3, <4>1, <4>2, <4>3 DEF Calling, Separate
    <3> QED  BY <2>1, <3>5, <3>6, <3>7, <3>8 DEF Calling
  <2> QED  BY <2>2, <2>3
<1>7. CASE Send(k)
  <2>1. AnswersOwn' /\ at[k] = "sending" /\ UNCHANGED <<persistent, target, stream, cuts>>
    BY <1>7 DEF Send, AnswersOwn
  <2>2. CASE End(k, n)
    BY <1>1, <2>1, <2>2, EndStep
  <2>3. CASE ~End(k, n)
    <3>1. /\ at' = [at EXCEPT ![k] = "awaiting"] /\ UNCHANGED uses
          /\ connections' = IF n.point = "closed" THEN connections
                            ELSE Put(connections, c, [n EXCEPT !.requests = Append(n.requests, k)])
      BY <1>1, <1>7, <2>1, <2>3, RequestSent DEF Send, GoTo
    <3>2. /\ c \in DOMAIN connections /\ n \in Connection /\ n.open
          /\ \A j \in Callers : j # k => ~Busy(j) /\ at[j] \notin InFlight /\ uses[j] = None
          /\ ~(persistent /\ cuts > 0) => Clean(n, {})
      BY <1>1, <2>1
    <3>3. /\ DOMAIN connections' = DOMAIN connections
          /\ \A d \in DOMAIN connections : d # c => connections'[d] = connections[d]
          /\ connections'[c].open = n.open /\ connections'[c].point = n.point
          /\ connections'[c].replies = n.replies
          /\ connections'[c].requests \in {n.requests, Append(n.requests, k)}
          /\ n.point # "closed" => connections'[c].requests = Append(n.requests, k)
      BY <3>1, <3>2 DEF Put, Connection
    <3>4. LockHeld' /\ Targeted'
      BY <1>0, <2>1, <3>1 DEF Calling, LockHeld, Busy, Targeted
    <3>5. Using' /\ StreamKept'
      BY <1>0, <2>1, <3>1, <3>2, <3>3 DEF Calling, Using, StreamKept, InFlight
    <3>6. n.requests \in Seq(Callers) /\ Append(n.requests, k) # << >>
      BY <3>2 DEF Connection
    <3>7. Requested'
      BY <3>2, <3>3, <3>6 DEF Calling, Requested
    <3>8. Separate'
      <4>1. SUFFICES ASSUME ~(persistent /\ cuts > 0), NEW d \in DOMAIN connections,
                            d = stream \/ \E j \in Callers : uses[j] = d
                     PROVE  Clean(connections'[d], Waiting(d)')
        BY <2>1, <3>1, <3>3 DEF Separate
      <4>2. CASE d = c
        <5>1. Waiting(d)' = {k}
          BY <1>0, <3>1, <3>2, <4>2, NoneAssumption DEF Waiting, InFlight
        <5>2. n.replies = << >> /\ (~Gone(n) => n.requests = << >>)
          BY <3>2, <4>1, CleanForNone
        <5>3. Append(<< >>, k) = <<k>>
          OBVIOUS
        <5> DEFINE m == connections'[c]
        <5>4. m.replies = << >> /\ (~Gone(m) => m.requests = <<k>>)
          BY <3>3, <5>2, <5>3 DEF Gone
        <5> HIDE DEF m
        <5>5. Clean(m, {k})
          BY <5>4, OneRequest
        <5> QED  BY <4>2, <5>1, <5>5 DEF m
      <4>3. CASE d # c
        <5>1. Waiting(d)' = Waiting(d)
          BY <1>0, <2>1, <3>1, <4>3 DEF Waiting
        <5> QED  BY <3>3, <4>1, <4>3, <5>1 DEF Calling, Separate
      <4> QED  BY <4>2, <4>3
    <3> QED  BY <2>1, <3>4, <3>5, <3>7, <3>8 DEF Calling
  <2> QED  BY <2>2, <2>3
<1>8. CASE Respond(k)
  <2>1. /\ at[k] = "awaiting" /\ n.replies # << >> /\ answer' = [answer EXCEPT ![k] = Head(n.replies)[1]]
        /\ UNCHANGED <<persistent, target, stream, cuts>>
    BY <1>8 DEF Respond
  <2>2. PICK rest \in {Tail(n.replies), << >>} : End(k, [n EXCEPT !.replies = rest])
    BY <1>8 DEF Respond
  <2>3. rest \in Seq(Callers \X BOOLEAN)
    BY <1>1, <2>1, ReplyRead
  <2> DEFINE m == [n EXCEPT !.replies = rest]
  <2>4. m \in Connection
    BY <1>1, <2>1, <2>3, ConnectionFields, NothingSent
  <2>5. m.open = n.open /\ m.point = n.point /\ m.requests = n.requests /\ m.replies = rest
    BY <1>1, <2>1 DEF Connection
  <2>6. ASSUME ~(persistent /\ cuts > 0)
        PROVE  Head(n.replies)[1] = k /\ Clean(m, {})
    <3>1. n \in Connection /\ Clean(n, {k})
      BY <1>1, <2>1, <2>6
    <3> HIDE DEF m
    <3> QED  BY <2>1, <2>2, <2>5, <3>1, OneReplyRead
  <2> HIDE DEF m
  <2>7. Calling'
    BY <1>1, <2>1, <2>2, <2>4, <2>5, <2>6, EndStep DEF m
  <2>8. AnswersOwn'
    BY <2>1, <2>6 DEF AnswersOwn, TypeOK
  <2> QED  BY <2>7, <2>8
<1>9. CASE ReadError(k)
  <2>1. /\ at[k] \in {"awaiting", "misreading"} /\ AnswersOwn'
        /\ connections' = Put(connections, c, [n EXCEPT !.replies = << >>])
        /\ at' = [at EXCEPT ![k] = "misreading"]
        /\ UNCHANGED <<persistent, uses, target, stream, cuts>>
    BY <1>9 DEF ReadError, AnswersOwn, GoTo
  <2>2. /\ c \in DOMAIN connections /\ n \in Connection /\ n.open
        /\ n.point = "handling" => n.requests # << >>
    BY <1>1, <2>1
  <2>3. /\ DOMAIN connections' = DOMAIN connections
        /\ \A d \in DOMAIN connections : d # c => connections'[d] = connections[d]
        /\ connections'[c].open = n.open /\ connections'[c].point = n.point
        /\ connections'[c].replies = << >> /\ connections'[c].requests = n.requests
    BY <2>1, <2>2 DEF Put, Connection
  <2>4. LockHeld' /\ Targeted'
    BY <1>0, <2>1 DEF Calling, LockHeld, Busy, Targeted
  <2>5. Using' /\ StreamKept'
    BY <1>0, <2>1, <2>2, <2>3 DEF Calling, Using, StreamKept, InFlight
  <2>6. Requested'
    BY <2>2, <2>3 DEF Calling, Requested
  <2>7. Separate'
    <3>1. \A d : Waiting(d)' = Waiting(d)
      BY <1>0, <2>1 DEF Waiting
    <3>2. \A S : Clean(n, S) => Clean(connections'[c], S)
      BY <2>2, <2>3, NothingReplied DEF Gone
    <3> QED  BY <2>1, <2>3, <3>1, <3>2 DEF Calling, Separate
  <2> QED  BY <2>1, <2>4, <2>5, <2>6, <2>7 DEF Calling
<1>10. CASE Incomplete(k)
  <2>1. /\ at[k] \in {"awaiting", "misreading"} /\ AnswersOwn'
        /\ n.point = "closed" /\ n.replies = << >> /\ End(k, n)
        /\ UNCHANGED <<persistent, target, stream, cuts>>
    BY <1>10 DEF Incomplete, AnswersOwn
  <2>2. Clean(n, {})
    <3>1. Len(<< >>) <= 1 /\ DOMAIN << >> = {}
      OBVIOUS
    <3> QED  BY <2>1, <3>1 DEF Clean, Gone
  <2> QED  BY <1>1, <2>1, <2>2, EndStep
<1>11. CASE Cancel(k)
  <2>1. /\ cuts' > 0 /\ UNCHANGED <<persistent, target, answer, stream>>
        /\ at[k] \notin {"new", "ended"}
    BY <1>0, <1>11 DEF Cancel
  <2>2. AnswersOwn'
    BY <1>0, <2>1 DEF AnswersOwn
  <2>3. CASE at[k] \in {"sending", "awaiting", "misreading"}
    <3>1. End(k, n)
      BY <1>11, <2>3 DEF Cancel
    <3> QED  BY <1>1, <2>1, <2>2, <2>3, <3>1, EndStep
  <2>4. CASE at[k] = "greeting"
    BY <1>11, <2>1, <2>2, <2>4, LeaveStep DEF Cancel
  <2>5. CASE at[k] \notin InFlight
    <3>1. GoTo(k, "ended") /\ UNCHANGED connections /\ uses' = [uses EXCEPT ![k] = None]
      BY <1>11, <2>5 DEF Cancel, InFlight
    <3>2. uses[k] = None
      BY <2>5 DEF Calling, Using
    <3>3. UNCHANGED uses
      BY <1>0, <3>1, <3>2
    <3> QED  BY <2>1, <2>2, <2>5, <3>1, <3>3, PlaceStep DEF Points, InFlight
  <2> QED  BY <2>3, <2>4, <2>5 DEF InFlight
<1> QED  BY <1>2, <1>3, <1>4, <1>5, <1>6, <1>7, <1>8, <1>9, <1>10, <1>11

\* aclose, with the lock, closes the stream.
LEMMA AcloseStep ==
  ASSUME TypeOK, Calling, Aclose PROVE Calling'
<1> DEFINE n == [connections[stream] EXCEPT !.open = FALSE]
<1>1. /\ stream \in DOMAIN connections /\ stream \in Connections
      /\ connections[stream] \in Connection
  BY DEF Aclose, Calling, StreamKept, TypeOK, IsDict
<1>2. n \in Connection /\ SetConnection(stream, n)
  BY <1>1, ConnectionFields, NothingSent DEF Aclose, CloseEnd
<1>3. n.point = connections[stream].point /\ n.requests = connections[stream].requests
  BY <1>1 DEF Connection
<1> HIDE DEF n
<1>4. \A d \in DOMAIN connections' :
        /\ d \in Connections
        /\ IF d = stream THEN connections'[d] = n
           ELSE d \in DOMAIN connections /\ connections'[d] = connections[d]
  BY <1>1, <1>2, ConnectionSet DEF TypeOK, IsDict
<1>5. /\ \A k \in Callers : ~Busy(k) /\ at[k] \notin InFlight /\ uses[k] = None
      /\ stream' = None /\ UNCHANGED <<persistent, at, uses, target, cuts>>
  BY NobodyUses DEF Aclose
<1>6. LockHeld' /\ Targeted' /\ Using' /\ StreamKept'
  BY <1>5 DEF Calling, LockHeld, Busy, Targeted, Using, StreamKept
<1>7. Requested'
  BY <1>1, <1>3, <1>4 DEF Calling, Requested
<1>8. Separate'
  BY <1>4, <1>5, NoneAssumption DEF Separate
<1> QED  BY <1>6, <1>7, <1>8 DEF Calling

-----------------------------------------------------------------------------
(* The theorems.                                                            *)

\* The invariant holds initially.
LEMMA CallInit == Init => CallInv
<1> SUFFICES ASSUME Init PROVE CallInv
  OBVIOUS
<1>1. DOMAIN connections = {}
  BY DEF Init, EmptyDict
<1>2. TypeOK
  BY <1>1, BoundsAssumption DEF TypeOK, Init, Points, ServerPoints, IsDict
<1>3. Calling
  BY <1>1 DEF Init, Calling, LockHeld, Busy, Targeted, Using, InFlight, StreamKept, Requested,
              Separate
<1>4. AnswersOwn
  BY DEF Init, AnswersOwn
<1> QED  BY <1>2, <1>3, <1>4 DEF CallInv

\* Every step keeps it.
LEMMA CallStep == CallInv /\ [Next]_vars => CallInv'
<1> SUFFICES ASSUME CallInv, [Next]_vars PROVE CallInv'
  OBVIOUS
<1>1. TypeOK /\ Calling /\ AnswersOwn
  BY DEF CallInv
<1>2. TypeOK'
  BY <1>1, TypeStep DEF Calling
<1>3. CASE UNCHANGED vars
  BY <1>1, <1>2, <1>3
     DEF vars, client, CallInv, Calling, LockHeld, Busy, Targeted, Using, StreamKept, Requested,
         Separate, Waiting, AnswersOwn
<1>4. ASSUME NEW k \in Callers,
             \/ Call(k) \/ Locked(k) \/ LookupService(k) \/ Connect(k) \/ Greeted(k) \/ Send(k)
             \/ Respond(k) \/ ReadError(k) \/ Incomplete(k) \/ Cancel(k)
      PROVE  CallInv'
  BY <1>1, <1>2, <1>4, ClientStep DEF CallInv
<1>5. CASE Aclose
  BY <1>1, <1>2, <1>5, AcloseStep DEF CallInv, Aclose, AnswersOwn
<1>6. CASE \/ \E c \in Connections :
                Collect(c) \/ Greet(c) \/ ReadRequest(c) \/ Handle(c) \/ Reset(c)
           \/ \E v \in Servers :
                \/ Serve(v) \/ RegisterService(v) \/ ServeCancelled(v) \/ ServeLeaves(v)
                \/ UnregisterService(v) \/ Crash(v)
  <2>1. Calling' /\ UNCHANGED client
    BY <1>1, <1>6, ServerStep
  <2> QED  BY <1>1, <1>2, <2>1 DEF CallInv, client, AnswersOwn
<1> QED  BY <1>3, <1>4, <1>5, <1>6 DEF Next

\* The state of the client, of the connections and of the registration keeps its
\* shape.
THEOREM TypeCorrect == Spec => []TypeOK
<1>1. CallInv => TypeOK
  BY DEF CallInv
<1> QED  BY <1>1, CallInit, CallStep, PTL DEF Spec

\* A service call (_service_client.py) that returns a response returns that to
\* its own request: the lock gives the calls their turns on the stream, and what
\* is on its way on it belongs to the call that waits.
THEOREM AnswersOwnHolds == Spec => []AnswersOwn
<1>1. CallInv => AnswersOwn
  BY DEF CallInv
<1> QED  BY <1>1, CallInit, CallStep, PTL DEF Spec

-----------------------------------------------------------------------------
(* The registration.                                                        *)

\* Who has asked for its unregistration serves no more, and never will again.
Leaving ==
  \A v \in Servers :
    <<v, "unregister">> \in calls => serving[v] \in {"unregistering", "idle", "dead"}

RegistrationInv == serving \in [Servers -> ServerPoints] /\ Leaving /\ ServingListed

\* A step that changes where servers are, without the master's entry: those that
\* serve did before, and those that have ended stay so.
LEMMA ServingStep ==
  ASSUME RegistrationInv, UNCHANGED service, serving' \in [Servers -> ServerPoints],
         \A v \in Servers :
           /\ serving'[v] = "serving" => serving[v] = "serving"
           /\ serving[v] \in {"idle", "dead"} => serving'[v] \in {"idle", "dead"}
  PROVE  ServingListed'
  BY DEF RegistrationInv, ServingListed

\* Every step keeps the invariant.
LEMMA RegistrationStep == RegistrationInv /\ CallInv /\ [Next]_vars => RegistrationInv'
<1> SUFFICES ASSUME RegistrationInv, CallInv, [Next]_vars PROVE RegistrationInv'
  OBVIOUS
<1>0. serving \in [Servers -> ServerPoints]
  BY DEF RegistrationInv
<1>1. ASSUME UNCHANGED <<serving, service, calls>> PROVE RegistrationInv'
  BY <1>1 DEF RegistrationInv, Leaving, ServingListed
<1>2. ASSUME NEW v \in Servers, NodeGone(v), UNCHANGED <<service, calls>> PROVE RegistrationInv'
  <2>1. serving' = [serving EXCEPT ![v] = "dead"]
    BY <1>2 DEF NodeGone
  <2>2. serving' \in [Servers -> ServerPoints] /\ Leaving'
    BY <1>0, <1>2, <2>1 DEF RegistrationInv, Leaving, ServerPoints
  <2> QED  BY <1>0, <1>2, <2>1, <2>2, ServingStep DEF RegistrationInv
<1>3. ASSUME NEW k \in Callers,
             \/ Call(k) \/ Locked(k) \/ LookupService(k) \/ Connect(k) \/ Greeted(k) \/ Send(k)
             \/ Respond(k) \/ ReadError(k) \/ Incomplete(k) \/ Cancel(k)
      PROVE  RegistrationInv'
  BY <1>1, <1>3
     DEF Call, Locked, LookupService, Connect, Greeted, Send, Respond, ReadError, Incomplete,
         Cancel, registration
<1>4. ASSUME Aclose \/ UNCHANGED vars
                 \/ \E c \in Connections : Collect(c) \/ Greet(c) \/ ReadRequest(c) \/ Handle(c)
      PROVE  RegistrationInv'
  BY <1>1, <1>4 DEF Aclose, Collect, Greet, ReadRequest, Handle, registration, vars
<1>5. ASSUME NEW c \in Connections, Reset(c) PROVE RegistrationInv'
  <2>1. connections[c].server \in Servers
    BY <1>5 DEF Reset, CallInv, TypeOK, IsDict, Connection
  <2> QED  BY <1>2, <1>5, <2>1 DEF Reset
<1>6. ASSUME NEW v \in Servers, Crash(v) PROVE RegistrationInv'
  BY <1>2, <1>6 DEF Crash
<1>7. ASSUME NEW v \in Servers, Serve(v) \/ ServeCancelled(v) \/ ServeLeaves(v)
      PROVE  RegistrationInv'
  <2>1. /\ serving' \in [Servers -> ServerPoints] /\ UNCHANGED service
        /\ \A w \in Servers :
             /\ serving'[w] = "serving" => serving[w] = "serving"
             /\ serving[w] \in {"idle", "dead"} => serving'[w] \in {"idle", "dead"}
    BY <1>0, <1>7 DEF Serve, ServeCancelled, ServeLeaves, ServerPoints
  <2>2. Leaving'
    BY <1>0, <1>7 DEF Serve, ServeCancelled, ServeLeaves, RegistrationInv, Leaving
  <2> QED  BY <2>1, <2>2, ServingStep DEF RegistrationInv
<1>8. ASSUME NEW v \in Servers, RegisterService(v) PROVE RegistrationInv'
  <2>1. service' = v /\ calls' \subseteq calls
        /\ serving' = IF serving[v] = "registering" THEN [serving EXCEPT ![v] = "serving"]
                      ELSE serving
    BY <1>8 DEF RegisterService
  <2>2. serving' \in [Servers -> ServerPoints]
    BY <1>0, <2>1 DEF ServerPoints
  <2>3. Leaving'
    BY <1>0, <2>1 DEF RegistrationInv, Leaving
  <2>4. ServingListed'
    BY <2>1, NoneAssumption DEF ServingListed
  <2> QED  BY <2>2, <2>3, <2>4 DEF RegistrationInv
<1>9. ASSUME NEW v \in Servers, UnregisterService(v) PROVE RegistrationInv'
  <2>1. /\ <<v, "unregister">> \in calls /\ calls' \subseteq calls
        /\ serving' = IF serving[v] = "unregistering" THEN [serving EXCEPT ![v] = "idle"]
                      ELSE serving
    BY <1>9 DEF UnregisterService
  <2>2. serving' \in [Servers -> ServerPoints]
    BY <1>0, <2>1 DEF ServerPoints
  <2>3. serving'[v] \in {"idle", "dead"}
    BY <1>0, <2>1 DEF RegistrationInv, Leaving
  <2>4. Leaving'
    BY <1>0, <2>1 DEF RegistrationInv, Leaving
  <2>5. ServingListed'
    BY <2>3 DEF ServingListed
  <2> QED  BY <2>2, <2>4, <2>5 DEF RegistrationInv
<1> QED  BY <1>3, <1>4, <1>5, <1>6, <1>7, <1>8, <1>9 DEF Next

\* A server in serve (_service_server.py) is the service's entry at the master, or
\* the entry is another's, or the unregistration of another that has ended has
\* taken it away (unregister_service removes whoever is listed).
THEOREM ServingListedHolds == Spec => []ServingListed
<1>1. Init => RegistrationInv
  BY DEF Init, RegistrationInv, Leaving, ServingListed, ServerPoints
<1>2. RegistrationInv => ServingListed
  BY DEF RegistrationInv
<1> QED  BY <1>1, <1>2, CallInit, CallStep, RegistrationStep, PTL DEF Spec

-----------------------------------------------------------------------------
(* Without a disturbance: no call has been cancelled, no node has crashed and *)
(* no serve task has left the master out.                                   *)

Undisturbed == cuts = 0 /\ faults = 0

\* A call connects only if there is no stream, and sends on one whose server's
\* header it has read: a persistent client's on the stream that is kept.
Places ==
  /\ \A k \in Callers : at[k] = "greeting" => ~connections[uses[k]].read
  /\ \A k \in Callers : at[k] \in {"looking up", "connecting", "greeting"} => stream = None
  /\ \A k \in Callers :
       at[k] \in {"sending", "awaiting", "misreading"} =>
         connections[uses[k]].read /\ (persistent => uses[k] = stream)
  /\ stream # None => connections[stream].read

\* Whoever closes its end has read everything and left nothing behind, so that
\* it resets no connection.  A server that has been asked for nothing ends none
\* that it has not refused.
Fine(n) ==
  /\ ~n.open => n.read /\ n.point = "reading" /\ n.requests = << >> /\ n.replies = << >>
  /\ n.read => n.point \in {"reading", "handling", "closed"}
  /\ ~n.read => n.point \in {"greeting", "reading", "refused"} /\ n.requests = << >>

Accounted(c) ==
  connections[c].open =>
    \/ c = stream \/ \E k \in Callers : uses[k] = c
    \/ connections[c].point = "refused"

\* serve waits for the master.
Prompt ==
  /\ \A v \in Servers : <<v, "register">> \in calls => serving[v] = "registering"
  /\ \A v \in Servers : <<v, "unregister">> \in calls => serving[v] = "unregistering"
  /\ service # None => serving[service] \in {"serving", "unregistering"}

AllFine == \A c \in DOMAIN connections : Fine(connections[c])

Quiet == Places /\ AllFine /\ (\A c \in DOMAIN connections : Accounted(c)) /\ Prompt

QuietInv == Undisturbed => Quiet

\* A connection with a new state is fine if that is, or if both ends are closed.
LEMMA FineSet ==
  ASSUME TypeOK, AllFine, NEW c \in Connections, NEW n \in Connection, SetConnection(c, n),
         Fine(n) \/ (~n.open /\ Gone(n))
  PROVE  AllFine'
<1>1. /\ \A d \in DOMAIN connections' :
           IF d = c THEN connections'[d] = n
           ELSE d \in DOMAIN connections /\ connections'[d] = connections[d]
      /\ n.open \/ ~Gone(n) <=> c \in DOMAIN connections'
  BY ConnectionSet DEF TypeOK
<1> QED  BY <1>1 DEF AllFine

\* A step of the server's handler on one connection, or of the collector on one
\* that was refused.
LEMMA QuietHandler ==
  ASSUME CallInv, CallInv', Quiet, NEW c \in DOMAIN connections, NEW n \in Connection,
         SetConnection(c, n), UNCHANGED <<client, serving, service, calls>>,
         n.read = connections[c].read, Fine(n) \/ (~n.open /\ Gone(n)),
         n.open => connections[c].open /\ connections[c].point # "refused"
  PROVE  Quiet'
<1> USE DEF client
<1>1. c \in Connections /\ IsDict(connections, Connections, Connection)
  BY DEF CallInv, TypeOK, IsDict
<1>2. \A d \in DOMAIN connections' :
        IF d = c THEN connections'[d] = n
        ELSE d \in DOMAIN connections /\ connections'[d] = connections[d]
  BY <1>1, ConnectionSet
<1>3. AllFine'
  BY <1>1, FineSet DEF Quiet, CallInv
<1>4. Places'
  <2>1. \A k \in Callers : at[k] \in InFlight => uses[k] \in DOMAIN connections'
    BY DEF CallInv, Calling, Using
  <2>2. stream # None => stream \in DOMAIN connections'
    BY DEF CallInv, Calling, StreamKept
  <2> QED  BY <1>2, <2>1, <2>2 DEF Quiet, Places, InFlight
<1>5. \A d \in DOMAIN connections' : Accounted(d)'
  BY <1>2 DEF Quiet, Accounted
<1>6. Prompt'
  BY DEF Quiet, Prompt
<1> QED  BY <1>3, <1>4, <1>5, <1>6 DEF Quiet

\* Steps of the server and of the network.
LEMMA QuietServer ==
  ASSUME CallInv, CallInv', Quiet, Undisturbed, Undisturbed',
         \/ \E c \in Connections : Collect(c) \/ Greet(c) \/ ReadRequest(c) \/ Handle(c) \/ Reset(c)
         \/ \E v \in Servers :
              \/ Serve(v) \/ RegisterService(v) \/ ServeCancelled(v) \/ ServeLeaves(v)
              \/ UnregisterService(v) \/ Crash(v)
  PROVE  Quiet'
<1>0. /\ \A c \in DOMAIN connections : c \in Connections /\ connections[c] \in Connection
      /\ \A c \in DOMAIN connections : Fine(connections[c]) /\ Accounted(c)
      /\ serving \in [Servers -> ServerPoints]
  BY DEF CallInv, TypeOK, IsDict, Quiet, AllFine
<1>1. ASSUME NEW c \in Connections, Collect(c) PROVE Quiet'
  <2> DEFINE n == [connections[c] EXCEPT !.open = FALSE]
  <2>1. /\ c \in DOMAIN connections /\ connections[c] \in Connection /\ SetConnection(c, n)
        /\ connections[c].point = "refused"
        /\ UNCHANGED <<client, serving, service, calls>>
    BY <1>0, <1>1 DEF Collect, CloseEnd, Accounted, registration
  <2>2. n \in Connection /\ ~n.open /\ n.point = "refused" /\ n.read = connections[c].read
    BY <2>1 DEF Connection
  <2> HIDE DEF n
  <2> QED  BY <2>1, <2>2, QuietHandler DEF Gone
<1>2. ASSUME NEW c \in Connections, Greet(c) \/ ReadRequest(c) PROVE Quiet'
  <2>1. PICK point \in {"reading", "refused", "handling", "closed"} :
          /\ SetConnection(c, [connections[c] EXCEPT !.point = point])
          /\ \/ connections[c].point = "greeting" /\ point \in {"reading", "refused"}
             \/ /\ connections[c].point = "reading" /\ point = "handling"
                /\ connections[c].requests # << >>
             \/ connections[c].point = "reading" /\ point = "closed" /\ ~connections[c].open
    BY <1>2 DEF Greet, ReadRequest
  <2> DEFINE m == connections[c]
             n == [m EXCEPT !.point = point]
  <2>2. /\ c \in DOMAIN connections /\ m \in Connection /\ Fine(m)
        /\ UNCHANGED <<client, serving, service, calls>>
    BY <1>0, <1>2 DEF Greet, ReadRequest, registration
  <2>3. /\ n \in Connection /\ n.point = point /\ n.open = m.open /\ n.read = m.read
        /\ n.requests = m.requests /\ n.replies = m.replies
        /\ n.open \in BOOLEAN /\ n.read \in BOOLEAN
    BY <2>1, <2>2 DEF Connection
  <2>4. m.point # "refused"
    BY <2>1
  <2> HIDE DEF n, m
  <2>5. Fine(n) \/ (~n.open /\ Gone(n))
    BY <2>1, <2>2, <2>3 DEF Fine, Gone, m
  <2> QED  BY <2>1, <2>2, <2>3, <2>4, <2>5, QuietHandler DEF n, m
<1>3. ASSUME NEW c \in Connections, Handle(c) PROVE Quiet'
  <2>1. PICK ok \in BOOLEAN : Reply(c, ok)
    BY <1>3 DEF Handle
  <2> DEFINE m == connections[c]
             replies == Append(m.replies, <<Head(m.requests), ok>>)
             point == IF persistent THEN "reading" ELSE "closed"
             n == [m EXCEPT !.requests = Tail(m.requests), !.replies = replies, !.point = point]
  <2>2. /\ c \in DOMAIN connections /\ m \in Connection /\ Fine(m)
        /\ m.point = "handling" /\ m.requests # << >>
        /\ UNCHANGED <<client, serving, service, calls>>
    BY <1>0, <1>3 DEF Handle, CallInv, Calling, Requested, registration
  <2>3. n \in Connection
    BY <2>2, RequestReplied, ConnectionFields
  <2>4. SetConnection(c, n)
    BY <2>1 DEF Reply
  <2>5. n.point = point /\ n.open = m.open /\ n.read = m.read
    BY <2>3 DEF Connection
  <2>6. m.open /\ m.read
    BY <2>2 DEF Fine, Connection
  <2> HIDE DEF n
  <2>7. Fine(n)
    BY <2>5, <2>6 DEF Fine
  <2> QED  BY <2>2, <2>3, <2>4, <2>5, <2>6, <2>7, QuietHandler
<1>4. ASSUME NEW c \in Connections, Reset(c) PROVE FALSE
  BY <1>0, <1>4 DEF Reset, Fine
<1>5. ASSUME NEW v \in Servers, ServeLeaves(v) \/ Crash(v) PROVE FALSE
  BY <1>5 DEF ServeLeaves, Crash, Fault, Undisturbed
<1>6. ASSUME NEW v \in Servers,
             Serve(v) \/ RegisterService(v) \/ ServeCancelled(v) \/ UnregisterService(v)
      PROVE  Quiet'
  <2>1. UNCHANGED <<client, connections>>
    BY <1>6 DEF Serve, RegisterService, ServeCancelled, UnregisterService
  <2>2. Places' /\ AllFine' /\ \A c \in DOMAIN connections' : Accounted(c)'
    BY <2>1 DEF client, Quiet, Places, AllFine, Accounted
  <2>3. service \in Servers \cup {None} /\ Prompt
    BY DEF CallInv, TypeOK, Quiet
  <2>4. Prompt'
    <3>1. CASE Serve(v)
      BY <1>0, <2>3, <3>1 DEF Serve, Prompt
    <3>2. CASE RegisterService(v)
      BY <1>0, <2>3, <3>2 DEF RegisterService, Prompt
    <3>3. CASE ServeCancelled(v)
      BY <1>0, <2>3, <3>3 DEF ServeCancelled, Prompt
    <3>4. CASE UnregisterService(v)
      BY <1>0, <2>3, <3>4 DEF UnregisterService, Prompt
    <3> QED  BY <1>6, <3>1, <3>2, <3>3, <3>4
  <2> QED  BY <2>2, <2>4 DEF Quiet
<1> QED  BY <1>1, <1>2, <1>3, <1>4, <1>5, <1>6

\* The end of a call that leaves nothing behind on its connection.
LEMMA QuietEnd ==
  ASSUME CallInv, Quiet, NEW k \in Callers, at[k] \in {"sending", "awaiting", "misreading"},
         NEW n \in Connection, n.open, n.point = connections[uses[k]].point,
         n.read = connections[uses[k]].read, n.point = "handling" => n.requests # << >>,
         Clean(n, {}), End(k, n), UNCHANGED <<persistent, stream, serving, service, calls>>
  PROVE  Quiet'
<1> DEFINE c == uses[k]
           m == IF persistent THEN n ELSE [n EXCEPT !.open = FALSE]
<1>1. /\ c \in DOMAIN connections /\ c \in Connections /\ c # None
      /\ IsDict(connections, Connections, Connection)
      /\ \A d \in DOMAIN connections : d \in Connections
  BY NoneAssumption DEF CallInv, Calling, Using, InFlight, TypeOK, IsDict
<1>2. \A j \in Callers : j # k => ~Busy(j) /\ at[j] \notin InFlight /\ uses[j] = None
  BY Alone DEF CallInv, Busy
<1>3. m \in Connection /\ SetConnection(c, m)
  BY ConnectionFields, NothingSent DEF End
<1>4. m.point = n.point /\ m.requests = n.requests /\ m.replies = n.replies /\ m.read = n.read
      /\ m.open = persistent
  <2>1. n.open = TRUE /\ persistent \in BOOLEAN
    BY DEF Connection, CallInv, TypeOK
  <2> QED  BY <2>1 DEF Connection
<1>5. /\ at' = [at EXCEPT ![k] = "ended"] /\ uses' = [uses EXCEPT ![k] = None]
      /\ at \in [Callers -> Points] /\ uses \in [Callers -> Connections \cup {None}]
  BY DEF End, GoTo, CallInv, TypeOK
<1>6. n.read /\ n.point \in {"reading", "handling", "closed"} /\ (persistent => c = stream)
  BY <1>1 DEF Quiet, Places, AllFine, Fine
<1>7. n.replies = << >> /\ (~Gone(n) => n.requests = << >>)
  BY CleanForNone
<1> HIDE DEF c, m
<1>8. Fine(m) \/ (~m.open /\ Gone(m))
  BY <1>4, <1>6, <1>7 DEF Fine, Gone
<1>9. AllFine'
  BY <1>1, <1>3, <1>8, FineSet DEF Quiet, CallInv
<1>10. \A d \in DOMAIN connections' :
         IF d = c THEN connections'[d] = m
         ELSE d \in DOMAIN connections /\ connections'[d] = connections[d]
  BY <1>1, <1>3, ConnectionSet
<1>11. \A j \in Callers : ~Busy(j)' /\ uses'[j] = None
  BY <1>2, <1>5 DEF Busy
<1>12. stream # None => connections'[stream].read
  <2>1. SUFFICES ASSUME stream # None PROVE connections'[stream].read
    OBVIOUS
  <2>2. stream \in DOMAIN connections /\ connections[stream].read
    BY <2>1 DEF CallInv, Calling, StreamKept, Quiet, Places
  <2>3. stream = c => m.open
    BY <1>4, <2>1 DEF CallInv, Calling, StreamKept
  <2>4. stream \in DOMAIN connections'
    BY <1>1, <1>3, <2>2, <2>3, ConnectionSet
  <2> QED  BY <1>4, <1>6, <1>10, <2>2, <2>4
<1>13. Places'
  BY <1>11, <1>12 DEF Places, Busy
<1>14. \A d \in DOMAIN connections' : Accounted(d)'
  <2>1. \A d \in DOMAIN connections : d # c => \A j \in Callers : uses[j] # d
    BY <1>1, <1>2, NoneAssumption DEF c
  <2> QED  BY <1>4, <1>6, <1>10, <2>1 DEF Quiet, Accounted
<1> QED  BY <1>9, <1>13, <1>14 DEF Quiet, Prompt

\* A connection that a call uses gets a request, loses its replies or is read.
LEMMA QuietUse ==
  ASSUME CallInv, Quiet, NEW k \in Callers, at[k] \in {"sending", "awaiting", "misreading"},
         NEW point \in {"awaiting", "misreading"}, GoTo(k, point),
         NEW n, n.open, n.point = connections[uses[k]].point, n.read = connections[uses[k]].read,
         connections' = Put(connections, uses[k], n),
         UNCHANGED <<persistent, uses, stream, serving, service, calls>>
  PROVE  Quiet'
<1> DEFINE c == uses[k]
<1>1. /\ c \in DOMAIN connections /\ connections[c].read /\ (persistent => c = stream)
      /\ at' = [at EXCEPT ![k] = point] /\ at \in [Callers -> Points]
      /\ connections[c].point \in {"reading", "handling", "closed"}
  BY DEF CallInv, Calling, Using, InFlight, TypeOK, GoTo, Quiet, Places, AllFine, Fine
<1>2. /\ DOMAIN connections' = DOMAIN connections /\ connections'[c] = n
      /\ \A d \in DOMAIN connections : d # c => connections'[d] = connections[d]
  BY <1>1 DEF Put
<1>3. Fine(n)
  BY <1>1 DEF Fine
<1>4. AllFine'
  BY <1>2, <1>3 DEF Quiet, AllFine
<1>5. Places'
  <2>1. /\ \A j \in Callers : at[j] \in InFlight => uses[j] \in DOMAIN connections
        /\ stream # None => stream \in DOMAIN connections
    BY DEF CallInv, Calling, Using, StreamKept
  <2>2. \A d \in DOMAIN connections : connections'[d].read = connections[d].read
    BY <1>2
  <2> QED  BY <1>1, <2>1, <2>2 DEF Quiet, Places, InFlight
<1>6. \A d \in DOMAIN connections' : Accounted(d)'
  BY <1>1, <1>2 DEF Quiet, Accounted
<1> QED  BY <1>4, <1>5, <1>6 DEF Quiet, Prompt

\* Steps of the calls.
LEMMA QuietClient ==
  ASSUME CallInv, Quiet, Undisturbed, Undisturbed', NEW k \in Callers,
         \/ Call(k) \/ Locked(k) \/ LookupService(k) \/ Connect(k) \/ Greeted(k) \/ Send(k)
         \/ Respond(k) \/ ReadError(k) \/ Incomplete(k) \/ Cancel(k)
  PROVE  Quiet'
<1> USE DEF registration
<1> DEFINE c == uses[k]
           n == connections[c]
<1>0. /\ \A d \in DOMAIN connections : d \in Connections /\ connections[d] \in Connection
      /\ at \in [Callers -> Points] /\ uses \in [Callers -> Connections \cup {None}]
      /\ persistent \in BOOLEAN /\ cuts = 0
      /\ Places /\ AllFine /\ Prompt /\ \A d \in DOMAIN connections : Accounted(d)
  BY DEF CallInv, TypeOK, IsDict, Quiet, Undisturbed
<1>1. ASSUME at[k] \in {"sending", "awaiting", "misreading"}
      PROVE  /\ c \in DOMAIN connections /\ n \in Connection /\ n.open
             /\ n.point = "handling" => n.requests # << >>
             /\ at[k] = "sending" => Clean(n, {})
             /\ at[k] # "sending" => Clean(n, {k})
  <2>1. c \in DOMAIN connections /\ n.open
    BY <1>1 DEF CallInv, Calling, Using, InFlight
  <2>2. \A j \in Callers : j # k => at[j] \notin InFlight
    BY <1>1, Alone DEF CallInv, Busy
  <2>3. Waiting(c) = IF at[k] = "sending" THEN {} ELSE {k}
    BY <1>1, <2>2 DEF Waiting, InFlight
  <2>4. ~(cuts > 0)
    BY <1>0
  <2> QED  BY <1>0, <1>1, <2>1, <2>3, <2>4 DEF CallInv, Calling, Requested, Separate
<1>2. ASSUME UNCHANGED <<persistent, uses, connections, stream, registration>>,
             NEW point \in Points, GoTo(k, point),
             point \notin {"greeting", "sending", "awaiting", "misreading"},
             point \in {"looking up", "connecting"} => stream = None
      PROVE  Quiet'
  <2>1. Places'
    BY <1>0, <1>2 DEF Places, GoTo
  <2> QED  BY <1>0, <1>2, <2>1 DEF Quiet, AllFine, Accounted, Prompt
<1>3. CASE Call(k)
  BY <1>2, <1>3 DEF Call, Points
<1>4. CASE Locked(k)
  <2>1. CASE stream = None
    BY <1>2, <1>4, <2>1 DEF Locked, Points
  <2>2. CASE stream # None
    <3>1. /\ at' = [at EXCEPT ![k] = "sending"] /\ uses' = [uses EXCEPT ![k] = stream]
          /\ UNCHANGED <<persistent, stream, connections, registration>>
          /\ \A j \in Callers : ~Busy(j) /\ uses[j] = None
      BY <1>4, <2>2, NobodyUses DEF Locked, GoTo, CallInv
    <3>2. Places'
      BY <1>0, <2>2, <3>1 DEF Places, Busy
    <3>3. \A d \in DOMAIN connections : \A j \in Callers : uses[j] # d
      BY <1>0, <3>1, NoneAssumption
    <3> QED  BY <1>0, <3>1, <3>2, <3>3 DEF Quiet, AllFine, Accounted, Prompt
  <2> QED  BY <2>1, <2>2
<1>5. CASE LookupService(k)
  <2>1. stream = None
    BY <1>0, <1>5 DEF LookupService, Places
  <2> QED  BY <1>2, <1>5, <2>1 DEF LookupService, Points
<1>6. CASE Connect(k)
  <2>1. CASE serving[target[k]] = "dead"
    BY <1>2, <1>6, <2>1 DEF Connect, Points
  <2>2. CASE serving[target[k]] # "dead"
    <3>1. PICK d \in Connections \ DOMAIN connections :
            /\ uses' = [uses EXCEPT ![k] = d]
            /\ connections' = Put(connections, d,
                 [server |-> target[k], open |-> TRUE, read |-> FALSE, point |-> "greeting",
                  requests |-> << >>, replies |-> << >>])
            /\ at' = [at EXCEPT ![k] = "greeting"]
      BY <1>6, <2>2 DEF Connect, GoTo
    <3>2. /\ DOMAIN connections' = DOMAIN connections \cup {d}
          /\ \A e \in DOMAIN connections : connections'[e] = connections[e]
          /\ connections'[d].open /\ connections'[d].point = "greeting"
          /\ ~connections'[d].read /\ connections'[d].requests = << >>
      BY <3>1 DEF Put
    <3>3. /\ \A j \in Callers : j # k => ~Busy(j) /\ uses[j] = None
          /\ at[k] = "connecting" /\ stream = None /\ UNCHANGED <<stream, persistent, registration>>
      BY <1>0, <1>6, Alone DEF CallInv, Connect, Busy, Places
    <3>4. uses[k] = None
      BY <3>3 DEF CallInv, Calling, Using, InFlight
    <3>5. AllFine'
      <4>1. Fine(connections'[d])
        BY <3>2 DEF Fine
      <4> QED  BY <1>0, <3>2, <4>1 DEF AllFine
    <3>6. Places'
      BY <1>0, <3>1, <3>2, <3>3 DEF Places, Busy
    <3>7. \A e \in DOMAIN connections' : Accounted(e)'
      <4>1. uses'[k] = d
        BY <1>0, <3>1
      <4>2. \A e \in DOMAIN connections : \A j \in Callers : uses[j] # e
        BY <1>0, <3>3, <3>4, NoneAssumption
      <4> QED  BY <1>0, <3>2, <3>3, <4>1, <4>2 DEF Accounted
    <3> QED  BY <1>0, <3>3, <3>5, <3>6, <3>7 DEF Quiet, Prompt
  <2> QED  BY <2>1, <2>2
<1>7. CASE Greeted(k)
  <2>1. /\ at[k] = "greeting" /\ stream = None /\ UNCHANGED <<persistent, registration>>
        /\ c \in DOMAIN connections /\ n \in Connection /\ n.open /\ n.point # "greeting"
        /\ \A j \in Callers : j # k => ~Busy(j) /\ uses[j] = None
    BY <1>0, <1>7, Alone DEF Greeted, Places, CallInv, Calling, Using, InFlight, Busy
  <2>2. CASE Gone(n)
    <3>1. /\ at' = [at EXCEPT ![k] = "ended"] /\ uses' = [uses EXCEPT ![k] = None]
          /\ UNCHANGED <<stream, connections>>
      BY <1>7, <2>2 DEF Greeted, GoTo
    <3>2. Places'
      BY <1>0, <2>1, <3>1 DEF Places, Busy
    <3>3. n.point = "refused"
      <4>1. ~n.read
        BY <1>0, <2>1 DEF Places
      <4> QED  BY <1>0, <2>1, <2>2, <4>1 DEF AllFine, Fine, Gone
    <3>4. \A d \in DOMAIN connections : \A j \in Callers : uses[j] = d => d = c
      BY <1>0, <2>1, NoneAssumption
    <3>5. \A d \in DOMAIN connections' : Accounted(d)'
      BY <1>0, <3>1, <3>3, <3>4 DEF Accounted
    <3> QED  BY <1>0, <2>1, <3>1, <3>2, <3>5 DEF Quiet, AllFine, Prompt
  <2>3. CASE ~Gone(n)
    <3>1. /\ at' = [at EXCEPT ![k] = "sending"]
          /\ stream' = IF persistent THEN c ELSE stream
          /\ connections' = [connections EXCEPT ![c].read = TRUE]
          /\ UNCHANGED uses
      BY <1>7, <2>3 DEF Greeted, GoTo
    <3>2. /\ DOMAIN connections' = DOMAIN connections
          /\ \A d \in DOMAIN connections : d # c => connections'[d] = connections[d]
          /\ connections'[c].open /\ connections'[c].read /\ connections'[c].point = n.point
      BY <2>1, <3>1 DEF Connection
    <3>3. AllFine'
      <4>1. n.point \in {"reading", "handling"}
        BY <2>1, <2>3 DEF Gone, Connection
      <4>2. Fine(connections'[c])
        BY <3>2, <4>1 DEF Fine
      <4> QED  BY <1>0, <3>2, <4>2 DEF AllFine
    <3>4. Places'
      BY <1>0, <2>1, <3>1, <3>2 DEF Places, Busy
    <3>5. \A d \in DOMAIN connections' : Accounted(d)'
      <4>1. \A d \in DOMAIN connections : d # stream
        BY <1>0, <2>1, NoneAssumption
      <4> QED  BY <1>0, <3>1, <3>2, <4>1 DEF Accounted
    <3> QED  BY <1>0, <2>1, <3>3, <3>4, <3>5 DEF Quiet, Prompt
  <2> QED  BY <2>2, <2>3
<1>8. CASE Send(k)
  <2>1. at[k] = "sending" /\ UNCHANGED <<persistent, stream, registration>>
    BY <1>8 DEF Send
  <2>2. CASE End(k, n)
    BY <1>1, <2>1, <2>2, QuietEnd
  <2>3. CASE ~End(k, n)
    <3>1. /\ GoTo(k, "awaiting") /\ UNCHANGED uses
          /\ connections' = IF n.point = "closed" THEN connections
                            ELSE Put(connections, c, [n EXCEPT !.requests = Append(@, k)])
      BY <1>8, <2>3 DEF Send
    <3> DEFINE m == IF n.point = "closed" THEN n ELSE [n EXCEPT !.requests = Append(@, k)]
    <3>2. m.open /\ m.point = n.point /\ m.read = n.read
      BY <1>1, <2>1 DEF Connection
    <3>3. connections' = Put(connections, c, m)
      <4>1. Put(connections, c, n) = connections
        <5>1. connections = [d \in DOMAIN connections |-> connections[d]]
          BY DEF CallInv, TypeOK, IsDict
        <5>2. DOMAIN connections \cup {c} = DOMAIN connections
          BY <1>1, <2>1
        <5> QED  BY <5>1, <5>2 DEF Put
      <4> QED  BY <3>1, <4>1
    <3> HIDE DEF m
    <3> QED  BY <2>1, <3>1, <3>2, <3>3, QuietUse
  <2> QED  BY <2>2, <2>3
<1>9. CASE Respond(k)
  <2>1. /\ at[k] = "awaiting" /\ n.replies # << >>
        /\ UNCHANGED <<persistent, stream, registration>>
    BY <1>9 DEF Respond
  <2>2. PICK rest \in {Tail(n.replies), << >>} : End(k, [n EXCEPT !.replies = rest])
    BY <1>9 DEF Respond
  <2>3. rest \in Seq(Callers \X BOOLEAN)
    BY <1>1, <2>1, ReplyRead
  <2> DEFINE m == [n EXCEPT !.replies = rest]
  <2>4. m \in Connection
    BY <1>1, <2>1, <2>3, ConnectionFields, NothingSent
  <2>5. /\ m.open = n.open /\ m.point = n.point /\ m.read = n.read /\ m.requests = n.requests
        /\ m.replies = rest
    BY <1>1, <2>1 DEF Connection
  <2>6. Clean(m, {})
    <3>1. n \in Connection /\ Clean(n, {k})
      BY <1>1, <2>1
    <3> HIDE DEF m
    <3> QED  BY <2>1, <2>2, <2>5, <3>1, OneReplyRead
  <2> HIDE DEF m
  <2> QED  BY <1>1, <2>1, <2>2, <2>4, <2>5, <2>6, QuietEnd DEF m
<1>10. CASE ReadError(k)
  <2>1. /\ at[k] \in {"awaiting", "misreading"} /\ GoTo(k, "misreading")
        /\ connections' = Put(connections, c, [n EXCEPT !.replies = << >>])
        /\ UNCHANGED <<persistent, uses, stream, registration>>
    BY <1>10 DEF ReadError
  <2> DEFINE m == [n EXCEPT !.replies = << >>]
  <2>2. m.open /\ m.point = n.point /\ m.read = n.read
    BY <1>1, <2>1 DEF Connection
  <2> HIDE DEF m
  <2> QED  BY <2>1, <2>2, QuietUse DEF m
<1>11. CASE Incomplete(k)
  <2>1. /\ at[k] \in {"awaiting", "misreading"} /\ n.point = "closed" /\ n.replies = << >>
        /\ End(k, n) /\ UNCHANGED <<persistent, stream, registration>>
    BY <1>11 DEF Incomplete
  <2>2. Clean(n, {})
    <3>1. Len(<< >>) <= 1 /\ DOMAIN << >> = {}
      OBVIOUS
    <3> QED  BY <2>1, <3>1 DEF Clean, Gone
  <2> QED  BY <1>1, <2>1, <2>2, QuietEnd
<1>12. CASE Cancel(k)
  BY <1>0, <1>12 DEF Cancel, Undisturbed
<1> QED  BY <1>3, <1>4, <1>5, <1>6, <1>7, <1>8, <1>9, <1>10, <1>11, <1>12

\* aclose closes a stream with nothing on its way.
LEMMA QuietAclose ==
  ASSUME CallInv, Quiet, Undisturbed, Aclose PROVE Quiet'
<1> DEFINE m == connections[stream]
           n == [m EXCEPT !.open = FALSE]
<1>1. /\ stream \in DOMAIN connections /\ stream \in Connections /\ m \in Connection
      /\ m.read /\ Fine(m) /\ (m.point = "handling" => m.requests # << >>)
  BY DEF Aclose, CallInv, Calling, StreamKept, Requested, TypeOK, IsDict, Quiet, Places, AllFine
<1>2. n \in Connection /\ SetConnection(stream, n)
  BY <1>1, ConnectionFields, NothingSent DEF Aclose, CloseEnd
<1>3. /\ n.point = m.point /\ n.requests = m.requests /\ n.replies = m.replies
      /\ n.read = m.read /\ ~n.open
  BY <1>1 DEF Connection
<1>4. /\ \A k \in Callers : ~Busy(k) /\ at[k] \notin InFlight /\ uses[k] = None
      /\ stream' = None /\ UNCHANGED <<persistent, at, uses, serving, service, calls>>
  BY NobodyUses DEF Aclose, CallInv, registration
<1>5. Clean(m, {})
  <2>1. Waiting(stream) = {}
    BY <1>4 DEF Waiting, InFlight
  <2>2. ~(cuts > 0)
    BY DEF Undisturbed
  <2> QED  BY <1>1, <2>1, <2>2 DEF CallInv, Calling, Separate
<1>6. m.replies = << >> /\ (~Gone(m) => m.requests = << >>)
  BY <1>1, <1>5, CleanForNone
<1> HIDE DEF m, n
<1>7. Fine(n) \/ (~n.open /\ Gone(n))
  BY <1>1, <1>3, <1>6 DEF Fine, Gone
<1>8. AllFine'
  BY <1>1, <1>2, <1>7, FineSet DEF Quiet, CallInv
<1>9. \A d \in DOMAIN connections' :
        IF d = stream THEN connections'[d] = n
        ELSE d \in DOMAIN connections /\ connections'[d] = connections[d]
  BY <1>1, <1>2, ConnectionSet DEF CallInv, TypeOK
<1>10. Places'
  BY <1>4 DEF Places, Busy
<1>11. \A d \in DOMAIN connections' : Accounted(d)'
  BY <1>3, <1>4, <1>9 DEF Quiet, Accounted
<1> QED  BY <1>4, <1>8, <1>10, <1>11 DEF Quiet, Prompt

\* Every step keeps the invariant.
LEMMA QuietStep == QuietInv /\ CallInv /\ [Next]_vars => QuietInv'
<1> SUFFICES ASSUME QuietInv, CallInv, [Next]_vars, Undisturbed' PROVE Quiet'
  BY DEF QuietInv
<1>1. CallInv'
  BY CallStep
<1>2. cuts \in Nat /\ faults \in Nat
  BY DEF CallInv, TypeOK
<1>3. CASE UNCHANGED vars
  BY <1>3
     DEF vars, client, registration, QuietInv, Undisturbed, Quiet, Places, AllFine, Accounted,
         Prompt
<1>4. ASSUME NEW k \in Callers,
             \/ Call(k) \/ Locked(k) \/ LookupService(k) \/ Connect(k) \/ Greeted(k) \/ Send(k)
             \/ Respond(k) \/ ReadError(k) \/ Incomplete(k) \/ Cancel(k)
      PROVE  Quiet'
  <2>1. faults' = faults /\ cuts' \in {cuts, cuts + 1}
    BY <1>4
       DEF Call, Locked, LookupService, Connect, Greeted, Send, Respond, ReadError, Incomplete,
           Cancel, registration
  <2>2. Undisturbed
    BY <1>2, <2>1 DEF Undisturbed
  <2> QED  BY <1>4, <2>2, QuietClient DEF QuietInv
<1>5. CASE Aclose
  <2>1. Undisturbed
    BY <1>5 DEF Aclose, registration, Undisturbed
  <2> QED  BY <1>5, <2>1, QuietAclose DEF QuietInv
<1>6. CASE \/ \E c \in Connections :
                Collect(c) \/ Greet(c) \/ ReadRequest(c) \/ Handle(c) \/ Reset(c)
           \/ \E v \in Servers :
                \/ Serve(v) \/ RegisterService(v) \/ ServeCancelled(v) \/ ServeLeaves(v)
                \/ UnregisterService(v) \/ Crash(v)
  <2>1. cuts' = cuts /\ faults' \in {faults, faults + 1}
    <3>1. ASSUME NEW c \in Connections,
                 Collect(c) \/ Greet(c) \/ ReadRequest(c) \/ Handle(c) \/ Reset(c)
          PROVE  cuts' = cuts /\ faults' = faults
      BY <3>1 DEF Collect, Greet, ReadRequest, Handle, Reset, client, registration
    <3>2. ASSUME NEW v \in Servers,
                 \/ Serve(v) \/ RegisterService(v) \/ ServeCancelled(v) \/ ServeLeaves(v)
                 \/ UnregisterService(v) \/ Crash(v)
          PROVE  cuts' = cuts /\ faults' \in {faults, faults + 1}
      BY <3>2
         DEF Serve, RegisterService, ServeCancelled, ServeLeaves, UnregisterService, Crash, Fault,
             client
    <3> QED  BY <1>6, <3>1, <3>2
  <2>2. Undisturbed
    BY <1>2, <2>1 DEF Undisturbed
  <2> QED  BY <1>1, <1>6, <2>2, QuietServer DEF QuietInv
<1> QED  BY <1>3, <1>4, <1>5, <1>6 DEF Next

LEMMA QuietInvariant == Spec => [](CallInv /\ QuietInv)
<1>1. Init => QuietInv
  BY DEF Init, EmptyDict, QuietInv, Quiet, Places, AllFine, Accounted, Prompt
<1> QED  BY <1>1, CallInit, CallStep, QuietStep, PTL DEF Spec

\* What the client (_service_client.py) leaves open is its stream, the connection
\* of a call, or one whose header was refused; any other is due to a call that was
\* cancelled or to a crash.
THEOREM ConnectionsAccountedHolds == Spec => []ConnectionsAccounted
<1>1. CallInv /\ QuietInv => ConnectionsAccounted
  <2>1. CallInv => (cuts > 0 \/ cuts = 0) /\ (faults > 0 \/ faults = 0)
    BY DEF CallInv, TypeOK
  <2> QED  BY <2>1 DEF QuietInv, Undisturbed, Quiet, Accounted, ConnectionsAccounted
<1> QED  BY <1>1, QuietInvariant, PTL

\* The server the master lists is in serve (_service_server.py) or has asked for
\* its unregistration, as long as every call ran to its end, serve waited for the
\* master and no node crashed: nothing else resets a connection under a handler
\* and takes its node down.
THEOREM ListedServesHolds == Spec => []ListedServes
<1>1. QuietInv => ListedServes
  BY DEF QuietInv, Undisturbed, Quiet, Prompt, ListedServes
<1> QED  BY <1>1, QuietInvariant, PTL
=============================================================================
