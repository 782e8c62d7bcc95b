----------------------------- MODULE ServiceCall -----------------------------
(***************************************************************************)
(* A service (src/aioros/_node/_tcpros/_service_client.py and               *)
(* _service_server.py): the calls of one client object, persistent or not,  *)
(* the nodes that serve the service, and the master's entry for it.  Calls  *)
(* take turns with the client's lock; a node handles each connection in a   *)
(* task of its own.  Callers, handlers and serve tasks interleave wherever  *)
(* the code awaits; calls are cancelled, handlers raise and nodes crash.    *)
(***************************************************************************)
EXTENDS Naturals, Sequences, PyDict

CONSTANTS
  Callers,      \* tasks with one call each; a request is its caller
  Servers,      \* nodes that serve the service
  Connections,  \* bound: TCP connections
  None,
  MaxCuts,      \* bound: calls that are cancelled
  MaxErrors,    \* bound: requests whose handler raises
  MaxFaults     \* bound: crashes, and serve tasks that leave the master out

ASSUME NoneAssumption == None \notin Callers \cup Servers \cup Connections
ASSUME BoundsAssumption == MaxCuts \in Nat /\ MaxErrors \in Nat /\ MaxFaults \in Nat

VARIABLES
  persistent,   \* which class of client it is
  at,           \* caller |-> where its call is
  uses,         \* caller |-> the connection its call uses
  target,       \* caller |-> the server the master has named
  answer,       \* caller |-> the request whose response it returned
  stream,       \* _client_stream
  connections,  \* Connections |-> its two ends and what is on its way
  serving,      \* server |-> where its serve task is
  service,      \* the server the master lists
  calls,        \* <<server, method>>: calls the master has not handled
  cuts, errors, faults

client == <<persistent, at, uses, target, answer, stream, cuts>>
registration == <<serving, service, calls, faults>>
vars == <<client, connections, registration, errors>>

Points == {"new", "locking", "looking up", "connecting", "greeting", "sending",
           "awaiting", "misreading", "ended"}
ServerPoints == {"new", "registering", "serving", "unregistering", "idle", "dead"}

\* open: the client's end; read: the client has read the server's header;
\* point: the server's handler.
Connection == [server : Servers, open : BOOLEAN, read : BOOLEAN,
               point : {"greeting", "reading", "handling", "refused", "closed"},
               requests : Seq(Callers), replies : Seq(Callers \X BOOLEAN)]

TypeOK ==
  /\ persistent \in BOOLEAN
  /\ at \in [Callers -> Points]
  /\ uses \in [Callers -> Connections \cup {None}]
  /\ target \in [Callers -> Servers \cup {None}]
  /\ answer \in [Callers -> Callers \cup {None}]
  /\ stream \in Connections \cup {None}
  /\ IsDict(connections, Connections, Connection)
  /\ serving \in [Servers -> ServerPoints]
  /\ service \in Servers \cup {None}
  /\ calls \subseteq Servers \X {"register", "unregister"}
  /\ cuts \in 0..MaxCuts /\ errors \in 0..MaxErrors /\ faults \in 0..MaxFaults

Init ==
  /\ persistent \in BOOLEAN
  /\ at = [k \in Callers |-> "new"]
  /\ uses = [k \in Callers |-> None]
  /\ target = [k \in Callers |-> None]
  /\ answer = [k \in Callers |-> None]
  /\ stream = None
  /\ connections = EmptyDict
  /\ serving = [v \in Servers |-> "new"]
  /\ service = None
  /\ calls = {}
  /\ cuts = 0 /\ errors = 0 /\ faults = 0

-----------------------------------------------------------------------------
GoTo(k, point) == at' = [at EXCEPT ![k] = point]

LockFree == \A k \in Callers : at[k] \in {"new", "locking", "ended"}

Fault == faults < MaxFaults /\ faults' = faults + 1

Gone(connection) == connection.point \in {"refused", "closed"}

\* A connection is gone when both of its ends are closed.
SetConnection(c, connection) ==
  connections' = IF ~connection.open /\ Gone(connection)
                 THEN Drop(connections, c) ELSE Put(connections, c, connection)

CloseEnd(c) == SetConnection(c, [connections[c] EXCEPT !.open = FALSE])

\* Mutant: no call closes its connection.
EndKeepingConnection(k, connection) ==
  /\ GoTo(k, "ended")
  /\ uses' = [uses EXCEPT ![k] = None]
  /\ SetConnection(uses[k], connection)

\* A call with a stream ends, in whatever way: a persistent client keeps it.
End(k, connection) ==
  /\ GoTo(k, "ended")
  /\ uses' = [uses EXCEPT ![k] = None]
  /\ IF persistent THEN SetConnection(uses[k], connection)
     ELSE SetConnection(uses[k], [connection EXCEPT !.open = FALSE])

-----------------------------------------------------------------------------
(* The client                                                               *)

Call(k) ==
  /\ at[k] = "new"
  /\ GoTo(k, "locking")
  /\ UNCHANGED <<persistent, uses, target, answer, stream, cuts, connections, registration, errors>>

\* Mutant: a call of a persistent client that has its stream takes no lock.
LockedUnlessPersistent(k) ==
  /\ at[k] = "locking" /\ (stream # None \/ LockFree)
  /\ IF stream = None THEN GoTo(k, "looking up") /\ UNCHANGED uses
     ELSE GoTo(k, "sending") /\ uses' = [uses EXCEPT ![k] = stream]
  /\ UNCHANGED <<persistent, target, answer, stream, cuts, connections, registration, errors>>

\* A persistent client uses the stream it has, whatever has become of it.
Locked(k) ==
  /\ at[k] = "locking" /\ LockFree
  /\ IF stream = None THEN GoTo(k, "looking up") /\ UNCHANGED uses
     ELSE GoTo(k, "sending") /\ uses' = [uses EXCEPT ![k] = stream]
  /\ UNCHANGED <<persistent, target, answer, stream, cuts, connections, registration, errors>>

\* An unknown service raises.
LookupService(k) ==
  /\ at[k] = "looking up"
  /\ target' = [target EXCEPT ![k] = service]
  /\ GoTo(k, IF service = None THEN "ended" ELSE "connecting")
  /\ UNCHANGED <<persistent, uses, answer, stream, cuts, connections, registration, errors>>

\* A server that is gone refuses the connection, which raises.
Connect(k) ==
  /\ at[k] = "connecting"
  /\ \/ /\ serving[target[k]] = "dead"
        /\ GoTo(k, "ended")
        /\ UNCHANGED <<uses, connections>>
     \/ /\ serving[target[k]] # "dead"
        /\ \E c \in Connections \ DOMAIN connections :
             /\ uses' = [uses EXCEPT ![k] = c]
             /\ connections' = Put(connections, c,
                  [server |-> target[k], open |-> TRUE, read |-> FALSE, point |-> "greeting",
                   requests |-> << >>, replies |-> << >>])
        /\ GoTo(k, "greeting")
  /\ UNCHANGED <<persistent, target, answer, stream, cuts, registration, errors>>

\* The server's header; an error in it, or the end of the stream, raises and
\* leaves the client's end to the garbage collector.
Greeted(k) ==
  /\ at[k] = "greeting" /\ connections[uses[k]].point # "greeting"
  /\ IF Gone(connections[uses[k]])
     THEN /\ GoTo(k, "ended")
          /\ uses' = [uses EXCEPT ![k] = None]
          /\ UNCHANGED <<stream, connections>>
     ELSE /\ GoTo(k, "sending")
          /\ stream' = IF persistent THEN uses[k] ELSE stream
          /\ connections' = [connections EXCEPT ![uses[k]].read = TRUE]
          /\ UNCHANGED uses
  /\ UNCHANGED <<persistent, target, answer, cuts, registration, errors>>

\* The request is sent.  To a server that is gone it raises or is lost.
Send(k) ==
  /\ at[k] = "sending"
  /\ LET connection == connections[uses[k]]
     IN \/ /\ connection.point = "closed"
           /\ End(k, connection)
        \/ /\ GoTo(k, "awaiting")
           /\ connections' = IF connection.point = "closed" THEN connections
                             ELSE Put(connections, uses[k],
                                      [connection EXCEPT !.requests = Append(@, k)])
           /\ UNCHANGED uses
  /\ UNCHANGED <<persistent, target, answer, stream, cuts, registration, errors>>

\* A response.  What has arrived behind it is lost with the call's buffer or not.
Respond(k) ==
  /\ at[k] = "awaiting" /\ connections[uses[k]].replies # << >>
  /\ LET connection == connections[uses[k]]
     IN /\ Head(connection.replies)[2]
        /\ answer' = [answer EXCEPT ![k] = Head(connection.replies)[1]]
        /\ \E rest \in {Tail(connection.replies), << >>} :
             End(k, [connection EXCEPT !.replies = rest])
  /\ UNCHANGED <<persistent, target, stream, cuts, registration, errors>>

\* An error: its text has no length, and is read as two of them.  As many bytes
\* never come; what comes is taken for a part of them.
ReadError(k) ==
  /\ at[k] \in {"awaiting", "misreading"}
  /\ LET connection == connections[uses[k]]
     IN /\ connection.replies # << >>
        /\ at[k] = "awaiting" => ~Head(connection.replies)[2]
        /\ connections' = Put(connections, uses[k], [connection EXCEPT !.replies = << >>])
  /\ GoTo(k, "misreading")
  /\ UNCHANGED <<persistent, uses, target, answer, stream, cuts, registration, errors>>

\* The stream ends before a response does: IncompleteRead.
Incomplete(k) ==
  /\ at[k] \in {"awaiting", "misreading"}
  /\ connections[uses[k]].point = "closed" /\ connections[uses[k]].replies = << >>
  /\ End(k, connections[uses[k]])
  /\ UNCHANGED <<persistent, target, answer, stream, cuts, registration, errors>>

\* The caller is cancelled.  A connection without its stream is left behind.
Cancel(k) ==
  /\ at[k] \notin {"new", "ended"} /\ cuts < MaxCuts
  /\ cuts' = cuts + 1
  /\ IF at[k] \in {"sending", "awaiting", "misreading"} THEN End(k, connections[uses[k]])
     ELSE GoTo(k, "ended") /\ uses' = [uses EXCEPT ![k] = None] /\ UNCHANGED connections
  /\ UNCHANGED <<persistent, target, answer, stream, registration, errors>>

\* aclose of a persistent client, with the lock.
Aclose ==
  /\ stream # None /\ LockFree
  /\ CloseEnd(stream)
  /\ stream' = None
  /\ UNCHANGED <<persistent, at, uses, target, answer, cuts, registration, errors>>

\* The garbage collector closes what nobody refers to.
Collect(c) ==
  /\ c \in DOMAIN connections /\ connections[c].open
  /\ c # stream /\ \A k \in Callers : uses[k] # c
  /\ CloseEnd(c)
  /\ UNCHANGED <<client, registration, errors>>

-----------------------------------------------------------------------------
(* ServiceServer.handle_tcpros, one task for each connection                *)

\* The header is answered, or refused: not of this service or this type.
Greet(c) ==
  /\ c \in DOMAIN connections /\ connections[c].point = "greeting"
  /\ \E point \in {"reading", "refused"} :
       SetConnection(c, [connections[c] EXCEPT !.point = point])
  /\ UNCHANGED <<client, registration, errors>>

\* A request is read; a client that has closed its end ends the task.
ReadRequest(c) ==
  /\ c \in DOMAIN connections /\ connections[c].point = "reading"
  /\ \/ /\ connections[c].requests # << >>
        /\ SetConnection(c, [connections[c] EXCEPT !.point = "handling"])
     \/ /\ connections[c].requests = << >> /\ ~connections[c].open
        /\ SetConnection(c, [connections[c] EXCEPT !.point = "closed"])
  /\ UNCHANGED <<client, registration, errors>>

\* Mutant: a request whose handler raised is not answered.
ReplyOnlyOk(c, ok) ==
  SetConnection(c,
    [connections[c] EXCEPT
       !.requests = Tail(@),
       !.replies = IF ok THEN Append(@, <<Head(connections[c].requests), ok>>) ELSE @,
       !.point = IF ok /\ ~persistent THEN "closed" ELSE "reading"])

Reply(c, ok) ==
  SetConnection(c,
    [connections[c] EXCEPT !.requests = Tail(@),
                           !.replies = Append(@, <<Head(connections[c].requests), ok>>),
                           !.point = IF persistent THEN "reading" ELSE "closed"])

Handle(c) ==
  /\ c \in DOMAIN connections /\ connections[c].point = "handling"
  /\ \/ Reply(c, TRUE) /\ UNCHANGED errors
     \/ errors < MaxErrors /\ errors' = errors + 1 /\ Reply(c, FALSE)
  /\ UNCHANGED <<client, registration>>

-----------------------------------------------------------------------------
(* ServiceServer.serve, and the master                                      *)

\* Mutant: serve takes back what an earlier process has registered, and does
\* not wait for it.
ServeCleaningUp(v) ==
  /\ serving[v] = "new"
  /\ serving' = [serving EXCEPT ![v] = "registering"]
  /\ calls' = calls \cup {<<v, "register">>, <<v, "unregister">>}
  /\ UNCHANGED <<client, connections, service, faults, errors>>

Serve(v) ==
  /\ serving[v] = "new"
  /\ serving' = [serving EXCEPT ![v] = "registering"]
  /\ calls' = calls \cup {<<v, "register">>}
  /\ UNCHANGED <<client, connections, service, faults, errors>>

RegisterService(v) ==
  /\ <<v, "register">> \in calls
  /\ calls' = calls \ {<<v, "register">>}
  /\ service' = v
  /\ serving' = IF serving[v] = "registering" THEN [serving EXCEPT ![v] = "serving"] ELSE serving
  /\ UNCHANGED <<client, connections, faults, errors>>

\* Mutant: the service is not unregistered when serve ends.
ServeCancelledSilently(v) ==
  /\ serving[v] = "serving"
  /\ serving' = [serving EXCEPT ![v] = "idle"]
  /\ UNCHANGED <<client, connections, service, calls, faults, errors>>

ServeCancelled(v) ==
  /\ serving[v] = "serving"
  /\ serving' = [serving EXCEPT ![v] = "unregistering"]
  /\ calls' = calls \cup {<<v, "unregister">>}
  /\ UNCHANGED <<client, connections, service, faults, errors>>

\* Cancelled while it registers, or late with the unregistration, serve leaves
\* the call to the master to itself.
ServeLeaves(v) ==
  /\ serving[v] \in {"registering", "unregistering"} /\ Fault
  /\ serving' = [serving EXCEPT ![v] = "idle"]
  /\ UNCHANGED <<client, connections, service, calls, errors>>

\* The entry goes, whoever's it is.
UnregisterService(v) ==
  /\ <<v, "unregister">> \in calls
  /\ calls' = calls \ {<<v, "unregister">>}
  /\ service' = None
  /\ serving' = IF serving[v] = "unregistering" THEN [serving EXCEPT ![v] = "idle"] ELSE serving
  /\ UNCHANGED <<client, connections, faults, errors>>

\* A node goes, and its ends of the connections with it.
NodeGone(v) ==
  /\ serving' = [serving EXCEPT ![v] = "dead"]
  /\ connections' =
       [c \in {d \in DOMAIN connections : connections[d].server = v => connections[d].open} |->
          IF connections[c].server = v THEN [connections[c] EXCEPT !.point = "closed"]
          ELSE connections[c]]

\* The node goes without a word to the master.
Crash(v) ==
  /\ serving[v] # "dead" /\ Fault
  /\ NodeGone(v)
  /\ UNCHANGED <<client, service, calls, errors>>

\* A client that closes its end with something unread resets the connection:
\* the handler's next use of it raises BrokenResourceError, which nobody
\* catches, out of handle_tcpros and its node.
Reset(c) ==
  /\ c \in DOMAIN connections /\ ~connections[c].open
  /\ connections[c].point \in {"reading", "handling"}
  /\ ~connections[c].read \/ connections[c].replies # << >>
  /\ NodeGone(connections[c].server)
  /\ UNCHANGED <<client, service, calls, faults, errors>>

-----------------------------------------------------------------------------
Next ==
  \/ \E k \in Callers :
       \/ Call(k) \/ Locked(k) \/ LookupService(k) \/ Connect(k) \/ Greeted(k) \/ Send(k)
       \/ Respond(k) \/ ReadError(k) \/ Incomplete(k) \/ Cancel(k)
  \/ Aclose
  \/ \E c \in Connections : Collect(c) \/ Greet(c) \/ ReadRequest(c) \/ Handle(c) \/ Reset(c)
  \/ \E v \in Servers :
       \/ Serve(v) \/ RegisterService(v) \/ ServeCancelled(v) \/ ServeLeaves(v)
       \/ UnregisterService(v) \/ Crash(v)

\* Tasks that can run do, handlers return, and the lock is handed on in order.
Fairness ==
  /\ \A k \in Callers :
       /\ WF_vars(Locked(k)) /\ WF_vars(LookupService(k)) /\ WF_vars(Connect(k))
       /\ WF_vars(Greeted(k)) /\ WF_vars(Send(k)) /\ WF_vars(Respond(k))
       /\ WF_vars(ReadError(k)) /\ WF_vars(Incomplete(k))
  /\ \A c \in Connections :
       WF_vars(Collect(c)) /\ WF_vars(Greet(c)) /\ WF_vars(ReadRequest(c)) /\ WF_vars(Handle(c))

Spec == Init /\ [][Next]_vars /\ Fairness

-----------------------------------------------------------------------------
(* Properties                                                               *)

\* A call returns the response to its own request: always with a connection of
\* its own, and on the shared stream of a persistent client as long as no call
\* was cut short, in which case its response stays for the next one.
AnswersOwn ==
  \A k \in Callers : answer[k] \in {None, k} \/ (persistent /\ cuts > 0)

\* A call ends, answered or not.  That of a persistent client does not if a
\* handler has raised: it reads on for bytes that do not come, with the lock.
CallEnds ==
  \A k \in Callers : at[k] = "locking" ~> at[k] = "ended" \/ (persistent /\ errors > 0)

\* What the client leaves open is its stream, a call's connection, or one whose
\* header exchange was refused or cut short by a crash or a cancellation.
ConnectionsAccounted ==
  \A c \in DOMAIN connections :
    connections[c].open =>
      \/ c = stream \/ \E k \in Callers : uses[k] = c
      \/ cuts > 0 \/ faults > 0 \/ connections[c].point = "refused"

\* A listed server serves, unless serve was cancelled while it registered, or
\* did not wait for the unregistration, or its node crashed, or a client cut
\* short took the node down.
ListedServes ==
  service # None /\ faults = 0 /\ cuts = 0 => serving[service] \in {"serving", "unregistering"}

\* A server that serves is listed, unless another server of the same service
\* has ended: its unregistration takes the entry from whoever has it.
ServingListed ==
  \A v \in Servers :
    serving[v] = "serving" /\ service = None =>
      \E w \in Servers \ {v} : serving[w] \in {"idle", "dead"}
=============================================================================
