# Verification of aioros

TLA+ models of aioros, an anyio implementation of a ROS client library and
master, with TLC runs on small instances and TLAPS proofs for every instance.
Paths are relative to the repository; `src/aioros/` is left out of file names.

## The system

A ROS graph is a set of node processes and one master. Nodes register what they
publish, subscribe to, serve and want to know of parameters at the master over
XML-RPC; the master calls subscribers back when publishers or parameters
change; messages and service calls then flow directly between nodes over TCP or
Unix sockets. Every process runs one event loop: a task runs alone between two
awaits, and other tasks interleave at each await. So each model takes the code
from one await to the next as one step.

| Component | State | Operations | Interacts with | Hard part | Correct if |
|---|---|---|---|---|---|
| Master registry (`master/_registry.py`) | tables of services, publishers, subscribers, parameter subscribers; topic types; one Node per caller, with its lists, a send stream and a serve task | register and unregister of four kinds, `on_param_update`, the serve loop | master API calls it; serve tasks call the nodes' API | restarted nodes, late calls of old processes, serve tasks that lag or fail | tables, lists, types and serve tasks agree; every change reaches the subscribers |
| Master API (`master/_api.py`) | none | one handler per call | registry, parameter cache, XML-RPC server | two objects updated in one call, exceptions in between | answers agree with the tables |
| Master parameter cache (`master/_param_cache.py`) | a tree | get, set, delete, search, names | master API | scalars in the middle of a path, the root | behaves as a map of paths |
| Topic subscription (`_node/_tcpros/_topic_subscriber.py`) | streams, registered flag, connection per publisher | register, unregister, update_publishers, a task per connection | master, publishers' node API and sockets | answers and updates crossing, cancellation, shared registration | one registration, live connections, the current publishers |
| Topic publication (`_node/_tcpros/_topic_publisher.py`) | instance count, subscribers, latched message | enter, close, publish, new connection | master, sockets | enter and close overlap (TODO mutex), latching races with publishing | registered while open; each message once and in order |
| Services (`_node/_tcpros/_service_*.py`) | a client's stream and lock; a server's registration | call, serve, connection loop | master, sockets | a persistent stream after a failed or cancelled call | each answer goes to its call |
| Simulated time (`_node/_time.py`) | time, a condition and its lock | sleep, run | `/clock` subscription | the look at the time races with the notification | no sleeper is left behind |
| Action client (`_node/_action/`) | goal and communication state, termination event | status, feedback, result, cancel | three subscriptions, two publications | status and result arrive in any order | settles once, on its own result |
| Node parameter cache (`_node/_param_cache.py`, `_node/_node.py`) | cached subtrees | get, set, delete, paramUpdate | master | the answer to subscribeParam races with paramUpdate | follows the master |
| Node (`_node/_node.py`) | registry of handlers, task group | create_*, TCPROS dispatch, start and end | all of the above | one failing task ends the node | ends with nothing left behind |
| Transport and support (`xmlrpc/`, `_protocol.py`, `_resolve.py`, `_logging.py`, `tf2/`, `_context.py`, `abc/`) | little or none | codecs, names, delegation | all | boundaries | what is held survives being sent |

`PROJECT.json` lists every component with its status, and the hazards at their
lines with the properties that would catch each.

## Modules

`PyDict` has Python's dictionaries as partial functions; a key whose set is empty
differs from a missing one, as in the code.

`MasterRegistry` is the registry. Its variables have the names of the fields;
`serving` and `queue` are the serve tasks and what is on their streams, the task
in flight at the head. No method of Registry awaits, so every method is one
action, with all it calls: `_register_node` (`RegisterNode`, `StartServe`, and,
when a node has been restarted, `Unregister*`, `Removals` and
`ReplacementTasks`), `_register_topic`, `_check_topic`, `_check_node`,
`_update_subscribers`. `ServeTask`, `ServeEnds` and `ServeFails` are the steps of
`Node.serve`. The abstractions:

- Callers are open: any process of `Clients` may call any method with any
  argument, since the master does not control them.
- Publishers register a concrete type; the wildcard is a subscriber's.
- A process offers its services at one URI, identified with its XML-RPC URI: the
  code compares neither with anything else.
- Parameter values are trees, as prefix-closed sets of paths with labels; a key is
  its sequence of names, so that "starts with" on normalized keys is `IsPrefix`.
- `_unregister_all` iterates over sets: `Removals` has every order. So have
  `ParamNotices` and `NestedParamNotices`; a failed lookup cuts the notices there.
- A ConnectTimeout drops a task, which is for the registry what completing it is.
  Any other failure leaves `serve` and takes the master down (`up`).

`RegistryClients` has the same registry called only in the way this library's own
nodes call it: nobody unregisters what it has not registered. The runs that show
the code breaking a documented claim use it, so that the counterexample is one
that this library produces by itself.

`SimTime` is `SimTimeManager`, with anyio's condition and its first-come
first-served lock modelled from how they are used: a task past an uncontended
acquire and one about to wait sit at checkpoints, where others run. The clock may
be set back, and a sleep may be cancelled wherever it is suspended.

`TopicSubscriber` is the `SubscriptionManager` of one topic and its
`Subscription` objects. `at` is how far each one's `__aenter__` or `aclose` is; the lock is
held exactly across a call of the master, so it needs no variable. Who of
several waiting gets it is left open, more than anyio allows. `connected_publishers`
maps a URI to a ConnectedPublisher, `tasks` has those whose `_subscribe_task` runs.
The master is reduced to this topic: its publishers, whether the node is
subscribed, and the updates queued; calls and their answers travel separately
from the updates, as over separate HTTP connections. Messages carry nothing; a
message changes the state only when it meets a closed stream
(`MessageToClosedStream`) and the node goes down. The node is taken to have
something else registered, as `init_node` does for its log topic, so that its
master-side Node and queue stay.

`TopicPublisher` is `Publication` and `LatchedPublication`. The users of one
publication enter and close it (`instances`, with the code's test for zero and
one on either side of the call to the master), one `handle_tcpros` task per
connected subscriber greets, notifies the condition, sends the latched message
and then what is in its memory stream. `publish` numbers a message in one step
and sends it in another, since it is encoded in a thread in between. `aclose`'s
iteration over the set of subscribers remembers the set's size at its start: a
set that has grown raises, and so it may be cancelled at each of its awaits, with
the set as it was. `overtaken` records that a user has entered while an unregistration
was on its way to the master, which may then handle it behind the new registration.
The condition is that of `SimTime`.

`ServiceCall` is one client object of either class and the calls of several tasks,
the connections with their two ends and what is on its way, the nodes that serve
the service, and the master's entry. A call is at the await it is suspended at
(`at`). `SetConnection` drops a connection whose ends are both closed. The error a
handler answers with has no length on the wire and is read as if it had one:
`ReadError` takes what comes, and the call waits on. What one task leaves behind
when it is cancelled is left to `Collect`, the garbage collector, which is external.

`ActionCall` is `ActionClient` with its calls: the table of `_state_machine.py`
(`Transition`, `InvalidTransition`), the three trackers, the reader of feedback,
`cancel`, `wait_for_server`, and `BufferClient`'s use of a call (`CallAction`). The
action server is external: actionlib's, as its states are named in the code; it
accepts, rejects and ends goals, forgets them after it has listed their end, and
may restart. Status arrays, feedback and results travel on topics of their own,
in order each and not among each other, and only to who is connected. `connected` is the
publisher's view: `_subscribe_task` says that it is connected before it sends its
header, so that `wait_for_server` may pass a subscription (`WaitForPeer`) that the
server does not know of yet (`Connect`). `broken` has the topics with a closed stream
that is still registered: `track` cancels the trackers of a call that is done, whose
`aclose` closes the stream and is cancelled at the checkpoint behind it, so that
nobody unregisters it (`TrackEnds`); between the two steps of a regular close
(`TrackerLeaves`, `Close`) there may be one for a moment. The next message on such a
topic, for whatever goal, raises (`MeetsClosedStream`). A publisher that cannot be
reached is left to `TopicSubscriber`.

`CallOutcome` is the abstract call of `abc/_action.py`: it settles once, on its own
result or on the loss of the goal, and who waits gets just that. `ActionCall`
implements it (`SettlesOnce`) with the outcome read from `terminated` and `result`.

`ParamTree` has values as trees (prefix-closed sets of paths with labels) and what
both parameter caches do to them. `Wire` is what the XML-RPC codec makes of a value
of each Python kind: `Element` and `FromElement` translate the branches of `py2xml`
and `xml2py`, `Received` pairs the members of a struct with their names as
`xml2struct` does (the names without a text drop out, and the values move up).
`ParamServer` composes them: the master's tree and `param_subscribers`, its queue
and the call in flight for each node, the nodes' caches, and tasks that get, set
and delete. A call is sent, handled at the master and answered in three steps.
Dictionaries that the master queues are the ones in its tree: they change with it
until they are sent (`live`, `Refreshed`). `MasterRegistry` has the same notices as
snapshots, since there only who is told matters. Three variables record when the
code cannot keep a cache up and change nothing else: `behind` has nodes for which an
answer and an update were on their way together or that have written what their own
cache does not see; `scalars` and `above` have the paths that have been written as
scalars and those above keys that have been used, and a path in both is `Mixed`.

`MC*` modules name the model values of the runs.

## Runs

| Run | Shows |
|---|---|
| `registry_topics` | The tables of topics, the Nodes' lists of topics, the topic types and the serve tasks agree, a topic's type is stable, and every change of publishers is the last thing queued for each subscriber, through a restart and late calls |
| `registry_services_params` | No Node without a registration; `lookupService` finds the newest process; a Node's list of services comes to differ from the table only by another node's call on that service; with nested parameter keys and updates by dictionaries |
| `registry_unique` | Without restarts every registration belongs to a known node that lists it, and a deleted node's serve task ends |
| `registry_param_keyerror` (violated) | After a restart `setParam` raises KeyError on a subscriber whose Node is gone; `xmlrpc/_client.py:45` asserts status 200 |
| `registry_subscriber_forgotten` (violated) | A late unregister of the old process cuts the new one off from notifications that `_node/_api.py:175-177` promises |
| `sim_time` | No wake-up is lost, the lock is sound, every sleep whose time comes ends |
| `topic_subscriber` | Entries of `connected_publishers` are live; overlapping registers and unregisters share one registration |
| `subscriber_stale_reply` (violated) | The answer to `registerSubscriber` overwrites a newer `publisherUpdate`, which `_node/_api.py:375` documents as the current list |
| `action_call` | A goal settles once and on its own result, is LOST only if the server restarted, and keeps the state its result reported; nothing takes the node down before a goal has come to its end, a reader has left or the client is closed, and no tracker of a call under way raises; a goal is answered if the server has the client as a subscriber of its results; feedback ends |
| `service_call` | Responses go to their calls, calls end, the client leaves no connection open without a reason, and the master's entry and the serve tasks agree, each up to the failures its comment names |
| `topic_publisher` | The topic is registered while open and released at the end, no waiter misses a peer, each subscriber gets the messages in one order, and a latched topic's latest |
| `param_server` | What the master holds survives being sent, caches that are not behind answer as the master, searches find what the name means, and only mixed values or refused calls take the master down |

Bounds. The registry runs have three processes of two names, one of them
restarted: two processes of one name are what replacement and late calls need,
the third is the bystander that is notified. One topic is enough since a topic
touches another only through the Node's lists and `_unregister_all`; services
and parameters, which share only these with topics, have a run of their own, and
the nested keys are an ancestor and a descendant, the two relations
`on_param_update` tells apart. `MaxPending` bounds the tasks on all streams
together (the code has no bound): two lets a task wait behind one in flight.
Three workers serve two present nodes and one that drains; a registration that
would need a fourth waits. Two types make a second registration disagree with
the first. `sim_time` has two sleepers, so that one can hold the lock while the
other wakes, and times up to 3 with durations 1 and 2. `topic_subscriber` has
two subscriptions, the second of which also stands for a re-registration, two
publishers, three running connection tasks (one more than publishers, for one
that is cancelled and not ended), two queued updates and one failed call.

`action_call` has one goal and the id of another client's: calls of one client
share nothing but the topics, and another goal's result or status is all that one
call sees of the others. `MaxQueue` is 1 in each of three queues, so that a status
still waits when the result is taken, and the two topics may come in either order;
one restart forgets the goal at any point. `service_call` has two calls, so that one
waits while the other has the lock or follows it on the same stream, two servers
for an entry that is overwritten and taken away, two connections (one may be left
behind while the other is used), and one each of a cancelled call, a failed handler
and a crash. `topic_publisher` has two users (the third would only repeat the
second's overlap), two handlers, so that the set changes size while it is iterated,
two messages for an order, one waiter, and one failed call. `param_server` has a
node with two tasks and one with one, a key, its child, and the root (through a
remapping), three operations (a subscription, a write and a write that races it),
and a value of each kind that the codec changes: an integer at the end of its
range, a double that is not finite, a padded string, binary data, and a struct
with an empty name. `SearchReaches` is about all of these trees. The two tasks of the
first node are symmetric: no property tells them apart, and each is about states.

Deadlock is checked for `sim_time`. In the other runs the process really may stop:
the master or the node goes down, every subscription or publication has been left,
or each caller has made its call.

Fairness. `registry_unique` assumes that each serve task keeps running (its loop
awaits only calls that return or raise: httpx has time-outs); `sim_time` that the
event loop runs every task that can run. `action_call` assumes that of the tasks a
result passes, and of the server that it receives a goal and ends it;
`service_call` that callers and connection handlers run, that the lock is handed on
in its order (anyio's is first come, first served), that handlers return and that
the garbage collector closes what nobody refers to. None assumes that clients
call, that the clock ticks, or that anybody is cancelled; `topic_publisher` and
`param_server` state safety only.

## Proofs

Each theorem is for every value of the constants, from the assumptions the
modules name (clients are pairs of a name and a URI, the wildcard is not a type,
bounds are naturals, `Run` and `Nobody` are not sleepers, handlers are not waiters,
outcomes are not calls, `None` is neither a caller, a server nor a connection, and
values and trees of parameters are well formed).
TLC has checked each inductive invariant below on its run before it was proved.

- `OperatorProofs`: what the operators return that several models share, which the
  other proofs cite: a key of a dictionary that loses its last value is gone, and the
  rest stays; the queues of tasks that wait for a lock lose no task and keep their
  order, whether one is appended, the first is taken or one in the middle is cancelled.
  A set of numbers has a least, which gives induction up to a bound; from it, what a
  sequence of sequences is when it is flattened, and which element of some kind is
  its last. A finite set is put in an order that leaves none of its elements out. Of
  two prefixes of a sequence one is a prefix of the other, and what is left of a
  sequence behind a prefix follows it.
- `MasterRegistryProofs`: type correctness of the tables, `NodeHasRegistration`,
  `IndexSound`, `ServiceOwnerCurrent`, `TopicTypesMatchTopics`, `NodeServed` and the
  action properties `FirstTypeWins` and `ServiceTakenByCall`. `IndexSound` is about topics
  and parameter keys: for services it is false in the code, and what is so of them is
  `ServicesTakenByCall`. None is inductive alone: that a Node's list
  is in the tables needs that replacement clears both, and that a registration
  of the present URI is not one the replaced process left; that notifications
  find open streams needs that no two Nodes share a worker. The invariant
  (`Invariance`) is their conjunction with the types; its proof has one step per
  method over lemmas on `RegisterNode`, `CheckNode` and the removal operators.
  `UniqueReachable` is under `UniqueNames` (no two processes share a name): every
  registration is that of a known node that lists it. The runs show that the
  assumption is needed. `PublisherChangesNotified` and the type of `queue`
  (`TypesCorrect`) need that only finitely many registrations have been made
  (`QueueInv`), which is so after any number of calls: else no order of them would
  exist to send in. The update that counts is the last about its topic in a batch
  that holds those for all topics of a replaced Node, each sent once per registration
  it had; what is left of the topic then is what `_unregister_all` leaves of it.
- `SimTimeProofs`: `LockIsSound` and `WakeupsAreNotLost`. The strengthening says where
  the lock's queue has `run`: a sleeper that decided to wait before the clock
  moved is ahead of `run` for the lock, or already waits, so the notification
  follows.
- `TopicSubscriberProofs`: `ConnectionsAreLive` needs only the types, since a task is
  cancelled in the step that drops its entry; `OneRegistration` follows the call
  of the master: who waits for it holds the lock, and what has been answered has
  been done.
- `TopicPublisherProofs`: four invariants, each on top of the types. The registration
  (`ListedWhileOpenHolds`, `ReleasedAtEndHolds`): as long as no call fails and nobody enters
  before the master has handled an unregistration, a call is on its way only for a user
  that awaits it, and an unregistration only while nobody is counted (`Orderly`), and
  `instances` counts those who have entered (`Counted`); answers may be on their way
  while others enter and leave. The condition
  (`NoPeerIsMissed`): a subscriber that came after a waiter's look is behind it in the
  queue for the lock, and notifies after it waits (`PeerBehind`). The messages
  (`SentInOrderHolds`, `MessagesSentOnce`): what a subscriber has got, has on its stream and
  is about to get, taken together, is in the order of the log but for one message, the
  latched one (`Greeted`). The latch (`LatestSentHolds`): the last of the log is among
  them until a user begins to close the streams.
- `ActionCallProofs`: the refinement `SettlesOnceHolds` rests on what is known of a call
  before its event is set (no result) and after (its communication state is DONE, and
  it takes no other). `LostMeansRestartHolds` and `FailsOnlyBehindTheEndHolds` are about
  the three topics together: as long as the server stays up, the status that a call
  has taken, those that are queued for it, the one at the server and its result each
  follow those before them (`Order`), so that whatever is taken next of a call under
  way makes a valid transition, and a goal is missing from an array only before it is
  first listed or after it has ended; a closed stream is left behind only once some
  call has come to its end, or the client is closed (`BrokenInv`). `EndStateHolds` needs
  that a goal comes to one end, restart or not, and that whatever is on its way reports
  no other (`OneEnd`): a status taken behind the end is that of the end, or invalid, and
  then the node is down; one of a lost call is not taken (`Settled`).
- `ServiceCallProofs`: `AnswersOwnHolds`. The strengthening (`Calling`) says that one call at a
  time has the lock, that it alone uses a connection, and that what is on its way
  on a connection in use is one request or one response of the call that waits
  on it (`Separate`); a call that ends leaves nothing behind, unless it was cut
  short on a stream that is kept. `ServingListedHolds` needs that who has asked for
  its unregistration serves no more. `ConnectionsAccountedHolds` and `ListedServesHolds`
  rest on what is so as long as no call is cut short and nothing fails (`Quiet`): who
  closes an end of a connection has read all and left nothing on its way, so that no
  connection is reset and no server goes down; and `serve` waits for its two calls of
  the master, so that the entry is that of who serves.
- `ParamServerProofs`: `LabelSettles`: a label of any kind that has been sent once is
  accepted and unchanged when it is sent again. `MasterHoldsSettled`: what the master
  holds does not depend on how often it travels. The invariant is that a tree is
  `Settled`: its labels have been sent once, none of its names is empty, and it has
  every dictionary on the way to what it holds. A value that is received is settled
  (`ReceivedSettled`) and stays as it is when it is received again (`SettledStays`);
  storing, removing and taking a part keep trees settled (`Stored`, `Removed`,
  `SubTree`); so what `on_param_update` queues for a node, parts of such values or empty
  dictionaries, is received as it was sent. An update that is still live is part of
  what the master holds, and finitely many keys have subscribers, so that the updates
  can be put in an order. `MasterSearchReaches` follows: since the dictionaries on the
  way to a parameter are in the tree, the search upwards from a namespace finds the
  nearest. Assumed of the constants: the trees at the start are settled, no name in a
  key is empty (`split` drops those), and values are any that XML-RPC has but integers
  beyond the range of a double, for which `HeldSettled` is false (see below).
  `MasterStaysUp` (`DownOnlyIfMixed`): every scalar in the tree, in an update, in an
  answer and in a cache is at a path in `scalars`, and what is above their keys is in
  `above` (`KindsInv`, `CacheInv`), so that an update which fails meets a path in both.
  Nothing is taken from the two sets: an earlier model forgot a scalar that was
  deleted, its invariant was not inductive, and five operations (two more than the
  run has) do take the master down after such a delete: a dictionary that is queued
  changes until it is sent, and so brings the new scalar ahead of an older update
  below it.
  `CachesFollow` (`CacheFollows`) goes path by path, for every key that a node caches at
  or above the path (`FollowsAt`): the last update in the node's queue that covers the
  path (`Covers`) tells what the master's tree has there; if none does, the call in
  flight; if that does not, the cache has it, unless an answer to the node's own write
  is out, which then is the only thing on its way and tells it (`AnswerFollows`). A write
  keeps this because every node that caches a path it changes is told (`WriteTold`), by
  an update that agrees with the new tree (`NewAgrees`), while what was queued before
  agrees elsewhere (`RefreshedAgrees`). Where the tree has no scalar it may have a
  dictionary or nothing (`At`), which a reader cannot tell apart (`LeavesSame`).

Only model-checked: the liveness properties (`ClosedServeEnds`, `SleepEnds`,
`GoalAnswered`, `FeedbackEnds`, `CallEnds`), which are beyond the prover. Every safety
property and action property of a passing run is stated by a theorem.

## What the code does that a user should know

The three violated runs, and behaviours that the models have but no claim of the
repository denies:

- A failure of any callback but a connect time-out takes the master down.
- An update whose connection times out is dropped for good.
- A subscription whose task is cancelled is never unregistered: closing the receive
  stream raises before `unregister` is reached. The next message then takes the
  node down. So may one that arrives between the two steps of a regular close.
- That is so of every call of an action: `track` cancels its trackers when the goal is
  done, and the next status array, or the next feedback or result of any client's goal,
  meets a closed stream.
- `wait_for_server` returns as soon as the client has a connection to the result topic,
  which may be before the server has read its header: a goal that ends by then is not
  answered, and its call waits for ever.
- `register_service` takes a service over and `unregister_service` removes it, whoever
  owns it; the owner's Node keeps it on its list, and stays known for it.
- A user that enters a publication while another's unregistration is on its way may
  find it unlisted for good, if the master handles that one last.
- A register that takes more than a second leaves `registered` set without a
  registration, and an unregister that does leaves it set after one.
- The end of a cancelled connection drops its successor's entry, if that was made
  meanwhile; the successor then runs without one.
- A cancel of a goal that the server has forgotten is acknowledged as RECALLING;
  if the result is not in yet that transition may be invalid and the node goes down.
- Leaving the loop over `feedback()` closes the stream the tracker sends to: the next
  feedback raises in the tracker and takes the node down.
- `BufferClient._call_action` uses a call without awaiting its result and fails with
  AttributeError on it; `can_transform` never sends a goal.
- `Node.search_param` resolves its name before it asks the master, which then has an
  absolute name and does not search upwards, as `_node/_api.py:84-85` says it would.
- An error of a service is never read as such: a single call ends with
  IncompleteRead, a persistent one waits for ever and keeps the lock. A call whose
  header is refused leaves its connection to the garbage collector.
- A client that resets a connection, by being cut short with something unread, takes
  the serving node down: `handle_tcpros` catches IncompleteRead only.
- A service is listed for good if `serve` is cancelled during its registration; and the
  unregistration of one server takes the entry of whichever is listed.
- A publication that two users had open at a time is never unregistered. A subscriber
  that connects while `aclose` iterates over the subscribers makes it raise. One that
  leaves before its header is answered raises out of the node. A new subscriber of a
  latched topic may get the latched message after a newer one.
- A value below a cached scalar raises in the node's cache; the status 500 it is
  answered with takes the master down, and so does a `setParam` of a double that is
  not finite (the schema refuses it outside of the handler's `try`).
- A scalar that replaces a dictionary is not told to subscribers below it. A delete
  is told as an empty dictionary, and an empty dictionary is cached as one.
- A node's own write is not seen by what it has cached below the key, nor is the
  delete of a key that is cached itself.
- Integers at either end of 32 bits come back as floats, tuples and sets as lists,
  bytes as strings, strings stripped and dates without microseconds; a member with an
  empty name shifts the values of its struct and drops the last. An integer beyond
  the range of doubles is infinite at the master, and refused by who reads it.

## Not modelled

- HTTP, sockets, XML layout and the length-prefixed fields of headers; logging (an
  unbounded queue in front of a publication); scripts; the context wrappers and
  abstract classes, which delegate (`CallOutcome` states what `ActionCall` promises).
- Start-up and teardown of a node or a master: nested context managers and task
  groups. `init_time` waits for a first `/clock` message without a limit.
- Queries of the master and node APIs, `has_param`, connection statistics: they
  change no state.
- tf2's native buffer, its geometry, and the polling of `Buffer`.
- Two cached namespaces of a node that share a dictionary object, and time-outs of
  parameter calls.
- Keys that lead into an array, which neither cache indexes: the items of an array are
  paths in the trees, and `ArraysAssumption`, which TLC checks in `param_server`, keeps
  keys and nodes' names off them.
- The subscriber's choice of a transport, and `every()`, which repeats a sleep.

An abstract topic that `TopicSubscriber`, `TopicPublisher` and the registry implement
together is not stated: the master drops updates, and a subscriber may end up with
a stale list (`subscriber_stale_reply`), so that the code promises no such topic.

## Running

`tlc -config X.cfg M` for the runs of `PROJECT.json`, `tlapm M.tla` for the proof
modules, in this directory.
