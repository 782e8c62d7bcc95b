------------------------------ MODULE ActionCall ------------------------------
(***************************************************************************)
(* ActionClient and its calls (src/aioros/_node/_action): a goal is sent to *)
(* an action server, and three tasks per call follow the server's status,   *)
(* feedback and result topics until the call is done or lost.  The topics   *)
(* are in order each, and not among each other.  The trackers, the callers, *)
(* the readers of feedback and the server, which may restart, interleave    *)
(* wherever the code awaits.                                                *)
(***************************************************************************)
EXTENDS Naturals, Sequences

CONSTANTS
  Calls,        \* ActionCall objects; a goal's id is its call
  Other,        \* the id of another client's goal
  Open, Lost,   \* outcomes, see CallOutcome
  MaxQueue,     \* bound: messages in one subscription of a tracker
  MaxRestarts   \* bound: restarts of the action server

ASSUME CallsAssumption ==
  /\ Other \notin Calls \cup {Open, Lost}
  /\ Open # Lost /\ Open \notin Calls /\ Lost \notin Calls
ASSUME BoundsAssumption == MaxQueue \in Nat /\ MaxRestarts \in Nat

VARIABLES
  client,       \* ActionClient: new, open, or closed
  waiting,      \* the topics wait_for_server has still to see a peer of
  at,           \* call |-> where its caller is
  goal_state,   \* call |-> GoalState
  comm_state,   \* call |-> CommState
  terminated,   \* calls whose event is set
  result,       \* call |-> the goal whose result it got, or Lost for None
  end,          \* call |-> the status in its goal's result, once handled, or Unlisted
  answered,     \* call |-> what wait_for_result has returned, or Open
  trackers,     \* call |-> its trackers that run
  broken,       \* topics with a closed stream that is still registered
  statuses,     \* call |-> its goal's entry in the status arrays it has queued
  results,      \* call |-> the results it has queued
  feedbacks,    \* call |-> the goals of the feedback it has queued
  reader,       \* call |-> what the reader of its feedback does
  connected,    \* topics whose publisher, client or server, has the other as a subscriber
  server,       \* call |-> its goal's status at the server, or Unlisted
  sent,         \* goals on their way to the server
  reported,     \* goals the server has listed with their last status
  restarts,
  down          \* an exception has left a task: the node is gone

caller == <<client, waiting, at, answered>>
machine == <<goal_state, comm_state>>
outcomes == <<terminated, result, end>>
tracking == <<trackers, broken>>
queues == <<statuses, results, feedbacks>>
external == <<connected, server, sent, reported, restarts>>
vars == <<caller, machine, outcomes, tracking, queues, reader, external, down>>

Topics == {"goal", "cancel", "status", "feedback", "result"}
Trackers == {"status", "feedback", "result"}

Ended == {"REJECTED", "RECALLED", "PREEMPTED", "SUCCEEDED", "ABORTED"}
GoalState == Ended \cup {"PENDING", "ACTIVE", "PREEMPTING", "RECALLING", "LOST"}
CommState == {"WAITING_FOR_GOAL_ACK", "PENDING", "ACTIVE", "WAITING_FOR_RESULT",
              "WAITING_FOR_CANCEL_ACK", "RECALLING", "PREEMPTING", "DONE"}
Listed == GoalState \ {"LOST"}
Unlisted == "unlisted"
CancelledAhead == "cancelled ahead"  \* of a goal the server does not have

\* starting: entering the trackers' subscriptions; unanswered: failed without
\* having waited.
Points == {"new", "starting", "publishing", "waiting", "returned", "unanswered"}

ResultMessage == [goal : Calls \cup {Other}, status : Ended]

TypeOK ==
  /\ client \in {"new", "open", "closed"}
  /\ waiting \in Seq(Topics)
  /\ at \in [Calls -> Points]
  /\ goal_state \in [Calls -> GoalState]
  /\ comm_state \in [Calls -> CommState]
  /\ terminated \subseteq Calls
  /\ result \in [Calls -> Calls \cup {Other, Lost}]
  /\ end \in [Calls -> Ended \cup {Unlisted}]
  /\ answered \in [Calls -> Calls \cup {Other, Lost, Open}]
  /\ trackers \in [Calls -> SUBSET Trackers]
  /\ broken \subseteq Trackers
  /\ statuses \in [Calls -> Seq(Listed \cup {Unlisted})]
  /\ results \in [Calls -> Seq(ResultMessage)]
  /\ feedbacks \in [Calls -> Seq(Calls \cup {Other})]
  /\ reader \in [Calls -> {"none", "reading", "left", "ended"}]
  /\ connected \subseteq Topics
  /\ server \in [Calls -> Listed \cup {Unlisted, CancelledAhead}]
  /\ sent \subseteq Calls
  /\ reported \subseteq Calls
  /\ restarts \in 0..MaxRestarts
  /\ down \in BOOLEAN

PeerOrder == <<"goal", "cancel", "status", "feedback", "result">>

Init ==
  /\ client = "new"
  /\ waiting = PeerOrder
  /\ at = [c \in Calls |-> "new"]
  /\ goal_state = [c \in Calls |-> "PENDING"]
  /\ comm_state = [c \in Calls |-> "WAITING_FOR_GOAL_ACK"]
  /\ terminated = {}
  /\ result = [c \in Calls |-> Lost]
  /\ end = [c \in Calls |-> Unlisted]
  /\ answered = [c \in Calls |-> Open]
  /\ trackers = [c \in Calls |-> {}]
  /\ broken = {}
  /\ statuses = [c \in Calls |-> << >>]
  /\ results = [c \in Calls |-> << >>]
  /\ feedbacks = [c \in Calls |-> << >>]
  /\ reader = [c \in Calls |-> "none"]
  /\ connected = {}
  /\ server = [c \in Calls |-> Unlisted]
  /\ sent = {} /\ reported = {} /\ restarts = 0
  /\ down = FALSE

GoTo(c, point) == at' = [at EXCEPT ![c] = point]

-----------------------------------------------------------------------------
(* CommStateMachine                                                         *)

\* Mutant: a recall does not give way to a preemption.
InvalidTransitionAfterRecall(comm, goal) ==
  \/ comm = "ACTIVE" /\ goal \in {"PENDING", "REJECTED", "RECALLING", "RECALLED"}
  \/ comm = "WAITING_FOR_RESULT" /\ goal \in {"PENDING", "RECALLING", "PREEMPTING"}
  \/ comm = "RECALLING" /\ goal \in {"PENDING", "ACTIVE", "PREEMPTING"}
  \/ /\ comm = "PREEMPTING"
     /\ goal \in {"PENDING", "ACTIVE", "REJECTED", "RECALLING", "RECALLED"}
  \/ comm = "DONE" /\ goal \in {"PENDING", "ACTIVE", "RECALLING", "PREEMPTING"}

\* Mutant: after the result any status is taken.
InvalidTransitionUnlessDone(comm, goal) ==
  \/ comm = "ACTIVE" /\ goal \in {"PENDING", "REJECTED", "RECALLING", "RECALLED"}
  \/ comm = "WAITING_FOR_RESULT" /\ goal \in {"PENDING", "RECALLING", "PREEMPTING"}
  \/ comm = "RECALLING" /\ goal \in {"PENDING", "ACTIVE"}
  \/ /\ comm = "PREEMPTING"
     /\ goal \in {"PENDING", "ACTIVE", "REJECTED", "RECALLING", "RECALLED"}

\* The pairs whose transition raises as soon as it is iterated.
InvalidTransition(comm, goal) ==
  \/ comm = "ACTIVE" /\ goal \in {"PENDING", "REJECTED", "RECALLING", "RECALLED"}
  \/ comm = "WAITING_FOR_RESULT" /\ goal \in {"PENDING", "RECALLING", "PREEMPTING"}
  \/ comm = "RECALLING" /\ goal \in {"PENDING", "ACTIVE"}
  \/ /\ comm = "PREEMPTING"
     /\ goal \in {"PENDING", "ACTIVE", "REJECTED", "RECALLING", "RECALLED"}
  \/ comm = "DONE" /\ goal \in {"PENDING", "ACTIVE", "RECALLING", "PREEMPTING"}

\* The last state of the transition: the others are passed through at once.
Transition(comm, goal) ==
  IF comm \in {"WAITING_FOR_RESULT", "DONE"} THEN comm
  ELSE IF goal \in Ended THEN "WAITING_FOR_RESULT"
  ELSE IF comm = "WAITING_FOR_CANCEL_ACK" /\ goal \in {"PENDING", "ACTIVE"} THEN comm
  ELSE goal

\* Mutant: a goal that is not listed yet is lost.
MayBeUnlistedOnceAcknowledged(comm) == comm \in {"WAITING_FOR_RESULT", "DONE"}

\* The states in which a goal may be missing from the status array.
MayBeUnlisted(comm) == comm \in {"WAITING_FOR_GOAL_ACK", "WAITING_FOR_RESULT", "DONE"}

-----------------------------------------------------------------------------
(* The caller                                                               *)

Enter ==
  /\ ~down /\ client = "new"
  /\ client' = "open"
  /\ UNCHANGED <<waiting, at, answered, machine, outcomes, tracking, queues, reader, external, down>>

\* aclose closes the publications, which are the client's own, and then one
\* subscription after the other: its stream first, which is then unregistered.
\* A cancellation ends it anywhere.  Which stream is still registered when a
\* message comes is chosen here: one at most, as the node does not survive it.
Close ==
  /\ ~down /\ client = "open"
  /\ client' = "closed"
  /\ connected' = connected \ {"goal", "cancel"}
  /\ broken' \in {broken} \cup {broken \cup {t} : t \in Trackers}
  /\ UNCHANGED <<waiting, at, answered, machine, outcomes, trackers, queues, reader,
                 server, sent, reported, restarts, down>>

\* wait_for_server, before any goal is sent: a peer of one topic after the
\* other.  _subscribe_task says that it is connected before it sends its header:
\* the wait for a peer of a subscription may end before the server knows of it.
WaitForPeer ==
  /\ ~down /\ client = "open" /\ (\A c \in Calls : at[c] = "new") /\ waiting # << >>
  /\ Head(waiting) \in connected \cup Trackers
  /\ waiting' = Tail(waiting)
  /\ UNCHANGED <<client, at, answered, machine, outcomes, tracking, queues, reader, external, down>>

\* With the wait over, given up, or never begun.
SendGoal(c) ==
  /\ ~down /\ client = "open" /\ at[c] = "new"
  /\ GoTo(c, "starting")
  /\ waiting' = IF waiting = << >> THEN << >> ELSE PeerOrder
  /\ UNCHANGED <<client, answered, machine, outcomes, tracking, queues, reader,
                 external, down>>

\* track starts its trackers in this order, each once the one before it has
\* entered its subscription.
StartTracker(c) ==
  /\ ~down /\ at[c] = "starting"
  /\ \E t \in Trackers :
       /\ trackers[c] = CASE t = "status" -> {}
                          [] t = "feedback" -> {"status"}
                          [] t = "result" -> {"status", "feedback"}
       /\ trackers' = [trackers EXCEPT ![c] = @ \cup {t}]
  /\ at' = IF trackers'[c] = Trackers THEN [at EXCEPT ![c] = "publishing"] ELSE at
  /\ UNCHANGED <<client, waiting, answered, machine, outcomes, broken, queues, reader,
                 external, down>>

\* Without a connection the goal is dropped.  Another wait would begin anew.
GoalSent(c) ==
  /\ ~down /\ at[c] = "publishing"
  /\ IF "goal" \in connected THEN sent' = sent \cup {c} ELSE UNCHANGED sent
  /\ waiting' = PeerOrder
  /\ UNCHANGED <<client, answered, machine, outcomes, tracking, queues, reader,
                 connected, server, reported, restarts, down>>

PublishGoal(c) == GoalSent(c) /\ GoTo(c, "waiting")

\* A call of BufferClient: it takes wait_for_result's coroutine for the result,
\* and raises AttributeError.
CallAction(c) == GoalSent(c) /\ GoTo(c, "unanswered")

\* What a server does on a cancel message for some of the goals it has.
CancelAtServer(goals) ==
  server' = [c \in Calls |-> CASE c \in goals /\ server[c] = "PENDING" -> "RECALLING"
                               [] c \in goals /\ server[c] = "ACTIVE" -> "PREEMPTING"
                               [] OTHER -> server[c]]

\* The cancel of a goal that the server does not have is kept for it.
Cancel(c) ==
  /\ ~down /\ at[c] = "waiting" /\ "cancel" \in connected
  /\ IF server[c] = Unlisted THEN server' = [server EXCEPT ![c] = CancelledAhead]
     ELSE CancelAtServer({c})
  /\ UNCHANGED <<caller, machine, outcomes, tracking, queues, reader, connected, sent,
                 reported, restarts, down>>

\* cancel_all_goals, and cancel_all_goals_until with the server's choice of goals.
CancelAll ==
  /\ ~down /\ client = "open" /\ "cancel" \in connected
  /\ \E goals \in SUBSET Calls : CancelAtServer(goals)
  /\ UNCHANGED <<caller, machine, outcomes, tracking, queues, reader, connected, sent,
                 reported, restarts, down>>

WaitForResult(c) ==
  /\ ~down /\ at[c] = "waiting" /\ c \in terminated
  /\ answered' = [answered EXCEPT ![c] = result[c]]
  /\ GoTo(c, "returned")
  /\ UNCHANGED <<client, waiting, machine, outcomes, tracking, queues, reader, external, down>>

-----------------------------------------------------------------------------
(* The trackers                                                             *)

\* A tracker that leaves its loop closes its stream and then has it
\* unregistered: not if it is cancelled in between, or does not get the lock in
\* a second.  Whether a message still meets it is chosen here.
TrackerLeaves(c, t, leaves) ==
  IF leaves
  THEN trackers' = [trackers EXCEPT ![c] = @ \ {t}] /\ broken' \in {broken, broken \cup {t}}
  ELSE UNCHANGED tracking

\* An unlisted goal is lost unless it may be unlisted; a transition that is
\* invalid raises out of the tracker, with goal_state set, and takes the node
\* with it.  A tracker that sees the end sets the event and ends.
TrackStatus(c) ==
  /\ ~down /\ "status" \in trackers[c] /\ statuses[c] # << >>
  /\ LET status == Head(statuses[c])
         lost == status = Unlisted /\ ~MayBeUnlisted(comm_state[c])
         fails == status # Unlisted /\ InvalidTransition(comm_state[c], status)
         comm == IF lost THEN "DONE"
                 ELSE IF fails \/ status = Unlisted THEN comm_state[c]
                 ELSE Transition(comm_state[c], status)
         terminal == comm = "DONE" /\ ~fails
     IN /\ goal_state' = [goal_state EXCEPT ![c] = IF lost THEN "LOST"
                                                   ELSE IF status = Unlisted THEN @
                                                   ELSE status]
        /\ comm_state' = [comm_state EXCEPT ![c] = comm]
        /\ down' = fails
        /\ terminated' = IF terminal THEN terminated \cup {c} ELSE terminated
        /\ TrackerLeaves(c, "status", terminal)
  /\ statuses' = [statuses EXCEPT ![c] = Tail(@)]
  /\ UNCHANGED <<caller, result, end, results, feedbacks, reader, external>>

\* Mutant: the results of other goals are taken as well.
IsResultOfAny(c, message) == TRUE

\* Mutant: a result is taken only when its status has come.
IsResultOfEnded(c, message) ==
  message.goal = c /\ comm_state[c] = "WAITING_FOR_RESULT"

\* The filter of results by goal.
IsResultOf(c, message) == message.goal = c

\* A result sets goal_state in any case, the rest only of a call that is not done.
TrackResult(c) ==
  /\ ~down /\ "result" \in trackers[c] /\ results[c] # << >>
  /\ LET message == Head(results[c])
         own == IsResultOf(c, message)
         fails == /\ own /\ comm_state[c] # "DONE"
                  /\ InvalidTransition(comm_state[c], message.status)
         taken == own /\ comm_state[c] # "DONE" /\ ~fails
     IN /\ goal_state' = [goal_state EXCEPT ![c] = IF own THEN message.status ELSE @]
        /\ down' = fails
        /\ comm_state' = [comm_state EXCEPT ![c] = IF taken THEN "DONE" ELSE @]
        /\ terminated' = IF taken THEN terminated \cup {c} ELSE terminated
        /\ result' = [result EXCEPT ![c] = IF taken THEN message.goal ELSE @]
        /\ end' = [end EXCEPT ![c] = IF own THEN message.status ELSE @]
        /\ TrackerLeaves(c, "result", taken)
  /\ results' = [results EXCEPT ![c] = Tail(@)]
  /\ UNCHANGED <<caller, statuses, feedbacks, reader, external>>

\* A reader that has left has closed the call's stream: the send raises.
TrackFeedback(c) ==
  /\ ~down /\ "feedback" \in trackers[c] /\ feedbacks[c] # << >>
  /\ down' = (Head(feedbacks[c]) = c /\ reader[c] = "left")
  /\ feedbacks' = [feedbacks EXCEPT ![c] = Tail(@)]
  /\ UNCHANGED <<caller, machine, outcomes, tracking, statuses, results, reader, external>>

\* Mutant: the tracker of feedback is not cancelled with the others.
TrackEndsWithoutFeedback(c) ==
  /\ ~down /\ c \in terminated /\ trackers[c] \ {"feedback"} # {}
  /\ trackers' = [trackers EXCEPT ![c] = @ \cap {"feedback"}]
  /\ broken' = broken \cup (trackers[c] \ {"feedback"})
  /\ statuses' = [statuses EXCEPT ![c] = << >>]
  /\ results' = [results EXCEPT ![c] = << >>]
  /\ UNCHANGED <<caller, machine, outcomes, feedbacks, reader, external, down>>

\* Woken by the event, track cancels the trackers.  Until then, and as long as
\* a tracker has been handed a message, they go on.  A cancelled tracker closes
\* its stream; the checkpoint behind that raises, and nobody unregisters it.
TrackEnds(c) ==
  /\ ~down /\ c \in terminated /\ trackers[c] # {}
  /\ trackers' = [trackers EXCEPT ![c] = {}]
  /\ broken' = broken \cup trackers[c]
  /\ statuses' = [statuses EXCEPT ![c] = << >>]
  /\ results' = [results EXCEPT ![c] = << >>]
  /\ feedbacks' = [feedbacks EXCEPT ![c] = << >>]
  /\ UNCHANGED <<caller, machine, outcomes, reader, external, down>>

\* feedback(): what is read ends with the tracker that sends it, or is left early.
ReadFeedback(c) ==
  /\ ~down /\ at[c] \in {"waiting", "returned"}
  /\ \/ reader[c] = "none" /\ reader' = [reader EXCEPT ![c] = "reading"]
     \/ /\ reader[c] = "reading" /\ "feedback" \notin trackers[c]
        /\ reader' = [reader EXCEPT ![c] = "ended"]
  /\ UNCHANGED <<caller, machine, outcomes, tracking, queues, external, down>>

LeaveFeedback(c) ==
  /\ ~down /\ reader[c] = "reading"
  /\ reader' = [reader EXCEPT ![c] = "left"]
  /\ UNCHANGED <<caller, machine, outcomes, tracking, queues, external, down>>

-----------------------------------------------------------------------------
(* The action server, a node of its own (actionlib)                         *)

HasRoom(queue) == \A c \in Calls : Len(queue[c]) < MaxQueue

\* A message reaches the trackers that run, if the server has the client as a
\* subscriber of the topic.
Deliver(topic, queue, message) ==
  [c \in Calls |-> IF topic \in connected /\ topic \in trackers[c]
                   THEN Append(queue[c], message[c]) ELSE queue[c]]

\* Among the streams for that topic one is closed: the sending raises, out of
\* the node.
MeetsClosedStream(topic) == topic \in connected \cap broken

\* A subscriber connects to a publication and sends its header, which the
\* publisher reads.  A client that is closed has no publications.
Connect ==
  /\ ~down /\ client # "new"
  /\ \E t \in Topics \ connected :
       /\ client = "closed" => t \in Trackers
       /\ connected' = connected \cup {t}
  /\ UNCHANGED <<caller, machine, outcomes, tracking, queues, reader, server, sent,
                 reported, restarts, down>>

\* The goal ends and its result is published; the status array follows.
Finish(c, status) ==
  /\ server' = [server EXCEPT ![c] = status]
  /\ results' = Deliver("result", results,
                        [d \in Calls |-> [goal |-> c, status |-> status]])
  /\ down' = MeetsClosedStream("result")

\* A goal arrives: one that was cancelled before is recalled.
ReceiveGoal(c) ==
  /\ ~down /\ c \in sent
  /\ sent' = sent \ {c}
  /\ IF server[c] = CancelledAhead THEN Finish(c, "RECALLED")
     ELSE server' = [server EXCEPT ![c] = "PENDING"] /\ UNCHANGED <<results, down>>
  /\ UNCHANGED <<caller, machine, outcomes, tracking, statuses, feedbacks, reader,
                 connected, reported, restarts>>

AcceptGoal(c) ==
  /\ ~down
  /\ \/ server[c] = "PENDING" /\ server' = [server EXCEPT ![c] = "ACTIVE"]
     \/ server[c] = "RECALLING" /\ server' = [server EXCEPT ![c] = "PREEMPTING"]
  /\ UNCHANGED <<caller, machine, outcomes, tracking, queues, reader, connected, sent,
                 reported, restarts, down>>

\* The other ends are to the client as these: ABORTED as SUCCEEDED or
\* PREEMPTED, REJECTED as RECALLED.
EndGoal(c) ==
  /\ ~down
  /\ \/ server[c] = "PENDING" /\ Finish(c, "REJECTED")
     \/ server[c] = "RECALLING" /\ Finish(c, "RECALLED")
     \/ server[c] = "ACTIVE" /\ Finish(c, "SUCCEEDED")
     \/ server[c] = "PREEMPTING" /\ Finish(c, "PREEMPTED")
  /\ UNCHANGED <<caller, machine, outcomes, tracking, statuses, feedbacks, reader,
                 connected, sent, reported, restarts>>

Entry(c) == IF server[c] = CancelledAhead THEN "RECALLING" ELSE server[c]

\* The status array, in which a call looks for its own goal.
PublishStatus ==
  /\ ~down /\ HasRoom(statuses)
  /\ statuses' = Deliver("status", statuses, [c \in Calls |-> Entry(c)])
  /\ down' = MeetsClosedStream("status")
  /\ reported' = {c \in Calls : server[c] \in Ended}
  /\ UNCHANGED <<caller, machine, outcomes, tracking, results, feedbacks, reader,
                 connected, server, sent, restarts>>

PublishFeedback ==
  /\ ~down /\ HasRoom(feedbacks)
  /\ \E g \in Calls \cup {Other} :
       /\ g \in Calls => server[g] \in {"ACTIVE", "PREEMPTING"}
       /\ feedbacks' = Deliver("feedback", feedbacks, [d \in Calls |-> g])
  /\ down' = MeetsClosedStream("feedback")
  /\ UNCHANGED <<caller, machine, outcomes, tracking, statuses, results, reader,
                 external>>

\* The result of a goal of another client.
PublishOtherResult ==
  /\ ~down /\ HasRoom(results)
  /\ results' = Deliver("result", results,
                        [d \in Calls |-> [goal |-> Other, status |-> "SUCCEEDED"]])
  /\ down' = MeetsClosedStream("result")
  /\ UNCHANGED <<caller, machine, outcomes, tracking, statuses, feedbacks, reader,
                 external>>

\* A goal that has ended is listed for a while, once at least.
ForgetGoal(c) ==
  /\ ~down /\ c \in reported
  /\ server' = [server EXCEPT ![c] = Unlisted]
  /\ reported' = reported \ {c}
  /\ UNCHANGED <<caller, machine, outcomes, tracking, queues, reader, connected, sent,
                 restarts, down>>

\* The server restarts, with neither goals nor connections.
Restart ==
  /\ ~down /\ restarts < MaxRestarts
  /\ restarts' = restarts + 1
  /\ connected' = {}
  /\ server' = [c \in Calls |-> Unlisted]
  /\ sent' = {} /\ reported' = {}
  /\ UNCHANGED <<caller, machine, outcomes, tracking, queues, reader, down>>

-----------------------------------------------------------------------------
\* With the node gone nothing more is modelled.
Next ==
  \/ Enter \/ Close \/ WaitForPeer \/ CancelAll
  \/ \E c \in Calls :
       \/ SendGoal(c) \/ StartTracker(c) \/ PublishGoal(c) \/ CallAction(c)
       \/ Cancel(c) \/ WaitForResult(c)
       \/ TrackStatus(c) \/ TrackResult(c) \/ TrackFeedback(c) \/ TrackEnds(c)
       \/ ReadFeedback(c) \/ LeaveFeedback(c)
       \/ ReceiveGoal(c) \/ AcceptGoal(c) \/ EndGoal(c) \/ ForgetGoal(c)
  \/ Connect \/ PublishStatus \/ PublishFeedback \/ PublishOtherResult \/ Restart

\* The event loop runs every task that can run; the server ends every goal.
Fairness ==
  \A c \in Calls :
    /\ WF_vars(PublishGoal(c)) /\ WF_vars(ReadFeedback(c))
    /\ WF_vars(TrackResult(c)) /\ WF_vars(TrackEnds(c))
    /\ WF_vars(ReceiveGoal(c)) /\ WF_vars(EndGoal(c))

Spec == Init /\ [][Next]_vars /\ Fairness

-----------------------------------------------------------------------------
(* Properties                                                               *)

\* A call settles once, on its own result or as lost, and wait_for_result
\* returns just that, whichever tracker comes first.
Outcome == INSTANCE CallOutcome WITH
  outcome <- [c \in Calls |-> IF c \in terminated THEN result[c] ELSE Open]

SettlesOnce == Outcome!OutcomeSpec

\* A call is given up as lost only if the server has restarted: neither a goal
\* on its way, nor one that waits for its result, nor one that ended and is
\* forgotten, is taken for lost.
LostMeansRestart ==
  \A c \in terminated : result[c] = Lost => restarts > 0

\* While the server stays up no order of the topics and of cancels shows a call
\* that it takes to be under way an invalid transition: its trackers raise only
\* behind the goal's end.  And nothing takes the node down before a goal has
\* come to its end, or a reader has left its feedback, or the client is closed:
\* from then on a closed stream may be left behind, which any message meets.
FailsOnlyBehindTheEnd ==
  [][down' /\ restarts = 0 =>
       /\ \A c \in Calls : TrackStatus(c) \/ TrackResult(c) =>
            comm_state[c] \in {"WAITING_FOR_RESULT", "DONE"}
       /\ \/ client = "closed"
          \/ \E c \in Calls :
               comm_state[c] \in {"WAITING_FOR_RESULT", "DONE"} \/ reader[c] = "left"]_vars

\* The state of a call that has its result is the one its result reported,
\* however many statuses of the goal were still on their way.  The state of a
\* lost call is LOST; if its result is handled after all, it is that one's,
\* although the call is done and has no result.
EndStateAgrees ==
  ~down => \A c \in terminated :
    goal_state[c] = IF end[c] = Unlisted THEN "LOST" ELSE end[c]

\* A goal published after wait_for_server, to a server that stays up and has the
\* client as a subscriber of its results, is answered.  (wait_for_server returns
\* without the latter.)
GoalAnswered ==
  \A c \in Calls :
    at[c] = "publishing" /\ waiting = << >> /\ "result" \in connected /\ client = "open"
      ~> c \in terminated \/ down \/ restarts > 0 \/ client # "open"

\* The iteration over a call's feedback ends when the call does.
FeedbackEnds ==
  \A c \in Calls : reader[c] = "reading" /\ c \in terminated ~> reader[c] # "reading" \/ down
=============================================================================
