--------------------------- MODULE ActionCallProofs ---------------------------
(***************************************************************************)
(* For any number of calls, queues of any length and any number of restarts *)
(* of the server: a call settles once, on its own result or as lost, and as *)
(* long as the server stays up, it is not lost and no status surprises it.  *)
(***************************************************************************)
EXTENDS ActionCall, TLAPS

-----------------------------------------------------------------------------
(* The queues and the state machine.                                        *)

\* What is taken from a tracker's queue, and what is left.
LEMMA SeqTail ==
  ASSUME NEW M, NEW queue \in [Calls -> Seq(M)], NEW c \in Calls, queue[c] # << >>
  PROVE  /\ Head(queue[c]) \in M
         /\ [queue EXCEPT ![c] = Tail(@)] \in [Calls -> Seq(M)]
<1>1. queue[c] \in Seq(M)
  OBVIOUS
<1>2. Head(queue[c]) \in M /\ Tail(queue[c]) \in Seq(M)
  BY <1>1
<1> QED  BY <1>2

\* A queue stays a queue of its messages when one is added.
LEMMA SeqAppend ==
  ASSUME NEW M, NEW queue \in Seq(M), NEW m \in M
  PROVE  Append(queue, m) \in Seq(M)
  OBVIOUS

\* A message that is delivered is added to the queues, whatever trackers run.
LEMMA DeliverType ==
  ASSUME NEW M, NEW queue \in [Calls -> Seq(M)], NEW message \in [Calls -> M], NEW topic
  PROVE  Deliver(topic, queue, message) \in [Calls -> Seq(M)]
<1>1. ASSUME NEW d \in Calls
      PROVE  queue[d] \in Seq(M) /\ Append(queue[d], message[d]) \in Seq(M)
  <2>1. queue[d] \in Seq(M) /\ message[d] \in M
    OBVIOUS
  <2> QED  BY <2>1, SeqAppend
<1> QED  BY <1>1 DEF Deliver

\* A status never ends a call by itself, and never undoes its end.
LEMMA TransitionType ==
  ASSUME NEW comm \in CommState, NEW goal \in Listed
  PROVE  /\ Transition(comm, goal) \in CommState
         /\ Transition(comm, goal) = "DONE" <=> comm = "DONE"
  BY DEF Transition, CommState, Listed, GoalState, Ended

\* The order of the topics that are waited for.
LEMMA PeerOrderType == PeerOrder \in Seq(Topics)
  BY DEF PeerOrder, Topics

\* The end of a goal at the server.
LEMMA FinishType ==
  ASSUME TypeOK, NEW c \in Calls, NEW status \in Ended, Finish(c, status)
  PROVE  /\ server' \in [Calls -> Listed \cup {Unlisted, CancelledAhead}]
         /\ results' \in [Calls -> Seq(ResultMessage)] /\ down' \in BOOLEAN
<1>1. [d \in Calls |-> [goal |-> c, status |-> status]] \in [Calls -> ResultMessage]
  BY DEF ResultMessage
<1>2. results' \in [Calls -> Seq(ResultMessage)]
  BY <1>1, DeliverType DEF TypeOK, Finish
<1>3. status \in Listed
  BY DEF Listed, GoalState, Ended
<1>4. server' \in [Calls -> Listed \cup {Unlisted, CancelledAhead}]
  BY <1>3 DEF TypeOK, Finish
<1>5. down' \in BOOLEAN
  BY DEF Finish, MeetsClosedStream
<1> QED  BY <1>2, <1>4, <1>5

\* A tracker that leaves its loop.
LEMMA LeavesType ==
  ASSUME TypeOK, NEW c \in Calls, NEW t \in Trackers, NEW leaves, TrackerLeaves(c, t, leaves)
  PROVE  trackers' \in [Calls -> SUBSET Trackers] /\ broken' \subseteq Trackers
<1>1. trackers \in [Calls -> SUBSET Trackers] /\ broken \subseteq Trackers
  BY DEF TypeOK
<1>2. CASE leaves
  BY <1>1, <1>2 DEF TrackerLeaves
<1>3. CASE ~leaves
  BY <1>1, <1>3 DEF TrackerLeaves, tracking
<1> QED  BY <1>2, <1>3

\* Goals that are cancelled at the server.
LEMMA CancelType ==
  ASSUME TypeOK, NEW goals, CancelAtServer(goals)
  PROVE  server' \in [Calls -> Listed \cup {Unlisted, CancelledAhead}]
<1>1. server \in [Calls -> Listed \cup {Unlisted, CancelledAhead}]
  BY DEF TypeOK
<1>2. "RECALLING" \in Listed /\ "PREEMPTING" \in Listed
  BY DEF Listed, GoalState
<1> QED  BY <1>1, <1>2 DEF CancelAtServer

-----------------------------------------------------------------------------
(* Types.                                                                   *)

\* Every step keeps the types.
LEMMA TypeStep == ASSUME TypeOK, [Next]_vars PROVE TypeOK'
<1>1. ASSUME UNCHANGED vars PROVE TypeOK'
  BY <1>1 DEF TypeOK, caller, machine, outcomes, tracking, queues, external, vars
<1>2. ASSUME Enter PROVE TypeOK'
  BY <1>2, CallsAssumption, BoundsAssumption DEF TypeOK, Enter, caller, machine, outcomes, tracking, queues, external, vars
<1>3. ASSUME Close PROVE TypeOK'
  BY <1>3, CallsAssumption, BoundsAssumption DEF TypeOK, Close, caller, machine, outcomes, tracking, queues, external, vars, Topics
<1>4. ASSUME WaitForPeer PROVE TypeOK'
  BY <1>4, CallsAssumption, BoundsAssumption DEF TypeOK, WaitForPeer, caller, machine, outcomes, tracking, queues, external, vars, Topics
<1>5. ASSUME CancelAll PROVE TypeOK'
  <2>1. PICK goals \in SUBSET Calls : CancelAtServer(goals)
    BY <1>5 DEF CancelAll
  <2>2. server' \in [Calls -> Listed \cup {Unlisted, CancelledAhead}]
    BY <2>1, CancelType
  <2> QED  BY <1>5, <2>2 DEF TypeOK, CancelAll, caller, machine, outcomes, tracking, queues
<1>6. ASSUME NEW c \in Calls, SendGoal(c) PROVE TypeOK'
  <2>1. PeerOrder \in Seq(Topics) /\ << >> \in Seq(Topics)
    BY PeerOrderType
  <2>2. waiting' \in Seq(Topics)
    BY <1>6, <2>1 DEF SendGoal
  <2>3. at' \in [Calls -> Points]
    BY <1>6 DEF TypeOK, SendGoal, GoTo, Points
  <2> QED  BY <1>6, <2>2, <2>3 DEF TypeOK, SendGoal, caller, machine, outcomes, tracking, queues, external
<1>7. ASSUME NEW c \in Calls, StartTracker(c) PROVE TypeOK'
  <2>1. trackers' \in [Calls -> SUBSET Trackers]
    <3>1. PICK t \in Trackers : trackers' = [trackers EXCEPT ![c] = @ \cup {t}]
      BY <1>7 DEF StartTracker
    <3> QED  BY <3>1 DEF TypeOK
  <2>2. at' \in [Calls -> Points]
    BY <1>7 DEF TypeOK, StartTracker, Points
  <2> QED  BY <1>7, <2>1, <2>2 DEF TypeOK, StartTracker, caller, machine, outcomes, tracking, queues, external
<1>8. ASSUME NEW c \in Calls, PublishGoal(c) PROVE TypeOK'
  <2>1. waiting' \in Seq(Topics)
    BY <1>8, PeerOrderType DEF PublishGoal, GoalSent
  <2>2. at' \in [Calls -> Points] /\ sent' \subseteq Calls
    BY <1>8 DEF TypeOK, PublishGoal, GoalSent, GoTo, Points
  <2> QED  BY <1>8, <2>1, <2>2 DEF TypeOK, PublishGoal, GoalSent, caller, machine, outcomes, tracking, queues
<1>9. ASSUME NEW c \in Calls, CallAction(c) PROVE TypeOK'
  <2>1. waiting' \in Seq(Topics)
    BY <1>9, PeerOrderType DEF CallAction, GoalSent
  <2>2. at' \in [Calls -> Points] /\ sent' \subseteq Calls
    BY <1>9 DEF TypeOK, CallAction, GoalSent, GoTo, Points
  <2> QED  BY <1>9, <2>1, <2>2 DEF TypeOK, CallAction, GoalSent, caller, machine, outcomes, tracking, queues
<1>10. ASSUME NEW c \in Calls, Cancel(c) PROVE TypeOK'
  <2>1. server' \in [Calls -> Listed \cup {Unlisted, CancelledAhead}]
    <3>1. CASE server[c] = Unlisted
      BY <1>10, <3>1 DEF Cancel, TypeOK
    <3>2. CASE server[c] # Unlisted
      BY <1>10, <3>2, CancelType DEF Cancel
    <3> QED  BY <3>1, <3>2
  <2> QED  BY <1>10, <2>1 DEF TypeOK, Cancel, caller, machine, outcomes, tracking, queues
<1>11. ASSUME NEW c \in Calls, WaitForResult(c) PROVE TypeOK'
  BY <1>11, CallsAssumption, BoundsAssumption DEF TypeOK, WaitForResult, caller, machine, outcomes, tracking, queues, external, vars, GoTo, Points
<1>12. ASSUME NEW c \in Calls, TrackStatus(c) PROVE TypeOK'
  <2>1. /\ Head(statuses[c]) \in Listed \cup {Unlisted}
        /\ statuses' \in [Calls -> Seq(Listed \cup {Unlisted})]
    BY <1>12, SeqTail DEF TypeOK, TrackStatus
  <2>2. Head(statuses[c]) # Unlisted => Transition(comm_state[c], Head(statuses[c])) \in CommState
    BY <2>1, TransitionType DEF TypeOK
  <2>3. comm_state' \in [Calls -> CommState]
    BY <1>12, <2>2 DEF TypeOK, TrackStatus, CommState
  <2>4. goal_state' \in [Calls -> GoalState]
    BY <1>12, <2>1 DEF TypeOK, TrackStatus, Listed, GoalState
  <2>5. terminated' \subseteq Calls
    BY <1>12 DEF TypeOK, TrackStatus
  <2>8. trackers' \in [Calls -> SUBSET Trackers] /\ broken' \subseteq Trackers
    <3>1. "status" \in Trackers /\ \E leaves : TrackerLeaves(c, "status", leaves)
      BY <1>12 DEF TrackStatus, Trackers
    <3> QED  BY <3>1, LeavesType
  <2>6. down' \in BOOLEAN
    BY <1>12 DEF TrackStatus, InvalidTransition
  <2> QED  BY <1>12, <2>1, <2>3, <2>4, <2>5, <2>6, <2>8 DEF TypeOK, TrackStatus, caller, machine, outcomes, tracking, queues, external
<1>13. ASSUME NEW c \in Calls, TrackResult(c) PROVE TypeOK'
  <2>1. /\ Head(results[c]) \in ResultMessage
        /\ results' \in [Calls -> Seq(ResultMessage)]
    BY <1>13, SeqTail DEF TypeOK, TrackResult
  <2>2. Head(results[c]).status \in Ended /\ Head(results[c]).goal \in Calls \cup {Other}
    BY <2>1 DEF ResultMessage
  <2>3. comm_state' \in [Calls -> CommState]
    BY <1>13 DEF TypeOK, TrackResult, CommState
  <2>4. goal_state' \in [Calls -> GoalState]
    BY <1>13, <2>2 DEF TypeOK, TrackResult, GoalState
  <2>5. terminated' \subseteq Calls
    BY <1>13 DEF TypeOK, TrackResult
  <2>8. trackers' \in [Calls -> SUBSET Trackers] /\ broken' \subseteq Trackers
    <3>1. "result" \in Trackers /\ \E leaves : TrackerLeaves(c, "result", leaves)
      BY <1>13 DEF TrackResult, Trackers
    <3> QED  BY <3>1, LeavesType
  <2>6. /\ result' \in [Calls -> Calls \cup {Other, Lost}]
        /\ end' \in [Calls -> Ended \cup {Unlisted}]
    BY <1>13, <2>2 DEF TypeOK, TrackResult
  <2>7. down' \in BOOLEAN
    BY <1>13 DEF TrackResult, InvalidTransition, IsResultOf
  <2> QED  BY <1>13, <2>1, <2>3, <2>4, <2>5, <2>6, <2>7, <2>8 DEF TypeOK, TrackResult, caller, machine, outcomes, tracking, queues, external
<1>14. ASSUME NEW c \in Calls, TrackFeedback(c) PROVE TypeOK'
  BY <1>14, CallsAssumption, BoundsAssumption DEF TypeOK, TrackFeedback, caller, machine, outcomes, tracking, queues, external, vars
<1>15. ASSUME NEW c \in Calls, TrackEnds(c) PROVE TypeOK'
  BY <1>15, CallsAssumption, BoundsAssumption DEF TypeOK, TrackEnds, caller, machine, outcomes, tracking, queues, external, vars
<1>16. ASSUME NEW c \in Calls, ReadFeedback(c) PROVE TypeOK'
  BY <1>16, CallsAssumption, BoundsAssumption DEF TypeOK, ReadFeedback, caller, machine, outcomes, tracking, queues, external, vars
<1>17. ASSUME NEW c \in Calls, LeaveFeedback(c) PROVE TypeOK'
  BY <1>17, CallsAssumption, BoundsAssumption DEF TypeOK, LeaveFeedback, caller, machine, outcomes, tracking, queues, external, vars
<1>18. ASSUME NEW c \in Calls, ReceiveGoal(c) PROVE TypeOK'
  <2>1. /\ server' \in [Calls -> Listed \cup {Unlisted, CancelledAhead}]
        /\ results' \in [Calls -> Seq(ResultMessage)] /\ down' \in BOOLEAN
    <3>1. CASE Finish(c, "RECALLED")
      BY <3>1, FinishType DEF Ended
    <3>2. CASE server' = [server EXCEPT ![c] = "PENDING"] /\ UNCHANGED <<results, down>>
      BY <3>2 DEF TypeOK, Listed, GoalState, Ended
    <3> QED  BY <1>18, <3>1, <3>2 DEF ReceiveGoal
  <2>2. sent' \subseteq Calls
    BY <1>18 DEF TypeOK, ReceiveGoal
  <2> QED  BY <1>18, <2>1, <2>2 DEF TypeOK, ReceiveGoal, caller, machine, outcomes, tracking
<1>19. ASSUME NEW c \in Calls, AcceptGoal(c) PROVE TypeOK'
  <2>1. server' \in [Calls -> Listed \cup {Unlisted, CancelledAhead}]
    <3>1. "ACTIVE" \in Listed /\ "PREEMPTING" \in Listed
      BY DEF Listed, GoalState
    <3> QED  BY <1>19, <3>1 DEF TypeOK, AcceptGoal
  <2> QED  BY <1>19, <2>1 DEF TypeOK, AcceptGoal, caller, machine, outcomes, tracking, queues, external
<1>20. ASSUME NEW c \in Calls, EndGoal(c) PROVE TypeOK'
  <2>1. \E status \in Ended : Finish(c, status)
    BY <1>20 DEF EndGoal, Ended
  <2>2. /\ server' \in [Calls -> Listed \cup {Unlisted, CancelledAhead}]
        /\ results' \in [Calls -> Seq(ResultMessage)] /\ down' \in BOOLEAN
    BY <2>1, FinishType
  <2> QED  BY <1>20, <2>2 DEF TypeOK, EndGoal, caller, machine, outcomes, tracking, queues, external
<1>21. ASSUME NEW c \in Calls, ForgetGoal(c) PROVE TypeOK'
  BY <1>21, CallsAssumption, BoundsAssumption DEF TypeOK, ForgetGoal, caller, machine, outcomes, tracking, queues, external, vars
<1>22. ASSUME Connect PROVE TypeOK'
  BY <1>22, CallsAssumption, BoundsAssumption DEF TypeOK, Connect, caller, machine, outcomes, tracking, queues, external, vars
<1>23. ASSUME PublishStatus PROVE TypeOK'
  <2>1. [c \in Calls |-> Entry(c)] \in [Calls -> Listed \cup {Unlisted}]
    BY DEF TypeOK, Entry, Listed, GoalState, Ended
  <2>2. statuses' \in [Calls -> Seq(Listed \cup {Unlisted})]
    BY <1>23, <2>1, DeliverType DEF TypeOK, PublishStatus
  <2>3. reported' \subseteq Calls /\ down' \in BOOLEAN
    BY <1>23 DEF PublishStatus, MeetsClosedStream
  <2> QED  BY <1>23, <2>2, <2>3 DEF TypeOK, PublishStatus, caller, machine, outcomes, tracking, queues, external
<1>24. ASSUME PublishFeedback PROVE TypeOK'
  <2>1. PICK g \in Calls \cup {Other} : feedbacks' = Deliver("feedback", feedbacks, [d \in Calls |-> g])
    BY <1>24 DEF PublishFeedback
  <2>2. feedbacks' \in [Calls -> Seq(Calls \cup {Other})]
    BY <2>1, DeliverType DEF TypeOK
  <2>3. down' \in BOOLEAN
    BY <1>24 DEF PublishFeedback, MeetsClosedStream
  <2> QED  BY <1>24, <2>2, <2>3 DEF TypeOK, PublishFeedback, caller, machine, outcomes, tracking, queues, external
<1>25. ASSUME PublishOtherResult PROVE TypeOK'
  <2>1. [d \in Calls |-> [goal |-> Other, status |-> "SUCCEEDED"]] \in [Calls -> ResultMessage]
    BY DEF ResultMessage, Ended
  <2>2. results' \in [Calls -> Seq(ResultMessage)]
    BY <1>25, <2>1, DeliverType DEF TypeOK, PublishOtherResult
  <2>3. down' \in BOOLEAN
    BY <1>25 DEF PublishOtherResult, MeetsClosedStream
  <2> QED  BY <1>25, <2>2, <2>3 DEF TypeOK, PublishOtherResult, caller, machine, outcomes, tracking, queues, external
<1>26. ASSUME Restart PROVE TypeOK'
  BY <1>26, CallsAssumption, BoundsAssumption DEF TypeOK, Restart, caller, machine, outcomes, tracking, queues, external, vars
<1> QED  BY <1>1, <1>2, <1>3, <1>4, <1>5, <1>6, <1>7, <1>8, <1>9, <1>10, <1>11, <1>12, <1>13, <1>14, <1>15, <1>16, <1>17, <1>18, <1>19, <1>20, <1>21, <1>22, <1>23, <1>24, <1>25, <1>26 DEF Next

\* The initial state has the types.
LEMMA TypeInit == Init => TypeOK
<1> SUFFICES ASSUME Init PROVE TypeOK
  OBVIOUS
<1>1. waiting \in Seq(Topics)
  BY DEF Init, PeerOrder, Topics
<1>2. /\ client \in {"new", "open", "closed"}
      /\ at \in [Calls -> Points]
      /\ goal_state \in [Calls -> GoalState]
      /\ comm_state \in [Calls -> CommState]
      /\ terminated \subseteq Calls
      /\ result \in [Calls -> Calls \cup {Other, Lost}]
      /\ answered \in [Calls -> Calls \cup {Other, Lost, Open}]
      /\ trackers \in [Calls -> SUBSET Trackers] /\ broken \subseteq Trackers
      /\ end \in [Calls -> Ended \cup {Unlisted}]
  BY DEF Init, Points, GoalState, CommState
<1>3. /\ statuses \in [Calls -> Seq(Listed \cup {Unlisted})]
      /\ results \in [Calls -> Seq(ResultMessage)]
      /\ feedbacks \in [Calls -> Seq(Calls \cup {Other})]
  BY DEF Init
<1>4. restarts \in 0..MaxRestarts
  BY BoundsAssumption DEF Init
<1>5. /\ reader \in [Calls -> {"none", "reading", "left", "ended"}]
      /\ connected \subseteq Topics
      /\ server \in [Calls -> Listed \cup {Unlisted, CancelledAhead}]
      /\ sent \subseteq Calls /\ reported \subseteq Calls
      /\ down \in BOOLEAN
  BY DEF Init
<1> QED  BY <1>1, <1>2, <1>3, <1>4, <1>5 DEF TypeOK

\* Every state of the action client and its calls is well typed.
THEOREM TypeCorrect == Spec => []TypeOK
<1> QED  BY TypeInit, TypeStep, PTL DEF Spec

-----------------------------------------------------------------------------
(* Outcomes: what is known of a call before and after its event is set.     *)

\* A call has no result but its own, none before its event is set, and its event
\* is set just if it is done.
Outcomes ==
  /\ \A c \in Calls : c \notin terminated => result[c] = Lost
  /\ \A c \in Calls : result[c] \in {c, Lost}
  /\ \A c \in Calls : c \in terminated <=> comm_state[c] = "DONE"

CallInv == TypeOK /\ Outcomes

\* The two trackers that settle a call are the only steps that touch these.
Untouched == UNCHANGED <<terminated, result, end, comm_state, goal_state>>

\* A status leaves the result alone, and a call that is done stays done.
LEMMA StatusStep ==
  ASSUME CallInv, NEW c \in Calls, TrackStatus(c)
  PROVE  /\ Outcomes'
         /\ terminated' \in {terminated, terminated \cup {c}}
         /\ result' = result
<1> DEFINE status == Head(statuses[c])
           lost == status = Unlisted /\ ~MayBeUnlisted(comm_state[c])
           fails == status # Unlisted /\ InvalidTransition(comm_state[c], status)
           comm == IF lost THEN "DONE"
                   ELSE IF fails \/ status = Unlisted THEN comm_state[c]
                   ELSE Transition(comm_state[c], status)
           terminal == comm = "DONE" /\ ~fails
<1>1. /\ status \in Listed \cup {Unlisted}
      /\ terminated \subseteq Calls
      /\ comm_state \in [Calls -> CommState]
  BY SeqTail DEF TrackStatus, CallInv, TypeOK
<1>2. /\ comm_state' = [comm_state EXCEPT ![c] = comm]
      /\ terminated' = IF terminal THEN terminated \cup {c} ELSE terminated
      /\ result' = result
  BY DEF TrackStatus
<1> HIDE DEF status
<1>3. /\ comm_state[c] = "DONE" => comm = "DONE" /\ ~lost
      /\ fails => comm = comm_state[c]
  BY <1>1 DEF MayBeUnlisted, Transition
<1>4. Outcomes'
  BY <1>1, <1>2, <1>3 DEF CallInv, Outcomes
<1> QED  BY <1>2, <1>4

\* A result is taken by the call it belongs to, if that is not done.
LEMMA ResultStep ==
  ASSUME CallInv, NEW c \in Calls, TrackResult(c)
  PROVE  /\ Outcomes'
         /\ \/ terminated' = terminated /\ result' = result
            \/ /\ c \notin terminated /\ terminated' = terminated \cup {c}
               /\ result' = [result EXCEPT ![c] = c]
<1> DEFINE message == Head(results[c])
           own == message.goal = c
           fails == /\ own /\ comm_state[c] # "DONE"
                    /\ InvalidTransition(comm_state[c], message.status)
           taken == own /\ comm_state[c] # "DONE" /\ ~fails
<1>1. /\ terminated \subseteq Calls /\ result \in [Calls -> Calls \cup {Other, Lost}]
      /\ comm_state \in [Calls -> CommState]
  BY DEF CallInv, TypeOK
<1>2. /\ comm_state' = [comm_state EXCEPT ![c] = IF taken THEN "DONE" ELSE @]
      /\ terminated' = IF taken THEN terminated \cup {c} ELSE terminated
      /\ result' = [result EXCEPT ![c] = IF taken THEN message.goal ELSE @]
  BY DEF TrackResult, IsResultOf
<1> HIDE DEF message, fails
<1>3. taken => c \notin terminated /\ message.goal = c
  BY DEF CallInv, Outcomes
<1>4. \/ terminated' = terminated /\ result' = result
      \/ /\ c \notin terminated /\ terminated' = terminated \cup {c}
         /\ result' = [result EXCEPT ![c] = c]
  BY <1>1, <1>2, <1>3
<1>5. Outcomes'
  BY <1>1, <1>2, <1>3 DEF CallInv, Outcomes
<1> QED  BY <1>4, <1>5

\* The steps of the caller, of the reader and of the server, and those of the
\* tracker of feedback, touch no outcome.
LEMMA OtherSteps ==
  ASSUME Next, ~(\E c \in Calls : TrackStatus(c) \/ TrackResult(c))
  PROVE  ~down /\ Untouched
<1> USE DEF Untouched, machine, outcomes
<1>1. ASSUME Enter \/ Close \/ WaitForPeer \/ CancelAll PROVE ~down /\ Untouched
  BY <1>1 DEF Enter, Close, WaitForPeer, CancelAll
<1>2. ASSUME NEW c \in Calls,
             \/ SendGoal(c) \/ StartTracker(c) \/ PublishGoal(c) \/ CallAction(c)
             \/ Cancel(c) \/ WaitForResult(c)
      PROVE  ~down /\ Untouched
  BY <1>2 DEF SendGoal, StartTracker, PublishGoal, CallAction, GoalSent, Cancel, WaitForResult
<1>3. ASSUME NEW c \in Calls,
             TrackFeedback(c) \/ TrackEnds(c) \/ ReadFeedback(c) \/ LeaveFeedback(c)
      PROVE  ~down /\ Untouched
  BY <1>3 DEF TrackFeedback, TrackEnds, ReadFeedback, LeaveFeedback
<1>4. ASSUME NEW c \in Calls,
             ReceiveGoal(c) \/ AcceptGoal(c) \/ EndGoal(c) \/ ForgetGoal(c)
      PROVE  ~down /\ Untouched
  BY <1>4 DEF ReceiveGoal, AcceptGoal, EndGoal, ForgetGoal
<1>5. ASSUME Connect \/ PublishStatus \/ PublishFeedback \/ PublishOtherResult \/ Restart
      PROVE  ~down /\ Untouched
  BY <1>5 DEF Connect, PublishStatus, PublishFeedback, PublishOtherResult, Restart
<1> QED  BY <1>1, <1>2, <1>3, <1>4, <1>5 DEF Next

\* Every step keeps the invariant.
LEMMA CallStep == ASSUME CallInv, [Next]_vars PROVE CallInv'
<1>1. TypeOK'
  BY TypeStep DEF CallInv
<1>2. CASE UNCHANGED vars
  BY <1>1, <1>2 DEF CallInv, Outcomes, vars, machine, outcomes
<1>3. CASE \E c \in Calls : TrackStatus(c) \/ TrackResult(c)
  BY <1>1, <1>3, StatusStep, ResultStep DEF CallInv
<1>4. CASE Next /\ ~(\E c \in Calls : TrackStatus(c) \/ TrackResult(c))
  BY <1>1, <1>4, OtherSteps DEF CallInv, Outcomes, Untouched
<1> QED  BY <1>2, <1>3, <1>4

\* No call has an outcome at first.
LEMMA CallInit == Init => CallInv
  BY TypeInit DEF Init, CallInv, Outcomes

\* The invariant holds in every state.
LEMMA CallInvariant == Spec => []CallInv
<1> QED  BY CallInit, CallStep, PTL DEF Spec

-----------------------------------------------------------------------------
(* Refinement of CallOutcome.                                               *)

\* A call that neither settles nor answers has the outcome it had.
LEMMA StutterStep ==
  ASSUME UNCHANGED <<terminated, result, answered>>
  PROVE  UNCHANGED Outcome!outcomeVars
  BY DEF Outcome!outcomeVars

\* Every step is one of the abstract specification, or a stutter of it.
LEMMA OutcomeStep ==
  ASSUME CallInv, [Next]_vars
  PROVE  [Outcome!OutcomeNext]_Outcome!outcomeVars
<1>1. ASSUME NEW c \in Calls, c \notin terminated, terminated' = terminated \cup {c},
             UNCHANGED answered,
             result' = result \/ result' = [result EXCEPT ![c] = c]
      PROVE  Outcome!Settle(c)
  <2>1. result[c] = Lost /\ result \in [Calls -> Calls \cup {Other, Lost}]
    BY <1>1 DEF CallInv, Outcomes, TypeOK
  <2>2. result'[c] \in {c, Lost} /\ \A d \in Calls \ {c} : result'[d] = result[d]
    BY <1>1, <2>1
  <2> QED  BY <1>1, <2>2 DEF Outcome!Settle
<1>2. CASE UNCHANGED vars
  BY <1>2, StutterStep DEF vars, caller, outcomes
<1>3. ASSUME NEW c \in Calls, TrackStatus(c) PROVE [Outcome!OutcomeNext]_Outcome!outcomeVars
  <2>1. /\ terminated' = terminated \/ (c \notin terminated /\ terminated' = terminated \cup {c})
        /\ result' = result /\ UNCHANGED answered
    BY <1>3, StatusStep DEF TrackStatus, caller
  <2> QED  BY <1>1, <2>1, StutterStep DEF Outcome!OutcomeNext
<1>4. ASSUME NEW c \in Calls, TrackResult(c) PROVE [Outcome!OutcomeNext]_Outcome!outcomeVars
  <2>1. UNCHANGED answered
    BY <1>4 DEF TrackResult, caller
  <2> QED  BY <1>1, <1>4, <2>1, ResultStep, StutterStep DEF Outcome!OutcomeNext
<1>5. ASSUME NEW c \in Calls, WaitForResult(c) PROVE [Outcome!OutcomeNext]_Outcome!outcomeVars
  <2>1. /\ c \in terminated /\ answered' = [answered EXCEPT ![c] = result[c]]
        /\ UNCHANGED <<terminated, result>>
    BY <1>5 DEF WaitForResult, outcomes
  <2>2. result[c] # Open
    BY <1>5, CallsAssumption DEF CallInv, Outcomes
  <2>3. Outcome!Answer(c)
    BY <2>1, <2>2 DEF Outcome!Answer
  <2> QED  BY <2>3 DEF Outcome!OutcomeNext
<1>6. CASE Next /\ ~(\E c \in Calls : TrackStatus(c) \/ TrackResult(c) \/ WaitForResult(c))
  <2>1. UNCHANGED <<terminated, result>>
    BY <1>6, OtherSteps DEF Untouched
  <2>2. UNCHANGED answered
    BY <1>6 DEF Next, Enter, Close, WaitForPeer, CancelAll, SendGoal, StartTracker,
       PublishGoal, CallAction, GoalSent, Cancel, TrackFeedback, TrackEnds, ReadFeedback,
       LeaveFeedback, ReceiveGoal, AcceptGoal, EndGoal, ForgetGoal, Connect,
       PublishStatus, PublishFeedback, PublishOtherResult, Restart, caller
  <2> QED  BY <2>1, <2>2, StutterStep
<1> QED  BY <1>2, <1>3, <1>4, <1>5, <1>6

\* A call settles at most once, on its own result or as lost, and whoever waits
\* for it gets that: whichever of the trackers of status and of results comes
\* first, and whatever the server does.
THEOREM SettlesOnceHolds == Spec => SettlesOnce
<1>1. Init => Outcome!OutcomeInit
  BY DEF Init, Outcome!OutcomeInit
<1>2. CallInv /\ [Next]_vars => [Outcome!OutcomeNext]_Outcome!outcomeVars
  BY OutcomeStep
<1> QED  BY <1>1, <1>2, CallInvariant, PTL DEF Spec, SettlesOnce, Outcome!OutcomeSpec

-----------------------------------------------------------------------------
(* The server's side of a call.                                             *)

Published == {"waiting", "returned", "unanswered"}
Live == {"PENDING", "ACTIVE", "RECALLING", "PREEMPTING"}

\* A server knows only of goals that were published, each once; the trackers of
\* a call run from before that to its end.
ServerInv ==
  /\ \A c \in Calls : server[c] # Unlisted \/ c \in sent => at[c] \in Published
  /\ \A c \in sent : server[c] \in {Unlisted, CancelledAhead}
  /\ \A c \in reported : server[c] \in Ended
  /\ \A c \in Calls :
       at[c] \in Published \cup {"publishing"} /\ c \notin terminated => trackers[c] = Trackers

LEMMA ServerInit == Init => ServerInv
  BY DEF Init, ServerInv, Published

LEMMA ServerStep == ASSUME TypeOK, ServerInv, [Next]_vars PROVE ServerInv'
<1> USE DEF caller, machine, outcomes, tracking, queues, external, Published
<1>0. /\ at \in [Calls -> Points] /\ trackers \in [Calls -> SUBSET Trackers]
      /\ server \in [Calls -> Listed \cup {Unlisted, CancelledAhead}]
      /\ sent \subseteq Calls /\ reported \subseteq Calls /\ terminated \subseteq Calls
  BY DEF TypeOK
<1>1. ASSUME UNCHANGED <<at, terminated, trackers, server, sent, reported>> PROVE ServerInv'
  BY <1>1 DEF ServerInv
<1>2. CASE UNCHANGED vars \/ Enter \/ Close \/ WaitForPeer \/ Connect \/ PublishFeedback \/ PublishOtherResult
  BY <1>1, <1>2
     DEF vars, Enter, Close, WaitForPeer, Connect, PublishFeedback, PublishOtherResult
<1>3. ASSUME NEW c \in Calls, TrackFeedback(c) \/ ReadFeedback(c) \/ LeaveFeedback(c) PROVE ServerInv'
  BY <1>1, <1>3 DEF TrackFeedback, ReadFeedback, LeaveFeedback
<1>4. ASSUME NEW goals \in SUBSET Calls, CancelAtServer(goals),
             UNCHANGED <<at, terminated, trackers, sent, reported>>
      PROVE  ServerInv'
  <2>1. \A c \in Calls : server'[c] = server[c]
                         \/ (server[c] \in {"PENDING", "ACTIVE"} /\ server'[c] \in {"RECALLING", "PREEMPTING"})
    BY <1>4 DEF CancelAtServer
  <2>2. \A c \in Calls : server[c] = Unlisted => server'[c] = Unlisted
    BY <2>1 DEF Unlisted
  <2>3. \A c \in sent : server'[c] \in {Unlisted, CancelledAhead}
    BY <1>0, <2>1 DEF ServerInv, Unlisted, CancelledAhead
  <2>4. \A c \in reported : server'[c] \in Ended
    BY <1>0, <2>1 DEF ServerInv, Ended
  <2> QED  BY <1>4, <2>2, <2>3, <2>4 DEF ServerInv
<1>5. CASE CancelAll
  BY <1>4, <1>5 DEF CancelAll
<1>6. ASSUME NEW c \in Calls, SendGoal(c) \/ PublishGoal(c) \/ CallAction(c) \/ WaitForResult(c)
      PROVE  ServerInv'
  BY <1>0, <1>6 DEF ServerInv, SendGoal, PublishGoal, CallAction, GoalSent, GoTo, WaitForResult
<1>7. ASSUME NEW c \in Calls, StartTracker(c) PROVE ServerInv'
  <2>1. \A d \in Calls : d # c => at'[d] = at[d] /\ trackers'[d] = trackers[d]
    BY <1>0, <1>7 DEF StartTracker
  <2>2. /\ at[c] = "starting" /\ at'[c] \in {"starting", "publishing"}
        /\ at'[c] = "publishing" => trackers'[c] = Trackers
        /\ UNCHANGED <<terminated, server, sent, reported>>
    BY <1>0, <1>7 DEF StartTracker
  <2> QED  BY <1>0, <2>1, <2>2 DEF ServerInv
<1>8. ASSUME NEW c \in Calls, Cancel(c) PROVE ServerInv'
  <2>1. CASE server[c] = Unlisted
    BY <1>0, <1>8, <2>1 DEF Cancel, ServerInv, Ended, Unlisted
  <2>2. CASE server[c] # Unlisted
    BY <1>4, <1>8, <2>2 DEF Cancel
  <2> QED  BY <2>1, <2>2
<1>9. ASSUME NEW c \in Calls, TrackStatus(c) \/ TrackResult(c) \/ TrackEnds(c) PROVE ServerInv'
  <2>1. /\ UNCHANGED <<at, server, sent, reported>> /\ terminated \subseteq terminated'
        /\ \A d \in Calls : trackers'[d] = trackers[d] \/ d \in terminated'
    BY <1>0, <1>9 DEF TrackStatus, TrackResult, TrackEnds, TrackerLeaves
  <2> QED  BY <2>1 DEF ServerInv
<1>10. ASSUME NEW c \in Calls, ReceiveGoal(c) PROVE ServerInv'
  <2>1. /\ c \in sent /\ sent' = sent \ {c} /\ UNCHANGED <<at, terminated, trackers, reported>>
        /\ \A d \in Calls : d # c => server'[d] = server[d]
    BY <1>0, <1>10 DEF ReceiveGoal, Finish
  <2>2. c \notin reported
    BY <1>0, <2>1 DEF ServerInv, Ended, Unlisted, CancelledAhead
  <2> QED  BY <1>0, <2>1, <2>2 DEF ServerInv
<1>11. ASSUME NEW c \in Calls, AcceptGoal(c) \/ EndGoal(c) PROVE ServerInv'
  <2>1. /\ server[c] \in Live /\ UNCHANGED <<at, terminated, trackers, sent, reported>>
        /\ \A d \in Calls : d # c => server'[d] = server[d]
    BY <1>0, <1>11 DEF AcceptGoal, EndGoal, Finish, Live
  <2>2. c \notin reported /\ c \notin sent /\ server[c] # Unlisted
    BY <1>0, <2>1 DEF ServerInv, Ended, Unlisted, CancelledAhead, Live
  <2> QED  BY <1>0, <2>1, <2>2 DEF ServerInv
<1>12. ASSUME NEW c \in Calls, ForgetGoal(c) PROVE ServerInv'
  BY <1>0, <1>12 DEF ForgetGoal, ServerInv
<1>13. CASE PublishStatus
  BY <1>0, <1>13 DEF PublishStatus, ServerInv
<1>14. CASE Restart
  BY <1>0, <1>14 DEF Restart, ServerInv
<1> QED
  BY <1>2, <1>3, <1>5, <1>6, <1>7, <1>8, <1>9, <1>10, <1>11, <1>12, <1>13, <1>14 DEF Next

-----------------------------------------------------------------------------
(* The order of what a call is told, while the server stays up.             *)

\* The statuses y that may come next after x.  The end of a goal may be followed
\* by anything.
Follows(x, y) ==
  \/ x \in Ended \cup {Unlisted}
  \/ x = "PENDING" /\ y \in Live \cup Ended
  \/ x = "ACTIVE" /\ y \in {"ACTIVE", "PREEMPTING", "SUCCEEDED", "PREEMPTED", "ABORTED"}
  \/ x = "RECALLING" /\ y \in {"RECALLING", "PREEMPTING"} \cup Ended
  \/ x = "PREEMPTING" /\ y \in {"PREEMPTING", "SUCCEEDED", "PREEMPTED", "ABORTED"}

\* The last status a call has taken, and the last it has been sent.
Past(c) == IF comm_state[c] = "WAITING_FOR_GOAL_ACK" THEN Unlisted ELSE comm_state[c]
Latest(c) == IF statuses[c] = << >> THEN Past(c) ELSE statuses[c][Len(statuses[c])]

\* The goal has not come to its end at the server yet.
Unended(c) == c \in sent \/ server[c] \in Live \/ at[c] \in {"new", "starting", "publishing"}

\* The status of the goal's result, if it is queued.
OwnEnds(c) == {results[c][j].status : j \in {i \in DOMAIN results[c] : results[c][i].goal = c}}

\* From the status the call has taken over those that are queued to the one at
\* the server each follows the one before it; up to the goal's end, the last one
\* follows all of them, and so does the result.
Order(c) ==
  /\ comm_state[c] \in Live \cup {"WAITING_FOR_GOAL_ACK"}
  /\ statuses[c] # << >> => Follows(Past(c), statuses[c][1])
  /\ \A i \in 1..(Len(statuses[c]) - 1) : Follows(statuses[c][i], statuses[c][i + 1])
  /\ Follows(Latest(c), Entry(c))
  /\ Unended(c) =>
       /\ Follows(Past(c), Entry(c))
       /\ \A i \in 1..Len(statuses[c]) :
            statuses[c][i] \notin Ended /\ Follows(statuses[c][i], Entry(c))
       /\ OwnEnds(c) = {}
  /\ \A final \in OwnEnds(c) :
       /\ Follows(Past(c), final)
       /\ \A i \in 1..Len(statuses[c]) : Follows(statuses[c][i], final)
  /\ c \in reported => Latest(c) \in Ended \cup {Unlisted}
  /\ "status" \notin connected => statuses[c] = << >> /\ comm_state[c] = "WAITING_FOR_GOAL_ACK"

Underway(c) == comm_state[c] \notin {"WAITING_FOR_RESULT", "DONE"}

OrderInv == restarts = 0 => \A c \in Calls : Underway(c) => Order(c)

LostInv == \A c \in Calls : comm_state[c] = "DONE" /\ result[c] = Lost => restarts > 0

\* What follows is no invalid transition, and a goal that has been listed stays
\* so up to its end.
LEMMA FollowsValid ==
  ASSUME NEW c \in Calls, comm_state[c] \in Live \cup {"WAITING_FOR_GOAL_ACK"}, NEW y,
         Follows(Past(c), y)
  PROVE  /\ ~InvalidTransition(comm_state[c], y)
         /\ y = Unlisted => comm_state[c] = "WAITING_FOR_GOAL_ACK"
  BY DEF Follows, Past, Live, Ended, Unlisted, InvalidTransition

\* The steps of a goal at the server: what comes after the earlier status comes
\* after the later one.
LEMMA FollowsOn ==
  ASSUME NEW x, x \notin Ended
  PROVE  /\ Follows(x, Unlisted) => \A y : Follows(x, y)
         /\ Follows(x, "PENDING") =>
              \A y \in {"ACTIVE", "RECALLING", "REJECTED"} : Follows(x, y)
         /\ Follows(x, "ACTIVE") => \A y \in {"PREEMPTING", "SUCCEEDED"} : Follows(x, y)
         /\ Follows(x, "RECALLING") => \A y \in {"PREEMPTING", "RECALLED"} : Follows(x, y)
         /\ Follows(x, "PREEMPTING") => Follows(x, "PREEMPTED")
  BY DEF Follows, Live, Ended, Unlisted

\* What is left of the results when one is taken or more are added.
LEMMA OwnTaken ==
  ASSUME TypeOK, NEW c \in Calls, results[c] # << >>, results'[c] = Tail(results[c])
  PROVE  OwnEnds(c)' \subseteq OwnEnds(c)
<1>1. results[c] \in Seq(ResultMessage)
  BY DEF TypeOK
<1>2. /\ DOMAIN results[c] = 1..Len(results[c]) /\ Len(results[c]) \in Nat
      /\ DOMAIN results'[c] = 1..(Len(results[c]) - 1)
      /\ \A i \in DOMAIN results'[c] : results'[c][i] = results[c][i + 1]
  BY <1>1
<1>3. \A i \in DOMAIN results'[c] : i + 1 \in DOMAIN results[c]
  BY <1>2
<1> QED  BY <1>2, <1>3 DEF OwnEnds

LEMMA OwnDelivered ==
  ASSUME TypeOK, NEW c \in Calls, NEW g, NEW final,
         results' = Deliver("result", results, [d \in Calls |-> [goal |-> g, status |-> final]])
  PROVE  OwnEnds(c)' \subseteq OwnEnds(c) \cup (IF g = c THEN {final} ELSE {})
<1> DEFINE m == [goal |-> g, status |-> final]
<1>1. results[c] \in Seq(ResultMessage)
  BY DEF TypeOK
<1>2. results'[c] \in {results[c], Append(results[c], m)}
  BY DEF Deliver
<1>3. m.goal = g /\ m.status = final
  OBVIOUS
<1> HIDE DEF m
<1>4. CASE results'[c] = Append(results[c], m)
  <2>1. \A i \in DOMAIN results'[c] :
          \/ i \in DOMAIN results[c] /\ results'[c][i] = results[c][i]
          \/ results'[c][i] = m
    BY <1>1, <1>4
  <2> QED  BY <1>3, <2>1 DEF OwnEnds
<1>5. CASE results'[c] = results[c]
  BY <1>5 DEF OwnEnds
<1> QED  BY <1>2, <1>4, <1>5

\* A step of the server or of others, as a call sees it.
LEMMA ServerMoves ==
  ASSUME TypeOK, NEW c \in Calls, Order(c),
         comm_state'[c] = comm_state[c], statuses'[c] = statuses[c],
         Unended(c)' => Unended(c) /\ OwnEnds(c)' = {},
         Unended(c) => \A x : x \notin Ended /\ Follows(x, Entry(c)) => Follows(x, Entry(c)'),
         ~Unended(c) => Follows(Latest(c), Entry(c)'),
         \A final \in OwnEnds(c)' :
           \/ final \in OwnEnds(c)
           \/ Unended(c) /\ \A x : x \notin Ended /\ Follows(x, Entry(c)) => Follows(x, final),
         c \in reported' => c \in reported,
         "status" \in connected => "status" \in connected'
  PROVE  Order(c)'
<1>1. Past(c)' = Past(c) /\ Latest(c)' = Latest(c) /\ Past(c) \notin Ended
  BY DEF Past, Latest, Order, Live, Ended, Unlisted
<1>2. Unended(c) =>
        /\ Follows(Past(c), Entry(c)')
        /\ \A i \in 1..Len(statuses[c]) : Follows(statuses[c][i], Entry(c)')
  BY <1>1 DEF Order
<1>3. Follows(Latest(c), Entry(c)')
  <2>1. CASE Unended(c)
    <3>1. statuses[c] # << >> => Len(statuses[c]) \in 1..Len(statuses[c])
      <4>1. statuses[c] \in Seq(Listed \cup {Unlisted})
        BY DEF TypeOK
      <4>2. statuses[c] # << >> => Len(statuses[c]) # 0 /\ Len(statuses[c]) \in Nat
        BY <4>1
      <4> QED  BY <4>2
    <3> QED  BY <1>2, <2>1, <3>1 DEF Latest
  <2> QED  BY <2>1
<1>4. \A final \in OwnEnds(c)' :
        /\ Follows(Past(c), final)
        /\ \A i \in 1..Len(statuses[c]) : Follows(statuses[c][i], final)
  BY <1>1 DEF Order
<1> QED  BY <1>1, <1>2, <1>3, <1>4 DEF Order

\* A step that a call sees nothing of.
LEMMA NothingSeen ==
  ASSUME TypeOK, NEW c \in Calls, Order(c),
         comm_state'[c] = comm_state[c], statuses'[c] = statuses[c],
         OwnEnds(c)' \subseteq OwnEnds(c), server'[c] = server[c],
         Unended(c)' => Unended(c), c \in reported' => c \in reported,
         "status" \in connected => "status" \in connected'
  PROVE  Order(c)'
<1>1. Entry(c)' = Entry(c)
  BY DEF Entry
<1>2. Unended(c)' => Unended(c) /\ OwnEnds(c)' = {}
  BY DEF Order
<1> QED  BY <1>1, <1>2, ServerMoves DEF Order

\* The status array reaches a call that is under way, if it is connected.
LEMMA StatusQueued ==
  ASSUME TypeOK, ServerInv, Outcomes, PublishStatus, NEW c \in Calls, Order(c), Underway(c)
  PROVE  Order(c)'
<1> DEFINE s == statuses[c]
           e == Entry(c)
<1>1. /\ s \in Seq(Listed \cup {Unlisted}) /\ e \in Listed \cup {Unlisted}
      /\ server[c] \in Listed \cup {Unlisted, CancelledAhead} /\ Listed = Live \cup Ended
  BY DEF TypeOK, Entry, Listed, GoalState, Ended, Live
<1>2. /\ Past(c)' = Past(c) /\ Entry(c)' = e /\ Unended(c)' = Unended(c)
      /\ OwnEnds(c)' = OwnEnds(c)
      /\ UNCHANGED <<comm_state, connected>> /\ (c \in reported' <=> server[c] \in Ended)
  BY DEF PublishStatus, machine, caller, Past, Entry, Unended, OwnEnds
<1>3. Unended(c) => e \notin Ended
  BY DEF Unended, ServerInv, Entry, Live, Ended, Published, Unlisted, CancelledAhead
<1>4. CASE "status" \in connected /\ "status" \in trackers[c]
  <2>1. statuses'[c] = Append(s, e)
    BY <1>4 DEF PublishStatus, Deliver
  <2> DEFINE t == Append(s, e)
  <2>2. /\ Len(s) \in Nat /\ t # << >> /\ Len(t) = Len(s) + 1 /\ t[Len(s) + 1] = e
        /\ \A i \in 1..Len(s) : t[i] = s[i]
        /\ s # << >> => Len(s) # 0
    BY <1>1
  <2> HIDE DEF s, t, e
  <2>3. Follows(e, e)
    BY <1>1 DEF Follows, Live, Ended
  <2>4. /\ s # << >> => Follows(Past(c), s[1])
        /\ \A i \in 1..(Len(s) - 1) : Follows(s[i], s[i + 1])
        /\ Follows(IF s = << >> THEN Past(c) ELSE s[Len(s)], e)
    BY DEF Order, Latest, s, e
  <2>5. Follows(Past(c), t[1])
    <3>1. CASE s = << >>
      BY <2>2, <2>4, <3>1
    <3>2. CASE s # << >>
      BY <2>2, <2>4, <3>2
    <3> QED  BY <3>1, <3>2
  <2>6. ASSUME NEW i \in 1..(Len(t) - 1) PROVE Follows(t[i], t[i + 1])
    <3>1. i \in 1..Len(s) /\ s # << >>
      BY <2>2
    <3>2. CASE i = Len(s)
      BY <2>2, <2>4, <3>1, <3>2
    <3>3. CASE i # Len(s)
      <4>1. i \in 1..(Len(s) - 1) /\ i + 1 \in 1..Len(s)
        BY <2>2, <3>1, <3>3
      <4> QED  BY <2>2, <2>4, <3>1, <4>1
    <3> QED  BY <3>2, <3>3
  <2>7. \A i \in 1..Len(t) : i \in 1..Len(s) \/ t[i] = e
    BY <2>2
  <2>8. Latest(c)' = e
    BY <2>1, <2>2 DEF Latest, t
  <2>9. Unended(c) => \A i \in 1..Len(t) : t[i] \notin Ended /\ Follows(t[i], e)
    BY <1>3, <2>2, <2>3, <2>7 DEF Order, s, e
  <2>10. ASSUME NEW final \in OwnEnds(c)
         PROVE  Follows(Past(c), final) /\ \A i \in 1..Len(t) : Follows(t[i], final)
    <3>1. final \in Ended
      <4>1. results[c] \in Seq(ResultMessage)
        BY DEF TypeOK
      <4>2. \A i \in DOMAIN results[c] : results[c][i] \in ResultMessage
        BY <4>1
      <4> QED  BY <4>2 DEF OwnEnds, ResultMessage
    <3>2. server[c] \notin Live
      BY DEF Order, Unended
    <3>3. e \in Ended \cup {Unlisted, "RECALLING"}
      BY <1>1, <3>2 DEF e, Entry
    <3>4. Follows(e, final)
      BY <3>1, <3>3 DEF Follows
    <3> QED  BY <2>2, <2>7, <3>4 DEF Order, s
  <2>11. c \in reported' => e \in Ended
    BY <1>2 DEF e, Entry, CancelledAhead, Ended
  <2>12. comm_state[c] \in Live \cup {"WAITING_FOR_GOAL_ACK"}
    BY DEF Order
  <2>13. Unended(c) => Follows(Past(c), e) /\ OwnEnds(c) = {}
    BY DEF Order, e
  <2>14. statuses'[c] = t
    BY <2>1 DEF t
  <2> QED
    BY <1>2, <1>4, <2>2, <2>3, <2>5, <2>6, <2>8, <2>9, <2>10, <2>11, <2>12, <2>13, <2>14
       DEF Order, e
<1>5. CASE ~("status" \in connected /\ "status" \in trackers[c])
  <2>1. statuses'[c] = s
    BY <1>5 DEF PublishStatus, Deliver
  <2>2. Latest(c)' = Latest(c)
    BY <1>2, <2>1 DEF Latest
  <2>3. ASSUME server[c] \in Ended PROVE Latest(c) = Unlisted
    <3>1. trackers[c] = Trackers
      BY <2>3 DEF ServerInv, Outcomes, Underway, Ended, Unlisted
    <3>2. "status" \notin connected
      BY <1>5, <3>1 DEF Trackers
    <3> QED  BY <3>2 DEF Order, Latest, Past
  <2> QED  BY <1>2, <2>1, <2>2, <2>3 DEF Order
<1> QED  BY <1>4, <1>5

\* The status that is taken is no surprise, and the next one follows it.
LEMMA StatusTaken ==
  ASSUME TypeOK, NEW c \in Calls, Order(c), TrackStatus(c)
  PROVE  /\ Underway(c)' => Order(c)'
         /\ comm_state'[c] # "DONE" /\ ~down'
<1> DEFINE s == statuses[c]
           t == Tail(s)
           status == Head(s)
<1>1. /\ s \in Seq(Listed \cup {Unlisted}) /\ s # << >> /\ Listed = Live \cup Ended
      /\ comm_state \in [Calls -> CommState] /\ statuses \in [Calls -> Seq(Listed \cup {Unlisted})]
      /\ statuses' = [statuses EXCEPT ![c] = t]
  BY DEF TypeOK, TrackStatus, Listed, GoalState, Ended, Live
<1>2. /\ Len(s) \in Nat \ {0} /\ status = s[1] /\ Len(t) = Len(s) - 1
      /\ \A i \in 1..Len(t) : t[i] = s[i + 1] /\ i + 1 \in 1..Len(s)
      /\ t = << >> <=> Len(s) = 1
      /\ status \in Listed \cup {Unlisted}
  <2>1. Len(s) \in Nat \ {0} /\ status = s[1] /\ Len(t) = Len(s) - 1 /\ t \in Seq(Listed \cup {Unlisted})
        /\ status \in Listed \cup {Unlisted}
    BY <1>1
  <2>2. \A q \in Seq(Listed \cup {Unlisted}) : q = << >> <=> Len(q) = 0
    OBVIOUS
  <2>3. \A i \in 1..Len(t) : t[i] = s[i + 1] /\ i + 1 \in 1..Len(s)
    BY <1>1, <2>1
  <2>4. t = << >> <=> Len(t) = 0
    BY <2>1, <2>2
  <2>5. Len(t) = 0 <=> Len(s) = 1
    BY <2>1
  <2> QED  BY <2>1, <2>3, <2>4, <2>5
<1>3. statuses'[c] = t
  BY <1>1
<1>4. /\ comm_state[c] \in Live \cup {"WAITING_FOR_GOAL_ACK"} /\ Follows(Past(c), status)
  BY <1>1, <1>2 DEF Order
<1>5. /\ ~InvalidTransition(comm_state[c], status)
      /\ status = Unlisted => comm_state[c] = "WAITING_FOR_GOAL_ACK"
  BY <1>4, FollowsValid
<1>6. /\ comm_state'[c] = IF status = Unlisted THEN comm_state[c] ELSE Transition(comm_state[c], status)
      /\ ~down'
      /\ UNCHANGED <<results, server, sent, reported, at, connected>>
  BY <1>1, <1>5 DEF TrackStatus, MayBeUnlisted, external, caller
<1> HIDE DEF s, t, status
<1>7. /\ comm_state'[c] # "DONE"
      /\ Underway(c)' => /\ comm_state'[c] \in Live \cup {"WAITING_FOR_GOAL_ACK"}
                         /\ Past(c)' = status /\ status \notin Ended
                         /\ comm_state'[c] = "WAITING_FOR_GOAL_ACK" =>
                              comm_state[c] = "WAITING_FOR_GOAL_ACK"
  BY <1>1, <1>2, <1>4, <1>5, <1>6 DEF Transition, Underway, Live, Ended, Past, Unlisted
<1>8. ASSUME Underway(c)' PROVE Order(c)'
  <2>1. \A i \in 1..(Len(s) - 1) : Follows(s[i], s[i + 1])
    BY DEF Order, s
  <2>2. t # << >> => Follows(status, t[1])
    BY <1>2, <2>1
  <2>3. \A i \in 1..(Len(t) - 1) : Follows(t[i], t[i + 1])
    <3>1. \A i \in 1..(Len(t) - 1) : i \in 1..Len(t) /\ i + 1 \in 1..Len(t) /\ i + 1 \in 1..(Len(s) - 1)
      BY <1>2
    <3> QED  BY <1>2, <2>1, <3>1
  <2>4. Latest(c)' = Latest(c)
    <3>1. Latest(c) = s[Len(s)]
      BY <1>1 DEF Latest, s
    <3>2. CASE t = << >>
      BY <1>2, <1>3, <1>7, <1>8, <3>1, <3>2 DEF Latest
    <3>3. CASE t # << >>
      <4>1. Len(t) \in 1..Len(t) /\ Len(t) + 1 = Len(s)
        BY <1>2, <3>3
      <4>2. t[Len(t)] = s[Len(s)]
        BY <1>2, <4>1
      <4> QED  BY <1>3, <3>1, <3>3, <4>2 DEF Latest
    <3> QED  BY <3>2, <3>3
  <2>5. Entry(c)' = Entry(c) /\ Unended(c)' = Unended(c) /\ OwnEnds(c)' = OwnEnds(c)
    BY <1>6 DEF Entry, Unended, OwnEnds
  <2>6. Unended(c) =>
          /\ Follows(status, Entry(c)) /\ OwnEnds(c) = {}
          /\ \A i \in 1..Len(t) : t[i] \notin Ended /\ Follows(t[i], Entry(c))
    BY <1>2 DEF Order, s
  <2>7. \A final \in OwnEnds(c) :
          Follows(status, final) /\ \A i \in 1..Len(t) : Follows(t[i], final)
    BY <1>2 DEF Order, s
  <2>8. "status" \in connected
    BY <1>1 DEF Order, s
  <2>9. Follows(Latest(c), Entry(c)) /\ (c \in reported => Latest(c) \in Ended \cup {Unlisted})
    BY DEF Order
  <2> QED
    BY <1>3, <1>6, <1>7, <1>8, <2>2, <2>3, <2>4, <2>5, <2>6, <2>7, <2>8, <2>9 DEF Order
<1> QED  BY <1>6, <1>7, <1>8

\* A result that is taken is that of a goal that could end so.
LEMMA ResultTaken ==
  ASSUME TypeOK, NEW c \in Calls, Order(c), TrackResult(c)
  PROVE  (Underway(c)' => Order(c)') /\ ~down'
<1> DEFINE message == Head(results[c])
<1>1. /\ results[c] \in Seq(ResultMessage) /\ results[c] # << >>
      /\ comm_state \in [Calls -> CommState] /\ results \in [Calls -> Seq(ResultMessage)]
      /\ results'[c] = Tail(results[c])
  BY DEF TypeOK, TrackResult
<1>2. message.goal = c => message.status \in OwnEnds(c)
  <2>1. 1 \in DOMAIN results[c] /\ message = results[c][1]
    BY <1>1
  <2> QED  BY <2>1 DEF OwnEnds
<1>3. message.goal = c => ~InvalidTransition(comm_state[c], message.status)
  BY <1>2, FollowsValid DEF Order
<1>4. ~down'
  BY <1>3 DEF TrackResult, IsResultOf
<1>5. /\ comm_state'[c] \in {comm_state[c], "DONE"}
      /\ UNCHANGED <<statuses, server, sent, reported, at, connected>>
  BY <1>1 DEF TrackResult, external, caller
<1>6. OwnEnds(c)' \subseteq OwnEnds(c)
  BY <1>1, OwnTaken
<1>7. Unended(c)' = Unended(c)
  BY <1>5 DEF Unended
<1>8. Underway(c)' => comm_state'[c] = comm_state[c]
  BY <1>5 DEF Underway
<1> QED  BY <1>4, <1>5, <1>6, <1>7, <1>8, NothingSeen

\* A goal that moves on at the server, up to its end and with its result then.
LEMMA GoalMoves ==
  ASSUME TypeOK, NEW c \in Calls, Order(c), Unended(c), Entry(c) \notin Ended,
         comm_state'[c] = comm_state[c], statuses'[c] = statuses[c],
         \A x : x \notin Ended /\ Follows(x, Entry(c)) => Follows(x, Entry(c)'),
         \/ OwnEnds(c)' \subseteq OwnEnds(c)
         \/ ~Unended(c)' /\ OwnEnds(c)' \subseteq OwnEnds(c) \cup {Entry(c)'},
         UNCHANGED <<reported, connected>>
  PROVE  Order(c)'
<1>1. OwnEnds(c) = {}
  BY DEF Order
<1>2. Unended(c)' => OwnEnds(c)' = {}
  BY <1>1
<1>3. \A final \in OwnEnds(c)' : final = Entry(c)'
  BY <1>1
<1> QED  BY <1>2, <1>3, ServerMoves

\* The goals that the server is asked to cancel.
LEMMA CancelMoves ==
  ASSUME TypeOK, NEW c \in Calls, Order(c),
         \/ server'[c] = server[c]
         \/ server[c] = "PENDING" /\ server'[c] = "RECALLING"
         \/ server[c] = "ACTIVE" /\ server'[c] = "PREEMPTING"
         \/ server[c] = Unlisted /\ server'[c] = CancelledAhead,
         UNCHANGED <<at, comm_state, statuses, results, sent, reported, connected>>
  PROVE  Order(c)'
<1>1. OwnEnds(c)' = OwnEnds(c)
  BY DEF OwnEnds
<1>2. CASE server'[c] = server[c]
  BY <1>1, <1>2, NothingSeen DEF Unended
<1>3. CASE server[c] \in {"PENDING", "ACTIVE"} /\ server'[c] # server[c]
  <2>1. Unended(c) /\ Entry(c) = server[c] /\ Entry(c) \notin Ended /\ Entry(c)' = server'[c]
    BY <1>3 DEF Unended, Live, Entry, CancelledAhead, Ended, Unlisted
  <2>2. \A x : x \notin Ended /\ Follows(x, Entry(c)) => Follows(x, Entry(c)')
    BY <1>3, <2>1, FollowsOn DEF Unlisted
  <2> QED  BY <1>1, <2>1, <2>2, GoalMoves
<1>4. CASE server[c] = Unlisted /\ server'[c] = CancelledAhead
  <2>1. Entry(c) = Unlisted /\ Unended(c)' = Unended(c)
    BY <1>4 DEF Unended, Live, Entry, CancelledAhead, Unlisted
  <2>2. \A x : x \notin Ended /\ Follows(x, Entry(c)) => Follows(x, Entry(c)')
    BY <2>1, FollowsOn
  <2>3. Follows(Latest(c), Entry(c)')
    <3>1. Follows(Latest(c), Unlisted)
      BY <2>1 DEF Order
    <3>2. CASE Latest(c) \in Ended
      BY <3>2 DEF Follows
    <3> QED  BY <3>1, <3>2, FollowsOn
  <2> QED  BY <1>1, <2>1, <2>2, <2>3, ServerMoves DEF Order
<1> QED  BY <1>2, <1>3, <1>4

\* The end of a goal, with its result.
LEMMA GoalEnds ==
  ASSUME TypeOK, ServerInv, NEW g \in Calls, NEW final \in Ended, Finish(g, final),
         server[g] \in Live \/ (server[g] = CancelledAhead /\ g \in sent),
         \A x : x \notin Ended /\ Follows(x, Entry(g)) => Follows(x, final),
         sent' = sent \ {g}, UNCHANGED <<at, comm_state, statuses, reported, connected>>,
         NEW c \in Calls, Order(c)
  PROVE  Order(c)'
<1>1. OwnEnds(c)' \subseteq OwnEnds(c) \cup (IF g = c THEN {final} ELSE {})
  BY OwnDelivered DEF Finish
<1>2. server' = [server EXCEPT ![g] = final] /\ server \in [Calls -> Listed \cup {Unlisted, CancelledAhead}]
  BY DEF Finish, TypeOK
<1>3. CASE c # g
  <2>1. server'[c] = server[c] /\ (c \in sent' <=> c \in sent)
    BY <1>2, <1>3
  <2> QED  BY <1>1, <1>3, <2>1, NothingSeen DEF Unended
<1>4. CASE c = g
  <2>1. server'[c] = final /\ Entry(c)' = final
    BY <1>2, <1>4 DEF Entry, Ended, CancelledAhead
  <2>2. Unended(c) /\ Entry(c) \notin Ended
    BY <1>4 DEF Unended, Entry, Live, Ended, CancelledAhead
  <2>3. at[c] \in Published
    BY <1>4 DEF ServerInv, Live, Unlisted, CancelledAhead
  <2>4. ~Unended(c)'
    BY <1>4, <2>1, <2>3 DEF Unended, Live, Ended, Published
  <2> QED  BY <1>1, <1>4, <2>1, <2>2, <2>4, GoalMoves
<1> QED  BY <1>3, <1>4

\* Every step but a restart keeps the order of what a call under way is told.
LEMMA OrderStep ==
  ASSUME CallInv, CallInv', ServerInv, Next, ~Restart, NEW c \in Calls, Order(c), Underway(c),
         Underway(c)'
  PROVE  Order(c)'
<1> USE DEF caller, machine, outcomes, tracking, queues, external
<1>0. /\ TypeOK /\ Outcomes
      /\ at \in [Calls -> Points] /\ comm_state \in [Calls -> CommState]
      /\ server \in [Calls -> Listed \cup {Unlisted, CancelledAhead}]
      /\ statuses \in [Calls -> Seq(Listed \cup {Unlisted})]
      /\ results \in [Calls -> Seq(ResultMessage)]
  BY DEF CallInv, TypeOK
<1>1. ASSUME comm_state'[c] = comm_state[c], statuses'[c] = statuses[c],
             results'[c] = results[c], server'[c] = server[c], Unended(c)' => Unended(c),
             c \in reported' => c \in reported,
             "status" \in connected => "status" \in connected'
      PROVE  Order(c)'
  <2>1. OwnEnds(c)' = OwnEnds(c)
    BY <1>1 DEF OwnEnds
  <2> QED  BY <1>0, <1>1, <2>1, NothingSeen
<1>2. CASE Enter \/ Close \/ WaitForPeer \/ Connect \/ PublishFeedback
  BY <1>1, <1>2 DEF Enter, Close, WaitForPeer, Connect, PublishFeedback, Unended
<1>3. ASSUME NEW d \in Calls,
             \/ SendGoal(d) \/ StartTracker(d) \/ WaitForResult(d) \/ PublishGoal(d)
             \/ CallAction(d)
      PROVE  Order(c)'
  <2>1. /\ UNCHANGED <<comm_state, statuses, results, server, reported, connected>>
        /\ at'[c] \in {"new", "starting", "publishing"} => at[c] \in {"new", "starting", "publishing"}
        /\ c \in sent' => c \in sent \/ at[c] = "publishing"
    BY <1>0, <1>3 DEF SendGoal, StartTracker, WaitForResult, PublishGoal, CallAction, GoalSent, GoTo
  <2> QED  BY <1>1, <2>1 DEF Unended
<1>4. ASSUME NEW d \in Calls, TrackFeedback(d) \/ ReadFeedback(d) \/ LeaveFeedback(d)
      PROVE  Order(c)'
  BY <1>1, <1>4 DEF TrackFeedback, ReadFeedback, LeaveFeedback, Unended
<1>5. CASE PublishOtherResult
  <2>1. OwnEnds(c)' \subseteq OwnEnds(c)
    <3>1. results' = Deliver("result", results,
                             [d \in Calls |-> [goal |-> Other, status |-> "SUCCEEDED"]])
      BY <1>5 DEF PublishOtherResult
    <3>2. OwnEnds(c)' \subseteq OwnEnds(c) \cup (IF Other = c THEN {"SUCCEEDED"} ELSE {})
      BY <1>0, <3>1, OwnDelivered
    <3> QED  BY <3>2, CallsAssumption
  <2>2. UNCHANGED <<at, comm_state, statuses, server, sent, reported, connected>>
    BY <1>5 DEF PublishOtherResult
  <2> QED  BY <1>0, <2>1, <2>2, NothingSeen DEF Unended
<1>6. ASSUME NEW d \in Calls, TrackStatus(d) PROVE Order(c)'
  <2>1. CASE d = c
    BY <1>0, <1>6, <2>1, StatusTaken
  <2>2. CASE d # c
    <3>1. /\ comm_state'[c] = comm_state[c] /\ statuses'[c] = statuses[c]
          /\ UNCHANGED <<at, results, server, sent, reported, connected>>
      BY <1>0, <1>6, <2>2 DEF TrackStatus
    <3> QED  BY <1>1, <3>1 DEF Unended
  <2> QED  BY <2>1, <2>2
<1>7. ASSUME NEW d \in Calls, TrackResult(d) PROVE Order(c)'
  <2>1. CASE d = c
    BY <1>0, <1>7, <2>1, ResultTaken
  <2>2. CASE d # c
    <3>1. /\ comm_state'[c] = comm_state[c] /\ results'[c] = results[c]
          /\ UNCHANGED <<at, statuses, server, sent, reported, connected>>
      BY <1>0, <1>7, <2>2 DEF TrackResult
    <3> QED  BY <1>1, <3>1 DEF Unended
  <2> QED  BY <2>1, <2>2
<1>8. ASSUME NEW d \in Calls, TrackEnds(d) PROVE Order(c)'
  <2>1. d # c
    BY <1>0, <1>8 DEF TrackEnds, Outcomes, Underway
  <2>2. /\ comm_state'[c] = comm_state[c] /\ results'[c] = results[c] /\ statuses'[c] = statuses[c]
        /\ UNCHANGED <<at, server, sent, reported, connected>>
    BY <1>0, <1>8, <2>1 DEF TrackEnds
  <2> QED  BY <1>1, <2>2 DEF Unended
<1>9. ASSUME NEW goals, CancelAtServer(goals)
      PROVE  \/ server'[c] = server[c]
             \/ server[c] = "PENDING" /\ server'[c] = "RECALLING"
             \/ server[c] = "ACTIVE" /\ server'[c] = "PREEMPTING"
  BY <1>9 DEF CancelAtServer
<1>10. CASE CancelAll
  BY <1>0, <1>9, <1>10, CancelMoves DEF CancelAll
<1>11. ASSUME NEW d \in Calls, Cancel(d) PROVE Order(c)'
  <2>1. UNCHANGED <<at, comm_state, statuses, results, sent, reported, connected>>
    BY <1>11 DEF Cancel
  <2>2. CASE server[d] = Unlisted
    <3>1. server' = [server EXCEPT ![d] = CancelledAhead]
      BY <1>11, <2>2 DEF Cancel
    <3>2. server'[c] = server[c] \/ (server[c] = Unlisted /\ server'[c] = CancelledAhead)
      BY <1>0, <2>2, <3>1
    <3> QED  BY <1>0, <2>1, <3>2, CancelMoves
  <2>3. CASE server[d] # Unlisted
    <3>1. CancelAtServer({d})
      BY <1>11, <2>3 DEF Cancel
    <3> QED  BY <1>0, <1>9, <2>1, <3>1, CancelMoves
  <2> QED  BY <2>2, <2>3
<1>12. ASSUME NEW d \in Calls, ReceiveGoal(d) PROVE Order(c)'
  <2>1. /\ d \in sent /\ sent' = sent \ {d}
        /\ UNCHANGED <<at, comm_state, statuses, reported, connected>>
    BY <1>12 DEF ReceiveGoal
  <2>2. CASE server[d] = CancelledAhead
    <3>1. Finish(d, "RECALLED") /\ Entry(d) = "RECALLING" /\ "RECALLED" \in Ended
      BY <1>12, <2>2 DEF ReceiveGoal, Entry, Ended
    <3>2. \A x : x \notin Ended /\ Follows(x, Entry(d)) => Follows(x, "RECALLED")
      BY <3>1, FollowsOn
    <3> QED  BY <1>0, <2>1, <2>2, <3>1, <3>2, GoalEnds
  <2>3. CASE server[d] # CancelledAhead
    <3>1. /\ server' = [server EXCEPT ![d] = "PENDING"] /\ UNCHANGED results
          /\ server[d] = Unlisted
      BY <1>12, <2>1, <2>3 DEF ReceiveGoal, ServerInv
    <3>2. OwnEnds(c)' = OwnEnds(c)
      BY <3>1 DEF OwnEnds
    <3>3. CASE d = c
      <4>1. Unended(c) /\ Entry(c) = Unlisted /\ Entry(c) \notin Ended
        BY <2>1, <3>1, <3>3 DEF Unended, Entry, Unlisted, CancelledAhead, Ended
      <4>2. \A x : x \notin Ended /\ Follows(x, Entry(c)) => Follows(x, Entry(c)')
        BY <4>1, FollowsOn
      <4> QED  BY <1>0, <2>1, <3>2, <4>1, <4>2, GoalMoves
    <3>4. CASE d # c
      <4>1. server'[c] = server[c] /\ (c \in sent' <=> c \in sent)
        BY <1>0, <2>1, <3>1, <3>4
      <4> QED  BY <1>1, <2>1, <3>1, <4>1 DEF Unended
    <3> QED  BY <3>3, <3>4
  <2> QED  BY <2>2, <2>3
<1>13. ASSUME NEW d \in Calls, AcceptGoal(d) PROVE Order(c)'
  <2>1. UNCHANGED <<at, comm_state, statuses, results, sent, reported, connected>>
    BY <1>13 DEF AcceptGoal
  <2>2. OwnEnds(c)' = OwnEnds(c)
    BY <2>1 DEF OwnEnds
  <2>3. CASE d = c
    <3>1. \/ server[c] = "PENDING" /\ server'[c] = "ACTIVE"
          \/ server[c] = "RECALLING" /\ server'[c] = "PREEMPTING"
      BY <1>0, <1>13, <2>3 DEF AcceptGoal
    <3>2. Unended(c) /\ Entry(c) = server[c] /\ Entry(c) \notin Ended /\ Entry(c)' = server'[c]
      BY <3>1 DEF Unended, Live, Entry, CancelledAhead, Ended
    <3>3. \A x : x \notin Ended /\ Follows(x, Entry(c)) => Follows(x, Entry(c)')
      BY <3>1, <3>2, FollowsOn
    <3> QED  BY <1>0, <2>1, <2>2, <3>2, <3>3, GoalMoves
  <2>4. CASE d # c
    <3>1. server'[c] = server[c]
      BY <1>0, <1>13, <2>4 DEF AcceptGoal
    <3> QED  BY <1>1, <2>1, <3>1 DEF Unended
  <2> QED  BY <2>3, <2>4
<1>14. ASSUME NEW d \in Calls, EndGoal(d) PROVE Order(c)'
  <2>1. PICK final \in Ended :
          /\ Finish(d, final)
          /\ \/ server[d] = "PENDING" /\ final = "REJECTED"
             \/ server[d] = "RECALLING" /\ final = "RECALLED"
             \/ server[d] = "ACTIVE" /\ final = "SUCCEEDED"
             \/ server[d] = "PREEMPTING" /\ final = "PREEMPTED"
    BY <1>14 DEF EndGoal, Ended
  <2>2. Entry(d) = server[d] /\ server[d] \in Live
    BY <2>1 DEF Entry, Live, CancelledAhead
  <2>3. \A x : x \notin Ended /\ Follows(x, Entry(d)) => Follows(x, final)
    BY <2>1, <2>2, FollowsOn
  <2>4. d \notin sent
    BY <2>2 DEF ServerInv, Live, Unlisted, CancelledAhead
  <2>5. sent' = sent \ {d} /\ UNCHANGED <<at, comm_state, statuses, reported, connected>>
    BY <1>14, <2>4 DEF EndGoal
  <2> QED  BY <1>0, <2>1, <2>2, <2>3, <2>5, GoalEnds
<1>15. ASSUME NEW d \in Calls, ForgetGoal(d) PROVE Order(c)'
  <2>1. /\ UNCHANGED <<at, comm_state, statuses, results, sent, connected>>
        /\ d \in reported /\ reported' = reported \ {d}
        /\ server' = [server EXCEPT ![d] = Unlisted]
    BY <1>15 DEF ForgetGoal
  <2>2. CASE d = c
    <3>1. server[c] \in Ended /\ server'[c] = Unlisted /\ Entry(c)' = Unlisted
      BY <1>0, <2>1, <2>2 DEF ServerInv, Entry, Unlisted, CancelledAhead
    <3>2. c \notin sent /\ at[c] \in Published
      BY <3>1 DEF ServerInv, Ended, Unlisted, CancelledAhead
    <3>3. ~Unended(c) /\ ~Unended(c)'
      BY <2>1, <3>1, <3>2 DEF Unended, Published, Live, Ended, Unlisted
    <3>4. Follows(Latest(c), Entry(c)')
      BY <2>1, <2>2 DEF Order, Follows
    <3>5. OwnEnds(c)' = OwnEnds(c)
      BY <2>1 DEF OwnEnds
    <3> QED  BY <1>0, <2>1, <3>3, <3>4, <3>5, ServerMoves
  <2>3. CASE d # c
    <3>1. server'[c] = server[c]
      BY <1>0, <2>1, <2>3
    <3> QED  BY <1>1, <2>1, <3>1 DEF Unended
  <2> QED  BY <2>2, <2>3
<1>16. CASE PublishStatus
  BY <1>0, <1>16, StatusQueued
<1> QED
  BY <1>2, <1>3, <1>4, <1>5, <1>6, <1>7, <1>8, <1>10, <1>11, <1>12, <1>13, <1>14, <1>15, <1>16
     DEF Next

\* A call that is not done or waits for its result was so before.
LEMMA UnderwayBefore ==
  ASSUME CallInv, Next, NEW c \in Calls, Underway(c)' PROVE Underway(c)
<1>0. comm_state \in [Calls -> CommState]
  BY DEF CallInv, TypeOK
<1>1. ASSUME NEW d \in Calls, TrackStatus(d) PROVE Underway(c)
  BY <1>0, <1>1 DEF TrackStatus, Underway, Transition, MayBeUnlisted
<1>2. ASSUME NEW d \in Calls, TrackResult(d) PROVE Underway(c)
  BY <1>0, <1>2 DEF TrackResult, Underway
<1> QED  BY <1>1, <1>2, OtherSteps DEF Untouched, Underway

\* While the server stays up no status makes a call lost.
LEMMA LostStep ==
  ASSUME CallInv, OrderInv, LostInv, restarts = 0, Next, NEW c \in Calls,
         comm_state'[c] = "DONE", result'[c] = Lost
  PROVE  FALSE
<1>0. /\ TypeOK /\ comm_state \in [Calls -> CommState]
      /\ result \in [Calls -> Calls \cup {Other, Lost}]
  BY DEF CallInv, TypeOK
<1>1. ~(comm_state[c] = "DONE" /\ result[c] = Lost)
  BY DEF LostInv
<1>2. ASSUME NEW d \in Calls, TrackStatus(d) PROVE FALSE
  <2>1. result' = result /\ comm_state[c] # "DONE"
    BY <1>1, <1>2 DEF TrackStatus
  <2>2. d = c
    BY <1>0, <1>2, <2>1 DEF TrackStatus
  <2>3. ~Underway(c)
    BY <1>0, <1>2, <2>2, StatusTaken DEF OrderInv
  <2> QED  BY <1>0, <1>2, <2>1, <2>2, <2>3 DEF TrackStatus, Underway, Transition, MayBeUnlisted
<1>3. ASSUME NEW d \in Calls, TrackResult(d) PROVE FALSE
  <2>1. CASE result' = result /\ comm_state'[c] = comm_state[c]
    BY <1>1, <2>1
  <2>2. CASE ~(result' = result /\ comm_state'[c] = comm_state[c])
    BY <1>0, <1>1, <1>3, <2>2, CallsAssumption DEF TrackResult, IsResultOf
  <2> QED  BY <2>1, <2>2
<1> QED  BY <1>1, <1>2, <1>3, OtherSteps DEF Untouched

\* A closed stream is left behind only by a call that has come to its end, or by
\* the client when it is closed.
BrokenInv == broken # {} => client = "closed" \/ \E c \in Calls : ~Underway(c)

LEMMA BrokenStep ==
  ASSUME CallInv, CallInv', BrokenInv, Next
  PROVE  BrokenInv'
<1> USE DEF caller, machine, outcomes, tracking, queues, external
<1>0. comm_state \in [Calls -> CommState] /\ comm_state' \in [Calls -> CommState]
  BY DEF CallInv, TypeOK
<1>1. \A c \in Calls : ~Underway(c) => ~Underway(c)'
  BY UnderwayBefore
<1>2. client = "closed" => client' = "closed"
  BY DEF Next, Enter, Close, WaitForPeer, CancelAll, SendGoal, StartTracker, PublishGoal,
         CallAction, GoalSent, Cancel, WaitForResult, TrackStatus, TrackResult, TrackFeedback,
         TrackEnds, ReadFeedback, LeaveFeedback, ReceiveGoal, AcceptGoal, EndGoal, ForgetGoal,
         Connect, PublishStatus, PublishFeedback, PublishOtherResult, Restart
<1>3. CASE broken' = broken
  BY <1>1, <1>2, <1>3 DEF BrokenInv
<1>4. CASE Close
  BY <1>4 DEF Close, BrokenInv
<1>5. ASSUME NEW c \in Calls, TrackStatus(c) \/ TrackResult(c), broken' # broken
      PROVE  BrokenInv'
  <2>1. comm_state'[c] = "DONE"
    BY <1>0, <1>5 DEF TrackStatus, TrackResult, TrackerLeaves
  <2> QED  BY <2>1 DEF BrokenInv, Underway
<1>6. ASSUME NEW c \in Calls, TrackEnds(c) PROVE BrokenInv'
  <2>1. comm_state[c] = "DONE"
    BY <1>6 DEF TrackEnds, CallInv, Outcomes
  <2> QED  BY <1>1, <2>1 DEF BrokenInv, Underway
<1> QED
  BY <1>3, <1>4, <1>5, <1>6
     DEF Next, Enter, WaitForPeer, CancelAll, SendGoal, StartTracker, PublishGoal,
         CallAction, GoalSent, Cancel, WaitForResult, TrackFeedback, ReadFeedback,
         LeaveFeedback, ReceiveGoal, AcceptGoal, EndGoal, ForgetGoal, Connect, PublishStatus,
         PublishFeedback, PublishOtherResult, Restart

\* While the server stays up, what takes the node down is known: the end of the
\* call whose tracker raises, a reader that has left, or a closed stream.
LEMMA FailStep ==
  ASSUME CallInv, CallInv', OrderInv, BrokenInv, restarts = 0, Next, down'
  PROVE  /\ \A c \in Calls : TrackStatus(c) \/ TrackResult(c) => ~Underway(c)
         /\ \/ client = "closed"
            \/ \E c \in Calls : ~Underway(c) \/ reader[c] = "left"
<1>0. TypeOK /\ comm_state \in [Calls -> CommState]
  BY DEF CallInv, TypeOK
<1>1. ASSUME NEW c \in Calls, TrackStatus(c) \/ TrackResult(c) PROVE ~Underway(c)
  BY <1>0, <1>1, StatusTaken, ResultTaken DEF OrderInv
<1>2. ASSUME NEW c \in Calls, TrackFeedback(c) PROVE reader[c] = "left"
  BY <1>2 DEF TrackFeedback
<1>3. ASSUME NEW topic, MeetsClosedStream(topic)
      PROVE  client = "closed" \/ \E c \in Calls : ~Underway(c)
  BY <1>3 DEF MeetsClosedStream, BrokenInv
<1>4. ASSUME Enter \/ Close \/ WaitForPeer \/ CancelAll \/ Connect \/ Restart PROVE FALSE
  BY <1>4 DEF Enter, Close, WaitForPeer, CancelAll, Connect, Restart
<1>5. ASSUME NEW c \in Calls,
             \/ SendGoal(c) \/ StartTracker(c) \/ PublishGoal(c) \/ CallAction(c)
             \/ Cancel(c) \/ WaitForResult(c)
      PROVE  FALSE
  BY <1>5 DEF SendGoal, StartTracker, PublishGoal, CallAction, GoalSent, Cancel, WaitForResult
<1>6. ASSUME NEW c \in Calls,
             \/ TrackEnds(c) \/ ReadFeedback(c) \/ LeaveFeedback(c) \/ AcceptGoal(c)
             \/ ForgetGoal(c)
      PROVE  FALSE
  BY <1>6 DEF TrackEnds, ReadFeedback, LeaveFeedback, AcceptGoal, ForgetGoal
<1>7. ASSUME NEW c \in Calls, ReceiveGoal(c) \/ EndGoal(c) PROVE MeetsClosedStream("result")
  BY <1>7 DEF ReceiveGoal, EndGoal, Finish
<1>8. ASSUME PublishStatus \/ PublishFeedback \/ PublishOtherResult
      PROVE  \E topic : MeetsClosedStream(topic)
  BY <1>8 DEF PublishStatus, PublishFeedback, PublishOtherResult
<1> QED  BY <1>1, <1>2, <1>3, <1>4, <1>5, <1>6, <1>7, <1>8 DEF Next

TopicInv == ServerInv /\ OrderInv /\ LostInv /\ BrokenInv

\* The invariant holds initially.
LEMMA TopicInit == Init => TopicInv
<1> SUFFICES ASSUME Init PROVE TopicInv
  OBVIOUS
<1>1. ASSUME NEW c \in Calls PROVE Order(c)
  <2>1. /\ comm_state[c] = "WAITING_FOR_GOAL_ACK" /\ statuses[c] = << >> /\ results[c] = << >>
        /\ server[c] = Unlisted /\ reported = {}
    BY DEF Init
  <2>2. Len(<< >>) = 0 /\ DOMAIN << >> = {} /\ 1..0 = {} /\ 1..(0 - 1) = {}
    OBVIOUS
  <2>3. /\ Past(c) = Unlisted /\ Latest(c) = Unlisted /\ Entry(c) = Unlisted /\ OwnEnds(c) = {}
    BY <2>1, <2>2 DEF Past, Latest, Entry, OwnEnds, Unlisted, CancelledAhead
  <2> QED  BY <2>1, <2>2, <2>3 DEF Order, Follows
<1> QED  BY <1>1, ServerInit DEF Init, TopicInv, OrderInv, LostInv, BrokenInv

\* Every step keeps the invariant.
LEMMA TopicStep == ASSUME CallInv, TopicInv, [Next]_vars PROVE TopicInv'
<1>1. CallInv' /\ ServerInv'
  BY CallStep, ServerStep DEF CallInv, TopicInv
<1>2. CASE UNCHANGED vars
  <2>1. \A c \in Calls : Order(c)' = Order(c) /\ Underway(c)' = Underway(c)
    BY <1>2
       DEF vars, caller, machine, outcomes, tracking, queues, external, Order, Underway, Past,
           Latest, Entry, Unended, OwnEnds
  <2>2. OrderInv'
    BY <1>2, <2>1 DEF vars, external, TopicInv, OrderInv
  <2>3. LostInv' /\ BrokenInv'
    BY <1>2, <2>1 DEF vars, caller, machine, outcomes, tracking, external, TopicInv, LostInv, BrokenInv
  <2> QED  BY <1>1, <2>2, <2>3 DEF TopicInv
<1>3. ASSUME Next PROVE BrokenInv'
  BY <1>1, <1>3, BrokenStep DEF TopicInv
<1>4. ASSUME Next, restarts' # 0 PROVE TopicInv'
  <2>1. restarts' > 0
    BY <1>1, <1>4 DEF CallInv, TypeOK
  <2> QED  BY <1>1, <1>3, <1>4, <2>1 DEF TopicInv, OrderInv, LostInv
<1>5. ASSUME Next, restarts' = 0 PROVE TopicInv'
  <2>1. ~Restart
    BY <1>5 DEF Restart, CallInv, TypeOK
  <2>2. restarts = 0
    BY <1>5, <2>1
       DEF Next, Enter, Close, WaitForPeer, CancelAll, SendGoal, StartTracker, PublishGoal,
           CallAction, GoalSent, Cancel, WaitForResult, TrackStatus, TrackResult, TrackFeedback,
           TrackEnds, ReadFeedback, LeaveFeedback, ReceiveGoal, AcceptGoal, EndGoal, ForgetGoal,
           Connect, PublishStatus, PublishFeedback, PublishOtherResult, external
  <2>3. OrderInv'
    BY <1>1, <1>5, <2>1, <2>2, OrderStep, UnderwayBefore DEF TopicInv, OrderInv
  <2>4. LostInv'
    BY <1>5, <2>2, LostStep DEF TopicInv, LostInv
  <2> QED  BY <1>1, <1>3, <1>5, <2>3, <2>4 DEF TopicInv
<1> QED  BY <1>2, <1>4, <1>5

LEMMA TopicInvariant == Spec => [](CallInv /\ TopicInv)
<1> QED  BY CallInit, CallStep, TopicInit, TopicStep, PTL DEF Spec

\* _track_status takes a call for lost only if the server has restarted: no
\* interleaving of the topics, of a late connection and of cancels shows it a
\* status array without a goal that it has seen in one.
THEOREM LostMeansRestartHolds == Spec => []LostMeansRestart
<1>1. CallInv /\ TopicInv => LostMeansRestart
  BY DEF CallInv, Outcomes, TypeOK, TopicInv, LostInv, LostMeansRestart
<1> QED  BY <1>1, TopicInvariant, PTL

\* While the server stays up, CommStateMachine meets no invalid transition for a
\* goal that it takes to be under way, in whatever order the status array, the
\* result and cancels come: a tracker that raises does so behind its own call's
\* end.  And a message meets a closed stream, or a reader that has left, only
\* after some call's end, a closed client or that reader: what leaves the closed
\* streams behind is the end of a call, which cancels its trackers.
THEOREM FailsOnlyBehindTheEndHolds == Spec => FailsOnlyBehindTheEnd
<1> DEFINE Fails ==
      down' /\ restarts = 0 =>
       /\ \A c \in Calls : TrackStatus(c) \/ TrackResult(c) =>
            comm_state[c] \in {"WAITING_FOR_RESULT", "DONE"}
       /\ \/ client = "closed"
          \/ \E c \in Calls :
               comm_state[c] \in {"WAITING_FOR_RESULT", "DONE"} \/ reader[c] = "left"
<1>1. CallInv /\ TopicInv /\ [Next]_vars => [Fails]_vars
  <2>1. SUFFICES ASSUME CallInv, TopicInv, Next, down', restarts = 0 PROVE Fails
    OBVIOUS
  <2>2. CallInv'
    BY <2>1, CallStep
  <2> QED  BY <2>1, <2>2, FailStep DEF TopicInv, Underway
<1> QED  BY <1>1, TopicInvariant, PTL DEF Spec, FailsOnlyBehindTheEnd

-----------------------------------------------------------------------------
(* The state of a call that has ended.                                      *)

\* A status of the goal that has been on its way to the call, or is its end's.
Reported(c, status) ==
  \/ server[c] = status \/ end[c] = status \/ status \in OwnEnds(c)
  \/ \E i \in DOMAIN statuses[c] : statuses[c][i] = status

\* A goal comes to one end, whether the server restarts or not; nothing is
\* heard of it before it is published.
OneEnd(c) ==
  /\ \A s, t \in Ended : Reported(c, s) /\ Reported(c, t) => s = t
  /\ Unended(c) => \A s \in Ended : ~Reported(c, s)
  /\ at[c] \in {"new", "starting", "publishing"} =>
       /\ comm_state[c] = "WAITING_FOR_GOAL_ACK"
       /\ \A i \in DOMAIN statuses[c] : statuses[c][i] = Unlisted

\* A call that is done without a result takes no more statuses, and one that
\* has its result is done.
Settled(c) ==
  /\ c \in terminated => goal_state[c] = IF end[c] = Unlisted THEN "LOST" ELSE end[c]
  /\ c \in terminated /\ end[c] = Unlisted => "status" \notin trackers[c]
  /\ end[c] # Unlisted => c \in terminated

EndInv == (\A c \in Calls : OneEnd(c)) /\ (~down => \A c \in Calls : Settled(c))

\* A step after which nothing is reported that was not before, and no goal is
\* published or still to be ended again.
LEMMA OneEndKept ==
  ASSUME NEW c \in Calls, OneEnd(c), \A s \in Ended : Reported(c, s)' => Reported(c, s),
         Unended(c)' => Unended(c),
         at'[c] \in {"new", "starting", "publishing"} =>
           /\ at[c] \in {"new", "starting", "publishing"} /\ comm_state'[c] = comm_state[c]
           /\ \A i \in DOMAIN statuses'[c] : statuses'[c][i] = Unlisted
  PROVE  OneEnd(c)'
  BY DEF OneEnd

\* What is queued is reported by the call's own queues alone.
LEMMA ReportedKept ==
  ASSUME NEW c \in Calls, OwnEnds(c)' \subseteq OwnEnds(c), end'[c] = end[c],
         statuses'[c] = statuses[c], NEW s, server'[c] = s => server[c] = s,
         Reported(c, s)'
  PROVE  Reported(c, s)
  BY DEF Reported

\* The statuses that are left in the queue when one is taken.
LEMMA StatusesLeft ==
  ASSUME TypeOK, NEW c \in Calls, TrackStatus(c)
  PROVE  /\ \A i \in DOMAIN statuses'[c] :
              i + 1 \in DOMAIN statuses[c] /\ statuses'[c][i] = statuses[c][i + 1]
         /\ Head(statuses[c]) = statuses[c][1] /\ 1 \in DOMAIN statuses[c]
         /\ Head(statuses[c]) \in Listed \cup {Unlisted}
<1>1. /\ statuses[c] \in Seq(Listed \cup {Unlisted}) /\ statuses[c] # << >>
      /\ statuses'[c] = Tail(statuses[c])
  BY DEF TypeOK, TrackStatus
<1> QED  BY <1>1

\* A status that is taken is that of the end, if the call is done.
LEMMA StatusEnds ==
  ASSUME CallInv, EndInv, NEW c \in Calls, TrackStatus(c)
  PROVE  OneEnd(c)' /\ (~down' => Settled(c)')
<1> DEFINE status == Head(statuses[c])
           lost == status = Unlisted /\ ~MayBeUnlisted(comm_state[c])
           fails == status # Unlisted /\ InvalidTransition(comm_state[c], status)
           comm == IF lost THEN "DONE"
                   ELSE IF fails \/ status = Unlisted THEN comm_state[c]
                   ELSE Transition(comm_state[c], status)
           terminal == comm = "DONE" /\ ~fails
<1>0. /\ TypeOK /\ OneEnd(c) /\ Settled(c) /\ (c \in terminated <=> comm_state[c] = "DONE")
      /\ comm_state \in [Calls -> CommState] /\ goal_state \in [Calls -> GoalState]
      /\ trackers \in [Calls -> SUBSET Trackers] /\ terminated \subseteq Calls
  BY DEF CallInv, TypeOK, Outcomes, EndInv, TrackStatus
<1>1. /\ goal_state'[c] = IF lost THEN "LOST" ELSE IF status = Unlisted THEN goal_state[c] ELSE status
      /\ comm_state'[c] = comm /\ down' = fails
      /\ c \in terminated' <=> c \in terminated \/ terminal
      /\ terminal => "status" \notin trackers'[c]
      /\ trackers'[c] \subseteq trackers[c] /\ "status" \in trackers[c]
      /\ UNCHANGED <<at, results, end, server, sent>>
  BY <1>0 DEF TrackStatus, TrackerLeaves, tracking, caller, external
<1>2. /\ status \in Listed \cup {Unlisted}
      /\ \A s : (\E i \in DOMAIN statuses'[c] : statuses'[c][i] = s)
                => \E i \in DOMAIN statuses[c] : statuses[c][i] = s
      /\ \E i \in DOMAIN statuses[c] : statuses[c][i] = status
      /\ \A i \in DOMAIN statuses'[c] : \E j \in DOMAIN statuses[c] : statuses'[c][i] = statuses[c][j]
  BY <1>0, StatusesLeft
<1> HIDE DEF status
<1>3. OneEnd(c)'
  <2>1. \A s \in Ended : Reported(c, s)' => Reported(c, s)
    BY <1>1, <1>2 DEF Reported, OwnEnds
  <2>2. Unended(c)' = Unended(c)
    BY <1>1 DEF Unended
  <2>3. ASSUME at[c] \in {"new", "starting", "publishing"}
        PROVE  /\ comm_state'[c] = comm_state[c]
               /\ \A i \in DOMAIN statuses'[c] : statuses'[c][i] = Unlisted
    <3>1. comm_state[c] = "WAITING_FOR_GOAL_ACK" /\ status = Unlisted
      BY <1>0, <1>2, <2>3 DEF OneEnd
    <3> QED  BY <1>0, <1>1, <1>2, <2>3, <3>1 DEF OneEnd, MayBeUnlisted
  <2> QED  BY <1>0, <1>1, <2>1, <2>2, <2>3, OneEndKept
<1>4. ASSUME ~fails PROVE Settled(c)'
  <2>1. CASE c \in terminated
    <3>1. end[c] # Unlisted /\ ~lost /\ goal_state[c] = end[c]
      BY <1>0, <1>1, <2>1 DEF Settled, MayBeUnlisted
    <3>2. end[c] \in Ended
      BY <1>0, <3>1 DEF TypeOK
    <3>3. status # Unlisted => status \in Ended
      BY <1>0, <1>2, <1>4, <2>1 DEF InvalidTransition, Listed, GoalState
    <3>4. status # Unlisted => status = end[c]
      BY <1>0, <1>2, <3>2, <3>3 DEF OneEnd, Reported
    <3> QED  BY <1>1, <2>1, <3>1, <3>4 DEF Settled
  <2>2. CASE c \notin terminated
    <3>1. end[c] = Unlisted
      BY <1>0, <2>2 DEF Settled
    <3>2. terminal => lost
      BY <1>0, <1>2, <2>2, TransitionType
    <3> QED  BY <1>1, <2>2, <3>1, <3>2 DEF Settled
  <2> QED  BY <2>1, <2>2
<1> QED  BY <1>1, <1>3, <1>4

\* A result that is handled sets the state, whether the call is done or not.
LEMMA ResultEnds ==
  ASSUME CallInv, EndInv, NEW c \in Calls, TrackResult(c)
  PROVE  OneEnd(c)' /\ (~down' => Settled(c)')
<1> DEFINE message == Head(results[c])
           own == message.goal = c
           fails == /\ own /\ comm_state[c] # "DONE"
                    /\ InvalidTransition(comm_state[c], message.status)
           taken == own /\ comm_state[c] # "DONE" /\ ~fails
<1>0. /\ TypeOK /\ OneEnd(c) /\ Settled(c) /\ (c \in terminated <=> comm_state[c] = "DONE")
      /\ comm_state \in [Calls -> CommState] /\ goal_state \in [Calls -> GoalState]
      /\ end \in [Calls -> Ended \cup {Unlisted}]
      /\ trackers \in [Calls -> SUBSET Trackers] /\ terminated \subseteq Calls
  BY DEF CallInv, TypeOK, Outcomes, EndInv, TrackResult
<1>1. /\ goal_state'[c] = (IF own THEN message.status ELSE goal_state[c])
      /\ end'[c] = (IF own THEN message.status ELSE end[c])
      /\ comm_state'[c] = (IF taken THEN "DONE" ELSE comm_state[c])
      /\ down' = fails
      /\ c \in terminated' <=> c \in terminated \/ taken
      /\ trackers'[c] \subseteq trackers[c]
      /\ UNCHANGED <<at, statuses, server, sent>>
  BY <1>0 DEF TrackResult, IsResultOf, TrackerLeaves, tracking, caller, external
<1>2. /\ results[c] \in Seq(ResultMessage) /\ results[c] # << >>
      /\ results'[c] = Tail(results[c])
  BY DEF TypeOK, TrackResult, CallInv
<1>3. 1 \in DOMAIN results[c] /\ message = results[c][1] /\ message \in ResultMessage
  BY <1>2
<1>4. (own => message.status \in OwnEnds(c)) /\ message.status \in Ended
  BY <1>3 DEF OwnEnds, ResultMessage
<1>5. OwnEnds(c)' \subseteq OwnEnds(c)
  BY <1>0, <1>2, OwnTaken
<1> HIDE DEF message, fails
<1>6. OneEnd(c)'
  <2>1. \A s \in Ended : Reported(c, s)' => Reported(c, s)
    BY <1>1, <1>4, <1>5 DEF Reported
  <2>2. Unended(c)' = Unended(c)
    BY <1>1 DEF Unended
  <2>3. ASSUME at[c] \in {"new", "starting", "publishing"} PROVE ~own
    <3>1. Unended(c)
      BY <2>3 DEF Unended
    <3> QED  BY <1>0, <1>4, <3>1 DEF OneEnd, Reported
  <2> QED  BY <1>0, <1>1, <2>1, <2>2, <2>3, OneEndKept DEF OneEnd
<1>7. ASSUME ~fails PROVE Settled(c)'
  BY <1>0, <1>1, <1>4, <1>7 DEF Settled, Ended, Unlisted
<1> QED  BY <1>1, <1>6, <1>7

\* No other step touches the state of a call that is done, nor starts its
\* tracker of statuses again.
LEMMA SettledKept ==
  ASSUME CallInv, EndInv, Next, NEW c \in Calls, ~TrackStatus(c), ~TrackResult(c)
  PROVE  Settled(c)'
<1> USE DEF caller, machine, outcomes, tracking, queues, external
<1>0. /\ Settled(c) /\ OneEnd(c) /\ (c \in terminated <=> comm_state[c] = "DONE")
      /\ goal_state \in [Calls -> GoalState] /\ terminated \subseteq Calls
      /\ end \in [Calls -> Ended \cup {Unlisted}] /\ trackers \in [Calls -> SUBSET Trackers]
  <2>1. ~down
    BY OtherSteps DEF TrackStatus, TrackResult
  <2> QED  BY <2>1 DEF CallInv, TypeOK, Outcomes, EndInv
<1>1. ASSUME goal_state'[c] = goal_state[c], end'[c] = end[c],
             c \in terminated' <=> c \in terminated,
             trackers'[c] \subseteq trackers[c] \/ c \notin terminated
      PROVE  Settled(c)'
  BY <1>0, <1>1 DEF Settled
<1>2. ASSUME NEW d \in Calls, TrackStatus(d) \/ TrackResult(d) PROVE Settled(c)'
  <2>1. d # c
    BY <1>2
  <2>2. /\ goal_state'[c] = goal_state[c] /\ end'[c] = end[c] /\ trackers'[c] = trackers[c]
        /\ c \in terminated' <=> c \in terminated
    BY <1>0, <1>2, <2>1 DEF TrackStatus, TrackResult, TrackerLeaves
  <2> QED  BY <1>1, <2>2
<1>3. ASSUME NEW d \in Calls, StartTracker(d) PROVE Settled(c)'
  <2>1. trackers'[c] = trackers[c] \/ d = c
    BY <1>0, <1>3 DEF StartTracker
  <2>2. d = c => c \notin terminated
    BY <1>0, <1>3 DEF StartTracker, OneEnd
  <2> QED  BY <1>1, <1>3, <2>1, <2>2 DEF StartTracker
<1>4. ASSUME NEW d \in Calls, TrackEnds(d) PROVE Settled(c)'
  BY <1>0, <1>1, <1>4 DEF TrackEnds
<1>5. ASSUME ~(\E d \in Calls : TrackStatus(d) \/ TrackResult(d)),
             ~(\E d \in Calls : StartTracker(d) \/ TrackEnds(d))
      PROVE  Settled(c)'
  <2>1. UNCHANGED <<goal_state, end, terminated>>
    BY <1>5, OtherSteps DEF Untouched
  <2>2. UNCHANGED trackers
    BY <1>5
       DEF Next, Enter, Close, WaitForPeer, CancelAll, SendGoal, PublishGoal, CallAction,
           GoalSent, Cancel, WaitForResult, TrackFeedback, ReadFeedback, LeaveFeedback,
           ReceiveGoal, AcceptGoal, EndGoal, ForgetGoal, Connect, PublishStatus,
           PublishFeedback, PublishOtherResult, Restart
  <2> QED  BY <1>1, <2>1, <2>2
<1> QED  BY <1>2, <1>3, <1>4, <1>5

\* The one end of a goal, with its result.
LEMMA OneEndFinish ==
  ASSUME TypeOK, ServerInv, NEW g \in Calls, NEW final \in Ended, Finish(g, final),
         server[g] \in Live \/ (server[g] = CancelledAhead /\ g \in sent),
         sent' = sent \ {g}, UNCHANGED <<at, comm_state, statuses, end>>,
         NEW c \in Calls, OneEnd(c)
  PROVE  OneEnd(c)'
<1>1. OwnEnds(c)' \subseteq OwnEnds(c) \cup (IF g = c THEN {final} ELSE {})
  BY OwnDelivered DEF Finish
<1>2. server' = [server EXCEPT ![g] = final] /\ server \in [Calls -> Listed \cup {Unlisted, CancelledAhead}]
  BY DEF Finish, TypeOK
<1>3. CASE c # g
  <2>1. server'[c] = server[c] /\ (c \in sent' <=> c \in sent)
    BY <1>2, <1>3
  <2>2. \A s \in Ended : Reported(c, s)' => Reported(c, s)
    BY <1>1, <1>3, <2>1 DEF Reported
  <2> QED  BY <2>1, <2>2, OneEndKept DEF Unended, OneEnd
<1>4. CASE c = g
  <2>1. \A s \in Ended : ~Reported(c, s)
    BY <1>4 DEF OneEnd, Unended
  <2>2. at[c] \in Published
    BY <1>4 DEF ServerInv, Live, Unlisted, CancelledAhead
  <2>3. ~Unended(c)'
    BY <1>2, <1>4, <2>2 DEF Unended, Live, Ended, Published
  <2>4. \A s \in Ended : Reported(c, s)' => s = final
    BY <1>1, <1>2, <1>4, <2>1 DEF Reported
  <2> QED  BY <2>2, <2>3, <2>4 DEF OneEnd, Published
<1> QED  BY <1>3, <1>4

\* Every other step leaves a goal with the one end it has, if any.
LEMMA OneEndStep ==
  ASSUME CallInv, ServerInv, EndInv, Next, NEW c \in Calls, ~TrackStatus(c), ~TrackResult(c)
  PROVE  OneEnd(c)'
<1> USE DEF caller, machine, outcomes, tracking, queues, external
<1>0. /\ TypeOK /\ OneEnd(c) /\ at \in [Calls -> Points]
      /\ comm_state \in [Calls -> CommState] /\ end \in [Calls -> Ended \cup {Unlisted}]
      /\ server \in [Calls -> Listed \cup {Unlisted, CancelledAhead}]
      /\ statuses \in [Calls -> Seq(Listed \cup {Unlisted})]
      /\ results \in [Calls -> Seq(ResultMessage)]
  BY DEF CallInv, TypeOK, EndInv
<1>1. ASSUME comm_state'[c] = comm_state[c], statuses'[c] = statuses[c], end'[c] = end[c],
             OwnEnds(c)' \subseteq OwnEnds(c),
             server'[c] \in Ended \cup Live => server'[c] = server[c],
             c \in sent' => c \in sent \/ at[c] = "publishing",
             at'[c] \in {"new", "starting", "publishing"} => at[c] \in {"new", "starting", "publishing"}
      PROVE  OneEnd(c)'
  <2>1. \A s \in Ended : Reported(c, s)' => Reported(c, s)
    BY <1>1, ReportedKept
  <2>2. Unended(c)' => Unended(c)
    BY <1>1 DEF Unended
  <2> QED  BY <1>0, <1>1, <2>1, <2>2, OneEndKept DEF OneEnd
<1>2. ASSUME UNCHANGED <<at, comm_state, statuses, results, end, server, sent>> PROVE OneEnd(c)'
  BY <1>1, <1>2 DEF OwnEnds
<1>3. CASE Enter \/ Close \/ WaitForPeer \/ Connect \/ PublishFeedback
  BY <1>2, <1>3 DEF Enter, Close, WaitForPeer, Connect, PublishFeedback
<1>4. ASSUME NEW d \in Calls, TrackFeedback(d) \/ ReadFeedback(d) \/ LeaveFeedback(d)
      PROVE  OneEnd(c)'
  BY <1>2, <1>4 DEF TrackFeedback, ReadFeedback, LeaveFeedback
<1>5. ASSUME NEW d \in Calls,
             \/ SendGoal(d) \/ StartTracker(d) \/ WaitForResult(d) \/ PublishGoal(d)
             \/ CallAction(d)
      PROVE  OneEnd(c)'
  <2>1. /\ UNCHANGED <<comm_state, statuses, results, end, server>>
        /\ at'[c] \in {"new", "starting", "publishing"} => at[c] \in {"new", "starting", "publishing"}
        /\ c \in sent' => c \in sent \/ at[c] = "publishing"
    BY <1>0, <1>5 DEF SendGoal, StartTracker, WaitForResult, PublishGoal, CallAction, GoalSent, GoTo
  <2> QED  BY <1>1, <2>1 DEF OwnEnds
<1>6. CASE PublishOtherResult
  <2>1. results' = Deliver("result", results,
                           [d \in Calls |-> [goal |-> Other, status |-> "SUCCEEDED"]])
    BY <1>6 DEF PublishOtherResult
  <2>2. OwnEnds(c)' \subseteq OwnEnds(c) \cup (IF Other = c THEN {"SUCCEEDED"} ELSE {})
    BY <1>0, <2>1, OwnDelivered
  <2>3. UNCHANGED <<at, comm_state, statuses, end, server, sent>>
    BY <1>6 DEF PublishOtherResult
  <2> QED  BY <1>1, <2>2, <2>3, CallsAssumption
<1>7. ASSUME NEW d \in Calls, TrackStatus(d) \/ TrackResult(d) PROVE OneEnd(c)'
  <2>1. d # c
    BY <1>7
  <2>2. /\ comm_state'[c] = comm_state[c] /\ statuses'[c] = statuses[c] /\ end'[c] = end[c]
        /\ results'[c] = results[c] /\ UNCHANGED <<at, server, sent>>
    BY <1>0, <1>7, <2>1 DEF TrackStatus, TrackResult
  <2> QED  BY <1>1, <2>2 DEF OwnEnds
<1>8. ASSUME NEW d \in Calls, TrackEnds(d) PROVE OneEnd(c)'
  <2>1. /\ UNCHANGED <<at, comm_state, end, server, sent>>
        /\ \/ statuses'[c] = statuses[c] /\ results'[c] = results[c]
           \/ statuses'[c] = << >> /\ results'[c] = << >>
    BY <1>0, <1>8 DEF TrackEnds
  <2>2. CASE statuses'[c] = statuses[c] /\ results'[c] = results[c]
    BY <1>1, <2>1, <2>2 DEF OwnEnds
  <2>3. CASE statuses'[c] = << >> /\ results'[c] = << >>
    <3>1. OwnEnds(c)' = {} /\ DOMAIN statuses'[c] = {}
      BY <2>3 DEF OwnEnds
    <3>2. \A s \in Ended : Reported(c, s)' => Reported(c, s)
      BY <2>1, <3>1 DEF Reported
    <3> QED  BY <1>0, <2>1, <3>1, <3>2, OneEndKept DEF Unended
  <2> QED  BY <2>1, <2>2, <2>3
<1>9. ASSUME NEW goals, CancelAtServer(goals),
             UNCHANGED <<at, comm_state, statuses, results, end, sent>>
      PROVE  OneEnd(c)'
  <2>1. \/ server'[c] = server[c]
        \/ server[c] \in Live /\ server'[c] \in Live
    BY <1>9 DEF CancelAtServer, Live
  <2>2. \A s \in Ended : Reported(c, s)' => Reported(c, s)
    BY <1>9, <2>1 DEF Reported, OwnEnds, Live, Ended
  <2>3. Unended(c)' => Unended(c)
    BY <1>9, <2>1 DEF Unended
  <2> QED  BY <1>0, <1>9, <2>2, <2>3, OneEndKept DEF OneEnd
<1>10. CASE CancelAll
  BY <1>9, <1>10 DEF CancelAll
<1>11. ASSUME NEW d \in Calls, Cancel(d) PROVE OneEnd(c)'
  <2>1. UNCHANGED <<at, comm_state, statuses, results, end, sent>>
    BY <1>11 DEF Cancel
  <2>2. CASE server[d] = Unlisted
    <3>1. server'[c] \in {server[c], CancelledAhead}
      BY <1>0, <1>11, <2>2 DEF Cancel
    <3> QED  BY <1>1, <2>1, <3>1 DEF OwnEnds, Ended, Live, CancelledAhead
  <2>3. CASE server[d] # Unlisted
    BY <1>9, <1>11, <2>1, <2>3 DEF Cancel
  <2> QED  BY <2>2, <2>3
<1>12. ASSUME NEW d \in Calls, ReceiveGoal(d) PROVE OneEnd(c)'
  <2>1. d \in sent /\ sent' = sent \ {d} /\ UNCHANGED <<at, comm_state, statuses, end>>
    BY <1>12 DEF ReceiveGoal
  <2>2. CASE server[d] = CancelledAhead
    BY <1>0, <1>12, <2>1, <2>2, OneEndFinish DEF ReceiveGoal, Ended
  <2>3. CASE server[d] # CancelledAhead
    <3>1. server' = [server EXCEPT ![d] = "PENDING"] /\ UNCHANGED results
      BY <1>12, <2>3 DEF ReceiveGoal
    <3>2. server'[c] = server[c] \/ (c \in sent /\ server'[c] = "PENDING")
      BY <1>0, <2>1, <3>1
    <3>3. \A s \in Ended : Reported(c, s)' => Reported(c, s)
      BY <2>1, <3>1, <3>2 DEF Reported, OwnEnds, Ended
    <3>4. Unended(c)' => Unended(c)
      BY <2>1, <3>2 DEF Unended
    <3> QED  BY <1>0, <2>1, <3>3, <3>4, OneEndKept DEF OneEnd
  <2> QED  BY <2>2, <2>3
<1>13. ASSUME NEW d \in Calls, AcceptGoal(d) PROVE OneEnd(c)'
  <2>1. UNCHANGED <<at, comm_state, statuses, results, end, sent>>
    BY <1>13 DEF AcceptGoal
  <2>2. server'[c] = server[c] \/ (server[c] \in Live /\ server'[c] \in Live)
    BY <1>0, <1>13 DEF AcceptGoal, Live
  <2>3. \A s \in Ended : Reported(c, s)' => Reported(c, s)
    BY <2>1, <2>2 DEF Reported, OwnEnds, Live, Ended
  <2>4. Unended(c)' => Unended(c)
    BY <2>1, <2>2 DEF Unended
  <2> QED  BY <1>0, <2>1, <2>3, <2>4, OneEndKept DEF OneEnd
<1>14. ASSUME NEW d \in Calls, EndGoal(d) PROVE OneEnd(c)'
  <2>1. server[d] \in Live /\ \E final \in Ended : Finish(d, final)
    BY <1>14 DEF EndGoal, Ended, Live
  <2>2. d \notin sent
    BY <2>1 DEF ServerInv, Live, Unlisted, CancelledAhead
  <2>3. sent' = sent \ {d} /\ UNCHANGED <<at, comm_state, statuses, end>>
    BY <1>14, <2>2 DEF EndGoal
  <2> QED  BY <1>0, <2>1, <2>3, OneEndFinish
<1>15. ASSUME NEW d \in Calls, ForgetGoal(d) PROVE OneEnd(c)'
  <2>1. /\ UNCHANGED <<at, comm_state, statuses, results, end, sent>>
        /\ server'[c] \in {server[c], Unlisted}
    BY <1>0, <1>15 DEF ForgetGoal
  <2> QED  BY <1>1, <2>1 DEF OwnEnds, Ended, Live, Unlisted
<1>16. CASE Restart
  <2>1. /\ UNCHANGED <<at, comm_state, statuses, results, end>>
        /\ server'[c] = Unlisted /\ sent' = {}
    BY <1>16 DEF Restart
  <2> QED  BY <1>1, <2>1 DEF OwnEnds, Ended, Live, Unlisted
<1>17. CASE PublishStatus
  <2>1. /\ UNCHANGED <<at, comm_state, results, end, server, sent>>
        /\ statuses'[c] \in {statuses[c], Append(statuses[c], Entry(c))}
    BY <1>17 DEF PublishStatus, Deliver
  <2>2. \A i \in DOMAIN statuses'[c] :
          \/ i \in DOMAIN statuses[c] /\ statuses'[c][i] = statuses[c][i]
          \/ statuses'[c][i] = Entry(c)
    <3>1. statuses[c] \in Seq(Listed \cup {Unlisted})
      BY <1>0
    <3>2. \A e : LET t == Append(statuses[c], e)
                IN  \A i \in DOMAIN t : (i \in DOMAIN statuses[c] /\ t[i] = statuses[c][i]) \/ t[i] = e
      BY <3>1
    <3> QED  BY <2>1, <3>2
  <2>3. \A s \in Ended : Reported(c, s)' => Reported(c, s)
    BY <2>1, <2>2 DEF Reported, OwnEnds, Entry, Ended
  <2>4. at[c] \in {"new", "starting", "publishing"} => Entry(c) = Unlisted
    BY DEF ServerInv, Published, Entry, Unlisted, CancelledAhead
  <2>5. Unended(c)' = Unended(c)
    BY <2>1 DEF Unended
  <2> QED  BY <1>0, <2>1, <2>2, <2>3, <2>4, <2>5, OneEndKept DEF OneEnd
<1> QED
  BY <1>3, <1>4, <1>5, <1>6, <1>7, <1>8, <1>10, <1>11, <1>12, <1>13, <1>14, <1>15, <1>16, <1>17
     DEF Next

\* The invariant holds initially.
LEMMA EndInit == Init => EndInv
<1> SUFFICES ASSUME Init, NEW c \in Calls PROVE OneEnd(c) /\ Settled(c)
  BY DEF EndInv
<1>1. /\ comm_state[c] = "WAITING_FOR_GOAL_ACK" /\ statuses[c] = << >> /\ results[c] = << >>
      /\ server[c] = Unlisted /\ end[c] = Unlisted /\ terminated = {}
  BY DEF Init
<1>2. DOMAIN statuses[c] = {} /\ OwnEnds(c) = {}
  BY <1>1 DEF OwnEnds
<1> QED  BY <1>1, <1>2 DEF OneEnd, Settled, Reported, Ended, Unlisted

\* Every step keeps the invariant.
LEMMA EndStep == ASSUME CallInv, ServerInv, EndInv, [Next]_vars PROVE EndInv'
<1>1. CASE UNCHANGED vars
  BY <1>1
     DEF vars, caller, machine, outcomes, tracking, queues, external, EndInv, OneEnd, Settled,
         Reported, OwnEnds, Unended
<1>2. ASSUME Next, NEW c \in Calls PROVE OneEnd(c)' /\ (~down' => Settled(c)')
  BY <1>2, StatusEnds, ResultEnds, OneEndStep, SettledKept
<1> QED  BY <1>1, <1>2 DEF EndInv

\* While the node is up, the state of a call that has its result is the one the
\* result reported: _track_result sets it, and a status that still comes for the
\* goal either agrees or is an invalid transition, as a goal has one end, over
\* restarts of the server too.  A call that _track_status takes for lost is LOST
\* until its result is handled after all.
THEOREM EndStateHolds == Spec => []EndStateAgrees
<1>1. CallInv /\ EndInv => EndStateAgrees
  BY DEF CallInv, TypeOK, EndInv, Settled, EndStateAgrees
<1>2. CallInv /\ TopicInv /\ EndInv /\ [Next]_vars => EndInv'
  BY EndStep DEF TopicInv
<1> QED  BY <1>1, <1>2, EndInit, TopicInvariant, PTL DEF Spec
=============================================================================
