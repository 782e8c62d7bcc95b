---------------------------- MODULE SimTimeProofs ----------------------------
(***************************************************************************)
(* No wake-up is lost, for any number of sleepers and any durations.        *)
(***************************************************************************)
EXTENDS SimTime, OperatorProofs

-----------------------------------------------------------------------------
(* The inductive invariant.                                                 *)

\* The lock: LockSound in terms of In and Distinct, and who wants the lock is queued
\* for it or owns it.
LockInv ==
  /\ Distinct(lock_q)
  /\ \A t \in Tasks :
       /\ In(lock_q, t) => at[t] \in {"acquiring", "reacquiring"} /\ t # owner
       /\ at[t] \in {"entered", "parking"} => owner = t
       /\ at[t] = "acquiring" /\ t # owner => In(lock_q, t)
       /\ owner = t => at[t] \in {"acquiring", "entered", "parking", "reacquiring"}
  /\ owner = Nobody => lock_q = << >>

\* run is queued for the lock behind s, which owns it or is queued itself.
RunBehind(s) == IF owner = s THEN In(lock_q, Run) ELSE Sooner(lock_q, s, Run)

\* A sleeper asks for the lock because its time has not come.  If it comes before
\* the sleeper waits, run is behind it, and will wake it.
CheckedInTime ==
  \A s \in Sleepers :
    at[s] \in {"acquiring", "entered", "parking"} /\ end[s] <= time => RunBehind(s)

\* A sleeper on the condition waits, and once its time has come run is on its way.
WaitsForRun ==
  \A s \in cond_q : /\ at[s] = "waiting"
                    /\ end[s] <= time => at[Run] # "receiving"

RunPoints == at[Run] \in {"receiving", "acquiring", "entered"}

IInv == TypeOK /\ LockInv /\ CheckedInTime /\ WaitsForRun /\ RunPoints

\* The lock invariant says what LockSound says.
LEMMA LockInvSound == TypeOK /\ LockInv => LockSound
BY DEF TypeOK, LockInv, LockSound, In, Distinct, Tasks

\* A sleeper whose time has come has run on its way: for one that is parking, run is
\* in the queue of the lock.
LEMMA IInvNoLostWakeup == IInv => NoLostWakeup
<1> SUFFICES ASSUME IInv, NEW s \in Sleepers, s \in cond_q \/ at[s] = "parking", end[s] <= time
             PROVE  at[Run] # "receiving"
  BY DEF NoLostWakeup
<1>1. CASE s \in cond_q
  BY <1>1 DEF IInv, WaitsForRun
<1>2. CASE at[s] = "parking"
  <2>1. In(lock_q, Run)
    BY <1>2 DEF IInv, CheckedInTime, RunBehind, LockInv, Tasks
  <2>2. QED
    BY <2>1 DEF IInv, LockInv, Tasks
<1>3. QED
  BY <1>1, <1>2

-----------------------------------------------------------------------------
(* The lock.                                                                *)

\* The owner releases the lock and goes where it neither holds nor wants it: the lock
\* stays sound, and whom run was behind, run is behind.
LEMMA Released ==
  ASSUME TypeOK, LockInv, NEW t \in Tasks, owner = t, Release,
         NEW point \in {"awake", "waiting", "receiving"}, GoTo(t, point)
  PROVE  /\ owner' \in Tasks \cup {Nobody} /\ lock_q' \in Seq(Tasks)
         /\ LockInv'
         /\ \A s \in Tasks \ {t} : RunBehind(s) => RunBehind(s)'
<1>1. /\ at' = [at EXCEPT ![t] = point] /\ at \in [Tasks -> Points]
      /\ lock_q \in Seq(Tasks) /\ Distinct(lock_q) /\ Nobody \notin Tasks
  BY TasksAssumption DEF TypeOK, LockInv, GoTo
<1>2. CASE lock_q = << >>
  <2>1. \A u : ~In(lock_q, u)
    BY <1>2 DEF In
  <2>2. \A u, v : ~Sooner(lock_q, u, v)
    BY <1>2 DEF Sooner
  <2>3. owner' = Nobody /\ lock_q' = lock_q
    BY <1>2 DEF Release
  <2>4. LockInv'
    BY <1>1, <1>2, <2>1, <2>3 DEF LockInv
  <2>5. QED
    BY <1>1, <2>2, <2>3, <2>4 DEF RunBehind
<1>3. CASE lock_q # << >>
  <2> DEFINE h == Head(lock_q)
  <2>1. /\ lock_q' \in Seq(Tasks) /\ h \in Tasks /\ In(lock_q, h)
        /\ \A u : In(lock_q', u) <=> In(lock_q, u) /\ u # h
        /\ \A u, v : Sooner(lock_q, u, v) <=> \/ u = h /\ In(lock_q', v)
                                             \/ Sooner(lock_q', u, v)
        /\ Distinct(lock_q')
    <3>1. lock_q' = Tail(lock_q)
      BY <1>3 DEF Release
    <3>2. /\ Tail(lock_q) \in Seq(Tasks) /\ Head(lock_q) \in Tasks /\ In(lock_q, Head(lock_q))
          /\ \A u : In(Tail(lock_q), u) <=> In(lock_q, u) /\ u # Head(lock_q)
          /\ \A u, v : Sooner(lock_q, u, v) <=> \/ u = Head(lock_q) /\ In(Tail(lock_q), v)
                                               \/ Sooner(Tail(lock_q), u, v)
          /\ Distinct(Tail(lock_q))
      BY <1>1, <1>3, Popped
    <3>3. QED
      BY <3>1, <3>2
  <2>2. owner' = h
    BY <1>3 DEF Release
  <2> HIDE DEF h
  <2>3. h # t /\ at[h] \in {"acquiring", "reacquiring"}
    BY <2>1 DEF LockInv
  <2>4. LockInv'
    BY <1>1, <2>1, <2>2, <2>3 DEF LockInv
  <2>5. ASSUME NEW s \in Tasks \ {t}, RunBehind(s)
        PROVE  RunBehind(s)'
    <3>1. Sooner(lock_q, s, Run)
      BY <2>5 DEF RunBehind
    <3>2. CASE s = h
      <4>1. ~Sooner(lock_q', h, Run)
        BY <2>1 DEF Sooner, In
      <4>2. QED
        BY <2>1, <2>2, <3>1, <3>2, <4>1 DEF RunBehind
    <3>3. CASE s # h
      BY <2>1, <2>2, <3>1, <3>3 DEF RunBehind
    <3>4. QED
      BY <3>2, <3>3
  <2>6. QED
    BY <2>1, <2>2, <2>4, <2>5
<1>4. QED
  BY <1>2, <1>3

\* A task appended to the queue of a lock that someone holds: whom run was behind,
\* run is behind, and if it is run that was appended, it is behind everyone.
LEMMA Queued ==
  ASSUME TypeOK, LockInv, NEW t \in Tasks, owner # Nobody, owner # t, ~In(lock_q, t),
         lock_q' = Append(lock_q, t), UNCHANGED owner,
         NEW point \in {"acquiring", "reacquiring"}, GoTo(t, point)
  PROVE  /\ lock_q' \in Seq(Tasks)
         /\ LockInv'
         /\ \A s \in Tasks : RunBehind(s) => RunBehind(s)'
         /\ t = Run => \A s \in Tasks \ {t} : owner = s \/ In(lock_q, s) => RunBehind(s)'
<1>1. /\ lock_q' \in Seq(Tasks) /\ lock_q' # << >>
      /\ \A u : In(lock_q', u) <=> In(lock_q, u) \/ u = t
      /\ \A u, v : Sooner(lock_q', u, v) <=> Sooner(lock_q, u, v) \/ (In(lock_q, u) /\ v = t)
      /\ Distinct(lock_q')
  BY Appended DEF TypeOK, LockInv
<1>2. at' = [at EXCEPT ![t] = point] /\ at \in [Tasks -> Points]
  BY DEF TypeOK, GoTo
<1>3. LockInv'
  BY <1>1, <1>2 DEF LockInv
<1>4. \A s \in Tasks : RunBehind(s) => RunBehind(s)'
  BY <1>1 DEF RunBehind
<1>5. t = Run => \A s \in Tasks \ {t} : owner = s \/ In(lock_q, s) => RunBehind(s)'
  BY <1>1 DEF RunBehind
<1>6. QED
  BY <1>1, <1>3, <1>4, <1>5

\* A free lock is taken at once, and nobody wanted it.
LEMMA Taken ==
  ASSUME TypeOK, LockInv, NEW t \in Tasks, owner = Nobody, owner' = t, UNCHANGED lock_q,
         NEW point \in {"entered", "reacquiring"}, GoTo(t, point)
  PROVE  /\ LockInv'
         /\ \A s \in Tasks : at[s] \notin {"acquiring", "entered", "parking"}
<1>1. at' = [at EXCEPT ![t] = point] /\ at \in [Tasks -> Points]
  BY DEF TypeOK, GoTo
<1>2. lock_q = << >> /\ Nobody \notin Tasks
  BY TasksAssumption DEF LockInv
<1>3. \A u : ~In(lock_q, u)
  BY <1>2 DEF In
<1>4. \A s \in Tasks : at[s] \notin {"acquiring", "entered", "parking"}
  BY <1>2, <1>3 DEF LockInv
<1>5. QED
  BY <1>1, <1>2, <1>3, <1>4 DEF LockInv

-----------------------------------------------------------------------------
(* Every step keeps the invariant.                                          *)

\* A sleeper or run releases the lock and goes to a point where it does not want it.
LEMMA LeavesLock ==
  ASSUME IInv, NEW t \in Tasks, owner = t, Release, UNCHANGED <<time, end>>,
         NEW point \in {"awake", "waiting", "receiving"}, GoTo(t, point),
         cancelled' \subseteq Sleepers, t = Run <=> point = "receiving",
         \/ UNCHANGED cond_q
         \/ cond_q' = {}
         \/ /\ cond_q' = cond_q \cup {t} /\ point = "waiting"
            /\ end[t] <= time => RunBehind(t),
         t = Run => cond_q' = {}
  PROVE  IInv'
<1>1. /\ owner' \in Tasks \cup {Nobody} /\ lock_q' \in Seq(Tasks)
      /\ LockInv'
      /\ \A s \in Tasks \ {t} : RunBehind(s) => RunBehind(s)'
  BY Released DEF IInv
<1>2. /\ at' = [at EXCEPT ![t] = point] /\ at \in [Tasks -> Points]
      /\ Run \in Tasks /\ Sleepers \subseteq Tasks /\ Run \notin Sleepers
      /\ cond_q \subseteq Sleepers
  BY TasksAssumption DEF IInv, TypeOK, GoTo, Tasks
<1>3. at[t] \in {"acquiring", "entered", "parking", "reacquiring"}
  BY DEF IInv, LockInv
<1>4. TypeOK'
  <2>1. at' \in [Tasks -> Points]
    BY <1>2 DEF Points
  <2>2. cond_q' \subseteq Sleepers
    BY <1>2 DEF Tasks
  <2>3. QED
    BY <1>1, <2>1, <2>2 DEF IInv, TypeOK
<1>5. CheckedInTime'
  <2>1. ASSUME NEW s \in Sleepers, at'[s] \in {"acquiring", "entered", "parking"},
               end[s] <= time
        PROVE  RunBehind(s)'
    <3>1. s \in Tasks \ {t} /\ at[s] = at'[s]
      BY <1>2, <2>1
    <3>2. RunBehind(s)
      BY <2>1, <3>1 DEF IInv, CheckedInTime
    <3>3. QED
      BY <1>1, <3>1, <3>2
  <2>2. QED
    BY <2>1 DEF CheckedInTime
<1>6. WaitsForRun'
  <2>1. ASSUME NEW s \in cond_q, s \in cond_q'
        PROVE  at'[s] = "waiting" /\ (end[s] <= time => at'[Run] # "receiving")
    <3>1. at[s] = "waiting" /\ (end[s] <= time => at[Run] # "receiving") /\ s # t /\ t # Run
      BY <1>2, <1>3, <2>1 DEF IInv, WaitsForRun
    <3>2. QED
      BY <1>2, <3>1
  <2>2. ASSUME cond_q' = cond_q \cup {t}, point = "waiting", end[t] <= time => RunBehind(t)
        PROVE  at'[t] = "waiting" /\ (end[t] <= time => at'[Run] # "receiving")
    <3>1. at'[t] = "waiting" /\ t # Run
      BY <1>2, <2>2
    <3>2. end[t] <= time => In(lock_q, Run)
      BY <2>2 DEF RunBehind
    <3>3. In(lock_q, Run) => at[Run] # "receiving"
      BY <1>2 DEF IInv, LockInv
    <3>4. QED
      BY <1>2, <3>1, <3>2, <3>3
  <2>3. QED
    BY <2>1, <2>2 DEF WaitsForRun
<1>7. RunPoints'
  BY <1>2 DEF IInv, RunPoints
<1>8. QED
  BY <1>1, <1>4, <1>5, <1>6, <1>7 DEF IInv

\* A call of sleep, or a sleeper notified, that has to queue for the lock or finds it
\* free.  Its time has not come if it is to enter the block.
LEMMA WantsLock ==
  ASSUME IInv, NEW s \in Sleepers, at[s] \in {"awake", "waiting"},
         UNCHANGED <<time, cancelled>>, end' \in [Sleepers -> Nat],
         \A u \in Sleepers \ {s} : end'[u] = end[u],
         cond_q' = cond_q \ {s}, NEW point \in {"acquiring", "entered", "reacquiring"},
         GoTo(s, point), point # "reacquiring" => end'[s] > time,
         \/ owner = Nobody /\ owner' = s /\ UNCHANGED lock_q /\ point # "acquiring"
         \/ owner # Nobody /\ lock_q' = Append(lock_q, s) /\ UNCHANGED owner /\ point # "entered"
  PROVE  IInv'
<1>1. /\ at' = [at EXCEPT ![s] = point] /\ at \in [Tasks -> Points]
      /\ Run \in Tasks /\ Sleepers \subseteq Tasks /\ Run \notin Sleepers /\ time \in Nat
  BY TasksAssumption DEF IInv, TypeOK, GoTo, Tasks
<1>2. /\ LockInv' /\ lock_q' \in Seq(Tasks) /\ owner' \in Tasks \cup {Nobody}
      /\ \A u \in Sleepers \ {s} :
           at[u] \in {"acquiring", "entered", "parking"} /\ RunBehind(u) => RunBehind(u)'
  <2>1. CASE owner = Nobody
    <3>1. /\ LockInv' /\ UNCHANGED lock_q /\ owner' = s
          /\ \A u \in Tasks : at[u] \notin {"acquiring", "entered", "parking"}
      BY <1>1, <2>1, Taken DEF IInv
    <3>2. QED
      BY <1>1, <3>1 DEF IInv, TypeOK
  <2>2. CASE owner # Nobody
    <3>1. owner # s /\ ~In(lock_q, s)
      BY <1>1 DEF IInv, LockInv
    <3>2. /\ lock_q' \in Seq(Tasks) /\ LockInv'
          /\ \A u \in Tasks : RunBehind(u) => RunBehind(u)'
      BY <1>1, <2>2, <3>1, Queued DEF IInv
    <3>3. QED
      BY <1>1, <2>2, <3>2 DEF IInv, TypeOK
  <2>3. QED
    BY <2>1, <2>2
<1>3. TypeOK'
  BY <1>1, <1>2 DEF IInv, TypeOK, Points
<1>4. CheckedInTime'
  <2>1. ASSUME NEW u \in Sleepers, at'[u] \in {"acquiring", "entered", "parking"},
               end'[u] <= time
        PROVE  RunBehind(u)'
    <3>1. u # s
      BY <1>1, <2>1
    <3>2. at[u] = at'[u] /\ end[u] <= time
      BY <1>1, <2>1, <3>1
    <3>3. RunBehind(u)
      BY <2>1, <3>2 DEF IInv, CheckedInTime
    <3>4. QED
      BY <1>2, <2>1, <3>1, <3>2, <3>3
  <2>2. QED
    BY <2>1 DEF CheckedInTime
<1>5. WaitsForRun'
  <2>1. ASSUME NEW u \in cond_q'
        PROVE  at'[u] = "waiting" /\ (end'[u] <= time => at'[Run] # "receiving")
    <3>1. u \in cond_q /\ u # s /\ u \in Sleepers
      BY <2>1 DEF IInv, TypeOK
    <3>2. QED
      BY <1>1, <3>1 DEF IInv, WaitsForRun
  <2>2. QED
    BY <2>1 DEF WaitsForRun
<1>6. RunPoints'
  BY <1>1 DEF IInv, RunPoints
<1>7. QED
  BY <1>2, <1>3, <1>4, <1>5, <1>6 DEF IInv

\* The call of sleep.
LEMMA SleepStep ==
  ASSUME IInv, NEW s \in Sleepers, NEW d \in Durations, Sleep(s, d)
  PROVE  IInv'
<1>1. /\ time \in Nat /\ d \in Nat \ {0} /\ end \in [Sleepers -> Nat] /\ at[s] = "awake"
      /\ end' = [end EXCEPT ![s] = time + d]
  BY DurationsAssumption DEF IInv, TypeOK, Sleep
<1>2. end' \in [Sleepers -> Nat] /\ end'[s] > time /\ \A u \in Sleepers \ {s} : end'[u] = end[u]
  BY <1>1
<1>3. cond_q' = cond_q \ {s}
  BY <1>1 DEF Sleep, IInv, WaitsForRun
<1>4. UNCHANGED <<time, cancelled>>
  BY DEF Sleep
<1>5. CASE owner = Nobody
  <2>1. owner' = s /\ UNCHANGED lock_q /\ GoTo(s, "entered")
    BY <1>5 DEF Sleep, Acquire
  <2>2. QED
    BY <1>1, <1>2, <1>3, <1>4, <1>5, <2>1, WantsLock
<1>6. CASE owner # Nobody
  <2>1. lock_q' = Append(lock_q, s) /\ UNCHANGED owner /\ GoTo(s, "acquiring")
    BY <1>6 DEF Sleep, Acquire
  <2>2. QED
    BY <1>1, <1>2, <1>3, <1>4, <1>6, <2>1, WantsLock
<1>7. QED
  BY <1>5, <1>6

\* The second look at the time, with the lock.
LEMMA CheckStep ==
  ASSUME IInv, NEW s \in Sleepers, Check(s)
  PROVE  IInv'
<1>1. s \in Tasks /\ s # Run /\ owner = s
  BY TasksAssumption DEF Tasks, Check
<1>2. CASE Release /\ Leave(s)
  <2>1. /\ GoTo(s, "awake") /\ cancelled' \subseteq Sleepers
        /\ UNCHANGED <<time, end, cond_q>>
    BY <1>2 DEF Leave, IInv, TypeOK, Check
  <2>2. QED
    BY <1>1, <1>2, <2>1, LeavesLock
<1>3. CASE GoTo(s, "parking") /\ UNCHANGED <<cancelled, owner, lock_q>>
  <2>1. /\ at' = [at EXCEPT ![s] = "parking"] /\ at \in [Tasks -> Points]
        /\ at[s] \in {"acquiring", "entered"} /\ UNCHANGED <<time, end, cond_q>>
    BY <1>3 DEF GoTo, IInv, TypeOK, Check
  <2>2. TypeOK'
    BY <1>3, <2>1 DEF IInv, TypeOK, Points
  <2>3. LockInv'
    BY <1>1, <1>3, <2>1 DEF IInv, LockInv
  <2>4. CheckedInTime'
    BY <1>1, <1>3, <2>1 DEF IInv, CheckedInTime, RunBehind, Tasks
  <2>5. WaitsForRun' /\ RunPoints'
    BY <1>1, <1>3, <2>1 DEF IInv, WaitsForRun, RunPoints, TypeOK, Tasks
  <2>6. QED
    BY <2>2, <2>3, <2>4, <2>5 DEF IInv
<1>4. QED
  BY <1>2, <1>3 DEF Check

\* wait: run is behind a sleeper whose time has come.
LEMMA ParkStep ==
  ASSUME IInv, NEW s \in Sleepers, Park(s)
  PROVE  IInv'
<1>1. s \in Tasks /\ s # Run /\ owner = s
  BY TasksAssumption DEF Tasks, Park, IInv, LockInv
<1>2. end[s] <= time => RunBehind(s)
  BY DEF Park, IInv, CheckedInTime
<1>3. /\ cancelled' \subseteq Sleepers /\ cond_q' = cond_q \cup {s} /\ Release
      /\ GoTo(s, "waiting") /\ UNCHANGED <<time, end>>
  BY DEF Park, IInv, TypeOK
<1>4. QED
  BY <1>1, <1>2, <1>3, LeavesLock

\* Notified or cancelled, a sleeper takes the lock back.
LEMMA ReacquireStep ==
  ASSUME IInv, NEW s \in Sleepers, Reacquire(s)
  PROVE  IInv'
<1>1. /\ at[s] = "waiting" /\ end' \in [Sleepers -> Nat] /\ end' = end
      /\ UNCHANGED <<time, cancelled>> /\ cond_q' = cond_q \ {s} /\ GoTo(s, "reacquiring")
  BY DEF Reacquire, IInv, TypeOK
<1>2. CASE owner = Nobody /\ owner' = s /\ UNCHANGED lock_q
  BY <1>1, <1>2, WantsLock
<1>3. CASE owner # Nobody /\ lock_q' = Append(lock_q, s) /\ UNCHANGED owner
  BY <1>1, <1>3, WantsLock
<1>4. QED
  BY <1>2, <1>3 DEF Reacquire

\* The lock is back: the sleep ends, or the sleeper queues again behind the others.
LEMMA WokenStep ==
  ASSUME IInv, NEW s \in Sleepers, Woken(s)
  PROVE  IInv'
<1>1. /\ s \in Tasks /\ s # Run /\ owner = s /\ at[s] = "reacquiring" /\ s \notin cond_q
      /\ Nobody \notin Tasks /\ UNCHANGED <<time, end, cond_q>> /\ at \in [Tasks -> Points]
      /\ Run \in Tasks /\ Sleepers \subseteq Tasks /\ Run \notin Sleepers
  BY TasksAssumption DEF Tasks, Woken, IInv, TypeOK, WaitsForRun
<1>2. CASE Release /\ Leave(s)
  <2>1. GoTo(s, "awake") /\ cancelled' \subseteq Sleepers
    BY <1>2 DEF Leave, IInv, TypeOK
  <2>2. QED
    BY <1>1, <1>2, <2>1, LeavesLock
<1>3. CASE /\ end[s] > time /\ lock_q = << >> /\ GoTo(s, "entered")
           /\ UNCHANGED <<cancelled, owner, lock_q>>
  <2>1. at' = [at EXCEPT ![s] = "entered"]
    BY <1>3 DEF GoTo
  <2>2. TypeOK'
    BY <1>1, <1>3, <2>1 DEF IInv, TypeOK, Points
  <2>3. LockInv'
    BY <1>1, <1>3, <2>1 DEF IInv, LockInv
  <2>4. CheckedInTime'
    <3>1. ~(end[s] <= time)
      BY <1>3 DEF IInv, TypeOK
    <3>2. QED
      BY <1>1, <1>3, <2>1, <3>1 DEF IInv, CheckedInTime, RunBehind
  <2>5. WaitsForRun' /\ RunPoints'
    BY <1>1, <1>3, <2>1 DEF IInv, WaitsForRun, RunPoints, TypeOK
  <2>6. QED
    BY <2>2, <2>3, <2>4, <2>5 DEF IInv
<1>4. CASE /\ end[s] > time /\ lock_q # << >>
           /\ owner' = Head(lock_q) /\ lock_q' = Append(Tail(lock_q), s)
           /\ GoTo(s, "acquiring") /\ UNCHANGED cancelled
  <2> DEFINE h == Head(lock_q)
             rest == Tail(lock_q)
  <2>1. at' = [at EXCEPT ![s] = "acquiring"]
    BY <1>4 DEF GoTo
  <2>2. /\ rest \in Seq(Tasks) /\ h \in Tasks /\ In(lock_q, h)
        /\ \A u : In(rest, u) <=> In(lock_q, u) /\ u # h
        /\ \A u, v : Sooner(lock_q, u, v) <=> (u = h /\ In(rest, v)) \/ Sooner(rest, u, v)
        /\ Distinct(rest)
    BY <1>4, Popped DEF IInv, TypeOK, LockInv
  <2>3. h # s /\ at[h] \in {"acquiring", "reacquiring"} /\ ~In(lock_q, s)
    BY <1>1, <2>2 DEF IInv, LockInv
  <2> HIDE DEF rest
  <2>4. lock_q' = Append(rest, s)
    BY <1>4 DEF rest
  <2>5. /\ lock_q' \in Seq(Tasks) /\ lock_q' # << >>
        /\ \A u : In(lock_q', u) <=> In(rest, u) \/ u = s
        /\ \A u, v : Sooner(lock_q', u, v) <=> Sooner(rest, u, v) \/ (In(rest, u) /\ v = s)
        /\ Distinct(lock_q')
    <3>1. ~In(rest, s) /\ s \in Tasks
      BY <1>1, <2>2, <2>3
    <3>2. QED
      BY <2>2, <2>4, <3>1, Appended
  <2>6. owner' = h
    BY <1>4
  <2> HIDE DEF h
  <2>7. TypeOK'
    BY <1>1, <1>4, <2>1, <2>2, <2>5, <2>6 DEF IInv, TypeOK, Points
  <2>8. LockInv'
    BY <1>1, <2>1, <2>2, <2>3, <2>5, <2>6 DEF IInv, LockInv
  <2>9. CheckedInTime'
    <3>1. ASSUME NEW u \in Sleepers, at'[u] \in {"acquiring", "entered", "parking"},
                 end[u] <= time
          PROVE  RunBehind(u)'
      <4>1. u # s
        BY <1>4, <3>1 DEF IInv, TypeOK
      <4>2. Sooner(lock_q, u, Run)
        BY <1>1, <2>1, <3>1, <4>1 DEF IInv, CheckedInTime, RunBehind
      <4>3. CASE u = h
        <5>1. ~Sooner(rest, h, Run)
          BY <2>2 DEF Sooner, In
        <5>2. QED
          BY <1>1, <2>2, <2>5, <2>6, <4>2, <4>3, <5>1 DEF RunBehind
      <4>4. CASE u # h
        BY <2>2, <2>5, <2>6, <4>2, <4>4 DEF RunBehind
      <4>5. QED
        BY <4>3, <4>4
    <3>2. QED
      BY <1>1, <3>1 DEF CheckedInTime
  <2>10. WaitsForRun' /\ RunPoints'
    BY <1>1, <2>1 DEF IInv, WaitsForRun, RunPoints, TypeOK
  <2>11. QED
    BY <2>5, <2>7, <2>8, <2>9, <2>10 DEF IInv
<1>5. QED
  BY <1>2, <1>3, <1>4 DEF Woken

\* Cancelling changes nothing by itself.
LEMMA CancelStep ==
  ASSUME IInv, NEW s \in Sleepers, Cancel(s)
  PROVE  IInv'
BY DEF Cancel, IInv, TypeOK, LockInv, CheckedInTime, RunBehind, WaitsForRun, RunPoints

\* A cancelled sleeper leaves the queue of the lock, and the others their places.
LEMMA CancelAcquireStep ==
  ASSUME IInv, NEW s \in Sleepers, CancelAcquire(s)
  PROVE  IInv'
<1>1. PICK k \in DOMAIN lock_q : lock_q[k] = s /\ lock_q' = RemoveAt(lock_q, k)
  BY DEF CancelAcquire
<1>2. /\ s \in Tasks /\ s # Run /\ at[s] = "acquiring" /\ UNCHANGED <<time, end, owner, cond_q>>
      /\ at' = [at EXCEPT ![s] = "awake"] /\ at \in [Tasks -> Points]
      /\ Run \in Tasks /\ Sleepers \subseteq Tasks /\ Run \notin Sleepers
      /\ cancelled' \subseteq Sleepers
  BY TasksAssumption DEF Tasks, CancelAcquire, Leave, GoTo, IInv, TypeOK
<1>3. /\ lock_q' \in Seq(Tasks)
      /\ \A u : In(lock_q', u) <=> In(lock_q, u) /\ u # s
      /\ \A u, v : Sooner(lock_q, u, v) /\ u # s /\ v # s => Sooner(lock_q', u, v)
      /\ Distinct(lock_q')
  <2>1. /\ RemoveAt(lock_q, k) \in Seq(Tasks)
        /\ \A u : In(RemoveAt(lock_q, k), u) <=> In(lock_q, u) /\ u # lock_q[k]
        /\ \A u, v : Sooner(lock_q, u, v) /\ u # lock_q[k] /\ v # lock_q[k] =>
                       Sooner(RemoveAt(lock_q, k), u, v)
        /\ Distinct(RemoveAt(lock_q, k))
    BY WithoutOne DEF IInv, TypeOK, LockInv
  <2>2. QED
    BY <1>1, <2>1
<1>4. owner # s /\ owner # Nobody /\ In(lock_q, s)
  <2>1. In(lock_q, s) /\ lock_q # << >>
    BY <1>1 DEF In
  <2>2. QED
    BY <1>2, <2>1 DEF IInv, LockInv
<1>5. TypeOK'
  BY <1>2, <1>3 DEF IInv, TypeOK, Points
<1>6. LockInv'
  BY <1>2, <1>3, <1>4 DEF IInv, LockInv
<1>7. CheckedInTime'
  BY <1>2, <1>3, <1>4 DEF IInv, CheckedInTime, RunBehind
<1>8. WaitsForRun' /\ RunPoints'
  BY <1>2 DEF IInv, WaitsForRun, RunPoints, TypeOK
<1>9. QED
  BY <1>3, <1>5, <1>6, <1>7, <1>8 DEF IInv

\* A sleeper cancelled as it calls wait releases the lock.
LEMMA CancelParkStep ==
  ASSUME IInv, NEW s \in Sleepers, CancelPark(s)
  PROVE  IInv'
<1>1. s \in Tasks /\ s # Run /\ owner = s
  BY TasksAssumption DEF Tasks, CancelPark, IInv, LockInv
<1>2. /\ cancelled' \subseteq Sleepers /\ GoTo(s, "awake") /\ Release
      /\ UNCHANGED <<time, end, cond_q>>
  BY DEF CancelPark, Leave, IInv, TypeOK
<1>3. QED
  BY <1>1, <1>2, LeavesLock

\* A clock message: everyone in the block, or queued for it, has run behind it.
LEMMA ClockStep ==
  ASSUME IInv, NEW now \in 0..MaxTime, Clock(now)
  PROVE  IInv'
<1>1. /\ Run \in Tasks /\ Run \notin Sleepers /\ Sleepers \subseteq Tasks
      /\ at[Run] = "receiving" /\ time' \in Nat /\ at \in [Tasks -> Points]
      /\ UNCHANGED <<end, cancelled, cond_q>>
  BY TasksAssumption, MaxTimeAssumption DEF Tasks, Clock, IInv, TypeOK
<1>2. CASE owner = Nobody
  <2>1. /\ owner' = Run /\ UNCHANGED lock_q /\ GoTo(Run, "entered")
        /\ at' = [at EXCEPT ![Run] = "entered"]
    BY <1>2 DEF Clock, Acquire, GoTo
  <2>2. LockInv' /\ \A s \in Tasks : at[s] \notin {"acquiring", "entered", "parking"}
    BY <1>1, <1>2, <2>1, Taken DEF IInv
  <2>3. TypeOK'
    BY <1>1, <2>1 DEF IInv, TypeOK, Points
  <2>4. CheckedInTime' /\ WaitsForRun' /\ RunPoints'
    BY <1>1, <2>1, <2>2 DEF IInv, TypeOK, CheckedInTime, WaitsForRun, RunPoints
  <2>5. QED
    BY <2>2, <2>3, <2>4 DEF IInv
<1>3. CASE owner # Nobody
  <2>1. /\ lock_q' = Append(lock_q, Run) /\ UNCHANGED owner /\ GoTo(Run, "acquiring")
        /\ at' = [at EXCEPT ![Run] = "acquiring"]
    BY <1>3 DEF Clock, Acquire, GoTo
  <2>2. owner # Run /\ ~In(lock_q, Run)
    BY <1>1 DEF IInv, LockInv
  <2>3. /\ lock_q' \in Seq(Tasks) /\ LockInv'
        /\ \A s \in Tasks \ {Run} : owner = s \/ In(lock_q, s) => RunBehind(s)'
    BY <1>1, <1>3, <2>1, <2>2, Queued DEF IInv
  <2>4. TypeOK'
    BY <1>1, <2>1, <2>3 DEF IInv, TypeOK, Points
  <2>5. CheckedInTime'
    <3>1. \A s \in Sleepers : at'[s] \in {"acquiring", "entered", "parking"} =>
            owner = s \/ In(lock_q, s)
      BY <1>1, <2>1 DEF IInv, LockInv
    <3>2. QED
      BY <1>1, <2>3, <3>1 DEF CheckedInTime
  <2>6. WaitsForRun' /\ RunPoints'
    BY <1>1, <2>1 DEF IInv, TypeOK, WaitsForRun, RunPoints
  <2>7. QED
    BY <2>3, <2>4, <2>5, <2>6 DEF IInv
<1>4. QED
  BY <1>2, <1>3

\* run wakes every sleeper, so that none waits when it is back for the next message.
LEMMA NotifyAllStep ==
  ASSUME IInv, NotifyAll
  PROVE  IInv'
<1>1. /\ Run \in Tasks /\ owner = Run /\ cond_q' = {} /\ Release /\ GoTo(Run, "receiving")
      /\ cancelled' \subseteq Sleepers /\ UNCHANGED <<time, end>>
  BY DEF NotifyAll, Tasks, IInv, TypeOK
<1>2. QED
  BY <1>1, LeavesLock

\* The first state satisfies IInv.
LEMMA InitIInv == Init => IInv
<1> SUFFICES ASSUME Init PROVE IInv
  OBVIOUS
<1>1. TypeOK
  BY MaxTimeAssumption DEF Init, TypeOK, Points
<1>2. LockInv
  BY TasksAssumption DEF Init, LockInv, In, Distinct, Tasks
<1>3. CheckedInTime /\ WaitsForRun /\ RunPoints
  BY TasksAssumption DEF Init, CheckedInTime, WaitsForRun, RunPoints, Tasks
<1>4. QED
  BY <1>1, <1>2, <1>3 DEF IInv

\* Every step preserves IInv.
LEMMA NextIInv == IInv /\ [Next]_vars => IInv'
<1> SUFFICES ASSUME IInv, [Next]_vars PROVE IInv'
  OBVIOUS
<1>1. ASSUME NEW s \in Sleepers, NEW d \in Durations, Sleep(s, d) PROVE IInv'
  BY <1>1, SleepStep
<1>2. ASSUME NEW s \in Sleepers, SleeperRuns(s) PROVE IInv'
  BY <1>2, CheckStep, ParkStep, ReacquireStep, WokenStep, CancelAcquireStep, CancelParkStep
     DEF SleeperRuns
<1>3. ASSUME NEW s \in Sleepers, Cancel(s) PROVE IInv'
  BY <1>3, CancelStep
<1>4. ASSUME NEW now \in 0..MaxTime, Clock(now) PROVE IInv'
  BY <1>4, ClockStep
<1>5. CASE NotifyAll
  BY <1>5, NotifyAllStep
<1>6. CASE UNCHANGED vars
  BY <1>6 DEF vars, IInv, TypeOK, LockInv, CheckedInTime, RunBehind, WaitsForRun, RunPoints
<1>7. QED
  BY <1>1, <1>2, <1>3, <1>4, <1>5, <1>6 DEF Next

\* IInv is an invariant of SimTimeManager.
THEOREM Invariance == Spec => []IInv
BY InitIInv, NextIInv, PTL DEF Spec

\* The lock of the condition excludes, and is never free while a task waits for it.
THEOREM LockIsSound == Spec => []LockSound
<1>1. IInv => LockSound
  BY LockInvSound DEF IInv
<1>2. QED
  BY <1>1, Invariance, PTL

\* A sleeper that waits although its time has come is about to be woken.
THEOREM WakeupsAreNotLost == Spec => []NoLostWakeup
BY Invariance, IInvNoLostWakeup, PTL
=============================================================================
