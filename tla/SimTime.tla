------------------------------- MODULE SimTime -------------------------------
(***************************************************************************)
(* SimTimeManager (src/aioros/_node/_time.py): sleeping until the time      *)
(* published on /clock has passed.  run stores each clock message before it *)
(* takes the condition's lock to wake the sleepers; a sleeper looks at the  *)
(* time before it takes that lock and again after.  Between two awaits a    *)
(* task runs alone.  A sleep may be cancelled, and the clock be set back.   *)
(***************************************************************************)
EXTENDS Naturals, SequencesExt

CONSTANTS
  Sleepers,   \* tasks that sleep, on one duration at a time
  Durations,  \* durations slept
  MaxTime,    \* bound: the latest clock message
  Run,        \* the task of run
  Nobody      \* the owner of a free lock

Tasks == Sleepers \cup {Run}

ASSUME DurationsAssumption == Durations \subseteq Nat
ASSUME MaxTimeAssumption == MaxTime \in Nat
ASSUME TasksAssumption == Run \notin Sleepers /\ Nobody \notin Tasks

VARIABLES
  time,       \* _time, as of the last clock message
  at,         \* task |-> the point at which it is suspended
  end,        \* sleeper |-> end of its sleep
  cancelled,  \* sleepers whose cancel scope is cancelled
  owner,      \* who holds the lock of _cond
  lock_q,     \* the tasks that wait for the lock, in order
  cond_q      \* the sleepers that wait on _cond

vars == <<time, at, end, cancelled, owner, lock_q, cond_q>>

\* awake: not sleeping; receiving: run awaits a clock message; acquiring: queued for
\* the lock, or handed it; entered: in the checkpoint that follows an uncontended
\* acquire; parking: in the checkpoint with which wait begins; waiting: for notify,
\* or notified and not yet run; reacquiring: the lock, after notify.
Points == {"awake", "receiving", "acquiring", "entered", "parking", "waiting", "reacquiring"}

\* The time, the lock, the queues and the tasks' points are of their types.
TypeOK ==
  /\ time \in Nat
  /\ at \in [Tasks -> Points]
  /\ end \in [Sleepers -> Nat]
  /\ cancelled \subseteq Sleepers
  /\ owner \in Tasks \cup {Nobody}
  /\ lock_q \in Seq(Tasks)
  /\ cond_q \subseteq Sleepers

\* init_time returns when the clock has been heard once.
Init ==
  /\ time \in 0..MaxTime
  /\ at = [t \in Tasks |-> IF t = Run THEN "receiving" ELSE "awake"]
  /\ end = [s \in Sleepers |-> 0]
  /\ cancelled = {}
  /\ owner = Nobody
  /\ lock_q = << >>
  /\ cond_q = {}

-----------------------------------------------------------------------------
(* The lock of anyio: release hands it to the first task that waits for it. *)

GoTo(t, point) == at' = [at EXCEPT ![t] = point]

Acquire(t) ==
  IF owner = Nobody THEN owner' = t /\ GoTo(t, "entered") /\ UNCHANGED lock_q
  ELSE lock_q' = Append(lock_q, t) /\ GoTo(t, "acquiring") /\ UNCHANGED owner

\* Mutant: the lock is free although tasks wait for it.
ReleaseToNobody == owner' = Nobody /\ UNCHANGED lock_q

Release ==
  IF lock_q = << >> THEN owner' = Nobody /\ UNCHANGED lock_q
  ELSE owner' = Head(lock_q) /\ lock_q' = Tail(lock_q)

\* s returns from sleep, or the cancellation leaves it.
Leave(s) == GoTo(s, "awake") /\ cancelled' = cancelled \ {s}

-----------------------------------------------------------------------------
(* sleep                                                                    *)

\* The call: the end is fixed, and tested for the first time.
Sleep(s, d) ==
  /\ at[s] = "awake" /\ d > 0
  /\ end' = [end EXCEPT ![s] = time + d]
  /\ Acquire(s)
  /\ UNCHANGED <<time, cancelled, cond_q>>

\* In the block of the condition: leave if the time has passed, or call wait.
Check(s) ==
  /\ owner = s /\ at[s] \in {"acquiring", "entered"}
  /\ \/ end[s] < time /\ Release /\ Leave(s)
     \/ end[s] >= time /\ GoTo(s, "parking") /\ UNCHANGED <<cancelled, owner, lock_q>>
  /\ UNCHANGED <<time, end, cond_q>>

\* wait joins the sleepers and releases the lock.
Park(s) ==
  /\ at[s] = "parking"
  /\ cond_q' = cond_q \cup {s}
  /\ GoTo(s, "waiting")
  /\ Release
  /\ UNCHANGED <<time, end, cancelled>>

\* Notified or cancelled, wait takes the lock back, shielded from cancellation.
Reacquire(s) ==
  /\ at[s] = "waiting" /\ (s \notin cond_q \/ s \in cancelled)
  /\ cond_q' = cond_q \ {s}
  /\ GoTo(s, "reacquiring")
  /\ \/ owner = Nobody /\ owner' = s /\ UNCHANGED lock_q
     \/ owner # Nobody /\ lock_q' = Append(lock_q, s) /\ UNCHANGED owner
  /\ UNCHANGED <<time, end, cancelled>>

\* With the lock back the block ends and the lock is released: the sleep is over, or
\* it is not and the lock asked for again, behind those that waited for it.
Woken(s) ==
  /\ owner = s /\ at[s] = "reacquiring"
  /\ \/ /\ end[s] <= time \/ s \in cancelled
        /\ Release /\ Leave(s)
     \/ /\ end[s] > time /\ s \notin cancelled /\ lock_q = << >>
        /\ GoTo(s, "entered")
        /\ UNCHANGED <<cancelled, owner, lock_q>>
     \/ /\ end[s] > time /\ s \notin cancelled /\ lock_q # << >>
        /\ owner' = Head(lock_q) /\ lock_q' = Append(Tail(lock_q), s)
        /\ GoTo(s, "acquiring")
        /\ UNCHANGED cancelled
  /\ UNCHANGED <<time, end, cond_q>>

\* The caller's cancel scope is cancelled, while s sleeps.
Cancel(s) ==
  /\ at[s] # "awake"
  /\ cancelled' = cancelled \cup {s}
  /\ UNCHANGED <<time, at, end, owner, lock_q, cond_q>>

\* A task queued for the lock leaves the queue.
CancelAcquire(s) ==
  /\ s \in cancelled /\ at[s] = "acquiring"
  /\ \E i \in DOMAIN lock_q : lock_q[i] = s /\ lock_q' = RemoveAt(lock_q, i)
  /\ Leave(s)
  /\ UNCHANGED <<time, end, owner, cond_q>>

\* The checkpoint with which wait begins raises, and the block is left.
CancelPark(s) ==
  /\ s \in cancelled /\ at[s] = "parking"
  /\ Release /\ Leave(s)
  /\ UNCHANGED <<time, end, cond_q>>

-----------------------------------------------------------------------------
(* run                                                                      *)

\* Mutant: the sleepers are notified at once, without the lock.
ClockUnlocked(now) ==
  /\ at[Run] = "receiving"
  /\ time' = now
  /\ cond_q' = {}
  /\ UNCHANGED <<at, end, cancelled, owner, lock_q>>

\* A clock message: the time is stored, and then the lock asked for.
Clock(now) ==
  /\ at[Run] = "receiving"
  /\ time' = now
  /\ Acquire(Run)
  /\ UNCHANGED <<end, cancelled, cond_q>>

\* Mutant: notify instead of notify_all.
NotifyOne ==
  /\ owner = Run
  /\ \E s \in Sleepers : cond_q' = cond_q \ {s} /\ (s \in cond_q \/ cond_q = {})
  /\ GoTo(Run, "receiving")
  /\ Release
  /\ UNCHANGED <<time, end, cancelled>>

\* With the lock: every sleeper is notified, and the next message awaited.
NotifyAll ==
  /\ owner = Run
  /\ cond_q' = {}
  /\ GoTo(Run, "receiving")
  /\ Release
  /\ UNCHANGED <<time, end, cancelled>>

SleeperRuns(s) ==
  Check(s) \/ Park(s) \/ Reacquire(s) \/ Woken(s) \/ CancelAcquire(s) \/ CancelPark(s)

Next ==
  \/ \E s \in Sleepers, d \in Durations : Sleep(s, d)
  \/ \E s \in Sleepers : SleeperRuns(s) \/ Cancel(s)
  \/ \E now \in 0..MaxTime : Clock(now)
  \/ NotifyAll

Spec == Init /\ [][Next]_vars

\* The event loop runs every task that can run.
FairSpec ==
  /\ Spec
  /\ \A s \in Sleepers : WF_vars(SleeperRuns(s))
  /\ WF_vars(NotifyAll)

-----------------------------------------------------------------------------
(* Properties                                                               *)

\* The lock excludes, and is never free while a task waits for it: a task past
\* acquiring it is its owner, and is queued for it only while it wants it.
LockSound ==
  /\ \A t \in Tasks : at[t] \in {"entered", "parking"} => owner = t
  /\ owner = Nobody => lock_q = << >>
  /\ owner # Nobody => at[owner] \in {"acquiring", "entered", "parking", "reacquiring"}
  /\ \A i \in DOMAIN lock_q : /\ at[lock_q[i]] \in {"acquiring", "reacquiring"}
                              /\ lock_q[i] # owner
                              /\ \A j \in DOMAIN lock_q : lock_q[i] = lock_q[j] => i = j

\* No wake-up is lost: while a sleeper waits on the condition, or is about to,
\* although its time has come, run still has the message that says so to announce.
NoLostWakeup ==
  \A s \in Sleepers :
    (s \in cond_q \/ at[s] = "parking") /\ end[s] <= time => at[Run] # "receiving"

\* A sleep ends once its time has come, unless the clock is set back before it.
SleepEnds ==
  \A s \in Sleepers : []<>(at[s] = "awake" \/ time < end[s])
=============================================================================
