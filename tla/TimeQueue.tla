------------------------------ MODULE TimeQueue ------------------------------
(***************************************************************************)
(* TimeQueue (zdq_time_queue.h, zdq_time_queue.cpp), TimerInfo             *)
(* (zdq_timer_info.h) and resetTimerfd (zdq_timer.cpp): one timerfd that   *)
(* multiplexes the timers of an event loop.                                *)
(*                                                                         *)
(* A timer is an identity; an Entry <Timestamp, TimerInfo*> is represented *)
(* by that identity, since its Timestamp always equals the expiration_ of  *)
(* its TimerInfo while the entry is in timers_.  Entries of equal time are *)
(* ordered by address, so the model leaves that order open.  Time is       *)
(* counted in ticks longer than the 100 microseconds of resetTimerfd; it   *)
(* advances, and the timerfd expires, between any two steps.  A timer that *)
(* another thread adds waits in the loop's functor queue (module EventLoop)*)
(* until the loop thread runs addTimerInloop.                              *)
(***************************************************************************)
EXTENDS Integers

CONSTANTS Timer,      \* identities of the timers that can be created
          Intervals,  \* intervals given to runEvery, in ticks
          MaxTime     \* bound: the clock stops there

ASSUME IntervalsAssumption == Intervals \subseteq Nat \ {0}
ASSUME MaxTimeAssumption == MaxTime \in Nat

VARIABLES
  now,          \* Timestamp::now()
  expiration_,  \* per TimerInfo; None before it is created and after its delete
  interval_,    \* per TimerInfo; 0 for a one-shot timer, None before it is created
  handed,       \* created by another thread, addTimerInloop not yet run
  timers_,      \* the ordered set of pending entries
  pc,           \* where the loop thread is: outside handleRead, or in its loops
  nowRead,      \* handleRead's local now
  toRun,        \* entries of handleRead's local expired whose run() is to come
  toReset,      \* entries of expired that reset() has still to visit
  armed,        \* when timerfd_ expires, None if disarmed
  readable      \* timerfd_ has expired and has been neither read nor set since

vars == <<now, expiration_, interval_, handed, timers_, pc, nowRead, toRun,
          toReset, armed, readable>>
infoVars == <<expiration_, interval_>>
batchVars == <<pc, nowRead, toRun, toReset>>
fdVars == <<armed, readable>>

None == -1

Latest(a, b) == IF a > b THEN a ELSE b

\* s.begin()->second, for a set of entries s.
IsFirst(i, s) == i \in s /\ \A j \in s : expiration_[i] <= expiration_[j]

-----------------------------------------------------------------------------
(* timerfd *)

\* howMuchTimeFromNow: a time that has passed is turned into 100 microseconds
\* from now, for a relative time of zero would disarm the descriptor.
ExpiryNoFloor(when) == IF when > now THEN when ELSE None
ExpiryOf(when) == Latest(when, now)

\* timerfd_settime also forgets an expiration that was not read.
resetTimerfd(when) == armed' = ExpiryOf(when) /\ readable' = FALSE

timerfdExpires ==
  /\ armed # None /\ armed <= now
  /\ armed' = None /\ readable' = TRUE
  /\ UNCHANGED <<now, infoVars, handed, timers_, batchVars>>

Tick ==
  /\ now < MaxTime
  /\ now' = now + 1
  /\ UNCHANGED <<infoVars, handed, timers_, batchVars, fdVars>>

-----------------------------------------------------------------------------
(* Adding timers *)

\* timers_.insert, and timerfd_ set if the new entry is the earliest.
InsertNeverArms(i, when) == timers_' = timers_ \cup {i} /\ UNCHANGED fdVars
Insert(i, when) ==
  /\ timers_' = timers_ \cup {i}
  /\ IF \A j \in timers_ : when < expiration_[j]
     THEN resetTimerfd(when)
     ELSE UNCHANGED fdVars

\* User code that runs in the loop thread: anywhere outside handleRead, and in
\* the callbacks that handleRead runs.
LoopInUserCode == pc = "idle" \/ (pc = "run" /\ toRun # toReset)

\* addTimer: in the loop thread runInLoop inserts at once, from another thread
\* the insertion is queued.
addTimer(i, when, interval) ==
  /\ interval_[i] = None
  /\ expiration_' = [expiration_ EXCEPT ![i] = when]
  /\ interval_' = [interval_ EXCEPT ![i] = interval]
  /\ \/ LoopInUserCode /\ Insert(i, when) /\ UNCHANGED handed
     \/ handed' = handed \cup {i} /\ UNCHANGED <<timers_, fdVars>>
  /\ UNCHANGED <<now, batchVars>>

\* runAfter(delay) is runAt(now + delay).
runAt(i, when) == addTimer(i, when, 0)
runEvery(i, interval) == addTimer(i, now + interval, interval)

addTimerInloop(i) ==
  /\ i \in handed /\ pc = "idle"
  /\ handed' = handed \ {i}
  /\ Insert(i, expiration_[i])
  /\ UNCHANGED <<now, infoVars, batchVars>>

-----------------------------------------------------------------------------
(* handleRead, the read callback of timerfdChannel_ *)

ExpiredLate(t) == {i \in timers_ : expiration_[i] <= t + 1}
Expired(t) == {i \in timers_ : expiration_[i] <= t}

\* getAllExpiredTimers: the expired entries move from timers_ to the vector.
CopyExpired(e) == toRun' = e /\ toReset' = e /\ UNCHANGED timers_
MoveExpired(e) == toRun' = e /\ toReset' = e /\ timers_' = timers_ \ e

\* handleRead does not read timerfd_, it stays readable.
LeaveTimerfd == UNCHANGED fdVars

handleRead ==
  /\ pc = "idle" /\ readable
  /\ pc' = "run"
  /\ nowRead' = now
  /\ MoveExpired(Expired(now))
  /\ LeaveTimerfd
  /\ UNCHANGED <<now, infoVars, handed>>

\* elem.second->run(): the user's callback begins.
run(i) ==
  /\ pc = "run" /\ IsFirst(i, toRun)
  /\ toRun' = toRun \ {i}
  /\ UNCHANGED <<now, infoVars, handed, timers_, pc, nowRead, toReset, fdVars>>

callbacksDone ==
  /\ pc = "run" /\ toRun = {}
  /\ pc' = "reset"
  /\ UNCHANGED <<now, infoVars, handed, timers_, nowRead, toRun, toReset, fdVars>>

\* One pass of reset()'s loop: TimerInfo::restart and re-insertion of a
\* repeating timer, delete of a one-shot.
reset(i) ==
  /\ pc = "reset" /\ IsFirst(i, toReset)
  /\ toReset' = toReset \ {i}
  /\ IF interval_[i] > 0
     THEN /\ expiration_' = [expiration_ EXCEPT ![i] = nowRead + interval_[i]]
          /\ Insert(i, nowRead + interval_[i])
     ELSE /\ expiration_' = [expiration_ EXCEPT ![i] = None]
          /\ UNCHANGED <<timers_, fdVars>>
  /\ UNCHANGED <<now, interval_, handed, pc, nowRead, toRun>>

resetDone ==
  /\ pc = "reset" /\ toReset = {}
  /\ pc' = "idle"
  /\ UNCHANGED <<now, infoVars, handed, timers_, nowRead, toRun, toReset, fdVars>>

-----------------------------------------------------------------------------
Init ==
  /\ now = 0
  /\ expiration_ = [i \in Timer |-> None]
  /\ interval_ = [i \in Timer |-> None]
  /\ handed = {} /\ timers_ = {}
  /\ pc = "idle" /\ nowRead = 0
  /\ toRun = {} /\ toReset = {}
  /\ armed = None /\ readable = FALSE

LoopStep ==
  \/ handleRead \/ callbacksDone \/ resetDone
  \/ \E i \in Timer : run(i) \/ reset(i)

Next ==
  \/ Tick \/ timerfdExpires \/ LoopStep
  \/ \E i \in Timer : \/ \E when \in 0..MaxTime : runAt(i, when)
                      \/ \E d \in Intervals : runEvery(i, d)
                      \/ addTimerInloop(i)

Spec == Init /\ [][Next]_vars

\* Time passes, the kernel expires an armed timerfd, the loop polls and its
\* callbacks return, and a queued functor is run (EventLoop!FunctorsRun).
Fairness ==
  /\ WF_vars(Tick) /\ WF_vars(timerfdExpires) /\ WF_vars(LoopStep)
  /\ \A i \in Timer : SF_vars(addTimerInloop(i))

FairSpec == Spec /\ Fairness

-----------------------------------------------------------------------------
TypeOK ==
  /\ now \in Nat
  /\ expiration_ \in [Timer -> Nat \cup {None}]
  /\ interval_ \in [Timer -> Intervals \cup {0, None}]
  /\ handed \subseteq Timer /\ timers_ \subseteq Timer
  /\ pc \in {"idle", "run", "reset"}
  /\ nowRead \in Nat
  /\ toRun \subseteq Timer /\ toReset \subseteq Timer
  /\ armed \in Nat \cup {None}
  /\ readable \in BOOLEAN

\* No pending timer is forgotten by the kernel: at every instant, inside
\* handleRead too, each entry of timers_ is covered by a timerfd that is
\* readable or will expire no later than the entry (or than now, if the entry
\* is overdue).  reset() re-arms for repeating timers only and addTimerInloop
\* only for a new earliest entry, so the rest depends on the descriptor staying
\* readable.
NoLostTimer ==
  \A i \in timers_ :
    readable \/ (armed # None /\ armed <= Latest(expiration_[i], now))

\* A TimerInfo is referenced from one place, and from none once deleted: the
\* queued functor, timers_ and the batch never share an entry, although
\* callbacks add timers while the batch is being run and deleted.
TimerInOnePlace ==
  /\ handed \cap timers_ = {} /\ handed \cap toReset = {} /\ timers_ \cap toReset = {}
  /\ toRun \subseteq toReset
  /\ handed \cup timers_ \cup toReset = {i \in Timer : expiration_[i] # None}

\* The user's view: a timer of the running batch that has run is due again one
\* interval after nowRead, or never, although reset() has not visited it yet.
dueAt ==
  [i \in Timer |->
     IF i \in toReset \ toRun
     THEN IF interval_[i] > 0 THEN nowRead + interval_[i] ELSE None
     ELSE expiration_[i]]

\* TimeQueue implements TimerService: no timer runs early, a one-shot timer
\* runs once, a repeating timer keeps its interval.
TS == INSTANCE TimerService WITH due <- dueAt, every <- interval_
TimersImplemented == TS!TSSpec

\* Every timer due within the bound runs, whichever thread added it and
\* whatever was pending at the time.
TimersRun ==
  \A i \in Timer :
    dueAt[i] \in 0..MaxTime ~> i \in toReset \ toRun
=============================================================================
