------------------------------ MODULE ThreadPool ------------------------------
(***************************************************************************)
(* ThreadPool (zdq_thread_pool.h, zdq_thread_pool.cpp) with the Threads it *)
(* starts and joins: a bounded task queue between the threads that call    *)
(* addTask and the workers, one mutex and two condition variables.         *)
(*                                                                         *)
(* One owner constructs the pool and calls start and stop, in turn and as  *)
(* often as it likes.  Only the number of queued tasks matters.  is_start_ *)
(* is written without the mutex by start and read without it by the        *)
(* workers, so each of these accesses is a step of its own.                *)
(***************************************************************************)
EXTENDS Condition, Integers

CONSTANTS Worker,      \* the threads of threads_
          Producer,    \* the threads that call addTask
          Capacity,    \* the size_queue given to start
          notFull,     \* cond_notFull_
          notEmpty     \* cond_notEmpty_

ASSUME ThreadAssumption ==
  /\ Thread = Worker \cup Producer /\ Worker \cap Producer = {}
  /\ IsFiniteSet(Thread) /\ "owner" \notin Thread
ASSUME CondAssumption == Cond = {notFull, notEmpty} /\ notFull # notEmpty
ASSUME CapacityAssumption == Capacity \in Nat \ {0}

VARIABLES
  size_queue_,
  b_queue_,     \* the number of queued tasks
  is_start_,
  owner,        \* where the owner is in start and stop
  at            \* per worker, where it is in runInThread

vars == <<monitorVars, size_queue_, b_queue_, is_start_, owner, at>>
poolVars == <<size_queue_, b_queue_, is_start_, owner, at>>

OwnerPC == {"out", "starting", "started", "join", "clear"}
\* "none": no such thread; "failed": pthread_create failed; "exited": its function
\* has returned, it can be joined; "take": between the tests of is_start_ and in
\* take(); "run": in a task.
WorkerPC == {"none", "failed", "test", "take", "run", "exited"}

AddTaskWaits(p) == p \in sleeping[notFull] \cup woken
TakeWaits(w) == w \in sleeping[notEmpty] \cup woken

-----------------------------------------------------------------------------
(* The owner *)

start ==
  /\ ~aborted /\ owner = "out"
  /\ owner' = "starting"
  /\ size_queue_' = Capacity
  /\ is_start_' = TRUE
  /\ UNCHANGED <<monitorVars, b_queue_, at>>

\* Thread::start, in one pass of the loop over threads_; a thread that cannot be
\* created is reported and otherwise ignored.
startThread(w) ==
  /\ ~aborted /\ owner = "starting" /\ at[w] = "none"
  /\ \E outcome \in {"test", "failed"} : at' = [at EXCEPT ![w] = outcome]
  /\ UNCHANGED <<monitorVars, size_queue_, b_queue_, is_start_, owner>>

startReturns ==
  /\ ~aborted /\ owner = "starting" /\ \A w \in Worker : at[w] # "none"
  /\ owner' = "started"
  /\ UNCHANGED <<monitorVars, size_queue_, b_queue_, is_start_, at>>

\* The notification at the end of stop()'s critical section.  The owner is not
\* among the monitor's threads: it never waits on a condition variable.
NotifyOneWorker == \E us \in NotifiedBy(notEmpty) : Wake("owner", notEmpty, us)
NotifyWorkers == notifyAllAndUnlock("owner", notEmpty)

stop ==
  /\ ~aborted /\ owner = "started"
  /\ owner' = "join"
  /\ is_start_' = FALSE
  /\ NotifyWorkers
  /\ UNCHANGED <<size_queue_, b_queue_, at>>

AllJoined == \A w \in Worker : at[w] = "exited"
Abort == aborted' = TRUE /\ UNCHANGED <<sleeping, woken, is_lock_, poolVars>>

\* Thread::join of each of threads_, which asserts that the thread was created.
join ==
  /\ ~aborted /\ owner = "join"
  /\ \/ /\ AllJoined
        /\ owner' = "clear"
        /\ UNCHANGED <<monitorVars, size_queue_, b_queue_, is_start_, at>>
     \/ (\E w \in Worker : at[w] = "failed") /\ Abort

\* b_queue_ is emptied without the mutex and without a notification; then each
\* ~Thread detaches a thread that has been joined, which may crash.
clear ==
  /\ ~aborted /\ owner = "clear"
  /\ \/ /\ owner' = "out"
        /\ b_queue_' = 0
        /\ at' = [w \in Worker |-> "none"]
        /\ UNCHANGED <<monitorVars, size_queue_, is_start_>>
     \/ Abort

-----------------------------------------------------------------------------
(* The threads that add tasks *)

Full == b_queue_ >= size_queue_

AddNotifiesProducers(p) == notifyAndUnlock(p, notFull)
AddNotifies(p) == notifyAndUnlock(p, notEmpty)

\* addTask from the test of its while loop on.
AddOrWait(p) ==
  \/ /\ Full
     /\ wait(p, notFull)
     /\ UNCHANGED poolVars
  \/ /\ ~Full
     /\ b_queue_' = b_queue_ + 1
     /\ AddNotifies(p)
     /\ UNCHANGED <<size_queue_, is_start_, owner, at>>

addTask(p) == ~aborted /\ ~AddTaskWaits(p) /\ AddOrWait(p)
resumeAddTask(p) == ~aborted /\ p \in woken /\ AddOrWait(p)

-----------------------------------------------------------------------------
(* The workers *)

\* while(is_start_), read without the mutex.
testStarted(w) ==
  /\ ~aborted /\ at[w] = "test"
  /\ at' = [at EXCEPT ![w] = IF is_start_ THEN "take" ELSE "exited"]
  /\ UNCHANGED <<monitorVars, size_queue_, b_queue_, is_start_, owner>>

HasTask == b_queue_ > 0

WaitWhileEmpty == ~HasTask
WaitWhile == ~HasTask /\ is_start_

TakeNotifiesWorkers(w) == notifyAndUnlock(w, notEmpty)
TakeNotifies(w) == notifyAndUnlock(w, notFull)

\* take() from the test of its while loop on; a stopped pool with an empty
\* queue yields an empty Task, which the worker does not run.
TakeOrWait(w) ==
  \/ /\ WaitWhile
     /\ wait(w, notEmpty)
     /\ UNCHANGED poolVars
  \/ /\ HasTask
     /\ b_queue_' = b_queue_ - 1
     /\ TakeNotifies(w)
     /\ at' = [at EXCEPT ![w] = "run"]
     /\ UNCHANGED <<size_queue_, is_start_, owner>>
  \/ /\ ~HasTask /\ ~WaitWhile
     /\ unlock(w)
     /\ at' = [at EXCEPT ![w] = "test"]
     /\ UNCHANGED <<size_queue_, b_queue_, is_start_, owner>>

take(w) == ~aborted /\ at[w] = "take" /\ ~TakeWaits(w) /\ TakeOrWait(w)
resumeTake(w) == ~aborted /\ w \in woken /\ TakeOrWait(w)

taskReturns(w) ==
  /\ ~aborted /\ at[w] = "run"
  /\ at' = [at EXCEPT ![w] = "test"]
  /\ UNCHANGED <<monitorVars, size_queue_, b_queue_, is_start_, owner>>

WorkerStep(w) == testStarted(w) \/ take(w) \/ resumeTake(w) \/ taskReturns(w)

-----------------------------------------------------------------------------
Init ==
  /\ MonitorInit
  /\ size_queue_ = 0 /\ b_queue_ = 0
  /\ is_start_ = FALSE
  /\ owner = "out"
  /\ at = [w \in Worker |-> "none"]

wakeup(t) == spuriousWakeup(t) /\ UNCHANGED poolVars

OwnerStep == start \/ (\E w \in Worker : startThread(w)) \/ startReturns \/ stop \/ join \/ clear

Next ==
  \/ OwnerStep
  \/ \E p \in Producer : addTask(p) \/ resumeAddTask(p)
  \/ \E w \in Worker : WorkerStep(w)
  \/ \E t \in Thread : wakeup(t)

Spec == Init /\ [][Next]_vars

\* Threads run, tasks return, and a woken thread gets the mutex; start and stop
\* finish once called, but nothing says that they are called.
Fairness ==
  /\ WF_vars(\E w \in Worker : startThread(w)) /\ WF_vars(startReturns)
  /\ WF_vars(join) /\ WF_vars(clear)
  /\ \A w \in Worker : WF_vars(WorkerStep(w))
  /\ \A p \in Producer : WF_vars(resumeAddTask(p))

FairSpec == Spec /\ Fairness

-----------------------------------------------------------------------------
\* The types; and the queue never holds more than size_queue_ tasks, whoever
\* adds, takes, stops and starts again (the assert of addTask, at all times).
TypeOK ==
  /\ MonitorTypeOK
  /\ size_queue_ \in Nat /\ b_queue_ \in 0..size_queue_
  /\ is_start_ \in BOOLEAN
  /\ owner \in OwnerPC
  /\ at \in [Worker -> WorkerPC]

\* While the pool runs no worker sleeps on a task: if a worker sleeps, every
\* queued task has a woken worker under way to it.
TasksHaveWorkers ==
  is_start_ /\ sleeping[notEmpty] # {} => b_queue_ <= Cardinality(woken \cap Worker)

\* A worker sleeps only in a pool that runs: stop() wakes them all, and none
\* falls asleep after it, although is_start_ is first tested without the mutex.
NoWorkerSleepsThroughStop == sleeping[notEmpty] # {} => is_start_

\* While the queue of a running pool is not empty, workers keep running tasks:
\* a queued task waits neither for another task nor for another call.
TasksTaken ==
  b_queue_ > 0 /\ owner = "started"
    ~> \/ \E w \in Worker : at[w] = "run"
       \/ owner # "started" \/ aborted \/ \A w \in Worker : at[w] = "failed"

\* While a producer sleeps on a full queue, every free place has a woken producer
\* under way to it.
RoomHasProducers ==
  sleeping[notFull] # {} => size_queue_ - b_queue_ <= Cardinality(woken \cap Producer)

\* Only the owner can leave a producer asleep beside a free place: start, which
\* raises size_queue_, and the end of stop, which empties the queue, notify nobody.
OnlyOwnerStrandsProducers ==
  [][RoomHasProducers /\ ~RoomHasProducers' => owner \in {"out", "clear"}]_vars

\* stop() returns: every worker notices it and can be joined.
StopReturns == owner = "join" ~> owner = "out" \/ aborted
=============================================================================
