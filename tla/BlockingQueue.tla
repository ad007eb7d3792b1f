---------------------------- MODULE BlockingQueue ----------------------------
(***************************************************************************)
(* BlockingQueue (zdq_blocking_queue.h): an unbounded queue on one mutex   *)
(* and one condition variable.  Any thread may put and take.  Only the     *)
(* number of items matters to who waits and who is woken.                  *)
(***************************************************************************)
EXTENDS Condition, Integers

CONSTANTS notEmpty_,  \* the queue's condition variable
          MaxLen      \* bound: nobody puts into a queue of this length

ASSUME CondAssumption == Cond = {notEmpty_}
ASSUME LenAssumption == MaxLen \in Nat

VARIABLE queue_       \* the number of items

queueVars == <<monitorVars, queue_>>

\* Inside take(), asleep or contending for the mutex after a wakeup.
Taking == sleeping[notEmpty_] \cup woken
Outside(t) == ~aborted /\ t \notin Taking

NotifyIfEmpty(t) ==
  IF queue_ = 0 THEN notifyAndUnlock(t, notEmpty_) ELSE unlock(t)
Notify(t) == notifyAndUnlock(t, notEmpty_)

put(t) ==
  /\ Outside(t) /\ queue_ < MaxLen
  /\ queue_' = queue_ + 1
  /\ Notify(t)

\* take() from the test of its while loop on.
waitNotEmpty(t) ==
  /\ queue_ = 0
  /\ wait(t, notEmpty_)
  /\ UNCHANGED queue_
popFront(t) ==
  /\ queue_ > 0
  /\ queue_' = queue_ - 1
  /\ unlock(t)

take(t) == Outside(t) /\ (waitNotEmpty(t) \/ popFront(t))
resume(t) == ~aborted /\ t \in woken /\ (waitNotEmpty(t) \/ popFront(t))
wakeup(t) == spuriousWakeup(t) /\ UNCHANGED queue_

QueueInit == MonitorInit /\ queue_ = 0

QueueNext == \E t \in Thread : put(t) \/ take(t) \/ resume(t) \/ wakeup(t)

QueueSpec == QueueInit /\ [][QueueNext]_queueVars

\* A thread that has been woken gets the mutex sooner or later.
QueueFairSpec == QueueSpec /\ \A t \in Thread : WF_queueVars(resume(t))

-----------------------------------------------------------------------------
\* put() never leaves a taker asleep on an item: while anyone sleeps, every
\* item has a woken taker under way to it, although takers that never slept
\* steal items and wakeups come for no reason.
ItemsHaveTakers ==
  Taking # woken => queue_ <= Cardinality(woken)

\* A thread inside take() leaves it unless the queue runs empty again; nobody
\* waits for ever beside a queue that stays full.
TakersServed ==
  \A t \in Thread : t \in Taking ~> t \notin Taking \/ queue_ = 0 \/ aborted
=============================================================================
