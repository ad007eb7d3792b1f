------------------------------ MODULE Condition ------------------------------
(***************************************************************************)
(* MutexLock, MutexLockGuard (zdq_mutex.h) and Condition (zdq_condition.h):*)
(* one mutex and the condition variables that share it.  What a thread does*)
(* between acquiring the mutex and releasing it, by an unlock or in a wait,*)
(* is one step, so the module offers the last part of such a step: wait,   *)
(* unlock, notify.  A thread acquires the mutex by lock(), or inside       *)
(* pthread_cond_wait once it has been woken; only lock() sets is_lock_.    *)
(***************************************************************************)
EXTENDS FiniteSets

CONSTANTS Thread, Cond

VARIABLES
  sleeping,   \* per condition variable, the threads blocked on it
  woken,      \* threads that wait for the mutex inside pthread_cond_wait
  is_lock_,   \* as the last thread that held the mutex has left it
  aborted     \* assert(mutex_.isLocked()) has failed: the process is gone

monitorVars == <<sleeping, woken, is_lock_, aborted>>

MonitorInit ==
  /\ sleeping = [c \in Cond |-> {}]
  /\ woken = {}
  /\ is_lock_ = FALSE
  /\ aborted = FALSE

MonitorTypeOK ==
  /\ sleeping \in [Cond -> SUBSET Thread]
  /\ woken \subseteq Thread
  /\ is_lock_ \in BOOLEAN
  /\ aborted \in BOOLEAN

\* lock() sets the flag, the return from pthread_cond_wait does not.
isLocked(t) == t \in woken => is_lock_

\* assert(mutex_.isLocked()), then pthread_cond_wait.
wait(t, c) ==
  IF isLocked(t)
  THEN /\ sleeping' = [sleeping EXCEPT ![c] = @ \cup {t}]
       /\ woken' = woken \ {t}
       /\ is_lock_' = TRUE
       /\ UNCHANGED aborted
  ELSE /\ aborted' = TRUE
       /\ UNCHANGED <<sleeping, woken, is_lock_>>

unlock(t) ==
  /\ woken' = woken \ {t}
  /\ is_lock_' = FALSE
  /\ UNCHANGED <<sleeping, aborted>>

\* The threads that a notify on c can wake: one, if any sleeps.
NotifiedBy(c) == IF sleeping[c] = {} THEN {{}} ELSE {{u} : u \in sleeping[c]}

Wake(t, c, us) ==
  /\ sleeping' = [sleeping EXCEPT ![c] = @ \ us]
  /\ woken' = (woken \ {t}) \cup us
  /\ is_lock_' = FALSE
  /\ UNCHANGED aborted

notifyAndUnlock(t, c) == \E us \in NotifiedBy(c) : Wake(t, c, us)
notifyAllAndUnlock(t, c) == Wake(t, c, sleeping[c])

\* "Spurious wakeup: pthread_cond_wait can return although nobody called
\* pthread_cond_signal."
spuriousWakeup(t) ==
  /\ ~aborted
  /\ \E c \in Cond : /\ t \in sleeping[c]
                     /\ sleeping' = [sleeping EXCEPT ![c] = @ \ {t}]
  /\ woken' = woken \cup {t}
  /\ UNCHANGED <<is_lock_, aborted>>
=============================================================================
