---------------------------- MODULE TimerService ----------------------------
(***************************************************************************)
(* What runAt, runAfter and runEvery promise, without timerfd, batches or  *)
(* sorted sets: a timer runs only when it is due, a one-shot timer runs    *)
(* once, and a repeating timer becomes due again one interval after some   *)
(* instant that lies between the time it was due and the time it ran.      *)
(***************************************************************************)
EXTENDS Integers

CONSTANTS Timer,      \* identities of the timers that can ever be added
          Intervals   \* the intervals of repeating timers

VARIABLES now,
          due,        \* due[i]: when timer i has to run next, Idle if it has not
          every       \* every[i]: interval of i, 0 for a one-shot, Idle if not added

tsVars == <<now, due, every>>

Idle == -1

Add(i) ==
  /\ due[i] = Idle /\ every[i] = Idle
  /\ due'[i] \in Nat /\ due' = [due EXCEPT ![i] = due'[i]]
  /\ every'[i] \in Intervals \cup {0} /\ every' = [every EXCEPT ![i] = every'[i]]
  /\ UNCHANGED now

Run(i) ==
  /\ due[i] # Idle
  /\ due[i] <= now
  /\ \/ every[i] = 0 /\ due' = [due EXCEPT ![i] = Idle]
     \/ /\ every[i] > 0
        /\ \E t \in due[i]..now : due' = [due EXCEPT ![i] = t + every[i]]
  /\ UNCHANGED <<now, every>>

Tick == now' = now + 1 /\ UNCHANGED <<due, every>>

TSInit ==
  /\ now = 0
  /\ due = [i \in Timer |-> Idle]
  /\ every = [i \in Timer |-> Idle]

TSNext == Tick \/ \E i \in Timer : Add(i) \/ Run(i)

TSSpec == TSInit /\ [][TSNext]_tsVars
=============================================================================
