-------------------------- MODULE ThreadPool_proofs --------------------------
(***************************************************************************)
(* Theorems about ThreadPool, for any numbers of workers and producers and *)
(* any capacity: the bound of the queue, and that no worker sleeps on a    *)
(* task or through stop().                                                 *)
(***************************************************************************)
EXTENDS ThreadPool, FiniteSetTheorems, TLAPS

\* Producers wait for room and workers for tasks, and who has been woken sleeps
\* no more.
Separated ==
  /\ sleeping[notFull] \subseteq Producer
  /\ sleeping[notEmpty] \subseteq Worker
  /\ sleeping[notFull] \cap woken = {} /\ sleeping[notEmpty] \cap woken = {}

\* A pool is started again with the capacity that it had.
SizeIsCapacity == size_queue_ \in {0, Capacity}

StoppedOutside == owner \in {"out", "join", "clear"} => ~is_start_

IInv ==
  /\ TypeOK /\ Separated /\ SizeIsCapacity /\ StoppedOutside
  /\ NoWorkerSleepsThroughStop /\ TasksHaveWorkers

\* The woken workers.
Coming == woken \cap Worker

-----------------------------------------------------------------------------
(* The woken threads of one kind *)

LEMMA WokenAreFinite ==
  ASSUME NEW P \in SUBSET Thread
  PROVE  IsFiniteSet(woken \cap P) /\ Cardinality(woken \cap P) \in Nat
<1>1. IsFiniteSet(P)
  BY ThreadAssumption, FS_Subset
<1>2. woken \cap P \in SUBSET P
  OBVIOUS
<1> QED
  BY <1>1, <1>2, FS_Subset, FS_CardinalityType

LEMMA OneMoreWoken ==
  ASSUME NEW P \in SUBSET Thread, NEW t \in P, t \notin woken
  PROVE  Cardinality((woken \cup {t}) \cap P) = Cardinality(woken \cap P) + 1
<1>1. (woken \cup {t}) \cap P = (woken \cap P) \cup {t} /\ t \notin woken \cap P
  OBVIOUS
<1> QED
  BY <1>1, WokenAreFinite, FS_AddElement

\* A thread that leaves the monitor is at most one less.
LEMMA OneLessWoken ==
  ASSUME NEW P \in SUBSET Thread, NEW t \in Thread
  PROVE  /\ Cardinality((woken \ {t}) \cap P) \in Nat
         /\ Cardinality((woken \ {t}) \cap P) >= Cardinality(woken \cap P) - 1
<1> DEFINE W == woken \cap P
<1>1. (woken \ {t}) \cap P = W \ {t}
  OBVIOUS
<1>2. IsFiniteSet(W) /\ Cardinality(W) \in Nat
  BY WokenAreFinite
<1> HIDE DEF W
<1>3. /\ IsFiniteSet(W \ {t})
      /\ Cardinality(W \ {t}) = IF t \in W THEN Cardinality(W) - 1 ELSE Cardinality(W)
  BY <1>2, FS_RemoveElement
<1>4. Cardinality(W \ {t}) \in Nat
  BY <1>3, FS_CardinalityType
<1>5. Cardinality(W \ {t}) >= Cardinality(W) - 1
  BY <1>2, <1>3
<1> QED
  BY <1>1, <1>4, <1>5 DEF W

LEMMA ComingIsFinite == Cardinality(Coming) \in Nat
BY WokenAreFinite, ThreadAssumption DEF Coming

LEMMA OneMoreComing ==
  ASSUME NEW w \in Worker, w \notin woken
  PROVE  Cardinality((woken \cup {w}) \cap Worker) = Cardinality(Coming) + 1
BY OneMoreWoken, ThreadAssumption DEF Coming

LEMMA OneLessComing ==
  ASSUME NEW t \in Thread
  PROVE  /\ Cardinality((woken \ {t}) \cap Worker) \in Nat
         /\ Cardinality((woken \ {t}) \cap Worker) >= Cardinality(Coming) - 1
BY OneLessWoken, ThreadAssumption DEF Coming

-----------------------------------------------------------------------------
LEMMA InitIInv == Init => IInv
<1> SUFFICES ASSUME Init PROVE IInv
  OBVIOUS
<1>1. sleeping[notFull] = {} /\ sleeping[notEmpty] = {} /\ woken = {}
  BY CondAssumption DEF Init, MonitorInit
<1>2. TypeOK
  <2>1. MonitorTypeOK
    BY DEF Init, MonitorInit, MonitorTypeOK
  <2>2. size_queue_ = 0 /\ b_queue_ \in 0..0
    BY DEF Init
  <2>3. is_start_ \in BOOLEAN /\ owner \in OwnerPC /\ at \in [Worker -> WorkerPC]
    BY DEF Init, OwnerPC, WorkerPC
  <2> QED
    BY <2>1, <2>2, <2>3 DEF TypeOK
<1>3. is_start_ = FALSE /\ size_queue_ = 0
  BY DEF Init
<1> QED
  BY <1>1, <1>2, <1>3
  DEF IInv, Separated, SizeIsCapacity, StoppedOutside,
      NoWorkerSleepsThroughStop, TasksHaveWorkers

\* start and stop.  A pool that is started has no sleeping workers yet, one that
\* is stopped has none any more.
LEMMA OwnerKeeps == IInv /\ OwnerStep => IInv'
<1> SUFFICES ASSUME IInv, OwnerStep PROVE IInv'
  OBVIOUS
<1> USE ThreadAssumption, CondAssumption, CapacityAssumption
    DEF IInv, TypeOK, MonitorTypeOK, Separated, SizeIsCapacity, StoppedOutside,
        NoWorkerSleepsThroughStop, TasksHaveWorkers
<1>1. CASE start
  <2>1. sleeping[notEmpty] = {}
    BY <1>1 DEF start
  <2>2. TypeOK'
    BY <1>1 DEF start, monitorVars, OwnerPC
  <2> QED
    BY <1>1, <2>1, <2>2 DEF start, monitorVars
<1>2. ASSUME NEW w \in Worker, startThread(w) PROVE IInv'
  <2>1. TypeOK'
    BY <1>2 DEF startThread, monitorVars, WorkerPC
  <2> QED
    BY <1>2, <2>1 DEF startThread, monitorVars
<1>3. CASE startReturns
  BY <1>3 DEF startReturns, monitorVars, OwnerPC
<1>4. CASE stop
  <2>1. /\ sleeping' = [sleeping EXCEPT ![notEmpty] = @ \ sleeping[notEmpty]]
        /\ woken' = (woken \ {"owner"}) \cup sleeping[notEmpty]
        /\ is_lock_' = FALSE /\ aborted' = aborted
        /\ owner' = "join" /\ is_start_' = FALSE
        /\ size_queue_' = size_queue_ /\ b_queue_' = b_queue_ /\ at' = at
    BY <1>4 DEF stop, NotifyWorkers, notifyAllAndUnlock, Wake
  <2>2. /\ sleeping'[notEmpty] = {} /\ sleeping'[notFull] = sleeping[notFull]
        /\ sleeping' \in [Cond -> SUBSET Thread] /\ woken' \subseteq Thread
    BY <2>1
  <2>3. Separated'
    BY <2>1, <2>2
  <2>4. TypeOK'
    BY <2>1, <2>2 DEF OwnerPC
  <2> QED
    BY <2>1, <2>2, <2>3, <2>4
<1>5. CASE join
  <2>1. /\ owner = "join" /\ owner' \in {"join", "clear"} /\ aborted' \in BOOLEAN
        /\ sleeping' = sleeping /\ woken' = woken /\ is_lock_' = is_lock_
        /\ size_queue_' = size_queue_ /\ b_queue_' = b_queue_ /\ at' = at
        /\ is_start_' = is_start_
    BY <1>5 DEF join, Abort, monitorVars, poolVars
  <2>2. TypeOK'
    BY <2>1 DEF OwnerPC
  <2> QED
    BY <2>1, <2>2
<1>6. CASE clear
  <2>1. /\ owner = "clear" /\ is_start_' = FALSE
        /\ sleeping' = sleeping /\ woken' = woken /\ is_lock_' = is_lock_
        /\ size_queue_' = size_queue_ /\ owner' \in {"out", "clear"}
        /\ b_queue_' \in {0, b_queue_} /\ aborted' \in BOOLEAN
    BY <1>6 DEF clear, Abort, monitorVars, poolVars
  <2>2. at' \in [Worker -> WorkerPC]
    BY <1>6 DEF clear, Abort, poolVars, WorkerPC
  <2>3. b_queue_' \in 0..size_queue_'
    BY <2>1
  <2>4. MonitorTypeOK'
    BY <2>1
  <2>5. TypeOK'
    BY <2>1, <2>2, <2>3, <2>4 DEF OwnerPC
  <2> QED
    BY <2>1, <2>5
<1> QED
  BY <1>1, <1>2, <1>3, <1>4, <1>5, <1>6 DEF OwnerStep
-----------------------------------------------------------------------------
(* The threads that add tasks *)

\* A task wakes one more worker, or none sleeps.
LEMMA AddKeeps ==
  ASSUME IInv, NEW p \in Producer, p \notin sleeping[notFull], AddOrWait(p)
  PROVE  IInv'
<1> USE ThreadAssumption, CondAssumption, CapacityAssumption
    DEF IInv, TypeOK, MonitorTypeOK, Separated, SizeIsCapacity, StoppedOutside,
        NoWorkerSleepsThroughStop, TasksHaveWorkers
<1>1. (woken \ {p}) \cap Worker = Coming /\ p \notin Worker
  BY DEF Coming
<1>2. ASSUME wait(p, notFull), UNCHANGED poolVars PROVE IInv'
  <2>1. CASE isLocked(p)
    <3>1. /\ sleeping' = [sleeping EXCEPT ![notFull] = @ \cup {p}]
          /\ woken' = woken \ {p} /\ is_lock_' = TRUE /\ aborted' = aborted
      BY <1>2, <2>1 DEF wait
    <3>2. /\ sleeping'[notFull] = sleeping[notFull] \cup {p}
          /\ sleeping'[notEmpty] = sleeping[notEmpty]
          /\ sleeping' \in [Cond -> SUBSET Thread] /\ woken' \subseteq Thread
      BY <3>1
    <3>3. TypeOK' /\ Separated'
      BY <1>2, <3>1, <3>2 DEF poolVars
    <3>4. woken' \cap Worker = woken \cap Worker
      BY <1>1, <3>1 DEF Coming
    <3> QED
      BY <1>2, <3>2, <3>3, <3>4 DEF poolVars
  <2>2. CASE ~isLocked(p)
    BY <1>2, <2>2 DEF wait, poolVars
  <2> QED
    BY <2>1, <2>2
<1>3. ASSUME ~Full, b_queue_' = b_queue_ + 1, AddNotifies(p),
             UNCHANGED <<size_queue_, is_start_, owner, at>>
      PROVE  IInv'
  <2>1. PICK us \in NotifiedBy(notEmpty) : Wake(p, notEmpty, us)
    BY <1>3 DEF AddNotifies, notifyAndUnlock
  <2>2. /\ sleeping' = [sleeping EXCEPT ![notEmpty] = @ \ us]
        /\ woken' = (woken \ {p}) \cup us
        /\ is_lock_' = FALSE /\ aborted' = aborted
    BY <2>1 DEF Wake
  <2>3. us \subseteq sleeping[notEmpty]
    BY <2>1 DEF NotifiedBy
  <2>4. /\ sleeping'[notEmpty] = sleeping[notEmpty] \ us
        /\ sleeping'[notFull] = sleeping[notFull]
        /\ sleeping' \in [Cond -> SUBSET Thread] /\ woken' \subseteq Thread
    BY <2>2, <2>3
  <2>5. Separated'
    BY <2>2, <2>3, <2>4
  <2>6. b_queue_' \in 0..size_queue_'
    BY <1>3 DEF Full
  <2>7. TypeOK'
    BY <1>3, <2>2, <2>4, <2>6
  <2>8. TasksHaveWorkers'
    <3> SUFFICES ASSUME is_start_', sleeping'[notEmpty] # {}
                 PROVE  b_queue_' <= Cardinality(woken' \cap Worker)
      OBVIOUS
    <3>1. PICK u \in sleeping[notEmpty] : us = {u}
      BY <2>1, <2>4 DEF NotifiedBy
    <3>2. u \in Worker /\ u \notin woken /\ u # p
      BY <3>1, <1>1
    <3>3. woken' \cap Worker = (woken \cup {u}) \cap Worker
      BY <2>2, <3>1, <1>1
    <3>4. Cardinality(woken' \cap Worker) = Cardinality(Coming) + 1
      BY <3>2, <3>3, OneMoreComing
    <3>5. b_queue_ <= Cardinality(Coming)
      BY <1>3, <3>1 DEF Coming
    <3> QED
      BY <1>3, <3>4, <3>5, ComingIsFinite
  <2>9. NoWorkerSleepsThroughStop' /\ SizeIsCapacity' /\ StoppedOutside'
    BY <1>3, <2>4
  <2> QED
    BY <2>5, <2>7, <2>8, <2>9
<1> QED
  BY <1>2, <1>3 DEF AddOrWait

-----------------------------------------------------------------------------
(* The workers *)

\* The worker that takes a task is one less to come, and waits only on an empty
\* queue of a pool that runs.
LEMMA TakeKeeps ==
  ASSUME IInv, NEW w \in Worker, w \notin sleeping[notEmpty], TakeOrWait(w)
  PROVE  IInv'
<1> USE ThreadAssumption, CondAssumption, CapacityAssumption
    DEF IInv, TypeOK, MonitorTypeOK, Separated, SizeIsCapacity, StoppedOutside,
        NoWorkerSleepsThroughStop, TasksHaveWorkers
<1>1. /\ Cardinality((woken \ {w}) \cap Worker) \in Nat
      /\ Cardinality((woken \ {w}) \cap Worker) >= Cardinality(Coming) - 1
  BY OneLessComing
<1>2. ASSUME WaitWhile, wait(w, notEmpty), UNCHANGED poolVars PROVE IInv'
  <2>1. CASE isLocked(w)
    <3>1. /\ sleeping' = [sleeping EXCEPT ![notEmpty] = @ \cup {w}]
          /\ woken' = woken \ {w} /\ is_lock_' = TRUE /\ aborted' = aborted
      BY <1>2, <2>1 DEF wait
    <3>2. /\ sleeping'[notEmpty] = sleeping[notEmpty] \cup {w}
          /\ sleeping'[notFull] = sleeping[notFull]
          /\ sleeping' \in [Cond -> SUBSET Thread] /\ woken' \subseteq Thread
      BY <3>1
    <3>3. TypeOK' /\ Separated'
      BY <1>2, <3>1, <3>2 DEF poolVars
    <3>4. b_queue_' = 0 /\ is_start_'
      BY <1>2 DEF WaitWhile, HasTask, poolVars
    <3>5. TasksHaveWorkers'
      BY <1>1, <3>1, <3>4
    <3> QED
      BY <1>2, <3>3, <3>4, <3>5 DEF poolVars
  <2>2. CASE ~isLocked(w)
    BY <1>2, <2>2 DEF wait, poolVars
  <2> QED
    BY <2>1, <2>2
<1>3. ASSUME HasTask, b_queue_' = b_queue_ - 1, TakeNotifies(w),
             at' = [at EXCEPT ![w] = "run"], UNCHANGED <<size_queue_, is_start_, owner>>
      PROVE  IInv'
  <2>1. PICK us \in NotifiedBy(notFull) : Wake(w, notFull, us)
    BY <1>3 DEF TakeNotifies, notifyAndUnlock
  <2>2. /\ sleeping' = [sleeping EXCEPT ![notFull] = @ \ us]
        /\ woken' = (woken \ {w}) \cup us
        /\ is_lock_' = FALSE /\ aborted' = aborted
    BY <2>1 DEF Wake
  <2>3. us \subseteq sleeping[notFull] /\ us \cap Worker = {}
    BY <2>1 DEF NotifiedBy
  <2>4. /\ sleeping'[notFull] = sleeping[notFull] \ us
        /\ sleeping'[notEmpty] = sleeping[notEmpty]
        /\ sleeping' \in [Cond -> SUBSET Thread] /\ woken' \subseteq Thread
    BY <2>2, <2>3
  <2>5. Separated'
    BY <2>2, <2>3, <2>4
  <2>6. b_queue_' \in 0..size_queue_' /\ at' \in [Worker -> WorkerPC]
    BY <1>3 DEF HasTask, WorkerPC
  <2>7. TypeOK'
    BY <1>3, <2>2, <2>4, <2>6
  <2>8. TasksHaveWorkers'
    <3> SUFFICES ASSUME is_start_', sleeping'[notEmpty] # {}
                 PROVE  b_queue_' <= Cardinality(woken' \cap Worker)
      OBVIOUS
    <3>1. woken' \cap Worker = (woken \ {w}) \cap Worker
      BY <2>2, <2>3
    <3>2. b_queue_ <= Cardinality(Coming)
      BY <1>3, <2>4 DEF Coming
    <3>3. Cardinality(woken' \cap Worker) = Cardinality((woken \ {w}) \cap Worker)
      BY <3>1, Zenon
    <3>4. b_queue_ \in Nat
      OBVIOUS
    <3> QED
      BY <1>1, <1>3, <3>2, <3>3, <3>4, ComingIsFinite
  <2>9. NoWorkerSleepsThroughStop' /\ SizeIsCapacity' /\ StoppedOutside'
    BY <1>3, <2>4
  <2> QED
    BY <2>5, <2>7, <2>8, <2>9
<1>4. ASSUME ~HasTask, ~WaitWhile, unlock(w), at' = [at EXCEPT ![w] = "test"],
             UNCHANGED <<size_queue_, b_queue_, is_start_, owner>>
      PROVE  IInv'
  <2>1. /\ woken' = woken \ {w} /\ sleeping' = sleeping
        /\ is_lock_' = FALSE /\ aborted' = aborted /\ ~is_start_
    BY <1>4 DEF unlock, WaitWhile
  <2>2. at' \in [Worker -> WorkerPC]
    BY <1>4 DEF WorkerPC
  <2>3. TypeOK' /\ Separated'
    BY <1>4, <2>1, <2>2
  <2> QED
    BY <1>4, <2>1, <2>3
<1> QED
  BY <1>2, <1>3, <1>4 DEF TakeOrWait

\* A thread that wakes for no reason is one more to come if it is a worker.
LEMMA WakeupKeeps ==
  ASSUME IInv, NEW t \in Thread, wakeup(t)
  PROVE  IInv'
<1> USE ThreadAssumption, CondAssumption, CapacityAssumption
    DEF IInv, TypeOK, MonitorTypeOK, Separated, SizeIsCapacity, StoppedOutside,
        NoWorkerSleepsThroughStop, TasksHaveWorkers
<1>1. /\ woken' = woken \cup {t} /\ is_lock_' = is_lock_ /\ aborted' = aborted
      /\ UNCHANGED poolVars
  BY DEF wakeup, spuriousWakeup
<1>2. PICK c \in Cond : t \in sleeping[c] /\ sleeping' = [sleeping EXCEPT ![c] = @ \ {t}]
  BY DEF wakeup, spuriousWakeup
<1>3. /\ t \notin sleeping'[notFull] /\ t \notin sleeping'[notEmpty]
      /\ sleeping'[notFull] \subseteq sleeping[notFull]
      /\ sleeping'[notEmpty] \subseteq sleeping[notEmpty]
      /\ sleeping' \in [Cond -> SUBSET Thread] /\ woken' \subseteq Thread
  BY <1>1, <1>2
<1>4. TypeOK' /\ Separated'
  BY <1>1, <1>3 DEF poolVars
<1>5. Cardinality(woken' \cap Worker) \in Nat
      /\ Cardinality(woken' \cap Worker) >= Cardinality(Coming)
  <2>1. CASE t \in Worker
    <3>1. t \notin woken
      BY <1>2
    <3> QED
      BY <1>1, <2>1, <3>1, OneMoreComing, ComingIsFinite
  <2>2. CASE t \notin Worker
    <3>1. woken' \cap Worker = Coming
      BY <1>1, <2>2 DEF Coming
    <3>2. Cardinality(woken' \cap Worker) = Cardinality(Coming)
      BY <3>1, Zenon
    <3> QED
      BY <3>2, ComingIsFinite
  <2> QED
    BY <2>1, <2>2
<1>6. is_start_ /\ sleeping[notEmpty] # {} => b_queue_ <= Cardinality(Coming)
  BY DEF Coming
<1>7. TasksHaveWorkers'
  BY <1>1, <1>3, <1>5, <1>6, ComingIsFinite DEF poolVars
<1> QED
  BY <1>1, <1>3, <1>4, <1>7 DEF poolVars

LEMMA NextIInv == IInv /\ [Next]_vars => IInv'
<1> SUFFICES ASSUME IInv, [Next]_vars PROVE IInv'
  OBVIOUS
<1>1. CASE OwnerStep
  BY <1>1, OwnerKeeps
<1>2. ASSUME NEW p \in Producer, addTask(p) \/ resumeAddTask(p) PROVE IInv'
  BY <1>2, AddKeeps DEF addTask, resumeAddTask, AddTaskWaits, IInv, Separated
<1>3. ASSUME NEW w \in Worker, WorkerStep(w) PROVE IInv'
  <2>1. CASE take(w) \/ resumeTake(w)
    BY <2>1, TakeKeeps DEF take, resumeTake, TakeWaits, IInv, Separated
  <2>2. CASE testStarted(w) \/ taskReturns(w)
    <3>1. at' \in [Worker -> WorkerPC]
      BY <2>2 DEF testStarted, taskReturns, WorkerPC, IInv, TypeOK
    <3> QED
      BY <2>2, <3>1
      DEF testStarted, taskReturns, monitorVars, IInv, TypeOK, MonitorTypeOK, Separated,
          SizeIsCapacity, StoppedOutside, NoWorkerSleepsThroughStop, TasksHaveWorkers
  <2> QED
    BY <1>3, <2>1, <2>2 DEF WorkerStep
<1>4. ASSUME NEW t \in Thread, wakeup(t) PROVE IInv'
  BY <1>4, WakeupKeeps
<1>5. CASE UNCHANGED vars
  BY <1>5
  DEF vars, monitorVars, IInv, TypeOK, MonitorTypeOK, Separated,
      SizeIsCapacity, StoppedOutside, NoWorkerSleepsThroughStop, TasksHaveWorkers
<1> QED
  BY <1>1, <1>2, <1>3, <1>4, <1>5 DEF Next

-----------------------------------------------------------------------------
(* Producers that sleep on a full queue *)

\* A task that is added takes a free place and at most one producer under way; one
\* that is taken leaves a place and wakes a producer for it.
LEMMA AddKeepsRoom ==
  ASSUME IInv, RoomHasProducers, NEW p \in Producer, AddOrWait(p)
  PROVE  RoomHasProducers'
<1> USE ThreadAssumption, CondAssumption DEF RoomHasProducers
<1> DEFINE coming == Cardinality(woken \cap Producer)
           after == Cardinality((woken \ {p}) \cap Producer)
<1>1. b_queue_ \in Nat /\ size_queue_ \in Nat /\ coming \in Nat
      /\ after \in Nat /\ after >= coming - 1
  <2>1. Producer \in SUBSET Thread /\ p \in Thread
    OBVIOUS
  <2>2. coming \in Nat /\ after \in Nat /\ after >= coming - 1
    BY <2>1, WokenAreFinite, OneLessWoken
  <2>3. b_queue_ \in Nat /\ size_queue_ \in Nat
    BY DEF IInv, TypeOK
  <2> QED
    BY <2>2, <2>3
<1>2. CASE Full /\ wait(p, notFull) /\ UNCHANGED poolVars
  <2>1. CASE isLocked(p)
    <3>1. woken' \cap Producer = (woken \ {p}) \cap Producer
      BY <1>2, <2>1 DEF wait
    <3>2. size_queue_' - b_queue_' <= 0
      BY <1>1, <1>2 DEF Full, poolVars
    <3>3. Cardinality(woken' \cap Producer) = after /\ size_queue_' - b_queue_' \in Int
      BY <1>1, <1>2, <3>1 DEF poolVars
    <3> QED
      BY <1>1, <3>2, <3>3
  <2>2. CASE ~isLocked(p)
    BY <1>2, <2>2 DEF wait, poolVars
  <2> QED
    BY <2>1, <2>2
<1>3. ASSUME b_queue_' = b_queue_ + 1, AddNotifies(p), size_queue_' = size_queue_
      PROVE  RoomHasProducers'
  <2>1. PICK us \in NotifiedBy(notEmpty) : Wake(p, notEmpty, us)
    BY <1>3 DEF AddNotifies, notifyAndUnlock
  <2>2. us \subseteq Worker
    BY <2>1 DEF NotifiedBy, IInv, Separated
  <2>3. sleeping'[notFull] = sleeping[notFull]
    BY <2>1 DEF Wake, IInv, TypeOK, MonitorTypeOK
  <2>4. woken' \cap Producer = (woken \ {p}) \cap Producer
    BY <2>1, <2>2 DEF Wake
  <2>5. Cardinality(woken' \cap Producer) = after
    BY <2>4
  <2> QED
    BY <1>1, <1>3, <2>3, <2>5
<1> QED
  BY <1>2, <1>3 DEF AddOrWait

LEMMA TakeKeepsRoom ==
  ASSUME IInv, RoomHasProducers, NEW w \in Worker, TakeOrWait(w)
  PROVE  RoomHasProducers'
<1> USE ThreadAssumption, CondAssumption DEF RoomHasProducers
<1>1. /\ b_queue_ \in Nat /\ size_queue_ \in Nat /\ sleeping \in [Cond -> SUBSET Thread]
      /\ Cardinality(woken \cap Producer) \in Nat
      /\ (woken \ {w}) \cap Producer = woken \cap Producer
  BY WokenAreFinite DEF IInv, TypeOK, MonitorTypeOK
<1>2. CASE UNCHANGED <<size_queue_, b_queue_>> /\ (wait(w, notEmpty) \/ unlock(w))
  <2>1. sleeping'[notFull] = sleeping[notFull] /\ woken' \cap Producer = woken \cap Producer
    BY <1>1, <1>2 DEF wait, unlock
  <2>2. Cardinality(woken' \cap Producer) = Cardinality(woken \cap Producer)
    BY <2>1
  <2> QED
    BY <1>2, <2>1, <2>2
<1>3. ASSUME b_queue_' = b_queue_ - 1, TakeNotifies(w), size_queue_' = size_queue_
      PROVE  RoomHasProducers'
  <2>1. PICK us \in NotifiedBy(notFull) : Wake(w, notFull, us)
    BY <1>3 DEF TakeNotifies, notifyAndUnlock
  <2>2. sleeping'[notFull] = sleeping[notFull] \ us
    BY <1>1, <2>1 DEF Wake
  <2>3. CASE sleeping[notFull] = {}
    BY <2>2, <2>3
  <2>4. CASE sleeping[notFull] # {}
    <3>1. PICK u \in sleeping[notFull] : us = {u}
      BY <2>1, <2>4 DEF NotifiedBy
    <3>2. u \in Producer /\ u \notin woken
      BY <3>1 DEF IInv, Separated
    <3>3. woken' \cap Producer = (woken \cup {u}) \cap Producer
      BY <2>1, <3>1 DEF Wake
    <3>4. Cardinality((woken \cup {u}) \cap Producer) = Cardinality(woken \cap Producer) + 1
      BY <3>2, OneMoreWoken
    <3>5. Cardinality(woken' \cap Producer) = Cardinality(woken \cap Producer) + 1
      BY <3>3, <3>4
    <3> QED
      BY <1>1, <1>3, <2>4, <3>5
  <2> QED
    BY <2>3, <2>4
<1> QED
  BY <1>2, <1>3 DEF TakeOrWait, poolVars

LEMMA WakeupKeepsRoom ==
  ASSUME IInv, RoomHasProducers, NEW t \in Thread, wakeup(t)
  PROVE  RoomHasProducers'
<1> USE ThreadAssumption, CondAssumption DEF RoomHasProducers
<1>1. PICK c \in Cond : t \in sleeping[c] /\ sleeping' = [sleeping EXCEPT ![c] = @ \ {t}]
  BY DEF wakeup, spuriousWakeup
<1>2. /\ woken' = woken \cup {t} /\ UNCHANGED <<size_queue_, b_queue_>>
      /\ sleeping'[notFull] \subseteq sleeping[notFull] /\ t \notin woken
      /\ size_queue_ - b_queue_ \in Int /\ Cardinality(woken \cap Producer) \in Nat
  <2>1. woken' = woken \cup {t} /\ UNCHANGED <<size_queue_, b_queue_>>
    BY DEF wakeup, spuriousWakeup, poolVars
  <2>2. sleeping'[notFull] \subseteq sleeping[notFull] /\ t \notin woken
    BY <1>1 DEF IInv, TypeOK, MonitorTypeOK, Separated
  <2>3. size_queue_ - b_queue_ \in Int
    BY DEF IInv, TypeOK
  <2>4. Cardinality(woken \cap Producer) \in Nat
    BY WokenAreFinite
  <2> QED
    BY <2>1, <2>2, <2>3, <2>4
<1>3. CASE t \in Producer
  <2>1. Cardinality(woken' \cap Producer) = Cardinality(woken \cap Producer) + 1
    BY <1>2, <1>3, OneMoreWoken
  <2> QED
    BY <1>2, <2>1
<1>4. CASE t \notin Producer
  <2>1. woken' \cap Producer = woken \cap Producer
    BY <1>2, <1>4
  <2>2. Cardinality(woken' \cap Producer) = Cardinality(woken \cap Producer)
    BY <2>1
  <2> QED
    BY <1>2, <2>2
<1> QED
  BY <1>3, <1>4

\* Of the owner's steps only start and the emptying of the queue touch the room.
LEMMA OwnerKeepsRoom ==
  ASSUME IInv, RoomHasProducers, OwnerStep, owner \notin {"out", "clear"}
  PROVE  RoomHasProducers'
<1> USE ThreadAssumption, CondAssumption DEF RoomHasProducers
<1>1. CASE stop
  <2>1. /\ sleeping'[notFull] = sleeping[notFull]
        /\ woken' \cap Producer = woken \cap Producer
        /\ UNCHANGED <<size_queue_, b_queue_>>
    BY <1>1 DEF stop, NotifyWorkers, notifyAllAndUnlock, Wake, IInv, TypeOK, MonitorTypeOK,
                Separated
  <2>2. Cardinality(woken' \cap Producer) = Cardinality(woken \cap Producer)
    BY <2>1
  <2> QED
    BY <2>1, <2>2
<1>2. CASE ~stop
  BY <1>2 DEF OwnerStep, start, startThread, startReturns, join, clear, Abort, monitorVars,
              poolVars
<1> QED
  BY <1>1, <1>2

LEMMA RoomKeeps ==
  ASSUME IInv, RoomHasProducers, [Next]_vars, owner \notin {"out", "clear"}
  PROVE  RoomHasProducers'
<1>1. CASE OwnerStep
  BY <1>1, OwnerKeepsRoom
<1>2. ASSUME NEW p \in Producer, addTask(p) \/ resumeAddTask(p) PROVE RoomHasProducers'
  BY <1>2, AddKeepsRoom DEF addTask, resumeAddTask
<1>3. ASSUME NEW w \in Worker, take(w) \/ resumeTake(w) PROVE RoomHasProducers'
  BY <1>3, TakeKeepsRoom DEF take, resumeTake
<1>4. ASSUME NEW w \in Worker, testStarted(w) \/ taskReturns(w) PROVE RoomHasProducers'
  BY <1>4 DEF testStarted, taskReturns, monitorVars, RoomHasProducers
<1>5. ASSUME NEW t \in Thread, wakeup(t) PROVE RoomHasProducers'
  BY <1>5, WakeupKeepsRoom
<1>6. CASE UNCHANGED vars
  BY <1>6 DEF vars, monitorVars, RoomHasProducers
<1> QED
  BY <1>1, <1>2, <1>3, <1>4, <1>5, <1>6 DEF Next, WorkerStep

-----------------------------------------------------------------------------
LEMMA Invariant == Spec => []IInv
BY InitIInv, NextIInv, PTL DEF Spec

-----------------------------------------------------------------------------
\* The state is well typed, and the queue never holds more tasks than
\* size_queue_, for any number of producers and any capacity.
THEOREM TypeCorrect == Spec => []TypeOK
<1>1. IInv => TypeOK
  BY DEF IInv
<1> QED
  BY <1>1, Invariant, PTL

\* No worker sleeps on a task: the single notify of addTask is enough, although
\* the workers and the producers share the mutex, steal tasks and wake for no
\* reason.
THEOREM NoWorkerSleepsOnTask == Spec => []TasksHaveWorkers
<1>1. IInv => TasksHaveWorkers
  BY DEF IInv
<1> QED
  BY <1>1, Invariant, PTL

\* No worker sleeps in a pool that has been stopped, although the workers read
\* is_start_ without the mutex.
THEOREM NoWorkerSleepsThroughStops == Spec => []NoWorkerSleepsThroughStop
<1>1. IInv => NoWorkerSleepsThroughStop
  BY DEF IInv
<1> QED
  BY <1>1, Invariant, PTL

\* No step of a producer or a worker, and no spurious wakeup, leaves a producer asleep
\* beside a free place that no woken producer will take, for any number of them and any
\* capacity: the single notify of take() is enough.  Only start and the end of stop do.
THEOREM ProducersAreWoken == Spec => OnlyOwnerStrandsProducers
<1>1. IInv /\ [Next]_vars =>
        [RoomHasProducers /\ ~RoomHasProducers' => owner \in {"out", "clear"}]_vars
  BY RoomKeeps
<1> QED
  BY <1>1, Invariant, PTL DEF Spec, OnlyOwnerStrandsProducers
=============================================================================
