---------------------------- MODULE Queues_proofs ----------------------------
(***************************************************************************)
(* Theorems about the three containers that several parts of the library   *)
(* rest on, for all values of their constants: the timers of TimeQueue,    *)
(* the items of BlockingQueue and the bytes of Buffer.  What is put in     *)
(* comes out when it should, once and in order, and nobody is left waiting *)
(* beside it.  The three share no state.                                   *)
(***************************************************************************)
EXTENDS TimeQueue, BlockingQueue, Buffer, FiniteSetTheorems, SequenceTheorems, TLAPS

(* TimeQueue *)

\* The mark for "no time" is an integer but no time.
LEMMA NoneIsNoTime == None \notin Nat /\ None \in Int
BY DEF None

-----------------------------------------------------------------------------
(* Type correctness *)

\* timers_.insert and the resetTimerfd that may follow it keep their types.
LEMMA InsertType ==
  ASSUME TypeOK, NEW i \in Timer, NEW when \in Nat \cup {None}, Insert(i, when)
  PROVE  /\ timers_' \subseteq Timer
         /\ armed' \in Nat \cup {None}
         /\ readable' \in BOOLEAN
BY DEF TypeOK, Insert, resetTimerfd, ExpiryOf, Latest, fdVars, None

\* The interval of a repeating timer is a number of ticks, so restart computes
\* a time.
LEMMA RepeatingInterval ==
  ASSUME TypeOK, NEW i \in Timer, interval_[i] > 0
  PROVE  interval_[i] \in Nat /\ nowRead + interval_[i] \in Nat
<1>1. interval_[i] \in Intervals \cup {0, None}
  BY DEF TypeOK
<1>2. \A d \in Intervals : d \in Nat
  BY IntervalsAssumption
<1>3. interval_[i] \in Nat \/ interval_[i] = 0 \/ interval_[i] = None
  BY <1>1, <1>2
<1> QED
  BY <1>3 DEF TypeOK, None

\* addTimer keeps the state well typed, in the loop thread and outside it.
LEMMA AddTimerType ==
  ASSUME TypeOK, NEW i \in Timer, NEW when \in Nat,
         NEW interval \in Intervals \cup {0}, addTimer(i, when, interval)
  PROVE  TypeOK'
<1>1. /\ expiration_' \in [Timer -> Nat \cup {None}]
      /\ interval_' \in [Timer -> Intervals \cup {0, None}]
      /\ UNCHANGED <<now, pc, nowRead, toRun, toReset>>
  BY DEF addTimer, TypeOK, batchVars
<1>2. /\ handed' \subseteq Timer /\ timers_' \subseteq Timer
      /\ armed' \in Nat \cup {None} /\ readable' \in BOOLEAN
  BY InsertType DEF addTimer, TypeOK, fdVars
<1> QED
  BY <1>1, <1>2 DEF TypeOK

\* The type invariant of TimeQueue.
THEOREM TypeCorrect == Spec => []TypeOK
<1>1. ASSUME Init PROVE TypeOK
  <2>1. /\ expiration_ \in [Timer -> Nat \cup {None}]
        /\ interval_ \in [Timer -> Intervals \cup {0, None}]
    BY <1>1 DEF Init
  <2> QED
    BY <1>1, <2>1 DEF Init, TypeOK
<1>2. TypeOK /\ [Next]_vars => TypeOK'
  <2> SUFFICES ASSUME TypeOK, [Next]_vars PROVE TypeOK'
    OBVIOUS
  <2> USE DEF TypeOK
  <2>1. CASE Tick
    BY <2>1 DEF Tick, infoVars, batchVars, fdVars
  <2>2. CASE timerfdExpires
    BY <2>2 DEF timerfdExpires, infoVars, batchVars
  <2>3. ASSUME NEW i \in Timer, NEW when \in 0..MaxTime, runAt(i, when) PROVE TypeOK'
    BY <2>3, AddTimerType, MaxTimeAssumption DEF runAt
  <2>4. ASSUME NEW i \in Timer, NEW d \in Intervals, runEvery(i, d) PROVE TypeOK'
    BY <2>4, AddTimerType, IntervalsAssumption DEF runEvery
  <2>5. ASSUME NEW i \in Timer, addTimerInloop(i) PROVE TypeOK'
    <3>1. expiration_[i] \in Nat \cup {None} /\ Insert(i, expiration_[i])
      BY <2>5 DEF addTimerInloop
    <3> QED
      BY <2>5, <3>1, InsertType DEF addTimerInloop, infoVars, batchVars
  <2>6. CASE handleRead
    BY <2>6 DEF handleRead, MoveExpired, Expired, LeaveTimerfd, infoVars, fdVars
  <2>7. ASSUME NEW i \in Timer, run(i) PROVE TypeOK'
    BY <2>7 DEF run, infoVars, fdVars
  <2>8. CASE callbacksDone
    BY <2>8 DEF callbacksDone, infoVars, fdVars
  <2>9. ASSUME NEW i \in Timer, reset(i) PROVE TypeOK'
    <3>1. CASE interval_[i] > 0
      <4>1. nowRead + interval_[i] \in Nat
        BY <3>1, RepeatingInterval
      <4>2. /\ Insert(i, nowRead + interval_[i])
            /\ expiration_' = [expiration_ EXCEPT ![i] = nowRead + interval_[i]]
            /\ toReset' = toReset \ {i}
            /\ UNCHANGED <<now, interval_, handed, pc, nowRead, toRun>>
        BY <2>9, <3>1 DEF reset
      <4>3. timers_' \subseteq Timer /\ armed' \in Nat \cup {None} /\ readable' \in BOOLEAN
        BY <4>1, <4>2, InsertType
      <4> QED
        BY <4>1, <4>2, <4>3
    <3>2. CASE ~(interval_[i] > 0)
      BY <2>9, <3>2 DEF reset, fdVars
    <3> QED
      BY <3>1, <3>2
  <2>10. CASE resetDone
    BY <2>10 DEF resetDone, infoVars, fdVars
  <2>11. CASE UNCHANGED vars
    BY <2>11 DEF vars, infoVars, batchVars, fdVars
  <2> QED
    BY <2>1, <2>2, <2>3, <2>4, <2>5, <2>6, <2>7, <2>8, <2>9, <2>10, <2>11
       DEF Next, LoopStep
<1> QED
  BY <1>1, <1>2, PTL DEF Spec

-----------------------------------------------------------------------------
(* Where a timer can be *)

\* The strengthening of TimerInOnePlace: a timer without an interval has not
\* been created, the batch exists inside handleRead only, its callbacks have
\* run before it is reset, and it was due when it was collected.
PlaceInv ==
  /\ TimerInOnePlace
  /\ \A i \in Timer : interval_[i] = None => expiration_[i] = None
  /\ pc = "idle" => toReset = {}
  /\ pc = "reset" => toRun = {}
  /\ nowRead <= now
  /\ \A i \in toReset : expiration_[i] <= nowRead

\* A timer that addTimer creates is new, so it is in one place from then on.
LEMMA AddTimerKeepsPlaceInv ==
  ASSUME TypeOK, PlaceInv, NEW i \in Timer, NEW when \in Nat,
         NEW interval \in Intervals \cup {0}, addTimer(i, when, interval)
  PROVE  PlaceInv'
<1>1. /\ expiration_[i] = None
      /\ i \notin handed \cup timers_ \cup toReset
  BY DEF addTimer, PlaceInv, TimerInOnePlace
<1>2. /\ expiration_' = [expiration_ EXCEPT ![i] = when]
      /\ interval_' = [interval_ EXCEPT ![i] = interval]
      /\ UNCHANGED <<now, pc, nowRead, toRun, toReset>>
  BY DEF addTimer, batchVars
<1>3. \/ timers_' = timers_ \cup {i} /\ handed' = handed
      \/ timers_' = timers_ /\ handed' = handed \cup {i}
  BY DEF addTimer, Insert
<1>4. {j \in Timer : expiration_'[j] # None} = {j \in Timer : expiration_[j] # None} \cup {i}
  BY <1>2, NoneIsNoTime DEF TypeOK
<1>5. TimerInOnePlace'
  BY <1>1, <1>2, <1>3, <1>4 DEF PlaceInv, TimerInOnePlace
<1>6. \A j \in Timer : interval_'[j] = None => expiration_'[j] = None
  BY <1>2, NoneIsNoTime, IntervalsAssumption DEF PlaceInv, TypeOK
<1>7. \A j \in toReset : expiration_'[j] <= nowRead
  BY <1>1, <1>2 DEF PlaceInv, TypeOK
<1> QED
  BY <1>2, <1>5, <1>6, <1>7 DEF PlaceInv

\* reset moves an entry of the batch back to timers_ or deletes it, never both.
LEMMA ResetKeepsPlaceInv ==
  ASSUME TypeOK, PlaceInv, NEW i \in Timer, reset(i)
  PROVE  PlaceInv'
<1>1. /\ i \in toReset /\ toReset' = toReset \ {i} /\ pc = "reset"
      /\ UNCHANGED <<now, interval_, handed, pc, nowRead, toRun>>
  BY DEF reset, IsFirst
<1>2. i \notin handed /\ i \notin timers_ /\ toRun = {} /\ expiration_[i] # None
  BY <1>1 DEF PlaceInv, TimerInOnePlace
<1>3. CASE interval_[i] > 0
  <2>1. /\ nowRead + interval_[i] # None
        /\ expiration_' = [expiration_ EXCEPT ![i] = nowRead + interval_[i]]
        /\ timers_' = timers_ \cup {i}
    BY <1>3, RepeatingInterval, NoneIsNoTime DEF reset, Insert
  <2>2. {j \in Timer : expiration_'[j] # None} = {j \in Timer : expiration_[j] # None}
    BY <1>2, <2>1 DEF TypeOK
  <2>3. TimerInOnePlace'
    BY <1>1, <1>2, <2>1, <2>2 DEF PlaceInv, TimerInOnePlace
  <2>4. \A j \in Timer : interval_[j] = None => expiration_'[j] = None
    BY <1>2, <2>1 DEF PlaceInv, TypeOK
  <2> QED
    BY <1>1, <1>2, <2>1, <2>3, <2>4 DEF PlaceInv, TypeOK
<1>4. CASE ~(interval_[i] > 0)
  <2>1. /\ expiration_' = [expiration_ EXCEPT ![i] = None]
        /\ timers_' = timers_
    BY <1>4 DEF reset
  <2>2. {j \in Timer : expiration_'[j] # None} = {j \in Timer : expiration_[j] # None} \ {i}
    BY <2>1 DEF TypeOK
  <2>3. TimerInOnePlace'
    BY <1>1, <1>2, <2>1, <2>2 DEF PlaceInv, TimerInOnePlace
  <2>4. \A j \in Timer : interval_[j] = None => expiration_'[j] = None
    BY <2>1 DEF PlaceInv, TypeOK
  <2> QED
    BY <1>1, <1>2, <2>1, <2>3, <2>4 DEF PlaceInv, TypeOK
<1> QED
  BY <1>3, <1>4

\* PlaceInv holds when the TimeQueue is constructed.
LEMMA PlaceInvInit == Init => PlaceInv
BY DEF Init, PlaceInv, TimerInOnePlace

\* Every step keeps PlaceInv: the inductive strengthening of TimerInOnePlace.
LEMMA PlaceInvStep == TypeOK /\ PlaceInv /\ [Next]_vars => PlaceInv'
<1> SUFFICES ASSUME TypeOK, PlaceInv, [Next]_vars PROVE PlaceInv'
  OBVIOUS
<1> USE DEF PlaceInv, TimerInOnePlace
<1>1. CASE Tick
  BY <1>1 DEF Tick, infoVars, batchVars, TypeOK
<1>2. CASE timerfdExpires
  BY <1>2 DEF timerfdExpires, infoVars, batchVars
<1>3. ASSUME NEW i \in Timer, NEW when \in 0..MaxTime, runAt(i, when) PROVE PlaceInv'
  BY <1>3, AddTimerKeepsPlaceInv, MaxTimeAssumption DEF runAt
<1>4. ASSUME NEW i \in Timer, NEW d \in Intervals, runEvery(i, d) PROVE PlaceInv'
  BY <1>4, AddTimerKeepsPlaceInv, IntervalsAssumption DEF runEvery, TypeOK
<1>5. ASSUME NEW i \in Timer, addTimerInloop(i) PROVE PlaceInv'
  BY <1>5 DEF addTimerInloop, Insert, infoVars, batchVars
<1>6. CASE handleRead
  BY <1>6 DEF handleRead, MoveExpired, Expired, infoVars, TypeOK
<1>7. ASSUME NEW i \in Timer, run(i) PROVE PlaceInv'
  BY <1>7 DEF run, infoVars
<1>8. CASE callbacksDone
  BY <1>8 DEF callbacksDone, infoVars
<1>9. ASSUME NEW i \in Timer, reset(i) PROVE PlaceInv'
  BY <1>9, ResetKeepsPlaceInv
<1>10. CASE resetDone
  BY <1>10 DEF resetDone, infoVars
<1>11. CASE UNCHANGED vars
  BY <1>11 DEF vars, infoVars, batchVars
<1> QED
  BY <1>1, <1>2, <1>3, <1>4, <1>5, <1>6, <1>7, <1>8, <1>9, <1>10, <1>11
     DEF Next, LoopStep

\* TimerInOnePlace holds for every set of timers: no entry is shared between
\* the queued functor, timers_ and the batch, and none outlives its delete.
THEOREM OnePlacePerTimer == Spec => []TimerInOnePlace
<1>1. PlaceInv => TimerInOnePlace
  BY DEF PlaceInv
<1> QED
  BY <1>1, PlaceInvInit, PlaceInvStep, TypeCorrect, PTL DEF Spec

-----------------------------------------------------------------------------
(* No timer is forgotten *)

\* Insertion keeps every entry covered, the new one included: either the new
\* entry is the earliest and timerfd_ is set for it, or the entry that
\* precedes it is covered by a descriptor that covers both.
LEMMA InsertKeepsCover ==
  ASSUME TypeOK, NoLostTimer, NEW i \in Timer, NEW when \in Nat, i \notin timers_,
         Insert(i, when), now' = now, expiration_'[i] = when,
         \A j \in timers_ : expiration_'[j] = expiration_[j]
  PROVE  NoLostTimer'
<1>1. timers_' = timers_ \cup {i} /\ \A j \in timers_ : expiration_[j] \in Int
  BY DEF Insert, TypeOK, None
<1>2. CASE \A j \in timers_ : when < expiration_[j]
  <2>1. armed' = ExpiryOf(when) /\ readable' = FALSE
    BY <1>2 DEF Insert, resetTimerfd
  <2>2. armed' # None
    BY <2>1 DEF ExpiryOf, Latest, TypeOK, None
  <2>3. ASSUME NEW j \in timers_' PROVE armed' <= Latest(expiration_'[j], now')
    BY <1>1, <1>2, <2>1, <2>3 DEF ExpiryOf, Latest, TypeOK
  <2> QED
    BY <2>2, <2>3 DEF NoLostTimer
<1>3. CASE ~(\A j \in timers_ : when < expiration_[j])
  <2>1. armed' = armed /\ readable' = readable
    BY <1>3 DEF Insert, fdVars
  <2>2. PICK j \in timers_ : expiration_[j] <= when
    BY <1>1, <1>3
  <2>3. readable \/ (armed # None /\ armed <= Latest(expiration_[j], now))
    BY <2>2 DEF NoLostTimer
  <2>4. Latest(expiration_[j], now) <= Latest(when, now)
    BY <1>1, <2>2 DEF Latest, TypeOK
  <2>5. readable \/ (armed # None /\ armed <= Latest(when, now))
    BY <1>1, <2>3, <2>4 DEF Latest, TypeOK, None
  <2> QED
    BY <1>1, <2>1, <2>5 DEF NoLostTimer
<1> QED
  BY <1>2, <1>3

\* addTimer leaves every entry covered: it inserts in the loop thread, or only
\* queues the timer.
LEMMA AddTimerKeepsCover ==
  ASSUME TypeOK, PlaceInv, NoLostTimer, NEW i \in Timer, NEW when \in Nat,
         NEW interval \in Intervals \cup {0}, addTimer(i, when, interval)
  PROVE  NoLostTimer'
<1>1. /\ i \notin timers_ /\ now' = now /\ expiration_'[i] = when
      /\ \A j \in timers_ : expiration_'[j] = expiration_[j]
  BY DEF addTimer, PlaceInv, TimerInOnePlace, TypeOK
<1>2. CASE Insert(i, when)
  BY <1>1, <1>2, InsertKeepsCover
<1>3. CASE UNCHANGED <<timers_, fdVars>>
  BY <1>1, <1>3 DEF NoLostTimer, fdVars
<1> QED
  BY <1>2, <1>3 DEF addTimer

\* NoLostTimer holds for every set of timers: the kernel never forgets a
\* pending one.
THEOREM TimersCovered == Spec => []NoLostTimer
<1>1. Init => NoLostTimer
  BY DEF Init, NoLostTimer
<1>2. TypeOK /\ PlaceInv /\ NoLostTimer /\ [Next]_vars => NoLostTimer'
  <2> SUFFICES ASSUME TypeOK, PlaceInv, NoLostTimer, [Next]_vars PROVE NoLostTimer'
    OBVIOUS
  <2>1. CASE Tick
    <3>1. /\ now' = now + 1 /\ UNCHANGED <<expiration_, timers_, armed, readable>>
      BY <2>1 DEF Tick, infoVars, fdVars
    <3>2. ASSUME NEW i \in timers_ PROVE Latest(expiration_[i], now) <= Latest(expiration_[i], now + 1)
      BY <3>2 DEF Latest, TypeOK, None
    <3>3. \A i \in timers_ : /\ Latest(expiration_[i], now) \in Int
                            /\ Latest(expiration_[i], now + 1) \in Int
      BY DEF Latest, TypeOK, None
    <3> QED
      BY <3>1, <3>2, <3>3 DEF NoLostTimer, TypeOK, None
  <2>2. CASE timerfdExpires
    BY <2>2 DEF timerfdExpires, NoLostTimer
  <2>3. ASSUME NEW i \in Timer, NEW when \in 0..MaxTime, runAt(i, when) PROVE NoLostTimer'
    BY <2>3, AddTimerKeepsCover, MaxTimeAssumption DEF runAt
  <2>4. ASSUME NEW i \in Timer, NEW d \in Intervals, runEvery(i, d) PROVE NoLostTimer'
    BY <2>4, AddTimerKeepsCover, IntervalsAssumption DEF runEvery, TypeOK
  <2>5. ASSUME NEW i \in Timer, addTimerInloop(i) PROVE NoLostTimer'
    <3>1. /\ i \notin timers_ /\ expiration_[i] \in Nat /\ Insert(i, expiration_[i])
          /\ now' = now /\ expiration_' = expiration_
      BY <2>5 DEF addTimerInloop, PlaceInv, TimerInOnePlace, TypeOK, infoVars
    <3> QED
      BY <3>1, InsertKeepsCover
  <2>6. CASE handleRead
    BY <2>6 DEF handleRead, MoveExpired, LeaveTimerfd, infoVars, fdVars, NoLostTimer
  <2>7. ASSUME NEW i \in Timer, run(i) PROVE NoLostTimer'
    BY <2>7 DEF run, infoVars, fdVars, NoLostTimer
  <2>8. CASE callbacksDone
    BY <2>8 DEF callbacksDone, infoVars, fdVars, NoLostTimer
  <2>9. ASSUME NEW i \in Timer, reset(i) PROVE NoLostTimer'
    <3>1. i \notin timers_ /\ now' = now
      BY <2>9 DEF reset, IsFirst, PlaceInv, TimerInOnePlace
    <3>2. CASE interval_[i] > 0
      <4>1. /\ nowRead + interval_[i] \in Nat
            /\ Insert(i, nowRead + interval_[i])
            /\ expiration_' = [expiration_ EXCEPT ![i] = nowRead + interval_[i]]
        BY <2>9, <3>2, RepeatingInterval DEF reset
      <4>2. /\ expiration_'[i] = nowRead + interval_[i]
            /\ \A j \in timers_ : expiration_'[j] = expiration_[j]
        BY <3>1, <4>1 DEF TypeOK
      <4> QED
        BY <3>1, <4>1, <4>2, InsertKeepsCover
    <3>3. CASE ~(interval_[i] > 0)
      <4>1. /\ UNCHANGED <<timers_, armed, readable>>
            /\ \A j \in timers_ : expiration_'[j] = expiration_[j]
        BY <2>9, <3>1, <3>3 DEF reset, fdVars, TypeOK
      <4> QED
        BY <3>1, <4>1 DEF NoLostTimer
    <3> QED
      BY <3>2, <3>3
  <2>10. CASE resetDone
    BY <2>10 DEF resetDone, infoVars, fdVars, NoLostTimer
  <2>11. CASE UNCHANGED vars
    BY <2>11 DEF vars, infoVars, fdVars, NoLostTimer
  <2> QED
    BY <2>1, <2>2, <2>3, <2>4, <2>5, <2>6, <2>7, <2>8, <2>9, <2>10, <2>11
       DEF Next, LoopStep
<1> QED
  BY <1>1, <1>2, PlaceInvInit, PlaceInvStep, TypeCorrect, PTL DEF Spec

-----------------------------------------------------------------------------
(* TimeQueue implements TimerService *)

\* A created timer is due when its creator says, and was not known before.
LEMMA AddTimerIsAdd ==
  ASSUME TypeOK, PlaceInv, NEW i \in Timer, NEW when \in Nat,
         NEW interval \in Intervals \cup {0}, addTimer(i, when, interval)
  PROVE  TS!Add(i)
<1>1. i \notin toReset /\ expiration_[i] = None /\ interval_[i] = None
  BY DEF addTimer, PlaceInv, TimerInOnePlace
<1>2. /\ expiration_' = [expiration_ EXCEPT ![i] = when]
      /\ interval_' = [interval_ EXCEPT ![i] = interval]
      /\ UNCHANGED <<now, toRun, toReset, nowRead>>
  BY DEF addTimer, batchVars
<1>3. dueAt[i] = -1
  BY <1>1 DEF dueAt, None
<1>4. dueAt'[i] = when
  BY <1>1, <1>2 DEF dueAt, TypeOK
<1>5. dueAt' = [dueAt EXCEPT ![i] = when]
  <2>1. ASSUME NEW j \in Timer, j # i
        PROVE  /\ expiration_'[j] = expiration_[j]
               /\ interval_'[j] = interval_[j]
    BY <1>2, <2>1 DEF TypeOK
  <2>2. ASSUME NEW j \in Timer PROVE dueAt'[j] = [dueAt EXCEPT ![i] = when][j]
    BY <1>2, <1>4, <2>1 DEF dueAt
  <2> QED
    BY <2>2 DEF dueAt
<1>6. interval_'[i] = interval
  BY <1>2 DEF TypeOK
<1> QED
  BY <1>1, <1>2, <1>3, <1>4, <1>5, <1>6 DEF TS!Add, TS!Idle, None

\* handleRead empties timers_ into the batch: nobody sees it.
LEMMA HandleReadIsStutter ==
  ASSUME TypeOK, PlaceInv, handleRead
  PROVE  UNCHANGED <<now, dueAt, interval_>>
<1>1. toReset = {} /\ toReset' \ toRun' = {} /\ UNCHANGED <<now, expiration_, interval_>>
  BY DEF handleRead, MoveExpired, infoVars, PlaceInv
<1> QED
  BY <1>1 DEF dueAt

\* The callback of a timer in the batch is a run of a timer that is due.
LEMMA RunIsRun ==
  ASSUME TypeOK, PlaceInv, NEW i \in Timer, run(i)
  PROVE  TS!Run(i)
<1>1. /\ i \in toRun /\ i \in toReset /\ toRun' = toRun \ {i} /\ toRun \subseteq toReset
      /\ UNCHANGED <<now, expiration_, interval_, toReset, nowRead>>
  BY DEF run, IsFirst, infoVars, PlaceInv, TimerInOnePlace
<1>2. /\ dueAt[i] = expiration_[i] /\ expiration_[i] \in Nat
      /\ expiration_[i] <= nowRead /\ nowRead <= now /\ interval_[i] # None
  BY <1>1 DEF dueAt, PlaceInv, TimerInOnePlace, TypeOK
<1>3. interval_[i] = 0 \/ interval_[i] > 0
  <2>1. interval_[i] \in Intervals \/ interval_[i] = 0
    BY <1>2 DEF TypeOK
  <2>2. \A d \in Intervals : d \in Nat /\ d > 0
    BY IntervalsAssumption
  <2> QED
    BY <2>1, <2>2
<1>4. \A j \in Timer : j # i => dueAt'[j] = dueAt[j]
  BY <1>1 DEF dueAt
<1>5. CASE interval_[i] = 0
  <2>1. dueAt'[i] = None
    BY <1>1, <1>5 DEF dueAt
  <2>2. dueAt' = [dueAt EXCEPT ![i] = None]
    BY <1>4, <2>1 DEF dueAt
  <2> QED
    BY <1>1, <1>2, <1>5, <2>2 DEF TS!Run, TS!Idle, TypeOK, None
<1>6. CASE interval_[i] > 0
  <2>1. dueAt'[i] = nowRead + interval_[i]
    BY <1>1, <1>6 DEF dueAt
  <2>2. dueAt' = [dueAt EXCEPT ![i] = nowRead + interval_[i]]
    BY <1>4, <2>1 DEF dueAt
  <2>3. nowRead \in dueAt[i]..now
    BY <1>2 DEF TypeOK
  <2>4. \E t \in dueAt[i]..now : dueAt' = [dueAt EXCEPT ![i] = t + interval_[i]]
    BY <2>2, <2>3
  <2>5. dueAt[i] # -1 /\ dueAt[i] <= now
    BY <1>2 DEF TypeOK
  <2> QED
    BY <1>1, <1>6, <2>4, <2>5 DEF TS!Run, TS!Idle
<1> QED
  BY <1>3, <1>5, <1>6

\* reset() makes of an entry what its user has counted with since it ran.
LEMMA ResetIsStutter ==
  ASSUME TypeOK, PlaceInv, NEW i \in Timer, reset(i)
  PROVE  UNCHANGED <<now, dueAt, interval_>>
<1>1. /\ i \in toReset /\ toReset' = toReset \ {i} /\ toRun = {} /\ toRun' = {}
      /\ UNCHANGED <<now, interval_, nowRead>>
  BY DEF reset, IsFirst, PlaceInv
<1>2. expiration_' = [expiration_ EXCEPT ![i] = IF interval_[i] > 0
                                                THEN nowRead + interval_[i] ELSE None]
  BY DEF reset
<1>3. ASSUME NEW j \in Timer PROVE dueAt'[j] = dueAt[j]
  <2>1. CASE j = i
    BY <1>1, <1>2, <2>1 DEF dueAt, TypeOK
  <2>2. CASE j # i
    <3>1. expiration_'[j] = expiration_[j]
      BY <1>2, <2>2 DEF TypeOK
    <3> QED
      BY <1>1, <2>2, <3>1 DEF dueAt
  <2> QED
    BY <2>1, <2>2
<1> QED
  BY <1>1, <1>3 DEF dueAt

\* TimersImplemented holds for all timers and intervals: no timer runs early,
\* twice or after its delete, and the batch of handleRead is invisible.
THEOREM ImplementsTimerService == Spec => TimersImplemented
<1>1. Init => TS!TSInit
  BY DEF Init, TS!TSInit, TS!Idle, None, dueAt
<1>2. TypeOK /\ PlaceInv /\ [Next]_vars => [TS!TSNext]_<<now, dueAt, interval_>>
  <2> SUFFICES ASSUME TypeOK, PlaceInv, [Next]_vars
               PROVE  TS!TSNext \/ UNCHANGED <<now, dueAt, interval_>>
    OBVIOUS
  <2>1. CASE Tick
    BY <2>1 DEF Tick, infoVars, batchVars, TS!TSNext, TS!Tick, dueAt
  <2>2. CASE timerfdExpires \/ callbacksDone \/ resetDone \/ UNCHANGED vars
             \/ \E i \in Timer : addTimerInloop(i)
    <3>1. UNCHANGED <<now, expiration_, interval_, nowRead, toRun, toReset>>
      BY <2>2 DEF timerfdExpires, callbacksDone, resetDone, vars, addTimerInloop,
                  infoVars, batchVars
    <3> QED
      BY <3>1 DEF dueAt
  <2>3. ASSUME NEW i \in Timer, NEW when \in 0..MaxTime, runAt(i, when) PROVE TS!Add(i)
    BY <2>3, AddTimerIsAdd, MaxTimeAssumption DEF runAt
  <2>4. ASSUME NEW i \in Timer, NEW d \in Intervals, runEvery(i, d) PROVE TS!Add(i)
    BY <2>4, AddTimerIsAdd, IntervalsAssumption DEF runEvery, TypeOK
  <2>5. CASE handleRead
    BY <2>5, HandleReadIsStutter
  <2>6. ASSUME NEW i \in Timer, run(i) PROVE TS!Run(i)
    BY <2>6, RunIsRun
  <2>7. ASSUME NEW i \in Timer, reset(i) PROVE UNCHANGED <<now, dueAt, interval_>>
    BY <2>7, ResetIsStutter
  <2> QED
    BY <2>1, <2>2, <2>3, <2>4, <2>5, <2>6, <2>7 DEF Next, LoopStep, TS!TSNext
<1> QED
  BY <1>1, <1>2, PlaceInvInit, PlaceInvStep, TypeCorrect, PTL
     DEF Spec, TimersImplemented, TS!TSSpec, TS!tsVars

-----------------------------------------------------------------------------
(* BlockingQueue *)

QueueTypeOK == MonitorTypeOK /\ queue_ \in Nat

\* The inductive invariant.  A woken thread no longer sleeps, so that a
\* notification adds a taker to those under way; of these there are finitely
\* many, whatever the set of threads.
QueueInv ==
  /\ QueueTypeOK
  /\ IsFiniteSet(woken)
  /\ sleeping[notEmpty_] \cap woken = {}
  /\ ItemsHaveTakers

-----------------------------------------------------------------------------
LEMMA InitQueueInv == QueueInit => QueueInv
<1> SUFFICES ASSUME QueueInit PROVE QueueInv
  OBVIOUS
<1>1. QueueTypeOK
  BY CondAssumption DEF QueueInit, MonitorInit, QueueTypeOK, MonitorTypeOK
<1>2. IsFiniteSet(woken) /\ Cardinality(woken) = 0
  BY FS_EmptySet DEF QueueInit, MonitorInit
<1>3. sleeping[notEmpty_] = {} /\ queue_ = 0
  BY CondAssumption DEF QueueInit, MonitorInit
<1> QED
  BY <1>1, <1>2, <1>3 DEF QueueInv, ItemsHaveTakers

\* The threads that a notification wakes are one more taker under way, or
\* nobody sleeps.
LEMMA NotifyKeeps ==
  ASSUME QueueInv, NEW t \in Thread, t \notin Taking, notifyAndUnlock(t, notEmpty_)
  PROVE  /\ MonitorTypeOK'
         /\ IsFiniteSet(woken')
         /\ sleeping'[notEmpty_] \cap woken' = {}
         /\ \/ sleeping'[notEmpty_] = {}
            \/ sleeping[notEmpty_] # {} /\ Cardinality(woken') = Cardinality(woken) + 1
<1> USE CondAssumption DEF QueueInv, QueueTypeOK, MonitorTypeOK
<1>1. PICK us \in NotifiedBy(notEmpty_) : Wake(t, notEmpty_, us)
  BY DEF notifyAndUnlock
<1>2. /\ sleeping'[notEmpty_] = sleeping[notEmpty_] \ us
      /\ woken' = woken \cup us
      /\ is_lock_' = FALSE /\ aborted' = aborted
      /\ sleeping' = [sleeping EXCEPT ![notEmpty_] = @ \ us]
  BY <1>1 DEF Wake, Taking
<1>3. CASE sleeping[notEmpty_] = {}
  <2>1. us = {}
    BY <1>1, <1>3 DEF NotifiedBy
  <2>2. woken' = woken /\ sleeping' = sleeping
    BY <1>2, <2>1
  <2> QED
    BY <1>2, <1>3, <2>2
<1>4. CASE sleeping[notEmpty_] # {}
  <2>1. PICK u \in sleeping[notEmpty_] : us = {u}
    BY <1>1, <1>4 DEF NotifiedBy
  <2>2. u \in Thread /\ u \notin woken
    BY <2>1
  <2>3. IsFiniteSet(woken \cup {u}) /\ Cardinality(woken \cup {u}) = Cardinality(woken) + 1
    BY <2>2, FS_AddElement
  <2>4. sleeping' \in [Cond -> SUBSET Thread] /\ woken' \subseteq Thread
    BY <1>2, <2>1, <2>2
  <2> QED
    BY <1>2, <1>4, <2>1, <2>3, <2>4
<1> QED
  BY <1>3, <1>4

\* take() from the test of its loop on, by a thread that has not slept or that
\* has been woken.
LEMMA TakeKeeps ==
  ASSUME QueueInv, NEW t \in Thread, t \notin sleeping[notEmpty_],
         waitNotEmpty(t) \/ popFront(t)
  PROVE  QueueInv'
<1> USE CondAssumption DEF QueueInv, QueueTypeOK, MonitorTypeOK
<1>1. /\ IsFiniteSet(woken \ {t}) /\ Cardinality(woken) \in Nat
      /\ Cardinality(woken \ {t}) = IF t \in woken THEN Cardinality(woken) - 1
                                                   ELSE Cardinality(woken)
  BY FS_RemoveElement, FS_CardinalityType
<1>2. Cardinality(woken \ {t}) \in Nat
  BY <1>1, FS_CardinalityType
<1>3. CASE popFront(t)
  <2>1. /\ queue_ > 0 /\ queue_' = queue_ - 1
        /\ woken' = woken \ {t} /\ sleeping' = sleeping
        /\ is_lock_' = FALSE /\ aborted' = aborted
    BY <1>3 DEF popFront, unlock
  <2>2. QueueTypeOK'
    <3>1. queue_' \in Nat
      BY <2>1
    <3>2. MonitorTypeOK'
      BY <2>1
    <3> QED
      BY <3>1, <3>2
  <2>3. IsFiniteSet(woken') /\ sleeping'[notEmpty_] \cap woken' = {}
    BY <2>1, <1>1, Zenon
  <2>4. ItemsHaveTakers'
    <3> SUFFICES ASSUME Taking' # woken' PROVE queue_' <= Cardinality(woken')
      BY DEF ItemsHaveTakers
    <3>1. Taking # woken
      BY <2>1 DEF Taking
    <3>2. queue_ <= Cardinality(woken)
      BY <3>1 DEF ItemsHaveTakers
    <3> QED
      BY <1>1, <2>1, <3>2
  <2> QED
    BY <2>2, <2>3, <2>4
<1>4. CASE waitNotEmpty(t) /\ isLocked(t)
  <2>1. /\ queue_' = 0 /\ queue_ = 0
        /\ woken' = woken \ {t} /\ is_lock_' = TRUE /\ aborted' = aborted
        /\ sleeping' = [sleeping EXCEPT ![notEmpty_] = @ \cup {t}]
    BY <1>4 DEF waitNotEmpty, wait
  <2>2. /\ sleeping' \in [Cond -> SUBSET Thread] /\ woken' \subseteq Thread
        /\ sleeping'[notEmpty_] = sleeping[notEmpty_] \cup {t}
    BY <2>1
  <2>3. QueueTypeOK' /\ IsFiniteSet(woken') /\ sleeping'[notEmpty_] \cap woken' = {}
    BY <2>1, <2>2, <1>1
  <2>4. ItemsHaveTakers'
    BY <1>2, <2>1 DEF ItemsHaveTakers
  <2> QED
    BY <2>3, <2>4
<1>5. CASE waitNotEmpty(t) /\ ~isLocked(t)
  BY <1>5 DEF waitNotEmpty, wait, ItemsHaveTakers, Taking
<1> QED
  BY <1>3, <1>4, <1>5

LEMMA NextQueueInv == QueueInv /\ [QueueNext]_queueVars => QueueInv'
<1> SUFFICES ASSUME QueueInv, [QueueNext]_queueVars PROVE QueueInv'
  OBVIOUS
<1> USE CondAssumption DEF QueueInv, QueueTypeOK
<1>1. Cardinality(woken) \in Nat
  BY FS_CardinalityType
<1>2. ASSUME NEW t \in Thread, put(t) PROVE QueueInv'
  <2>1. /\ MonitorTypeOK' /\ IsFiniteSet(woken')
        /\ sleeping'[notEmpty_] \cap woken' = {}
        /\ \/ sleeping'[notEmpty_] = {}
           \/ sleeping[notEmpty_] # {} /\ Cardinality(woken') = Cardinality(woken) + 1
    BY <1>2, NotifyKeeps DEF put, Notify, Outside
  <2>2. queue_' = queue_ + 1
    BY <1>2 DEF put
  <2>3. ItemsHaveTakers'
    <3> SUFFICES ASSUME Taking' # woken' PROVE queue_' <= Cardinality(woken')
      BY DEF ItemsHaveTakers
    <3>1. Cardinality(woken') = Cardinality(woken) + 1 /\ sleeping[notEmpty_] # {}
      BY <2>1 DEF Taking
    <3>2. queue_ <= Cardinality(woken)
      BY <3>1 DEF ItemsHaveTakers, Taking
    <3> QED
      BY <1>1, <2>2, <3>1, <3>2
  <2> QED
    BY <2>1, <2>2, <2>3
<1>3. ASSUME NEW t \in Thread, take(t) PROVE QueueInv'
  BY <1>3, TakeKeeps DEF take, Outside, Taking
<1>4. ASSUME NEW t \in Thread, resume(t) PROVE QueueInv'
  BY <1>4, TakeKeeps DEF resume
<1>5. ASSUME NEW t \in Thread, wakeup(t) PROVE QueueInv'
  <2>1. /\ t \in sleeping[notEmpty_] /\ woken' = woken \cup {t} /\ queue_' = queue_
        /\ sleeping' = [sleeping EXCEPT ![notEmpty_] = @ \ {t}]
        /\ is_lock_' = is_lock_ /\ aborted' = aborted
    BY <1>5 DEF wakeup, spuriousWakeup
  <2>2. IsFiniteSet(woken') /\ Cardinality(woken') = Cardinality(woken) + 1
    BY <2>1, FS_AddElement
  <2>3. QueueTypeOK' /\ sleeping'[notEmpty_] \cap woken' = {}
    BY <2>1 DEF MonitorTypeOK
  <2>4. queue_ <= Cardinality(woken)
    BY <2>1 DEF ItemsHaveTakers, Taking
  <2> QED
    BY <1>1, <2>1, <2>2, <2>3, <2>4 DEF ItemsHaveTakers
<1>6. CASE UNCHANGED queueVars
  BY <1>6 DEF queueVars, monitorVars, MonitorTypeOK, ItemsHaveTakers, Taking
<1> QED
  BY <1>2, <1>3, <1>4, <1>5, <1>6 DEF QueueNext

-----------------------------------------------------------------------------
\* put() never leaves a taker asleep on an item, for any number of threads,
\* stolen items and spurious wakeups: the single notify of put is enough.
THEOREM NoTakerSleepsOnItem == QueueSpec => []ItemsHaveTakers
<1>1. QueueInv => ItemsHaveTakers
  BY DEF QueueInv
<1> QED
  BY <1>1, InitQueueInv, NextQueueInv, PTL DEF QueueSpec

\* The state of the queue is well typed.
THEOREM QueueTypeCorrect == QueueSpec => []QueueTypeOK
<1>1. QueueInv => QueueTypeOK
  BY DEF QueueInv
<1> QED
  BY <1>1, InitQueueInv, NextQueueInv, PTL DEF QueueSpec

-----------------------------------------------------------------------------
(* Buffer *)

\* The readable bytes are at most MaxReadable, which is what BufferNext keeps to.
BufferInv ==
  /\ v_buff_ \in Seq(Byte)
  /\ readIndex_ \in Nat /\ writeIndex_ \in Nat
  /\ readIndex_ <= writeIndex_ /\ writeIndex_ <= Len(v_buff_)
  /\ readIndex_ = writeIndex_ => readIndex_ = 0
  /\ readIndex_ <= move_line
  /\ writeIndex_ - readIndex_ <= MaxReadable
  /\ Len(v_buff_) <= defaultSize \/ Len(v_buff_) <= move_line + MaxReadable

-----------------------------------------------------------------------------
LEMMA BlankType == Blank \in Byte
BY BufferAssumption DEF Blank

\* Writing grows the vector as far as the bytes need, and no further.
LEMMA OverwrittenProperties ==
  ASSUME NEW v \in Seq(Byte), NEW w \in Nat, NEW s \in Seq(Byte)
  PROVE  /\ Overwritten(v, w, s) \in Seq(Byte)
         /\ Len(Overwritten(v, w, s)) = IF w + Len(s) > Len(v) THEN w + Len(s) ELSE Len(v)
<1> DEFINE n == IF w + Len(s) > Len(v) THEN w + Len(s) ELSE Len(v)
           B(i) == IF i \in w + 1..w + Len(s) THEN s[i - w]
                   ELSE IF i <= Len(v) THEN v[i] ELSE Blank
<1>1. Len(s) \in Nat /\ Len(v) \in Nat /\ n \in Nat
  BY LenProperties
<1>2. ASSUME NEW i \in 1..n PROVE B(i) \in Byte
  <2>1. CASE i \in w + 1..w + Len(s)
    <3>1. i - w \in 1..Len(s)
      BY <1>1, <2>1
    <3> QED
      BY <2>1, <3>1, ElementOfSeq
  <2>2. CASE i \notin w + 1..w + Len(s) /\ i <= Len(v)
    <3>1. i \in 1..Len(v)
      BY <1>1, <2>2
    <3> QED
      BY <2>2, <3>1, ElementOfSeq
  <2>3. CASE i \notin w + 1..w + Len(s) /\ ~(i <= Len(v))
    BY <2>3, BlankType
  <2> QED
    BY <2>1, <2>2, <2>3
<1>3. Overwritten(v, w, s) = [i \in 1..n |-> B(i)]
  BY DEF Overwritten
<1> HIDE DEF n, B
<1>4. [i \in 1..n |-> B(i)] \in [1..n -> Byte]
  BY <1>2
<1>5. Overwritten(v, w, s) \in [1..n -> Byte]
  BY <1>3, <1>4, Zenon
<1>6. Overwritten(v, w, s) \in Seq(Byte) /\ Len(Overwritten(v, w, s)) = n
  BY <1>1, <1>5
<1> QED
  BY <1>6 DEF n

LEMMA InputIsSeq == ASSUME NEW s \in Input PROVE s \in Seq(Byte) /\ Len(s) \in Nat
<1>1. PICK k \in 0..MaxReadable : s \in [1..k -> Byte]
  BY DEF Input
<1>2. k \in Nat
  BY <1>1, BufferAssumption
<1> QED
  BY <1>1, <1>2

-----------------------------------------------------------------------------
LEMMA InitBufferInv == BufferInit => BufferInv
<1> SUFFICES ASSUME BufferInit PROVE BufferInv
  OBVIOUS
<1>1. v_buff_ \in [1..defaultSize -> Byte]
  BY BlankType DEF BufferInit
<1>2. v_buff_ \in Seq(Byte) /\ Len(v_buff_) = defaultSize
  BY <1>1, BufferAssumption
<1> QED
  BY <1>2, BufferAssumption DEF BufferInit, BufferInv

\* append, and readFd in one piece or with a spill, write where readable bytes
\* end: what they add to the vector is room for the bytes.
LEMMA WriteKeeps ==
  ASSUME BufferInv, NEW s \in Input, readBuffSize + Len(s) <= MaxReadable,
         append(s) \/ readFd(s)
  PROVE  BufferInv'
<1> USE BufferAssumption DEF BufferInv
<1>1. s \in Seq(Byte) /\ Len(s) \in Nat /\ Len(v_buff_) \in Nat
  BY InputIsSeq, LenProperties
<1>2. v_buff_' = Overwritten(v_buff_, writeIndex_, s) /\ readIndex_' = readIndex_
  BY DEF append, readFd
<1>3. /\ v_buff_' \in Seq(Byte)
      /\ Len(v_buff_') = IF writeIndex_ + Len(s) > Len(v_buff_) THEN writeIndex_ + Len(s)
                                                               ELSE Len(v_buff_)
  BY <1>1, <1>2, OverwrittenProperties
<1>4. writeIndex_' = writeIndex_ + Len(s)
  <2>1. CASE append(s)
    BY <2>1 DEF append
  <2>2. CASE readFd(s)
    BY <1>1, <2>2 DEF readFd, WrittenTo, writeBuffSize
  <2> QED
    BY <2>1, <2>2
<1>5. writeIndex_ - readIndex_ + Len(s) <= MaxReadable
  BY DEF readBuffSize
<1> QED
  BY <1>1, <1>2, <1>3, <1>4, <1>5

\* retrieve and retrieveAsString: the readable bytes move to the head of the
\* vector when the space before them exceeds move_line.
LEMMA AdvanceKeeps ==
  ASSUME BufferInv, NEW len \in 0..readBuffSize, Advance(len)
  PROVE  BufferInv'
<1> USE BufferAssumption DEF BufferInv
<1>1. len \in Nat /\ len <= writeIndex_ - readIndex_ /\ Len(v_buff_) \in Nat
  BY LenProperties DEF readBuffSize
<1>2. CASE len < readBuffSize /\ MustMove(readIndex_ + len) /\ movetohead(readIndex_ + len)
  <2> DEFINE r == readIndex_ + len
             s == SubSeq(v_buff_, r + 1, writeIndex_)
  <2>1. r \in Nat /\ r < writeIndex_
    BY <1>1, <1>2 DEF readBuffSize
  <2>2. s \in Seq(Byte) /\ Len(s) = writeIndex_ - r
    BY <1>1, <2>1, SubSeqProperties
  <2>3. /\ v_buff_' = Overwritten(v_buff_, 0, s)
        /\ readIndex_' = 0 /\ writeIndex_' = writeIndex_ - r
    BY <1>2 DEF movetohead, MoveIndexes
  <2> HIDE DEF r, s
  <2>4. v_buff_' \in Seq(Byte) /\ Len(v_buff_') = Len(v_buff_)
    BY <1>1, <2>1, <2>2, <2>3, OverwrittenProperties
  <2>5. writeIndex_' \in Nat /\ writeIndex_' > 0 /\ writeIndex_' <= writeIndex_
        /\ writeIndex_' <= writeIndex_ - readIndex_
    BY <1>1, <2>1, <2>3 DEF r
  <2> QED
    BY <1>1, <2>3, <2>4, <2>5
<1>3. CASE /\ len < readBuffSize /\ ~MustMove(readIndex_ + len)
           /\ readIndex_' = readIndex_ + len
           /\ UNCHANGED <<v_buff_, writeIndex_>>
  BY <1>1, <1>3 DEF readBuffSize, MustMove
<1>4. CASE len = readBuffSize /\ BackToHead /\ UNCHANGED v_buff_
  BY <1>1, <1>4 DEF BackToHead
<1> QED
  BY <1>2, <1>3, <1>4 DEF Advance

LEMMA NextBufferInv == BufferInv /\ [BufferNext]_bufferVars => BufferInv'
<1> SUFFICES ASSUME BufferInv, [BufferNext]_bufferVars PROVE BufferInv'
  OBVIOUS
<1>1. ASSUME NEW s \in Input, readBuffSize + Len(s) <= MaxReadable, append(s) \/ readFd(s)
      PROVE  BufferInv'
  BY <1>1, WriteKeeps
<1>2. ASSUME NEW len \in 0..readBuffSize, retrieve(len) \/ retrieveAsString(len) PROVE BufferInv'
  BY <1>2, AdvanceKeeps DEF retrieve, retrieveAsString
<1>3. CASE UNCHANGED bufferVars
  BY <1>3 DEF bufferVars, BufferInv
<1> QED
  BY <1>1, <1>2, <1>3 DEF BufferNext

-----------------------------------------------------------------------------
\* The indexes stay in the vector; the space before the readable bytes stays
\* within move_line, although append never looks there; and so the vector stays
\* within what move_line and the readable bytes need.
THEOREM WasteStaysBounded == BufferSpec => []WasteBounded
<1>1. BufferInv => WasteBounded
  BY DEF BufferInv, WasteBounded
<1> QED
  BY <1>1, InitBufferInv, NextBufferInv, PTL DEF BufferSpec

-----------------------------------------------------------------------------
(* The bytes *)

\* What is between two indexes of the vector.
LEMMA Between ==
  ASSUME NEW v \in Seq(Byte), NEW r \in Nat, NEW w \in Nat, r <= w, w <= Len(v)
  PROVE  /\ SubSeq(v, r + 1, w) \in Seq(Byte) /\ Len(SubSeq(v, r + 1, w)) = w - r
         /\ \A i \in 1..(w - r) : SubSeq(v, r + 1, w)[i] = v[r + i] /\ v[r + i] \in Byte
<1>1. Len(v) \in Nat
  BY LenProperties
<1>2. \A i \in (r + 1)..w : v[i] \in Byte
  BY <1>1, ElementOfSeq
<1>3. /\ SubSeq(v, r + 1, w) \in Seq(Byte)
      /\ Len(SubSeq(v, r + 1, w)) = IF r + 1 <= w THEN w - (r + 1) + 1 ELSE 0
      /\ \A i \in 1..(w - (r + 1) + 1) : SubSeq(v, r + 1, w)[i] = v[r + 1 + i - 1]
  BY <1>2, SubSeqProperties
<1> DEFINE t == SubSeq(v, r + 1, w)
<1> HIDE DEF t
<1>4. Len(t) = w - r
  BY <1>3 DEF t
<1>5. ASSUME NEW i \in 1..(w - r) PROVE t[i] = v[r + i] /\ v[r + i] \in Byte
  <2>1. i \in 1..(w - (r + 1) + 1) /\ r + 1 + i - 1 = r + i /\ r + i \in (r + 1)..w
    OBVIOUS
  <2> QED
    BY <1>2, <1>3, <2>1 DEF t
<1> QED
  BY <1>3, <1>4, <1>5 DEF t

LEMMA OverwrittenAt ==
  ASSUME NEW v \in Seq(Byte), NEW w \in Nat, NEW s \in Seq(Byte), w <= Len(v)
  PROVE  /\ \A i \in 1..w : Overwritten(v, w, s)[i] = v[i]
         /\ \A i \in 1..Len(s) : Overwritten(v, w, s)[w + i] = s[i]
<1>1. Len(s) \in Nat /\ Len(v) \in Nat
  BY LenProperties
<1>2. ASSUME NEW i \in 1..w PROVE Overwritten(v, w, s)[i] = v[i]
  <2>1. /\ i \in 1..(IF w + Len(s) > Len(v) THEN w + Len(s) ELSE Len(v))
        /\ i \notin w + 1..w + Len(s) /\ i <= Len(v)
    BY <1>1
  <2> QED
    BY <2>1 DEF Overwritten
<1>3. ASSUME NEW i \in 1..Len(s) PROVE Overwritten(v, w, s)[w + i] = s[i]
  <2>1. /\ w + i \in 1..(IF w + Len(s) > Len(v) THEN w + Len(s) ELSE Len(v))
        /\ w + i \in w + 1..w + Len(s) /\ (w + i) - w = i
    BY <1>1
  <2> QED
    BY <2>1 DEF Overwritten
<1> QED
  BY <1>2, <1>3

LEMMA ReadableType ==
  ASSUME BufferInv
  PROVE  /\ Readable \in Seq(Byte) /\ Len(Readable) = writeIndex_ - readIndex_
         /\ \A i \in 1..(writeIndex_ - readIndex_) : Readable[i] = v_buff_[readIndex_ + i]
BY Between DEF BufferInv, Readable

\* append and readFd add their bytes after those that are readable.
LEMMA WriteImplements ==
  ASSUME BufferInv, NEW s \in Input, readBuffSize + Len(s) <= MaxReadable,
         append(s) \/ readFd(s)
  PROVE  Readable' = Readable \o s
<1> DEFINE r == readIndex_
           w == writeIndex_
           v == Overwritten(v_buff_, w, s)
<1>0. r \in Nat /\ w \in Nat /\ r <= w /\ w <= Len(v_buff_) /\ v_buff_ \in Seq(Byte)
  BY DEF BufferInv
<1>1. s \in Seq(Byte) /\ Len(s) \in Nat /\ Len(v_buff_) \in Nat
  BY <1>0, InputIsSeq, LenProperties
<1>2. v \in Seq(Byte) /\ w + Len(s) <= Len(v)
  BY <1>0, <1>1, OverwrittenProperties
<1>3. v_buff_' = v /\ readIndex_' = r
  BY DEF append, readFd
<1>4. writeIndex_' = w + Len(s)
  <2>1. CASE append(s)
    BY <2>1 DEF append
  <2>2. CASE readFd(s)
    BY <1>0, <1>1, <2>2 DEF readFd, WrittenTo, writeBuffSize
  <2> QED
    BY <2>1, <2>2
<1>5. /\ \A i \in 1..w : v[i] = v_buff_[i]
      /\ \A i \in 1..Len(s) : v[w + i] = s[i]
  BY <1>0, <1>1, OverwrittenAt
<1> HIDE DEF v
<1>6. /\ Readable' \in Seq(Byte) /\ Len(Readable') = w + Len(s) - r
      /\ \A i \in 1..(w + Len(s) - r) : Readable'[i] = v[r + i]
  <2>1. w + Len(s) \in Nat /\ r <= w + Len(s)
    BY <1>0, <1>1
  <2>2. Readable' = SubSeq(v, r + 1, w + Len(s))
    BY <1>3, <1>4 DEF Readable
  <2> QED
    BY <1>0, <1>2, <2>1, <2>2, Between
<1>7. /\ Readable \o s \in Seq(Byte) /\ Len(Readable \o s) = w - r + Len(s)
      /\ \A i \in 1..(w - r + Len(s)) :
           (Readable \o s)[i] = IF i <= w - r THEN v_buff_[r + i] ELSE s[i - (w - r)]
  <2>1. /\ Readable \in Seq(Byte) /\ Len(Readable) = w - r
        /\ \A i \in 1..(w - r) : Readable[i] = v_buff_[r + i]
    BY ReadableType
  <2>2. /\ Readable \o s \in Seq(Byte) /\ Len(Readable \o s) = Len(Readable) + Len(s)
        /\ \A i \in 1..(Len(Readable) + Len(s)) :
             (Readable \o s)[i] = IF i <= Len(Readable) THEN Readable[i]
                                                        ELSE s[i - Len(Readable)]
    BY <1>1, <2>1, ConcatProperties
  <2> QED
    BY <1>0, <1>1, <2>1, <2>2
<1>8. ASSUME NEW i \in 1..Len(Readable') PROVE Readable'[i] = (Readable \o s)[i]
  <2>0. i \in 1..(w + Len(s) - r) /\ i \in 1..(w - r + Len(s))
    BY <1>0, <1>1, <1>6
  <2>1. CASE i <= w - r
    <3>1. r + i \in 1..w
      BY <1>0, <2>0, <2>1
    <3> QED
      BY <1>5, <1>6, <1>7, <2>0, <2>1, <3>1
  <2>2. CASE ~(i <= w - r)
    <3>1. i - (w - r) \in 1..Len(s) /\ w + (i - (w - r)) = r + i
      BY <1>0, <1>1, <2>0, <2>2
    <3>2. v[r + i] = s[i - (w - r)]
      BY <1>5, <3>1
    <3> QED
      BY <1>6, <1>7, <2>0, <2>2, <3>2
  <2> QED
    BY <2>1, <2>2
<1>9. Len(Readable') = Len(Readable \o s)
  BY <1>0, <1>1, <1>6, <1>7
<1> QED
  BY <1>6, <1>7, <1>8, <1>9, SeqEqual

\* What is left of the readable bytes without the first len.
LEMMA RestOf ==
  ASSUME BufferInv, NEW len \in 0..readBuffSize
  PROVE  SubSeq(Readable, len + 1, Len(Readable))
           = SubSeq(v_buff_, readIndex_ + len + 1, writeIndex_)
<1> DEFINE a == SubSeq(Readable, len + 1, Len(Readable))
           b == SubSeq(v_buff_, readIndex_ + len + 1, writeIndex_)
           n == writeIndex_ - readIndex_
<1>0. /\ readIndex_ \in Nat /\ writeIndex_ \in Nat /\ readIndex_ <= writeIndex_
      /\ writeIndex_ <= Len(v_buff_) /\ v_buff_ \in Seq(Byte)
      /\ n \in Nat /\ len \in Nat /\ len <= n
  BY DEF BufferInv, readBuffSize
<1>1. /\ Readable \in Seq(Byte) /\ Len(Readable) = n
      /\ \A i \in 1..n : Readable[i] = v_buff_[readIndex_ + i]
  BY ReadableType
<1> HIDE DEF n
<1>2. a \in Seq(Byte) /\ Len(a) = n - len /\ \A i \in 1..(n - len) : a[i] = Readable[len + i]
  <2>1. a = SubSeq(Readable, len + 1, n)
    BY <1>1
  <2> HIDE DEF a
  <2>2. /\ SubSeq(Readable, len + 1, n) \in Seq(Byte)
        /\ Len(SubSeq(Readable, len + 1, n)) = n - len
        /\ \A i \in 1..(n - len) : SubSeq(Readable, len + 1, n)[i] = Readable[len + i]
    <3>1. Readable \in Seq(Byte) /\ n <= Len(Readable)
      BY <1>0, <1>1
    <3>2. len \in Nat /\ n \in Nat /\ len <= n
      BY <1>0
    <3> QED
      BY ONLY <3>1, <3>2, Between
  <2> QED
    BY <2>1, <2>2
<1>3. readIndex_ + len \in Nat /\ readIndex_ + len <= writeIndex_
      /\ writeIndex_ - (readIndex_ + len) = n - len
  BY <1>0 DEF n
<1>4. /\ b \in Seq(Byte) /\ Len(b) = n - len
      /\ \A i \in 1..(n - len) : b[i] = v_buff_[readIndex_ + len + i]
  <2>1. /\ v_buff_ \in Seq(Byte) /\ writeIndex_ \in Nat /\ writeIndex_ <= Len(v_buff_)
        /\ readIndex_ + len \in Nat /\ readIndex_ + len <= writeIndex_
    BY <1>0, <1>3
  <2>2. /\ b \in Seq(Byte) /\ Len(b) = writeIndex_ - (readIndex_ + len)
        /\ \A i \in 1..(writeIndex_ - (readIndex_ + len)) : b[i] = v_buff_[readIndex_ + len + i]
    BY <2>1, Between
  <2> QED
    BY <1>3, <2>2
<1> HIDE DEF a, b
<1>5. ASSUME NEW i \in 1..Len(a) PROVE a[i] = b[i]
  <2>1. i \in 1..(n - len) /\ len + i \in 1..n
        /\ readIndex_ + (len + i) = readIndex_ + len + i
    BY <1>0, <1>2
  <2> QED
    BY <1>1, <1>2, <1>4, <2>1
<1>6. a = b
  BY <1>2, <1>4, <1>5, SeqEqual
<1> QED
  BY <1>6 DEF a, b

\* retrieve and retrieveAsString leave all but the first len.
LEMMA AdvanceImplements ==
  ASSUME BufferInv, NEW len \in 0..readBuffSize, Advance(len)
  PROVE  Readable' = SubSeq(Readable, len + 1, Len(Readable))
<1> DEFINE r == readIndex_ + len
<1>0. /\ readIndex_ \in Nat /\ writeIndex_ \in Nat /\ Len(v_buff_) \in Nat
      /\ writeIndex_ <= Len(v_buff_) /\ v_buff_ \in Seq(Byte)
      /\ len \in Nat /\ r \in Nat /\ r <= writeIndex_
  BY LenProperties DEF BufferInv, readBuffSize
<1>1. SUFFICES Readable' = SubSeq(v_buff_, r + 1, writeIndex_)
  BY RestOf
<1>2. CASE len < readBuffSize /\ MustMove(r) /\ movetohead(r)
  <2> DEFINE s == SubSeq(v_buff_, r + 1, writeIndex_)
             v == Overwritten(v_buff_, 0, s)
  <2>1. s \in Seq(Byte) /\ Len(s) = writeIndex_ - r
    BY <1>0, Between
  <2>2. v_buff_' = v /\ readIndex_' = 0 /\ writeIndex_' = writeIndex_ - r
    BY <1>2 DEF movetohead, MoveIndexes
  <2> HIDE DEF r, s
  <2>3. v \in Seq(Byte) /\ writeIndex_ - r <= Len(v)
    BY <1>0, <2>1, OverwrittenProperties
  <2>4. \A i \in 1..Len(s) : v[0 + i] = s[i]
    BY <1>0, <2>1, OverwrittenAt
  <2>5. writeIndex_ - r \in Nat /\ 0 <= writeIndex_ - r
    BY <1>0
  <2> HIDE DEF v
  <2>6. /\ Readable' \in Seq(Byte) /\ Len(Readable') = (writeIndex_ - r) - 0
        /\ \A i \in 1..((writeIndex_ - r) - 0) : Readable'[i] = v[0 + i]
    BY <2>2, <2>3, <2>5, Between DEF Readable
  <2>7. Len(Readable') = Len(s) /\ \A i \in 1..Len(Readable') : Readable'[i] = s[i]
    BY <2>1, <2>4, <2>5, <2>6
  <2>8. Readable' = s
    BY <2>1, <2>6, <2>7, SeqEqual
  <2> QED
    BY <2>8 DEF r, s
<1>3. CASE readIndex_' = r /\ UNCHANGED <<v_buff_, writeIndex_>>
  BY <1>3 DEF Readable
<1>4. CASE len = readBuffSize /\ BackToHead /\ UNCHANGED v_buff_
  <2>1. readIndex_' = 0 /\ writeIndex_' = 0 /\ r = writeIndex_
    BY <1>0, <1>4 DEF BackToHead, readBuffSize
  <2>2. Readable' = SubSeq(v_buff_', 0 + 1, 0)
    BY <2>1 DEF Readable
  <2>3. Readable' = <<>>
    BY <2>2, SubSeqEmpty
  <2>4. SubSeq(v_buff_, r + 1, writeIndex_) = <<>>
    BY <1>0, <2>1, SubSeqEmpty
  <2> QED
    BY <2>3, <2>4
<1> QED
  BY <1>2, <1>3, <1>4 DEF Advance

LEMMA PeekImplements ==
  ASSUME BufferInv, NEW len \in 0..readBuffSize
  PROVE  Peek(len) = SubSeq(Readable, 1, len)
<1> DEFINE a == SubSeq(v_buff_, readIndex_ + 1, readIndex_ + len)
           b == SubSeq(Readable, 0 + 1, len)
<1>0. /\ readIndex_ \in Nat /\ readIndex_ + len \in Nat /\ readIndex_ <= readIndex_ + len
      /\ readIndex_ + len <= Len(v_buff_) /\ v_buff_ \in Seq(Byte)
      /\ len \in Nat /\ 0 <= len /\ len <= writeIndex_ - readIndex_
      /\ (readIndex_ + len) - readIndex_ = len /\ len - 0 = len
  BY LenProperties DEF BufferInv, readBuffSize
<1>1. /\ Readable \in Seq(Byte) /\ Len(Readable) = writeIndex_ - readIndex_
      /\ \A i \in 1..(writeIndex_ - readIndex_) : Readable[i] = v_buff_[readIndex_ + i]
  BY ReadableType
<1>2. a \in Seq(Byte) /\ Len(a) = len /\ \A i \in 1..len : a[i] = v_buff_[readIndex_ + i]
  BY <1>0, Between
<1>3. b \in Seq(Byte) /\ Len(b) = len /\ \A i \in 1..len : b[i] = Readable[0 + i]
  BY <1>0, <1>1, Between
<1> HIDE DEF a, b
<1>4. ASSUME NEW i \in 1..Len(a) PROVE a[i] = b[i]
  <2>1. i \in 1..len /\ 0 + i = i /\ i \in 1..(writeIndex_ - readIndex_)
    BY <1>0, <1>2 DEF BufferInv
  <2> QED
    BY <1>1, <1>2, <1>3, <2>1
<1>5. a = b
  BY <1>2, <1>3, <1>4, SeqEqual
<1>6. b = SubSeq(Readable, 1, len)
  BY <1>0 DEF b
<1> QED
  BY <1>5, <1>6 DEF a, Peek

\* Bytes come out in the order in which they went in.
THEOREM ImplementsByteQueue == BufferSpec => BytesImplemented
<1>1. BufferInit => BQ!BQInit
  <2> SUFFICES ASSUME BufferInit PROVE BQ!BQInit
    OBVIOUS
  <2>1. Readable = <<>>
    BY SubSeqEmpty DEF BufferInit, Readable
  <2> QED
    BY <2>1 DEF BufferInit, BQ!BQInit
<1>2. BufferInv /\ [BufferNext]_bufferVars => [BQ!BQNext]_(BQ!bqVars)
  <2> SUFFICES ASSUME BufferInv, [BufferNext]_bufferVars PROVE [BQ!BQNext]_(BQ!bqVars)
    OBVIOUS
  <2>1. ASSUME NEW s \in Input, readBuffSize + Len(s) <= MaxReadable, append(s) \/ readFd(s)
        PROVE  BQ!Put
    <3>1. Readable' = Readable \o s
      BY <2>1, WriteImplements
    <3>2. input' = s /\ result' = result
      BY <2>1 DEF append, readFd
    <3> QED
      BY <3>1, <3>2 DEF BQ!Put
  <2>2. ASSUME NEW len \in 0..readBuffSize, retrieve(len) \/ retrieveAsString(len)
        PROVE  len \in 0..Len(Readable) /\ (BQ!Drop(len) \/ BQ!Take(len))
    <3>1. Readable' = SubSeq(Readable, len + 1, Len(Readable))
      BY <2>2, AdvanceImplements DEF retrieve, retrieveAsString
    <3>2. Peek(len) = SubSeq(Readable, 1, len)
      BY PeekImplements
    <3>3. len \in 0..Len(Readable)
      BY ReadableType DEF readBuffSize
    <3> QED
      BY <2>2, <3>1, <3>2, <3>3 DEF retrieve, retrieveAsString, BQ!Drop, BQ!Take, BQ!From
  <2>3. CASE UNCHANGED bufferVars
    BY <2>3 DEF bufferVars, Readable, BQ!bqVars
  <2> QED
    BY <2>1, <2>2, <2>3 DEF BufferNext, BQ!BQNext
<1> QED
  BY <1>1, <1>2, InitBufferInv, NextBufferInv, PTL DEF BufferSpec, BytesImplemented, BQ!BQSpec
=============================================================================
