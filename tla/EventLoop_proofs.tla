-------------------------- MODULE EventLoop_proofs --------------------------
(***************************************************************************)
(* Theorems about EventLoop, for every set of callers and every number of  *)
(* calls: type correctness, and that the loop neither sleeps on a queued   *)
(* functor nor on a quit.                                                  *)
(***************************************************************************)
EXTENDS EventLoopThread, SequenceTheorems, TLAPS

-----------------------------------------------------------------------------
(* Type correctness *)

\* A new functor of a thread that may call is a functor of the bounded model.
LEMMA NewFunctorType ==
  ASSUME TypeOK, NEW t \in Threads, MayCall(t)
  PROVE  NewFunctor(t) \in Functor
BY CallsAssumption DEF TypeOK, MayCall, NewFunctor, Functor, isInLoopThread, looping_

\* The type invariant: every action of EventLoop keeps the state well typed,
\* whatever the number of callers and of calls.
THEOREM TypeCorrect == Spec => []TypeOK
<1>1. ASSUME Init PROVE TypeOK
  <2>1. <<>> \in Seq(Functor)
    BY EmptySeq
  <2>2. /\ appendFunctors_ \in Seq(Functor)
        /\ functors \in Seq(Functor)
        /\ executed \in Seq(Functor)
    BY <1>1, <2>1, Zenon DEF Init
  <2>3. /\ pc \in LoopPC /\ quit_ \in BOOLEAN /\ callingPendingFunctors_ \in BOOLEAN
        /\ activeChannels_ \subseteq UserFds \cup {"wakeup"} /\ wakeup \in Nat
        /\ call \in [Threads -> {"none", "wake"}] /\ calls \in [Threads -> Nat]
    BY <1>1 DEF Init, LoopPC
  <2> QED
    BY <2>2, <2>3 DEF TypeOK
<1>2. TypeOK /\ [Next]_vars => TypeOK'
  <2> SUFFICES ASSUME TypeOK, [Next]_vars PROVE TypeOK'
    OBVIOUS
  <2> USE DEF TypeOK
  <2>1. ASSUME NEW t \in Threads, appendFuncInLoop(t) PROVE TypeOK'
    <3>1. NewFunctor(t) \in Functor
      BY <2>1, NewFunctorType DEF appendFuncInLoop
    <3>2. appendFunctors_' \in Seq(Functor)
      BY <2>1, <3>1, AppendProperties DEF appendFuncInLoop
    <3> QED
      BY <2>1, <3>2 DEF appendFuncInLoop, CountCall, loopVars
  <2>2. ASSUME NEW t \in Threads, runInLoop(t) PROVE TypeOK'
    <3>1. CASE ~isInLoopThread(t)
      BY <3>1, <2>1, <2>2 DEF runInLoop
    <3>2. CASE isInLoopThread(t)
      <4>1. /\ MayCall(t) /\ CountCall(t)
            /\ executed' = Append(executed, NewFunctor(t))
            /\ UNCHANGED <<loopVars, quit_, appendFunctors_, wakeup, call>>
        BY <2>2, <3>2 DEF runInLoop
      <4>2. NewFunctor(t) \in Functor
        BY <4>1, NewFunctorType
      <4>3. executed' \in Seq(Functor)
        BY <4>1, <4>2, AppendProperties
      <4> QED
        BY <4>1, <4>3 DEF CountCall, loopVars
    <3> QED
      BY <3>1, <3>2
  <2>3. ASSUME NEW t \in Threads, quit(t) PROVE TypeOK'
    BY <2>3 DEF quit, CountCall, loopVars
  <2>4. ASSUME NEW t \in Threads, weakFd(t) PROVE TypeOK'
    BY <2>4 DEF weakFd, loopVars
  <2>5. CASE loop
    BY <2>5 DEF loop, LoopPC
  <2>6. CASE poll
    BY <2>6 DEF poll, pollReturns, LoopPC
  <2>7. CASE pollTimeout
    BY <2>7 DEF pollTimeout, pollReturns, LoopPC
  <2>8. CASE testQuit
    BY <2>8 DEF testQuit, LoopPC
  <2>9. CASE handleRead
    BY <2>9 DEF handleRead
  <2>10. CASE doAppendFunctors
    BY <2>10 DEF doAppendFunctors, SwapBatch, LoopPC
  <2>11. ASSUME NEW ch \in UserFds, beginCallback(ch) PROVE TypeOK'
    BY <2>11 DEF beginCallback, LoopPC
  <2>12. CASE endCallback
    BY <2>12 DEF endCallback, LoopPC
  <2>13. CASE beginFunctor
    <3>1. Head(functors) \in Functor /\ functors' \in Seq(Functor)
      BY <2>13, HeadTailProperties DEF beginFunctor
    <3>2. executed' \in Seq(Functor)
      BY <2>13, <3>1, AppendProperties DEF beginFunctor
    <3> QED
      BY <2>13, <3>1, <3>2 DEF beginFunctor, LoopPC
  <2>14. CASE endFunctor
    BY <2>14 DEF endFunctor, LoopPC
  <2>15. CASE functorsDone
    BY <2>15 DEF functorsDone, LoopPC
  <2>16. CASE UNCHANGED vars
    BY <2>16 DEF vars
  <2> QED
    BY <2>1, <2>2, <2>3, <2>4, <2>5, <2>6, <2>7, <2>8, <2>9, <2>10, <2>11,
       <2>12, <2>13, <2>14, <2>15, <2>16 DEF Next, LoopStep
<1> QED
  BY <1>1, <1>2, PTL DEF Spec

-----------------------------------------------------------------------------
(* No lost wakeup *)

\* Some queued functor is owed a wakeup.
OwedQueued == \E i \in DOMAIN appendFunctors_ : ~appendFunctors_[i].early

\* The strengthening that makes NoLostWakeup inductive.  NeedsWakeup relies on
\* callingPendingFunctors_ being TRUE exactly while the batch is run; a functor
\* queued without a wakeup is then queued by a callback, before the swap of the
\* same pass.  Outside the two points before that swap every functor is covered.
WakeupInv ==
  /\ callingPendingFunctors_ <=> pc \in {"run", "functor"}
  /\ pc \notin {"handle", "callback"} /\ OwedQueued => WakeupDue

\* appendFuncInLoop keeps the strengthening: either the caller owes a wakeup
\* from now on, or it is the loop thread before the swap or before loop().
LEMMA AppendKeepsWakeupInv ==
  ASSUME TypeOK, WakeupInv, NEW t \in Threads, appendFuncInLoop(t)
  PROVE  WakeupInv'
<1> USE DEF WakeupInv
<1>0. callingPendingFunctors_' = callingPendingFunctors_ /\ pc' = pc /\ wakeup' = wakeup
  BY DEF appendFuncInLoop, loopVars
<1>1. CASE NeedsWakeup(t)
  <2>1. call'[t] = "wake"
    BY <1>1 DEF appendFuncInLoop, TypeOK
  <2> QED
    BY <1>0, <2>1 DEF WakeupDue
<1>2. CASE ~NeedsWakeup(t)
  <2>1. t = Loop /\ pc \in {"idle", "callback"}
    BY <1>2 DEF NeedsWakeup, isInLoopThread, appendFuncInLoop, MayCall
  <2>2. CASE pc = "callback"
    BY <1>0, <2>2
  <2>3. CASE pc = "idle"
    <3>1. call' = call
      BY <1>2, Zenon DEF appendFuncInLoop, TypeOK, MayCall
    <3>2. NewFunctor(t) \in Functor /\ NewFunctor(t).early
      BY <2>1, <2>3, NewFunctorType
         DEF appendFuncInLoop, NewFunctor, isInLoopThread, looping_
    <3>3. OwedQueued' => OwedQueued
      <4>1. appendFunctors_' = Append(appendFunctors_, NewFunctor(t))
        BY DEF appendFuncInLoop
      <4>2. appendFunctors_ \in Seq(Functor)
        BY DEF TypeOK
      <4> QED
        BY <3>2, <4>1, <4>2, AppendProperties, LenProperties DEF OwedQueued
    <3> QED
      BY <1>0, <3>1, <3>3 DEF WakeupDue
  <2> QED
    BY <2>1, <2>2, <2>3
<1> QED
  BY <1>1, <1>2

\* NoLostWakeup holds for every number of threads and calls.
THEOREM NeverSleepsOnFunctor == Spec => []NoLostWakeup
<1>1. Init => WakeupInv
  BY DEF Init, WakeupInv, OwedQueued
<1>2. TypeOK /\ WakeupInv /\ [Next]_vars => WakeupInv'
  <2> SUFFICES ASSUME TypeOK, WakeupInv, [Next]_vars PROVE WakeupInv'
    OBVIOUS
  <2> USE DEF WakeupInv, OwedQueued, WakeupDue
  <2>1. ASSUME NEW t \in Threads, appendFuncInLoop(t) PROVE WakeupInv'
    BY <2>1, AppendKeepsWakeupInv
  <2>2. ASSUME NEW t \in Threads, runInLoop(t) PROVE WakeupInv'
    BY <2>1, <2>2 DEF runInLoop, loopVars
  <2>3. ASSUME NEW t \in Threads, quit(t) PROVE WakeupInv'
    BY <2>3 DEF quit, loopVars, MayCall, TypeOK
  <2>4. ASSUME NEW t \in Threads, weakFd(t) PROVE WakeupInv'
    BY <2>4 DEF weakFd, loopVars, TypeOK
  <2>5. CASE loop
    BY <2>5 DEF loop, LoopAt
  <2>6. CASE poll
    BY <2>6 DEF poll, pollReturns, LoopAt
  <2>7. CASE pollTimeout
    BY <2>7 DEF pollTimeout, pollReturns, LoopAt
  <2>8. CASE testQuit
    BY <2>8 DEF testQuit, LoopAt
  <2>9. CASE handleRead
    BY <2>9 DEF handleRead, LoopAt
  <2>10. CASE doAppendFunctors
    BY <2>10 DEF doAppendFunctors, SwapBatch
  <2>11. ASSUME NEW ch \in UserFds, beginCallback(ch) PROVE WakeupInv'
    BY <2>11 DEF beginCallback, LoopAt
  <2>12. CASE endCallback
    BY <2>12 DEF endCallback, LoopAt
  <2>13. CASE beginFunctor
    BY <2>13 DEF beginFunctor, LoopAt
  <2>14. CASE endFunctor
    BY <2>14 DEF endFunctor, LoopAt
  <2>15. CASE functorsDone
    BY <2>15 DEF functorsDone, LoopAt
  <2>16. CASE UNCHANGED vars
    BY <2>16 DEF vars
  <2> QED
    BY <2>1, <2>2, <2>3, <2>4, <2>5, <2>6, <2>7, <2>8, <2>9, <2>10, <2>11,
       <2>12, <2>13, <2>14, <2>15, <2>16 DEF Next, LoopStep
<1>3. WakeupInv => NoLostWakeup
  BY DEF WakeupInv, OwedQueued, NoLostWakeup
<1> QED
  BY <1>1, <1>2, <1>3, TypeCorrect, PTL DEF Spec

-----------------------------------------------------------------------------
(* No sleep on a quit *)

\* NoSleepOnQuit is inductive: the loop tests quit_ before it polls, so a quit_
\* that is set while it polls was set by another thread, which owes a wakeup,
\* and nothing consumes a wakeup during the poll.
THEOREM NeverSleepsOnQuit == Spec => []NoSleepOnQuit
<1>1. Init => NoSleepOnQuit
  BY DEF Init, NoSleepOnQuit
<1>2. TypeOK /\ NoSleepOnQuit /\ [Next]_vars => NoSleepOnQuit'
  <2> SUFFICES ASSUME TypeOK, NoSleepOnQuit, [Next]_vars,
                      pc' = "poll", quit_'
               PROVE  WakeupDue'
    BY DEF NoSleepOnQuit
  <2> USE DEF NoSleepOnQuit, WakeupDue
  <2>1. ASSUME NEW t \in Threads, appendFuncInLoop(t) PROVE WakeupDue'
    <3>1. WakeupDue /\ wakeup' = wakeup
      BY <2>1 DEF appendFuncInLoop, loopVars
    <3>2. \A u \in Threads : call[u] = "wake" => call'[u] = "wake"
      BY <2>1 DEF appendFuncInLoop, MayCall, TypeOK
    <3> QED
      BY <3>1, <3>2
  <2>2. ASSUME NEW t \in Threads, runInLoop(t) PROVE WakeupDue'
    BY <2>1, <2>2 DEF runInLoop, loopVars
  <2>3. ASSUME NEW t \in Threads, quit(t) PROVE WakeupDue'
    <3>1. ~isInLoopThread(t)
      BY <2>3 DEF quit, loopVars, MayCall
    <3>2. call'[t] = "wake"
      BY <2>3, <3>1 DEF quit, QuitNeedsWakeup, TypeOK
    <3> QED
      BY <3>2
  <2>4. ASSUME NEW t \in Threads, weakFd(t) PROVE WakeupDue'
    BY <2>4 DEF weakFd, TypeOK
  <2>5. CASE loop
    BY <2>5 DEF loop
  <2>6. CASE poll
    BY <2>6 DEF poll, pollReturns
  <2>7. CASE pollTimeout
    BY <2>7 DEF pollTimeout, pollReturns
  <2>8. CASE testQuit
    BY <2>8 DEF testQuit
  <2>9. CASE handleRead
    BY <2>9 DEF handleRead, LoopAt
  <2>10. CASE doAppendFunctors
    BY <2>10 DEF doAppendFunctors
  <2>11. ASSUME NEW ch \in UserFds, beginCallback(ch) PROVE WakeupDue'
    BY <2>11 DEF beginCallback
  <2>12. CASE endCallback
    BY <2>12 DEF endCallback
  <2>13. CASE beginFunctor
    BY <2>13 DEF beginFunctor
  <2>14. CASE endFunctor
    BY <2>14 DEF endFunctor
  <2>15. CASE functorsDone
    BY <2>15 DEF functorsDone
  <2>16. CASE UNCHANGED vars
    BY <2>16 DEF vars
  <2> QED
    BY <2>1, <2>2, <2>3, <2>4, <2>5, <2>6, <2>7, <2>8, <2>9, <2>10, <2>11,
       <2>12, <2>13, <2>14, <2>15, <2>16 DEF Next, LoopStep
<1> QED
  BY <1>1, <1>2, TypeCorrect, PTL DEF Spec

-----------------------------------------------------------------------------
(* EventLoop implements FunctorQueue *)

\* No functor of s is ahead of the numbers that the threads have given out.
NumberedBy(s, c) == \A i \in DOMAIN s : s[i].n <= c[s[i].by]

\* What the refinement rests on: functors are new when they are queued, and the
\* batch is empty when doAppendFunctors overwrites it.
QueueInv ==
  /\ NumberedBy(functors, calls)
  /\ NumberedBy(appendFunctors_, calls)
  /\ NumberedBy(executed, calls)
  /\ pc \notin {"run", "functor"} => functors = <<>>

\* A sequence whose functors were queued before the counts c were reached was
\* also queued before any later counts d.
LEMMA NumberedLater ==
  ASSUME NEW s \in Seq(Functor), NEW c \in [Threads -> Nat], NEW d \in [Threads -> Nat],
         \A t \in Threads : c[t] <= d[t], NumberedBy(s, c)
  PROVE  NumberedBy(s, d)
<1>1. \A i \in DOMAIN s : s[i] \in Functor
  BY ElementOfSeq, LenProperties
<1> QED
  BY <1>1, CallsAssumption DEF NumberedBy, Functor

\* Appending a functor that the counts already include keeps a sequence
\* numbered by them.
LEMMA NumberedAppend ==
  ASSUME NEW s \in Seq(Functor), NEW f \in Functor, NEW c,
         NumberedBy(s, c), f.n <= c[f.by]
  PROVE  NumberedBy(Append(s, f), c)
BY AppendProperties, LenProperties DEF NumberedBy

\* Taking the first functor off a numbered sequence leaves it numbered.
LEMMA NumberedTail ==
  ASSUME NEW s \in Seq(Functor), s # <<>>, NEW c, NumberedBy(s, c)
  PROVE  NumberedBy(Tail(s), c)
BY HeadTailProperties, LenProperties DEF NumberedBy

\* The functor that a thread queues next has not been queued before.
LEMMA NextIsFresh ==
  ASSUME TypeOK, NEW s \in Seq(Functor), NumberedBy(s, calls),
         NEW f, NEW t \in Threads, f.by = t, f.n = calls[t] + 1
  PROVE  \A i \in DOMAIN s : s[i] # f
<1> SUFFICES ASSUME NEW i \in DOMAIN s, s[i] = f PROVE FALSE
  OBVIOUS
<1>1. calls[t] + 1 <= calls[t] /\ calls[t] \in Nat
  BY DEF NumberedBy, TypeOK
<1> QED
  BY <1>1

\* Two numbered sequences make a numbered sequence: the batch of
\* doAppendFunctors followed by appendFunctors_.
LEMMA NumberedConcat ==
  ASSUME NEW s \in Seq(Functor), NEW r \in Seq(Functor), NEW c,
         NumberedBy(s, c), NumberedBy(r, c)
  PROVE  s \o r \in Seq(Functor) /\ NumberedBy(s \o r, c)
<1>1. /\ s \o r \in Seq(Functor)
      /\ Len(s \o r) = Len(s) + Len(r)
      /\ \A i \in 1..Len(s) + Len(r) :
           (s \o r)[i] = IF i <= Len(s) THEN s[i] ELSE r[i - Len(s)]
  BY ConcatProperties
<1>2. /\ DOMAIN s = 1..Len(s) /\ DOMAIN r = 1..Len(r) /\ DOMAIN (s \o r) = 1..Len(s \o r)
      /\ Len(s) \in Nat /\ Len(r) \in Nat
  BY <1>1, LenProperties
<1> QED
  BY <1>1, <1>2 DEF NumberedBy

\* Head and Tail of a concatenation whose first part is not empty.
LEMMA ConcatHeadTail ==
  ASSUME NEW S, NEW s \in Seq(S), NEW r \in Seq(S), s # <<>>
  PROVE  s \o r # <<>> /\ Head(s \o r) = Head(s) /\ Tail(s \o r) = Tail(s) \o r
<1>1. /\ s \o r \in Seq(S) /\ Len(s \o r) = Len(s) + Len(r)
      /\ \A i \in 1..Len(s) + Len(r) :
           (s \o r)[i] = IF i <= Len(s) THEN s[i] ELSE r[i - Len(s)]
  BY ConcatProperties
<1>2. Len(s) \in Nat \ {0} /\ Len(r) \in Nat
  BY EmptySeq, LenProperties
<1>3. s \o r # <<>>
  BY <1>1, <1>2, EmptySeq
<1>4. Head(s \o r) = Head(s)
  BY <1>1, <1>2
<1>5. /\ Tail(s) \in Seq(S) /\ Len(Tail(s)) = Len(s) - 1
      /\ \A i \in 1..Len(Tail(s)) : Tail(s)[i] = s[i + 1]
  BY HeadTailProperties
<1>6. /\ Tail(s \o r) \in Seq(S) /\ Len(Tail(s \o r)) = Len(s) + Len(r) - 1
      /\ \A i \in 1..Len(s) + Len(r) - 1 : Tail(s \o r)[i] = (s \o r)[i + 1]
  BY <1>1, <1>3, HeadTailProperties
<1>7. /\ Tail(s) \o r \in Seq(S) /\ Len(Tail(s) \o r) = Len(s) - 1 + Len(r)
      /\ \A i \in 1..Len(s) - 1 + Len(r) :
           (Tail(s) \o r)[i] = IF i <= Len(s) - 1 THEN Tail(s)[i] ELSE r[i - (Len(s) - 1)]
  BY <1>5, ConcatProperties
<1>8. \A i \in 1..Len(s) + Len(r) - 1 : Tail(s \o r)[i] = (Tail(s) \o r)[i]
  BY <1>1, <1>2, <1>5, <1>6, <1>7
<1>9. Tail(s \o r) = Tail(s) \o r
  BY <1>2, <1>6, <1>7, <1>8, SeqEqual
<1> QED
  BY <1>3, <1>4, <1>9

\* The two ways in which a thread hands over a functor.
LEMMA AppendIsSubmit ==
  ASSUME TypeOK, QueueInv, NEW t \in Threads, appendFuncInLoop(t)
  PROVE  QueueInv' /\ FQ!FQNext
<1> DEFINE f == NewFunctor(t)
           p == functors \o appendFunctors_
<1>1. /\ appendFunctors_' = Append(appendFunctors_, f) /\ functors' = functors
      /\ executed' = executed /\ pc' = pc /\ CountCall(t) /\ MayCall(t)
  BY DEF appendFuncInLoop, loopVars
<1>2. f \in Functor /\ f.by = t /\ f.n = calls[t] + 1
  BY <1>1, NewFunctorType DEF NewFunctor
<1>3. /\ functors \in Seq(Functor) /\ appendFunctors_ \in Seq(Functor)
      /\ executed \in Seq(Functor) /\ calls \in [Threads -> Nat]
  BY DEF TypeOK
<1>4. p \in Seq(Functor) /\ NumberedBy(p, calls)
  BY <1>3, NumberedConcat DEF QueueInv
<1>5. calls' \in [Threads -> Nat] /\ calls'[t] = calls[t] + 1
      /\ \A u \in Threads : calls[u] <= calls'[u]
  BY <1>1, <1>3 DEF CountCall
<1> HIDE DEF f, p
<1>6. QueueInv'
  <2>1. /\ NumberedBy(functors, calls') /\ NumberedBy(executed, calls')
        /\ NumberedBy(appendFunctors_, calls')
    BY <1>3, <1>5, NumberedLater DEF QueueInv
  <2>2. f.n <= calls'[f.by]
    BY <1>2, <1>3, <1>5
  <2>3. NumberedBy(Append(appendFunctors_, f), calls')
    BY <1>2, <1>3, <2>1, <2>2, NumberedAppend
  <2> QED
    BY <1>1, <2>1, <2>3 DEF QueueInv, NumberedBy
<1>7. FQ!Fresh(f)
  BY <1>2, <1>3, <1>4, NextIsFresh DEF FQ!Fresh, QueueInv, p
<1>8. (functors \o appendFunctors_)' = Append(functors \o appendFunctors_, f)
  <2>1. <<f>> \in Seq(Functor)
    BY <1>2
  <2>2. functors \o (appendFunctors_ \o <<f>>) = p \o <<f>>
    BY <1>3, <2>1, ConcatAssociative DEF p
  <2> QED
    BY <1>1, <1>2, <1>3, <1>4, <2>2, AppendIsConcat DEF p
<1> QED
  BY <1>1, <1>2, <1>6, <1>7, <1>8 DEF FQ!FQNext, FQ!Submit

\* runInLoop runs the functor at once in the loop's own thread, and otherwise
\* submits it.
LEMMA RunInLoopIsRunNow ==
  ASSUME TypeOK, QueueInv, NEW t \in Threads, runInLoop(t)
  PROVE  QueueInv' /\ FQ!FQNext
<1>1. CASE ~isInLoopThread(t)
  BY <1>1, AppendIsSubmit DEF runInLoop
<1>2. CASE isInLoopThread(t)
  <2> DEFINE f == NewFunctor(t)
             p == functors \o appendFunctors_
  <2>1. /\ executed' = Append(executed, f) /\ appendFunctors_' = appendFunctors_
        /\ functors' = functors /\ pc' = pc /\ CountCall(t) /\ MayCall(t)
    BY <1>2 DEF runInLoop, loopVars
  <2>2. f \in Functor /\ f.by = t /\ f.n = calls[t] + 1
    BY <2>1, NewFunctorType DEF NewFunctor
  <2>3. /\ functors \in Seq(Functor) /\ appendFunctors_ \in Seq(Functor)
        /\ executed \in Seq(Functor) /\ calls \in [Threads -> Nat]
    BY DEF TypeOK
  <2>4. p \in Seq(Functor) /\ NumberedBy(p, calls)
    BY <2>3, NumberedConcat DEF QueueInv
  <2>5. calls' \in [Threads -> Nat] /\ calls'[t] = calls[t] + 1
        /\ \A u \in Threads : calls[u] <= calls'[u]
    BY <2>1, <2>3 DEF CountCall
  <2> HIDE DEF f
  <2>6. QueueInv'
    <3>1. /\ NumberedBy(functors, calls') /\ NumberedBy(executed, calls')
          /\ NumberedBy(appendFunctors_, calls')
      BY <2>3, <2>5, NumberedLater DEF QueueInv
    <3>2. f.n <= calls'[f.by]
      BY <2>2, <2>3, <2>5
    <3>3. NumberedBy(Append(executed, f), calls')
      BY <2>2, <2>3, <3>1, <3>2, NumberedAppend
    <3> QED
      BY <2>1, <3>1, <3>3 DEF QueueInv, NumberedBy
  <2>7. FQ!Fresh(f)
    BY <2>2, <2>3, <2>4, NextIsFresh DEF FQ!Fresh, QueueInv
  <2> QED
    BY <2>1, <2>2, <2>6, <2>7 DEF FQ!FQNext, FQ!RunNow
<1> QED
  BY <1>1, <1>2

\* The swap under mutex_ is invisible to the users of the queue.
LEMMA SwapIsStutter ==
  ASSUME TypeOK, QueueInv, doAppendFunctors
  PROVE  QueueInv' /\ UNCHANGED <<functors \o appendFunctors_, executed>>
<1>1. /\ functors = <<>> /\ functors' = appendFunctors_ /\ appendFunctors_' = <<>>
      /\ executed' = executed /\ calls' = calls /\ pc' = "run"
  BY DEF QueueInv, doAppendFunctors, SwapBatch, LoopAt
<1>2. appendFunctors_ \in Seq(Functor)
  BY DEF TypeOK
<1>3. appendFunctors_ \o <<>> = <<>> \o appendFunctors_
  BY <1>2, ConcatEmptySeq
<1>4. NumberedBy(<<>>, calls)
  BY DEF NumberedBy
<1> QED
  BY <1>1, <1>3, <1>4 DEF QueueInv, NumberedBy

\* The loop of doAppendFunctors runs the oldest functor that is queued.
LEMMA BeginFunctorIsRunOldest ==
  ASSUME TypeOK, QueueInv, beginFunctor
  PROVE  QueueInv' /\ FQ!FQNext
<1>1. /\ functors # <<>> /\ functors' = Tail(functors)
      /\ executed' = Append(executed, Head(functors))
      /\ appendFunctors_' = appendFunctors_ /\ calls' = calls /\ pc' = "functor"
  BY DEF beginFunctor
<1>2. /\ functors \in Seq(Functor) /\ appendFunctors_ \in Seq(Functor)
      /\ executed \in Seq(Functor)
  BY DEF TypeOK
<1>3. Head(functors) \in Functor /\ Head(functors) = functors[1] /\ 1 \in DOMAIN functors
  BY <1>1, <1>2, HeadTailProperties, EmptySeq, LenProperties
<1>4. NumberedBy(Append(executed, Head(functors)), calls)
  BY <1>2, <1>3, NumberedAppend DEF QueueInv, NumberedBy
<1>5. NumberedBy(Tail(functors), calls)
  BY <1>1, <1>2, NumberedTail DEF QueueInv
<1>6. QueueInv'
  BY <1>1, <1>4, <1>5 DEF QueueInv, NumberedBy
<1> QED
  BY <1>1, <1>2, <1>6, ConcatHeadTail DEF FQ!FQNext, FQ!RunOldest

\* QueueImplemented holds for every number of threads and calls: every step of
\* the event loop is a step of FunctorQueue or leaves its state alone.
THEOREM ImplementsFunctorQueue == Spec => QueueImplemented
<1>1. Init => QueueInv /\ FQ!FQInit
  <2> SUFFICES ASSUME Init PROVE QueueInv /\ FQ!FQInit
    OBVIOUS
  <2>1. <<>> \o <<>> = <<>>
    BY EmptySeq, ConcatEmptySeq
  <2> QED
    BY <2>1 DEF Init, QueueInv, NumberedBy, FQ!FQInit
<1>2. TypeOK /\ QueueInv /\ [Next]_vars
        => QueueInv' /\ [FQ!FQNext]_<<functors \o appendFunctors_, executed>>
  <2> SUFFICES ASSUME TypeOK, QueueInv, [Next]_vars
               PROVE  QueueInv' /\ (\/ FQ!FQNext
                                    \/ UNCHANGED <<functors \o appendFunctors_, executed>>)
    OBVIOUS
  <2>1. ASSUME NEW t \in Threads, appendFuncInLoop(t) PROVE QueueInv' /\ FQ!FQNext
    BY <2>1, AppendIsSubmit
  <2>2. ASSUME NEW t \in Threads, runInLoop(t) PROVE QueueInv' /\ FQ!FQNext
    BY <2>2, RunInLoopIsRunNow
  <2>3. CASE doAppendFunctors
    BY <2>3, SwapIsStutter
  <2>4. CASE beginFunctor
    BY <2>4, BeginFunctorIsRunOldest
  <2>5. ASSUME NEW t \in Threads, quit(t) \/ weakFd(t)
        PROVE  QueueInv' /\ UNCHANGED <<functors, appendFunctors_, executed>>
    <3>1. /\ UNCHANGED <<functors, appendFunctors_, executed, pc>>
          /\ \A u \in Threads : calls[u] <= calls'[u]
          /\ calls' \in [Threads -> Nat]
      <4>1. CASE quit(t)
        BY <4>1 DEF quit, loopVars, CountCall, TypeOK
      <4>2. CASE weakFd(t)
        BY <4>2 DEF weakFd, loopVars, TypeOK
      <4> QED
        BY <2>5, <4>1, <4>2
    <3>2. /\ NumberedBy(functors, calls') /\ NumberedBy(executed, calls')
          /\ NumberedBy(appendFunctors_, calls')
      BY <3>1, NumberedLater DEF QueueInv, TypeOK
    <3> QED
      BY <3>1, <3>2 DEF QueueInv, NumberedBy
  <2>6. CASE loop \/ testQuit \/ poll \/ pollTimeout \/ handleRead \/ endCallback
             \/ endFunctor \/ functorsDone \/ (\E ch \in UserFds : beginCallback(ch))
             \/ UNCHANGED vars
    <3>1. UNCHANGED <<functors, appendFunctors_, executed, calls>>
      BY <2>6 DEF loop, testQuit, poll, pollTimeout, pollReturns, handleRead, endCallback,
                  endFunctor, functorsDone, beginCallback, vars
    <3>2. pc' \notin {"run", "functor"} => functors = <<>>
      BY <2>6 DEF loop, testQuit, poll, pollTimeout, pollReturns, handleRead, endCallback,
                  endFunctor, functorsDone, beginCallback, vars, LoopAt, QueueInv
    <3> QED
      BY <3>1, <3>2 DEF QueueInv, NumberedBy
  <2> QED
    BY <2>1, <2>2, <2>3, <2>4, <2>5, <2>6 DEF Next, LoopStep
<1> QED
  BY <1>1, <1>2, TypeCorrect, PTL DEF Spec, QueueImplemented, FQ!FQSpec, FQ!fqVars

-----------------------------------------------------------------------------
(* The thread that owns the loop, and its owner *)

\* loop_ points to the loop while there is one.
PointerIsLoop == loop_ <=> thread \in {"published", "looping"}

\* The thread exists once startLoop has been called; startLoop returns, and the
\* destructor uses the loop, only after it has been published.
OwnerFollows ==
  /\ owner = "out" => thread = "none"
  /\ owner \in {"using", "quitting", "joining"}
       => thread \in {"published", "looping", "cleared", "exited"}

IInv ==
  /\ loop_ \in BOOLEAN
  /\ PointerIsLoop /\ OwnerFollows /\ GoneMeansOver

-----------------------------------------------------------------------------
LEMMA InitIInv == EltInit => IInv
BY DEF EltInit, IInv, PointerIsLoop, OwnerFollows, GoneMeansOver

LEMMA NextIInv == IInv /\ [EltNext]_<<vars, eltVars>> => IInv'
<1> SUFFICES ASSUME IInv, [EltNext]_<<vars, eltVars>> PROVE IInv'
  OBVIOUS
<1> USE DEF IInv, PointerIsLoop, OwnerFollows, GoneMeansOver, eltVars
<1>1. CASE publish
  BY <1>1 DEF publish
<1>2. CASE enterLoop
  BY <1>2 DEF enterLoop
<1>3. CASE LoopThreadStep
  BY <1>3 DEF LoopThreadStep
<1>4. CASE clear
  BY <1>4 DEF clear, ClearPointer
<1>5. CASE exit
  BY <1>5 DEF exit
<1>6. CASE startLoop
  BY <1>6 DEF startLoop
<1>7. CASE startLoopReturns
  BY <1>7 DEF startLoopReturns, WaitForLoop
<1>8. CASE use
  BY <1>8 DEF use
<1>9. CASE destruct
  BY <1>9 DEF destruct
<1>10. CASE quitLoop
  BY <1>10 DEF quitLoop
<1>11. CASE wakeLoop
  BY <1>11 DEF wakeLoop
<1>12. CASE join
  BY <1>12 DEF join
<1>13. CASE UNCHANGED <<vars, eltVars>>
  BY <1>13
<1> QED
  BY <1>1, <1>2, <1>3, <1>4, <1>5, <1>6, <1>7, <1>8, <1>9, <1>10, <1>11, <1>12, <1>13
  DEF EltNext

LEMMA Invariant == EltSpec => []IInv
BY InitIInv, NextIInv, PTL DEF EltSpec

-----------------------------------------------------------------------------
\* The pointer is never one to a loop that has been destroyed, whatever the
\* loop does: it is cleared before creadLoop returns.
THEOREM PointerStaysValid == EltSpec => []PointerIsValid
<1>1. IInv => PointerIsValid
  BY DEF IInv, PointerIsLoop, PointerIsValid
<1> QED
  BY <1>1, Invariant, PTL

\* After the destructor loop() has returned, on the path that skips the join too:
\* a NULL that the destructor reads means that the loop is over.
THEOREM DestructorOutlivesLoop == EltSpec => []GoneMeansOver
<1>1. IInv => GoneMeansOver
  BY DEF IInv
<1> QED
  BY <1>1, Invariant, PTL

\* Inside an EventLoopThread the loop is used as module EventLoop says that a loop may
\* be used: whatever the thread and its owner do is a step of EventLoop or none of it.
LEMMA StepsOfTheLoop == [EltNext]_<<vars, eltVars>> => [Next]_vars
<1> SUFFICES ASSUME [EltNext]_<<vars, eltVars>> PROVE Next \/ UNCHANGED vars
  OBVIOUS
<1>1. Owner \in Threads /\ Loop \in Threads
  BY OwnerAssumption DEF Threads
<1>2. CASE enterLoop
  BY <1>2 DEF enterLoop, Next
<1>3. CASE LoopThreadStep
  BY <1>1, <1>3 DEF LoopThreadStep, Next
<1>4. CASE use \/ quitLoop \/ wakeLoop
  BY <1>1, <1>4 DEF use, quitLoop, wakeLoop, Next
<1>5. CASE publish \/ clear \/ exit \/ startLoop \/ startLoopReturns \/ destruct \/ join
  BY <1>5 DEF publish, clear, exit, startLoop, startLoopReturns, destruct, join
<1> QED
  BY <1>2, <1>3, <1>4, <1>5 DEF EltNext

\* An EventLoopThread implements EventLoop: its owner, which may quit a loop that has
\* not been entered or has returned, asks nothing of the loop that others may not ask.
THEOREM ImplementsEventLoop == EltSpec => Spec
<1>1. EltInit => Init
  BY DEF EltInit
<1> QED
  BY <1>1, StepsOfTheLoop, PTL DEF EltSpec, Spec

\* So the loop of an EventLoopThread loses no wakeup either, the destructor's included.
THEOREM ThreadNeverSleepsOnWork == EltSpec => [](NoLostWakeup /\ NoSleepOnQuit)
BY ImplementsEventLoop, NeverSleepsOnFunctor, NeverSleepsOnQuit, PTL
=============================================================================
