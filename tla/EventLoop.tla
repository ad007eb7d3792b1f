------------------------------ MODULE EventLoop ------------------------------
(***************************************************************************)
(* EventLoop (zdq_event_loop.h, zdq_event_loop.cpp) with the two helpers of*)
(* zdq_timer.cpp that it uses for its wakeup descriptor.  The loop thread  *)
(* polls, dispatches the active channels and then runs the functors that   *)
(* its own callbacks and the other threads have queued; the other threads  *)
(* queue functors under mutex_ and then write to the wakeup descriptor, in *)
(* two separate steps.                                                     *)
(*                                                                         *)
(* A functor is a token that says who queued it.  A mutex-protected block  *)
(* is one step.  Channels other than the wakeup channel are two: the timer *)
(* descriptor, which precedes the wakeup descriptor in the poll array, and *)
(* "io", which stands for those that follow it.  Their callbacks, and the  *)
(* functors, are user code: between its beginning and its end the loop     *)
(* thread may make calls of its own.                                       *)
(***************************************************************************)
EXTENDS Naturals, Sequences

CONSTANTS Loop,       \* the thread that constructed the loop (threadId_)
          Callers,    \* the other threads that hold a pointer to the loop
          MaxCalls    \* bound: calls made by each thread

ASSUME LoopAssumption == Loop \notin Callers
ASSUME CallsAssumption == MaxCalls \in Nat

VARIABLES
  pc,                       \* where the loop thread is in loop()
  quit_,
  callingPendingFunctors_,
  activeChannels_,          \* reported by poll, not yet dispatched
  appendFunctors_,          \* queued, guarded by mutex_
  functors,                 \* the batch doAppendFunctors is running
  wakeup,                   \* the counter of the eventfd wakeupFd_
  call,                     \* call[t] = "wake": t has weakFd still to call
  calls,                    \* calls[t]: calls t has made
  executed                  \* history: functors run, in order

vars == <<pc, quit_, callingPendingFunctors_, activeChannels_,
          appendFunctors_, functors, wakeup, call, calls, executed>>
loopVars == <<pc, callingPendingFunctors_, activeChannels_, functors>>

Threads == Callers \cup {Loop}
UserFds == {"timerfd", "io"}
LoopPC == {"idle", "test", "poll", "handle", "callback", "run", "functor"}

\* early: queued by the loop thread outside loop(), hence without a wakeup.
Functor == [by : Threads, n : 1..MaxCalls, early : BOOLEAN]

looping_ == pc # "idle"
isInLoopThread(t) == t = Loop

\* User code is executing in t, so t may call into the loop.
MayCall(t) ==
  /\ call[t] = "none"
  /\ calls[t] < MaxCalls
  /\ isInLoopThread(t) => pc \in {"idle", "callback", "functor"}

NewFunctor(t) ==
  [by |-> t, n |-> calls[t] + 1, early |-> isInLoopThread(t) /\ ~looping_]

CountCall(t) == calls' = [calls EXCEPT ![t] = @ + 1]

-----------------------------------------------------------------------------
(* Calls into the loop, from any thread. *)

\* "Two cases: the caller is not the I/O thread, or it is and is running the
\* pending functors."
NeedsWakeupOtherThreadOnly(t) == ~isInLoopThread(t)
NeedsWakeup(t) == ~isInLoopThread(t) \/ callingPendingFunctors_

\* push_back under mutex_; whether a wakeup follows is decided after it.
appendFuncInLoop(t) ==
  /\ MayCall(t)
  /\ CountCall(t)
  /\ appendFunctors_' = Append(appendFunctors_, NewFunctor(t))
  /\ call' = [call EXCEPT ![t] = IF NeedsWakeup(t) THEN "wake" ELSE "none"]
  /\ UNCHANGED <<loopVars, quit_, wakeup, executed>>

runInLoop(t) ==
  \/ /\ isInLoopThread(t)
     /\ MayCall(t)
     /\ CountCall(t)
     /\ executed' = Append(executed, NewFunctor(t))
     /\ UNCHANGED <<loopVars, quit_, appendFunctors_, wakeup, call>>
  \/ /\ ~isInLoopThread(t)
     /\ appendFuncInLoop(t)

QuitNeverWakes(t) == FALSE
QuitNeedsWakeup(t) == ~isInLoopThread(t)

quit(t) ==
  /\ MayCall(t)
  /\ CountCall(t)
  /\ quit_' = TRUE
  /\ call' = [call EXCEPT ![t] = IF QuitNeedsWakeup(t) THEN "wake" ELSE "none"]
  /\ UNCHANGED <<loopVars, appendFunctors_, wakeup, executed>>

\* The write to the eventfd that ends appendFuncInLoop and quit.
weakFd(t) ==
  /\ call[t] = "wake"
  /\ wakeup' = wakeup + 1
  /\ call' = [call EXCEPT ![t] = "none"]
  /\ UNCHANGED <<loopVars, quit_, appendFunctors_, calls, executed>>

-----------------------------------------------------------------------------
(* The loop thread.  It takes no step of loop() while inside a call. *)

LoopAt(l) == pc = l /\ call[Loop] = "none"

loop ==
  /\ LoopAt("idle")
  /\ pc' = "test"
  /\ quit_' = FALSE
  /\ UNCHANGED <<callingPendingFunctors_, activeChannels_, appendFunctors_,
                 functors, wakeup, call, calls, executed>>

testQuit ==
  /\ LoopAt("test")
  /\ pc' = IF quit_ THEN "idle" ELSE "poll"
  /\ UNCHANGED <<quit_, callingPendingFunctors_, activeChannels_,
                 appendFunctors_, functors, wakeup, call, calls, executed>>

\* poll returns what is ready; the wakeup descriptor is, when its counter is
\* not zero.
pollReturns(ready) ==
  /\ LoopAt("poll")
  /\ activeChannels_' = ready \cup (IF wakeup > 0 THEN {"wakeup"} ELSE {})
  /\ pc' = "handle"
  /\ UNCHANGED <<quit_, callingPendingFunctors_, appendFunctors_, functors,
                 wakeup, call, calls, executed>>

poll == \E ready \in SUBSET UserFds :
          /\ wakeup > 0 \/ ready # {}
          /\ pollReturns(ready)

PollForEver == FALSE

\* kPollTimeMs have passed and nothing is ready.
pollTimeout == wakeup = 0 /\ pollReturns({})

\* The callback of the next active user channel begins: the timer descriptor
\* precedes the wakeup descriptor in the poll array, the others follow it.
beginCallback(ch) ==
  /\ LoopAt("handle")
  /\ ch \in activeChannels_
  /\ ch = "io" => activeChannels_ = {"io"}
  /\ pc' = "callback"
  /\ activeChannels_' = activeChannels_ \ {ch}
  /\ UNCHANGED <<quit_, callingPendingFunctors_, appendFunctors_, functors,
                 wakeup, call, calls, executed>>

endCallback ==
  /\ LoopAt("callback")
  /\ pc' = "handle"
  /\ UNCHANGED <<quit_, callingPendingFunctors_, activeChannels_,
                 appendFunctors_, functors, wakeup, call, calls, executed>>

\* ZDQ::handleRead, the read callback of wakeupChannel_: reading an eventfd
\* resets its counter.
handleRead ==
  /\ LoopAt("handle")
  /\ "wakeup" \in activeChannels_ /\ "timerfd" \notin activeChannels_
  /\ wakeup' = 0
  /\ activeChannels_' = activeChannels_ \ {"wakeup"}
  /\ UNCHANGED <<pc, quit_, callingPendingFunctors_, appendFunctors_,
                 functors, call, calls, executed>>

CopyBatch == functors' = appendFunctors_ /\ UNCHANGED appendFunctors_
SwapBatch == functors' = appendFunctors_ /\ appendFunctors_' = <<>>

\* callingPendingFunctors_ is read by the loop thread only, so setting it and
\* the swap under mutex_ are one step.
doAppendFunctors ==
  /\ LoopAt("handle")
  /\ activeChannels_ = {}
  /\ pc' = "run"
  /\ callingPendingFunctors_' = TRUE
  /\ SwapBatch
  /\ UNCHANGED <<quit_, activeChannels_, wakeup, call, calls, executed>>

beginFunctor ==
  /\ LoopAt("run")
  /\ functors # <<>>
  /\ pc' = "functor"
  /\ executed' = Append(executed, Head(functors))
  /\ functors' = Tail(functors)
  /\ UNCHANGED <<quit_, callingPendingFunctors_, activeChannels_,
                 appendFunctors_, wakeup, call, calls>>

endFunctor ==
  /\ LoopAt("functor")
  /\ pc' = "run"
  /\ UNCHANGED <<quit_, callingPendingFunctors_, activeChannels_,
                 appendFunctors_, functors, wakeup, call, calls, executed>>

functorsDone ==
  /\ LoopAt("run")
  /\ functors = <<>>
  /\ pc' = "test"
  /\ callingPendingFunctors_' = FALSE
  /\ UNCHANGED <<quit_, activeChannels_, appendFunctors_, functors, wakeup,
                 call, calls, executed>>

-----------------------------------------------------------------------------
Init ==
  /\ pc = "idle"
  /\ quit_ = FALSE
  /\ callingPendingFunctors_ = FALSE
  /\ activeChannels_ = {}
  /\ appendFunctors_ = <<>>
  /\ functors = <<>>
  /\ wakeup = 0
  /\ call = [t \in Threads |-> "none"]
  /\ calls = [t \in Threads |-> 0]
  /\ executed = <<>>

\* The steps of loop() that need nothing but the processor.
LoopStep ==
  \/ testQuit \/ handleRead \/ doAppendFunctors
  \/ (\E ch \in UserFds : beginCallback(ch)) \/ endCallback
  \/ beginFunctor \/ endFunctor \/ functorsDone

Next ==
  \/ \E t \in Threads : appendFuncInLoop(t) \/ runInLoop(t) \/ quit(t) \/ weakFd(t)
  \/ loop \/ poll \/ pollTimeout
  \/ LoopStep

Spec == Init /\ [][Next]_vars

\* Threads are scheduled, callbacks and functors return, and poll returns when
\* the wakeup descriptor is readable.  Nothing says that loop() is called, that
\* anybody else calls in, that user descriptors become ready or that poll
\* times out.
Fairness ==
  /\ WF_vars(LoopStep)
  /\ WF_vars(wakeup > 0 /\ poll)
  /\ \A t \in Threads : WF_vars(weakFd(t))

FairSpec == Spec /\ Fairness

-----------------------------------------------------------------------------
TypeOK ==
  /\ pc \in LoopPC
  /\ quit_ \in BOOLEAN
  /\ callingPendingFunctors_ \in BOOLEAN
  /\ activeChannels_ \subseteq UserFds \cup {"wakeup"}
  /\ appendFunctors_ \in Seq(Functor)
  /\ functors \in Seq(Functor)
  /\ wakeup \in Nat
  /\ call \in [Threads -> {"none", "wake"}]
  /\ calls \in [Threads -> Nat]
  /\ executed \in Seq(Functor)

\* A wakeup has been written, or the thread that owes it is about to.
WakeupDue == wakeup > 0 \/ \E t \in Threads : call[t] = "wake"

\* The loop never sleeps on a queued functor: whenever it is about to poll or
\* polling, a functor in appendFunctors_ that was not queued by the loop thread
\* before loop() has its wakeup written or about to be written
\* (appendFuncInLoop pushes first, writes the eventfd second; handleRead
\* consumes every write at once before doAppendFunctors swaps).
NoLostWakeup ==
  pc \in {"test", "poll"} /\ (\E i \in DOMAIN appendFunctors_ : ~appendFunctors_[i].early)
    => WakeupDue

\* A quit that the running loop has not seen yet cannot be slept through: if
\* quit_ is set while the loop polls, the wakeup is written or about to be
\* (quit sets the flag first, writes the eventfd second).
NoSleepOnQuit == pc = "poll" /\ quit_ => WakeupDue

\* EventLoop implements the queue that its users see (FunctorQueue): the
\* two-stage queue of doAppendFunctors neither loses, duplicates nor reorders.
FQ == INSTANCE FunctorQueue WITH pending <- functors \o appendFunctors_
QueueImplemented == FQ!FQSpec

Queued(t, n) ==
  \E s \in {functors, appendFunctors_} : \E i \in DOMAIN s :
    s[i].by = t /\ s[i].n = n /\ ~s[i].early
Executed(t, n) == \E i \in DOMAIN executed : executed[i].by = t /\ executed[i].n = n

\* A functor that another thread, a callback or a functor queued is run unless
\* loop() returns first, even if no descriptor ever becomes ready and poll
\* never times out: the wakeup alone is enough.
FunctorsRun ==
  \A t \in Threads, n \in 1..MaxCalls :
    Queued(t, n) ~> Executed(t, n) \/ ~looping_

\* Functors that the loop thread queues before loop() have no wakeup; the timeout of
\* poll is what they wait for in the worst case, and all that they need.
EarlyQueued ==
  \E s \in {functors, appendFunctors_} : \E i \in DOMAIN s : s[i].early

EarlyFunctorsRun ==
  WF_vars(pollTimeout) => (EarlyQueued /\ looping_ ~> ~EarlyQueued \/ ~looping_)

\* A quit made while loop() is running makes it return.
QuitStopsLoop == quit_ /\ looping_ ~> ~looping_
=============================================================================
