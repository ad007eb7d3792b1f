--------------------------- MODULE EventLoopThread ---------------------------
(***************************************************************************)
(* EventLoopThread (zdq_eventloop_thread.h, zdq_eventloop_thread.cpp): a   *)
(* thread that constructs an EventLoop on its stack, publishes its address *)
(* and runs it, and an owner that starts the thread, uses the loop and, in *)
(* the destructor, quits the loop and joins the thread.  The event loop is *)
(* that of module EventLoop, whose loop thread is this one.                *)
(***************************************************************************)
EXTENDS EventLoop

CONSTANT Owner        \* the thread that owns the EventLoopThread

ASSUME OwnerAssumption == Owner \in Callers

VARIABLES
  loop_,     \* whether loop_ points to the loop (FALSE: NULL)
  thread,    \* where the thread is in creadLoop; "exited" once the EventLoop on
             \* its stack is destroyed and the thread can be joined
  owner      \* where the owner is: in startLoop, after it, in the destructor

eltVars == <<loop_, thread, owner>>

-----------------------------------------------------------------------------
(* creadLoop, in the new thread *)

\* Construction of the loop, and its publication under mutex_ with the notify.
publish ==
  /\ thread = "created"
  /\ thread' = "published"
  /\ loop_' = TRUE
  /\ UNCHANGED <<owner, vars>>

enterLoop ==
  /\ thread = "published"
  /\ thread' = "looping"
  /\ loop
  /\ UNCHANGED <<loop_, owner>>

\* A step of loop(), or a call that a callback or a functor makes.
LoopThreadStep ==
  /\ thread = "looping" /\ looping_
  /\ \/ LoopStep \/ poll \/ pollTimeout
     \/ appendFuncInLoop(Loop) \/ runInLoop(Loop) \/ quit(Loop) \/ weakFd(Loop)
  /\ UNCHANGED eltVars

KeepPointer == UNCHANGED loop_
ClearPointer == loop_' = FALSE

\* loop() has returned: loop_ = NULL, without mutex_.
clear ==
  /\ thread = "looping" /\ ~looping_ /\ call[Loop] = "none"
  /\ thread' = "cleared"
  /\ ClearPointer
  /\ UNCHANGED <<owner, vars>>

exit ==
  /\ thread = "cleared"
  /\ thread' = "exited"
  /\ UNCHANGED <<loop_, owner, vars>>

-----------------------------------------------------------------------------
(* The owner *)

startLoop ==
  /\ owner = "out"
  /\ owner' = "starting"
  /\ thread' = "created"
  /\ UNCHANGED <<loop_, vars>>

DoNotWait == TRUE
WaitForLoop == loop_

\* while (loop_ == NULL) cond_.wait()
startLoopReturns ==
  /\ owner = "starting" /\ WaitForLoop
  /\ owner' = "using"
  /\ UNCHANGED <<loop_, thread, vars>>

\* The owner uses the loop it was given; one call is kept for the destructor.
use ==
  /\ owner = "using" /\ thread \in {"published", "looping"}
  /\ \/ calls[Owner] < MaxCalls - 1 /\ (runInLoop(Owner) \/ quit(Owner))
     \/ weakFd(Owner)
  /\ UNCHANGED eltVars

\* ~EventLoopThread reads loop_ without mutex_, and does nothing if it is NULL.
destruct ==
  /\ owner \in {"out", "using"} /\ call[Owner] = "none"
  /\ owner' = IF loop_ THEN "quitting" ELSE "gone"
  /\ UNCHANGED <<loop_, thread, vars>>

\* loop_->quit() and its write to the wakeup descriptor, on a loop that may
\* have returned in the meantime.
quitLoop ==
  /\ owner = "quitting"
  /\ owner' = "joining"
  /\ quit(Owner)
  /\ UNCHANGED <<loop_, thread>>

wakeLoop ==
  /\ owner = "joining"
  /\ weakFd(Owner)
  /\ UNCHANGED eltVars

join ==
  /\ owner = "joining" /\ call[Owner] = "none" /\ thread = "exited"
  /\ owner' = "gone"
  /\ UNCHANGED <<loop_, thread, vars>>

-----------------------------------------------------------------------------
EltInit == Init /\ loop_ = FALSE /\ thread = "none" /\ owner = "out"

EltNext ==
  \/ publish \/ enterLoop \/ LoopThreadStep \/ clear \/ exit
  \/ startLoop \/ startLoopReturns \/ use \/ destruct \/ quitLoop \/ wakeLoop \/ join

EltSpec == EltInit /\ [][EltNext]_<<vars, eltVars>>

\* Both threads are scheduled, callbacks and functors return, and poll returns
\* when the wakeup descriptor is readable.
EltFairness ==
  /\ WF_<<vars, eltVars>>(publish \/ enterLoop \/ clear \/ exit)
  /\ WF_<<vars, eltVars>>(LoopThreadStep /\ (LoopStep \/ weakFd(Loop)))
  /\ WF_<<vars, eltVars>>(LoopThreadStep /\ wakeup > 0 /\ poll)
  /\ WF_<<vars, eltVars>>(startLoopReturns \/ quitLoop \/ wakeLoop \/ join)
  /\ WF_<<vars, eltVars>>(use /\ weakFd(Owner))

EltFairSpec == EltSpec /\ EltFairness

-----------------------------------------------------------------------------
\* The pointer that startLoop returns and the destructor uses never outlives
\* the loop on the thread's stack.
PointerIsValid == loop_ => thread \in {"published", "looping"}

\* When the destructor is over the thread runs no more callbacks or functors:
\* it was never started, or loop() has returned, even on the path that skips
\* the join.
GoneMeansOver == owner = "gone" => thread \in {"none", "cleared", "exited"}

\* A destructor that finds the loop running returns, whatever callbacks and
\* functors the loop is busy with and whoever quits it meanwhile.
DestructorReturnsOnceLooping ==
  owner = "quitting" /\ thread = "looping" ~> owner = "gone"
=============================================================================
