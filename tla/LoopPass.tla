------------------------------ MODULE LoopPass ------------------------------
(***************************************************************************)
(* The passes of EventLoop::loop (zdq_event_loop.cpp) as one object of the *)
(* loop sees them: in the first half of a pass ("handle") channels and     *)
(* timers call back, in the second ("run") the functors that were queued   *)
(* by then are run in order.  Module EventLoop has the whole of it, with   *)
(* the wakeups that keep the passes coming.                                *)
(***************************************************************************)
EXTENDS Sequences

VARIABLES
  half,             \* the half of the pass the loop is in
  functors,         \* the rest of the batch being run
  appendFunctors_   \* queued since

passVars == <<half, functors, appendFunctors_>>

Queue == functors \o appendFunctors_
Queued(f) == \E i \in DOMAIN Queue : Queue[i] = f

\* A callback, or another thread, queues the functors of new.
Appends(new) ==
  /\ appendFunctors_' = appendFunctors_ \o new
  /\ UNCHANGED <<half, functors>>

\* The next functor of the batch is f; running it queues those of new.
Runs(f, new) ==
  /\ half = "run" /\ functors # <<>> /\ Head(functors) = f
  /\ functors' = Tail(functors)
  /\ appendFunctors_' = appendFunctors_ \o new
  /\ UNCHANGED half

swapFunctors ==
  /\ half = "handle"
  /\ half' = "run" /\ functors' = appendFunctors_ /\ appendFunctors_' = <<>>

functorsDone ==
  /\ half = "run" /\ functors = <<>>
  /\ half' = "handle"
  /\ UNCHANGED <<functors, appendFunctors_>>

PassInit == half = "handle" /\ functors = <<>> /\ appendFunctors_ = <<>>

PassTypeOK(F) ==
  half \in {"handle", "run"} /\ functors \in Seq(F) /\ appendFunctors_ \in Seq(F)
=============================================================================
