---------------------------- MODULE FunctorQueue ----------------------------
(***************************************************************************)
(* What EventLoop promises to the users of runInLoop, appendFuncInLoop and *)
(* quit, without threads, wakeups, polls or batches: a functor handed over *)
(* is queued once and run once, queued functors run in the order in which  *)
(* they were queued, and a functor given to runInLoop in the loop's own    *)
(* thread runs at once, ahead of the queue.                                *)
(***************************************************************************)
EXTENDS Naturals, Sequences

CONSTANT Functor      \* the functors that can ever be handed over

VARIABLES pending,    \* queued and not yet run, oldest first
          executed    \* run, in the order of the runs

fqVars == <<pending, executed>>

\* Neither queued nor run so far.
Fresh(f) ==
  /\ \A i \in DOMAIN pending : pending[i] # f
  /\ \A i \in DOMAIN executed : executed[i] # f

Submit(f) ==
  /\ Fresh(f)
  /\ pending' = Append(pending, f)
  /\ UNCHANGED executed

RunNow(f) ==
  /\ Fresh(f)
  /\ executed' = Append(executed, f)
  /\ UNCHANGED pending

RunOldest ==
  /\ pending # <<>>
  /\ executed' = Append(executed, Head(pending))
  /\ pending' = Tail(pending)

FQInit == pending = <<>> /\ executed = <<>>

FQNext ==
  \/ \E f \in Functor : Submit(f) \/ RunNow(f)
  \/ RunOldest

FQSpec == FQInit /\ [][FQNext]_fqVars
=============================================================================
