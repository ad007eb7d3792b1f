------------------------------ MODULE Connector ------------------------------
(***************************************************************************)
(* Connector (zdq_connector.h, zdq_connector.cpp): one attempt after       *)
(* another to connect, each with a socket and a channel of its own, until  *)
(* one succeeds or the connector is told to stop.  Its handlers run in the *)
(* loop thread, each one step; the flag connect_ is also written by the    *)
(* threads that call start and stop, without a lock, and a handler reads   *)
(* it at one instant.                                                      *)
(***************************************************************************)
EXTENDS Integers, LoopPass

VARIABLES
  connect_, state_, retryDelayMs_,
  channel_,    \* "none" (reset), "watched" by the poller, or "removed" from it
  sockets,     \* open sockets the connector has neither closed nor handed over
  timers,      \* timers that will call startInLoop
  abandoned,   \* the last connect() failed with an error that is not retried
  failed       \* the assertion that aborted the program, "none" so far

connVars == <<state_, retryDelayMs_, channel_, sockets, timers, abandoned, failed>>

kInitRetryDelayMs == 500
kMaxRetryDelayMs == 30 * 1000

States == {"kDisconnected", "kConnecting", "kConnected"}
Handlers == {"startInLoop", "stopInLoop", "resetChannel"}

Lesser(a, b) == IF a < b THEN a ELSE b

Abort(where) ==
  /\ failed' = where
  /\ UNCHANGED <<state_, retryDelayMs_, channel_, sockets, timers, abandoned>>

-----------------------------------------------------------------------------
(* retry: close the socket, then schedule the next attempt. *)

CloseNothing(open) == sockets' = open
CloseSocket(open) == sockets' = open - 1

NextDelay(delay) == Lesser(delay * 2, kMaxRetryDelayMs)

NoNextAttempt(wanted, pending) == pending
NextAttempts(wanted, pending) == IF wanted THEN pending + 1 ELSE pending

\* wanted, open, delay, pending: connect_, the open sockets, the delay and the
\* timers as the caller has left them.
retry(wanted, open, delay, pending) ==
  /\ CloseSocket(open)
  /\ state_' = "kDisconnected"
  /\ timers' = NextAttempts(wanted, pending)
  /\ retryDelayMs_' = IF wanted THEN NextDelay(delay) ELSE delay
  /\ abandoned' = FALSE
  /\ UNCHANGED failed

\* connect: a new socket, then what the error says.  connecting asserts that
\* the channel of the attempt before has been reset.
connect(delay, pending) ==
  \/ /\ channel_ = "none"
     /\ state_' = "kConnecting"
     /\ channel_' = "watched"
     /\ sockets' = sockets + 1
     /\ timers' = pending /\ retryDelayMs_' = delay
     /\ abandoned' = FALSE
     /\ UNCHANGED failed
  \/ channel_ # "none" /\ Abort("connecting")
  \/ retry(TRUE, sockets + 1, delay, pending) /\ UNCHANGED channel_
  \/ /\ abandoned' = TRUE
     /\ state_' = "kDisconnected"
     /\ timers' = pending /\ retryDelayMs_' = delay
     /\ UNCHANGED <<channel_, sockets, failed>>

startInLoop(state, wanted, delay, pending) ==
  \/ state # "kDisconnected" /\ Abort("startInLoop")
  \/ /\ state = "kDisconnected" /\ ~wanted
     /\ timers' = pending
     /\ UNCHANGED <<state_, retryDelayMs_, channel_, sockets, abandoned, failed>>
  \/ state = "kDisconnected" /\ wanted /\ connect(delay, pending)

-----------------------------------------------------------------------------
(* The steps of the loop thread *)

Running == failed = "none"

RanFunctor(f, new) == Running /\ Runs(f, new)
Handling == Running /\ half = "handle"

\* removeAndResetChannel takes the channel out of the poller at once, and
\* destroys it in a functor, because one of its callbacks may be running.
channelRemoved == channel_' = "removed"

runStartInLoop ==
  /\ RanFunctor("startInLoop", <<>>)
  /\ startInLoop(state_, connect_, retryDelayMs_, timers)
  /\ UNCHANGED connect_

StopNothing == UNCHANGED connVars /\ RanFunctor("stopInLoop", <<>>)
StopAttempt ==
  IF state_ = "kConnecting"
  THEN /\ RanFunctor("stopInLoop", <<"resetChannel">>)
       /\ channelRemoved
       /\ retry(connect_, sockets, retryDelayMs_, timers)
  ELSE RanFunctor("stopInLoop", <<>>) /\ UNCHANGED connVars
stopInLoop == StopAttempt /\ UNCHANGED connect_

KeepChannel == UNCHANGED channel_
DestroyChannel == channel_' = "none"

resetChannel ==
  /\ RanFunctor("resetChannel", <<>>)
  /\ DestroyChannel
  /\ UNCHANGED <<connect_, state_, retryDelayMs_, sockets, timers, abandoned, failed>>

\* A retry timer calls startInLoop.  The delay, half a second at least,
\* outlasts the pass that set the timer, whose functors reset the channel.
timerExpires ==
  /\ Handling /\ timers > 0 /\ ~Queued("resetChannel")
  /\ startInLoop(state_, connect_, retryDelayMs_, timers - 1)
  /\ Appends(<<>>)
  /\ UNCHANGED connect_

\* The attempt failed: handleError, or handleWrite that finds SO_ERROR set or
\* a connection to itself.  A write event that follows the error event in the
\* same handleEvent finds kDisconnected and does nothing.
attemptFails ==
  /\ Handling /\ channel_ = "watched" /\ state_ = "kConnecting"
  /\ channelRemoved
  /\ Appends(<<"resetChannel">>)
  /\ retry(connect_, sockets, retryDelayMs_, timers)
  /\ UNCHANGED connect_

\* handleWrite without error: the socket is handed over, or closed if the
\* connector has been stopped.  state_ is kConnected in both cases.
handleWrite ==
  /\ Handling /\ channel_ = "watched" /\ state_ = "kConnecting"
  /\ channelRemoved
  /\ Appends(<<"resetChannel">>)
  /\ state_' = "kConnected"
  /\ IF connect_ THEN sockets' = sockets - 1 ELSE CloseSocket(sockets)
  /\ UNCHANGED <<connect_, retryDelayMs_, timers, abandoned, failed>>

\* restart, called by the owner of the connection that was handed over.
restart ==
  /\ connect_' = TRUE
  /\ startInLoop("kDisconnected", TRUE, kInitRetryDelayMs, timers)

passOn == Running /\ (swapFunctors \/ functorsDone) /\ UNCHANGED <<connect_, connVars>>

-----------------------------------------------------------------------------
ConnectorInit ==
  /\ connect_ = FALSE /\ state_ = "kDisconnected"
  /\ retryDelayMs_ = kInitRetryDelayMs
  /\ channel_ = "none" /\ sockets = 0 /\ timers = 0
  /\ abandoned = FALSE /\ failed = "none"
  /\ PassInit

ConnectorTypeOK ==
  /\ connect_ \in BOOLEAN /\ state_ \in States
  /\ retryDelayMs_ \in kInitRetryDelayMs..kMaxRetryDelayMs
  /\ channel_ \in {"none", "watched", "removed"}
  /\ sockets \in Int /\ timers \in Nat
  /\ abandoned \in BOOLEAN
  /\ failed \in {"none", "startInLoop", "connecting", "~Connector"}
  /\ PassTypeOK(Handlers)
=============================================================================
