------------------------------ MODULE TcpClient ------------------------------
(***************************************************************************)
(* TcpClient (zdq_tcp_client.h, zdq_tcp_client.cpp) and its Connector: a   *)
(* user calls connect, disconnect, stop and the destructor, in a thread of *)
(* its own or in the loop thread, where no handler runs until the call is  *)
(* over; the loop thread connects, hands the connection over, removes it   *)
(* when it closes, and reconnects.  connected_ and connect_ are plain      *)
(* flags that both threads write.                                          *)
(***************************************************************************)
EXTENDS Connector

CONSTANTS
  Retry,       \* retry_, which enableRetry sets before connect
  MaxConnects, \* bound: calls of connect
  MaxStops     \* bound: calls of stop and disconnect

ASSUME ClientAssumption ==
  /\ Retry \in BOOLEAN
  /\ MaxConnects \in Nat /\ MaxStops \in Nat

VARIABLES
  connected_,
  connection_,   \* whether connection_ holds a connection
  user,          \* what is left of the user's call
  inLoopThread,  \* whether the user's thread is the loop thread
  restarting,    \* the loop thread has found that it has to restart
  connects, stops

clientVars == <<connected_, connection_, user, inLoopThread, restarting, connects, stops>>
allVars == <<connect_, connVars, passVars, clientVars>>

UserPC == {"out", "start", "startAppend", "stop", "stopAppend",
           "dtorStop", "dtorAppend", "dtorRelease", "gone"}

LoopFree == ~restarting /\ (inLoopThread => user \in {"out", "gone"})

\* The attempts there are or will be: the one under way, those a functor, a
\* retry timer or a restart will begin.
Attempts ==
  (IF state_ = "kConnecting" THEN 1 ELSE 0) + timers + (IF restarting THEN 1 ELSE 0)
    + (IF Queued("startInLoop") THEN 1 ELSE 0)

-----------------------------------------------------------------------------
(* The user *)

Steps(from, to) ==
  /\ Running
  /\ inLoopThread => ~restarting
  /\ user = from /\ user' = to
  /\ UNCHANGED <<inLoopThread, connection_, restarting>>

Calls(from, to) == Steps(from, to) /\ UNCHANGED <<connVars, half, functors>>

\* connect, again only when the connection is gone and no attempt to make
\* another is left, nor a stop that has yet to take effect.
clientConnect ==
  /\ Calls("out", "start") /\ connects < MaxConnects
  /\ connects > 0 => ~connection_ /\ Attempts = 0 /\ ~Queued("stopInLoop")
  /\ connects' = connects + 1
  /\ connected_' = TRUE
  /\ UNCHANGED <<connect_, appendFunctors_, stops>>

\* Connector::start
start ==
  /\ Calls("start", "startAppend")
  /\ connect_' = TRUE
  /\ UNCHANGED <<connected_, appendFunctors_, connects, stops>>

startAppend ==
  /\ Steps("startAppend", "out")
  /\ IF inLoopThread
     THEN startInLoop(state_, connect_, retryDelayMs_, timers) /\ Appends(<<>>)
     ELSE Appends(<<"startInLoop">>) /\ UNCHANGED connVars
  /\ UNCHANGED <<connect_, connected_, connects, stops>>

\* disconnect: the connection will close, by the peer's doing, after the
\* shutdown.
disconnect ==
  /\ Calls("out", "out") /\ stops < MaxStops
  /\ stops' = stops + 1
  /\ connected_' = FALSE
  /\ UNCHANGED <<connect_, appendFunctors_, connects>>

clientStop ==
  /\ Calls("out", "stop") /\ stops < MaxStops
  /\ stops' = stops + 1
  /\ connected_' = FALSE
  /\ UNCHANGED <<connect_, appendFunctors_, connects>>

\* Connector::stop
stop ==
  /\ Calls("stop", "stopAppend")
  /\ connect_' = FALSE
  /\ UNCHANGED <<connected_, appendFunctors_, connects, stops>>

stopAppend ==
  /\ Calls("stopAppend", "out")
  /\ appendFunctors_' = Append(appendFunctors_, "stopInLoop")
  /\ UNCHANGED <<connect_, connected_, connects, stops>>

\* ~TcpClient: with a connection, its close callback is replaced by one that
\* does not need the client; without one, the connector is stopped.
destroy ==
  /\ Calls("out", IF connection_ THEN "dtorRelease" ELSE "dtorStop")
  /\ UNCHANGED <<connect_, connected_, appendFunctors_, connects, stops>>

destroyStop ==
  /\ Calls("dtorStop", "dtorAppend")
  /\ connect_' = FALSE
  /\ UNCHANGED <<connected_, appendFunctors_, connects, stops>>

destroyAppend ==
  /\ Calls("dtorAppend", "dtorRelease")
  /\ appendFunctors_' = Append(appendFunctors_, "stopInLoop")
  /\ UNCHANGED <<connect_, connected_, connects, stops>>

\* The client lets its connector go: unless a retry timer shares it, it is
\* destroyed here, and asserts that it has no channel.
destroyRelease ==
  /\ Steps("dtorRelease", "gone")
  /\ IF timers = 0 /\ channel_ # "none" THEN Abort("~Connector") ELSE UNCHANGED connVars
  /\ UNCHANGED <<connect_, passVars, connected_, connects, stops>>

User ==
  \/ clientConnect \/ start \/ startAppend \/ disconnect \/ clientStop \/ stop \/ stopAppend
  \/ destroy \/ destroyStop \/ destroyAppend \/ destroyRelease

-----------------------------------------------------------------------------
(* The loop thread.  Once the client is gone nothing more is said of it. *)

ConnectorStep ==
  /\ LoopFree /\ user # "gone"
  /\ \/ runStartInLoop \/ stopInLoop \/ resetChannel \/ timerExpires
     \/ attemptFails \/ passOn
  /\ UNCHANGED clientVars

\* handleWrite, and newConnection if the connector calls it back.
newConnection ==
  /\ LoopFree /\ user # "gone"
  /\ handleWrite
  /\ connection_' = connect_
  /\ UNCHANGED <<connected_, user, inLoopThread, restarting, connects, stops>>

\* removeConnection, from handleClose of the connection, which takes a later
\* poll or a functor behind resetChannel; the test of connected_ and the restart
\* that follows it are two steps of this thread.
MustRestart == Retry /\ connected_

removeConnection ==
  /\ Running /\ LoopFree /\ user # "gone" /\ connection_
  /\ ~Queued("resetChannel")
  /\ connection_' = FALSE
  /\ restarting' = MustRestart
  /\ UNCHANGED <<connect_, connVars, passVars, connected_, user, inLoopThread,
                 connects, stops>>

restartConnector ==
  /\ Running /\ restarting
  /\ restart
  /\ restarting' = FALSE
  /\ UNCHANGED <<passVars, connected_, connection_, user, inLoopThread, connects, stops>>

-----------------------------------------------------------------------------
Init ==
  /\ ConnectorInit
  /\ connected_ = TRUE /\ connection_ = FALSE
  /\ user = "out" /\ inLoopThread \in BOOLEAN /\ restarting = FALSE
  /\ connects = 0 /\ stops = 0

Next == User \/ ConnectorStep \/ newConnection \/ removeConnection \/ restartConnector

Spec == Init /\ [][Next]_allVars

\* The loop goes round, the user finishes its calls, retry timers
\* expire, and an attempt under way succeeds or fails, and not always fails.
Fairness ==
  /\ WF_allVars(ConnectorStep /\ (runStartInLoop \/ stopInLoop \/ resetChannel))
  /\ SF_allVars(ConnectorStep /\ passOn)
  /\ WF_allVars(restartConnector)
  /\ SF_allVars(ConnectorStep /\ timerExpires /\ state_' = "kConnecting")
  /\ SF_allVars(newConnection)
  /\ WF_allVars(User /\ user # "out")

FairSpec == Spec /\ Fairness

-----------------------------------------------------------------------------
TypeOK ==
  /\ ConnectorTypeOK
  /\ connected_ \in BOOLEAN /\ connection_ \in BOOLEAN /\ restarting \in BOOLEAN
  /\ inLoopThread \in BOOLEAN
  /\ user \in UserPC /\ connects \in Nat /\ stops \in Nat

\* A client that has called connect once never has two attempts in the making,
\* so the assertions of startInLoop and connecting hold, however stop, the close
\* of the connection and the retries interleave.  (A second connect after a
\* connection has closed finds state_ still kConnected, and aborts; one made in the
\* loop thread in the pass of a stop finds the old channel, and aborts.)
OneAttempt ==
  connects <= 1 =>
    /\ Attempts <= 1
    /\ connection_ => Attempts = 0
    /\ failed \notin {"startInLoop", "connecting"}

\* "Beware of leaking socket descriptors": between two handlers the connector
\* has one open socket while it is connecting, and none otherwise.
NoSocketLeak == sockets = IF state_ = "kConnecting" THEN 1 ELSE 0

\* While the connector is wanted and not connected, somebody is going to call
\* startInLoop, unless the last attempt failed with an error not retried.
NeverForgotten ==
  Running /\ connect_ /\ state_ = "kDisconnected" =>
    Attempts > 0 \/ user = "startAppend" \/ abandoned

\* Once the functor of a stop has run no attempt goes on, unless the loop
\* thread turned connect_ on again in a restart that it had decided on before
\* the stop.
StoppedMeansIdle ==
  ~connect_ /\ user = "out" /\ ~Queued("stopInLoop") => state_ # "kConnecting"

\* With retry_ on, a lost connection is made again, or the user has stopped or
\* disconnected, or an error was not retried, or the client is destroyed.
Reconnects ==
  restarting ~> connection_ \/ ~connected_ \/ ~connect_ \/ abandoned \/ user = "gone"
=============================================================================
