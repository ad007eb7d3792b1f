-------------------------- MODULE TcpClient_proofs --------------------------
(***************************************************************************)
(* Theorems about TcpClient and its Connector, with retry_ or without, for *)
(* any number of calls of connect, stop and disconnect: one attempt at a   *)
(* time, one socket at most, and an attempt to come while the user wants a *)
(* connection.                                                             *)
(***************************************************************************)
EXTENDS TcpClient, LoopPass_proofs

Delay == kInitRetryDelayMs..kMaxRetryDelayMs

\* Type correctness in two halves, the Boolean one and the rest.
BoolTypes ==
  /\ connect_ \in BOOLEAN /\ abandoned \in BOOLEAN /\ connected_ \in BOOLEAN
  /\ connection_ \in BOOLEAN /\ restarting \in BOOLEAN /\ inLoopThread \in BOOLEAN
DataTypes ==
  /\ state_ \in States /\ channel_ \in {"none", "watched", "removed"}
  /\ retryDelayMs_ \in Delay
  /\ sockets \in Int /\ timers \in Nat
  /\ failed \in {"none", "startInLoop", "connecting", "~Connector"}
  /\ connects \in Nat /\ stops \in Nat /\ user \in UserPC

\* A connection that is held, or whose loss is being dealt with, is one that the
\* connector has made; nothing but restart starts it again.
ConnectedWhileHeld ==
  /\ connection_ \/ restarting => state_ = "kConnected"
  /\ ~(connection_ /\ restarting)

\* The channel lasts as long as the attempt, and then until the one resetChannel
\* that is queued; none is while the loop thread restarts the connector.
ChannelFollows ==
  /\ channel_ = "watched" <=> state_ = "kConnecting"
  /\ channel_ = "removed" <=> Queued("resetChannel")
  /\ QueuedOnce("resetChannel")
  /\ restarting => ~Queued("resetChannel")

Asking == user \in {"start", "startAppend"}

\* Until connect is called a second time the next attempt is in one place: in
\* the user's call, in the queue, in a timer or in state_.
FirstConnect ==
  connects <= 1 =>
    /\ connects = 0 => ~Asking /\ ~Queued("startInLoop")
                       /\ timers = 0 /\ state_ = "kDisconnected" /\ channel_ = "none"
    /\ QueuedOnce("startInLoop")
    /\ Asking => ~Queued("startInLoop")
    /\ Asking \/ Queued("startInLoop") =>
         timers = 0 /\ state_ = "kDisconnected" /\ channel_ = "none"
    /\ timers <= 1
    /\ timers = 1 => state_ = "kDisconnected"
    /\ failed \notin {"startInLoop", "connecting"}

\* Nobody clears connect_ between the two steps of Connector::start.
StartIsWanted == user = "startAppend" => connect_

IInv ==
  /\ BoolTypes /\ DataTypes /\ PassInv(Handlers)
  /\ ConnectedWhileHeld /\ ChannelFollows /\ FirstConnect
  /\ NoSocketLeak /\ StartIsWanted /\ NeverForgotten /\ StoppedMeansIdle

-----------------------------------------------------------------------------
LEMMA HandlerSeqs ==
  /\ <<>> \in Seq(Handlers) /\ <<"startInLoop">> \in Seq(Handlers)
  /\ <<"stopInLoop">> \in Seq(Handlers) /\ <<"resetChannel">> \in Seq(Handlers)
BY DEF Handlers

LEMMA Delays ==
  kInitRetryDelayMs \in Delay /\ \A d \in Delay : NextDelay(d) \in Delay
<1>1. /\ kInitRetryDelayMs \in Int /\ kMaxRetryDelayMs \in Int
      /\ 0 <= kInitRetryDelayMs /\ kInitRetryDelayMs <= kMaxRetryDelayMs
  BY DEF kInitRetryDelayMs, kMaxRetryDelayMs
<1>2. ASSUME NEW d \in Delay PROVE NextDelay(d) \in Delay
  BY <1>1 DEF Delay, NextDelay, Lesser
<1> QED
  BY <1>1, <1>2 DEF Delay

\* The outcomes of startInLoop: an assertion fails, nothing is wanted, an attempt
\* is under way, or one has failed and is made again or given up.
StartFails(st) ==
  /\ st # "kDisconnected" \/ channel_ # "none"
  /\ failed' \in {"startInLoop", "connecting"}
  /\ UNCHANGED <<state_, retryDelayMs_, channel_, sockets, timers, abandoned>>
NotWanted(pending) ==
  /\ timers' = pending
  /\ UNCHANGED <<state_, retryDelayMs_, channel_, sockets, abandoned, failed>>
AttemptBegins(pending) ==
  /\ channel_ = "none" /\ channel_' = "watched"
  /\ state_' = "kConnecting" /\ sockets' = sockets + 1 /\ timers' = pending
  /\ retryDelayMs_' \in Delay /\ abandoned' = FALSE /\ UNCHANGED failed
AttemptFailed(pending) ==
  /\ state_' = "kDisconnected" /\ UNCHANGED <<channel_, sockets, failed>>
  /\ retryDelayMs_' \in Delay
  /\ \/ timers' = pending + 1 /\ abandoned' = FALSE
     \/ timers' = pending /\ abandoned' = TRUE

StartOutcome(st, wanted, pending) ==
  \/ StartFails(st)
  \/ st = "kDisconnected" /\ ~wanted /\ NotWanted(pending)
  \/ st = "kDisconnected" /\ wanted /\ (AttemptBegins(pending) \/ AttemptFailed(pending))

LEMMA StartOutcomes ==
  ASSUME NEW st, NEW wanted \in BOOLEAN, NEW pending \in Nat, NEW delay \in Delay,
         sockets \in Int, startInLoop(st, wanted, delay, pending)
  PROVE  StartOutcome(st, wanted, pending)
<1> USE DEF StartOutcome
<1>1. NextDelay(delay) \in Delay
  BY Delays
<1>2. CASE st # "kDisconnected" /\ Abort("startInLoop")
  BY <1>2 DEF Abort, StartFails
<1>3. CASE st = "kDisconnected" /\ ~wanted
  BY <1>3 DEF startInLoop, NotWanted
<1>4. CASE st = "kDisconnected" /\ wanted
  <2>1. connect(delay, pending)
    BY <1>4 DEF startInLoop
  <2>2. CASE channel_ # "none" /\ Abort("connecting")
    BY <2>2 DEF Abort, StartFails
  <2>3. CASE retry(TRUE, sockets + 1, delay, pending) /\ UNCHANGED channel_
    BY <1>1, <1>4, <2>3 DEF retry, CloseSocket, NextAttempts, AttemptFailed
  <2>4. CASE state_' = "kConnecting" /\ channel_ = "none"
    BY <1>4, <2>1, <2>4 DEF connect, retry, Abort, AttemptBegins
  <2>5. CASE abandoned' = TRUE /\ state_' = "kDisconnected" /\ timers' = pending
             /\ retryDelayMs_' = delay /\ UNCHANGED <<channel_, sockets, failed>>
    BY <1>4, <2>5 DEF AttemptFailed
  <2> QED
    BY <2>1, <2>2, <2>3, <2>4, <2>5 DEF connect
<1> QED
  BY <1>2, <1>3, <1>4 DEF startInLoop

LEMMA InitIInv == Init => IInv
<1> SUFFICES ASSUME Init PROVE IInv
  OBVIOUS
<1> USE DEF Init, ConnectorInit, PassInit
<1>1. PassInv(Handlers)
  BY HandlerSeqs DEF PassInv, PassTypeOK
<1>2. BoolTypes /\ DataTypes
  <2>1. DataTypes
    BY Delays DEF DataTypes, States, UserPC
  <2>2. BoolTypes
    BY Zenon DEF BoolTypes
  <2> QED
    BY <2>1, <2>2
<1>3. \A f \in Handlers : ~Queued(f) /\ QueuedOnce(f)
  <2>1. <<>> \o <<>> = <<>>
    BY HandlerSeqs, ConcatEmptySeq
  <2>2. Queue = <<>>
    BY <2>1 DEF Queue
  <2> QED
    BY <2>2 DEF Queued, QueuedOnce, AtMostOnce
<1>4. ConnectedWhileHeld /\ NoSocketLeak /\ StartIsWanted /\ NeverForgotten /\ StoppedMeansIdle
  BY DEF ConnectedWhileHeld, NoSocketLeak, StartIsWanted, NeverForgotten, StoppedMeansIdle
<1>5. ChannelFollows /\ FirstConnect
  BY <1>3 DEF ChannelFollows, FirstConnect, Asking, Handlers
<1> QED
  BY <1>1, <1>2, <1>4, <1>5 DEF IInv

-----------------------------------------------------------------------------
(* The user's steps *)

\* A step that only moves the user and its flags, and leaves a start wanted.
LEMMA FlagsKeep ==
  ASSUME IInv, UNCHANGED <<connVars, passVars>>,
         \/ clientConnect \/ start \/ disconnect \/ clientStop \/ stop
         \/ destroy \/ destroyStop
  PROVE  IInv'
<1> USE DEF Calls, Steps, clientConnect, start, disconnect, clientStop, stop, destroy, destroyStop
<1>1. PassInv(Handlers)' /\ \A f \in Handlers :
        (Queued(f)' <=> Queued(f)) /\ (QueuedOnce(f)' <=> QueuedOnce(f))
  BY PassOnKeepsQueue, QueueSame DEF IInv
<1>2. BoolTypes'
  BY Zenon DEF IInv, BoolTypes, connVars
<1>3. DataTypes'
  BY DEF IInv, DataTypes, UserPC, connVars
<1>4. ConnectedWhileHeld' /\ NoSocketLeak'
  BY DEF IInv, ConnectedWhileHeld, NoSocketLeak, connVars
<1>5. ChannelFollows'
  BY <1>1 DEF IInv, ChannelFollows, connVars, Handlers
<1>6. FirstConnect'
  BY <1>1 DEF IInv, FirstConnect, Asking, DataTypes, Attempts, connVars, Handlers
<1>7. StartIsWanted' /\ NeverForgotten' /\ StoppedMeansIdle'
  BY <1>1 DEF IInv, StartIsWanted, NeverForgotten, StoppedMeansIdle, Attempts, Running, connVars, Handlers
<1> QED
  BY <1>1, <1>2, <1>3, <1>4, <1>5, <1>6, <1>7 DEF IInv

LEMMA StartAppended ==
  ASSUME IInv, startAppend, ~inLoopThread PROVE IInv'
<1> USE DEF startAppend, Steps
<1>1. /\ PassInv(Handlers)' /\ Queued("startInLoop")'
      /\ \A f \in Handlers : f # "startInLoop" =>
           (Queued(f)' <=> Queued(f)) /\ (QueuedOnce(f) => QueuedOnce(f)')
      /\ ~Queued("startInLoop") => QueuedOnce("startInLoop")'
  BY AppendsOne DEF IInv, Handlers
<1>2. BoolTypes'
  BY Zenon DEF IInv, BoolTypes, connVars
<1>3. DataTypes'
  BY DEF IInv, DataTypes, UserPC, connVars
<1>4. ConnectedWhileHeld' /\ NoSocketLeak'
  BY DEF IInv, ConnectedWhileHeld, NoSocketLeak, connVars
<1>5. ChannelFollows'
  BY <1>1 DEF IInv, ChannelFollows, connVars, Handlers
<1>6. FirstConnect'
  BY <1>1 DEF IInv, FirstConnect, Asking, DataTypes, connVars
<1>7. StartIsWanted' /\ NeverForgotten' /\ StoppedMeansIdle'
  BY <1>1 DEF IInv, StartIsWanted, NeverForgotten, StoppedMeansIdle, Attempts, Running,
              DataTypes, connVars
<1> QED
  BY <1>1, <1>2, <1>3, <1>4, <1>5, <1>6, <1>7 DEF IInv

\* connect in the loop thread: the attempt begins at once.
LEMMA StartedAtOnce ==
  ASSUME IInv, startAppend, inLoopThread PROVE IInv'
<1> USE DEF startAppend, Steps
<1>1. /\ PassInv(Handlers)'
      /\ \A f \in Handlers : (Queued(f)' <=> Queued(f)) /\ (QueuedOnce(f) => QueuedOnce(f)')
  BY AppendsNone, QueueSame DEF IInv
<1>2. connect_ \in BOOLEAN /\ sockets \in Int /\ timers \in Nat /\ retryDelayMs_ \in Delay
  BY DEF IInv, BoolTypes, DataTypes
<1>3. StartOutcome(state_, connect_, timers)
  BY <1>2, StartOutcomes
<1>4. connect_ /\ ~restarting
  BY DEF IInv, StartIsWanted
<1>5. BoolTypes'
  BY <1>3, Zenon DEF IInv, BoolTypes, StartOutcome, StartFails, NotWanted, AttemptBegins, AttemptFailed
<1> USE DEF StartOutcome, StartFails, NotWanted, AttemptBegins, AttemptFailed
<1>6. DataTypes'
  BY <1>2, <1>3 DEF IInv, DataTypes, UserPC, States
<1>7. ConnectedWhileHeld' /\ NoSocketLeak'
  BY <1>2, <1>3 DEF IInv, ConnectedWhileHeld, NoSocketLeak
<1>8. ChannelFollows'
  BY <1>1, <1>3, <1>4 DEF IInv, ChannelFollows, Handlers
<1>9. FirstConnect'
  BY <1>1, <1>2, <1>3 DEF IInv, FirstConnect, Asking, DataTypes, Handlers
<1>10. StartIsWanted' /\ NeverForgotten' /\ StoppedMeansIdle'
  BY <1>1, <1>2, <1>3, <1>4
  DEF IInv, StartIsWanted, NeverForgotten, StoppedMeansIdle, Attempts, Running, Handlers
<1> QED
  BY <1>1, <1>5, <1>6, <1>7, <1>8, <1>9, <1>10 DEF IInv

LEMMA StopAppended ==
  ASSUME IInv, stopAppend \/ destroyAppend PROVE IInv'
<1> USE DEF stopAppend, destroyAppend, Calls, Steps
<1>1. Appends(<<"stopInLoop">>)
  BY AppendIsConcat DEF IInv, PassInv, PassTypeOK, Handlers, Appends
<1>2. /\ PassInv(Handlers)' /\ Queued("stopInLoop")'
      /\ \A f \in Handlers : f # "stopInLoop" =>
           (Queued(f)' <=> Queued(f)) /\ (QueuedOnce(f) => QueuedOnce(f)')
  BY <1>1, AppendsOne DEF IInv, Handlers
<1>3. BoolTypes'
  BY Zenon DEF IInv, BoolTypes, connVars
<1>4. DataTypes'
  BY DEF IInv, DataTypes, UserPC, connVars
<1>5. ConnectedWhileHeld' /\ NoSocketLeak'
  BY DEF IInv, ConnectedWhileHeld, NoSocketLeak, connVars
<1>6. ChannelFollows'
  BY <1>2 DEF IInv, ChannelFollows, connVars, Handlers
<1>7. FirstConnect'
  BY <1>2 DEF IInv, FirstConnect, Asking, DataTypes, connVars, Handlers
<1>8. StartIsWanted' /\ NeverForgotten' /\ StoppedMeansIdle'
  BY <1>2 DEF IInv, StartIsWanted, NeverForgotten, StoppedMeansIdle, Attempts, Running,
              DataTypes, connVars, Handlers
<1> QED
  BY <1>2, <1>3, <1>4, <1>5, <1>6, <1>7, <1>8 DEF IInv

LEMMA ReleaseKeeps ==
  ASSUME IInv, destroyRelease PROVE IInv'
<1> USE DEF destroyRelease, Steps
<1>1. PassInv(Handlers)' /\ \A f \in Handlers :
        (Queued(f)' <=> Queued(f)) /\ (QueuedOnce(f)' <=> QueuedOnce(f))
  BY PassOnKeepsQueue, QueueSame DEF IInv
<1>2. /\ UNCHANGED <<state_, retryDelayMs_, channel_, sockets, timers, abandoned>>
      /\ failed' \in {failed, "~Connector"}
      /\ failed' # "none" \/ failed' = failed
  BY DEF Abort, connVars
<1>3. BoolTypes'
  BY <1>2, Zenon DEF IInv, BoolTypes
<1>4. DataTypes'
  BY <1>2 DEF IInv, DataTypes, UserPC
<1>5. ConnectedWhileHeld' /\ NoSocketLeak'
  BY <1>2 DEF IInv, ConnectedWhileHeld, NoSocketLeak
<1>6. ChannelFollows'
  BY <1>1, <1>2 DEF IInv, ChannelFollows, Handlers
<1>7. FirstConnect'
  BY <1>1, <1>2 DEF IInv, FirstConnect, Asking, DataTypes, Handlers
<1>8. StartIsWanted' /\ NeverForgotten' /\ StoppedMeansIdle'
  BY <1>1, <1>2 DEF IInv, StartIsWanted, NeverForgotten, StoppedMeansIdle, Attempts, Running,
                    Handlers
<1> QED
  BY <1>1, <1>3, <1>4, <1>5, <1>6, <1>7, <1>8 DEF IInv

-----------------------------------------------------------------------------
(* The loop thread's steps *)

\* The parts of the invariant that a beginning attempt could break, from where
\* it is begun: st is what startInLoop finds.
LEMMA StartKeeps ==
  ASSUME IInv, NEW st, NEW pending \in Nat, StartOutcome(st, connect_, pending),
         st = state_, ~restarting, user # "startAppend" \/ connect_,
         pending <= timers,
         UNCHANGED <<connect_, clientVars>>, PassInv(Handlers)',
         Queued("resetChannel")' <=> Queued("resetChannel"), QueuedOnce("resetChannel")',
         Queued("stopInLoop")' <=> Queued("stopInLoop"),
         Queued("startInLoop")' => Queued("startInLoop"),
         QueuedOnce("startInLoop") => QueuedOnce("startInLoop")',
         connects <= 1 => /\ st = "kDisconnected" /\ channel_ = "none" /\ pending = 0
                          /\ ~Asking /\ ~Queued("startInLoop")' /\ connects = 1
  PROVE  IInv'
<1> USE DEF clientVars
<1>1. connect_ \in BOOLEAN /\ sockets \in Int /\ timers \in Nat
  BY DEF IInv, BoolTypes, DataTypes
<1>2. BoolTypes'
  BY Zenon DEF IInv, BoolTypes, StartOutcome, StartFails, NotWanted, AttemptBegins, AttemptFailed
<1> USE DEF StartOutcome, StartFails, NotWanted, AttemptBegins, AttemptFailed
<1>3. DataTypes'
  BY <1>1 DEF IInv, DataTypes, UserPC, States
<1>4. ConnectedWhileHeld' /\ NoSocketLeak'
  BY <1>1 DEF IInv, ConnectedWhileHeld, NoSocketLeak
<1>5. ChannelFollows'
  BY DEF IInv, ChannelFollows
<1>6. FirstConnect'
  BY <1>1 DEF IInv, FirstConnect, Asking, DataTypes
<1>7. StartIsWanted' /\ StoppedMeansIdle'
  BY <1>1 DEF IInv, StartIsWanted, StoppedMeansIdle
<1>8. NeverForgotten'
  BY <1>1 DEF IInv, NeverForgotten, Attempts, Running
<1> QED
  BY <1>2, <1>3, <1>4, <1>5, <1>6, <1>7, <1>8 DEF IInv

LEMMA RunStartKeeps ==
  ASSUME IInv, ConnectorStep, runStartInLoop PROVE IInv'
<1> USE DEF runStartInLoop, RanFunctor, ConnectorStep, LoopFree
<1>1. /\ PassInv(Handlers)' /\ Queued("startInLoop")
      /\ QueuedOnce("startInLoop") => ~Queued("startInLoop")' /\ QueuedOnce("startInLoop")'
      /\ Queued("resetChannel")' <=> Queued("resetChannel")
      /\ QueuedOnce("resetChannel") => QueuedOnce("resetChannel")'
      /\ Queued("stopInLoop")' <=> Queued("stopInLoop")
      /\ Queued("startInLoop")' => Queued("startInLoop")
  BY RunsAlone DEF IInv, Handlers
<1>2. connect_ \in BOOLEAN /\ sockets \in Int /\ timers \in Nat /\ retryDelayMs_ \in Delay
  BY DEF IInv, BoolTypes, DataTypes
<1>3. StartOutcome(state_, connect_, timers)
  BY <1>2, StartOutcomes
<1>4. user # "startAppend" \/ connect_
  BY DEF IInv, StartIsWanted
<1>5. QueuedOnce("resetChannel")'
  BY <1>1 DEF IInv, ChannelFollows
<1>6. connects <= 1 => /\ state_ = "kDisconnected" /\ channel_ = "none" /\ timers = 0
                       /\ ~Asking /\ ~Queued("startInLoop")' /\ connects = 1
  BY <1>1 DEF IInv, FirstConnect, DataTypes
<1>7. ~restarting /\ timers <= timers /\ UNCHANGED <<connect_, clientVars>>
  BY <1>2
<1> QED
  BY <1>1, <1>2, <1>3, <1>4, <1>5, <1>6, <1>7, StartKeeps

LEMMA TimerKeeps ==
  ASSUME IInv, ConnectorStep, timerExpires PROVE IInv'
<1> USE DEF timerExpires, ConnectorStep, LoopFree
<1>1. /\ PassInv(Handlers)'
      /\ Queued("startInLoop")' <=> Queued("startInLoop")
      /\ QueuedOnce("startInLoop") => QueuedOnce("startInLoop")'
      /\ Queued("resetChannel")' <=> Queued("resetChannel")
      /\ QueuedOnce("resetChannel") => QueuedOnce("resetChannel")'
      /\ Queued("stopInLoop")' <=> Queued("stopInLoop")
  BY AppendsNone, QueueSame DEF IInv, Handlers
<1>2. connect_ \in BOOLEAN /\ sockets \in Int /\ timers \in Nat /\ retryDelayMs_ \in Delay
      /\ channel_ \in {"none", "watched", "removed"}
      /\ timers > 0 /\ timers - 1 \in Nat /\ timers - 1 <= timers
  BY DEF IInv, BoolTypes, DataTypes
<1>3. StartOutcome(state_, connect_, timers - 1)
  BY <1>2, StartOutcomes
<1>4. user # "startAppend" \/ connect_
  BY DEF IInv, StartIsWanted
<1>5. QueuedOnce("resetChannel")' /\ (state_ # "kConnecting" => channel_ = "none")
  BY <1>1, <1>2 DEF IInv, ChannelFollows
<1>6. connects <= 1 => /\ state_ = "kDisconnected" /\ channel_ = "none" /\ timers - 1 = 0
                       /\ ~Asking /\ ~Queued("startInLoop")' /\ connects = 1
  BY <1>1, <1>2, <1>5 DEF IInv, FirstConnect, DataTypes
<1>7. ~restarting /\ UNCHANGED <<connect_, clientVars>>
  OBVIOUS
<1> QED
  BY <1>1, <1>2, <1>3, <1>4, <1>5, <1>6, <1>7, StartKeeps

\* A restart finds the connector connected, with no channel and no other
\* attempt to come.
LEMMA RestartKeeps ==
  ASSUME IInv, restartConnector PROVE IInv'
<1> USE DEF restartConnector, restart
<1>1. PassInv(Handlers)' /\ \A f \in Handlers :
        (Queued(f)' <=> Queued(f)) /\ (QueuedOnce(f)' <=> QueuedOnce(f))
  BY PassOnKeepsQueue, QueueSame DEF IInv
<1>2. /\ sockets \in Int /\ timers \in Nat /\ kInitRetryDelayMs \in Delay
      /\ state_ = "kConnected" /\ channel_ = "none" /\ sockets = 0 /\ ~connection_
  BY Delays DEF IInv, DataTypes, ConnectedWhileHeld, ChannelFollows, NoSocketLeak
<1>3. StartOutcome("kDisconnected", TRUE, timers)
  BY <1>2, StartOutcomes
<1>4. AttemptBegins(timers) \/ AttemptFailed(timers)
  BY <1>2, <1>3 DEF StartOutcome, StartFails
<1>5. BoolTypes'
  BY <1>4, Zenon DEF IInv, BoolTypes, AttemptBegins, AttemptFailed
<1> USE DEF AttemptBegins, AttemptFailed
<1>6. DataTypes'
  BY <1>2, <1>4 DEF IInv, DataTypes, UserPC, States
<1>7. ConnectedWhileHeld' /\ NoSocketLeak'
  BY <1>2, <1>4 DEF IInv, ConnectedWhileHeld, NoSocketLeak
<1>8. ChannelFollows'
  BY <1>1, <1>2, <1>4 DEF IInv, ChannelFollows, Handlers
<1>9. FirstConnect'
  BY <1>1, <1>2, <1>4 DEF IInv, FirstConnect, Asking, DataTypes, Handlers
<1>10. StartIsWanted' /\ NeverForgotten' /\ StoppedMeansIdle'
  BY <1>1, <1>2, <1>4
  DEF IInv, StartIsWanted, NeverForgotten, StoppedMeansIdle, Attempts, Running, Handlers
<1> QED
  BY <1>1, <1>5, <1>6, <1>7, <1>8, <1>9, <1>10 DEF IInv

\* What the end of an attempt queues.
LEMMA ResetAppended ==
  ASSUME IInv, channel_ = "watched",
         Appends(<<"resetChannel">>) \/ Runs("stopInLoop", <<"resetChannel">>)
  PROVE  /\ PassInv(Handlers)'
         /\ Queued("resetChannel")' /\ QueuedOnce("resetChannel")'
         /\ Queued("startInLoop")' <=> Queued("startInLoop")
         /\ QueuedOnce("startInLoop") => QueuedOnce("startInLoop")'
         /\ Queued("stopInLoop")' => Queued("stopInLoop")
         /\ Appends(<<"resetChannel">>) => (Queued("stopInLoop")' <=> Queued("stopInLoop"))
<1>1. ~Queued("resetChannel") /\ QueuedOnce("resetChannel")
  BY DEF IInv, ChannelFollows
<1>2. "resetChannel" \in Handlers /\ "startInLoop" \in Handlers /\ "stopInLoop" \in Handlers
  BY DEF Handlers
<1>3. CASE Appends(<<"resetChannel">>)
  BY <1>1, <1>2, <1>3, AppendsOne DEF IInv
<1>4. CASE Runs("stopInLoop", <<"resetChannel">>) /\ ~Appends(<<"resetChannel">>)
  BY <1>1, <1>2, <1>4, RunsOne DEF IInv
<1> QED
  BY <1>3, <1>4

\* retry, by stopInLoop of an attempt under way or when the attempt fails.
LEMMA RetryKeeps ==
  ASSUME IInv, LoopFree, UNCHANGED <<connect_, clientVars>>,
         state_ = "kConnecting", channelRemoved,
         retry(connect_, sockets, retryDelayMs_, timers),
         Appends(<<"resetChannel">>) \/ Runs("stopInLoop", <<"resetChannel">>)
  PROVE  IInv'
<1> USE DEF channelRemoved, LoopFree, clientVars
<1>1. channel_ = "watched"
  BY DEF IInv, ChannelFollows
<1>2. /\ PassInv(Handlers)'
      /\ Queued("resetChannel")' /\ QueuedOnce("resetChannel")'
      /\ Queued("startInLoop")' <=> Queued("startInLoop")
      /\ QueuedOnce("startInLoop") => QueuedOnce("startInLoop")'
  BY <1>1, ResetAppended
<1>3. /\ connect_ \in BOOLEAN /\ sockets \in Int /\ timers \in Nat /\ retryDelayMs_ \in Delay
      /\ NextDelay(retryDelayMs_) \in Delay
  BY Delays DEF IInv, BoolTypes, DataTypes
<1>4. /\ sockets' = sockets - 1 /\ state_' = "kDisconnected" /\ UNCHANGED failed
      /\ abandoned' = FALSE /\ retryDelayMs_' \in Delay
      /\ timers' \in {timers, timers + 1} /\ (connect_ => timers' = timers + 1)
  BY <1>3 DEF retry, CloseSocket, NextAttempts
<1>5. BoolTypes'
  BY <1>4, Zenon DEF IInv, BoolTypes
<1>6. DataTypes'
  BY <1>3, <1>4 DEF IInv, DataTypes, UserPC, States
<1>7. ConnectedWhileHeld' /\ NoSocketLeak'
  BY <1>3, <1>4 DEF IInv, ConnectedWhileHeld, NoSocketLeak
<1>8. ChannelFollows'
  BY <1>2, <1>4 DEF IInv, ChannelFollows
<1>9. FirstConnect'
  BY <1>1, <1>2, <1>3, <1>4 DEF IInv, FirstConnect, Asking, DataTypes
<1>10. StartIsWanted' /\ StoppedMeansIdle'
  BY <1>4 DEF IInv, StartIsWanted, StoppedMeansIdle
<1>11. NeverForgotten'
  BY <1>3, <1>4 DEF NeverForgotten, Attempts
<1> QED
  BY <1>2, <1>5, <1>6, <1>7, <1>8, <1>9, <1>10, <1>11 DEF IInv

LEMMA StopKeeps ==
  ASSUME IInv, ConnectorStep, stopInLoop PROVE IInv'
<1> USE DEF stopInLoop, StopAttempt, RanFunctor, ConnectorStep
<1>1. CASE state_ = "kConnecting"
  BY <1>1, RetryKeeps
<1>2. CASE state_ # "kConnecting"
  <2>1. Runs("stopInLoop", <<>>) /\ UNCHANGED <<connVars, clientVars, connect_>>
    BY <1>2
  <2>2. /\ PassInv(Handlers)'
        /\ \A f \in Handlers :
             /\ f # "stopInLoop" => (Queued(f)' <=> Queued(f))
             /\ QueuedOnce(f) => QueuedOnce(f)'
    BY <2>1, RunsAlone DEF IInv, Handlers
  <2>3. BoolTypes'
    BY <2>1, Zenon DEF IInv, BoolTypes, connVars, clientVars
  <2>4. DataTypes' /\ ConnectedWhileHeld' /\ NoSocketLeak'
    BY <2>1 DEF IInv, DataTypes, ConnectedWhileHeld, NoSocketLeak, connVars, clientVars
  <2>5. ChannelFollows' /\ FirstConnect'
    BY <2>1, <2>2
    DEF IInv, ChannelFollows, FirstConnect, Asking, connVars, clientVars, Handlers
  <2>6. StartIsWanted' /\ NeverForgotten'
    BY <2>1, <2>2
    DEF IInv, StartIsWanted, NeverForgotten, Attempts, Running, connVars, clientVars, Handlers
  <2>7. StoppedMeansIdle'
    BY <1>2, <2>1 DEF StoppedMeansIdle, connVars
  <2> QED
    BY <2>2, <2>3, <2>4, <2>5, <2>6, <2>7 DEF IInv
<1> QED
  BY <1>1, <1>2

LEMMA AttemptFailsKeeps ==
  ASSUME IInv, ConnectorStep, attemptFails PROVE IInv'
BY RetryKeeps DEF attemptFails, ConnectorStep, Handling

LEMMA ResetKeeps ==
  ASSUME IInv, ConnectorStep, resetChannel PROVE IInv'
<1> USE DEF resetChannel, RanFunctor, ConnectorStep, clientVars, DestroyChannel
<1>1. /\ PassInv(Handlers)' /\ Queued("resetChannel")
      /\ QueuedOnce("resetChannel") => ~Queued("resetChannel")' /\ QueuedOnce("resetChannel")'
      /\ \A f \in Handlers : /\ f # "resetChannel" => (Queued(f)' <=> Queued(f))
                             /\ QueuedOnce(f) => QueuedOnce(f)'
  BY RunsAlone DEF IInv, Handlers
<1>2. BoolTypes'
  BY Zenon DEF IInv, BoolTypes
<1>3. DataTypes' /\ ConnectedWhileHeld' /\ NoSocketLeak'
  BY DEF IInv, DataTypes, ConnectedWhileHeld, NoSocketLeak
<1>4. ChannelFollows'
  BY <1>1 DEF IInv, ChannelFollows
<1>5. FirstConnect'
  BY <1>1 DEF IInv, FirstConnect, Asking, Handlers
<1>6. StartIsWanted' /\ NeverForgotten' /\ StoppedMeansIdle'
  BY <1>1
  DEF IInv, StartIsWanted, NeverForgotten, StoppedMeansIdle, Attempts, Running, Handlers
<1> QED
  BY <1>1, <1>2, <1>3, <1>4, <1>5, <1>6 DEF IInv

LEMMA ConnectedKeeps ==
  ASSUME IInv, newConnection PROVE IInv'
<1> USE DEF newConnection, handleWrite, channelRemoved, LoopFree, CloseSocket
<1>1. channel_ = "watched" /\ state_ = "kConnecting" /\ Appends(<<"resetChannel">>)
  OBVIOUS
<1>2. /\ PassInv(Handlers)'
      /\ Queued("resetChannel")' /\ QueuedOnce("resetChannel")'
      /\ Queued("startInLoop")' <=> Queued("startInLoop")
      /\ QueuedOnce("startInLoop") => QueuedOnce("startInLoop")'
  BY <1>1, ResetAppended
<1>3. sockets' = sockets - 1 /\ sockets \in Int /\ timers \in Nat
  BY DEF IInv, DataTypes
<1>4. BoolTypes'
  BY Zenon DEF IInv, BoolTypes
<1>5. DataTypes'
  BY <1>3 DEF IInv, DataTypes, UserPC, States
<1>6. ConnectedWhileHeld' /\ NoSocketLeak'
  BY <1>3 DEF IInv, ConnectedWhileHeld, NoSocketLeak
<1>7. ChannelFollows'
  BY <1>2 DEF IInv, ChannelFollows
<1>8. FirstConnect'
  BY <1>2, <1>3 DEF IInv, FirstConnect, Asking, DataTypes
<1>9. StartIsWanted' /\ NeverForgotten' /\ StoppedMeansIdle'
  BY DEF IInv, StartIsWanted, NeverForgotten, StoppedMeansIdle
<1> QED
  BY <1>2, <1>4, <1>5, <1>6, <1>7, <1>8, <1>9 DEF IInv

\* The connection closes, or the pass goes on, or nothing happens.
LEMMA RemovalKeeps ==
  ASSUME IInv, removeConnection \/ (ConnectorStep /\ passOn) \/ UNCHANGED allVars
  PROVE  IInv'
<1>1. /\ UNCHANGED <<connect_, connVars, connected_, user, inLoopThread, connects, stops>>
      /\ swapFunctors \/ functorsDone \/ UNCHANGED passVars
      /\ \/ UNCHANGED <<connection_, restarting>>
         \/ /\ connection_ /\ ~restarting /\ ~connection_' /\ ~Queued("resetChannel")
            /\ connection_' = FALSE /\ restarting' = MustRestart
  BY DEF removeConnection, ConnectorStep, passOn, allVars, clientVars, LoopFree
<1>2. PassInv(Handlers)' /\ \A f \in Handlers :
        (Queued(f)' <=> Queued(f)) /\ (QueuedOnce(f)' <=> QueuedOnce(f))
  BY <1>1, PassOnKeepsQueue, QueueSame DEF IInv
<1>3. BoolTypes'
  BY <1>1, ClientAssumption, Zenon DEF IInv, BoolTypes, connVars, MustRestart
<1>4. DataTypes' /\ NoSocketLeak'
  BY <1>1 DEF IInv, DataTypes, NoSocketLeak, connVars
<1>5. ConnectedWhileHeld'
  BY <1>1 DEF IInv, ConnectedWhileHeld, connVars
<1>6. ChannelFollows' /\ FirstConnect'
  BY <1>1, <1>2 DEF IInv, ChannelFollows, FirstConnect, Asking, connVars, Handlers
<1>7. StartIsWanted' /\ StoppedMeansIdle'
  BY <1>1, <1>2 DEF IInv, StartIsWanted, StoppedMeansIdle, connVars, Handlers
<1>8. NeverForgotten'
  BY <1>1, <1>2
  DEF IInv, NeverForgotten, ConnectedWhileHeld, Attempts, Running, connVars, Handlers
<1> QED
  BY <1>2, <1>3, <1>4, <1>5, <1>6, <1>7, <1>8 DEF IInv

-----------------------------------------------------------------------------
LEMMA NextIInv == IInv /\ [Next]_allVars => IInv'
<1> SUFFICES ASSUME IInv, [Next]_allVars PROVE IInv'
  OBVIOUS
<1>1. CASE clientConnect \/ start \/ disconnect \/ clientStop \/ stop \/ destroy \/ destroyStop
  <2>1. UNCHANGED <<connVars, passVars>>
    BY <1>1 DEF clientConnect, start, disconnect, clientStop, stop, destroy, destroyStop,
                Calls, passVars
  <2> QED
    BY <1>1, <2>1, FlagsKeep
<1>2. CASE startAppend
  BY <1>2, StartAppended, StartedAtOnce
<1>3. CASE stopAppend \/ destroyAppend \/ destroyRelease
  BY <1>3, StopAppended, ReleaseKeeps
<1>4. CASE ConnectorStep
  BY <1>4, RunStartKeeps, StopKeeps, ResetKeeps, TimerKeeps, AttemptFailsKeeps, RemovalKeeps
  DEF ConnectorStep
<1>5. CASE newConnection \/ removeConnection \/ restartConnector \/ UNCHANGED allVars
  BY <1>5, ConnectedKeeps, RemovalKeeps, RestartKeeps
<1> QED
  BY <1>1, <1>2, <1>3, <1>4, <1>5 DEF Next, User

LEMMA Invariant == Spec => []IInv
BY InitIInv, NextIInv, PTL DEF Spec

-----------------------------------------------------------------------------
\* The state of the client and its connector is well typed: the delay between
\* attempts stays in its range, however often it is doubled.
THEOREM TypeCorrect == Spec => []TypeOK
<1>1. IInv => TypeOK
  <2> SUFFICES ASSUME IInv PROVE TypeOK
    OBVIOUS
  <2>1. BoolTypes /\ DataTypes /\ PassTypeOK(Handlers)
    BY DEF IInv, PassInv
  <2> QED
    BY <2>1, Zenon DEF TypeOK, ConnectorTypeOK, BoolTypes, DataTypes, Delay
<1> QED
  BY <1>1, Invariant, PTL

\* A client on which connect is called once never has two attempts in the making,
\* and its assertions hold, for any number of stops and disconnects.
THEOREM OneAttemptAtATime == Spec => []OneAttempt
<1>1. IInv => OneAttempt
  BY DEF IInv, DataTypes, ConnectedWhileHeld, FirstConnect, OneAttempt, Attempts
<1> QED
  BY <1>1, Invariant, PTL

\* The connector neither leaks a socket nor closes one twice, for any number of
\* calls of connect too.
THEOREM SocketsAccounted == Spec => []NoSocketLeak
<1>1. IInv => NoSocketLeak
  BY DEF IInv
<1> QED
  BY <1>1, Invariant, PTL

\* A connector that is wanted and not connected has an attempt to come.
THEOREM WantedIsAttempted == Spec => []NeverForgotten
<1>1. IInv => NeverForgotten
  BY DEF IInv
<1> QED
  BY <1>1, Invariant, PTL

\* A stop whose functor has run has ended the attempt.
THEOREM StopEndsAttempt == Spec => []StoppedMeansIdle
<1>1. IInv => StoppedMeansIdle
  BY DEF IInv
<1> QED
  BY <1>1, Invariant, PTL
=============================================================================
