---------------------------- MODULE TcpConnection ----------------------------
(***************************************************************************)
(* TcpConnection (zdq_tcp_connection.h, zdq_tcp_connection.cpp) from the   *)
(* moment its owner creates it to its end: the I/O loop that serves it,    *)
(* the threads that call send, shutdown and forceClose, the peer, and the  *)
(* owner that removes it: a TcpClient, which may itself be destroyed, or a *)
(* TcpServer whose own loop is the I/O loop or another.  The connection is *)
(* freed with the last shared pointer to it.                               *)
(*                                                                         *)
(* Of the output buffer it counts whether it is empty.  Reading a message  *)
(* and failing to read change nothing here.  The channel has no write,     *)
(* error or close callback (the constructor sets the read callback only),  *)
(* so handleWrite is never called.                                         *)
(***************************************************************************)
EXTENDS Naturals, LoopPass

CONSTANTS
  Loop,       \* the thread of the I/O loop
  Users,      \* the other threads that hold the connection
  UserCalls,  \* what they call
  MaxCalls,   \* bound: calls of send, shutdown and forceClose
  Owners      \* who can create it

ASSUME ConnectionAssumption ==
  /\ Loop \notin Users
  /\ "none" \notin Users \cup {Loop}
  /\ UserCalls \subseteq {"send", "shutdown", "forceClose"}
  /\ MaxCalls \in Nat
  /\ Owners \subseteq {"client", "server", "threadedServer"}

VARIABLES
  owner,       \* a TcpClient, a TcpServer in its own loop, or one with a pool
  writeCompleteCallback_,  \* whether there is one
  state_,
  events,      \* what channel_ waits for
  outputBuf_,  \* 1 when something waits to be written, else 0
  conns_,      \* the owner: "none", "held", "erased"
  removing,    \* removeConnectionInLoop, queued in the server's loop
  closeCallback_,  \* "owner", or "placeholder" once the owner has replaced it
  destroyer,   \* the thread that destroyed the TcpClient
  abandoned,   \* history: it was destroyed while others shared the connection
  holding,     \* the users that keep a shared pointer
  kept,        \* a functor of this batch that shares the connection has run
  call,        \* call[t]: the call in which t has found state_ to allow it, then what
               \* it has yet to queue once it has set state_
  calls,       \* calls made so far
  peer,        \* whether the peer has closed or reset the connection
  fin,         \* shutdownWrite has been called
  closes,      \* history: calls of closeCallback_
  removes,     \* history: calls of removeChannel
  stale,       \* history: a call has acted on a state_ that no longer allowed
               \* it, or has overtaken a send
  late,        \* history: a functor bound to the raw pointer was queued after the close
  failed       \* why the program ended: "none" so far

connVars == <<state_, events, outputBuf_, conns_, removing, fin, closes, removes, failed>>
ownerVars == <<closeCallback_, destroyer, abandoned>>
constVars == <<owner, writeCompleteCallback_>>
vars == <<constVars, ownerVars, connVars, passVars, call, calls, peer, stale, late,
          holding, kept>>
restVars == <<constVars, ownerVars, call, calls, peer, late>>

Threads == Users \cup {Loop}
Calls == {"send", "shutdown", "forceClose"}

Running == failed = "none"
SameLoop == owner # "threadedServer"
isWriteing == "write" \in events

\* The I/O loop is at its own code, not in a call made by one of its callbacks.
LoopFree == Running /\ call[Loop] = "none"

\* Functors bound to a shared pointer; sendInLoop and shutdownInLoop are bound to
\* the raw one.
ForceCloseUnshared ==
  {"connectEstablished", "connectDestroyed", "setCloseCallback", "writeComplete"}
Sharing == {"connectEstablished", "connectDestroyed", "forceCloseInLoop",
            "setCloseCallback", "writeComplete"}

\* What keeps the TcpConnection, hence its socket, alive: the owner, functors
\* that share it (those of a batch until it is done) and a close callback that the
\* server bound to the connection itself (TcpClient binds a placeholder); then
\* users, and the callers of a call.
Shares ==
  (IF conns_ = "held" THEN {"conns_"} ELSE {})
    \cup {f \in Sharing : Queued(f)}
    \cup (IF kept THEN {"functors"} ELSE {})
    \cup (IF removing > 0 THEN {"removeConnectionInLoop"} ELSE {})
    \cup (IF conns_ # "none" /\ owner # "client" THEN {"closeCallback_"} ELSE {})
Callers == {t \in Threads : call[t] # "none"}
Alive == Shares # {} \/ holding # {} \/ Callers # {}

RanFunctor(f, new) ==
  /\ LoopFree /\ Alive
  /\ Runs(f, new)
  /\ kept' = (kept \/ f \in Sharing)

\* Channel::update, which may not follow removeChannel: the poller asserts that
\* it knows the channel.
update(ev) ==
  IF removes = 0
  THEN events' = ev /\ UNCHANGED failed
  ELSE failed' = "updateChannel" /\ UNCHANGED events

-----------------------------------------------------------------------------
(* Handlers of the I/O loop *)

ForgetReading == UNCHANGED <<events, failed>>
EnableReading == update(events \cup {"read"})

connectEstablished ==
  /\ state_' = "kConnected"
  /\ EnableReading
  /\ UNCHANGED <<outputBuf_, fin, closes, removes>>

\* A client's socket is non-blocking, one that accept returned is not.
NonBlocking == owner = "client"
MayWrite == ~isWriteing /\ outputBuf_ = 0

\* write fails after shutdownWrite, may fail once the peer is gone, and fails when
\* it would block: ERR_EXIT ends the program in each case.
WriteFails ==
  /\ MayWrite
  /\ \/ fin /\ failed' = "EPIPE"
     \/ ~fin /\ peer /\ failed' = "reset"
     \/ ~fin /\ NonBlocking /\ failed' = "EAGAIN"
  /\ UNCHANGED <<events, outputBuf_>>

\* A blocking write takes all of the message.
Completed == IF writeCompleteCallback_ THEN <<"writeComplete">> ELSE <<>>
WriteWhole ==
  /\ MayWrite /\ ~fin
  /\ UNCHANGED <<events, outputBuf_, failed>>

WritePart ==
  /\ MayWrite => ~fin /\ NonBlocking
  /\ outputBuf_' = 1
  /\ IF isWriteing THEN UNCHANGED <<events, failed>> ELSE update(events \cup {"write"})

\* sendInLoop does not look at state_.  It queues the functors of new.
sendInLoop(new) ==
  /\ \/ WriteWhole /\ new = Completed
     \/ (WriteFails \/ WritePart) /\ new = <<>>
  /\ UNCHANGED <<state_, conns_, removing, fin, closes, removes>>

\* shutdown(2) fails on a socket that the peer has reset.
shutdownInLoop ==
  /\ fin' = (fin \/ ~isWriteing)
  /\ failed' \in (IF peer /\ ~isWriteing THEN {"none", "ENOTCONN"} ELSE {"none"})
  /\ UNCHANGED <<events, outputBuf_, conns_, removing, closes, removes>>

DisableAll == update({})

Erase == conns_' = "erased"

DestroyNext == IF SameLoop THEN <<"connectDestroyed">> ELSE <<>>

\* The close callback of a client that has been destroyed calls into freed memory.
OwnerGone == closeCallback_ = "owner" /\ destroyer # "none" /\ conns_ = "erased"

\* disableAll, which aborts if the channel has been removed, then closeCallback_:
\* in the owner's loop, erase the connection and queue connectDestroyed in the
\* I/O loop; the placeholder of a destroyed client does the latter only.
\* DestroyNext is what the I/O loop queues itself.
handleClose ==
  /\ state_' = "kDisconnected"
  /\ IF removes = 0 /\ OwnerGone
     THEN failed' = "noOwner" /\ events' = {}
     ELSE DisableAll
  /\ IF removes > 0 \/ OwnerGone
     THEN UNCHANGED <<conns_, removing, closes>>
     ELSE /\ closes' = closes + 1
          /\ IF SameLoop
             THEN Erase /\ UNCHANGED removing
             ELSE removing' = removing + 1 /\ UNCHANGED conns_
  /\ UNCHANGED <<outputBuf_, fin, removes>>

-----------------------------------------------------------------------------
(* Steps of the I/O loop *)

\* handleRead, when read returns 0.
handleRead ==
  /\ LoopFree /\ Alive /\ half = "handle"
  /\ "read" \in events /\ peer
  /\ handleClose
  /\ Appends(DestroyNext)
  /\ UNCHANGED <<restVars, stale, holding, kept>>

\* The connection callback hands the connection to the users.
runEstablished ==
  /\ RanFunctor("connectEstablished", <<>>)
  /\ connectEstablished
  /\ holding' = Users
  /\ UNCHANGED <<conns_, removing, restVars, stale>>

runSend ==
  /\ \E new \in {<<>>, Completed} : RanFunctor("sendInLoop", new) /\ sendInLoop(new)
  /\ UNCHANGED <<restVars, stale, holding>>

runShutdown ==
  /\ RanFunctor("shutdownInLoop", <<>>)
  /\ shutdownInLoop
  /\ UNCHANGED <<state_, restVars, stale, holding>>

\* A functor bound to the raw pointer of a connection that is gone.
runFreed ==
  /\ LoopFree /\ ~Alive
  /\ Runs("sendInLoop", <<>>) \/ Runs("shutdownInLoop", <<>>)
  /\ failed' = "freed"
  /\ UNCHANGED <<state_, events, outputBuf_, conns_, removing, fin, closes, removes,
                 restVars, stale, holding, kept>>

CloseAnyway == TRUE
CloseNever == FALSE
MayClose == state_ \in {"kConnected", "kDisconnecting"}

forceCloseInLoop ==
  /\ IF MayClose
     THEN RanFunctor("forceCloseInLoop", DestroyNext) /\ handleClose
     ELSE RanFunctor("forceCloseInLoop", <<>>) /\ UNCHANGED connVars
  /\ UNCHANGED <<restVars, stale, holding>>

setCloseCallback ==
  /\ RanFunctor("setCloseCallback", <<>>)
  /\ closeCallback_' = "placeholder"
  /\ UNCHANGED <<connVars, constVars, destroyer, abandoned, call, calls, peer, stale, late,
                 holding>>

\* The callback of the user; its calls are those of thread Loop.
runWriteComplete ==
  /\ RanFunctor("writeComplete", <<>>)
  /\ UNCHANGED <<connVars, restVars, stale, holding>>

\* removeChannel; before it, the close of a connection still kConnected.
connectDestroyed ==
  /\ RanFunctor("connectDestroyed", <<>>)
  /\ removes' = removes + 1
  /\ IF state_ = "kConnected"
     THEN state_' = "kDisconnected" /\ update({})
     ELSE UNCHANGED <<state_, events, failed>>
  /\ UNCHANGED <<outputBuf_, conns_, removing, fin, closes, restVars, stale, holding>>

\* The functors of a batch are freed when all of them have run.
passOn ==
  /\ LoopFree
  /\ \/ swapFunctors /\ UNCHANGED kept
     \/ functorsDone /\ kept' = FALSE
  /\ UNCHANGED <<connVars, restVars, stale, holding>>

-----------------------------------------------------------------------------
(* Calls: state_ is read first and acted on later, without a lock. *)

MayCall(t, c) ==
  /\ Running /\ call[t] = "none" /\ calls < MaxCalls
  /\ conns_ # "none" /\ Alive
  /\ t \in Users => t \in holding /\ c \in UserCalls

AnyState(c) == TRUE
StateAllows(c) ==
  \/ state_ = "kConnected"
  \/ c = "forceClose" /\ state_ = "kDisconnecting"

enter(t, c) ==
  /\ MayCall(t, c) /\ StateAllows(c)
  /\ call' = [call EXCEPT ![t] = c]
  /\ calls' = calls + 1
  /\ UNCHANGED <<constVars, ownerVars, connVars, passVars, peer, stale, late, holding, kept>>

\* A shutdown that another, or a forceClose, has preceded changes nothing.
Repeats(c) == c = "shutdown" /\ state_ = "kDisconnecting"
Outdated(c) == ~StateAllows(c) /\ ~Repeats(c)

\* What is left to do after setState(kDisconnecting).
Rest == [shutdown |-> "queueShutdown", forceClose |-> "queueForceClose"]

setDisconnecting(t) ==
  /\ Running /\ call[t] \in DOMAIN Rest
  /\ call' = [call EXCEPT ![t] = Rest[call[t]]]
  /\ stale' = (stale \/ Outdated(call[t]))
  /\ state_' = "kDisconnecting"
  /\ UNCHANGED <<constVars, ownerVars, passVars, calls, peer, late, holding, kept,
                 events, outputBuf_, conns_, removing, fin, closes, removes, failed>>

Finishes(t, c) ==
  /\ Running /\ call[t] = c
  /\ call' = [call EXCEPT ![t] = "none"]
  /\ UNCHANGED <<constVars, ownerVars, calls, peer, holding, kept>>

\* f is bound to this, not to a shared pointer.
QueuesRaw(f) == Appends(<<f>>) /\ late' = (late \/ closes > 0)

send(t) ==
  /\ Finishes(t, "send")
  /\ stale' = (stale \/ Outdated("send"))
  /\ IF t = Loop
     THEN (\E new \in {<<>>, Completed} : Appends(new) /\ sendInLoop(new)) /\ UNCHANGED late
     ELSE QueuesRaw("sendInLoop") /\ UNCHANGED connVars

\* In the loop thread it is done at once, and overtakes the sends queued.
Overtakes(t) == t = Loop /\ Queued("sendInLoop") /\ ~isWriteing

shutdown(t) ==
  /\ Finishes(t, "queueShutdown")
  /\ stale' = (stale \/ Overtakes(t))
  /\ IF t = Loop
     THEN shutdownInLoop /\ UNCHANGED <<passVars, late, state_>>
     ELSE QueuesRaw("shutdownInLoop") /\ UNCHANGED connVars

\* It is also the end of a destructor that found the client the only owner.
forceClose(t) ==
  /\ Finishes(t, "queueForceClose")
  /\ Appends(<<"forceCloseInLoop">>)
  /\ IF destroyer = t THEN Erase ELSE UNCHANGED conns_
  /\ UNCHANGED <<state_, events, outputBuf_, removing, fin, closes, removes, failed, stale, late>>

\* A user drops its shared pointer.
letGo(t) ==
  /\ Running /\ t \in holding /\ call[t] = "none"
  /\ holding' = holding \ {t}
  /\ UNCHANGED <<constVars, ownerVars, connVars, passVars, call, calls, peer, stale, late, kept>>

-----------------------------------------------------------------------------
(* The owner and the peer *)

\* TcpServer::newConnection or TcpClient::newConnection
newConnection ==
  /\ Running /\ conns_ = "none"
  /\ conns_' = "held"
  /\ IF SameLoop
     THEN LoopFree /\ connectEstablished /\ holding' = Users /\ UNCHANGED <<passVars, removing>>
     ELSE /\ Appends(<<"connectEstablished">>)
          /\ UNCHANGED <<state_, events, outputBuf_, removing, fin, closes, removes, failed,
                         holding>>
  /\ UNCHANGED <<restVars, stale, kept>>

removeConnectionInLoop ==
  /\ Running /\ removing > 0
  /\ removing' = removing - 1
  /\ Erase
  /\ Appends(<<"connectDestroyed">>)
  /\ UNCHANGED <<state_, events, outputBuf_, fin, closes, removes, failed,
                 restVars, stale, holding, kept>>

\* Nobody but the client, nor a callback that is under way, shares the connection.
unique(inCallback) == Shares = {"conns_"} /\ holding = {} /\ Callers = {} /\ ~inCallback

\* ~TcpClient while there is a connection: the close callback is replaced by
\* runInLoop, and a connection that nobody shares is then closed by forceClose.
\* One that is shared is left to those who share it.
destroyClient(t, inCallback) ==
  /\ Running /\ call[t] = "none"
  /\ owner = "client" /\ conns_ = "held" /\ destroyer = "none"
  /\ inCallback => state_ = "kConnected"
  /\ destroyer' = t
  /\ abandoned' = ~unique(inCallback)
  /\ IF unique(inCallback) /\ MayClose
     THEN call' = [call EXCEPT ![t] = "forceClose"] /\ UNCHANGED conns_
     ELSE Erase /\ UNCHANGED call
  /\ IF t = Loop
     THEN closeCallback_' = "placeholder" /\ UNCHANGED passVars
     ELSE Appends(<<"setCloseCallback">>) /\ UNCHANGED closeCallback_
  /\ UNCHANGED <<constVars, state_, events, outputBuf_, removing, fin, closes, removes,
                 failed, calls, peer, stale, late, holding, kept>>

peerCloses ==
  /\ Running /\ ~peer /\ conns_ # "none"
  /\ peer' = TRUE
  /\ UNCHANGED <<constVars, ownerVars, connVars, passVars, call, calls, stale, late, holding,
                 kept>>

-----------------------------------------------------------------------------
Init ==
  /\ owner \in Owners /\ writeCompleteCallback_ \in BOOLEAN
  /\ closeCallback_ = "owner" /\ destroyer = "none" /\ abandoned = FALSE
  /\ holding = {} /\ kept = FALSE /\ stale = FALSE /\ late = FALSE
  /\ state_ = "kConnecting" /\ events = {} /\ outputBuf_ = 0
  /\ conns_ = "none" /\ removing = 0
  /\ call = [t \in Threads |-> "none"] /\ calls = 0
  /\ peer = FALSE /\ fin = FALSE
  /\ closes = 0 /\ removes = 0 /\ failed = "none"
  /\ PassInit

LoopStep ==
  \/ handleRead \/ runEstablished \/ runSend \/ runShutdown \/ runFreed
  \/ forceCloseInLoop \/ setCloseCallback \/ runWriteComplete \/ connectDestroyed
  \/ passOn

Next ==
  \/ LoopStep \/ newConnection \/ removeConnectionInLoop \/ peerCloses
  \/ \E t \in Threads :
       \/ \E c \in Calls : enter(t, c)
       \/ setDisconnecting(t) \/ send(t) \/ shutdown(t) \/ forceClose(t) \/ letGo(t)
       \/ \E inCallback \in BOOLEAN : destroyClient(t, inCallback)

Spec == Init /\ [][Next]_vars

\* Every loop goes round and dispatches what is ready, threads finish the calls
\* they have begun.  Nothing makes the peer close or anybody call.
Fairness ==
  /\ SF_vars(handleRead) /\ SF_vars(passOn)
  /\ WF_vars(runEstablished \/ runSend \/ runShutdown \/ forceCloseInLoop
               \/ setCloseCallback \/ runWriteComplete \/ connectDestroyed)
  /\ WF_vars(removeConnectionInLoop)
  /\ \A t \in Threads : WF_vars(setDisconnecting(t) \/ send(t) \/ shutdown(t) \/ forceClose(t))

FairSpec == Spec /\ Fairness

-----------------------------------------------------------------------------
\* While no call acts on a state_ that has changed since it was tested, and no
\* shutdown in the loop thread overtakes a send, the owner is told of the close
\* once, whichever of the peer, a forceClose and the loop is first:
\* TcpClient::removeConnection asserts that it still holds the connection, and the
\* poller removes a channel once.
ClosedOnce == ~stale => closes <= 1 /\ removes <= 1

\* Nor does such a connection end the program: nothing is written after
\* shutdownWrite, and the channel is not used once it is removed (the assertion
\* of updateChannel), although both are decided by functors that run later, when
\* the connection may be shutting down or closed.
StaysAlive == ~stale => failed \notin {"EPIPE", "updateChannel"}

InPoller == state_ # "kConnecting" /\ removes = 0

\* The connection is not freed while its channel is in the poller, whichever of the
\* users, the owner and the functors lets go of it last, and whatever state_ a call
\* acted on; a client destroyed while others share the connection is excepted
\* (abandoned).  The two functors that are bound to its raw pointer do not find it
\* freed either, except, besides, one that was queued after the close by a send or
\* shutdown that had tested state_ before it (late), which nothing in the code
\* prevents.  Destroyed in the loop thread, a client is not called back any more.
NothingDangles ==
  /\ ~abandoned => (InPoller => Alive)
  /\ ~abandoned /\ ~late => failed # "freed"
  /\ destroyer = Loop => failed # "noOwner"

\* When the peer closes, the poller, the owner, the functors and a client's
\* callbacks let go of the connection, unless the program ends before or the
\* client has abandoned it.
PeerCloseHandled ==
  peer ~> \/ removes > 0 /\ Shares \subseteq {"closeCallback_"}
          \/ ~Running
          \/ abandoned /\ ~Alive

\* A forceClose closes the connection, whoever else closes it meanwhile; so does
\* the destructor of a client that shares it with nobody.
ForcedCloseCloses ==
  (\E t \in Threads : call[t] = "forceClose") ~> state_ = "kDisconnected" \/ ~Running

\* "Not all written: keep it for the moment": what is kept is written, unless
\* the connection is closed first.
BufferedIsWritten ==
  outputBuf_ > 0 ~> outputBuf_ = 0 \/ closes > 0 \/ destroyer # "none" \/ ~Running
=============================================================================
