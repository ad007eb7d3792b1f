------------------------------- MODULE IoLoop -------------------------------
(***************************************************************************)
(* What one event loop does with its Poller: loop() of zdq_event_loop.cpp  *)
(* takes the raw pointers that poll reports and calls handleEvent on one   *)
(* after the other, while the callbacks, those of TcpConnection,           *)
(* TcpServer, TcpClient and Connector, register, disable and remove        *)
(* channels and destroy them, at once or in a functor at the end of the    *)
(* pass.  Modules TcpConnection and Connector have each of them alone;     *)
(* here they share the poller, and a descriptor that is closed is reused.  *)
(***************************************************************************)
EXTENDS Poller, LoopPass

CONSTANTS
  Accepted,  \* descriptors of a server's connections
  Outgoing,  \* descriptors for a client's attempts and connections
  MaxPending \* bound: functors pending when another thread calls send or forceClose

\* The other channels are the loop's own and the acceptor's, never disabled.
Internal == Channel \ (Accepted \cup Outgoing)

ASSUME IoLoopAssumption ==
  /\ Accepted \cup Outgoing \subseteq Channel /\ Accepted \cap Outgoing = {}
  /\ Internal # {} /\ IsFiniteSet(Internal)
  /\ MaxPending \in Nat

VARIABLES
  serves,    \* per descriptor: "free", "connecting" (a Connector's channel), then
             \* the state of its TcpConnection, and "removed" from the poller
  oldChannel,  \* the connector has a removed channel that resetChannel destroys
  polled,    \* poll has returned in this pass
  calls      \* the calls of Channel's members still to come in the handler that
             \* the loop is in

loopVars == <<passVars, serves, oldChannel, polled>>
allVars == <<vars, loopVars, calls>>

Ops == {"new", "enableReading", "enableWriteing", "disableAll", "remove",
        "removeChannel"}
Do(op, c) == [op |-> op, channel |-> c]
Functor(f, c) == [functor |-> f, channel |-> c]

\* The loop thread is not in the middle of a handler.
LoopFree == ~crashed /\ calls = <<>>

Attach(op, c) == <<Do("new", c), Do(op, c)>>
DisableOnly(c) == <<Do("disableAll", c)>>
Detach(c) == <<Do("disableAll", c), Do("remove", c)>>

Becomes(c, s) == serves' = [serves EXCEPT ![c] = s]

-----------------------------------------------------------------------------
(* The calls of a handler, one step each *)

newChannel(c) ==
  /\ events_' = [events_ EXCEPT ![c] = {}]
  /\ index_' = [index_ EXCEPT ![c] = -1]
  /\ UNCHANGED <<pollfds_, channels_, activeChannels_, crashed>>

nextCall ==
  /\ calls # <<>>
  /\ calls' = Tail(calls)
  /\ LET op == Head(calls).op
         c  == Head(calls).channel
     IN  \/ op = "new" /\ ~crashed /\ newChannel(c)
         \/ op = "enableReading" /\ enable(c, "read")
         \/ op = "enableWriteing" /\ enable(c, "write")
         \/ op = "disableAll" /\ disableAll(c)
         \/ op = "remove" /\ remove(c)
         \/ op = "removeChannel" /\ removeChannel(c)
  /\ UNCHANGED loopVars

-----------------------------------------------------------------------------
(* Handlers.  Each says what it calls and what it queues. *)

\* An attempt takes a descriptor that is not in use, and a new channel.
attempts == {k \in Outgoing : serves[k] = "free" /\ ~oldChannel}
Idle == \A k \in Outgoing : serves[k] \notin {"connecting", "connected"}

connect(k) == calls' = Attach("enableWriteing", k) /\ Becomes(k, "connecting")

\* removeConnection of the owner queues connectDestroyed and, in a client that
\* retries, restarts the connector at once.
DestroyNever(c) == <<>>
DestroyNext(c) == <<Functor("connectDestroyed", c)>>
handleClose(c) ==
  \/ /\ calls' = <<Do("disableAll", c)>>
     /\ Becomes(c, "disconnected")
  \/ /\ c \in Outgoing
     /\ \E k \in attempts :
          /\ calls' = <<Do("disableAll", c)>> \o Attach("enableWriteing", k)
          /\ serves' = [serves EXCEPT ![c] = "disconnected", ![k] = "connecting"]

ResetLater == <<Functor("resetChannel", NoFd)>>

\* removeAndResetChannel; the descriptor is closed, or goes on to a connection
\* with a channel of its own.
attemptFails(k) == calls' = Detach(k) /\ Becomes(k, "free")
attemptSucceeds(k) ==
  calls' = Detach(k) \o Attach("enableReading", k) /\ Becomes(k, "connected")

-----------------------------------------------------------------------------
(* First half of a pass: poll, then handleEvent for each active channel *)

pollOnce ==
  /\ LoopFree /\ half = "handle" /\ ~polled
  /\ poll
  /\ polled' = TRUE
  /\ UNCHANGED <<passVars, serves, oldChannel, calls>>

HandleEvent(c) ==
  /\ LoopFree /\ half = "handle" /\ activeChannels_ # <<>> /\ c = Head(activeChannels_)
  /\ activeChannels_' = Tail(activeChannels_)
  /\ UNCHANGED <<events_, index_, pollfds_, channels_, crashed, polled>>

\* A functor that is pending stands for several.
Queues(f, c) == ~Queued(Functor(f, c)) /\ Appends(<<Functor(f, c)>>)

ForceCloseAtOnce(d) == handleClose(d) /\ Appends(DestroyNext(d))
ForceClose(d) == Queues("forceCloseInLoop", d) /\ UNCHANGED <<serves, calls>>

\* What a callback of the user may do: nothing to the poller, send to a client's
\* connection (an accepted socket is blocking, a send leaves nothing to wait for),
\* or force a connection to close.
callback ==
  \/ Appends(<<>>) /\ UNCHANGED <<serves, calls>>
  \/ \E d \in Outgoing :
       /\ serves[d] = "connected" /\ calls' = <<Do("enableWriteing", d)>>
       /\ Appends(<<>>) /\ UNCHANGED serves
  \/ \E d \in Accepted \cup Outgoing : serves[d] = "connected" /\ ForceClose(d)

messageArrives(c) ==
  /\ serves[c] = "connected" /\ HandleEvent(c)
  /\ callback
  /\ UNCHANGED oldChannel

\* A wakeup or the timer of a user, the timer of the connector, or a connection
\* to accept.
internalEvent(c) ==
  /\ c \in Internal /\ HandleEvent(c)
  /\ \/ callback
     \/ Idle /\ (\E k \in attempts : connect(k)) /\ Appends(<<>>)
     \/ /\ \E s \in Accepted :
             /\ serves[s] = "free"
             /\ calls' = Attach("enableReading", s) /\ Becomes(s, "connected")
        /\ Appends(<<>>)
  /\ UNCHANGED oldChannel

peerCloses(c) ==
  /\ serves[c] = "connected" /\ HandleEvent(c)
  /\ handleClose(c)
  /\ Appends(DestroyNext(c))
  /\ UNCHANGED oldChannel

attemptEnds(k) ==
  /\ serves[k] = "connecting" /\ HandleEvent(k)
  /\ attemptFails(k) \/ attemptSucceeds(k)
  /\ Appends(ResetLater)
  /\ oldChannel' = TRUE

-----------------------------------------------------------------------------
(* Second half: functors *)

RunFunctor(f, c, new) ==
  /\ LoopFree /\ Runs(Functor(f, c), new)
  /\ UNCHANGED <<vars, polled>>

forceCloseInLoop(c) ==
  /\ IF serves[c] = "connected"
     THEN RunFunctor("forceCloseInLoop", c, DestroyNext(c)) /\ handleClose(c)
     ELSE RunFunctor("forceCloseInLoop", c, <<>>) /\ UNCHANGED <<serves, calls>>
  /\ UNCHANGED oldChannel

connectDestroyed(c) ==
  /\ RunFunctor("connectDestroyed", c, <<>>)
  /\ calls' = <<Do("removeChannel", c)>> /\ Becomes(c, "removed")
  /\ UNCHANGED oldChannel

\* A send of another thread, run when the connection is still connected, or closed
\* and not yet removed: the channel waits for what could not be written.
sendInLoop(k) ==
  /\ RunFunctor("sendInLoop", k, <<>>)
  /\ \/ UNCHANGED calls
     \/ calls' = <<Do("enableWriteing", k)>>
  /\ UNCHANGED <<serves, oldChannel>>

\* Functors of calls that acted on a state_ that they had tested before the close.
\* Run after the removal, they may update the removed channel, which an assertion of
\* updateChannel forbids, or find the connection freed.  A forceClose queued before
\* the close closes again if another call has set state_ back: a client asserts that
\* it still holds the connection, and a server has the channel removed twice, the
\* second time with the position of another's entry.  What follows is left out:
\* crashed stands for it.
lateCall(c) ==
  /\ LoopFree
  /\ \/ Runs(Functor("lateCall", c), <<>>)
     \/ serves[c] = "disconnected" /\ Runs(Functor("forceCloseInLoop", c), <<>>)
  /\ crashed' \in {crashed, TRUE}
  /\ UNCHANGED <<events_, index_, pollfds_, channels_, activeChannels_, polled,
                 serves, oldChannel, calls>>

resetChannel ==
  /\ RunFunctor("resetChannel", NoFd, <<>>)
  /\ oldChannel' = FALSE
  /\ UNCHANGED <<serves, calls>>

stopInLoop ==
  /\ \/ \E k \in Outgoing :
          /\ serves[k] = "connecting"
          /\ RunFunctor("stopInLoop", NoFd, ResetLater)
          /\ attemptFails(k) /\ oldChannel' = TRUE
     \/ /\ \A k \in Outgoing : serves[k] # "connecting"
        /\ RunFunctor("stopInLoop", NoFd, <<>>)
        /\ UNCHANGED <<serves, calls, oldChannel>>

passOn ==
  /\ LoopFree
  /\ \/ polled /\ activeChannels_ = <<>> /\ swapFunctors /\ polled' = FALSE
     \/ functorsDone /\ UNCHANGED polled
  /\ UNCHANGED <<vars, serves, oldChannel, calls>>

-----------------------------------------------------------------------------
(* Other threads *)

\* The user stops the client.
stop ==
  /\ ~crashed /\ Outgoing # {} /\ ~Queued(Functor("stopInLoop", NoFd))
  /\ Appends(<<Functor("stopInLoop", NoFd)>>)
  /\ UNCHANGED <<vars, serves, oldChannel, polled, calls>>

\* send or forceClose has found the connection connected and queues what is to be
\* done.  If it has been closed meanwhile, connectDestroyed is ahead in the queue.
userCalls(c) ==
  /\ ~crashed /\ Len(Queue) < MaxPending
  /\ \/ serves[c] = "connected" /\ c \in Outgoing /\ Queues("sendInLoop", c)
     \/ serves[c] = "connected" /\ Queues("forceCloseInLoop", c)
     \/ serves[c] \in {"disconnected", "removed"} /\ Queues("lateCall", c)
  /\ UNCHANGED <<vars, serves, oldChannel, polled, calls>>

\* The last pointer to a client's connection goes, and its socket is closed.  The
\* close callback of a server's connection shares the connection for ever.
connectionFreed(k) ==
  /\ ~crashed /\ k \in Outgoing /\ serves[k] = "removed"
  /\ Becomes(k, "free")
  /\ UNCHANGED <<vars, passVars, oldChannel, polled, calls>>

-----------------------------------------------------------------------------
LoopInit ==
  /\ Init
  /\ PassInit
  /\ serves = [c \in Channel |-> "free"]
  /\ oldChannel = FALSE /\ polled = FALSE
  /\ calls \in Bijection(1..Cardinality(Internal), {Do("enableReading", c) : c \in Internal})

LoopStep ==
  \/ nextCall \/ pollOnce \/ resetChannel \/ stopInLoop \/ passOn
  \/ \E c \in Channel :
       \/ internalEvent(c) \/ messageArrives(c) \/ peerCloses(c) \/ attemptEnds(c)
       \/ forceCloseInLoop(c) \/ connectDestroyed(c) \/ sendInLoop(c) \/ lateCall(c)

LoopNext == LoopStep \/ stop \/ \E c \in Channel : userCalls(c) \/ connectionFreed(c)

\* The loop thread goes on.
LoopSpec == LoopInit /\ [][LoopNext]_allVars /\ WF_allVars(LoopStep)

-----------------------------------------------------------------------------
\* Every call finds the poller as its assertions want it: a new channel takes a
\* descriptor that no other channel is registered for, though the connector's
\* and the connection's channel share one and closed descriptors are reused; a
\* known channel is still registered; the connector removes a disabled channel.
\* A connection's channel need not be disabled when it is removed: a send queued
\* before the close has perhaps enabled it again.  Excepted are calls of send and
\* forceClose that act on a state_ of before the close, where they update or
\* remove a channel that has been removed (lateCall); the code does not prevent it.
CallsAreAllowed ==
  ~crashed /\ calls # <<>> =>
    LET c == Head(calls).channel
    IN  CASE Head(calls).op = "new"    -> ~Registered(c)
          [] Head(calls).op = "remove" -> Registered(c) /\ events_[c] = {}
          [] Head(calls).op = "removeChannel" -> Registered(c)
          [] OTHER -> Registered(c) <=> index_[c] >= 0

\* The raw pointers left in activeChannels_ are those of channels that still are
\* in the poller and wait for events, whatever the handlers before them did.
DispatchedIsServed ==
  ~crashed /\ calls = <<>> =>
    \A i \in DOMAIN activeChannels_ :
      LET c == activeChannels_[i]
      IN  Registered(c) /\ events_[c] # {}
            /\ (c \notin Internal => serves[c] \in {"connecting", "connected"})

\* A closed connection leaves the poller, unless the program crashes before.
ClosedLeavesPoller ==
  \A c \in Accepted \cup Outgoing :
    serves[c] = "disconnected" ~> ~Registered(c) \/ crashed
=============================================================================
