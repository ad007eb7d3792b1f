------------------------------ MODULE TcpServer ------------------------------
(***************************************************************************)
(* TcpServer, Acceptor and EventLoopThreadPool (zdq_tcp_server.cpp,        *)
(* zdq_acceptor.cpp, zdq_eventloop_threadpool.cpp): the server's own loop  *)
(* accepts connections and deals them out to the loops of the pool; each   *)
(* is established, closed and destroyed in its loop and kept in conns_ in  *)
(* between.  Module TcpConnection has the connection itself.  A loop is a  *)
(* queue of functors here; runInLoop in the loop's own thread runs at once.*)
(***************************************************************************)
EXTENDS Integers, Sequences, FiniteSets

CONSTANTS
  MaxThreads,     \* bound: the number given to setThreadNum
  MaxConns        \* bound: connections accepted

ASSUME ServerAssumption == MaxThreads \in Nat /\ MaxConns \in Nat

Base == 0
Pool == 1..MaxThreads
Loops == {Base} \cup Pool

\* nextConnTd_ numbers the connections, and so names them.
Conns == 1..MaxConns

VARIABLES
  numThreads_,   \* of the pool, set before start
  started_,      \* TcpServer::start has been called
  loops_,        \* the loops that the pool has started, in order
  listening_,
  next_,         \* the pool's index of the loop whose turn it is
  nextConnTd_,
  conns_,        \* the connections the server holds
  loopOf,        \* loopOf[c]: the loop of connection c
  stage,         \* stage[c] in "none", "new", "open", "closed", "destroyed"
  queue,         \* queue[l]: functors queued in loop l, as <<name, connection>>
  failed         \* the assertion that ended the program, "none" so far

connVars == <<next_, nextConnTd_, conns_, loopOf, stage, queue>>
vars == <<numThreads_, started_, loops_, listening_, connVars, failed>>
serverVars == <<numThreads_, started_, loops_, listening_>>

Running == failed = "none"
Fails(where) == failed' = where

Queued(l, f, c) == [queue EXCEPT ![l] = Append(@, <<f, c>>)]

-----------------------------------------------------------------------------
(* The server's loop *)

setThreadNum(n) ==
  /\ Running /\ ~started_
  /\ numThreads_' = n
  /\ UNCHANGED <<started_, loops_, listening_, connVars, failed>>

start ==
  /\ Running /\ ~started_
  /\ started_' = TRUE
  /\ UNCHANGED <<numThreads_, loops_, listening_, connVars, failed>>

\* EventLoopThreadPool::start waits for one thread after the other.
startLoop ==
  /\ Running /\ started_ /\ Len(loops_) < numThreads_
  /\ loops_' = Append(loops_, Len(loops_) + 1)
  /\ UNCHANGED <<numThreads_, started_, listening_, connVars, failed>>

\* Acceptor::listen, by runInLoop after the pool has started.
listen ==
  /\ Running /\ started_ /\ Len(loops_) = numThreads_ /\ ~listening_
  /\ listening_' = TRUE
  /\ UNCHANGED <<numThreads_, started_, loops_, connVars, failed>>

\* getNextLoop
Chosen == IF loops_ = <<>> THEN Base ELSE loops_[next_ + 1]

WrapEarly == IF next_ + 1 >= Len(loops_) - 1 THEN 0 ELSE next_ + 1
Wrap == IF next_ + 1 >= Len(loops_) THEN 0 ELSE next_ + 1

HoldNothing == UNCHANGED conns_
Hold == conns_' = conns_ \cup {nextConnTd_}

\* Acceptor::handleRead asserts that accept has succeeded; it fails when the client
\* has gone already or the process is out of descriptors.
acceptFails ==
  /\ Running /\ listening_
  /\ Fails("accept")
  /\ UNCHANGED <<serverVars, connVars>>

\* Acceptor::handleRead and newConnection.
newConnection ==
  /\ Running /\ listening_ /\ nextConnTd_ \in Conns
  /\ nextConnTd_' = nextConnTd_ + 1
  /\ next_' = (IF loops_ = <<>> THEN next_ ELSE Wrap)
  /\ Hold
  /\ loopOf' = [loopOf EXCEPT ![nextConnTd_] = Chosen]
  /\ IF Chosen = Base
     THEN stage' = [stage EXCEPT ![nextConnTd_] = "open"] /\ UNCHANGED queue
     ELSE /\ stage' = [stage EXCEPT ![nextConnTd_] = "new"]
          /\ queue' = Queued(Chosen, "connectEstablished", nextConnTd_)
  /\ UNCHANGED <<serverVars, failed>>

-----------------------------------------------------------------------------
(* The loop of a connection *)

Release(c) == conns_' = conns_ \ {c}

\* handleClose: removeConnection runs removeConnectionInLoop in the server's loop.
close(c) ==
  /\ Running /\ stage[c] = "open"
  /\ stage' = [stage EXCEPT ![c] = "closed"]
  /\ IF loopOf[c] = Base
     THEN Release(c) /\ queue' = Queued(Base, "connectDestroyed", c)
     ELSE queue' = Queued(Base, "removeConnectionInLoop", c) /\ UNCHANGED conns_
  /\ UNCHANGED <<serverVars, next_, nextConnTd_, loopOf, failed>>

\* The oldest functor of loop l is f, of connection c; new is the queue after it.
Runs(l, f, c, new) ==
  Running /\ queue[l] # <<>> /\ Head(queue[l]) = <<f, c>> /\ queue' = new
Shorter(l) == [queue EXCEPT ![l] = Tail(@)]

connectEstablished(l, c) ==
  /\ Runs(l, "connectEstablished", c, Shorter(l))
  /\ stage' = [stage EXCEPT ![c] = "open"]
  /\ UNCHANGED <<serverVars, next_, nextConnTd_, conns_, loopOf, failed>>

DestroyInBase(c) == Base
DestroyIn(c) == loopOf[c]

removeConnectionInLoop(c) ==
  /\ Runs(Base, "removeConnectionInLoop", c,
          [Shorter(Base) EXCEPT ![DestroyIn(c)] = Append(@, <<"connectDestroyed", c>>)])
  /\ Release(c)
  /\ UNCHANGED <<serverVars, next_, nextConnTd_, loopOf, stage, failed>>

\* It asserts that it is in the connection's own loop.
connectDestroyed(l, c) ==
  /\ Runs(l, "connectDestroyed", c, Shorter(l))
  /\ IF l = loopOf[c]
     THEN stage' = [stage EXCEPT ![c] = "destroyed"] /\ UNCHANGED failed
     ELSE Fails("connectDestroyed") /\ UNCHANGED stage
  /\ UNCHANGED <<serverVars, next_, nextConnTd_, conns_, loopOf>>

-----------------------------------------------------------------------------
Init ==
  /\ numThreads_ = 0
  /\ started_ = FALSE /\ loops_ = <<>> /\ listening_ = FALSE
  /\ next_ = 0 /\ nextConnTd_ = 1 /\ conns_ = {}
  /\ loopOf = [c \in Conns |-> Base]
  /\ stage = [c \in Conns |-> "none"]
  /\ queue = [l \in Loops |-> <<>>]
  /\ failed = "none"

RunFunctor(l) ==
  \E c \in Conns : connectEstablished(l, c) \/ connectDestroyed(l, c)
                     \/ (l = Base /\ removeConnectionInLoop(c))

Next ==
  \/ \E n \in Pool : setThreadNum(n)
  \/ start \/ startLoop \/ listen \/ newConnection \/ acceptFails
  \/ \E c \in Conns : close(c)
  \/ \E l \in Loops : RunFunctor(l)

\* Every loop runs its functors; nothing makes a client connect or close.
Spec == Init /\ [][Next]_vars /\ \A l \in Loops : WF_vars(RunFunctor(l))

-----------------------------------------------------------------------------
Given(l) == {c \in Conns : stage[c] # "none" /\ loopOf[c] = l}

\* The pool deals connections out evenly, whatever closes meanwhile: no loop of
\* it has been given two more than another.
DealtEvenly == \A l, m \in 1..numThreads_ : Cardinality(Given(l)) <= Cardinality(Given(m)) + 1

\* A connection that is being established or open is held by the server, whose
\* shared pointer keeps it alive while its loop serves it.
HeldWhileServed == \A c \in Conns : stage[c] \in {"new", "open"} => c \in conns_

\* A closed connection leaves the server and is destroyed in its own loop, unless
\* a failed accept ends the program before.
ClosedIsDestroyed ==
  \A c \in Conns :
    stage[c] = "closed" ~> \/ stage[c] = "destroyed" /\ c \notin conns_
                           \/ failed = "accept"
=============================================================================
