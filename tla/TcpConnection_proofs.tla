------------------------ MODULE TcpConnection_proofs ------------------------
(***************************************************************************)
(* Theorems about TcpConnection, for any set of users, any number of their *)
(* calls and every owner: one close and one removal, no write after        *)
(* shutdownWrite, and no functor that finds the connection freed.          *)
(***************************************************************************)
EXTENDS TcpConnection, LoopPass_proofs

Functors ==
  {"connectEstablished", "sendInLoop", "shutdownInLoop", "forceCloseInLoop",
   "setCloseCallback", "writeComplete", "connectDestroyed"}
Raw == {"sendInLoop", "shutdownInLoop"}
Reasons == {"none", "EPIPE", "reset", "EAGAIN", "ENOTCONN", "updateChannel", "noOwner", "freed"}

BoolTypes == /\ fin \in BOOLEAN /\ abandoned \in BOOLEAN
             /\ stale \in BOOLEAN /\ late \in BOOLEAN
CallStates == Calls \cup {"none", "queueShutdown", "queueForceClose"}
DataTypes ==
  /\ state_ \in {"kConnecting", "kConnected", "kDisconnecting", "kDisconnected"}
  /\ conns_ \in {"none", "held", "erased"}
  /\ removing \in Nat /\ closes \in Nat /\ removes \in Nat
  /\ call \in [Threads -> CallStates]
  /\ failed \in Reasons

\* Until connectEstablished has run there is nothing but it; the connection of a
\* client, or of a server in its own loop, is established when it is made.
Fresh ==
  /\ conns_ = "none" => state_ = "kConnecting"
  /\ QueuedOnce("connectEstablished")
  /\ state_ # "kConnecting" => ~Queued("connectEstablished")
  /\ state_ = "kConnecting" =>
       /\ events = {} /\ ~fin /\ ~stale /\ ~late /\ failed = "none"
       /\ removing = 0 /\ closes = 0 /\ removes = 0
       /\ conns_ \in {"none", "held"}
       /\ conns_ = "held" => ~SameLoop
       /\ conns_ = "held" <=> Queued("connectEstablished")
       /\ \A f \in Functors \ {"connectEstablished"} : ~Queued(f)
       /\ \A t \in Threads : call[t] = "none"

\* The client's destructor in the loop thread replaces the callback at once.
LoopDestroyer ==
  /\ abandoned => destroyer # "none"
  /\ destroyer = Loop => closeCallback_ = "placeholder" /\ failed # "noOwner"

\* A shutdown sets state_ before it is done.
ShuttingDown ==
  Queued("shutdownInLoop") \/ fin \/ \E t \in Threads : call[t] = "queueShutdown"
ShutdownOnce == ~stale /\ ShuttingDown => state_ \in {"kDisconnecting", "kDisconnected"}

\* The removal follows the close, whatever the calls act on; in the owner's loop
\* the close is when the owner lets go and the removal is queued.
CloseSeen ==
  Running =>
    /\ \/ state_ = "kDisconnected" \/ removing > 0 \/ removes > 0
       \/ Queued("connectDestroyed")
       => closes > 0
    /\ SameLoop /\ closes > 0 =>
         conns_ = "erased" /\ (removes = 0 => Queued("connectDestroyed"))

\* From the one close to the one removal there is one functor, in one loop.
OneRemoval ==
  ~stale =>
    /\ closes <= 1 /\ removes <= 1 /\ QueuedOnce("connectDestroyed")
    /\ SameLoop => removing = 0
    /\ Running /\ state_ # "kDisconnected" =>
         closes = 0 /\ removing = 0 /\ removes = 0 /\ ~Queued("connectDestroyed")
    /\ Running /\ state_ = "kDisconnected" =>
         /\ closes = 1 /\ "read" \notin events
         /\ SameLoop => conns_ = "erased"
         /\ removing + removes <= 1
         /\ Queued("connectDestroyed") <=> removing + removes = 0

\* A functor with a raw pointer is behind connectDestroyed only if it was queued
\* after the close, and a send only if it acted on a state_ of before the close.
InTime(f) == ~late \/ (f = "sendInLoop" /\ ~stale)
RawFirst ==
  \A f \in Raw : InTime(f) => /\ QueuedBefore(f, "connectDestroyed")
                              /\ removes > 0 => ~Queued(f)

\* A send is never behind a shutdown, nor left when it is done.
SendsAhead == QueuedBefore("sendInLoop", "shutdownInLoop")
SendsFirst == ~stale => SendsAhead /\ (fin => ~Queued("sendInLoop"))

\* Who shares the connection until it is removed.
KeptByOwner ==
  ~abandoned /\ conns_ # "none" /\ removes = 0 =>
    \/ owner # "client" \/ conns_ = "held"
    \/ Queued("connectDestroyed") \/ Queued("forceCloseInLoop")

NotFreed == ~late /\ ~abandoned => failed # "freed"

IInv ==
  /\ BoolTypes /\ DataTypes /\ PassInv(Functors)
  /\ Fresh /\ LoopDestroyer /\ ShutdownOnce /\ CloseSeen /\ OneRemoval
  /\ RawFirst /\ SendsFirst /\ KeptByOwner /\ NotFreed /\ StaysAlive

-----------------------------------------------------------------------------
(* The queue, of which RawFirst and SendsFirst say the order *)

QueueKept ==
  /\ PassInv(Functors)'
  /\ \A f \in Functors : (Queued(f)' <=> Queued(f)) /\ (QueuedOnce(f)' <=> QueuedOnce(f))
  /\ \A f \in Raw : QueuedBefore(f, "connectDestroyed") => QueuedBefore(f, "connectDestroyed")'
  /\ SendsAhead => SendsAhead'

QueueGains(h) ==
  /\ PassInv(Functors)'
  /\ Queued(h)' /\ (~Queued(h) => QueuedOnce(h)')
  /\ \A f \in Functors :
       f # h => (Queued(f)' <=> Queued(f)) /\ (QueuedOnce(f) => QueuedOnce(f)')
  /\ \A f \in Raw : QueuedBefore(f, "connectDestroyed") /\ (f = h => ~Queued("connectDestroyed"))
                      => QueuedBefore(f, "connectDestroyed")'
  /\ SendsAhead /\ (h = "sendInLoop" => ~Queued("shutdownInLoop")) => SendsAhead'

QueueLoses(g) ==
  /\ PassInv(Functors)'
  /\ Queued(g) /\ (QueuedOnce(g) => ~Queued(g)')
  /\ \A f \in Functors : /\ f # g => (Queued(f)' <=> Queued(f))
                         /\ Queued(f)' => Queued(f)
                         /\ QueuedOnce(f) => QueuedOnce(f)'
  /\ \A f \in Raw : QueuedBefore(f, "connectDestroyed")
                      => /\ QueuedBefore(f, "connectDestroyed")'
                         /\ g = "connectDestroyed" => ~Queued(f)'
  /\ SendsAhead => SendsAhead' /\ (g = "shutdownInLoop" => ~Queued("sendInLoop")')

QueueTurns(g, h) ==
  /\ PassInv(Functors)'
  /\ Queued(g)
  /\ Queued(h)' /\ (~Queued(h) => QueuedOnce(h)')
  /\ \A f \in Functors : f # h => /\ f # g => (Queued(f)' <=> Queued(f))
                                  /\ Queued(f)' => Queued(f)
                                  /\ QueuedOnce(f) => QueuedOnce(f)'
  /\ \A f \in Raw : QueuedBefore(f, "connectDestroyed") /\ h \notin Raw
                      => QueuedBefore(f, "connectDestroyed")'
  /\ SendsAhead /\ h # "sendInLoop" => SendsAhead'

LEMMA Names ==
  /\ "connectDestroyed" \in Functors /\ "connectEstablished" \in Functors
  /\ "forceCloseInLoop" \in Functors /\ "shutdownInLoop" \in Functors
  /\ "sendInLoop" \in Functors /\ "writeComplete" \in Functors
  /\ "setCloseCallback" \in Functors
  /\ Raw \subseteq Functors /\ "connectDestroyed" \notin Raw
BY DEF Functors, Raw

LEMMA Keeping ==
  ASSUME PassInv(Functors),
         Appends(<<>>) \/ swapFunctors \/ functorsDone \/ UNCHANGED passVars
  PROVE  QueueKept
<1>1. PassInv(Functors)' /\ Queue' = Queue
  BY AppendsNone, PassOnKeepsQueue
<1> QED
  BY <1>1, QueueSame, Names DEF QueueKept, SendsAhead

LEMMA Gaining ==
  ASSUME PassInv(Functors), NEW h \in Functors, Appends(<<h>>)
  PROVE  QueueGains(h)
BY AppendsOne, Names DEF QueueGains, SendsAhead

LEMMA Losing ==
  ASSUME PassInv(Functors), NEW g, Runs(g, <<>>)
  PROVE  g \in Functors /\ QueueLoses(g)
<1>1. <<>> \in Seq(Functors)
  OBVIOUS
<1>2. g \in Functors
  BY <1>1, RestOfQueue
<1> QED
  BY <1>2, RunsAlone, Names DEF QueueLoses, SendsAhead

LEMMA Turning ==
  ASSUME PassInv(Functors), NEW g, NEW h \in Functors, h # g, Runs(g, <<h>>)
  PROVE  QueueTurns(g, h)
BY RunsOne, Names DEF QueueTurns, SendsAhead

-----------------------------------------------------------------------------
LEMMA InitIInv == Init => IInv
<1> SUFFICES ASSUME Init PROVE IInv
  OBVIOUS
<1> USE DEF Init, PassInit
<1>1. PassInv(Functors)
  BY DEF PassInv, PassTypeOK
<1>2. \A f \in Functors : /\ ~Queued(f) /\ QueuedOnce(f)
                          /\ QueuedBefore(f, "connectDestroyed")
                          /\ QueuedBefore(f, "shutdownInLoop")
  <2>1. Queue = <<>>
    BY ConcatEmptySeq DEF Queue
  <2> QED
    BY <2>1 DEF Queued, QueuedOnce, AtMostOnce, QueuedBefore, InOrder
<1>3. BoolTypes /\ DataTypes /\ LoopDestroyer
  BY ConnectionAssumption DEF BoolTypes, DataTypes, CallStates, LoopDestroyer, Reasons, Threads
<1>4. Fresh /\ CloseSeen /\ OneRemoval /\ ShutdownOnce /\ RawFirst /\ SendsFirst
  BY <1>2, Names
  DEF Fresh, CloseSeen, OneRemoval, ShutdownOnce, ShuttingDown, RawFirst, SendsFirst, SendsAhead
<1>5. KeptByOwner /\ NotFreed /\ StaysAlive
  BY DEF KeptByOwner, NotFreed, StaysAlive
<1> QED
  BY <1>1, <1>3, <1>4, <1>5 DEF IInv

\* Steps that change neither the connection nor its owner: calls that begin, or
\* queue what they ask for, and functors that find nothing to do.
LEMMA QuietKeeps ==
  ASSUME IInv, UNCHANGED <<connVars, owner, destroyer, abandoned>>,
         stale' \in BOOLEAN, late' \in BOOLEAN, call' \in [Threads -> CallStates],
         closeCallback_' \in {closeCallback_, "placeholder"},
         ~stale' => ~stale, ~late' => ~late, PassInv(Functors)',
         state_ = "kConnecting" =>
           UNCHANGED <<call, stale, late>> /\ \A f \in Functors : Queued(f)' => Queued(f),
         \A f \in {"connectEstablished", "connectDestroyed"} :
           (Queued(f)' <=> Queued(f)) /\ (QueuedOnce(f) => QueuedOnce(f)'),
         ShuttingDown' => ShuttingDown,
         Queued("forceCloseInLoop") => Queued("forceCloseInLoop")' \/ KeptByOwner',
         \A f \in Raw : InTime(f)' =>
           /\ QueuedBefore(f, "connectDestroyed") => QueuedBefore(f, "connectDestroyed")'
           /\ removes > 0 /\ Queued(f)' => Queued(f),
         SendsFirst => SendsFirst'
  PROVE  IInv'
<1> USE DEF connVars
<1>1. BoolTypes' /\ DataTypes'
  BY DEF IInv, BoolTypes, DataTypes
<1>2. Fresh'
  BY Names DEF IInv, Fresh, SameLoop
<1>3. LoopDestroyer'
  BY DEF IInv, LoopDestroyer
<1>4. ShutdownOnce'
  BY DEF IInv, ShutdownOnce
<1>5. CloseSeen' /\ OneRemoval'
  BY DEF IInv, CloseSeen, OneRemoval, Running, SameLoop
<1>6. RawFirst'
  BY DEF IInv, RawFirst, InTime
<1>7. SendsFirst'
  BY DEF IInv
<1>8. KeptByOwner'
  BY DEF IInv, KeptByOwner
<1>9. NotFreed' /\ StaysAlive'
  BY DEF IInv, NotFreed, StaysAlive
<1> QED
  BY <1>1, <1>2, <1>3, <1>4, <1>5, <1>6, <1>7, <1>8, <1>9 DEF IInv

LEMMA PassOnKeeps ==
  ASSUME IInv, passOn \/ peerCloses \/ (\E t \in Threads : letGo(t)) \/ UNCHANGED vars
  PROVE  IInv'
<1>1. /\ UNCHANGED <<connVars, constVars, ownerVars, call, stale, late>>
      /\ swapFunctors \/ functorsDone \/ UNCHANGED passVars
  BY DEF passOn, peerCloses, letGo, vars, restVars
<1>2. QueueKept
  BY <1>1, Keeping DEF IInv
<1> QED
  BY <1>1, <1>2, QuietKeeps, Names
  DEF QueueKept, SendsFirst, ShuttingDown, InTime, constVars, ownerVars, connVars, IInv,
      BoolTypes, DataTypes

\* A call begins only once the connection is established.
LEMMA EnterKeeps ==
  ASSUME IInv, NEW t \in Threads, NEW c \in Calls, enter(t, c) PROVE IInv'
<1> USE DEF enter, StateAllows
<1>1. /\ UNCHANGED <<connVars, constVars, ownerVars, stale, late>> /\ state_ # "kConnecting"
      /\ UNCHANGED passVars
  OBVIOUS
<1>2. QueueKept
  BY <1>1, Keeping DEF IInv
<1>3. /\ call' \in [Threads -> CallStates] /\ stale' \in BOOLEAN /\ late' \in BOOLEAN
      /\ \A u \in Threads : call'[u] = "queueShutdown" => call[u] = "queueShutdown"
  BY DEF IInv, DataTypes, BoolTypes, CallStates, Calls
<1> QED
  BY <1>1, <1>2, <1>3, QuietKeeps, Names
  DEF QueueKept, SendsFirst, ShuttingDown, InTime, connVars, constVars, ownerVars

\* Functors that only call the user, or replace the callback.
LEMMA CallbacksKeep ==
  ASSUME IInv, setCloseCallback \/ runWriteComplete PROVE IInv'
<1> USE DEF setCloseCallback, runWriteComplete, RanFunctor
<1>1. PICK g \in {"setCloseCallback", "writeComplete"} : Runs(g, <<>>)
  OBVIOUS
<1>2. QueueLoses(g)
  BY <1>1, Losing DEF IInv
<1>3. /\ UNCHANGED <<connVars, owner, destroyer, abandoned, call, stale, late>>
      /\ closeCallback_' \in {closeCallback_, "placeholder"}
  BY DEF restVars, ownerVars, constVars
<1> QED
  BY <1>1, <1>2, <1>3, QuietKeeps, Names
  DEF QueueLoses, SendsFirst, ShuttingDown, InTime, connVars, IInv, BoolTypes, DataTypes

-----------------------------------------------------------------------------
(* Calls and what they do in the loop *)

LEMMA Finished ==
  ASSUME IInv, NEW t \in Threads, NEW c \in CallStates \ {"none"}, Finishes(t, c)
  PROVE  /\ call' \in [Threads -> CallStates]
         /\ \A u \in Threads : call'[u] = "queueShutdown" => call[u] = "queueShutdown"
         /\ state_ # "kConnecting" /\ failed = "none"
         /\ UNCHANGED <<constVars, ownerVars>>
<1> USE DEF Finishes
<1>1. /\ call' \in [Threads -> CallStates]
      /\ \A u \in Threads : call'[u] = "queueShutdown" => call[u] = "queueShutdown"
  BY DEF IInv, DataTypes, CallStates
<1>2. state_ # "kConnecting" /\ failed = "none"
  BY DEF IInv, Fresh, Running
<1> QED
  BY <1>1, <1>2

\* stale only ever becomes true, and says why.
LEMMA Judged ==
  ASSUME IInv, NEW why \in BOOLEAN, stale' = (stale \/ why)
  PROVE  stale' \in BOOLEAN /\ (~stale' => ~stale /\ ~why)
<1>1. stale \in BOOLEAN
  BY DEF IInv, BoolTypes
<1> QED
  BY <1>1, Zenon

\* Another thread queues a functor bound to the raw pointer: before the close,
\* unless it is late.
LEMMA RawQueued ==
  ASSUME IInv, Running, NEW f \in Raw, QueuesRaw(f)
  PROVE  /\ QueueGains(f) /\ late' \in BOOLEAN
         /\ ~late' => ~late /\ ~Queued("connectDestroyed") /\ removes = 0
<1> USE DEF QueuesRaw
<1>1. QueueGains(f)
  BY Gaining, Names DEF IInv
<1>2. late' \in BOOLEAN /\ (~late' => ~late /\ ~(closes > 0))
  <2>1. late \in BOOLEAN /\ late' = (late \/ closes > 0) /\ (closes > 0) \in BOOLEAN
    BY DEF IInv, BoolTypes
  <2> QED
    BY <2>1, Zenon
<1>3. ~(closes > 0) => ~Queued("connectDestroyed") /\ removes = 0
  BY DEF IInv, CloseSeen, DataTypes
<1> QED
  BY <1>1, <1>2, <1>3

\* A write after shutdownWrite, or a channel used once removed: nothing else in
\* sendInLoop ends the program for a reason of its own.
LEMMA Sent ==
  ASSUME IInv, Running, NEW new, sendInLoop(new)
  PROVE  /\ UNCHANGED <<state_, conns_, removing, fin, closes, removes>>
         /\ failed' \in {"none", "EPIPE", "reset", "EAGAIN", "updateChannel"}
         /\ failed' = "EPIPE" => fin
         /\ failed' = "updateChannel" => removes # 0
         /\ "read" \in events' => "read" \in events
         /\ new \in {<<>>, <<"writeComplete">>}
<1> USE DEF sendInLoop, Running
<1>1. new \in {<<>>, <<"writeComplete">>}
  BY DEF Completed
<1>2. CASE WriteWhole
  BY <1>1, <1>2 DEF WriteWhole
<1>3. CASE WriteFails
  BY <1>1, <1>3 DEF WriteFails
<1>4. CASE WritePart
  BY <1>1, <1>4 DEF WritePart, update
<1> QED
  BY <1>2, <1>3, <1>4

LEMMA SentInLoop ==
  ASSUME IInv, Running, state_ # "kConnecting", NEW new, sendInLoop(new),
         Appends(new) \/ Runs("sendInLoop", new),
         UNCHANGED <<constVars, ownerVars, late>>, call' \in [Threads -> CallStates],
         \A u \in Threads : call'[u] = "queueShutdown" => call[u] = "queueShutdown",
         stale' \in BOOLEAN, ~stale' => ~stale /\ ~fin /\ removes = 0
  PROVE  IInv'
<1> USE DEF constVars, ownerVars
<1>1. /\ UNCHANGED <<state_, conns_, removing, fin, closes, removes>>
      /\ failed' \in {"none", "EPIPE", "reset", "EAGAIN", "updateChannel"}
      /\ failed' = "EPIPE" => fin
      /\ failed' = "updateChannel" => removes # 0
      /\ "read" \in events' => "read" \in events
      /\ new \in {<<>>, <<"writeComplete">>}
  BY Sent
<1>2. PassInv(Functors)
  BY DEF IInv
<1>3. /\ PassInv(Functors)'
      /\ \A f \in {"connectEstablished", "connectDestroyed"} :
           (Queued(f)' <=> Queued(f)) /\ (QueuedOnce(f) => QueuedOnce(f)')
      /\ Queued("shutdownInLoop")' <=> Queued("shutdownInLoop")
      /\ Queued("forceCloseInLoop")' <=> Queued("forceCloseInLoop")
      /\ \A f \in Raw :
           /\ QueuedBefore(f, "connectDestroyed") => QueuedBefore(f, "connectDestroyed")'
           /\ Queued(f)' => Queued(f)
      /\ SendsAhead => SendsAhead'
  <2>1. CASE new = <<>> /\ Appends(new)
    BY <1>2, <2>1, Keeping, Names DEF QueueKept
  <2>2. CASE new = <<"writeComplete">> /\ Appends(new)
    <3>1. QueueGains("writeComplete") /\ "writeComplete" \notin Raw
      BY <1>2, <2>2, Gaining, Names DEF Raw
    <3> QED
      BY <3>1, Names DEF QueueGains
  <2>3. CASE new = <<>> /\ Runs("sendInLoop", new)
    <3>1. QueueLoses("sendInLoop")
      BY <1>2, <2>3, Losing
    <3> QED
      BY <3>1, Names DEF QueueLoses
  <2>4. CASE new = <<"writeComplete">> /\ Runs("sendInLoop", new)
    <3>1. QueueTurns("sendInLoop", "writeComplete") /\ "writeComplete" \notin Raw
      BY <1>2, <2>4, Turning, Names DEF Raw
    <3> QED
      BY <3>1, Names DEF QueueTurns
  <2> QED
    BY <1>1, <2>1, <2>2, <2>3, <2>4
<1>4. BoolTypes' /\ DataTypes'
  BY <1>1 DEF IInv, BoolTypes, DataTypes, Reasons
<1>5. Fresh'
  BY <1>1, <1>3 DEF IInv, Fresh
<1>6. LoopDestroyer'
  BY <1>1 DEF IInv, LoopDestroyer
<1>7. ShutdownOnce'
  BY <1>1, <1>3 DEF IInv, ShutdownOnce, ShuttingDown
<1>8. CloseSeen' /\ OneRemoval'
  BY <1>1, <1>3 DEF IInv, CloseSeen, OneRemoval, Running, SameLoop
<1>9. RawFirst' /\ SendsFirst'
  BY <1>1, <1>3, Names DEF IInv, RawFirst, InTime, SendsFirst, Raw
<1>10. KeptByOwner'
  BY <1>1, <1>3 DEF IInv, KeptByOwner
<1>11. NotFreed' /\ StaysAlive'
  BY <1>1 DEF IInv, NotFreed, StaysAlive, OneRemoval
<1> QED
  BY <1>3, <1>4, <1>5, <1>6, <1>7, <1>8, <1>9, <1>10, <1>11 DEF IInv

LEMMA RunSendKeeps ==
  ASSUME IInv, runSend PROVE IInv'
<1>1. PICK new : RanFunctor("sendInLoop", new) /\ sendInLoop(new)
  BY DEF runSend
<1>2. Running /\ Runs("sendInLoop", new)
  BY <1>1 DEF RanFunctor, LoopFree
<1>3. Queued("sendInLoop")
  <2>1. new \in {<<>>, <<"writeComplete">>}
    BY <1>1, <1>2, Sent
  <2>2. <<>> \in Seq(Functors) /\ <<"writeComplete">> \in Seq(Functors)
    BY Names
  <2> QED
    BY <1>2, <2>1, <2>2, RestOfQueue DEF IInv
<1>4. state_ # "kConnecting"
  BY <1>3, Names DEF IInv, Fresh
<1>5. stale' \in BOOLEAN /\ (~stale' => ~stale /\ ~fin /\ removes = 0)
  BY <1>3 DEF runSend, Raw, IInv, BoolTypes, DataTypes, RawFirst, InTime, SendsFirst
<1>6. UNCHANGED <<constVars, ownerVars, late, call>> /\ call \in [Threads -> CallStates]
  BY DEF runSend, restVars, IInv, DataTypes
<1> QED
  BY <1>1, <1>2, <1>4, <1>5, <1>6, SentInLoop

LEMMA SendKeeps ==
  ASSUME IInv, NEW t \in Threads, send(t) PROVE IInv'
<1> USE DEF send
<1>1. /\ call' \in [Threads -> CallStates]
      /\ \A u \in Threads : call'[u] = "queueShutdown" => call[u] = "queueShutdown"
      /\ state_ # "kConnecting" /\ failed = "none"
      /\ UNCHANGED <<constVars, ownerVars>>
  BY Finished DEF CallStates, Calls
<1>2. stale' \in BOOLEAN /\ (~stale' => ~stale /\ state_ = "kConnected")
  BY Judged DEF Outdated, StateAllows, Repeats
<1>3. CASE t = Loop
  <2>1. ~stale' => ~stale /\ ~fin /\ removes = 0
    BY <1>1, <1>2 DEF IInv, ShutdownOnce, ShuttingDown, OneRemoval, Running
  <2> QED
    BY <1>1, <1>2, <1>3, <2>1, SentInLoop DEF Running
<1>4. CASE t # Loop
  <2>1. QueuesRaw("sendInLoop") /\ UNCHANGED connVars /\ "sendInLoop" \in Raw
    BY <1>4 DEF Raw
  <2>2. /\ QueueGains("sendInLoop") /\ late' \in BOOLEAN
        /\ ~late' => ~late /\ ~Queued("connectDestroyed") /\ removes = 0
    BY <1>1, <2>1, RawQueued DEF Running
  <2>3. ~stale' => /\ ~Queued("connectDestroyed") /\ removes = 0
                   /\ ~fin /\ ~Queued("shutdownInLoop")
    BY <1>1, <1>2 DEF IInv, OneRemoval, ShutdownOnce, ShuttingDown, Running
  <2>4. \A f \in Functors : f # "sendInLoop" =>
          (Queued(f)' <=> Queued(f)) /\ (QueuedOnce(f) => QueuedOnce(f)')
    BY <2>2 DEF QueueGains
  <2>5. ShuttingDown' => ShuttingDown
    BY <1>1, <2>1, <2>4, Names DEF ShuttingDown, connVars
  <2>6. Queued("forceCloseInLoop") => Queued("forceCloseInLoop")'
    BY <2>4, Names
  <2>7. \A f \in {"connectEstablished", "connectDestroyed"} :
           (Queued(f)' <=> Queued(f)) /\ (QueuedOnce(f) => QueuedOnce(f)')
    BY <2>4, Names
  <2>8. \A f \in Raw : InTime(f)' =>
           /\ QueuedBefore(f, "connectDestroyed") => QueuedBefore(f, "connectDestroyed")'
           /\ removes > 0 /\ Queued(f)' => Queued(f)
    BY <2>2, <2>3, <2>4, Names DEF QueueGains, InTime
  <2>9. SendsFirst => SendsFirst'
    BY <1>2, <2>1, <2>2, <2>3 DEF QueueGains, SendsFirst, connVars
  <2> QED
    BY <1>1, <1>2, <2>1, <2>2, <2>5, <2>6, <2>7, <2>8, <2>9, QuietKeeps
    DEF QueueGains, constVars, ownerVars
<1> QED
  BY <1>3, <1>4

\* setState(kDisconnecting) by a call, whatever state_ has become since its test.
LEMMA SetDisconnectingKeeps ==
  ASSUME IInv, NEW t \in Threads, setDisconnecting(t) PROVE IInv'
<1> USE DEF setDisconnecting, constVars, ownerVars
<1>1. /\ call' \in [Threads -> CallStates] /\ state_ # "kConnecting" /\ failed = "none"
      /\ call[t] \in {"shutdown", "forceClose"}
  <2>1. call[t] \in {"shutdown", "forceClose"} /\ Running
    BY DEF Rest
  <2>2. Rest[call[t]] \in CallStates
    BY <2>1 DEF Rest, CallStates
  <2>3. call \in [Threads -> CallStates]
    BY DEF IInv, DataTypes
  <2>4. call' \in [Threads -> CallStates]
    BY <2>2, <2>3
  <2> QED
    BY <2>1, <2>4 DEF IInv, Fresh, Running
<1>2. /\ stale' \in BOOLEAN
      /\ ~stale' => ~stale /\ state_ \in {"kConnected", "kDisconnecting"}
  <2>1. stale' \in BOOLEAN /\ (~stale' => ~stale /\ ~Outdated(call[t]))
    BY Judged DEF Outdated, StateAllows, Repeats
  <2> QED
    BY <2>1 DEF Outdated, StateAllows, Repeats
<1>3. QueueKept
  BY Keeping DEF IInv
<1> USE DEF QueueKept
<1>4. BoolTypes' /\ DataTypes'
  BY <1>1, <1>2 DEF IInv, BoolTypes, DataTypes
<1>5. Fresh'
  BY <1>1, <1>3, Names DEF IInv, Fresh
<1>6. LoopDestroyer' /\ ShutdownOnce'
  BY <1>2 DEF IInv, LoopDestroyer, ShutdownOnce
<1>7. CloseSeen'
  BY <1>1, <1>3, Names DEF IInv, CloseSeen, Running, SameLoop
<1>8. OneRemoval'
  BY <1>1, <1>2, <1>3, Names DEF IInv, OneRemoval, Running, SameLoop
<1>9. RawFirst' /\ SendsFirst'
  BY <1>2, <1>3, Names DEF IInv, RawFirst, InTime, SendsFirst
<1>10. KeptByOwner' /\ NotFreed' /\ StaysAlive'
  BY <1>2, <1>3, Names DEF IInv, KeptByOwner, NotFreed, StaysAlive
<1> QED
  BY <1>3, <1>4, <1>5, <1>6, <1>7, <1>8, <1>9, <1>10 DEF IInv

\* What shutdownInLoop does, as a functor or as the rest of shutdown in the loop
\* thread.
LEMMA ShutInLoop ==
  ASSUME IInv, Running, state_ # "kConnecting", shutdownInLoop, PassInv(Functors)',
         \A f \in Functors \ Raw :
           (Queued(f)' <=> Queued(f)) /\ (QueuedOnce(f) => QueuedOnce(f)'),
         \A f \in Raw :
           /\ QueuedBefore(f, "connectDestroyed") => QueuedBefore(f, "connectDestroyed")'
           /\ Queued(f)' => Queued(f),
         SendsAhead => SendsAhead', ~stale' => isWriteing \/ ~Queued("sendInLoop")',
         UNCHANGED <<constVars, ownerVars, late, state_>>,
         call' \in [Threads -> CallStates],
         \A u \in Threads : call'[u] = "queueShutdown" => call[u] = "queueShutdown",
         stale' \in BOOLEAN, ~stale' => ~stale,
         ~stale => state_ \in {"kDisconnecting", "kDisconnected"}
  PROVE  IInv'
<1> USE DEF shutdownInLoop, constVars, ownerVars
<1>1. /\ "connectEstablished" \in Functors \ Raw /\ "connectDestroyed" \in Functors \ Raw
      /\ "forceCloseInLoop" \in Functors \ Raw /\ "shutdownInLoop" \in Raw
  BY Names DEF Raw
<1>2. fin' \in BOOLEAN
  <2>1. fin' = (fin \/ ~isWriteing) /\ fin \in BOOLEAN
    BY DEF IInv, BoolTypes
  <2> QED
    BY <2>1, Zenon
<1>3. failed' \in {"none", "ENOTCONN"}
  OBVIOUS
<1>4. BoolTypes' /\ DataTypes'
  BY <1>2, <1>3 DEF IInv, BoolTypes, DataTypes, Reasons
<1>5. Fresh'
  BY <1>1 DEF IInv, Fresh
<1>6. LoopDestroyer'
  BY <1>3 DEF IInv, LoopDestroyer
<1>7. ShutdownOnce'
  BY DEF ShutdownOnce
<1>8. CloseSeen' /\ OneRemoval'
  BY <1>1, <1>3 DEF IInv, CloseSeen, OneRemoval, Running, SameLoop
<1>9. RawFirst' /\ SendsFirst'
  <2>1. RawFirst'
    BY DEF IInv, RawFirst, InTime
  <2>2. fin' => fin \/ ~isWriteing
    OBVIOUS
  <2>3. "sendInLoop" \in Raw
    BY DEF Raw
  <2> QED
    BY <2>1, <2>2, <2>3 DEF IInv, SendsFirst
<1>10. KeptByOwner'
  BY <1>1 DEF IInv, KeptByOwner
<1>11. NotFreed' /\ StaysAlive'
  BY <1>3 DEF IInv, NotFreed, StaysAlive
<1> QED
  BY <1>4, <1>5, <1>6, <1>7, <1>8, <1>9, <1>10, <1>11 DEF IInv

LEMMA RunShutdownKeeps ==
  ASSUME IInv, runShutdown PROVE IInv'
<1> USE DEF runShutdown, RanFunctor, LoopFree, restVars
<1>1. QueueLoses("shutdownInLoop")
  BY Losing DEF IInv
<1>2. state_ # "kConnecting" /\ (~stale => state_ \in {"kDisconnecting", "kDisconnected"})
  BY <1>1, Names DEF IInv, Fresh, ShutdownOnce, ShuttingDown, QueueLoses
<1>3. "shutdownInLoop" \in Raw
  BY DEF Raw
<1>4. call \in [Threads -> CallStates] /\ stale \in BOOLEAN
  BY DEF IInv, DataTypes, BoolTypes
<1>5. ~stale => ~Queued("sendInLoop")'
  BY <1>1 DEF IInv, SendsFirst, QueueLoses
<1> QED
  BY <1>1, <1>2, <1>3, <1>4, <1>5, ShutInLoop, Names DEF QueueLoses

LEMMA ShutdownKeeps ==
  ASSUME IInv, NEW t \in Threads, shutdown(t) PROVE IInv'
<1> USE DEF shutdown
<1>1. /\ call' \in [Threads -> CallStates]
      /\ \A u \in Threads : call'[u] = "queueShutdown" => call[u] = "queueShutdown"
      /\ state_ # "kConnecting" /\ failed = "none"
      /\ UNCHANGED <<constVars, ownerVars>>
  BY Finished DEF CallStates
<1>2. stale' \in BOOLEAN /\ (~stale' => ~stale /\ ~Overtakes(t))
  BY Judged DEF Overtakes
<1>3. ShuttingDown /\ (~stale => state_ \in {"kDisconnecting", "kDisconnected"})
  BY DEF Finishes, IInv, ShutdownOnce, ShuttingDown
<1>4. CASE t = Loop
  <2>1. QueueKept
    BY <1>4, Keeping DEF IInv
  <2>2. ~stale' => isWriteing \/ ~Queued("sendInLoop")'
    BY <1>2, <1>4, <2>1, Names DEF Overtakes, QueueKept
  <2> QED
    BY <1>1, <1>2, <1>3, <1>4, <2>1, <2>2, ShutInLoop, Names DEF Running, QueueKept
<1>5. CASE t # Loop
  <2>1. QueuesRaw("shutdownInLoop") /\ UNCHANGED connVars /\ "shutdownInLoop" \in Raw
    BY <1>5 DEF Raw
  <2>2. /\ QueueGains("shutdownInLoop") /\ late' \in BOOLEAN
        /\ ~late' => ~late /\ ~Queued("connectDestroyed") /\ removes = 0
    BY <1>1, <2>1, RawQueued DEF Running
  <2>3. \A f \in Functors : f # "shutdownInLoop" =>
          (Queued(f)' <=> Queued(f)) /\ (QueuedOnce(f) => QueuedOnce(f)')
    BY <2>2 DEF QueueGains
  <2>4. Queued("forceCloseInLoop") => Queued("forceCloseInLoop")'
    BY <2>3, Names
  <2>5. \A f \in {"connectEstablished", "connectDestroyed"} :
           (Queued(f)' <=> Queued(f)) /\ (QueuedOnce(f) => QueuedOnce(f)')
    BY <2>3, Names
  <2>6. \A f \in Raw : InTime(f)' =>
           /\ QueuedBefore(f, "connectDestroyed") => QueuedBefore(f, "connectDestroyed")'
           /\ removes > 0 /\ Queued(f)' => Queued(f)
    BY <2>2, <2>3, Names DEF QueueGains, InTime
  <2>7. SendsFirst => SendsFirst'
    BY <1>2, <2>1, <2>2, Names DEF QueueGains, SendsFirst, connVars
  <2> QED
    BY <1>1, <1>2, <1>3, <2>1, <2>2, <2>4, <2>5, <2>6, <2>7, QuietKeeps
    DEF QueueGains, constVars, ownerVars
<1> QED
  BY <1>4, <1>5

\* forceClose, which may be the end of the client's destructor.
LEMMA ForceCloseKeeps ==
  ASSUME IInv, NEW t \in Threads, forceClose(t) PROVE IInv'
<1> USE DEF forceClose, Erase
<1>1. /\ call' \in [Threads -> CallStates]
      /\ \A u \in Threads : call'[u] = "queueShutdown" => call[u] = "queueShutdown"
      /\ state_ # "kConnecting" /\ failed = "none"
      /\ UNCHANGED <<constVars, ownerVars>>
  BY Finished DEF CallStates
<1>2. /\ conns_' \in {conns_, "erased"}
      /\ UNCHANGED <<state_, events, removing, fin, closes, removes, failed, stale, late>>
  OBVIOUS
<1>3. QueueGains("forceCloseInLoop")
  BY Gaining, Names DEF IInv
<1>4. "forceCloseInLoop" \notin Raw
  BY DEF Raw
<1> USE DEF QueueGains, constVars, ownerVars
<1>5. BoolTypes' /\ DataTypes'
  BY <1>1, <1>2 DEF IInv, BoolTypes, DataTypes
<1>6. Fresh'
  BY <1>1, <1>2, <1>3, Names DEF IInv, Fresh
<1>7. LoopDestroyer' /\ ShutdownOnce'
  BY <1>1, <1>2, <1>3, Names DEF IInv, LoopDestroyer, ShutdownOnce, ShuttingDown
<1>8. CloseSeen' /\ OneRemoval'
  BY <1>1, <1>2, <1>3, Names DEF IInv, CloseSeen, OneRemoval, Running, SameLoop
<1>9. RawFirst' /\ SendsFirst'
  BY <1>2, <1>3, <1>4, Names DEF IInv, RawFirst, InTime, SendsFirst
<1>10. KeptByOwner'
  BY <1>3 DEF KeptByOwner
<1>11. NotFreed' /\ StaysAlive'
  BY <1>1, <1>2 DEF IInv, NotFreed, StaysAlive
<1> QED
  BY <1>3, <1>5, <1>6, <1>7, <1>8, <1>9, <1>10, <1>11 DEF IInv

-----------------------------------------------------------------------------
(* The close, and the removal that follows it *)

\* What handleClose leaves in the queue, with connectDestroyed where the I/O loop
\* is the owner's.
CloseQueued ==
  /\ PassInv(Functors)'
  /\ SameLoop => Queued("connectDestroyed")'
                   /\ (~Queued("connectDestroyed") => QueuedOnce("connectDestroyed")')
  /\ ~SameLoop => (Queued("connectDestroyed")' <=> Queued("connectDestroyed"))
                    /\ (QueuedOnce("connectDestroyed") => QueuedOnce("connectDestroyed")')
  /\ Queued("connectEstablished")' <=> Queued("connectEstablished")
  /\ QueuedOnce("connectEstablished") => QueuedOnce("connectEstablished")'
  /\ Queued("shutdownInLoop")' <=> Queued("shutdownInLoop")
  /\ \A f \in Raw :
       /\ QueuedBefore(f, "connectDestroyed") => QueuedBefore(f, "connectDestroyed")'
       /\ Queued(f)' => Queued(f)
  /\ SendsAhead => SendsAhead'

LEMMA CloseQueues ==
  ASSUME PassInv(Functors), Appends(DestroyNext) \/ Runs("forceCloseInLoop", DestroyNext)
  PROVE  CloseQueued
<1> USE DEF CloseQueued, DestroyNext
<1>1. CASE SameLoop /\ Appends(DestroyNext)
  <2>1. QueueGains("connectDestroyed")
    BY <1>1, Gaining, Names
  <2> QED
    BY <1>1, <2>1, Names DEF QueueGains
<1>2. CASE ~SameLoop /\ Appends(DestroyNext)
  <2>1. QueueKept
    BY <1>2, Keeping
  <2> QED
    BY <1>2, <2>1, Names DEF QueueKept
<1>3. CASE SameLoop /\ Runs("forceCloseInLoop", DestroyNext)
  <2>1. QueueTurns("forceCloseInLoop", "connectDestroyed")
    BY <1>3, Turning, Names
  <2> QED
    BY <1>3, <2>1, Names DEF QueueTurns
<1>4. CASE ~SameLoop /\ Runs("forceCloseInLoop", DestroyNext)
  <2>1. QueueLoses("forceCloseInLoop")
    BY <1>4, Losing
  <2> QED
    BY <1>4, <2>1, Names DEF QueueLoses
<1> QED
  BY <1>1, <1>2, <1>3, <1>4

LEMMA CloseKeeps ==
  ASSUME IInv, Running, state_ # "kConnecting", ~stale => state_ # "kDisconnected",
         handleClose, CloseQueued, UNCHANGED <<constVars, ownerVars, call, stale, late>>
  PROVE  IInv'
<1> USE DEF CloseQueued, constVars, ownerVars
<1>1. /\ state_' = "kDisconnected" /\ UNCHANGED <<fin, removes>>
      /\ failed' \in {"none", "noOwner", "updateChannel"}
      /\ failed' = "noOwner" => OwnerGone
      /\ conns_' \in {conns_, "erased"} /\ removing' \in Nat /\ closes' \in Nat
  BY DEF handleClose, Running, DisableAll, update, Erase, IInv, DataTypes
<1>2. ~stale => /\ removes = 0 /\ closes = 0 /\ removing = 0 /\ ~Queued("connectDestroyed")
  BY DEF IInv, OneRemoval
<1>3. ~stale => \/ /\ failed' = "noOwner"
                   /\ UNCHANGED <<conns_, removing, closes>>
                \/ /\ failed' = "none" /\ events' = {} /\ closes' = 1
                   /\ \/ SameLoop /\ conns_' = "erased" /\ UNCHANGED removing
                      \/ ~SameLoop /\ removing' = 1 /\ UNCHANGED conns_
  BY <1>2 DEF handleClose, Running, DisableAll, update, Erase
<1>4. BoolTypes' /\ DataTypes'
  BY <1>1 DEF IInv, BoolTypes, DataTypes, Reasons
<1>5. Fresh'
  BY <1>1 DEF IInv, Fresh, DataTypes
<1>6. LoopDestroyer'
  BY <1>1 DEF IInv, LoopDestroyer, OwnerGone
<1>7. ShutdownOnce' /\ RawFirst' /\ SendsFirst'
  BY <1>1, Names DEF IInv, ShutdownOnce, ShuttingDown, RawFirst, InTime, SendsFirst, Raw
<1>8. CloseSeen'
  <2>1. failed' = "none" => closes' > 0 /\ (SameLoop => conns_' = "erased")
    BY DEF handleClose, Running, DisableAll, update, Erase, IInv, DataTypes
  <2> QED
    BY <2>1 DEF CloseSeen, Running, SameLoop
<1>9. OneRemoval'
  <2> SUFFICES ASSUME ~stale PROVE OneRemoval'
    BY DEF OneRemoval
  <2>1. /\ QueuedOnce("connectDestroyed")' /\ removes' = 0
        /\ SameLoop => Queued("connectDestroyed")'
        /\ ~SameLoop => ~Queued("connectDestroyed")'
        /\ SameLoop' <=> SameLoop
    BY <1>1, <1>2 DEF IInv, OneRemoval, SameLoop
  <2>2. CASE failed' = "noOwner" /\ UNCHANGED <<conns_, removing, closes>>
    BY <1>2, <2>1, <2>2 DEF OneRemoval, Running
  <2>3. CASE failed' = "none"
    <3>1. /\ state_' = "kDisconnected" /\ events' = {} /\ closes' = 1
          /\ SameLoop => conns_' = "erased" /\ removing' = 0
          /\ ~SameLoop => removing' = 1
      BY <1>1, <1>2, <1>3, <2>3
    <3> QED
      BY <2>1, <3>1 DEF OneRemoval
  <2> QED
    BY <1>3, <2>2, <2>3
<1>10. KeptByOwner'
  BY DEF KeptByOwner, SameLoop
<1>11. NotFreed' /\ StaysAlive'
  BY <1>1, <1>3 DEF NotFreed, StaysAlive
<1> QED
  BY <1>4, <1>5, <1>6, <1>7, <1>8, <1>9, <1>10, <1>11 DEF IInv

LEMMA ReadKeeps ==
  ASSUME IInv, handleRead PROVE IInv'
<1> USE DEF handleRead, LoopFree, restVars
<1>1. state_ # "kConnecting" /\ (~stale => state_ # "kDisconnected")
  BY DEF IInv, Fresh, OneRemoval
<1>2. CloseQueued
  BY CloseQueues DEF IInv
<1> QED
  BY <1>1, <1>2, CloseKeeps

LEMMA ForcedKeeps ==
  ASSUME IInv, forceCloseInLoop PROVE IInv'
<1> USE DEF forceCloseInLoop, RanFunctor, LoopFree, restVars
<1>1. CASE MayClose
  <2>1. state_ \in {"kConnected", "kDisconnecting"}
    BY <1>1 DEF MayClose
  <2>2. Runs("forceCloseInLoop", DestroyNext) /\ handleClose
    BY <1>1
  <2>3. CloseQueued
    BY <2>2, CloseQueues DEF IInv
  <2> QED
    BY <2>1, <2>2, <2>3, CloseKeeps
<1>2. CASE ~MayClose
  <2>1. UNCHANGED <<connVars, constVars, ownerVars, call, stale, late>> /\ Running
    BY <1>2
  <2>2. QueueLoses("forceCloseInLoop")
    BY <1>2, Losing DEF IInv
  <2>3. state_ = "kDisconnected"
    BY <1>2, <2>2, Names DEF MayClose, QueueLoses, IInv, Fresh, DataTypes
  <2>4. KeptByOwner'
    <3>1. Queued("connectDestroyed")' <=> Queued("connectDestroyed")
      BY <2>2, Names DEF QueueLoses
    <3> QED
      BY <2>1, <2>3, <3>1
      DEF connVars, constVars, ownerVars, IInv, KeptByOwner, CloseSeen, DataTypes, Running,
          SameLoop
  <2>5. "forceCloseInLoop" \notin Raw
    BY DEF Raw
  <2> QED
    BY <2>1, <2>2, <2>3, <2>4, <2>5, QuietKeeps, Names
    DEF QueueLoses, SendsFirst, ShuttingDown, InTime, connVars, constVars, ownerVars, IInv,
        BoolTypes, DataTypes
<1> QED
  BY <1>1, <1>2

\* The server's loop hands the removal on to the I/O loop.
LEMMA RemoveKeeps ==
  ASSUME IInv, removeConnectionInLoop PROVE IInv'
<1> USE DEF removeConnectionInLoop, Erase, restVars, constVars, ownerVars
<1>1. QueueGains("connectDestroyed")
  BY Gaining, Names DEF IInv
<1>2. removing' = removing - 1 /\ removing' \in Nat /\ state_ # "kConnecting"
  BY DEF IInv, DataTypes, Fresh
<1>3. ~stale => /\ state_ = "kDisconnected" /\ removing = 1 /\ removes = 0
                /\ ~Queued("connectDestroyed") /\ ~SameLoop
  BY DEF IInv, OneRemoval, DataTypes
<1> USE DEF QueueGains
<1>4. BoolTypes' /\ DataTypes'
  BY <1>2 DEF IInv, BoolTypes, DataTypes
<1>5. Fresh'
  BY <1>1, <1>2, Names DEF IInv, Fresh
<1>6. LoopDestroyer' /\ ShutdownOnce'
  BY <1>1, Names DEF IInv, LoopDestroyer, ShutdownOnce, ShuttingDown
<1>7. CloseSeen' /\ OneRemoval'
  BY <1>1, <1>2, <1>3, Names DEF IInv, CloseSeen, OneRemoval, Running, SameLoop
<1>8. RawFirst' /\ SendsFirst'
  BY <1>1, Names DEF IInv, RawFirst, InTime, SendsFirst
<1>9. KeptByOwner'
  BY <1>1 DEF KeptByOwner
<1>10. NotFreed' /\ StaysAlive'
  BY DEF IInv, NotFreed, StaysAlive
<1> QED
  BY <1>1, <1>4, <1>5, <1>6, <1>7, <1>8, <1>9, <1>10 DEF IInv

LEMMA DestroyedKeeps ==
  ASSUME IInv, connectDestroyed PROVE IInv'
<1> USE DEF connectDestroyed, RanFunctor, LoopFree, restVars, constVars, ownerVars
<1>1. QueueLoses("connectDestroyed")
  BY Losing DEF IInv
<1>2. /\ removes' = removes + 1 /\ removes' \in Nat \ {0} /\ state_ # "kConnecting"
      /\ state_' \in {state_, "kDisconnected"} /\ failed' \in {"none", "updateChannel"}
  BY <1>1, Names DEF QueueLoses, update, Running, IInv, DataTypes, Fresh
<1>3. ~stale => /\ state_ = "kDisconnected" /\ removes = 0 /\ removing = 0
                /\ QueuedOnce("connectDestroyed")
                /\ UNCHANGED <<state_, events, failed>>
  BY <1>1 DEF QueueLoses, IInv, OneRemoval, DataTypes
<1> USE DEF QueueLoses
<1>4. BoolTypes' /\ DataTypes'
  BY <1>2 DEF IInv, BoolTypes, DataTypes, Reasons
<1>5. Fresh'
  BY <1>1, <1>2, Names DEF IInv, Fresh
<1>6. LoopDestroyer' /\ ShutdownOnce'
  BY <1>1, <1>2, Names DEF IInv, LoopDestroyer, ShutdownOnce, ShuttingDown
<1>7. CloseSeen' /\ OneRemoval'
  <2>1. CloseSeen'
    BY <1>1, <1>2 DEF IInv, CloseSeen, Running, SameLoop
  <2>2. OneRemoval'
    BY <1>1, <1>2, <1>3, Names DEF IInv, OneRemoval, Running, SameLoop
  <2> QED
    BY <2>1, <2>2
<1>8. RawFirst' /\ SendsFirst'
  BY <1>1, Names DEF IInv, RawFirst, InTime, SendsFirst
<1>9. KeptByOwner'
  BY <1>2 DEF KeptByOwner
<1>10. NotFreed' /\ StaysAlive'
  BY <1>2, <1>3 DEF IInv, NotFreed, StaysAlive
<1> QED
  BY <1>1, <1>4, <1>5, <1>6, <1>7, <1>8, <1>9, <1>10 DEF IInv

-----------------------------------------------------------------------------
(* The owner *)

LEMMA EstablishedKeeps ==
  ASSUME IInv, runEstablished PROVE IInv'
<1> USE DEF runEstablished, RanFunctor, LoopFree, connectEstablished, restVars, constVars, ownerVars
<1>1. QueueLoses("connectEstablished")
  BY Losing DEF IInv
<1>2. /\ state_ = "kConnecting" /\ removes = 0 /\ closes = 0 /\ removing = 0
      /\ QueuedOnce("connectEstablished") /\ conns_ = "held"
      /\ \A f \in Functors \ {"connectEstablished"} : ~Queued(f)
  BY <1>1, Names DEF QueueLoses, IInv, Fresh
<1>3. failed' = "none" /\ state_' = "kConnected" /\ removes' = 0 /\ closes' = 0
  BY <1>2 DEF EnableReading, update, Running
<1>4. \A f \in Functors : ~Queued(f)'
  BY <1>1, <1>2 DEF QueueLoses
<1> USE DEF QueueLoses
<1>5. BoolTypes' /\ DataTypes'
  BY <1>3 DEF IInv, BoolTypes, DataTypes, Reasons
<1>6. Fresh'
  BY <1>1, <1>2, <1>3, <1>4, Names DEF Fresh
<1>7. LoopDestroyer' /\ ShutdownOnce'
  BY <1>2, <1>3, <1>4, Names DEF IInv, LoopDestroyer, ShutdownOnce, ShuttingDown, Fresh
<1>8. CloseSeen' /\ OneRemoval'
  BY <1>1, <1>2, <1>3, <1>4, Names DEF IInv, CloseSeen, OneRemoval
<1>9. RawFirst' /\ SendsFirst'
  BY <1>1, <1>2, <1>3, <1>4, Names DEF IInv, RawFirst, InTime, SendsFirst
<1>10. KeptByOwner' /\ NotFreed' /\ StaysAlive'
  BY <1>2, <1>3 DEF KeptByOwner, NotFreed, StaysAlive
<1> QED
  BY <1>1, <1>5, <1>6, <1>7, <1>8, <1>9, <1>10 DEF IInv

LEMMA MadeKeeps ==
  ASSUME IInv, newConnection PROVE IInv'
<1> USE DEF newConnection, LoopFree, restVars, constVars, ownerVars
<1>1. /\ state_ = "kConnecting" /\ removes = 0 /\ closes = 0 /\ removing = 0 /\ ~fin
      /\ events = {} /\ ~stale /\ ~late /\ failed = "none"
      /\ \A f \in Functors : ~Queued(f)
      /\ \A t \in Threads : call[t] = "none"
  BY DEF IInv, Fresh, DataTypes
<1>2. CASE SameLoop
  <2>1. QueueKept
    BY <1>2, Keeping DEF IInv
  <2>2. /\ failed' = "none" /\ state_' = "kConnected" /\ removes' = 0 /\ closes' = 0
        /\ removing' = 0 /\ ~fin' /\ conns_' = "held"
    BY <1>1, <1>2 DEF connectEstablished, EnableReading, update, Running
  <2>3. \A f \in Functors : ~Queued(f)'
    BY <1>1, <2>1 DEF QueueKept
  <2> USE DEF QueueKept
  <2>4. BoolTypes' /\ DataTypes'
    BY <1>2, <2>2 DEF IInv, BoolTypes, DataTypes, Reasons, connectEstablished
  <2>5. Fresh'
    BY <2>1, <2>2, <2>3, Names DEF IInv, Fresh
  <2>6. LoopDestroyer' /\ ShutdownOnce'
    BY <1>1, <2>2, <2>3, Names DEF IInv, LoopDestroyer, ShutdownOnce, ShuttingDown
  <2>7. CloseSeen' /\ OneRemoval'
    BY <1>1, <2>1, <2>2, <2>3, Names DEF IInv, CloseSeen, OneRemoval, SameLoop
  <2>8. RawFirst' /\ SendsFirst'
    BY <1>1, <2>1, <2>2, <2>3, Names DEF IInv, RawFirst, InTime, SendsFirst
  <2>9. KeptByOwner' /\ NotFreed' /\ StaysAlive'
    BY <2>2 DEF KeptByOwner, NotFreed, StaysAlive
  <2> QED
    BY <2>1, <2>4, <2>5, <2>6, <2>7, <2>8, <2>9 DEF IInv
<1>3. CASE ~SameLoop
  <2>1. /\ Appends(<<"connectEstablished">>) /\ conns_' = "held" /\ stale' = stale
        /\ UNCHANGED <<state_, events, outputBuf_, removing, fin, closes, removes, failed>>
    BY <1>3
  <2>2. QueueGains("connectEstablished") /\ "connectEstablished" \notin Raw
    BY <2>1, Gaining, Names DEF IInv, Raw
  <2>3. \A f \in Functors \ {"connectEstablished"} : ~Queued(f)'
    BY <1>1, <2>2 DEF QueueGains
  <2> USE DEF QueueGains
  <2>4. BoolTypes' /\ DataTypes'
    BY <2>1 DEF IInv, BoolTypes, DataTypes
  <2>5. Fresh'
    BY <1>1, <1>3, <2>1, <2>2, <2>3, Names DEF Fresh, SameLoop
  <2>6. LoopDestroyer' /\ ShutdownOnce'
    BY <1>1, <2>1, <2>3, Names DEF IInv, LoopDestroyer, ShutdownOnce, ShuttingDown
  <2>7. CloseSeen' /\ OneRemoval'
    BY <1>1, <2>1, <2>2, <2>3, Names DEF IInv, CloseSeen, OneRemoval, SameLoop
  <2>8. RawFirst' /\ SendsFirst'
    BY <1>1, <2>1, <2>2, <2>3, Names DEF IInv, RawFirst, InTime, SendsFirst
  <2>9. KeptByOwner' /\ NotFreed' /\ StaysAlive'
    BY <1>1, <2>1 DEF KeptByOwner, NotFreed, StaysAlive
  <2> QED
    BY <2>2, <2>4, <2>5, <2>6, <2>7, <2>8, <2>9 DEF IInv
<1> QED
  BY <1>2, <1>3

\* The destructor of the client: a connection that is left to nobody is one that
\* forceClose will close.
LEMMA ClientDestroyedKeeps ==
  ASSUME IInv, NEW t \in Threads, NEW inCallback \in BOOLEAN, destroyClient(t, inCallback)
  PROVE  IInv'
<1> USE DEF destroyClient, Erase, constVars
<1>1. /\ state_ # "kConnecting" /\ owner = "client" /\ SameLoop /\ destroyer = "none"
      /\ state_ # "kDisconnected"
  BY DEF IInv, Fresh, CloseSeen, Running, SameLoop
<1>2. /\ QueuedOnce("connectEstablished") => QueuedOnce("connectEstablished")'
      /\ QueuedOnce("connectDestroyed") => QueuedOnce("connectDestroyed")'
      /\ Queued("connectEstablished")' <=> Queued("connectEstablished")
      /\ Queued("connectDestroyed")' <=> Queued("connectDestroyed")
      /\ Queued("shutdownInLoop")' <=> Queued("shutdownInLoop")
      /\ PassInv(Functors)'
      /\ \A f \in Raw :
           /\ QueuedBefore(f, "connectDestroyed") => QueuedBefore(f, "connectDestroyed")'
           /\ Queued(f)' <=> Queued(f)
      /\ SendsAhead => SendsAhead'
  <2>1. CASE t = Loop
    <3>1. QueueKept
      BY <2>1, Keeping DEF IInv
    <3> QED
      BY <3>1, Names DEF QueueKept
  <2>2. CASE t # Loop
    <3>1. QueueGains("setCloseCallback") /\ "setCloseCallback" \notin Raw
      BY <2>2, Gaining, Names DEF IInv, Raw
    <3> QED
      BY <3>1, Names DEF QueueGains
  <2> QED
    BY <2>1, <2>2
<1>3. /\ call' \in [Threads -> CallStates] /\ abandoned' \in BOOLEAN
      /\ ~abandoned' => ~abandoned /\ conns_' = "held"
      /\ conns_' \in {"held", "erased"} /\ destroyer' = t
      /\ \A u \in Threads : call'[u] = "queueShutdown" => call[u] = "queueShutdown"
  <2>1. call' \in [Threads -> CallStates]
    BY DEF IInv, DataTypes, CallStates, Calls
  <2>2. abandoned' = ~unique(inCallback) /\ ~abandoned
    BY <1>1 DEF IInv, LoopDestroyer
  <2>3. MayClose
    BY <1>1 DEF MayClose, IInv, DataTypes
  <2>4. \A u \in Threads : call'[u] = "queueShutdown" => call[u] = "queueShutdown"
    BY DEF IInv, DataTypes
  <2> QED
    BY <2>1, <2>2, <2>3, <2>4
<1>4. "none" \notin Threads
  BY ConnectionAssumption DEF Threads
<1>5. BoolTypes' /\ DataTypes'
  BY <1>3 DEF IInv, BoolTypes, DataTypes
<1>6. Fresh'
  BY <1>1, <1>2, <1>3 DEF IInv, Fresh
<1>7. LoopDestroyer'
  BY <1>3, <1>4 DEF LoopDestroyer, Running
<1>8. ShutdownOnce'
  BY <1>2, <1>3 DEF IInv, ShutdownOnce, ShuttingDown
<1>9. CloseSeen' /\ OneRemoval'
  BY <1>1, <1>2 DEF IInv, CloseSeen, OneRemoval, Running, SameLoop
<1>10. RawFirst' /\ SendsFirst'
  BY <1>2, Names DEF IInv, RawFirst, InTime, SendsFirst, Raw
<1>11. KeptByOwner' /\ NotFreed' /\ StaysAlive'
  BY <1>3 DEF IInv, KeptByOwner, NotFreed, StaysAlive, Running
<1> QED
  BY <1>2, <1>5, <1>6, <1>7, <1>8, <1>9, <1>10, <1>11 DEF IInv

-----------------------------------------------------------------------------
(* The connection is kept until it is removed *)

LEMMA Kept ==
  ASSUME IInv, ~abandoned, InPoller PROVE Alive
<1> USE DEF InPoller
<1>1. conns_ # "none" /\ removes = 0
  BY DEF IInv, Fresh
<1>2. \/ owner # "client" \/ conns_ = "held"
      \/ Queued("connectDestroyed") \/ Queued("forceCloseInLoop")
  BY <1>1 DEF IInv, KeptByOwner
<1>3. "connectDestroyed" \in Sharing /\ "forceCloseInLoop" \in Sharing
  BY DEF Sharing
<1>4. \/ "conns_" \in Shares \/ "closeCallback_" \in Shares
      \/ \E f \in Sharing : f \in Shares
  BY <1>1, <1>2, <1>3 DEF Shares
<1> QED
  BY <1>4 DEF Alive

LEMMA FreedKeeps ==
  ASSUME IInv, runFreed PROVE IInv'
<1> USE DEF runFreed, LoopFree, restVars, constVars, ownerVars
<1>1. PICK g \in Raw : Runs(g, <<>>)
  BY DEF Raw
<1>2. QueueLoses(g) /\ g \in Functors
  BY <1>1, Losing DEF IInv
<1>3. g \notin {"connectEstablished", "connectDestroyed", "forceCloseInLoop"}
  BY DEF Raw
<1>4. state_ # "kConnecting"
  BY <1>2, <1>3 DEF IInv, Fresh, QueueLoses
<1>5. late \/ abandoned
  <2> SUFFICES ASSUME ~late PROVE abandoned
    OBVIOUS
  <2>1. removes = 0
    BY <1>2 DEF IInv, RawFirst, InTime, DataTypes, QueueLoses
  <2> QED
    BY <1>4, <2>1, Kept DEF InPoller
<1> USE DEF QueueLoses
<1>6. BoolTypes' /\ DataTypes'
  BY DEF IInv, BoolTypes, DataTypes, Reasons
<1>7. Fresh'
  BY <1>2, <1>3, <1>4, Names DEF IInv, Fresh
<1>8. LoopDestroyer' /\ ShutdownOnce'
  BY <1>2, Names DEF IInv, LoopDestroyer, ShutdownOnce, ShuttingDown
<1>9. CloseSeen' /\ OneRemoval'
  BY <1>2, <1>3, Names DEF IInv, CloseSeen, OneRemoval, Running, SameLoop
<1>10. RawFirst' /\ SendsFirst'
  BY <1>2, Names DEF IInv, RawFirst, InTime, SendsFirst
<1>11. KeptByOwner'
  BY <1>2, <1>3, Names DEF IInv, KeptByOwner
<1>12. NotFreed' /\ StaysAlive'
  BY <1>5 DEF NotFreed, StaysAlive
<1> QED
  BY <1>2, <1>6, <1>7, <1>8, <1>9, <1>10, <1>11, <1>12 DEF IInv

LEMMA NextIInv == IInv /\ [Next]_vars => IInv'
<1> SUFFICES ASSUME IInv, [Next]_vars PROVE IInv'
  OBVIOUS
<1>1. CASE handleRead \/ forceCloseInLoop \/ connectDestroyed \/ removeConnectionInLoop
  BY <1>1, ReadKeeps, ForcedKeeps, DestroyedKeeps, RemoveKeeps
<1>2. CASE runEstablished \/ newConnection \/ runFreed
  BY <1>2, EstablishedKeeps, MadeKeeps, FreedKeeps
<1>3. CASE runSend \/ runShutdown \/ setCloseCallback \/ runWriteComplete
  BY <1>3, RunSendKeeps, RunShutdownKeeps, CallbacksKeep
<1>4. CASE passOn \/ peerCloses \/ (\E t \in Threads : letGo(t)) \/ UNCHANGED vars
  BY <1>4, PassOnKeeps
<1>5. ASSUME NEW t \in Threads,
             \/ \E c \in Calls : enter(t, c)
             \/ setDisconnecting(t) \/ send(t) \/ shutdown(t) \/ forceClose(t)
             \/ \E inCallback \in BOOLEAN : destroyClient(t, inCallback)
      PROVE  IInv'
  BY <1>5, EnterKeeps, SetDisconnectingKeeps, SendKeeps, ShutdownKeeps, ForceCloseKeeps, ClientDestroyedKeeps
<1> QED
  BY <1>1, <1>2, <1>3, <1>4, <1>5 DEF Next, LoopStep

LEMMA Invariant == Spec => []IInv
BY InitIInv, NextIInv, PTL DEF Spec

-----------------------------------------------------------------------------
\* While no call acts on a state_ that has changed since it was tested, the owner
\* is told of the close once and the poller removes the channel once, however
\* many users call whatever they like.
THEOREM ClosesOnce == Spec => []ClosedOnce
<1>1. IInv => ClosedOnce
  BY DEF IInv, OneRemoval, ClosedOnce
<1> QED
  BY <1>1, Invariant, PTL

\* Nor is anything written after shutdownWrite, or the channel updated once it is
\* removed.
THEOREM NothingAborts == Spec => []StaysAlive
<1>1. IInv => StaysAlive
  BY DEF IInv
<1> QED
  BY <1>1, Invariant, PTL

\* Nor, whatever state_ a call acts on, is the connection freed while its channel
\* is in the poller, whoever lets go of it last: only a client's destructor can
\* leave it so.  A functor bound to its raw pointer finds it freed only then, or
\* when a functor so bound was queued after the close.
THEOREM NeverFreedInUse == Spec => []NothingDangles
<1>1. IInv => NothingDangles
  BY Kept DEF IInv, NotFreed, LoopDestroyer, NothingDangles
<1> QED
  BY <1>1, Invariant, PTL
=============================================================================
