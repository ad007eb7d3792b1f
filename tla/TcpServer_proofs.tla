--------------------------- MODULE TcpServer_proofs ---------------------------
(***************************************************************************)
(* Theorems about TcpServer, for any number of I/O loops and connections:  *)
(* the server holds the connections that it serves, and deals them out     *)
(* evenly.                                                                 *)
(***************************************************************************)
EXTENDS TcpServer, FiniteSetTheorems, SequenceTheorems, TLAPS

Stages == {"none", "new", "open", "closed", "destroyed"}
Names == {"connectEstablished", "removeConnectionInLoop", "connectDestroyed"}

TypeOK ==
  /\ numThreads_ \in 0..MaxThreads
  /\ started_ \in BOOLEAN /\ listening_ \in BOOLEAN
  /\ loops_ \in Seq(Pool)
  /\ next_ \in Nat /\ nextConnTd_ \in Nat \ {0}
  /\ conns_ \subseteq Conns
  /\ loopOf \in [Conns -> Loops]
  /\ stage \in [Conns -> Stages]
  /\ queue \in [Loops -> Seq(Names \X Conns)]

\* What a functor e that is queued in loop l says of its connection, where st are the
\* stages and of the loops of the connections.
FitsIn(l, e, st, of) ==
  /\ e[1] = "connectEstablished" => st[e[2]] = "new" /\ of[e[2]] = l
  /\ e[1] # "connectEstablished" => st[e[2]] \in {"closed", "destroyed"}

Fit(q, st, of) == \A l \in Loops : \A i \in 1..Len(q[l]) : FitsIn(l, q[l][i], st, of)

\* A connection is established by one functor.
Once(q) ==
  \A l \in Loops : \A i, j \in 1..Len(q[l]) :
    q[l][i] = q[l][j] /\ q[l][i][1] = "connectEstablished" => i = j

\* Connections are numbered in the order in which they come.
Numbered == \A c \in Conns : stage[c] = "none" <=> c >= nextConnTd_

\* The loops of the pool are started before the server listens.
Started ==
  /\ \A i \in 1..Len(loops_) : loops_[i] = i
  /\ ~started_ => loops_ = <<>> /\ ~listening_
  /\ ~listening_ => nextConnTd_ = 1 /\ next_ = 0
  /\ listening_ => Len(loops_) = numThreads_
  /\ next_ = 0 \/ next_ < numThreads_

HeldInv ==
  TypeOK /\ Fit(queue, stage, loopOf) /\ Once(queue) /\ Numbered /\ Started /\ HeldWhileServed

-----------------------------------------------------------------------------
(* Queues *)

LEMMA ShorterKeeps ==
  ASSUME NEW q \in [Loops -> Seq(Names \X Conns)], NEW st, NEW of, NEW l \in Loops,
         q[l] # <<>>, Fit(q, st, of), Once(q)
  PROVE  LET r == [q EXCEPT ![l] = Tail(@)]
         IN  /\ r \in [Loops -> Seq(Names \X Conns)]
             /\ Fit(r, st, of) /\ Once(r)
             /\ \A i \in 1..Len(r[l]) : i + 1 \in 1..Len(q[l]) /\ r[l][i] = q[l][i + 1]
             /\ \A k \in Loops : k # l => r[k] = q[k]
<1> DEFINE r == [q EXCEPT ![l] = Tail(@)]
<1>1. /\ Tail(q[l]) \in Seq(Names \X Conns) /\ Len(Tail(q[l])) = Len(q[l]) - 1
      /\ \A i \in 1..Len(Tail(q[l])) : Tail(q[l])[i] = q[l][i + 1]
      /\ Len(q[l]) \in Nat
  BY HeadTailProperties, LenProperties
<1>2. r[l] = Tail(q[l]) /\ \A k \in Loops : k # l => r[k] = q[k]
  OBVIOUS
<1>3. r \in [Loops -> Seq(Names \X Conns)]
  BY <1>1
<1> HIDE DEF r
<1>4. \A i \in 1..Len(r[l]) : i + 1 \in 1..Len(q[l]) /\ r[l][i] = q[l][i + 1]
  BY <1>1, <1>2
<1>5. Fit(r, st, of)
  <2> SUFFICES ASSUME NEW k \in Loops, NEW i \in 1..Len(r[k])
               PROVE  FitsIn(k, r[k][i], st, of)
    BY DEF Fit
  <2>1. PICK j \in 1..Len(q[k]) : r[k][i] = q[k][j]
    BY <1>2, <1>4
  <2>2. FitsIn(k, q[k][j], st, of)
    BY DEF Fit
  <2> QED
    BY <2>1, <2>2
<1>6. Once(r)
  <2> SUFFICES ASSUME NEW k \in Loops, NEW i \in 1..Len(r[k]), NEW j \in 1..Len(r[k]),
                      r[k][i] = r[k][j], r[k][i][1] = "connectEstablished"
               PROVE  i = j
    BY DEF Once
  <2>1. CASE k = l
    <3>1. i + 1 \in 1..Len(q[l]) /\ j + 1 \in 1..Len(q[l])
          /\ q[l][i + 1] = q[l][j + 1] /\ q[l][i + 1][1] = "connectEstablished"
      BY <1>4, <2>1
    <3>2. i + 1 = j + 1
      BY <3>1 DEF Once
    <3> QED
      BY <1>1, <1>2, <2>1, <3>2
  <2>2. CASE k # l
    BY <1>2, <2>2 DEF Once
  <2> QED
    BY <2>1, <2>2
<1> QED
  BY <1>2, <1>3, <1>4, <1>5, <1>6 DEF r

\* A functor is added that fits its connection, and is not there yet if it is to
\* establish it.
LEMMA LongerKeeps ==
  ASSUME NEW q \in [Loops -> Seq(Names \X Conns)], NEW st, NEW of, NEW l \in Loops,
         NEW f \in Names, NEW c \in Conns, Fit(q, st, of), Once(q),
         \/ /\ f = "connectEstablished" /\ st[c] = "new" /\ of[c] = l
            /\ \A i \in 1..Len(q[l]) : q[l][i][2] # c
         \/ f # "connectEstablished" /\ st[c] \in {"closed", "destroyed"}
  PROVE  LET r == [q EXCEPT ![l] = Append(@, <<f, c>>)]
         IN  r \in [Loops -> Seq(Names \X Conns)] /\ Fit(r, st, of) /\ Once(r)
<1> DEFINE r == [q EXCEPT ![l] = Append(@, <<f, c>>)]
           s == Append(q[l], <<f, c>>)
<1>1. /\ s \in Seq(Names \X Conns) /\ Len(s) = Len(q[l]) + 1 /\ Len(q[l]) \in Nat
      /\ \A i \in 1..Len(q[l]) : s[i] = q[l][i]
      /\ s[Len(q[l]) + 1] = <<f, c>>
  BY AppendProperties, LenProperties
<1>2. r[l] = s /\ \A k \in Loops : k # l => r[k] = q[k]
  OBVIOUS
<1> HIDE DEF s
<1>3. r \in [Loops -> Seq(Names \X Conns)]
  BY <1>1, <1>2
<1> HIDE DEF r
<1>4. Fit(r, st, of)
  <2> SUFFICES ASSUME NEW k \in Loops, NEW i \in 1..Len(r[k])
               PROVE  FitsIn(k, r[k][i], st, of)
    BY DEF Fit
  <2>1. CASE k # l
    BY <1>2, <2>1 DEF Fit
  <2>2. CASE k = l /\ i \in 1..Len(q[l])
    <3>1. r[k][i] = q[l][i]
      BY <1>1, <1>2, <2>2
    <3> QED
      BY <2>2, <3>1 DEF Fit
  <2>3. CASE k = l /\ i = Len(q[l]) + 1
    <3>1. r[k][i] = <<f, c>>
      BY <1>1, <1>2, <2>3
    <3>2. FitsIn(l, <<f, c>>, st, of)
      BY DEF FitsIn
    <3> QED
      BY <2>3, <3>1, <3>2
  <2> QED
    BY <1>1, <1>2, <2>1, <2>2, <2>3
<1>5. Once(r)
  <2> SUFFICES ASSUME NEW k \in Loops, NEW i \in 1..Len(r[k]), NEW j \in 1..Len(r[k]),
                      r[k][i] = r[k][j], r[k][i][1] = "connectEstablished"
               PROVE  i = j
    BY DEF Once
  <2>1. CASE k # l
    BY <1>2, <2>1 DEF Once
  <2>2. CASE k = l /\ i \in 1..Len(q[l]) /\ j \in 1..Len(q[l])
    <3>1. r[l][i] = q[l][i] /\ r[l][j] = q[l][j]
      BY <1>1, <1>2, <2>2
    <3> QED
      BY <2>2, <3>1 DEF Once
  <2>3. ASSUME k = l, NEW m \in {i, j}, NEW n \in {i, j}, r[k][m] = r[k][n],
               r[k][m][1] = "connectEstablished", m = Len(q[l]) + 1, n \in 1..Len(q[l])
        PROVE  FALSE
    <3>1. r[l][m] = <<f, c>> /\ r[l][n] = q[l][n]
      BY <1>1, <1>2, <2>3
    <3>2. q[l][n] = <<f, c>> /\ f = "connectEstablished"
      BY <2>3, <3>1
    <3> QED
      BY <2>3, <3>2
  <2>4. i \in 1..Len(r[l]) /\ k = l => i \in 1..Len(q[l]) \/ i = Len(q[l]) + 1
    BY <1>1, <1>2
  <2>5. j \in 1..Len(r[l]) /\ k = l => j \in 1..Len(q[l]) \/ j = Len(q[l]) + 1
    BY <1>1, <1>2
  <2> QED
    BY <2>1, <2>2, <2>3, <2>4, <2>5
<1> QED
  BY <1>3, <1>4, <1>5 DEF r

\* A connection that no functor is about may change.
LEMMA ChangeKeeps ==
  ASSUME NEW q \in [Loops -> Seq(Names \X Conns)], NEW st, NEW of, NEW st2, NEW of2,
         NEW c \in Conns, Fit(q, st, of),
         \A l \in Loops : \A i \in 1..Len(q[l]) : q[l][i][2] # c,
         \A d \in Conns : d # c => st2[d] = st[d] /\ of2[d] = of[d]
  PROVE  Fit(q, st2, of2)
<1> SUFFICES ASSUME NEW l \in Loops, NEW i \in 1..Len(q[l])
             PROVE  FitsIn(l, q[l][i], st2, of2)
  BY DEF Fit
<1>1. q[l][i] \in Names \X Conns
  BY ElementOfSeq
<1>2. q[l][i][2] \in Conns /\ q[l][i][2] # c
  BY <1>1
<1>3. st2[q[l][i][2]] = st[q[l][i][2]] /\ of2[q[l][i][2]] = of[q[l][i][2]]
  BY <1>2
<1>4. FitsIn(l, q[l][i], st, of)
  BY DEF Fit
<1> QED
  BY <1>3, <1>4 DEF FitsIn

\* No functor is about a connection in these stages.
LEMMA NoFunctor ==
  ASSUME NEW q \in [Loops -> Seq(Names \X Conns)], NEW st, NEW of, NEW c \in Conns,
         Fit(q, st, of), st[c] \in {"none", "open"}
  PROVE  \A l \in Loops : \A i \in 1..Len(q[l]) : q[l][i][2] # c
BY DEF Fit, FitsIn

-----------------------------------------------------------------------------
(* The invariant *)

LEMMA InitInv == Init => HeldInv
<1> SUFFICES ASSUME Init PROVE HeldInv
  OBVIOUS
<1>1. TypeOK
  <2>1. /\ loops_ \in Seq(Pool) /\ queue \in [Loops -> Seq(Names \X Conns)]
        /\ loopOf \in [Conns -> Loops] /\ stage \in [Conns -> Stages]
    BY EmptySeq DEF Init, Stages, Loops
  <2>2. started_ \in BOOLEAN /\ listening_ \in BOOLEAN
    BY DEF Init
  <2>3. /\ numThreads_ \in 0..MaxThreads /\ next_ \in Nat /\ nextConnTd_ \in Nat \ {0}
        /\ conns_ \subseteq Conns
    BY ServerAssumption DEF Init
  <2> QED
    BY <2>1, <2>2, <2>3 DEF TypeOK
<1>2. \A l \in Loops : Len(queue[l]) = 0
  BY EmptySeq DEF Init
<1>3. Fit(queue, stage, loopOf) /\ Once(queue)
  BY <1>2 DEF Fit, Once
<1>4. Numbered /\ HeldWhileServed
  BY DEF Init, Numbered, HeldWhileServed, Conns
<1>5. Started
  BY EmptySeq DEF Init, Started
<1> QED
  BY <1>1, <1>3, <1>4, <1>5 DEF HeldInv

\* Starting the server changes no connection.
LEMMA StartingKeeps ==
  ASSUME HeldInv, (\E n \in Pool : setThreadNum(n)) \/ start \/ startLoop \/ listen
  PROVE  HeldInv'
<1> USE ServerAssumption
<1>1. UNCHANGED <<next_, nextConnTd_, conns_, loopOf, stage, queue>>
  BY DEF setThreadNum, start, startLoop, listen, connVars
<1>2. Fit(queue, stage, loopOf)' /\ Once(queue)' /\ Numbered' /\ HeldWhileServed'
  BY <1>1 DEF HeldInv, Numbered, HeldWhileServed
<1>3. TypeOK' /\ Started'
  <2>1. CASE \E n \in Pool : setThreadNum(n)
    BY <1>1, <2>1 DEF HeldInv, TypeOK, Started, setThreadNum, Pool
  <2>2. CASE start
    BY <1>1, <2>2 DEF HeldInv, TypeOK, Started, start
  <2>3. CASE startLoop
    <3>1. Len(loops_) \in Nat /\ Len(loops_) + 1 \in Pool
      BY <2>3, LenProperties DEF HeldInv, TypeOK, startLoop, Pool
    <3>2. /\ loops_' \in Seq(Pool) /\ Len(loops_') = Len(loops_) + 1
          /\ \A i \in 1..Len(loops_) : loops_'[i] = loops_[i]
          /\ loops_'[Len(loops_) + 1] = Len(loops_) + 1
      BY <2>3, <3>1, AppendProperties DEF HeldInv, TypeOK, startLoop
    <3>3. \A i \in 1..Len(loops_') : loops_'[i] = i
      BY <3>1, <3>2 DEF HeldInv, Started
    <3>4. ~listening_
      BY <2>3, <3>1 DEF HeldInv, Started, TypeOK, startLoop
    <3>5. UNCHANGED <<numThreads_, started_, listening_>> /\ started_
      BY <2>3 DEF startLoop
    <3> QED
      BY <1>1, <3>2, <3>3, <3>4, <3>5 DEF HeldInv, TypeOK, Started
  <2>4. CASE listen
    BY <1>1, <2>4 DEF HeldInv, TypeOK, Started, listen
  <2> QED
    BY <2>1, <2>2, <2>3, <2>4
<1> QED
  BY <1>2, <1>3 DEF HeldInv

LEMMA AcceptKeeps == ASSUME HeldInv, newConnection PROVE HeldInv'
<1> DEFINE c == nextConnTd_
<1> USE ServerAssumption
<1>1. c \in Conns /\ stage[c] = "none"
  BY DEF newConnection, HeldInv, Numbered, TypeOK, Conns
<1>2. /\ Chosen \in Loops
      /\ next_' \in Nat /\ (next_' = 0 \/ next_' < numThreads_)
  <2>1. CASE loops_ = <<>>
    BY <2>1 DEF newConnection, Chosen, HeldInv, TypeOK, Started, Loops
  <2>2. CASE loops_ # <<>>
    <3>1. Len(loops_) = numThreads_ /\ numThreads_ \in Nat /\ numThreads_ > 0
      BY <2>2, LenProperties, EmptySeq DEF newConnection, HeldInv, TypeOK, Started
    <3>2. next_ + 1 \in 1..Len(loops_)
      BY <3>1 DEF HeldInv, Started, TypeOK
    <3>3. loops_[next_ + 1] \in Pool
      BY <3>2, ElementOfSeq DEF HeldInv, TypeOK
    <3> QED
      BY <2>2, <3>1, <3>2, <3>3 DEF newConnection, Chosen, Wrap, Loops, HeldInv, TypeOK
  <2> QED
    BY <2>1, <2>2
<1>3. /\ UNCHANGED <<numThreads_, started_, loops_, listening_>> /\ listening_
      /\ nextConnTd_' = nextConnTd_ + 1 /\ conns_' = conns_ \cup {c}
      /\ loopOf' = [loopOf EXCEPT ![c] = Chosen]
      /\ \E s \in {"new", "open"} : stage' = [stage EXCEPT ![c] = s]
  BY DEF newConnection, serverVars, Hold
<1>4. \A l \in Loops : \A i \in 1..Len(queue[l]) : queue[l][i][2] # c
  BY <1>1, NoFunctor DEF HeldInv, TypeOK
<1>5. Fit(queue, stage', loopOf')
  <2>1. \A d \in Conns : d # c => stage'[d] = stage[d] /\ loopOf'[d] = loopOf[d]
    BY <1>1, <1>3 DEF HeldInv, TypeOK
  <2>2. queue \in [Loops -> Seq(Names \X Conns)] /\ Fit(queue, stage, loopOf)
    BY DEF HeldInv, TypeOK
  <2>3. c \in Conns
    BY <1>1
  <2> HIDE DEF c
  <2> QED
    BY <1>4, <2>1, <2>2, <2>3, ChangeKeeps
<1>6. queue' \in [Loops -> Seq(Names \X Conns)] /\ Fit(queue, stage, loopOf)' /\ Once(queue)'
  <2>1. CASE Chosen = Base
    BY <1>5, <2>1 DEF newConnection, HeldInv, TypeOK
  <2>2. CASE Chosen # Base
    <3>1. /\ stage'[c] = "new" /\ loopOf'[c] = Chosen
          /\ queue' = [queue EXCEPT ![Chosen] = Append(@, <<"connectEstablished", c>>)]
      BY <1>1, <2>2 DEF newConnection, Queued, HeldInv, TypeOK
    <3>2. "connectEstablished" \in Names
      BY DEF Names
    <3>3. queue \in [Loops -> Seq(Names \X Conns)] /\ Once(queue)
      BY DEF HeldInv, TypeOK
    <3> HIDE DEF c
    <3> QED
      BY <1>1, <1>2, <1>4, <1>5, <3>1, <3>2, <3>3, LongerKeeps
  <2> QED
    BY <2>1, <2>2
<1>7. TypeOK'
  <2>1. stage' \in [Conns -> Stages] /\ loopOf' \in [Conns -> Loops] /\ conns_' \subseteq Conns
    BY <1>1, <1>2, <1>3 DEF HeldInv, TypeOK, Stages
  <2> QED
    BY <1>2, <1>3, <1>6, <2>1 DEF HeldInv, TypeOK
<1>8. Numbered' /\ HeldWhileServed'
  BY <1>1, <1>3 DEF HeldInv, TypeOK, Numbered, HeldWhileServed, Conns
<1>9. Started'
  BY <1>2, <1>3 DEF HeldInv, Started
<1> QED
  BY <1>6, <1>7, <1>8, <1>9 DEF HeldInv

\* What the steps of a loop leave alone, and what they have to keep.
LEMMA LoopStep ==
  ASSUME HeldInv, UNCHANGED <<serverVars, next_, nextConnTd_, loopOf>>,
         queue' \in [Loops -> Seq(Names \X Conns)], Fit(queue, stage, loopOf)', Once(queue)',
         stage' \in [Conns -> Stages], conns_' \subseteq Conns,
         \A c \in Conns : stage[c] = "none" <=> stage'[c] = "none",
         HeldWhileServed'
  PROVE  HeldInv'
<1>1. TypeOK'
  BY DEF HeldInv, TypeOK, serverVars
<1>2. Numbered' /\ Started'
  BY DEF HeldInv, Numbered, Started, serverVars
<1> QED
  BY <1>1, <1>2 DEF HeldInv

LEMMA CloseKeeps == ASSUME HeldInv, NEW c \in Conns, close(c) PROVE HeldInv'
<1>1. /\ stage' = [stage EXCEPT ![c] = "closed"] /\ stage[c] = "open"
      /\ UNCHANGED <<serverVars, next_, nextConnTd_, loopOf>>
      /\ conns_' \in {conns_, conns_ \ {c}}
      /\ \E f \in {"connectDestroyed", "removeConnectionInLoop"} :
           queue' = [queue EXCEPT ![Base] = Append(@, <<f, c>>)]
  BY DEF close, Release, Queued
<1>2. \A l \in Loops : \A i \in 1..Len(queue[l]) : queue[l][i][2] # c
  BY <1>1, NoFunctor DEF HeldInv, TypeOK
<1>3. stage' \in [Conns -> Stages] /\ stage'[c] = "closed"
      /\ \A d \in Conns : d # c => stage'[d] = stage[d]
  BY <1>1 DEF HeldInv, TypeOK, Stages
<1>4. Fit(queue, stage', loopOf')
  BY <1>1, <1>2, <1>3, ChangeKeeps DEF HeldInv, TypeOK
<1>5. queue' \in [Loops -> Seq(Names \X Conns)] /\ Fit(queue, stage, loopOf)' /\ Once(queue)'
  <2>1. PICK f \in {"connectDestroyed", "removeConnectionInLoop"} :
          queue' = [queue EXCEPT ![Base] = Append(@, <<f, c>>)]
    BY <1>1
  <2>2. f \in Names /\ f # "connectEstablished" /\ Base \in Loops
    BY DEF Names, Loops
  <2>3. queue \in [Loops -> Seq(Names \X Conns)] /\ Once(queue)
    BY DEF HeldInv, TypeOK
  <2> QED
    BY <1>3, <1>4, <2>1, <2>2, <2>3, LongerKeeps
<1>6. HeldWhileServed'
  BY <1>1, <1>3 DEF HeldInv, HeldWhileServed
<1> QED
  BY <1>1, <1>3, <1>5, <1>6, LoopStep DEF HeldInv, TypeOK

\* The functor at the head of a queue, and the queues without it.
LEMMA HeadFits ==
  ASSUME HeldInv, NEW l \in Loops, NEW f \in Names, NEW c \in Conns, NEW new,
         Runs(l, f, c, new)
  PROVE  /\ queue[l] # <<>> /\ FitsIn(l, <<f, c>>, stage, loopOf)
         /\ Shorter(l) \in [Loops -> Seq(Names \X Conns)]
         /\ Fit(Shorter(l), stage, loopOf) /\ Once(Shorter(l))
<1>1. queue[l] # <<>> /\ Head(queue[l]) = <<f, c>> /\ queue[l] \in Seq(Names \X Conns)
  BY DEF Runs, HeldInv, TypeOK
<1>2. 1 \in 1..Len(queue[l]) /\ queue[l][1] = <<f, c>>
  BY <1>1, LenProperties, EmptySeq
<1>3. FitsIn(l, <<f, c>>, stage, loopOf)
  BY <1>2 DEF HeldInv, Fit
<1> QED
  BY <1>1, <1>3, ShorterKeeps DEF HeldInv, TypeOK, Shorter

LEMMA EstablishKeeps ==
  ASSUME HeldInv, NEW l \in Loops, NEW c \in Conns, connectEstablished(l, c)
  PROVE  HeldInv'
<1>0. "connectEstablished" \in Names
  BY DEF Names
<1>1. /\ Runs(l, "connectEstablished", c, Shorter(l))
      /\ queue' = Shorter(l) /\ stage' = [stage EXCEPT ![c] = "open"]
      /\ UNCHANGED <<serverVars, next_, nextConnTd_, conns_, loopOf>>
  BY DEF connectEstablished, Runs
<1>2. /\ queue[l] # <<>> /\ FitsIn(l, <<"connectEstablished", c>>, stage, loopOf)
      /\ queue' \in [Loops -> Seq(Names \X Conns)]
      /\ Fit(queue', stage, loopOf) /\ Once(queue')
  BY <1>0, <1>1, HeadFits
<1>3. stage[c] = "new" /\ loopOf[c] = l
  BY <1>2 DEF FitsIn
<1>4. \A k \in Loops : \A i \in 1..Len(queue'[k]) : queue'[k][i][2] # c
  <2> SUFFICES ASSUME NEW k \in Loops, NEW i \in 1..Len(queue'[k]), queue'[k][i][2] = c
               PROVE  FALSE
    OBVIOUS
  <2>1. FitsIn(k, queue'[k][i], stage, loopOf)
    BY <1>2 DEF Fit
  <2>2. queue'[k][i][1] = "connectEstablished" /\ k = l
    BY <1>3, <2>1 DEF FitsIn
  <2>3. queue'[l][i] \in Names \X Conns
    BY <1>2, <2>2, ElementOfSeq
  <2>4. queue'[l][i] = <<"connectEstablished", c>>
    BY <2>2, <2>3
  <2>5. i + 1 \in 1..Len(queue[l]) /\ queue'[l][i] = queue[l][i + 1]
    BY <1>1, <1>2, <2>2, ShorterKeeps DEF HeldInv, TypeOK, Shorter
  <2>6. 1 \in 1..Len(queue[l]) /\ queue[l][1] = <<"connectEstablished", c>>
    <3>1. queue[l] \in Seq(Names \X Conns) /\ Head(queue[l]) = <<"connectEstablished", c>>
      BY <1>1 DEF Runs, HeldInv, TypeOK
    <3> QED
      BY <1>2, <3>1, LenProperties, EmptySeq
  <2>7. queue[l][i + 1] = queue[l][1] /\ queue[l][1][1] = "connectEstablished"
    BY <2>4, <2>5, <2>6
  <2>8. i + 1 = 1
    BY <2>5, <2>6, <2>7 DEF HeldInv, Once
  <2> QED
    BY <2>8
<1>5. stage' \in [Conns -> Stages] /\ stage'[c] = "open"
      /\ \A d \in Conns : d # c => stage'[d] = stage[d]
  BY <1>1 DEF HeldInv, TypeOK, Stages
<1>6. Fit(queue, stage, loopOf)'
  BY <1>1, <1>2, <1>4, <1>5, ChangeKeeps
<1>7. HeldWhileServed'
  BY <1>1, <1>3, <1>5 DEF HeldInv, HeldWhileServed
<1> QED
  BY <1>1, <1>2, <1>3, <1>5, <1>6, <1>7, LoopStep DEF HeldInv, TypeOK

LEMMA RemoveKeeps ==
  ASSUME HeldInv, NEW c \in Conns, removeConnectionInLoop(c) PROVE HeldInv'
<1> DEFINE short == Shorter(Base)
           to == DestroyIn(c)
<1>0. "removeConnectionInLoop" \in Names /\ "connectDestroyed" \in Names /\ Base \in Loops
      /\ to \in Loops
  BY DEF Names, Loops, DestroyIn, HeldInv, TypeOK
<1>1. /\ Runs(Base, "removeConnectionInLoop", c,
              [short EXCEPT ![to] = Append(@, <<"connectDestroyed", c>>)])
      /\ queue' = [short EXCEPT ![to] = Append(@, <<"connectDestroyed", c>>)]
      /\ conns_' = conns_ \ {c}
      /\ UNCHANGED <<serverVars, next_, nextConnTd_, stage, loopOf>>
  BY DEF removeConnectionInLoop, Runs, Release
<1>2. /\ FitsIn(Base, <<"removeConnectionInLoop", c>>, stage, loopOf)
      /\ short \in [Loops -> Seq(Names \X Conns)]
      /\ Fit(short, stage, loopOf) /\ Once(short)
  BY <1>0, <1>1, HeadFits
<1> HIDE DEF short, to
<1>3. stage[c] \in {"closed", "destroyed"}
  BY <1>2 DEF FitsIn
<1>4. queue' \in [Loops -> Seq(Names \X Conns)] /\ Fit(queue', stage, loopOf) /\ Once(queue')
  BY <1>0, <1>1, <1>2, <1>3, LongerKeeps
<1>5. HeldWhileServed'
  BY <1>1, <1>3 DEF HeldInv, HeldWhileServed
<1>6. Fit(queue, stage, loopOf)'
  BY <1>1, <1>4
<1> QED
  BY <1>1, <1>4, <1>5, <1>6, LoopStep DEF HeldInv, TypeOK

LEMMA DestroyKeeps ==
  ASSUME HeldInv, NEW l \in Loops, NEW c \in Conns, connectDestroyed(l, c)
  PROVE  HeldInv'
<1>0. "connectDestroyed" \in Names
  BY DEF Names
<1>1. /\ Runs(l, "connectDestroyed", c, Shorter(l)) /\ queue' = Shorter(l)
      /\ stage' \in {stage, [stage EXCEPT ![c] = "destroyed"]}
      /\ UNCHANGED <<serverVars, next_, nextConnTd_, conns_, loopOf>>
  BY DEF connectDestroyed, Runs
<1>2. /\ FitsIn(l, <<"connectDestroyed", c>>, stage, loopOf)
      /\ queue' \in [Loops -> Seq(Names \X Conns)]
      /\ Fit(queue', stage, loopOf) /\ Once(queue')
  BY <1>0, <1>1, HeadFits
<1>3. stage[c] \in {"closed", "destroyed"}
  BY <1>2 DEF FitsIn
<1>4. /\ stage' \in [Conns -> Stages] /\ stage'[c] \in {"closed", "destroyed"}
      /\ \A d \in Conns : d # c => stage'[d] = stage[d]
  BY <1>1, <1>3 DEF HeldInv, TypeOK, Stages
<1>5. Fit(queue, stage, loopOf)'
  <2> SUFFICES ASSUME NEW k \in Loops, NEW i \in 1..Len(queue'[k])
               PROVE  FitsIn(k, queue'[k][i], stage', loopOf')
    BY DEF Fit
  <2>1. FitsIn(k, queue'[k][i], stage, loopOf) /\ queue'[k][i] \in Names \X Conns
    BY <1>2, ElementOfSeq DEF Fit
  <2> QED
    BY <1>1, <1>3, <1>4, <2>1 DEF FitsIn
<1>6. HeldWhileServed'
  BY <1>1, <1>4 DEF HeldInv, HeldWhileServed
<1> QED
  BY <1>1, <1>2, <1>3, <1>4, <1>5, <1>6, LoopStep DEF HeldInv, TypeOK

LEMMA NextKeeps == HeldInv /\ [Next]_vars => HeldInv'
<1> SUFFICES ASSUME HeldInv, [Next]_vars PROVE HeldInv'
  OBVIOUS
<1>1. CASE (\E n \in Pool : setThreadNum(n)) \/ start \/ startLoop \/ listen
  BY <1>1, StartingKeeps
<1>2. CASE newConnection
  BY <1>2, AcceptKeeps
<1>3. CASE acceptFails
  BY <1>3 DEF acceptFails, serverVars, connVars, HeldInv, TypeOK, Numbered, Started,
              HeldWhileServed
<1>4. CASE \E c \in Conns : close(c)
  BY <1>4, CloseKeeps
<1>5. ASSUME NEW l \in Loops, RunFunctor(l) PROVE HeldInv'
  BY <1>5, EstablishKeeps, DestroyKeeps, RemoveKeeps DEF RunFunctor
<1>6. CASE UNCHANGED vars
  BY <1>6 DEF vars, connVars, HeldInv, TypeOK, Numbered, Started, HeldWhileServed
<1> QED
  BY <1>1, <1>2, <1>3, <1>4, <1>5, <1>6 DEF Next

\* A connection that is being established or open is held by the server, however the
\* functors of its loop and of the server's loop interleave.
THEOREM ServedIsHeld == Spec => []HeldWhileServed
<1>1. HeldInv => HeldWhileServed
  BY DEF HeldInv
<1> QED
  BY <1>1, InitInv, NextKeeps, PTL DEF Spec

-----------------------------------------------------------------------------
(* Dealing out *)

\* The loops before the one whose turn it is have been given one connection more
\* than the others.
Dealt ==
  \E k \in Nat : \A l \in 1..numThreads_ :
    Cardinality(Given(l)) = IF l <= next_ THEN k + 1 ELSE k

LEMMA GivenFinite == \A l \in Nat : IsFiniteSet(Given(l)) /\ Cardinality(Given(l)) \in Nat
<1> TAKE l \in Nat
<1>1. IsFiniteSet(Conns)
  BY FS_Interval, ServerAssumption DEF Conns
<1>2. Given(l) \subseteq Conns
  BY DEF Given
<1> QED
  BY <1>1, <1>2, FS_Subset, FS_CardinalityType

\* A step that leaves the connections with their loops leaves what was dealt.
LEMMA SameDeal ==
  ASSUME Dealt, UNCHANGED <<numThreads_, next_, loopOf>>,
         \A c \in Conns : stage[c] = "none" <=> stage'[c] = "none"
  PROVE  Dealt'
<1>1. \A l : Given(l)' = Given(l)
  BY DEF Given
<1> QED
  BY <1>1 DEF Dealt

LEMMA NothingDealt == ASSUME HeldInv, nextConnTd_ = 1, next_ = 0 PROVE Dealt
<1>1. \A c \in Conns : stage[c] = "none"
  BY DEF HeldInv, Numbered, Conns
<1>2. \A l : Given(l) = {}
  BY <1>1 DEF Given
<1>3. \A l : Cardinality(Given(l)) = 0
  BY <1>2, FS_EmptySet, Zenon
<1>4. \A l \in 1..numThreads_ : ~(l <= next_)
  OBVIOUS
<1> QED
  BY <1>3, <1>4 DEF Dealt

LEMMA AcceptDeals == ASSUME HeldInv, Dealt, newConnection PROVE Dealt'
<1> DEFINE c == nextConnTd_
<1>1. UNCHANGED <<numThreads_, loops_>> /\ Len(loops_) = numThreads_ /\ numThreads_ \in Nat
  BY DEF newConnection, serverVars, HeldInv, Started, TypeOK
<1>2. c \in Conns /\ stage[c] = "none"
  BY DEF newConnection, HeldInv, Numbered, TypeOK, Conns
<1>3. CASE numThreads_ = 0
  BY <1>1, <1>3 DEF Dealt
<1>4. CASE numThreads_ # 0
  <2>1. loops_ # <<>>
    BY <1>1, <1>4, EmptySeq
  <2>2. PICK m \in 1..numThreads_ : m = next_ + 1
    BY <1>1, <1>4 DEF HeldInv, Started, TypeOK
  <2>3. Chosen = m
    BY <1>1, <2>1, <2>2 DEF Chosen, HeldInv, Started
  <2>4. next_' = IF m >= numThreads_ THEN 0 ELSE m
    BY <1>1, <2>1, <2>2 DEF newConnection, Wrap
  <2>5. /\ stage' \in [Conns -> Stages] /\ stage'[c] # "none"
        /\ loopOf' \in [Conns -> Loops] /\ loopOf'[c] = m
        /\ \A d \in Conns : d # c => stage'[d] = stage[d] /\ loopOf'[d] = loopOf[d]
    <3>1. m \in Loops
      BY <1>1, ServerAssumption DEF Loops, Pool, HeldInv, TypeOK
    <3> QED
      BY <1>2, <2>3, <3>1 DEF newConnection, HeldInv, TypeOK, Stages
  <2> HIDE DEF c
  <2>6. Given(m)' = Given(m) \cup {c} /\ c \notin Given(m)
    BY <1>2, <2>5 DEF Given
  <2>7. \A l : l # m => Given(l)' = Given(l)
    BY <1>2, <2>5 DEF Given
  <2>8. Cardinality(Given(m)') = Cardinality(Given(m)) + 1
    <3>1. IsFiniteSet(Given(m))
      BY GivenFinite, <1>1
    <3>2. Cardinality(Given(m) \cup {c}) = Cardinality(Given(m)) + 1
      BY <2>6, <3>1, FS_AddElement
    <3> QED
      BY <2>6, <3>2, Zenon
  <2>9. PICK k \in Nat : \A l \in 1..numThreads_ :
          Cardinality(Given(l)) = IF l <= next_ THEN k + 1 ELSE k
    BY DEF Dealt
  <2>10. \A l \in 1..numThreads_ : Cardinality(Given(l)') = IF l <= m THEN k + 1 ELSE k
    <3> TAKE l \in 1..numThreads_
    <3>1. CASE l = m
      <4>1. Cardinality(Given(m)) = k
        BY <1>1, <2>2, <2>9 DEF HeldInv, TypeOK
      <4>2. Cardinality(Given(m)') = k + 1
        BY <2>8, <4>1
      <4>3. Cardinality(Given(l)') = k + 1
        BY <3>1, <4>2, Zenon
      <4> QED
        BY <3>1, <4>3
    <3>2. CASE l # m
      <4>1. Cardinality(Given(l)') = Cardinality(Given(l))
        BY <2>7, <3>2, Zenon
      <4> QED
        BY <2>2, <2>9, <3>2, <4>1 DEF HeldInv, TypeOK
    <3> QED
      BY <3>1, <3>2
  <2>11. CASE m >= numThreads_
    <3>1. next_' = 0
      BY <2>4, <2>11
    <3>2. \A l \in 1..numThreads_ : ~(l <= 0) /\ l <= m
      BY <1>1, <2>11
    <3>3. \A l \in 1..numThreads_ : Cardinality(Given(l)') = k + 1
      BY <2>10, <3>2
    <3> QED
      BY <1>1, <3>1, <3>2, <3>3 DEF Dealt
  <2>12. CASE ~(m >= numThreads_)
    <3>1. next_' = m
      BY <2>4, <2>12
    <3> QED
      BY <1>1, <2>10, <3>1 DEF Dealt
  <2> QED
    BY <2>11, <2>12
<1> QED
  BY <1>3, <1>4

LEMMA NextDeals == HeldInv /\ Dealt /\ [Next]_vars => Dealt'
<1> SUFFICES ASSUME HeldInv, Dealt, [Next]_vars PROVE Dealt'
  OBVIOUS
<1>0. HeldInv'
  BY NextKeeps
<1>1. CASE \E n \in Pool : setThreadNum(n)
  <2>1. (nextConnTd_ = 1 /\ next_ = 0)'
    BY <1>1 DEF setThreadNum, connVars, HeldInv, Started
  <2>2. HeldInv' /\ (nextConnTd_ = 1)' /\ (next_ = 0)' => Dealt'
    BY NothingDealt, PTL
  <2> QED
    BY <1>0, <2>1, <2>2
<1>2. CASE start \/ startLoop \/ listen \/ acceptFails \/ UNCHANGED vars
  BY <1>2, SameDeal DEF start, startLoop, listen, acceptFails, vars, connVars, serverVars
<1>3. CASE newConnection
  BY <1>3, AcceptDeals
<1>4. ASSUME NEW c \in Conns, close(c) PROVE Dealt'
  <2>1. \A d \in Conns : stage[d] = "none" <=> stage'[d] = "none"
    BY <1>4 DEF close, HeldInv, TypeOK
  <2> QED
    BY <1>4, <2>1, SameDeal DEF close, serverVars
<1>5. ASSUME NEW l \in Loops, RunFunctor(l) PROVE Dealt'
  <2>1. PICK c \in Conns : \/ connectEstablished(l, c) \/ connectDestroyed(l, c)
                           \/ (l = Base /\ removeConnectionInLoop(c))
    BY <1>5 DEF RunFunctor
  <2>2. UNCHANGED <<numThreads_, next_, loopOf>>
    BY <2>1 DEF connectEstablished, connectDestroyed, removeConnectionInLoop, serverVars
  <2>3. \A d \in Conns : stage[d] = "none" <=> stage'[d] = "none"
    <3>1. CASE connectEstablished(l, c)
      <4>1. stage[c] # "none"
        <5>1. "connectEstablished" \in Names
          BY DEF Names
        <5>2. FitsIn(l, <<"connectEstablished", c>>, stage, loopOf)
          BY <3>1, <5>1, HeadFits DEF connectEstablished
        <5> QED
          BY <5>2 DEF FitsIn
      <4> QED
        BY <3>1, <4>1 DEF connectEstablished, HeldInv, TypeOK
    <3>2. CASE connectDestroyed(l, c)
      <4>1. stage[c] # "none"
        <5>1. "connectDestroyed" \in Names
          BY DEF Names
        <5>2. FitsIn(l, <<"connectDestroyed", c>>, stage, loopOf)
          BY <3>2, <5>1, HeadFits DEF connectDestroyed
        <5> QED
          BY <5>2 DEF FitsIn
      <4> QED
        BY <3>2, <4>1 DEF connectDestroyed, HeldInv, TypeOK
    <3>3. CASE removeConnectionInLoop(c)
      BY <3>3 DEF removeConnectionInLoop
    <3> QED
      BY <2>1, <3>1, <3>2, <3>3
  <2> QED
    BY <2>2, <2>3, SameDeal
<1> QED
  BY <1>1, <1>2, <1>3, <1>4, <1>5 DEF Next

\* The pool deals connections out evenly, for any number of loops and connections,
\* whatever closes meanwhile.
THEOREM PoolDealsEvenly == Spec => []DealtEvenly
<1>1. Init => Dealt
  <2> SUFFICES ASSUME Init PROVE Dealt
    OBVIOUS
  <2> QED
    BY InitInv, NothingDealt DEF Init
<1>2. HeldInv /\ Dealt => DealtEvenly
  <2> SUFFICES ASSUME HeldInv, Dealt, NEW l \in 1..numThreads_, NEW m \in 1..numThreads_
               PROVE  Cardinality(Given(l)) <= Cardinality(Given(m)) + 1
    BY DEF DealtEvenly
  <2> QED
    BY DEF Dealt
<1> QED
  BY <1>1, <1>2, InitInv, NextKeeps, NextDeals, PTL DEF Spec
=============================================================================
