-------------------------- MODULE LoopPass_proofs --------------------------
(***************************************************************************)
(* Lemmas about LoopPass, for any set F of functors: what a callback and a *)
(* functor do to the queue as a whole.  The theorems about the objects     *)
(* that live in a loop rest on them.                                       *)
(***************************************************************************)
EXTENDS LoopPass, SequenceTheorems, TLAPS

Has(s, f) == \E i \in DOMAIN s : s[i] = f
AtMostOnce(s, f) == \A i, j \in DOMAIN s : s[i] = f /\ s[j] = f => i = j
QueuedOnce(f) == AtMostOnce(Queue, f)

\* No g is behind an f.
InOrder(s, g, f) == \A i, j \in DOMAIN s : s[i] = f /\ s[j] = g => j < i
QueuedBefore(g, f) == InOrder(Queue, g, f)

\* A batch is run to its end before the next half of a pass.
PassInv(F) == PassTypeOK(F) /\ (half = "handle" => functors = <<>>)

-----------------------------------------------------------------------------
(* Sequences *)

LEMMA HasNone == ASSUME NEW f PROVE ~Has(<<>>, f) /\ AtMostOnce(<<>>, f)
BY DEF Has, AtMostOnce

LEMMA HasOne ==
  ASSUME NEW f, NEW g
  PROVE  (Has(<<g>>, f) <=> g = f) /\ AtMostOnce(<<g>>, f)
BY DEF Has, AtMostOnce

LEMMA HasConcat ==
  ASSUME NEW F, NEW s \in Seq(F), NEW t \in Seq(F), NEW f
  PROVE  Has(s \o t, f) <=> Has(s, f) \/ Has(t, f)
<1>1. /\ Len(s \o t) = Len(s) + Len(t) /\ Len(s) \in Nat /\ Len(t) \in Nat
      /\ DOMAIN s = 1..Len(s) /\ DOMAIN t = 1..Len(t) /\ DOMAIN (s \o t) = 1..Len(s \o t)
      /\ \A i \in 1..Len(s) : (s \o t)[i] = s[i]
      /\ \A i \in 1..Len(t) : (s \o t)[Len(s) + i] = t[i]
  BY ConcatProperties, LenProperties
<1>2. ASSUME NEW i \in 1..Len(s \o t), i \notin 1..Len(s)
      PROVE  i - Len(s) \in 1..Len(t) /\ (s \o t)[i] = t[i - Len(s)]
  <2>1. i - Len(s) \in 1..Len(t) /\ i = Len(s) + (i - Len(s))
    BY <1>1, <1>2
  <2> QED
    BY <1>1, <2>1
<1>3. ASSUME NEW i \in 1..Len(t) PROVE Len(s) + i \in 1..Len(s \o t)
  BY <1>1, <1>3
<1>4. ASSUME NEW i \in 1..Len(s) PROVE i \in 1..Len(s \o t)
  BY <1>1, <1>4
<1> QED
  BY <1>1, <1>2, <1>3, <1>4 DEF Has

LEMMA OnceConcat ==
  ASSUME NEW F, NEW s \in Seq(F), NEW t \in Seq(F), NEW f,
         AtMostOnce(s, f), AtMostOnce(t, f), ~Has(s, f) \/ ~Has(t, f)
  PROVE  AtMostOnce(s \o t, f)
<1>1. /\ Len(s \o t) = Len(s) + Len(t) /\ Len(s) \in Nat /\ Len(t) \in Nat
      /\ DOMAIN s = 1..Len(s) /\ DOMAIN t = 1..Len(t) /\ DOMAIN (s \o t) = 1..Len(s \o t)
      /\ \A i \in 1..Len(s) : (s \o t)[i] = s[i]
      /\ \A i \in 1..Len(t) : (s \o t)[Len(s) + i] = t[i]
  BY ConcatProperties, LenProperties
<1>2. ASSUME NEW i \in 1..Len(s \o t), i \notin 1..Len(s)
      PROVE  i - Len(s) \in 1..Len(t) /\ (s \o t)[i] = t[i - Len(s)]
  <2>1. i - Len(s) \in 1..Len(t) /\ i = Len(s) + (i - Len(s))
    BY <1>1, <1>2
  <2> QED
    BY <1>1, <2>1
<1> SUFFICES ASSUME NEW i \in 1..Len(s \o t), NEW j \in 1..Len(s \o t),
                    (s \o t)[i] = f, (s \o t)[j] = f
             PROVE  i = j
  BY <1>1 DEF AtMostOnce
<1>3. CASE i \in 1..Len(s) /\ j \in 1..Len(s)
  BY <1>1, <1>3 DEF AtMostOnce
<1>4. CASE i \notin 1..Len(s) /\ j \notin 1..Len(s)
  <2>1. i - Len(s) = j - Len(s)
    BY <1>1, <1>2, <1>4 DEF AtMostOnce
  <2> QED
    BY <1>1, <2>1
<1>5. CASE (i \in 1..Len(s) /\ j \notin 1..Len(s)) \/ (j \in 1..Len(s) /\ i \notin 1..Len(s))
  BY <1>1, <1>2, <1>5 DEF Has
<1> QED
  BY <1>3, <1>4, <1>5

LEMMA HasTail ==
  ASSUME NEW F, NEW s \in Seq(F), s # <<>>, NEW f
  PROVE  /\ Has(s, f) <=> Head(s) = f \/ Has(Tail(s), f)
         /\ AtMostOnce(s, f) => /\ AtMostOnce(Tail(s), f)
                                /\ ~(Head(s) = f /\ Has(Tail(s), f))
<1>1. /\ Len(s) \in Nat /\ Len(s) > 0 /\ Head(s) = s[1] /\ Tail(s) \in Seq(F)
      /\ Len(Tail(s)) = Len(s) - 1
      /\ DOMAIN s = 1..Len(s) /\ DOMAIN Tail(s) = 1..Len(Tail(s))
      /\ \A i \in 1..Len(Tail(s)) : Tail(s)[i] = s[i + 1]
  BY HeadTailProperties, LenProperties, EmptySeq
<1>2. ASSUME NEW i \in 1..Len(s), i # 1
      PROVE  i - 1 \in 1..Len(Tail(s)) /\ Tail(s)[i - 1] = s[i]
  <2>1. i - 1 \in 1..Len(Tail(s)) /\ (i - 1) + 1 = i
    BY <1>1, <1>2
  <2> QED
    BY <1>1, <2>1
<1>3. ASSUME NEW i \in 1..Len(Tail(s)) PROVE i + 1 \in 1..Len(s) /\ i + 1 # 1
  BY <1>1, <1>3
<1>4. 1 \in 1..Len(s)
  BY <1>1
<1>5. Has(s, f) <=> Head(s) = f \/ Has(Tail(s), f)
  <2>1. ASSUME NEW i \in 1..Len(s), s[i] = f PROVE Head(s) = f \/ Has(Tail(s), f)
    BY <1>1, <1>2, <2>1 DEF Has
  <2>2. ASSUME NEW i \in 1..Len(Tail(s)), Tail(s)[i] = f PROVE Has(s, f)
    BY <1>1, <1>3, <2>2 DEF Has
  <2>3. Head(s) = f => Has(s, f)
    BY <1>1, <1>4 DEF Has
  <2> QED
    BY <1>1, <2>1, <2>2, <2>3 DEF Has
<1>6. ASSUME AtMostOnce(s, f) PROVE AtMostOnce(Tail(s), f)
  <2> SUFFICES ASSUME NEW i \in 1..Len(Tail(s)), NEW j \in 1..Len(Tail(s)),
                      Tail(s)[i] = f, Tail(s)[j] = f
               PROVE  i = j
    BY <1>1 DEF AtMostOnce
  <2>1. i + 1 = j + 1
    BY <1>1, <1>3, <1>6 DEF AtMostOnce
  <2> QED
    BY <2>1
<1>7. ASSUME AtMostOnce(s, f), Head(s) = f, Has(Tail(s), f) PROVE FALSE
  BY <1>1, <1>3, <1>4, <1>7 DEF AtMostOnce, Has
<1> QED
  BY <1>5, <1>6, <1>7

\* Head and tail of a concatenation whose first part is not empty.
LEMMA HeadTailOfConcat ==
  ASSUME NEW F, NEW s \in Seq(F), s # <<>>, NEW t \in Seq(F)
  PROVE  s \o t # <<>> /\ Head(s \o t) = Head(s) /\ Tail(s \o t) = Tail(s) \o t
<1>1. /\ s \o t \in Seq(F) /\ Len(s \o t) = Len(s) + Len(t)
      /\ \A i \in 1..Len(s) + Len(t) :
           (s \o t)[i] = IF i <= Len(s) THEN s[i] ELSE t[i - Len(s)]
  BY ConcatProperties
<1>2. Len(s) \in Nat \ {0} /\ Len(t) \in Nat
  BY EmptySeq, LenProperties
<1>3. s \o t # <<>> /\ Head(s \o t) = Head(s)
  BY <1>1, <1>2, EmptySeq
<1>4. /\ Tail(s) \in Seq(F) /\ Len(Tail(s)) = Len(s) - 1
      /\ \A i \in 1..Len(Tail(s)) : Tail(s)[i] = s[i + 1]
  BY HeadTailProperties
<1>5. /\ Tail(s \o t) \in Seq(F) /\ Len(Tail(s \o t)) = Len(s) + Len(t) - 1
      /\ \A i \in 1..Len(s) + Len(t) - 1 : Tail(s \o t)[i] = (s \o t)[i + 1]
  BY <1>1, <1>3, HeadTailProperties
<1>6. /\ Tail(s) \o t \in Seq(F) /\ Len(Tail(s) \o t) = Len(s) - 1 + Len(t)
      /\ \A i \in 1..Len(s) - 1 + Len(t) :
           (Tail(s) \o t)[i] = IF i <= Len(s) - 1 THEN Tail(s)[i] ELSE t[i - (Len(s) - 1)]
  BY <1>4, ConcatProperties
<1>7. \A i \in 1..Len(s) + Len(t) - 1 : Tail(s \o t)[i] = (Tail(s) \o t)[i]
  BY <1>1, <1>2, <1>4, <1>5, <1>6
<1> QED
  BY <1>2, <1>3, <1>5, <1>6, <1>7, SeqEqual

LEMMA OrderConcat ==
  ASSUME NEW F, NEW s \in Seq(F), NEW t \in Seq(F), NEW f, NEW g,
         InOrder(s, g, f), InOrder(t, g, f), ~Has(s, f) \/ ~Has(t, g)
  PROVE  InOrder(s \o t, g, f)
<1>1. /\ Len(s \o t) = Len(s) + Len(t) /\ Len(s) \in Nat /\ Len(t) \in Nat
      /\ DOMAIN s = 1..Len(s) /\ DOMAIN t = 1..Len(t) /\ DOMAIN (s \o t) = 1..Len(s \o t)
      /\ \A i \in 1..Len(s) : (s \o t)[i] = s[i]
      /\ \A i \in 1..Len(t) : (s \o t)[Len(s) + i] = t[i]
  BY ConcatProperties, LenProperties
<1>2. ASSUME NEW i \in 1..Len(s \o t), i \notin 1..Len(s)
      PROVE  i - Len(s) \in 1..Len(t) /\ (s \o t)[i] = t[i - Len(s)] /\ i > Len(s)
  <2>1. i - Len(s) \in 1..Len(t) /\ i = Len(s) + (i - Len(s)) /\ i > Len(s)
    BY <1>1, <1>2
  <2> QED
    BY <1>1, <2>1
<1> SUFFICES ASSUME NEW i \in 1..Len(s \o t), NEW j \in 1..Len(s \o t),
                    (s \o t)[i] = f, (s \o t)[j] = g
             PROVE  j < i
  BY <1>1 DEF InOrder
<1>3. CASE i \in 1..Len(s) /\ j \in 1..Len(s)
  BY <1>1, <1>3 DEF InOrder
<1>4. CASE i \notin 1..Len(s) /\ j \notin 1..Len(s)
  <2>1. j - Len(s) < i - Len(s)
    BY <1>1, <1>2, <1>4 DEF InOrder
  <2> QED
    BY <1>1, <2>1
<1>5. CASE i \notin 1..Len(s) /\ j \in 1..Len(s)
  BY <1>1, <1>2, <1>5
<1>6. CASE i \in 1..Len(s) /\ j \notin 1..Len(s)
  BY <1>1, <1>2, <1>6 DEF Has
<1> QED
  BY <1>3, <1>4, <1>5, <1>6

LEMMA OrderTail ==
  ASSUME NEW F, NEW s \in Seq(F), s # <<>>, NEW f, NEW g, InOrder(s, g, f)
  PROVE  /\ InOrder(Tail(s), g, f)
         /\ Head(s) = f => ~Has(Tail(s), g)
<1>1. /\ Len(s) \in Nat /\ Len(s) > 0 /\ Head(s) = s[1]
      /\ Len(Tail(s)) = Len(s) - 1
      /\ DOMAIN s = 1..Len(s) /\ DOMAIN Tail(s) = 1..Len(Tail(s))
      /\ \A i \in 1..Len(Tail(s)) : Tail(s)[i] = s[i + 1] /\ i + 1 \in 1..Len(s)
  BY HeadTailProperties, LenProperties, EmptySeq
<1>2. InOrder(Tail(s), g, f)
  <2> SUFFICES ASSUME NEW i \in 1..Len(Tail(s)), NEW j \in 1..Len(Tail(s)),
                      Tail(s)[i] = f, Tail(s)[j] = g
               PROVE  j < i
    BY <1>1 DEF InOrder
  <2>1. j + 1 < i + 1
    BY <1>1 DEF InOrder
  <2> QED
    BY <2>1
<1>3. ASSUME Head(s) = f, NEW j \in 1..Len(Tail(s)), Tail(s)[j] = g PROVE FALSE
  <2>1. 1 \in 1..Len(s) /\ j + 1 \in 1..Len(s)
    BY <1>1
  <2>2. j + 1 < 1
    BY <1>1, <1>3, <2>1 DEF InOrder
  <2> QED
    BY <2>2
<1> QED
  BY <1>1, <1>2, <1>3 DEF Has

-----------------------------------------------------------------------------
(* Steps *)

LEMMA QueueType ==
  ASSUME NEW F, PassTypeOK(F)
  PROVE  Queue \in Seq(F)
BY ConcatProperties DEF PassTypeOK, Queue

\* What is queued goes to the end.
LEMMA AppendsToQueue ==
  ASSUME NEW F, PassInv(F), NEW new \in Seq(F), Appends(new)
  PROVE  PassInv(F)' /\ Queue' = Queue \o new
<1>1. functors \o (appendFunctors_ \o new) = (functors \o appendFunctors_) \o new
  BY ConcatAssociative DEF PassInv, PassTypeOK
<1>2. appendFunctors_' \in Seq(F)
  BY ConcatProperties DEF PassInv, PassTypeOK, Appends
<1> QED
  BY <1>1, <1>2 DEF PassInv, PassTypeOK, Appends, Queue

\* The functor that runs is the oldest.
LEMMA RunsFromQueue ==
  ASSUME NEW F, PassInv(F), NEW f, NEW new \in Seq(F), Runs(f, new)
  PROVE  /\ PassInv(F)' /\ f \in F
         /\ Queue # <<>> /\ Head(Queue) = f /\ Queue' = Tail(Queue) \o new
<1>1. /\ functors \in Seq(F) /\ functors # <<>> /\ appendFunctors_ \in Seq(F)
      /\ Head(functors) = f /\ half = "run"
  BY DEF PassInv, PassTypeOK, Runs
<1>2. Tail(functors) \in Seq(F) /\ f \in F
  BY <1>1, HeadTailProperties
<1>3. /\ Queue # <<>> /\ Head(Queue) = f
      /\ Tail(Queue) = Tail(functors) \o appendFunctors_
  BY <1>1, HeadTailOfConcat DEF Queue
<1>4. Queue' = Tail(functors) \o (appendFunctors_ \o new)
  BY DEF Runs, Queue
<1>5. (Tail(functors) \o appendFunctors_) \o new = Tail(functors) \o (appendFunctors_ \o new)
  BY <1>1, <1>2, ConcatAssociative
<1>6. PassInv(F)'
  BY <1>1, <1>2, ConcatProperties DEF PassInv, PassTypeOK, Runs
<1> QED
  BY <1>2, <1>3, <1>4, <1>5, <1>6

\* The queue after a callback that queues nothing, and after one that queues h.
LEMMA AppendsNone ==
  ASSUME NEW F, PassInv(F), Appends(<<>>)
  PROVE  PassInv(F)' /\ Queue' = Queue
<1>1. <<>> \in Seq(F) /\ Queue \in Seq(F)
  BY QueueType DEF PassInv
<1> QED
  BY <1>1, AppendsToQueue, ConcatEmptySeq

LEMMA AppendsOne ==
  ASSUME NEW F, PassInv(F), NEW h \in F, Appends(<<h>>)
  PROVE  /\ PassInv(F)'
         /\ Queued(h)' /\ (~Queued(h) => QueuedOnce(h)')
         /\ \A f \in F :
              f # h => (Queued(f)' <=> Queued(f)) /\ (QueuedOnce(f) => QueuedOnce(f)')
         /\ \A f, g \in F :
              f # g /\ QueuedBefore(g, f) /\ (g = h => ~Queued(f)) => QueuedBefore(g, f)'
<1>0. <<h>> \in Seq(F)
  OBVIOUS
<1>1. <<h>> \in Seq(F) /\ Queue \in Seq(F) /\ PassInv(F)' /\ Queue' = Queue \o <<h>>
  BY <1>0, QueueType, AppendsToQueue DEF PassInv
<1>2. ASSUME NEW f \in F
      PROVE  /\ Queued(f)' <=> Queued(f) \/ h = f
             /\ QueuedOnce(f) /\ ~(Queued(f) /\ h = f) => QueuedOnce(f)'
  <2>1. (Queued(f) <=> Has(Queue, f)) /\ (Queued(f)' <=> Has(Queue', f))
    BY DEF Queued, Has
  <2>2. (Has(<<h>>, f) <=> h = f) /\ AtMostOnce(<<h>>, f)
    BY HasOne
  <2>3. Has(Queue \o <<h>>, f) <=> Has(Queue, f) \/ Has(<<h>>, f)
    BY <1>1, HasConcat
  <2>4. AtMostOnce(Queue, f) /\ AtMostOnce(<<h>>, f) /\ ~(Has(Queue, f) /\ Has(<<h>>, f))
          => AtMostOnce(Queue \o <<h>>, f)
    BY <1>1, OnceConcat
  <2> QED
    BY <1>1, <2>1, <2>2, <2>3, <2>4 DEF QueuedOnce
<1>3. ~Queued(h) => QueuedOnce(h)
  BY DEF Queued, QueuedOnce, AtMostOnce
<1>4. ASSUME NEW f \in F, NEW g \in F, f # g, QueuedBefore(g, f), g = h => ~Queued(f)
      PROVE  QueuedBefore(g, f)'
  <2>1. Queued(f) <=> Has(Queue, f)
    BY DEF Queued, Has
  <2>2. InOrder(<<h>>, g, f) /\ (Has(<<h>>, g) <=> h = g)
    BY <1>4, HasOne DEF InOrder
  <2>3. InOrder(Queue \o <<h>>, g, f)
    BY <1>1, <1>4, <2>1, <2>2, OrderConcat DEF QueuedBefore
  <2> QED
    BY <1>1, <2>3 DEF QueuedBefore
<1> QED
  BY <1>1, <1>2, <1>3, <1>4

\* What the functor g leaves in the queue, before it queues any.
LEMMA RestOfQueue ==
  ASSUME NEW F, PassInv(F), NEW g, NEW new \in Seq(F), Runs(g, new)
  PROVE  /\ PassInv(F)' /\ g \in F /\ Queued(g)
         /\ Tail(Queue) \in Seq(F) /\ Queue' = Tail(Queue) \o new
         /\ QueuedOnce(g) => ~Has(Tail(Queue), g)
         /\ \A f \in F : /\ f # g => (Queued(f) <=> Has(Tail(Queue), f))
                         /\ Has(Tail(Queue), f) => Queued(f)
                         /\ QueuedOnce(f) => AtMostOnce(Tail(Queue), f)
                         /\ QueuedBefore(f, g) => ~Has(Tail(Queue), f)
         /\ \A f, h \in F : QueuedBefore(f, h) => InOrder(Tail(Queue), f, h)
<1>1. /\ PassInv(F)' /\ g \in F /\ Queue \in Seq(F) /\ Queue # <<>> /\ Head(Queue) = g
      /\ Queue' = Tail(Queue) \o new
  BY QueueType, RunsFromQueue DEF PassInv
<1>2. Tail(Queue) \in Seq(F)
  BY <1>1, HeadTailProperties
<1>3. ASSUME NEW f \in F
      PROVE  /\ Queued(f) <=> f = g \/ Has(Tail(Queue), f)
             /\ QueuedOnce(f) => /\ AtMostOnce(Tail(Queue), f)
                                 /\ ~(f = g /\ Has(Tail(Queue), f))
             /\ QueuedBefore(f, g) => ~Has(Tail(Queue), f)
  <2>1. Queued(f) <=> Has(Queue, f)
    BY DEF Queued, Has
  <2>2. /\ Has(Queue, f) <=> Head(Queue) = f \/ Has(Tail(Queue), f)
        /\ AtMostOnce(Queue, f) => /\ AtMostOnce(Tail(Queue), f)
                                   /\ ~(Head(Queue) = f /\ Has(Tail(Queue), f))
    BY <1>1, HasTail
  <2>3. InOrder(Queue, f, g) => ~Has(Tail(Queue), f)
    BY <1>1, OrderTail
  <2> QED
    BY <1>1, <2>1, <2>2, <2>3 DEF QueuedOnce, QueuedBefore
<1>4. ASSUME NEW f \in F, NEW h \in F, QueuedBefore(f, h) PROVE InOrder(Tail(Queue), f, h)
  BY <1>1, <1>4, OrderTail DEF QueuedBefore
<1> QED
  BY <1>1, <1>2, <1>3, <1>4

\* The queue after the functor g has run and queued nothing, and after one that
\* has queued h.
LEMMA RunsAlone ==
  ASSUME NEW F, PassInv(F), NEW g, Runs(g, <<>>)
  PROVE  /\ PassInv(F)' /\ Queued(g)
         /\ QueuedOnce(g) => ~Queued(g)'
         /\ \A f \in F : /\ f # g => (Queued(f)' <=> Queued(f))
                         /\ Queued(f)' => Queued(f)
                         /\ QueuedOnce(f) => QueuedOnce(f)'
                         /\ QueuedBefore(f, g) => ~Queued(f)'
         /\ \A f, h \in F : QueuedBefore(f, h) => QueuedBefore(f, h)'
<1>1. <<>> \in Seq(F)
  OBVIOUS
<1>2. Queue' = Tail(Queue)
  BY <1>1, RestOfQueue, ConcatEmptySeq
<1>3. g \in F
  BY <1>1, RestOfQueue
<1>4. ASSUME NEW f \in F PROVE Queued(f)' <=> Has(Tail(Queue), f)
  BY <1>2 DEF Queued, Has
<1>5. ASSUME NEW f \in F PROVE QueuedOnce(f)' <=> AtMostOnce(Tail(Queue), f)
  BY <1>2 DEF QueuedOnce
<1>6. ASSUME NEW f \in F, NEW h \in F PROVE QueuedBefore(f, h)' <=> InOrder(Tail(Queue), f, h)
  BY <1>2 DEF QueuedBefore
<1> QED
  BY <1>1, <1>3, <1>4, <1>5, <1>6, RestOfQueue

LEMMA RunsOne ==
  ASSUME NEW F, PassInv(F), NEW g, NEW h \in F, h # g, Runs(g, <<h>>)
  PROVE  /\ PassInv(F)' /\ Queued(g)
         /\ QueuedOnce(g) => ~Queued(g)'
         /\ Queued(h)' /\ (~Queued(h) => QueuedOnce(h)')
         /\ \A f \in F : f # h => /\ f # g => (Queued(f)' <=> Queued(f))
                                  /\ Queued(f)' => Queued(f)
                                  /\ QueuedOnce(f) => QueuedOnce(f)'
         /\ \A a, b \in F :
              a # b /\ QueuedBefore(b, a) /\ (b = h => ~Queued(a)) => QueuedBefore(b, a)'
<1>1. <<h>> \in Seq(F)
  OBVIOUS
<1>2. /\ PassInv(F)' /\ g \in F /\ Queued(g)
      /\ Tail(Queue) \in Seq(F) /\ Queue' = Tail(Queue) \o <<h>>
      /\ QueuedOnce(g) => ~Has(Tail(Queue), g)
      /\ \A f \in F : /\ f # g => (Queued(f) <=> Has(Tail(Queue), f))
                      /\ Has(Tail(Queue), f) => Queued(f)
                      /\ QueuedOnce(f) => AtMostOnce(Tail(Queue), f)
      /\ \A a, b \in F : QueuedBefore(b, a) => InOrder(Tail(Queue), b, a)
  BY <1>1, RestOfQueue
<1>3. ASSUME NEW f \in F
      PROVE  /\ Queued(f)' <=> Has(Tail(Queue), f) \/ h = f
             /\ AtMostOnce(Tail(Queue), f) /\ ~(Has(Tail(Queue), f) /\ h = f) => QueuedOnce(f)'
  <2>1. Queued(f)' <=> Has(Queue', f)
    BY DEF Queued, Has
  <2>2. (Has(<<h>>, f) <=> h = f) /\ AtMostOnce(<<h>>, f)
    BY HasOne
  <2>3. Has(Tail(Queue) \o <<h>>, f) <=> Has(Tail(Queue), f) \/ Has(<<h>>, f)
    BY <1>1, <1>2, HasConcat
  <2>4. AtMostOnce(Tail(Queue), f) /\ AtMostOnce(<<h>>, f)
          /\ ~(Has(Tail(Queue), f) /\ Has(<<h>>, f)) => AtMostOnce(Tail(Queue) \o <<h>>, f)
    BY <1>1, <1>2, OnceConcat
  <2> QED
    BY <1>2, <2>1, <2>2, <2>3, <2>4 DEF QueuedOnce
<1>4. ~Queued(h) => AtMostOnce(Tail(Queue), h) /\ ~Has(Tail(Queue), h)
  BY <1>2 DEF Has, AtMostOnce
<1>5. ASSUME NEW a \in F, NEW b \in F, a # b, QueuedBefore(b, a), b = h => ~Queued(a)
      PROVE  QueuedBefore(b, a)'
  <2>1. InOrder(<<h>>, b, a) /\ (Has(<<h>>, b) <=> h = b)
    BY <1>5, HasOne DEF InOrder
  <2>2. InOrder(Tail(Queue) \o <<h>>, b, a)
    BY <1>1, <1>2, <1>5, <2>1, OrderConcat
  <2> QED
    BY <1>2, <2>2 DEF QueuedBefore
<1>6. QueuedOnce(g) => ~Queued(g)'
  BY <1>2, <1>3
<1> QED
  BY <1>2, <1>3, <1>4, <1>5, <1>6

\* From one half of a pass to the next the queue stays.
LEMMA PassOnKeepsQueue ==
  ASSUME NEW F, PassInv(F), swapFunctors \/ functorsDone \/ UNCHANGED passVars
  PROVE  PassInv(F)' /\ Queue' = Queue
<1>1. CASE swapFunctors
  <2>1. /\ functors = <<>> /\ appendFunctors_ \in Seq(F) /\ <<>> \in Seq(F)
        /\ functors' = appendFunctors_ /\ appendFunctors_' = <<>> /\ half' = "run"
    BY <1>1, EmptySeq DEF PassInv, PassTypeOK, swapFunctors
  <2>2. <<>> \o appendFunctors_ = appendFunctors_ /\ appendFunctors_ \o <<>> = appendFunctors_
    BY <2>1, ConcatEmptySeq
  <2> QED
    BY <2>1, <2>2 DEF PassInv, PassTypeOK, Queue
<1>2. CASE functorsDone \/ UNCHANGED passVars
  BY <1>2 DEF functorsDone, passVars, PassInv, PassTypeOK, Queue
<1> QED
  BY <1>1, <1>2

\* What is said of the queue stays true while the queue stays the same.
LEMMA QueueSame ==
  ASSUME NEW F, Queue' = Queue
  PROVE  /\ \A f \in F : (Queued(f)' <=> Queued(f)) /\ (QueuedOnce(f)' <=> QueuedOnce(f))
         /\ \A f, g \in F : QueuedBefore(f, g)' <=> QueuedBefore(f, g)
BY DEF Queued, QueuedOnce, QueuedBefore
=============================================================================
