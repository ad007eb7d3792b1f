---------------------------- MODULE IoLoop_proofs ----------------------------
(***************************************************************************)
(* Theorems about IoLoop, for any set of channels: the handlers make only  *)
(* the calls that Poller's assertions allow, what is left to dispatch is   *)
(* registered and wanted, the positions that the channels record are those *)
(* of their entries, and a call leaves the entries of others as they were. *)
(***************************************************************************)
EXTENDS IoLoop, LoopPass_proofs, FiniteSetTheorems, FunctionTheorems

Known == DOMAIN channels_

Typed ==
  /\ events_ \in [Channel -> SUBSET Events]
  /\ index_ \in [Channel -> Int]
  /\ pollfds_ \in Seq(Entry)
  /\ Known \subseteq Channel
  /\ \A c \in Known : channels_[c] = c

\* The entry of a channel is its own; without events, ::poll ignores it.
OwnEntry ==
  \A c \in Known : /\ index_[c] + 1 \in 1..Len(pollfds_)
                   /\ EntryOf(c).fd \in {c, NoFd}
                   /\ EntryOf(c).events = events_[c]
                   /\ events_[c] = {} => EntryOf(c).fd = NoFd

\* A channel that was never added is not known.
Unindexed == \A c \in Channel : index_[c] < 0 => c \notin Known

\* Positions and channels correspond one to one.
OneToOne ==
  /\ \A i \in 1..Len(pollfds_) : \E c \in Known : index_[c] = i - 1
  /\ \A c, d \in Known : index_[c] = index_[d] => c = d
  /\ IsFiniteSet(Known) /\ Cardinality(Known) = Len(pollfds_)

PollerInv == ~crashed => Typed /\ OwnEntry /\ Unindexed /\ OneToOne

-----------------------------------------------------------------------------
LEMMA InitInv == Init => PollerInv
<1> SUFFICES ASSUME Init PROVE Typed /\ OwnEntry /\ Unindexed /\ OneToOne
  BY DEF PollerInv
<1>1. Known = {} /\ Len(pollfds_) = 0
  BY EmptySeq DEF Init, Known
<1>2. Typed
  BY <1>1, EmptySeq DEF Init, Typed
<1>3. OwnEntry /\ Unindexed
  BY <1>1 DEF OwnEntry, Unindexed
<1>4. IsFiniteSet(Known) /\ Cardinality(Known) = 0
  BY <1>1, FS_EmptySet, Zenon
<1>5. OneToOne
  BY <1>1, <1>4 DEF OneToOne
<1> QED
  BY <1>2, <1>3, <1>5

\* What a step that adds the entry of c does.
LEMMA AddKeeps ==
  ASSUME ~crashed, PollerInv, NEW c \in Channel, NEW e \in SUBSET Events, e # {},
         index_[c] < 0, AddEntry(c, e), events_' = [events_ EXCEPT ![c] = e]
  PROVE  /\ Typed' /\ OwnEntry' /\ Unindexed' /\ OneToOne'
         /\ \A d \in Known : EntryOf(d)' = EntryOf(d)
<1> USE DEF PollerInv
<1>1. c \notin Known /\ Known' = Known \cup {c} /\ Len(pollfds_) \in Nat
  BY LenProperties DEF Unindexed, AddEntry, Known, Typed
<1>2. [fd |-> c, events |-> e] \in Entry
  BY DEF Entry
<1>3. /\ pollfds_' \in Seq(Entry) /\ Len(pollfds_') = Len(pollfds_) + 1
      /\ \A i \in 1..Len(pollfds_) : pollfds_'[i] = pollfds_[i]
      /\ pollfds_'[Len(pollfds_) + 1] = [fd |-> c, events |-> e]
  BY <1>2, AppendProperties DEF AddEntry, Typed
<1>4. /\ index_' \in [Channel -> Int] /\ index_'[c] = Len(pollfds_)
      /\ \A d \in Channel : d # c => index_'[d] = index_[d]
  BY <1>1 DEF AddEntry, Typed
<1>5. /\ events_' \in [Channel -> SUBSET Events] /\ events_'[c] = e
      /\ \A d \in Channel : d # c => events_'[d] = events_[d]
  BY DEF Typed
<1>6. \A d \in Known : d # c /\ d \in Channel
  BY <1>1 DEF Typed
<1>7. \A d \in Known : EntryOf(d)' = EntryOf(d)
  BY <1>3, <1>4, <1>6 DEF OwnEntry, EntryOf
<1>8. EntryOf(c)' = [fd |-> c, events |-> e]
  BY <1>3, <1>4 DEF EntryOf
<1>9. Typed'
  <2>1. \A d \in Known' : channels_'[d] = d
    BY <1>1 DEF AddEntry, Known, Typed
  <2> QED
    BY <1>1, <1>3, <1>4, <1>5, <2>1 DEF Typed
<1>10. OwnEntry'
  <2> SUFFICES ASSUME NEW d \in Known'
               PROVE  /\ index_'[d] + 1 \in 1..Len(pollfds_')
                      /\ EntryOf(d)'.fd \in {d, NoFd}
                      /\ EntryOf(d)'.events = events_'[d]
                      /\ events_'[d] = {} => EntryOf(d)'.fd = NoFd
    BY DEF OwnEntry
  <2>1. CASE d = c
    BY <1>1, <1>3, <1>4, <1>5, <1>8, <2>1
  <2>2. CASE d \in Known
    <3>1. index_'[d] = index_[d] /\ events_'[d] = events_[d]
      BY <1>4, <1>5, <1>6, <2>2
    <3> QED
      BY <1>1, <1>3, <1>7, <2>2, <3>1 DEF OwnEntry
  <2> QED
    BY <1>1, <2>1, <2>2
<1>11. Unindexed'
  BY <1>1, <1>4 DEF Unindexed
<1>12. OneToOne'
  <2>1. \A i \in 1..Len(pollfds_') : \E d \in Known' : index_'[d] = i - 1
    <3> TAKE i \in 1..Len(pollfds_')
    <3>1. CASE i = Len(pollfds_) + 1
      BY <1>1, <1>4, <3>1
    <3>2. CASE i \in 1..Len(pollfds_)
      <4>1. PICK d \in Known : index_[d] = i - 1
        BY <3>2 DEF OneToOne
      <4> QED
        BY <1>1, <1>4, <1>6, <4>1
    <3> QED
      BY <1>1, <1>3, <3>1, <3>2
  <2>2. \A d \in Known : index_'[d] = index_[d] /\ index_[d] # Len(pollfds_)
    BY <1>1, <1>4, <1>6 DEF OwnEntry, Typed
  <2>3. \A d1, d2 \in Known' : index_'[d1] = index_'[d2] => d1 = d2
    BY <1>1, <1>4, <2>2 DEF OneToOne
  <2>4. IsFiniteSet(Known \cup {c}) /\ Cardinality(Known \cup {c}) = Len(pollfds_) + 1
    BY <1>1, FS_AddElement DEF OneToOne
  <2>5. IsFiniteSet(Known') /\ Cardinality(Known') = Len(pollfds_) + 1
    BY <1>1, <2>4, Zenon
  <2> QED
    BY <1>3, <2>1, <2>3, <2>5 DEF OneToOne
<1> QED
  BY <1>7, <1>9, <1>10, <1>11, <1>12

LEMMA SetKeeps ==
  ASSUME ~crashed, PollerInv, NEW c \in Known, NEW e \in SUBSET Events,
         SetEntry(c, e), events_' = [events_ EXCEPT ![c] = e]
  PROVE  /\ Typed' /\ OwnEntry' /\ Unindexed' /\ OneToOne'
         /\ \A d \in Known : events_'[d] = events_[d] => EntryOf(d)' = EntryOf(d)
<1> USE DEF PollerInv
<1> DEFINE old == EntryOf(c)
           new == [fd |-> IF e = {} THEN NoFd ELSE old.fd, events |-> e]
<1>1. UNCHANGED <<index_, channels_>> /\ Known' = Known /\ Len(pollfds_) \in Nat
      /\ c \in Channel
  BY LenProperties DEF SetEntry, Known, Typed
<1>2. index_[c] + 1 \in 1..Len(pollfds_)
  BY DEF OwnEntry
<1>3. old \in Entry
  BY <1>2, ElementOfSeq DEF EntryOf, Typed
<1>4. old = [fd |-> old.fd, events |-> old.events] /\ new \in Entry
  BY <1>3 DEF Entry
<1>5. pollfds_' = [pollfds_ EXCEPT ![index_[c] + 1] = new]
  BY DEF SetEntry, EntryOf
<1> HIDE DEF new
<1>6. /\ pollfds_' \in Seq(Entry) /\ Len(pollfds_') = Len(pollfds_)
      /\ pollfds_'[index_[c] + 1] = new
      /\ \A i \in 1..Len(pollfds_) : i # index_[c] + 1 => pollfds_'[i] = pollfds_[i]
  BY <1>2, <1>4, <1>5, ExceptSeq DEF Typed
<1>7. EntryOf(c)' = new
  BY <1>1, <1>6 DEF EntryOf
<1>8. \A d \in Known : d # c => EntryOf(d)' = EntryOf(d)
  <2> TAKE d \in Known
  <2> HAVE d # c
  <2>1. index_[d] # index_[c] /\ index_[d] \in Int /\ index_[c] \in Int
    BY <1>1 DEF OneToOne, Typed
  <2>2. index_[d] + 1 \in 1..Len(pollfds_) /\ index_[d] + 1 # index_[c] + 1
    BY <2>1 DEF OwnEntry
  <2> QED
    BY <1>1, <1>6, <2>2 DEF EntryOf
<1>9. /\ events_' \in [Channel -> SUBSET Events] /\ events_'[c] = e
      /\ \A d \in Channel : d # c => events_'[d] = events_[d]
  BY <1>1 DEF Typed
<1>10. new.events = e /\ new.fd \in {c, NoFd} /\ (e = {} => new.fd = NoFd)
  BY DEF new, OwnEntry
<1>11. Typed'
  BY <1>1, <1>6, <1>9 DEF Typed
<1>12. OwnEntry'
  <2> SUFFICES ASSUME NEW d \in Known
               PROVE  /\ index_'[d] + 1 \in 1..Len(pollfds_')
                      /\ EntryOf(d)'.fd \in {d, NoFd}
                      /\ EntryOf(d)'.events = events_'[d]
                      /\ events_'[d] = {} => EntryOf(d)'.fd = NoFd
    BY <1>1 DEF OwnEntry
  <2>1. CASE d = c
    BY <1>1, <1>2, <1>6, <1>7, <1>9, <1>10, <2>1
  <2>2. CASE d # c
    <3>1. EntryOf(d)' = EntryOf(d) /\ events_'[d] = events_[d]
      BY <1>8, <1>9, <2>2 DEF Typed
    <3> QED
      BY <1>1, <1>6, <3>1 DEF OwnEntry
  <2> QED
    BY <2>1, <2>2
<1>13. Unindexed' /\ OneToOne'
  BY <1>1, <1>6 DEF Unindexed, OneToOne
<1>14. events_'[c] = events_[c] => EntryOf(c)' = EntryOf(c)
  <2> HAVE events_'[c] = events_[c]
  <2>1. old.events = e /\ (e = {} => old.fd = NoFd)
    BY <1>9 DEF OwnEntry
  <2>2. new = [fd |-> old.fd, events |-> old.events]
    BY <2>1 DEF new
  <2> QED
    BY <1>4, <1>7, <2>2
<1> QED
  BY <1>8, <1>11, <1>12, <1>13, <1>14

\* A sequence without its last element.
LEMMA Popped ==
  ASSUME NEW S, NEW s \in Seq(S), NEW n \in Nat, Len(s) = n, n >= 1
  PROVE  /\ SubSeq(s, 1, n - 1) \in Seq(S) /\ Len(SubSeq(s, 1, n - 1)) = n - 1
         /\ \A j \in 1..(n - 1) : SubSeq(s, 1, n - 1)[j] = s[j]
<1>1. \A j \in 1..(n - 1) : s[j] \in S
  BY ElementOfSeq
<1>2. /\ SubSeq(s, 1, n - 1) \in Seq(S)
      /\ Len(SubSeq(s, 1, n - 1)) = IF 1 <= n - 1 THEN (n - 1) - 1 + 1 ELSE 0
      /\ \A j \in 1..((n - 1) - 1 + 1) : SubSeq(s, 1, n - 1)[j] = s[1 + j - 1]
  BY <1>1, SubSeqProperties
<1> DEFINE t == SubSeq(s, 1, n - 1)
<1> HIDE DEF t
<1>3. Len(t) = n - 1
  BY <1>2 DEF t
<1>4. ASSUME NEW j \in 1..(n - 1) PROVE t[j] = s[j]
  <2>1. j \in 1..((n - 1) - 1 + 1) /\ 1 + j - 1 = j
    OBVIOUS
  <2> QED
    BY <1>2, <2>1 DEF t
<1> QED
  BY <1>2, <1>3, <1>4 DEF t

\* The entries without the one at a position, which the last one takes.
LEMMA SwapRemoves ==
  ASSUME ~crashed, PollerInv, NEW i \in 1..Len(pollfds_)
  PROVE  /\ RemoveSwap(i) \in Seq(Entry) /\ Len(RemoveSwap(i)) = Len(pollfds_) - 1
         /\ \A j \in 1..(Len(pollfds_) - 1) :
              RemoveSwap(i)[j] = IF j = i THEN pollfds_[Len(pollfds_)] ELSE pollfds_[j]
<1> DEFINE n == Len(pollfds_)
           swapped == [pollfds_ EXCEPT ![i] = pollfds_[n]]
<1>1. pollfds_ \in Seq(Entry) /\ n \in Nat /\ n >= 1
  BY LenProperties DEF PollerInv, Typed
<1>2. pollfds_[n] \in Entry
  BY <1>1, ElementOfSeq
<1>3. swapped \in Seq(Entry) /\ Len(swapped) = n /\ swapped[i] = pollfds_[n]
      /\ \A j \in 1..n : j # i => swapped[j] = pollfds_[j]
  BY <1>1, <1>2, ExceptSeq
<1> HIDE DEF swapped
<1>5. /\ SubSeq(swapped, 1, n - 1) \in Seq(Entry) /\ Len(SubSeq(swapped, 1, n - 1)) = n - 1
      /\ \A j \in 1..(n - 1) : SubSeq(swapped, 1, n - 1)[j] = swapped[j]
  BY <1>1, <1>3, Popped
<1>6. RemoveSwap(i) = SubSeq(swapped, 1, n - 1)
  BY DEF RemoveSwap, Size, swapped
<1>7. \A j \in 1..(n - 1) : swapped[j] = IF j = i THEN pollfds_[n] ELSE pollfds_[j]
  BY <1>1, <1>3
<1> QED
  BY <1>5, <1>6, <1>7

\* What removeChannel does when it does not end the program.
LEMMA Removes ==
  ASSUME ~crashed, PollerInv, NEW c \in Channel, removeChannel(c), ~crashed'
  PROVE  LET n == Len(pollfds_)
             i == index_[c] + 1
         IN  /\ c \in Known /\ i \in 1..n /\ n \in Nat
             /\ Known' = Known \ {c} /\ \A d \in Known' : channels_'[d] = d
             /\ pollfds_' \in Seq(Entry) /\ Len(pollfds_') = n - 1
             /\ \A j \in 1..(n - 1) : pollfds_'[j] = IF j = i THEN pollfds_[n] ELSE pollfds_[j]
             /\ index_' \in [Channel -> Int]
             /\ \A d \in Known' : index_'[d] = IF index_[d] = n - 1 THEN i - 1 ELSE index_[d]
             /\ \A d \in Channel : d \notin Known => index_'[d] = index_[d]
             /\ index_'[c] = index_[c]
             /\ UNCHANGED events_
<1> USE DEF PollerInv
<1> DEFINE n == Len(pollfds_)
           i == index_[c] + 1
           rest == Restrict(channels_, DOMAIN channels_ \ {c})
           last == pollfds_[n].fd
<1>1. c \in Known /\ i \in 1..n /\ index_[c] \in Int
  BY DEF removeChannel, Registered, Known, OwnEntry, Typed
<1>2. n \in Nat /\ pollfds_ \in Seq(Entry)
  BY LenProperties DEF Typed
<1>3. DOMAIN rest = Known \ {c} /\ \A d \in Known \ {c} : rest[d] = d
  BY DEF Restrict, Known, Typed
<1>4. CASE index_[c] = n - 1
  <2>1. pollfds_' = SubSeq(pollfds_, 1, n - 1) /\ channels_' = rest
        /\ UNCHANGED <<index_, events_>>
    BY <1>4 DEF removeChannel, Size
  <2>2. n >= 1
    BY <1>1, <1>2
  <2>3. /\ SubSeq(pollfds_, 1, n - 1) \in Seq(Entry)
        /\ Len(SubSeq(pollfds_, 1, n - 1)) = n - 1
        /\ \A j \in 1..(n - 1) : SubSeq(pollfds_, 1, n - 1)[j] = pollfds_[j]
    BY <1>2, <2>2, Popped
  <2>4. pollfds_' \in Seq(Entry) /\ Len(pollfds_') = n - 1
        /\ \A j \in 1..(n - 1) : pollfds_'[j] = pollfds_[j] /\ j # i
    BY <1>1, <1>2, <1>4, <2>1, <2>3
  <2>5. Known' = Known \ {c} /\ \A d \in Known' : channels_'[d] = d
    BY <1>3, <2>1 DEF Known
  <2>6. \A d \in Known' : index_[d] # n - 1
    BY <1>1, <1>4, <2>5 DEF OneToOne
  <2> QED
    BY <1>1, <1>2, <2>1, <2>4, <2>5, <2>6 DEF Typed
<1>5. CASE index_[c] # n - 1
  <2>1. /\ pollfds_' = RemoveSwap(i) /\ channels_' = Subscript(rest, last)
        /\ MovedTold(channels_'[last], index_[c]) /\ UNCHANGED events_
    BY <1>5 DEF removeChannel, Size
  <2>2. n \in 1..n
    BY <1>1, <1>2
  <2>3. PICK m \in Known : index_[m] = n - 1
    BY <2>2 DEF OneToOne
  <2>4. m \in Channel /\ m # c /\ last \in {m, NoFd}
    BY <1>2, <1>5, <2>3 DEF OwnEntry, EntryOf, Typed
  <2>5. last = m
    <3> SUFFICES ASSUME last = NoFd PROVE FALSE
      BY <2>4
    <3>1. NoFd \notin DOMAIN rest
      BY <1>3, ChannelAssumption DEF Typed
    <3>2. channels_'[NoFd] = Null
      BY <2>1, <3>1 DEF Subscript
    <3>3. MovedTold(Null, index_[c])
      BY <2>1, <3>2
    <3>4. crashed'
      BY <3>3, ChannelAssumption DEF MovedTold
    <3> QED
      BY <3>4
  <2> HIDE DEF last, rest
  <2>6. Known' = Known \ {c} /\ \A d \in Known' : channels_'[d] = d
    BY <1>3, <2>1, <2>3, <2>4, <2>5 DEF Subscript, Known
  <2>7. index_' = [index_ EXCEPT ![m] = index_[c]]
    BY <2>1, <2>3, <2>4, <2>5, <2>6 DEF MovedTold
  <2>8. /\ pollfds_' \in Seq(Entry) /\ Len(pollfds_') = n - 1
        /\ \A j \in 1..(n - 1) : pollfds_'[j] = IF j = i THEN pollfds_[n] ELSE pollfds_[j]
    BY <1>1, <2>1, SwapRemoves
  <2>9. /\ index_' \in [Channel -> Int] /\ index_'[m] = index_[c]
        /\ \A d \in Channel : d # m => index_'[d] = index_[d]
    BY <1>1, <2>4, <2>7 DEF Typed
  <2>10. \A d \in Known' : index_'[d] = IF index_[d] = n - 1 THEN i - 1 ELSE index_[d]
    <3> TAKE d \in Known'
    <3>1. d \in Known /\ d \in Channel
      BY <2>6 DEF Typed
    <3>2. CASE d = m
      BY <1>1, <2>3, <2>9, <3>2
    <3>3. CASE d # m
      <4>1. index_[d] # n - 1
        BY <2>3, <3>1, <3>3 DEF OneToOne
      <4> QED
        BY <2>9, <3>1, <3>3, <4>1
    <3> QED
      BY <3>2, <3>3
  <2> QED
    BY <1>1, <1>2, <2>1, <2>3, <2>4, <2>6, <2>8, <2>9, <2>10
<1> QED
  BY <1>4, <1>5

LEMMA RemoveKeeps ==
  ASSUME ~crashed, PollerInv, NEW c \in Channel, removeChannel(c), ~crashed'
  PROVE  /\ Typed' /\ OwnEntry' /\ Unindexed' /\ OneToOne'
         /\ \A d \in Known' : EntryOf(d)' = EntryOf(d)
<1> USE DEF PollerInv
<1> DEFINE n == Len(pollfds_)
           i == index_[c] + 1
<1>1. /\ c \in Known /\ i \in 1..n /\ n \in Nat
      /\ Known' = Known \ {c} /\ \A d \in Known' : channels_'[d] = d
      /\ pollfds_' \in Seq(Entry) /\ Len(pollfds_') = n - 1
      /\ \A j \in 1..(n - 1) : pollfds_'[j] = IF j = i THEN pollfds_[n] ELSE pollfds_[j]
      /\ index_' \in [Channel -> Int]
      /\ \A d \in Known' : index_'[d] = IF index_[d] = n - 1 THEN i - 1 ELSE index_[d]
      /\ \A d \in Channel : d \notin Known => index_'[d] = index_[d]
      /\ index_'[c] = index_[c]
      /\ UNCHANGED events_
  BY Removes
<1>2. index_[c] \in Int /\ \A d \in Known : d \in Channel /\ index_[d] \in Int
  BY DEF Typed
<1> HIDE DEF n
<1>3. \A d \in Known' : /\ d \in Known /\ index_[d] # index_[c]
                        /\ index_[d] + 1 \in 1..n
  BY <1>1 DEF OneToOne, OwnEntry, n
<1>4. ASSUME NEW d \in Known'
      PROVE  index_'[d] + 1 \in 1..(n - 1) /\ pollfds_'[index_'[d] + 1] = pollfds_[index_[d] + 1]
  <2>0. index_[d] \in Int /\ index_[d] # index_[c] /\ index_[d] + 1 \in 1..n
    BY <1>2, <1>3
  <2>1. CASE index_[d] = n - 1
    <3>1. index_'[d] + 1 = i /\ index_[d] + 1 = n /\ i \in 1..(n - 1)
      BY <1>1, <1>2, <2>0, <2>1
    <3> QED
      BY <1>1, <3>1
  <2>2. CASE index_[d] # n - 1
    <3>1. index_'[d] = index_[d] /\ index_[d] + 1 \in 1..(n - 1) /\ index_[d] + 1 # i
      BY <1>1, <1>2, <2>0, <2>2
    <3> QED
      BY <1>1, <3>1
  <2> QED
    BY <2>1, <2>2
<1>5. \A d \in Known' : EntryOf(d)' = EntryOf(d)
  BY <1>4 DEF EntryOf
<1>6. Typed'
  BY <1>1 DEF Typed
<1>7. OwnEntry'
  BY <1>1, <1>3, <1>4, <1>5 DEF OwnEntry
<1>8. Unindexed'
  <2> SUFFICES ASSUME NEW d \in Channel, d \in Known' PROVE ~(index_'[d] < 0)
    BY DEF Unindexed
  <2>1. index_'[d] + 1 \in 1..(n - 1) /\ index_'[d] \in Int
    BY <1>1, <1>4
  <2> QED
    BY <1>1, <2>1
<1>9. OneToOne'
  <2>1. ASSUME NEW j \in 1..(n - 1) PROVE \E d \in Known' : index_'[d] = j - 1
    <3>1. CASE j = i
      <4>0. n \in 1..Len(pollfds_)
        BY <1>1 DEF n
      <4>1. PICK d \in Known : index_[d] = n - 1
        BY <4>0 DEF OneToOne
      <4>2. d \in Known'
        BY <1>1, <3>1, <4>1
      <4> QED
        BY <1>1, <3>1, <4>1, <4>2
    <3>2. CASE j # i
      <4>1. PICK d \in Known : index_[d] = j - 1
        BY <1>1 DEF OneToOne, n
      <4>2. d \in Known' /\ index_[d] # n - 1
        BY <1>1, <1>2, <3>2, <4>1
      <4> QED
        BY <1>1, <4>1, <4>2
    <3> QED
      BY <3>1, <3>2
  <2>2. ASSUME NEW d \in Known', NEW d2 \in Known', index_'[d] = index_'[d2] PROVE d = d2
    <3>1. /\ d \in Known /\ d2 \in Known
          /\ index_[d] \in Int /\ index_[d2] \in Int
          /\ index_[d] # index_[c] /\ index_[d2] # index_[c]
      BY <1>2, <1>3
    <3>2. index_[d] = index_[d2]
      BY <1>1, <1>2, <2>2, <3>1
    <3> QED
      BY <3>1, <3>2 DEF OneToOne
  <2>3. IsFiniteSet(Known \ {c}) /\ Cardinality(Known \ {c}) = n - 1
    BY <1>1, FS_RemoveElement DEF OneToOne, n
  <2>4. IsFiniteSet(Known') /\ Cardinality(Known') = n - 1
    BY <1>1, <2>3, Zenon
  <2> QED
    BY <1>1, <2>1, <2>2, <2>4 DEF OneToOne
<1> QED
  BY <1>5, <1>6, <1>7, <1>8, <1>9

-----------------------------------------------------------------------------
\* Each of Channel's enable and disable is an update.
LEMMA UpdateKeeps ==
  ASSUME PollerInv, NEW c \in Channel, NEW e \in SUBSET Events, update(c, e),
         e # {} \/ Registered(c)
  PROVE  /\ PollerInv'
         /\ \A d \in Known : events_'[d] = events_[d] => EntryOf(d)' = EntryOf(d)
<1>1. ~crashed /\ events_' = [events_ EXCEPT ![c] = e]
  BY DEF update, Usable
<1>2. CASE index_[c] < 0
  <2>1. AddEntry(c, e)
    BY <1>2 DEF update
  <2>2. e # {}
    BY <1>1, <1>2 DEF PollerInv, Unindexed, Registered, Known
  <2> QED
    BY <1>1, <1>2, <2>1, <2>2, AddKeeps DEF PollerInv
<1>3. CASE ~(index_[c] < 0)
  <2>1. SetEntry(c, e) /\ c \in Known
    BY <1>3 DEF update, Usable, Registered, Known
  <2> QED
    BY <1>1, <2>1, SetKeeps DEF PollerInv
<1> QED
  BY <1>2, <1>3

LEMMA CallKeeps ==
  ASSUME PollerInv, NEW c \in Channel,
         (\E e \in Events : enable(c, e) \/ disable(c, e)) \/ disableAll(c)
  PROVE  /\ PollerInv'
         /\ \A d \in Known : events_'[d] = events_[d] => EntryOf(d)' = EntryOf(d)
<1>1. events_[c] \in SUBSET Events
  BY DEF PollerInv, Typed, enable, disable, disableAll, update, Usable
<1>2. ASSUME NEW e \in Events, enable(c, e)
      PROVE  \E x \in SUBSET Events : update(c, x) /\ (x # {} \/ Registered(c))
  BY <1>1, <1>2 DEF enable
<1>3. ASSUME NEW e \in Events, disable(c, e)
      PROVE  \E x \in SUBSET Events : update(c, x) /\ (x # {} \/ Registered(c))
  BY <1>1, <1>3 DEF disable
<1>4. ASSUME disableAll(c)
      PROVE  \E x \in SUBSET Events : update(c, x) /\ (x # {} \/ Registered(c))
  BY <1>4 DEF disableAll
<1>5. PICK x \in SUBSET Events : update(c, x) /\ (x # {} \/ Registered(c))
  BY <1>2, <1>3, <1>4
<1> QED
  BY <1>5, UpdateKeeps

\* A step keeps the invariant, and the entry of each channel whose own events stay.
LEMMA NextKeeps ==
  ASSUME PollerInv, [Next]_vars
  PROVE  /\ PollerInv'
         /\ \A d \in Known \cap Known' :
              events_'[d] = events_[d] /\ ~crashed' => EntryOf(d)' = EntryOf(d)
<1>1. ASSUME NEW c \in Channel, \/ \E e \in Events : enable(c, e) \/ disable(c, e)
                                \/ disableAll(c)
      PROVE  /\ PollerInv'
             /\ \A d \in Known : events_'[d] = events_[d] => EntryOf(d)' = EntryOf(d)
  BY <1>1, CallKeeps
<1>2. ASSUME NEW c \in Channel, removeChannel(c) \/ remove(c)
      PROVE  PollerInv' /\ (~crashed' => \A d \in Known' : EntryOf(d)' = EntryOf(d))
  <2>1. removeChannel(c) /\ ~crashed
    BY <1>2 DEF remove, removeChannel, Usable
  <2> QED
    BY <2>1, RemoveKeeps DEF PollerInv
<1>3. ASSUME poll \/ UNCHANGED vars
      PROVE  PollerInv' /\ \A d \in Known : EntryOf(d)' = EntryOf(d)
  BY <1>3 DEF poll, vars, PollerInv, Typed, OwnEntry, Unindexed, OneToOne, Known, EntryOf
<1> QED
  BY <1>1, <1>2, <1>3 DEF Next

-----------------------------------------------------------------------------
(* A loop that calls the poller *)

Call == [op : Ops, channel : Channel]

LEMMA CallsTyped ==
  ASSUME NEW c \in Channel, NEW op \in Ops
  PROVE  /\ <<Do(op, c)>> \in Seq(Call) /\ Attach(op, c) \in Seq(Call)
         /\ Detach(c) \in Seq(Call) /\ DisableOnly(c) \in Seq(Call)
<1>1. Do("new", c) \in Call /\ Do(op, c) \in Call /\ Do("disableAll", c) \in Call
      /\ Do("remove", c) \in Call
  BY DEF Do, Call, Ops
<1> HIDE DEF Call
<1> QED
  BY <1>1 DEF Attach, Detach, DisableOnly

LEMMA CallsStart == LoopInit => calls \in Seq(Call)
<1> SUFFICES ASSUME LoopInit PROVE calls \in Seq(Call)
  OBVIOUS
<1>1. Cardinality(Internal) \in Nat
  BY FS_CardinalityType, IoLoopAssumption
<1>2. {Do("enableReading", c) : c \in Internal} \subseteq Call
  BY DEF Do, Call, Ops, Internal
<1>3. calls \in [1..Cardinality(Internal) -> Call]
  BY <1>2 DEF LoopInit, Bijection, Injection
<1> HIDE DEF Call
<1> QED
  BY <1>1, <1>3, IsASeq

LEMMA CloseCalls ==
  ASSUME NEW c \in Channel, handleClose(c) PROVE calls' \in Seq(Call)
<1>1. CASE calls' = <<Do("disableAll", c)>>
  BY <1>1, CallsTyped DEF Ops
<1>2. ASSUME NEW k \in attempts, calls' = <<Do("disableAll", c)>> \o Attach("enableWriteing", k)
      PROVE  calls' \in Seq(Call)
  <2>1. k \in Channel
    BY IoLoopAssumption DEF attempts
  <2>2. <<Do("disableAll", c)>> \in Seq(Call) /\ Attach("enableWriteing", k) \in Seq(Call)
    BY <2>1, CallsTyped DEF Ops
  <2> QED
    BY <1>2, <2>2, ConcatProperties
<1> QED
  BY <1>1, <1>2 DEF handleClose

LEMMA AttemptCalls ==
  ASSUME NEW k \in Channel, attemptFails(k) \/ attemptSucceeds(k)
  PROVE  calls' \in Seq(Call)
<1>1. Detach(k) \in Seq(Call) /\ Attach("enableReading", k) \in Seq(Call)
  BY CallsTyped DEF Ops
<1>2. CASE attemptFails(k)
  BY <1>1, <1>2 DEF attemptFails
<1>3. CASE attemptSucceeds(k)
  BY <1>1, <1>3, ConcatProperties DEF attemptSucceeds
<1> QED
  BY <1>2, <1>3

\* The calls that are to come are about channels.
LEMMA CallsKeep ==
  ASSUME calls \in Seq(Call), [LoopNext]_allVars PROVE calls' \in Seq(Call)
<1>0. \A k \in attempts : k \in Channel
  BY IoLoopAssumption DEF attempts
<1>1. CASE nextCall
  BY <1>1, HeadTailProperties DEF nextCall
<1>2. CASE pollOnce \/ resetChannel \/ passOn \/ stop \/ UNCHANGED allVars
           \/ \E c \in Channel : userCalls(c) \/ connectionFreed(c) \/ lateCall(c)
  BY <1>2 DEF pollOnce, resetChannel, passOn, stop, connectionFreed, userCalls, lateCall, allVars
<1>3. CASE stopInLoop
  <2>1. ASSUME NEW k \in Outgoing, attemptFails(k) PROVE calls' \in Seq(Call)
    BY <2>1, AttemptCalls, IoLoopAssumption
  <2> QED
    BY <1>3, <2>1 DEF stopInLoop
<1>9. ASSUME callback PROVE calls' \in Seq(Call)
  <2>1. ASSUME NEW d \in Outgoing, calls' = <<Do("enableWriteing", d)>> PROVE calls' \in Seq(Call)
    BY <2>1, CallsTyped, IoLoopAssumption DEF Ops
  <2> QED
    BY <1>9, <2>1 DEF callback, ForceClose
<1>4. ASSUME NEW c \in Channel, internalEvent(c) PROVE calls' \in Seq(Call)
  <2>2. ASSUME NEW k \in attempts, connect(k) PROVE calls' \in Seq(Call)
    BY <1>0, <2>2, CallsTyped DEF connect, Ops
  <2>3. ASSUME NEW s \in Accepted, calls' = Attach("enableReading", s)
        PROVE  calls' \in Seq(Call)
    BY <2>3, CallsTyped, IoLoopAssumption DEF Ops
  <2> QED
    BY <1>4, <1>9, <2>2, <2>3 DEF internalEvent
<1>5. ASSUME NEW c \in Channel, messageArrives(c) PROVE calls' \in Seq(Call)
  BY <1>5, <1>9 DEF messageArrives
<1>6. ASSUME NEW c \in Channel, peerCloses(c) \/ forceCloseInLoop(c) PROVE calls' \in Seq(Call)
  BY <1>6, CloseCalls DEF peerCloses, forceCloseInLoop
<1>7. ASSUME NEW c \in Channel, attemptEnds(c) PROVE calls' \in Seq(Call)
  BY <1>7, AttemptCalls DEF attemptEnds
<1>8. ASSUME NEW c \in Channel, connectDestroyed(c) \/ sendInLoop(c) PROVE calls' \in Seq(Call)
  BY <1>8, CallsTyped DEF connectDestroyed, sendInLoop, Ops
<1> QED
  BY <1>1, <1>2, <1>3, <1>4, <1>5, <1>6, <1>7, <1>8 DEF LoopNext, LoopStep

\* A new channel takes a descriptor that no channel is registered for.
LEMMA NewKeeps ==
  ASSUME ~crashed, PollerInv, NEW c \in Channel, c \notin Known, newChannel(c)
  PROVE  PollerInv' /\ \A d \in Known : EntryOf(d)' = EntryOf(d)
<1>1. /\ Typed /\ OwnEntry /\ Unindexed /\ OneToOne
      /\ UNCHANGED <<pollfds_, channels_, crashed>> /\ Known' = Known
      /\ \A d \in Known : d # c /\ d \in Channel
  BY DEF PollerInv, newChannel, Known, Typed
<1>2. /\ index_' \in [Channel -> Int] /\ events_' \in [Channel -> SUBSET Events]
      /\ \A d \in Channel : d # c => index_'[d] = index_[d] /\ events_'[d] = events_[d]
  BY <1>1 DEF newChannel, Typed
<1>3. \A d \in Known : EntryOf(d)' = EntryOf(d)
  BY <1>1, <1>2 DEF EntryOf
<1>4. Typed' /\ OwnEntry'
  BY <1>1, <1>2, <1>3 DEF Typed, OwnEntry
<1>5. Unindexed' /\ OneToOne'
  BY <1>1, <1>2 DEF Unindexed, OneToOne
<1> QED
  BY <1>3, <1>4, <1>5 DEF PollerInv

\* A step of the loop keeps the invariant, if its next call is one that the poller allows.
LEMMA LoopKeeps ==
  ASSUME PollerInv, calls \in Seq(Call), CallsAreAllowed, [LoopNext]_allVars
  PROVE  /\ PollerInv'
         /\ \A d \in Known \cap Known' :
              events_'[d] = events_[d] /\ ~crashed' => EntryOf(d)' = EntryOf(d)
<1>1. CASE nextCall
  <2>1. Head(calls) \in Call
    BY <1>1, HeadTailProperties DEF nextCall
  <2>2. PICK c \in Channel : c = Head(calls).channel
    BY <2>1 DEF Call
  <2>3. CASE Head(calls).op = "new" /\ ~crashed /\ newChannel(c)
    <3>1. c \notin Known
      BY <1>1, <2>2, <2>3 DEF nextCall, CallsAreAllowed, Registered, Known
    <3> QED
      BY <2>3, <3>1, NewKeeps
  <2>4. CASE Next
    BY <2>4, NextKeeps
  <2>5. enable(c, "read") \/ enable(c, "write") \/ disableAll(c) \/ remove(c)
          \/ removeChannel(c) => Next
    BY DEF Next, Events
  <2> QED
    BY <1>1, <2>2, <2>3, <2>4, <2>5 DEF nextCall
<1>2. CASE pollOnce
  BY <1>2, NextKeeps DEF pollOnce, Next
<1>3. CASE UNCHANGED <<events_, index_, pollfds_, channels_>> /\ (~crashed' => ~crashed)
  BY <1>3 DEF PollerInv, Typed, OwnEntry, Unindexed, OneToOne, Known, EntryOf
<1>4. ASSUME NEW c \in Channel,
             internalEvent(c) \/ messageArrives(c) \/ peerCloses(c) \/ attemptEnds(c)
      PROVE  UNCHANGED <<events_, index_, pollfds_, channels_, crashed>>
  BY <1>4 DEF internalEvent, messageArrives, peerCloses, attemptEnds, HandleEvent
<1>5. ASSUME \/ resetChannel \/ stopInLoop \/ passOn \/ stop \/ UNCHANGED allVars
             \/ \E c \in Channel : \/ forceCloseInLoop(c) \/ connectDestroyed(c) \/ sendInLoop(c)
                                   \/ userCalls(c) \/ connectionFreed(c)
      PROVE  UNCHANGED <<events_, index_, pollfds_, channels_, crashed>>
  BY <1>5 DEF resetChannel, stopInLoop, passOn, stop, connectionFreed, userCalls, sendInLoop,
              forceCloseInLoop, connectDestroyed, RunFunctor, allVars, vars
<1>6. ASSUME NEW c \in Channel, lateCall(c)
      PROVE  UNCHANGED <<events_, index_, pollfds_, channels_>> /\ ~crashed
  BY <1>6 DEF lateCall, LoopFree
<1> QED
  BY <1>1, <1>2, <1>3, <1>4, <1>5, <1>6 DEF LoopNext, LoopStep

-----------------------------------------------------------------------------
(* What a loop has in hand *)

Served == {"connecting", "connected"}
Ends == Accepted \cup Outgoing
LoopFunctors ==
  [functor : {"forceCloseInLoop", "connectDestroyed", "resetChannel", "stopInLoop",
              "sendInLoop", "lateCall"},
   channel : Channel \cup {NoFd}]

\* Between two handlers the poller knows the loop's own channels, and of the others
\* those of attempts and connections; the entry of a connection that is closed has
\* lost its descriptor, whatever the channel is enabled for again.
Settled(c) ==
  /\ Registered(c) <=> c \in Internal \/ serves[c] \in Served \cup {"disconnected"}
  /\ Registered(c) => IF serves[c] = "disconnected" THEN EntryOf(c).fd = NoFd
                                                    ELSE events_[c] # {}

\* What a handler is about to do to c: the loop's own channels are added when it
\* starts; a channel is made and enabled, or enabled once more; one is disabled; one
\* is removed, most after they were disabled; and after that, another is made.
Starting(S) ==
  /\ S \subseteq Internal
  /\ calls \in Seq({Do("enableReading", c) : c \in S})
  /\ \A c \in S : /\ ~Registered(c) /\ index_[c] < 0
                  /\ Has(calls, Do("enableReading", c))
                  /\ AtMostOnce(calls, Do("enableReading", c))
Attaching(c, q) ==
  c \in Ends /\ serves[c] \in Served
    /\ \E op \in {"enableReading", "enableWriteing"} : q = Attach(op, c)
Opening(c) == Attaching(c, calls) /\ ~Registered(c)
Enabling(c) ==
  /\ c \in Ends /\ serves[c] \in Served \cup {"disconnected"}
  /\ Registered(c) <=> index_[c] >= 0
  /\ serves[c] = "disconnected" => Registered(c) /\ EntryOf(c).fd = NoFd
  /\ \E op \in {"enableReading", "enableWriteing"} : calls = <<Do(op, c)>>
Closing(c, d, rest) ==
  /\ c \in Ends /\ serves[c] = "disconnected" /\ Registered(c)
  /\ calls = DisableOnly(c) \o rest
  /\ \/ rest = <<>> /\ d = c
     \/ Attaching(d, rest) /\ ~Registered(d)
Leaving(c, rest) ==
  /\ c \in Ends /\ Registered(c)
  /\ \/ rest = <<>> /\ serves[c] \in {"free", "removed"}
     \/ Attaching(c, rest)
Detaching(c, rest) == Leaving(c, rest) /\ calls = Detach(c) \o rest
Removing(c, rest) ==
  /\ Leaving(c, rest)
  /\ \/ calls = <<Do("remove", c)>> \o rest /\ events_[c] = {}
     \/ calls = <<Do("removeChannel", c)>> \o rest

\* S are the channels that the handler is about.
Handling(S) ==
  \/ Starting(S)
  \/ \E c \in Channel : S = {c} /\ (Opening(c) \/ Enabling(c))
  \/ \E c, d \in Channel, rest \in Seq(Call) : S = {c, d} /\ Closing(c, d, rest)
  \/ \E c \in Channel, rest \in Seq(Call) : S = {c} /\ (Detaching(c, rest) \/ Removing(c, rest))

\* A channel left to dispatch is there once and is served.
Dispatched ==
  /\ activeChannels_ \in Seq(Channel)
  /\ \A c \in Channel :
       /\ AtMostOnce(activeChannels_, c)
       /\ Has(activeChannels_, c) => c \in Internal \/ serves[c] \in Served
  /\ half = "run" => activeChannels_ = <<>>

InHand ==
  Dispatched /\ \E S \in SUBSET Channel : Handling(S) /\ \A c \in Channel \ S : Settled(c)

\* A closed connection is removed by the one functor that is queued for it.
Destroying ==
  \A c \in Channel :
    /\ Queued(Functor("connectDestroyed", c)) <=> serves[c] = "disconnected"
    /\ QueuedOnce(Functor("connectDestroyed", c))

\* A send that another thread has queued runs before that.
Sending ==
  \A c \in Channel :
    /\ Queued(Functor("sendInLoop", c)) => serves[c] \in {"connected", "disconnected"}
    /\ QueuedBefore(Functor("sendInLoop", c), Functor("connectDestroyed", c))

QueueInv == PassInv(LoopFunctors) /\ Destroying /\ Sending

ServesTyped ==
  /\ serves \in [Channel -> Served \cup {"free", "disconnected", "removed"}]
  /\ \A c \in Internal : serves[c] = "free"

LoopInv ==
  /\ PollerInv /\ calls \in Seq(Call)
  /\ ~crashed => QueueInv /\ ServesTyped /\ InHand

LEMMA FunctorNames ==
  \A f, g, c, d : (Functor(f, c) = Functor(g, d) <=> f = g /\ c = d)
                  /\ (Do(f, c) = Do(g, d) <=> f = g /\ c = d)
<1> SUFFICES ASSUME NEW f, NEW g, NEW c, NEW d
             PROVE  (Functor(f, c) = Functor(g, d) <=> f = g /\ c = d)
                    /\ (Do(f, c) = Do(g, d) <=> f = g /\ c = d)
  OBVIOUS
<1>1. Functor(f, c).functor = f /\ Functor(f, c).channel = c
      /\ Functor(g, d).functor = g /\ Functor(g, d).channel = d
  BY DEF Functor
<1>2. Do(f, c).op = f /\ Do(f, c).channel = c /\ Do(g, d).op = g /\ Do(g, d).channel = d
  BY DEF Do
<1> QED
  BY <1>1, <1>2

LEMMA FunctorTypes ==
  /\ \A c \in Channel : /\ Functor("forceCloseInLoop", c) \in LoopFunctors
                        /\ Functor("connectDestroyed", c) \in LoopFunctors
                        /\ Functor("sendInLoop", c) \in LoopFunctors
                        /\ Functor("lateCall", c) \in LoopFunctors
  /\ Functor("resetChannel", NoFd) \in LoopFunctors
  /\ Functor("stopInLoop", NoFd) \in LoopFunctors
BY DEF Functor, LoopFunctors

\* The first call of each form, and the calls after it.
LEMMA FirstCalls ==
  ASSUME NEW c \in Channel, NEW op \in Ops, NEW rest \in Seq(Call)
  PROVE  /\ Attach(op, c) # <<>> /\ Head(Attach(op, c)) = Do("new", c)
         /\ Tail(Attach(op, c)) = <<Do(op, c)>>
         /\ <<Do(op, c)>> # <<>> /\ Head(<<Do(op, c)>>) = Do(op, c) /\ Tail(<<Do(op, c)>>) = <<>>
         /\ <<Do(op, c)>> \o rest # <<>> /\ Head(<<Do(op, c)>> \o rest) = Do(op, c)
         /\ Tail(<<Do(op, c)>> \o rest) = rest
         /\ Detach(c) \o rest # <<>> /\ Head(Detach(c) \o rest) = Do("disableAll", c)
         /\ Tail(Detach(c) \o rest) = <<Do("remove", c)>> \o rest
<1>1. /\ <<Do(op, c)>> \in Seq(Call) /\ Detach(c) \in Seq(Call)
  BY CallsTyped
<1>2. /\ Attach(op, c) # <<>> /\ Head(Attach(op, c)) = Do("new", c)
      /\ Tail(Attach(op, c)) = <<Do(op, c)>>
  BY DEF Attach
<1>3. <<Do(op, c)>> # <<>> /\ Head(<<Do(op, c)>>) = Do(op, c) /\ Tail(<<Do(op, c)>>) = <<>>
  OBVIOUS
<1>4. <<>> \o rest = rest
  BY ConcatEmptySeq
<1>5. /\ <<Do(op, c)>> \o rest # <<>> /\ Head(<<Do(op, c)>> \o rest) = Do(op, c)
      /\ Tail(<<Do(op, c)>> \o rest) = rest
  BY <1>1, <1>3, <1>4, HeadTailOfConcat
<1>6. Detach(c) # <<>> /\ Head(Detach(c)) = Do("disableAll", c)
      /\ Tail(Detach(c)) = <<Do("remove", c)>>
  BY DEF Detach
<1>7. /\ Detach(c) \o rest # <<>> /\ Head(Detach(c) \o rest) = Do("disableAll", c)
      /\ Tail(Detach(c) \o rest) = <<Do("remove", c)>> \o rest
  <2>1. ASSUME NEW q \in Seq(Call), q # <<>>
        PROVE  q \o rest # <<>> /\ Head(q \o rest) = Head(q) /\ Tail(q \o rest) = Tail(q) \o rest
    BY <2>1, HeadTailOfConcat
  <2> QED
    BY <1>1, <1>6, <2>1
<1> QED
  BY <1>2, <1>3, <1>5, <1>7

\* What a call does to the registration of channels.
Untouched(d) ==
  /\ Registered(d)' <=> Registered(d)
  /\ events_'[d] = events_[d]
  /\ Registered(d) => EntryOf(d)' = EntryOf(d)
Spares(c) == \A d \in Channel \ {c} : Untouched(d) /\ index_'[d] = index_[d]

LEMMA NewChanges ==
  ASSUME ~crashed, PollerInv, NEW c \in Channel, ~Registered(c), newChannel(c)
  PROVE  Known' = Known /\ index_'[c] = -1 /\ ~crashed' /\ Spares(c)
<1>1. \A d \in Known : EntryOf(d)' = EntryOf(d)
  BY NewKeeps DEF Registered, Known
<1> QED
  BY <1>1 DEF newChannel, PollerInv, Typed, Known, Registered, Spares, Untouched

LEMMA EnableChanges ==
  ASSUME PollerInv, NEW c \in Channel, NEW e \in Events, enable(c, e)
  PROVE  /\ Known' = Known \cup {c} /\ events_'[c] # {} /\ ~crashed' /\ Spares(c)
         /\ Registered(c) => EntryOf(c)'.fd = EntryOf(c).fd
<1> USE DEF enable, update
<1>1. Typed /\ Unindexed /\ OwnEntry
  BY DEF PollerInv, Usable
<1>2. events_' = [events_ EXCEPT ![c] = events_[c] \cup {e}] /\ ~crashed'
  BY DEF Usable
<1>3. events_'[c] # {} /\ \A d \in Channel : d # c => events_'[d] = events_[d]
  BY <1>1, <1>2 DEF Typed
<1>4. \A d \in Known : events_'[d] = events_[d] => EntryOf(d)' = EntryOf(d)
  BY CallKeeps
<1>5. ASSUME index_[c] < 0
      PROVE  /\ Known' = Known \cup {c} /\ ~Registered(c)
             /\ \A d \in Channel : d # c => index_'[d] = index_[d]
  BY <1>1, <1>5 DEF AddEntry, Typed, Known, Unindexed, Registered
<1>6. ASSUME ~(index_[c] < 0)
      PROVE  /\ Known' = Known \cup {c} /\ UNCHANGED index_
             /\ EntryOf(c)'.fd = EntryOf(c).fd
  <2>1. SetEntry(c, events_[c] \cup {e}) /\ c \in Known /\ events_[c] \cup {e} # {}
    BY <1>6 DEF Usable, Registered, Known
  <2>2. index_[c] + 1 \in DOMAIN pollfds_
    BY <1>1, <2>1, LenProperties DEF OwnEntry, Typed
  <2> QED
    BY <2>1, <2>2 DEF SetEntry, EntryOf, Known
<1>7. Known' = Known \cup {c} /\ \A d \in Channel : d # c => index_'[d] = index_[d]
  BY <1>5, <1>6
<1>8. Spares(c)
  BY <1>3, <1>4, <1>7 DEF Spares, Untouched, Registered, Known
<1> QED
  BY <1>2, <1>3, <1>5, <1>6, <1>7, <1>8

LEMMA DisableChanges ==
  ASSUME PollerInv, NEW c \in Channel, disableAll(c)
  PROVE  /\ Known' = Known /\ c \in Known /\ events_'[c] = {} /\ ~crashed'
         /\ EntryOf(c)'.fd = NoFd /\ Spares(c)
<1> USE DEF disableAll, update
<1>1. Typed /\ Unindexed /\ c \in Known
  BY DEF PollerInv, Usable, Registered, Known
<1>2. SetEntry(c, {}) /\ events_' = [events_ EXCEPT ![c] = {}] /\ ~crashed'
  BY <1>1 DEF Usable, Unindexed
<1>3. /\ Known' = Known /\ events_'[c] = {} /\ UNCHANGED index_
      /\ \A d \in Channel : d # c => events_'[d] = events_[d]
  BY <1>1, <1>2 DEF SetEntry, Typed, Known
<1>4. PollerInv' /\ \A d \in Known : events_'[d] = events_[d] => EntryOf(d)' = EntryOf(d)
  BY CallKeeps
<1>5. EntryOf(c)'.fd = NoFd
  BY <1>1, <1>2, <1>3, <1>4 DEF PollerInv, OwnEntry
<1>6. Spares(c)
  BY <1>3, <1>4 DEF Spares, Untouched, Registered, Known
<1> QED
  BY <1>1, <1>2, <1>3, <1>5, <1>6

LEMMA RemoveChanges ==
  ASSUME ~crashed, PollerInv, NEW c \in Channel, removeChannel(c), ~crashed'
  PROVE  Known' = Known \ {c} /\ \A d \in Channel \ {c} : Untouched(d)
BY Removes, RemoveKeeps DEF Registered, Known, Untouched

-----------------------------------------------------------------------------
(* The calls of a handler, one by one *)

LEMMA KnownIndexed ==
  ASSUME PollerInv, ~crashed, NEW c \in Channel, Registered(c) PROVE index_[c] >= 0
BY DEF PollerInv, Typed, Unindexed, Registered, Known

Allowed(op, c) ==
  /\ op = "new" => ~Registered(c)
  /\ op = "remove" => Registered(c) /\ events_[c] = {}
  /\ op = "removeChannel" => Registered(c)
  /\ op \notin {"new", "remove", "removeChannel"} => (Registered(c) <=> index_[c] >= 0)

LEMMA StartingNext ==
  ASSUME PollerInv, ~crashed, NEW S, Starting(S), calls # <<>>
  PROVE  \E c \in S : c \in Channel /\ Head(calls) = Do("enableReading", c)
<1>1. Head(calls) \in {Do("enableReading", c) : c \in S}
  BY HeadTailProperties DEF Starting
<1> QED
  BY <1>1 DEF Starting, Internal

LEMMA EndsAreChannels == \A c \in Ends : c \in Channel /\ c \notin Internal
BY IoLoopAssumption DEF Ends, Internal

LEMMA AllAllowed == LoopInv => CallsAreAllowed
<1> SUFFICES ASSUME LoopInv, ~crashed, calls # <<>>
             PROVE  \E op, c : Head(calls) = Do(op, c) /\ Allowed(op, c)
  <2> SUFFICES ASSUME NEW op, NEW c, Head(calls) = Do(op, c), Allowed(op, c)
               PROVE  CASE Head(calls).op = "new" -> ~Registered(Head(calls).channel)
                        [] Head(calls).op = "remove" ->
                             Registered(Head(calls).channel) /\ events_[Head(calls).channel] = {}
                        [] Head(calls).op = "removeChannel" -> Registered(Head(calls).channel)
                        [] OTHER -> Registered(Head(calls).channel)
                                      <=> index_[Head(calls).channel] >= 0
    BY DEF CallsAreAllowed
  <2>1. Head(calls).op = op /\ Head(calls).channel = c
    BY DEF Do
  <2> QED
    BY <2>1 DEF Allowed
<1> USE DEF LoopInv, Allowed
<1>1. PICK S \in SUBSET Channel : Handling(S)
  BY DEF InHand
<1>2. CASE Starting(S)
  <2>1. PICK c \in S : c \in Channel /\ Head(calls) = Do("enableReading", c)
    BY <1>2, StartingNext
  <2>2. ~Registered(c) /\ index_[c] < 0
    BY <1>2, <2>1 DEF Starting
  <2>3. index_[c] \in Int
    BY <2>1 DEF PollerInv, Typed
  <2> QED
    BY <2>1, <2>2, <2>3
<1>3. ASSUME NEW c \in Channel, Opening(c) PROVE \E op, d : Head(calls) = Do(op, d) /\ Allowed(op, d)
  <2>1. PICK op \in Ops : calls = Attach(op, c)
    BY <1>3 DEF Opening, Attaching, Ops
  <2>2. Head(calls) = Do("new", c)
    BY <2>1, FirstCalls, EmptySeq
  <2> QED
    BY <1>3, <2>2 DEF Opening
<1>4. ASSUME NEW c \in Channel, Enabling(c) PROVE \E op, d : Head(calls) = Do(op, d) /\ Allowed(op, d)
  <2>1. PICK op \in {"enableReading", "enableWriteing"} : calls = <<Do(op, c)>>
    BY <1>4 DEF Enabling
  <2>2. Head(calls) = Do(op, c)
    BY <2>1
  <2> QED
    BY <1>4, <2>2 DEF Enabling
<1>5. ASSUME NEW c \in Channel, NEW rest \in Seq(Call),
             calls = DisableOnly(c) \o rest \/ calls = Detach(c) \o rest, Registered(c)
      PROVE  \E op, d : Head(calls) = Do(op, d) /\ Allowed(op, d)
  <2>1. Head(calls) = Do("disableAll", c)
    <3>1. "disableAll" \in Ops /\ DisableOnly(c) = <<Do("disableAll", c)>>
      BY DEF DisableOnly, Ops
    <3>2. CASE calls = DisableOnly(c) \o rest
      BY <3>1, <3>2, FirstCalls
    <3>3. CASE calls = Detach(c) \o rest
      BY <3>1, <3>3, FirstCalls
    <3> QED
      BY <1>5, <3>2, <3>3
  <2> QED
    BY <1>5, <2>1, KnownIndexed
<1>6. ASSUME NEW c \in Channel, NEW rest \in Seq(Call), Removing(c, rest)
      PROVE  \E op, d : Head(calls) = Do(op, d) /\ Allowed(op, d)
  <2>1. CASE calls = <<Do("remove", c)>> \o rest /\ events_[c] = {}
    <3>1. Head(calls) = Do("remove", c)
      BY <2>1, FirstCalls DEF Ops
    <3> QED
      BY <1>6, <2>1, <3>1 DEF Removing, Leaving
  <2>2. CASE calls = <<Do("removeChannel", c)>> \o rest
    <3>1. Head(calls) = Do("removeChannel", c)
      BY <2>2, FirstCalls DEF Ops
    <3> QED
      BY <1>6, <3>1 DEF Removing, Leaving
  <2> QED
    BY <1>6, <2>1, <2>2 DEF Removing
<1> QED
  BY <1>1, <1>2, <1>3, <1>4, <1>5, <1>6 DEF Handling, Closing, Detaching, Leaving

LEMMA Called ==
  ASSUME nextCall, NEW op, NEW c, Head(calls) = Do(op, c)
  PROVE  /\ calls' = Tail(calls) /\ UNCHANGED <<loopVars, activeChannels_>>
         /\ \/ op = "new" /\ ~crashed /\ newChannel(c)
            \/ op = "enableReading" /\ enable(c, "read")
            \/ op = "enableWriteing" /\ enable(c, "write")
            \/ op = "disableAll" /\ disableAll(c)
            \/ op = "remove" /\ remove(c)
            \/ op = "removeChannel" /\ removeChannel(c)
<1>1. Head(calls).op = op /\ Head(calls).channel = c
  BY DEF Do
<1>2. /\ calls' = Tail(calls) /\ UNCHANGED loopVars
      /\ \/ op = "new" /\ ~crashed /\ newChannel(c)
         \/ op = "enableReading" /\ enable(c, "read")
         \/ op = "enableWriteing" /\ enable(c, "write")
         \/ op = "disableAll" /\ disableAll(c)
         \/ op = "remove" /\ remove(c)
         \/ op = "removeChannel" /\ removeChannel(c)
  BY <1>1 DEF nextCall
<1>3. UNCHANGED activeChannels_
  BY <1>2 DEF newChannel, enable, disableAll, update, remove, removeChannel
<1> QED
  BY <1>2, <1>3

\* Channels that the handler is not about stay as they are.
LEMMA OthersStay ==
  ASSUME NEW T \in SUBSET Channel, Handling(T)', Dispatched,
         UNCHANGED <<serves, half, activeChannels_>>,
         \A d \in Channel \ T : Settled(d)' \/ (Settled(d) /\ Untouched(d))
  PROVE  InHand'
<1>1. Dispatched'
  BY DEF Dispatched
<1>2. \A d \in Channel \ T : Settled(d)'
  BY DEF Settled, Untouched
<1> QED
  BY <1>1, <1>2 DEF InHand

LEMMA NothingInHand ==
  ASSUME calls = <<>> PROVE Starting({}) /\ \A S : Handling(S) => S = {}
<1>1. Starting({})
  BY DEF Starting
<1>2. ASSUME NEW S, Starting(S) PROVE S = {}
  BY <1>2 DEF Starting, Has
<1>3. ASSUME NEW c \in Channel, Opening(c) \/ Enabling(c) PROVE FALSE
  BY <1>3 DEF Opening, Enabling, Attaching, Attach
<1>4. ASSUME NEW c \in Channel, NEW d \in Channel, NEW rest \in Seq(Call),
             Closing(c, d, rest) \/ Detaching(c, rest) \/ Removing(c, rest)
      PROVE  FALSE
  BY <1>4, FirstCalls DEF Closing, Detaching, Removing, DisableOnly, Ops
<1> QED
  BY <1>1, <1>2, <1>3, <1>4 DEF Handling

LEMMA StartedKeeps ==
  ASSUME LoopInv, ServesTyped, nextCall, ~crashed, NEW S \in SUBSET Channel, Starting(S),
         Dispatched, \A d \in Channel \ S : Settled(d)
  PROVE  InHand'
<1>1. PICK c \in S : c \in Channel /\ Head(calls) = Do("enableReading", c)
  BY StartingNext DEF LoopInv, nextCall
<1> DEFINE f == Do("enableReading", c)
           T == S \ {c}
<1>2. /\ calls' = Tail(calls) /\ UNCHANGED <<loopVars, activeChannels_>>
      /\ enable(c, "read")
  BY <1>1, Called
<1>3. Known' = Known \cup {c} /\ events_'[c] # {} /\ ~crashed' /\ Spares(c)
  BY <1>1, <1>2, EnableChanges DEF LoopInv, Events
<1>4. /\ c \in Internal /\ T \subseteq Internal /\ serves[c] = "free"
      /\ calls \in Seq(Call) /\ calls # <<>>
      /\ calls \in Seq({Do("enableReading", d) : d \in S})
      /\ \A d \in S : /\ ~Registered(d) /\ index_[d] < 0
                      /\ Has(calls, Do("enableReading", d))
                      /\ AtMostOnce(calls, Do("enableReading", d))
  BY <1>1 DEF Starting, ServesTyped, LoopInv, nextCall
<1>5. /\ Tail(calls) \in Seq({Do("enableReading", d) : d \in S})
      /\ ~Has(Tail(calls), f)
      /\ \A d \in T : /\ Has(Tail(calls), Do("enableReading", d))
                      /\ AtMostOnce(Tail(calls), Do("enableReading", d))
  <2>1. Tail(calls) \in Seq({Do("enableReading", d) : d \in S})
    BY <1>4, HeadTailProperties
  <2>2. ASSUME NEW d \in S
        PROVE  /\ Head(calls) = Do("enableReading", d) \/ Has(Tail(calls), Do("enableReading", d))
               /\ AtMostOnce(Tail(calls), Do("enableReading", d))
               /\ ~(Head(calls) = Do("enableReading", d) /\ Has(Tail(calls), Do("enableReading", d)))
    BY <1>4, HasTail
  <2> QED
    BY <1>1, <2>1, <2>2, FunctorNames
<1>6. Tail(calls) \in Seq({Do("enableReading", d) : d \in T})
  <2>1. Len(Tail(calls)) \in Nat /\ DOMAIN Tail(calls) = 1..Len(Tail(calls))
        /\ Tail(calls) = [i \in 1..Len(Tail(calls)) |-> Tail(calls)[i]]
    BY <1>5, LenProperties
  <2>2. ASSUME NEW i \in 1..Len(Tail(calls))
        PROVE  Tail(calls)[i] \in {Do("enableReading", d) : d \in T}
    <3>1. Tail(calls)[i] \in {Do("enableReading", d) : d \in S}
      BY <1>5, ElementOfSeq
    <3>2. Tail(calls)[i] # f
      BY <1>5, <2>1 DEF Has
    <3> QED
      BY <3>1, <3>2
  <2>3. [i \in 1..Len(Tail(calls)) |-> Tail(calls)[i]] \in Seq({Do("enableReading", d) : d \in T})
    BY <2>1, <2>2, IsASeq
  <2> QED
    BY <2>1, <2>3
<1>7. Starting(T)'
  <2>1. \A d \in T : ~Registered(d)' /\ index_'[d] < 0
    BY <1>3, <1>4 DEF Spares, Untouched
  <2> QED
    BY <1>2, <1>4, <1>5, <1>6, <2>1 DEF Starting
<1>8. \A d \in Channel \ S : Untouched(d)
  BY <1>3 DEF Spares
<1>9. Settled(c)'
  BY <1>2, <1>3, <1>4 DEF Settled, Registered, Known, loopVars
<1> QED
  BY <1>2, <1>7, <1>8, <1>9, OthersStay DEF Handling, loopVars, passVars

LEMMA OpenedKeeps ==
  ASSUME LoopInv, nextCall, ~crashed, NEW c \in Channel, Opening(c),
         Dispatched, \A d \in Channel \ {c} : Settled(d)
  PROVE  InHand'
<1>1. PICK op \in {"enableReading", "enableWriteing"} : calls = Attach(op, c)
  BY DEF Opening, Attaching
<1>2. Head(calls) = Do("new", c) /\ Tail(calls) = <<Do(op, c)>>
  BY <1>1, FirstCalls, EmptySeq DEF Ops
<1>3. calls' = <<Do(op, c)>> /\ UNCHANGED <<loopVars, activeChannels_>> /\ newChannel(c)
  <2>1. calls' = Tail(calls) /\ UNCHANGED <<loopVars, activeChannels_>> /\ newChannel(c)
    BY <1>2, Called
  <2> QED
    BY <1>2, <2>1
<1>4. Known' = Known /\ index_'[c] = -1 /\ Spares(c)
  BY <1>3, NewChanges DEF LoopInv, Opening
<1>5. Enabling(c)'
  BY <1>1, <1>3, <1>4 DEF Enabling, Opening, Attaching, Served, Registered, Known, loopVars
<1>6. \A d \in Channel \ {c} : Untouched(d)
  BY <1>4 DEF Spares
<1> QED
  BY <1>3, <1>5, <1>6, OthersStay DEF Handling, loopVars, passVars

LEMMA EnabledKeeps ==
  ASSUME LoopInv, nextCall, ~crashed, NEW c \in Channel, Enabling(c),
         Dispatched, \A d \in Channel \ {c} : Settled(d)
  PROVE  InHand'
<1>1. PICK op \in {"enableReading", "enableWriteing"} : calls = <<Do(op, c)>>
  BY DEF Enabling
<1>2. Head(calls) = Do(op, c) /\ Tail(calls) = <<>>
  BY <1>1
<1>3. calls' = <<>> /\ UNCHANGED <<loopVars, activeChannels_>>
      /\ \E e \in Events : enable(c, e)
  BY <1>1, <1>2, Called DEF Events
<1>4. /\ Known' = Known \cup {c} /\ events_'[c] # {} /\ Spares(c)
      /\ Registered(c) => EntryOf(c)'.fd = EntryOf(c).fd
  BY <1>3, EnableChanges DEF LoopInv
<1>5. Handling({})'
  BY <1>3, NothingInHand DEF Starting, Handling
<1>6. \A d \in Channel \ {c} : Untouched(d)
  BY <1>4 DEF Spares
<1>7. Settled(c)'
  <2>1. Registered(c)' /\ serves'[c] = serves[c]
    BY <1>3, <1>4 DEF Registered, Known, loopVars
  <2> QED
    BY <1>4, <2>1 DEF Settled, Enabling, Served
<1> QED
  BY <1>3, <1>5, <1>6, <1>7, OthersStay DEF loopVars, passVars

LEMMA ClosedKeeps ==
  ASSUME LoopInv, nextCall, ~crashed, NEW c \in Channel, NEW d \in Channel,
         NEW rest \in Seq(Call), Closing(c, d, rest),
         Dispatched, \A e \in Channel \ {c, d} : Settled(e)
  PROVE  InHand'
<1>1. Head(calls) = Do("disableAll", c) /\ Tail(calls) = rest
  BY FirstCalls DEF Closing, DisableOnly, Ops
<1>2. calls' = rest /\ UNCHANGED <<loopVars, activeChannels_>> /\ disableAll(c)
  <2>1. calls' = Tail(calls) /\ UNCHANGED <<loopVars, activeChannels_>> /\ disableAll(c)
    BY <1>1, Called
  <2> QED
    BY <1>1, <2>1
<1>3. Known' = Known /\ c \in Known /\ EntryOf(c)'.fd = NoFd /\ Spares(c)
  BY <1>2, DisableChanges DEF LoopInv
<1>4. \A e \in Channel \ {c} : Untouched(e)
  BY <1>3 DEF Spares
<1>5. Settled(c)'
  BY <1>2, <1>3 DEF Settled, Registered, Known, Closing, loopVars
<1>6. UNCHANGED <<serves, half, activeChannels_>>
  BY <1>2 DEF loopVars, passVars
<1>7. CASE rest = <<>> /\ d = c
  <2>1. Handling({})'
    BY <1>2, <1>7, NothingInHand DEF Starting, Handling
  <2>2. {c, d} = {c}
    BY <1>7
  <2> QED
    BY <1>4, <1>5, <1>6, <2>1, <2>2, OthersStay
<1>8. CASE Attaching(d, rest) /\ ~Registered(d)
  <2>1. Opening(d)'
    BY <1>2, <1>3, <1>6, <1>8 DEF Opening, Attaching, Registered, Known
  <2>2. Handling({d})'
    BY <2>1 DEF Handling
  <2>3. \A e \in Channel \ {c, d} : Untouched(e)
    BY <1>4
  <2>4. \A e \in {c, d} \ {d} : Settled(e)'
    BY <1>5
  <2> QED
    BY <1>6, <2>2, <2>3, <2>4, OthersStay
<1> QED
  BY <1>7, <1>8 DEF Closing

LEMMA DetachedKeeps ==
  ASSUME LoopInv, nextCall, ~crashed, NEW c \in Channel, NEW rest \in Seq(Call),
         Detaching(c, rest), Dispatched, \A e \in Channel \ {c} : Settled(e)
  PROVE  InHand'
<1>1. Head(calls) = Do("disableAll", c) /\ Tail(calls) = <<Do("remove", c)>> \o rest
  BY FirstCalls DEF Detaching, Ops
<1>2. /\ calls' = <<Do("remove", c)>> \o rest /\ UNCHANGED <<loopVars, activeChannels_>>
      /\ disableAll(c)
  <2>1. calls' = Tail(calls) /\ UNCHANGED <<loopVars, activeChannels_>> /\ disableAll(c)
    BY <1>1, Called
  <2> QED
    BY <1>1, <2>1
<1>3. Known' = Known /\ events_'[c] = {} /\ Spares(c)
  BY <1>2, DisableChanges DEF LoopInv
<1>4. \A e \in Channel \ {c} : Untouched(e)
  BY <1>3 DEF Spares
<1>5. UNCHANGED <<serves, half, activeChannels_>>
  BY <1>2 DEF loopVars, passVars
<1>6. Removing(c, rest)'
  BY <1>2, <1>3, <1>5 DEF Removing, Detaching, Leaving, Attaching, Registered, Known
<1>7. Handling({c})'
  BY <1>6 DEF Handling
<1> QED
  BY <1>4, <1>5, <1>7, OthersStay

LEMMA RemovedKeeps ==
  ASSUME LoopInv, nextCall, ~crashed, ~crashed', NEW c \in Channel, NEW rest \in Seq(Call),
         Removing(c, rest), Dispatched, \A e \in Channel \ {c} : Settled(e)
  PROVE  InHand'
<1>1. /\ Tail(calls) = rest
      /\ Head(calls) = Do("remove", c) \/ Head(calls) = Do("removeChannel", c)
  BY FirstCalls DEF Removing, Ops
<1>2. calls' = rest /\ UNCHANGED <<loopVars, activeChannels_>> /\ removeChannel(c)
  <2>1. ASSUME NEW op \in {"remove", "removeChannel"}, Head(calls) = Do(op, c)
        PROVE  /\ calls' = Tail(calls) /\ UNCHANGED <<loopVars, activeChannels_>>
               /\ removeChannel(c)
    BY <2>1, Called DEF remove
  <2> QED
    BY <1>1, <2>1
<1>3. Known' = Known \ {c} /\ \A e \in Channel \ {c} : Untouched(e)
  BY <1>2, RemoveChanges DEF LoopInv
<1>4. \A e \in Channel \ {c} : Untouched(e)
  BY <1>3
<1>5. UNCHANGED <<serves, half, activeChannels_>>
  BY <1>2 DEF loopVars, passVars
<1>6. CASE rest = <<>> /\ serves[c] \in {"free", "removed"}
  <2>1. Handling({})'
    BY <1>2, <1>6, NothingInHand DEF Starting, Handling
  <2>2. Settled(c)'
    BY <1>3, <1>5, <1>6, EndsAreChannels
    DEF Settled, Registered, Known, Removing, Leaving, Served
  <2> QED
    BY <1>4, <1>5, <2>1, <2>2, OthersStay
<1>7. CASE Attaching(c, rest)
  <2>1. Opening(c)'
    BY <1>2, <1>3, <1>5, <1>7 DEF Opening, Attaching, Registered, Known
  <2>2. Handling({c})'
    BY <2>1 DEF Handling
  <2> QED
    BY <1>4, <1>5, <2>2, OthersStay
<1> QED
  BY <1>6, <1>7 DEF Removing, Leaving

LEMMA NextCallKeeps ==
  ASSUME LoopInv, nextCall, ~crashed' PROVE InHand'
<1>1. ~crashed
  BY DEF nextCall, enable, disableAll, update, remove, removeChannel, Usable
<1>2. PICK S \in SUBSET Channel :
        Handling(S) /\ Dispatched /\ \A c \in Channel \ S : Settled(c)
  BY <1>1 DEF LoopInv, InHand
<1>3. CASE Starting(S)
  BY <1>1, <1>2, <1>3, StartedKeeps DEF LoopInv
<1>4. ASSUME NEW c \in Channel, S = {c}, Opening(c) \/ Enabling(c) PROVE InHand'
  BY <1>1, <1>2, <1>4, OpenedKeeps, EnabledKeeps
<1>5. ASSUME NEW c \in Channel, NEW d \in Channel, NEW rest \in Seq(Call),
             S = {c, d}, Closing(c, d, rest)
      PROVE  InHand'
  BY <1>1, <1>2, <1>5, ClosedKeeps
<1>6. ASSUME NEW c \in Channel, NEW rest \in Seq(Call),
             S = {c}, Detaching(c, rest) \/ Removing(c, rest)
      PROVE  InHand'
  BY <1>1, <1>2, <1>6, DetachedKeeps, RemovedKeeps
<1> QED
  BY <1>2, <1>3, <1>4, <1>5, <1>6 DEF Handling

-----------------------------------------------------------------------------
(* Handlers *)

PollerStays == UNCHANGED <<events_, index_, pollfds_, channels_, crashed>>

LEMMA AtRest ==
  ASSUME LoopInv, LoopFree
  PROVE  Dispatched /\ \A c \in Channel : Settled(c)
<1>1. PICK S \in SUBSET Channel :
        Handling(S) /\ Dispatched /\ \A c \in Channel \ S : Settled(c)
  BY DEF LoopInv, LoopFree, InHand
<1>2. S = {}
  BY <1>1, NothingInHand DEF LoopFree
<1> QED
  BY <1>1, <1>2

\* The loop takes up what a handler is about.
LEMMA TakesUp ==
  ASSUME NEW S \in SUBSET Channel, \A c \in Channel : Settled(c), PollerStays,
         \A c \in Channel \ S : serves'[c] = serves[c],
         Handling(S)', Dispatched'
  PROVE  InHand'
<1>1. \A c \in Channel \ S : Settled(c)'
  BY DEF Settled, PollerStays, Registered, EntryOf
<1> QED
  BY <1>1 DEF InHand

\* One channel fewer to dispatch, or a functor that runs when there is none.
DispatchStep(c) ==
  \/ HandleEvent(c)
  \/ half = "run" /\ UNCHANGED <<half, activeChannels_>>

LEMMA DispatchedLess ==
  ASSUME LoopInv, LoopFree, Dispatched, NEW c \in Channel, DispatchStep(c), half' = half,
         \A d \in Channel : \/ serves'[d] = serves[d] \/ d = c
                            \/ d \notin Internal /\ serves[d] \notin Served
  PROVE  Dispatched'
<1>1. CASE HandleEvent(c)
  <2>1. /\ activeChannels_ \in Seq(Channel) /\ activeChannels_ # <<>>
        /\ Head(activeChannels_) = c /\ activeChannels_' = Tail(activeChannels_)
        /\ half = "handle"
    BY <1>1 DEF HandleEvent, Dispatched
  <2>2. activeChannels_' \in Seq(Channel)
    BY <2>1, HeadTailProperties
  <2>3. ASSUME NEW d \in Channel
        PROVE  /\ AtMostOnce(Tail(activeChannels_), d)
               /\ Has(Tail(activeChannels_), d) => Has(activeChannels_, d) /\ d # c
    BY <2>1, HasTail DEF Dispatched
  <2>4. ASSUME NEW d \in Channel, Has(Tail(activeChannels_), d)
        PROVE  d \in Internal \/ serves'[d] \in Served
    BY <2>3, <2>4 DEF Dispatched
  <2> QED
    BY <2>1, <2>2, <2>3, <2>4 DEF Dispatched
<1>2. CASE half = "run" /\ UNCHANGED <<half, activeChannels_>>
  <2>1. activeChannels_' = <<>> /\ activeChannels_' \in Seq(Channel)
    BY <1>2 DEF Dispatched
  <2> QED
    BY <2>1, HasNone DEF Dispatched
<1> QED
  BY <1>1, <1>2 DEF DispatchStep

\* The handlers, by what they leave to call.
LEMMA IdleKeeps ==
  ASSUME LoopInv, LoopFree, PollerStays, UNCHANGED <<serves, calls>>, Dispatched'
  PROVE  InHand'
<1>1. Handling({})'
  BY NothingInHand DEF LoopFree, Starting, Handling
<1> QED
  BY <1>1, AtRest, TakesUp

LEMMA OpensKeeps ==
  ASSUME LoopInv, LoopFree, PollerStays, NEW c \in Channel, DispatchStep(c), half' = half,
         NEW k \in Ends, serves[k] = "free",
         NEW op \in {"enableReading", "enableWriteing"}, calls' = Attach(op, k),
         NEW s \in Served, Becomes(k, s)
  PROVE  InHand'
<1>1. /\ Dispatched /\ \A d \in Channel : Settled(d)
      /\ k \in Channel /\ k \notin Internal /\ serves[k] \notin Served \cup {"disconnected"}
      /\ ServesTyped
  BY AtRest, EndsAreChannels DEF Served, LoopInv, LoopFree
<1>2. serves'[k] = s /\ \A d \in Channel \ {k} : serves'[d] = serves[d]
  BY <1>1 DEF Becomes, ServesTyped
<1>3. ~Registered(k)'
  BY <1>1 DEF Settled, Registered, PollerStays
<1>4. Opening(k)'
  BY <1>2, <1>3 DEF Opening, Attaching
<1>5. Handling({k})'
  BY <1>1, <1>4 DEF Handling
<1>6. Dispatched'
  BY <1>1, <1>2, DispatchedLess
<1> QED
  BY <1>1, <1>2, <1>5, <1>6, TakesUp

LEMMA WritesKeeps ==
  ASSUME LoopInv, LoopFree, PollerStays, UNCHANGED serves, Dispatched', NEW c \in Channel,
         serves[c] \in {"connected", "disconnected"}, calls' = <<Do("enableWriteing", c)>>
  PROVE  InHand'
<1>1. (\A d \in Channel : Settled(d)) /\ ServesTyped /\ PollerInv /\ ~crashed
  BY AtRest DEF LoopInv, LoopFree
<1>2. c \in Ends
  BY <1>1 DEF ServesTyped, Internal, Ends
<1>3. Registered(c) /\ index_[c] >= 0 /\ (serves[c] = "disconnected" => EntryOf(c).fd = NoFd)
  BY <1>1, KnownIndexed DEF Settled, Served
<1>4. Enabling(c)'
  BY <1>2, <1>3 DEF Enabling, Served, Registered, PollerStays, EntryOf
<1>5. Handling({c})'
  BY <1>4 DEF Handling
<1> QED
  BY <1>1, <1>5, TakesUp

LEMMA ClosesKeeps ==
  ASSUME LoopInv, LoopFree, PollerStays, NEW c \in Channel, DispatchStep(c), half' = half,
         serves[c] = "connected", handleClose(c)
  PROVE  InHand'
<1>1. /\ Dispatched /\ \A d \in Channel : Settled(d) /\ ServesTyped
  BY AtRest DEF LoopInv, LoopFree
<1>2. c \in Ends
  BY <1>1 DEF ServesTyped, Internal, Ends
<1>3. Registered(c)'
  BY <1>1 DEF Settled, Served, Registered, PollerStays
<1>4. CASE calls' = <<Do("disableAll", c)>> /\ Becomes(c, "disconnected")
  <2>1. <<Do("disableAll", c)>> = DisableOnly(c) \o <<>> /\ <<>> \in Seq(Call)
    <3>1. <<Do("disableAll", c)>> \in Seq(Call)
      BY CallsTyped DEF Ops
    <3> QED
      BY <3>1, ConcatEmptySeq DEF DisableOnly
  <2>2. serves'[c] = "disconnected" /\ \A d \in Channel \ {c} : serves'[d] = serves[d]
    BY <1>1, <1>4 DEF Becomes, ServesTyped
  <2>3. Closing(c, c, <<>>)'
    BY <1>2, <1>3, <1>4, <2>1, <2>2 DEF Closing
  <2>4. {c, c} = {c} /\ Handling({c, c})'
    BY <2>1, <2>3 DEF Handling
  <2>5. Dispatched'
    BY <1>1, <2>2, DispatchedLess
  <2> QED
    BY <1>1, <2>2, <2>4, <2>5, TakesUp
<1>5. ASSUME NEW k \in attempts, calls' = DisableOnly(c) \o Attach("enableWriteing", k),
             serves' = [serves EXCEPT ![c] = "disconnected", ![k] = "connecting"]
      PROVE  InHand'
  <2>1. k \in Ends /\ k \in Channel /\ k # c /\ serves[k] = "free" /\ k \notin Internal
    BY EndsAreChannels DEF attempts, Ends
  <2>2. Attach("enableWriteing", k) \in Seq(Call)
    BY <2>1, CallsTyped DEF Ops
  <2>3. /\ serves'[c] = "disconnected" /\ serves'[k] = "connecting"
        /\ \A d \in Channel \ {c, k} : serves'[d] = serves[d]
    BY <1>1, <1>5, <2>1 DEF ServesTyped
  <2>4. ~Registered(k)'
    BY <1>1, <2>1 DEF Settled, Registered, PollerStays, Served
  <2>5. Attaching(k, Attach("enableWriteing", k))'
    BY <2>1, <2>3 DEF Attaching, Served
  <2>6. Closing(c, k, Attach("enableWriteing", k))'
    BY <1>2, <1>3, <1>5, <2>3, <2>4, <2>5 DEF Closing
  <2>7. Handling({c, k})'
    BY <2>1, <2>2, <2>6 DEF Handling
  <2>8. Dispatched'
    BY <1>1, <2>1, <2>3, DispatchedLess DEF Served
  <2> QED
    BY <1>1, <2>1, <2>3, <2>7, <2>8, TakesUp
<1> QED
  BY <1>4, <1>5 DEF handleClose, DisableOnly

LEMMA AttemptKeeps ==
  ASSUME LoopInv, LoopFree, PollerStays, NEW c \in Channel, DispatchStep(c), half' = half,
         serves[c] = "connecting", attemptFails(c) \/ attemptSucceeds(c)
  PROVE  InHand'
<1>1. /\ Dispatched /\ \A d \in Channel : Settled(d) /\ ServesTyped
  BY AtRest DEF LoopInv, LoopFree
<1>2. c \in Ends
  BY <1>1 DEF ServesTyped, Internal, Ends
<1>3. Registered(c)'
  BY <1>1 DEF Settled, Served, Registered, PollerStays
<1>4. PICK rest \in Seq(Call) : Detaching(c, rest)'
  <2>1. CASE attemptFails(c)
    <3>1. Detach(c) = Detach(c) \o <<>> /\ <<>> \in Seq(Call)
      <4>1. Detach(c) \in Seq(Call)
        BY CallsTyped DEF Ops
      <4> QED
        BY <4>1, ConcatEmptySeq
    <3>2. serves'[c] = "free" /\ calls' = Detach(c) \o <<>>
      BY <1>1, <2>1, <3>1 DEF attemptFails, Becomes, ServesTyped
    <3>3. Detaching(c, <<>>)'
      BY <1>2, <1>3, <3>2 DEF Detaching, Leaving
    <3> QED
      BY <3>1, <3>3
  <2>2. CASE attemptSucceeds(c)
    <3>1. Attach("enableReading", c) \in Seq(Call)
      BY CallsTyped DEF Ops
    <3>2. serves'[c] = "connected" /\ calls' = Detach(c) \o Attach("enableReading", c)
      BY <1>1, <2>2 DEF attemptSucceeds, Becomes, ServesTyped
    <3>3. Attaching(c, Attach("enableReading", c))'
      BY <1>2, <3>2 DEF Attaching, Served
    <3>4. Detaching(c, Attach("enableReading", c))'
      BY <1>2, <1>3, <3>2, <3>3 DEF Detaching, Leaving
    <3> QED
      BY <3>1, <3>4
  <2> QED
    BY <2>1, <2>2
<1>5. \A d \in Channel \ {c} : serves'[d] = serves[d]
  BY <1>1 DEF attemptFails, attemptSucceeds, Becomes, ServesTyped
<1>6. Handling({c})'
  BY <1>4 DEF Handling
<1>7. Dispatched'
  BY <1>1, <1>5, DispatchedLess
<1> QED
  BY <1>1, <1>5, <1>6, <1>7, TakesUp

LEMMA DestroysKeeps ==
  ASSUME LoopInv, LoopFree, PollerStays, NEW c \in Channel, DispatchStep(c), half' = half,
         serves[c] = "disconnected", calls' = <<Do("removeChannel", c)>>, Becomes(c, "removed")
  PROVE  InHand'
<1>1. /\ Dispatched /\ \A d \in Channel : Settled(d) /\ ServesTyped
  BY AtRest DEF LoopInv, LoopFree
<1>2. c \in Ends
  BY <1>1 DEF ServesTyped, Internal, Ends
<1>3. Registered(c)'
  BY <1>1 DEF Settled, Registered, PollerStays
<1>4. serves'[c] = "removed" /\ \A d \in Channel \ {c} : serves'[d] = serves[d]
  BY <1>1 DEF Becomes, ServesTyped
<1>5. calls' = <<Do("removeChannel", c)>> \o <<>> /\ <<>> \in Seq(Call)
  <2>1. <<Do("removeChannel", c)>> \in Seq(Call)
    BY CallsTyped DEF Ops
  <2> QED
    BY <2>1, ConcatEmptySeq
<1>6. Removing(c, <<>>)'
  BY <1>2, <1>3, <1>4, <1>5 DEF Removing, Leaving
<1>7. Handling({c})'
  BY <1>5, <1>6 DEF Handling
<1>8. Dispatched'
  BY <1>1, <1>4, DispatchedLess
<1> QED
  BY <1>1, <1>4, <1>7, <1>8, TakesUp

\* What ::poll reports are channels that wait for events, each once.
LEMMA PollDispatches ==
  ASSUME LoopInv, LoopFree, half = "handle", UNCHANGED <<half, serves>>, poll
  PROVE  Dispatched'
<1>0. PICK n \in 0..Len(pollfds_) : \E reported \in [1..n -> DOMAIN pollfds_] :
        /\ \A j, k \in 1..n : j < k => reported[j] < reported[k]
        /\ \A k \in 1..n : pollfds_[reported[k]].fd # NoFd
        /\ activeChannels_' = [k \in 1..n |-> channels_[pollfds_[reported[k]].fd]]
  BY DEF poll
<1>1. PICK reported \in [1..n -> DOMAIN pollfds_] :
        /\ \A j, k \in 1..n : j < k => reported[j] < reported[k]
        /\ \A k \in 1..n : pollfds_[reported[k]].fd # NoFd
        /\ activeChannels_' = [k \in 1..n |-> channels_[pollfds_[reported[k]].fd]]
  BY <1>0
<1>2. /\ \A d \in Channel : Settled(d)
      /\ Typed /\ OwnEntry /\ OneToOne /\ DOMAIN pollfds_ = 1..Len(pollfds_) /\ n \in Nat
  <2>1. Typed /\ OwnEntry /\ OneToOne
    BY DEF LoopInv, LoopFree, PollerInv
  <2>2. DOMAIN pollfds_ = 1..Len(pollfds_) /\ Len(pollfds_) \in Nat
    BY <2>1, LenProperties DEF Typed
  <2> QED
    BY <2>1, <2>2, AtRest
<1>3. ASSUME NEW k \in 1..n
      PROVE  /\ activeChannels_'[k] \in Known /\ activeChannels_'[k] \in Channel
             /\ index_[activeChannels_'[k]] = reported[k] - 1
             /\ EntryOf(activeChannels_'[k]).fd # NoFd
  <2>1. reported[k] \in 1..Len(pollfds_)
    BY <1>1, <1>2
  <2>2. PICK c \in Known : index_[c] = reported[k] - 1
    BY <1>2, <2>1 DEF OneToOne
  <2>3. index_[c] + 1 = reported[k]
    BY <2>1, <2>2
  <2>4. EntryOf(c).fd # NoFd
    BY <1>1, <2>3 DEF EntryOf
  <2>5. EntryOf(c).fd = c /\ channels_[c] = c
    BY <1>2, <2>4 DEF OwnEntry, Typed
  <2>6. activeChannels_'[k] = c
    BY <1>1, <2>3, <2>5 DEF EntryOf
  <2> QED
    BY <1>2, <2>2, <2>4, <2>6 DEF Typed
<1>4. activeChannels_' \in Seq(Channel) /\ DOMAIN activeChannels_' = 1..n
  <2>1. \A k \in 1..n : channels_[pollfds_[reported[k]].fd] \in Channel
    BY <1>1, <1>3
  <2>2. [k \in 1..n |-> channels_[pollfds_[reported[k]].fd]] \in Seq(Channel)
    BY <1>2, <2>1, IsASeq
  <2> QED
    BY <1>1, <2>2
<1>5. ASSUME NEW j \in 1..n, NEW k \in 1..n, activeChannels_'[j] = activeChannels_'[k]
      PROVE  j = k
  <2>1. reported[j] - 1 = reported[k] - 1
    BY <1>3, <1>5
  <2>2. reported[j] \in Nat /\ reported[k] \in Nat
    BY <1>2
  <2>3. reported[j] = reported[k]
    BY <2>1, <2>2
  <2>4. ~(j < k) /\ ~(k < j)
    BY <1>1, <2>2, <2>3
  <2> QED
    BY <1>2, <2>4
<1>6. ASSUME NEW c \in Channel, NEW k \in 1..n, activeChannels_'[k] = c
      PROVE  c \in Internal \/ serves[c] \in Served
  BY <1>2, <1>3, <1>6 DEF Settled, Registered, Known
<1> QED
  BY <1>4, <1>5, <1>6 DEF Dispatched, AtMostOnce, Has

-----------------------------------------------------------------------------
(* The queue of functors *)

Destroy(c) == Functor("connectDestroyed", c)
Send(c) == Functor("sendInLoop", c)

\* Neither connectDestroyed nor sendInLoop is queued, and the former is not run.
OtherFunctors ==
  \/ Appends(<<>>) \/ swapFunctors \/ functorsDone \/ UNCHANGED passVars
  \/ \E h \in LoopFunctors :
       h.functor \notin {"connectDestroyed", "sendInLoop"} /\ Appends(<<h>>)
  \/ \E g : g.functor # "connectDestroyed" /\ Runs(g, <<>>)
  \/ \E g, h \in LoopFunctors :
       /\ g.functor # "connectDestroyed" /\ Runs(g, <<h>>)
       /\ h.functor \notin {"connectDestroyed", "sendInLoop"} /\ g # h

\* What becomes of the functors of a connection.
Stays(c) ==
  /\ Queued(Destroy(c))' <=> Queued(Destroy(c))
  /\ QueuedOnce(Destroy(c)) => QueuedOnce(Destroy(c))'
  /\ Queued(Send(c))' => Queued(Send(c))
  /\ QueuedBefore(Send(c), Destroy(c)) => QueuedBefore(Send(c), Destroy(c))'

LEMMA ConnectionFunctors ==
  /\ \A c \in Channel : Destroy(c) \in LoopFunctors /\ Send(c) \in LoopFunctors
  /\ \A c, d : /\ Destroy(c) = Destroy(d) <=> c = d
               /\ Send(c) = Send(d) <=> c = d
               /\ Send(c) # Destroy(d)
  /\ \A c : Destroy(c).functor = "connectDestroyed" /\ Send(c).functor = "sendInLoop"
<1>1. \A c, d : /\ Destroy(c) = Destroy(d) <=> c = d
               /\ Send(c) = Send(d) <=> c = d
               /\ Send(c) # Destroy(d)
  BY FunctorNames DEF Destroy, Send
<1> QED
  BY <1>1, FunctorTypes DEF Destroy, Send, Functor

LEMMA QueueStays ==
  ASSUME PassInv(LoopFunctors), OtherFunctors
  PROVE  PassInv(LoopFunctors)' /\ \A c \in Channel : Stays(c)
<1> USE DEF Stays
<1>2. CASE Appends(<<>>) \/ swapFunctors \/ functorsDone \/ UNCHANGED passVars
  <2>1. PassInv(LoopFunctors)' /\ Queue' = Queue
    BY <1>2, AppendsNone, PassOnKeepsQueue
  <2> QED
    BY <2>1 DEF Queued, QueuedOnce, QueuedBefore
<1>3. ASSUME NEW h \in LoopFunctors, h.functor \notin {"connectDestroyed", "sendInLoop"},
             Appends(<<h>>)
      PROVE  PassInv(LoopFunctors)' /\ \A c \in Channel : Stays(c)
  BY <1>3, ConnectionFunctors, AppendsOne
<1>4. ASSUME NEW g, g.functor # "connectDestroyed", Runs(g, <<>>)
      PROVE  PassInv(LoopFunctors)' /\ \A c \in Channel : Stays(c)
  BY <1>4, ConnectionFunctors, RunsAlone
<1>5. ASSUME NEW g \in LoopFunctors, NEW h \in LoopFunctors, g.functor # "connectDestroyed",
             Runs(g, <<h>>), h.functor \notin {"connectDestroyed", "sendInLoop"}, g # h
      PROVE  PassInv(LoopFunctors)' /\ \A c \in Channel : Stays(c)
  BY <1>5, ConnectionFunctors, RunsOne
<1> QED
  BY <1>2, <1>3, <1>4, <1>5 DEF OtherFunctors

LEMMA QueueInvStays ==
  ASSUME QueueInv, OtherFunctors,
         \A c \in Channel : /\ serves'[c] = "disconnected" <=> serves[c] = "disconnected"
                            /\ serves[c] = "connected" => serves'[c] = "connected"
  PROVE  QueueInv'
<1>1. PassInv(LoopFunctors)' /\ \A c \in Channel : Stays(c)
  BY QueueStays DEF QueueInv
<1> QED
  BY <1>1 DEF QueueInv, Destroying, Sending, Stays, Destroy, Send

\* A send of another thread joins the queue of an open connection.
LEMMA SendQueues ==
  ASSUME QueueInv, NEW c \in Channel, serves[c] = "connected", UNCHANGED serves,
         Appends(<<Send(c)>>)
  PROVE  QueueInv'
<1>1. /\ PassInv(LoopFunctors)'
      /\ \A f \in LoopFunctors :
           f # Send(c) => (Queued(f)' <=> Queued(f)) /\ (QueuedOnce(f) => QueuedOnce(f)')
      /\ \A f, g \in LoopFunctors : f # g /\ QueuedBefore(g, f) /\ (g = Send(c) => ~Queued(f))
                                      => QueuedBefore(g, f)'
  BY ConnectionFunctors, AppendsOne DEF QueueInv
<1>2. ~Queued(Destroy(c))
  BY DEF QueueInv, Destroying, Destroy
<1>3. ASSUME NEW d \in Channel
      PROVE  /\ Queued(Destroy(d))' <=> Queued(Destroy(d))
             /\ QueuedOnce(Destroy(d)) => QueuedOnce(Destroy(d))'
             /\ d # c => (Queued(Send(d))' <=> Queued(Send(d)))
             /\ QueuedBefore(Send(d), Destroy(d)) => QueuedBefore(Send(d), Destroy(d))'
  BY <1>1, <1>2, ConnectionFunctors
<1> QED
  BY <1>1, <1>3 DEF QueueInv, Destroying, Sending, Destroy, Send

LEMMA Becoming ==
  ASSUME ServesTyped, NEW c \in Channel, c \notin Internal,
         NEW s \in Served \cup {"free", "disconnected", "removed"}, Becomes(c, s)
  PROVE  ServesTyped' /\ serves'[c] = s /\ \A d \in Channel \ {c} : serves'[d] = serves[d]
BY DEF Becomes, ServesTyped, Internal

\* A close queues the one functor that removes the connection.
LEMMA CloseQueues ==
  ASSUME QueueInv, ServesTyped, NEW c \in Channel,
         serves[c] = "connected", handleClose(c),
         Appends(DestroyNext(c)) \/ Runs(Functor("forceCloseInLoop", c), DestroyNext(c))
  PROVE  QueueInv' /\ ServesTyped'
<1> USE DEF DestroyNext
<1>1. \A d : Functor("forceCloseInLoop", c) # Destroy(d) /\ Functor("forceCloseInLoop", c) # Send(d)
  BY DEF Functor, Destroy, Send
<1>2. ~Queued(Destroy(c)) /\ PassInv(LoopFunctors)
  BY DEF QueueInv, Destroying, Destroy
<1>3. /\ PassInv(LoopFunctors)' /\ Queued(Destroy(c))' /\ QueuedOnce(Destroy(c))'
      /\ \A d \in Channel :
           /\ d # c => /\ Queued(Destroy(d))' <=> Queued(Destroy(d))
                       /\ QueuedOnce(Destroy(d)) => QueuedOnce(Destroy(d))'
           /\ Queued(Send(d))' => Queued(Send(d))
           /\ QueuedBefore(Send(d), Destroy(d)) => QueuedBefore(Send(d), Destroy(d))'
  <2>1. CASE Appends(<<Destroy(c)>>)
    BY <1>2, <2>1, ConnectionFunctors, AppendsOne
  <2>2. CASE Runs(Functor("forceCloseInLoop", c), <<Destroy(c)>>)
    BY <1>1, <1>2, <2>2, ConnectionFunctors, RunsOne
  <2> QED
    BY <2>1, <2>2 DEF Destroy
<1>4. /\ ServesTyped' /\ serves'[c] = "disconnected"
      /\ \A d \in Channel \ {c} : \/ serves'[d] = serves[d]
                                  \/ serves[d] = "free" /\ serves'[d] = "connecting"
  <2>1. CASE Becomes(c, "disconnected")
    <3>1. c \notin Internal
      BY DEF ServesTyped
    <3> QED
      BY <2>1, <3>1, Becoming
  <2>2. ASSUME NEW k \in attempts,
               serves' = [serves EXCEPT ![c] = "disconnected", ![k] = "connecting"]
        PROVE  /\ ServesTyped' /\ serves'[c] = "disconnected"
               /\ \A d \in Channel \ {c} : \/ serves'[d] = serves[d]
                                           \/ serves[d] = "free" /\ serves'[d] = "connecting"
    <3>1. k \in Channel /\ k # c /\ serves[k] = "free" /\ k \notin Internal /\ c \notin Internal
      BY IoLoopAssumption DEF attempts, Internal, ServesTyped
    <3>2. /\ serves' \in [Channel -> Served \cup {"free", "disconnected", "removed"}]
          /\ serves'[c] = "disconnected" /\ serves'[k] = "connecting"
          /\ \A d \in Channel : d # c /\ d # k => serves'[d] = serves[d]
      BY <2>2, <3>1 DEF ServesTyped, Served
    <3>3. \A d \in Internal : d \in Channel /\ d # c /\ d # k
      BY <3>1 DEF Internal
    <3> QED
      BY <3>1, <3>2, <3>3 DEF ServesTyped
  <2> QED
    BY <2>1, <2>2 DEF handleClose
<1> QED
  BY <1>3, <1>4 DEF QueueInv, Destroying, Sending, Destroy, Send

-----------------------------------------------------------------------------
(* The actions, one by one *)

LoopParts == QueueInv /\ ServesTyped /\ InHand

\* A step that leaves to every descriptor the use it has.
LEMMA UseStays ==
  ASSUME LoopInv, ~crashed, UNCHANGED serves, OtherFunctors, InHand'
  PROVE  LoopParts'
<1>1. QueueInv'
  BY QueueInvStays DEF LoopInv, QueueInv
<1> QED
  BY <1>1 DEF LoopParts, ServesTyped, LoopInv

\* A step that changes the use of one, and closes no connection.
LEMMA UseChanges ==
  ASSUME LoopInv, ~crashed, NEW k \in Channel, k \notin Internal,
         serves[k] \notin {"connected", "disconnected"},
         NEW s \in Served \cup {"free", "removed"}, Becomes(k, s), OtherFunctors, InHand'
  PROVE  LoopParts'
<1>1. ServesTyped' /\ serves'[k] = s /\ \A d \in Channel \ {k} : serves'[d] = serves[d]
  BY Becoming DEF LoopInv
<1>2. \A c \in Channel : /\ serves'[c] = "disconnected" <=> serves[c] = "disconnected"
                         /\ serves[c] = "connected" => serves'[c] = "connected"
  BY <1>1 DEF Served
<1>3. QueueInv'
  BY <1>2, QueueInvStays DEF LoopInv, QueueInv
<1> QED
  BY <1>1, <1>3 DEF LoopParts

LEMMA FunctorRuns ==
  ASSUME LoopInv, NEW f, NEW c, NEW new, RunFunctor(f, c, new)
  PROVE  /\ LoopFree /\ PollerStays /\ half' = half /\ Dispatched'
         /\ ~crashed /\ \A d \in Channel : DispatchStep(d)
<1>1. /\ LoopFree /\ PollerStays /\ half = "run" /\ UNCHANGED <<half, activeChannels_>>
      /\ ~crashed
  BY DEF RunFunctor, Runs, PollerStays, vars, LoopFree
<1>2. Dispatched /\ activeChannels_ = <<>>
  BY <1>1, AtRest DEF Dispatched
<1>3. Dispatched'
  BY <1>1, <1>2, HasNone DEF Dispatched
<1> QED
  BY <1>1, <1>3 DEF DispatchStep

LEMMA EventHandled ==
  ASSUME LoopInv, NEW c \in Channel, HandleEvent(c), half' = half
  PROVE  /\ LoopFree /\ PollerStays /\ DispatchStep(c) /\ ~crashed
         /\ UNCHANGED serves => Dispatched'
<1>1. LoopFree /\ PollerStays /\ DispatchStep(c) /\ ~crashed
  BY DEF HandleEvent, PollerStays, DispatchStep, LoopFree
<1>2. UNCHANGED serves => Dispatched'
  BY <1>1, AtRest, DispatchedLess
<1> QED
  BY <1>1, <1>2

LEMMA ForceCloseQueues ==
  ASSUME NEW c \in Channel, Queues("forceCloseInLoop", c) PROVE OtherFunctors /\ half' = half
<1>1. /\ Functor("forceCloseInLoop", c) \in LoopFunctors
      /\ Functor("forceCloseInLoop", c).functor \notin {"connectDestroyed", "sendInLoop"}
  BY FunctorTypes DEF Functor
<1>2. Appends(<<Functor("forceCloseInLoop", c)>>)
  BY DEF Queues
<1> QED
  BY <1>1, <1>2 DEF OtherFunctors, Appends

LEMMA CallbackKeeps ==
  ASSUME LoopInv, NEW c \in Channel, HandleEvent(c), callback PROVE LoopParts'
<1>1. UNCHANGED serves /\ half' = half /\ OtherFunctors
  <2>1. ASSUME NEW d \in Accepted \cup Outgoing, ForceClose(d)
        PROVE  UNCHANGED serves /\ half' = half /\ OtherFunctors
    BY <2>1, ForceCloseQueues, IoLoopAssumption DEF ForceClose
  <2> QED
    BY <2>1 DEF callback, OtherFunctors, Appends
<1>2. LoopFree /\ PollerStays /\ ~crashed /\ Dispatched'
  BY <1>1, EventHandled
<1>3. InHand'
  <2>1. CASE UNCHANGED calls
    BY <1>1, <1>2, <2>1, IdleKeeps
  <2>2. ASSUME NEW d \in Outgoing, serves[d] = "connected", calls' = <<Do("enableWriteing", d)>>
        PROVE  InHand'
    BY <1>1, <1>2, <2>2, WritesKeeps, IoLoopAssumption
  <2> QED
    BY <2>1, <2>2 DEF callback, ForceClose
<1> QED
  BY <1>1, <1>2, <1>3, UseStays

LEMMA InternalKeeps ==
  ASSUME LoopInv, NEW c \in Channel, internalEvent(c) PROVE LoopParts'
<1>1. CASE callback
  BY <1>1, CallbackKeeps DEF internalEvent
<1>2. ASSUME HandleEvent(c), Appends(<<>>)
      PROVE  /\ LoopFree /\ PollerStays /\ DispatchStep(c) /\ ~crashed
             /\ half' = half /\ OtherFunctors
  <2>1. half' = half /\ OtherFunctors
    BY <1>2 DEF Appends, OtherFunctors
  <2> QED
    BY <1>2, <2>1, EventHandled
<1>3. HandleEvent(c)
  BY DEF internalEvent
<1>4. ASSUME NEW k \in Ends, serves[k] = "free", NEW s \in Served, Appends(<<>>),
             NEW op \in {"enableReading", "enableWriteing"},
             calls' = Attach(op, k), Becomes(k, s)
      PROVE  LoopParts'
  <2>1. InHand'
    BY <1>2, <1>3, <1>4, OpensKeeps
  <2>2. k \in Channel /\ k \notin Internal /\ serves[k] \notin {"connected", "disconnected"}
    BY <1>4, EndsAreChannels
  <2> QED
    BY <1>2, <1>3, <1>4, <2>1, <2>2, UseChanges
<1>5. ASSUME NEW k \in attempts, connect(k), Appends(<<>>) PROVE LoopParts'
  <2>1. k \in Ends /\ serves[k] = "free"
    BY DEF attempts, Ends
  <2> QED
    BY <1>4, <1>5, <2>1 DEF connect, Served
<1>6. ASSUME NEW s \in Accepted, serves[s] = "free", calls' = Attach("enableReading", s),
             Becomes(s, "connected"), Appends(<<>>)
      PROVE  LoopParts'
  <2>1. s \in Ends
    BY DEF Ends
  <2> QED
    BY <1>4, <1>6, <2>1 DEF Served
<1> QED
  BY <1>1, <1>5, <1>6 DEF internalEvent

LEMMA MessageKeeps ==
  ASSUME LoopInv, NEW c \in Channel, messageArrives(c) PROVE LoopParts'
BY CallbackKeeps DEF messageArrives

LEMMA CloseKeeps ==
  ASSUME LoopInv, NEW c \in Channel, peerCloses(c) PROVE LoopParts'
<1>1. /\ HandleEvent(c) /\ half' = half /\ serves[c] = "connected"
      /\ handleClose(c) /\ Appends(DestroyNext(c))
  BY DEF peerCloses, Appends
<1>2. LoopFree /\ PollerStays /\ DispatchStep(c) /\ ~crashed
  BY <1>1, EventHandled
<1>3. InHand'
  BY <1>1, <1>2, ClosesKeeps
<1> QED
  BY <1>1, <1>2, <1>3, CloseQueues DEF LoopParts, LoopInv

LEMMA ForcedCloseKeeps ==
  ASSUME LoopInv, NEW c \in Channel, forceCloseInLoop(c) PROVE LoopParts'
<1>1. CASE serves[c] = "connected"
  <2>1. RunFunctor("forceCloseInLoop", c, DestroyNext(c)) /\ handleClose(c)
    BY <1>1 DEF forceCloseInLoop
  <2>2. LoopFree /\ PollerStays /\ half' = half /\ DispatchStep(c) /\ ~crashed
    BY <2>1, FunctorRuns
  <2>3. InHand'
    BY <1>1, <2>1, <2>2, ClosesKeeps
  <2>4. Runs(Functor("forceCloseInLoop", c), DestroyNext(c))
    BY <2>1 DEF RunFunctor
  <2> QED
    BY <1>1, <2>1, <2>2, <2>3, <2>4, CloseQueues DEF LoopParts, LoopInv
<1>2. CASE serves[c] # "connected"
  <2>1. RunFunctor("forceCloseInLoop", c, <<>>) /\ UNCHANGED <<serves, calls>>
    BY <1>2 DEF forceCloseInLoop
  <2>2. LoopFree /\ PollerStays /\ Dispatched' /\ ~crashed
    BY <2>1, FunctorRuns
  <2>3. OtherFunctors
    <3>1. Functor("forceCloseInLoop", c).functor # "connectDestroyed"
      BY DEF Functor
    <3> QED
      BY <2>1, <3>1 DEF OtherFunctors, RunFunctor
  <2>4. InHand'
    BY <2>1, <2>2, IdleKeeps
  <2> QED
    BY <2>1, <2>2, <2>3, <2>4, UseStays
<1> QED
  BY <1>1, <1>2

LEMMA AttemptEndKeeps ==
  ASSUME LoopInv, LoopFree, PollerStays, NEW k \in Channel, DispatchStep(k), half' = half,
         serves[k] = "connecting", attemptFails(k) \/ attemptSucceeds(k), OtherFunctors
  PROVE  LoopParts'
<1>1. InHand'
  BY AttemptKeeps
<1>2. ~crashed /\ k \notin Internal /\ serves[k] \notin {"connected", "disconnected"}
  BY DEF LoopInv, LoopFree, ServesTyped
<1>3. Becomes(k, "free") \/ Becomes(k, "connected")
  BY DEF attemptFails, attemptSucceeds
<1>4. CASE Becomes(k, "free")
  BY <1>1, <1>2, <1>4, UseChanges
<1>5. CASE Becomes(k, "connected")
  BY <1>1, <1>2, <1>5, UseChanges DEF Served
<1> QED
  BY <1>3, <1>4, <1>5

LEMMA ConnectorKeeps ==
  ASSUME LoopInv, \/ \E k \in Channel : attemptEnds(k)
                  \/ stopInLoop \/ resetChannel
  PROVE  LoopParts'
<1> DEFINE reset == Functor("resetChannel", NoFd)
           halt == Functor("stopInLoop", NoFd)
<1>1. /\ reset \in LoopFunctors /\ halt \in LoopFunctors /\ reset # halt
      /\ reset.functor \notin {"connectDestroyed", "sendInLoop"}
      /\ halt.functor # "connectDestroyed"
  <2>1. reset \in LoopFunctors /\ halt \in LoopFunctors
    BY FunctorTypes
  <2>2. /\ reset # halt
        /\ reset.functor \notin {"connectDestroyed", "sendInLoop"}
        /\ halt.functor # "connectDestroyed"
    BY DEF Functor
  <2> QED
    BY <2>1, <2>2
<1> HIDE DEF reset, halt
<1>2. ASSUME NEW k \in Channel, attemptEnds(k) PROVE LoopParts'
  <2>1. /\ HandleEvent(k) /\ half' = half /\ serves[k] = "connecting"
        /\ attemptFails(k) \/ attemptSucceeds(k)
        /\ Appends(<<reset>>)
    BY <1>2 DEF attemptEnds, Appends, ResetLater, reset
  <2>2. OtherFunctors
    BY <1>1, <2>1 DEF OtherFunctors
  <2>3. LoopFree /\ PollerStays /\ DispatchStep(k)
    BY <2>1, EventHandled
  <2> QED
    BY <2>1, <2>2, <2>3, AttemptEndKeeps
<1>3. ASSUME NEW k \in Outgoing, serves[k] = "connecting",
             RunFunctor("stopInLoop", NoFd, ResetLater), attemptFails(k)
      PROVE  LoopParts'
  <2>1. k \in Channel
    BY IoLoopAssumption
  <2>2. LoopFree /\ PollerStays /\ half' = half /\ DispatchStep(k)
    BY <1>3, <2>1, FunctorRuns
  <2>3. Runs(halt, <<reset>>)
    BY <1>3 DEF RunFunctor, ResetLater, halt, reset
  <2>4. OtherFunctors
    BY <1>1, <2>3 DEF OtherFunctors
  <2> QED
    BY <1>3, <2>1, <2>2, <2>4, AttemptEndKeeps
<1>4. ASSUME NEW f \in {"stopInLoop", "resetChannel"}, RunFunctor(f, NoFd, <<>>),
             UNCHANGED <<serves, calls>>
      PROVE  LoopParts'
  <2>1. LoopFree /\ PollerStays /\ Dispatched' /\ ~crashed
    BY <1>4, FunctorRuns
  <2>2. Runs(reset, <<>>) \/ Runs(halt, <<>>)
    BY <1>4 DEF RunFunctor, halt, reset
  <2>3. OtherFunctors
    BY <1>1, <2>2 DEF OtherFunctors
  <2>4. InHand'
    BY <1>4, <2>1, IdleKeeps
  <2> QED
    BY <1>4, <2>1, <2>3, <2>4, UseStays
<1> QED
  BY <1>2, <1>3, <1>4 DEF stopInLoop, resetChannel

LEMMA DestroyKeeps ==
  ASSUME LoopInv, NEW c \in Channel, connectDestroyed(c) PROVE LoopParts'
<1>1. /\ RunFunctor("connectDestroyed", c, <<>>) /\ Runs(Destroy(c), <<>>)
      /\ calls' = <<Do("removeChannel", c)>> /\ Becomes(c, "removed")
  BY DEF connectDestroyed, RunFunctor, Destroy
<1>2. LoopFree /\ PollerStays /\ half' = half /\ DispatchStep(c) /\ ~crashed
  BY <1>1, FunctorRuns
<1>3. QueueInv /\ ServesTyped
  BY <1>2 DEF LoopInv
<1>4. /\ PassInv(LoopFunctors)' /\ Queued(Destroy(c))
      /\ QueuedOnce(Destroy(c)) => ~Queued(Destroy(c))'
      /\ \A f \in LoopFunctors : /\ f # Destroy(c) => (Queued(f)' <=> Queued(f))
                                 /\ Queued(f)' => Queued(f)
                                 /\ QueuedOnce(f) => QueuedOnce(f)'
                                 /\ QueuedBefore(f, Destroy(c)) => ~Queued(f)'
      /\ \A f, g \in LoopFunctors : QueuedBefore(f, g) => QueuedBefore(f, g)'
  BY <1>1, <1>3, RunsAlone DEF QueueInv
<1>5. /\ serves[c] = "disconnected" /\ c \notin Internal /\ QueuedOnce(Destroy(c))
      /\ QueuedBefore(Send(c), Destroy(c))
  BY <1>3, <1>4 DEF QueueInv, Destroying, Sending, Destroy, Send, ServesTyped
<1>6. ServesTyped' /\ serves'[c] = "removed" /\ \A d \in Channel \ {c} : serves'[d] = serves[d]
  BY <1>1, <1>3, <1>5, Becoming
<1>7. ~Queued(Destroy(c))' /\ ~Queued(Send(c))'
  BY <1>4, <1>5, ConnectionFunctors
<1>8. \A d \in Channel : /\ QueuedOnce(Destroy(d)) => QueuedOnce(Destroy(d))'
                         /\ QueuedBefore(Send(d), Destroy(d)) => QueuedBefore(Send(d), Destroy(d))'
                         /\ Queued(Send(d))' => Queued(Send(d))
                         /\ d # c => (Queued(Destroy(d))' <=> Queued(Destroy(d)))
  BY <1>4, ConnectionFunctors
<1>9. QueueInv'
  BY <1>3, <1>4, <1>6, <1>7, <1>8 DEF QueueInv, Destroying, Sending, Destroy, Send
<1>10. InHand'
  BY <1>1, <1>2, <1>5, DestroysKeeps
<1> QED
  BY <1>6, <1>9, <1>10 DEF LoopParts

\* A send that was queued before the close finds the channel still registered.
LEMMA SendKeeps ==
  ASSUME LoopInv, NEW c \in Channel, sendInLoop(c) PROVE LoopParts'
<1>1. /\ RunFunctor("sendInLoop", c, <<>>) /\ Runs(Send(c), <<>>) /\ UNCHANGED serves
      /\ UNCHANGED calls \/ calls' = <<Do("enableWriteing", c)>>
  BY DEF sendInLoop, RunFunctor, Send
<1>2. LoopFree /\ PollerStays /\ Dispatched' /\ ~crashed
  BY <1>1, FunctorRuns
<1>3. QueueInv
  BY <1>2 DEF LoopInv
<1>4. Queued(Send(c))
  BY <1>1, <1>3, RunsAlone DEF QueueInv
<1>5. serves[c] \in {"connected", "disconnected"}
  BY <1>3, <1>4 DEF QueueInv, Sending, Send
<1>6. OtherFunctors
  BY <1>1, ConnectionFunctors DEF OtherFunctors
<1>7. InHand'
  BY <1>1, <1>2, <1>5, IdleKeeps, WritesKeeps
<1> QED
  BY <1>1, <1>2, <1>6, <1>7, UseStays

LEMMA LateKeeps ==
  ASSUME LoopInv, NEW c \in Channel, lateCall(c), ~crashed' PROVE LoopParts'
<1>1. PICK f \in {"lateCall", "forceCloseInLoop"} : RunFunctor(f, c, <<>>)
  <2>1. ~crashed /\ UNCHANGED crashed
    BY DEF lateCall, LoopFree
  <2> QED
    BY <2>1 DEF lateCall, RunFunctor, vars
<1>2. UNCHANGED <<serves, calls>>
  BY DEF lateCall
<1>3. LoopFree /\ PollerStays /\ Dispatched' /\ ~crashed
  BY <1>1, FunctorRuns
<1>4. OtherFunctors
  <2>1. Functor(f, c).functor # "connectDestroyed"
    BY DEF Functor
  <2> QED
    BY <1>1, <2>1 DEF OtherFunctors, RunFunctor
<1>5. InHand'
  BY <1>2, <1>3, IdleKeeps
<1> QED
  BY <1>2, <1>3, <1>4, <1>5, UseStays

LEMMA PassesKeep ==
  ASSUME LoopInv, pollOnce \/ passOn PROVE LoopParts'
<1>1. LoopFree /\ PollerStays /\ UNCHANGED <<serves, calls>> /\ OtherFunctors /\ ~crashed
  BY DEF pollOnce, passOn, poll, PollerStays, OtherFunctors, vars, LoopFree, passVars
<1>2. Dispatched'
  <2>1. CASE pollOnce
    BY <1>1, <2>1, PollDispatches DEF pollOnce, passVars
  <2>2. CASE passOn
    <3>1. Dispatched
      BY <1>1, AtRest
    <3>2. activeChannels_ = <<>> /\ activeChannels_' = <<>>
      BY <2>2, <3>1 DEF passOn, functorsDone, Dispatched, vars
    <3> QED
      BY <3>1, <3>2, HasNone DEF Dispatched
  <2> QED
    BY <2>1, <2>2
<1>3. InHand'
  BY <1>1, <1>2, IdleKeeps
<1> QED
  BY <1>1, <1>3, UseStays

\* What a step of another thread leaves: a descriptor may go back to free.
LEMMA HandStays ==
  ASSUME InHand, UNCHANGED <<vars, calls, half>>,
         \A c \in Channel : \/ serves'[c] = serves[c]
                            \/ serves[c] = "removed" /\ serves'[c] = "free"
  PROVE  InHand'
<1>1. PICK S \in SUBSET Channel :
        Handling(S) /\ Dispatched /\ \A c \in Channel \ S : Settled(c)
  BY DEF InHand
<1>2. /\ UNCHANGED <<events_, index_, channels_, activeChannels_>>
      /\ \A c \in Channel : (Registered(c)' <=> Registered(c)) /\ EntryOf(c)' = EntryOf(c)
  BY DEF vars, Registered, EntryOf
<1>3. ASSUME NEW c \in Channel
      PROVE  /\ serves[c] \in Served => serves'[c] \in Served
             /\ serves[c] = "disconnected" => serves'[c] = "disconnected"
             /\ serves[c] \in {"free", "removed"} => serves'[c] \in {"free", "removed"}
             /\ serves[c] \in Served \cup {"disconnected"}
                  <=> serves'[c] \in Served \cup {"disconnected"}
             /\ serves[c] = "disconnected" <=> serves'[c] = "disconnected"
  BY DEF Served
<1>4. Handling(S)'
  <2>1. \A c \in Channel : \A q : Attaching(c, q) => Attaching(c, q)'
    BY <1>3 DEF Attaching
  <2>2. Starting(S) => Starting(S)'
    <3>1. ASSUME Starting(S)
          PROVE  \A c \in S : Registered(c)' <=> Registered(c)
      BY <1>2
    <3> QED
      BY <1>2, <3>1 DEF Starting, Has, AtMostOnce
  <2>3. ASSUME NEW c \in Channel, Opening(c) \/ Enabling(c) PROVE (Opening(c) \/ Enabling(c))'
    <3>1. CASE Opening(c)
      BY <1>2, <2>1, <3>1 DEF Opening
    <3>2. CASE Enabling(c)
      BY <1>2, <1>3, <3>2 DEF Enabling
    <3> QED
      BY <2>3, <3>1, <3>2
  <2>4. ASSUME NEW c \in Channel, NEW d \in Channel, NEW rest \in Seq(Call), Closing(c, d, rest)
        PROVE  Closing(c, d, rest)'
    BY <1>2, <1>3, <2>1, <2>4 DEF Closing
  <2>5. ASSUME NEW c \in Channel, NEW rest \in Seq(Call), Leaving(c, rest)
        PROVE  Leaving(c, rest)'
    BY <1>2, <1>3, <2>1, <2>5 DEF Leaving
  <2>6. ASSUME NEW c \in Channel, NEW rest \in Seq(Call),
               Detaching(c, rest) \/ Removing(c, rest)
        PROVE  (Detaching(c, rest) \/ Removing(c, rest))'
    BY <1>2, <2>5, <2>6 DEF Detaching, Removing
  <2> QED
    BY <1>1, <2>2, <2>3, <2>4, <2>6 DEF Handling
<1>5. Dispatched'
  BY <1>1, <1>2, <1>3 DEF Dispatched
<1>6. \A c \in Channel \ S : Settled(c)'
  BY <1>1, <1>2, <1>3 DEF Settled
<1> QED
  BY <1>1, <1>4, <1>5, <1>6 DEF InHand

LEMMA OthersKeep ==
  ASSUME LoopInv, ~crashed',
         stop \/ UNCHANGED allVars \/ \E c \in Channel : userCalls(c) \/ connectionFreed(c)
  PROVE  LoopParts'
<1>1. ~crashed /\ UNCHANGED <<vars, calls, half>>
  <2>1. ASSUME NEW c \in Channel, userCalls(c) PROVE UNCHANGED <<crashed, vars, calls, half>>
    BY <2>1 DEF userCalls, Queues, Appends, vars
  <2>2. ASSUME NEW c \in Channel, connectionFreed(c) PROVE UNCHANGED <<crashed, vars, calls, half>>
    BY <2>2 DEF connectionFreed, passVars, vars
  <2>3. ASSUME stop \/ UNCHANGED allVars PROVE UNCHANGED <<crashed, vars, calls, half>>
    BY <2>3 DEF stop, allVars, loopVars, passVars, Appends, vars
  <2> QED
    BY <2>1, <2>2, <2>3
<1>2. ASSUME UNCHANGED serves PROVE InHand'
  BY <1>1, <1>2, HandStays DEF LoopInv
<1>3. ASSUME UNCHANGED serves, OtherFunctors PROVE LoopParts'
  BY <1>1, <1>2, <1>3, UseStays
<1>5. CASE stop
  <2>1. /\ Functor("stopInLoop", NoFd) \in LoopFunctors
        /\ Functor("stopInLoop", NoFd).functor \notin {"connectDestroyed", "sendInLoop"}
    BY FunctorTypes DEF Functor
  <2> QED
    BY <1>3, <1>5, <2>1 DEF stop, OtherFunctors
<1>6. CASE UNCHANGED allVars
  BY <1>3, <1>6 DEF allVars, loopVars, OtherFunctors
<1>7. ASSUME NEW c \in Channel, userCalls(c) PROVE LoopParts'
  <2>1. UNCHANGED serves
    BY <1>7 DEF userCalls
  <2>2. CASE serves[c] = "connected" /\ Queues("sendInLoop", c)
    <3>1. Appends(<<Send(c)>>)
      BY <2>2 DEF Queues, Send
    <3>2. QueueInv'
      BY <1>1, <2>1, <2>2, <3>1, SendQueues DEF LoopInv
    <3> QED
      BY <1>1, <1>2, <2>1, <3>2 DEF LoopParts, LoopInv, ServesTyped
  <2>3. CASE Queues("forceCloseInLoop", c)
    BY <1>3, <2>1, <2>3, ForceCloseQueues
  <2>4. CASE Queues("lateCall", c)
    <3>1. /\ Functor("lateCall", c) \in LoopFunctors
          /\ Functor("lateCall", c).functor \notin {"connectDestroyed", "sendInLoop"}
      BY FunctorTypes DEF Functor
    <3> QED
      BY <1>3, <2>1, <2>4, <3>1 DEF Queues, OtherFunctors
  <2> QED
    BY <1>7, <2>2, <2>3, <2>4 DEF userCalls
<1>4. ASSUME NEW k \in Channel, connectionFreed(k) PROVE LoopParts'
  <2>1. k \notin Internal /\ ServesTyped
    BY <1>1, <1>4, IoLoopAssumption DEF connectionFreed, Internal, LoopInv
  <2>2. serves[k] = "removed" /\ Becomes(k, "free") /\ OtherFunctors
    BY <1>4 DEF connectionFreed, OtherFunctors
  <2>3. serves'[k] = "free" /\ \A d \in Channel \ {k} : serves'[d] = serves[d]
    BY <2>1, <2>2, Becoming
  <2>4. InHand'
    BY <1>1, <2>1, <2>2, <2>3, HandStays DEF LoopInv
  <2> QED
    BY <1>1, <2>1, <2>2, <2>4, UseChanges
<1> QED
  BY <1>4, <1>5, <1>6, <1>7

LEMMA NextCallStep ==
  ASSUME LoopInv, nextCall, ~crashed' PROVE LoopParts'
<1>1. ~crashed
  BY DEF nextCall, enable, disableAll, update, remove, removeChannel, Usable
<1>2. UNCHANGED serves /\ OtherFunctors
  BY DEF nextCall, loopVars, OtherFunctors
<1> QED
  BY <1>1, <1>2, NextCallKeeps, UseStays

LEMMA PartsKept ==
  ASSUME LoopInv, [LoopNext]_allVars, ~crashed' PROVE LoopParts'
<1>1. CASE nextCall
  BY <1>1, NextCallStep
<1>2. CASE pollOnce \/ passOn
  BY <1>2, PassesKeep
<1>3. CASE resetChannel \/ stopInLoop \/ \E c \in Channel : attemptEnds(c)
  BY <1>3, ConnectorKeeps
<1>4. ASSUME NEW c \in Channel, \/ internalEvent(c) \/ messageArrives(c) \/ peerCloses(c)
                                \/ forceCloseInLoop(c) \/ connectDestroyed(c)
                                \/ sendInLoop(c) \/ lateCall(c)
      PROVE  LoopParts'
  BY <1>4, InternalKeeps, MessageKeeps, CloseKeeps, ForcedCloseKeeps, DestroyKeeps, SendKeeps,
     LateKeeps
<1>5. CASE stop \/ UNCHANGED allVars \/ \E c \in Channel : userCalls(c) \/ connectionFreed(c)
  BY <1>5, OthersKeep
<1> QED
  BY <1>1, <1>2, <1>3, <1>4, <1>5 DEF LoopNext, LoopStep

\* The loop starts by adding its own channels, in some order.
LEMMA PartsStart == LoopInit => LoopParts
<1> SUFFICES ASSUME LoopInit PROVE LoopParts
  OBVIOUS
<1> DEFINE n == Cardinality(Internal)
           adds == {Do("enableReading", c) : c \in Internal}
<1>1. /\ serves = [c \in Channel |-> "free"] /\ Init /\ PassInit
      /\ Internal \subseteq Channel
  BY DEF LoopInit, Internal
<1>2. /\ n \in Nat /\ calls \in [1..n -> adds]
      /\ \A i, j \in 1..n : calls[i] = calls[j] => i = j
      /\ \A a \in adds : \E i \in 1..n : calls[i] = a
  <2>1. n \in Nat
    BY FS_CardinalityType, IoLoopAssumption
  <2>2. calls \in Bijection(1..n, adds)
    BY DEF LoopInit
  <2>3. calls \in Injection(1..n, adds) /\ calls \in Surjection(1..n, adds)
    BY <2>2 DEF Bijection
  <2>4. calls \in [1..n -> adds] /\ \A i, j \in 1..n : calls[i] = calls[j] => i = j
    BY <2>3 DEF Injection, IsInjective
  <2>5. \A a \in adds : \E i \in 1..n : calls[i] = a
    BY <2>3 DEF Surjection
  <2> QED
    BY <2>1, <2>4, <2>5
<1>3. Starting(Internal)
  <2>1. calls \in Seq(adds)
    BY <1>2, IsASeq
  <2>2. DOMAIN calls = 1..n
    BY <1>2
  <2>3. \A c \in Internal : /\ ~Registered(c) /\ index_[c] < 0
    BY <1>1 DEF Init, Registered
  <2> HIDE DEF adds, n
  <2>4. ASSUME NEW a \in adds PROVE Has(calls, a) /\ AtMostOnce(calls, a)
    BY <1>2, <2>2 DEF Has, AtMostOnce
  <2>5. \A c \in Internal : Do("enableReading", c) \in adds
    BY DEF adds
  <2> QED
    BY <2>1, <2>3, <2>4, <2>5 DEF Starting, adds
<1>4. activeChannels_ = <<>> /\ <<>> \in Seq(Channel)
  BY <1>1 DEF Init
<1>5. Dispatched
  BY <1>4, HasNone DEF Dispatched
<1>6. \A c \in Channel \ Internal : Settled(c)
  BY <1>1 DEF Settled, Registered, Init, Served
<1>7. InHand
  BY <1>1, <1>3, <1>5, <1>6 DEF InHand, Handling
<1>8. PassInv(LoopFunctors)
  BY <1>1 DEF PassInv, PassTypeOK, PassInit
<1>9. ServesTyped
  BY <1>1 DEF ServesTyped
<1>10. Queue = <<>>
  BY <1>1 DEF Queue, PassInit
<1>11. Destroying /\ Sending
  BY <1>1, <1>10 DEF Destroying, Sending, Queued, QueuedOnce, QueuedBefore, AtMostOnce, InOrder
<1> QED
  BY <1>7, <1>8, <1>9, <1>11 DEF LoopParts, QueueInv

LEMMA LoopInvariant == LoopSpec => []LoopInv
<1>1. LoopInit => LoopInv
  BY InitInv, CallsStart, PartsStart DEF LoopInit, LoopInv, LoopParts
<1>2. ASSUME LoopInv, [LoopNext]_allVars PROVE LoopInv'
  <2>1. PollerInv' /\ calls' \in Seq(Call)
    BY <1>2, AllAllowed, LoopKeeps, CallsKeep DEF LoopInv
  <2>2. ~crashed' => LoopParts'
    BY <1>2, PartsKept
  <2> QED
    BY <2>1, <2>2 DEF LoopInv, LoopParts
<1> QED
  BY <1>1, <1>2, PTL DEF LoopSpec

\* Every call finds the poller as the assertions of Poller want it: a descriptor that
\* is reused is no longer registered, and a registered channel is removed once, that
\* of an attempt after disableAll; that of a connection may have been enabled again.
\* A call of another thread that is queued behind connectDestroyed is not among them.
THEOREM CallsStayAllowed == LoopSpec => []CallsAreAllowed
BY LoopInvariant, AllAllowed, PTL

\* No handler leaves a raw pointer of a removed or disabled channel among those that
\* the pass still has to dispatch, whatever connections it opens, closes and forces to
\* close: a channel leaves the poller only in its own handler or in a functor.
THEOREM DispatchesTheLiving == LoopSpec => []DispatchedIsServed
<1>1. LoopInv => DispatchedIsServed
  <2> SUFFICES ASSUME LoopInv, LoopFree, NEW i \in DOMAIN activeChannels_
               PROVE  LET c == activeChannels_[i]
                      IN  /\ Registered(c) /\ events_[c] # {}
                          /\ c \notin Internal => serves[c] \in {"connecting", "connected"}
    BY DEF DispatchedIsServed, LoopFree
  <2> DEFINE c == activeChannels_[i]
  <2>1. Dispatched /\ \A d \in Channel : Settled(d)
    BY AtRest
  <2>2. c \in Channel
    BY <2>1, ElementOfSeq, LenProperties DEF Dispatched
  <2>3. c \in Internal \/ serves[c] \in Served
    BY <2>1, <2>2 DEF Dispatched, Has
  <2>4. c \in Internal => serves[c] = "free"
    BY DEF LoopInv, LoopFree, ServesTyped
  <2> QED
    BY <2>1, <2>2, <2>3, <2>4 DEF Settled, Served
<1> QED
  BY <1>1, LoopInvariant, PTL

\* However channels are added, disabled, removed and their descriptors reused, the
\* position that a registered channel records is that of its own entry, and each
\* position has its channel.
THEOREM PositionsStayTrue == LoopSpec => []PositionsAgree
<1>1. PollerInv => PositionsAgree
  <2> SUFFICES ASSUME ~crashed, Typed, OwnEntry, OneToOne
               PROVE  /\ \A c \in DOMAIN channels_ : /\ index_[c] + 1 \in DOMAIN pollfds_
                                                     /\ EntryOf(c).fd \in {c, NoFd}
                                                     /\ EntryOf(c).events = events_[c]
                      /\ \A i \in DOMAIN pollfds_ :
                           \E c \in DOMAIN channels_ : index_[c] = i - 1
                      /\ Cardinality(DOMAIN channels_) = Len(pollfds_)
    BY DEF PollerInv, PositionsAgree
  <2>1. DOMAIN pollfds_ = 1..Len(pollfds_)
    BY LenProperties DEF Typed
  <2> QED
    BY <2>1 DEF OwnEntry, OneToOne, Known
<1>2. LoopInv => PollerInv
  BY DEF LoopInv
<1> QED
  BY <1>1, <1>2, LoopInvariant, PTL

\* No call about one channel changes what ::poll watches for another, though
\* removeChannel moves another channel's entry.
THEOREM EntriesStay == LoopSpec => OthersKeepTheirEntry
<1>1. LoopInv /\ [LoopNext]_allVars =>
        [\A c \in Channel :
           Registered(c) /\ Registered(c)' /\ events_'[c] = events_[c] /\ ~crashed'
             => EntryOf(c)' = EntryOf(c)]_vars
  <2> SUFFICES ASSUME LoopInv, [LoopNext]_allVars, NEW c \in Known \cap Known',
                      events_'[c] = events_[c], ~crashed'
               PROVE  EntryOf(c)' = EntryOf(c)
    BY DEF Registered, Known
  <2> QED
    BY AllAllowed, LoopKeeps DEF LoopInv
<1> QED
  BY <1>1, LoopInvariant, PTL DEF LoopSpec, OthersKeepTheirEntry
=============================================================================
