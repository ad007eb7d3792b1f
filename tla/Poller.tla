------------------------------- MODULE Poller -------------------------------
(***************************************************************************)
(* Poller (zdq_poller.cpp) and the registration side of Channel            *)
(* (zdq_channel.h, zdq_channel.cpp).  A channel serves one descriptor for  *)
(* life, so the channel stands for its descriptor too.  All calls are made *)
(* in the loop thread: one call is one step.                               *)
(*                                                                         *)
(* Positions are those of the code, from 0; pollfds_[i + 1] is the entry   *)
(* at position i.  crashed is the process after a null dereference, or     *)
(* after what a module that uses this one does not follow: it takes no     *)
(* further step.                                                           *)
(***************************************************************************)
EXTENDS Integers, Sequences, FiniteSets, Functions

CONSTANT Channel

NoFd == -1              \* the descriptor that ::poll ignores
Null == "NULL"

ASSUME ChannelAssumption == NoFd \notin Channel /\ Null \notin Channel

VARIABLES
  events_,          \* per channel, what its user asked for
  index_,           \* per channel, its position in pollfds_; -1 if never added
  pollfds_,         \* the array given to ::poll
  channels_,        \* map from descriptors to channels
  activeChannels_,  \* what the last poll reported, in order
  crashed

vars == <<events_, index_, pollfds_, channels_, activeChannels_, crashed>>

Events == {"read", "write"}
Entry == [fd : Channel \cup {NoFd}, events : SUBSET Events]

\* Known to the poller.
Registered(c) == c \in DOMAIN channels_

\* Its owner still has it: a channel is not used again once it is removed.
Usable(c) == ~crashed /\ (index_[c] < 0 \/ Registered(c))

EntryOf(c) == pollfds_[index_[c] + 1]

-----------------------------------------------------------------------------
(* Poller::updateChannel, called by each of Channel's enable and disable *)

AddEntry(c, e) ==
  /\ pollfds_' = Append(pollfds_, [fd |-> c, events |-> e])
  /\ index_' = [index_ EXCEPT ![c] = Len(pollfds_)]
  /\ channels_' = [d \in DOMAIN channels_ \cup {c} |-> IF d = c THEN c ELSE channels_[d]]

\* An entry without events gets the descriptor -1; nothing gives it its
\* descriptor back.
SetEntry(c, e) ==
  /\ pollfds_' = [pollfds_ EXCEPT ![index_[c] + 1] =
                    [fd |-> IF e = {} THEN NoFd ELSE @.fd, events |-> e]]
  /\ UNCHANGED <<index_, channels_>>

update(c, e) ==
  /\ Usable(c)
  /\ events_' = [events_ EXCEPT ![c] = e]
  /\ IF index_[c] < 0 THEN AddEntry(c, e) ELSE SetEntry(c, e)
  /\ UNCHANGED <<activeChannels_, crashed>>

enable(c, e) == update(c, events_[c] \cup {e})
disable(c, e) == Registered(c) /\ update(c, events_[c] \ {e})
disableAll(c) == Registered(c) /\ update(c, {})

-----------------------------------------------------------------------------
(* Poller::removeChannel and Channel::remove *)

Size == Len(pollfds_)

\* std::swap with the last entry, then pop_back.
RemovePop(i) == SubSeq(pollfds_, 1, Size - 1)
RemoveShift(i) == SubSeq(pollfds_, 1, i - 1) \o SubSeq(pollfds_, i + 1, Size)
RemoveSwap(i) == SubSeq([pollfds_ EXCEPT ![i] = pollfds_[Size]], 1, Size - 1)

\* channels_[fd] creates the entry it does not find, with a null pointer.
Subscript(map, fd) ==
  [d \in DOMAIN map \cup {fd} |-> IF d \in DOMAIN map THEN map[d] ELSE Null]

\* channels_[pollfds_[idx].fd]->setIndex(idx), for the entry swapped into place.
MovedTold(moved, i) ==
  IF moved \in Channel
  THEN index_' = [index_ EXCEPT ![moved] = i] /\ UNCHANGED crashed
  ELSE crashed' = TRUE /\ UNCHANGED index_

removeChannel(c) ==
  /\ Usable(c) /\ Registered(c)
  /\ LET i    == index_[c]
         rest == Restrict(channels_, DOMAIN channels_ \ {c})
         fd   == pollfds_[Size].fd
     IN  IF i = Size - 1
         THEN /\ pollfds_' = SubSeq(pollfds_, 1, Size - 1)
              /\ channels_' = rest
              /\ UNCHANGED <<index_, crashed>>
         ELSE /\ pollfds_' = RemoveSwap(i + 1)
              /\ channels_' = Subscript(rest, fd)
              /\ MovedTold(channels_'[fd], i)
  /\ UNCHANGED <<events_, activeChannels_>>

\* Channel::remove asserts that the channel is disabled; removeChannel, which the
\* loop offers as well, does not.
remove(c) == events_[c] = {} /\ removeChannel(c)

-----------------------------------------------------------------------------
(* Poller::poll and fillActiveChannels *)

\* ::poll reports some entries whose descriptor is not -1, in their order; an entry
\* can be reported although it asks for nothing (POLLHUP, POLLERR).
poll ==
  /\ ~crashed
  /\ \E n \in 0..Len(pollfds_) : \E reported \in [1..n -> DOMAIN pollfds_] :
       /\ \A j, k \in 1..n : j < k => reported[j] < reported[k]
       /\ \A k \in 1..n : pollfds_[reported[k]].fd # NoFd
       /\ activeChannels_' = [k \in 1..n |-> channels_[pollfds_[reported[k]].fd]]
  /\ UNCHANGED <<events_, index_, pollfds_, channels_, crashed>>

-----------------------------------------------------------------------------
Init ==
  /\ events_ = [c \in Channel |-> {}]
  /\ index_ = [c \in Channel |-> -1]
  /\ pollfds_ = <<>>
  /\ channels_ = <<>>
  /\ activeChannels_ = <<>>
  /\ crashed = FALSE

Next ==
  \/ \E c \in Channel : \/ \E e \in Events : enable(c, e) \/ disable(c, e)
                        \/ disableAll(c) \/ removeChannel(c) \/ remove(c)
  \/ poll

Spec == Init /\ [][Next]_vars

-----------------------------------------------------------------------------
TypeOK ==
  /\ events_ \in [Channel -> SUBSET Events]
  /\ index_ \in [Channel -> Int]
  /\ pollfds_ \in Seq(Entry)
  /\ DOMAIN channels_ \subseteq Channel \cup {NoFd}
  /\ \A fd \in DOMAIN channels_ : channels_[fd] \in Channel \cup {Null}
  /\ activeChannels_ \in Seq(Channel)
  /\ crashed \in BOOLEAN

\* index_ is the position of its channel (updateChannel: "the channel's index
\* records its own position in the pollfds_ array"), through every sequence of
\* swaps and pops: registered channels and positions correspond one to one,
\* and the entry at a channel's position is its own or has been disabled.
PositionsAgree ==
  ~crashed =>
    /\ \A c \in DOMAIN channels_ : index_[c] + 1 \in DOMAIN pollfds_
                                   /\ EntryOf(c).fd \in {c, NoFd}
                                   /\ EntryOf(c).events = events_[c]
    /\ \A i \in DOMAIN pollfds_ : \E c \in DOMAIN channels_ : index_[c] = i - 1
    /\ Cardinality(DOMAIN channels_) = Len(pollfds_)

\* A call about one channel never changes what the kernel watches for another,
\* although removeChannel moves another channel's entry.
OthersKeepTheirEntry ==
  [][\A c \in Channel :
       Registered(c) /\ Registered(c)' /\ events_'[c] = events_[c] /\ ~crashed'
         => EntryOf(c)' = EntryOf(c)]_vars

\* "(pollfd->fd, channel *)": every pair in channels_ is a descriptor with its
\* channel.
ChannelsMapIsPairs ==
  \A fd \in DOMAIN channels_ : fd \in Channel /\ channels_[fd] = fd
=============================================================================
