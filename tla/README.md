# ThreadAndNet in TLA+

ThreadAndNet is a C++ network library in the manner of muduo: event loops, one
per thread, each around `poll`; channels, timers and queued functors that run in
them; TCP servers, clients and connections built on top; a thread pool and a
blocking queue beside them. This directory holds TLA+ models of the library,
configurations that check them with TLC, and proofs checked by TLAPS.

File names below without a directory are those of `src/ThreadAndNetWorkCoding`.
Names of actions and variables in the modules are those of the source wherever
TLA+ permits it.

Check a model with `tlc -config X.cfg M`; check a proof with `tlapm M_proofs.tla`.


## 1. The system

### Parts, state, operations

| Part | State | Operations |
|---|---|---|
| `EventLoop` | `quit_`, `looping_`, `callingPendingFunctors_`, `activeChannels_`, `appendFunctors_` under `mutex_`, the eventfd `wakeupFd_` | `loop`, `quit`, `runInLoop`, `appendFuncInLoop`, `doAppendFunctors`, the wakeup's `handleRead` |
| `TimeQueue`, `TimerInfo` | the ordered set `timers_` of (time, timer), a timerfd, and during `handleRead` the expired batch | `addTimer`, `addTimerInloop`, `handleRead`, `reset` |
| `Poller`, `Channel` | array `pollfds_`, map `channels_`, each channel's `index_` and `events_` | `poll`, `updateChannel`, `removeChannel`; enable, disable, remove |
| `MutexLock`, `Condition` | owner and waiters, the flag `is_lock_` | lock, unlock, `wait`, `notify`, `notifyAll` |
| `BlockingQueue` | an unbounded deque | `put`, `take` |
| `ThreadPool`, `Thread` | a bounded deque, `is_start_`, the threads | `start`, `stop`, `addTask`, `take`, `runInThread` |
| `EventLoopThread` | the pointer `loop_`, the thread | `startLoop`, `creadLoop`, destructor |
| `EventLoopThreadPool` | `loops_`, the index `next_` | `start`, `getNextLoop` |
| `Acceptor`, `TcpServer` | `listening_`, `conns_`, `nextConnTd_` | `start`, `newConnection`, `removeConnection` |
| `TcpConnection` | `state_`, its channel, two buffers, callbacks | `connectEstablished`, `send`, `shutdown`, `forceClose`, `handleRead`, `handleClose`, `connectDestroyed` |
| `Connector`, `TcpClient` | `connect_`, `state_`, retry delay, channel; `connected_`, `connection_` | `start`, `stop`, `restart`, the channel's handlers, `retry`; `connect`, `disconnect`, `stop`, destructor |
| `Buffer` | `v_buff_`, `readIndex_`, `writeIndex_` | `append`, `readFd`, `retrieve`, `retrieveAsString`, `movetohead` |

### How they interact

* **Threads to a loop.** Anything that concerns a loop is done in its thread.
  Another thread calls `runInLoop`/`appendFuncInLoop`, which push a functor under
  `mutex_`, and in a second step write to the eventfd that ends the loop's `poll`.
* **Kernel to a loop.** `poll` reports descriptors; `Channel::handleEvent` calls
  the callbacks of `TimeQueue`, `Acceptor`, `Connector` or `TcpConnection`, in the
  loop's thread, before the functors of the same pass.
* **Loop to loop.** `TcpServer` accepts in its own loop, hands a connection by a
  functor to a loop of the pool, and is told of its end by a functor that comes
  back, to which it answers with another (`connectDestroyed`).
* **Shared flags.** `quit_`, `is_start_`, `connect_`, `connected_`, and the
  `state_` of a connection are read and written by several threads without a lock.

### What is hard, and what would be correct

* *EventLoop*: a push and its wakeup are two steps, and so are a `quit` and its
  wakeup; neither may be slept through. Batches are swapped out while more is
  queued: nothing may be lost, repeated or overtaken.
* *TimeQueue*: the timerfd is set on some insertions only; every pending timer has
  to be covered by it at all times, although callbacks add timers while the batch
  they are in is run, re-inserted and freed. No timer early, twice or never.
* *Poller*: removal moves another channel's entry; indices, map and array must
  still agree. The loop goes through raw pointers of active channels while its handlers
  remove and destroy channels, and closed descriptors come back with new channels.
* *BlockingQueue, ThreadPool*: single notifications on shared condition variables,
  stolen items, spurious wakeups, a `stop` that races with a test made without the
  lock.
* *EventLoopThread*: a pointer to another thread's stack.
* *TcpServer*: even distribution; a connection is held while it is served and
  destroyed in its own loop.
* *TcpConnection*: a close may be caused by the peer, by `forceClose`, and by the
  loop; each call tests `state_` first and acts later. It must be closed once, and
  freed by nobody while its channel is polled or a functor has its raw pointer.
* *Connector, TcpClient*: timers, functors and flags of two threads decide on the
  next attempt: there must be one, not two, and no descriptor may leak.
* *Buffer*: index arithmetic at the ends of a vector that is moved, reused and
  spilled into.

`PROJECT.json` lists these hazards with their lines, and the properties that
watch over each.


## 2. The modules

```
FunctorQueue <-- EventLoop <-- EventLoopThread      TimerService <-- TimeQueue
                    |
                MCEventLoop

LoopPass <-- Connector <-- TcpClient        Condition <-- BlockingQueue
       |\<-- TcpConnection                           \<-- ThreadPool
       \
        IoLoop --> Poller           ByteQueue <-- Buffer         TcpServer
```

The theorems and their proofs are in modules of their own, which extend the modules they
are about:

| Proof module | about |
|---|---|
| `EventLoop_proofs` | `EventLoop`, `EventLoopThread` |
| `Queues_proofs` | `TimeQueue`, `BlockingQueue`, `Buffer` |
| `ThreadPool_proofs` | `ThreadPool` |
| `LoopPass_proofs` | `LoopPass`: lemmas for the next three |
| `IoLoop_proofs` | `Poller` and `IoLoop` |
| `TcpClient_proofs` | `Connector` and `TcpClient` |
| `TcpConnection_proofs` | `TcpConnection` |
| `TcpServer_proofs` | `TcpServer` |

`Queues_proofs` extends three modules at once; the specification of `BlockingQueue` is
therefore called `QueueSpec` and that of `Buffer` `BufferSpec`.

`FunctorQueue`, `TimerService` and `ByteQueue` are abstract specifications, which
`EventLoop`, `TimeQueue` and `Buffer` are shown to implement. `EventLoopThread`
contains the whole of `EventLoop`. `Connector`, `TcpConnection` and `IoLoop` share
`LoopPass`, the passes of a loop as one of its objects sees them: callbacks first,
then the batch of functors queued by then. That these passes keep coming is what
`EventLoop` shows. `TcpClient` contains the whole of `Connector`.

### EventLoop

`pc` is the loop thread's place in `loop()`: `test` (of `quit_`), `poll`, `handle`
(dispatch), `callback`, `run` (a batch), `functor`, and `idle` outside `loop()`.
A block under `mutex_` is one step; a push and its `weakFd` are two (`call[t]`).
Callbacks and functors are user code, during which the loop thread makes calls of
its own. The timer descriptor comes before the wakeup descriptor in the poll
array, other descriptors (`io`) after it, and they are dispatched in this order.
A functor records who queued it, and whether that was the loop thread before
`loop()` (`early`): such a functor is written no wakeup, and nothing promises it
one.

`FunctorQueue` is what users see: queued once, run once, in order; `pending` is
the rest of the batch followed by `appendFunctors_`.

### TimeQueue

A timer is an identity, an entry of `timers_` is its timer. `addTimer` inserts at
once in the loop thread, and goes through `handed` from elsewhere.
`handleRead` is in steps, as callbacks come between: taking the expired entries
out (`handleRead`), each callback (`run`), each pass of `reset`'s loop (`reset`).
Time advances, and the timerfd expires, between any two steps. A tick is longer
than the 100 microseconds by which `howMuchTimeFromNow` puts off an expiry that
has passed, so such an expiry is at `now`. The timerfd is *not* read by
`TimeQueue::handleRead`, so it stays readable until it is set again.

`TimerService` allows only: adding, running a timer that is due, and time. A
repeating timer is due again an interval after an instant between the time it was
due and the time it ran. The mapping (`dueAt`) regards a timer as rescheduled as
soon as its callback has begun.

### Poller and IoLoop

`Poller` has `updateChannel`, `removeChannel` and `poll` line by line, on sequences:
`std::swap` and `pop_back`, an entry whose descriptor is -1 after `disableAll`, and
`channels_[fd]`, which inserts a null pointer for a key it lacks. A dereference of
null is `crashed`, after which nothing happens.

`IoLoop` is one loop with its poller and everything that can be registered there: the
loop's own descriptors, a server's connections, and the attempts and connections of
a client. `poll` leaves pointers in `activeChannels_`, `HandleEvent` takes them one after
the other, and each handler says which members of `Channel` it calls (`calls`, one step
each) and which functors it queues. `serves` is what a descriptor is used for: a
connector's channel is removed before the connection's channel takes the same
descriptor, and a client's descriptor that is closed is free for its next attempt. The
descriptor of an accepted connection is never closed (section 5, the cycle), so it does
not come back, and those of the server and the client are kept apart.
The state machines of `TcpConnection` and `Connector` are reduced here to what they do
to the poller; their own modules have the rest.

Other threads call `send` and `forceClose` (`userCalls`), which queue functors, and so do
callbacks (`callback`). A queued send may run between `handleClose` and `connectDestroyed`
and enable the disabled channel (`sendInLoop`); `connectDestroyed` then removes it through
`loop_->removeChannel`, while `Channel::remove`, which asserts that the channel is disabled,
is called by the connector only. So there are two operations, `removeChannel` and `remove`.
A call that acts on a `state_` of before the close is a `lateCall`: after the removal it
may fail an assertion, and a `forceClose` may close a second time; the module stops there
(`crashed`), as section 5 says.

### Condition, BlockingQueue, ThreadPool

A critical section, up to the unlock or the `wait` that ends it, is one step.
`woken` threads contend for the mutex inside `pthread_cond_wait`. `is_lock_` is kept
as the code keeps it: set by `lock()` only, so a thread that returns from a wait
and waits again may find it false, and the `assert` of `Condition::wait` aborts
(`aborted`). A notify chooses its thread freely and wakeups may be spurious. Only the
number of items matters. In `ThreadPool` the accesses to `is_start_` and to
`b_queue_` that take no lock are steps of their own, and one owner starts and stops
the pool as often as it likes. `pthread_create` may fail for any worker, after which the
pool goes on without it and `stop` aborts in the assertion of `join`. The destructor of
`Thread` detaches a thread that has been joined.

### EventLoopThread

`thread` is the place in `creadLoop`, `owner` that of the owner in `startLoop`, its
use of the loop and the destructor. `loop_` is set under the mutex and cleared
without it; the destructor reads it without it, too.

### Connector and TcpClient

Each handler in the loop thread is one step. The outcome of `::connect` is a
choice: in progress, retried error, other error. `sockets` counts open sockets,
`timers` the retry timers pending, `channel_` is watched, removed from the poller,
or reset. A failed `assert` is `failed`, after which nothing happens. The user's calls
set a flag and queue a functor in two steps. The user is another thread, or the loop
thread (`inLoopThread`), in which `start` runs at once and no handler comes between the
steps of a call. The loop thread tests `connected_` and restarts in two steps. A retry
takes at least 500 ms, so `resetChannel`, queued before it, runs before it. The
destructor stops the connector, or replaces the close callback of its connection, and
releases both (`destroy`...); once the client is gone this module says no more, and
`TcpConnection` what becomes of the connection.

### TcpConnection

One connection, under each of its three owners (a client, a server in the same
loop, a server with a pool), from its creation to the release of the last shared
pointer. A call that has passed its test of `state_` is kept in `call[t]`. `shutdown` and
`forceClose` then set `state_` in one step (`setDisconnecting`) and queue their functor
in another; a `send` has only the latter. A close may come between any two of
them. `events` is what the channel waits for. A message is one unit,
and a write takes all of it, leaves a unit, or fails. `write` after `shutdownWrite`, or
to a peer that is gone, ends the program as `ERR_EXIT` does; so do `EAGAIN` on a client's
socket and a `shutdown` that finds the peer gone. `handleWrite` is no action, because no
callback leads to it (section 5). `stale` remembers that a call has acted on a state
that had changed since its test, or that a shutdown in the loop thread has overtaken a
queued send (section 5). A call that acted while the state still allowed it is not stale,
whatever its functor finds when it runs. `late` remembers that a functor with a raw pointer was
queued after the close.

`Shares` are the shared pointers of owner, functors and close callback, `holding` the
users that have one; a connection with none is freed, and a functor bound to its raw
pointer that runs then is `failed = "freed"`. `destroyClient` is the destructor of the
client: `unique()`, the replaced close callback, `forceClose`; `abandoned` remembers that
it was not unique, when nobody closes the connection any more.

### TcpServer

Server, acceptor and pool: each loop is a queue of functors, a connection has a
`stage`. What runs in the server's own loop runs at once. An `accept` that fails ends the
program, as the assertion after it does.

### Buffer

The vector byte by byte, with `defaultSize`, `move_line` and the size of `extrabuf`
as constants. `readFd` may receive any number of bytes up to what the two buffers
hold. `ByteQueue` is the promise: bytes come out in the order they went in.


## 3. The runs

| Run | Instance | What it shows |
|---|---|---|
| `event_loop` | loop and 2 other threads, 2 calls each, 3 in all | no wakeup or quit is slept through (`NoLostWakeup`, `NoSleepOnQuit`); the queue is a queue (`QueueImplemented`); functors run by the wakeup alone (`FunctorsRun`), those queued before `loop()` by the timeout of `poll` (`EarlyFunctorsRun`); `quit` ends `loop()` (`QuitStopsLoop`) |
| `time_queue` | 3 timers, intervals 1 and 2, clock to 2 | every pending timer is covered by the descriptor (`NoLostTimer`), has one owner (`TimerInOnePlace`), is not early or repeated (`TimersImplemented`), and runs (`TimersRun`) |
| `io_loop` | a wakeup descriptor, an accepted connection, 2 descriptors for a client; other threads call while at most 2 functors are pending (`MaxPending`), the loop's handlers queue beyond that | indices, map and array agree (`PositionsAgree`); no call disturbs another channel's entry (`OthersKeepTheirEntry`); every call meets the assertions of the poller, over reused descriptors and when a queued send has enabled a closed channel, late calls excepted (`CallsAreAllowed`); no event goes to a channel that has left (`DispatchedIsServed`); a closed connection leaves the poller (`ClosedLeavesPoller`) |
| `io_loop_null` | a wakeup descriptor, 2 accepted connections | `removeChannel` looks up descriptor -1: finding 1 |
| `blocking_queue` | 4 threads, 3 items | no taker sleeps beside an item (`ItemsHaveTakers`), takers return (`TakersServed`) |
| `thread_pool` | 3 workers, 2 producers, queue of 2 | no worker asleep on a task (`TasksHaveWorkers`) or through a stop (`NoWorkerSleepsThroughStop`), only `stop` and `start` leave a producer asleep beside room (`OnlyOwnerStrandsProducers`), tasks are taken (`TasksTaken`), `stop` returns (`StopReturns`) |
| `event_loop_thread` | thread and owner, 2 calls each | the pointer is valid while published (`PointerIsValid`), nothing runs after the destructor (`GoneMeansOver`), which returns if it finds the loop running (`DestructorReturnsOnceLooping`) |
| `tcp_client` | 2 connects, 2 stops or disconnects, retry on, user in the loop thread or another | one attempt at a time (`OneAttempt`), no leaked or doubly closed socket (`NoSocketLeak`), the next attempt is never forgotten (`NeverForgotten`), a stopped client is idle (`StoppedMeansIdle`), a lost connection comes back (`Reconnects`) |
| `tcp_connection` | 3 owners, loop and 1 user, 3 calls | closed and removed once (`ClosedOnce`), no fatal use of a closed connection (`StaysAlive`), both while no call acts on a stale state or overtakes a send; no connection is freed while it is polled, unless its client has abandoned it, and no functor finds it freed, unless abandoned or queued after the close (`NothingDangles`); the peer's close is seen through (`PeerCloseHandled`); `forceClose` closes (`ForcedCloseCloses`) |
| `tcp_connection_output` | 1 call | output kept in `outputBuf_` is never written: finding 2 |
| `buffer` | 2 byte values, sizes 2/1/1, 3 readable bytes | wasted space is bounded (`WasteBounded`), bytes are in order (`BytesImplemented`) |
| `tcp_server` | 0 to 3 loops, 5 connections | dealt out evenly (`DealtEvenly`), held while served (`HeldWhileServed`), destroyed in their loop (`ClosedIsDestroyed`) |

The type invariants are proved where there is a proof module (section 4); the runs
spend their properties on the rest.

**Why the bounds suffice.**
Two foreign threads and the loop thread give every overlap of a pushing, a waking
and a consuming thread; the third call lets a functor or callback queue while
others do. Three timers are a batch of two with one added from a callback, in front
or behind, and two intervals make repeating timers meet and separate; beyond two
ticks the situations recur with the clock shifted. Four channels are needed for a
removal in the middle that moves an entry which is later removed itself; with two
descriptors for the client a connection that closes can overlap with the next attempt,
and a third use of the loop takes over a descriptor just closed. Two pending functors
put the send or `forceClose` of another thread before or behind a `connectDestroyed`. Two accepted
connections, which both may be disabled and wait for their removal, are kept for
`io_loop_null`: there the poller crashes. Four threads give two sleepers, a thief and a
producer; the pool has more workers than its queue has places, and as many producers. Two connects and two stops give a stop
during an attempt, in a retry's delay and during a restart, and a second use of the
connector. Three calls on a connection are a shutdown, a send and a forceClose
overlapping with a close by the peer, or a call, a release and the destruction of the
client. A buffer whose sizes are 2, 1 and 1 passes
through full, moved, spilled and empty states in a few calls. Five connections on
three loops wrap `next_` around and two more.

`CHECK_DEADLOCK FALSE` is in the configurations where calls are bounded or
where the program really may end or wait: everybody in `take` of an empty queue, an
aborted program, a clock at its bound, a connection that is over.
`event_loop` and `buffer` check for deadlock.

**Fairness.** Threads are scheduled, and callbacks, functors and tasks return: weak
fairness of the steps of each thread. `poll` returns when the *wakeup* descriptor is
readable; it is not assumed that it ever times out, or that user descriptors become
ready, so that `FunctorsRun` rests on the wakeup alone. Only `EarlyFunctorsRun`, about
functors that are written no wakeup, assumes in its statement that `poll` times out,
which `kPollTimeMs` (ten seconds) justifies. `IoLoop` assumes that its thread goes on.
`addTimerInloop`, enabled only between callbacks, is strongly fair: `FunctorsRun` says that a queued functor runs.
In `LoopPass` the change of halves and the dispatch of a ready channel are strongly
fair for the same reason. In `TcpClient` it is assumed that attempts do not fail for
ever. The monitors assume that a woken thread gets the mutex in the end. Nobody is
assumed to call, to connect, to close, or to put.


## 4. The proofs

Every invariant, action property and refinement that a passing run checks is also a
theorem, for every value of the constants: none of the proofs depends on the bounds of
the runs, and bounds that are constants are arbitrary there. The constants are assumed to be
what the `ASSUME` of their module says: numbers are numbers, kinds of threads are disjoint,
sets that the code counts are finite. Each inductive invariant below was checked by TLC
on the instance of its run before it was proved, that of `IoLoop` in the states between
two handlers.

**EventLoop** (`EventLoop_proofs.tla`; assuming only that the loop thread is none of
the callers, and that the bound on calls is a number).
* `TypeCorrect`.
* `NeverSleepsOnFunctor`: `[]NoLostWakeup`. The property speaks of the states in
  which the loop is about to poll and is not inductive: that nobody owes a wakeup
  there depends on the states before. `WakeupInv` adds that
  `callingPendingFunctors_` is true exactly while a batch is run, and extends the
  claim to all places except dispatch. A functor queued during dispatch needs no
  wakeup, as the swap that follows takes it; one queued while a batch runs is written
  one, because `callingPendingFunctors_` is set; and only `handleRead`, which
  precedes the swap, consumes wakeups.
* `NeverSleepsOnQuit`: `[]NoSleepOnQuit`, by the same argument for the flag.
* `ImplementsFunctorQueue`: `Spec => QueueImplemented`. `QueueInv` says that every
  functor in the two queues and in `executed` has a number that its thread has used, so
  that a new one is fresh, and that the local batch is empty outside a run, so that
  the swap leaves `functors \o appendFunctors_` as it is. Then a push is `Submit`, a
  direct run `RunNow`, `beginFunctor` is `RunOldest`, and all else stutters.

**EventLoopThread** (`EventLoop_proofs.tla`; over every state of the event loop).
* `PointerStaysValid`, `DestructorOutlivesLoop`: the invariant says that the pointer is set
  exactly between `publish` and `clear`, and how far the thread must be for each place
  of the owner.
* `ImplementsEventLoop`: `EltSpec => Spec`. What thread and owner do to the loop is
  what `EventLoop` lets a loop thread and other threads do, the destructor's quit
  of a loop that is not yet entered, or has returned, included. So the theorems about
  `EventLoop` hold inside an `EventLoopThread`; `ThreadNeverSleepsOnWork` is the
  one that its destructor needs.

**TimeQueue** (`Queues_proofs.tla`; assuming that intervals are positive numbers).
* `TypeCorrect`.
* `OnePlacePerTimer`: `[]TimerInOnePlace`, with `PlaceInv`: a timer not yet created has
  no expiration, the batch is empty outside `handleRead` and has run before it is
  reset, and what is in the batch was due at `nowRead`, which is not after `now`.
* `TimersCovered`: `[]NoLostTimer`. An insertion either finds an earlier entry,
  which was covered and whose cover serves the new one, or sets the descriptor to the
  new earliest time; the expiry makes it readable; and nothing but setting makes it
  unreadable, in particular not `handleRead`.
* `ImplementsTimerService`: `Spec => TimersImplemented`. `addTimer` maps to `Add`, `run`
  to `Run` (due, because it was expired at `nowRead`), `Tick` to `Tick`; moving the
  batch and resetting it stutter under `dueAt`.

**BlockingQueue** (`Queues_proofs.tla`; for any set of threads).
* `QueueTypeCorrect`, and `NoTakerSleepsOnItem`: `[]ItemsHaveTakers`. It counts woken threads,
  so the invariant adds that these are finitely many and that no woken thread still
  sleeps: a notification then adds one to those under way, and a taker that steals an
  item takes as much from one side of the inequality as it may cost on the other.

**Buffer** (`Queues_proofs.tla`; for any kind of byte and any sizes).
* `WasteStaysBounded`: `[]WasteBounded`. The vector grows only as far as `writeIndex_`
  plus what is appended, and `readIndex_` is within `move_line` after each call.
* `ImplementsByteQueue`: `BufferSpec => BytesImplemented`. `append` and `readFd`, spill or
  not, are `Put`, because overwriting from `writeIndex_` on leaves what is before it
  (`OverwrittenAt`); the retrievals are `Drop` and `Take`, the move to the head
  included, as `Readable` is compared byte by byte (`RestOf`, `AdvanceImplements`).

**ThreadPool** (`ThreadPool_proofs.tla`; for finitely many workers and producers and any
capacity).
* `TypeCorrect`: with the bound on the queue, the assertion of `addTask` at all times.
* `NoWorkerSleepsOnTask`: `[]TasksHaveWorkers`, as for `BlockingQueue`; here two condition
  variables share the mutex, and `Separated` says that workers sleep on one and
  producers on the other.
* `NoWorkerSleepsThroughStops`: `[]NoWorkerSleepsThroughStop`. The test of `is_start_`
  before `take` is without the mutex and proves nothing; what carries the argument is
  that `take` tests it again under the mutex that `stop` holds when it clears it and
  notifies.
* `ProducersAreWoken`: `OnlyOwnerStrandsProducers`. `RoomHasProducers` compares the free
  places with the woken producers. A worker that takes makes a place and wakes a
  producer; a woken producer that fills its place leaves both sides one less; one that
  finds the queue full sleeps again, but then there is no place. No invariant can say
  it, because `stop` and `start` break it; the action property says that they alone do.

**LoopPass** (`LoopPass_proofs.tla`; for any set of functors). The lemmas say what a
callback, a functor, the swap and the end of a batch do to the queue as a whole (the rest
of the batch followed by what has been queued since): which functors it holds, which it
holds once, and which never come behind which. The three proofs that follow see the
queue only through them.

**Poller and IoLoop** (`IoLoop_proofs.tla`; for any set of channels, divided in any way into
the loop's own, finitely many of them, accepted and outgoing ones).
* `PositionsStayTrue`: `LoopSpec => []PositionsAgree`, and `EntriesStay`:
  `LoopSpec => OthersKeepTheirEntry`. `PollerInv` says that registered channels and
  positions correspond one to one, that an entry's descriptor is its channel's or -1,
  and that it is -1 when nothing is asked for. It is kept by every call that meets the
  assertions of the poller, until the program crashes: a removal that moves a disabled
  entry is the crash of finding 1, and the proof shows that no other removal crashes
  (`Removes`).
* `CallsStayAllowed`: `[]CallsAreAllowed`, so that the two theorems above need no
  hypothesis about the callers. The calls of a handler are a list (`calls`) that
  the poller works off, while the state of the other channels stays as it is. `InHand`
  therefore splits the channels: the one or two that the handler is about are at a
  definite point of a definite list (`Starting`, `Opening`, `Enabling`, `Closing`,
  `Detaching`, `Removing`); all others are `Settled`, that is, registered exactly if `serves`
  says that something uses them, with an entry that asks for something or, if their
  connection is closed, has descriptor -1. (The channel itself may ask for something even
  then, after a queued send.) A descriptor is given out only if it is settled and unused,
  hence unregistered: this is the argument that reusing descriptors is safe. `Destroying`
  says that a closed connection has exactly one functor that will remove it, hence no
  channel is removed twice, and `Sending` that a queued send is never behind it, hence no
  removed channel is enabled. `lateCall` is the exception to both, as the property says.
* `DispatchesTheLiving`: `[]DispatchedIsServed`. `Dispatched` says that what is left in
  `activeChannels_` is listed once, is registered, and is none of those that the present
  handler is about: a handler closes its own channel only, and what concerns another
  channel is left to a functor, which runs after the dispatch.

**Connector and TcpClient** (`TcpClient_proofs.tla`; for any number of calls; only
`OneAttempt` itself is limited to one `connect`).
* `TypeCorrect`.
* `OneAttemptAtATime`: `[]OneAttempt`. It counts functors and timers, which is not
  inductive: `FirstConnect` says where the one next attempt can be (the user's call, the
  queue, a timer, or `state_`) and that it is nowhere else meanwhile; `ChannelFollows`
  that the channel lives as long as the attempt and then until the one
  `resetChannel` that is queued; `ConnectedWhileHeld` that a held or a lost connection
  is one the connector has made, so that a restart finds no attempt.
* `SocketsAccounted`: `[]NoSocketLeak`, for any number of connects: `state_` decides which
  socket is closed, also in the attempts that abort.
* `WantedIsAttempted`: `[]NeverForgotten`, and `StopEndsAttempt`: `[]StoppedMeansIdle`.
  `connect_` and the functor that acts on it are two steps of the user. `StartIsWanted`
  says that between those of `start` nobody clears the flag. The first attempt of this
  proof failed on a guard of the model: a conjunct of `Steps` was read as part of the
  implication beside it, so that the user's calls went on after a failed assertion, which
  ends the program.

**TcpConnection** (`TcpConnection_proofs.tla`; for each owner, any users and any number of
calls; assuming that the loop thread is none of the users).
* `ClosesOnce`: `[]ClosedOnce`. `OneRemoval` says that from the one close to the one removal
  exactly one functor is under way, in the server's loop or in the connection's
  (`removing + removes` is 1, or `connectDestroyed` is queued), and none before the
  close.
* `NothingAborts`: `[]StaysAlive`. `ShutdownOnce`: there is no shutdown before
  `kDisconnecting`. `SendsFirst`: a queued send is never behind a shutdown, nor left over
  when it is done, so that nothing is written after `shutdownWrite`. The
  argument is the order of the queue, which a call that acts on a stale state, or overtakes
  a send, would upset (`stale`).
* `NeverFreedInUse`: `[]NothingDangles`, of calls on any state, stale or not. `CloseSeen`: the
  removal is under way only after the close, and in the owner's loop from the close on.
  `KeptByOwner`: until the channel is removed, the owner, `connectDestroyed` or a queued
  `forceCloseInLoop` shares the connection, unless it is abandoned. `RawFirst`: a functor
  with a raw pointer is never behind `connectDestroyed` if it was queued before the close
  (and so not `late`), so that the connection is still there when it runs; and a send that
  acted on a state that was right is not behind it either, so that no channel is updated after
  its removal (for `StaysAlive`). `Fresh` says that before `connectEstablished` there is
  nothing but it.

**TcpServer** (`TcpServer_proofs.tla`; for any number of loops and connections).
* `ServedIsHeld`: `[]HeldWhileServed`. It has to be excluded that a functor left over in
  some queue removes or re-establishes a connection: `Fit` says what each queued functor
  implies for the stage of its connection and for the loop it is queued in, `Once` that
  a connection is established by one functor only, `Numbered` that a new connection's
  number is in no queue.
* `PoolDealsEvenly`: `[]DealtEvenly`, by `Dealt`: the loops before `next_` have been given
  exactly one connection more than the others.

**Only model-checked** are the liveness properties, which rest on fairness and are outside
TLAPS as it is used here: `FunctorsRun`, `EarlyFunctorsRun`, `QuitStopsLoop`, `TimersRun`,
`ClosedLeavesPoller`, `TakersServed`, `TasksTaken`, `StopReturns`,
`DestructorReturnsOnceLooping`, `Reconnects`, `PeerCloseHandled`, `ForcedCloseCloses` and
`ClosedIsDestroyed`; and the two violations of section 5, which are counterexamples.

Two definitions are written so that they can be reasoned about: `poll` chooses the
reported positions as an increasing sequence, and `IoLoop` starts with the loop's own
channels in any order, as a bijection.


## 5. What the code does that it should not

Two disagreements have a run of their own.

1. `io_loop_null`: `Poller::removeChannel` (`zdq_poller.cpp:89`) sets the index of
   the entry it moved through `channels_[pollfds_[idx].fd]`. If that entry has been
   disabled its descriptor is -1 (line 76), the map gets the pair (-1, NULL), against
   "(pollfd->fd,channel *)" in `zdq_poller.h:36`, and NULL is dereferenced. Two
   connections that close in the same pass are enough.
2. `tcp_connection_output`: the constructor of `TcpConnection`
   (`zdq_tcp_connection.cpp:19`) sets the channel's read callback only. What `sendInLoop`
   keeps "for the moment" (line 151) when the kernel takes a part is never written, and
   the loop spins, as POLLOUT stays enabled.

Others were met while modelling. The models contain the behaviour, and the
properties are worded so as not to promise what the code does not keep. In particular,
where an assertion or `ERR_EXIT` ends the program (`aborted`, `failed`, `crashed`), the
liveness properties say nothing of what comes after, and only `OneAttempt`, `StaysAlive`,
`NothingDangles` and `CallsAreAllowed` exclude some of these ends. The other ends are hazards that no
property covers, and are listed so in `PROJECT.json`:

* `zdq_time_queue.cpp:39`: the timerfd is not read; once its last timer is done the loop
  spins. `NoLostTimer` depends on it: if the descriptor were read, one-shot timers
  behind a one-shot batch would be forgotten, since `reset` arms for repeating timers
  only.
* `zdq_poller.cpp:72-77`: a channel whose events were all disabled keeps descriptor -1
  when one is enabled again, and stays deaf.
* `zdq_condition.h:37`: `assert(mutex_.isLocked())` can fail for a thread that waits
  again after a wakeup, because `pthread_cond_wait` locks the mutex without setting
  `is_lock_`.
* `zdq_thread_pool.cpp:42`: `stop` wakes workers, not producers that wait for room, and
  `start`, which may raise the bound (line 19), wakes nobody; line 47 empties the queue
  without the lock.
* `zdq_event_loop.cpp:67`: `loop()` clears `quit_`. A destructor of `EventLoopThread`
  that comes between `startLoop`'s return and `loop()` waits for ever.
* `zdq_event_loop.cpp:117`: a functor that the loop's own thread queues before `loop()`
  waits for the first descriptor or the ten seconds of `poll`.
* `zdq_connector.cpp:33` and `:132`: `state_` stays `kConnected`, so that a second
  `start` aborts although `zdq_connector.h:6` says that a connector can be used again;
  and a retry timer left from before a `stop` makes a second attempt. `OneAttempt` is
  therefore about the first call of `connect`.
* `zdq_connector.cpp:21`: destroying a client that is connecting aborts; `stopInLoop`,
  queued with the connector's raw pointer, would otherwise run on a freed connector.
* `zdq_connector.cpp:107`: a `connect` made in the loop thread in the pass of a `stop` finds
  the old channel, and aborts.
* `zdq_tcp_client.cpp:34`: the destructor closes the connection only if nobody else shares
  it at that instant. A connection that a callback, a functor or the user shares is
  freed later with its channel in the poller. Called from another thread, it replaces
  the close callback by a functor (line 41), and a close before it calls the freed client.
  `NothingDangles` excepts `abandoned` connections, and the callback for other threads.
* `zdq_tcp_connection.cpp:118` and `:136`: `shutdown` and `send` queue functors with the raw
  pointer of the connection. If the close and `connectDestroyed` come between the test of
  `state_`, or `setState`, and the queueing, and the caller then lets go, the functor runs
  on a freed connection (`runFreed`). `NothingDangles` excepts these functors (`late`), and
  nothing else: the connection is not freed while it is polled.
* `zdq_tcp_connection.cpp:155`: a send that another thread queued before the close runs after
  `handleClose`, writes a part, and enables the disabled channel. Its entry keeps descriptor
  -1, and `connectDestroyed` removes it by `loop_->removeChannel` (line 109), past the
  assertion of `Channel::remove`. This is in `IoLoop` and harmless there:
  `CallsAreAllowed` requires a disabled channel of the connector's removals only.
* `zdq_tcp_connection.cpp:147` and `zdq_socket.h:73`: a full kernel buffer (`EAGAIN`) and a
  `shutdown` after a reset end the program.
* `zdq_socket.h:65`: accepted sockets are blocking, so a peer that does not read stalls
  the loop.
* `zdq_acceptor.cpp:24`: an `accept` that fails ends the program.
* `zdq_thread.cpp:39`: a `pthread_create` that fails is reported and ignored; `stop` then
  aborts in `join`.
* `zdq_tcp_connection.cpp:131`, `:140`, `:165`: `send`, `shutdown` and `forceClose` test `state_`
  and act later; a close in between is undone by `setState(kDisconnecting)`, closed a
  second time, or followed by the use of a removed channel. After a second close a client's
  assertion fails, and a server queues `connectDestroyed` again, which takes another
  channel's entry out of the poller. A shutdown that is made in the loop thread is done
  at once and so overtakes the sends that other threads have queued, which then write to
  a socket that is shut down and end the program. `ClosedOnce` and `StaysAlive` exclude
  these (`stale`), and the properties of `IoLoop` what follows them (`lateCall`).
* `zdq_tcp_connection.cpp:103`: `connectDestroyed` tells the user only of a connection that is
  still `kConnected`, which it never is after a close, so "is down" is never printed by
  `test_TcpServerAndTcpConnection_server.cpp:19`.
* `zdq_tcp_server.cpp:43`: the close callback holds the connection that holds it; a
  server's connections are never freed. `PeerCloseHandled` allows this holder and no
  other.


## 6. What is not modelled

* `Timer`: stand-alone, with a poll loop of its own, used by one test.
* `InetAddress` and `Socket`: wrappers of system calls without state. What their callers
  tell apart (the outcomes of `accept`, `connect`, `write`, `shutdown`) are choices in
  `TcpServer`, `Connector` and `TcpConnection`; addresses and socket options are left out.
* `AtomicIntegerT` and `NonCopyable`: single atomic instructions, a deleted copy.
* `Timestamp`: the clock is a counter of ticks in `TimeQueue`; formatting is left out.
* The demos and tests, which use the library. The HTTP server's parser has no code.

In the modelled parts, left out: names, messages' contents except in `Buffer`, logging,
and what a data race does to memory (`zdq_thread_pool.cpp:47`). A functor or callback
that reaches a freed object ends a behaviour (`failed`); what the freed memory would do
is not followed. `IoLoop` has one server and one client on one loop; the composition of
several loops is `TcpServer`, where a loop is a queue of functors.

Every safety property of a passing run is now a theorem. Worth doing next: abstract
specifications of `TcpConnection` (connecting, up, closing, down, in this order and once)
and of `ThreadPool` (a bounded bag of tasks), with their refinements proved, and the
refinement of `LoopPass` by the queue of `EventLoop`, which would join the two halves of
the development.
