# Models of the STTP C++ API

TLA+ models of the C++ implementation of the Streaming Telemetry Transport
Protocol (IEEE 2664) in `src/`: what is modelled, what TLC checks, what TLAPS
proves. Paths below are relative to `src/src/lib/` unless they start with
`src/`; `SC` is `transport/SubscriberConnection.cpp`, `DS` is
`transport/DataSubscriber.cpp`, `DP` is `transport/DataPublisher.cpp`, `CO` is
`transport/SubscriberConnector.cpp`.

## The system

A **DataPublisher** accepts TCP connections (or makes one, a *reverse*
connection) and gives each a **SubscriberConnection**. A **DataSubscriber**
connects, agrees on operational modes and subscribes to signals. The publisher
answers with a **signal index cache** that maps short indexes to signal IDs, and
from then on encodes measurements with it, as compact measurements or compressed
by **TSSC**, and sends them over the command channel or a UDP data channel.

| Component | Source | State | Operations |
|---|---|---|---|
| Subscription and cache exchange | SC, DS | three caches and two cache indexes on the publisher, two slots on the subscriber, TSSC sequence and decoders | Subscribe, Unsubscribe, DefineOperationalModes, UpdateSignalIndexCache, ConfirmUpdateSignalIndexCache, data packets |
| Command channel, publisher | SC 1920-1964, 2023-2102 | a strand, a queue of buffers | SendResponse, write handler, stop, reconnect |
| Command channel, subscriber | DS 1540-1577 | one write buffer, `m_connected`, `m_validated` | SendServerCommand, Connect, Disconnect |
| Routing tables | `transport/RoutingTables.cpp` | the table of destinations, a queue of operations | UpdateRoutes, RemoveRoutes, PublishMeasurements, Clear |
| Thread pool | `ThreadPool.cpp` | reference set of timers, queue of completed ones | Queue, removal, ShutDown |
| Timer | `Timer.cpp` | thread, `m_running`, interval | Start, Stop, SetInterval |
| Thread-safe queue | `ThreadSafeQueue.h` | a queue, a release flag | Enqueue, Dequeue, WaitForData, Clear, Release |
| Subscriber lifecycle | DS | flags, threads, callback queue | Connect, Disconnect, dispatch |
| Connector | `transport/SubscriberConnector.cpp` | attempt count, cancel flag, wait handle | Connect, AutoReconnect, Cancel |
| Publisher lifecycle | DP | set of connections, dispatch references, callback queue | accept, remove, terminate, ShutDown |
| Publication | SC 647-1010 | latest measurements, base time offsets, timers | PublishMeasurements, throttling, rotation |
| UDP data channel | SC, DS | a strand and queue of its own | send, receive |
| Encodings | `transport/tssc/`, `CompactMeasurement.cpp`, `SignalIndexCache.cpp` | pure, TSSC keeps per-point history | encode, decode |
| Instances | `SubscriberInstance.cpp`, `PublisherInstance.cpp` | configuration, metadata maps | wrappers |
| Data sets, schemas | `data/`, `MetadataSchema.cpp` | tables of values | XML in and out |
| Filter expressions | `filterexpressions/` | expression trees | parse (generated), evaluate |
| Common | `CommonTypes.cpp`, `Convert.cpp`, `Constants.cpp`, ... | none | conversions |

How they interact: the publisher's threads are the one that runs the command
channel service (accepts, reads commands, runs write handlers), one callback
thread, the thread pool, the routing thread, timers, and the user's threads. They
meet in the SubscriberConnection (under several small locks, often a different
one for each field), in the routing tables and in the queues. A handler of a
command calls `UpdateRoutes`, which only queues an operation; a confirmation
queues a task on the thread pool. The subscriber has a thread that reads the
command channel, one for UDP, a callback thread and threads that disconnect and
reconnect; they share flags and one write buffer.

What is hard: state read under one lock and used under another (waiting caches),
asynchronous writes of shared buffers, queues that are cleared while somebody is
between waiting and taking, threads joined under locks, a connection object that
outlives its connection, and sequence numbers that both sides advance on their
own. `PROJECT.json` lists each such place (`hazards`) with the properties that
watch over it.

What makes each component correct:

- *Cache exchange*: a packet is decoded with the cache it was encoded with; no
  subscription is forgotten; the TSSC decoder follows the encoder or refuses.
- *Command channels*: whole frames, in order, none lost; buffers outlive writes.
- *Routing*: after its last request a connection gets what it asked for, nothing
  else, without gaps, and nothing once it is removed.
- *Pool and timers*: what was queued runs, once; shutting down ends, and nothing
  runs after it.
- *Lifecycles*: connect and disconnect alternate and end; a cancelled connection
  stays cancelled; callbacks come in pairs.
- *Encodings*: decoding inverts encoding on everything the wire can hold.

## Modules

`MC*` modules instantiate a component's module for TLC, with a symmetry set
where it is sound and makes a difference; `*Proofs` modules hold its theorems.
Operators whose names end in `_Something` beside an action of the same name are
the action as a plausible bug would have it; `PROJECT.json` lists them under
`mutants`, each with the property that fails if it takes the action's place.

### SignalIndexCacheExchange, CacheHandover

One subscriber and the SubscriberConnection that serves it. A cache is the number
of the Subscribe command that it was built for; what is inside it is left out.
The two directions of the command channel are FIFO queues of messages. Handlers
are actions; HandleSubscribe is four of them, because other threads can act
between the building of the cache, the offer, the TSSC reset of version 1 and the
response. Locks make a single step of UpdateSignalIndexCache's decision (offer or
park). The confirmation's pool task is two steps, as `TakePending` holds the lock
and `ApplyPending` does not. Publishing threads copy the cache in one step and
encode in another. Sequence numbers wrap at `MaxSequence` as `uint16_t` does at
65535: to 1, since 0 announces a reset. `Reconnect` starts a new
SubscriberConnection and keeps the subscriber's slots and decoders. The fields
`cache`, `epoch` and `ordinal` of a data packet are not on the wire: they say
what the packet was made from.

`CacheHandover` is the abstract specification: the publisher uses a cache that
the subscriber holds, and the subscriber never drops the one in use. The mapping
takes the two slots to `held` and `m_signalIndexCache` to `active`.

### RoutingTables

Operations are queued from any thread and carried out by the routing thread, one
signal of a loop at a step. The clone that an operation works on is a copy of the
table's *keys*: the sets of destinations are shared with the active table, as the
code copies shared pointers. `Clear` is two steps, as it takes two locks.

### ThreadPool

Each call of Queue makes one one-shot timer. A timer's thread goes through
starting, waiting, elapsed, acting, acted, ending, ended; the removal thread and
ShutDown have a place each. `LockFree` says that ShutDown does not hold
`m_waitTimersLock`, the only lock held over something that blocks. Reference
counts are left out: see the last entry of "Seen while modelling".

### SubscriberLifecycle

The DataSubscriber and its SubscriberConnector. Every thread has a program
counter, so that one can be between any two steps of Connect, Disconnect, Cancel
or AutoReconnect while the others go on: user threads, and the threads that the
code starts (disconnect, termination, reconnection, response), which are numbered
as they start. The handles (`m_disconnectThread`, ...) name the thread that a join
waits for; a thread that joins holds the lock that WaitOnDisconnectThread holds.
`session` counts the connections made, `socket` is open, broken by the peer or
closed, and a reader reads the `target` session that it was started for. The
destructor is the last call; it is Cancel and then Disconnect, both joined.
`wanted` and `raced` are history: what the user asked for last, and whether two
threads were between one of the code's checks and what it guards (`NotRaced` lists
the three places). `None` for a thread handle is a handle never assigned.
Left out: the listening mode, the UDP thread, the callback queue, the lengths of
the waits.

### PublisherConnections

The DataPublisher's set of connections. A client's connection is identified with
the client; one action each for what the acceptor's handler, a read that fails,
the callback thread, the thread that shuts down and the tasks that stop a refused
connection do. `StopConnection` is in steps (`mark`, `terminate`, `erase`), since
`m_stopped` is tested without a lock. `references` counts `m_dispatchReferences`;
the callback queue holds `connected` and `disconnected` events. `LockFree` says
that ShutDown does not hold the lock on the connections, which it keeps while it
stops them one by one. The callback thread looks at IsShuttingDown in one step
(`BeginDequeue`) and calls the program in a later one (`ExecuteCallback`).
`announced` and `endKnown` are history, what the program knows: clients announced as
connected, and clients of whose end it was told, by the event or by the direct call
that ShutDown makes for every connection (DP 1060), or that it disconnected. The
program is taken to have set both callbacks. Reverse connections, the routing tables,
what subscriptions do and whatever the program waits for in a callback are left out.

### CompactPublication

Publication to one subscriber in the compact format, through the two base times.
Each publishing thread reads the time index, encodes, and sends in three steps;
the rotation timer's callback changes index, base and subscriber in three steps
of its own; the thread that reads commands stops and starts timers at each
Subscribe. Each packet carries what was known when it was made: the true
timestamp and `clean`, which says that no base time changed meanwhile. A `Stop`
that finds its timer's thread not yet running is `missed`, as in `Timer.cpp` 160.

### TsscCodec, TsscStream

`TsscCodec` is the compression as operators: the state of an encoder or decoder is
a record, and each function returns the record after it. Encoder and decoder are
translated from their own sources; nothing is shared but the code words, the
adaptive part (TSSCPointMetadata, one class in the source as well) and the
moving of values, times and qualities to the front, which the sources have twice
with the same text. Bits are packed into bytes as the code packs them; `Xor` sums
the bits in which two numbers differ. `TimeBytes` and `QualityBytes` are the most
bytes that Encode7BitUInt64 and Encode7BitUInt32 write, 9 and 5 in the code. Short words
are numbered by their length, which makes the code's four modes one rule.
`TsscStream` is one publisher and one subscriber with a packet between them: what
is encoded is kept in `sent` until it is decoded. Its initial state, steps and
specification have a prefix (`TsscInit`, `TsscNext`, `TsscSpec`), because
`PublicationProofs` extends it together with `CompactPublication`. A packet leaves
only when the one before was decoded; that packets wait in a queue, the cache and the reset's
way through UpdateSignalIndexCache are SignalIndexCacheExchange's part.

### FrameStream, TcpWriteQueue, CommandChannelWriter

What the cache exchange takes for granted, a FIFO channel, is looked at here. A
frame is a number (its place in the order of sending) and has `Parts` parts, so
that a write can be half done. `FrameStream` says what an undamaged stream is.

`TcpWriteQueue` is the publisher's side: any thread posts a response to a strand,
the strand pushes it on the queue and writes the head, the write's end comes back
through the strand. `m_disconnecting` and `m_stopped` are one variable. When
`reverse` is true, the connection that broke is terminated by a thread and made
again with the same SubscriberConnection; the initial states have both kinds. A
reverse connection that the user stops is not distinguished from one that breaks.

`CommandChannelWriter` is the subscriber's side: every thread fills the one write
buffer and starts a write of it, without a queue. TCP takes from the buffer what
is in it at that moment. `overlapped` remembers whether some command was sent
before the one before it was written. The model is version 3's: `m_validated`
is false until DefineOperationalModes is answered. Filling the buffer is one step
and its reallocation is left out; both could only make things worse.

## Runs

Systems with bounds come to an end: where that can happen the configuration says
`CHECK_DEADLOCK FALSE`. The exchange's model can always take another step, and is
checked for deadlock.

| Run | Shows |
|---|---|
| exchange | version 2, one publishing thread, three subscriptions, one reconnection, sequence numbers 0..2 with up to four packets a run (so they wrap): cache in use held, offers paired, nothing forgotten, TSSC in step, refinement of `CacheHandover`; offers are answered, and the cache of each subscription is offered unless superseded, overtaken or disconnected |
| exchange_version1 | version 1, two publishing threads: the subscriber's cache follows the publisher's |
| routing | two connections, two signals, four operations, one Clear: what was requested is routed, what was not is not, an operation leaves others alone; queued operations are carried out |
| pool | two immediate tasks and a delayed one: shutting down, removal; what is queued runs and is removed |
| pool_shut_down | **violated**: ShutDown can wait for itself |
| queue | accepted and reverse connections, three responses, three connections: frames in order, buffers kept; responses of a first connection are written |
| writer | two threads, four commands, two connections: unhurried commands arrive whole; on the first connection DefineOperationalModes comes first, whole |
| subscriber | one user thread with three calls and the destructor, one failure to connect, one break, retries limited to two: nothing closes a connection that is being made, one disconnect thread, one reader; a lost connection is made again |
| subscriber_disconnect | **violated**: Disconnect does nothing while a reconnection is pending |
| connections | two clients that come, go and are disconnected, room for one, three calls of Start, Stop and DisconnectSubscriber: dispatched connections kept alive, the limit, the end of every announced client known after a shutdown, no remains after Stop; stopped connections are removed and shutting down ends |
| publication | one publishing thread, two subscriptions, two publications, two rotations, a throttled call: timestamps exact while bases stand still, timers of earlier subscriptions gone; the base in use becomes known |
| tssc | up to four measurements out of a set that reaches every code word's kind and 0, 1, 2 and 3 short words, one reset, sequence numbers that wrap: decoded as sent, adapted alike, no buffer overrun |

The violated runs are listed with the lines of code and the comments that they
contradict under `findings` in `PROJECT.json`. Seven more configurations, which no
run of `PROJECT.json` uses, each lead TLC to a counterexample that "Seen while
modelling" describes: `ExchangeCacheIndexFlag`, `ExchangeQuickSuccession`,
`RoutingUndesired`, `QueueReconnect`, `WriterOverlap`, `ConnectionsRestart` and
`PublicationUnsubscribe`.

*Bounds.* Two senders or connections are enough for every race of two; a third
adds no pair. Under version 2 a publishing thread races only with the swap of
the cache, for which one thread is enough; the TSSC lock makes packets of two
threads a sequence. Version 1 has few states and is run with two. Three
subscriptions are the least that have one cache in use, one offered and one
waiting. `MaxSequence` 2 with four packets makes the sequence wrap and go on
past the wrap. Two signals tell "mine" from "another's" in a routing loop, and
four operations let both connections subscribe and resubscribe. Two parts are
enough for one write to come between another's beginning and end. Three
connections let a reverse connection break a second time with the remains of the
first. A user thread's three calls let it connect, lose or leave the connection and
connect again, against the reconnection thread; nine threads are more than such a
run starts. A limit of one and two clients fill the publisher and refuse the other
client; three calls are Start, Stop and Start, or a Start and two disconnections.
Two subscriptions have one set of timers stopped and one started; two rotations
take each base time through the index once. TSSC's adaptation is counted down to
the first code, the fifth and the second (in the code 5, 20 and 100 codes) so that
four measurements pass through all three stages. Two bytes hold a time or a quality
of the set, so the most that a measurement and the end of its block can take is 17
bytes (`ReservedAssumption`), which is the reserve here; in the code it is 27, and
100 are reserved. With a buffer of 23 bytes, blocks end because the buffer is full
after one measurement, two or three.
Each module names its bounds in its CONSTANTS.

*Fairness* is assumed of threads that the code keeps running: the two that read
(each handler arms the next read), pool tasks (each has a thread), the routing
thread, the strand, TCP as long as the connection stands, a thread of ShutDown or
of a disconnect once started, every thread of the subscriber's lifecycle (a thread
that can take its next step takes it; joins and locks are guards), the publisher's
callback thread and timers. Nothing is assumed of users, of the network or of
when connections break.

## Seen while modelling

The models show more of the code's behaviour than the violated runs record. Where
a property is weaker than one might expect, this is why.

- Unsubscribe is not answered (SC 1062): the subscriber keeps its own idea of
  being subscribed.
- No packet names the cache it was encoded with (SC 1495, 1571), although
  `transport/Constants.h` says that the CacheIndex flag determines it: DS 557 finds
  the slot of the wrong index (`ExchangeCacheIndexFlag.cfg`,
  `DecodedWithEncodingCache`).
- A pool task that has taken the waiting cache (SC 1265) can be overtaken by a
  newer subscription: the older one then stays in effect
  (`ExchangeQuickSuccession.cfg`, `NewestSubscriptionInEffect`). Either the task
  offers its cache and wipes the newer one, which waits, without its being offered
  (SC 1414, against the comment of SC 1418), or it parks its cache over the newer
  one. `NewestIsOffered` says that every other cache is offered, and excepts these
  (`Overtaken`).
- UpdateRoutesOperation erases the connection from the signals that it wants
  instead of those it does not (`RoutingTables.cpp` 86-91): undesired routes stay
  (`RoutingUndesired.cfg`, `UndesiredAreNotRouted`).
- A reverse connection that broke with a response in its queue never writes again
  once it is re-made (SC 1936, 2089; `QueueReconnect.cfg`, `PostedIsWritten`).
- Two commands in quick succession share one write buffer and mix (DS 1574;
  `WriterOverlap.cfg`, `CommandsIntact`).
- An operation removes its connection from sets of destinations that the active
  table shares (`RoutingTables.cpp` 69, 90): a route that stays desired is missing
  while the operation runs. `OthersUndisturbed` speaks of the other connections,
  `DesiredAreRouted` of the time when no operation is queued or under way.
- An operation under way when `Clear` is called activates its clone afterwards
  (`RoutingTables.cpp` 107, 187): what Clear removed is back.
- `Clear` can empty the queue between WaitForData and Dequeue
  (`ThreadSafeQueue.h` 123), which then takes the front of an empty queue.
- A command of a thread that was held up since before a reconnection can be
  written into the next connection's DefineOperationalModes (DS 1542, 1574).
  `ModesFirst` is therefore stated of the first connection.
- A started timer refers to itself through its thread (`Timer.cpp` 150) and is
  never destroyed, also when the pool has removed it.

*The subscriber's lifecycle.*

- A Disconnect by the user during a reconnection is ignored (DS 1239, the run
  `subscriber_disconnect`). One that comes while an attempt is connecting can end
  with flags that say disconnected and connected at once.
- The thread of a user's Disconnect joins the reconnection thread (Cancel,
  CO 301), which can at that time wait for the disconnect thread in Connect
  (DS 1063): both wait for ever, and so does the destructor.
- The destructor can return while the disconnect thread still has to release
  `m_connectActionMutex`, or AutoReconnect to start its thread (CO 84) after the
  Cancel that should have stopped it.
- A terminated callback that calls Connect makes the reading thread's disconnection
  join the thread that the call runs on; DS 1054-1057 allows such calls.
- Two threads that connect at once both pass IsConnected (DS 1081); a Connect
  between Disconnect's flag and its thread finds nothing to wait for (DS 1267-1281);
  the failed write's handler can disconnect the connection after next (DS 1585).
  After any of these two readers share one buffer or a new socket is closed, so the
  safety properties are stated of runs without them (`NotRaced`). `m_cancel` set by
  a rejection stays set until the next ResetConnection or attempt.
- A read error that is none of the three the code names (DS 170-174) ends the
  reading silently; the subscriber stays connected and is not reconnected.

*The publisher's connections.*

- A client can be admitted after ShutDown has stopped the others, since
  IsShuttingDown is tested before the lock (DP 98): ShutDown then waits until that
  client leaves (`AdmittedLate`).
- A refused connection is in the set and counts against the limit until its task
  has run (DP 107, 130), and is announced as disconnected without having been
  announced as connected.
- ShutDown calls the program about the end of every connection at once (DP 1060),
  on its own thread. The connection's beginning may still be queued then: the program
  hears of it afterwards, if the callback thread was past its look at IsShuttingDown,
  or never (DP 1083). Of an end whose event was executed earlier it may hear twice.
  What holds is that no announced client's end is lost (`AnnouncedEndIsKnown`), save
  that the program may not be told of one that it disconnected itself.
- ShutDown clears the callback queue with its events, whose references are never
  released (DP 1081): `Dropped`.
- A Start that comes before Stop's thread has finished is undone by it (DP 1098;
  `ConnectionsRestart.cfg`, `StartedServes`).

*Publication.*

- A Stop that comes before the timer's thread runs does nothing (`Timer.cpp` 160):
  a second Subscribe then leaves two rotation timers (SC 716).
- A packet encoded with one base time can be sent after the UpdateBaseTimes that
  replaces it: its timestamp is then decoded with the new base. Hence `clean`.
- After Unsubscribe the throttled timer goes on to publish (SC 997;
  `PublicationUnsubscribe.cfg`, `UnsubscribedGetsNoData`, against
  `transport/DataSubscriber.h` 293).
- An offset in ticks takes four bytes, but is limited by `UInt16::MaxValue`
  (`CompactMeasurement.cpp` 230): larger ones are sent in full, which is correct.

*Steps that the models join.* Between these nothing is seen to happen: the swap of
version 1 and its response (SC 1426, 1429), the swap of version 2 and the flag for the
TSSC reset (SC 1242, 1251), the start of the reader and `m_connected` (DS 1381, 1382),
the restart of a reverse connection (SC 495-516), what a Subscribe clears and starts
besides the timers (SC 723-1035), the two base times of a rotation and a reader's look
at them. Exceptions of the socket or of serialization in the middle of a handler
(SC 454, 1404-1411) are left out.

*TSSC.*

- ReadBits4 and ReadBits5 (`TSSCDecoder.cpp` 466-474), and an expression that reads
  bits and then bytes, leave the order of reading to the compiler. The model reads
  left to right.

## Proofs

TLAPS checks the following for every value of the constants, from the named
assumptions (bounds are natural numbers, `MaxSequence` and `Parts` are positive,
versions are 1 to 3, `Delayed` is a set of tasks, "no task" is none, the user's
threads are not among those that the subscriber starts).

- `SignalIndexCacheExchangeProofs`: `TypeCorrect`, `ActiveCacheIsHeld`, `OneOffer`,
  `PendingIsNotForgotten`, `Refinement`, `CacheIsFollowed`, `DecoderInStep`.
  `ActiveCacheHeld` is not inductive: that the
  subscriber holds an offered cache once it is confirmed follows only from the
  pairing of offers and messages (`OneOfferOutstanding`: exactly one update or
  one confirmation under way, or no offer), together with the fact that an offer
  goes to the slot that is not in use. The inductive invariant joins these with
  the types and with what holds before the operational modes are defined; the
  refinement's steps then follow action by action. `CacheFollows` (version 1) is
  inductive with the fact that no offer is ever open there. `DecoderInStep` is about
  every version. It looks along the whole stream of packets (`Chained`): the decoder
  expects the first data packet under way, each packet is followed by the next one,
  and the last by what the encoder will make, where a reset (sequence number 0)
  may come at any place; and a decoder that refused a packet expects 0, which only a
  reset has. Four lemmas say what sending, receiving and resetting do to such a
  chain; `FirstOfRun` says that number 0 is that of the first packet of a run only,
  which a sequence number that came round to 0 would break.
- `RoutingTablesProofs`: `TypeCorrect`, `RoutesAreRequested`,
  `OthersAreUndisturbed`, `DesiredRoutesAreThere`. A set of destinations outlives
  the table that it was in, so the invariant of the second speaks of all sets and
  of operations queued and under way. The third rests on `CloneInv`: the clone
  contains the table in use, and what is in the clone only is a route of the
  operation's own connection. The fourth follows what became of the last operation
  of every connection (`LatestInv`): it is queued, with none of the same connection
  behind it; or in hands, with what its loops have done so far; or carried out, in
  the clone if another operation is under way.
- `ThreadPoolProofs`: `TypeCorrect`, `ActionsEnd`, `TimersOutlastCallbacks`,
  `LateTimersRefused`. The invariant says which timers are in the reference set
  at each place of ShutDown, that a timer in the completed queue has left its
  callback, and that ShutDown's list and the one it joins cover every thread
  that may still act.
- `TcpWriteQueueProofs`: `TypeCorrect`, `StreamInOrder`, `BufferIsKept`, for
  accepted and reverse connections and any number of reconnections. That frames
  are in order says nothing of the strand, so the invariant counts: some `k` is
  the number of frames that the strand has pushed, those in the queue are the
  last ones up to `k`, those that wait in the strand the ones after `k`, both in
  order (`QueueNumbers`, `FrameNumbers`). `OneWrite` says that there is at most
  one write under way or one write's end in the strand, and that it belongs to
  the head of the queue. `InStep` says that the next part to be written follows
  the last one on the stream, as long as the connection is not broken; the end
  of an old connection's write that is handled on the new one meets an empty
  stream.
- `PublisherConnectionsProofs`: `TypeCorrect`, `DispatchedAreAlive`,
  `EndsAreAnnounced`, `LimitIsKept`, `StoppedPublisherIsQuiet`. The limit
  rests on three facts that are inductive only together (`Kept`): whoever is about to
  erase a connection has stopped it, the iteration that stops all passes none over,
  and an open connection is in the set; and on `FreshAreUnknown`, that nobody holds
  a client that is not admitted yet. `Quiet` says what ShutDown waits for.
  That announced ends are known needs three more parts: a client that was announced or
  whose event is queued is in the set or its end is known (`MetAreKnown`), whoever is
  about to remove a connection has told of its end, or will before the set is cleared
  (`RemoversKnow`), and once ShutDown has cleared the set neither what was announced nor
  the event about to be executed lacks its end (`EndsAreKnown`).
- `CommandChannelWriterProofs`: `UnhurriedAreIntact`, `ModesComeFirst`, for any
  number of senders and of parts of a frame. Of a connection on which no commands
  overlapped, the one command that is not written yet is being written, about to
  be, or there is none (`OneWritten`, `OneSending`, `AllWritten`), and the stream
  goes on with it. `OnlyModes` describes the first connection before its answer.
- `PublicationProofs`: `StoppedTimersAreGone`, `UndisturbedAreExact`, and of TSSC
  `BuffersAreNotOverrun`. The first needs what the command thread knows at each of its steps
  (`HandlerKnows`), that timers of subscriptions to come are untouched and that a
  timer at work runs or is being joined. The second needs that, unless a
  rotation is under way, the base times that the subscriber has once it has
  read everything are the publisher's, or these are cleared (`Synchronized`); a
  packet that was exact when it was made is then exact for the base times that
  come before it on the channel (`CleanUndisturbed`, `SentExact`). The third counts
  the bits of a packet (`Used`: its bytes, less what is still free in the byte that
  is being filled). TryAddMeasurement tests for space once, before it writes anything,
  so each part of a measurement gets a lemma that bounds what it adds: a word has 8
  bits at most whatever was adapted (`BestBound`, `WriteCodeOK`), an identity and
  a value four bytes more, a time and a quality `TimeBytes` and `QualityBytes`
  (`IdentifiedOK`, `TimedOK`, `QualifiedOK`, `WriteValueOK`), and the end of the
  block one byte (`FinishBlockOK`). The inductive invariant `EncoderInv` also needs
  that every point's words are words of the table and that bits are pending only
  if their byte is reserved, which is what WriteBits takes for granted. The only
  assumption beyond types is `ReservedAssumption`, that the reserve is as large
  as the sum of these.
- `SubscriberLifecycleProofs`: `TypeCorrect`, `LockedCloseIsExclusive`,
  `NoNewConnectionIsClosed`, `OneDisconnectThread`, `OneResponseThread`. None of the
  properties is inductive: each depends on what other threads have passed. What holds
  with or without races (`Places`) says where a thread can be given its parameters,
  and that the lock's holder is the thread that took it; `LockedCloseIsExclusive`
  needs no more. What holds until the first race (`RaceFree`): one thread disconnects
  (`Alone`), the flags say that it does (`Marked`) and the handle names it (`Named`),
  so no thread is past the wait for it while a lost connection is being closed
  (`Apart`); one thread connects, and only what is not connected (`OneConnecting`,
  `NotYet`); the thread that reads is the one that the handle names and its
  connection is in use or is being closed by a thread that has yet to join it
  (`ReaderKept`), so none reads when a new connection starts (`NoReader`). A disconnect
  joins the reader before it sets `disconnected`, and a connection starts after it
  has joined the disconnect thread: that order is what the proof uses.

Only model-checked: that TSSC's decoder inverts its encoder and adapts alike
(`DecodedAsSent`, `CodecsInStep`: the bits of a byte, 7 bit numbers and XOR are sums
of powers of two over folds, whose inverse needs induction over data, and arithmetic
that is not linear), and everything about liveness, which is outside what the prover
does (no fairness, no ENABLED). Every other invariant that a run checks is stated by
a theorem. Nothing is proved of what a recursive definition computes.

## Not modelled, and the plan

In order of importance:

1. The composition of PublisherConnections with RoutingTables: routes that a late
   confirmation adds for a connection that is gone (DP 150).
2. The reverse (listening) mode of subscriber and publisher: the lifecycles have
   other locks there (`useConnectActionMutex`, DP 1341).
3. Temporal subscriptions, and TSSC over the UDP data channel, where packets can be
   lost or reordered.
4. The callback queue of the subscriber; SetInterval and a second Start of timers.
5. Signal index cache encoding, the null semantics and type promotion of filter
   expressions: pure and sequential, so within reach of the repository's own tests.
6. That TSSC's decoder inverts its encoder, as a theorem: one lemma for each code,
   on top of facts about sums of powers of two.

Left out for good: the generated lexer and parser, ANTLR, pugixml and other
vendored code, XML, logging, samples, instances (wrappers that keep configuration
under locks), the lengths of waits (among them the 32 bit arithmetic of the
back-off, CO 255), and data races on memory with no set of outcomes to choose
from: a torn shared pointer (SC 407, DS 741), a set changed while it is read
(`RoutingTables.cpp` 144), a buffer reallocated under a write (DS 1557).
