---------------------- MODULE SignalIndexCacheExchange ----------------------
(***************************************************************************)
(* How one DataSubscriber and the SubscriberConnection that serves it      *)
(* agree on the signal index cache with which data packets are encoded and *)
(* decoded (src/src/lib/transport/SubscriberConnection.cpp and             *)
(* DataSubscriber.cpp).                                                    *)
(*                                                                         *)
(* Three kinds of publisher thread share a SubscriberConnection:           *)
(*   - the thread that reads the command channel runs one handler at a     *)
(*     time (ParseCommand);                                                *)
(*   - the thread pool runs the task that HandleConfirmUpdateSignalIndex-  *)
(*     Cache queues, each on a thread of its own;                          *)
(*   - the user's threads publish measurements, TSSC compressed.           *)
(* The command channel is one TCP connection: a FIFO queue of commands one *)
(* way, of responses the other way (how they are written is the subject of *)
(* TcpWriteQueue and CommandChannelWriter).  The connection may break at   *)
(* any moment and be made again: the publisher then starts with a new      *)
(* SubscriberConnection, the DataSubscriber keeps its caches.              *)
(*                                                                         *)
(* A cache is named by the position of the Subscribe command it was built  *)
(* for; 0 stands for nullptr.  What is in a cache is abstracted: what      *)
(* matters is which cache a packet is encoded and decoded with.            *)
(***************************************************************************)
EXTENDS Naturals, Sequences

CONSTANTS
  Version,         \* the protocol version that DefineOperationalModes agrees on
  Publishers,      \* the user's threads that publish measurements
  MaxSequence,     \* the greatest TSSC sequence number (65535 for uint16_t)
  MaxRequests,     \* bound: calls of DataSubscriber::Subscribe
  MaxConnections,  \* bound: connections made
  MaxPackets,      \* bound: data packets of one run of the TSSC encoder
  MaxInFlight      \* bound: commands or data packets under way at a time

ASSUME VersionAssumption == Version \in 1 .. 3  \* 3 does what 2 does here
ASSUME SequenceAssumption == MaxSequence \in Nat \ {0}
ASSUME BoundsAssumption ==
  /\ MaxRequests \in Nat
  /\ MaxConnections \in Nat
  /\ MaxPackets \in Nat
  /\ MaxInFlight \in Nat

None == 0
Cache == Nat \ {0}
CacheOrNone == Nat
CacheIndex == {0, 1}

-----------------------------------------------------------------------------

VARIABLES
  \* SubscriberConnection
  validated,                \* m_validated
  currentCacheIndex,        \* m_currentCacheIndex
  nextCacheIndex,           \* m_nextCacheIndex
  signalIndexCache,         \* m_signalIndexCache: packets are encoded with it
  nextSignalIndexCache,     \* m_nextSignalIndexCache: sent, not yet confirmed
  pendingSignalIndexCache,  \* m_pendingSignalIndexCache: waits for its turn
  connectionSubscribed,     \* m_subscribed of SubscriberConnection
  tsscResetRequested,       \* m_tsscResetRequested of SubscriberConnection
  tsscSequenceNumber,       \* m_tsscSequenceNumber
  handler,                  \* where the command thread is inside HandleSubscribe
  queuedTasks,              \* thread pool tasks that have not looked at pending
  takenCaches,              \* caches that such tasks took out of pending
  encoding,                 \* the cache each publisher thread read, or None
  \* DataSubscriber
  slot,                     \* m_signalIndexCache[2]
  decoder,                  \* the TSSC decoder of the cache in each slot
  subscribed,               \* m_subscribed of DataSubscriber
  \* the command channel
  commands,                 \* from the subscriber to the publisher
  responses,                \* from the publisher to the subscriber
  \* bookkeeping, read by the bounds and the properties
  requests,                 \* Subscribe commands sent
  built,                    \* caches built: the latest one is the newest request
  connections,              \* connections made
  epoch,                    \* runs of the TSSC encoder: +1 at each reset
  packets                   \* data packets of this run of the encoder

exchangeVars == <<currentCacheIndex, nextCacheIndex, signalIndexCache,
                  nextSignalIndexCache, pendingSignalIndexCache>>
tsscVars == <<tsscResetRequested, tsscSequenceNumber, epoch, packets>>
taskVars == <<queuedTasks, takenCaches>>
subscriberVars == <<slot, decoder, subscribed, requests>>
connectionVars == <<validated, connectionSubscribed, handler, built, connections>>
vars == <<exchangeVars, tsscVars, taskVars, subscriberVars, connectionVars,
          encoding, commands, responses>>

-----------------------------------------------------------------------------
(* Messages.  A data packet carries its sequence number; the cache, epoch  *)
(* and ordinal fields are not on the wire: they say which cache and which  *)
(* run of the encoder made the packet and its place in that run.           *)

Command == {"DefineOperationalModes", "Subscribe", "Unsubscribe",
            "ConfirmUpdateSignalIndexCache"}

Update_OtherIndex(index, cache) ==
  [type |-> "UpdateSignalIndexCache", index |-> 1 - index, cache |-> cache]

Update(index, cache) ==
  [type |-> "UpdateSignalIndexCache", index |-> index, cache |-> cache]
DataPacket(cache, seq, run, ordinal) ==
  [type |-> "DataPacket", cache |-> cache, seq |-> seq, epoch |-> run,
   ordinal |-> ordinal]
Result(outcome, command) == [type |-> outcome, command |-> command]

Updates == [type : {"UpdateSignalIndexCache"}, index : CacheIndex, cache : Cache]
Response ==
  Updates
    \cup [type : {"DataPacket"}, cache : Cache, seq : 0 .. MaxSequence,
          epoch : Nat, ordinal : Nat]
    \cup [type : {"Succeeded", "Failed"}, command : Command]

(* The cache index a data packet names: neither PublishCompactDataPacket   *)
(* nor PublishTSSCDataPacket sets DataPacketFlags::CacheIndex, so the      *)
(* subscriber always reads index 0.                                        *)
PacketCacheIndex == 0

(* The sequence number never goes back to 0 by itself: 0 announces a reset *)
NextSequence_NoWrap(seq) == seq + 1
NextSequence_WrapsToZero(seq) == IF seq = MaxSequence THEN 0 ELSE seq + 1

NextSequence(seq) == IF seq = MaxSequence THEN 1 ELSE seq + 1

(* The decoder of a cache that has decoded nothing yet is not created;     *)
(* a decoder remembers the next sequence number and, for the properties,   *)
(* the run of the encoder it follows and how many packets it decoded.      *)
NoDecoder == [created |-> FALSE, expected |-> 0, epoch |-> 0, decoded |-> 0]
NewDecoder(run) == [created |-> TRUE, expected |-> 0, epoch |-> run, decoded |-> 0]
Decoder == [created : BOOLEAN, expected : 0 .. MaxSequence, epoch : Nat, decoded : Nat]

-----------------------------------------------------------------------------

(* A new SubscriberConnection; the subscriber's first command is under way. *)
Init ==
  /\ validated = FALSE
  /\ currentCacheIndex = 0
  /\ nextCacheIndex = 0
  /\ signalIndexCache = None
  /\ nextSignalIndexCache = None
  /\ pendingSignalIndexCache = None
  /\ connectionSubscribed = FALSE
  /\ tsscResetRequested = FALSE
  /\ tsscSequenceNumber = 0
  /\ handler = "idle"
  /\ queuedTasks = 0
  /\ takenCaches = {}
  /\ encoding = [p \in Publishers |-> None]
  /\ commands = <<"DefineOperationalModes">>
  /\ responses = <<>>
  /\ subscribed = FALSE
  /\ packets = 0
  /\ slot = [i \in CacheIndex |-> None]
  /\ decoder = [i \in CacheIndex |-> NoDecoder]
  /\ requests = 0
  /\ built = 0
  /\ connections = 1
  /\ epoch = 0

-----------------------------------------------------------------------------
(* The subscriber's application.                                           *)

(* Subscribe: a subscriber that believes it is subscribed unsubscribes     *)
(* first.  (What Unsubscribe does to the reading of the command channel    *)
(* while it closes the UDP channel is not part of this module.)            *)
Subscribe ==
  /\ requests < MaxRequests
  /\ Len(commands) < MaxInFlight
  /\ requests' = requests + 1
  /\ commands' = IF subscribed
                 THEN Append(Append(commands, "Unsubscribe"), "Subscribe")
                 ELSE Append(commands, "Subscribe")
  /\ UNCHANGED <<exchangeVars, tsscVars, taskVars, connectionVars, encoding,
                 responses, slot, decoder, subscribed>>

(* Unsubscribe only sends the command: m_subscribed waits for the answer.  *)
Unsubscribe ==
  /\ Len(commands) < MaxInFlight
  /\ commands' = Append(commands, "Unsubscribe")
  /\ UNCHANGED <<exchangeVars, tsscVars, taskVars, subscriberVars,
                 connectionVars, encoding, responses>>

-----------------------------------------------------------------------------
(* The publisher's command thread.                                         *)

(* ParseCommand takes the next command once the previous handler is done;  *)
(* before the operational modes are defined it takes no other command.     *)
Receive(command) ==
  /\ handler = "idle"
  /\ commands # <<>>
  /\ Head(commands) = command
  /\ validated \/ command = "DefineOperationalModes"
  /\ commands' = Tail(commands)

HandleDefineOperationalModes ==
  /\ Receive("DefineOperationalModes")
  /\ currentCacheIndex' = IF Version > 1 THEN 1 ELSE currentCacheIndex
  /\ validated' = TRUE
  /\ responses' = Append(responses, Result("Succeeded", "DefineOperationalModes"))
  /\ UNCHANGED <<nextCacheIndex, signalIndexCache, nextSignalIndexCache,
                 pendingSignalIndexCache, tsscVars, taskVars, subscriberVars,
                 connectionSubscribed, handler, built, connections, encoding>>

(* HandleSubscribe, as far as ParseSubscriptionRequest: a cache is built.  *)
HandleSubscribe ==
  /\ Receive("Subscribe")
  /\ built' = built + 1
  /\ handler' = "parsed"
  /\ UNCHANGED <<exchangeVars, tsscVars, taskVars, subscriberVars, validated,
                 connectionSubscribed, connections, encoding, responses>>

(* HandleSubscribe of a request that is refused or cannot be parsed.       *)
HandleSubscribeFailure ==
  /\ Receive("Subscribe")
  /\ responses' = Append(responses, Result("Failed", "Subscribe"))
  /\ UNCHANGED <<exchangeVars, tsscVars, taskVars, subscriberVars,
                 connectionVars, encoding>>

(* HandleUnsubscribe: no response is sent.                                 *)
HandleUnsubscribe ==
  /\ Receive("Unsubscribe")
  /\ connectionSubscribed' = FALSE
  /\ UNCHANGED <<exchangeVars, tsscVars, taskVars, subscriberVars, validated,
                 handler, built, connections, encoding, responses>>

(* UpdateSignalIndexCache, version 2: the cache is offered to the          *)
(* subscriber in the other slot, or waits while another offer is open.     *)
(* The writer lock makes each one step.                                    *)
OfferCache_SameSlot(cache) ==
  /\ Version > 1
  /\ nextSignalIndexCache = None
  /\ nextCacheIndex' = currentCacheIndex
  /\ nextSignalIndexCache' = cache
  /\ pendingSignalIndexCache' = None
  /\ responses' = Append(responses, Update(currentCacheIndex, cache))
  /\ UNCHANGED <<currentCacheIndex, signalIndexCache>>

OfferCache_NoGuard(cache) ==
  /\ Version > 1
  /\ nextCacheIndex' = 1 - currentCacheIndex
  /\ nextSignalIndexCache' = cache
  /\ pendingSignalIndexCache' = None
  /\ responses' = Append(responses, Update(1 - currentCacheIndex, cache))
  /\ UNCHANGED <<currentCacheIndex, signalIndexCache>>

OfferCache(cache) ==
  /\ Version > 1
  /\ nextSignalIndexCache = None
  /\ nextCacheIndex' = 1 - currentCacheIndex
  /\ nextSignalIndexCache' = cache
  /\ pendingSignalIndexCache' = None
  /\ responses' = Append(responses, Update(1 - currentCacheIndex, cache))
  /\ UNCHANGED <<currentCacheIndex, signalIndexCache>>

ParkCache_NoGuard(cache) ==
  /\ Version > 1
  /\ pendingSignalIndexCache' = cache
  /\ UNCHANGED <<currentCacheIndex, nextCacheIndex, signalIndexCache,
                 nextSignalIndexCache, responses>>

ParkCache_FirstWaits(cache) ==
  /\ Version > 1
  /\ nextSignalIndexCache # None
  /\ pendingSignalIndexCache' = IF pendingSignalIndexCache = None
                                THEN cache ELSE pendingSignalIndexCache
  /\ UNCHANGED <<currentCacheIndex, nextCacheIndex, signalIndexCache,
                 nextSignalIndexCache, responses>>

ParkCache(cache) ==
  /\ Version > 1
  /\ nextSignalIndexCache # None
  /\ pendingSignalIndexCache' = cache
  /\ UNCHANGED <<currentCacheIndex, nextCacheIndex, signalIndexCache,
                 nextSignalIndexCache, responses>>

UpdateSignalIndexCache(cache) == OfferCache(cache) \/ ParkCache(cache)

HandleSubscribeUpdate ==
  /\ handler = "parsed"
  /\ UpdateSignalIndexCache(built)
  /\ handler' = "updated"
  /\ UNCHANGED <<tsscVars, taskVars, subscriberVars, validated,
                 connectionSubscribed, built, connections, encoding, commands>>

(* UpdateSignalIndexCache, version 1: the cache is used at once, and sent; *)
(* the encoder reset is requested after the cache was sent.                *)
SwapCache ==
  /\ handler = "parsed"
  /\ Version = 1
  /\ signalIndexCache' = built
  /\ responses' = Append(responses, Update(0, built))
  /\ handler' = "swapped"
  /\ UNCHANGED <<currentCacheIndex, nextCacheIndex, nextSignalIndexCache,
                 pendingSignalIndexCache, tsscVars, taskVars, subscriberVars,
                 validated, connectionSubscribed, built, connections, encoding,
                 commands>>

RequestTsscReset ==
  /\ handler = "swapped"
  /\ tsscResetRequested' = TRUE
  /\ handler' = "updated"
  /\ UNCHANGED <<exchangeVars, tsscSequenceNumber, epoch, packets, taskVars,
                 subscriberVars, validated, connectionSubscribed, built,
                 connections, encoding, commands, responses>>

(* The end of HandleSubscribe.                                             *)
CompleteSubscribe ==
  /\ handler = "updated"
  /\ connectionSubscribed' = TRUE
  /\ responses' = Append(responses, Result("Succeeded", "Subscribe"))
  /\ handler' = "idle"
  /\ UNCHANGED <<exchangeVars, tsscVars, taskVars, subscriberVars, validated,
                 built, connections, encoding, commands>>

(* The open offer, if any, becomes the cache in use; a task that looks for *)
(* a waiting cache is queued in any case.                                  *)
HandleConfirmUpdateSignalIndexCache ==
  /\ Receive("ConfirmUpdateSignalIndexCache")
  /\ IF nextSignalIndexCache # None
     THEN /\ signalIndexCache' = nextSignalIndexCache
          /\ currentCacheIndex' = nextCacheIndex
          /\ nextSignalIndexCache' = None
          /\ tsscResetRequested' = TRUE
     ELSE UNCHANGED <<signalIndexCache, currentCacheIndex,
                      nextSignalIndexCache, tsscResetRequested>>
  /\ queuedTasks' = queuedTasks + 1
  /\ UNCHANGED <<nextCacheIndex, pendingSignalIndexCache, tsscSequenceNumber,
                 epoch, packets, takenCaches, subscriberVars, connectionVars,
                 encoding, responses>>

-----------------------------------------------------------------------------
(* The thread pool task.                                                   *)

(* Under m_pendingSignalIndexCacheLock the task takes the waiting cache.   *)
TakePending ==
  /\ queuedTasks > 0
  /\ queuedTasks' = queuedTasks - 1
  /\ takenCaches' = IF pendingSignalIndexCache = None
                    THEN takenCaches
                    ELSE takenCaches \cup {pendingSignalIndexCache}
  /\ pendingSignalIndexCache' = None
  /\ UNCHANGED <<currentCacheIndex, nextCacheIndex, signalIndexCache,
                 nextSignalIndexCache, tsscVars, subscriberVars,
                 connectionVars, encoding, commands, responses>>

(* With the lock released, it calls UpdateSignalIndexCache with it.        *)
ApplyPending(cache) ==
  /\ cache \in takenCaches
  /\ UpdateSignalIndexCache(cache)
  /\ takenCaches' = takenCaches \ {cache}
  /\ UNCHANGED <<tsscVars, queuedTasks, subscriberVars, connectionVars,
                 encoding, commands>>

-----------------------------------------------------------------------------
(* The publisher's threads: PublishMeasurements of a user thread, or the   *)
(* throttled publication timer, then PublishTSSCMeasurements.              *)

(* GetSignalIndexCache returns a reference, copied after the reader lock   *)
(* was released: the copy may be made while another thread swaps the       *)
(* cache.  m_subscribed was read before that by PublishMeasurements, and   *)
(* is not read at all by the timer: it may be either by now.               *)
ReadCache(p) ==
  /\ encoding[p] = None
  /\ signalIndexCache # None
  /\ encoding' = [encoding EXCEPT ![p] = signalIndexCache]
  /\ UNCHANGED <<exchangeVars, tsscVars, taskVars, subscriberVars,
                 connectionVars, commands, responses>>

(* Under m_tsscResetRequestedLock the encoder is reset if that was asked;  *)
(* a packet is sent unless no measurement is in the cache.  Measurements   *)
(* that fill several packets are as several calls.                         *)
PublishTSSCMeasurements(p) ==
  LET reset == tsscResetRequested
      run == IF reset THEN epoch + 1 ELSE epoch
      seq == IF reset THEN 0 ELSE tsscSequenceNumber
      ordinal == IF reset THEN 0 ELSE packets
  IN  /\ encoding[p] # None
      /\ encoding' = [encoding EXCEPT ![p] = None]
      /\ tsscResetRequested' = FALSE
      /\ epoch' = run
      /\ \/ /\ ordinal < MaxPackets
            /\ Len(responses) < MaxInFlight
            /\ responses' = Append(responses,
                                   DataPacket(encoding[p], seq, run, ordinal))
            /\ tsscSequenceNumber' = NextSequence(seq)
            /\ packets' = ordinal + 1
         \/ /\ tsscSequenceNumber' = seq
            /\ packets' = ordinal
            /\ UNCHANGED responses
      /\ UNCHANGED <<exchangeVars, taskVars, subscriberVars, connectionVars,
                     commands>>

-----------------------------------------------------------------------------
(* The subscriber's command channel thread: ProcessServerResponse.         *)

Deliver(type) ==
  /\ responses # <<>>
  /\ Head(responses).type = type
  /\ responses' = Tail(responses)

(* Version 2 confirms the cache.                                           *)
Confirm_Never(queue) == queue

Confirm(queue) ==
  IF Version > 1 THEN Append(queue, "ConfirmUpdateSignalIndexCache") ELSE queue

(* HandleUpdateSignalIndexCache: a newly decoded cache, which has no TSSC  *)
(* decoder, takes the slot.                                                *)
HandleUpdateSignalIndexCache ==
  /\ Deliver("UpdateSignalIndexCache")
  /\ LET update == Head(responses)
     IN  /\ slot' = [slot EXCEPT ![update.index] = update.cache]
         /\ decoder' = [decoder EXCEPT ![update.index] = NoDecoder]
  /\ commands' = Confirm(commands)
  /\ UNCHANGED <<exchangeVars, tsscVars, taskVars, connectionVars, encoding,
                 subscribed, requests>>

(* HandleSucceeded and HandleFailed: a success decides m_subscribed.       *)
HandleSucceeded ==
  /\ Deliver("Succeeded")
  /\ subscribed' = IF Head(responses).command \in {"Subscribe", "Unsubscribe"}
                   THEN Head(responses).command = "Subscribe"
                   ELSE subscribed
  /\ UNCHANGED <<exchangeVars, tsscVars, taskVars, connectionVars, encoding,
                 commands, slot, decoder, requests>>

HandleFailed ==
  /\ Deliver("Failed")
  /\ UNCHANGED <<exchangeVars, tsscVars, taskVars, connectionVars, encoding,
                 commands, subscriberVars>>

(* ParseTSSCMeasurements: the decoder that meets this packet.              *)
DecoderFor(packet) ==
  IF packet.seq = 0 \/ ~decoder[PacketCacheIndex].created
  THEN NewDecoder(packet.epoch)
  ELSE decoder[PacketCacheIndex]

Accepts(packet) == DecoderFor(packet).expected = packet.seq

(* TSSCDecoder::IncrementSequenceNumber, after a packet was decoded.       *)
Advance(met) ==
  [created |-> TRUE, expected |-> NextSequence(met.expected),
   epoch |-> met.epoch, decoded |-> met.decoded + 1]

(* HandleDataPacket: without a cache the packet is dropped; out of         *)
(* sequence, it is ignored.  (m_tsscResetRequested of DataSubscriber only  *)
(* decides whether that is reported.)                                      *)
HandleDataPacket ==
  /\ Deliver("DataPacket")
  /\ LET packet == Head(responses)
         met == DecoderFor(packet)
     IN  decoder' =
           IF slot[PacketCacheIndex] = None THEN decoder
           ELSE [decoder EXCEPT ![PacketCacheIndex] =
                   IF Accepts(packet)
                   THEN Advance(met)
                   ELSE met]
  /\ UNCHANGED <<exchangeVars, tsscVars, taskVars, connectionVars, encoding,
                 commands, slot, subscribed, requests>>

-----------------------------------------------------------------------------

(* The connection breaks; Connect makes a new one (SetupConnection and     *)
(* SendOperationalModes on the subscriber, a new SubscriberConnection on   *)
(* the publisher).  What the threads of the old one still do is lost.      *)
Reconnect ==
  /\ connections < MaxConnections
  /\ validated' = FALSE
  /\ currentCacheIndex' = 0
  /\ nextCacheIndex' = 0
  /\ signalIndexCache' = None
  /\ nextSignalIndexCache' = None
  /\ pendingSignalIndexCache' = None
  /\ connectionSubscribed' = FALSE
  /\ tsscResetRequested' = FALSE
  /\ tsscSequenceNumber' = 0
  /\ handler' = "idle"
  /\ queuedTasks' = 0
  /\ takenCaches' = {}
  /\ encoding' = [p \in Publishers |-> None]
  /\ commands' = <<"DefineOperationalModes">>
  /\ responses' = <<>>
  /\ subscribed' = FALSE
  /\ packets' = 0
  /\ connections' = connections + 1
  /\ epoch' = epoch + 1
  /\ UNCHANGED <<slot, decoder, requests, built>>

CommandThread ==
  \/ HandleDefineOperationalModes
  \/ HandleSubscribe
  \/ HandleSubscribeFailure
  \/ HandleUnsubscribe
  \/ HandleSubscribeUpdate
  \/ SwapCache
  \/ RequestTsscReset
  \/ CompleteSubscribe
  \/ HandleConfirmUpdateSignalIndexCache

PoolTask == TakePending \/ \E cache \in takenCaches : ApplyPending(cache)

PublisherThread(p) == ReadCache(p) \/ PublishTSSCMeasurements(p)

ResponseThread ==
  \/ HandleUpdateSignalIndexCache
  \/ HandleSucceeded
  \/ HandleFailed
  \/ HandleDataPacket

Next ==
  \/ Subscribe
  \/ Unsubscribe
  \/ CommandThread
  \/ PoolTask
  \/ \E p \in Publishers : PublisherThread(p)
  \/ ResponseThread
  \/ Reconnect

Spec == Init /\ [][Next]_vars

(* The two reading threads and the thread pool keep running: asynchronous  *)
(* reads are armed again after every message and every queued task gets a  *)
(* thread.  Nothing is assumed of the users or of the network.             *)
FairSpec ==
  /\ Spec
  /\ WF_vars(CommandThread)
  /\ WF_vars(TakePending)
  /\ \A cache \in 1 .. MaxRequests : WF_vars(ApplyPending(cache))
  /\ WF_vars(ResponseThread)

-----------------------------------------------------------------------------
(* The type invariant: what each variable holds.                           *)
TypeOK ==
  /\ validated \in BOOLEAN
  /\ currentCacheIndex \in CacheIndex
  /\ nextCacheIndex \in CacheIndex
  /\ signalIndexCache \in CacheOrNone
  /\ nextSignalIndexCache \in CacheOrNone
  /\ pendingSignalIndexCache \in CacheOrNone
  /\ connectionSubscribed \in BOOLEAN
  /\ tsscResetRequested \in BOOLEAN
  /\ tsscSequenceNumber \in 0 .. MaxSequence
  /\ handler \in {"idle", "parsed", "swapped", "updated"}
  /\ queuedTasks \in Nat
  /\ takenCaches \in SUBSET Cache
  /\ encoding \in [Publishers -> CacheOrNone]
  /\ slot \in [CacheIndex -> CacheOrNone]
  /\ decoder \in [CacheIndex -> Decoder]
  /\ subscribed \in BOOLEAN
  /\ commands \in Seq(Command)
  /\ responses \in Seq(Response)
  /\ requests \in Nat
  /\ built \in CacheOrNone
  /\ connections \in Nat
  /\ epoch \in Nat
  /\ packets \in Nat

(* The marked messages in a channel: none, or exactly one.                 *)
NoneOf(queue, marked) == \A i \in 1 .. Len(queue) : queue[i] \notin marked
OneOf(queue, marked, message) ==
  \E i \in 1 .. Len(queue) :
    /\ queue[i] = message
    /\ \A j \in 1 .. Len(queue) : queue[j] \in marked => j = i

Confirmation == "ConfirmUpdateSignalIndexCache"
NoUpdate == NoneOf(responses, Updates)
NoConfirm == NoneOf(commands, {Confirmation})

(* Whatever the interleaving of resubscriptions, confirmations and         *)
(* reconnections, the cache that the publisher encodes with is at that     *)
(* moment held by the subscriber under the publisher's current cache index *)
(* (SubscriberConnection.cpp: the swap waits for the confirmation).        *)
ActiveCacheHeld ==
  Version > 1 /\ signalIndexCache # None =>
    slot[currentCacheIndex] = signalIndexCache

(* A version 2 publisher has at most one offer open, and an open offer is  *)
(* exactly one message under way: the update or its confirmation.  So a    *)
(* confirmation never confirms another cache than the one it answers.      *)
OneOfferOutstanding ==
  Version > 1 =>
    \/ /\ nextSignalIndexCache = None
       /\ NoUpdate
       /\ NoConfirm
    \/ /\ nextSignalIndexCache # None
       /\ NoConfirm
       /\ OneOf(responses, Updates, Update(nextCacheIndex, nextSignalIndexCache))
    \/ /\ nextSignalIndexCache # None
       /\ NoUpdate
       /\ OneOf(commands, {Confirmation}, Confirmation)
       /\ slot[nextCacheIndex] = nextSignalIndexCache

(* A cache that waits is never forgotten: an offer is open, whose          *)
(* confirmation will queue a task, or such a task is queued already.       *)
PendingHasTask ==
  pendingSignalIndexCache # None =>
    nextSignalIndexCache # None \/ queuedTasks > 0

(* A data packet that the subscriber's TSSC decoder accepts is the next    *)
(* one, in order and without a gap, of the run of the encoder that the     *)
(* decoder has followed since it was created: otherwise the decompressed   *)
(* values would be wrong, without an error.                                *)
TsscInStep ==
  responses # <<>> /\ Head(responses).type = "DataPacket"
    /\ slot[PacketCacheIndex] # None /\ Accepts(Head(responses)) =>
      /\ DecoderFor(Head(responses)).epoch = Head(responses).epoch
      /\ DecoderFor(Head(responses)).decoded = Head(responses).ordinal

(* Version 1 has no confirmation: the newest cache under way, or the one   *)
(* that the subscriber holds when none is, is the one that the publisher   *)
(* encodes with.                                                           *)
CacheFollows ==
  Version = 1 /\ signalIndexCache # None =>
    \/ NoUpdate /\ slot[0] = signalIndexCache
    \/ \E i \in 1 .. Len(responses) :
         /\ responses[i] = Update(0, signalIndexCache)
         /\ \A j \in 1 .. Len(responses) : responses[j] \in Updates => j <= i

(* An offer is confirmed, or ends with the connection.                     *)
OffersAreAnswered == nextSignalIndexCache # None ~> nextSignalIndexCache = None

(* The cache of a subscription is offered to the subscriber, at once or    *)
(* after it has waited, unless a newer subscription takes its place, the   *)
(* connection breaks, or an older cache, which a task holds that took it   *)
(* out before, comes in between: offering that one wipes the newest from   *)
(* pending (SubscriberConnection.cpp:1414) although it was "to be          *)
(* processed after current item" (1418), and parking it overwrites the     *)
(* newest; NewestSubscriptionInEffect, which the code does not keep, is    *)
(* about those cases.                                                      *)
Overtaken(cache) ==
  pendingSignalIndexCache = cache /\ \E older \in takenCaches : older < cache

NewestIsOffered ==
  \A cache \in 1 .. MaxRequests, n \in 1 .. MaxConnections :
    (Version > 1 /\ handler = "updated" /\ built = cache /\ connections = n)
      ~> \/ nextSignalIndexCache = cache
         \/ built > cache \/ connections # n \/ Overtaken(cache)

(* Refinement: what the two slots hold and the cache in use are a          *)
(* CacheHandover.                                                          *)
Handover == INSTANCE CacheHandover
  WITH held <- {slot[0], slot[1]} \ {None}, active <- signalIndexCache

(* Version 2 implements the handover: no step makes the publisher use a    *)
(* cache that the subscriber does not hold, or the subscriber drop the     *)
(* cache in use.                                                           *)
ImplementsHandover == Handover!Spec

-----------------------------------------------------------------------------
(* What the comments of the source say and the code does not keep.         *)

Quiescent ==
  /\ validated
  /\ commands = <<>>
  /\ responses = <<>>
  /\ handler = "idle"
  /\ queuedTasks = 0
  /\ takenCaches = {}

(* Constants.h, DataPacketFlags::CacheIndex: the flag determines which     *)
(* cache is used to decode a packet.  Hence the cache under the index that *)
(* a packet names is the one the packet was encoded with.                  *)
DecodedWithEncodingCache ==
  responses # <<>> /\ Head(responses).type = "DataPacket" =>
    slot[PacketCacheIndex] = Head(responses).cache

(* UpdateSignalIndexCache: a pending update is "to be processed after      *)
(* current item - this handles updated subscription that may be occurring  *)
(* in quick succession".  Hence, when all is done, the newest subscription *)
(* is in effect.                                                           *)
NewestSubscriptionInEffect ==
  Quiescent /\ signalIndexCache # None => signalIndexCache = built

=============================================================================
