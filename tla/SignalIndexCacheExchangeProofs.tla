------------------- MODULE SignalIndexCacheExchangeProofs -------------------
(***************************************************************************)
(* What holds of SignalIndexCacheExchange for every version, every set of  *)
(* publisher threads and every bound.                                      *)
(***************************************************************************)
EXTENDS SignalIndexCacheExchange, SequenceTheorems, TLAPS

-----------------------------------------------------------------------------
(* Facts about messages and channels.                                      *)

(* The constructors of messages make messages.                             *)
LEMMA MessageTypes ==
  /\ \A index \in CacheIndex, cache \in Cache : Update(index, cache) \in Response
  /\ \A cache \in Cache, seq \in 0 .. MaxSequence, run \in Nat, ordinal \in Nat :
       DataPacket(cache, seq, run, ordinal) \in Response
  /\ \A outcome \in {"Succeeded", "Failed"}, command \in Command :
       Result(outcome, command) \in Response
  BY DEF Update, DataPacket, Result, Response, Updates

(* What the subscriber sends are commands.                                 *)
LEMMA CommandTypes ==
  /\ "DefineOperationalModes" \in Command
  /\ "Subscribe" \in Command
  /\ "Unsubscribe" \in Command
  /\ "ConfirmUpdateSignalIndexCache" \in Command
  BY DEF Command

(* Sending to and receiving from a channel keep the type of the channel.   *)
LEMMA SendType ==
  ASSUME NEW S, NEW queue \in Seq(S), NEW message \in S
  PROVE  Append(queue, message) \in Seq(S)
  OBVIOUS

LEMMA ReceiveType ==
  ASSUME NEW S, NEW queue \in Seq(S), queue # <<>>
  PROVE  Head(queue) \in S /\ Tail(queue) \in Seq(S)
  BY HeadTailProperties

(* The sequence number stays in its range.                                 *)
LEMMA NextSequenceType ==
  ASSUME NEW seq \in 0 .. MaxSequence
  PROVE  NextSequence(seq) \in 1 .. MaxSequence
  BY SequenceAssumption DEF NextSequence

-----------------------------------------------------------------------------
(* Type correctness.                                                       *)

(* A parsed request has a cache.                                           *)
ParsedHasCache == handler = "parsed" => built # None

TypeInv == TypeOK /\ ParsedHasCache

LEMMA TypeInit == Init => TypeInv
  <1> SUFFICES ASSUME Init PROVE TypeInv
    OBVIOUS
  <1>1. commands \in Seq(Command) /\ responses \in Seq(Response)
    BY CommandTypes DEF Init
  <1>2. decoder \in [CacheIndex -> Decoder]
    BY SequenceAssumption DEF Init, NoDecoder, Decoder
  <1> QED
    BY <1>1, <1>2, SequenceAssumption DEF Init, TypeInv, TypeOK, ParsedHasCache,
       CacheIndex, Cache, CacheOrNone, None

LEMMA TypeNext == TypeInv /\ [Next]_vars => TypeInv'
  <1> SUFFICES ASSUME TypeInv, [Next]_vars PROVE TypeInv'
    OBVIOUS
  <1> USE DEF TypeInv, TypeOK, ParsedHasCache, exchangeVars, tsscVars, taskVars,
          subscriberVars, connectionVars, CacheIndex, Cache, CacheOrNone, None
  <1>0. ASSUME NEW command, Receive(command)
        PROVE  commands' \in Seq(Command)
    BY <1>0, ReceiveType DEF Receive
  <1>a. ASSUME NEW type, Deliver(type)
        PROVE  Head(responses) \in Response /\ responses' \in Seq(Response)
    BY <1>a, ReceiveType DEF Deliver
  <1>1. CASE Subscribe
    <2>1. commands' \in Seq(Command)
      BY <1>1, CommandTypes, SendType DEF Subscribe
    <2> QED
      BY <1>1, <2>1 DEF Subscribe
  <1>2. CASE Unsubscribe
    <2>1. commands' \in Seq(Command)
      BY <1>2, CommandTypes, SendType DEF Unsubscribe
    <2> QED
      BY <1>2, <2>1 DEF Unsubscribe
  <1>3. CASE HandleDefineOperationalModes
    <2>1. commands' \in Seq(Command)
      BY <1>3, <1>0 DEF HandleDefineOperationalModes
    <2>2. responses' \in Seq(Response)
      BY <1>3, MessageTypes, CommandTypes, SendType DEF HandleDefineOperationalModes
    <2> QED
      BY <1>3, <2>1, <2>2 DEF HandleDefineOperationalModes
  <1>4. CASE HandleSubscribe
    <2>1. commands' \in Seq(Command)
      BY <1>4, <1>0 DEF HandleSubscribe
    <2> QED
      BY <1>4, <2>1 DEF HandleSubscribe
  <1>5. CASE HandleSubscribeFailure
    <2>1. commands' \in Seq(Command)
      BY <1>5, <1>0 DEF HandleSubscribeFailure
    <2>2. responses' \in Seq(Response)
      BY <1>5, MessageTypes, CommandTypes, SendType DEF HandleSubscribeFailure
    <2> QED
      BY <1>5, <2>1, <2>2 DEF HandleSubscribeFailure, Receive
  <1>6. CASE HandleUnsubscribe
    <2>1. commands' \in Seq(Command)
      BY <1>6, <1>0 DEF HandleUnsubscribe
    <2> QED
      BY <1>6, <2>1 DEF HandleUnsubscribe
  <1>b. ASSUME NEW cache \in Cache, UpdateSignalIndexCache(cache)
        PROVE  /\ responses' \in Seq(Response)
               /\ nextCacheIndex' \in CacheIndex
               /\ nextSignalIndexCache' \in CacheOrNone
               /\ pendingSignalIndexCache' \in CacheOrNone
               /\ UNCHANGED <<currentCacheIndex, signalIndexCache>>
    <2>1. CASE OfferCache(cache)
      <3>1. 1 - currentCacheIndex \in CacheIndex
        OBVIOUS
      <3>2. responses' \in Seq(Response)
        BY <2>1, <3>1, MessageTypes, SendType DEF OfferCache
      <3> QED
        BY <2>1, <3>1, <3>2 DEF OfferCache
    <2>2. CASE ParkCache(cache)
      BY <2>2 DEF ParkCache
    <2> QED
      BY <1>b, <2>1, <2>2 DEF UpdateSignalIndexCache
  <1>7. CASE HandleSubscribeUpdate
    <2>1. built \in Cache /\ UpdateSignalIndexCache(built)
      BY <1>7 DEF HandleSubscribeUpdate
    <2> QED
      BY <1>7, <2>1, <1>b DEF HandleSubscribeUpdate
  <1>8. CASE SwapCache
    <2>1. responses' \in Seq(Response)
      BY <1>8, MessageTypes, SendType DEF SwapCache
    <2> QED
      BY <1>8, <2>1 DEF SwapCache
  <1>9. CASE RequestTsscReset
    BY <1>9 DEF RequestTsscReset
  <1>10. CASE CompleteSubscribe
    <2>1. responses' \in Seq(Response)
      BY <1>10, MessageTypes, CommandTypes, SendType DEF CompleteSubscribe
    <2> QED
      BY <1>10, <2>1 DEF CompleteSubscribe
  <1>11. CASE HandleConfirmUpdateSignalIndexCache
    <2>1. commands' \in Seq(Command)
      BY <1>11, <1>0 DEF HandleConfirmUpdateSignalIndexCache
    <2>2. /\ signalIndexCache' \in CacheOrNone
          /\ currentCacheIndex' \in CacheIndex
          /\ nextSignalIndexCache' \in CacheOrNone
          /\ tsscResetRequested' \in BOOLEAN
      <3>1. CASE nextSignalIndexCache # None
        BY <1>11, <3>1 DEF HandleConfirmUpdateSignalIndexCache
      <3>2. CASE nextSignalIndexCache = None
        BY <1>11, <3>2 DEF HandleConfirmUpdateSignalIndexCache
      <3> QED
        BY <3>1, <3>2
    <2>3. queuedTasks' \in Nat
      BY <1>11 DEF HandleConfirmUpdateSignalIndexCache
    <2> QED
      BY <1>11, <2>1, <2>2, <2>3 DEF HandleConfirmUpdateSignalIndexCache
  <1>12. CASE TakePending
    BY <1>12 DEF TakePending
  <1>13. ASSUME NEW cache \in takenCaches, ApplyPending(cache) PROVE TypeInv'
    BY <1>13, <1>b DEF ApplyPending
  <1>14. ASSUME NEW p \in Publishers, ReadCache(p) PROVE TypeInv'
    BY <1>14 DEF ReadCache
  <1>15. ASSUME NEW p \in Publishers, PublishTSSCMeasurements(p) PROVE TypeInv'
    <2> DEFINE run == IF tsscResetRequested THEN epoch + 1 ELSE epoch
               seq == IF tsscResetRequested THEN 0 ELSE tsscSequenceNumber
               ordinal == IF tsscResetRequested THEN 0 ELSE packets
    <2>1. /\ run \in Nat
          /\ seq \in 0 .. MaxSequence
          /\ ordinal \in Nat
      BY SequenceAssumption
    <2>2. encoding[p] \in Cache /\ encoding' \in [Publishers -> CacheOrNone]
      BY <1>15 DEF PublishTSSCMeasurements
    <2>3. responses' \in Seq(Response)
      <3>1. \/ responses' = responses
            \/ responses' = Append(responses, DataPacket(encoding[p], seq, run, ordinal))
        BY <1>15 DEF PublishTSSCMeasurements
      <3> HIDE DEF run, seq, ordinal
      <3>2. DataPacket(encoding[p], seq, run, ordinal) \in Response
        BY <2>1, <2>2, MessageTypes
      <3>3. Append(responses, DataPacket(encoding[p], seq, run, ordinal)) \in Seq(Response)
        BY <3>2, SendType
      <3> QED
        BY <3>1, <3>3
    <2>4. tsscSequenceNumber' \in 0 .. MaxSequence
      <3>1. tsscSequenceNumber' \in {seq, NextSequence(seq)}
        BY <1>15 DEF PublishTSSCMeasurements
      <3> HIDE DEF seq
      <3>2. NextSequence(seq) \in 1 .. MaxSequence
        BY <2>1, NextSequenceType
      <3> QED
        BY <2>1, <3>1, <3>2, SequenceAssumption
    <2>5. epoch' \in Nat /\ packets' \in Nat
      BY <1>15, <2>1 DEF PublishTSSCMeasurements
    <2> QED
      BY <1>15, <2>2, <2>3, <2>4, <2>5 DEF PublishTSSCMeasurements
  <1>16. CASE HandleUpdateSignalIndexCache
    <2>1. /\ Head(responses) \in Response
          /\ Head(responses).type = "UpdateSignalIndexCache"
          /\ responses' \in Seq(Response)
      BY <1>16, <1>a DEF HandleUpdateSignalIndexCache, Deliver
    <2>2. Head(responses).index \in CacheIndex /\ Head(responses).cache \in Cache
      BY <2>1 DEF Response, Updates
    <2>3. slot' \in [CacheIndex -> CacheOrNone]
      BY <1>16, <2>2 DEF HandleUpdateSignalIndexCache
    <2>4. decoder' \in [CacheIndex -> Decoder]
      <3>1. NoDecoder \in Decoder
        BY SequenceAssumption DEF NoDecoder, Decoder
      <3> QED
        BY <1>16, <3>1 DEF HandleUpdateSignalIndexCache
    <2>5. commands' \in Seq(Command)
      BY <1>16, CommandTypes, SendType DEF HandleUpdateSignalIndexCache, Confirm
    <2> QED
      BY <1>16, <2>1, <2>3, <2>4, <2>5 DEF HandleUpdateSignalIndexCache
  <1>17. CASE HandleSucceeded
    <2>1. responses' \in Seq(Response)
      BY <1>17, <1>a DEF HandleSucceeded
    <2> QED
      BY <1>17, <2>1 DEF HandleSucceeded
  <1>18. CASE HandleFailed
    <2>1. responses' \in Seq(Response)
      BY <1>18, <1>a DEF HandleFailed
    <2> QED
      BY <1>18, <2>1 DEF HandleFailed
  <1>19. CASE HandleDataPacket
    <2> DEFINE packet == Head(responses)
               met == DecoderFor(packet)
    <2>1. /\ packet \in Response
          /\ packet.type = "DataPacket"
          /\ responses' \in Seq(Response)
      BY <1>19, <1>a DEF HandleDataPacket, Deliver
    <2>2. packet.epoch \in Nat
      BY <2>1 DEF Response, Updates
    <2>3. met \in Decoder
      BY <2>2, SequenceAssumption DEF DecoderFor, NewDecoder, Decoder, PacketCacheIndex
    <2>4. Advance(met) \in Decoder
      <3> HIDE DEF met
      <3>1. met.expected \in 0 .. MaxSequence
        BY <2>3 DEF Decoder
      <3>2. NextSequence(met.expected) \in 1 .. MaxSequence
        BY <3>1, NextSequenceType
      <3>3. met.epoch \in Nat /\ met.decoded + 1 \in Nat
        BY <2>3 DEF Decoder
      <3> QED
        BY <3>2, <3>3, SequenceAssumption DEF Advance, Decoder
    <2>5. decoder' \in [CacheIndex -> Decoder]
      BY <1>19, <2>3, <2>4 DEF HandleDataPacket, PacketCacheIndex
    <2> QED
      BY <1>19, <2>1, <2>5 DEF HandleDataPacket
  <1>20. CASE Reconnect
    <2>1. commands' \in Seq(Command) /\ responses' \in Seq(Response)
      BY <1>20, CommandTypes DEF Reconnect
    <2>2. /\ tsscSequenceNumber' \in 0 .. MaxSequence
          /\ connections' \in Nat
          /\ epoch' \in Nat
      BY <1>20, SequenceAssumption DEF Reconnect
    <2>3. encoding' \in [Publishers -> CacheOrNone]
      BY <1>20 DEF Reconnect
    <2> QED
      BY <1>20, <2>1, <2>2, <2>3 DEF Reconnect
  <1>21. CASE UNCHANGED vars
    BY <1>21 DEF vars
  <1> QED
    BY <1>1, <1>2, <1>3, <1>4, <1>5, <1>6, <1>7, <1>8, <1>9, <1>10, <1>11,
       <1>12, <1>13, <1>14, <1>15, <1>16, <1>17, <1>18, <1>19, <1>20, <1>21
       DEF Next, CommandThread, PoolTask, PublisherThread, ResponseThread

(* Every variable keeps its type.                                          *)
THEOREM TypeCorrect == Spec => []TypeOK
  <1>1. TypeInv => TypeOK
    BY DEF TypeInv
  <1> QED
    BY TypeInit, TypeNext, <1>1, PTL DEF Spec

-----------------------------------------------------------------------------
(* Channels that hold at most one marked message.                          *)

LEMMA NoneOfAppend ==
  ASSUME NEW S, NEW queue \in Seq(S), NEW marked, NoneOf(queue, marked),
         NEW message \in S, message \notin marked
  PROVE  NoneOf(Append(queue, message), marked)
  BY DEF NoneOf

LEMMA OneOfAppend ==
  ASSUME NEW S, NEW queue \in Seq(S), NEW marked, NEW mark,
         OneOf(queue, marked, mark), NEW message \in S, message \notin marked
  PROVE  OneOf(Append(queue, message), marked, mark)
  <1>1. PICK i \in 1 .. Len(queue) :
          /\ queue[i] = mark
          /\ \A j \in 1 .. Len(queue) : queue[j] \in marked => j = i
    BY DEF OneOf
  <1>2. /\ i \in 1 .. Len(Append(queue, message))
        /\ Append(queue, message)[i] = mark
        /\ \A j \in 1 .. Len(Append(queue, message)) :
             Append(queue, message)[j] \in marked => j = i
    BY <1>1
  <1> QED
    BY <1>2 DEF OneOf

LEMMA FirstOfAppend ==
  ASSUME NEW S, NEW queue \in Seq(S), NEW marked, NoneOf(queue, marked), NEW mark \in S
  PROVE  OneOf(Append(queue, mark), marked, mark)
  <1>1. /\ Len(queue) + 1 \in 1 .. Len(Append(queue, mark))
        /\ Append(queue, mark)[Len(queue) + 1] = mark
        /\ \A j \in 1 .. Len(Append(queue, mark)) :
             Append(queue, mark)[j] \in marked => j = Len(queue) + 1
    BY DEF NoneOf
  <1> QED
    BY <1>1 DEF OneOf

LEMMA TailElements ==
  ASSUME NEW S, NEW queue \in Seq(S), queue # <<>>
  PROVE  /\ Len(queue) \in Nat \ {0}
         /\ Head(queue) = queue[1]
         /\ Tail(queue) \in Seq(S)
         /\ Len(Tail(queue)) = Len(queue) - 1
         /\ \A i \in 1 .. Len(Tail(queue)) : Tail(queue)[i] = queue[i + 1]
  BY HeadTailProperties, EmptySeq, LenProperties

LEMMA NoneOfTail ==
  ASSUME NEW S, NEW queue \in Seq(S), queue # <<>>, NEW marked, NoneOf(queue, marked)
  PROVE  /\ Head(queue) \notin marked
         /\ NoneOf(Tail(queue), marked)
  BY TailElements DEF NoneOf

LEMMA OneOfTail ==
  ASSUME NEW S, NEW queue \in Seq(S), queue # <<>>, NEW marked, NEW mark \in marked,
         OneOf(queue, marked, mark)
  PROVE  \/ /\ Head(queue) \notin marked
            /\ OneOf(Tail(queue), marked, mark)
         \/ /\ Head(queue) = mark
            /\ NoneOf(Tail(queue), marked)
  <1>1. PICK i \in 1 .. Len(queue) :
          /\ queue[i] = mark
          /\ \A j \in 1 .. Len(queue) : queue[j] \in marked => j = i
    BY DEF OneOf
  <1>2. CASE i = 1
    <2>1. \A j \in 1 .. Len(Tail(queue)) : Tail(queue)[j] \notin marked
      BY <1>1, <1>2, TailElements
    <2> QED
      BY <1>1, <1>2, <2>1, TailElements DEF NoneOf
  <1>3. CASE i # 1
    <2>1. /\ i - 1 \in 1 .. Len(Tail(queue))
          /\ Tail(queue)[i - 1] = mark
          /\ \A j \in 1 .. Len(Tail(queue)) : Tail(queue)[j] \in marked => j = i - 1
      BY <1>1, <1>3, TailElements
    <2>2. Head(queue) \notin marked
      BY <1>1, <1>3, TailElements
    <2> QED
      BY <2>1, <2>2 DEF OneOf
  <1> QED
    BY <1>2, <1>3


(* What sending or receiving a message that is not marked leaves as it was. *)
SameMarks(old, new, marked) ==
  /\ NoneOf(old, marked) => NoneOf(new, marked)
  /\ \A mark \in marked : OneOf(old, marked, mark) => OneOf(new, marked, mark)

LEMMA SameMarksAppend ==
  ASSUME NEW S, NEW queue \in Seq(S), NEW marked, NEW message \in S, message \notin marked
  PROVE  SameMarks(queue, Append(queue, message), marked)
  BY NoneOfAppend, OneOfAppend DEF SameMarks

LEMMA SameMarksTail ==
  ASSUME NEW S, NEW queue \in Seq(S), queue # <<>>, NEW marked, Head(queue) \notin marked
  PROVE  SameMarks(queue, Tail(queue), marked)
  <1>1. NoneOf(queue, marked) => NoneOf(Tail(queue), marked)
    BY NoneOfTail
  <1>2. ASSUME NEW mark \in marked, OneOf(queue, marked, mark)
        PROVE  OneOf(Tail(queue), marked, mark)
    BY <1>2, OneOfTail
  <1> QED
    BY <1>1, <1>2 DEF SameMarks

LEMMA SameMarksSame ==
  ASSUME NEW queue, NEW marked
  PROVE  SameMarks(queue, queue, marked)
  BY DEF SameMarks

-----------------------------------------------------------------------------
(* The exchange of caches.                                                 *)

Modes == "DefineOperationalModes"

(* Before the operational modes are defined nothing is exchanged.          *)
Unvalidated ==
  ~validated => /\ signalIndexCache = None
                /\ nextSignalIndexCache = None
                /\ pendingSignalIndexCache = None
                /\ queuedTasks = 0
                /\ takenCaches = {}
                /\ handler = "idle"

(* The operational modes are defined once for a connection.                *)
ModesOnce ==
  IF validated THEN NoneOf(commands, {Modes}) ELSE OneOf(commands, {Modes}, Modes)

(* What is offered goes into the slot that is not in use.                  *)
OtherSlot ==
  Version > 1 /\ nextSignalIndexCache # None => nextCacheIndex = 1 - currentCacheIndex

ExchangeInv ==
  /\ Unvalidated
  /\ ModesOnce
  /\ OtherSlot
  /\ OneOfferOutstanding
  /\ ActiveCacheHeld
  /\ PendingHasTask

LEMMA ExchangeInit == Init => ExchangeInv
  <1> SUFFICES ASSUME Init PROVE ExchangeInv
    OBVIOUS
  <1>1. OneOf(commands, {Modes}, Modes) /\ NoConfirm /\ NoUpdate
    BY DEF Init, OneOf, NoneOf, NoConfirm, NoUpdate, Modes, Confirmation
  <1> QED
    BY <1>1 DEF Init, ExchangeInv, Unvalidated, ModesOnce, OtherSlot,
       OneOfferOutstanding, ActiveCacheHeld, PendingHasTask

(* A step that sends or receives nothing of the exchange and leaves its    *)
(* state alone keeps the invariant.                                        *)
LEMMA ExchangeFrame ==
  ASSUME ExchangeInv,
         UNCHANGED <<exchangeVars, validated, slot, queuedTasks, takenCaches>>,
         ~validated => handler' = "idle",
         SameMarks(commands, commands', {Confirmation}),
         SameMarks(commands, commands', {Modes}),
         SameMarks(responses, responses', Updates),
         TypeInv
  PROVE  ExchangeInv'
  <1>1. Unvalidated' /\ OtherSlot' /\ ActiveCacheHeld' /\ PendingHasTask'
    BY DEF ExchangeInv, Unvalidated, OtherSlot, ActiveCacheHeld, PendingHasTask,
       exchangeVars
  <1>2. ModesOnce'
    BY DEF ExchangeInv, ModesOnce, SameMarks
  <1>3. OneOfferOutstanding'
    <2>1. nextSignalIndexCache # None =>
            Update(nextCacheIndex, nextSignalIndexCache) \in Updates
      BY DEF TypeInv, TypeOK, Update, Updates, CacheOrNone, Cache, None
    <2> QED
      BY <2>1 DEF ExchangeInv, OneOfferOutstanding, NoUpdate, NoConfirm, SameMarks,
         exchangeVars
  <1> QED
    BY <1>1, <1>2, <1>3 DEF ExchangeInv

LEMMA ExchangeNext == TypeInv /\ ExchangeInv /\ [Next]_vars => ExchangeInv'
  <1> SUFFICES ASSUME TypeInv, ExchangeInv, [Next]_vars PROVE ExchangeInv'
    OBVIOUS
  <1>q. commands \in Seq(Command) /\ responses \in Seq(Response)
    BY DEF TypeInv, TypeOK
  <1>m. /\ "Subscribe" \notin {Confirmation} /\ "Subscribe" \notin {Modes}
        /\ "Unsubscribe" \notin {Confirmation} /\ "Unsubscribe" \notin {Modes}
        /\ Confirmation \notin {Modes} /\ Modes \notin {Confirmation}
        /\ \A outcome \in {"Succeeded", "Failed"}, command \in Command :
             Result(outcome, command) \notin Updates
    BY DEF Confirmation, Modes, Result, Updates
  <1>r. SameMarks(responses, responses, Updates)
    BY SameMarksSame
  <1>c. /\ SameMarks(commands, commands, {Confirmation})
        /\ SameMarks(commands, commands, {Modes})
    BY SameMarksSame
  (* Receiving a command, sending a result, receiving a response. *)
  <1>1. ASSUME NEW command \in {"Subscribe", "Unsubscribe"}, Receive(command)
        PROVE  /\ SameMarks(commands, commands', {Confirmation})
               /\ SameMarks(commands, commands', {Modes})
               /\ validated
    BY <1>1, <1>q, <1>m, SameMarksTail DEF Receive
  <1>2. ASSUME NEW outcome \in {"Succeeded", "Failed"}, NEW command \in Command,
               responses' = Append(responses, Result(outcome, command))
        PROVE  SameMarks(responses, responses', Updates)
    BY <1>2, <1>q, <1>m, MessageTypes, SameMarksAppend
  <1>3. ASSUME NEW type \in {"Succeeded", "Failed", "DataPacket"}, Deliver(type)
        PROVE  SameMarks(responses, responses', Updates)
    <2>1. Head(responses) \notin Updates
      BY <1>3 DEF Deliver, Updates
    <2> QED
      BY <1>3, <2>1, <1>q, SameMarksTail DEF Deliver
  (* The steps that do not take part in the exchange. *)
  <1>4. CASE Subscribe
    <2>1. Append(commands, "Unsubscribe") \in Seq(Command)
      BY <1>q, CommandTypes, SendType
    <2>2. ASSUME NEW marked, "Unsubscribe" \notin marked, "Subscribe" \notin marked
          PROVE  SameMarks(commands, commands', marked)
      <3>1. SameMarks(commands, Append(commands, "Unsubscribe"), marked)
        BY <1>q, <2>2, CommandTypes, SameMarksAppend
      <3>2. SameMarks(Append(commands, "Unsubscribe"),
                      Append(Append(commands, "Unsubscribe"), "Subscribe"), marked)
        BY <2>1, <2>2, CommandTypes, SameMarksAppend
      <3>3. SameMarks(commands, Append(commands, "Subscribe"), marked)
        BY <1>q, <2>2, CommandTypes, SameMarksAppend
      <3> QED
        BY <1>4, <3>1, <3>2, <3>3 DEF Subscribe, SameMarks
    <2> QED
      BY <1>4, <1>m, <1>r, <2>2, ExchangeFrame
         DEF Subscribe, exchangeVars, connectionVars, taskVars, ExchangeInv, Unvalidated
  <1>5. CASE Unsubscribe
    <2>1. /\ SameMarks(commands, commands', {Confirmation})
          /\ SameMarks(commands, commands', {Modes})
      BY <1>5, <1>q, <1>m, CommandTypes, SameMarksAppend DEF Unsubscribe
    <2> QED
      BY <1>5, <1>r, <2>1, ExchangeFrame
         DEF Unsubscribe, exchangeVars, connectionVars, subscriberVars, taskVars,
             ExchangeInv, Unvalidated
  <1>6. CASE HandleSubscribe
    BY <1>6, <1>1, <1>r, ExchangeFrame
       DEF HandleSubscribe, exchangeVars, subscriberVars, taskVars
  <1>7. CASE HandleSubscribeFailure
    <2>1. SameMarks(responses, responses', Updates)
      BY <1>7, <1>2, CommandTypes DEF HandleSubscribeFailure
    <2> QED
      BY <1>7, <1>1, <2>1, ExchangeFrame
         DEF HandleSubscribeFailure, exchangeVars, subscriberVars, taskVars,
             connectionVars
  <1>8. CASE HandleUnsubscribe
    BY <1>8, <1>1, <1>r, ExchangeFrame
       DEF HandleUnsubscribe, exchangeVars, subscriberVars, taskVars
  <1>9. CASE RequestTsscReset
    BY <1>9, <1>c, <1>r, ExchangeFrame
       DEF RequestTsscReset, exchangeVars, subscriberVars, taskVars, ExchangeInv,
           Unvalidated
  <1>10. CASE CompleteSubscribe
    <2>1. SameMarks(responses, responses', Updates)
      BY <1>10, <1>2, CommandTypes DEF CompleteSubscribe
    <2> QED
      BY <1>10, <1>c, <2>1, ExchangeFrame
         DEF CompleteSubscribe, exchangeVars, subscriberVars, taskVars
  <1>11. ASSUME NEW p \in Publishers, ReadCache(p) PROVE ExchangeInv'
    BY <1>11, <1>c, <1>r, ExchangeFrame
       DEF ReadCache, exchangeVars, subscriberVars, taskVars, connectionVars,
           ExchangeInv, Unvalidated
  <1>12. ASSUME NEW p \in Publishers, PublishTSSCMeasurements(p) PROVE ExchangeInv'
    <2> DEFINE run == IF tsscResetRequested THEN epoch + 1 ELSE epoch
               seq == IF tsscResetRequested THEN 0 ELSE tsscSequenceNumber
               ordinal == IF tsscResetRequested THEN 0 ELSE packets
               packet == DataPacket(encoding[p], seq, run, ordinal)
    <2>1. responses' = responses \/ responses' = Append(responses, packet)
      BY <1>12 DEF PublishTSSCMeasurements
    <2>2. packet \in Response
      <3>1. /\ run \in Nat
            /\ seq \in 0 .. MaxSequence
            /\ ordinal \in Nat
            /\ encoding[p] \in Cache
        BY <1>12, SequenceAssumption
           DEF TypeInv, TypeOK, PublishTSSCMeasurements, CacheOrNone, Cache, None
      <3> HIDE DEF run, seq, ordinal
      <3> QED
        BY <3>1, MessageTypes
    <2>3. packet \notin Updates
      BY DEF DataPacket, Updates
    <2> HIDE DEF packet
    <2>4. SameMarks(responses, Append(responses, packet), Updates)
      BY <2>2, <2>3, <1>q, SameMarksAppend
    <2> QED
      BY <1>12, <1>c, <1>r, <2>1, <2>4, ExchangeFrame
         DEF PublishTSSCMeasurements, exchangeVars, subscriberVars, taskVars,
             connectionVars, ExchangeInv, Unvalidated
  <1>13. CASE HandleSucceeded
    BY <1>13, <1>3, <1>c, ExchangeFrame
       DEF HandleSucceeded, exchangeVars, taskVars, connectionVars, ExchangeInv,
           Unvalidated
  <1>14. CASE HandleFailed
    BY <1>14, <1>3, <1>c, ExchangeFrame
       DEF HandleFailed, exchangeVars, taskVars, connectionVars, subscriberVars,
           ExchangeInv, Unvalidated
  <1>15. CASE HandleDataPacket
    BY <1>15, <1>3, <1>c, ExchangeFrame
       DEF HandleDataPacket, exchangeVars, taskVars, connectionVars, ExchangeInv,
           Unvalidated
  <1>16. CASE UNCHANGED vars
    BY <1>16, <1>c, <1>r, ExchangeFrame
       DEF vars, exchangeVars, taskVars, connectionVars, subscriberVars, ExchangeInv,
           Unvalidated
  (* The steps of the exchange. *)
  <1>17. CASE HandleDefineOperationalModes
    <2>1. NoneOf(commands', {Modes}) /\ Head(commands) = Modes /\ ~validated
      BY <1>17, <1>q, NoneOfTail, OneOfTail
         DEF HandleDefineOperationalModes, Receive, ExchangeInv, ModesOnce, Modes
    <2>2. SameMarks(commands, commands', {Confirmation})
      BY <1>17, <1>q, <1>m, <2>1, SameMarksTail DEF HandleDefineOperationalModes, Receive
    <2>3. SameMarks(responses, responses', Updates)
      BY <1>17, <1>2, CommandTypes DEF HandleDefineOperationalModes
    <2> QED
      BY <1>17, <2>1, <2>2, <2>3
         DEF HandleDefineOperationalModes, ExchangeInv, Unvalidated, ModesOnce,
             OtherSlot, OneOfferOutstanding, ActiveCacheHeld, PendingHasTask,
             NoUpdate, NoConfirm, SameMarks, taskVars, subscriberVars
  <1>18. ASSUME NEW cache \in Cache, UpdateSignalIndexCache(cache), validated,
                UNCHANGED <<validated, commands, slot>>,
                queuedTasks' = queuedTasks
         PROVE  ExchangeInv'
    <2>1. CASE OfferCache(cache)
      <3>1. 1 - currentCacheIndex \in CacheIndex
        BY DEF TypeInv, TypeOK, CacheIndex
      <3>2. /\ Update(1 - currentCacheIndex, cache) \in Response
            /\ Update(1 - currentCacheIndex, cache) \in Updates
        BY <3>1 DEF Update, Updates, Response
      <3>3. OneOf(responses', Updates, Update(1 - currentCacheIndex, cache)) /\ NoConfirm
        BY <2>1, <3>2, <1>q, FirstOfAppend
           DEF OfferCache, ExchangeInv, OneOfferOutstanding, NoUpdate
      <3> QED
        BY <1>18, <2>1, <3>3
           DEF OfferCache, ExchangeInv, Unvalidated, ModesOnce, OtherSlot,
               OneOfferOutstanding, ActiveCacheHeld, PendingHasTask, NoConfirm,
               Cache, None
    <2>2. CASE ParkCache(cache)
      BY <1>18, <2>2
         DEF ParkCache, ExchangeInv, Unvalidated, ModesOnce, OtherSlot,
             OneOfferOutstanding, ActiveCacheHeld, PendingHasTask, NoUpdate, NoConfirm
    <2> QED
      BY <1>18, <2>1, <2>2 DEF UpdateSignalIndexCache
  <1>19. CASE HandleSubscribeUpdate
    <2>1. built \in Cache /\ validated
      BY <1>19 DEF HandleSubscribeUpdate, TypeInv, TypeOK, ParsedHasCache, Cache,
         CacheOrNone, None, ExchangeInv, Unvalidated
    <2> QED
      BY <1>19, <2>1, <1>18 DEF HandleSubscribeUpdate, subscriberVars, taskVars
  <1>20. ASSUME NEW cache \in takenCaches, ApplyPending(cache) PROVE ExchangeInv'
    <2>1. cache \in Cache /\ validated
      BY DEF TypeInv, TypeOK, ExchangeInv, Unvalidated
    <2> QED
      BY <1>20, <2>1, <1>18 DEF ApplyPending, subscriberVars, connectionVars
  <1>21. CASE SwapCache
    BY <1>21 DEF SwapCache, ExchangeInv, Unvalidated, ModesOnce, OtherSlot,
       OneOfferOutstanding, ActiveCacheHeld, PendingHasTask, taskVars
  <1>22. CASE HandleConfirmUpdateSignalIndexCache
    <2>1. Head(commands) = Confirmation /\ commands # <<>> /\ validated
      BY <1>22 DEF HandleConfirmUpdateSignalIndexCache, Receive, Confirmation
    <2>2. SameMarks(commands, commands', {Modes})
      BY <1>22, <1>q, <1>m, <2>1, SameMarksTail
         DEF HandleConfirmUpdateSignalIndexCache, Receive
    <2>3. Version > 1 =>
            /\ nextSignalIndexCache # None
            /\ NoUpdate
            /\ slot[nextCacheIndex] = nextSignalIndexCache
            /\ NoneOf(commands', {Confirmation})
      BY <1>22, <1>q, <2>1, NoneOfTail, OneOfTail
         DEF HandleConfirmUpdateSignalIndexCache, Receive, ExchangeInv,
             OneOfferOutstanding, NoConfirm
    <2>4. queuedTasks' > 0
      BY <1>22 DEF HandleConfirmUpdateSignalIndexCache, TypeInv, TypeOK
    <2> QED
      BY <1>22, <2>1, <2>2, <2>3, <2>4
         DEF HandleConfirmUpdateSignalIndexCache, ExchangeInv, Unvalidated, ModesOnce,
             OtherSlot, OneOfferOutstanding, ActiveCacheHeld, PendingHasTask,
             NoUpdate, NoConfirm, SameMarks, connectionVars, subscriberVars
  <1>23. CASE TakePending
    BY <1>23
       DEF TakePending, ExchangeInv, Unvalidated, ModesOnce, OtherSlot,
           OneOfferOutstanding, ActiveCacheHeld, PendingHasTask, NoUpdate, NoConfirm,
           connectionVars, subscriberVars
  <1>24. CASE HandleUpdateSignalIndexCache
    <2> DEFINE update == Head(responses)
    <2>1. responses # <<>> /\ responses' = Tail(responses) /\ update \in Updates
      <3>1. update \in Response /\ update.type = "UpdateSignalIndexCache"
        BY <1>24, <1>q, ReceiveType DEF HandleUpdateSignalIndexCache, Deliver
      <3> QED
        BY <1>24, <3>1 DEF HandleUpdateSignalIndexCache, Deliver, Response, Updates
    <2>2. SameMarks(commands, commands', {Modes})
      BY <1>24, <1>q, <1>c, <1>m, CommandTypes, SameMarksAppend
         DEF HandleUpdateSignalIndexCache, Confirm, Confirmation
    <2>3. ASSUME Version > 1
          PROVE  /\ nextSignalIndexCache # None
                 /\ update = Update(nextCacheIndex, nextSignalIndexCache)
                 /\ NoneOf(responses', Updates)
                 /\ OneOf(commands', {Confirmation}, Confirmation)
      <3>1. /\ nextSignalIndexCache # None
            /\ NoConfirm
            /\ OneOf(responses, Updates, Update(nextCacheIndex, nextSignalIndexCache))
        BY <1>q, <2>1, <2>3, NoneOfTail DEF ExchangeInv, OneOfferOutstanding, NoUpdate
      <3>2. Update(nextCacheIndex, nextSignalIndexCache) \in Updates
        BY <3>1 DEF TypeInv, TypeOK, Update, Updates, CacheOrNone, Cache, None
      <3>3. /\ update = Update(nextCacheIndex, nextSignalIndexCache)
            /\ NoneOf(responses', Updates)
        BY <1>q, <2>1, <3>1, <3>2, OneOfTail
      <3>4. OneOf(commands', {Confirmation}, Confirmation)
        BY <1>24, <1>q, <2>3, <3>1, CommandTypes, FirstOfAppend
           DEF HandleUpdateSignalIndexCache, Confirm, Confirmation, NoConfirm
      <3> QED
        BY <3>1, <3>3, <3>4
    <2>4. ASSUME Version > 1
          PROVE  /\ slot'[nextCacheIndex] = nextSignalIndexCache
                 /\ slot'[currentCacheIndex] = slot[currentCacheIndex]
      BY <1>24, <2>3, <2>4
         DEF HandleUpdateSignalIndexCache, Update, TypeInv, TypeOK, CacheIndex,
             ExchangeInv, OtherSlot
    <2> QED
      BY <1>24, <2>2, <2>3, <2>4
         DEF HandleUpdateSignalIndexCache, ExchangeInv, Unvalidated, ModesOnce,
             OtherSlot, OneOfferOutstanding, ActiveCacheHeld, PendingHasTask,
             NoUpdate, NoConfirm, SameMarks, exchangeVars, taskVars, connectionVars
  <1>25. CASE Reconnect
    <2>1. OneOf(commands', {Modes}, Modes) /\ NoConfirm' /\ NoUpdate'
      BY <1>25 DEF Reconnect, OneOf, NoneOf, NoConfirm, NoUpdate, Modes, Confirmation
    <2> QED
      BY <1>25, <2>1 DEF Reconnect, ExchangeInv, Unvalidated, ModesOnce, OtherSlot,
         OneOfferOutstanding, ActiveCacheHeld, PendingHasTask
  <1> QED
    BY <1>4, <1>5, <1>6, <1>7, <1>8, <1>9, <1>10, <1>11, <1>12, <1>13, <1>14, <1>15,
       <1>16, <1>17, <1>19, <1>20, <1>21, <1>22, <1>23, <1>24, <1>25
       DEF Next, CommandThread, PoolTask, PublisherThread, ResponseThread

-----------------------------------------------------------------------------
(* The safety theorems: the strengthened invariant holds always, and each  *)
(* property is a conjunct of it.                                           *)

LEMMA ExchangeAlways == Spec => [](TypeInv /\ ExchangeInv)
  <1>1. Init => TypeInv /\ ExchangeInv
    BY TypeInit, ExchangeInit
  <1>2. (TypeInv /\ ExchangeInv) /\ [Next]_vars => (TypeInv /\ ExchangeInv)'
    BY TypeNext, ExchangeNext
  <1> QED
    BY <1>1, <1>2, PTL DEF Spec

(* The cache that a version 2 publisher encodes with is always held by the *)
(* subscriber under the publisher's current index: the swap in             *)
(* HandleConfirmUpdateSignalIndexCache never precedes the assignment in    *)
(* DataSubscriber::HandleUpdateSignalIndexCache.                           *)
THEOREM ActiveCacheIsHeld == Spec => []ActiveCacheHeld
  <1>1. TypeInv /\ ExchangeInv => ActiveCacheHeld
    BY DEF ExchangeInv
  <1> QED
    BY <1>1, ExchangeAlways, PTL

(* There is never a second offer under way, nor a confirmation of another  *)
(* offer than the open one.                                                *)
THEOREM OneOffer == Spec => []OneOfferOutstanding
  <1>1. TypeInv /\ ExchangeInv => OneOfferOutstanding
    BY DEF ExchangeInv
  <1> QED
    BY <1>1, ExchangeAlways, PTL

(* A parked cache always has somebody who will look for it.                *)
THEOREM PendingIsNotForgotten == Spec => []PendingHasTask
  <1>1. TypeInv /\ ExchangeInv => PendingHasTask
    BY DEF ExchangeInv
  <1> QED
    BY <1>1, ExchangeAlways, PTL

-----------------------------------------------------------------------------
(* Version 1: the newest cache is known to both or is on its way.          *)

(* No offer is ever made, so no confirmation changes the cache in use.     *)
NoOffer == Version = 1 => nextSignalIndexCache = None

FollowInv == NoOffer /\ CacheFollows

(* The last update in a channel is the one that carries this cache.        *)
LastUpdate(queue, cache) ==
  \E i \in 1 .. Len(queue) :
    /\ queue[i] = Update(0, cache)
    /\ \A j \in 1 .. Len(queue) : queue[j] \in Updates => j <= i

(* It stays the last one when something else is sent or received.          *)
LEMMA LastUpdateSent ==
  ASSUME NEW queue \in Seq(Response), NEW message \in Response, message \notin Updates,
         NEW cache, LastUpdate(queue, cache)
  PROVE  LastUpdate(Append(queue, message), cache)
  <1>1. PICK i \in 1 .. Len(queue) :
          /\ queue[i] = Update(0, cache)
          /\ \A j \in 1 .. Len(queue) : queue[j] \in Updates => j <= i
    BY DEF LastUpdate
  <1>2. /\ i \in 1 .. Len(Append(queue, message))
        /\ Append(queue, message)[i] = Update(0, cache)
        /\ \A j \in 1 .. Len(Append(queue, message)) :
             Append(queue, message)[j] \in Updates => j <= i
    BY <1>1
  <1> QED
    BY <1>2 DEF LastUpdate

LEMMA LastUpdateOfNew ==
  ASSUME NEW queue \in Seq(Response), NEW cache \in Cache
  PROVE  LastUpdate(Append(queue, Update(0, cache)), cache)
  <1>1. Update(0, cache) \in Response
    BY MessageTypes DEF CacheIndex
  <1> HIDE DEF Update
  <1>2. /\ Len(queue) + 1 \in 1 .. Len(Append(queue, Update(0, cache)))
        /\ Append(queue, Update(0, cache))[Len(queue) + 1] = Update(0, cache)
        /\ Len(Append(queue, Update(0, cache))) = Len(queue) + 1
    BY <1>1
  <1> QED
    BY <1>2 DEF LastUpdate

(* Once it is received itself, no update is left.                          *)
LEMMA LastUpdateReceived ==
  ASSUME NEW queue \in Seq(Response), queue # <<>>, NEW cache, LastUpdate(queue, cache)
  PROVE  \/ LastUpdate(Tail(queue), cache)
         \/ Head(queue) = Update(0, cache) /\ NoneOf(Tail(queue), Updates)
  <1>1. PICK i \in 1 .. Len(queue) :
          /\ queue[i] = Update(0, cache)
          /\ \A j \in 1 .. Len(queue) : queue[j] \in Updates => j <= i
    BY DEF LastUpdate
  <1>2. CASE i = 1
    <2>1. \A j \in 1 .. Len(Tail(queue)) : Tail(queue)[j] \notin Updates
      BY <1>1, <1>2, TailElements
    <2> QED
      BY <1>1, <1>2, <2>1, TailElements DEF NoneOf
  <1>3. CASE i # 1
    <2>1. /\ i - 1 \in 1 .. Len(Tail(queue))
          /\ Tail(queue)[i - 1] = Update(0, cache)
          /\ \A j \in 1 .. Len(Tail(queue)) : Tail(queue)[j] \in Updates => j <= i - 1
      BY <1>1, <1>3, TailElements
    <2> QED
      BY <2>1 DEF LastUpdate
  <1> QED
    BY <1>2, <1>3

(* What a step sends or receives, if it is not an update.                  *)
OtherTraffic ==
  \/ responses' = responses
  \/ /\ responses # <<>> /\ Head(responses) \notin Updates
     /\ responses' = Tail(responses)
  \/ \E message \in Response \ Updates : responses' = Append(responses, message)

LEMMA OtherTrafficSteps ==
  ASSUME TypeInv,
         \/ Subscribe \/ Unsubscribe \/ HandleDefineOperationalModes \/ HandleSubscribe
         \/ HandleSubscribeFailure \/ HandleUnsubscribe \/ RequestTsscReset
         \/ CompleteSubscribe \/ HandleConfirmUpdateSignalIndexCache \/ TakePending
         \/ \E p \in Publishers : PublisherThread(p)
         \/ HandleSucceeded \/ HandleFailed \/ HandleDataPacket
  PROVE  OtherTraffic
  <1>1. ASSUME NEW outcome \in {"Succeeded", "Failed"}, NEW command \in Command,
               responses' = Append(responses, Result(outcome, command))
        PROVE  OtherTraffic
    <2>1. Result(outcome, command) \in Response \ Updates
      BY MessageTypes DEF Result, Updates
    <2> QED
      BY <1>1, <2>1 DEF OtherTraffic
  <1>2. ASSUME NEW type \in {"Succeeded", "Failed", "DataPacket"}, Deliver(type)
        PROVE  OtherTraffic
    BY <1>2 DEF Deliver, Updates, OtherTraffic
  <1>3. ASSUME NEW p \in Publishers, PublishTSSCMeasurements(p) PROVE OtherTraffic
    <2> DEFINE run == IF tsscResetRequested THEN epoch + 1 ELSE epoch
               seq == IF tsscResetRequested THEN 0 ELSE tsscSequenceNumber
               ordinal == IF tsscResetRequested THEN 0 ELSE packets
               packet == DataPacket(encoding[p], seq, run, ordinal)
    <2>1. responses' = responses \/ responses' = Append(responses, packet)
      BY <1>3 DEF PublishTSSCMeasurements
    <2>2. /\ run \in Nat
          /\ seq \in 0 .. MaxSequence
          /\ ordinal \in Nat
          /\ encoding[p] \in Cache
      BY <1>3, SequenceAssumption
         DEF TypeInv, TypeOK, PublishTSSCMeasurements, CacheOrNone, Cache, None
    <2> HIDE DEF run, seq, ordinal
    <2>3. packet \in Response
      BY <2>2, MessageTypes
    <2>4. packet \notin Updates
      BY DEF DataPacket, Updates
    <2> QED
      BY <2>1, <2>3, <2>4 DEF OtherTraffic
  <1>4. CASE HandleDefineOperationalModes \/ HandleSubscribeFailure \/ CompleteSubscribe
    BY <1>1, <1>4, CommandTypes
       DEF HandleDefineOperationalModes, HandleSubscribeFailure, CompleteSubscribe
  <1>5. CASE HandleSucceeded \/ HandleFailed \/ HandleDataPacket
    BY <1>2, <1>5 DEF HandleSucceeded, HandleFailed, HandleDataPacket
  <1>6. ASSUME \/ Subscribe \/ Unsubscribe \/ HandleSubscribe \/ HandleUnsubscribe
               \/ RequestTsscReset \/ HandleConfirmUpdateSignalIndexCache \/ TakePending
               \/ \E p \in Publishers : ReadCache(p)
        PROVE  responses' = responses
    BY <1>6
       DEF Subscribe, Unsubscribe, HandleSubscribe, HandleUnsubscribe, RequestTsscReset,
           HandleConfirmUpdateSignalIndexCache, TakePending, ReadCache
  <1> QED
    BY <1>3, <1>4, <1>5, <1>6 DEF OtherTraffic, PublisherThread

(* A step that changes neither cache and sends or receives no update.      *)
LEMMA FollowFrame ==
  ASSUME TypeInv, FollowInv, OtherTraffic,
         UNCHANGED <<signalIndexCache, nextSignalIndexCache, slot>>
  PROVE  FollowInv'
  <1>1. responses \in Seq(Response)
    BY DEF TypeInv, TypeOK
  <1>2. NoneOf(responses, Updates) => NoneOf(responses', Updates)
    <2>1. ASSUME NEW message \in Response \ Updates, NoneOf(responses, Updates)
          PROVE  NoneOf(Append(responses, message), Updates)
      BY <1>1, <2>1, NoneOfAppend
    <2>2. ASSUME responses # <<>>, NoneOf(responses, Updates)
          PROVE  NoneOf(Tail(responses), Updates)
      BY <1>1, <2>2, NoneOfTail
    <2> QED
      BY <2>1, <2>2 DEF OtherTraffic
  <1>3. ASSUME LastUpdate(responses, signalIndexCache), signalIndexCache # None
        PROVE  LastUpdate(responses', signalIndexCache)
    <2>1. Update(0, signalIndexCache) \in Updates
      BY <1>3 DEF TypeInv, TypeOK, Update, Updates, CacheIndex, CacheOrNone, Cache, None
    <2>2. ASSUME responses # <<>>, Head(responses) \notin Updates
          PROVE  LastUpdate(Tail(responses), signalIndexCache)
      BY <1>1, <1>3, <2>1, <2>2, LastUpdateReceived
    <2>3. ASSUME NEW message \in Response \ Updates
          PROVE  LastUpdate(Append(responses, message), signalIndexCache)
      BY <1>1, <1>3, LastUpdateSent
    <2> QED
      BY <1>3, <2>2, <2>3 DEF OtherTraffic
  <1>4. CacheFollows'
    BY <1>2, <1>3 DEF FollowInv, CacheFollows, LastUpdate, NoUpdate
  <1> QED
    BY <1>4 DEF FollowInv, NoOffer

LEMMA FollowNext == TypeInv /\ FollowInv /\ [Next]_vars => FollowInv'
  <1> SUFFICES ASSUME TypeInv, FollowInv, [Next]_vars, Version = 1
               PROVE  FollowInv'
    BY DEF FollowInv, NoOffer, CacheFollows
  <1>1. nextSignalIndexCache = None /\ responses \in Seq(Response)
    BY DEF FollowInv, NoOffer, TypeInv, TypeOK
  <1>2. CASE \/ Subscribe \/ Unsubscribe \/ HandleDefineOperationalModes \/ HandleSubscribe
             \/ HandleSubscribeFailure \/ HandleUnsubscribe \/ RequestTsscReset
             \/ CompleteSubscribe
    <2>1. UNCHANGED <<signalIndexCache, nextSignalIndexCache, slot>>
      BY <1>2
         DEF Subscribe, Unsubscribe, HandleDefineOperationalModes, HandleSubscribe,
             HandleSubscribeFailure, HandleUnsubscribe, RequestTsscReset,
             CompleteSubscribe, exchangeVars, subscriberVars
    <2> QED
      BY <1>2, <2>1, OtherTrafficSteps, FollowFrame
  <1>3. CASE \/ HandleConfirmUpdateSignalIndexCache \/ TakePending
             \/ \E p \in Publishers : PublisherThread(p)
             \/ HandleSucceeded \/ HandleFailed \/ HandleDataPacket
    <2>1. UNCHANGED <<signalIndexCache, nextSignalIndexCache, slot>>
      BY <1>1, <1>3
         DEF HandleConfirmUpdateSignalIndexCache, TakePending, PublisherThread, ReadCache,
             PublishTSSCMeasurements, HandleSucceeded, HandleFailed, HandleDataPacket,
             exchangeVars, subscriberVars
    <2> QED
      BY <1>3, <2>1, OtherTrafficSteps, FollowFrame
  <1>4. CASE HandleSubscribeUpdate \/ \E cache \in takenCaches : ApplyPending(cache)
    BY <1>4
       DEF HandleSubscribeUpdate, ApplyPending, UpdateSignalIndexCache, OfferCache, ParkCache
  <1>5. CASE SwapCache
    <2>1. LastUpdate(responses', signalIndexCache')
      BY <1>1, <1>5, LastUpdateOfNew
         DEF SwapCache, TypeInv, TypeOK, ParsedHasCache, CacheOrNone, Cache, None
    <2> QED
      BY <1>1, <1>5, <2>1 DEF SwapCache, FollowInv, NoOffer, CacheFollows, LastUpdate
  <1>6. CASE HandleUpdateSignalIndexCache
    <2> DEFINE update == Head(responses)
    <2>1. /\ responses # <<>> /\ responses' = Tail(responses)
          /\ update \in Response /\ update.type = "UpdateSignalIndexCache"
      BY <1>1, <1>6, ReceiveType DEF HandleUpdateSignalIndexCache, Deliver
    <2>2. update \in Updates
      BY <2>1 DEF Response, Updates
    <2>3. UNCHANGED <<signalIndexCache, nextSignalIndexCache>>
      BY <1>6 DEF HandleUpdateSignalIndexCache, exchangeVars
    <2>4. ASSUME signalIndexCache # None, update = Update(0, signalIndexCache)
          PROVE  slot'[0] = signalIndexCache
      BY <1>6, <2>4 DEF HandleUpdateSignalIndexCache, Update, TypeInv, TypeOK, CacheIndex
    <2>5. signalIndexCache # None =>
            \/ LastUpdate(responses', signalIndexCache)
            \/ NoneOf(responses', Updates) /\ slot'[0] = signalIndexCache
      <3>1. ~NoneOf(responses, Updates)
        BY <1>1, <2>1, <2>2, NoneOfTail
      <3>2. signalIndexCache # None => LastUpdate(responses, signalIndexCache)
        BY <3>1 DEF FollowInv, CacheFollows, LastUpdate, NoUpdate
      <3> QED
        BY <1>1, <2>1, <2>4, <3>2, LastUpdateReceived
    <2> QED
      BY <1>1, <2>3, <2>5 DEF FollowInv, NoOffer, CacheFollows, LastUpdate, NoUpdate
  <1>7. CASE Reconnect
    BY <1>7 DEF Reconnect, FollowInv, NoOffer, CacheFollows
  <1>8. CASE UNCHANGED vars
    BY <1>8, FollowFrame DEF vars, exchangeVars, subscriberVars, OtherTraffic
  <1> QED
    BY <1>2, <1>3, <1>4, <1>5, <1>6, <1>7, <1>8
       DEF Next, CommandThread, PoolTask, ResponseThread

(* Without confirmations (version 1) the newest cache under way, or the    *)
(* one that the subscriber holds when none is, is the one that the         *)
(* publisher encodes with: it swaps the cache and sends it in one step,    *)
(* and the channel keeps the order.                                        *)
THEOREM CacheIsFollowed == Spec => []CacheFollows
  <1>1. Init => FollowInv
    BY DEF Init, FollowInv, NoOffer, CacheFollows
  <1>2. TypeInv /\ FollowInv /\ [Next]_vars => FollowInv'
    BY FollowNext
  <1>3. FollowInv => CacheFollows
    BY DEF FollowInv
  <1> QED
    BY <1>1, <1>2, <1>3, TypeInit, TypeNext, PTL DEF Spec

-----------------------------------------------------------------------------
(* The TSSC encoder and decoder are in step.                               *)

(* A place in the stream of packets: the next sequence number, the run of  *)
(* the encoder and the packets of that run before it.                      *)
Point(seq, run, ordinal) == [seq |-> seq, epoch |-> run, ordinal |-> ordinal]
PointOf(packet) == Point(packet.seq, packet.epoch, packet.ordinal)
After(packet) == Point(NextSequence(packet.seq), packet.epoch, packet.ordinal + 1)

(* Who expects this point can take what is at the next one: it is there,   *)
(* or the next one is a reset, or nothing but a reset is expected.         *)
Meets(point, next) == point.seq = 0 \/ next.seq = 0 \/ next = point

IsData(queue, i) == queue[i].type = "DataPacket"
NoData(queue, first, last) == \A k \in first .. last : ~IsData(queue, k)

(* The decoder expects the first packet under way, each packet is followed *)
(* by the next one, and the last by what the encoder will make.            *)
Chained(start, queue, end) ==
  /\ NoData(queue, 1, Len(queue)) => Meets(start, end)
  /\ \A j \in 1 .. Len(queue) :
       IsData(queue, j) /\ NoData(queue, 1, j - 1) => Meets(start, PointOf(queue[j]))
  /\ \A i \in 1 .. Len(queue) :
       IsData(queue, i) /\ NoData(queue, i + 1, Len(queue)) => Meets(After(queue[i]), end)
  /\ \A i, j \in 1 .. Len(queue) :
       i < j /\ IsData(queue, i) /\ IsData(queue, j) /\ NoData(queue, i + 1, j - 1)
         => Meets(After(queue[i]), PointOf(queue[j]))

(* Another message than a data packet is sent.                             *)
LEMMA ChainedSendOther ==
  ASSUME NEW start, NEW queue \in Seq(Response), NEW end, Chained(start, queue, end),
         NEW message \in Response, message.type # "DataPacket"
  PROVE  Chained(start, Append(queue, message), end)
  <1> DEFINE new == Append(queue, message)
  <1>1. /\ Len(new) = Len(queue) + 1 /\ Len(queue) \in Nat
        /\ \A i \in 1 .. Len(queue) : new[i] = queue[i]
        /\ new[Len(queue) + 1] = message
    OBVIOUS
  <1> HIDE DEF new
  <1>2. \A i \in 1 .. Len(new) : IsData(new, i) => i \in 1 .. Len(queue) /\ IsData(queue, i)
    BY <1>1 DEF IsData
  <1>3. \A i \in 1 .. Len(queue) + 1 :
          NoData(new, i, Len(new)) => NoData(queue, i, Len(queue))
    BY <1>1 DEF NoData, IsData
  <1>4. \A i \in 1 .. Len(queue) + 1, j \in 0 .. Len(queue) :
          NoData(new, i, j) => NoData(queue, i, j)
    BY <1>1 DEF NoData, IsData
  <1> HIDE DEF IsData, NoData, Meets
  <1>5. NoData(new, 1, Len(new)) => Meets(start, end)
    BY <1>1, <1>3 DEF Chained
  <1>6. ASSUME NEW j \in 1 .. Len(new), IsData(new, j), NoData(new, 1, j - 1)
        PROVE  Meets(start, PointOf(new[j]))
    BY <1>1, <1>2, <1>4, <1>6 DEF Chained
  <1>7. ASSUME NEW i \in 1 .. Len(new), IsData(new, i), NoData(new, i + 1, Len(new))
        PROVE  Meets(After(new[i]), end)
    BY <1>1, <1>2, <1>3, <1>7 DEF Chained
  <1>8. ASSUME NEW i \in 1 .. Len(new), NEW j \in 1 .. Len(new), i < j,
               IsData(new, i), IsData(new, j), NoData(new, i + 1, j - 1)
        PROVE  Meets(After(new[i]), PointOf(new[j]))
    <2>1. /\ i \in 1 .. Len(queue) /\ j \in 1 .. Len(queue)
          /\ IsData(queue, i) /\ IsData(queue, j) /\ NoData(queue, i + 1, j - 1)
      BY <1>1, <1>2, <1>4, <1>8
    <2> QED
      BY <1>1, <1>8, <2>1 DEF Chained
  <1>9. Chained(start, new, end)
    BY <1>5, <1>6, <1>7, <1>8 DEF Chained
  <1> QED
    BY <1>9 DEF new

(* The encoder sends a packet and goes on after it.                        *)
LEMMA ChainedSendData ==
  ASSUME NEW start, NEW queue \in Seq(Response), NEW end, Chained(start, queue, end),
         NEW message \in Response, message.type = "DataPacket",
         message.seq = 0 \/ PointOf(message) = end
  PROVE  Chained(start, Append(queue, message), After(message))
  <1> DEFINE new == Append(queue, message)
  <1>1. /\ Len(new) = Len(queue) + 1 /\ Len(queue) \in Nat
        /\ \A i \in 1 .. Len(queue) : new[i] = queue[i]
        /\ new[Len(queue) + 1] = message
    OBVIOUS
  <1> HIDE DEF new
  <1>2. IsData(new, Len(new)) /\ \A i \in 1 .. Len(queue) : IsData(new, i) <=> IsData(queue, i)
    BY <1>1 DEF IsData
  <1>3. \A i \in 1 .. Len(queue) + 1, j \in 0 .. Len(queue) :
          NoData(new, i, j) => NoData(queue, i, j)
    BY <1>1 DEF NoData, IsData
  <1>4. \A i \in 1 .. Len(new) : ~NoData(new, i, Len(new))
    BY <1>1, <1>2 DEF NoData
  <1>5. \A point : Meets(point, end) => Meets(point, PointOf(message))
    BY DEF Meets, PointOf, Point
  <1>6. Meets(After(message), After(message))
    BY DEF Meets
  <1> HIDE DEF IsData, NoData, Meets
  <1>7. ~NoData(new, 1, Len(new))
    BY <1>1, <1>4
  <1>8. ASSUME NEW j \in 1 .. Len(new), IsData(new, j), NoData(new, 1, j - 1)
        PROVE  Meets(start, PointOf(new[j]))
    <2>1. CASE j = Len(new)
      <3>1. NoData(queue, 1, Len(queue))
        BY <1>1, <1>3, <1>8, <2>1
      <3> QED
        BY <1>1, <1>5, <2>1, <3>1 DEF Chained
    <2>2. CASE j # Len(new)
      <3>1. j \in 1 .. Len(queue) /\ IsData(queue, j) /\ NoData(queue, 1, j - 1)
        BY <1>1, <1>2, <1>3, <1>8, <2>2
      <3> QED
        BY <1>1, <3>1 DEF Chained
    <2> QED
      BY <2>1, <2>2
  <1>9. ASSUME NEW i \in 1 .. Len(new), IsData(new, i), NoData(new, i + 1, Len(new))
        PROVE  Meets(After(new[i]), After(message))
    <2>1. i = Len(new)
      BY <1>1, <1>4, <1>9
    <2> QED
      BY <1>1, <1>6, <2>1
  <1>10. ASSUME NEW i \in 1 .. Len(new), NEW j \in 1 .. Len(new), i < j,
                IsData(new, i), IsData(new, j), NoData(new, i + 1, j - 1)
         PROVE  Meets(After(new[i]), PointOf(new[j]))
    <2>0. i \in 1 .. Len(queue) /\ IsData(queue, i) /\ NoData(queue, i + 1, j - 1)
      BY <1>1, <1>2, <1>3, <1>10
    <2>1. CASE j = Len(new)
      <3>1. NoData(queue, i + 1, Len(queue))
        BY <1>1, <2>0, <2>1
      <3> QED
        BY <1>1, <1>5, <2>0, <2>1, <3>1 DEF Chained
    <2>2. CASE j # Len(new)
      <3>1. j \in 1 .. Len(queue) /\ IsData(queue, j)
        BY <1>1, <1>2, <1>10, <2>2
      <3> QED
        BY <1>1, <1>10, <2>0, <3>1 DEF Chained
    <2> QED
      BY <2>1, <2>2
  <1>11. Chained(start, new, After(message))
    BY <1>7, <1>8, <1>9, <1>10 DEF Chained
  <1> QED
    BY <1>11 DEF new

(* The encoder is reset, or the decoder expects nothing but a reset.       *)
LEMMA ChainedReset ==
  ASSUME NEW start, NEW queue, NEW end, Chained(start, queue, end), NEW point, point.seq = 0
  PROVE  Chained(start, queue, point) /\ Chained(point, queue, end)
  BY DEF Chained, Meets

(* A message is received.  What follows the first one is chained as it was. *)
LEMMA ChainedReceive ==
  ASSUME NEW start, NEW queue \in Seq(Response), queue # <<>>, NEW end,
         Chained(start, queue, end), NEW point,
         IF Head(queue).type = "DataPacket"
         THEN point.seq = 0 \/ point = After(Head(queue))
         ELSE point.seq = 0 \/ point = start
  PROVE  Chained(point, Tail(queue), end)
  <1> DEFINE new == Tail(queue)
  <1>1. /\ Len(queue) \in Nat \ {0} /\ Len(new) = Len(queue) - 1
        /\ \A i \in 1 .. Len(new) : i + 1 \in 1 .. Len(queue) /\ new[i] = queue[i + 1]
        /\ Head(queue) = queue[1]
    BY TailElements
  <1> HIDE DEF new
  <1>2. \A i \in 1 .. Len(new) : IsData(new, i) <=> IsData(queue, i + 1)
    BY <1>1 DEF IsData
  <1>3. \A i \in 1 .. Len(queue), j \in 0 .. Len(new) :
          NoData(new, i, j) => NoData(queue, i + 1, j + 1)
    <2> SUFFICES ASSUME NEW i \in 1 .. Len(queue), NEW j \in 0 .. Len(new), NoData(new, i, j),
                        NEW k \in i + 1 .. j + 1
                 PROVE  ~IsData(queue, k)
      BY DEF NoData
    <2>1. k - 1 \in i .. j /\ k - 1 \in 1 .. Len(new) /\ (k - 1) + 1 = k
      BY <1>1
    <2> QED
      BY <1>2, <2>1 DEF NoData
  <1>4. IsData(queue, 1) \/ \A j \in 1 .. Len(queue) : NoData(queue, 2, j) => NoData(queue, 1, j)
    BY <1>1 DEF NoData
  <1>5. IsData(queue, 1) => point.seq = 0 \/ point = After(queue[1])
    BY <1>1 DEF IsData
  <1>6. ~IsData(queue, 1) => point.seq = 0 \/ point = start
    BY <1>1 DEF IsData
  <1>7. \A next : point.seq = 0 => Meets(point, next)
    BY DEF Meets
  <1> HIDE DEF IsData, NoData, Meets
  <1>8. ASSUME NoData(new, 1, Len(new)) PROVE Meets(point, end)
    <2>1. NoData(queue, 2, Len(queue))
      BY <1>1, <1>3, <1>8
    <2> QED
      BY <1>1, <1>4, <1>5, <1>6, <1>7, <2>1 DEF Chained
  <1>9. ASSUME NEW j \in 1 .. Len(new), IsData(new, j), NoData(new, 1, j - 1)
        PROVE  Meets(point, PointOf(new[j]))
    <2>1. j + 1 \in 1 .. Len(queue) /\ IsData(queue, j + 1) /\ NoData(queue, 2, j)
      BY <1>1, <1>2, <1>3, <1>9
    <2>2. 1 < j + 1 /\ (j + 1) - 1 = j /\ j \in 1 .. Len(queue) /\ 1 \in 1 .. Len(queue)
      BY <1>1
    <2> QED
      BY <1>1, <1>4, <1>5, <1>6, <1>7, <2>1, <2>2 DEF Chained
  <1>10. ASSUME NEW i \in 1 .. Len(new), IsData(new, i), NoData(new, i + 1, Len(new))
         PROVE  Meets(After(new[i]), end)
    <2>1. /\ i + 1 \in 1 .. Len(queue) /\ IsData(queue, i + 1)
          /\ NoData(queue, (i + 1) + 1, Len(queue))
      BY <1>1, <1>2, <1>3, <1>10
    <2> QED
      BY <1>1, <2>1 DEF Chained
  <1>11. ASSUME NEW i \in 1 .. Len(new), NEW j \in 1 .. Len(new), i < j,
                IsData(new, i), IsData(new, j), NoData(new, i + 1, j - 1)
         PROVE  Meets(After(new[i]), PointOf(new[j]))
    <2>1. /\ i + 1 \in 1 .. Len(queue) /\ j + 1 \in 1 .. Len(queue) /\ i + 1 < j + 1
          /\ IsData(queue, i + 1) /\ IsData(queue, j + 1)
          /\ NoData(queue, (i + 1) + 1, (j + 1) - 1)
      BY <1>1, <1>2, <1>3, <1>11
    <2> QED
      BY <1>1, <2>1 DEF Chained
  <1>12. Chained(point, new, end)
    BY <1>8, <1>9, <1>10, <1>11 DEF Chained
  <1> QED
    BY <1>12 DEF new

DecoderPoint ==
  LET d == decoder[PacketCacheIndex] IN Point(d.expected, d.epoch, d.decoded)
EncoderPoint == Point(tsscSequenceNumber, epoch, packets)

(* Sequence number 0 is that of the first packet of a run, and of no other. *)
FirstOfRun ==
  /\ tsscSequenceNumber = 0 <=> packets = 0
  /\ \A i \in 1 .. Len(responses) :
       IsData(responses, i) => (responses[i].seq = 0 <=> responses[i].ordinal = 0)

(* A decoder belongs to a cache, and expects only what it has met.         *)
DecoderHasCache ==
  /\ decoder[PacketCacheIndex].created => slot[PacketCacheIndex] # None
  /\ decoder[PacketCacheIndex].expected # 0 => decoder[PacketCacheIndex].created

TsscInv ==
  FirstOfRun /\ DecoderHasCache /\ Chained(DecoderPoint, responses, EncoderPoint)

LEMMA TsscInit == Init => TsscInv
  <1> SUFFICES ASSUME Init PROVE TsscInv
    OBVIOUS
  <1>1. FirstOfRun /\ DecoderHasCache
    BY DEF Init, FirstOfRun, DecoderHasCache, NoDecoder, CacheIndex, PacketCacheIndex
  <1>2. EncoderPoint.seq = 0 /\ responses = <<>>
    BY DEF Init, EncoderPoint, Point
  <1>3. Chained(DecoderPoint, responses, EncoderPoint)
    BY <1>2 DEF Chained, Meets
  <1> QED
    BY <1>1, <1>3 DEF TsscInv

(* The first packet of a run has number 0, in whatever channel.            *)
LEMMA FirstOfRunSent ==
  ASSUME FirstOfRun, responses \in Seq(Response), NEW message \in Response,
         responses' = Append(responses, message),
         message.type = "DataPacket" => (message.seq = 0 <=> message.ordinal = 0),
         (tsscSequenceNumber = 0 <=> packets = 0)'
  PROVE  FirstOfRun'
  <1>1. ASSUME NEW i \in 1 .. Len(responses'), IsData(responses', i)
        PROVE  responses'[i].seq = 0 <=> responses'[i].ordinal = 0
    <2>1. CASE i = Len(responses) + 1
      <3>1. responses'[i] = message
        BY <2>1
      <3> QED
        BY <1>1, <3>1 DEF IsData
    <2>2. CASE i # Len(responses) + 1
      <3>1. i \in 1 .. Len(responses) /\ responses'[i] = responses[i]
        BY <1>1, <2>2
      <3> QED
        BY <1>1, <3>1 DEF FirstOfRun, IsData
    <2> QED
      BY <2>1, <2>2
  <1> QED
    BY <1>1 DEF FirstOfRun

LEMMA FirstOfRunReceived ==
  ASSUME FirstOfRun, responses \in Seq(Response), responses # <<>>,
         responses' = Tail(responses), UNCHANGED <<tsscSequenceNumber, packets>>
  PROVE  FirstOfRun'
  <1>1. \A i \in 1 .. Len(responses') :
          i + 1 \in 1 .. Len(responses) /\ responses'[i] = responses[i + 1]
    BY TailElements
  <1> QED
    BY <1>1 DEF FirstOfRun, IsData

(* A step of neither the encoder nor the decoder.                          *)
LEMMA TsscFrame ==
  ASSUME TypeInv, TsscInv,
         UNCHANGED <<slot, decoder, tsscSequenceNumber, epoch, packets>>,
         \/ responses' = responses
         \/ /\ responses # <<>> /\ Head(responses).type # "DataPacket"
            /\ responses' = Tail(responses)
         \/ \E message \in Response :
              message.type # "DataPacket" /\ responses' = Append(responses, message)
  PROVE  TsscInv'
  <1>1. responses \in Seq(Response)
    BY DEF TypeInv, TypeOK
  <1>2. DecoderHasCache' /\ DecoderPoint' = DecoderPoint /\ EncoderPoint' = EncoderPoint
    BY DEF TsscInv, DecoderHasCache, DecoderPoint, EncoderPoint
  <1>3. CASE responses' = responses
    BY <1>2, <1>3 DEF TsscInv, FirstOfRun
  <1>4. CASE /\ responses # <<>> /\ Head(responses).type # "DataPacket"
             /\ responses' = Tail(responses)
    <2>1. Chained(DecoderPoint, Tail(responses), EncoderPoint)
      BY <1>1, <1>4, ChainedReceive DEF TsscInv
    <2> QED
      BY <1>1, <1>2, <1>4, <2>1, FirstOfRunReceived DEF TsscInv
  <1>5. ASSUME NEW message \in Response, message.type # "DataPacket",
               responses' = Append(responses, message)
        PROVE  TsscInv'
    <2>1. Chained(DecoderPoint, Append(responses, message), EncoderPoint)
      BY <1>1, <1>5, ChainedSendOther DEF TsscInv
    <2>2. (tsscSequenceNumber = 0 <=> packets = 0)'
      BY DEF TsscInv, FirstOfRun
    <2> QED
      BY <1>1, <1>2, <1>5, <2>1, <2>2, FirstOfRunSent DEF TsscInv
  <1> QED
    BY <1>3, <1>4, <1>5

(* The encoder: a reset, or the packet it had come to.                     *)
LEMMA EncoderStep ==
  ASSUME TypeInv, TsscInv, NEW p \in Publishers, PublishTSSCMeasurements(p)
  PROVE  TsscInv'
  <1> DEFINE run == IF tsscResetRequested THEN epoch + 1 ELSE epoch
             seq == IF tsscResetRequested THEN 0 ELSE tsscSequenceNumber
             ordinal == IF tsscResetRequested THEN 0 ELSE packets
             packet == DataPacket(encoding[p], seq, run, ordinal)
  <1>1. /\ responses \in Seq(Response) /\ seq \in 0 .. MaxSequence /\ run \in Nat
        /\ ordinal \in Nat /\ encoding[p] \in Cache
    BY SequenceAssumption
       DEF TypeInv, TypeOK, PublishTSSCMeasurements, CacheOrNone, Cache, None
  <1>2. (seq = 0 <=> ordinal = 0) /\ (seq = 0 \/ Point(seq, run, ordinal) = EncoderPoint)
    BY DEF TsscInv, FirstOfRun, EncoderPoint
  <1>3. DecoderHasCache' /\ DecoderPoint' = DecoderPoint
    BY DEF PublishTSSCMeasurements, subscriberVars, TsscInv, DecoderHasCache, DecoderPoint
  <1>4. epoch' = run
    BY DEF PublishTSSCMeasurements
  <1>5. \/ /\ responses' = Append(responses, packet)
           /\ tsscSequenceNumber' = NextSequence(seq)
           /\ packets' = ordinal + 1
        \/ tsscSequenceNumber' = seq /\ packets' = ordinal /\ responses' = responses
    BY DEF PublishTSSCMeasurements
  <1> HIDE DEF run, seq, ordinal
  <1>6. CASE /\ responses' = Append(responses, packet)
             /\ tsscSequenceNumber' = NextSequence(seq)
             /\ packets' = ordinal + 1
    <2>1. packet \in Response
      BY <1>1, MessageTypes
    <2>2. /\ packet.type = "DataPacket" /\ packet.seq = seq /\ packet.ordinal = ordinal
          /\ PointOf(packet) = Point(seq, run, ordinal)
          /\ After(packet) = EncoderPoint'
      BY <1>4, <1>6 DEF DataPacket, PointOf, After, Point, EncoderPoint
    <2> HIDE DEF packet
    <2>3. Chained(DecoderPoint, Append(responses, packet), After(packet))
      BY <1>1, <1>2, <2>1, <2>2, ChainedSendData DEF TsscInv
    <2>4. (tsscSequenceNumber = 0 <=> packets = 0)'
      BY <1>1, <1>6, NextSequenceType
    <2>5. FirstOfRun'
      BY <1>1, <1>2, <1>6, <2>1, <2>2, <2>4, FirstOfRunSent DEF TsscInv
    <2> QED
      BY <1>3, <1>6, <2>2, <2>3, <2>5 DEF TsscInv
  <1>7. CASE tsscSequenceNumber' = seq /\ packets' = ordinal /\ responses' = responses
    <2>1. EncoderPoint' = Point(seq, run, ordinal)
      BY <1>4, <1>7 DEF EncoderPoint
    <2>2. EncoderPoint'.seq = 0 \/ EncoderPoint' = EncoderPoint
      BY <1>2, <2>1 DEF Point
    <2>3. Chained(DecoderPoint, responses, EncoderPoint')
      BY <2>2, ChainedReset DEF TsscInv
    <2>4. FirstOfRun'
      BY <1>2, <1>7 DEF TsscInv, FirstOfRun
    <2> QED
      BY <1>3, <1>7, <2>3, <2>4 DEF TsscInv
  <1> QED
    BY <1>5, <1>6, <1>7

(* The decoder: it goes on after the packet, or waits for a reset.         *)
LEMMA DecoderStep ==
  ASSUME TypeInv, TsscInv, HandleDataPacket
  PROVE  TsscInv'
  <1> DEFINE packet == Head(responses)
             met == DecoderFor(packet)
             d == decoder[PacketCacheIndex]
             new == decoder'[PacketCacheIndex]
  <1>1. /\ responses \in Seq(Response) /\ responses # <<>> /\ responses' = Tail(responses)
        /\ packet \in Response /\ packet.type = "DataPacket"
        /\ 1 \in 1 .. Len(responses) /\ responses[1] = packet
    BY ReceiveType, TailElements DEF HandleDataPacket, Deliver, TypeInv, TypeOK
  <1>2. packet.seq \in 0 .. MaxSequence /\ (packet.seq = 0 <=> packet.ordinal = 0)
    BY <1>1 DEF TsscInv, FirstOfRun, IsData, Response, Updates
  <1>3. Meets(DecoderPoint, PointOf(packet))
    <2>1. IsData(responses, 1) /\ NoData(responses, 1, 1 - 1)
      BY <1>1 DEF IsData, NoData
    <2> QED
      BY <1>1, <2>1 DEF TsscInv, Chained
  <1>4. /\ decoder \in [CacheIndex -> Decoder] /\ PacketCacheIndex \in CacheIndex
        /\ UNCHANGED <<slot, tsscSequenceNumber, epoch, packets>>
    BY DEF TypeInv, TypeOK, HandleDataPacket, tsscVars, CacheIndex, PacketCacheIndex
  <1>5. FirstOfRun'
    BY <1>1, <1>4, FirstOfRunReceived DEF TsscInv
  <1>6. EncoderPoint' = EncoderPoint
    BY <1>4 DEF EncoderPoint
  <1>7. DecoderHasCache' /\ (DecoderPoint'.seq = 0 \/ DecoderPoint' = After(packet))
    <2>1. CASE slot[PacketCacheIndex] = None
      <3>1. new = d /\ d.expected = 0
        BY <2>1 DEF HandleDataPacket, TsscInv, DecoderHasCache
      <3> QED
        BY <1>4, <2>1, <3>1 DEF TsscInv, DecoderHasCache, DecoderPoint, Point
    <2>2. CASE slot[PacketCacheIndex] # None /\ ~Accepts(packet)
      <3>1. new = met /\ met.created
        BY <1>4, <2>2 DEF HandleDataPacket, DecoderFor, NewDecoder
      <3>2. met.expected = 0
        <4>1. CASE packet.seq = 0 \/ ~d.created
          BY <4>1 DEF DecoderFor, NewDecoder
        <4>2. CASE packet.seq # 0 /\ d.created
          <5>1. met = d /\ d.expected # packet.seq
            BY <2>2, <4>2 DEF DecoderFor, Accepts
          <5> QED
            BY <1>3, <4>2, <5>1 DEF Meets, DecoderPoint, PointOf, Point
        <4> QED
          BY <4>1, <4>2
      <3> QED
        BY <1>4, <2>2, <3>1, <3>2 DEF DecoderHasCache, DecoderPoint, Point
    <2>3. CASE slot[PacketCacheIndex] # None /\ Accepts(packet)
      <3>1. new = Advance(met) /\ met.expected = packet.seq
        BY <1>4, <2>3 DEF HandleDataPacket, Accepts
      <3>2. met.epoch = packet.epoch /\ met.decoded = packet.ordinal
        <4>1. CASE packet.seq = 0 \/ ~d.created
          BY <1>2, <3>1, <4>1 DEF DecoderFor, NewDecoder
        <4>2. CASE packet.seq # 0 /\ d.created
          <5>1. met = d
            BY <4>2 DEF DecoderFor
          <5> QED
            BY <1>3, <3>1, <4>2, <5>1 DEF Meets, DecoderPoint, PointOf, Point
        <4> QED
          BY <4>1, <4>2
      <3> HIDE DEF met, packet
      <3>3. new.created /\ Point(new.expected, new.epoch, new.decoded) = After(packet)
        BY <3>1, <3>2 DEF Advance, After, Point
      <3> QED
        BY <1>4, <2>3, <3>3 DEF DecoderHasCache, DecoderPoint
    <2> QED
      BY <2>1, <2>2, <2>3
  <1>8. Chained(DecoderPoint', Tail(responses), EncoderPoint)
    BY <1>1, <1>7, ChainedReceive DEF TsscInv
  <1> QED
    BY <1>1, <1>5, <1>6, <1>7, <1>8 DEF TsscInv

(* A new cache in the slot has no decoder.                                 *)
LEMMA NewCacheStep ==
  ASSUME TypeInv, TsscInv, HandleUpdateSignalIndexCache
  PROVE  TsscInv'
  <1> DEFINE update == Head(responses)
  <1>1. /\ responses \in Seq(Response) /\ responses # <<>> /\ responses' = Tail(responses)
        /\ update \in Response /\ update.type = "UpdateSignalIndexCache"
    BY ReceiveType DEF HandleUpdateSignalIndexCache, Deliver, TypeInv, TypeOK
  <1>2. update.index \in CacheIndex /\ update.cache \in Cache
    BY <1>1 DEF Response, Updates
  <1>3. /\ decoder' = [decoder EXCEPT ![update.index] = NoDecoder]
        /\ slot' = [slot EXCEPT ![update.index] = update.cache]
        /\ slot \in [CacheIndex -> CacheOrNone] /\ decoder \in [CacheIndex -> Decoder]
        /\ UNCHANGED <<tsscSequenceNumber, epoch, packets>>
    BY DEF HandleUpdateSignalIndexCache, TypeInv, TypeOK, tsscVars
  <1>4. DecoderHasCache' /\ (DecoderPoint'.seq = 0 \/ DecoderPoint' = DecoderPoint)
    <2>1. CASE update.index = PacketCacheIndex
      <3>1. decoder'[PacketCacheIndex] = NoDecoder
        BY <1>2, <1>3, <2>1
      <3> QED
        BY <3>1 DEF NoDecoder, DecoderHasCache, DecoderPoint, Point
    <2>2. CASE update.index # PacketCacheIndex
      <3>1. /\ decoder'[PacketCacheIndex] = decoder[PacketCacheIndex]
            /\ slot'[PacketCacheIndex] = slot[PacketCacheIndex]
        BY <1>2, <1>3, <2>2 DEF PacketCacheIndex, CacheIndex
      <3> QED
        BY <3>1 DEF TsscInv, DecoderHasCache, DecoderPoint
    <2> QED
      BY <2>1, <2>2
  <1>5. EncoderPoint' = EncoderPoint /\ FirstOfRun'
    BY <1>1, <1>3, FirstOfRunReceived DEF EncoderPoint, TsscInv
  <1>6. Chained(DecoderPoint', Tail(responses), EncoderPoint)
    BY <1>1, <1>4, ChainedReceive DEF TsscInv
  <1> QED
    BY <1>1, <1>4, <1>5, <1>6 DEF TsscInv

LEMMA TsscNext == TypeInv /\ TsscInv /\ [Next]_vars => TsscInv'
  <1> SUFFICES ASSUME TypeInv, TsscInv, [Next]_vars PROVE TsscInv'
    OBVIOUS
  <1>1. CASE \/ Subscribe \/ Unsubscribe \/ HandleSubscribe \/ HandleUnsubscribe
             \/ RequestTsscReset \/ HandleConfirmUpdateSignalIndexCache \/ TakePending
             \/ \E p \in Publishers : ReadCache(p)
    <2>1. UNCHANGED <<slot, decoder, tsscSequenceNumber, epoch, packets, responses>>
      BY <1>1
         DEF Subscribe, Unsubscribe, HandleSubscribe, HandleUnsubscribe, RequestTsscReset,
             HandleConfirmUpdateSignalIndexCache, TakePending, ReadCache,
             subscriberVars, tsscVars
    <2> QED
      BY <2>1, TsscFrame
  <1>2. CASE HandleDefineOperationalModes \/ HandleSubscribeFailure \/ CompleteSubscribe
    <2>1. PICK outcome \in {"Succeeded", "Failed"}, command \in Command :
            responses' = Append(responses, Result(outcome, command))
      BY <1>2, CommandTypes
         DEF HandleDefineOperationalModes, HandleSubscribeFailure, CompleteSubscribe
    <2>2. Result(outcome, command) \in Response
          /\ Result(outcome, command).type # "DataPacket"
      BY MessageTypes DEF Result
    <2>3. UNCHANGED <<slot, decoder, tsscSequenceNumber, epoch, packets>>
      BY <1>2
         DEF HandleDefineOperationalModes, HandleSubscribeFailure, CompleteSubscribe,
             subscriberVars, tsscVars
    <2> QED
      BY <2>1, <2>2, <2>3, TsscFrame
  <1>3. ASSUME NEW index \in CacheIndex, NEW cache \in Cache,
               responses' = Append(responses, Update(index, cache)),
               UNCHANGED <<subscriberVars, tsscSequenceNumber, epoch, packets>>
        PROVE  TsscInv'
    <2>1. Update(index, cache) \in Response /\ Update(index, cache).type # "DataPacket"
      BY MessageTypes DEF Update
    <2> QED
      BY <1>3, <2>1, TsscFrame DEF subscriberVars
  <1>4. CASE SwapCache
    BY <1>3, <1>4
       DEF SwapCache, TypeInv, TypeOK, ParsedHasCache, CacheIndex, CacheOrNone, Cache, None,
           tsscVars
  <1>5. ASSUME NEW cache \in Cache, UpdateSignalIndexCache(cache),
               UNCHANGED <<subscriberVars, tsscVars>>
        PROVE  TsscInv'
    <2>1. CASE OfferCache(cache)
      <3>1. 1 - currentCacheIndex \in CacheIndex
        BY DEF TypeInv, TypeOK, CacheIndex
      <3> QED
        BY <1>3, <1>5, <2>1, <3>1 DEF OfferCache, tsscVars
    <2>2. CASE ParkCache(cache)
      BY <1>5, <2>2, TsscFrame DEF ParkCache, subscriberVars, tsscVars
    <2> QED
      BY <1>5, <2>1, <2>2 DEF UpdateSignalIndexCache
  <1>6. CASE HandleSubscribeUpdate
    <2>1. built \in Cache
      BY <1>6 DEF HandleSubscribeUpdate, TypeInv, TypeOK, ParsedHasCache, Cache, CacheOrNone,
         None
    <2> QED
      BY <1>5, <1>6, <2>1 DEF HandleSubscribeUpdate
  <1>7. ASSUME NEW cache \in takenCaches, ApplyPending(cache) PROVE TsscInv'
    BY <1>5, <1>7 DEF ApplyPending, TypeInv, TypeOK
  <1>8. CASE HandleSucceeded \/ HandleFailed
    <2>1. /\ responses # <<>> /\ Head(responses).type # "DataPacket"
          /\ responses' = Tail(responses)
      BY <1>8 DEF HandleSucceeded, HandleFailed, Deliver
    <2>2. UNCHANGED <<slot, decoder, tsscSequenceNumber, epoch, packets>>
      BY <1>8 DEF HandleSucceeded, HandleFailed, subscriberVars, tsscVars
    <2> QED
      BY <2>1, <2>2, TsscFrame
  <1>9. CASE Reconnect
    <2>1. /\ responses' = <<>> /\ tsscSequenceNumber' = 0 /\ packets' = 0
          /\ UNCHANGED <<slot, decoder>>
      BY <1>9 DEF Reconnect
    <2>2. EncoderPoint'.seq = 0
      BY <2>1 DEF EncoderPoint, Point
    <2>3. Chained(DecoderPoint, responses, EncoderPoint)'
      BY <2>1, <2>2 DEF Chained, Meets
    <2> QED
      BY <2>1, <2>3 DEF TsscInv, FirstOfRun, DecoderHasCache
  <1>10. CASE UNCHANGED vars
    BY <1>10, TsscFrame DEF vars, subscriberVars, tsscVars
  <1> QED
    BY <1>1, <1>2, <1>4, <1>6, <1>7, <1>8, <1>9, <1>10, EncoderStep, DecoderStep, NewCacheStep
       DEF Next, CommandThread, PoolTask, PublisherThread, ResponseThread

(* A data packet that the subscriber's decoder accepts is the next one of  *)
(* the run that the decoder follows, whatever was dropped, lost with a     *)
(* connection or sent before its cache arrived: a sequence number that     *)
(* comes round never makes a decoder take a packet of another place.       *)
THEOREM DecoderInStep == Spec => []TsscInStep
  <1>1. TypeInv /\ TsscInv => TsscInStep
    <2> DEFINE packet == Head(responses)
    <2> SUFFICES ASSUME TypeInv, TsscInv, responses # <<>>, packet.type = "DataPacket",
                        slot[PacketCacheIndex] # None, Accepts(packet)
                 PROVE  /\ DecoderFor(packet).epoch = packet.epoch
                        /\ DecoderFor(packet).decoded = packet.ordinal
      BY DEF TsscInStep
    <2>1. 1 \in 1 .. Len(responses) /\ responses[1] = packet
      BY TailElements DEF TypeInv, TypeOK
    <2>2. packet.seq = 0 <=> packet.ordinal = 0
      BY <2>1 DEF TsscInv, FirstOfRun, IsData
    <2>3. Meets(DecoderPoint, PointOf(packet))
      <3>1. IsData(responses, 1) /\ NoData(responses, 1, 1 - 1)
        BY <2>1 DEF IsData, NoData
      <3> QED
        BY <2>1, <3>1 DEF TsscInv, Chained
    <2>4. CASE packet.seq = 0 \/ ~decoder[PacketCacheIndex].created
      BY <2>2, <2>4 DEF DecoderFor, NewDecoder, Accepts
    <2>5. CASE packet.seq # 0 /\ decoder[PacketCacheIndex].created
      BY <2>3, <2>5 DEF DecoderFor, Accepts, Meets, DecoderPoint, PointOf, Point
    <2> QED
      BY <2>4, <2>5
  <1>2. Init => TypeInv /\ TsscInv
    BY TypeInit, TsscInit
  <1>3. TypeInv /\ TsscInv /\ [Next]_vars => TypeInv' /\ TsscInv'
    BY TypeNext, TsscNext
  <1> QED
    BY <1>1, <1>2, <1>3, PTL DEF Spec

-----------------------------------------------------------------------------
(* Refinement.                                                             *)

LEMMA HandoverInit == Init => Handover!Init
  BY DEF Init, Handover!Init, CacheIndex, None

(* An update that arrives is a Learn step of the handover.                 *)
LEMMA LearnStep ==
  ASSUME Version > 1, TypeInv, ExchangeInv, TypeInv', ExchangeInv',
         HandleUpdateSignalIndexCache
  PROVE  Handover!Learn
  <1> DEFINE update == Head(responses)
             other == slot[1 - update.index]
             kept == {other} \ {None}
  <1>1. update.index \in CacheIndex /\ update.cache \in Cache
    <2>1. responses \in Seq(Response) /\ responses # <<>>
          /\ update.type = "UpdateSignalIndexCache"
      BY DEF HandleUpdateSignalIndexCache, Deliver, TypeInv, TypeOK
    <2>2. update \in Response
      BY <2>1, ReceiveType
    <2> QED
      BY <2>1, <2>2 DEF Response, Updates
  <1>2. slot' = [slot EXCEPT ![update.index] = update.cache]
    BY DEF HandleUpdateSignalIndexCache
  <1>3. slot \in [CacheIndex -> CacheOrNone]
    BY DEF TypeInv, TypeOK
  <1>4. {slot'[0], slot'[1]} \ {None} = kept \cup {update.cache}
    BY <1>1, <1>2, <1>3 DEF CacheIndex, Cache, None, CacheOrNone
  <1>5. kept \in SUBSET ({slot[0], slot[1]} \ {None})
    BY <1>1, <1>3 DEF CacheIndex
  <1>6. signalIndexCache' = signalIndexCache
    BY DEF HandleUpdateSignalIndexCache, exchangeVars
  <1>7. signalIndexCache # None => signalIndexCache \in {slot'[0], slot'[1]} \ {None}
    <2>1. ActiveCacheHeld' /\ currentCacheIndex' \in CacheIndex
      BY DEF ExchangeInv, TypeInv, TypeOK
    <2> QED
      BY <1>6, <2>1 DEF ActiveCacheHeld, CacheIndex
  <1>8. update.cache \in {slot'[0], slot'[1]} \ {None}
    BY <1>4
  <1> HIDE DEF update, kept
  <1> QED
    BY <1>4, <1>5, <1>6, <1>7, <1>8 DEF Handover!Learn

LEMMA HandOverStep ==
  ASSUME Version > 1, TypeInv, ExchangeInv, HandleConfirmUpdateSignalIndexCache
  PROVE  Handover!HandOver
  <1>1. /\ commands # <<>>
        /\ Head(commands) = Confirmation
        /\ commands \in Seq(Command)
    BY DEF HandleConfirmUpdateSignalIndexCache, Receive, TypeInv, TypeOK, Confirmation
  <1>2. nextSignalIndexCache # None /\ slot[nextCacheIndex] = nextSignalIndexCache
    BY <1>1, NoneOfTail DEF ExchangeInv, OneOfferOutstanding, NoConfirm
  <1>3. nextCacheIndex \in CacheIndex
    BY DEF TypeInv, TypeOK
  <1> QED
    BY <1>2, <1>3 DEF HandleConfirmUpdateSignalIndexCache, Handover!HandOver,
       subscriberVars, CacheIndex

LEMMA AbandonStep == Reconnect => Handover!Abandon
  BY DEF Reconnect, Handover!Abandon

LEMMA HandoverNext ==
  ASSUME Version > 1, TypeInv, ExchangeInv, TypeInv', ExchangeInv', [Next]_vars
  PROVE  [Handover!Next]_(Handover!vars)
  <1> DEFINE Same == UNCHANGED <<slot, signalIndexCache>>
  <1>1. Same => UNCHANGED Handover!vars
    BY DEF Handover!vars
  <1>2. CASE HandleUpdateSignalIndexCache
    BY <1>2, LearnStep DEF Handover!Next
  <1>3. CASE HandleConfirmUpdateSignalIndexCache
    BY <1>3, HandOverStep DEF Handover!Next
  <1>4. CASE Reconnect
    BY <1>4, AbandonStep DEF Handover!Next
  <1>5. CASE UNCHANGED vars
    BY <1>1, <1>5 DEF vars, exchangeVars, subscriberVars
  <1>6. CASE Subscribe \/ Unsubscribe
    BY <1>1, <1>6 DEF Subscribe, Unsubscribe, exchangeVars, subscriberVars
  <1>7. CASE CommandThread /\ ~HandleConfirmUpdateSignalIndexCache
    BY <1>1, <1>7
       DEF CommandThread, HandleDefineOperationalModes, HandleSubscribe,
           HandleSubscribeFailure, HandleUnsubscribe, HandleSubscribeUpdate,
           UpdateSignalIndexCache, OfferCache, ParkCache, SwapCache,
           RequestTsscReset, CompleteSubscribe, exchangeVars, subscriberVars
  <1>8. CASE PoolTask
    BY <1>1, <1>8
       DEF PoolTask, TakePending, ApplyPending, UpdateSignalIndexCache, OfferCache,
           ParkCache, exchangeVars, subscriberVars
  <1>9. ASSUME NEW p \in Publishers, PublisherThread(p) PROVE Same
    BY <1>9 DEF PublisherThread, ReadCache, PublishTSSCMeasurements, exchangeVars,
       subscriberVars
  <1>10. CASE ResponseThread /\ ~HandleUpdateSignalIndexCache
    BY <1>1, <1>10
       DEF ResponseThread, HandleSucceeded, HandleFailed, HandleDataPacket,
           exchangeVars, subscriberVars
  <1> QED
    BY <1>1, <1>2, <1>3, <1>4, <1>5, <1>6, <1>7, <1>8, <1>9, <1>10 DEF Next

(* A version 2 exchange is a handover: whatever is interleaved, no step    *)
(* takes the cache in use from the subscriber, and the publisher goes over *)
(* only to a cache that the subscriber holds.                              *)
THEOREM Refinement ==
  ASSUME Version > 1
  PROVE  Spec => ImplementsHandover
  <1>1. TypeInv /\ ExchangeInv /\ (TypeInv /\ ExchangeInv)' /\ [Next]_vars
          => [Handover!Next]_(Handover!vars)
    BY HandoverNext
  <1> QED
    BY <1>1, HandoverInit, ExchangeAlways, PTL
       DEF Spec, ImplementsHandover, Handover!Spec

=============================================================================
