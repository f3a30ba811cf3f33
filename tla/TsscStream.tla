------------------------------ MODULE TsscStream ------------------------------
(***************************************************************************)
(* Compressed publication: PublishTSSCMeasurements of                      *)
(* SubscriberConnection.cpp encodes measurements into packets and          *)
(* ParseTSSCMeasurements of DataSubscriber.cpp decodes them.  Both ends    *)
(* adapt to every code they meet and must do so in step.  What requests a  *)
(* reset, and which packet meets which decoder, is in                      *)
(* SignalIndexCacheExchange; here the command channel is in order and      *)
(* loses nothing (TSSC is not used over UDP), and the encoding is exact.   *)
(***************************************************************************)
EXTENDS TsscCodec, FiniteSets

CONSTANTS Measurements,    \* what may be published
          MaxSequence,     \* 65535, after which sequence number 1 follows
          MaxMeasurements, \* bound: measurements
          MaxResets        \* bound: requests of a reset

ASSUME StreamAssumption ==
  /\ \A m \in Measurements : m.id \in ID /\ {m.time, m.quality, m.value} \subseteq 0 .. 2 ^ 28 - 1
  /\ {MaxMeasurements, MaxResets} \subseteq Nat /\ MaxSequence \in Nat \ {0}

VARIABLES
  encoder,        \* m_tsscEncoder
  resetRequested, \* m_tsscResetRequested
  sequence,       \* m_tsscSequenceNumber
  publishing,     \* a batch is under way, under m_tsscResetRequestedLock
  dataPacket,     \* the packet that is on its way or being decoded, or NoPacket
  decoder,        \* m_tsscDecoder
  expected,       \* its m_sequenceNumber
  failed,         \* an error was found in a packet: the subscriber disconnects
  sent,           \* history: measurements that were encoded and not yet decoded
  delivered,      \* history: the last decoded measurement, and what it should be
  measurements, resets \* counters of the bounds

encoderVars == <<encoder, resetRequested, sequence, publishing>>
decoderVars == <<decoder, expected, failed>>
tsscCounters == <<measurements, resets>>
history == <<sent, delivered>>
tsscVars == <<encoderVars, dataPacket, decoderVars, history, tsscCounters>>

NoPacket == [sequence |-> -1, data |-> <<>>]
Next16(n) == IF n = MaxSequence THEN 1 ELSE n + 1

TsscInit ==
  /\ encoder = NewEncoder
  /\ resetRequested = FALSE
  /\ sequence = 0
  /\ publishing = FALSE
  /\ dataPacket = NoPacket
  /\ decoder = NewDecoder
  /\ expected = 0
  /\ failed = FALSE
  /\ sent = <<>> /\ delivered = <<>>
  /\ measurements = 0 /\ resets = 0

-----------------------------------------------------------------------------
(* The publisher.  A packet leaves only when the one before was decoded:   *)
(* nothing but the packets connects the two ends.                          *)

RequestReset ==
  /\ ~publishing /\ resets < MaxResets
  /\ resetRequested' = TRUE
  /\ resets' = resets + 1
  /\ UNCHANGED <<encoder, sequence, publishing, dataPacket, decoderVars, history,
                 measurements>>

(* The start of PublishTSSCMeasurements; no signal of a batch need be      *)
(* mapped.                                                                 *)
StartBlock ==
  /\ ~publishing /\ dataPacket = NoPacket /\ measurements < MaxMeasurements
  /\ publishing' \in BOOLEAN
  /\ encoder' = SetBuffer(IF resetRequested THEN NewEncoder ELSE encoder)
  /\ sequence' = IF resetRequested THEN 0 ELSE sequence
  /\ resetRequested' = FALSE
  /\ UNCHANGED <<dataPacket, decoderVars, history, tsscCounters>>

TryAddMeasurement(m) ==
  /\ publishing /\ dataPacket = NoPacket /\ measurements < MaxMeasurements
  /\ HasSpace(encoder)
  /\ encoder' = AddMeasurement(encoder, m)
  /\ sent' = Append(sent, m)
  /\ measurements' = measurements + 1
  /\ UNCHANGED <<resetRequested, sequence, publishing, dataPacket, decoderVars, delivered,
                 resets>>

(* PublishTSSCDataPacket, with the last measurement of the batch or when   *)
(* the buffer is full: then more of the batch follows in the next packet.  *)
PublishTSSCDataPacket(more) ==
  /\ publishing /\ dataPacket = NoPacket /\ sent # <<>>
  /\ more => ~HasSpace(encoder)
  /\ LET finished == FinishBlock(encoder) IN
       /\ dataPacket' = [sequence |-> sequence, data |-> finished.data]
       /\ encoder' = SetBuffer(finished)
  /\ sequence' = Next16(sequence)
  /\ publishing' = more
  /\ UNCHANGED <<resetRequested, decoderVars, history, tsscCounters>>

-----------------------------------------------------------------------------
(* The subscriber: ParseTSSCMeasurements.                                  *)

(* Sequence number 0 comes with a new decoder; with any other than the     *)
(* expected one the packet is ignored.                                     *)
ReceivePacket ==
  /\ dataPacket # NoPacket /\ decoder.data = <<>>
  /\ LET fresh == dataPacket.sequence = 0 IN
       IF ~fresh /\ expected # dataPacket.sequence
       THEN dataPacket' = NoPacket /\ UNCHANGED <<decoder, expected>>
       ELSE /\ decoder' = SetData(IF fresh THEN NewDecoder ELSE decoder, dataPacket.data)
            /\ expected' = dataPacket.sequence
            /\ UNCHANGED dataPacket
  /\ UNCHANGED <<encoderVars, failed, history, tsscCounters>>

GetMeasurement ==
  /\ decoder.data # <<>> /\ ~failed /\ ~AtEnd(decoder)
  /\ LET got == TryGetMeasurement(decoder) IN
       /\ decoder' = [got.decoder EXCEPT !.got = 0]
       /\ failed' = got.misplaced
       /\ IF got.read = <<>>
          THEN UNCHANGED history
          ELSE /\ delivered' = got.read \o SubSeq(sent, 1, 1)
               /\ sent' = SubSeq(sent, 2, Len(sent))
  /\ UNCHANGED <<encoderVars, dataPacket, expected, tsscCounters>>

EndOfBlock ==
  /\ decoder.data # <<>> /\ ~failed /\ AtEnd(decoder)
  /\ decoder' = SetData(decoder, <<>>)
  /\ expected' = Next16(expected)
  /\ dataPacket' = NoPacket
  /\ UNCHANGED <<encoderVars, failed, history, tsscCounters>>

-----------------------------------------------------------------------------
TsscNext ==
  \/ RequestReset \/ StartBlock
  \/ \E m \in Measurements : TryAddMeasurement(m)
  \/ \E more \in BOOLEAN : PublishTSSCDataPacket(more)
  \/ ReceivePacket \/ GetMeasurement \/ EndOfBlock

TsscSpec == TsscInit /\ [][TsscNext]_tsscVars

-----------------------------------------------------------------------------
(* What is decoded is what was encoded, in the same order, none left out   *)
(* and none invented, whatever short words, packets and resets lie between;*)
(* nothing past the end of a packet is read for it.                        *)
DecodedAsSent ==
  /\ ~failed /\ decoder.position <= Len(decoder.data)
  /\ delivered # <<>> => Len(delivered) = 2 /\ delivered[1] = delivered[2]
  /\ dataPacket = NoPacket /\ encoder.data = <<>> => sent = <<>>

(* When a packet has been decoded, both ends have adapted to it alike: the *)
(* next one is encoded and decoded with the same words, values and times.  *)
(* Only a reset that no packet has carried yet sets them apart.            *)
Adaptation(codec) ==
  <<codec.points, codec.last, codec.time, codec.deltas>>
CodecsInStep ==
  dataPacket = NoPacket /\ ~publishing =>
    \/ sequence = 0
    \/ sequence = expected /\ Adaptation(encoder) = Adaptation(decoder)

(* The encoder tests for space once for each measurement, and then not     *)
(* again: the bytes that it keeps free are enough for what it writes until *)
(* the block is ended, the byte that it writes bits to is one that it has  *)
(* reserved, and there is one exactly while bits wait.                     *)
NoBufferOverrun ==
  /\ Len(encoder.data) <= BufferSize /\ Len(dataPacket.data) <= BufferSize
  /\ encoder.bits \in 0 .. 7
  /\ encoder.bits = 0 => encoder.index = 0
  /\ encoder.bits # 0 => encoder.index \in 1 .. Len(encoder.data)
================================================================================
