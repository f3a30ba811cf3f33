------------------------------- MODULE TsscCodec -------------------------------
(***************************************************************************)
(* The TSSC compression of measurements: TSSCEncoder.cpp, TSSCDecoder.cpp  *)
(* and TSSCPointMetadata.cpp.  Encoder and decoder each keep a state that  *)
(* adapts to what they have seen: the last measurement and its successor,  *)
(* the last values of every point, time differences, and the short words   *)
(* of the most frequent codes.  What is sent are bytes: some hold bits of  *)
(* code words, and are reserved when their first bit is written; others    *)
(* follow in between.                                                      *)
(*                                                                         *)
(* Every number, of 32 bits or 64, is below 2^28 here; a time difference   *)
(* that was never seen (Int64::MaxValue) is NoDelta.                       *)
(***************************************************************************)
EXTENDS Integers, Sequences, FiniteSets, FiniteSetsExt, SequencesExt

CONSTANTS ID,            \* the signal indexes
          AdaptAfter,    \* the codes after which words are chosen: <<5, 20, 100>>
          TimeBytes,     \* 9: the most that Encode7BitUInt64 writes
          QualityBytes,  \* 5: the most that Encode7BitUInt32 writes
          ReservedBytes, \* 100: with fewer bytes left no measurement is added
          BufferSize     \* TSSCBufferSize

ASSUME CodecAssumption ==
  /\ ID \subseteq Nat /\ {ReservedBytes, BufferSize} \subseteq Nat
  /\ {TimeBytes, QualityBytes} \subseteq Nat \ {0}
  /\ AdaptAfter \in [1 .. 3 -> Nat]

(* Four codes take four bytes, identity and value four each, the end one.  *)
ASSUME ReservedAssumption == 13 + TimeBytes + QualityBytes <= ReservedBytes

NoDelta == 2 ^ 30

(* TSSCCodeWords                                                           *)
EndOfStream == 0
PointIDXOR32 == 7
TimeDelta1Forward == 8
TimeDelta1Reverse == 12
Timestamp2 == 16
TimeXOR7Bit == 17
Quality2 == 18
Quality7Bit32 == 19
Value1 == 20
ValueZero == 23
CodeWord == 0 .. 31

-----------------------------------------------------------------------------
(* TSSCPointMetadata                                                       *)

NewPoint(id) ==
  [next |-> id, quality |-> <<0, 0>>, value |-> <<0, 0, 0>>,
   words |-> <<20, 21, 22>>, stats |-> [code \in CodeWord |-> 0],
   sent |-> 0, startup |-> 0]

(* The three most frequent codes in order, the smaller of equal ones       *)
(* first; what was in the table before is moved down.                      *)
Inserted(top, entry) ==
  CASE entry.count > top[1].count -> <<entry, top[1], top[2]>>
    [] entry.count > top[2].count -> <<top[1], entry, top[2]>>
    [] entry.count > top[3].count -> <<top[1], top[2], entry>>
    [] OTHER -> top

MostFrequent(stats) ==
  FoldLeft(Inserted, [i \in 1 .. 3 |-> [code |-> i - 1, count |-> 0]],
           [i \in 1 .. 32 |-> [code |-> i - 1, count |-> stats[i - 1]]])

(* With n short words the i-th takes i bits, every other code 5 + n.       *)
Size(top, total, n) ==
  LET short == [i \in 1 .. n |-> top[i].count]
      Plus(x, y) == x + y
  IN  FoldLeft(Plus, 0, [i \in 1 .. n |-> i * short[i]])
        + (total - FoldLeft(Plus, 0, short)) * (IF n = 0 THEN 5 ELSE 5 + n)

(* The fewest bits, and of equal choices the fewest short words.           *)
Best(sizes) ==
  LET Fewest(n) == \A k \in 0 .. 3 : ~(sizes[k] < sizes[n])
  IN  CASE Fewest(0) -> 0
        [] ~Fewest(0) /\ Fewest(1) -> 1
        [] ~Fewest(0) /\ ~Fewest(1) /\ Fewest(2) -> 2
        [] OTHER -> 3

WithWords(p, top) ==
  [p EXCEPT !.words = [i \in 1 .. Best([n \in 0 .. 3 |-> Size(top, p.sent, n)]) |-> top[i].code],
            !.stats = [code \in CodeWord |-> 0],
            !.sent = 0]

AdaptCommands(p) == WithWords(p, MostFrequent(p.stats))

UpdatedCodeStatistics(p, code) ==
  LET counted == [p EXCEPT !.stats[code] = @ + 1, !.sent = @ + 1] IN
  IF counted.sent > AdaptAfter[p.startup + 1]
  THEN AdaptCommands([counted EXCEPT !.startup = IF @ < 2 THEN @ + 1 ELSE 2])
  ELSE counted

-----------------------------------------------------------------------------
(* What encoder and decoder have in common.  The point that precedes the   *)
(* first measurement has no signal index: it is point -1.  A point that is *)
(* made when it is first met expects its successor.                        *)

NewPoints == [id \in {-1} \cup ID |-> NewPoint(id + 1)]
NoDeltas == <<NoDelta, NoDelta, NoDelta, NoDelta>>

Difference(x, y) == IF x < y THEN y - x ELSE x - y

(* The smallest differences are kept in order, each once.                  *)
DeltasWith(deltas, delta) ==
  IF delta >= deltas[4] \/ \E i \in 1 .. 3 : delta = deltas[i]
  THEN deltas
  ELSE LET place == CHOOSE i \in 1 .. 4 :
                      /\ delta < deltas[i]
                      /\ \A j \in 1 .. i - 1 : delta >= deltas[j]
       IN  SubSeq(InsertAt(deltas, place, delta), 1, 4)

TimeSet(codec, timestamp) ==
  [codec EXCEPT !.deltas = DeltasWith(@, Difference(codec.time[1], timestamp)),
                !.time = <<timestamp, codec.time[1]>>]

QualitySet(codec, id, quality) ==
  [codec EXCEPT !.points[id].quality = <<quality, @[1]>>]

(* A value moves to the front: one that was first stays, one that was      *)
(* second changes places with it, any other one is put before both.        *)
ValueSet(codec, id, value, code) ==
  [codec EXCEPT !.points[id].value =
     CASE code = Value1 -> @
       [] code = Value1 + 1 -> <<value, @[1], @[3]>>
       [] OTHER -> <<value, @[1], @[2]>>]

-----------------------------------------------------------------------------
(* Exclusive or, of numbers of 28 bits.                                    *)
Xor(x, y) ==
  MapThenSumSet(LAMBDA i : 2 ^ i * ((x \div 2 ^ i + y \div 2 ^ i) % 2), 0 .. 27)

(* The places that a number has, of those that there are at most.          *)
Places(value, radix, most) ==
  1 + Cardinality({n \in 1 .. most - 1 : value >= radix ^ n})

(* Encode7BitUInt32 and Encode7BitUInt64: seven bits a byte, the lowest    *)
(* first, with the high bit in all bytes but the last.                     *)
Encode7Bit(value, most) ==
  LET groups == Places(value, 128, most)
  IN  [i \in 1 .. groups |->
         ((value \div 128 ^ (i - 1)) % 128) + (IF i < groups THEN 128 ELSE 0)]

(* The number of hexadecimal digits decides how changed bits are sent.     *)
Digits(value) == Places(value, 16, 8)

LowBytes(value, n) == [i \in 1 .. n |-> (value \div 256 ^ (i - 1)) % 256]

-----------------------------------------------------------------------------
(* TSSCEncoder                                                             *)

NewEncoder ==
  [points |-> NewPoints, last |-> -1, time |-> <<0, 0>>, deltas |-> NoDeltas,
   data |-> <<>>, index |-> 0, bits |-> 0, cache |-> 0]

SetBuffer(e) == [e EXCEPT !.data = <<>>, !.index = 0, !.bits = 0, !.cache = 0]

PutBytes(e, bytes) == [e EXCEPT !.data = @ \o bytes]

(* The byte that takes bits, index, is reserved with its first bit.        *)
Reserve(e) ==
  IF e.index > 0 THEN e ELSE [e EXCEPT !.data = Append(@, 0), !.index = Len(e.data) + 1]

(* At most 15 bits wait: one byte is written.                              *)
BitStreamEnd(e) ==
  IF e.bits <= 7 THEN e
  ELSE LET rest == e.bits - 8
           written == [e EXCEPT !.data[e.index] = e.cache \div 2 ^ rest, !.index = 0,
                                !.bits = rest, !.cache = @ % 2 ^ rest]
       IN  IF rest > 0 THEN Reserve(written) ELSE written

WriteBits(e, code, length) ==
  BitStreamEnd([Reserve(e) EXCEPT !.cache = @ * 2 ^ length + code, !.bits = @ + length])

WriteCode(e, code) ==
  LET p == e.points[e.last]
      n == Len(p.words)
      short == {i \in 1 .. n : p.words[i] = code}
      first == CHOOSE i \in short : \A j \in short : i <= j
      written == IF short = {} THEN WriteBits(e, code, 5 + n) ELSE WriteBits(e, 1, first)
  IN  [written EXCEPT !.points[e.last] = UpdatedCodeStatistics(p, code)]

(* Changed bits: a digit as bits if their number is odd, the rest as bytes.*)
WriteChange(e, code, change, digits) ==
  LET coded == WriteCode(e, code) IN
  IF digits % 2 = 1
  THEN PutBytes(WriteBits(coded, change % 16, 4), LowBytes(change \div 16, digits \div 2))
  ELSE PutBytes(coded, LowBytes(change, digits \div 2))

(* There is no code for an identity of seven digits.                       *)
ChangeDigits(change) == IF Digits(change) = 7 THEN 8 ELSE Digits(change)

WriteIDChange(e, change, digits) ==
  WriteChange(e, IF digits = 8 THEN PointIDXOR32 ELSE digits, change, digits)

WritePointIDChange(e, id) ==
  LET change == Xor(id, e.points[e.last].next)
  IN  [WriteIDChange(e, change, ChangeDigits(change)) EXCEPT !.points[e.last].next = id]

(* Forward and reverse by one of the four differences, or in full.         *)
WriteTimestampChange(e, timestamp) ==
  LET known == {i \in 1 .. 4 : e.deltas[i] = Difference(e.time[1], timestamp)}
      first == CHOOSE i \in known : \A j \in known : i <= j
      base == IF e.time[1] < timestamp THEN TimeDelta1Forward ELSE TimeDelta1Reverse
      coded ==
        IF e.time[2] = timestamp THEN WriteCode(e, Timestamp2)
        ELSE IF known # {} THEN WriteCode(e, base + first - 1)
        ELSE PutBytes(WriteCode(e, TimeXOR7Bit), Encode7Bit(Xor(timestamp, e.time[1]), TimeBytes))
  IN  TimeSet(coded, timestamp)

WriteQualityChange(e, id, quality) ==
  LET coded == IF e.points[id].quality[2] = quality
               THEN WriteCode(e, Quality2)
               ELSE PutBytes(WriteCode(e, Quality7Bit32), Encode7Bit(quality, QualityBytes))
  IN  QualitySet(coded, id, quality)

WriteValue(e, id, value) ==
  LET known == {i \in 1 .. 3 : e.points[id].value[i] = value}
      first == CHOOSE i \in known : \A j \in known : i <= j
      change == Xor(value, e.points[id].value[1])
      code == IF known # {} THEN Value1 + first - 1
              ELSE IF value = 0 THEN ValueZero
              ELSE ValueZero + Digits(change)
      coded == IF code <= ValueZero
               THEN WriteCode(e, code)
               ELSE WriteChange(e, code, change, Digits(change))
  IN  ValueSet(coded, id, value, code)

HasSpace_Always(e) == TRUE
HasSpace(e) == BufferSize - Len(e.data) >= ReservedBytes

(* TryAddMeasurement, when there is space: what has not changed is left    *)
(* out, and the codes belong to the point of the measurement before.       *)
Identified(e, m) ==
  IF e.points[e.last].next # m.id THEN WritePointIDChange(e, m.id) ELSE e
Timed(e, m) ==
  IF e.time[1] # m.time THEN WriteTimestampChange(e, m.time) ELSE e
Qualified(e, m) ==
  IF e.points[m.id].quality[1] # m.quality
  THEN WriteQualityChange(e, m.id, m.quality) ELSE e

AddMeasurement(e, m) ==
  [WriteValue(Qualified(Timed(Identified(e, m), m), m), m.id, m.value) EXCEPT !.last = m.id]

(* BitStreamFlush: without a bit that waits the end is not marked.         *)
FinishBlock_NoEnd(e) ==
  IF e.bits = 0 THEN e
  ELSE [e EXCEPT !.data[e.index] = e.cache * 2 ^ (8 - e.bits),
                 !.index = 0, !.bits = 0, !.cache = 0]

FinishBlock(e) ==
  IF e.bits = 0 THEN e
  ELSE LET ended == WriteCode(e, EndOfStream) IN
       IF ended.bits = 0 THEN ended
       ELSE [ended EXCEPT !.data[ended.index] = ended.cache * 2 ^ (8 - ended.bits),
                          !.index = 0, !.bits = 0, !.cache = 0]

-----------------------------------------------------------------------------
(* TSSCDecoder.  Every operator that reads returns the decoder after it    *)
(* with what was read in its field got.                                    *)

NewDecoder ==
  [points |-> NewPoints, last |-> -1, time |-> <<0, 0>>, deltas |-> NoDeltas,
   data |-> <<>>, position |-> 0, bits |-> 0, cache |-> 0, got |-> 0]

(* Past the packet is what the read buffer holds.  The bits of a number    *)
(* are read from the highest to the lowest, and before the bytes: the      *)
(* order the compilers choose for an expression the language leaves open.  *)
ByteAt(d, i) == IF i <= Len(d.data) THEN d.data[i] ELSE 0

SetData(d, data) == [d EXCEPT !.data = data, !.position = 0, !.bits = 0, !.cache = 0]

TakeBytes(d, n) ==
  [d EXCEPT !.position = @ + n, !.got = [i \in 1 .. n |-> ByteAt(d, d.position + i)]]

ReadBits(d, n) ==
  LET fresh == d.bits < n
      byte == ByteAt(d, d.position + 1)
      bits == IF fresh THEN d.bits + 8 ELSE d.bits
      cache == IF fresh THEN d.cache * 256 + byte ELSE d.cache
  IN  [d EXCEPT !.position = IF fresh THEN @ + 1 ELSE @,
                !.bits = bits - n,
                !.cache = cache % 2 ^ (bits - n),
                !.got = cache \div 2 ^ (bits - n)]

(* Bits are read until one is set, or all short words are ruled out; k     *)
(* bits are 1 when the last of them is the first that is set.              *)
ReadWord(d, words) ==
  LET set == {k \in 1 .. Len(words) : ReadBits(d, k).got = 1}
      first == CHOOSE k \in set : TRUE
  IN  IF set # {}
      THEN [ReadBits(d, first) EXCEPT !.got = words[first]]
      ELSE ReadBits(ReadBits(d, Len(words)), 5)

Counted(d) == [d EXCEPT !.points[d.last] = UpdatedCodeStatistics(@, d.got)]

ReadCode_EndNotCounted(d) ==
  LET read == ReadWord(d, d.points[d.last].words)
  IN  IF read.got = EndOfStream THEN read ELSE Counted(read)
ReadCode(d) == Counted(ReadWord(d, d.points[d.last].words))

Number(bytes, radix) ==
  LET Plus(x, y) == x + y
  IN  FoldLeft(Plus, 0, [i \in 1 .. Len(bytes) |-> (bytes[i] % radix) * radix ^ (i - 1)])

Decode7Bit(d, most) ==
  LET n == CHOOSE i \in 1 .. most :
             /\ i = most \/ ByteAt(d, d.position + i) < 128
             /\ \A j \in 1 .. i - 1 : ByteAt(d, d.position + j) >= 128
      taken == TakeBytes(d, n)
  IN  [taken EXCEPT !.got = Number(@, 128)]

ReadChange(d, digits) ==
  LET low == IF digits % 2 = 1 THEN ReadBits(d, 4) ELSE [d EXCEPT !.got = 0]
      rest == TakeBytes(low, digits \div 2)
  IN  [rest EXCEPT !.got = IF digits % 2 = 1
                           THEN low.got + 16 * Number(@, 256)
                           ELSE Number(@, 256)]

DecodePointID(d, code) ==
  LET read == ReadChange(d, IF code = PointIDXOR32 THEN 8 ELSE code)
  IN  [read EXCEPT !.points[d.last].next = Xor(read.got, @)]

DecodeTimestamp(d, code) ==
  LET read == IF code = TimeXOR7Bit THEN Decode7Bit(d, TimeBytes) ELSE d
      timestamp ==
        CASE code < TimeDelta1Reverse -> d.time[1] + d.deltas[code - TimeDelta1Forward + 1]
          [] code \in TimeDelta1Reverse .. Timestamp2 - 1 ->
               d.time[1] - d.deltas[code - TimeDelta1Reverse + 1]
          [] code = Timestamp2 -> d.time[2]
          [] OTHER -> Xor(d.time[1], read.got)
  IN  TimeSet(read, timestamp)

DecodeQuality(d, id, code) ==
  LET read == IF code = Quality2
              THEN [d EXCEPT !.got = d.points[id].quality[2]]
              ELSE Decode7Bit(d, QualityBytes)
  IN  QualitySet(read, id, read.got)

DecodeValue(d, id, code) ==
  LET known == d.points[id].value
      read == IF code <= ValueZero THEN d ELSE ReadChange(d, code - ValueZero)
      value == CASE code < ValueZero -> known[code - Value1 + 1]
                 [] code = ValueZero -> 0
                 [] OTHER -> Xor(read.got, known[1])
  IN  [ValueSet(read, id, value, code) EXCEPT !.got = value]

AtEnd(d) == d.position = Len(d.data) /\ d.bits = 0

NextID(d) == d.points[d.last].next

(* TryGetMeasurement, not at the end of the data: every part is preceded   *)
(* by its code, the parts that have not changed are left out.  Nothing is  *)
(* read at the end of the stream, and the rest of the packet is not looked *)
(* at; a code that belongs before the part just read is an error.          *)
GetPointID(d) ==
  IF d.got <= PointIDXOR32 THEN ReadCode(DecodePointID(d, d.got)) ELSE d
GetTimestamp(d) ==
  IF d.got \in TimeDelta1Forward .. TimeXOR7Bit
  THEN ReadCode(DecodeTimestamp(d, d.got)) ELSE d
GetQuality(d) ==
  IF d.got \in Quality2 .. Quality7Bit32 /\ NextID(d) \in ID
  THEN ReadCode(DecodeQuality(d, NextID(d), d.got)) ELSE d

Delivered(d, id) ==
  [decoder |-> [d EXCEPT !.last = id], misplaced |-> FALSE,
   read |-> <<[id |-> id, time |-> d.time[1],
               quality |-> d.points[id].quality[1], value |-> d.got]>>]

GetValue(d) ==
  IF d.got < Value1 \/ NextID(d) \notin ID
  THEN [decoder |-> d, read |-> <<>>, misplaced |-> TRUE]
  ELSE Delivered(DecodeValue(d, NextID(d), d.got), NextID(d))

(* The code for the end ends the reader's loop: what is left of the packet *)
(* is passed over, and what was read past its end stays visible.           *)
GetAfter(d) ==
  IF d.got = EndOfStream
  THEN [decoder |-> [d EXCEPT !.position = IF @ < Len(d.data) THEN Len(d.data) ELSE @,
                              !.bits = 0, !.cache = 0],
        read |-> <<>>, misplaced |-> FALSE]
  ELSE GetValue(GetQuality(GetTimestamp(GetPointID(d))))

TryGetMeasurement(d) == GetAfter(ReadCode(d))
================================================================================
