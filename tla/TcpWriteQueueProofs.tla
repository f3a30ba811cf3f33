------------------------ MODULE TcpWriteQueueProofs ------------------------
(***************************************************************************)
(* What holds of TcpWriteQueue for every number of parts, of responses and *)
(* of connections, accepted or reverse.                                    *)
(***************************************************************************)
EXTENDS TcpWriteQueue, SequenceTheorems, TLAPS

-----------------------------------------------------------------------------
(* Facts about work, parts and queues.                                     *)

LEMMA WorkTypes ==
  /\ \A frame \in Nat \ {0} : Push(frame) \in Work
  /\ \A error \in BOOLEAN : Written(error) \in Work
  /\ \A work \in Work : work.type = "push" => work.frame \in Nat \ {0}
  /\ \A work \in Work : work.type = "written" => work.error \in BOOLEAN
  /\ \A work \in Work : work.type # "push" => work.type = "written"
  BY DEF Work, Push, Written

LEMMA WorkFields ==
  ASSUME NEW frame, NEW error
  PROVE  /\ Push(frame).type = "push" /\ Push(frame).frame = frame
         /\ Written(error).type = "written" /\ Written(error).error = error
         /\ Push(frame).type # "written" /\ Written(error).type # "push"
  BY DEF Push, Written

LEMMA PartTypes ==
  /\ \A frame \in Nat \ {0}, part \in 1 .. Parts : Part(frame, part) \in PartType
  /\ 1 \in 1 .. Parts /\ Parts \in 1 .. Parts
  /\ \A p \in PartType : /\ p.frame \in Nat \ {0}
                         /\ p.part \in 1 .. Parts
                         /\ p = Part(p.frame, p.part)
                         /\ Successor(p) \in PartType
  <1>1. \A p \in PartType : p = Part(p.frame, p.part)
    BY DEF PartType, Part
  <1> QED
    BY <1>1, PartsAssumption DEF PartType, Part, Successor

LEMMA SendType ==
  ASSUME NEW S, NEW queue \in Seq(S), NEW item \in S
  PROVE  Append(queue, item) \in Seq(S)
  OBVIOUS

LEMMA ReceiveType ==
  ASSUME NEW S, NEW queue \in Seq(S), queue # <<>>
  PROVE  Head(queue) \in S /\ Tail(queue) \in Seq(S)
  BY HeadTailProperties

(* The items of a queue, and what happens to them.                         *)
LEMMA ItemType ==
  ASSUME NEW S, NEW queue \in Seq(S)
  PROVE  Len(queue) \in Nat /\ \A i \in 1 .. Len(queue) : queue[i] \in S
  BY ElementOfSeq, LenProperties

LEMMA SentItems ==
  ASSUME NEW S, NEW queue \in Seq(S), NEW item \in S
  PROVE  /\ Len(Append(queue, item)) = Len(queue) + 1
         /\ \A i \in 1 .. Len(queue) : Append(queue, item)[i] = queue[i]
         /\ Append(queue, item)[Len(queue) + 1] = item
         /\ Append(queue, item) # <<>>
  BY AppendProperties

LEMMA ReceivedItems ==
  ASSUME NEW S, NEW queue \in Seq(S), queue # <<>>
  PROVE  /\ 1 \in 1 .. Len(queue)
         /\ Head(queue) = queue[1]
         /\ Len(Tail(queue)) = Len(queue) - 1
         /\ \A i \in 1 .. Len(Tail(queue)) :
              i + 1 \in 1 .. Len(queue) /\ Tail(queue)[i] = queue[i + 1]
  <1>1. Len(queue) \in Nat /\ Len(queue) # 0
    BY EmptySeq, LenProperties
  <1> QED
    BY <1>1, HeadTailProperties

LEMMA EmptyQueue ==
  ASSUME NEW S, NEW queue \in Seq(S)
  PROVE  queue = <<>> <=> Len(queue) = 0
  BY EmptySeq, LenProperties

-----------------------------------------------------------------------------
(* The invariant.  k is the number of frames that the strand has pushed on *)
(* the queue.                                                              *)

WrittenAt(i) == strand[i].type = "written"
PushAt(i) == strand[i].type = "push"

(* The frames that wait in the strand are those posted and not pushed, in  *)
(* order.                                                                  *)
FrameNumbers(k) ==
  /\ k \in 0 .. posted
  /\ \A i \in 1 .. Len(strand) : PushAt(i) => strand[i].frame \in (k + 1) .. posted
  /\ \A i, j \in 1 .. Len(strand) :
       PushAt(i) /\ PushAt(j) /\ i < j => strand[i].frame < strand[j].frame
  /\ \A n \in (k + 1) .. posted : \E i \in 1 .. Len(strand) : strand[i] = Push(n)

(* Those in the queue are the last ones pushed, in order.                  *)
QueueNumbers(k) ==
  \A i \in 1 .. Len(tcpWriteBuffers) :
    tcpWriteBuffers[i] = k - Len(tcpWriteBuffers) + i

(* At most one write is under way or has just ended, and that is a write   *)
(* of the head of the queue.                                               *)
OneWrite ==
  /\ \A p, q \in writes : p = q
  /\ \A i, j \in 1 .. Len(strand) : WrittenAt(i) /\ WrittenAt(j) => i = j
  /\ \A p \in writes, i \in 1 .. Len(strand) : ~WrittenAt(i)
  /\ \A p \in writes : tcpWriteBuffers # <<>> /\ p.frame = tcpWriteBuffers[1]
  /\ \A i \in 1 .. Len(strand) : WrittenAt(i) => tcpWriteBuffers # <<>>

Last == stream[Len(stream)]
Follows(p) == IF stream = <<>> THEN p.part = 1 ELSE p = Successor(Last)
Ended(frame) == stream = <<>> \/ Last = Part(frame, Parts)

(* Until the connection breaks, what is written next follows what the      *)
(* stream ends with.                                                       *)
InStep(k) ==
  /\ InOrder(stream)
  /\ ~broken =>
       /\ \A p \in writes : Follows(p)
       /\ \A i \in 1 .. Len(strand) :
            WrittenAt(i) /\ ~strand[i].error => Ended(tcpWriteBuffers[1])
       /\ \A i \in 1 .. Len(strand) :
            WrittenAt(i) /\ strand[i].error /\ ~stopped => stream = <<>>
       /\ tcpWriteBuffers = <<>> => Ended(k)

WriteInv(k) ==
  TypeOK /\ FrameNumbers(k) /\ QueueNumbers(k) /\ OneWrite /\ InStep(k)

IInv == \E k \in Nat : WriteInv(k)

LEMMA InvInit == Init => WriteInv(0)
  <1> SUFFICES ASSUME Init PROVE WriteInv(0)
    OBVIOUS
  <1>1. strand \in Seq(Work) /\ tcpWriteBuffers \in Seq(Nat \ {0})
        /\ stream \in Seq(PartType)
    BY DEF Init
  <1>2. TypeOK
    BY <1>1 DEF Init, TypeOK
  <1>3. Len(strand) = 0 /\ Len(tcpWriteBuffers) = 0 /\ Len(stream) = 0
    BY DEF Init
  <1>4. FrameNumbers(0) /\ QueueNumbers(0)
    BY <1>3 DEF Init, FrameNumbers, QueueNumbers
  <1>5. OneWrite
    BY <1>3 DEF Init, OneWrite
  <1>6. InStep(0)
    BY <1>3 DEF Init, InStep, InOrder, Ended
  <1> QED
    BY <1>2, <1>4, <1>5, <1>6 DEF WriteInv

(* The head of the strand, and what is left of it.                         *)
LEMMA StrandHead ==
  ASSUME TypeOK, strand # <<>>, strand' = Tail(strand)
  PROVE  /\ strand' \in Seq(Work)
         /\ 1 \in 1 .. Len(strand)
         /\ Head(strand) = strand[1] /\ strand[1] \in Work
         /\ \A i \in 1 .. Len(strand') :
              i + 1 \in 1 .. Len(strand) /\ strand'[i] = strand[i + 1]
         /\ \A i \in 1 .. Len(strand) :
              i # 1 => i - 1 \in 1 .. Len(strand') /\ strand'[i - 1] = strand[i]
  <1>1. strand \in Seq(Work) /\ Len(strand) \in Nat
    BY ItemType DEF TypeOK
  <1>2. /\ 1 \in 1 .. Len(strand)
        /\ Head(strand) = strand[1]
        /\ Len(Tail(strand)) = Len(strand) - 1
        /\ \A i \in 1 .. Len(Tail(strand)) :
             i + 1 \in 1 .. Len(strand) /\ Tail(strand)[i] = strand[i + 1]
    BY <1>1, ReceivedItems
  <1>3. strand' \in Seq(Work) /\ strand[1] \in Work
    BY <1>1, <1>2, ReceiveType
  <1>4. ASSUME NEW i \in 1 .. Len(strand), i # 1
        PROVE  i - 1 \in 1 .. Len(strand') /\ strand'[i - 1] = strand[i]
    <2>1. Len(strand') = Len(strand) - 1
      BY <1>2
    <2>2. i - 1 \in 1 .. Len(strand')
      BY <1>1, <1>4, <2>1
    <2> QED
      BY <1>1, <1>2, <2>2
  <1> QED
    BY <1>2, <1>3, <1>4

(* Work that is posted to the strand goes to its end.                      *)
LEMMA StrandEnd ==
  ASSUME TypeOK, NEW work \in Work, strand' = Append(strand, work)
  PROVE  /\ strand' \in Seq(Work)
         /\ Len(strand) \in Nat
         /\ Len(strand') = Len(strand) + 1
         /\ \A i \in 1 .. Len(strand) : strand'[i] = strand[i]
         /\ strand'[Len(strand) + 1] = work
  BY SendType, SentItems, ItemType DEF TypeOK

LEMMA SendResponseInv ==
  ASSUME NEW k \in Nat, WriteInv(k), SendResponse
  PROVE  WriteInv(k)'
  <1> USE DEF WriteInv
  <1>1. posted \in Nat /\ posted' = posted + 1 /\ posted + 1 \in Nat \ {0}
    BY DEF SendResponse, TypeOK
  <1>2. /\ strand' \in Seq(Work)
        /\ Len(strand) \in Nat
        /\ Len(strand') = Len(strand) + 1
        /\ \A i \in 1 .. Len(strand) : strand'[i] = strand[i]
        /\ strand'[Len(strand) + 1] = Push(posted + 1)
    BY <1>1, WorkTypes, StrandEnd DEF SendResponse
  <1>3. UNCHANGED <<tcpWriteBuffers, writes, stream, connectionVars>>
    BY DEF SendResponse
  <1>4. TypeOK'
    BY <1>1, <1>2, <1>3 DEF TypeOK, connectionVars
  <1>5. \A i \in 1 .. Len(strand') : i \in 1 .. Len(strand) \/ i = Len(strand) + 1
    BY <1>2
  <1>6. FrameNumbers(k)'
    <2>1. k \in 0 .. posted'
      BY <1>1 DEF FrameNumbers
    <2>a. strand'[Len(strand) + 1].frame = posted + 1
      BY <1>2, WorkFields
    <2>b. \A i \in 1 .. Len(strand) :
            PushAt(i)' => PushAt(i) /\ strand'[i].frame = strand[i].frame
      BY <1>2 DEF PushAt
    <2>c. \A i \in 1 .. Len(strand) :
            PushAt(i)' => strand'[i].frame \in (k + 1) .. posted
      BY <2>b DEF FrameNumbers
    <2>2. \A i \in 1 .. Len(strand') : PushAt(i)' => strand'[i].frame \in (k + 1) .. posted'
      <3> SUFFICES ASSUME NEW i \in 1 .. Len(strand'), PushAt(i)'
                   PROVE  strand'[i].frame \in (k + 1) .. posted'
        OBVIOUS
      <3>1. CASE i \in 1 .. Len(strand)
        <4>1. strand'[i].frame \in (k + 1) .. posted
          BY <3>1, <2>c
        <4> QED
          BY <4>1, <1>1
      <3>2. CASE i = Len(strand) + 1
        <4>1. k \in 0 .. posted
          BY DEF FrameNumbers
        <4>2. posted + 1 \in (k + 1) .. posted'
          BY <4>1, <1>1
        <4> QED
          BY <4>2, <3>2, <2>a
      <3> QED
        BY <3>1, <3>2, <1>5
    <2>3. ASSUME NEW i \in 1 .. Len(strand'), NEW j \in 1 .. Len(strand'),
                 PushAt(i)', PushAt(j)', i < j
          PROVE  strand'[i].frame < strand'[j].frame
      <3>1. i \in 1 .. Len(strand)
        BY <2>3, <1>2
      <3>2. CASE j \in 1 .. Len(strand)
        BY <3>1, <3>2, <2>3, <2>b DEF FrameNumbers
      <3>3. CASE j = Len(strand) + 1
        BY <3>1, <3>3, <2>3, <2>a, <2>c, <1>1
      <3> QED
        BY <3>2, <3>3, <1>5
    <2>4. \A n \in (k + 1) .. posted' : \E i \in 1 .. Len(strand') : strand'[i] = Push(n)
      <3> SUFFICES ASSUME NEW n \in (k + 1) .. posted'
                   PROVE  \E i \in 1 .. Len(strand') : strand'[i] = Push(n)
        OBVIOUS
      <3>1. CASE n = posted + 1
        BY <3>1, <1>2
      <3>2. CASE n \in (k + 1) .. posted
        <4>1. PICK i \in 1 .. Len(strand) : strand[i] = Push(n)
          BY <3>2 DEF FrameNumbers
        <4> QED
          BY <4>1, <1>2
      <3> QED
        BY <3>1, <3>2, <1>1
    <2> QED
      BY <2>1, <2>2, <2>3, <2>4 DEF FrameNumbers
  <1>a. QueueNumbers(k)'
    BY <1>3 DEF QueueNumbers
  <1>7. \A i \in 1 .. Len(strand') : WrittenAt(i)' => i \in 1 .. Len(strand) /\ WrittenAt(i)
    BY <1>2, <1>5, WorkFields DEF WrittenAt
  <1>8. OneWrite'
    BY <1>3, <1>7 DEF OneWrite
  <1>9. InStep(k)'
    BY <1>2, <1>3, <1>7 DEF InStep, Follows, Ended, Last, connectionVars
  <1> QED
    BY <1>4, <1>6, <1>a, <1>8, <1>9

LEMMA PushBufferInv ==
  ASSUME NEW k \in Nat, WriteInv(k), PushBuffer
  PROVE  WriteInv(k + 1)'
  <1> USE DEF WriteInv
  <1> DEFINE B == tcpWriteBuffers
  <1>1. /\ strand' \in Seq(Work)
        /\ 1 \in 1 .. Len(strand)
        /\ Head(strand) = strand[1] /\ strand[1] \in Work
        /\ \A i \in 1 .. Len(strand') :
             i + 1 \in 1 .. Len(strand) /\ strand'[i] = strand[i + 1]
        /\ \A i \in 1 .. Len(strand) :
             i # 1 => i - 1 \in 1 .. Len(strand') /\ strand'[i - 1] = strand[i]
    BY StrandHead DEF PushBuffer
  <1>2. PushAt(1) /\ UNCHANGED <<posted, stream, connectionVars>>
    BY <1>1 DEF PushBuffer, PushAt
  <1>3. Head(strand).frame = k + 1
    <2>1. strand[1].frame \in (k + 1) .. posted
      BY <1>1, <1>2 DEF FrameNumbers
    <2>2. ASSUME strand[1].frame # k + 1 PROVE FALSE
      <3>1. k + 1 \in (k + 1) .. posted
        BY <2>1 DEF TypeOK
      <3>2. PICK i \in 1 .. Len(strand) : strand[i] = Push(k + 1)
        BY <3>1 DEF FrameNumbers
      <3>3. PushAt(i) /\ strand[i].frame = k + 1
        BY <3>2, WorkFields DEF PushAt
      <3>4. i # 1 /\ 1 < i
        BY <2>2, <3>3
      <3>5. strand[1].frame < strand[i].frame
        BY <1>1, <1>2, <3>3, <3>4 DEF FrameNumbers
      <3> QED
        BY <2>1, <3>3, <3>5 DEF TypeOK
    <2> QED
      BY <1>1, <2>2
  <1>4. /\ B' \in Seq(Nat \ {0})
        /\ Len(B) \in Nat
        /\ Len(B') = Len(B) + 1
        /\ \A i \in 1 .. Len(B) : B'[i] = B[i]
        /\ B'[Len(B) + 1] = k + 1
        /\ B' # <<>>
    BY <1>3, SendType, SentItems, ItemType DEF PushBuffer, TypeOK
  <1>5. B = <<>> <=> Len(B) = 0
    BY EmptyQueue DEF TypeOK
  <1>6. \A i \in 1 .. Len(strand') :
          /\ WrittenAt(i)' => WrittenAt(i + 1)
          /\ PushAt(i)' => PushAt(i + 1)
          /\ strand'[i] = strand[i + 1]
          /\ i + 1 \in 1 .. Len(strand)
    BY <1>1 DEF WrittenAt, PushAt
  <1>7. FrameNumbers(k + 1)'
    <2>0. posted \in Nat
      BY DEF TypeOK
    <2>1. k + 1 \in 0 .. posted'
      BY <1>1, <1>2, <1>3, <2>0 DEF FrameNumbers
    <2>2. \A i \in 1 .. Len(strand') :
            PushAt(i)' => strand'[i].frame \in (k + 1 + 1) .. posted'
      <3> SUFFICES ASSUME NEW i \in 1 .. Len(strand'), PushAt(i)'
                   PROVE  strand[i + 1].frame \in (k + 1 + 1) .. posted
        BY <1>2, <1>6
      <3>1. strand[1].frame < strand[i + 1].frame
        BY <1>1, <1>2, <1>6 DEF FrameNumbers
      <3>2. strand[i + 1].frame \in (k + 1) .. posted
        BY <1>6 DEF FrameNumbers
      <3> QED
        BY <1>1, <1>3, <3>1, <3>2, <2>0
    <2>3. ASSUME NEW i \in 1 .. Len(strand'), NEW j \in 1 .. Len(strand'),
                 PushAt(i)', PushAt(j)', i < j
          PROVE  strand'[i].frame < strand'[j].frame
      <3>1. PushAt(i + 1) /\ PushAt(j + 1) /\ i + 1 < j + 1
        BY <2>3, <1>6
      <3>2. strand[i + 1].frame < strand[j + 1].frame
        BY <3>1, <1>6 DEF FrameNumbers
      <3> QED
        BY <3>2, <1>6
    <2>4. \A n \in (k + 1 + 1) .. posted' : \E i \in 1 .. Len(strand') : strand'[i] = Push(n)
      <3> SUFFICES ASSUME NEW n \in (k + 1 + 1) .. posted
                   PROVE  \E i \in 1 .. Len(strand') : strand'[i] = Push(n)
        BY <1>2
      <3>1. n \in (k + 1) .. posted /\ n # k + 1
        BY <2>0
      <3>2. PICK i \in 1 .. Len(strand) : strand[i] = Push(n)
        BY <3>1 DEF FrameNumbers
      <3>3. i # 1
        <4>1. strand[i].frame = n
          BY <3>2, WorkFields
        <4>2. strand[1].frame = k + 1
          BY <1>1, <1>3
        <4> QED
          BY <3>1, <4>1, <4>2
      <3>4. i - 1 \in 1 .. Len(strand') /\ strand'[i - 1] = Push(n)
        BY <1>1, <3>2, <3>3
      <3> QED
        BY <3>4
    <2> QED
      BY <2>1, <2>2, <2>3, <2>4 DEF FrameNumbers
  <1>a. QueueNumbers(k + 1)'
    BY <1>4 DEF QueueNumbers
  <1>8. CASE B = <<>> /\ ~stopped
    <2>1. writes = {} /\ \A i \in 1 .. Len(strand) : ~WrittenAt(i)
      BY <1>8 DEF OneWrite
    <2>2. Head(B') = k + 1 /\ B'[1] = k + 1
      BY <1>4, <1>5, <1>8, ReceivedItems
    <2>3. writes' = {Part(k + 1, 1)}
      BY <1>8, <2>1, <2>2 DEF PushBuffer, CommandChannelSendAsync
    <2>4. Part(k + 1, 1) \in PartType
      BY PartTypes
    <2>5. TypeOK'
      BY <1>1, <1>2, <1>4, <2>3, <2>4 DEF TypeOK, connectionVars
    <2>6. \A i \in 1 .. Len(strand') : ~WrittenAt(i)'
      BY <1>6, <2>1
    <2>7. OneWrite'
      BY <1>4, <2>2, <2>3, <2>6 DEF OneWrite, Part
    <2>8. ~broken => Follows(Part(k + 1, 1))'
      <3>1. ~broken => Ended(k)
        BY <1>8 DEF InStep
      <3>2. Successor(Part(k, Parts)) = Part(k + 1, 1)
        BY PartsAssumption DEF Successor, Part
      <3> QED
        BY <1>2, <3>1, <3>2 DEF Ended, Follows, Last, Part
    <2>9. InStep(k + 1)'
      BY <1>2, <1>4, <2>3, <2>6, <2>8 DEF InStep, connectionVars
    <2> QED
      BY <1>7, <1>a, <2>5, <2>7, <2>9
  <1>9. CASE ~(B = <<>> /\ ~stopped)
    <2>1. writes' = writes
      BY <1>9 DEF PushBuffer, CommandChannelSendAsync
    <2>2. TypeOK'
      BY <1>1, <1>2, <1>4, <2>1 DEF TypeOK, connectionVars
    <2>3. B # <<>> => B'[1] = B[1]
      BY <1>4, <1>5
    <2>4. OneWrite'
      <3>1. \A i, j \in 1 .. Len(strand') : WrittenAt(i)' /\ WrittenAt(j)' => i = j
        <4> SUFFICES ASSUME NEW i \in 1 .. Len(strand'), NEW j \in 1 .. Len(strand'),
                            WrittenAt(i + 1), WrittenAt(j + 1)
                     PROVE  i = j
          BY <1>6
        <4>1. i + 1 = j + 1
          BY <1>6 DEF OneWrite
        <4> QED
          BY <4>1
      <3>2. \A p \in writes', i \in 1 .. Len(strand') : ~WrittenAt(i)'
        BY <1>6, <2>1 DEF OneWrite
      <3>3. \A p \in writes' : B' # <<>> /\ p.frame = B'[1]
        BY <1>4, <2>1, <2>3 DEF OneWrite
      <3> QED
        BY <1>4, <2>1, <3>1, <3>2, <3>3 DEF OneWrite
    <2>5. InStep(k + 1)'
      BY <1>2, <1>4, <1>6, <2>1, <2>3 DEF InStep, Follows, Ended, Last, connectionVars,
         OneWrite
    <2> QED
      BY <1>7, <1>a, <2>2, <2>4, <2>5
  <1> QED
    BY <1>8, <1>9

(* Work of the strand that is not a push leaves the numbers of the frames  *)
(* that wait as they are, and ends the one write there was.                *)
LEMMA WrittenTaken ==
  ASSUME NEW k \in Nat, WriteInv(k), strand # <<>>, Head(strand).type = "written",
         strand' = Tail(strand)
  PROVE  /\ strand' \in Seq(Work)
         /\ 1 \in 1 .. Len(strand) /\ WrittenAt(1) /\ Head(strand) = strand[1]
         /\ tcpWriteBuffers # <<>>
         /\ writes = {}
         /\ \A i \in 1 .. Len(strand') : ~WrittenAt(i)'
         /\ posted' = posted => FrameNumbers(k)'
  <1> USE DEF WriteInv
  <1>1. /\ strand' \in Seq(Work)
        /\ 1 \in 1 .. Len(strand)
        /\ Head(strand) = strand[1] /\ strand[1] \in Work
        /\ \A i \in 1 .. Len(strand') :
             i + 1 \in 1 .. Len(strand) /\ strand'[i] = strand[i + 1]
        /\ \A i \in 1 .. Len(strand) :
             i # 1 => i - 1 \in 1 .. Len(strand') /\ strand'[i - 1] = strand[i]
    BY StrandHead
  <1>2. WrittenAt(1) /\ ~PushAt(1)
    BY <1>1 DEF WrittenAt, PushAt
  <1>3. \A i \in 1 .. Len(strand') : ~WrittenAt(i)'
    <2> SUFFICES ASSUME NEW i \in 1 .. Len(strand'), WrittenAt(i)'
                 PROVE  FALSE
      OBVIOUS
    <2>1. WrittenAt(i + 1) /\ i + 1 \in 1 .. Len(strand)
      BY <1>1 DEF WrittenAt
    <2>2. i + 1 = 1
      BY <1>1, <1>2, <2>1 DEF OneWrite
    <2> QED
      BY <2>2
  <1>4. tcpWriteBuffers # <<>> /\ writes = {}
    BY <1>1, <1>2 DEF OneWrite
  <1>5. ASSUME posted' = posted PROVE FrameNumbers(k)'
    <2>1. \A i \in 1 .. Len(strand') :
            /\ PushAt(i)' => PushAt(i + 1)
            /\ strand'[i] = strand[i + 1]
            /\ i + 1 \in 1 .. Len(strand)
      BY <1>1 DEF PushAt
    <2>2. \A i \in 1 .. Len(strand') :
            PushAt(i)' => strand'[i].frame \in (k + 1) .. posted'
      BY <1>5, <2>1 DEF FrameNumbers
    <2>3. ASSUME NEW i \in 1 .. Len(strand'), NEW j \in 1 .. Len(strand'),
                 PushAt(i)', PushAt(j)', i < j
          PROVE  strand'[i].frame < strand'[j].frame
      <3>1. PushAt(i + 1) /\ PushAt(j + 1) /\ i + 1 < j + 1
        BY <2>3, <2>1
      <3>2. strand[i + 1].frame < strand[j + 1].frame
        BY <3>1, <2>1 DEF FrameNumbers
      <3> QED
        BY <3>2, <2>1
    <2>4. \A n \in (k + 1) .. posted' : \E i \in 1 .. Len(strand') : strand'[i] = Push(n)
      <3> SUFFICES ASSUME NEW n \in (k + 1) .. posted
                   PROVE  \E i \in 1 .. Len(strand') : strand'[i] = Push(n)
        BY <1>5
      <3>1. PICK i \in 1 .. Len(strand) : strand[i] = Push(n)
        BY DEF FrameNumbers
      <3>2. i # 1
        BY <1>2, <3>1, WorkFields DEF PushAt
      <3>3. i - 1 \in 1 .. Len(strand') /\ strand'[i - 1] = Push(n)
        BY <1>1, <3>1, <3>2
      <3> QED
        BY <3>3
    <2> QED
      BY <1>5, <2>2, <2>3, <2>4 DEF FrameNumbers
  <1> QED
    BY <1>1, <1>2, <1>3, <1>4, <1>5

(* Of the queue, only the head goes.                                       *)
LEMMA QueueTail ==
  ASSUME NEW k \in Nat, WriteInv(k), tcpWriteBuffers # <<>>,
         tcpWriteBuffers' = Tail(tcpWriteBuffers)
  PROVE  /\ tcpWriteBuffers' \in Seq(Nat \ {0})
         /\ QueueNumbers(k)'
         /\ tcpWriteBuffers' = <<>> => tcpWriteBuffers[1] = k
         /\ tcpWriteBuffers' # <<>> =>
              /\ Head(tcpWriteBuffers') = tcpWriteBuffers[1] + 1
              /\ Head(tcpWriteBuffers') = tcpWriteBuffers'[1]
              /\ Head(tcpWriteBuffers') \in Nat \ {0}
              /\ tcpWriteBuffers[1] \in Nat \ {0}
  <1> USE DEF WriteInv
  <1> DEFINE B == tcpWriteBuffers
  <1>1. /\ B \in Seq(Nat \ {0})
        /\ B' \in Seq(Nat \ {0})
        /\ Len(B) \in Nat
        /\ 1 \in 1 .. Len(B)
        /\ Len(B') = Len(B) - 1
        /\ \A i \in 1 .. Len(B') : i + 1 \in 1 .. Len(B) /\ B'[i] = B[i + 1]
    BY ReceiveType, ReceivedItems, ItemType DEF TypeOK
  <1>2. \A i \in 1 .. Len(B) : B[i] = k - Len(B) + i
    BY DEF QueueNumbers
  <1>3. ASSUME NEW i \in 1 .. Len(B') PROVE B'[i] = k - Len(B') + i
    <2>1. B'[i] = k - Len(B) + (i + 1)
      BY <1>1, <1>2
    <2> QED
      BY <1>1, <2>1
  <1>4. B' = <<>> => Len(B') = 0
    BY <1>1, EmptyQueue
  <1>5. B' = <<>> => B[1] = k
    BY <1>1, <1>2, <1>4
  <1>6. ASSUME B' # <<>>
        PROVE  /\ Head(B') = B[1] + 1
               /\ Head(B') = B'[1]
               /\ Head(B') \in Nat \ {0}
               /\ B[1] \in Nat \ {0}
    <2>1. 1 \in 1 .. Len(B') /\ Head(B') = B'[1]
      BY <1>1, <1>6, ReceivedItems
    <2>2. B'[1] = k - Len(B') + 1 /\ B[1] = k - Len(B) + 1
      BY <1>1, <1>2, <1>3, <2>1
    <2>3. B'[1] \in Nat \ {0} /\ B[1] \in Nat \ {0}
      BY <1>1, <2>1, ItemType
    <2>4. B'[1] = B[1] + 1
      <3>1. Len(B) \in Nat /\ Len(B') = Len(B) - 1
        BY <1>1
      <3>2. k - Len(B') + 1 = (k - Len(B) + 1) + 1
        BY <3>1
      <3> QED
        BY ONLY <2>2, <3>2
    <2> QED
      BY <2>1, <2>3, <2>4
  <1> QED
    BY <1>1, <1>3, <1>5, <1>6 DEF QueueNumbers

LEMMA HandlerInv ==
  ASSUME NEW k \in Nat, WriteInv(k), CommandChannelWriteHandler
  PROVE  WriteInv(k)'
  <1> USE DEF WriteInv
  <1> DEFINE B == tcpWriteBuffers
  <1>1. /\ strand' \in Seq(Work)
        /\ 1 \in 1 .. Len(strand) /\ WrittenAt(1) /\ Head(strand) = strand[1]
        /\ B # <<>>
        /\ writes = {}
        /\ \A i \in 1 .. Len(strand') : ~WrittenAt(i)'
    BY WrittenTaken DEF CommandChannelWriteHandler
  <1>2. /\ B' \in Seq(Nat \ {0})
        /\ QueueNumbers(k)'
        /\ B' = <<>> => B[1] = k
        /\ B' # <<>> => /\ Head(B') = B[1] + 1
                        /\ Head(B') = B'[1]
                        /\ Head(B') \in Nat \ {0}
                        /\ B[1] \in Nat \ {0}
    BY <1>1, QueueTail DEF CommandChannelWriteHandler
  <1>3. posted' = posted /\ stream' = stream /\ ~stopped
    BY DEF CommandChannelWriteHandler
  <1>4. FrameNumbers(k)'
    BY <1>3, WrittenTaken DEF CommandChannelWriteHandler
  <1>5. CASE strand[1].error
    <2>1. writes' = {} /\ HandleConnectionError
      BY <1>1, <1>5 DEF CommandChannelWriteHandler
    <2>2. /\ terminating' \in BOOLEAN /\ stopped' \in BOOLEAN
          /\ UNCHANGED <<reverse, broken, connections, earlier>>
      BY <2>1 DEF HandleConnectionError, TypeOK
    <2>3. TypeOK'
      BY <1>1, <1>2, <1>3, <2>1, <2>2 DEF TypeOK
    <2>4. OneWrite'
      BY <1>1, <2>1 DEF OneWrite
    <2>5. ~broken => stream = <<>>
      BY <1>1, <1>3, <1>5 DEF InStep
    <2>6. InStep(k)'
      BY <1>1, <1>3, <2>1, <2>2, <2>5 DEF InStep, Ended
    <2> QED
      BY <1>2, <1>4, <2>3, <2>4, <2>6
  <1>6. CASE ~strand[1].error
    <2>1. writes' = (IF B' # <<>> THEN {Part(Head(B'), 1)} ELSE {})
          /\ UNCHANGED connectionVars
      BY <1>1, <1>3, <1>6 DEF CommandChannelWriteHandler, CommandChannelSendAsync
    <2>2. writes' \subseteq PartType
      BY <1>2, <2>1, PartTypes
    <2>3. TypeOK'
      BY <1>1, <1>2, <1>3, <2>1, <2>2 DEF TypeOK, connectionVars
    <2>4. OneWrite'
      BY <1>1, <1>2, <2>1 DEF OneWrite, Part
    <2>5. ~broken => Ended(B[1])
      BY <1>1, <1>6 DEF InStep
    <2>6. CASE B' = <<>>
      <3>1. writes' = {} /\ (~broken => Ended(k)')
        BY <1>2, <1>3, <2>1, <2>5, <2>6 DEF Ended, Last
      <3> QED
        BY <1>1, <1>2, <1>3, <1>4, <2>1, <2>3, <2>4, <3>1 DEF InStep, connectionVars
    <2>7. CASE B' # <<>>
      <3>1. PICK frame \in Nat \ {0} : frame = Head(B') /\ frame = B[1] + 1
        BY <1>2, <2>7
      <3>2. writes' = {Part(frame, 1)}
        BY <2>1, <2>7, <3>1
      <3>3. Successor(Part(B[1], Parts)) = Part(frame, 1) /\ Part(frame, 1).part = 1
        BY <1>2, <2>7, <3>1, PartsAssumption DEF Successor, Part
      <3>4. ~broken => Follows(Part(frame, 1))'
        BY <1>3, <2>5, <3>3 DEF Ended, Follows, Last
      <3>5. InStep(k)'
        BY <1>1, <1>3, <2>1, <2>7, <3>2, <3>4 DEF InStep, connectionVars
      <3> QED
        BY <1>2, <1>4, <2>3, <2>4, <3>5
    <2> QED
      BY <2>6, <2>7
  <1>7. strand[1].error \in BOOLEAN
    BY WorkTypes, ItemType, <1>1 DEF TypeOK, WrittenAt
  <1> QED
    BY <1>5, <1>6

LEMMA IgnoreWrittenInv ==
  ASSUME NEW k \in Nat, WriteInv(k), IgnoreWritten
  PROVE  WriteInv(k)'
  <1> USE DEF WriteInv
  <1>1. /\ strand' \in Seq(Work)
        /\ tcpWriteBuffers # <<>>
        /\ writes = {}
        /\ \A i \in 1 .. Len(strand') : ~WrittenAt(i)'
        /\ FrameNumbers(k)'
    BY WrittenTaken DEF IgnoreWritten
  <1>2. UNCHANGED <<posted, tcpWriteBuffers, writes, stream, connectionVars>>
    BY DEF IgnoreWritten
  <1>3. TypeOK' /\ QueueNumbers(k)'
    BY <1>1, <1>2 DEF TypeOK, QueueNumbers, connectionVars
  <1>4. OneWrite' /\ InStep(k)'
    BY <1>1, <1>2 DEF OneWrite, InStep, connectionVars
  <1> QED
    BY <1>1, <1>3, <1>4

(* The end of the one write comes back to the strand.                      *)
LEMMA WrittenPosted ==
  ASSUME NEW k \in Nat, WriteInv(k), NEW p \in writes, NEW error \in BOOLEAN,
         writes' = writes \ {p}, strand' = Append(strand, Written(error)),
         UNCHANGED <<posted, tcpWriteBuffers>>
  PROVE  /\ strand' \in Seq(Work)
         /\ writes' = {}
         /\ tcpWriteBuffers # <<>> /\ tcpWriteBuffers[1] = p.frame
         /\ \A i \in 1 .. Len(strand') : WrittenAt(i)' => strand'[i] = Written(error)
         /\ FrameNumbers(k)' /\ QueueNumbers(k)' /\ OneWrite'
  <1> USE DEF WriteInv
  <1>1. /\ strand' \in Seq(Work)
        /\ Len(strand) \in Nat
        /\ Len(strand') = Len(strand) + 1
        /\ \A i \in 1 .. Len(strand) : strand'[i] = strand[i]
        /\ strand'[Len(strand) + 1] = Written(error)
    BY WorkTypes, StrandEnd
  <1>2. writes' = {} /\ tcpWriteBuffers # <<>> /\ tcpWriteBuffers[1] = p.frame
    BY DEF OneWrite
  <1>3. \A i \in 1 .. Len(strand') : i \in 1 .. Len(strand) \/ i = Len(strand) + 1
    BY <1>1
  <1>4. \A i \in 1 .. Len(strand') :
          /\ WrittenAt(i)' => i = Len(strand) + 1
          /\ PushAt(i)' => i \in 1 .. Len(strand) /\ PushAt(i) /\ strand'[i] = strand[i]
    <2>1. \A i \in 1 .. Len(strand) : ~WrittenAt(i)
      BY DEF OneWrite
    <2> QED
      BY <1>1, <1>3, <2>1, WorkFields DEF WrittenAt, PushAt
  <1>5. FrameNumbers(k)'
    <2>1. \A i \in 1 .. Len(strand') :
            PushAt(i)' => strand'[i].frame \in (k + 1) .. posted'
      BY <1>4 DEF FrameNumbers
    <2>2. \A i, j \in 1 .. Len(strand') :
            PushAt(i)' /\ PushAt(j)' /\ i < j => strand'[i].frame < strand'[j].frame
      BY <1>4 DEF FrameNumbers
    <2>3. \A n \in (k + 1) .. posted' : \E i \in 1 .. Len(strand') : strand'[i] = Push(n)
      <3> SUFFICES ASSUME NEW n \in (k + 1) .. posted
                   PROVE  \E i \in 1 .. Len(strand') : strand'[i] = Push(n)
        OBVIOUS
      <3>1. PICK i \in 1 .. Len(strand) : strand[i] = Push(n)
        BY DEF FrameNumbers
      <3> QED
        BY <1>1, <3>1
    <2> QED
      BY <2>1, <2>2, <2>3 DEF FrameNumbers
  <1>6. QueueNumbers(k)'
    BY DEF QueueNumbers
  <1>7. OneWrite'
    BY <1>2, <1>4 DEF OneWrite
  <1> QED
    BY <1>1, <1>2, <1>4, <1>5, <1>6, <1>7

(* A part that follows leaves the stream in order.                         *)
LEMMA InOrderStep ==
  ASSUME TypeOK, InOrder(stream), NEW p \in PartType, Follows(p)
  PROVE  /\ Append(stream, p) \in Seq(PartType)
         /\ InOrder(Append(stream, p))
         /\ Append(stream, p) # <<>>
         /\ Append(stream, p)[Len(Append(stream, p))] = p
  <1> DEFINE extended == Append(stream, p)
  <1>1. /\ stream \in Seq(PartType)
        /\ extended \in Seq(PartType)
        /\ Len(stream) \in Nat
        /\ Len(extended) = Len(stream) + 1
        /\ \A i \in 1 .. Len(stream) : extended[i] = stream[i]
        /\ extended[Len(stream) + 1] = p
        /\ extended # <<>>
        /\ (stream = <<>> <=> Len(stream) = 0)
    BY SendType, SentItems, ItemType, EmptyQueue DEF TypeOK
  <1>2. extended[1].part = 1
    <2>1. CASE stream = <<>>
      BY <1>1, <2>1 DEF Follows
    <2>2. CASE stream # <<>>
      BY <1>1, <2>2 DEF InOrder
    <2> QED
      BY <2>1, <2>2
  <1>3. ASSUME NEW i \in 1 .. Len(extended), i > 1
        PROVE  extended[i] = Successor(extended[i - 1])
    <2>1. i - 1 \in 1 .. Len(stream) /\ extended[i - 1] = stream[i - 1]
      BY <1>1, <1>3
    <2>2. CASE i \in 1 .. Len(stream)
      BY <1>1, <1>3, <2>1, <2>2 DEF InOrder
    <2>3. CASE i = Len(stream) + 1
      <3>1. stream # <<>> /\ i - 1 = Len(stream)
        BY <1>1, <1>3, <2>3
      <3> QED
        BY <1>1, <2>1, <2>3, <3>1 DEF Follows, Last
    <2>4. i \in 1 .. Len(stream) \/ i = Len(stream) + 1
      <3> HIDE DEF extended
      <3> QED
        BY <1>1
    <2> QED
      BY <2>2, <2>3, <2>4
  <1> HIDE DEF extended
  <1>4. InOrder(extended)
    BY <1>2, <1>3 DEF InOrder
  <1> QED
    BY <1>1, <1>4 DEF extended

LEMMA WritePartInv ==
  ASSUME NEW k \in Nat, WriteInv(k), NEW p \in writes, WritePart(p)
  PROVE  WriteInv(k)'
  <1> USE DEF WriteInv
  <1>1. /\ ~broken /\ ~stopped
        /\ stream' = Append(stream, p)
        /\ UNCHANGED <<posted, tcpWriteBuffers, connectionVars>>
    BY DEF WritePart
  <1>2. p \in PartType /\ InOrder(stream) /\ Follows(p)
    BY <1>1 DEF TypeOK, InStep
  <1>3. stream' \in Seq(PartType) /\ InOrder(stream') /\ stream' # <<>> /\ Last' = p
    BY <1>1, <1>2, InOrderStep DEF Last
  <1>4. writes = {p} /\ \A i \in 1 .. Len(strand) : ~WrittenAt(i)
    BY DEF OneWrite
  <1>5. CASE p.part < Parts
    <2>1. writes' = {Successor(p)} /\ strand' = strand
      BY <1>4, <1>5 DEF WritePart
    <2>2. Successor(p) \in PartType /\ Successor(p).frame = p.frame
      BY <1>2, <1>5, PartTypes DEF Successor, Part
    <2>3. TypeOK'
      BY <1>1, <1>3, <2>1, <2>2 DEF TypeOK, connectionVars
    <2>4. FrameNumbers(k)' /\ QueueNumbers(k)'
      BY <1>1, <2>1 DEF FrameNumbers, QueueNumbers, PushAt
    <2>5. \A i \in 1 .. Len(strand') : ~WrittenAt(i)'
      BY <1>4, <2>1 DEF WrittenAt
    <2>6. tcpWriteBuffers # <<>> /\ p.frame = tcpWriteBuffers[1]
      BY DEF OneWrite
    <2>7. OneWrite'
      BY <1>1, <2>1, <2>2, <2>5, <2>6 DEF OneWrite
    <2>8. InStep(k)'
      BY <1>1, <1>3, <2>1, <2>5, <2>6 DEF InStep, Follows
    <2> QED
      BY <2>3, <2>4, <2>7, <2>8
  <1>6. CASE ~(p.part < Parts)
    <2>1. writes' = writes \ {p} /\ strand' = Append(strand, Written(FALSE))
      BY <1>6 DEF WritePart
    <2>2. /\ strand' \in Seq(Work)
          /\ writes' = {}
          /\ tcpWriteBuffers # <<>> /\ tcpWriteBuffers[1] = p.frame
          /\ \A i \in 1 .. Len(strand') : WrittenAt(i)' => strand'[i] = Written(FALSE)
          /\ FrameNumbers(k)' /\ QueueNumbers(k)' /\ OneWrite'
      BY <1>1, <2>1, WrittenPosted
    <2>3. p = Part(p.frame, Parts)
      <3>1. p.part = Parts /\ p = Part(p.frame, p.part)
        BY <1>2, <1>6, PartTypes, PartsAssumption
      <3> QED
        BY <3>1
    <2>4. TypeOK'
      BY <1>1, <1>3, <2>2 DEF TypeOK, connectionVars
    <2>5. Ended(tcpWriteBuffers[1])'
      BY <1>1, <1>3, <2>2, <2>3 DEF Ended
    <2>6. \A i \in 1 .. Len(strand') : WrittenAt(i)' => ~strand'[i].error
      BY <2>2, WorkFields
    <2>7. InStep(k)'
      BY <1>1, <1>3, <2>2, <2>5, <2>6 DEF InStep
    <2> QED
      BY <2>2, <2>4, <2>7
  <1> QED
    BY <1>5, <1>6

LEMMA FailWriteInv ==
  ASSUME NEW k \in Nat, WriteInv(k), NEW p \in writes, FailWrite(p)
  PROVE  WriteInv(k)'
  <1> USE DEF WriteInv
  <1>1. /\ broken \/ stopped
        /\ writes' = writes \ {p}
        /\ strand' = Append(strand, Written(TRUE))
        /\ UNCHANGED <<posted, tcpWriteBuffers, stream, connectionVars>>
    BY DEF FailWrite
  <1>2. /\ strand' \in Seq(Work)
        /\ writes' = {}
        /\ tcpWriteBuffers # <<>>
        /\ \A i \in 1 .. Len(strand') : WrittenAt(i)' => strand'[i] = Written(TRUE)
        /\ FrameNumbers(k)' /\ QueueNumbers(k)' /\ OneWrite'
    BY <1>1, WrittenPosted
  <1>3. TypeOK'
    BY <1>1, <1>2 DEF TypeOK, connectionVars
  <1>4. \A i \in 1 .. Len(strand') : WrittenAt(i)' => strand'[i].error
    BY <1>2, WorkFields
  <1>5. InStep(k)'
    BY <1>1, <1>2, <1>4 DEF InStep, connectionVars
  <1> QED
    BY <1>2, <1>3, <1>5

(* A step of the connection's own state, that does not start it anew.      *)
LEMMA ConnectionInv ==
  ASSUME NEW k \in Nat, WriteInv(k),
         UNCHANGED <<posted, strand, tcpWriteBuffers, writes, stream>>,
         TypeOK', broken => broken', stopped => stopped'
  PROVE  WriteInv(k)'
  <1>1. FrameNumbers(k)' /\ QueueNumbers(k)' /\ OneWrite'
    BY DEF WriteInv, FrameNumbers, QueueNumbers, OneWrite, PushAt, WrittenAt
  <1>2. InStep(k)'
    BY DEF WriteInv, TypeOK, InStep, Follows, Ended, Last, WrittenAt
  <1> QED
    BY <1>1, <1>2 DEF WriteInv

LEMMA ConnectInv ==
  ASSUME NEW k \in Nat, WriteInv(k), Connect
  PROVE  WriteInv(k)'
  <1>1. UNCHANGED <<posted, strand, tcpWriteBuffers, writes>> /\ writes = {} /\ stream' = <<>>
    BY DEF Connect
  <1>2. TypeOK'
    <2>1. stream' \in Seq(PartType)
      BY <1>1
    <2>2. UNCHANGED <<reverse, terminating>> /\ stopped' = FALSE /\ broken' = FALSE
      BY DEF Connect
    <2>3. connections' = connections + 1 /\ earlier' = posted
      BY DEF Connect
    <2>4. connections' \in Nat /\ earlier' \in Nat
      BY <2>3 DEF WriteInv, TypeOK
    <2> QED
      BY <1>1, <2>1, <2>2, <2>4 DEF WriteInv, TypeOK
  <1>3. FrameNumbers(k)' /\ QueueNumbers(k)' /\ OneWrite'
    BY <1>1 DEF WriteInv, FrameNumbers, QueueNumbers, OneWrite, PushAt, WrittenAt
  <1>4. InOrder(stream')
    BY <1>1 DEF InOrder
  <1>5. InStep(k)'
    BY <1>1, <1>4 DEF InStep, Ended
  <1> QED
    BY <1>2, <1>3, <1>5 DEF WriteInv

LEMMA InvNext ==
  ASSUME NEW k \in Nat, WriteInv(k), [Next]_vars
  PROVE  IInv'
  <1>1. k + 1 \in Nat
    OBVIOUS
  <1>2. CASE UNCHANGED vars
    <2>1. TypeOK'
      BY <1>2 DEF vars, connectionVars, WriteInv, TypeOK
    <2>2. WriteInv(k)'
      BY <1>2, <2>1, ConnectionInv DEF vars, connectionVars
    <2> QED
      BY <2>2 DEF IInv
  <1>3. CASE SendResponse
    BY <1>3, SendResponseInv DEF IInv
  <1>4. CASE Strand
    <2>1. CASE PushBuffer
      <3>1. WriteInv(k + 1)'
        BY <2>1, PushBufferInv
      <3> QED
        BY <3>1, <1>1 DEF IInv
    <2>2. CASE CommandChannelWriteHandler
      BY <2>2, HandlerInv DEF IInv
    <2>3. CASE IgnoreWritten
      BY <2>3, IgnoreWrittenInv DEF IInv
    <2> QED
      BY <1>4, <2>1, <2>2, <2>3 DEF Strand
  <1>5. CASE Socket
    <2>1. CASE FailRead
      <3>1. TypeOK'
        BY <2>1 DEF FailRead, HandleConnectionError, WriteInv, TypeOK
      <3>2. WriteInv(k)'
        BY <2>1, <3>1, ConnectionInv DEF FailRead, HandleConnectionError
      <3> QED
        BY <3>2 DEF IInv
    <2>2. ASSUME NEW p \in writes, WritePart(p) PROVE IInv'
      BY <2>2, WritePartInv DEF IInv
    <2>3. ASSUME NEW p \in writes, FailWrite(p) PROVE IInv'
      BY <2>3, FailWriteInv DEF IInv
    <2> QED
      BY <1>5, <2>1, <2>2, <2>3 DEF Socket
  <1>6. CASE Break
    <2>1. TypeOK'
      BY <1>6 DEF Break, WriteInv, TypeOK
    <2>2. WriteInv(k)'
      BY <1>6, <2>1, ConnectionInv DEF Break
    <2> QED
      BY <2>2 DEF IInv
  <1>7. CASE StopConnection
    <2>1. TypeOK'
      BY <1>7 DEF StopConnection, WriteInv, TypeOK
    <2>2. WriteInv(k)'
      BY <1>7, <2>1, ConnectionInv DEF StopConnection
    <2> QED
      BY <2>2 DEF IInv
  <1>8. CASE Disconnect
    <2>1. TypeOK'
      BY <1>8 DEF Disconnect, WriteInv, TypeOK
    <2>2. WriteInv(k)'
      BY <1>8, <2>1, ConnectionInv DEF Disconnect
    <2> QED
      BY <2>2 DEF IInv
  <1>9. CASE Connect
    BY <1>9, ConnectInv DEF IInv
  <1> QED
    BY <1>2, <1>3, <1>4, <1>5, <1>6, <1>7, <1>8, <1>9 DEF Next

LEMMA Invariance == Spec => []IInv
  <1>1. Init => IInv
    BY InvInit DEF IInv
  <1>2. IInv /\ [Next]_vars => IInv'
    BY InvNext DEF IInv
  <1> QED
    BY <1>1, <1>2, PTL DEF Spec

(* Every variable of the write queue keeps its type (SendResponse and the  *)
(* handlers of SubscriberConnection's command channel).  It needs the      *)
(* whole invariant: the handler of a write takes the head of the queue     *)
(* without looking, and only OneWrite says that there is one.              *)
THEOREM TypeCorrect == Spec => []TypeOK
  <1>1. IInv => TypeOK
    BY DEF IInv, WriteInv
  <1> QED
    BY <1>1, Invariance, PTL

(* Each connection carries whole frames in the order of posting, whatever  *)
(* is posted, breaks, is stopped or is connected again (SendResponse,      *)
(* CommandChannelSendAsync, CommandChannelWriteHandler).                   *)
THEOREM StreamInOrder == Spec => []FramesInOrder
  <1>1. IInv => FramesInOrder
    BY DEF IInv, WriteInv, InStep, FramesInOrder
  <1> QED
    BY <1>1, Invariance, PTL

(* The buffer of a write stays at the head of the queue until the write    *)
(* has ended (CommandChannelSendAsync keeps no other reference to it).     *)
THEOREM BufferIsKept == Spec => []WrittenBufferIsKept
  <1>1. IInv => WrittenBufferIsKept
    <2> SUFFICES ASSUME NEW k \in Nat, WriteInv(k), NEW p \in writes
                 PROVE  tcpWriteBuffers # <<>> /\ Head(tcpWriteBuffers) = p.frame
      BY DEF IInv, WrittenBufferIsKept
    <2>1. tcpWriteBuffers # <<>> /\ tcpWriteBuffers[1] = p.frame
      BY DEF WriteInv, OneWrite
    <2> QED
      BY <2>1, ReceivedItems DEF WriteInv, TypeOK
  <1> QED
    BY <1>1, Invariance, PTL

=============================================================================
