--------------------- MODULE CommandChannelWriterProofs ---------------------
(***************************************************************************)
(* What holds of CommandChannelWriter for every number of senders,         *)
(* commands, connections and parts of a frame.                             *)
(***************************************************************************)
EXTENDS CommandChannelWriter, SequenceTheorems, TLAPS

NoneSending == \A s \in Senders : sending[s] = 0

(* p is the part that an undamaged stream goes on with.                    *)
Follows(p) == IF stream = <<>> THEN p = Part(Modes, 1) ELSE p = Successor(stream[Len(stream)])

(* Where the one command of a connection that does not overlap is: being   *)
(* written, about to be written, or written.                               *)
OneWritten ==
  NoneSending /\ \E p \in writes :
    writes = {p} /\ p.frame = sent /\ writeBuffer = sent /\ Follows(p)
OneSending ==
  \E s \in Senders :
    /\ writes = {} /\ sending[s] = sent /\ \A r \in Senders \ {s} : sending[r] = 0
    /\ writeBuffer = sent /\ Follows(Part(sent, 1))
AllWritten == writes = {} /\ NoneSending /\ Follows(Part(sent + 1, 1))

Unhurried ==
  /\ ~connected => writes = {} /\ ~validated
  /\ ~overlapped => InOrder(stream)
  /\ ~overlapped /\ connected => OneWritten \/ OneSending \/ AllWritten

(* On the first connection: until DefineOperationalModes was answered, it  *)
(* is all there is.                                                        *)
OnlyModes ==
  /\ NoneSending /\ writeBuffer = Modes
  /\ \/ writes = {} /\ Len(stream) = Parts
     \/ writes = {Part(Modes, Len(stream) + 1)} /\ Len(stream) < Parts

FirstConnection ==
  /\ connections >= 1
  /\ connections = 1 /\ connected /\ ~validated => OnlyModes
  /\ connections = 1 /\ validated => Len(stream) >= Parts

Inv == TypeOK /\ Unhurried /\ FirstConnection /\ ModesFirst

-----------------------------------------------------------------------------
LEMMA PartTypes ==
  /\ \A frame \in Nat \ {0}, part \in 1 .. Parts :
       /\ Part(frame, part) \in PartType
       /\ Part(frame, part).frame = frame /\ Part(frame, part).part = part
  /\ 1 \in 1 .. Parts /\ Parts \in 1 .. Parts
  /\ \A p \in PartType : /\ p.frame \in Nat \ {0} /\ p.part \in 1 .. Parts
                         /\ p = Part(p.frame, p.part)
                         /\ Successor(p) \in PartType
                         /\ p.part < Parts => Successor(p).frame = p.frame
                         /\ ~(p.part < Parts) => Successor(p) = Part(p.frame + 1, 1)
  <1>1. 1 \in 1 .. Parts /\ Parts \in 1 .. Parts /\ Parts \in Nat
    BY PartsAssumption
  <1>2. ASSUME NEW p \in PartType
        PROVE  p.frame \in Nat \ {0} /\ p.part \in 1 .. Parts /\ p = Part(p.frame, p.part)
    BY DEF PartType, Part
  <1>3. ASSUME NEW p \in PartType
        PROVE  /\ Successor(p) \in PartType
               /\ p.part < Parts => Successor(p).frame = p.frame
               /\ ~(p.part < Parts) => Successor(p) = Part(p.frame + 1, 1)
    BY <1>1, <1>2 DEF PartType, Part, Successor
  <1>4. ASSUME NEW frame \in Nat \ {0}, NEW part \in 1 .. Parts
        PROVE  /\ Part(frame, part) \in PartType
               /\ Part(frame, part).frame = frame /\ Part(frame, part).part = part
    BY DEF PartType, Part
  <1> QED
    BY <1>1, <1>2, <1>3, <1>4

(* A stream after one part more.                                           *)
LEMMA Longer ==
  ASSUME stream \in Seq(PartType), NEW p \in PartType, stream' = Append(stream, p)
  PROVE  /\ stream' \in Seq(PartType) /\ stream' # <<>>
         /\ Len(stream) \in Nat /\ Len(stream') = Len(stream) + 1
         /\ \A i \in 1 .. Len(stream) : stream'[i] = stream[i]
         /\ stream'[Len(stream) + 1] = p
         /\ stream = <<>> <=> Len(stream) = 0
  <1>1. stream = <<>> <=> Len(stream) = 0
    BY EmptySeq, LenProperties
  <1>2. Len(stream') = Len(stream) + 1 /\ stream' \in Seq(PartType) /\ Len(stream) \in Nat
    BY AppendProperties, LenProperties
  <1>3. stream' # <<>>
    BY <1>2, EmptySeq
  <1> QED
    BY <1>1, <1>2, <1>3, AppendProperties

LEMMA InOrderGoesOn ==
  ASSUME stream \in Seq(PartType), NEW p \in PartType, InOrder(stream), Follows(p),
         stream' = Append(stream, p)
  PROVE  InOrder(stream)'
  <1> USE PartTypes, Longer
  <1>1. CASE stream = <<>>
    BY <1>1 DEF InOrder, Follows, Modes
  <1>2. CASE stream # <<>>
    <2>1. stream'[1].part = 1
      BY <1>2 DEF InOrder
    <2>2. ASSUME NEW i \in 1 .. Len(stream'), i > 1
          PROVE  stream'[i] = Successor(stream'[i - 1])
      <3>1. CASE i = Len(stream')
        BY <1>2, <2>2, <3>1 DEF Follows
      <3>2. CASE i # Len(stream')
        BY <2>2, <3>2 DEF InOrder
      <3> QED
        BY <3>1, <3>2
    <2> QED
      BY <2>1, <2>2 DEF InOrder
  <1> QED
    BY <1>1, <1>2

-----------------------------------------------------------------------------
LEMMA InvInit == Init => Inv
  <1> SUFFICES ASSUME Init PROVE Inv
    OBVIOUS
  <1> USE PartTypes
  <1>1. stream \in Seq(PartType) /\ Len(stream) = 0 /\ stream = <<>>
    BY DEF Init
  <1>2. Part(Modes, 1) \in PartType /\ Part(Modes, 1).frame = Modes
    BY DEF Modes
  <1>3. TypeOK
    BY <1>1, <1>2 DEF Init, TypeOK, Modes
  <1>4. OneWritten
    BY <1>1, <1>2 DEF Init, OneWritten, NoneSending, Follows, Modes
  <1>5. InOrder(stream)
    BY <1>1 DEF InOrder
  <1>6. FirstConnection /\ ModesFirst
    BY <1>1, PartsAssumption DEF Init, FirstConnection, OnlyModes, NoneSending, ModesFirst
  <1> QED
    BY <1>3, <1>4, <1>5, <1>6 DEF Init, Inv, Unhurried

LEMMA FillBufferInv ==
  ASSUME Inv, NEW s \in Senders, FillBuffer(s)
  PROVE  Inv'
  <1> USE DEF Inv
  <1>1. TypeOK'
    BY DEF FillBuffer, TypeOK
  <1>2. /\ sending' = [sending EXCEPT ![s] = sent + 1] /\ sending \in [Senders -> Nat]
        /\ sent' = sent + 1 /\ writeBuffer' = sent + 1 /\ sent \in Nat \ {0}
        /\ connected /\ validated
        /\ UNCHANGED <<connected, validated, writes, stream, connections>>
    BY DEF FillBuffer, TypeOK
  <1>3. Unhurried'
    <2>1. CASE overlapped'
      BY <1>2, <2>1 DEF Unhurried
    <2>2. CASE ~overlapped'
      <3>1. ~overlapped /\ Idle
        BY <2>2 DEF FillBuffer
      <3>2. AllWritten
        BY <1>2, <3>1 DEF Unhurried, Idle, OneWritten, OneSending, TypeOK
      <3>3. OneSending'
        BY <1>2, <3>2 DEF AllWritten, NoneSending, OneSending, Follows
      <3>4. InOrder(stream)'
        BY <1>2, <3>1 DEF Unhurried
      <3> QED
        BY <1>2, <3>3, <3>4 DEF Unhurried
    <2> QED
      BY <2>1, <2>2
  <1>4. FirstConnection' /\ ModesFirst'
    BY <1>2 DEF FirstConnection, ModesFirst
  <1> QED
    BY <1>1, <1>3, <1>4

LEMMA StartWriteInv ==
  ASSUME Inv, NEW s \in Senders, StartWrite(s)
  PROVE  Inv'
  <1> USE DEF Inv
  <1>1. /\ sending[s] # 0 /\ sending' = [sending EXCEPT ![s] = 0]
        /\ sending \in [Senders -> Nat] /\ sending[s] \in Nat \ {0}
        /\ writes' = IF connected THEN writes \cup {Part(sending[s], 1)} ELSE writes
        /\ UNCHANGED <<connected, validated, writeBuffer, stream, sent, overlapped, connections>>
    BY DEF StartWrite, TypeOK
  <1>2. Part(sending[s], 1) \in PartType /\ Part(sending[s], 1).frame = sending[s]
    BY <1>1, PartTypes
  <1>3. TypeOK'
    BY <1>1, <1>2 DEF TypeOK
  <1>4. Unhurried'
    <2>1. ASSUME ~overlapped, connected PROVE OneWritten'
      <3>1. OneSending
        BY <1>1, <2>1 DEF Unhurried, OneWritten, AllWritten, NoneSending
      <3>2. sending[s] = sent /\ \A r \in Senders \ {s} : sending[r] = 0
        BY <1>1, <3>1 DEF OneSending
      <3>3. NoneSending'
        BY <1>1, <3>2 DEF NoneSending
      <3>4. /\ writes' = {Part(sent, 1)} /\ Part(sent, 1) \in PartType
            /\ Part(sent, 1).frame = sent /\ writeBuffer' = sent /\ Follows(Part(sent, 1))
        BY <1>1, <1>2, <2>1, <3>1, <3>2 DEF OneSending
      <3> QED
        BY <1>1, <3>3, <3>4 DEF OneWritten, Follows
    <2> QED
      BY <1>1, <2>1 DEF Unhurried
  <1>5. FirstConnection' /\ ModesFirst'
    BY <1>1 DEF FirstConnection, ModesFirst, OnlyModes, NoneSending
  <1> QED
    BY <1>3, <1>4, <1>5

LEMMA WritePartInv ==
  ASSUME Inv, NEW p \in writes, WritePart(p)
  PROVE  Inv'
  <1> USE DEF Inv
  <1> DEFINE put == Part(writeBuffer, p.part)
  <1>1. /\ p \in PartType /\ put \in PartType /\ stream \in Seq(PartType)
        /\ stream' = Append(stream, put)
        /\ writes' = IF p.part < Parts THEN (writes \ {p}) \cup {Successor(p)} ELSE writes \ {p}
        /\ UNCHANGED <<connected, validated, writeBuffer, sending, sent, overlapped, connections>>
    BY PartTypes DEF WritePart, TypeOK
  <1>2. TypeOK'
    BY <1>1, PartTypes, Longer DEF TypeOK
  <1>3. connected
    BY DEF Unhurried
  <1>4. ASSUME ~overlapped PROVE InOrder(stream)' /\ (OneWritten' \/ AllWritten')
    <2>1. OneWritten
      BY <1>3, <1>4 DEF Unhurried, OneSending, AllWritten
    <2>2. /\ NoneSending /\ writes = {p} /\ p.frame = sent /\ writeBuffer = sent
          /\ Follows(p)
      BY <2>1 DEF OneWritten
    <2>3. put = p
      BY <1>1, <2>2, PartTypes
    <2>4. InOrder(stream)'
      BY <1>1, <1>4, <2>2, <2>3, InOrderGoesOn DEF Unhurried
    <2>5. Follows(Successor(p))'
      <3>1. stream' # <<>> /\ stream'[Len(stream')] = p
        BY <1>1, <2>3, Longer
      <3> QED
        BY <3>1 DEF Follows
    <2>6. CASE p.part < Parts
      <3>1. OneWritten'
        BY <1>1, <2>2, <2>5, <2>6, PartTypes DEF OneWritten, NoneSending
      <3> QED
        BY <2>4, <3>1
    <2>7. CASE ~(p.part < Parts)
      <3>1. Successor(p) = Part(sent + 1, 1)
        BY <1>1, <2>2, <2>7, PartTypes
      <3>2. AllWritten'
        BY <1>1, <2>2, <2>5, <2>7, <3>1 DEF AllWritten, NoneSending, Follows
      <3> QED
        BY <2>4, <3>2
    <2> QED
      BY <2>6, <2>7
  <1>5. Unhurried'
    BY <1>1, <1>3, <1>4 DEF Unhurried
  <1>6. FirstConnection' /\ ModesFirst'
    <2>1. CASE connections = 1 /\ ~validated
      <3>1. /\ OnlyModes /\ NoneSending /\ writeBuffer = Modes /\ p = Part(Modes, Len(stream) + 1)
            /\ Len(stream) < Parts /\ writes = {p}
        BY <1>3, <2>1 DEF FirstConnection, OnlyModes
      <3>2. p.part = Len(stream) + 1 /\ put = Part(Modes, Len(stream) + 1)
        BY <3>1 DEF Part
      <3>3. FirstConnection'
        <4>1. CASE Len(stream) + 1 < Parts
          <5>1. Successor(p) = Part(Modes, Len(stream) + 2)
            BY <1>1, <3>1, <3>2, <4>1 DEF Successor, Part
          <5> QED
            BY <1>1, <2>1, <3>1, <3>2, <4>1, <5>1, Longer, PartsAssumption
               DEF FirstConnection, OnlyModes, NoneSending
        <4>2. CASE ~(Len(stream) + 1 < Parts)
          BY <1>1, <2>1, <3>1, <3>2, <4>2, Longer, PartsAssumption
             DEF FirstConnection, OnlyModes, NoneSending
        <4> QED
          BY <4>1, <4>2
      <3>4. ModesFirst'
        BY <1>1, <2>1, <3>2, Longer DEF ModesFirst
      <3> QED
        BY <3>3, <3>4
    <2>2. CASE connections = 1 /\ validated
      BY <1>1, <2>2, Longer, PartsAssumption DEF FirstConnection, ModesFirst
    <2>3. CASE connections # 1
      BY <1>1, <2>3 DEF FirstConnection, ModesFirst
    <2> QED
      BY <2>1, <2>2, <2>3 DEF TypeOK
  <1> QED
    BY <1>2, <1>5, <1>6

LEMMA HandleSucceededInv == Inv /\ HandleSucceeded => Inv'
  <1> SUFFICES ASSUME Inv, HandleSucceeded PROVE Inv'
    OBVIOUS
  <1> USE DEF Inv, HandleSucceeded
  <1>1. TypeOK'
    BY DEF TypeOK
  <1>2. Unhurried'
    BY DEF Unhurried, OneWritten, OneSending, AllWritten, NoneSending, Follows
  <1>3. FirstConnection' /\ ModesFirst'
    BY DEF FirstConnection, ModesFirst
  <1> QED
    BY <1>1, <1>2, <1>3

LEMMA DisconnectInv == Inv /\ Disconnect => Inv'
  <1> SUFFICES ASSUME Inv, Disconnect PROVE Inv'
    OBVIOUS
  <1> USE DEF Inv, Disconnect
  <1>1. TypeOK'
    BY DEF TypeOK
  <1>2. Unhurried' /\ FirstConnection' /\ ModesFirst'
    BY DEF Unhurried, FirstConnection, ModesFirst
  <1> QED
    BY <1>1, <1>2

LEMMA ConnectInv == Inv /\ Connect => Inv'
  <1> SUFFICES ASSUME Inv, Connect PROVE Inv'
    OBVIOUS
  <1> USE DEF Inv, Connect
  <1>1. stream' \in Seq(PartType) /\ Len(stream') = 0 /\ stream' = <<>>
    OBVIOUS
  <1>2. Part(Modes, 1) \in PartType /\ Part(Modes, 1).frame = Modes
    BY PartTypes DEF Modes
  <1>3. TypeOK'
    BY <1>1, <1>2 DEF TypeOK, Modes
  <1>4. ~overlapped' => OneWritten'
    BY <1>1, <1>2 DEF OneWritten, NoneSending, Follows, TypeOK
  <1>5. Unhurried'
    BY <1>1, <1>4 DEF Unhurried, InOrder
  <1>6. FirstConnection' /\ ModesFirst'
    BY DEF FirstConnection, ModesFirst, TypeOK
  <1> QED
    BY <1>3, <1>5, <1>6

LEMMA InvNext == Inv /\ [Next]_vars => Inv'
  <1>1. Inv /\ UNCHANGED vars => Inv'
    BY DEF Inv, vars, TypeOK, Unhurried, OneWritten, OneSending, AllWritten, NoneSending,
           Follows, FirstConnection, OnlyModes, ModesFirst
  <1> QED
    BY <1>1, FillBufferInv, StartWriteInv, WritePartInv, HandleSucceededInv, DisconnectInv,
       ConnectInv DEF Next

LEMMA Invariance == Spec => []Inv
  BY InvInit, InvNext, PTL DEF Spec

(* Commands that are sent one after the other are carried whole and in     *)
(* their order, whichever threads send them.                               *)
THEOREM UnhurriedAreIntact == Spec => []UnhurriedCommandsIntact
  <1>1. Inv => UnhurriedCommandsIntact
    BY DEF Inv, Unhurried, UnhurriedCommandsIntact
  <1> QED
    BY <1>1, Invariance, PTL

(* Nothing comes before DefineOperationalModes, or into it, on the first   *)
(* connection.                                                             *)
THEOREM ModesComeFirst == Spec => []ModesFirst
  <1>1. Inv => ModesFirst
    BY DEF Inv
  <1> QED
    BY <1>1, Invariance, PTL
=============================================================================
