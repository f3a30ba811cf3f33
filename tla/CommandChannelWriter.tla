------------------------ MODULE CommandChannelWriter ------------------------
(***************************************************************************)
(* How a DataSubscriber writes commands to its command channel             *)
(* (SendServerCommand of src/src/lib/transport/DataSubscriber.cpp).        *)
(*                                                                         *)
(* The user's threads and the threads of callbacks send commands, and so   *)
(* does the thread that reads responses (it confirms caches).  They share  *)
(* one m_writeBuffer: a command is put into it and an async_write of it is *)
(* started, whatever else is being written.  The buffer is read when TCP   *)
(* takes a part, not when the write is started.                            *)
(*                                                                         *)
(* Filling the buffer is one step: what two threads do that fill it at the *)
(* same time is worse.  So is what resizing it does to a write under way;  *)
(* here the buffer is always large enough.                                 *)
(***************************************************************************)
EXTENDS FrameStream

CONSTANTS
  Senders,         \* the threads that send commands
  MaxCommands,     \* bound: commands sent on a connection
  MaxConnections   \* bound: connections made

ASSUME BoundsAssumption == MaxCommands \in Nat /\ MaxConnections \in Nat

Modes == 1  \* DefineOperationalModes: the first frame of a connection

VARIABLES
  connected,    \* m_connected
  validated,    \* m_validated, of version 3: SetupConnection leaves it FALSE
  writeBuffer,  \* the frame in m_writeBuffer
  sending,      \* senders that have filled the buffer: the frame; 0 if none
  writes,       \* async_writes under way: the part each has to write next
  stream,       \* what this connection has taken
  sent,         \* frames made on this connection
  overlapped,   \* a frame was made before the one before it was written
  connections   \* connections made

vars == <<connected, validated, writeBuffer, sending, writes, stream, sent,
          overlapped, connections>>

(* Connect has set the connection up and calls SendOperationalModes.       *)
Init ==
  /\ connected = TRUE
  /\ validated = FALSE
  /\ writeBuffer = Modes
  /\ sending = [s \in Senders |-> 0]
  /\ writes = {Part(Modes, 1)}
  /\ stream = <<>>
  /\ sent = Modes
  /\ overlapped = FALSE
  /\ connections = 1

-----------------------------------------------------------------------------

Idle == writes = {} /\ \A s \in Senders : sending[s] = 0

(* SendServerCommand of any command but DefineOperationalModes, up to      *)
(* async_write.                                                            *)
FillBuffer_NotValidated(s) ==
  /\ sending[s] = 0
  /\ sent < MaxCommands
  /\ connected
  /\ sent' = sent + 1
  /\ writeBuffer' = sent + 1
  /\ sending' = [sending EXCEPT ![s] = sent + 1]
  /\ overlapped' = (overlapped \/ ~Idle)
  /\ UNCHANGED <<connected, validated, writes, stream, connections>>

FillBuffer_NotCopied(s) ==
  /\ sending[s] = 0
  /\ sent < MaxCommands
  /\ connected
  /\ validated
  /\ sent' = sent + 1
  /\ sending' = [sending EXCEPT ![s] = sent + 1]
  /\ overlapped' = (overlapped \/ ~Idle)
  /\ UNCHANGED <<connected, validated, writeBuffer, writes, stream, connections>>

FillBuffer(s) ==
  /\ sending[s] = 0
  /\ sent < MaxCommands
  /\ connected
  /\ validated
  /\ sent' = sent + 1
  /\ writeBuffer' = sent + 1
  /\ sending' = [sending EXCEPT ![s] = sent + 1]
  /\ overlapped' = (overlapped \/ ~Idle)
  /\ UNCHANGED <<connected, validated, writes, stream, connections>>

(* async_write; on a closed socket it fails at once.                       *)
StartWrite(s) ==
  /\ sending[s] # 0
  /\ writes' = IF connected THEN writes \cup {Part(sending[s], 1)} ELSE writes
  /\ sending' = [sending EXCEPT ![s] = 0]
  /\ UNCHANGED <<connected, validated, writeBuffer, stream, sent, overlapped,
                 connections>>

(* TCP takes the next part of a write: what the buffer holds by now.       *)
WritePart(p) ==
  /\ p \in writes
  /\ stream' = Append(stream, Part(writeBuffer, p.part))
  /\ writes' = IF p.part < Parts
               THEN (writes \ {p}) \cup {Successor(p)}
               ELSE writes \ {p}
  /\ UNCHANGED <<connected, validated, writeBuffer, sending, sent, overlapped,
                 connections>>

(* HandleSucceeded: the publisher has read DefineOperationalModes, whole,  *)
(* and has answered it.                                                    *)
HandleSucceeded ==
  /\ connected
  /\ ~validated
  /\ Len(stream) >= Parts
  /\ \A i \in 1 .. Parts : stream[i] = Part(Modes, i)
  /\ validated' = TRUE
  /\ UNCHANGED <<connected, writeBuffer, sending, writes, stream, sent,
                 overlapped, connections>>

(* Disconnect: what is being written fails.                                *)
Disconnect ==
  /\ connected
  /\ connected' = FALSE
  /\ validated' = FALSE
  /\ writes' = {}
  /\ UNCHANGED <<writeBuffer, sending, stream, sent, overlapped, connections>>

(* Connect: a thread that was about to start a write is not waited for.    *)
Connect ==
  /\ ~connected
  /\ connections < MaxConnections
  /\ connections' = connections + 1
  /\ connected' = TRUE
  /\ writeBuffer' = Modes
  /\ writes' = {Part(Modes, 1)}
  /\ stream' = <<>>
  /\ sent' = Modes
  /\ overlapped' = \E s \in Senders : sending[s] # 0
  /\ UNCHANGED <<validated, sending>>

Next ==
  \/ \E s \in Senders : FillBuffer(s) \/ StartWrite(s)
  \/ \E p \in writes : WritePart(p)
  \/ HandleSucceeded
  \/ Disconnect
  \/ Connect

Spec == Init /\ [][Next]_vars

-----------------------------------------------------------------------------
(* The type invariant: what each variable holds.                           *)
TypeOK ==
  /\ connected \in BOOLEAN
  /\ validated \in BOOLEAN
  /\ writeBuffer \in Nat \ {0}
  /\ sending \in [Senders -> Nat]
  /\ writes \subseteq PartType
  /\ stream \in Seq(PartType)
  /\ sent \in Nat \ {0}
  /\ overlapped \in BOOLEAN
  /\ connections \in Nat

(* As long as each command is sent after the one before it was written,    *)
(* the shared buffer does no harm, whichever threads send: the connection  *)
(* carries whole commands in their order.                                  *)
UnhurriedCommandsIntact == ~overlapped => InOrder(stream)

(* On the first connection, nothing comes before DefineOperationalModes or *)
(* into it: before it was answered no command touches the buffer           *)
(* (SubscriberConnection.cpp: "The very first command received from the    *)
(* subscriber should be the DefineOperationalModes command").  On later    *)
(* ones a thread that was about to start a write may spoil it.             *)
ModesFirst ==
  connections = 1 =>
    \A i \in 1 .. Len(stream) : i <= Parts => stream[i] = Part(Modes, i)

-----------------------------------------------------------------------------
(* What a comment of the source says and the code does not keep.           *)

(* SendServerCommand: "Sends a command along with the given data to the    *)
(* server".  Hence the connection carries whole commands.                  *)
CommandsIntact == InOrder(stream)

=============================================================================
