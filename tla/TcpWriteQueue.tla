--------------------------- MODULE TcpWriteQueue ---------------------------
(***************************************************************************)
(* How a SubscriberConnection writes responses to its command channel      *)
(* (src/src/lib/transport/SubscriberConnection.cpp).                       *)
(*                                                                         *)
(* Any thread posts a response to a strand, which runs one piece of work   *)
(* at a time in the order of posting; a response waits in a queue whose    *)
(* head is being written.  The end of a write comes back as work of the    *)
(* strand.  The connection may break at any moment; a reverse connection   *)
(* is then made again with the same SubscriberConnection and its queue.    *)
(* m_disconnecting and m_stopped are one variable: either makes            *)
(* IsDisconnecting true.                                                   *)
(***************************************************************************)
EXTENDS FrameStream

CONSTANTS
  MaxResponses,    \* bound: responses posted
  MaxConnections   \* bound: connections made

ASSUME BoundsAssumption == MaxResponses \in Nat /\ MaxConnections \in Nat

VARIABLES
  reverse,           \* IsReverseConnection of the publisher
  posted,            \* responses posted: the next one is frame posted + 1
  strand,            \* work of m_tcpWriteStrand
  tcpWriteBuffers,   \* m_tcpWriteBuffers
  writes,            \* async_writes under way: the part each has to write next
  stream,            \* what this connection has taken
  broken,            \* the other side is gone
  terminating,       \* m_connectionTerminationThread is under way
  stopped,           \* m_disconnecting or m_stopped
  connections,       \* connections made
  earlier            \* responses posted before this connection was made

connectionVars == <<reverse, broken, terminating, stopped, connections, earlier>>
vars == <<posted, strand, tcpWriteBuffers, writes, stream, connectionVars>>

Push(frame) == [type |-> "push", frame |-> frame]
Written(error) == [type |-> "written", error |-> error]
Work == [type : {"push"}, frame : Nat \ {0}] \cup [type : {"written"}, error : BOOLEAN]

Init ==
  /\ reverse \in BOOLEAN
  /\ posted = 0
  /\ strand = <<>>
  /\ tcpWriteBuffers = <<>>
  /\ writes = {}
  /\ stream = <<>>
  /\ broken = FALSE
  /\ terminating = FALSE
  /\ stopped = FALSE
  /\ connections = 1
  /\ earlier = 0

-----------------------------------------------------------------------------

SendResponse ==
  /\ posted < MaxResponses
  /\ posted' = posted + 1
  /\ strand' = Append(strand, Push(posted + 1))
  /\ UNCHANGED <<tcpWriteBuffers, writes, stream, connectionVars>>

(* CommandChannelSendAsync: a write of the head of the queue.              *)
CommandChannelSendAsync(queue) ==
  writes' = IF stopped THEN writes ELSE writes \cup {Part(Head(queue), 1)}

(* The posted work: only the first in the queue starts a write.            *)
PushBuffer_Always ==
  /\ strand # <<>>
  /\ Head(strand).type = "push"
  /\ strand' = Tail(strand)
  /\ tcpWriteBuffers' = Append(tcpWriteBuffers, Head(strand).frame)
  /\ CommandChannelSendAsync(<<Head(strand).frame>>)
  /\ UNCHANGED <<posted, stream, connectionVars>>

PushBuffer ==
  /\ strand # <<>>
  /\ Head(strand).type = "push"
  /\ strand' = Tail(strand)
  /\ tcpWriteBuffers' = Append(tcpWriteBuffers, Head(strand).frame)
  /\ IF tcpWriteBuffers = <<>>
     THEN CommandChannelSendAsync(tcpWriteBuffers')
     ELSE UNCHANGED writes
  /\ UNCHANGED <<posted, stream, connectionVars>>

(* HandleConnectionError: an accepted connection stops at once, a reverse  *)
(* one by its own thread.                                                  *)
HandleConnectionError ==
  /\ terminating' = (reverse \/ terminating)
  /\ stopped' = (~reverse \/ stopped)
  /\ UNCHANGED <<reverse, broken, connections, earlier>>

(* CommandChannelWriteHandler: the head leaves the queue, the next one is  *)
(* written.  A connection that is disconnecting does neither.              *)
CommandChannelWriteHandler_NoNext ==
  /\ strand # <<>>
  /\ Head(strand).type = "written"
  /\ strand' = Tail(strand)
  /\ ~stopped
  /\ tcpWriteBuffers' = Tail(tcpWriteBuffers)
  /\ IF Head(strand).error
     THEN HandleConnectionError /\ UNCHANGED writes
     ELSE UNCHANGED <<writes, connectionVars>>
  /\ UNCHANGED <<posted, stream>>

CommandChannelWriteHandler ==
  /\ strand # <<>>
  /\ Head(strand).type = "written"
  /\ strand' = Tail(strand)
  /\ ~stopped
  /\ tcpWriteBuffers' = Tail(tcpWriteBuffers)
  /\ IF Head(strand).error
     THEN HandleConnectionError /\ UNCHANGED writes
     ELSE /\ IF tcpWriteBuffers' # <<>>
             THEN CommandChannelSendAsync(tcpWriteBuffers')
             ELSE UNCHANGED writes
          /\ UNCHANGED connectionVars
  /\ UNCHANGED <<posted, stream>>

IgnoreWritten ==
  /\ strand # <<>>
  /\ Head(strand).type = "written"
  /\ strand' = Tail(strand)
  /\ stopped
  /\ UNCHANGED <<posted, tcpWriteBuffers, writes, stream, connectionVars>>

-----------------------------------------------------------------------------
(* The socket.                                                             *)

WritePart(p) ==
  /\ p \in writes
  /\ ~broken
  /\ ~stopped
  /\ stream' = Append(stream, p)
  /\ IF p.part < Parts
     THEN /\ writes' = (writes \ {p}) \cup {Successor(p)}
          /\ UNCHANGED strand
     ELSE /\ writes' = writes \ {p}
          /\ strand' = Append(strand, Written(FALSE))
  /\ UNCHANGED <<posted, tcpWriteBuffers, connectionVars>>

(* The write ends with an error: the other side is gone, or the socket was *)
(* shut down by StopConnection.                                            *)
FailWrite(p) ==
  /\ p \in writes
  /\ broken \/ stopped
  /\ writes' = writes \ {p}
  /\ strand' = Append(strand, Written(TRUE))
  /\ UNCHANGED <<posted, tcpWriteBuffers, stream, connectionVars>>

Break ==
  /\ ~broken
  /\ broken' = TRUE
  /\ UNCHANGED <<reverse, posted, strand, tcpWriteBuffers, writes, stream,
                 terminating, stopped, connections, earlier>>

(* The reading side meets the end of the connection.                       *)
FailRead ==
  /\ broken
  /\ ~stopped
  /\ ~terminating
  /\ HandleConnectionError
  /\ UNCHANGED <<posted, strand, tcpWriteBuffers, writes, stream>>

-----------------------------------------------------------------------------

(* StopConnection, asked for by the publisher.                             *)
StopConnection ==
  /\ ~reverse
  /\ ~stopped
  /\ stopped' = TRUE
  /\ UNCHANGED <<reverse, posted, strand, tcpWriteBuffers, writes, stream,
                 broken, terminating, connections, earlier>>

(* Disconnect by the connection termination thread of a reverse            *)
(* connection.                                                             *)
Disconnect_Clears ==
  /\ terminating
  /\ terminating' = FALSE
  /\ stopped' = TRUE
  /\ tcpWriteBuffers' = <<>>
  /\ UNCHANGED <<reverse, posted, strand, writes, stream, broken, connections,
                 earlier>>

Disconnect ==
  /\ terminating
  /\ terminating' = FALSE
  /\ stopped' = TRUE
  /\ UNCHANGED <<reverse, posted, strand, tcpWriteBuffers, writes, stream,
                 broken, connections, earlier>>

(* The automatic reconnection: the same SubscriberConnection gets a new    *)
(* socket; what the old one was writing has failed by then.                *)
Connect ==
  /\ reverse
  /\ stopped
  /\ writes = {}
  /\ connections < MaxConnections
  /\ connections' = connections + 1
  /\ earlier' = posted
  /\ stopped' = FALSE
  /\ broken' = FALSE
  /\ stream' = <<>>
  /\ UNCHANGED <<reverse, posted, strand, tcpWriteBuffers, writes, terminating>>

Strand == PushBuffer \/ CommandChannelWriteHandler \/ IgnoreWritten

Socket == FailRead \/ \E p \in writes : WritePart(p) \/ FailWrite(p)

Next ==
  \/ SendResponse
  \/ Strand
  \/ Socket
  \/ Break
  \/ StopConnection
  \/ Disconnect
  \/ Connect

Spec == Init /\ [][Next]_vars

(* The thread that runs the command channel service takes the strand's     *)
(* work, TCP takes what is written, and threads that were started run.     *)
FairSpec ==
  /\ Spec
  /\ WF_vars(Strand)
  /\ WF_vars(Socket)
  /\ WF_vars(Disconnect)

-----------------------------------------------------------------------------
(* The type invariant: what each variable holds.                           *)
TypeOK ==
  /\ reverse \in BOOLEAN
  /\ posted \in Nat
  /\ strand \in Seq(Work)
  /\ tcpWriteBuffers \in Seq(Nat \ {0})
  /\ writes \subseteq PartType
  /\ stream \in Seq(PartType)
  /\ broken \in BOOLEAN
  /\ terminating \in BOOLEAN
  /\ stopped \in BOOLEAN
  /\ connections \in Nat
  /\ earlier \in Nat

(* Whatever threads post while others are written, a connection carries    *)
(* whole frames in the order of posting, none twice and none left out: the *)
(* subscriber finds the frames by their sizes alone.                       *)
FramesInOrder == InOrder(stream)

(* A buffer is not released before its write has ended, also when the      *)
(* connection breaks and is made again: only its place in the queue keeps  *)
(* it alive.                                                               *)
WrittenBufferIsKept ==
  \A p \in writes : tcpWriteBuffers # <<>> /\ Head(tcpWriteBuffers) = p.frame

(* A response that is posted on the first connection is written to it,     *)
(* unless that is stopped.                                                 *)
FirstPostedAreWritten ==
  \A n \in 1 .. MaxResponses :
    posted >= n /\ connections = 1 ~> stopped \/ Contains(stream, Part(n, Parts))

-----------------------------------------------------------------------------
(* What a comment of the source says and the code does not keep.           *)

(* Constants.h, ServerCommand: a solicited command will receive a          *)
(* response.  Hence what is posted on any connection is written to it,     *)
(* unless that is stopped.                                                 *)
PostedIsWritten ==
  \A n \in 1 .. MaxResponses :
    posted >= n /\ earlier < n ~> stopped \/ Contains(stream, Part(n, Parts))

=============================================================================
