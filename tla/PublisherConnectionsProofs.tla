--------------------- MODULE PublisherConnectionsProofs ---------------------
(***************************************************************************)
(* What holds of PublisherConnections for every set of clients, every      *)
(* limit and every number of calls.                                        *)
(***************************************************************************)
EXTENDS PublisherConnections, FiniteSetTheorems, FunctionTheorems, SequenceTheorems, TLAPS

(* A client that has not been admitted to the set of connections yet.      *)
Fresh(c) == c \notin arrived \/ (pc["io"] = "admit" /\ arg["io"] = c)

Open(c) == accepted[c] /\ ~stopped[c]

(* A thread that is in the middle of a call knows its connection, and the  *)
(* "clients" thread keeps the lock until it has stopped all.               *)
ThreadsKnowTheirs ==
  /\ \A t \in Thread : pc[t] \in {"admit", "mark", "terminate", "erase"} => arg[t] \in Client
  /\ \A t \in Thread : pc[t] = "delay" => t \in Client
  /\ pc["io"] = "admit" => arg["io"] \in arrived
  /\ LockFree => toStop = {}
  /\ pc["callback"] = "dequeue" => callbackQueue # <<>>

(* Nothing is known of a fresh client anywhere.                            *)
Unknown(c) ==
  /\ c \notin connections /\ stopped[c] /\ ~reading[c] /\ pc[c] = "ended"
  /\ \A i \in 1 .. Len(callbackQueue) : callbackQueue[i].client # c
  /\ \A t \in Thread \ {"io"} : arg[t] # c
  /\ pc["io"] # "admit" => arg["io"] # c

FreshAreUnknown == \A c \in Client : Fresh(c) => Unknown(c)

ErasedAreStopped ==
  \A t \in Thread : pc[t] \in {"terminate", "erase"} => stopped[arg[t]]

(* While the "clients" thread is at work, whatever it has yet to stop is   *)
(* in toStop or in its hands.                                              *)
NoneIsPassedOver ==
  ~LockFree => \A c \in connections :
    stopped[c] \/ c \in toStop \/ (pc["clients"] = "mark" /\ arg["clients"] = c)

OpenAreKept == \A c \in Client : Open(c) => c \in connections

Limit ==
  MaximumAllowedConnections # -1 =>
    Cardinality({c \in Client : Open(c)}) <= MaximumAllowedConnections

(* What is removed from the set, and what ShutDown's iteration forgets,    *)
(* is stopped.                                                             *)
Kept == ErasedAreStopped /\ NoneIsPassedOver /\ OpenAreKept

(* The acceptor's thread ends when nothing is read; ShutDown waits for all.*)
Quiet ==
  /\ pc["io"] = "ended" => \A c \in Client : ~reading[c]
  /\ shuttingDown <=> shutdown # "ended"
  /\ ~started /\ shutdown \in {"ended", "finishing"} => Joined

(* Where a connection leaves a trace: it is read, queued, announced or in  *)
(* the hands of a thread.                                                  *)
Met(c) ==
  \/ reading[c] \/ c \in announced \/ pc[c] = "delay"
  \/ \E i \in 1 .. Len(callbackQueue) : callbackQueue[i].client = c
  \/ \E t \in Thread : pc[t] \in {"mark", "terminate", "erase"} /\ arg[t] = c

MetAreKnown == \A c \in Client : Met(c) => c \in connections \cup endKnown

(* Whoever removes a connection does so after its end is known: the        *)
(* callback thread, the program, and ShutDown at the end of its iteration. *)
RemoversKnow ==
  /\ \A t \in Thread : pc[t] = "erase" => arg[t] \in endKnown
  /\ \A t \in {"callback", "user"} : pc[t] \in {"mark", "terminate"} => arg[t] \in endKnown
  /\ ~LockFree => \A c \in connections :
       \/ c \in toStop \/ c \in endKnown
       \/ pc["clients"] \in {"mark", "terminate"} /\ arg["clients"] = c

(* ShutDown's iteration is over: from then on nothing is announced whose   *)
(* end is not known, although the callback thread may be about to dequeue. *)
Over ==
  \/ shutdown \in {"joining", "finishing"} /\ pc["clients"] = "ended"
  \/ shutdown = "ended" /\ ~started

EndsAreKnown ==
  Over => /\ announced \subseteq endKnown
          /\ pc["callback"] = "dequeue" => Head(callbackQueue).client \in endKnown

Known == MetAreKnown /\ RemoversKnow /\ EndsAreKnown

Inv ==
  /\ TypeOK /\ IsFiniteSet(connections)
  /\ ThreadsKnowTheirs /\ FreshAreUnknown /\ Kept /\ Limit
  /\ DispatchedIsAlive /\ Quiet /\ Known

-----------------------------------------------------------------------------
(* The steps of Next, each by its name.                                    *)

LEMMA Steps ==
  ASSUME [Next]_vars
  PROVE  \/ UNCHANGED vars
         \/ AcceptFails \/ RunReturns \/ EndCallbacks \/ BeginDequeue \/ ExecuteCallback
         \/ ClearConnections \/ CloseAcceptor \/ ResetQueue \/ FinishShutDown
         \/ StartThrows \/ Start \/ CallStart \/ Stop
         \/ \E t \in Thread : Mark(t) \/ ConnectionTerminated(t) \/ Erase(t)
         \/ \E c \in Client : \/ Accept(c) \/ AcceptConnection(c) \/ ReadAborted(c)
                              \/ ReadFails(c) \/ ReadRefused(c) \/ StopNext(c)
                              \/ StopRefused(c) \/ DisconnectSubscriber(c)
  <1>1. {"io", "callback", "clients", "user"} \subseteq Thread /\ Client \subseteq Thread
    BY DEF Thread
  <1> QED
    BY <1>1 DEF Next, IoStep, CallbackStep, ClientsStep, ShutdownStep, UserStep, Call,
                PoolStep, StopStep

(* The steps that call Stop of a connection.                               *)
StopConnectionStep(c) ==
  ReadFails(c) \/ StopNext(c) \/ StopRefused(c) \/ DisconnectSubscriber(c)

LEMMA ThreadNames ==
  /\ {"io", "callback", "clients", "user"} \subseteq Thread /\ Client \subseteq Thread
  /\ \A c \in Client : c \notin {"io", "callback", "clients", "user"}
  /\ NoClient \notin Client
  BY ThreadAssumption, ClientAssumption DEF Thread

(* Where a thread goes after StopConnection.                               *)
LEMMA AfterStopLabels ==
  ASSUME NEW t \in Thread
  PROVE  AfterStop(t) \in {"idle", "erase", "next", "ended"}
  BY DEF AfterStop

(* The places of queues.                                                   *)
LEMMA SentItems ==
  ASSUME NEW S, NEW q \in Seq(S), NEW item \in S
  PROVE  /\ Append(q, item) \in Seq(S)
         /\ Len(Append(q, item)) = Len(q) + 1 /\ Len(q) \in Nat
         /\ \A i \in 1 .. Len(q) : Append(q, item)[i] = q[i]
         /\ Append(q, item)[Len(q) + 1] = item
  BY AppendProperties, LenProperties

LEMMA ReceivedItems ==
  ASSUME NEW S, NEW q \in Seq(S), q # <<>>
  PROVE  /\ Head(q) \in S /\ Head(q) = q[1] /\ Tail(q) \in Seq(S)
         /\ Len(q) \in Nat \ {0} /\ Len(Tail(q)) = Len(q) - 1
         /\ \A i \in 1 .. Len(Tail(q)) :
              i + 1 \in 1 .. Len(q) /\ Tail(q)[i] = q[i + 1]
  <1>1. Len(q) \in Nat /\ Len(q) # 0
    BY EmptySeq, LenProperties
  <1> QED
    BY <1>1, HeadTailProperties

Event == [event : {"connected", "disconnected"}, client : Client]

-----------------------------------------------------------------------------
(* Type correctness.                                                       *)

LEMMA TypeInit == Init => TypeOK
  <1> SUFFICES ASSUME Init PROVE TypeOK
    OBVIOUS
  <1>1. callbackQueue \in Seq(Event)
    <2>1. <<>> \in Seq(Event)
      OBVIOUS
    <2> QED
      BY <2>1 DEF Init
  <1>2. calls \in 0 .. MaxCalls
    BY CallsAssumption DEF Init
  <1> QED
    BY <1>1, <1>2 DEF Init, TypeOK, Event, Labels

(* The types of pc and arg.                                                *)
ThreadType == pc \in [Thread -> Labels] /\ arg \in [Thread -> Client \cup {NoClient}]

LEMMA GotoType ==
  ASSUME ThreadType, NEW t \in Thread, NEW label \in Labels,
         NEW c \in Client \cup {NoClient}, Goto(t, label, c)
  PROVE  ThreadType'
  BY DEF ThreadType, Goto

LEMMA StopConnectionType ==
  ASSUME ThreadType, NEW t \in Thread, NEW c \in Client, StopConnection(t, c)
  PROVE  ThreadType'
  <1>1. AfterStop(t) \in Labels /\ "mark" \in Labels
    BY AfterStopLabels DEF Labels
  <1> QED
    BY <1>1, GotoType DEF StopConnection

LEMMA QueueHead ==
  ASSUME TypeOK, callbackQueue # <<>>
  PROVE  /\ callbackQueue \in Seq(Event)
         /\ Head(callbackQueue).client \in Client
         /\ Head(callbackQueue).event \in {"connected", "disconnected"}
  <1>1. callbackQueue \in Seq(Event)
    BY DEF TypeOK, Event
  <1>2. Head(callbackQueue) \in Event
    BY <1>1, ReceivedItems
  <1> QED
    BY <1>1, <1>2 DEF Event

LEMMA GotoThreads ==
  ASSUME ThreadType, NEW t \in Thread, NEW label, NEW c, Goto(t, label, c)
  PROVE  /\ pc'[t] = label
         /\ arg'[t] = IF label \in {"idle", "dequeue", "next", "ended"} THEN NoClient ELSE c
         /\ \A u \in Thread \ {t} : pc'[u] = pc[u] /\ arg'[u] = arg[u]
  BY DEF Goto, ThreadType

LEMMA StopConnectionThreads ==
  ASSUME ThreadType, NEW t \in Thread, NEW c \in Client, StopConnection(t, c)
  PROVE  /\ \A u \in Thread \ {t} : pc'[u] = pc[u] /\ arg'[u] = arg[u]
         /\ pc'[t] \in {"mark", "idle", "erase", "next", "ended"}
         /\ pc'[t] \in {"mark", "erase"} => arg'[t] = c
         /\ pc'[t] = "erase" => stopped[c]
         /\ pc'[t] # "mark" => stopped[c]
         /\ arg'[t] \in {c, NoClient}
         /\ IF t = "clients" THEN pc'[t] \in {"mark", "next"} ELSE pc'[t] # "next"
         /\ t \in Client => pc'[t] \in {"mark", "ended"}
  BY GotoThreads, ThreadNames DEF StopConnection, AfterStop

(* What a callback does to the threads.                                    *)
LEMMA ExecuteCallbackThreads ==
  ASSUME TypeOK, ThreadsKnowTheirs, ExecuteCallback, NEW c, c = Head(callbackQueue).client
  PROVE  /\ callbackQueue # <<>> /\ callbackQueue \in Seq(Event) /\ c \in Client
         /\ \A u \in Thread \ {"callback"} : pc'[u] = pc[u] /\ arg'[u] = arg[u]
         /\ pc["callback"] = "dequeue"
         /\ pc'["callback"] \in {"idle", "mark", "erase"}
         /\ arg'["callback"] \in {c, NoClient}
         /\ pc'["callback"] \in {"mark", "erase"} =>
              arg'["callback"] = c /\ endKnown' = endKnown \cup {c}
         /\ pc'["callback"] = "erase" => stopped[c]
         /\ ThreadType'
  <1>1. /\ callbackQueue # <<>> /\ callbackQueue \in Seq(Event) /\ c \in Client
        /\ pc["callback"] = "dequeue"
    <2>1. pc["callback"] = "dequeue"
      BY DEF ExecuteCallback
    <2>2. callbackQueue # <<>>
      BY <2>1 DEF ThreadsKnowTheirs
    <2> QED
      BY <2>1, <2>2, QueueHead
  <1>2. ThreadType
    BY DEF TypeOK, ThreadType
  <1> USE ThreadNames
  <1>3. CASE Head(callbackQueue).event = "connected"
    <2>1. Goto("callback", "idle", NoClient)
      BY <1>3 DEF ExecuteCallback
    <2>2. ThreadType'
      BY <1>2, <2>1, GotoType DEF Labels
    <2> QED
      BY <1>1, <1>2, <2>1, <2>2, GotoThreads
  <1>4. CASE Head(callbackQueue).event # "connected"
    <2>1. StopConnection("callback", c) /\ endKnown' = endKnown \cup {c}
      BY <1>4 DEF ExecuteCallback
    <2>2. ThreadType'
      BY <1>1, <1>2, <2>1, StopConnectionType
    <2>3. pc'["callback"] \in {"mark", "erase"}
      BY <1>2, <2>1, GotoThreads DEF StopConnection, AfterStop
    <2> QED
      BY <1>1, <1>2, <2>1, <2>2, <2>3, StopConnectionThreads
  <1> QED
    BY <1>3, <1>4

LEMMA TypeNext == TypeOK /\ ThreadsKnowTheirs /\ [Next]_vars => TypeOK'
  <1> SUFFICES ASSUME TypeOK, ThreadsKnowTheirs, [Next]_vars PROVE TypeOK'
    OBVIOUS
  <1>0. ThreadType /\ callbackQueue \in Seq(Event)
    BY DEF TypeOK, ThreadType, Event
  <1> USE CallsAssumption, ThreadNames
  <1> USE DEF TypeOK, flags, acceptor, queue, connection, threads, program
  <1>1. CASE UNCHANGED vars
    BY <1>1 DEF vars
  <1>2. CASE AcceptFails
    BY <1>2 DEF AcceptFails, IsShuttingDown
  <1>3. CASE RunReturns
    BY <1>0, <1>3, GotoType DEF RunReturns, ThreadType, Labels
  <1>4. CASE EndCallbacks
    BY <1>0, <1>4, GotoType DEF EndCallbacks, ThreadType, Labels
  <1>5. CASE ExecuteCallback
    <2>1. Head(callbackQueue).client \in Client /\ Tail(callbackQueue) \in Seq(Event)
      BY <1>5, ExecuteCallbackThreads, ReceivedItems
    <2>2. ThreadType'
      BY <1>5, ExecuteCallbackThreads
    <2>3. references' \in [Client -> Nat]
      BY <1>5, <2>1 DEF ExecuteCallback, ReleaseDispatchReference
    <2>4. announced' \subseteq Client /\ endKnown' \subseteq Client
      BY <1>5, <2>1 DEF ExecuteCallback
    <2> QED
      BY <1>5, <2>1, <2>2, <2>3, <2>4 DEF ExecuteCallback, ThreadType, Event
  <1>6. CASE ClearConnections
    BY <1>0, <1>6, GotoType DEF ClearConnections, ThreadType, Labels
  <1>7. CASE CloseAcceptor
    BY <1>0, <1>7, GotoType DEF CloseAcceptor, ThreadType, Labels
  <1>8. CASE ResetQueue
    <2>1. <<>> \in Seq(Event)
      OBVIOUS
    <2> QED
      BY <1>8, <2>1 DEF ResetQueue, Event
  <1>9. CASE FinishShutDown
    BY <1>9 DEF FinishShutDown
  <1>10. CASE StartThrows
    BY <1>0, <1>10, GotoType DEF StartThrows, ThreadType, Labels
  <1>11. CASE Start
    BY <1>11 DEF Start, Labels
  <1>12. CASE CallStart
    <2>1. calls' \in 0 .. MaxCalls
      BY <1>12 DEF CallStart
    <2>2. ThreadType'
      BY <1>0, <1>12, GotoType DEF CallStart, Labels
    <2> QED
      BY <1>12, <2>1, <2>2 DEF CallStart, ThreadType
  <1>13. CASE Stop
    <2>1. calls' \in 0 .. MaxCalls
      BY <1>13 DEF Stop
    <2> QED
      BY <1>13, <2>1 DEF Stop
  <1>14. ASSUME NEW t \in Thread, Mark(t) PROVE TypeOK'
    <2>1. ThreadType'
      BY <1>0, <1>14, GotoType DEF Mark, ThreadType, Labels
    <2> QED
      BY <1>14, <2>1 DEF Mark, ThreadType
  <1>15. ASSUME NEW t \in Thread, ConnectionTerminated(t) PROVE TypeOK'
    <2>1. ThreadType'
      <3>1. AfterStop(t) \in Labels
        BY AfterStopLabels DEF Labels
      <3> QED
        BY <1>0, <1>15, <3>1, GotoType DEF ConnectionTerminated
    <2>2. callbackQueue' \in Seq(Event)
      <3>1. [event |-> "disconnected", client |-> arg[t]] \in Event
        BY <1>15 DEF Event, ConnectionTerminated, ThreadsKnowTheirs
      <3> QED
        BY <1>0, <1>15, <3>1, SentItems DEF ConnectionTerminated, Dispatch
    <2>3. references' \in [Client -> Nat]
      <3>1. arg[t] \in Client
        BY <1>15 DEF ConnectionTerminated, ThreadsKnowTheirs
      <3> QED
        BY <1>15, <3>1 DEF ConnectionTerminated, AddDispatchReference
    <2>4. endKnown' \subseteq Client
      BY <1>15 DEF ConnectionTerminated, AfterTerminated, ThreadsKnowTheirs
    <2> QED
      BY <1>15, <2>1, <2>2, <2>3, <2>4 DEF ConnectionTerminated, ThreadType, Event
  <1>16. ASSUME NEW t \in Thread, Erase(t) PROVE TypeOK'
    <2>1. ThreadType'
      BY <1>0, <1>16, GotoType DEF Erase, Labels
    <2>2. toStop = {}
      BY <1>16 DEF Erase, ThreadsKnowTheirs
    <2> QED
      BY <1>16, <2>1, <2>2 DEF Erase, ThreadType
  <1>17. ASSUME NEW c \in Client, Accept(c) PROVE TypeOK'
    <2>1. ThreadType'
      BY <1>0, <1>17, GotoType DEF Accept, ThreadType, Labels
    <2> QED
      BY <1>17, <2>1 DEF Accept, ThreadType
  <1>18. ASSUME NEW c \in Client, AcceptConnection(c) PROVE TypeOK'
    <2>1. ThreadType'
      BY <1>0, <1>18, GotoType DEF AcceptConnection, ThreadType, Labels
    <2>2. callbackQueue' \in Seq(Event)
      <3>1. [event |-> "connected", client |-> c] \in Event
        BY DEF Event
      <3>2. Append(callbackQueue, [event |-> "connected", client |-> c]) \in Seq(Event)
        BY <1>0, <3>1, SentItems
      <3> QED
        BY <1>0, <1>18, <3>2 DEF AcceptConnection, Dispatch
    <2>3. references' \in [Client -> Nat]
      BY <1>18 DEF AcceptConnection, AddDispatchReference
    <2>4. accepted' \in [Client -> BOOLEAN]
      BY <1>18 DEF AcceptConnection, HasRoom
    <2> QED
      BY <1>18, <2>1, <2>2, <2>3, <2>4 DEF AcceptConnection, ThreadType, Event
  <1>19. ASSUME NEW c \in Client, ReadAborted(c) PROVE TypeOK'
    BY <1>19 DEF ReadAborted
  <1>20. ASSUME NEW c \in Client, ReadRefused(c) PROVE TypeOK'
    BY <1>20 DEF ReadRefused
  <1>21. ASSUME NEW c \in Client, ReadFails(c) PROVE TypeOK'
    <2>1. ThreadType'
      BY <1>0, <1>21, StopConnectionType DEF ReadFails
    <2> QED
      BY <1>21, <2>1 DEF ReadFails, ThreadType
  <1>22. ASSUME NEW c \in Client, StopNext(c) PROVE TypeOK'
    <2>1. ThreadType'
      BY <1>0, <1>22, StopConnectionType DEF StopNext
    <2> QED
      BY <1>22, <2>1 DEF StopNext, ThreadType
  <1>23. ASSUME NEW c \in Client, StopRefused(c) PROVE TypeOK'
    <2>1. ThreadType'
      BY <1>0, <1>23, StopConnectionType DEF StopRefused
    <2>2. references' \in [Client -> Nat]
      BY <1>23 DEF StopRefused, ReleaseDispatchReference
    <2> QED
      BY <1>23, <2>1, <2>2 DEF StopRefused, ThreadType
  <1>24. ASSUME NEW c \in Client, DisconnectSubscriber(c) PROVE TypeOK'
    <2>1. ThreadType'
      BY <1>0, <1>24, StopConnectionType DEF DisconnectSubscriber
    <2>2. calls' \in 0 .. MaxCalls
      BY <1>24 DEF DisconnectSubscriber
    <2> QED
      BY <1>24, <2>1, <2>2 DEF DisconnectSubscriber, ThreadType
  <1>25. CASE BeginDequeue
    BY <1>0, <1>25, GotoType DEF BeginDequeue, ThreadType, Labels
  <1> HIDE DEF TypeOK
  <1> QED
    BY Steps, <1>1, <1>2, <1>3, <1>4, <1>5, <1>6, <1>7, <1>8, <1>9, <1>10, <1>11, <1>12,
       <1>13, <1>14, <1>15, <1>16, <1>17, <1>18, <1>19, <1>20, <1>21, <1>22, <1>23, <1>24,
       <1>25

-----------------------------------------------------------------------------
(* What is known of threads and of fresh clients.                          *)

LEMMA ThreadsKnowTheirsInit == Init => ThreadsKnowTheirs
  BY ThreadNames DEF Init, ThreadsKnowTheirs, LockFree

LEMMA DispatchedIsThere ==
  ASSUME TypeOK, NEW event \in {"connected", "disconnected"}, NEW c \in Client,
         Dispatch(event, c)
  PROVE  callbackQueue' # <<>>
  <1> DEFINE item == [event |-> event, client |-> c]
  <1>1. callbackQueue \in Seq(Event) /\ item \in Event
    BY DEF TypeOK, Event
  <1>2. callbackQueue' = Append(callbackQueue, item)
    BY DEF Dispatch
  <1> HIDE DEF item
  <1> QED
    BY <1>1, <1>2, SentItems, EmptySeq

LEMMA ThreadsKnowTheirsNext ==
  TypeOK /\ ThreadsKnowTheirs /\ [Next]_vars => ThreadsKnowTheirs'
  <1> SUFFICES ASSUME TypeOK, ThreadsKnowTheirs, [Next]_vars PROVE ThreadsKnowTheirs'
    OBVIOUS
  <1>0. ThreadType
    BY DEF TypeOK, ThreadType
  <1> USE ThreadNames
  <1> USE DEF ThreadsKnowTheirs, LockFree, flags, acceptor, queue, connection, threads, program
  <1>1. CASE UNCHANGED vars
    BY <1>1 DEF vars
  <1>2. CASE AcceptFails
    BY <1>2 DEF AcceptFails
  <1>3. CASE RunReturns
    BY <1>0, <1>3, GotoThreads DEF RunReturns
  <1>4. CASE EndCallbacks
    BY <1>0, <1>4, GotoThreads DEF EndCallbacks
  <1>5. CASE ExecuteCallback
    BY <1>5, ExecuteCallbackThreads DEF ExecuteCallback
  <1>6. CASE ClearConnections
    BY <1>0, <1>6, GotoThreads DEF ClearConnections
  <1>7. CASE CloseAcceptor
    BY <1>0, <1>7, GotoThreads DEF CloseAcceptor
  <1>8. CASE ResetQueue
    BY <1>8 DEF ResetQueue, Joined
  <1>9. CASE FinishShutDown
    BY <1>9 DEF FinishShutDown
  <1>10. CASE StartThrows
    BY <1>0, <1>10, GotoThreads DEF StartThrows
  <1>11. CASE Start
    BY <1>0, <1>11 DEF Start, ThreadType
  <1>12. CASE CallStart
    BY <1>0, <1>12, GotoThreads DEF CallStart
  <1>13. CASE Stop
    BY <1>13 DEF Stop
  <1>14. ASSUME NEW t \in Thread, Mark(t) PROVE ThreadsKnowTheirs'
    BY <1>0, <1>14, GotoThreads DEF Mark
  <1>15. ASSUME NEW t \in Thread, ConnectionTerminated(t) PROVE ThreadsKnowTheirs'
    <2>1. callbackQueue' # <<>>
      BY <1>15, DispatchedIsThere DEF ConnectionTerminated, ThreadsKnowTheirs
    <2>2. \A u \in Thread \ {t} : pc'[u] = pc[u] /\ arg'[u] = arg[u]
      BY <1>0, <1>15, GotoThreads DEF ConnectionTerminated
    <2>3. /\ pc'[t] = AfterStop(t) /\ AfterStop(t) \in {"idle", "erase", "next", "ended"}
          /\ pc'[t] = "erase" => arg'[t] = arg[t]
      BY <1>0, <1>15, GotoThreads, AfterStopLabels DEF ConnectionTerminated
    <2>4. t = "clients" => pc'[t] = "next"
      BY <2>3 DEF AfterStop
    <2> QED
      BY <1>15, <2>1, <2>2, <2>3, <2>4 DEF ConnectionTerminated
  <1>16. ASSUME NEW t \in Thread, Erase(t) PROVE ThreadsKnowTheirs'
    BY <1>0, <1>16, GotoThreads DEF Erase
  <1>17. ASSUME NEW c \in Client, Accept(c) PROVE ThreadsKnowTheirs'
    BY <1>0, <1>17, GotoThreads DEF Accept
  <1>18. ASSUME NEW c \in Client, AcceptConnection(c) PROVE ThreadsKnowTheirs'
    <2>1. CASE HasRoom
      <3>1. callbackQueue' # <<>>
        BY <1>18, <2>1, DispatchedIsThere DEF AcceptConnection
      <3> QED
        BY <1>0, <1>18, <2>1, <3>1, GotoThreads DEF AcceptConnection
    <2>2. CASE ~HasRoom
      BY <1>0, <1>18, <2>2 DEF AcceptConnection, ThreadType
    <2> QED
      BY <2>1, <2>2
  <1>19. ASSUME NEW c \in Client, ReadAborted(c) PROVE ThreadsKnowTheirs'
    BY <1>19 DEF ReadAborted
  <1>20. ASSUME NEW c \in Client, ReadRefused(c) PROVE ThreadsKnowTheirs'
    BY <1>20 DEF ReadRefused
  <1>21. ASSUME NEW c \in Client, ReadFails(c) PROVE ThreadsKnowTheirs'
    BY <1>0, <1>21, StopConnectionThreads DEF ReadFails
  <1>22. ASSUME NEW c \in Client, StopNext(c) PROVE ThreadsKnowTheirs'
    BY <1>0, <1>22, StopConnectionThreads DEF StopNext
  <1>23. ASSUME NEW c \in Client, StopRefused(c) PROVE ThreadsKnowTheirs'
    BY <1>0, <1>23, StopConnectionThreads DEF StopRefused
  <1>24. ASSUME NEW c \in Client, DisconnectSubscriber(c) PROVE ThreadsKnowTheirs'
    BY <1>0, <1>24, StopConnectionThreads DEF DisconnectSubscriber
  <1>25. CASE BeginDequeue
    BY <1>0, <1>25, GotoThreads DEF BeginDequeue
  <1> HIDE DEF ThreadsKnowTheirs
  <1> QED
    BY Steps, <1>1, <1>2, <1>3, <1>4, <1>5, <1>6, <1>7, <1>8, <1>9, <1>10, <1>11, <1>12,
       <1>13, <1>14, <1>15, <1>16, <1>17, <1>18, <1>19, <1>20, <1>21, <1>22, <1>23, <1>24,
       <1>25

LEMMA FreshAreUnknownInit == Init => FreshAreUnknown
  <1> SUFFICES ASSUME Init, NEW c \in Client PROVE Unknown(c)
    BY DEF FreshAreUnknown
  <1>1. Len(callbackQueue) = 0
    BY DEF Init
  <1> QED
    BY <1>1, ThreadNames DEF Init, Unknown

LEMMA FreshAreUnknownNext ==
  TypeOK /\ ThreadsKnowTheirs /\ FreshAreUnknown /\ [Next]_vars => FreshAreUnknown'
  <1> SUFFICES ASSUME TypeOK, ThreadsKnowTheirs, FreshAreUnknown, [Next]_vars,
                      NEW d \in Client, Fresh(d)'
               PROVE  Unknown(d)'
    BY DEF FreshAreUnknown
  <1>0. ThreadType /\ callbackQueue \in Seq(Event)
    BY DEF TypeOK, ThreadType, Event
  <1>u. Fresh(d) => Unknown(d)
    BY DEF FreshAreUnknown
  <1>k. pc["io"] = "admit" => arg["io"] \in arrived
    BY DEF ThreadsKnowTheirs
  <1> USE ThreadNames
  <1> USE DEF Fresh, Unknown, flags, acceptor, queue, connection, threads, program
  <1>1. CASE UNCHANGED vars
    BY <1>1, <1>u DEF vars
  <1>2. CASE AcceptFails
    BY <1>2, <1>u DEF AcceptFails
  <1>3. CASE RunReturns
    BY <1>0, <1>3, <1>u, GotoThreads DEF RunReturns
  <1>4. CASE EndCallbacks
    BY <1>0, <1>4, <1>u, GotoThreads DEF EndCallbacks
  <1>5. CASE ExecuteCallback
    <2> DEFINE item == Head(callbackQueue)
    <2>1. /\ item.client \in Client /\ item = callbackQueue[1] /\ 1 \in 1 .. Len(callbackQueue)
          /\ \A i \in 1 .. Len(Tail(callbackQueue)) :
               i + 1 \in 1 .. Len(callbackQueue) /\ Tail(callbackQueue)[i] = callbackQueue[i + 1]
      BY <1>5, ExecuteCallbackThreads, ReceivedItems
    <2>2. /\ \A t \in Thread \ {"callback"} : pc'[t] = pc[t] /\ arg'[t] = arg[t]
          /\ arg'["callback"] \in {arg["callback"], item.client, NoClient}
      BY <1>5, ExecuteCallbackThreads
    <2>3. Fresh(d) /\ Unknown(d)
      BY <1>5, <1>u, <2>2 DEF ExecuteCallback
    <2>4. item.client # d
      BY <2>1, <2>3
    <2>5. \A i \in 1 .. Len(callbackQueue') : callbackQueue'[i].client # d
      BY <1>5, <2>1, <2>3 DEF ExecuteCallback
    <2> QED
      BY <1>5, <2>2, <2>3, <2>4, <2>5 DEF ExecuteCallback
  <1>6. CASE ClearConnections
    BY <1>0, <1>6, <1>u, GotoThreads DEF ClearConnections
  <1>7. CASE CloseAcceptor
    <2>1. /\ \A t \in Thread \ {"clients"} : pc'[t] = pc[t] /\ arg'[t] = arg[t]
          /\ arg'["clients"] = NoClient
      BY <1>0, <1>7, GotoThreads DEF CloseAcceptor
    <2> QED
      BY <1>7, <1>u, <2>1 DEF CloseAcceptor
  <1>8. CASE ResetQueue
    <2>1. Len(callbackQueue') = 0
      BY <1>8 DEF ResetQueue
    <2> QED
      BY <1>8, <1>u, <2>1 DEF ResetQueue
  <1>9. CASE FinishShutDown
    BY <1>9, <1>u DEF FinishShutDown
  <1>10. CASE StartThrows
    BY <1>0, <1>10, <1>u, GotoThreads DEF StartThrows
  <1>11. CASE Start
    BY <1>0, <1>11, <1>u, <1>k DEF Start, ThreadType
  <1>12. CASE CallStart
    BY <1>0, <1>12, <1>u, GotoThreads DEF CallStart
  <1>13. CASE Stop
    BY <1>13, <1>u DEF Stop
  <1>14. ASSUME NEW t \in Thread, Mark(t) PROVE Unknown(d)'
    <2>1. /\ pc'[t] = "terminate" /\ arg'[t] = arg[t]
          /\ \A u \in Thread \ {t} : pc'[u] = pc[u] /\ arg'[u] = arg[u]
      BY <1>0, <1>14, GotoThreads DEF Mark
    <2>2. Fresh(d) /\ Unknown(d)
      BY <1>14, <1>u, <2>1 DEF Mark
    <2>3. stopped'[d]
      BY <1>14, <2>2 DEF Mark, TypeOK
    <2> QED
      BY <1>14, <2>1, <2>2, <2>3 DEF Mark
  <1>15. ASSUME NEW t \in Thread, ConnectionTerminated(t) PROVE Unknown(d)'
    <2>1. /\ pc'[t] # "admit" /\ arg'[t] \in {arg[t], NoClient}
          /\ \A u \in Thread \ {t} : pc'[u] = pc[u] /\ arg'[u] = arg[u]
      BY <1>0, <1>15, GotoThreads, AfterStopLabels DEF ConnectionTerminated
    <2>2. Fresh(d) /\ Unknown(d) /\ arg[t] # d
      BY <1>15, <1>u, <2>1 DEF ConnectionTerminated
    <2>3. \A i \in 1 .. Len(callbackQueue') : callbackQueue'[i].client # d
      <3> DEFINE item == [event |-> "disconnected", client |-> arg[t]]
      <3>1. item \in Event
        BY <1>15 DEF Event, ConnectionTerminated, ThreadsKnowTheirs
      <3>2. callbackQueue' = Append(callbackQueue, item)
        BY <1>15 DEF ConnectionTerminated, Dispatch
      <3> QED
        BY <1>0, <2>2, <3>1, <3>2, SentItems
    <2>4. t # d
      BY <1>15, <2>2 DEF ConnectionTerminated
    <2> QED
      BY <1>15, <2>1, <2>2, <2>3, <2>4 DEF ConnectionTerminated
  <1>16. ASSUME NEW t \in Thread, Erase(t) PROVE Unknown(d)'
    <2>1. /\ pc'[t] = "idle" /\ arg'[t] = NoClient
          /\ \A u \in Thread \ {t} : pc'[u] = pc[u] /\ arg'[u] = arg[u]
      BY <1>0, <1>16, GotoThreads DEF Erase
    <2>2. Fresh(d) /\ Unknown(d)
      BY <1>16, <1>u, <2>1 DEF Erase
    <2> QED
      BY <1>16, <2>1, <2>2 DEF Erase
  <1>17. ASSUME NEW c \in Client, Accept(c) PROVE Unknown(d)'
    <2>1. CASE IsShuttingDown
      BY <1>17, <1>u, <2>1 DEF Accept
    <2>2. CASE ~IsShuttingDown
      BY <1>0, <1>17, <1>u, <2>2, GotoThreads DEF Accept
    <2> QED
      BY <2>1, <2>2
  <1>18. ASSUME NEW c \in Client, AcceptConnection(c) PROVE Unknown(d)'
    <2>1. /\ pc["io"] = "admit" /\ arg["io"] = c
          /\ pc'["io"] = "idle" /\ arg'["io"] = NoClient
          /\ \A u \in Thread \ {"io", c} : pc'[u] = pc[u] /\ arg'[u] = arg[u]
          /\ arg'[c] \in {arg[c], c}
      <3>1. CASE HasRoom
        BY <1>0, <1>18, <3>1, GotoThreads DEF AcceptConnection
      <3>2. CASE ~HasRoom
        BY <1>0, <1>18, <3>2 DEF AcceptConnection, ThreadType
      <3> QED
        BY <3>1, <3>2 DEF AcceptConnection
    <2>2. d # c /\ Fresh(d) /\ Unknown(d)
      BY <1>18, <1>u, <1>k, <2>1 DEF AcceptConnection
    <2>3. \A i \in 1 .. Len(callbackQueue') : callbackQueue'[i].client # d
      <3> DEFINE item == [event |-> "connected", client |-> c]
      <3>1. item \in Event
        BY DEF Event
      <3>2. callbackQueue' \in {callbackQueue, Append(callbackQueue, item)}
        BY <1>18 DEF AcceptConnection, Dispatch
      <3>3. CASE callbackQueue' = callbackQueue
        BY <2>2, <3>3
      <3>4. CASE callbackQueue' = Append(callbackQueue, item)
        BY <1>0, <2>2, <3>1, <3>4, SentItems
      <3> QED
        BY <3>2, <3>3, <3>4
    <2> QED
      BY <1>18, <2>1, <2>2, <2>3 DEF AcceptConnection, TypeOK
  <1>19. ASSUME NEW c \in Client, ReadAborted(c) PROVE Unknown(d)'
    BY <1>19, <1>u DEF ReadAborted, TypeOK
  <1>20. ASSUME NEW c \in Client, ReadRefused(c) PROVE Unknown(d)'
    BY <1>20, <1>u DEF ReadRefused, TypeOK
  <1>21. ASSUME NEW c \in Client, ReadFails(c) PROVE Unknown(d)'
    <2>1. Fresh(d) /\ Unknown(d) /\ d # c
      BY <1>0, <1>21, <1>u, StopConnectionThreads DEF ReadFails
    <2> QED
      BY <1>0, <1>21, <2>1, StopConnectionThreads DEF ReadFails, TypeOK
  <1>22. ASSUME NEW c \in Client, StopNext(c) PROVE Unknown(d)'
    <2>1. Fresh(d) /\ Unknown(d) /\ d # c
      BY <1>0, <1>22, <1>u, StopConnectionThreads DEF StopNext, TypeOK
    <2> QED
      BY <1>0, <1>22, <2>1, StopConnectionThreads DEF StopNext
  <1>23. ASSUME NEW c \in Client, StopRefused(c) PROVE Unknown(d)'
    <2>1. Fresh(d) /\ Unknown(d) /\ d # c
      BY <1>0, <1>23, <1>u, StopConnectionThreads DEF StopRefused
    <2> QED
      BY <1>0, <1>23, <2>1, StopConnectionThreads DEF StopRefused
  <1>24. ASSUME NEW c \in Client, DisconnectSubscriber(c) PROVE Unknown(d)'
    <2>1. Fresh(d) /\ Unknown(d) /\ d # c
      BY <1>0, <1>24, <1>u, StopConnectionThreads DEF DisconnectSubscriber
    <2> QED
      BY <1>0, <1>24, <2>1, StopConnectionThreads DEF DisconnectSubscriber
  <1>25. CASE BeginDequeue
    BY <1>0, <1>25, <1>u, GotoThreads DEF BeginDequeue
  <1> HIDE DEF Fresh, Unknown
  <1> QED
    BY Steps, <1>1, <1>2, <1>3, <1>4, <1>5, <1>6, <1>7, <1>8, <1>9, <1>10, <1>11, <1>12,
       <1>13, <1>14, <1>15, <1>16, <1>17, <1>18, <1>19, <1>20, <1>21, <1>22, <1>23, <1>24,
       <1>25

-----------------------------------------------------------------------------
(* The limit.                                                              *)

(* Only an admission opens a connection or adds one to the set.            *)
LEMMA ConnectionSteps ==
  ASSUME TypeOK, ThreadsKnowTheirs, [Next]_vars
  PROVE  \/ /\ connections' \subseteq connections /\ accepted' = accepted
            /\ \A c \in Client : stopped[c] => stopped'[c]
         \/ \E c \in Client : AcceptConnection(c)
  <1> USE DEF flags, acceptor, queue, connection, threads, program
  <1>1. CASE UNCHANGED vars
    BY <1>1 DEF vars
  <1>2. CASE \/ AcceptFails \/ RunReturns \/ EndCallbacks \/ BeginDequeue
             \/ ExecuteCallback \/ ClearConnections \/ CloseAcceptor \/ ResetQueue \/ FinishShutDown
             \/ StartThrows \/ Start \/ CallStart \/ Stop
    BY <1>2 DEF AcceptFails, RunReturns, EndCallbacks, BeginDequeue, ExecuteCallback,
       ClearConnections,
       CloseAcceptor, ResetQueue, FinishShutDown, StartThrows, Start, CallStart, Stop
  <1>3. ASSUME NEW t \in Thread, Mark(t)
        PROVE  /\ connections' \subseteq connections /\ accepted' = accepted
               /\ \A c \in Client : stopped[c] => stopped'[c]
    BY <1>3 DEF Mark, TypeOK
  <1>4. ASSUME NEW t \in Thread, ConnectionTerminated(t) \/ Erase(t)
        PROVE  /\ connections' \subseteq connections /\ accepted' = accepted
               /\ \A c \in Client : stopped[c] => stopped'[c]
    BY <1>4 DEF ConnectionTerminated, Erase
  <1>5. ASSUME NEW c \in Client,
               \/ Accept(c) \/ ReadAborted(c) \/ ReadFails(c) \/ ReadRefused(c)
               \/ StopNext(c) \/ StopRefused(c) \/ DisconnectSubscriber(c)
        PROVE  UNCHANGED <<connections, accepted, stopped>>
    BY <1>5 DEF Accept, ReadAborted, ReadFails, ReadRefused, StopNext, StopRefused,
       DisconnectSubscriber
  <1> QED
    BY Steps, <1>1, <1>2, <1>3, <1>4, <1>5

LEMMA FiniteNext ==
  ASSUME TypeOK, ThreadsKnowTheirs, IsFiniteSet(connections), [Next]_vars
  PROVE  IsFiniteSet(connections)'
  <1>1. ASSUME NEW c \in Client, AcceptConnection(c) PROVE IsFiniteSet(connections)'
    <2>1. connections' = connections \cup {c}
      BY <1>1 DEF AcceptConnection
    <2> QED
      BY <2>1, FS_AddElement
  <1> QED
    BY <1>1, ConnectionSteps, FS_Subset

LEMMA KeptInit == Init => Kept
  BY ThreadNames DEF Init, Kept, ErasedAreStopped, NoneIsPassedOver, OpenAreKept, Open, LockFree

LEMMA KeptNext ==
  TypeOK /\ ThreadsKnowTheirs /\ FreshAreUnknown /\ Kept /\ [Next]_vars => Kept'
  <1> SUFFICES ASSUME TypeOK, ThreadsKnowTheirs, FreshAreUnknown, Kept, [Next]_vars
               PROVE  Kept'
    OBVIOUS
  <1>0. ThreadType
    BY DEF TypeOK, ThreadType
  <1> USE ThreadNames
  <1> USE DEF Kept, ErasedAreStopped, NoneIsPassedOver, OpenAreKept, Open, LockFree,
              flags, acceptor, queue, connection, threads, program
  <1>1. CASE UNCHANGED vars
    BY <1>1 DEF vars
  <1>2. CASE AcceptFails
    BY <1>2 DEF AcceptFails
  <1>3. CASE RunReturns
    BY <1>0, <1>3, GotoThreads DEF RunReturns
  <1>4. CASE EndCallbacks
    BY <1>0, <1>4, GotoThreads DEF EndCallbacks
  <1>5. CASE ExecuteCallback
    BY <1>5, ExecuteCallbackThreads DEF ExecuteCallback
  <1>6. CASE ClearConnections
    <2>1. \A c \in connections : stopped[c]
      BY <1>6 DEF ClearConnections
    <2> QED
      BY <1>0, <1>6, <2>1, GotoThreads DEF ClearConnections
  <1>7. CASE CloseAcceptor
    <2>1. pc'["clients"] = "next" /\ \A u \in Thread \ {"clients"} : pc'[u] = pc[u] /\ arg'[u] = arg[u]
      BY <1>0, <1>7, GotoThreads DEF CloseAcceptor
    <2> QED
      BY <1>7, <2>1 DEF CloseAcceptor
  <1>8. CASE ResetQueue
    BY <1>8 DEF ResetQueue
  <1>9. CASE FinishShutDown
    BY <1>9 DEF FinishShutDown
  <1>10. CASE StartThrows
    BY <1>0, <1>10, GotoThreads DEF StartThrows
  <1>11. CASE Start
    BY <1>0, <1>11 DEF Start, ThreadType
  <1>12. CASE CallStart
    BY <1>0, <1>12, GotoThreads DEF CallStart
  <1>13. CASE Stop
    BY <1>13 DEF Stop
  <1>14. ASSUME NEW t \in Thread, Mark(t) PROVE Kept'
    <2>1. /\ pc'[t] = "terminate" /\ arg'[t] = arg[t]
          /\ \A u \in Thread \ {t} : pc'[u] = pc[u] /\ arg'[u] = arg[u]
      BY <1>0, <1>14, GotoThreads DEF Mark
    <2>2. /\ stopped'[arg[t]]
          /\ \A c \in Client : stopped[c] => stopped'[c]
      BY <1>14 DEF Mark, ThreadsKnowTheirs, TypeOK
    <2>3. ErasedAreStopped'
      BY <1>14, <2>1, <2>2 DEF ThreadsKnowTheirs
    <2>4. NoneIsPassedOver'
      BY <1>14, <2>1, <2>2 DEF Mark, TypeOK
    <2>5. OpenAreKept'
      BY <1>14, <2>2 DEF Mark
    <2> QED
      BY <2>3, <2>4, <2>5
  <1>15. ASSUME NEW t \in Thread, ConnectionTerminated(t) PROVE Kept'
    <2>1. /\ pc'[t] = AfterStop(t) /\ arg'[t] \in {arg[t], NoClient}
          /\ pc'[t] = "erase" => arg'[t] = arg[t]
          /\ \A u \in Thread \ {t} : pc'[u] = pc[u] /\ arg'[u] = arg[u]
      BY <1>0, <1>15, GotoThreads DEF ConnectionTerminated
    <2> QED
      BY <1>15, <2>1, AfterStopLabels DEF ConnectionTerminated
  <1>16. ASSUME NEW t \in Thread, Erase(t) PROVE Kept'
    BY <1>0, <1>16, GotoThreads DEF Erase
  <1>17. ASSUME NEW c \in Client, Accept(c) PROVE Kept'
    BY <1>0, <1>17, GotoThreads DEF Accept
  <1>18. ASSUME NEW c \in Client, AcceptConnection(c) PROVE Kept'
    <2>1. /\ pc'["io"] = "idle"
          /\ pc'[c] \in {pc[c], "delay"}
          /\ \A u \in Thread \ {"io", c} : pc'[u] = pc[u] /\ arg'[u] = arg[u]
      <3>1. CASE HasRoom
        BY <1>0, <1>18, <3>1, GotoThreads DEF AcceptConnection
      <3>2. CASE ~HasRoom
        BY <1>0, <1>18, <3>2 DEF AcceptConnection, ThreadType
      <3> QED
        BY <3>1, <3>2 DEF AcceptConnection
    <2>2. Unknown(c)
      BY <1>18 DEF AcceptConnection, FreshAreUnknown, Fresh
    <2>3. \A d \in Client \ {c} : stopped'[d] = stopped[d] /\ accepted'[d] = accepted[d]
      BY <1>18 DEF AcceptConnection, TypeOK
    <2>4. ErasedAreStopped'
      BY <2>1, <2>2, <2>3 DEF Unknown, ThreadsKnowTheirs
    <2>5. NoneIsPassedOver'
      BY <1>18, <2>1 DEF AcceptConnection
    <2>6. OpenAreKept'
      BY <1>18, <2>3 DEF AcceptConnection
    <2> QED
      BY <2>4, <2>5, <2>6
  <1>19. ASSUME NEW c \in Client, ReadAborted(c) PROVE Kept'
    BY <1>19 DEF ReadAborted
  <1>20. ASSUME NEW c \in Client, ReadRefused(c) PROVE Kept'
    BY <1>20 DEF ReadRefused
  <1>21. ASSUME NEW c \in Client, ReadFails(c) PROVE Kept'
    BY <1>0, <1>21, StopConnectionThreads DEF ReadFails
  <1>22. ASSUME NEW c \in Client, StopNext(c) PROVE Kept'
    <2>1. /\ \A u \in Thread \ {"clients"} : pc'[u] = pc[u] /\ arg'[u] = arg[u]
          /\ pc'["clients"] \in {"mark", "next"}
          /\ pc'["clients"] = "mark" => arg'["clients"] = c
          /\ pc'["clients"] # "mark" => stopped[c]
      BY <1>0, <1>22, StopConnectionThreads DEF StopNext
    <2> QED
      BY <1>22, <2>1 DEF StopNext
  <1>23. ASSUME NEW c \in Client, StopRefused(c) PROVE Kept'
    BY <1>0, <1>23, StopConnectionThreads DEF StopRefused
  <1>24. ASSUME NEW c \in Client, DisconnectSubscriber(c) PROVE Kept'
    BY <1>0, <1>24, StopConnectionThreads DEF DisconnectSubscriber
  <1>25. CASE BeginDequeue
    BY <1>0, <1>25, GotoThreads DEF BeginDequeue
  <1> HIDE DEF Kept
  <1> QED
    BY Steps, <1>1, <1>2, <1>3, <1>4, <1>5, <1>6, <1>7, <1>8, <1>9, <1>10, <1>11, <1>12,
       <1>13, <1>14, <1>15, <1>16, <1>17, <1>18, <1>19, <1>20, <1>21, <1>22, <1>23, <1>24,
       <1>25

LEMMA LimitNext ==
  ASSUME TypeOK, ThreadsKnowTheirs, IsFiniteSet(connections), OpenAreKept, Limit, [Next]_vars
  PROVE  Limit'
  <1> SUFFICES ASSUME MaximumAllowedConnections # -1
               PROVE  Cardinality({c \in Client : Open(c)}') <= MaximumAllowedConnections
    BY DEF Limit
  <1> DEFINE opened == {c \in Client : Open(c)}
  <1>1. /\ opened \subseteq connections /\ IsFiniteSet(opened)
        /\ Cardinality(opened) \in Nat /\ Cardinality(connections) \in Nat
        /\ Cardinality(opened) <= Cardinality(connections)
        /\ Cardinality(opened) <= MaximumAllowedConnections
        /\ MaximumAllowedConnections \in Nat
    <2>1. opened \subseteq connections
      BY DEF OpenAreKept
    <2> QED
      BY <2>1, FS_Subset, FS_CardinalityType, LimitAssumption DEF Limit
  <1>2. CASE opened' \subseteq opened
    BY <1>1, <1>2, FS_Subset, FS_CardinalityType
  <1>3. ASSUME NEW c \in Client, AcceptConnection(c)
        PROVE  Cardinality(opened') <= MaximumAllowedConnections
    <2>1. \A d \in Client \ {c} : stopped'[d] = stopped[d] /\ accepted'[d] = accepted[d]
      BY <1>3 DEF AcceptConnection, connection, TypeOK
    <2>2. accepted'[c] = HasRoom
      BY <1>3 DEF AcceptConnection, TypeOK
    <2>3. CASE HasRoom
      <3>1. opened' \subseteq opened \cup {c}
        BY <2>1 DEF Open
      <3>2. IsFiniteSet(opened \cup {c}) /\ Cardinality(opened \cup {c}) <= Cardinality(opened) + 1
        BY <1>1, FS_AddElement
      <3>3. Cardinality(connections) < MaximumAllowedConnections
        BY <2>3, <1>1 DEF HasRoom
      <3> QED
        BY <1>1, <3>1, <3>2, <3>3, FS_Subset, FS_CardinalityType
    <2>4. CASE ~HasRoom
      <3>1. opened' \subseteq opened
        BY <2>1, <2>2, <2>4 DEF Open
      <3> QED
        BY <1>2, <3>1
    <2> QED
      BY <2>3, <2>4
  <1>4. CASE /\ connections' \subseteq connections /\ accepted' = accepted
             /\ \A c \in Client : stopped[c] => stopped'[c]
    <2>1. opened' \subseteq opened
      BY <1>4 DEF Open
    <2> QED
      BY <1>2, <2>1
  <1> QED
    BY <1>3, <1>4, ConnectionSteps

-----------------------------------------------------------------------------
(* The queue of callbacks.                                                 *)

LEMMA QueuedFinite ==
  ASSUME TypeOK, NEW c \in Client
  PROVE  /\ IsFiniteSet({i \in 1 .. Len(callbackQueue) : callbackQueue[i].client = c})
         /\ Queued(c) \in Nat
  <1>1. Len(callbackQueue) \in Nat
    BY LenProperties DEF TypeOK
  <1>2. IsFiniteSet(1 .. Len(callbackQueue))
    BY <1>1, FS_Interval
  <1> QED
    BY <1>2, FS_Subset, FS_CardinalityType DEF Queued

(* An event more counts once for its client.                               *)
LEMMA QueuedAppend ==
  ASSUME TypeOK, NEW item \in Event, callbackQueue' = Append(callbackQueue, item),
         NEW c \in Client
  PROVE  Queued(c)' <= Queued(c) + (IF item.client = c THEN 1 ELSE 0)
  <1> DEFINE old == {i \in 1 .. Len(callbackQueue) : callbackQueue[i].client = c}
  <1>1. callbackQueue \in Seq(Event)
    BY DEF TypeOK, Event
  <1>2. /\ Len(callbackQueue') = Len(callbackQueue) + 1 /\ Len(callbackQueue) \in Nat
        /\ \A i \in 1 .. Len(callbackQueue) : callbackQueue'[i] = callbackQueue[i]
        /\ callbackQueue'[Len(callbackQueue) + 1] = item
    BY <1>1, SentItems
  <1>3. IsFiniteSet(old) /\ Queued(c) = Cardinality(old) /\ Queued(c) \in Nat
    BY QueuedFinite, FS_CardinalityType DEF Queued
  <1>4. Queued(c)' = Cardinality(old')
    BY DEF Queued
  <1>5. CASE item.client = c
    <2>1. old' \subseteq old \cup {Len(callbackQueue) + 1}
      BY <1>2
    <2> HIDE DEF old
    <2>2. /\ IsFiniteSet(old \cup {Len(callbackQueue) + 1})
          /\ Cardinality(old \cup {Len(callbackQueue) + 1}) <= Queued(c) + 1
      <3> DEFINE last == Len(callbackQueue) + 1
      <3> HIDE DEF last
      <3>1. /\ IsFiniteSet(old \cup {last})
            /\ Cardinality(old \cup {last}) =
                 IF last \in old THEN Cardinality(old) ELSE Cardinality(old) + 1
        BY <1>3, FS_AddElement
      <3>2. Cardinality(old \cup {last}) <= Queued(c) + 1
        BY <1>3, <3>1
      <3> QED
        BY <3>1, <3>2 DEF last
    <2>3. IsFiniteSet(old') /\ Cardinality(old') <= Cardinality(old \cup {Len(callbackQueue) + 1})
      BY <2>1, <2>2, FS_Subset
    <2> QED
      BY <1>3, <1>4, <1>5, <2>2, <2>3, FS_CardinalityType
  <1>6. CASE item.client # c
    <2>1. old' \subseteq old
      BY <1>2, <1>6
    <2> HIDE DEF old
    <2> QED
      BY <1>3, <1>4, <1>6, <2>1, FS_Subset
  <1> QED
    BY <1>5, <1>6

(* An event less counts once less.                                         *)
LEMMA QueuedTail ==
  ASSUME TypeOK, callbackQueue # <<>>, callbackQueue' = Tail(callbackQueue),
         NEW c \in Client
  PROVE  Queued(c)' <= Queued(c) - (IF Head(callbackQueue).client = c THEN 1 ELSE 0)
  <1> DEFINE old == {i \in 1 .. Len(callbackQueue) : callbackQueue[i].client = c}
             rest == old \ {1}
             shift == [i \in old' |-> i + 1]
  <1>1. callbackQueue \in Seq(Event)
    BY DEF TypeOK, Event
  <1>2. /\ Head(callbackQueue) = callbackQueue[1] /\ Len(callbackQueue) \in Nat \ {0}
        /\ Len(callbackQueue') = Len(callbackQueue) - 1
        /\ \A i \in 1 .. Len(callbackQueue') :
             i + 1 \in 1 .. Len(callbackQueue) /\ callbackQueue'[i] = callbackQueue[i + 1]
    BY <1>1, ReceivedItems
  <1>3. IsFiniteSet(old) /\ Queued(c) = Cardinality(old) /\ Queued(c) \in Nat
    BY QueuedFinite, FS_CardinalityType DEF Queued
  <1>4. Queued(c)' = Cardinality(old')
    BY DEF Queued
  <1>5. IsFiniteSet(rest)
    BY <1>3, FS_RemoveElement
  <1>6. Cardinality(rest) = Queued(c) - (IF Head(callbackQueue).client = c THEN 1 ELSE 0)
    <2>1. 1 \in old <=> Head(callbackQueue).client = c
      BY <1>2
    <2> HIDE DEF old
    <2>2. Cardinality(old \ {1}) = IF 1 \in old THEN Cardinality(old) - 1 ELSE Cardinality(old)
      BY <1>3, FS_RemoveElement
    <2> QED
      BY <1>3, <2>1, <2>2
  <1>7. shift \in Injection(old', rest)
    <2>1. old' \subseteq Nat \ {0} /\ \A i \in old' : i + 1 \in rest
      BY <1>2
    <2>2. shift \in [old' -> rest] /\ \A i, j \in old' : shift[i] = shift[j] => i = j
      BY <2>1
    <2> HIDE DEF shift, rest, old
    <2> QED
      BY <2>2, Fun_IsInj
  <1>8. Cardinality(old') <= Cardinality(rest)
    <2> HIDE DEF shift, rest, old
    <2> QED
      BY <1>5, <1>7, FS_Injection
  <1> QED
    BY <1>4, <1>6, <1>8

(* The steps that touch the queue, the references or a refused connection. *)
LEMMA QueueSteps ==
  ASSUME TypeOK, ThreadsKnowTheirs, [Next]_vars
  PROVE  \/ /\ UNCHANGED <<callbackQueue, references>>
            /\ \A c \in Client : pc'[c] = "delay" => pc[c] = "delay"
         \/ ResetQueue \/ ExecuteCallback
         \/ \E t \in Thread : ConnectionTerminated(t)
         \/ \E c \in Client : AcceptConnection(c) \/ StopRefused(c)
  <1>0. ThreadType
    BY DEF TypeOK, ThreadType
  <1> USE ThreadNames
  <1> USE DEF flags, acceptor, queue, connection, threads, program
  <1> DEFINE Same == /\ UNCHANGED <<callbackQueue, references>>
                     /\ \A c \in Client : pc'[c] = "delay" => pc[c] = "delay"
  <1>1. CASE UNCHANGED vars
    BY <1>1 DEF vars
  <1>2. CASE AcceptFails \/ FinishShutDown \/ Stop
    BY <1>2 DEF AcceptFails, FinishShutDown, Stop
  <1>3. CASE \/ RunReturns \/ EndCallbacks \/ BeginDequeue \/ ClearConnections \/ StartThrows
             \/ CallStart
    BY <1>0, <1>3, GotoThreads
       DEF RunReturns, EndCallbacks, BeginDequeue, ClearConnections, StartThrows, CallStart
  <1>4. CASE CloseAcceptor
    <2>1. Goto("clients", "next", NoClient)
      BY <1>4 DEF CloseAcceptor
    <2> QED
      BY <1>0, <1>4, <2>1, GotoThreads DEF CloseAcceptor
  <1>5. CASE Start
    BY <1>0, <1>5 DEF Start, ThreadType
  <1>6. ASSUME NEW t \in Thread, Mark(t) PROVE Same
    <2>1. Goto(t, "terminate", arg[t])
      BY <1>6 DEF Mark
    <2> QED
      BY <1>0, <1>6, <2>1, GotoThreads DEF Mark
  <1>7. ASSUME NEW t \in Thread, Erase(t) PROVE Same
    BY <1>0, <1>7, GotoThreads DEF Erase
  <1>8. ASSUME NEW c \in Client, Accept(c) \/ ReadAborted(c) \/ ReadRefused(c) PROVE Same
    BY <1>0, <1>8, GotoThreads DEF Accept, ReadAborted, ReadRefused
  <1>9. ASSUME NEW c \in Client, ReadFails(c) \/ StopNext(c) \/ DisconnectSubscriber(c)
        PROVE  Same
    BY <1>0, <1>9, StopConnectionThreads DEF ReadFails, StopNext, DisconnectSubscriber
  <1> QED
    BY Steps, <1>1, <1>2, <1>3, <1>4, <1>5, <1>6, <1>7, <1>8, <1>9

LEMMA DispatchedIsAliveNext ==
  ASSUME TypeOK, ThreadsKnowTheirs, FreshAreUnknown, DispatchedIsAlive, [Next]_vars
  PROVE  DispatchedIsAlive'
  <1> SUFFICES ASSUME NEW d \in Client PROVE references'[d] >= Queued(d)' + Delayed(d)'
    BY DEF DispatchedIsAlive
  <1>0. ThreadType /\ callbackQueue \in Seq(Event)
    BY DEF TypeOK, ThreadType, Event
  <1>1. references[d] >= Queued(d) + Delayed(d) /\ references \in [Client -> Nat]
    BY DEF DispatchedIsAlive, TypeOK
  <1>2. /\ Queued(d) \in Nat /\ Queued(d)' \in Nat
        /\ Delayed(d) \in 0 .. 1 /\ Delayed(d)' \in 0 .. 1
    <2>1. TypeOK'
      BY TypeNext
    <2>2. Len(callbackQueue') \in Nat
      BY <2>1, LenProperties DEF TypeOK
    <2>3. IsFiniteSet({i \in 1 .. Len(callbackQueue') : callbackQueue'[i].client = d})
      <3>1. IsFiniteSet(1 .. Len(callbackQueue'))
        BY <2>2, FS_Interval
      <3> QED
        BY <3>1, FS_Subset
    <2>4. Queued(d)' \in Nat
      BY <2>3, FS_CardinalityType DEF Queued
    <2>5. Queued(d) \in Nat
      BY QueuedFinite
    <2>6. Delayed(d) \in 0 .. 1 /\ Delayed(d)' \in 0 .. 1
      BY DEF Delayed
    <2> QED
      BY <2>4, <2>5, <2>6
  <1> USE ThreadNames
  <1>3. CASE /\ UNCHANGED <<callbackQueue, references>>
             /\ \A c \in Client : pc'[c] = "delay" => pc[c] = "delay"
    BY <1>1, <1>2, <1>3 DEF Delayed, Queued
  <1>4. CASE ResetQueue
    <2>1. Len(callbackQueue') = 0 /\ references' = references /\ pc' = pc
      BY <1>4 DEF ResetQueue, threads
    <2>2. Queued(d)' = 0
      <3>1. {i \in 1 .. Len(callbackQueue') : callbackQueue'[i].client = d} = {}
        BY <2>1
      <3> QED
        BY <3>1, FS_EmptySet DEF Queued
    <2> QED
      BY <1>1, <1>2, <2>1, <2>2 DEF Delayed
  <1>5. CASE ExecuteCallback
    <2>1. /\ Head(callbackQueue).client \in Client /\ callbackQueue # <<>>
          /\ pc'[d] = pc[d]
      BY <1>5, ExecuteCallbackThreads
    <2>2. pc'[d] = pc[d]
      BY <2>1
    <2>3. Queued(d)' <= Queued(d) - (IF Head(callbackQueue).client = d THEN 1 ELSE 0)
      BY <1>5, <2>1, QueuedTail DEF ExecuteCallback
    <2>4. CASE Head(callbackQueue).client = d
      <3>1. references'[d] = IF references[d] > 0 THEN references[d] - 1 ELSE 0
        BY <1>1, <1>5, <2>4 DEF ExecuteCallback, ReleaseDispatchReference
      <3>2. Queued(d)' <= Queued(d) - 1
        BY <2>3, <2>4
      <3> QED
        BY <1>1, <1>2, <2>2, <3>1, <3>2 DEF Delayed
    <2>5. CASE Head(callbackQueue).client # d
      <3>1. references'[d] = references[d]
        BY <1>1, <1>5, <2>5 DEF ExecuteCallback, ReleaseDispatchReference
      <3>2. Queued(d)' <= Queued(d)
        BY <1>2, <2>3, <2>5
      <3> QED
        BY <1>1, <1>2, <2>2, <3>1, <3>2 DEF Delayed
    <2> QED
      BY <2>4, <2>5
  <1>6. ASSUME NEW t \in Thread, ConnectionTerminated(t)
        PROVE  references'[d] >= Queued(d)' + Delayed(d)'
    <2> DEFINE item == [event |-> "disconnected", client |-> arg[t]]
    <2>1. item \in Event /\ arg[t] \in Client /\ callbackQueue' = Append(callbackQueue, item)
      BY <1>6 DEF Event, ConnectionTerminated, ThreadsKnowTheirs, Dispatch
    <2>2. Queued(d)' <= Queued(d) + (IF arg[t] = d THEN 1 ELSE 0)
      BY <2>1, QueuedAppend
    <2>3. references'[d] = references[d] + (IF arg[t] = d THEN 1 ELSE 0)
      BY <1>1, <1>6, <2>1 DEF ConnectionTerminated, AddDispatchReference
    <2>4. pc'[d] = "delay" => pc[d] = "delay"
      BY <1>0, <1>6, GotoThreads, AfterStopLabels DEF ConnectionTerminated
    <2> QED
      BY <1>1, <1>2, <2>2, <2>3, <2>4 DEF Delayed
  <1>7. ASSUME NEW c \in Client, AcceptConnection(c)
        PROVE  references'[d] >= Queued(d)' + Delayed(d)'
    <2> DEFINE item == [event |-> "connected", client |-> c]
    <2>1. item \in Event
      BY DEF Event
    <2>2. references'[d] = references[d] + (IF c = d THEN 1 ELSE 0)
      BY <1>1, <1>7 DEF AcceptConnection, AddDispatchReference
    <2>3. pc[c] = "ended"
      BY <1>7 DEF AcceptConnection, FreshAreUnknown, Fresh, Unknown
    <2>4. CASE HasRoom
      <3>1. Queued(d)' <= Queued(d) + (IF c = d THEN 1 ELSE 0)
        BY <1>7, <2>1, <2>4, QueuedAppend DEF AcceptConnection, Dispatch
      <3>2. pc'[d] = pc[d]
        BY <1>0, <1>7, <2>4, GotoThreads DEF AcceptConnection
      <3> QED
        BY <1>1, <1>2, <2>2, <3>1, <3>2 DEF Delayed
    <2>5. CASE ~HasRoom
      <3>1. Queued(d)' = Queued(d)
        BY <1>7, <2>5 DEF AcceptConnection, Queued
      <3>2. pc'[d] = IF c = d THEN "delay" ELSE pc[d]
        BY <1>0, <1>7, <2>5 DEF AcceptConnection, ThreadType
      <3> QED
        BY <1>1, <1>2, <2>2, <2>3, <3>1, <3>2 DEF Delayed
    <2> QED
      BY <2>4, <2>5
  <1>8. ASSUME NEW c \in Client, StopRefused(c)
        PROVE  references'[d] >= Queued(d)' + Delayed(d)'
    <2>1. Queued(d)' = Queued(d)
      BY <1>8 DEF StopRefused, queue, Queued
    <2>2. /\ pc[c] = "delay" /\ pc'[c] # "delay"
          /\ d # c => pc'[d] = pc[d]
      BY <1>0, <1>8, StopConnectionThreads DEF StopRefused
    <2>3. references'[d] =
            IF c = d THEN (IF references[d] > 0 THEN references[d] - 1 ELSE 0) ELSE references[d]
      BY <1>1, <1>8 DEF StopRefused, ReleaseDispatchReference
    <2> QED
      BY <1>1, <1>2, <2>1, <2>2, <2>3 DEF Delayed
  <1> QED
    BY <1>3, <1>4, <1>5, <1>6, <1>7, <1>8, QueueSteps

-----------------------------------------------------------------------------
(* The end of ShutDown.                                                    *)

LEMMA QuietInit == Init => Quiet
  BY DEF Init, Quiet, Joined, Thread

LEMMA QuietNext == TypeOK /\ ThreadsKnowTheirs /\ Quiet /\ [Next]_vars => Quiet'
  <1> SUFFICES ASSUME TypeOK, ThreadsKnowTheirs, Quiet, [Next]_vars PROVE Quiet'
    OBVIOUS
  <1>0. ThreadType
    BY DEF TypeOK, ThreadType
  <1> USE ThreadNames
  <1> USE DEF Quiet, Joined, flags, acceptor, queue, connection, threads, program
  <1>1. CASE UNCHANGED vars
    BY <1>1 DEF vars
  <1>2. CASE AcceptFails
    BY <1>2 DEF AcceptFails
  <1>3. CASE RunReturns
    BY <1>0, <1>3, GotoThreads DEF RunReturns
  <1>4. CASE EndCallbacks
    BY <1>0, <1>4, GotoThreads DEF EndCallbacks
  <1>5. CASE ExecuteCallback
    BY <1>5, ExecuteCallbackThreads DEF ExecuteCallback
  <1>6. CASE ClearConnections
    BY <1>0, <1>6, GotoThreads DEF ClearConnections
  <1>7. CASE CloseAcceptor
    <2>1. Goto("clients", "next", NoClient)
      BY <1>7 DEF CloseAcceptor
    <2> QED
      BY <1>0, <1>7, <2>1, GotoThreads DEF CloseAcceptor
  <1>8. CASE ResetQueue
    BY <1>8 DEF ResetQueue
  <1>9. CASE FinishShutDown
    BY <1>9 DEF FinishShutDown
  <1>10. CASE StartThrows
    BY <1>0, <1>10, GotoThreads DEF StartThrows
  <1>11. CASE Start
    BY <1>0, <1>11 DEF Start, ThreadType
  <1>12. CASE CallStart
    BY <1>0, <1>12, GotoThreads DEF CallStart
  <1>13. CASE Stop
    BY <1>13 DEF Stop
  <1>14. ASSUME NEW t \in Thread, Mark(t) PROVE Quiet'
    BY <1>0, <1>14, GotoThreads DEF Mark
  <1>15. ASSUME NEW t \in Thread, ConnectionTerminated(t) PROVE Quiet'
    <2>1. /\ pc[t] = "terminate" /\ t = "io" => pc'[t] = "idle"
          /\ \A u \in Thread \ {t} : pc'[u] = pc[u]
      BY <1>0, <1>15, GotoThreads DEF ConnectionTerminated, AfterStop
    <2> QED
      BY <1>15, <2>1 DEF ConnectionTerminated
  <1>16. ASSUME NEW t \in Thread, Erase(t) PROVE Quiet'
    BY <1>0, <1>16, GotoThreads DEF Erase
  <1>17. ASSUME NEW c \in Client, Accept(c) PROVE Quiet'
    BY <1>0, <1>17, GotoThreads DEF Accept
  <1>18. ASSUME NEW c \in Client, AcceptConnection(c) PROVE Quiet'
    <2>1. /\ pc["io"] = "admit" /\ pc'["io"] = "idle"
          /\ \A u \in Thread \ {"io", c} : pc'[u] = pc[u]
      <3>1. CASE HasRoom
        BY <1>0, <1>18, <3>1, GotoThreads DEF AcceptConnection
      <3>2. CASE ~HasRoom
        BY <1>0, <1>18, <3>2 DEF AcceptConnection, ThreadType
      <3> QED
        BY <3>1, <3>2 DEF AcceptConnection
    <2> QED
      BY <1>18, <2>1 DEF AcceptConnection
  <1>19. ASSUME NEW c \in Client, ReadAborted(c) PROVE Quiet'
    BY <1>19 DEF ReadAborted
  <1>20. ASSUME NEW c \in Client, ReadRefused(c) PROVE Quiet'
    BY <1>20 DEF ReadRefused
  <1>21. ASSUME NEW c \in Client, ReadFails(c) PROVE Quiet'
    <2>1. pc'["io"] \in {"mark", "idle"} /\ \A u \in Thread \ {"io"} : pc'[u] = pc[u]
      BY <1>0, <1>21, GotoThreads DEF ReadFails, StopConnection, AfterStop
    <2> QED
      BY <1>21, <2>1 DEF ReadFails
  <1>22. ASSUME NEW c \in Client, StopNext(c) PROVE Quiet'
    BY <1>0, <1>22, StopConnectionThreads DEF StopNext
  <1>23. ASSUME NEW c \in Client, StopRefused(c) PROVE Quiet'
    BY <1>0, <1>23, StopConnectionThreads DEF StopRefused
  <1>24. ASSUME NEW c \in Client, DisconnectSubscriber(c) PROVE Quiet'
    BY <1>0, <1>24, StopConnectionThreads DEF DisconnectSubscriber
  <1>25. CASE BeginDequeue
    BY <1>0, <1>25, GotoThreads DEF BeginDequeue
  <1> HIDE DEF Quiet
  <1> QED
    BY Steps, <1>1, <1>2, <1>3, <1>4, <1>5, <1>6, <1>7, <1>8, <1>9, <1>10, <1>11, <1>12,
       <1>13, <1>14, <1>15, <1>16, <1>17, <1>18, <1>19, <1>20, <1>21, <1>22, <1>23, <1>24,
       <1>25

-----------------------------------------------------------------------------
(* What the program knows.                                                 *)

(* Nothing that is in the set, or whose end is known, is forgotten.        *)
LEMMA KnownSteps ==
  ASSUME TypeOK, ThreadsKnowTheirs, RemoversKnow, [Next]_vars
  PROVE  /\ connections \cup endKnown \subseteq connections' \cup endKnown'
         /\ endKnown \subseteq endKnown'
  <1> USE DEF flags, acceptor, queue, connection, threads, program
  <1>1. CASE UNCHANGED vars
    BY <1>1 DEF vars
  <1>2. CASE \/ AcceptFails \/ RunReturns \/ EndCallbacks \/ BeginDequeue
             \/ ExecuteCallback \/ CloseAcceptor \/ ResetQueue \/ FinishShutDown
             \/ StartThrows \/ Start \/ CallStart \/ Stop
    BY <1>2 DEF AcceptFails, RunReturns, EndCallbacks, BeginDequeue, ExecuteCallback,
       CloseAcceptor, ResetQueue, FinishShutDown, StartThrows, Start, CallStart, Stop
  <1>3. CASE ClearConnections
    <2>1. \A c \in connections : c \in endKnown
      BY <1>3 DEF ClearConnections, RemoversKnow, LockFree
    <2> QED
      BY <1>3, <2>1 DEF ClearConnections
  <1>4. ASSUME NEW t \in Thread, Mark(t) \/ ConnectionTerminated(t)
        PROVE  connections' = connections /\ endKnown \subseteq endKnown'
    BY <1>4 DEF Mark, ConnectionTerminated, AfterTerminated
  <1>5. ASSUME NEW t \in Thread, Erase(t)
        PROVE  /\ connections \cup endKnown \subseteq connections' \cup endKnown'
               /\ endKnown \subseteq endKnown'
    BY <1>5 DEF Erase, RemoversKnow
  <1>6. ASSUME NEW c \in Client,
               \/ Accept(c) \/ AcceptConnection(c) \/ ReadAborted(c) \/ ReadFails(c)
               \/ ReadRefused(c) \/ StopNext(c) \/ StopRefused(c) \/ DisconnectSubscriber(c)
        PROVE  connections \subseteq connections' /\ endKnown \subseteq endKnown'
    BY <1>6 DEF Accept, AcceptConnection, ReadAborted, ReadFails, ReadRefused, StopNext,
       StopRefused, DisconnectSubscriber
  <1> QED
    BY Steps, <1>1, <1>2, <1>3, <1>4, <1>5, <1>6

(* A new trace is that of a connection in the set.                         *)
LEMMA MetSteps ==
  ASSUME TypeOK, ThreadsKnowTheirs, [Next]_vars, NEW d \in Client, Met(d)'
  PROVE  Met(d) \/ d \in connections \/ d \in connections'
  <1>0. ThreadType /\ callbackQueue \in Seq(Event)
    BY DEF TypeOK, ThreadType, Event
  <1> USE ThreadNames
  <1> USE DEF Met, flags, acceptor, queue, connection, threads, program
  <1>1. CASE UNCHANGED vars
    BY <1>1 DEF vars
  <1>2. CASE AcceptFails \/ FinishShutDown \/ Stop
    BY <1>2 DEF AcceptFails, FinishShutDown, Stop
  <1>3. CASE RunReturns \/ EndCallbacks \/ BeginDequeue \/ StartThrows \/ CallStart
    BY <1>0, <1>3, GotoThreads DEF RunReturns, EndCallbacks, BeginDequeue, StartThrows, CallStart
  <1>4. CASE ClearConnections \/ CloseAcceptor
    <2>1. /\ pc'["clients"] \in {"next", "ended"}
          /\ \A u \in Thread \ {"clients"} : pc'[u] = pc[u] /\ arg'[u] = arg[u]
      BY <1>0, <1>4, GotoThreads DEF ClearConnections, CloseAcceptor
    <2> QED
      BY <1>4, <2>1 DEF ClearConnections, CloseAcceptor
  <1>5. CASE Start
    BY <1>0, <1>5 DEF Start, ThreadType
  <1>6. CASE ResetQueue
    <2>1. Len(callbackQueue') = 0
      BY <1>6 DEF ResetQueue
    <2> QED
      BY <1>6, <2>1 DEF ResetQueue
  <1>7. CASE ExecuteCallback
    <2> DEFINE item == Head(callbackQueue)
    <2>1. /\ item = callbackQueue[1] /\ 1 \in 1 .. Len(callbackQueue)
          /\ \A i \in 1 .. Len(Tail(callbackQueue)) :
               i + 1 \in 1 .. Len(callbackQueue) /\ Tail(callbackQueue)[i] = callbackQueue[i + 1]
      BY <1>7, ExecuteCallbackThreads, ReceivedItems
    <2>2. item.client = d => Met(d)
      BY <2>1
    <2>3. /\ reading' = reading /\ callbackQueue' = Tail(callbackQueue)
          /\ announced' \subseteq announced \cup {item.client}
      BY <1>7 DEF ExecuteCallback
    <2>4. /\ \A u \in Thread \ {"callback"} : pc'[u] = pc[u] /\ arg'[u] = arg[u]
          /\ pc'["callback"] \in {"mark", "erase"} => arg'["callback"] = item.client
          /\ pc'["callback"] # "terminate"
      BY <1>7, ExecuteCallbackThreads
    <2>5. CASE item.client = d
      BY <2>2, <2>5
    <2>6. CASE item.client # d
      <3>1. CASE \E i \in 1 .. Len(callbackQueue') : callbackQueue'[i].client = d
        BY <2>1, <2>3, <3>1
      <3>2. CASE \E t \in Thread : pc'[t] \in {"mark", "terminate", "erase"} /\ arg'[t] = d
        BY <2>4, <2>6, <3>2
      <3> QED
        BY <2>3, <2>4, <2>6, <3>1, <3>2
    <2> QED
      BY <2>5, <2>6
  <1>8. ASSUME NEW t \in Thread, Mark(t) PROVE Met(d)
    <2>1. /\ pc[t] = "mark" /\ arg'[t] = arg[t] /\ pc'[t] = "terminate"
          /\ \A u \in Thread \ {t} : pc'[u] = pc[u] /\ arg'[u] = arg[u]
      BY <1>0, <1>8, GotoThreads DEF Mark
    <2> QED
      BY <1>8, <2>1 DEF Mark
  <1>9. ASSUME NEW t \in Thread, ConnectionTerminated(t) PROVE Met(d)
    <2> DEFINE item == [event |-> "disconnected", client |-> arg[t]]
    <2>1. /\ pc[t] = "terminate" /\ pc'[t] \in {"idle", "erase", "next", "ended"}
          /\ pc'[t] = "erase" => arg'[t] = arg[t]
          /\ \A u \in Thread \ {t} : pc'[u] = pc[u] /\ arg'[u] = arg[u]
      BY <1>0, <1>9, GotoThreads, AfterStopLabels DEF ConnectionTerminated
    <2>2. /\ Len(callbackQueue') = Len(callbackQueue) + 1 /\ Len(callbackQueue) \in Nat
          /\ \A i \in 1 .. Len(callbackQueue) : callbackQueue'[i] = callbackQueue[i]
          /\ callbackQueue'[Len(callbackQueue) + 1].client = arg[t]
      <3>1. item \in Event /\ callbackQueue' = Append(callbackQueue, item)
        BY <1>9 DEF Event, ConnectionTerminated, ThreadsKnowTheirs, Dispatch
      <3> QED
        BY <1>0, <3>1, SentItems
    <2>3. CASE \E i \in 1 .. Len(callbackQueue') : callbackQueue'[i].client = d
      <3>1. PICK i \in 1 .. Len(callbackQueue') : callbackQueue'[i].client = d
        BY <2>3
      <3>2. CASE i = Len(callbackQueue) + 1
        BY <2>1, <2>2, <3>1, <3>2
      <3>3. CASE i # Len(callbackQueue) + 1
        BY <2>2, <3>1, <3>3
      <3> QED
        BY <3>2, <3>3
    <2> QED
      BY <1>9, <2>1, <2>3 DEF ConnectionTerminated
  <1>10. ASSUME NEW t \in Thread, Erase(t) PROVE Met(d)
    <2>1. /\ pc'[t] = "idle"
          /\ \A u \in Thread \ {t} : pc'[u] = pc[u] /\ arg'[u] = arg[u]
      BY <1>0, <1>10, GotoThreads DEF Erase
    <2> QED
      BY <1>10, <2>1 DEF Erase
  <1>11. ASSUME NEW c \in Client, Accept(c) \/ ReadAborted(c) \/ ReadRefused(c) PROVE Met(d)
    <2>1. CASE Accept(c)
      <3>1. /\ \A u \in Thread \ {"io"} : pc'[u] = pc[u] /\ arg'[u] = arg[u]
            /\ pc'["io"] \in {pc["io"], "admit"}
            /\ pc["io"] = "idle"
        BY <1>0, <2>1, GotoThreads DEF Accept
      <3> QED
        BY <2>1, <3>1 DEF Accept
    <2>2. CASE ReadAborted(c) \/ ReadRefused(c)
      BY <2>2 DEF ReadAborted, ReadRefused, TypeOK
    <2> QED
      BY <1>11, <2>1, <2>2
  <1>12. ASSUME NEW c \in Client, AcceptConnection(c) PROVE Met(d) \/ d \in connections'
    <2>1. c \in connections'
      BY <1>12 DEF AcceptConnection
    <2>2. CASE d # c
      <3>1. /\ pc'["io"] = "idle" /\ pc'[d] = pc[d]
            /\ \A u \in Thread \ {"io"} :
                 pc'[u] \in {"mark", "terminate", "erase"} => pc'[u] = pc[u] /\ arg'[u] = arg[u]
        <4>1. CASE HasRoom
          BY <1>0, <1>12, <4>1, GotoThreads DEF AcceptConnection
        <4>2. CASE ~HasRoom
          BY <1>0, <1>12, <2>2, <4>2 DEF AcceptConnection, ThreadType
        <4> QED
          BY <4>1, <4>2
      <3>2. \A i \in 1 .. Len(callbackQueue') :
              callbackQueue'[i].client = d =>
                \E j \in 1 .. Len(callbackQueue) : callbackQueue[j].client = d
        <4> DEFINE item == [event |-> "connected", client |-> c]
        <4>1. item \in Event
          BY DEF Event
        <4>2. callbackQueue' \in {callbackQueue, Append(callbackQueue, item)}
          BY <1>12 DEF AcceptConnection, Dispatch
        <4>3. CASE callbackQueue' = Append(callbackQueue, item)
          BY <1>0, <2>2, <4>1, <4>3, SentItems
        <4> QED
          BY <4>2, <4>3
      <3>3. reading'[d] = reading[d] /\ announced' = announced
        BY <1>12, <2>2 DEF AcceptConnection, TypeOK
      <3> QED
        BY <3>1, <3>2, <3>3
    <2> QED
      BY <2>1, <2>2
  <1>13. ASSUME NEW c \in Client, StopConnectionStep(c)
         PROVE  Met(d) \/ d \in connections
    <2>1. d = c => Met(d) \/ d \in connections
      BY <1>13 DEF StopConnectionStep, ReadFails, StopNext, StopRefused, DisconnectSubscriber,
         TypeOK
    <2>2. PICK t \in Thread : StopConnection(t, c)
      BY <1>13 DEF StopConnectionStep, ReadFails, StopNext, StopRefused, DisconnectSubscriber
    <2>3. /\ \A u \in Thread \ {t} : pc'[u] = pc[u] /\ arg'[u] = arg[u]
          /\ pc'[t] \in {"mark", "idle", "erase", "next", "ended"}
          /\ pc'[t] \in {"mark", "erase"} => arg'[t] = c
      BY <1>0, <2>2, StopConnectionThreads
    <2>4. /\ callbackQueue' = callbackQueue /\ announced' = announced
          /\ reading'[d] => reading[d]
      BY <1>13 DEF StopConnectionStep, ReadFails, StopNext, StopRefused, DisconnectSubscriber,
         TypeOK
    <2>5. CASE d # c
      BY <2>3, <2>4, <2>5
    <2> QED
      BY <2>1, <2>5
  <1> HIDE DEF Met
  <1> QED
    BY Steps, <1>1, <1>2, <1>3, <1>4, <1>5, <1>6, <1>7, <1>8, <1>9, <1>10, <1>11, <1>12,
       <1>13 DEF StopConnectionStep

LEMMA MetAreKnownNext ==
  TypeOK /\ ThreadsKnowTheirs /\ RemoversKnow /\ MetAreKnown /\ [Next]_vars => MetAreKnown'
  BY MetSteps, KnownSteps DEF MetAreKnown

LEMMA RemoversKnowNext ==
  TypeOK /\ ThreadsKnowTheirs /\ RemoversKnow /\ [Next]_vars => RemoversKnow'
  <1> SUFFICES ASSUME TypeOK, ThreadsKnowTheirs, RemoversKnow, [Next]_vars
               PROVE  RemoversKnow'
    OBVIOUS
  <1>0. ThreadType
    BY DEF TypeOK, ThreadType
  <1> USE ThreadNames
  <1> USE DEF RemoversKnow, LockFree, flags, acceptor, queue, connection, threads, program
  <1>1. CASE UNCHANGED vars
    BY <1>1 DEF vars
  <1>2. CASE AcceptFails \/ ResetQueue \/ FinishShutDown \/ Stop
    BY <1>2 DEF AcceptFails, ResetQueue, FinishShutDown, Stop
  <1>3. CASE RunReturns \/ EndCallbacks \/ BeginDequeue \/ StartThrows \/ CallStart
    BY <1>0, <1>3, GotoThreads DEF RunReturns, EndCallbacks, BeginDequeue, StartThrows, CallStart
  <1>4. CASE ClearConnections \/ CloseAcceptor
    <2>1. /\ pc'["clients"] \in {"next", "ended"}
          /\ \A u \in Thread \ {"clients"} : pc'[u] = pc[u] /\ arg'[u] = arg[u]
      BY <1>0, <1>4, GotoThreads DEF ClearConnections, CloseAcceptor
    <2> QED
      BY <1>4, <2>1 DEF ClearConnections, CloseAcceptor
  <1>5. CASE Start
    BY <1>0, <1>5 DEF Start, ThreadType
  <1>6. CASE ExecuteCallback
    <2>1. endKnown \subseteq endKnown' /\ connections' = connections /\ toStop' = toStop
      BY <1>6 DEF ExecuteCallback
    <2> QED
      BY <1>6, <2>1, ExecuteCallbackThreads
  <1>7. ASSUME NEW t \in Thread, Mark(t) PROVE RemoversKnow'
    <2>1. /\ pc[t] = "mark" /\ arg'[t] = arg[t] /\ pc'[t] = "terminate"
          /\ \A u \in Thread \ {t} : pc'[u] = pc[u] /\ arg'[u] = arg[u]
      BY <1>0, <1>7, GotoThreads DEF Mark
    <2> QED
      BY <1>7, <2>1 DEF Mark
  <1>8. ASSUME NEW t \in Thread, ConnectionTerminated(t) PROVE RemoversKnow'
    <2>1. /\ pc[t] = "terminate" /\ pc'[t] = AfterStop(t)
          /\ pc'[t] = "erase" => arg'[t] = arg[t]
          /\ \A u \in Thread \ {t} : pc'[u] = pc[u] /\ arg'[u] = arg[u]
      BY <1>0, <1>8, GotoThreads DEF ConnectionTerminated
    <2>2. /\ AfterStop(t) \in {"idle", "erase", "next", "ended"}
          /\ AfterStop(t) = "erase" => t \in {"callback", "user"}
          /\ t = "clients" => AfterStop(t) = "next"
      BY AfterStopLabels DEF AfterStop
    <2>3. /\ endKnown \subseteq endKnown' /\ connections' = connections /\ toStop' = toStop
          /\ t = "clients" => arg[t] \in endKnown'
      BY <1>8 DEF ConnectionTerminated, AfterTerminated
    <2> QED
      BY <2>1, <2>2, <2>3
  <1>9. ASSUME NEW t \in Thread, Erase(t) PROVE RemoversKnow'
    <2>1. /\ pc'[t] = "idle" /\ pc[t] = "erase"
          /\ \A u \in Thread \ {t} : pc'[u] = pc[u] /\ arg'[u] = arg[u]
      BY <1>0, <1>9, GotoThreads DEF Erase
    <2> QED
      BY <1>9, <2>1 DEF Erase
  <1>10. ASSUME NEW c \in Client, Accept(c) PROVE RemoversKnow'
    <2>1. /\ \A u \in Thread \ {"io"} : pc'[u] = pc[u] /\ arg'[u] = arg[u]
          /\ pc'["io"] \in {"idle", "admit"}
      BY <1>0, <1>10, GotoThreads DEF Accept
    <2> QED
      BY <1>10, <2>1 DEF Accept
  <1>11. ASSUME NEW c \in Client, AcceptConnection(c) PROVE RemoversKnow'
    <2>1. /\ pc'["io"] = "idle" /\ pc'[c] \in {pc[c], "delay"}
          /\ \A u \in Thread \ {"io", c} : pc'[u] = pc[u] /\ arg'[u] = arg[u]
          /\ pc'[c] # "delay" => arg'[c] = arg[c]
      <3>1. CASE HasRoom
        BY <1>0, <1>11, <3>1, GotoThreads DEF AcceptConnection
      <3>2. CASE ~HasRoom
        BY <1>0, <1>11, <3>2 DEF AcceptConnection, ThreadType
      <3> QED
        BY <3>1, <3>2
    <2>2. LockFree /\ endKnown' = endKnown
      BY <1>11 DEF AcceptConnection
    <2> QED
      BY <2>1, <2>2
  <1>12. ASSUME NEW c \in Client, ReadAborted(c) \/ ReadRefused(c) PROVE RemoversKnow'
    BY <1>12 DEF ReadAborted, ReadRefused
  <1>13. ASSUME NEW c \in Client, ReadFails(c) \/ StopRefused(c) PROVE RemoversKnow'
    <2>1. PICK t \in Thread \ {"callback", "user", "clients"} : StopConnection(t, c)
      BY <1>13 DEF ReadFails, StopRefused
    <2>2. /\ \A u \in Thread \ {t} : pc'[u] = pc[u] /\ arg'[u] = arg[u]
          /\ pc'[t] \in {"mark", "idle", "ended"}
      BY <1>0, <2>1, GotoThreads DEF StopConnection, AfterStop
    <2> QED
      BY <1>13, <2>2 DEF ReadFails, StopRefused
  <1>14. ASSUME NEW c \in Client, StopNext(c) PROVE RemoversKnow'
    <2>1. /\ \A u \in Thread \ {"clients"} : pc'[u] = pc[u] /\ arg'[u] = arg[u]
          /\ pc'["clients"] \in {"mark", "next"}
          /\ pc'["clients"] = "mark" => arg'["clients"] = c
          /\ pc'["clients"] # "mark" => stopped[c]
      BY <1>0, <1>14, StopConnectionThreads DEF StopNext
    <2> QED
      BY <1>14, <2>1 DEF StopNext
  <1>15. ASSUME NEW c \in Client, DisconnectSubscriber(c) PROVE RemoversKnow'
    <2>1. /\ \A u \in Thread \ {"user"} : pc'[u] = pc[u] /\ arg'[u] = arg[u]
          /\ pc'["user"] \in {"mark", "erase"} /\ arg'["user"] = c
      BY <1>0, <1>15, GotoThreads DEF DisconnectSubscriber, StopConnection, AfterStop
    <2> QED
      BY <1>15, <2>1 DEF DisconnectSubscriber
  <1> HIDE DEF RemoversKnow
  <1> QED
    BY Steps, <1>1, <1>2, <1>3, <1>4, <1>5, <1>6, <1>7, <1>8, <1>9, <1>10, <1>11, <1>12,
       <1>13, <1>14, <1>15

(* A step that neither announces nor dequeues nor ends the iteration.      *)
LEMMA EndsStayKnown ==
  ASSUME EndsAreKnown, endKnown \subseteq endKnown', announced' = announced,
         pc'["callback"] = "dequeue" =>
           pc["callback"] = "dequeue" /\ Head(callbackQueue') = Head(callbackQueue),
         Over' => Over
  PROVE  EndsAreKnown'
  BY DEF EndsAreKnown

LEMMA AppendKeepsHead ==
  ASSUME NEW S, NEW q \in Seq(S), NEW item \in S, q # <<>>
  PROVE  Head(Append(q, item)) = Head(q)
  <1>1. Len(q) \in Nat /\ Len(q) # 0
    BY EmptySeq, LenProperties
  <1>2. Append(q, item) # <<>>
    BY SentItems, EmptySeq
  <1> QED
    BY <1>1, <1>2, SentItems, ReceivedItems

LEMMA EndsAreKnownNext ==
  /\ TypeOK /\ ThreadsKnowTheirs /\ Quiet /\ MetAreKnown /\ RemoversKnow
  /\ EndsAreKnown /\ [Next]_vars
  => EndsAreKnown'
  <1> SUFFICES ASSUME TypeOK, ThreadsKnowTheirs, Quiet, MetAreKnown, RemoversKnow,
                      EndsAreKnown, [Next]_vars
               PROVE  EndsAreKnown'
    OBVIOUS
  <1>0. ThreadType /\ callbackQueue \in Seq(Event)
    BY DEF TypeOK, ThreadType, Event
  <1>k. endKnown \subseteq endKnown'
    BY KnownSteps
  <1>q. pc["callback"] = "dequeue" => callbackQueue # <<>>
    BY DEF ThreadsKnowTheirs
  <1> USE ThreadNames
  <1> USE DEF Over, flags, acceptor, queue, connection, threads, program
  <1>1. CASE UNCHANGED vars
    BY <1>1, <1>k, EndsStayKnown DEF vars
  <1>2. CASE AcceptFails
    BY <1>2, <1>k, EndsStayKnown DEF AcceptFails
  <1>3. CASE RunReturns \/ EndCallbacks \/ StartThrows \/ CallStart
    <2>1. /\ pc'["clients"] = pc["clients"]
          /\ pc'["callback"] \in {pc["callback"], "ended"}
      BY <1>0, <1>3, GotoThreads DEF RunReturns, EndCallbacks, StartThrows, CallStart
    <2>2. UNCHANGED <<announced, callbackQueue, shutdown, started>>
      BY <1>3 DEF RunReturns, EndCallbacks, StartThrows, CallStart
    <2> QED
      BY <1>k, <2>1, <2>2, EndsStayKnown
  <1>4. CASE ClearConnections
    <2>1. \A c \in connections : c \in endKnown
      BY <1>4 DEF ClearConnections, RemoversKnow, LockFree
    <2>2. \A c \in Client : Met(c) => c \in endKnown
      BY <2>1 DEF MetAreKnown
    <2>3. announced \subseteq endKnown
      BY <2>2 DEF Met, TypeOK
    <2>4. pc["callback"] = "dequeue" => Head(callbackQueue).client \in endKnown
      <3> SUFFICES ASSUME pc["callback"] = "dequeue"
                   PROVE  Head(callbackQueue).client \in endKnown
        OBVIOUS
      <3>1. /\ Head(callbackQueue) = callbackQueue[1] /\ 1 \in 1 .. Len(callbackQueue)
            /\ Head(callbackQueue).client \in Client
        BY <1>0, <1>q, ReceivedItems, QueueHead
      <3>2. Met(Head(callbackQueue).client)
        BY <3>1 DEF Met
      <3> QED
        BY <2>2, <3>1, <3>2
    <2>5. pc'["callback"] = pc["callback"]
      BY <1>0, <1>4, GotoThreads DEF ClearConnections
    <2> QED
      BY <1>4, <2>3, <2>4, <2>5 DEF ClearConnections, EndsAreKnown
  <1>5. CASE CloseAcceptor
    <2>1. pc'["clients"] = "next" /\ shutdown' = "joining"
      BY <1>0, <1>5, GotoThreads DEF CloseAcceptor
    <2> QED
      BY <2>1 DEF EndsAreKnown
  <1>6. CASE ResetQueue
    <2>1. pc["callback"] = "ended" /\ pc["clients"] = "ended" /\ pc' = pc
      BY <1>6 DEF ResetQueue, Joined
    <2> QED
      BY <1>6, <1>k, <2>1, EndsStayKnown DEF ResetQueue
  <1>7. CASE FinishShutDown
    <2>1. Over' => Over
      BY <1>7 DEF FinishShutDown, Quiet, Joined
    <2> QED
      BY <1>7, <1>k, <2>1, EndsStayKnown DEF FinishShutDown
  <1>8. CASE Start
    <2>1. pc'["callback"] = "idle" /\ pc'["clients"] = pc["clients"]
      BY <1>0, <1>8 DEF Start, ThreadType
    <2> QED
      BY <1>8, <1>k, <2>1, EndsStayKnown DEF Start
  <1>9. CASE Stop
    BY <1>9 DEF Stop, EndsAreKnown
  <1>10. CASE BeginDequeue
    <2>1. pc'["clients"] = pc["clients"] /\ shutdown' = shutdown /\ started' = started
      BY <1>0, <1>10, GotoThreads DEF BeginDequeue
    <2>2. ~Over
      BY <1>10 DEF BeginDequeue, IsShuttingDown, Quiet, Joined
    <2> QED
      BY <2>1, <2>2 DEF EndsAreKnown
  <1>11. CASE ExecuteCallback
    <2>1. /\ pc["callback"] = "dequeue" /\ pc'["callback"] # "dequeue"
          /\ pc'["clients"] = pc["clients"]
      BY <1>11, ExecuteCallbackThreads
    <2>2. /\ shutdown' = shutdown /\ started' = started
          /\ announced' \subseteq announced \cup {Head(callbackQueue).client}
      BY <1>11 DEF ExecuteCallback
    <2> QED
      BY <1>k, <2>1, <2>2 DEF EndsAreKnown
  <1>12. ASSUME NEW t \in Thread, Mark(t) \/ Erase(t) PROVE EndsAreKnown'
    <2>1. /\ pc'[t] \in {"terminate", "idle"}
          /\ \A u \in Thread \ {t} : pc'[u] = pc[u]
      <3>1. CASE Mark(t)
        BY <1>0, <3>1, GotoThreads DEF Mark
      <3>2. CASE Erase(t)
        BY <1>0, <3>2, GotoThreads DEF Erase
      <3> QED
        BY <1>12, <3>1, <3>2
    <2>2. UNCHANGED <<announced, callbackQueue, shutdown, started>>
      BY <1>12 DEF Mark, Erase
    <2> QED
      BY <1>k, <2>1, <2>2, EndsStayKnown
  <1>13. ASSUME NEW t \in Thread, ConnectionTerminated(t) PROVE EndsAreKnown'
    <2>1. /\ pc'[t] = AfterStop(t)
          /\ \A u \in Thread \ {t} : pc'[u] = pc[u]
      BY <1>0, <1>13, GotoThreads DEF ConnectionTerminated
    <2>2. /\ AfterStop(t) # "dequeue"
          /\ t = "clients" => AfterStop(t) = "next"
      BY AfterStopLabels DEF AfterStop
    <2>3. UNCHANGED <<announced, shutdown, started>>
      BY <1>13 DEF ConnectionTerminated
    <2>4. callbackQueue # <<>> => Head(callbackQueue') = Head(callbackQueue)
      <3> DEFINE item == [event |-> "disconnected", client |-> arg[t]]
      <3>1. item \in Event /\ callbackQueue' = Append(callbackQueue, item)
        BY <1>13 DEF Event, ConnectionTerminated, ThreadsKnowTheirs, Dispatch
      <3> QED
        BY <1>0, <3>1, AppendKeepsHead
    <2> QED
      BY <1>k, <1>q, <2>1, <2>2, <2>3, <2>4, EndsStayKnown
  <1>14. ASSUME NEW c \in Client, Accept(c) PROVE EndsAreKnown'
    <2>1. \A u \in Thread \ {"io"} : pc'[u] = pc[u]
      BY <1>0, <1>14, GotoThreads DEF Accept
    <2> QED
      BY <1>14, <1>k, <2>1, EndsStayKnown DEF Accept
  <1>15. ASSUME NEW c \in Client, AcceptConnection(c) PROVE EndsAreKnown'
    <2>1. \A u \in {"callback", "clients"} : pc'[u] = pc[u]
      <3>1. CASE HasRoom
        BY <1>0, <1>15, <3>1, GotoThreads DEF AcceptConnection
      <3>2. CASE ~HasRoom
        BY <1>0, <1>15, <3>2 DEF AcceptConnection, ThreadType
      <3> QED
        BY <3>1, <3>2
    <2>2. UNCHANGED <<announced, shutdown, started>>
      BY <1>15 DEF AcceptConnection
    <2>3. callbackQueue # <<>> => Head(callbackQueue') = Head(callbackQueue)
      <3> DEFINE item == [event |-> "connected", client |-> c]
      <3>1. item \in Event /\ callbackQueue' \in {callbackQueue, Append(callbackQueue, item)}
        BY <1>15 DEF Event, AcceptConnection, Dispatch
      <3> QED
        BY <1>0, <3>1, AppendKeepsHead
    <2> QED
      BY <1>k, <1>q, <2>1, <2>2, <2>3, EndsStayKnown
  <1>16. ASSUME NEW c \in Client, ReadAborted(c) \/ ReadRefused(c) PROVE EndsAreKnown'
    BY <1>16, <1>k, EndsStayKnown DEF ReadAborted, ReadRefused
  <1>17. ASSUME NEW c \in Client, StopConnectionStep(c) PROVE EndsAreKnown'
    <2>1. PICK t \in Thread \ {"callback"} : StopConnection(t, c)
      BY <1>17 DEF StopConnectionStep, ReadFails, StopNext, StopRefused, DisconnectSubscriber
    <2>2. /\ \A u \in Thread \ {t} : pc'[u] = pc[u]
          /\ t = "clients" => pc'[t] \in {"mark", "next"}
      BY <1>0, <2>1, StopConnectionThreads
    <2>3. UNCHANGED <<announced, callbackQueue, shutdown, started>>
      BY <1>17 DEF StopConnectionStep, ReadFails, StopNext, StopRefused, DisconnectSubscriber
    <2> QED
      BY <1>k, <2>2, <2>3, EndsStayKnown
  <1> HIDE DEF Over
  <1> QED
    BY Steps, <1>1, <1>2, <1>3, <1>4, <1>5, <1>6, <1>7, <1>8, <1>9, <1>10, <1>11, <1>12,
       <1>13, <1>14, <1>15, <1>16, <1>17 DEF StopConnectionStep

LEMMA KnownInit == Init => Known
  <1> SUFFICES ASSUME Init PROVE Known
    OBVIOUS
  <1>1. Len(callbackQueue) = 0
    BY DEF Init
  <1>2. \A t \in Thread : pc[t] \in {"idle", "ended"}
    BY DEF Init
  <1>3. MetAreKnown
    BY <1>1, <1>2, ThreadNames DEF Init, MetAreKnown, Met
  <1>4. RemoversKnow
    BY <1>2, ThreadNames DEF Init, RemoversKnow, LockFree
  <1>5. EndsAreKnown
    BY <1>2, ThreadNames DEF Init, EndsAreKnown
  <1> QED
    BY <1>3, <1>4, <1>5 DEF Known

-----------------------------------------------------------------------------
(* The inductive invariant and what follows from it.                       *)

LEMMA InvInit == Init => Inv
  <1> SUFFICES ASSUME Init PROVE Inv
    OBVIOUS
  <1>1. IsFiniteSet(connections)
    BY FS_EmptySet DEF Init
  <1>2. Limit
    <2>1. {c \in Client : Open(c)} = {}
      BY DEF Init, Open
    <2> QED
      BY <2>1, FS_EmptySet, LimitAssumption DEF Limit
  <1>3. Len(callbackQueue) = 0
    BY DEF Init
  <1>5. DispatchedIsAlive
    <2> SUFFICES ASSUME NEW c \in Client PROVE references[c] >= Queued(c) + Delayed(c)
      BY DEF DispatchedIsAlive
    <2>1. Queued(c) = 0
      <3>1. {i \in 1 .. Len(callbackQueue) : callbackQueue[i].client = c} = {}
        BY <1>3
      <3> QED
        BY <3>1, FS_EmptySet DEF Queued
    <2> QED
      BY <2>1, ThreadNames DEF Init, Delayed
  <1> QED
    BY <1>1, <1>2, <1>5, TypeInit, ThreadsKnowTheirsInit, FreshAreUnknownInit, KeptInit,
       QuietInit, KnownInit DEF Inv

LEMMA InvNext == Inv /\ [Next]_vars => Inv'
  BY TypeNext, FiniteNext, ThreadsKnowTheirsNext, FreshAreUnknownNext, KeptNext, LimitNext,
     DispatchedIsAliveNext, QuietNext, MetAreKnownNext, RemoversKnowNext, EndsAreKnownNext
     DEF Inv, Kept, Known

LEMMA Invariance == Spec => []Inv
  BY InvInit, InvNext, PTL DEF Spec

(* Every variable keeps its type, whatever threads, clients and calls do.  *)
THEOREM TypeCorrect == Spec => []TypeOK
  <1>1. Inv => TypeOK
    BY DEF Inv
  <1> QED
    BY <1>1, Invariance, PTL

(* A pointer in the queue of callbacks, or in the hands of a refused       *)
(* connection's task, points to a connection that is kept alive.           *)
THEOREM DispatchedAreAlive == Spec => []DispatchedIsAlive
  <1>1. Inv => DispatchedIsAlive
    BY DEF Inv
  <1> QED
    BY <1>1, Invariance, PTL

(* No more connections are accepted and open than m_maximumAllowed-        *)
(* Connections allows, through stops, removals and restarts.               *)
THEOREM LimitIsKept == Spec => []AcceptedWithinLimit
  <1>1. Inv => AcceptedWithinLimit
    BY DEF Inv, Limit, AcceptedWithinLimit, Open
  <1> QED
    BY <1>1, Invariance, PTL

(* When the publisher is stopped, every client that was announced to the   *)
(* program has been announced as gone, by its event or by ShutDown, or was *)
(* disconnected by the program: no end is lost with the queue of events.   *)
THEOREM EndsAreAnnounced == Spec => []AnnouncedEndIsKnown
  <1>1. Inv => AnnouncedEndIsKnown
    BY DEF Inv, Known, EndsAreKnown, Over, Quiet, IsStopped, AnnouncedEndIsKnown
  <1> QED
    BY <1>1, Invariance, PTL

(* A stopped publisher has no thread left, calls back no more and has no   *)
(* connection open.                                                        *)
THEOREM StoppedPublisherIsQuiet == Spec => []StoppedIsQuiet
  <1>1. Inv => StoppedIsQuiet
    BY DEF Inv, Quiet, Joined, StoppedIsQuiet, IsStopped
  <1> QED
    BY <1>1, Invariance, PTL
=============================================================================
