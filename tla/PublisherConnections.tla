------------------------ MODULE PublisherConnections ------------------------
(***************************************************************************)
(* The connections of a listening DataPublisher (DataPublisher.cpp, with   *)
(* StartConnection and StopConnection of SubscriberConnection.cpp): they   *)
(* are accepted or refused, read, stopped, announced to the program in its *)
(* callbacks and removed, while the program stops the publisher and starts *)
(* it again.  Threads: the acceptor's ("io", which also completes every    *)
(* read), the callback thread ("callback"), the thread on which ShutDown   *)
(* stops the connections ("clients"), the shutdown thread, the program's   *)
(* own ("user"), and a pool thread per refused connection, named by its    *)
(* client.  Routes, subscriptions and reverse connections are left out:    *)
(* RoutingTables, SignalIndexCacheExchange and TcpWriteQueue have them.    *)
(***************************************************************************)
EXTENDS Integers, FiniteSets, Sequences

CONSTANTS Client,   \* the subscribers: each connects at most once
          MaximumAllowedConnections, \* m_maximumAllowedConnections, -1 for no limit
          MaxCalls, \* bound: calls of the program
          NoClient

ASSUME LimitAssumption == MaximumAllowedConnections \in Nat \cup {-1}
ASSUME CallsAssumption == MaxCalls \in Nat
ASSUME ClientAssumption == NoClient \notin Client

Thread == {"io", "callback", "clients", "user"} \cup Client

ASSUME ThreadAssumption ==
  Client \cap {"io", "callback", "clients", "user"} = {}

VARIABLES
  started, shuttingDown, isStopped, \* m_started, m_shuttingDown, m_stopped
  accepting,     \* an async_accept is under way
  open,          \* m_clientAcceptor is open
  released,      \* m_release of m_callbackQueue
  callbackQueue, \* m_callbackQueue, the events of connections only
  connections,   \* m_subscriberConnections
  references,    \* m_subscriberConnectionDispatchRefs
  arrived,       \* the clients that connected
  accepted,      \* m_connectionAccepted of each connection
  stopped,       \* m_stopped of each connection
  reading,       \* a read is under way on each connection
  pc, arg,       \* what each thread does next, and with which connection
  shutdown,      \* where m_shutdownThread is
  toStop,        \* connections that the "clients" thread has not stopped yet
  announced,     \* what the program knows: clients announced as connected, and
  endKnown,      \* clients of whose end it was told or that it disconnected
  calls          \* counter of the bound

flags == <<started, shuttingDown, isStopped>>
acceptor == <<accepting, open>>
queue == <<released, callbackQueue>>
connection == <<accepted, stopped, reading>>
threads == <<pc, arg>>
program == <<announced, endKnown>>
vars == <<flags, acceptor, queue, connections, references, arrived, connection,
          threads, program, shutdown, toStop, calls>>

IsShuttingDown == shuttingDown \/ isStopped

(* The labels at which the "clients" thread has m_subscriberConnectionsLock.*)
LockFree == pc["clients"] \notin {"next", "mark", "terminate"}

AddDispatchReference(c) == references' = [references EXCEPT ![c] = @ + 1]

ReleaseDispatchReference_All(c) == references' = [references EXCEPT ![c] = 0]
ReleaseDispatchReference(c) ==
  references' = [references EXCEPT ![c] = IF @ > 0 THEN @ - 1 ELSE 0]

Dispatch(event, c) ==
  callbackQueue' = Append(callbackQueue, [event |-> event, client |-> c])

Goto(t, label, c) ==
  /\ pc' = [pc EXCEPT ![t] = label]
  /\ arg' = [arg EXCEPT ![t] = IF label \in {"idle", "dequeue", "next", "ended"}
                            THEN NoClient ELSE c]

(* StopConnection(c) on thread t: m_stopped is looked at here and set in a *)
(* later step.                                                             *)
AfterStop(t) == CASE t = "io" -> "idle"
                  [] t \in {"callback", "user"} -> "erase"
                  [] t = "clients" -> "next"
                  [] OTHER -> "ended"

StopConnection(t, c) == Goto(t, IF stopped[c] THEN AfterStop(t) ELSE "mark", c)

-----------------------------------------------------------------------------

Init ==
  /\ started = FALSE /\ shuttingDown = FALSE /\ isStopped = FALSE
  /\ accepting = FALSE /\ open = FALSE
  /\ released = FALSE /\ callbackQueue = <<>>
  /\ connections = {}
  /\ references = [c \in Client |-> 0]
  /\ arrived = {}
  /\ accepted = [c \in Client |-> FALSE]
  /\ stopped = [c \in Client |-> TRUE]
  /\ reading = [c \in Client |-> FALSE]
  /\ pc = [t \in Thread |-> IF t = "user" THEN "idle" ELSE "ended"]
  /\ arg = [t \in Thread |-> NoClient]
  /\ shutdown = "ended"
  /\ announced = {} /\ endKnown = {}
  /\ toStop = {}
  /\ calls = 0

-----------------------------------------------------------------------------
(* The acceptor's thread.  AcceptConnection looks at IsShuttingDown before *)
(* it waits for the lock.                                                  *)

Accept(c) ==
  /\ pc["io"] = "idle" /\ accepting /\ open
  /\ c \notin arrived
  /\ arrived' = arrived \cup {c}
  /\ accepting' = FALSE
  /\ IF IsShuttingDown
     THEN UNCHANGED threads
     ELSE Goto("io", "admit", c)
  /\ UNCHANGED <<program, flags, open, queue, connections, references, connection,
                 shutdown, toStop, calls>>

(* The acceptor was closed: the accept under way ends with an error.       *)
AcceptFails ==
  /\ pc["io"] = "idle" /\ accepting /\ ~open
  /\ accepting' = ~IsShuttingDown
  /\ UNCHANGED <<program, flags, open, queue, connections, references, arrived,
                 connection, threads, shutdown, toStop, calls>>

HasRoom_OffByOne ==
  MaximumAllowedConnections = -1 \/ Cardinality(connections) <= MaximumAllowedConnections
HasRoom ==
  MaximumAllowedConnections = -1 \/ Cardinality(connections) < MaximumAllowedConnections

(* With the lock: the connection is kept, started, and announced or, when  *)
(* there is no room, stopped by a thread of the pool one second later.     *)
AcceptConnection(c) ==
  /\ pc["io"] = "admit" /\ arg["io"] = c /\ LockFree
  /\ connections' = connections \cup {c}
  /\ accepted' = [accepted EXCEPT ![c] = HasRoom]
  /\ stopped' = [stopped EXCEPT ![c] = FALSE]
  /\ reading' = [reading EXCEPT ![c] = TRUE]
  /\ AddDispatchReference(c)
  /\ IF HasRoom
     THEN /\ Dispatch("connected", c)
          /\ Goto("io", "idle", c)
     ELSE /\ pc' = [pc EXCEPT !["io"] = "idle", ![c] = "delay"]
          /\ arg' = [arg EXCEPT !["io"] = NoClient, ![c] = c]
          /\ UNCHANGED callbackQueue
  /\ accepting' = TRUE
  /\ UNCHANGED <<program, flags, open, released, arrived, shutdown, toStop,
                 calls>>

(* A read ends when the client leaves or when the socket was shut down.    *)
ReadFails(c) ==
  /\ pc["io"] = "idle" /\ reading[c] /\ ~stopped[c]
  /\ reading' = [reading EXCEPT ![c] = FALSE]
  /\ StopConnection("io", c)
  /\ UNCHANGED <<program, flags, acceptor, queue, connections, references,
                 arrived, accepted, stopped, shutdown, toStop, calls>>

ReadAborted(c) ==
  /\ pc["io"] = "idle" /\ reading[c] /\ stopped[c]
  /\ reading' = [reading EXCEPT ![c] = FALSE]
  /\ UNCHANGED <<program, flags, acceptor, queue, connections, references,
                 arrived, accepted, stopped, threads, shutdown, toStop, calls>>

(* A command was read: on an accepted connection the next read follows, on *)
(* a refused one ParseCommand returns without it.                          *)
ReadRefused(c) ==
  /\ pc["io"] = "idle" /\ reading[c] /\ ~accepted[c] /\ ~stopped[c]
  /\ reading' = [reading EXCEPT ![c] = FALSE]
  /\ UNCHANGED <<program, flags, acceptor, queue, connections, references,
                 arrived, accepted, stopped, threads, shutdown, toStop, calls>>

(* io_context::run returns when no accept and no read is under way.        *)
RunReturns ==
  /\ pc["io"] = "idle" /\ ~accepting /\ \A c \in Client : ~reading[c]
  /\ Goto("io", "ended", NoClient)
  /\ UNCHANGED <<program, flags, acceptor, queue, connections, references,
                 arrived, connection, shutdown, toStop, calls>>

-----------------------------------------------------------------------------
(* The rest of StopConnection: m_stopped is set and the socket shut down,  *)
(* then ConnectionTerminated dispatches the event, with its reference.     *)

Mark(t) ==
  /\ pc[t] = "mark"
  /\ stopped' = [stopped EXCEPT ![arg[t]] = TRUE]
  /\ Goto(t, "terminate", arg[t])
  /\ UNCHANGED <<program, flags, acceptor, queue, connections, references,
                 arrived, accepted, reading, shutdown, toStop, calls>>

(* On the "clients" thread ShutDown's own call to the program follows.     *)
AfterTerminated(t) ==
  endKnown' = IF t = "clients" THEN endKnown \cup {arg[t]} ELSE endKnown

ConnectionTerminated_Accepted(t) ==
  /\ pc[t] = "terminate"
  /\ IF accepted[arg[t]]
     THEN AddDispatchReference(arg[t]) /\ Dispatch("disconnected", arg[t])
     ELSE UNCHANGED <<references, callbackQueue>>
  /\ Goto(t, AfterStop(t), arg[t])
  /\ AfterTerminated(t)
  /\ UNCHANGED <<announced, flags, acceptor, released, connections, arrived,
                 connection, shutdown, toStop, calls>>

ConnectionTerminated(t) ==
  /\ pc[t] = "terminate"
  /\ AddDispatchReference(arg[t])
  /\ Dispatch("disconnected", arg[t])
  /\ Goto(t, AfterStop(t), arg[t])
  /\ AfterTerminated(t)
  /\ UNCHANGED <<announced, flags, acceptor, released, connections, arrived,
                 connection, shutdown, toStop, calls>>

(* The end of RemoveConnection, on the callback thread and the program's.  *)
Erase(t) ==
  /\ pc[t] = "erase" /\ LockFree
  /\ connections' = connections \ {arg[t]}
  /\ Goto(t, "idle", NoClient)
  /\ UNCHANGED <<program, flags, acceptor, queue, references, arrived, connection,
                 shutdown, toStop, calls>>

(* The task of a refused connection, after its second.                     *)
StopRefused(c) ==
  /\ pc[c] = "delay"
  /\ ReleaseDispatchReference(c)
  /\ StopConnection(c, c)
  /\ UNCHANGED <<program, flags, acceptor, queue, connections, arrived,
                 connection, shutdown, toStop, calls>>

-----------------------------------------------------------------------------
(* The callback thread: WaitForData and IsShuttingDown are looked at first *)
(* and nobody else dequeues; in a later step, when ShutDown may have begun,*)
(* come Dequeue and the dispatcher, ClientConnectedDispatcher or           *)
(* ClientDisconnectedDispatcher.  The program has set both callbacks.      *)

EndCallbacks ==
  /\ pc["callback"] = "idle"
  /\ released \/ callbackQueue # <<>>
  /\ IsShuttingDown
  /\ Goto("callback", "ended", NoClient)
  /\ UNCHANGED <<program, flags, acceptor, queue, connections, references,
                 arrived, connection, shutdown, toStop, calls>>

BeginDequeue ==
  /\ pc["callback"] = "idle"
  /\ callbackQueue # <<>>
  /\ ~IsShuttingDown
  /\ Goto("callback", "dequeue", NoClient)
  /\ UNCHANGED <<program, flags, acceptor, queue, connections, references,
                 arrived, connection, shutdown, toStop, calls>>

(* The program is called back; after its end the connection is removed.    *)
ExecuteCallback ==
  /\ pc["callback"] = "dequeue"
  /\ LET item == Head(callbackQueue) IN
       /\ ReleaseDispatchReference(item.client)
       /\ IF item.event = "connected"
          THEN /\ announced' = announced \cup {item.client}
               /\ Goto("callback", "idle", NoClient)
               /\ UNCHANGED endKnown
          ELSE /\ endKnown' = endKnown \cup {item.client}
               /\ StopConnection("callback", item.client)
               /\ UNCHANGED announced
  /\ callbackQueue' = Tail(callbackQueue)
  /\ UNCHANGED <<flags, acceptor, released, connections, arrived, connection,
                 shutdown, toStop, calls>>

-----------------------------------------------------------------------------
(* ShutDown: the shutdown thread and the thread that stops the clients.    *)

(* Under m_connectActionMutex, which only it and Start use: the acceptor   *)
(* is closed, the "clients" thread is started and takes the lock, and the  *)
(* queue is released.                                                      *)
CloseAcceptor_NotReleased ==
  /\ shutdown = "waiting"
  /\ open' = FALSE
  /\ toStop' = connections
  /\ Goto("clients", "next", NoClient)
  /\ shutdown' = "joining"
  /\ UNCHANGED <<program, flags, accepting, queue, connections, references,
                 arrived, connection, calls>>

CloseAcceptor ==
  /\ shutdown = "waiting"
  /\ open' = FALSE
  /\ released' = TRUE
  /\ toStop' = connections
  /\ Goto("clients", "next", NoClient)
  /\ shutdown' = "joining"
  /\ UNCHANGED <<program, flags, accepting, callbackQueue, connections,
                 references, arrived, connection, calls>>

StopNext_SkipsStopped(c) ==
  /\ pc["clients"] = "next" /\ c \in toStop
  /\ toStop' = toStop \ {c}
  /\ StopConnection("clients", c)
  /\ UNCHANGED <<program, flags, acceptor, queue, connections, references,
                 arrived, connection, shutdown, calls>>

(* The program is called back at once about every connection, whether Stop *)
(* found it stopped or (ConnectionTerminated) stopped it.  The callback    *)
(* runs with the lock held; that it could wait for a lock is left out.     *)
StopNext(c) ==
  /\ pc["clients"] = "next" /\ c \in toStop
  /\ toStop' = toStop \ {c}
  /\ StopConnection("clients", c)
  /\ endKnown' = IF stopped[c] THEN endKnown \cup {c} ELSE endKnown
  /\ UNCHANGED <<announced, flags, acceptor, queue, connections, references,
                 arrived, connection, shutdown, calls>>

ClearConnections ==
  /\ pc["clients"] = "next" /\ toStop = {}
  /\ connections' = {}
  /\ Goto("clients", "ended", NoClient)
  /\ UNCHANGED <<program, flags, acceptor, queue, references, arrived, connection,
                 shutdown, toStop, calls>>

Joined_CallbackOnly == pc["callback"] = "ended"
Joined == \A t \in {"clients", "callback", "io"} : pc[t] = "ended"

ResetQueue ==
  /\ shutdown = "joining" /\ Joined
  /\ callbackQueue' = <<>>
  /\ released' = FALSE
  /\ shutdown' = "finishing"
  /\ UNCHANGED <<program, flags, acceptor, connections, references, arrived,
                 connection, threads, toStop, calls>>

(* After the mutex has been let go.                                        *)
FinishShutDown ==
  /\ shutdown = "finishing"
  /\ isStopped' = TRUE
  /\ shuttingDown' = FALSE
  /\ shutdown' = "ended"
  /\ UNCHANGED <<program, started, acceptor, queue, connections, references,
                 arrived, connection, threads, toStop, calls>>

-----------------------------------------------------------------------------
(* The program.  Start and Stop are called on one thread; Stop does not    *)
(* wait for the shutdown thread.  A call that returns at once or throws is *)
(* a stutter.                                                              *)

CallStart ==
  /\ pc["user"] = "idle" /\ calls < MaxCalls
  /\ ~started
  /\ Goto("user", "start", NoClient)
  /\ calls' = calls + 1
  /\ UNCHANGED <<program, flags, acceptor, queue, connections, references,
                 arrived, connection, shutdown, toStop>>

(* Start waits for m_connectActionMutex.  While the acceptor of before is  *)
(* open the endpoint cannot be bound again and Start throws, with          *)
(* m_stopped already cleared.                                              *)
StartThrows ==
  /\ pc["user"] = "start" /\ shutdown # "joining" /\ open
  /\ isStopped' = FALSE
  /\ Goto("user", "idle", NoClient)
  /\ UNCHANGED <<program, started, shuttingDown, acceptor, queue, connections,
                 references, arrived, connection, shutdown, toStop, calls>>

Start ==
  /\ pc["user"] = "start" /\ shutdown # "joining" /\ ~open
  /\ isStopped' = FALSE
  /\ started' = TRUE
  /\ open' = TRUE
  /\ accepting' = TRUE
  /\ pc' = [pc EXCEPT !["user"] = "idle", !["io"] = "idle", !["callback"] = "idle"]
  /\ UNCHANGED <<program, shuttingDown, queue, connections, references, arrived,
                 connection, arg, shutdown, toStop, calls>>

Stop ==
  /\ pc["user"] = "idle" /\ calls < MaxCalls
  /\ started /\ ~IsShuttingDown
  /\ shuttingDown' = TRUE
  /\ started' = FALSE
  /\ shutdown' = "waiting"
  /\ calls' = calls + 1
  /\ UNCHANGED <<program, isStopped, acceptor, queue, connections, references,
                 arrived, connection, threads, toStop>>

DisconnectSubscriber(c) ==
  /\ pc["user"] = "idle" /\ calls < MaxCalls
  /\ c \in connections /\ LockFree
  /\ StopConnection("user", c)
  /\ endKnown' = endKnown \cup {c}
  /\ calls' = calls + 1
  /\ UNCHANGED <<announced, flags, acceptor, queue, connections, references,
                 arrived, connection, shutdown, toStop>>

-----------------------------------------------------------------------------

StopStep(t) == Mark(t) \/ ConnectionTerminated(t)

IoStep ==
  \/ AcceptFails \/ RunReturns \/ StopStep("io")
  \/ \E c \in Client : \/ Accept(c) \/ AcceptConnection(c)
                       \/ ReadAborted(c)

CallbackStep ==
  \/ EndCallbacks \/ BeginDequeue \/ ExecuteCallback
  \/ StopStep("callback") \/ Erase("callback")

ClientsStep ==
  \/ ClearConnections \/ StopStep("clients")
  \/ \E c \in Client : StopNext(c)

ShutdownStep == CloseAcceptor \/ ResetQueue \/ FinishShutDown

UserStep == StartThrows \/ Start \/ StopStep("user") \/ Erase("user")

PoolStep(c) == StopRefused(c) \/ StopStep(c)

Call == CallStart \/ Stop \/ \E c \in Client : DisconnectSubscriber(c)

Next ==
  \/ IoStep \/ CallbackStep \/ ClientsStep \/ ShutdownStep \/ UserStep \/ Call
  \/ \E c \in Client : ReadFails(c) \/ ReadRefused(c) \/ PoolStep(c)

Spec == Init /\ [][Next]_vars

(* Every thread that can go on does.  Nothing makes a client come or leave *)
(* or the program call.                                                    *)
Fairness ==
  /\ WF_vars(IoStep) /\ WF_vars(CallbackStep) /\ WF_vars(ClientsStep)
  /\ WF_vars(ShutdownStep) /\ WF_vars(UserStep)
  /\ \A c \in Client : WF_vars(PoolStep(c))

FairSpec == Spec /\ Fairness

-----------------------------------------------------------------------------

Labels == {"idle", "admit", "mark", "terminate", "erase",
           "dequeue", "delay", "start", "next", "ended"}

(* Every variable keeps its type; the set of connections loses none that   *)
(* ShutDown's iteration of it has still to reach.                          *)
TypeOK ==
  /\ {started, shuttingDown, isStopped, accepting, open, released} \subseteq BOOLEAN
  /\ callbackQueue \in Seq([event : {"connected", "disconnected"}, client : Client])
  /\ connections \subseteq Client /\ toStop \subseteq connections
  /\ references \in [Client -> Nat]
  /\ arrived \subseteq Client
  /\ accepted \in [Client -> BOOLEAN]
  /\ stopped \in [Client -> BOOLEAN]
  /\ reading \in [Client -> BOOLEAN]
  /\ pc \in [Thread -> Labels]
  /\ arg \in [Thread -> Client \cup {NoClient}]
  /\ shutdown \in {"ended", "waiting", "joining", "finishing"}
  /\ announced \subseteq Client /\ endKnown \subseteq Client
  /\ calls \in 0 .. MaxCalls

Queued(c) == Cardinality({i \in 1 .. Len(callbackQueue) : callbackQueue[i].client = c})
Delayed(c) == IF pc[c] = "delay" THEN 1 ELSE 0

(* The queue holds plain pointers to connections: for every one of them,   *)
(* and for the one that a refused connection's task holds, a reference is  *)
(* counted that keeps the connection alive, however often a connection is  *)
(* dispatched and whoever removes it meanwhile (DataPublisher.cpp:161,     *)
(* "until all instances are delivered").                                   *)
DispatchedIsAlive ==
  \A c \in Client : references[c] >= Queued(c) + Delayed(c)

(* No more connections are accepted and alive than the limit allows,       *)
(* through stops, removals and restarts.                                   *)
AcceptedWithinLimit ==
  MaximumAllowedConnections # -1 =>
    Cardinality({c \in Client : accepted[c] /\ ~stopped[c]})
      <= MaximumAllowedConnections

(* Once the publisher is stopped, the program knows of the end of every    *)
(* connection that was announced to it: by the event, by ShutDown's own    *)
(* call, which comes for every connection still in the set although the    *)
(* events in the queue are dropped (DataPublisher.cpp:1060, 1083), or      *)
(* because it disconnected that client itself.  (The order is not kept:    *)
(* ShutDown may tell of the end of a connection whose beginning waits in   *)
(* the queue, or is dropped with it.)                                      *)
IsStopped == isStopped /\ ~shuttingDown /\ ~started
AnnouncedEndIsKnown == IsStopped => announced \subseteq endKnown

(* Once the publisher is stopped, none of its threads is left, no callback *)
(* comes and no connection is open.                                        *)
StoppedIsQuiet ==
  IsStopped => Joined /\ \A c \in Client : ~reading[c]

(* A stopped connection does not stay in the set, where it counts against  *)
(* the limit, unless the publisher shuts down or a shutdown has dropped an *)
(* event of this connection, whose reference is then never released.       *)
Dropped(c) == references[c] > Queued(c) + Delayed(c)
StoppedIsRemoved ==
  \A c \in Client :
    (c \in connections /\ stopped[c])
      ~> (c \notin connections \/ IsShuttingDown \/ Dropped(c))

(* ShutDown ends, unless a connection slipped past AcceptConnection's test *)
(* of IsShuttingDown and was admitted after the others were stopped: then  *)
(* it waits until that client leaves.                                      *)
AdmittedLate == pc["clients"] = "ended" /\ \E c \in connections : reading[c]
ShutDownCompletes == shuttingDown ~> (~shuttingDown \/ AdmittedLate)

(* After Start has returned the publisher accepts connections until it is  *)
(* stopped: it is not left shut down.                                      *)
StartedServes == started ~> (~started \/ ~IsShuttingDown)
=============================================================================
