-------------------------- MODULE SubscriberLifecycle --------------------------
(* Connecting, losing, reconnecting and disconnecting a DataSubscriber with its   *)
(* SubscriberConnector (DataSubscriber.cpp, SubscriberConnector.cpp).  The code    *)
(* uses five kinds of thread: the user's, which call Connect, Disconnect, Cancel   *)
(* and the destructor; the command channel's response thread ("reader"), one per   *)
(* connection; the connection termination thread that a failed read or write       *)
(* starts; the disconnect thread; the connector's automatic reconnection thread.   *)
(* A thread handle of the code (m_disconnectThread ...) names the thread that was  *)
(* assigned last: joining it waits for that one only.  Listening mode, the UDP     *)
(* channel and the contents of the connection are left out.                        *)
EXTENDS Naturals, FiniteSets

CONSTANTS Users,       \* the threads of the program that uses the subscriber
          MaxThreads,  \* bound: threads the subscriber may start
          MaxCalls,    \* bound: calls of the user threads
          MaxBreaks,   \* bound: connections that the publisher drops or rejects
          MaxFailures, \* bound: connection attempts that fail
          MaxRetries,  \* m_maxRetries, 0 for -1 (no limit)
          AttemptCap,  \* bound: without a limit m_connectAttempt is counted no further
          None         \* no thread

Started == 1 .. MaxThreads
Threads == Users \cup Started

ASSUME BoundsAssumption ==
  /\ {MaxThreads, MaxCalls, MaxBreaks, MaxFailures, MaxRetries, AttemptCap} \subseteq Nat
  /\ AttemptCap >= MaxRetries
ASSUME ThreadAssumption == Users \cap Started = {} /\ None \notin Threads

VARIABLES
  connected,          \* m_connected
  disconnecting,      \* m_disconnecting
  disconnected,       \* m_disconnected
  disposing,          \* m_disposing
  cancel,             \* m_connector.m_cancel
  refused,            \* m_connector.m_connectionRefused
  attempt,            \* m_connector.m_connectAttempt
  handle,             \* m_connector.m_waitHandle is signalled
  connectOwner,       \* holder of m_connectActionMutex
  disconnectOwner,    \* holder of m_disconnectThreadMutex
  disconnectThread, terminationThread, reconnectThread, readerThread, \* the handles
  socket,             \* m_commandChannelSocket: "closed", "open", or "broken" by the peer
  session,            \* number of the connection that the socket was last dialled for
  started,            \* threads started so far
  pc,                 \* what each thread does next
  auto,               \* its parameter autoReconnecting of Disconnect
  joins,              \* its parameter joinThread of Disconnect
  retry,              \* its parameter autoReconnecting of Connect
  back,               \* where it goes on after Connect, Disconnect or Cancel
  target,             \* the thread it waits for, or the session that a reader reads
  calls, breaks, failures, \* counters of the bounds
  wanted,             \* history: the last thing asked for was to be connected
  raced               \* history: two threads were between a check and its act at once (Races)

flags == <<connected, disconnecting, disconnected, disposing>>
connector == <<cancel, refused, attempt, handle>>
owners == <<connectOwner, disconnectOwner>>
handles == <<disconnectThread, terminationThread, reconnectThread, readerThread>>
net == <<socket, session>>
locals == <<auto, joins, retry, back, target>>
counters == <<calls, breaks, failures>>
history == <<wanted, raced>>
vars == <<flags, connector, owners, handles, net, started, pc, locals, counters, history>>

IsDisconnecting_Once == disconnected
IsDisconnecting == disconnecting \/ disconnected
Ended(h) == h # None => pc[h] = "done"
NotStarted == started < MaxThreads
New == started + 1
Exhausted == MaxRetries > 0 /\ attempt >= MaxRetries

Init ==
  /\ connected = FALSE /\ disconnecting = FALSE /\ disconnected = FALSE /\ disposing = FALSE
  /\ cancel = FALSE /\ refused = FALSE /\ attempt = 0 /\ handle = FALSE
  /\ connectOwner = None /\ disconnectOwner = None
  /\ disconnectThread = None /\ terminationThread = None
  /\ reconnectThread = None /\ readerThread = None
  /\ socket = "closed" /\ session = 0 /\ started = 0
  /\ pc = [t \in Threads |-> IF t \in Users THEN "idle" ELSE "done"]
  /\ auto = [t \in Threads |-> FALSE] /\ joins = [t \in Threads |-> FALSE]
  /\ retry = [t \in Threads |-> FALSE]
  /\ back = [t \in Threads |-> IF t \in Users THEN "idle" ELSE "done"]
  /\ target = [t \in Threads |-> None]
  /\ calls = 0 /\ breaks = 0 /\ failures = 0
  /\ wanted = FALSE /\ raced = FALSE

(* Thread s is past IsConnected and has not yet left Connect.                      *)
Connecting(s) ==
  /\ pc[s] \in {"reach", "joinD", "lock", "reset", "dial", "establish", "established"}
  /\ ~joins[s]

(* Thread t goes on at label l.                                                    *)
Goto(t, l) == pc' = [pc EXCEPT ![t] = l]

(* Thread t goes on at label l and starts a thread that begins at label first.     *)
StartThread(t, l, first) ==
  /\ NotStarted
  /\ started' = New
  /\ pc' = [pc EXCEPT ![t] = l, ![New] = first]

--------------------------------------------------------------------------------
(* Calls of a user thread.                                                         *)

(* SubscriberConnector::Connect, by SubscriberInstance::Connect with a             *)
(* ResetConnection before it (reset), or directly.                                 *)
CallConnect(u, reset) ==
  /\ pc[u] = "idle" /\ ~disposing /\ calls < MaxCalls
  /\ calls' = calls + 1
  /\ attempt' = IF reset THEN 0 ELSE attempt
  /\ cancel' = (cancel /\ ~reset)
  /\ Goto(u, IF cancel' THEN "idle" ELSE "clear")
  /\ retry' = [retry EXCEPT ![u] = FALSE]
  /\ UNCHANGED <<flags, refused, handle, owners, handles, net, started, auto, joins, back, target,
                 breaks, failures, history>>

(* DataSubscriber::Disconnect(): the public one returns if there is, or was, one.  *)
CallDisconnect(u) ==
  /\ pc[u] = "idle" /\ ~disposing /\ calls < MaxCalls
  /\ calls' = calls + 1
  /\ Goto(u, IF IsDisconnecting THEN "idle" ELSE "check")
  /\ wanted' = FALSE
  /\ UNCHANGED <<flags, connector, owners, handles, net, started, locals, breaks, failures, raced>>

CallCancel(u) ==
  /\ pc[u] = "idle" /\ ~disposing /\ calls < MaxCalls
  /\ calls' = calls + 1
  /\ Goto(u, "cancel")
  /\ wanted' = FALSE
  /\ UNCHANGED <<flags, connector, owners, handles, net, started, locals, breaks, failures, raced>>

(* The destructor runs when no other user thread is in a call: Cancel, and then    *)
(* Disconnect(true, false, true).                                                  *)
CallDestructor(u) ==
  /\ \A v \in Users : pc[v] = "idle"
  /\ ~disposing
  /\ disposing' = TRUE
  /\ Goto(u, "cancel")
  /\ back' = [back EXCEPT ![u] = "dispose"]
  /\ wanted' = FALSE
  /\ UNCHANGED <<connected, disconnecting, disconnected, connector, owners, handles, net, started,
                 auto, joins, retry, target, counters, raced>>

Dispose(u) ==
  /\ pc[u] = "dispose"
  /\ Goto(u, "check")
  /\ joins' = [joins EXCEPT ![u] = TRUE]
  /\ back' = [back EXCEPT ![u] = "end"]
  /\ UNCHANGED <<flags, connector, owners, handles, net, started, auto, retry, target, counters, history>>

--------------------------------------------------------------------------------
(* SubscriberConnector::Connect(client, autoReconnecting) with DataSubscriber's    *)
(* Connect, by a user thread or by the reconnection thread.                        *)

Clear(t) ==
  /\ pc[t] = "clear"
  /\ cancel' = FALSE
  /\ Goto(t, "attempt")
  /\ UNCHANGED <<flags, refused, attempt, handle, owners, handles, net, started, locals, counters, history>>

Attempt_NoWait(t) ==
  /\ pc[t] = "attempt"
  /\ IF disposing \/ Exhausted
     THEN Goto(t, back[t]) /\ UNCHANGED attempt
     ELSE /\ attempt' = IF MaxRetries = 0 /\ attempt = AttemptCap THEN attempt ELSE attempt + 1
          /\ Goto(t, IF connected THEN "failed" ELSE "lock")
  /\ raced' = (raced \/ (pc'[t] = "lock" /\ \E s \in Threads : Connecting(s)))
  /\ UNCHANGED <<flags, cancel, refused, handle, owners, handles, net, started, locals, counters, wanted>>

(* Top of the loop: it ends when the client is disposing or out of retries.  An    *)
(* attempt while connected throws.                                                 *)
Attempt(t) ==
  /\ pc[t] = "attempt"
  /\ IF disposing \/ Exhausted
     THEN Goto(t, back[t]) /\ UNCHANGED attempt
     ELSE /\ attempt' = IF MaxRetries = 0 /\ attempt = AttemptCap THEN attempt ELSE attempt + 1
          /\ Goto(t, IF connected THEN "failed" ELSE "reach")
  /\ raced' = (raced \/ (pc'[t] = "reach" /\ \E s \in Threads : Connecting(s)))
  /\ UNCHANGED <<flags, cancel, refused, handle, owners, handles, net, started, locals, counters, wanted>>

(* WaitOnDisconnectThread, whose lock is held while the thread is joined.          *)
Reach(t) ==
  /\ pc[t] = "reach" /\ disconnectOwner = None
  /\ disconnectOwner' = t
  /\ Goto(t, "joinD")
  /\ UNCHANGED <<flags, connector, connectOwner, handles, net, started, locals, counters, history>>

JoinDisconnect(t) ==
  /\ pc[t] = "joinD" /\ Ended(disconnectThread)
  /\ disconnectOwner' = None
  /\ Goto(t, IF joins[t] THEN "end" ELSE "lock")
  /\ raced' = (raced \/ (~joins[t] /\ \E s \in Threads : pc[s] = "spawn"))
  /\ UNCHANGED <<flags, connector, connectOwner, handles, net, started, locals, counters, wanted>>

(* m_connectActionMutex, and SetupConnection.                                      *)
Lock(t) ==
  /\ pc[t] = "lock" /\ connectOwner = None
  /\ connectOwner' = t
  /\ disconnected' = FALSE
  /\ wanted' = (wanted \/ t \in Users)
  /\ Goto(t, "reset")
  /\ UNCHANGED <<connected, disconnecting, disposing, connector, disconnectOwner, handles, net, started,
                 locals, counters, raced>>

(* A connection that is not an automatic one resets the connector, m_cancel too.   *)
Reset(t) ==
  /\ pc[t] = "reset"
  /\ attempt' = IF retry[t] THEN attempt ELSE 0
  /\ cancel' = (cancel /\ retry[t])
  /\ refused' = FALSE
  /\ Goto(t, "dial")
  /\ UNCHANGED <<flags, handle, owners, handles, net, started, locals, counters, history>>

DialSucceeds(t) ==
  /\ pc[t] = "dial"
  /\ socket' = "open"
  /\ session' = session + 1
  /\ Goto(t, "establish")
  /\ UNCHANGED <<flags, connector, owners, handles, started, locals, counters, history>>

(* The exception releases m_connectActionMutex.                                    *)
DialFails(t) ==
  /\ pc[t] = "dial" /\ failures < MaxFailures
  /\ failures' = failures + 1
  /\ connectOwner' = None
  /\ Goto(t, "failed")
  /\ UNCHANGED <<flags, connector, disconnectOwner, handles, net, started, locals, calls, breaks, history>>

(* EstablishConnection starts the reader and sets m_connected.                     *)
Establish(t) ==
  /\ pc[t] = "establish"
  /\ StartThread(t, "established", "reading")
  /\ target' = [target EXCEPT ![New] = session]
  /\ readerThread' = New
  /\ connected' = TRUE
  /\ UNCHANGED <<disconnecting, disconnected, disposing, connector, owners, disconnectThread,
                 terminationThread, reconnectThread, net, auto, joins, retry, back, counters, history>>

Established(t) ==
  /\ pc[t] = "established"
  /\ connectOwner' = None
  /\ Goto(t, back[t])
  /\ UNCHANGED <<flags, connector, disconnectOwner, handles, net, started, locals, counters, history>>

(* A failed attempt resets the wait handle and sleeps for the back-off interval.   *)
Failed(t) ==
  /\ pc[t] = "failed"
  /\ IF disposing
     THEN Goto(t, "attempt") /\ UNCHANGED <<retry, handle>>
     ELSE /\ retry' = [retry EXCEPT ![t] = TRUE]
          /\ handle' = FALSE
          /\ Goto(t, "sleep")
  /\ UNCHANGED <<flags, cancel, refused, attempt, owners, handles, net, started, auto, joins, back, target,
                 counters, history>>

(* The sleep ends when the handle is set or the interval is over.                  *)
Sleep(t) ==
  /\ pc[t] = "sleep"
  /\ Goto(t, IF cancel THEN back[t] ELSE "attempt")
  /\ UNCHANGED <<flags, connector, owners, handles, net, started, locals, counters, history>>

--------------------------------------------------------------------------------
(* SubscriberConnector::Cancel.                                                    *)

Cancel(t) ==
  /\ pc[t] = "cancel"
  /\ cancel' = TRUE
  /\ Goto(t, "signal")
  /\ UNCHANGED <<flags, refused, attempt, handle, owners, handles, net, started, locals, counters, history>>

Signal(t) ==
  /\ pc[t] = "signal"
  /\ handle' = TRUE
  /\ target' = [target EXCEPT ![t] = reconnectThread]
  /\ Goto(t, "joinR")
  /\ UNCHANGED <<flags, cancel, refused, attempt, owners, handles, net, started, auto, joins, retry, back,
                 counters, history>>

JoinReconnect(t) ==
  /\ pc[t] = "joinR" /\ Ended(target[t])
  /\ target' = [target EXCEPT ![t] = None]
  /\ Goto(t, back[t])
  /\ UNCHANGED <<flags, connector, owners, handles, net, started, auto, joins, retry, back, counters, history>>

--------------------------------------------------------------------------------
(* DataSubscriber::Disconnect(joinThread, autoReconnecting, includeListener).      *)

(* Somebody else disconnects: a caller that does not reconnect cancels the         *)
(* connector, and the destructor waits.                                            *)
CheckDisconnecting(t) ==
  /\ pc[t] = "check" /\ IsDisconnecting
  /\ LET waits == joins[t] /\ ~disconnected
     IN  IF ~auto[t] /\ ~disconnected
         THEN /\ Goto(t, "cancel")
              /\ back' = [back EXCEPT ![t] = IF waits THEN "await" ELSE @]
         ELSE Goto(t, back[t]) /\ UNCHANGED back
  /\ UNCHANGED <<flags, connector, owners, handles, net, started, auto, joins, retry, target, counters, history>>

Await(t) ==
  /\ pc[t] = "await"
  /\ Goto(t, IF disconnected THEN "end" ELSE "reach")
  /\ UNCHANGED <<flags, connector, owners, handles, net, started, locals, counters, history>>

CheckPassed(t) ==
  /\ pc[t] = "check" /\ ~IsDisconnecting
  /\ Goto(t, "mark")
  /\ UNCHANGED <<flags, connector, owners, handles, net, started, locals, counters, history>>

(* The flags are set some time after the check: another Disconnect may have set    *)
(* them since, or, for a termination, a new connection be under way or made.       *)
Mark(t) ==
  /\ pc[t] = "mark"
  /\ disconnecting' = TRUE
  /\ connected' = FALSE
  /\ raced' = (raced \/ IsDisconnecting \/ (auto[t] /\ (target[t] # session \/ socket # "broken" \/ \E s \in Threads : Connecting(s))))
  /\ Goto(t, "spawn")
  /\ UNCHANGED <<disconnected, disposing, connector, owners, handles, net, started, locals, counters, wanted>>

(* m_disconnectThread is assigned under m_disconnectThreadMutex; the destructor    *)
(* then joins it.                                                                  *)
SpawnDisconnect(t) ==
  /\ pc[t] = "spawn" /\ disconnectOwner = None
  /\ StartThread(t, IF joins[t] THEN "reach" ELSE back[t], IF auto[t] THEN "close" ELSE "cancel")
  /\ auto' = [auto EXCEPT ![New] = auto[t]]
  /\ back' = [back EXCEPT ![New] = "joinT"]
  /\ disconnectThread' = New
  /\ UNCHANGED <<flags, connector, owners, terminationThread, reconnectThread, readerThread, net,
                 joins, retry, target, counters, history>>

(* The disconnect thread: one that does not reconnect has cancelled the connector, *)
(* joins the termination thread and takes m_connectActionMutex.                    *)
JoinTermination(t) ==
  /\ pc[t] = "joinT" /\ Ended(terminationThread)
  /\ Goto(t, "closeLock")
  /\ UNCHANGED <<flags, connector, owners, handles, net, started, locals, counters, history>>

CloseLock(t) ==
  /\ pc[t] = "closeLock" /\ connectOwner = None
  /\ connectOwner' = t
  /\ Goto(t, "close")
  /\ UNCHANGED <<flags, connector, disconnectOwner, handles, net, started, locals, counters, history>>

Close(t) ==
  /\ pc[t] = "close"
  /\ socket' = "closed"
  /\ Goto(t, "joinReader")
  /\ UNCHANGED <<flags, connector, owners, handles, session, started, locals, counters, history>>

JoinReader_NoWait(t) ==
  /\ pc[t] = "joinReader"
  /\ Goto(t, "finish")
  /\ UNCHANGED <<flags, connector, owners, handles, net, started, locals, counters, history>>

JoinReader(t) ==
  /\ pc[t] = "joinReader" /\ Ended(readerThread)
  /\ Goto(t, "finish")
  /\ UNCHANGED <<flags, connector, owners, handles, net, started, locals, counters, history>>

Finish_StillDisconnecting(t) ==
  /\ pc[t] = "finish"
  /\ disconnected' = TRUE
  /\ Goto(t, IF auto[t] THEN "reconnect" ELSE "unlock")
  /\ UNCHANGED <<connected, disconnecting, disposing, connector, owners, handles, net, started, locals,
                 counters, history>>

(* After the terminated callback.                                                  *)
Finish(t) ==
  /\ pc[t] = "finish"
  /\ disconnected' = TRUE
  /\ disconnecting' = FALSE
  /\ Goto(t, IF auto[t] THEN "reconnect" ELSE "unlock")
  /\ UNCHANGED <<connected, disposing, connector, owners, handles, net, started, locals, counters, history>>

Unlock(t) ==
  /\ pc[t] = "unlock"
  /\ connectOwner' = None
  /\ Goto(t, "done")
  /\ UNCHANGED <<flags, connector, disconnectOwner, handles, net, started, locals, counters, history>>

(* SubscriberConnector::AutoReconnect waits for the reconnection before it and     *)
(* starts the next one.                                                            *)
Reconnect(t) ==
  /\ pc[t] = "reconnect"
  /\ IF disposing \/ cancel
     THEN Goto(t, "done") /\ UNCHANGED target
     ELSE Goto(t, "joinOld") /\ target' = [target EXCEPT ![t] = reconnectThread]
  /\ UNCHANGED <<flags, connector, owners, handles, net, started, auto, joins, retry, back, counters, history>>

StartReconnect(t) ==
  /\ pc[t] = "joinOld" /\ Ended(target[t])
  /\ StartThread(t, "done", "begin")
  /\ target' = [target EXCEPT ![t] = None]
  /\ reconnectThread' = New
  /\ UNCHANGED <<flags, connector, owners, disconnectThread, terminationThread, readerThread, net,
                 auto, joins, retry, back, counters, history>>

(* The reconnection thread: a connection that was refused keeps its attempt count. *)
Begin(t) ==
  /\ pc[t] = "begin"
  /\ attempt' = IF refused THEN attempt ELSE 0
  /\ cancel' = (cancel /\ refused)
  /\ Goto(t, "retries")
  /\ UNCHANGED <<flags, refused, handle, owners, handles, net, started, locals, counters, history>>

Retries(t) ==
  /\ pc[t] = "retries"
  /\ IF Exhausted
     THEN Goto(t, "done") /\ UNCHANGED handle
     ELSE Goto(t, "pause") /\ handle' = FALSE
  /\ UNCHANGED <<flags, cancel, refused, attempt, owners, handles, net, started, locals, counters, history>>

Pause(t) ==
  /\ pc[t] = "pause"
  /\ Goto(t, IF cancel \/ disposing THEN "done" ELSE "clear")
  /\ retry' = [retry EXCEPT ![t] = TRUE]
  /\ UNCHANGED <<flags, connector, owners, handles, net, started, auto, joins, back, target, counters, history>>

--------------------------------------------------------------------------------
(* The reader, the write handlers that run on its thread, and the publisher.       *)

Reading(t) == pc[t] = "reading" /\ target[t] = session

(* HandleSocketError: the thread that will disconnect, and reconnect.              *)
TerminateConnection(t, l) ==
  /\ StartThread(t, l, "check")
  /\ auto' = [auto EXCEPT ![New] = TRUE]
  /\ target' = [target EXCEPT ![New] = target[t]]
  /\ terminationThread' = New
  /\ UNCHANGED <<disconnectThread, reconnectThread, readerThread, joins, retry, back>>

ReadFails(t) ==
  /\ Reading(t) /\ socket = "broken"
  /\ IF IsDisconnecting
     THEN Goto(t, "done") /\ UNCHANGED <<handles, started, locals>>
     ELSE TerminateConnection(t, "writing")
  /\ UNCHANGED <<flags, connector, owners, net, counters, history>>

(* A write that was under way fails too.                                           *)
WriteFails(t) ==
  /\ pc[t] = "writing"
  /\ IF IsDisconnecting
     THEN Goto(t, "done") /\ UNCHANGED <<handles, started, locals>>
     ELSE TerminateConnection(t, "done")
  /\ UNCHANGED <<flags, connector, owners, net, counters, history>>

NoWriteFails(t) ==
  /\ pc[t] = "writing"
  /\ Goto(t, "done")
  /\ UNCHANGED <<flags, connector, owners, handles, net, started, locals, counters, history>>

(* The socket was closed, or closed and dialled again, under the read.             *)
ReadAborted(t) ==
  /\ pc[t] = "reading"
  /\ socket = "closed" \/ target[t] # session
  /\ Goto(t, "done")
  /\ UNCHANGED <<flags, connector, owners, handles, net, started, locals, counters, history>>

(* HandleFailed: the publisher has no place for another subscriber.                *)
HandleRefusal(t) ==
  /\ Reading(t) /\ socket = "open"
  /\ refused' = TRUE
  /\ UNCHANGED <<flags, cancel, attempt, handle, owners, handles, net, started, pc, locals, counters, history>>

(* HandleFailed: the publisher rejects the operational modes; a thread calls       *)
(* Disconnect(false, false, false).                                                *)
HandleRejection(t) ==
  /\ Reading(t) /\ socket = "open" /\ breaks < MaxBreaks
  /\ breaks' = breaks + 1
  /\ StartThread(t, "reading", "check")
  /\ auto' = [auto EXCEPT ![New] = FALSE]
  /\ UNCHANGED <<flags, connector, owners, handles, net, joins, retry, back, target, calls, failures, history>>

PeerBreaks ==
  /\ socket = "open" /\ breaks < MaxBreaks
  /\ breaks' = breaks + 1
  /\ socket' = "broken"
  /\ UNCHANGED <<flags, connector, owners, handles, session, started, pc, locals, calls, failures, history>>

--------------------------------------------------------------------------------
Call(u) == (\E reset \in BOOLEAN : CallConnect(u, reset)) \/ CallDisconnect(u) \/ CallCancel(u) \/ CallDestructor(u)
ConnectStep(t) ==
  \/ Clear(t) \/ Attempt(t) \/ Reach(t) \/ JoinDisconnect(t) \/ Lock(t) \/ Reset(t)
  \/ DialSucceeds(t) \/ DialFails(t) \/ Establish(t) \/ Established(t) \/ Failed(t) \/ Sleep(t)
CancelStep(t) == Cancel(t) \/ Signal(t) \/ JoinReconnect(t)
DisconnectStep(t) ==
  \/ Dispose(t) \/ CheckDisconnecting(t) \/ Await(t) \/ CheckPassed(t) \/ Mark(t) \/ SpawnDisconnect(t)
  \/ JoinTermination(t) \/ CloseLock(t) \/ Close(t) \/ JoinReader(t) \/ Finish(t) \/ Unlock(t)
ReconnectStep(t) == Reconnect(t) \/ StartReconnect(t) \/ Begin(t) \/ Retries(t) \/ Pause(t)
ReaderStep(t) == ReadFails(t) \/ WriteFails(t) \/ NoWriteFails(t) \/ ReadAborted(t)
Publisher == PeerBreaks \/ \E t \in Started : HandleRefusal(t) \/ HandleRejection(t)
ThreadStep(t) ==
  ConnectStep(t) \/ CancelStep(t) \/ DisconnectStep(t) \/ ReconnectStep(t) \/ ReaderStep(t)

Next == Publisher \/ (\E u \in Users : Call(u)) \/ (\E t \in Threads : ThreadStep(t))

Spec == Init /\ [][Next]_vars

(* Every thread that can go on does: the operating system schedules them all, and  *)
(* a sleep ends with its interval.                                                 *)
Fairness == \A t \in Threads : WF_vars(ThreadStep(t))
FairSpec == Spec /\ Fairness
--------------------------------------------------------------------------------
Labels ==
  {"idle", "end", "done", "clear", "attempt", "reach", "joinD", "lock", "reset", "dial", "establish",
   "established", "failed", "sleep", "cancel", "signal", "joinR", "dispose", "check", "await", "mark",
   "spawn", "joinT", "closeLock", "close", "joinReader", "finish", "unlock", "reconnect", "joinOld",
   "begin", "retries", "pause", "reading", "writing"}

TypeOK ==
  /\ \A b \in {connected, disconnecting, disconnected, disposing, cancel, refused, handle, wanted, raced} :
       b \in BOOLEAN
  /\ attempt \in 0 .. AttemptCap
  /\ {connectOwner, disconnectOwner} \subseteq Threads \cup {None}
  /\ {disconnectThread, terminationThread, reconnectThread, readerThread} \subseteq Started \cup {None}
  /\ socket \in {"closed", "open", "broken"} /\ session \in Nat
  /\ started \in 0 .. MaxThreads
  /\ pc \in [Threads -> Labels]
  /\ auto \in [Threads -> BOOLEAN] /\ joins \in [Threads -> BOOLEAN] /\ retry \in [Threads -> BOOLEAN]
  /\ back \in [Threads -> {"idle", "done", "dispose", "end", "await", "joinT"}]
  /\ target \in [Threads -> Nat \cup {None}]
  /\ calls \in 0 .. MaxCalls /\ breaks \in 0 .. MaxBreaks /\ failures \in 0 .. MaxFailures


(* What the properties say of the races: two threads can be between one of the     *)
(* code's checks and the act it guards.  A thread can pass IsDisconnecting before  *)
(* another one sets the flag, or long after its own connection was closed (Mark);  *)
(* pass WaitOnDisconnectThread between another's flag and its new thread           *)
(* (JoinDisconnect); pass IsConnected while another connects (Attempt).  The       *)
(* properties hold as long as none of these has happened.                          *)
NotRaced == ~raced

Dialling(t) == pc[t] \in {"reset", "dial", "establish", "established"}
Closing(t) == pc[t] \in {"close", "joinReader", "finish"}
Disconnecting(t) == Closing(t) \/ pc[t] \in {"joinT", "closeLock", "unlock", "reconnect", "joinOld"}
(* The disconnect thread of a lost connection does not take m_connectActionMutex:  *)
(* still it never closes the socket under a thread that is connecting.             *)
ClosesNoNewConnection == NotRaced => \A s, t \in Threads : Closing(s) => ~Dialling(t)

(* There is one disconnect thread at a time: m_disconnectThread, which Connect and *)
(* the destructor wait for, is the only one.                                       *)
OneDisconnect == NotRaced => \A s, t \in Threads : Disconnecting(s) /\ Disconnecting(t) => s = t

(* Two response threads never read at once: they share m_readBuffer.               *)
OneReader == NotRaced => \A s, t \in Threads : pc[s] = "reading" /\ pc[t] = "reading" => s = t

(* A connection that the peer broke is made again, unless the connector is         *)
(* cancelled or the publisher refuses.                                             *)
LostIsReconnected ==
  connected /\ socket = "broken" ~> (socket = "open" /\ connected) \/ cancel \/ refused \/ raced

(* DataSubscriber.h on Disconnect: when it returns all connections have been       *)
(* closed and the threads have shut down.  No connection is made while the user is *)
(* in no call and the last thing asked for was to end.                             *)
DisconnectIsFinal == [][session' # session => wanted \/ \E u \in Users : pc[u] # "idle"]_vars
================================================================================
