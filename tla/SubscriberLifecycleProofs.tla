---------------------- MODULE SubscriberLifecycleProofs ----------------------
(***************************************************************************)
(* What holds of SubscriberLifecycle for any user threads and any number   *)
(* of calls, lost connections and threads.                                 *)
(***************************************************************************)
EXTENDS SubscriberLifecycle, TLAPS

-----------------------------------------------------------------------------
(* Type correctness.                                                       *)

(* What the assumptions say of the constants.                              *)
LEMMA ThreadTypes ==
  /\ Started \subseteq Nat /\ Started \subseteq Threads /\ Users \subseteq Threads
  /\ None \notin Threads /\ None \notin Started
  /\ \A u \in Users : u \notin Started
  /\ MaxThreads \in Nat /\ AttemptCap \in Nat /\ MaxRetries \in Nat
  /\ MaxCalls \in Nat /\ MaxBreaks \in Nat /\ MaxFailures \in Nat
  BY BoundsAssumption, ThreadAssumption DEF Started, Threads

(* A thread that is started has the next number.                           *)
LEMMA NewType ==
  ASSUME started \in 0 .. MaxThreads, NotStarted
  PROVE  /\ New \in Started /\ New \in Threads /\ New \in 0 .. MaxThreads
         /\ New > started
  BY ThreadTypes DEF NotStarted, New, Started

(* The types of TypeOK in three parts.                                     *)
FlagTypes ==
  /\ connected \in BOOLEAN /\ disconnecting \in BOOLEAN
  /\ disconnected \in BOOLEAN /\ disposing \in BOOLEAN
  /\ cancel \in BOOLEAN /\ refused \in BOOLEAN /\ handle \in BOOLEAN
  /\ wanted \in BOOLEAN /\ raced \in BOOLEAN

ValueTypes ==
  /\ attempt \in 0 .. AttemptCap
  /\ connectOwner \in Threads \cup {None} /\ disconnectOwner \in Threads \cup {None}
  /\ disconnectThread \in Started \cup {None} /\ terminationThread \in Started \cup {None}
  /\ reconnectThread \in Started \cup {None} /\ readerThread \in Started \cup {None}
  /\ socket \in {"closed", "open", "broken"} /\ session \in Nat
  /\ started \in 0 .. MaxThreads
  /\ calls \in 0 .. MaxCalls /\ breaks \in 0 .. MaxBreaks /\ failures \in 0 .. MaxFailures

Backs == {"idle", "done", "dispose", "end", "await", "joinT"}

PlaceTypes == pc \in [Threads -> Labels]
ParameterTypes ==
  /\ auto \in [Threads -> BOOLEAN] /\ joins \in [Threads -> BOOLEAN]
  /\ retry \in [Threads -> BOOLEAN]
BackTypes == back \in [Threads -> Backs]
TargetTypes == target \in [Threads -> Nat \cup {None}]

LocalTypes == PlaceTypes /\ ParameterTypes /\ BackTypes /\ TargetTypes

LEMMA ThreeParts == TypeOK <=> FlagTypes /\ ValueTypes /\ LocalTypes
  BY DEF TypeOK, FlagTypes, ValueTypes, LocalTypes, Backs, PlaceTypes,
         ParameterTypes, BackTypes, TargetTypes

LEMMA TypeInit == Init => TypeOK
  <1> SUFFICES ASSUME Init PROVE FlagTypes /\ ValueTypes /\ LocalTypes
    BY ThreeParts
  <1>1. FlagTypes
    BY DEF Init, FlagTypes
  <1>2. ValueTypes
    BY ThreadTypes DEF Init, ValueTypes
  <1>3. pc \in [Threads -> Labels] /\ back \in [Threads -> Backs]
    BY DEF Init, Labels, Backs
  <1> QED
    BY <1>1, <1>2, <1>3, ThreadTypes
       DEF Init, LocalTypes, PlaceTypes, ParameterTypes,
       BackTypes, TargetTypes

(* Each part is kept by every step: the flags, the values, and of the      *)
(* threads their places, parameters, ways back and targets.                *)
LEMMA FlagsNext ==
  ASSUME FlagTypes, LocalTypes, [Next]_vars
  PROVE  FlagTypes'
  <1> USE DEF FlagTypes, flags, connector, history
  <1> DEFINE FlagsKept == UNCHANGED <<flags, cancel, refused, handle, history>>
  <1>0. FlagsKept => FlagTypes'
    OBVIOUS
  <1> HIDE DEF FlagsKept
  <1>1. ASSUME NEW u \in Users, Call(u) PROVE FlagTypes'
    <2>1. ASSUME NEW reset \in BOOLEAN, CallConnect(u, reset) PROVE FlagTypes'
      BY <2>1 DEF CallConnect
    <2>2. CASE CallDisconnect(u)
      BY <2>2 DEF CallDisconnect
    <2>3. CASE CallCancel(u)
      BY <2>3 DEF CallCancel
    <2>4. CASE CallDestructor(u)
      BY <2>4 DEF CallDestructor
    <2> QED
      BY <1>1, <2>1, <2>2, <2>3, <2>4 DEF Call
  <1>2. ASSUME NEW t \in Threads, ConnectStep(t) PROVE FlagTypes'
    <2>1. CASE Clear(t)
      BY <2>1 DEF Clear
    <2>2. CASE Attempt(t)
      BY <2>2 DEF Attempt
    <2>3. CASE JoinDisconnect(t)
      BY <2>3 DEF JoinDisconnect
    <2>4. CASE Lock(t)
      BY <2>4 DEF Lock
    <2>5. CASE Reset(t)
      BY <2>5 DEF Reset
    <2>6. CASE Establish(t)
      BY <2>6 DEF Establish
    <2>7. CASE Failed(t)
      BY <2>7 DEF Failed
    <2>8. CASE \/ Reach(t) \/ DialSucceeds(t) \/ DialFails(t) \/ Established(t)
              \/ Sleep(t)
      <3>1. FlagsKept
        BY <2>8
           DEF FlagsKept, Reach, DialSucceeds, DialFails, Established, Sleep
      <3> QED
        BY <3>1, <1>0
    <2> QED
      BY <1>2, <2>1, <2>2, <2>3, <2>4, <2>5, <2>6, <2>7, <2>8 DEF ConnectStep
  <1>3. ASSUME NEW t \in Threads, CancelStep(t) PROVE FlagTypes'
    <2>1. CASE Cancel(t)
      BY <2>1 DEF Cancel
    <2>2. CASE Signal(t)
      BY <2>2 DEF Signal
    <2>3. CASE JoinReconnect(t)
      BY <2>3 DEF JoinReconnect
    <2> QED
      BY <1>3, <2>1, <2>2, <2>3 DEF CancelStep
  <1>4. ASSUME NEW t \in Threads, DisconnectStep(t) PROVE FlagTypes'
    <2>1. CASE Mark(t)
      BY <2>1 DEF Mark
    <2>2. CASE Finish(t)
      BY <2>2 DEF Finish
    <2>3. CASE \/ Dispose(t) \/ CheckDisconnecting(t) \/ Await(t) \/ CheckPassed(t)
              \/ SpawnDisconnect(t) \/ JoinTermination(t) \/ CloseLock(t)
              \/ Close(t) \/ JoinReader(t) \/ Unlock(t)
      <3>1. FlagsKept
        BY <2>3
           DEF FlagsKept, Dispose, CheckDisconnecting, Await, CheckPassed, SpawnDisconnect,
               JoinTermination, CloseLock, Close, JoinReader, Unlock
      <3> QED
        BY <3>1, <1>0
    <2> QED
      BY <1>4, <2>1, <2>2, <2>3 DEF DisconnectStep
  <1>5. ASSUME NEW t \in Threads, ReconnectStep(t) PROVE FlagTypes'
    <2>1. CASE Begin(t)
      BY <2>1 DEF Begin
    <2>2. CASE Retries(t)
      BY <2>2 DEF Retries
    <2>3. CASE Reconnect(t) \/ StartReconnect(t) \/ Pause(t)
      <3>1. FlagsKept
        BY <2>3
           DEF FlagsKept, Reconnect, StartReconnect, Pause
      <3> QED
        BY <3>1, <1>0
    <2> QED
      BY <1>5, <2>1, <2>2, <2>3 DEF ReconnectStep
  <1>6. ASSUME NEW t \in Threads, ReaderStep(t) PROVE FlagTypes'
    <2>1. FlagsKept
      BY <1>6
         DEF FlagsKept, ReaderStep, ReadFails, WriteFails, NoWriteFails, ReadAborted
    <2> QED
      BY <2>1, <1>0
  <1>7. CASE Publisher
    <2>1. CASE PeerBreaks
      BY <2>1 DEF PeerBreaks
    <2>2. ASSUME NEW t \in Started, HandleRefusal(t) PROVE FlagTypes'
      BY <2>2 DEF HandleRefusal
    <2>3. ASSUME NEW t \in Started, HandleRejection(t) PROVE FlagTypes'
      BY <2>3 DEF HandleRejection
    <2> QED
      BY <1>7, <2>1, <2>2, <2>3 DEF Publisher
  <1>8. CASE UNCHANGED vars
    BY <1>8 DEF vars
  <1> QED
    BY <1>1, <1>2, <1>3, <1>4, <1>5, <1>6, <1>7, <1>8 DEF Next, ThreadStep

LEMMA ValuesNext ==
  ASSUME ValueTypes, [Next]_vars
  PROVE  ValueTypes'
  <1> USE ThreadTypes DEF ValueTypes, connector, owners, handles, net, counters
  <1>n. NotStarted => New \in Started /\ New \in 0 .. MaxThreads
    BY NewType
  <1>1. ASSUME NEW u \in Users, Call(u) PROVE ValueTypes'
    BY <1>1, <1>n
       DEF Call, CallConnect, CallDisconnect, CallCancel, CallDestructor
  <1>2. ASSUME NEW t \in Threads, ConnectStep(t) PROVE ValueTypes'
    <2>1. CASE Attempt(t)
      <3>1. attempt' \in 0 .. AttemptCap
        BY <2>1, BoundsAssumption DEF Attempt, Exhausted
      <3> QED
        BY <2>1, <3>1 DEF Attempt
    <2>2. CASE Clear(t) \/ Reach(t) \/ JoinDisconnect(t) \/ Lock(t) \/ Reset(t)
      BY <2>2 DEF Clear, Reach, JoinDisconnect, Lock, Reset
    <2>3. CASE DialSucceeds(t) \/ DialFails(t) \/ Establish(t)
      BY <2>3, <1>n DEF DialSucceeds, DialFails, Establish, StartThread
    <2>4. CASE Established(t) \/ Failed(t) \/ Sleep(t)
      BY <2>4 DEF Established, Failed, Sleep
    <2> QED
      BY <1>2, <2>1, <2>2, <2>3, <2>4 DEF ConnectStep
  <1>3. ASSUME NEW t \in Threads, CancelStep(t) PROVE ValueTypes'
    BY <1>3, <1>n
       DEF CancelStep, Cancel, Signal, JoinReconnect
  <1>4. ASSUME NEW t \in Threads, DisconnectStep(t) PROVE ValueTypes'
    BY <1>4, <1>n
       DEF DisconnectStep, Dispose, CheckDisconnecting, Await, CheckPassed, Mark,
           SpawnDisconnect, JoinTermination, CloseLock, Close, JoinReader,
           Finish, Unlock, StartThread
  <1>5. ASSUME NEW t \in Threads, ReconnectStep(t) PROVE ValueTypes'
    BY <1>5, <1>n
       DEF ReconnectStep, Reconnect, StartReconnect, Begin, Retries, Pause, StartThread
  <1>6. ASSUME NEW t \in Threads, ReaderStep(t) PROVE ValueTypes'
    BY <1>6, <1>n
       DEF ReaderStep, ReadFails, WriteFails, NoWriteFails, ReadAborted,
           TerminateConnection, StartThread
  <1>7. CASE Publisher
    BY <1>7, <1>n
       DEF Publisher, PeerBreaks, HandleRefusal, HandleRejection, StartThread
  <1>8. CASE UNCHANGED vars
    BY <1>8 DEF vars
  <1> QED
    BY <1>1, <1>2, <1>3, <1>4, <1>5, <1>6, <1>7, <1>8 DEF Next, ThreadStep

LEMMA PlaceTypesNext ==
  ASSUME ValueTypes, LocalTypes, [Next]_vars
  PROVE  PlaceTypes'
  <1> USE ThreadTypes DEF LocalTypes, PlaceTypes, BackTypes, Labels, Backs, Goto
  <1>n. NotStarted => New \in Started /\ New \in Threads
    BY NewType DEF ValueTypes
  <1>1. ASSUME NEW u \in Users, Call(u) PROVE PlaceTypes'
    BY <1>1, <1>n
       DEF Call, CallConnect, CallDisconnect, CallCancel, CallDestructor
  <1>2. ASSUME NEW t \in Threads, ConnectStep(t) PROVE PlaceTypes'
    BY <1>2, <1>n
       DEF ConnectStep, Clear, Attempt, Reach, JoinDisconnect, Lock, Reset,
           DialSucceeds, DialFails, Establish, Established, Failed, Sleep,
           Exhausted, StartThread
  <1>3. ASSUME NEW t \in Threads, CancelStep(t) PROVE PlaceTypes'
    BY <1>3, <1>n
       DEF CancelStep, Cancel, Signal, JoinReconnect
  <1>4. ASSUME NEW t \in Threads, DisconnectStep(t) PROVE PlaceTypes'
    BY <1>4, <1>n
       DEF DisconnectStep, Dispose, CheckDisconnecting, Await, CheckPassed, Mark,
           SpawnDisconnect, JoinTermination, CloseLock, Close, JoinReader,
           Finish, Unlock, StartThread
  <1>5. ASSUME NEW t \in Threads, ReconnectStep(t) PROVE PlaceTypes'
    BY <1>5, <1>n
       DEF ReconnectStep, Reconnect, StartReconnect, Begin, Retries, Pause, StartThread
  <1>6. ASSUME NEW t \in Threads, ReaderStep(t) PROVE PlaceTypes'
    BY <1>6, <1>n
       DEF ReaderStep, ReadFails, WriteFails, NoWriteFails, ReadAborted,
           TerminateConnection, StartThread
  <1>7. CASE Publisher
    BY <1>7, <1>n
       DEF Publisher, PeerBreaks, HandleRefusal, HandleRejection, StartThread
  <1>8. CASE UNCHANGED vars
    BY <1>8 DEF vars
  <1> QED
    BY <1>1, <1>2, <1>3, <1>4, <1>5, <1>6, <1>7, <1>8 DEF Next, ThreadStep

LEMMA ParametersNext ==
  ASSUME ValueTypes, LocalTypes, [Next]_vars
  PROVE  ParameterTypes'
  <1> USE ThreadTypes DEF LocalTypes, ParameterTypes, TargetTypes, locals
  <1>n. NotStarted => New \in Started /\ New \in Threads
    BY NewType DEF ValueTypes
  <1>1. ASSUME NEW u \in Users, Call(u) PROVE ParameterTypes'
    BY <1>1, <1>n
       DEF Call, CallConnect, CallDisconnect, CallCancel, CallDestructor
  <1>2. ASSUME NEW t \in Threads, ConnectStep(t) PROVE ParameterTypes'
    BY <1>2, <1>n
       DEF ConnectStep, Clear, Attempt, Reach, JoinDisconnect, Lock, Reset,
           DialSucceeds, DialFails, Establish, Established, Failed, Sleep,
           Exhausted, StartThread
  <1>3. ASSUME NEW t \in Threads, CancelStep(t) PROVE ParameterTypes'
    BY <1>3, <1>n
       DEF CancelStep, Cancel, Signal, JoinReconnect
  <1>4. ASSUME NEW t \in Threads, DisconnectStep(t) PROVE ParameterTypes'
    BY <1>4, <1>n
       DEF DisconnectStep, Dispose, CheckDisconnecting, Await, CheckPassed, Mark,
           SpawnDisconnect, JoinTermination, CloseLock, Close, JoinReader,
           Finish, Unlock, StartThread
  <1>5. ASSUME NEW t \in Threads, ReconnectStep(t) PROVE ParameterTypes'
    BY <1>5, <1>n
       DEF ReconnectStep, Reconnect, StartReconnect, Begin, Retries, Pause, StartThread
  <1>6. ASSUME NEW t \in Threads, ReaderStep(t) PROVE ParameterTypes'
    BY <1>6, <1>n
       DEF ReaderStep, ReadFails, WriteFails, NoWriteFails, ReadAborted,
           TerminateConnection, StartThread
  <1>7. CASE Publisher
    BY <1>7, <1>n
       DEF Publisher, PeerBreaks, HandleRefusal, HandleRejection, StartThread
  <1>8. CASE UNCHANGED vars
    BY <1>8 DEF vars
  <1> QED
    BY <1>1, <1>2, <1>3, <1>4, <1>5, <1>6, <1>7, <1>8 DEF Next, ThreadStep

LEMMA BackNext ==
  ASSUME ValueTypes, LocalTypes, [Next]_vars
  PROVE  BackTypes'
  <1> USE ThreadTypes DEF LocalTypes, BackTypes, Backs, locals
  <1>n. NotStarted => New \in Started /\ New \in Threads
    BY NewType DEF ValueTypes
  <1>1. ASSUME NEW u \in Users, Call(u) PROVE BackTypes'
    BY <1>1, <1>n
       DEF Call, CallConnect, CallDisconnect, CallCancel, CallDestructor
  <1>2. ASSUME NEW t \in Threads, ConnectStep(t) PROVE BackTypes'
    BY <1>2, <1>n
       DEF ConnectStep, Clear, Attempt, Reach, JoinDisconnect, Lock, Reset,
           DialSucceeds, DialFails, Establish, Established, Failed, Sleep,
           Exhausted, StartThread
  <1>3. ASSUME NEW t \in Threads, CancelStep(t) PROVE BackTypes'
    BY <1>3, <1>n
       DEF CancelStep, Cancel, Signal, JoinReconnect
  <1>4. ASSUME NEW t \in Threads, DisconnectStep(t) PROVE BackTypes'
    BY <1>4, <1>n
       DEF DisconnectStep, Dispose, CheckDisconnecting, Await, CheckPassed, Mark,
           SpawnDisconnect, JoinTermination, CloseLock, Close, JoinReader,
           Finish, Unlock, StartThread
  <1>5. ASSUME NEW t \in Threads, ReconnectStep(t) PROVE BackTypes'
    BY <1>5, <1>n
       DEF ReconnectStep, Reconnect, StartReconnect, Begin, Retries, Pause, StartThread
  <1>6. ASSUME NEW t \in Threads, ReaderStep(t) PROVE BackTypes'
    BY <1>6, <1>n
       DEF ReaderStep, ReadFails, WriteFails, NoWriteFails, ReadAborted,
           TerminateConnection, StartThread
  <1>7. CASE Publisher
    BY <1>7, <1>n
       DEF Publisher, PeerBreaks, HandleRefusal, HandleRejection, StartThread
  <1>8. CASE UNCHANGED vars
    BY <1>8 DEF vars
  <1> QED
    BY <1>1, <1>2, <1>3, <1>4, <1>5, <1>6, <1>7, <1>8 DEF Next, ThreadStep

LEMMA TargetNext ==
  ASSUME ValueTypes, LocalTypes, [Next]_vars
  PROVE  TargetTypes'
  <1> USE ThreadTypes DEF LocalTypes, ParameterTypes, TargetTypes, locals
  <1>n. NotStarted => New \in Started /\ New \in Threads
    BY NewType DEF ValueTypes
  <1>v. session \in Nat /\ reconnectThread \in Started \cup {None}
    BY DEF ValueTypes
  <1>1. ASSUME NEW u \in Users, Call(u) PROVE TargetTypes'
    BY <1>1, <1>n, <1>v
       DEF Call, CallConnect, CallDisconnect, CallCancel, CallDestructor
  <1>2. ASSUME NEW t \in Threads, ConnectStep(t) PROVE TargetTypes'
    BY <1>2, <1>n, <1>v
       DEF ConnectStep, Clear, Attempt, Reach, JoinDisconnect, Lock, Reset,
           DialSucceeds, DialFails, Establish, Established, Failed, Sleep,
           Exhausted, StartThread
  <1>3. ASSUME NEW t \in Threads, CancelStep(t) PROVE TargetTypes'
    BY <1>3, <1>n, <1>v
       DEF CancelStep, Cancel, Signal, JoinReconnect
  <1>4. ASSUME NEW t \in Threads, DisconnectStep(t) PROVE TargetTypes'
    BY <1>4, <1>n, <1>v
       DEF DisconnectStep, Dispose, CheckDisconnecting, Await, CheckPassed, Mark,
           SpawnDisconnect, JoinTermination, CloseLock, Close, JoinReader,
           Finish, Unlock, StartThread
  <1>5. ASSUME NEW t \in Threads, ReconnectStep(t) PROVE TargetTypes'
    BY <1>5, <1>n, <1>v
       DEF ReconnectStep, Reconnect, StartReconnect, Begin, Retries, Pause, StartThread
  <1>6. ASSUME NEW t \in Threads, ReaderStep(t) PROVE TargetTypes'
    BY <1>6, <1>n, <1>v
       DEF ReaderStep, ReadFails, WriteFails, NoWriteFails, ReadAborted,
           TerminateConnection, StartThread
  <1>7. CASE Publisher
    BY <1>7, <1>n, <1>v
       DEF Publisher, PeerBreaks, HandleRefusal, HandleRejection, StartThread
  <1>8. CASE UNCHANGED vars
    BY <1>8 DEF vars
  <1> QED
    BY <1>1, <1>2, <1>3, <1>4, <1>5, <1>6, <1>7, <1>8 DEF Next, ThreadStep

LEMMA TypeNext ==
  ASSUME TypeOK, [Next]_vars
  PROVE  TypeOK'
  <1>1. FlagTypes /\ ValueTypes /\ LocalTypes
    BY ThreeParts
  <1>2. FlagTypes' /\ ValueTypes' /\ LocalTypes'
    BY <1>1, FlagsNext, ValuesNext, PlaceTypesNext, ParametersNext, BackNext, TargetNext
       DEF LocalTypes
  <1> QED
    BY <1>2
       DEF TypeOK, FlagTypes, ValueTypes, LocalTypes, PlaceTypes, ParameterTypes,
       BackTypes, TargetTypes, Backs

(* Every variable keeps its type, and no thread is started that has no     *)
(* number.                                                                 *)
THEOREM TypeCorrect == Spec => []TypeOK
  BY TypeInit, TypeNext, PTL DEF Spec

-----------------------------------------------------------------------------
(* Where the threads are.                                                  *)

(* A disconnect thread after CANCEL, and one that its creator is about to  *)
(* start or that runs.                                                     *)
Disconnects ==
  {"joinT", "closeLock", "close", "joinReader", "finish", "unlock", "reconnect", "joinOld"}
Cancelling == {"cancel", "signal", "joinR"}
Doing(t) ==
  \/ pc[t] \in Disconnects \cup {"spawn"}
  \/ pc[t] \in Cancelling /\ back[t] = "joinT"

(* A connecting thread that has waited for the disconnect thread.          *)
Past(s) == pc[s] \in {"lock", "reset", "dial", "establish", "established"}

(* Numbers that are not given to a thread yet are nowhere.                 *)
FreshInv == \A t \in Started : t > started => pc[t] = "done" /\ back[t] = "done"

(* Only a disconnect thread goes on by joining the termination thread.     *)
BackInv ==
  \A t \in Threads : back[t] = "joinT" => pc[t] \in Disconnects \cup Cancelling \cup {"done"}

(* Only the destructor joins, and never on the way to a connection.        *)
JoinsInv == \A t \in Threads : joins[t] =>
  /\ pc[t] \in {"check", "mark", "spawn", "reach", "joinD", "await", "end"} \cup Cancelling
  /\ back[t] \in {"end", "await"}
AwaitInv == \A t \in Threads : pc[t] = "await" \/ back[t] = "await" => joins[t]

(* Only a disconnect that does not reconnect cancels, joins the termination *)
(* thread and takes the lock; only one that does starts the reconnection.  *)
AutoInv == \A t \in Threads :
  /\ pc[t] \in {"joinT", "closeLock", "unlock"} => ~auto[t]
  /\ pc[t] \in Cancelling /\ back[t] = "joinT" => ~auto[t]
  /\ pc[t] \in {"reconnect", "joinOld"} => auto[t]

(* m_connectActionMutex is held while connecting, and while closing in a   *)
(* disconnect that does not reconnect.                                     *)
Locks(t) ==
  \/ pc[t] \in {"reset", "dial", "establish", "established", "unlock"}
  \/ pc[t] \in {"close", "joinReader", "finish"} /\ ~auto[t]
OwnerInv == \A t \in Threads : Locks(t) => connectOwner = t

Places == FreshInv /\ BackInv /\ JoinsInv /\ AwaitInv /\ AutoInv /\ OwnerInv

-----------------------------------------------------------------------------
(* What the threads have agreed on as long as there was no race.           *)

(* One thread disconnects at a time, and the flags tell that it does:      *)
(* disconnecting until its work is done, disconnected from then on.        *)
Alone == \A s, t \in Threads : Doing(s) /\ Doing(t) => s = t
Marked == \A t \in Threads : Doing(t) =>
  /\ pc[t] \in {"unlock", "reconnect", "joinOld"} => disconnected
  /\ pc[t] \notin {"unlock", "reconnect", "joinOld"} => disconnecting

(* It is the one that m_disconnectThread names.                            *)
Named == \A t \in Threads : Doing(t) /\ pc[t] # "spawn" => disconnectThread = t

(* The disconnect of a lost connection takes no lock: no thread gets past  *)
(* the wait for it while it runs.                                          *)
Apart == \A s, t \in Threads : Doing(t) /\ auto[t] => ~Past(s)

(* One thread connects at a time, and only what is not connected.          *)
OneConnecting == \A s, t \in Threads : Connecting(s) /\ Connecting(t) => s = t
NotYet == \A s \in Threads : Connecting(s) /\ pc[s] # "established" => ~connected

(* The thread that reads is the one that m_commandChannelResponseThread    *)
(* names, and belongs to a connection, or to one that a thread which has   *)
(* yet to join it is closing; so none reads once a new connection starts.  *)
ReaderKept == \A r \in Threads : pc[r] = "reading" =>
  /\ readerThread = r
  /\ \/ connected
     \/ \E t \in Threads :
          Doing(t) /\ pc[t] \notin {"finish", "unlock", "reconnect", "joinOld"}
NoReader == \A s, r \in Threads :
  pc[s] \in {"lock", "reset", "dial", "establish"} => pc[r] # "reading"

RaceFree ==
  Alone /\ Marked /\ Named /\ Apart /\ OneConnecting /\ NotYet /\ ReaderKept /\ NoReader

-----------------------------------------------------------------------------
(* Places is inductive.                                                    *)

(* A thread that is started was nowhere, and no other than it and the one  *)
(* that starts it moves.                                                   *)
LEMMA Starts ==
  ASSUME ValueTypes, LocalTypes, FreshInv,
         NEW t \in Threads, pc[t] # "done", NEW l, NEW first, StartThread(t, l, first)
  PROVE  /\ New \in Started /\ New \in Threads /\ t # New
         /\ pc[New] = "done" /\ back[New] = "done"
         /\ pc' = [pc EXCEPT ![t] = l, ![New] = first]
         /\ \A s \in Threads : pc'[s] = IF s = New THEN first ELSE IF s = t THEN l ELSE pc[s]
         /\ \A s \in Started : s > started' => s > started /\ s # New /\ s # t
  <1>1. New \in Started /\ New \in Threads /\ New > started /\ started \in Nat
    BY NewType DEF ValueTypes, StartThread
  <1>2. t # New /\ pc[New] = "done" /\ back[New] = "done"
    BY <1>1 DEF FreshInv
  <1>3. \A s \in Started : s > started' => s > started /\ s # New /\ s # t
    BY <1>1, ThreadTypes DEF StartThread, FreshInv, New
  <1> QED
    BY <1>1, <1>2, <1>3 DEF StartThread, LocalTypes, PlaceTypes

(* Threads are numbered in the order they start.                           *)
LEMMA FreshNext ==
  ASSUME ValueTypes, LocalTypes, FreshInv, [Next]_vars
  PROVE  FreshInv'
  <1> USE ThreadTypes DEF FreshInv, LocalTypes, PlaceTypes, BackTypes, Goto, locals
  <1>n. NotStarted => New \in Started /\ New \in Threads /\ New > started /\ started \in Nat
    BY NewType DEF ValueTypes
  <1>s. ASSUME NEW t \in Threads, pc[t] # "done", NEW l, NEW first, StartThread(t, l, first)
        PROVE  /\ New \in Started /\ New \in Threads /\ t # New
               /\ pc[New] = "done" /\ back[New] = "done"
               /\ pc' = [pc EXCEPT ![t] = l, ![New] = first]
               /\ \A s \in Threads : pc'[s] = IF s = New THEN first ELSE IF s = t THEN l ELSE pc[s]
               /\ \A s \in Started : s > started' => s > started /\ s # New /\ s # t
    BY <1>s, Starts DEF Places
  <1>1. ASSUME NEW u \in Users, Call(u) PROVE FreshInv'
    BY <1>1, <1>n
       DEF Call, CallConnect, CallDisconnect, CallCancel, CallDestructor
  <1>2. ASSUME NEW t \in Threads, ConnectStep(t) PROVE FreshInv'
    <2>1. CASE Clear(t)
      BY <2>1, <1>n DEF Clear
    <2>2. CASE Attempt(t)
      BY <2>2, <1>n DEF Attempt
    <2>3. CASE Reach(t)
      BY <2>3, <1>n DEF Reach
    <2>4. CASE JoinDisconnect(t)
      BY <2>4, <1>n DEF JoinDisconnect
    <2>5. CASE Lock(t)
      BY <2>5, <1>n DEF Lock
    <2>6. CASE Reset(t)
      BY <2>6, <1>n DEF Reset
    <2>7. CASE DialSucceeds(t)
      BY <2>7, <1>n DEF DialSucceeds
    <2>8. CASE DialFails(t)
      BY <2>8, <1>n DEF DialFails
    <2>9. CASE Establish(t)
      BY <2>9, <1>n, <1>s DEF Establish
    <2>10. CASE Established(t)
      BY <2>10, <1>n DEF Established
    <2>11. CASE Failed(t)
      BY <2>11, <1>n DEF Failed
    <2>12. CASE Sleep(t)
      BY <2>12, <1>n DEF Sleep
    <2> QED
      BY <1>2, <2>1, <2>2, <2>3, <2>4, <2>5, <2>6, <2>7, <2>8, <2>9, <2>10, <2>11,
         <2>12
         DEF ConnectStep
  <1>3. ASSUME NEW t \in Threads, CancelStep(t) PROVE FreshInv'
    BY <1>3, <1>n
       DEF CancelStep, Cancel, Signal, JoinReconnect
  <1>4. ASSUME NEW t \in Threads, DisconnectStep(t) PROVE FreshInv'
    BY <1>4, <1>n
       DEF DisconnectStep, Dispose, CheckDisconnecting, Await, CheckPassed, Mark,
           SpawnDisconnect, JoinTermination, CloseLock, Close, JoinReader,
           Finish, Unlock, StartThread
  <1>5. ASSUME NEW t \in Threads, ReconnectStep(t) PROVE FreshInv'
    <2>1. CASE Reconnect(t)
      BY <2>1, <1>n DEF Reconnect
    <2>2. CASE StartReconnect(t)
      BY <2>2, <1>n, <1>s DEF StartReconnect
    <2>3. CASE Begin(t)
      BY <2>3, <1>n DEF Begin
    <2>4. CASE Retries(t)
      BY <2>4, <1>n DEF Retries
    <2>5. CASE Pause(t)
      BY <2>5, <1>n DEF Pause
    <2> QED
      BY <1>5, <2>1, <2>2, <2>3, <2>4, <2>5 DEF ReconnectStep
  <1>6. ASSUME NEW t \in Threads, ReaderStep(t) PROVE FreshInv'
    <2>1. CASE ReadFails(t)
      BY <2>1, <1>n, <1>s DEF ReadFails, TerminateConnection, Reading
    <2>2. CASE WriteFails(t)
      BY <2>2, <1>n, <1>s DEF WriteFails, TerminateConnection
    <2>3. CASE NoWriteFails(t)
      BY <2>3, <1>n DEF NoWriteFails
    <2>4. CASE ReadAborted(t)
      BY <2>4, <1>n DEF ReadAborted
    <2> QED
      BY <1>6, <2>1, <2>2, <2>3, <2>4 DEF ReaderStep
  <1>7. CASE Publisher
    <2>1. CASE PeerBreaks
      BY <2>1, <1>n DEF PeerBreaks
    <2>2. ASSUME NEW t \in Started, HandleRefusal(t) PROVE FreshInv'
      BY <2>2, <1>n DEF HandleRefusal
    <2>3. ASSUME NEW t \in Started, HandleRejection(t) PROVE FreshInv'
      BY <2>3, <1>n, <1>s DEF HandleRejection, Reading
    <2> QED
      BY <1>7, <2>1, <2>2, <2>3 DEF Publisher
  <1>8. CASE UNCHANGED vars
    BY <1>8 DEF vars
  <1> QED
    BY <1>1, <1>2, <1>3, <1>4, <1>5, <1>6, <1>7, <1>8 DEF Next, ThreadStep

(* back is "joinT" from the start of a disconnect thread to its end.       *)
LEMMA BackInvNext ==
  ASSUME ValueTypes, LocalTypes, FreshInv, BackInv, [Next]_vars
  PROVE  BackInv'
  <1> USE ThreadTypes
          DEF FreshInv, BackInv, Disconnects, Cancelling, LocalTypes, PlaceTypes,
              BackTypes, Backs, Goto, locals
  <1>n. NotStarted => New \in Started /\ New \in Threads /\ New > started /\ started \in Nat
    BY NewType DEF ValueTypes
  <1>s. ASSUME NEW t \in Threads, pc[t] # "done", NEW l, NEW first, StartThread(t, l, first)
        PROVE  /\ New \in Started /\ New \in Threads /\ t # New
               /\ pc[New] = "done" /\ back[New] = "done"
               /\ pc' = [pc EXCEPT ![t] = l, ![New] = first]
               /\ \A s \in Threads : pc'[s] = IF s = New THEN first ELSE IF s = t THEN l ELSE pc[s]
               /\ \A s \in Started : s > started' => s > started /\ s # New /\ s # t
    BY <1>s, Starts DEF Places
  <1>1. ASSUME NEW u \in Users, Call(u) PROVE BackInv'
    BY <1>1, <1>n
       DEF Call, CallConnect, CallDisconnect, CallCancel, CallDestructor
  <1>2. ASSUME NEW t \in Threads, ConnectStep(t) PROVE BackInv'
    BY <1>2, <1>n
       DEF ConnectStep, Clear, Attempt, Reach, JoinDisconnect, Lock, Reset,
           DialSucceeds, DialFails, Establish, Established, Failed, Sleep,
           StartThread
  <1>3. ASSUME NEW t \in Threads, CancelStep(t) PROVE BackInv'
    BY <1>3, <1>n
       DEF CancelStep, Cancel, Signal, JoinReconnect
  <1>4. ASSUME NEW t \in Threads, DisconnectStep(t) PROVE BackInv'
    BY <1>4, <1>n
       DEF DisconnectStep, Dispose, CheckDisconnecting, Await, CheckPassed, Mark,
           SpawnDisconnect, JoinTermination, CloseLock, Close, JoinReader,
           Finish, Unlock, StartThread
  <1>5. ASSUME NEW t \in Threads, ReconnectStep(t) PROVE BackInv'
    BY <1>5, <1>n
       DEF ReconnectStep, Reconnect, StartReconnect, Begin, Retries, Pause, StartThread
  <1>6. ASSUME NEW t \in Threads, ReaderStep(t) PROVE BackInv'
    <2>1. CASE ReadFails(t)
      BY <2>1, <1>n, <1>s DEF ReadFails, TerminateConnection, Reading
    <2>2. CASE WriteFails(t)
      BY <2>2, <1>n, <1>s DEF WriteFails, TerminateConnection
    <2>3. CASE NoWriteFails(t)
      BY <2>3, <1>n DEF NoWriteFails
    <2>4. CASE ReadAborted(t)
      BY <2>4, <1>n DEF ReadAborted
    <2> QED
      BY <1>6, <2>1, <2>2, <2>3, <2>4 DEF ReaderStep
  <1>7. CASE Publisher
    <2>1. CASE PeerBreaks
      BY <2>1, <1>n DEF PeerBreaks
    <2>2. ASSUME NEW t \in Started, HandleRefusal(t) PROVE BackInv'
      BY <2>2, <1>n DEF HandleRefusal
    <2>3. ASSUME NEW t \in Started, HandleRejection(t) PROVE BackInv'
      BY <2>3, <1>n, <1>s DEF HandleRejection, Reading
    <2> QED
      BY <1>7, <2>1, <2>2, <2>3 DEF Publisher
  <1>8. CASE UNCHANGED vars
    BY <1>8 DEF vars
  <1> QED
    BY <1>1, <1>2, <1>3, <1>4, <1>5, <1>6, <1>7, <1>8 DEF Next, ThreadStep

(* The destructor goes from one of its labels to the next.                 *)
LEMMA JoinsNext ==
  ASSUME ValueTypes, LocalTypes, FreshInv, BackInv, JoinsInv, AwaitInv, [Next]_vars
  PROVE  JoinsInv'
  <1> USE ThreadTypes
          DEF FreshInv, BackInv, JoinsInv, Disconnects, Cancelling, LocalTypes,
              PlaceTypes, BackTypes, ParameterTypes, Backs, Goto, locals
  <1>n. NotStarted => New \in Started /\ New \in Threads /\ New > started /\ started \in Nat
    BY NewType DEF ValueTypes
  <1>s. ASSUME NEW t \in Threads, pc[t] # "done", NEW l, NEW first, StartThread(t, l, first)
        PROVE  /\ New \in Started /\ New \in Threads /\ t # New
               /\ pc[New] = "done" /\ back[New] = "done"
               /\ pc' = [pc EXCEPT ![t] = l, ![New] = first]
               /\ \A s \in Threads : pc'[s] = IF s = New THEN first ELSE IF s = t THEN l ELSE pc[s]
               /\ \A s \in Started : s > started' => s > started /\ s # New /\ s # t
    BY <1>s, Starts DEF Places
  <1>1. ASSUME NEW u \in Users, Call(u) PROVE JoinsInv'
    BY <1>1, <1>n
       DEF Call, CallConnect, CallDisconnect, CallCancel, CallDestructor
  <1>2. ASSUME NEW t \in Threads, ConnectStep(t) PROVE JoinsInv'
    BY <1>2, <1>n
       DEF ConnectStep, Clear, Attempt, Reach, JoinDisconnect, Lock, Reset,
           DialSucceeds, DialFails, Establish, Established, Failed, Sleep,
           StartThread
  <1>3. ASSUME NEW t \in Threads, CancelStep(t) PROVE JoinsInv'
    BY <1>3, <1>n
       DEF CancelStep, Cancel, Signal, JoinReconnect
  <1>4. ASSUME NEW t \in Threads, DisconnectStep(t) PROVE JoinsInv'
    BY <1>4, <1>n
       DEF DisconnectStep, Dispose, CheckDisconnecting, Await, CheckPassed, Mark,
           SpawnDisconnect, JoinTermination, CloseLock, Close, JoinReader,
           Finish, Unlock, StartThread
  <1>5. ASSUME NEW t \in Threads, ReconnectStep(t) PROVE JoinsInv'
    BY <1>5, <1>n
       DEF ReconnectStep, Reconnect, StartReconnect, Begin, Retries, Pause, StartThread
  <1>6. ASSUME NEW t \in Threads, ReaderStep(t) PROVE JoinsInv'
    <2>1. CASE ReadFails(t)
      BY <2>1, <1>n, <1>s DEF ReadFails, TerminateConnection, Reading
    <2>2. CASE WriteFails(t)
      BY <2>2, <1>n, <1>s DEF WriteFails, TerminateConnection
    <2>3. CASE NoWriteFails(t)
      BY <2>3, <1>n DEF NoWriteFails
    <2>4. CASE ReadAborted(t)
      BY <2>4, <1>n DEF ReadAborted
    <2> QED
      BY <1>6, <2>1, <2>2, <2>3, <2>4 DEF ReaderStep
  <1>7. CASE Publisher
    <2>1. CASE PeerBreaks
      BY <2>1, <1>n DEF PeerBreaks
    <2>2. ASSUME NEW t \in Started, HandleRefusal(t) PROVE JoinsInv'
      BY <2>2, <1>n DEF HandleRefusal
    <2>3. ASSUME NEW t \in Started, HandleRejection(t) PROVE JoinsInv'
      BY <2>3, <1>n, <1>s DEF HandleRejection, Reading
    <2> QED
      BY <1>7, <2>1, <2>2, <2>3 DEF Publisher
  <1>8. CASE UNCHANGED vars
    BY <1>8 DEF vars
  <1> QED
    BY <1>1, <1>2, <1>3, <1>4, <1>5, <1>6, <1>7, <1>8 DEF Next, ThreadStep

(* Only the destructor awaits the end of another disconnect.               *)
LEMMA AwaitNext ==
  ASSUME ValueTypes, LocalTypes, FreshInv, BackInv, JoinsInv, AwaitInv, [Next]_vars
  PROVE  AwaitInv'
  <1> USE ThreadTypes
          DEF FreshInv, BackInv, JoinsInv, AwaitInv, Disconnects, Cancelling,
              LocalTypes, PlaceTypes, BackTypes, ParameterTypes, Backs, Goto, locals
  <1>n. NotStarted => New \in Started /\ New \in Threads /\ New > started /\ started \in Nat
    BY NewType DEF ValueTypes
  <1>1. ASSUME NEW u \in Users, Call(u) PROVE AwaitInv'
    BY <1>1, <1>n
       DEF Call, CallConnect, CallDisconnect, CallCancel, CallDestructor
  <1>2. ASSUME NEW t \in Threads, ConnectStep(t) PROVE AwaitInv'
    BY <1>2, <1>n
       DEF ConnectStep, Clear, Attempt, Reach, JoinDisconnect, Lock, Reset,
           DialSucceeds, DialFails, Establish, Established, Failed, Sleep,
           StartThread
  <1>3. ASSUME NEW t \in Threads, CancelStep(t) PROVE AwaitInv'
    BY <1>3, <1>n
       DEF CancelStep, Cancel, Signal, JoinReconnect
  <1>4. ASSUME NEW t \in Threads, DisconnectStep(t) PROVE AwaitInv'
    BY <1>4, <1>n
       DEF DisconnectStep, Dispose, CheckDisconnecting, Await, CheckPassed, Mark,
           SpawnDisconnect, JoinTermination, CloseLock, Close, JoinReader,
           Finish, Unlock, StartThread
  <1>5. ASSUME NEW t \in Threads, ReconnectStep(t) PROVE AwaitInv'
    BY <1>5, <1>n
       DEF ReconnectStep, Reconnect, StartReconnect, Begin, Retries, Pause, StartThread
  <1>6. ASSUME NEW t \in Threads, ReaderStep(t) PROVE AwaitInv'
    BY <1>6, <1>n
       DEF ReaderStep, ReadFails, WriteFails, NoWriteFails, ReadAborted,
           TerminateConnection, StartThread
  <1>7. CASE Publisher
    BY <1>7, <1>n
       DEF Publisher, PeerBreaks, HandleRefusal, HandleRejection, StartThread
  <1>8. CASE UNCHANGED vars
    BY <1>8 DEF vars
  <1> QED
    BY <1>1, <1>2, <1>3, <1>4, <1>5, <1>6, <1>7, <1>8 DEF Next, ThreadStep

(* The parameter autoReconnecting is chosen with the first label.          *)
LEMMA AutoNext ==
  ASSUME ValueTypes, LocalTypes, FreshInv, BackInv, AutoInv, [Next]_vars
  PROVE  AutoInv'
  <1> USE ThreadTypes
          DEF FreshInv, BackInv, AutoInv, Disconnects, Cancelling, LocalTypes,
              PlaceTypes, BackTypes, ParameterTypes, Backs, Goto, locals
  <1>n. NotStarted => New \in Started /\ New \in Threads /\ New > started /\ started \in Nat
    BY NewType DEF ValueTypes
  <1>1. ASSUME NEW u \in Users, Call(u) PROVE AutoInv'
    BY <1>1, <1>n
       DEF Call, CallConnect, CallDisconnect, CallCancel, CallDestructor
  <1>2. ASSUME NEW t \in Threads, ConnectStep(t) PROVE AutoInv'
    BY <1>2, <1>n
       DEF ConnectStep, Clear, Attempt, Reach, JoinDisconnect, Lock, Reset,
           DialSucceeds, DialFails, Establish, Established, Failed, Sleep,
           StartThread
  <1>3. ASSUME NEW t \in Threads, CancelStep(t) PROVE AutoInv'
    BY <1>3, <1>n
       DEF CancelStep, Cancel, Signal, JoinReconnect
  <1>4. ASSUME NEW t \in Threads, DisconnectStep(t) PROVE AutoInv'
    BY <1>4, <1>n
       DEF DisconnectStep, Dispose, CheckDisconnecting, Await, CheckPassed, Mark,
           SpawnDisconnect, JoinTermination, CloseLock, Close, JoinReader,
           Finish, Unlock, StartThread
  <1>5. ASSUME NEW t \in Threads, ReconnectStep(t) PROVE AutoInv'
    BY <1>5, <1>n
       DEF ReconnectStep, Reconnect, StartReconnect, Begin, Retries, Pause, StartThread
  <1>6. ASSUME NEW t \in Threads, ReaderStep(t) PROVE AutoInv'
    BY <1>6, <1>n
       DEF ReaderStep, ReadFails, WriteFails, NoWriteFails, ReadAborted,
           TerminateConnection, StartThread
  <1>7. CASE Publisher
    BY <1>7, <1>n
       DEF Publisher, PeerBreaks, HandleRefusal, HandleRejection, StartThread
  <1>8. CASE UNCHANGED vars
    BY <1>8 DEF vars
  <1> QED
    BY <1>1, <1>2, <1>3, <1>4, <1>5, <1>6, <1>7, <1>8 DEF Next, ThreadStep

(* The lock is taken when it is free, and given back by its holder.        *)
LEMMA OwnerNext ==
  ASSUME ValueTypes, LocalTypes, FreshInv, BackInv, JoinsInv, AutoInv, OwnerInv, [Next]_vars
  PROVE  OwnerInv'
  <1> USE ThreadTypes
          DEF FreshInv, BackInv, AutoInv, OwnerInv, Locks, Disconnects, Cancelling,
              LocalTypes, PlaceTypes, BackTypes, ParameterTypes, Backs, Goto, locals,
              owners
  <1>n. NotStarted => New \in Started /\ New \in Threads /\ New > started /\ started \in Nat
    BY NewType DEF ValueTypes
  <1>1. ASSUME NEW u \in Users, Call(u) PROVE OwnerInv'
    BY <1>1, <1>n
       DEF Call, CallConnect, CallDisconnect, CallCancel, CallDestructor
  <1>2. ASSUME NEW t \in Threads, ConnectStep(t) PROVE OwnerInv'
    BY <1>2, <1>n
       DEF ConnectStep, Clear, Attempt, Reach, JoinDisconnect, Lock, Reset,
           DialSucceeds, DialFails, Establish, Established, Failed, Sleep,
           StartThread
  <1>3. ASSUME NEW t \in Threads, CancelStep(t) PROVE OwnerInv'
    BY <1>3, <1>n
       DEF CancelStep, Cancel, Signal, JoinReconnect
  <1>4. ASSUME NEW t \in Threads, DisconnectStep(t) PROVE OwnerInv'
    BY <1>4, <1>n
       DEF DisconnectStep, Dispose, CheckDisconnecting, Await, CheckPassed, Mark,
           SpawnDisconnect, JoinTermination, CloseLock, Close, JoinReader,
           Finish, Unlock, StartThread
  <1>5. ASSUME NEW t \in Threads, ReconnectStep(t) PROVE OwnerInv'
    BY <1>5, <1>n
       DEF ReconnectStep, Reconnect, StartReconnect, Begin, Retries, Pause, StartThread
  <1>6. ASSUME NEW t \in Threads, ReaderStep(t) PROVE OwnerInv'
    BY <1>6, <1>n
       DEF ReaderStep, ReadFails, WriteFails, NoWriteFails, ReadAborted,
           TerminateConnection, StartThread
  <1>7. CASE Publisher
    BY <1>7, <1>n
       DEF Publisher, PeerBreaks, HandleRefusal, HandleRejection, StartThread
  <1>8. CASE UNCHANGED vars
    BY <1>8 DEF vars
  <1> QED
    BY <1>1, <1>2, <1>3, <1>4, <1>5, <1>6, <1>7, <1>8 DEF Next, ThreadStep

-----------------------------------------------------------------------------
(* RaceFree is inductive as long as no step is a race.                     *)

(* A race that has happened is not forgotten.                              *)
LEMMA RaceStays ==
  ASSUME ~raced', [Next]_vars
  PROVE  ~raced
  <1> USE DEF history
  <1>1. ASSUME NEW u \in Users, Call(u) PROVE ~raced
    BY <1>1
       DEF Call, CallConnect, CallDisconnect, CallCancel, CallDestructor
  <1>2. ASSUME NEW t \in Threads, ConnectStep(t) PROVE ~raced
    BY <1>2
       DEF ConnectStep, Clear, Attempt, Reach, JoinDisconnect, Lock, Reset,
           DialSucceeds, DialFails, Establish, Established, Failed, Sleep,
           StartThread
  <1>3. ASSUME NEW t \in Threads, CancelStep(t) PROVE ~raced
    BY <1>3
       DEF CancelStep, Cancel, Signal, JoinReconnect
  <1>4. ASSUME NEW t \in Threads, DisconnectStep(t) PROVE ~raced
    BY <1>4
       DEF DisconnectStep, Dispose, CheckDisconnecting, Await, CheckPassed, Mark,
           SpawnDisconnect, JoinTermination, CloseLock, Close, JoinReader,
           Finish, Unlock, StartThread
  <1>5. ASSUME NEW t \in Threads, ReconnectStep(t) PROVE ~raced
    BY <1>5
       DEF ReconnectStep, Reconnect, StartReconnect, Begin, Retries, Pause, StartThread
  <1>6. ASSUME NEW t \in Threads, ReaderStep(t) PROVE ~raced
    BY <1>6
       DEF ReaderStep, ReadFails, WriteFails, NoWriteFails, ReadAborted,
           TerminateConnection, StartThread
  <1>7. CASE Publisher
    BY <1>7
       DEF Publisher, PeerBreaks, HandleRefusal, HandleRejection, StartThread
  <1>8. CASE UNCHANGED vars
    BY <1>8 DEF vars
  <1> QED
    BY <1>1, <1>2, <1>3, <1>4, <1>5, <1>6, <1>7, <1>8 DEF Next, ThreadStep

(* A second thread disconnects only if it passed the check before the flag *)
(* was set: Mark counts that as a race.                                    *)
LEMMA AloneNext ==
  ASSUME ValueTypes, LocalTypes, Places, RaceFree, ~raced', [Next]_vars
  PROVE  Alone'
  <1> USE ThreadTypes
          DEF Places, FreshInv, BackInv, JoinsInv, AwaitInv, AutoInv, RaceFree,
              Doing, Connecting, Past, Disconnects, Cancelling, LocalTypes,
              PlaceTypes, BackTypes, ParameterTypes, Backs, Goto, locals, history,
              Alone, Marked, flags, IsDisconnecting
  <1>n. NotStarted => New \in Started /\ New \in Threads /\ New > started /\ started \in Nat
    BY NewType DEF ValueTypes
  <1>s. ASSUME NEW t \in Threads, pc[t] # "done", NEW l, NEW first, StartThread(t, l, first)
        PROVE  /\ New \in Started /\ New \in Threads /\ t # New
               /\ pc[New] = "done" /\ back[New] = "done"
               /\ pc' = [pc EXCEPT ![t] = l, ![New] = first]
               /\ \A s \in Threads : pc'[s] = IF s = New THEN first ELSE IF s = t THEN l ELSE pc[s]
               /\ \A s \in Started : s > started' => s > started /\ s # New /\ s # t
    BY <1>s, Starts DEF Places
  <1>1. ASSUME NEW u \in Users, Call(u) PROVE Alone'
    BY <1>1, <1>n
       DEF Call, CallConnect, CallDisconnect, CallCancel, CallDestructor
  <1>2. ASSUME NEW t \in Threads, ConnectStep(t) PROVE Alone'
    BY <1>2, <1>n
       DEF ConnectStep, Clear, Attempt, Reach, JoinDisconnect, Lock, Reset,
           DialSucceeds, DialFails, Establish, Established, Failed, Sleep,
           StartThread
  <1>3. ASSUME NEW t \in Threads, CancelStep(t) PROVE Alone'
    BY <1>3, <1>n
       DEF CancelStep, Cancel, Signal, JoinReconnect
  <1>4. ASSUME NEW t \in Threads, DisconnectStep(t) PROVE Alone'
    <2>1. CASE Dispose(t)
      BY <2>1, <1>n DEF Dispose
    <2>2. CASE CheckDisconnecting(t)
      BY <2>2, <1>n DEF CheckDisconnecting
    <2>3. CASE Await(t)
      BY <2>3, <1>n DEF Await
    <2>4. CASE CheckPassed(t)
      BY <2>4, <1>n DEF CheckPassed
    <2>5. CASE Mark(t)
      <3>1. \A s \in Threads : ~Doing(s)
        BY <2>5 DEF Mark
      <3>2. \A s \in Threads : s # t => pc'[s] = pc[s] /\ back'[s] = back[s]
        BY <2>5 DEF Mark
      <3> QED
        BY <3>1, <3>2
    <2>6. CASE SpawnDisconnect(t)
      BY <2>6, <1>n, <1>s DEF SpawnDisconnect
    <2>7. CASE JoinTermination(t)
      BY <2>7, <1>n DEF JoinTermination
    <2>8. CASE CloseLock(t)
      BY <2>8, <1>n DEF CloseLock
    <2>9. CASE Close(t)
      BY <2>9, <1>n DEF Close
    <2>10. CASE JoinReader(t)
      BY <2>10, <1>n DEF JoinReader
    <2>11. CASE Finish(t)
      BY <2>11, <1>n DEF Finish
    <2>12. CASE Unlock(t)
      BY <2>12, <1>n DEF Unlock
    <2> QED
      BY <1>4, <2>1, <2>2, <2>3, <2>4, <2>5, <2>6, <2>7, <2>8, <2>9, <2>10, <2>11,
         <2>12
         DEF DisconnectStep
  <1>5. ASSUME NEW t \in Threads, ReconnectStep(t) PROVE Alone'
    BY <1>5, <1>n
       DEF ReconnectStep, Reconnect, StartReconnect, Begin, Retries, Pause, StartThread
  <1>6. ASSUME NEW t \in Threads, ReaderStep(t) PROVE Alone'
    BY <1>6, <1>n
       DEF ReaderStep, ReadFails, WriteFails, NoWriteFails, ReadAborted,
           TerminateConnection, StartThread
  <1>7. CASE Publisher
    BY <1>7, <1>n
       DEF Publisher, PeerBreaks, HandleRefusal, HandleRejection, StartThread
  <1>8. CASE UNCHANGED vars
    BY <1>8 DEF vars
  <1> QED
    BY <1>1, <1>2, <1>3, <1>4, <1>5, <1>6, <1>7, <1>8 DEF Next, ThreadStep

(* Only the thread that disconnects, or one that connects after it, resets *)
(* the flags.                                                              *)
LEMMA MarkedNext ==
  ASSUME ValueTypes, LocalTypes, Places, RaceFree, ~raced', [Next]_vars
  PROVE  Marked'
  <1> USE ThreadTypes
          DEF Places, FreshInv, BackInv, JoinsInv, AwaitInv, AutoInv, RaceFree,
              Doing, Connecting, Past, Disconnects, Cancelling, LocalTypes,
              PlaceTypes, BackTypes, ParameterTypes, Backs, Goto, locals, history,
              Marked, Alone, Apart, OwnerInv, Locks, flags
  <1>n. NotStarted => New \in Started /\ New \in Threads /\ New > started /\ started \in Nat
    BY NewType DEF ValueTypes
  <1>1. ASSUME NEW u \in Users, Call(u) PROVE Marked'
    BY <1>1, <1>n
       DEF Call, CallConnect, CallDisconnect, CallCancel, CallDestructor
  <1>2. ASSUME NEW t \in Threads, ConnectStep(t) PROVE Marked'
    BY <1>2, <1>n
       DEF ConnectStep, Clear, Attempt, Reach, JoinDisconnect, Lock, Reset,
           DialSucceeds, DialFails, Establish, Established, Failed, Sleep,
           StartThread
  <1>3. ASSUME NEW t \in Threads, CancelStep(t) PROVE Marked'
    BY <1>3, <1>n
       DEF CancelStep, Cancel, Signal, JoinReconnect
  <1>4. ASSUME NEW t \in Threads, DisconnectStep(t) PROVE Marked'
    BY <1>4, <1>n
       DEF DisconnectStep, Dispose, CheckDisconnecting, Await, CheckPassed, Mark,
           SpawnDisconnect, JoinTermination, CloseLock, Close, JoinReader,
           Finish, Unlock, StartThread
  <1>5. ASSUME NEW t \in Threads, ReconnectStep(t) PROVE Marked'
    BY <1>5, <1>n
       DEF ReconnectStep, Reconnect, StartReconnect, Begin, Retries, Pause, StartThread
  <1>6. ASSUME NEW t \in Threads, ReaderStep(t) PROVE Marked'
    BY <1>6, <1>n
       DEF ReaderStep, ReadFails, WriteFails, NoWriteFails, ReadAborted,
           TerminateConnection, StartThread
  <1>7. CASE Publisher
    BY <1>7, <1>n
       DEF Publisher, PeerBreaks, HandleRefusal, HandleRejection, StartThread
  <1>8. CASE UNCHANGED vars
    BY <1>8 DEF vars
  <1> QED
    BY <1>1, <1>2, <1>3, <1>4, <1>5, <1>6, <1>7, <1>8 DEF Next, ThreadStep

(* The handle is assigned with the start of the thread.                    *)
LEMMA NamedNext ==
  ASSUME ValueTypes, LocalTypes, Places, RaceFree, ~raced', [Next]_vars
  PROVE  Named'
  <1> USE ThreadTypes
          DEF Places, FreshInv, BackInv, JoinsInv, AwaitInv, AutoInv, RaceFree,
              Doing, Connecting, Past, Disconnects, Cancelling, LocalTypes,
              PlaceTypes, BackTypes, ParameterTypes, Backs, Goto, locals, history,
              Named, Alone, handles
  <1>n. NotStarted => New \in Started /\ New \in Threads /\ New > started /\ started \in Nat
    BY NewType DEF ValueTypes
  <1>1. ASSUME NEW u \in Users, Call(u) PROVE Named'
    BY <1>1, <1>n
       DEF Call, CallConnect, CallDisconnect, CallCancel, CallDestructor
  <1>2. ASSUME NEW t \in Threads, ConnectStep(t) PROVE Named'
    BY <1>2, <1>n
       DEF ConnectStep, Clear, Attempt, Reach, JoinDisconnect, Lock, Reset,
           DialSucceeds, DialFails, Establish, Established, Failed, Sleep,
           StartThread
  <1>3. ASSUME NEW t \in Threads, CancelStep(t) PROVE Named'
    BY <1>3, <1>n
       DEF CancelStep, Cancel, Signal, JoinReconnect
  <1>4. ASSUME NEW t \in Threads, DisconnectStep(t) PROVE Named'
    BY <1>4, <1>n
       DEF DisconnectStep, Dispose, CheckDisconnecting, Await, CheckPassed, Mark,
           SpawnDisconnect, JoinTermination, CloseLock, Close, JoinReader,
           Finish, Unlock, StartThread
  <1>5. ASSUME NEW t \in Threads, ReconnectStep(t) PROVE Named'
    BY <1>5, <1>n
       DEF ReconnectStep, Reconnect, StartReconnect, Begin, Retries, Pause, StartThread
  <1>6. ASSUME NEW t \in Threads, ReaderStep(t) PROVE Named'
    BY <1>6, <1>n
       DEF ReaderStep, ReadFails, WriteFails, NoWriteFails, ReadAborted,
           TerminateConnection, StartThread
  <1>7. CASE Publisher
    BY <1>7, <1>n
       DEF Publisher, PeerBreaks, HandleRefusal, HandleRejection, StartThread
  <1>8. CASE UNCHANGED vars
    BY <1>8 DEF vars
  <1> QED
    BY <1>1, <1>2, <1>3, <1>4, <1>5, <1>6, <1>7, <1>8 DEF Next, ThreadStep

(* A thread that passes the wait joined the disconnect thread, or raced    *)
(* with one that was still to be started.                                  *)
LEMMA ApartNext ==
  ASSUME ValueTypes, LocalTypes, Places, RaceFree, ~raced', [Next]_vars
  PROVE  Apart'
  <1> USE ThreadTypes
          DEF Places, FreshInv, BackInv, JoinsInv, AwaitInv, AutoInv, RaceFree,
              Doing, Connecting, Past, Disconnects, Cancelling, LocalTypes,
              PlaceTypes, BackTypes, ParameterTypes, Backs, Goto, locals, history,
              Apart, Named, Ended, OneConnecting
  <1>n. NotStarted => New \in Started /\ New \in Threads /\ New > started /\ started \in Nat
    BY NewType DEF ValueTypes
  <1>1. ASSUME NEW u \in Users, Call(u) PROVE Apart'
    BY <1>1, <1>n
       DEF Call, CallConnect, CallDisconnect, CallCancel, CallDestructor
  <1>2. ASSUME NEW t \in Threads, ConnectStep(t) PROVE Apart'
    BY <1>2, <1>n
       DEF ConnectStep, Clear, Attempt, Reach, JoinDisconnect, Lock, Reset,
           DialSucceeds, DialFails, Establish, Established, Failed, Sleep,
           StartThread
  <1>3. ASSUME NEW t \in Threads, CancelStep(t) PROVE Apart'
    BY <1>3, <1>n
       DEF CancelStep, Cancel, Signal, JoinReconnect
  <1>4. ASSUME NEW t \in Threads, DisconnectStep(t) PROVE Apart'
    BY <1>4, <1>n
       DEF DisconnectStep, Dispose, CheckDisconnecting, Await, CheckPassed, Mark,
           SpawnDisconnect, JoinTermination, CloseLock, Close, JoinReader,
           Finish, Unlock, StartThread
  <1>5. ASSUME NEW t \in Threads, ReconnectStep(t) PROVE Apart'
    BY <1>5, <1>n
       DEF ReconnectStep, Reconnect, StartReconnect, Begin, Retries, Pause, StartThread
  <1>6. ASSUME NEW t \in Threads, ReaderStep(t) PROVE Apart'
    BY <1>6, <1>n
       DEF ReaderStep, ReadFails, WriteFails, NoWriteFails, ReadAborted,
           TerminateConnection, StartThread
  <1>7. CASE Publisher
    BY <1>7, <1>n
       DEF Publisher, PeerBreaks, HandleRefusal, HandleRejection, StartThread
  <1>8. CASE UNCHANGED vars
    BY <1>8 DEF vars
  <1> QED
    BY <1>1, <1>2, <1>3, <1>4, <1>5, <1>6, <1>7, <1>8 DEF Next, ThreadStep

(* A second thread starts to connect only in a race (Attempt).             *)
LEMMA OneConnectingNext ==
  ASSUME ValueTypes, LocalTypes, Places, RaceFree, ~raced', [Next]_vars
  PROVE  OneConnecting'
  <1> USE ThreadTypes
          DEF Places, FreshInv, BackInv, JoinsInv, AwaitInv, AutoInv, RaceFree,
              Doing, Connecting, Past, Disconnects, Cancelling, LocalTypes,
              PlaceTypes, BackTypes, ParameterTypes, Backs, Goto, locals, history,
              OneConnecting
  <1>n. NotStarted => New \in Started /\ New \in Threads /\ New > started /\ started \in Nat
    BY NewType DEF ValueTypes
  <1>s. ASSUME NEW t \in Threads, pc[t] # "done", NEW l, NEW first, StartThread(t, l, first)
        PROVE  /\ New \in Started /\ New \in Threads /\ t # New
               /\ pc[New] = "done" /\ back[New] = "done"
               /\ pc' = [pc EXCEPT ![t] = l, ![New] = first]
               /\ \A s \in Threads : pc'[s] = IF s = New THEN first ELSE IF s = t THEN l ELSE pc[s]
               /\ \A s \in Started : s > started' => s > started /\ s # New /\ s # t
    BY <1>s, Starts DEF Places
  <1>1. ASSUME NEW u \in Users, Call(u) PROVE OneConnecting'
    BY <1>1, <1>n
       DEF Call, CallConnect, CallDisconnect, CallCancel, CallDestructor
  <1>2. ASSUME NEW t \in Threads, ConnectStep(t) PROVE OneConnecting'
    <2>1. CASE Clear(t)
      BY <2>1, <1>n DEF Clear
    <2>2. CASE Attempt(t)
      <3>1. \A s \in Threads : s # t => pc'[s] = pc[s]
        BY <2>2 DEF Attempt
      <3>2. joins' = joins /\ pc'[t] \in {back[t], "failed", "reach"}
        BY <2>2 DEF Attempt
      <3>3. ASSUME pc'[t] = "reach" PROVE \A s \in Threads : ~Connecting(s)
        BY <2>2, <3>3 DEF Attempt
      <3> QED
        BY <3>1, <3>2, <3>3
    <2>3. CASE Reach(t)
      BY <2>3, <1>n DEF Reach
    <2>4. CASE JoinDisconnect(t)
      BY <2>4, <1>n DEF JoinDisconnect
    <2>5. CASE Lock(t)
      BY <2>5, <1>n DEF Lock
    <2>6. CASE Reset(t)
      BY <2>6, <1>n DEF Reset
    <2>7. CASE DialSucceeds(t)
      BY <2>7, <1>n DEF DialSucceeds
    <2>8. CASE DialFails(t)
      BY <2>8, <1>n DEF DialFails
    <2>9. CASE Establish(t)
      BY <2>9, <1>n, <1>s DEF Establish
    <2>10. CASE Established(t)
      BY <2>10, <1>n DEF Established
    <2>11. CASE Failed(t)
      BY <2>11, <1>n DEF Failed
    <2>12. CASE Sleep(t)
      BY <2>12, <1>n DEF Sleep
    <2> QED
      BY <1>2, <2>1, <2>2, <2>3, <2>4, <2>5, <2>6, <2>7, <2>8, <2>9, <2>10, <2>11,
         <2>12
         DEF ConnectStep
  <1>3. ASSUME NEW t \in Threads, CancelStep(t) PROVE OneConnecting'
    BY <1>3, <1>n
       DEF CancelStep, Cancel, Signal, JoinReconnect
  <1>4. ASSUME NEW t \in Threads, DisconnectStep(t) PROVE OneConnecting'
    <2>1. CASE Dispose(t)
      BY <2>1, <1>n DEF Dispose
    <2>2. CASE CheckDisconnecting(t)
      BY <2>2, <1>n DEF CheckDisconnecting
    <2>3. CASE Await(t)
      BY <2>3, <1>n DEF Await
    <2>4. CASE CheckPassed(t)
      BY <2>4, <1>n DEF CheckPassed
    <2>5. CASE Mark(t)
      BY <2>5, <1>n DEF Mark
    <2>6. CASE SpawnDisconnect(t)
      BY <2>6, <1>n, <1>s DEF SpawnDisconnect
    <2>7. CASE JoinTermination(t)
      BY <2>7, <1>n DEF JoinTermination
    <2>8. CASE CloseLock(t)
      BY <2>8, <1>n DEF CloseLock
    <2>9. CASE Close(t)
      BY <2>9, <1>n DEF Close
    <2>10. CASE JoinReader(t)
      BY <2>10, <1>n DEF JoinReader
    <2>11. CASE Finish(t)
      BY <2>11, <1>n DEF Finish
    <2>12. CASE Unlock(t)
      BY <2>12, <1>n DEF Unlock
    <2> QED
      BY <1>4, <2>1, <2>2, <2>3, <2>4, <2>5, <2>6, <2>7, <2>8, <2>9, <2>10, <2>11,
         <2>12
         DEF DisconnectStep
  <1>5. ASSUME NEW t \in Threads, ReconnectStep(t) PROVE OneConnecting'
    BY <1>5, <1>n
       DEF ReconnectStep, Reconnect, StartReconnect, Begin, Retries, Pause, StartThread
  <1>6. ASSUME NEW t \in Threads, ReaderStep(t) PROVE OneConnecting'
    BY <1>6, <1>n
       DEF ReaderStep, ReadFails, WriteFails, NoWriteFails, ReadAborted,
           TerminateConnection, StartThread
  <1>7. CASE Publisher
    BY <1>7, <1>n
       DEF Publisher, PeerBreaks, HandleRefusal, HandleRejection, StartThread
  <1>8. CASE UNCHANGED vars
    BY <1>8 DEF vars
  <1> QED
    BY <1>1, <1>2, <1>3, <1>4, <1>5, <1>6, <1>7, <1>8 DEF Next, ThreadStep

(* A thread that connects saw no connection, and only it makes one.        *)
LEMMA NotYetNext ==
  ASSUME ValueTypes, LocalTypes, Places, RaceFree, ~raced', [Next]_vars
  PROVE  NotYet'
  <1> USE ThreadTypes
          DEF Places, FreshInv, BackInv, JoinsInv, AwaitInv, AutoInv, RaceFree,
              Doing, Connecting, Past, Disconnects, Cancelling, LocalTypes,
              PlaceTypes, BackTypes, ParameterTypes, Backs, Goto, locals, history,
              NotYet, OneConnecting, flags
  <1>n. NotStarted => New \in Started /\ New \in Threads /\ New > started /\ started \in Nat
    BY NewType DEF ValueTypes
  <1>s. ASSUME NEW t \in Threads, pc[t] # "done", NEW l, NEW first, StartThread(t, l, first)
        PROVE  /\ New \in Started /\ New \in Threads /\ t # New
               /\ pc[New] = "done" /\ back[New] = "done"
               /\ pc' = [pc EXCEPT ![t] = l, ![New] = first]
               /\ \A s \in Threads : pc'[s] = IF s = New THEN first ELSE IF s = t THEN l ELSE pc[s]
               /\ \A s \in Started : s > started' => s > started /\ s # New /\ s # t
    BY <1>s, Starts DEF Places
  <1>1. ASSUME NEW u \in Users, Call(u) PROVE NotYet'
    BY <1>1, <1>n
       DEF Call, CallConnect, CallDisconnect, CallCancel, CallDestructor
  <1>2. ASSUME NEW t \in Threads, ConnectStep(t) PROVE NotYet'
    BY <1>2, <1>n
       DEF ConnectStep, Clear, Attempt, Reach, JoinDisconnect, Lock, Reset,
           DialSucceeds, DialFails, Establish, Established, Failed, Sleep,
           StartThread
  <1>3. ASSUME NEW t \in Threads, CancelStep(t) PROVE NotYet'
    BY <1>3, <1>n
       DEF CancelStep, Cancel, Signal, JoinReconnect
  <1>4. ASSUME NEW t \in Threads, DisconnectStep(t) PROVE NotYet'
    <2>1. CASE Dispose(t)
      BY <2>1, <1>n DEF Dispose
    <2>2. CASE CheckDisconnecting(t)
      BY <2>2, <1>n DEF CheckDisconnecting
    <2>3. CASE Await(t)
      BY <2>3, <1>n DEF Await
    <2>4. CASE CheckPassed(t)
      BY <2>4, <1>n DEF CheckPassed
    <2>5. CASE Mark(t)
      BY <2>5, <1>n DEF Mark
    <2>6. CASE SpawnDisconnect(t)
      BY <2>6, <1>n, <1>s DEF SpawnDisconnect
    <2>7. CASE JoinTermination(t)
      BY <2>7, <1>n DEF JoinTermination
    <2>8. CASE CloseLock(t)
      BY <2>8, <1>n DEF CloseLock
    <2>9. CASE Close(t)
      BY <2>9, <1>n DEF Close
    <2>10. CASE JoinReader(t)
      BY <2>10, <1>n DEF JoinReader
    <2>11. CASE Finish(t)
      BY <2>11, <1>n DEF Finish
    <2>12. CASE Unlock(t)
      BY <2>12, <1>n DEF Unlock
    <2> QED
      BY <1>4, <2>1, <2>2, <2>3, <2>4, <2>5, <2>6, <2>7, <2>8, <2>9, <2>10, <2>11,
         <2>12
         DEF DisconnectStep
  <1>5. ASSUME NEW t \in Threads, ReconnectStep(t) PROVE NotYet'
    BY <1>5, <1>n
       DEF ReconnectStep, Reconnect, StartReconnect, Begin, Retries, Pause, StartThread
  <1>6. ASSUME NEW t \in Threads, ReaderStep(t) PROVE NotYet'
    BY <1>6, <1>n
       DEF ReaderStep, ReadFails, WriteFails, NoWriteFails, ReadAborted,
           TerminateConnection, StartThread
  <1>7. CASE Publisher
    BY <1>7, <1>n
       DEF Publisher, PeerBreaks, HandleRefusal, HandleRejection, StartThread
  <1>8. CASE UNCHANGED vars
    BY <1>8 DEF vars
  <1> QED
    BY <1>1, <1>2, <1>3, <1>4, <1>5, <1>6, <1>7, <1>8 DEF Next, ThreadStep

(* The disconnect thread passes joinReader when the reader has ended.      *)
LEMMA ReaderKeptNext ==
  ASSUME ValueTypes, LocalTypes, Places, RaceFree, ~raced', [Next]_vars
  PROVE  ReaderKept'
  <1> USE ThreadTypes
          DEF Places, FreshInv, BackInv, JoinsInv, AwaitInv, AutoInv, RaceFree,
              Doing, Connecting, Past, Disconnects, Cancelling, LocalTypes,
              PlaceTypes, BackTypes, ParameterTypes, Backs, Goto, locals, history,
              ReaderKept, NoReader, handles, flags, Ended, Alone
  <1>n. NotStarted => New \in Started /\ New \in Threads /\ New > started /\ started \in Nat
    BY NewType DEF ValueTypes
  <1>s. ASSUME NEW t \in Threads, pc[t] # "done", NEW l, NEW first, StartThread(t, l, first)
        PROVE  /\ New \in Started /\ New \in Threads /\ t # New
               /\ pc[New] = "done" /\ back[New] = "done"
               /\ pc' = [pc EXCEPT ![t] = l, ![New] = first]
               /\ \A s \in Threads : pc'[s] = IF s = New THEN first ELSE IF s = t THEN l ELSE pc[s]
               /\ \A s \in Started : s > started' => s > started /\ s # New /\ s # t
    BY <1>s, Starts DEF Places
  <1>1. ASSUME NEW u \in Users, Call(u) PROVE ReaderKept'
    BY <1>1, <1>n
       DEF Call, CallConnect, CallDisconnect, CallCancel, CallDestructor
  <1>2. ASSUME NEW t \in Threads, ConnectStep(t) PROVE ReaderKept'
    BY <1>2, <1>n
       DEF ConnectStep, Clear, Attempt, Reach, JoinDisconnect, Lock, Reset,
           DialSucceeds, DialFails, Establish, Established, Failed, Sleep,
           StartThread
  <1>3. ASSUME NEW t \in Threads, CancelStep(t) PROVE ReaderKept'
    BY <1>3, <1>n
       DEF CancelStep, Cancel, Signal, JoinReconnect
  <1>4. ASSUME NEW t \in Threads, DisconnectStep(t) PROVE ReaderKept'
    <2>1. CASE Dispose(t)
      BY <2>1, <1>n DEF Dispose
    <2>2. CASE CheckDisconnecting(t)
      BY <2>2, <1>n DEF CheckDisconnecting
    <2>3. CASE Await(t)
      BY <2>3, <1>n DEF Await
    <2>4. CASE CheckPassed(t)
      BY <2>4, <1>n DEF CheckPassed
    <2>5. CASE Mark(t)
      BY <2>5, <1>n DEF Mark
    <2>6. CASE SpawnDisconnect(t)
      <3>0. PICK l, first : /\ StartThread(t, l, first)
                            /\ l \in {"reach", back[t]} /\ first \in {"close", "cancel"}
        BY <2>6 DEF SpawnDisconnect
      <3>1. pc[t] # "done" /\ back[t] # "reading" /\ back \in [Threads -> Backs]
        BY <2>6 DEF SpawnDisconnect
      <3>2. PICK n \in Threads : n = New
        BY <3>0, <3>1, <1>s
      <3>3. /\ pc'[n] = first /\ pc'[t] = l /\ t # n
            /\ \A s \in Threads : s \notin {t, n} => pc'[s] = pc[s]
        BY <3>0, <3>1, <3>2, <1>s
      <3>4. /\ back' = [back EXCEPT ![n] = "joinT"] /\ UNCHANGED <<readerThread, connected>>
            /\ ReaderKept
        BY <2>6, <3>2 DEF SpawnDisconnect
      <3>5. Doing(n)' /\ pc'[n] \in {"close", "cancel"} /\ pc'[t] # "reading"
        BY <3>0, <3>1, <3>2, <3>3, <3>4
      <3> HIDE DEF Doing, Places, RaceFree, LocalTypes, PlaceTypes, BackTypes, ParameterTypes
      <3>6. \A r \in Threads : pc'[r] = "reading" => pc[r] = "reading"
        BY <3>2, <3>3, <3>5
      <3>7. \E s \in Threads :
              Doing(s)' /\ pc'[s] \notin {"finish", "unlock", "reconnect", "joinOld"}
        BY <3>2, <3>5
      <3> QED
        BY <3>4, <3>6, <3>7
    <2>7. CASE JoinTermination(t)
      BY <2>7, <1>n DEF JoinTermination
    <2>8. CASE CloseLock(t)
      BY <2>8, <1>n DEF CloseLock
    <2>9. CASE Close(t)
      BY <2>9, <1>n DEF Close
    <2>10. CASE JoinReader(t)
      BY <2>10, <1>n DEF JoinReader
    <2>11. CASE Finish(t)
      BY <2>11, <1>n DEF Finish
    <2>12. CASE Unlock(t)
      BY <2>12, <1>n DEF Unlock
    <2> QED
      BY <1>4, <2>1, <2>2, <2>3, <2>4, <2>5, <2>6, <2>7, <2>8, <2>9, <2>10, <2>11,
         <2>12
         DEF DisconnectStep
  <1>5. ASSUME NEW t \in Threads, ReconnectStep(t) PROVE ReaderKept'
    BY <1>5, <1>n
       DEF ReconnectStep, Reconnect, StartReconnect, Begin, Retries, Pause, StartThread
  <1>6. ASSUME NEW t \in Threads, ReaderStep(t) PROVE ReaderKept'
    <2>1. CASE ReadFails(t)
      BY <2>1, <1>n, <1>s DEF ReadFails, TerminateConnection, Reading
    <2>2. CASE WriteFails(t)
      BY <2>2, <1>n, <1>s DEF WriteFails, TerminateConnection
    <2>3. CASE NoWriteFails(t)
      BY <2>3, <1>n DEF NoWriteFails
    <2>4. CASE ReadAborted(t)
      BY <2>4, <1>n DEF ReadAborted
    <2> QED
      BY <1>6, <2>1, <2>2, <2>3, <2>4 DEF ReaderStep
  <1>7. CASE Publisher
    <2>1. CASE PeerBreaks
      BY <2>1, <1>n DEF PeerBreaks
    <2>2. ASSUME NEW t \in Started, HandleRefusal(t) PROVE ReaderKept'
      BY <2>2, <1>n DEF HandleRefusal
    <2>3. ASSUME NEW t \in Started, HandleRejection(t) PROVE ReaderKept'
      BY <2>3, <1>n, <1>s DEF HandleRejection, Reading
    <2> QED
      BY <1>7, <2>1, <2>2, <2>3 DEF Publisher
  <1>8. CASE UNCHANGED vars
    BY <1>8 DEF vars
  <1> QED
    BY <1>1, <1>2, <1>3, <1>4, <1>5, <1>6, <1>7, <1>8 DEF Next, ThreadStep

(* A thread that has waited for the disconnect thread finds no reader, and *)
(* a reader starts only when the connection is established.                *)
LEMMA NoReaderNext ==
  ASSUME ValueTypes, LocalTypes, Places, RaceFree, ~raced', [Next]_vars
  PROVE  NoReader'
  <1> USE ThreadTypes
          DEF Places, FreshInv, BackInv, JoinsInv, AwaitInv, AutoInv, RaceFree,
              Doing, Connecting, Past, Disconnects, Cancelling, LocalTypes,
              PlaceTypes, BackTypes, ParameterTypes, Backs, Goto, locals, history,
              NoReader, ReaderKept, OneConnecting, NotYet, Named, Ended
  <1>n. NotStarted => New \in Started /\ New \in Threads /\ New > started /\ started \in Nat
    BY NewType DEF ValueTypes
  <1>s. ASSUME NEW t \in Threads, pc[t] # "done", NEW l, NEW first, StartThread(t, l, first)
        PROVE  /\ New \in Started /\ New \in Threads /\ t # New
               /\ pc[New] = "done" /\ back[New] = "done"
               /\ pc' = [pc EXCEPT ![t] = l, ![New] = first]
               /\ \A s \in Threads : pc'[s] = IF s = New THEN first ELSE IF s = t THEN l ELSE pc[s]
               /\ \A s \in Started : s > started' => s > started /\ s # New /\ s # t
    BY <1>s, Starts DEF Places
  <1>1. ASSUME NEW u \in Users, Call(u) PROVE NoReader'
    BY <1>1, <1>n
       DEF Call, CallConnect, CallDisconnect, CallCancel, CallDestructor
  <1>2. ASSUME NEW t \in Threads, ConnectStep(t) PROVE NoReader'
    <2>1. CASE Clear(t)
      BY <2>1, <1>n DEF Clear
    <2>2. CASE Attempt(t)
      BY <2>2, <1>n DEF Attempt
    <2>3. CASE Reach(t)
      BY <2>3, <1>n DEF Reach
    <2>4. CASE JoinDisconnect(t)
      <3>1. CASE joins[t]
        BY <2>4, <3>1 DEF JoinDisconnect
      <3>2. CASE ~joins[t]
        <4>1. ASSUME NEW s \in Threads, Doing(s) PROVE FALSE
          <5>1. pc[s] # "spawn"
            BY <2>4, <3>2 DEF JoinDisconnect
          <5>2. disconnectThread = s
            BY <4>1, <5>1 DEF Named
          <5>3. pc[s] = "done"
            BY <2>4, <5>2 DEF JoinDisconnect
          <5> QED
            BY <4>1, <5>3
        <4>2. ~connected
          BY <2>4, <3>2 DEF JoinDisconnect
        <4>3. \A r \in Threads : pc[r] # "reading"
          BY <4>1, <4>2
        <4> QED
          BY <2>4, <4>3 DEF JoinDisconnect
      <3> QED
        BY <3>1, <3>2
    <2>5. CASE Lock(t)
      BY <2>5, <1>n DEF Lock
    <2>6. CASE Reset(t)
      BY <2>6, <1>n DEF Reset
    <2>7. CASE DialSucceeds(t)
      BY <2>7, <1>n DEF DialSucceeds
    <2>8. CASE DialFails(t)
      BY <2>8, <1>n DEF DialFails
    <2>9. CASE Establish(t)
      BY <2>9, <1>n, <1>s DEF Establish
    <2>10. CASE Established(t)
      BY <2>10, <1>n DEF Established
    <2>11. CASE Failed(t)
      BY <2>11, <1>n DEF Failed
    <2>12. CASE Sleep(t)
      BY <2>12, <1>n DEF Sleep
    <2> QED
      BY <1>2, <2>1, <2>2, <2>3, <2>4, <2>5, <2>6, <2>7, <2>8, <2>9, <2>10, <2>11,
         <2>12
         DEF ConnectStep
  <1>3. ASSUME NEW t \in Threads, CancelStep(t) PROVE NoReader'
    BY <1>3, <1>n
       DEF CancelStep, Cancel, Signal, JoinReconnect
  <1>4. ASSUME NEW t \in Threads, DisconnectStep(t) PROVE NoReader'
    BY <1>4, <1>n
       DEF DisconnectStep, Dispose, CheckDisconnecting, Await, CheckPassed, Mark,
           SpawnDisconnect, JoinTermination, CloseLock, Close, JoinReader,
           Finish, Unlock, StartThread
  <1>5. ASSUME NEW t \in Threads, ReconnectStep(t) PROVE NoReader'
    BY <1>5, <1>n
       DEF ReconnectStep, Reconnect, StartReconnect, Begin, Retries, Pause, StartThread
  <1>6. ASSUME NEW t \in Threads, ReaderStep(t) PROVE NoReader'
    BY <1>6, <1>n
       DEF ReaderStep, ReadFails, WriteFails, NoWriteFails, ReadAborted,
           TerminateConnection, StartThread
  <1>7. CASE Publisher
    <2>1. CASE PeerBreaks
      BY <2>1, <1>n DEF PeerBreaks
    <2>2. ASSUME NEW t \in Started, HandleRefusal(t) PROVE NoReader'
      BY <2>2, <1>n DEF HandleRefusal
    <2>3. ASSUME NEW t \in Started, HandleRejection(t) PROVE NoReader'
      BY <2>3, <1>n, <1>s DEF HandleRejection, Reading
    <2> QED
      BY <1>7, <2>1, <2>2, <2>3 DEF Publisher
  <1>8. CASE UNCHANGED vars
    BY <1>8 DEF vars
  <1> QED
    BY <1>1, <1>2, <1>3, <1>4, <1>5, <1>6, <1>7, <1>8 DEF Next, ThreadStep

-----------------------------------------------------------------------------
(* The three properties.                                                   *)

(* The types and the places are invariants whatever happens; the rest is   *)
(* one until the first race.                                               *)
IInv == TypeOK /\ Places /\ (NotRaced => RaceFree)

(* At first no thread is anywhere.                                         *)
LEMMA InvInit == Init => IInv
  <1> SUFFICES ASSUME Init PROVE Places /\ RaceFree
    BY TypeInit DEF IInv
  <1>1. \A t \in Threads : /\ pc[t] \in {"idle", "done"} /\ ~joins[t]
                          /\ back[t] \in {"idle", "done"}
    BY DEF Init
  <1>2. \A t \in Started : pc[t] = "done" /\ back[t] = "done"
    BY ThreadTypes DEF Init
  <1>3. Places
    BY <1>1, <1>2
       DEF Places, FreshInv, BackInv, JoinsInv, AwaitInv, AutoInv, OwnerInv, Locks, Cancelling
  <1>4. RaceFree
    BY <1>1
       DEF RaceFree, Alone, Marked, Named, Apart, OneConnecting, NotYet, ReaderKept, NoReader,
           Doing, Past, Connecting, Disconnects, Cancelling
  <1> QED
    BY <1>3, <1>4

(* Nothing of it depends on the bounds.                                    *)
LEMMA InvNext == IInv /\ [Next]_vars => IInv'
  <1> SUFFICES ASSUME IInv, [Next]_vars
               PROVE  IInv'
    OBVIOUS
  <1>1. TypeOK /\ ValueTypes /\ LocalTypes /\ Places
    BY ThreeParts DEF IInv
  <1>2. TypeOK'
    BY <1>1, TypeNext
  <1>3. Places'
    BY <1>1, FreshNext, BackInvNext, JoinsNext, AwaitNext, AutoNext, OwnerNext
       DEF Places
  <1>4. ASSUME ~raced' PROVE RaceFree'
    <2>1. RaceFree
      BY <1>4, RaceStays DEF IInv, NotRaced
    <2> QED
      BY <1>1, <1>4, <2>1, AloneNext, MarkedNext, NamedNext, ApartNext,
         OneConnectingNext,
         NotYetNext, ReaderKeptNext, NoReaderNext
         DEF RaceFree
  <1> QED
    BY <1>2, <1>3, <1>4 DEF IInv, NotRaced

(* So IInv is an invariant of the specification.                           *)
LEMMA InvHolds == Spec => []IInv
  BY InvInit, InvNext, PTL DEF Spec

(* Races or not, two threads are never between taking m_connectActionMutex *)
(* and giving it back: a disconnect that does not reconnect closes the     *)
(* socket under no thread that is connecting.                              *)
LockedCloses == \A s, t \in Threads : Closing(s) /\ ~auto[s] => ~Dialling(t)

THEOREM LockedCloseIsExclusive == Spec => []LockedCloses
  <1>1. IInv => LockedCloses
    <2> SUFFICES ASSUME IInv, NEW s \in Threads, NEW t \in Threads,
                        Closing(s), ~auto[s], Dialling(t)
                 PROVE  FALSE
      BY DEF LockedCloses
    <2>1. connectOwner = s /\ connectOwner = t
      BY DEF IInv, Places, OwnerInv, Locks, Closing, Dialling
    <2> QED
      BY <2>1 DEF Closing, Dialling
  <1> QED
    BY <1>1, InvHolds, PTL

(* Without a race no disconnect thread closes the socket under a thread    *)
(* that is connecting: the one that does not reconnect because of the      *)
(* lock, and the one that does, which takes no lock, because it keeps      *)
(* every connecting thread in WaitOnDisconnectThread until it has ended.   *)
THEOREM NoNewConnectionIsClosed == Spec => []ClosesNoNewConnection
  <1>1. IInv /\ LockedCloses => ClosesNoNewConnection
    <2> SUFFICES ASSUME IInv, LockedCloses, NotRaced, NEW s \in Threads, NEW t \in Threads,
                        Closing(s), Dialling(t)
                 PROVE  FALSE
      BY DEF ClosesNoNewConnection
    <2>1. auto[s]
      BY DEF LockedCloses
    <2> QED
      BY <2>1 DEF IInv, RaceFree, Apart, Doing, Disconnects, Closing, Dialling, Past
  <1> QED
    BY <1>1, InvHolds, LockedCloseIsExclusive, PTL

(* There is one disconnect thread at a time, so m_disconnectThread names   *)
(* every one that Connect and the destructor must wait for.                *)
THEOREM OneDisconnectThread == Spec => []OneDisconnect
  <1>1. IInv => OneDisconnect
    BY DEF IInv, RaceFree, Alone, OneDisconnect, Disconnecting, Closing, Doing,
       Disconnects
  <1> QED
    BY <1>1, InvHolds, PTL

(* Two response threads never read into m_readBuffer at once.              *)
THEOREM OneResponseThread == Spec => []OneReader
  <1>1. IInv => OneReader
    BY DEF IInv, RaceFree, ReaderKept, OneReader
  <1> QED
    BY <1>1, InvHolds, PTL
=============================================================================
