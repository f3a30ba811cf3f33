-------------------------- MODULE ThreadPoolProofs --------------------------
(***************************************************************************)
(* What holds of ThreadPool for every set of tasks.                        *)
(***************************************************************************)
EXTENDS ThreadPool, SequenceTheorems, TLAPS

LEMMA SendType ==
  ASSUME NEW S, NEW queue \in Seq(S), NEW item \in S
  PROVE  Append(queue, item) \in Seq(S)
  OBVIOUS

LEMMA ReceiveType ==
  ASSUME NEW S, NEW queue \in Seq(S), queue # <<>>
  PROVE  Head(queue) \in S /\ Tail(queue) \in Seq(S)
  BY HeadTailProperties

(* The elements of a queue, and what happens to them.                      *)
LEMMA ItemType ==
  ASSUME NEW S, NEW queue \in Seq(S)
  PROVE  \A i \in 1 .. Len(queue) : queue[i] \in S
  BY ElementOfSeq

LEMMA SentItems ==
  ASSUME NEW S, NEW queue \in Seq(S), NEW item \in S,
         NEW i \in 1 .. Len(Append(queue, item))
  PROVE  \/ i \in 1 .. Len(queue) /\ Append(queue, item)[i] = queue[i]
         \/ Append(queue, item)[i] = item
  BY AppendProperties

LEMMA ReceivedItems ==
  ASSUME NEW S, NEW queue \in Seq(S), queue # <<>>
  PROVE  /\ 1 \in 1 .. Len(queue)
         /\ Head(queue) = queue[1]
         /\ \A i \in 1 .. Len(Tail(queue)) :
              i + 1 \in 1 .. Len(queue) /\ Tail(queue)[i] = queue[i + 1]
  <1>1. Len(queue) \in Nat /\ Len(queue) # 0
    BY EmptySeq, LenProperties
  <1> QED
    BY <1>1, HeadTailProperties

-----------------------------------------------------------------------------
(* Type correctness.                                                       *)

LEMMA TypeInit == Init => TypeOK
  <1> SUFFICES ASSUME Init PROVE TypeOK
    OBVIOUS
  <1>1. completedTimers \in Seq(Task)
    <2>1. <<>> \in Seq(Task)
      OBVIOUS
    <2> QED
      BY <2>1 DEF Init
  <1>2. /\ queueing \in [Task -> {"not called", "called", "refused", "queued"}]
        /\ timerThread \in [Task -> {"none", "starting", "waiting", "elapsed", "acting",
                                     "acted", "ending", "ended"}]
        /\ running \in [Task -> BOOLEAN]
    BY DEF Init
  <1> QED
    BY <1>1, <1>2 DEF Init, TypeOK

LEMMA TypeNext == TypeOK /\ [Next]_vars => TypeOK'
  <1> SUFFICES ASSUME TypeOK, [Next]_vars PROVE TypeOK'
    OBVIOUS
  <1> USE DEF TypeOK, poolVars, timerVars, removerVars, shutdownVars
  <1>1. CASE UNCHANGED vars
    BY <1>1 DEF vars
  <1>2. ASSUME NEW t \in Task, Queue(t) PROVE TypeOK'
    <2>1. CASE CallQueue(t)
      BY <2>1 DEF CallQueue
    <2>2. CASE RefuseTimer(t)
      BY <2>2 DEF RefuseTimer
    <2>3. CASE StartTimer(t)
      BY <2>3 DEF StartTimer
    <2> QED
      BY <1>2, <2>1, <2>2, <2>3 DEF Queue
  <1>3. ASSUME NEW t \in Task, TimerThread(t) PROVE TypeOK'
    <2>1. CASE Run(t)
      BY <2>1 DEF Run, Goto
    <2>2. CASE Elapse(t)
      BY <2>2 DEF Elapse, Goto
    <2>3. CASE Interrupt(t)
      BY <2>3 DEF Interrupt, Goto
    <2>4. CASE Begin(t)
      BY <2>4 DEF Begin, Goto
    <2>5. CASE Act(t)
      BY <2>5 DEF Act, Goto
    <2>6. CASE Complete(t)
      <3>1. completedTimers' \in Seq(Task)
        BY <2>6, SendType DEF Complete
      <3> QED
        BY <2>6, <3>1 DEF Complete, Goto
    <2>7. CASE End(t)
      BY <2>7 DEF End, Goto
    <2> QED
      BY <1>3, <2>1, <2>2, <2>3, <2>4, <2>5, <2>6, <2>7 DEF TimerThread
  <1>4. CASE RemoverThread
    <2>1. CASE TakeCompleted
      <3>1. Head(completedTimers) \in Task /\ Tail(completedTimers) \in Seq(Task)
        BY <2>1, ReceiveType DEF TakeCompleted
      <3> QED
        BY <2>1, <3>1 DEF TakeCompleted
    <2>2. CASE AwaitEnd
      BY <2>2 DEF AwaitEnd
    <2>3. CASE EraseTimer
      BY <2>3 DEF EraseTimer
    <2>4. CASE EndRemover
      BY <2>4 DEF EndRemover
    <2> QED
      BY <1>4, <2>1, <2>2, <2>3, <2>4 DEF RemoverThread
  <1>5. CASE Dispose
    BY <1>5 DEF Dispose
  <1>6. CASE ShutDownThread
    <2>1. CASE ReleaseCompleted
      BY <2>1 DEF ReleaseCompleted
    <2>2. CASE JoinRemover
      BY <2>2 DEF JoinRemover
    <2>3. ASSUME NEW t \in Task, SkipTimer(t) PROVE TypeOK'
      BY <2>3 DEF SkipTimer
    <2>4. ASSUME NEW t \in Task, StopTimer(t) PROVE TypeOK'
      BY <2>4 DEF StopTimer
    <2>5. CASE JoinTimer
      BY <2>5 DEF JoinTimer
    <2>6. CASE EndShutDown
      BY <2>6 DEF EndShutDown
    <2> QED
      BY <1>6, <2>1, <2>2, <2>3, <2>4, <2>5, <2>6 DEF ShutDownThread
  <1> QED
    BY <1>1, <1>2, <1>3, <1>4, <1>5, <1>6 DEF Next

(* Every variable of the pool keeps its type.                              *)
THEOREM TypeCorrect == Spec => []TypeOK
  BY TypeInit, TypeNext, PTL DEF Spec

-----------------------------------------------------------------------------
(* Shutting down.                                                          *)

Started == {"waiting", "elapsed", "acting", "acted", "ending"}
InAction == {"acting", "acted"}

(* The pool disposes from the first step of ShutDown on, and has no        *)
(* remover once ShutDown holds the lock.                                   *)
ShutDownOrder ==
  /\ shutdown # "idle" <=> disposing
  /\ shutdown \in {"stopping", "done"} => remover = "ended"
  /\ joining # NoTask => shutdown = "stopping"

(* A timer has a thread when it has been queued, and is in the set as long *)
(* as that thread has not ended.                                           *)
ThreadHasTimer ==
  \A t \in Task :
    /\ timerThread[t] = "none" <=> queueing[t] # "queued"
    /\ timerThread[t] \notin {"none", "ended"} => t \in waitTimers

(* m_running says whether the thread is in TimerThread, but for the timer  *)
(* that ShutDown is joining.                                               *)
RunningInStep ==
  \A t \in Task :
    timerThread[t] \in Started /\ ~running[t] => joining = t

(* What the remover was given has executed its action.                     *)
CompletedHaveActed ==
  /\ \A i \in 1 .. Len(completedTimers) :
       timerThread[completedTimers[i]] \in {"ending", "ended"}
  /\ remover = "polling" => timerThread[removing] \in {"ending", "ended"}
  /\ remover = "erasing" => timerThread[removing] = "ended"

(* ShutDown has not forgotten an action that is still running.             *)
ActionsAwaited ==
  /\ shutdown = "stopping" =>
       \A t \in Task : timerThread[t] \in InAction => t \in toStop \/ joining = t
  /\ NoActionAfterShutDown

PoolInv ==
  /\ ShutDownOrder
  /\ ThreadHasTimer
  /\ RunningInStep
  /\ CompletedHaveActed
  /\ ActionsAwaited

LEMMA PoolInit == Init => PoolInv
  <1> SUFFICES ASSUME Init PROVE PoolInv
    OBVIOUS
  <1>1. ShutDownOrder
    BY DEF Init, ShutDownOrder
  <1>2. \A t \in Task : timerThread[t] = "none" /\ queueing[t] = "not called"
    BY DEF Init
  <1>3. ThreadHasTimer /\ RunningInStep
    BY <1>2 DEF ThreadHasTimer, RunningInStep, Started
  <1>4. CompletedHaveActed
    <2>1. Len(completedTimers) = 0
      BY DEF Init
    <2>2. 1 .. 0 = {}
      OBVIOUS
    <2> QED
      BY <2>1, <2>2 DEF Init, CompletedHaveActed
  <1>5. ActionsAwaited
    BY DEF Init, ActionsAwaited, NoActionAfterShutDown
  <1> QED
    BY <1>1, <1>3, <1>4, <1>5 DEF PoolInv

(* What was given to the remover stays executed whatever a thread does     *)
(* that has not executed its action, or that is leaving the callback.      *)
LEMMA GotoKeepsCompleted ==
  ASSUME TypeOK, CompletedHaveActed,
         NEW t \in Task, NEW place, Goto(t, place),
         timerThread[t] # "ended",
         timerThread[t] = "ending" => place = "ended",
         UNCHANGED <<completedTimers, removerVars>>
  PROVE  CompletedHaveActed'
  <1>1. \A u \in Task :
          /\ timerThread[u] = "ended" => timerThread'[u] = "ended"
          /\ timerThread[u] = "ending" => timerThread'[u] \in {"ending", "ended"}
    BY DEF Goto, TypeOK
  <1>2. \A i \in 1 .. Len(completedTimers) : completedTimers[i] \in Task
    BY ItemType DEF TypeOK
  <1>3. remover \in {"polling", "erasing"} => removing \in Task
    BY DEF TypeOK
  <1> QED
    BY <1>1, <1>2, <1>3 DEF CompletedHaveActed, removerVars

LEMMA PoolNext == TypeOK /\ PoolInv /\ [Next]_vars => PoolInv'
  <1> SUFFICES ASSUME TypeOK, PoolInv, [Next]_vars PROVE PoolInv'
    OBVIOUS
  <1> USE NoTaskAssumption DEF PoolInv, poolVars, timerVars, removerVars, shutdownVars
  <1>1. CASE UNCHANGED vars
    BY <1>1 DEF vars, ShutDownOrder, ThreadHasTimer, RunningInStep,
       CompletedHaveActed, ActionsAwaited, NoActionAfterShutDown, Started, InAction
  <1>2. ASSUME NEW t \in Task, Queue(t) PROVE PoolInv'
    <2>1. CASE CallQueue(t)
      BY <2>1 DEF CallQueue, TypeOK, ShutDownOrder, ThreadHasTimer, RunningInStep,
         CompletedHaveActed, ActionsAwaited, NoActionAfterShutDown, Started, InAction
    <2>2. CASE RefuseTimer(t)
      BY <2>2 DEF RefuseTimer, TypeOK, ShutDownOrder, ThreadHasTimer, RunningInStep,
         CompletedHaveActed, ActionsAwaited, NoActionAfterShutDown, Started, InAction
    <2>3. CASE StartTimer(t)
      <3>1. CompletedHaveActed'
        <4>1. timerThread[t] = "none"
          BY <2>3 DEF StartTimer, ThreadHasTimer
        <4> QED
          BY <2>3, <4>1, GotoKeepsCompleted DEF StartTimer, Goto
      <3>2. /\ ShutDownOrder'
            /\ ThreadHasTimer'
            /\ RunningInStep'
            /\ ActionsAwaited'
        BY <2>3 DEF StartTimer, ShutDownOrder, ThreadHasTimer, RunningInStep,
             ActionsAwaited, NoActionAfterShutDown, Started, InAction, TypeOK
      <3> QED
        BY <3>1, <3>2
    <2> QED
      BY <1>2, <2>1, <2>2, <2>3 DEF Queue
  <1>3. ASSUME NEW t \in Task, TimerThread(t) PROVE PoolInv'
    <2>1. CASE Run(t)
      <3>1. CompletedHaveActed'
        BY <2>1, GotoKeepsCompleted DEF Run
      <3>2. /\ ShutDownOrder'
            /\ ThreadHasTimer'
            /\ RunningInStep'
            /\ ActionsAwaited'
        BY <2>1 DEF Run, Goto, ShutDownOrder, ThreadHasTimer, RunningInStep,
             ActionsAwaited, NoActionAfterShutDown, Started, InAction, TypeOK
      <3> QED
        BY <3>1, <3>2
    <2>2. CASE Elapse(t)
      <3>1. CompletedHaveActed'
        BY <2>2, GotoKeepsCompleted DEF Elapse
      <3>2. /\ ShutDownOrder'
            /\ ThreadHasTimer'
            /\ RunningInStep'
            /\ ActionsAwaited'
        BY <2>2 DEF Elapse, Goto, ShutDownOrder, ThreadHasTimer, RunningInStep,
             ActionsAwaited, NoActionAfterShutDown, Started, InAction, TypeOK
      <3> QED
        BY <3>1, <3>2
    <2>3. CASE Interrupt(t)
      <3>1. CompletedHaveActed'
        BY <2>3, GotoKeepsCompleted DEF Interrupt
      <3>2. /\ ShutDownOrder'
            /\ ThreadHasTimer'
            /\ RunningInStep'
            /\ ActionsAwaited'
        BY <2>3 DEF Interrupt, Goto, ShutDownOrder, ThreadHasTimer, RunningInStep,
             ActionsAwaited, NoActionAfterShutDown, Started, InAction, TypeOK
      <3> QED
        BY <3>1, <3>2
    <2>4. CASE Begin(t)
      <3>1. CompletedHaveActed'
        BY <2>4, GotoKeepsCompleted DEF Begin
      <3>2. /\ ShutDownOrder'
            /\ ThreadHasTimer'
            /\ RunningInStep'
            /\ ActionsAwaited'
        BY <2>4 DEF Begin, Goto, ShutDownOrder, ThreadHasTimer, RunningInStep,
             ActionsAwaited, NoActionAfterShutDown, Started, InAction, TypeOK
      <3> QED
        BY <3>1, <3>2
    <2>5. CASE Act(t)
      <3>1. CompletedHaveActed'
        BY <2>5, GotoKeepsCompleted DEF Act
      <3>2. /\ ShutDownOrder'
            /\ ThreadHasTimer'
            /\ RunningInStep'
            /\ ActionsAwaited'
        BY <2>5 DEF Act, Goto, ShutDownOrder, ThreadHasTimer, RunningInStep,
             ActionsAwaited, NoActionAfterShutDown, Started, InAction, TypeOK
      <3> QED
        BY <3>1, <3>2
    <2>6. CASE Complete(t)
      <3>1. CompletedHaveActed'
        <4>1. /\ timerThread'[t] = "ending"
              /\ \A u \in Task : u # t => timerThread'[u] = timerThread[u]
              /\ timerThread[t] = "acted"
          BY <2>6 DEF Complete, Goto, TypeOK
        <4>2. \A i \in 1 .. Len(completedTimers) :
                timerThread'[completedTimers[i]] \in {"ending", "ended"}
          <5>1. \A i \in 1 .. Len(completedTimers) : completedTimers[i] \in Task
            BY ItemType DEF TypeOK
          <5> QED
            BY <4>1, <5>1 DEF CompletedHaveActed
        <4>3. CASE completedTimers' = Append(completedTimers, t)
          <5>1. \A i \in 1 .. Len(completedTimers') :
                  \/ i \in 1 .. Len(completedTimers) /\ completedTimers'[i] = completedTimers[i]
                  \/ completedTimers'[i] = t
            <6>1. completedTimers \in Seq(Task)
              BY DEF TypeOK
            <6>2. \A i \in 1 .. Len(Append(completedTimers, t)) :
                    \/ /\ i \in 1 .. Len(completedTimers)
                       /\ Append(completedTimers, t)[i] = completedTimers[i]
                    \/ Append(completedTimers, t)[i] = t
              BY <6>1, SentItems
            <6> QED
              BY <4>3, <6>2, Zenon
          <5> QED
            BY <5>1, <4>1, <4>2, <2>6 DEF CompletedHaveActed, TypeOK, Complete
        <4>4. CASE completedTimers' = completedTimers
          BY <4>4, <4>1, <4>2, <2>6 DEF CompletedHaveActed, TypeOK, Complete
        <4> QED
          BY <4>3, <4>4, <2>6 DEF Complete
      <3>2. /\ ShutDownOrder'
            /\ ThreadHasTimer'
            /\ RunningInStep'
            /\ ActionsAwaited'
        BY <2>6 DEF Complete, Goto, ShutDownOrder, ThreadHasTimer, RunningInStep,
             ActionsAwaited, NoActionAfterShutDown, Started, InAction, TypeOK
      <3> QED
        BY <3>1, <3>2
    <2>7. CASE End(t)
      <3>1. CompletedHaveActed'
        BY <2>7, GotoKeepsCompleted DEF End
      <3>2. /\ ShutDownOrder'
            /\ ThreadHasTimer'
            /\ RunningInStep'
            /\ ActionsAwaited'
        BY <2>7 DEF End, Goto, ShutDownOrder, ThreadHasTimer, RunningInStep,
             ActionsAwaited, NoActionAfterShutDown, Started, InAction, TypeOK
      <3> QED
        BY <3>1, <3>2
    <2> QED
      BY <1>3, <2>1, <2>2, <2>3, <2>4, <2>5, <2>6, <2>7 DEF TimerThread
  <1>4. CASE RemoverThread
    <2>1. CASE TakeCompleted
      <3>1. /\ 1 \in 1 .. Len(completedTimers)
            /\ Head(completedTimers) = completedTimers[1]
            /\ \A i \in 1 .. Len(Tail(completedTimers)) :
                 /\ i + 1 \in 1 .. Len(completedTimers)
                 /\ Tail(completedTimers)[i] = completedTimers[i + 1]
        BY <2>1, ReceivedItems DEF TakeCompleted, TypeOK
      <3>2. CompletedHaveActed'
        BY <2>1, <3>1 DEF TakeCompleted, CompletedHaveActed
      <3>3. /\ ShutDownOrder'
            /\ ThreadHasTimer'
            /\ RunningInStep'
            /\ ActionsAwaited'
        BY <2>1 DEF TakeCompleted, ShutDownOrder, ThreadHasTimer, RunningInStep,
             ActionsAwaited, NoActionAfterShutDown
      <3> QED
        BY <3>2, <3>3
    <2>2. CASE AwaitEnd
      <3>1. /\ removing \in Task
            /\ ~running[removing]
            /\ timerThread[removing] \in {"ending", "ended"}
        BY <2>2 DEF AwaitEnd, CompletedHaveActed, TypeOK
      <3>2. joining = NoTask
        BY <2>2 DEF AwaitEnd, ShutDownOrder, TypeOK
      <3>3. timerThread[removing] = "ended"
        BY <3>1, <3>2 DEF RunningInStep, Started
      <3> QED
        BY <2>2, <3>3 DEF AwaitEnd, ShutDownOrder, ThreadHasTimer, RunningInStep,
             CompletedHaveActed, ActionsAwaited, NoActionAfterShutDown
    <2>3. CASE EraseTimer
      BY <2>3 DEF EraseTimer, ShutDownOrder, ThreadHasTimer, RunningInStep,
         CompletedHaveActed, ActionsAwaited, NoActionAfterShutDown, Started, InAction
    <2>4. CASE EndRemover
      BY <2>4 DEF EndRemover, ShutDownOrder, ThreadHasTimer, RunningInStep,
         CompletedHaveActed, ActionsAwaited, NoActionAfterShutDown, Started, InAction
    <2> QED
      BY <1>4, <2>1, <2>2, <2>3, <2>4 DEF RemoverThread
  <1>5. CASE Dispose
    BY <1>5 DEF Dispose, ShutDownOrder, ThreadHasTimer, RunningInStep,
       CompletedHaveActed, ActionsAwaited, NoActionAfterShutDown, Started, InAction
  <1>6. CASE ShutDownThread
    <2>1. CASE ReleaseCompleted
      BY <2>1 DEF ReleaseCompleted, ShutDownOrder, ThreadHasTimer, RunningInStep,
         CompletedHaveActed, ActionsAwaited, NoActionAfterShutDown, Started, InAction
    <2>2. CASE JoinRemover
      BY <2>2 DEF JoinRemover, ShutDownOrder, ThreadHasTimer, RunningInStep,
         CompletedHaveActed, ActionsAwaited, NoActionAfterShutDown, Started, InAction
    <2>3. ASSUME NEW t \in Task, SkipTimer(t) PROVE PoolInv'
      BY <2>3 DEF SkipTimer, ShutDownOrder, ThreadHasTimer, RunningInStep,
         CompletedHaveActed, ActionsAwaited, NoActionAfterShutDown, Started, InAction
    <2>4. ASSUME NEW t \in Task, StopTimer(t) PROVE PoolInv'
      BY <2>4 DEF StopTimer, TypeOK, ShutDownOrder, ThreadHasTimer, RunningInStep,
         CompletedHaveActed, ActionsAwaited, NoActionAfterShutDown, Started, InAction
    <2>5. CASE JoinTimer
      BY <2>5 DEF JoinTimer, ShutDownOrder, ThreadHasTimer, RunningInStep,
         CompletedHaveActed, ActionsAwaited, NoActionAfterShutDown, Started, InAction
    <2>6. CASE EndShutDown
      BY <2>6 DEF EndShutDown, ShutDownOrder, ThreadHasTimer, RunningInStep,
         CompletedHaveActed, ActionsAwaited, NoActionAfterShutDown, Started, InAction
    <2> QED
      BY <1>6, <2>1, <2>2, <2>3, <2>4, <2>5, <2>6 DEF ShutDownThread
  <1> QED
    BY <1>1, <1>2, <1>3, <1>4, <1>5, <1>6 DEF Next

LEMMA PoolAlways == Spec => [](TypeOK /\ PoolInv)
  <1>1. TypeOK /\ PoolInv /\ [Next]_vars => (TypeOK /\ PoolInv)'
    BY TypeNext, PoolNext
  <1> QED
    BY <1>1, TypeInit, PoolInit, PTL DEF Spec

(* When ShutDown returns no action is running, and none ever begins again, *)
(* although Stop does nothing to a timer whose thread has not set          *)
(* m_running yet.                                                          *)
THEOREM ActionsEnd == Spec => []NoActionAfterShutDown
  <1>1. TypeOK /\ PoolInv => NoActionAfterShutDown
    BY DEF PoolInv, ActionsAwaited
  <1> QED
    BY <1>1, PoolAlways, PTL

(* A timer is not taken from the reference set while its thread is still   *)
(* in the callback.                                                        *)
THEOREM TimersOutlastCallbacks == Spec => []RemovedWhenEnded
  <1>1. TypeOK /\ PoolInv => RemovedWhenEnded
    BY DEF PoolInv, ThreadHasTimer, RemovedWhenEnded, TypeOK
  <1> QED
    BY <1>1, PoolAlways, PTL

(* The set that ShutDown goes through does not change under it: the second *)
(* look at m_disposing in Queue, with the lock, refuses late timers.       *)
THEOREM LateTimersRefused == Spec => NoLateTimer
  <1>1. TypeOK /\ PoolInv /\ [Next]_vars
          => [(shutdown \in {"stopping", "done"}) => waitTimers' = waitTimers]_vars
    BY DEF PoolInv, ShutDownOrder, Next, Queue, CallQueue, RefuseTimer, StartTimer,
       TimerThread, Run, Elapse, Interrupt, Begin, Act, Complete, End, RemoverThread,
       TakeCompleted, AwaitEnd, EraseTimer, EndRemover, Dispose, ShutDownThread,
       ReleaseCompleted, JoinRemover, SkipTimer, StopTimer, JoinTimer, EndShutDown,
       vars, poolVars
  <1> QED
    BY <1>1, PoolAlways, PTL DEF Spec, NoLateTimer

=============================================================================
