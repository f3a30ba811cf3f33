----------------------------- MODULE ThreadPool -----------------------------
(***************************************************************************)
(* The publisher's thread pool (src/src/lib/ThreadPool.cpp) and the        *)
(* one-shot Timers that it is made of (src/src/lib/Timer.cpp).             *)
(*                                                                         *)
(* Queue makes a Timer whose thread runs the action after its delay; a     *)
(* thread of the pool removes completed timers from the reference set;     *)
(* ShutDown stops what is left.  Every use of m_waitTimersLock but         *)
(* ShutDown's is a single step here: only ShutDown keeps it while it does  *)
(* something else.                                                         *)
(***************************************************************************)
EXTENDS Naturals, Sequences

CONSTANTS
  Task,     \* the calls of Queue: each makes one timer
  Delayed   \* those with a delay

ASSUME DelayedAssumption == Delayed \subseteq Task

NoTask == "no task"

ASSUME NoTaskAssumption == NoTask \notin Task

VARIABLES
  disposing,        \* m_disposing
  waitTimers,       \* m_waitTimers, the reference set
  completedTimers,  \* m_completedTimers
  released,         \* m_release of m_completedTimers
  queueing,         \* where each call of Queue is
  timerThread,      \* where each timer's thread is
  running,          \* m_running of each timer
  interrupted,      \* timer threads that Stop interrupted
  remover,          \* where m_removeCompletedTimersThread is
  removing,         \* the timer that it removes
  shutdown,         \* where ShutDown is
  toStop,           \* timers that ShutDown has not stopped yet
  joining           \* the timer whose thread it joins

poolVars == <<disposing, waitTimers, completedTimers, released>>
timerVars == <<timerThread, running, interrupted>>
removerVars == <<remover, removing>>
shutdownVars == <<shutdown, toStop, joining>>
vars == <<poolVars, queueing, timerVars, removerVars, shutdownVars>>

LockFree == shutdown # "stopping"

-----------------------------------------------------------------------------

Init ==
  /\ disposing = FALSE
  /\ waitTimers = {}
  /\ completedTimers = <<>>
  /\ released = FALSE
  /\ queueing = [t \in Task |-> "not called"]
  /\ timerThread = [t \in Task |-> "none"]
  /\ running = [t \in Task |-> FALSE]
  /\ interrupted = {}
  /\ remover = "waiting"
  /\ removing = NoTask
  /\ shutdown = "idle"
  /\ toStop = {}
  /\ joining = NoTask

-----------------------------------------------------------------------------
(* A thread that calls Queue: m_disposing is looked at twice, without and  *)
(* with the lock.                                                          *)

CallQueue(t) ==
  /\ queueing[t] = "not called"
  /\ queueing' = [queueing EXCEPT ![t] = IF disposing THEN "refused" ELSE "called"]
  /\ UNCHANGED <<poolVars, timerVars, removerVars, shutdownVars>>

RefuseTimer(t) ==
  /\ queueing[t] = "called"
  /\ LockFree
  /\ disposing
  /\ queueing' = [queueing EXCEPT ![t] = "refused"]
  /\ UNCHANGED <<poolVars, timerVars, removerVars, shutdownVars>>

(* The timer is kept in the set and started: Timer::Start makes its        *)
(* thread (and a reference of the timer to itself, left out here).         *)
StartTimer_NoCheck(t) ==
  /\ queueing[t] = "called"
  /\ LockFree
  /\ queueing' = [queueing EXCEPT ![t] = "queued"]
  /\ waitTimers' = waitTimers \cup {t}
  /\ timerThread' = [timerThread EXCEPT ![t] = "starting"]
  /\ UNCHANGED <<disposing, completedTimers, released, running, interrupted,
                 removerVars, shutdownVars>>

StartTimer_NotStarted(t) ==
  /\ queueing[t] = "called"
  /\ LockFree
  /\ ~disposing
  /\ queueing' = [queueing EXCEPT ![t] = "queued"]
  /\ waitTimers' = waitTimers \cup {t}
  /\ UNCHANGED <<disposing, completedTimers, released, timerVars, removerVars,
                 shutdownVars>>

StartTimer(t) ==
  /\ queueing[t] = "called"
  /\ LockFree
  /\ ~disposing
  /\ queueing' = [queueing EXCEPT ![t] = "queued"]
  /\ waitTimers' = waitTimers \cup {t}
  /\ timerThread' = [timerThread EXCEPT ![t] = "starting"]
  /\ UNCHANGED <<disposing, completedTimers, released, running, interrupted,
                 removerVars, shutdownVars>>

Queue(t) == CallQueue(t) \/ RefuseTimer(t) \/ StartTimer(t)

-----------------------------------------------------------------------------
(* A timer's thread: TimerThread with the callback that Queue gave it.     *)

Goto(t, place) == timerThread' = [timerThread EXCEPT ![t] = place]

(* m_running is set by the timer's own thread.                             *)
Run(t) ==
  /\ timerThread[t] = "starting"
  /\ Goto(t, IF t \in Delayed THEN "waiting" ELSE "elapsed")
  /\ running' = [running EXCEPT ![t] = TRUE]
  /\ UNCHANGED <<poolVars, queueing, interrupted, removerVars,
                 shutdownVars>>

Elapse(t) ==
  /\ timerThread[t] = "waiting"
  /\ t \notin interrupted
  /\ Goto(t, "elapsed")
  /\ UNCHANGED <<poolVars, queueing, running, interrupted,
                 removerVars, shutdownVars>>

(* An interrupted wait ends the thread; so does an interrupted action, if  *)
(* it is one that waits.                                                   *)
Interrupt(t) ==
  /\ timerThread[t] \in {"waiting", "acting"}
  /\ t \in interrupted
  /\ Goto(t, "ended")
  /\ running' = [running EXCEPT ![t] = FALSE]
  /\ UNCHANGED <<poolVars, queueing, interrupted, removerVars,
                 shutdownVars>>

(* The callback begins: a pool that is disposing runs no more actions.     *)
Begin(t) ==
  /\ timerThread[t] = "elapsed"
  /\ Goto(t, IF running[t] /\ ~disposing THEN "acting" ELSE "ending")
  /\ UNCHANGED <<poolVars, queueing, running, interrupted,
                 removerVars, shutdownVars>>

(* The action has been executed.                                           *)
Act(t) ==
  /\ timerThread[t] = "acting"
  /\ Goto(t, "acted")
  /\ UNCHANGED <<poolVars, queueing, running, interrupted,
                 removerVars, shutdownVars>>

(* With the lock, the timer is queued for removal.                         *)
Complete_NotQueued(t) ==
  /\ timerThread[t] = "acted"
  /\ LockFree
  /\ Goto(t, "ending")
  /\ UNCHANGED <<poolVars, queueing, running, interrupted,
                 removerVars, shutdownVars>>

Complete(t) ==
  /\ timerThread[t] = "acted"
  /\ LockFree
  /\ Goto(t, "ending")
  /\ completedTimers' = IF ~disposing /\ t \in waitTimers
                        THEN Append(completedTimers, t)
                        ELSE completedTimers
  /\ UNCHANGED <<disposing, waitTimers, released, queueing, running, interrupted,
                 removerVars, shutdownVars>>

End(t) ==
  /\ timerThread[t] = "ending"
  /\ Goto(t, "ended")
  /\ running' = [running EXCEPT ![t] = FALSE]
  /\ UNCHANGED <<poolVars, queueing, interrupted, removerVars,
                 shutdownVars>>

TimerThread(t) ==
  \/ Run(t)
  \/ Elapse(t)
  \/ Interrupt(t)
  \/ Begin(t)
  \/ Act(t)
  \/ Complete(t)
  \/ End(t)

-----------------------------------------------------------------------------
(* m_removeCompletedTimersThread.                                          *)

TakeCompleted ==
  /\ remover = "waiting"
  /\ ~disposing
  /\ completedTimers # <<>>
  /\ remover' = "polling"
  /\ removing' = Head(completedTimers)
  /\ completedTimers' = Tail(completedTimers)
  /\ UNCHANGED <<disposing, waitTimers, released, queueing, timerVars, shutdownVars>>

(* It sleeps until the timer's thread has left the callback.               *)
AwaitEnd_NoWait ==
  /\ remover = "polling"
  /\ ~disposing
  /\ remover' = "erasing"
  /\ UNCHANGED <<poolVars, queueing, timerVars, removing, shutdownVars>>

AwaitEnd ==
  /\ remover = "polling"
  /\ ~disposing
  /\ ~running[removing]
  /\ remover' = "erasing"
  /\ UNCHANGED <<poolVars, queueing, timerVars, removing, shutdownVars>>

EraseTimer ==
  /\ remover = "erasing"
  /\ LockFree
  /\ waitTimers' = waitTimers \ {removing}
  /\ remover' = "waiting"
  /\ removing' = NoTask
  /\ UNCHANGED <<disposing, completedTimers, released, queueing, timerVars,
                 shutdownVars>>

EndRemover ==
  /\ \/ remover = "waiting" /\ (released \/ completedTimers # <<>>)
     \/ remover = "polling"
  /\ disposing
  /\ remover' = "ended"
  /\ removing' = NoTask
  /\ UNCHANGED <<poolVars, queueing, timerVars, shutdownVars>>

RemoverThread == TakeCompleted \/ AwaitEnd \/ EraseTimer \/ EndRemover

-----------------------------------------------------------------------------
(* ShutDown.                                                               *)

Dispose ==
  /\ shutdown = "idle"
  /\ shutdown' = "disposing"
  /\ disposing' = TRUE
  /\ UNCHANGED <<waitTimers, completedTimers, released, queueing, timerVars,
                 removerVars, toStop, joining>>

ReleaseCompleted ==
  /\ shutdown = "disposing"
  /\ shutdown' = "joining remover"
  /\ released' = TRUE
  /\ UNCHANGED <<disposing, waitTimers, completedTimers, queueing, timerVars,
                 removerVars, toStop, joining>>

(* From here on ShutDown holds m_waitTimersLock.                           *)
JoinRemover ==
  /\ shutdown = "joining remover"
  /\ remover = "ended"
  /\ shutdown' = "stopping"
  /\ toStop' = waitTimers
  /\ UNCHANGED <<poolVars, queueing, timerVars, removerVars, joining>>

(* Timer::Stop of the next timer: nothing, if its thread has not set       *)
(* m_running (yet, or any more).                                           *)
SkipTimer(t) ==
  /\ shutdown = "stopping"
  /\ joining = NoTask
  /\ t \in toStop
  /\ ~running[t]
  /\ toStop' = toStop \ {t}
  /\ UNCHANGED <<poolVars, queueing, timerVars, removerVars, shutdown, joining>>

StopTimer(t) ==
  /\ shutdown = "stopping"
  /\ joining = NoTask
  /\ t \in toStop
  /\ running[t]
  /\ running' = [running EXCEPT ![t] = FALSE]
  /\ interrupted' = interrupted \cup {t}
  /\ toStop' = toStop \ {t}
  /\ joining' = t
  /\ UNCHANGED <<poolVars, queueing, timerThread, removerVars, shutdown>>

JoinTimer_Detached ==
  /\ shutdown = "stopping"
  /\ joining # NoTask
  /\ joining' = NoTask
  /\ UNCHANGED <<poolVars, queueing, timerVars, removerVars, shutdown, toStop>>

JoinTimer ==
  /\ shutdown = "stopping"
  /\ joining # NoTask
  /\ timerThread[joining] = "ended"
  /\ joining' = NoTask
  /\ UNCHANGED <<poolVars, queueing, timerVars, removerVars, shutdown, toStop>>

EndShutDown ==
  /\ shutdown = "stopping"
  /\ toStop = {}
  /\ joining = NoTask
  /\ shutdown' = "done"
  /\ UNCHANGED <<poolVars, queueing, timerVars, removerVars, toStop, joining>>

ShutDownThread ==
  \/ ReleaseCompleted
  \/ JoinRemover
  \/ \E t \in Task : SkipTimer(t) \/ StopTimer(t)
  \/ JoinTimer
  \/ EndShutDown

Next ==
  \/ \E t \in Task : Queue(t) \/ TimerThread(t)
  \/ RemoverThread
  \/ Dispose
  \/ ShutDownThread

Spec == Init /\ [][Next]_vars

(* Threads run, and actions end.  Nobody has to shut the pool down.        *)
FairSpec ==
  /\ Spec
  /\ \A t \in Task : WF_vars(Queue(t)) /\ WF_vars(TimerThread(t))
  /\ WF_vars(RemoverThread)
  /\ WF_vars(ShutDownThread)

-----------------------------------------------------------------------------
(* The type invariant: what each variable holds.                           *)
TypeOK ==
  /\ disposing \in BOOLEAN
  /\ waitTimers \subseteq Task
  /\ completedTimers \in Seq(Task)
  /\ released \in BOOLEAN
  /\ queueing \in [Task -> {"not called", "called", "refused", "queued"}]
  /\ timerThread \in [Task -> {"none", "starting", "waiting", "elapsed", "acting",
                               "acted", "ending", "ended"}]
  /\ running \in [Task -> BOOLEAN]
  /\ interrupted \subseteq Task
  /\ remover \in {"waiting", "polling", "erasing", "ended"}
  /\ removing \in Task \cup {NoTask}
  /\ remover \in {"polling", "erasing"} => removing \in Task
  /\ shutdown \in {"idle", "disposing", "joining remover", "stopping", "done"}
  /\ toStop \subseteq Task
  /\ joining \in Task \cup {NoTask}

(* Once ShutDown has returned, no action is running and none will run: the *)
(* publisher destroys what the actions use next (the lambda that Queue     *)
(* gives a timer, ShutDown, Timer::Stop).                                  *)
NoActionAfterShutDown ==
  shutdown = "done" => \A t \in Task : timerThread[t] \notin {"acting", "acted"}

(* A timer leaves the reference set only after its thread has left the     *)
(* callback: before that it would be destroyed under its own feet.         *)
RemovedWhenEnded ==
  \A t \in Task :
    queueing[t] = "queued" /\ t \notin waitTimers => timerThread[t] = "ended"

(* Once ShutDown goes through the set it has to be complete: no timer is   *)
(* added behind its back.                                                  *)
NoLateTimer ==
  [][(shutdown \in {"stopping", "done"}) => waitTimers' = waitTimers]_vars

(* An action that was queued is executed, unless the pool is shut down.    *)
QueuedIsExecuted ==
  \A t \in Task :
    queueing[t] = "queued" ~> disposing \/ timerThread[t] \in {"acted", "ending", "ended"}

(* The reference set does not grow for ever: what was executed is removed. *)
ExecutedIsRemoved ==
  \A t \in Task : timerThread[t] = "ended" ~> disposing \/ t \notin waitTimers

-----------------------------------------------------------------------------
(* What the comments of the source say and the code does not keep.         *)

(* ThreadPool.cpp, ShutDown: "This joins thread if running".  Hence        *)
(* ShutDown ends, as long as the actions do.                               *)
ShutDownCompletes == shutdown = "stopping" ~> shutdown = "done"

=============================================================================
