---------------------------- MODULE RoutingTables ----------------------------
(***************************************************************************)
(* Which subscriber connections a measurement is published to              *)
(* (src/src/lib/transport/RoutingTables.cpp).                              *)
(*                                                                         *)
(* The threads of the publisher queue operations (a ThreadSafeQueue); one  *)
(* routing thread carries them out in order. An operation clones the       *)
(* active table, changes the clone and makes it the active one. The clone  *)
(* is shallow: it shares the set of destinations of each signal with the   *)
(* active table, so changes to a set are seen at once by the threads that  *)
(* publish. The user's threads only read (DestinationsOf).                 *)
(*                                                                         *)
(* The table of a signal that the active table lacks can be reached from   *)
(* the clone only, and the routing thread is the only one to make such a   *)
(* set: one set per signal is enough to model the shared pointers.         *)
(***************************************************************************)
EXTENDS Naturals, Sequences

CONSTANTS
  Connection,     \* the subscriber connections
  SignalID,       \* the signals
  MaxOperations,  \* bound: operations queued
  MaxClears       \* bound: calls of Clear

ASSUME RoutingBounds == MaxOperations \in Nat /\ MaxClears \in Nat

Operation == [type : {"UpdateRoutes", "RemoveRoutes"}, destination : Connection,
              routes : SUBSET SignalID]

Update(connection, routes) ==
  [type |-> "UpdateRoutes", destination |-> connection, routes |-> routes]
Remove(connection) ==
  [type |-> "RemoveRoutes", destination |-> connection, routes |-> {}]

(* No operation: nothing is running, or nothing was asked.                 *)
Nothing == [type |-> "Nothing"]

VARIABLES
  operations,    \* m_routingTableOperations
  active,        \* the signals in *m_activeRoutes
  destinations,  \* the set of destinations of each signal
  thread,        \* where the routing thread is
  current,       \* the operation it carries out
  clone,         \* the signals in the clone it works on
  pending,       \* the signals its present loop has not visited
  clearing,      \* Clear has emptied the queue, not yet the active table
  \* bookkeeping, read by the bounds and the properties
  queued,        \* operations queued
  clears,        \* calls of Clear
  latest,        \* each connection's last operation, since the last Clear
  requested      \* every signal each connection ever asked for

tableVars == <<active, destinations>>
threadVars == <<thread, current, clone, pending>>
clearVars == <<clearing, clears>>
requestVars == <<queued, latest, requested>>
vars == <<operations, tableVars, threadVars, clearVars, requestVars>>

-----------------------------------------------------------------------------

Init ==
  /\ operations = <<>>
  /\ active = {}
  /\ destinations = [s \in SignalID |-> {}]
  /\ thread = "waiting"
  /\ current = Nothing
  /\ clone = {}
  /\ pending = {}
  /\ clearing = FALSE
  /\ queued = 0
  /\ clears = 0
  /\ latest = [c \in Connection |-> Nothing]
  /\ requested = [c \in Connection |-> {}]

(* UpdateRoutes and RemoveRoutes, from any thread.                         *)
Enqueue_Default(queue, operation) == Append(queue, Nothing)

Enqueue(queue, operation) == Append(queue, operation)

Ask(operation) ==
  /\ queued < MaxOperations
  /\ queued' = queued + 1
  /\ operations' = Enqueue(operations, operation)
  /\ latest' = [latest EXCEPT ![operation.destination] = operation]
  /\ requested' = [requested EXCEPT ![operation.destination] = @ \cup operation.routes]
  /\ UNCHANGED <<tableVars, threadVars, clearVars>>

UpdateRoutes(connection, routes) == Ask(Update(connection, routes))
RemoveRoutes(connection) == Ask(Remove(connection))

(* Clear: the operations first, then the active table, in place.           *)
ClearOperations ==
  /\ clears < MaxClears
  /\ ~clearing
  /\ operations' = <<>>
  /\ clearing' = TRUE
  /\ clears' = clears + 1
  /\ UNCHANGED <<tableVars, threadVars, requestVars>>

ClearActiveRoutes ==
  /\ clearing
  /\ clearing' = FALSE
  /\ active' = {}
  /\ latest' = [c \in Connection |-> Nothing]
  /\ UNCHANGED <<operations, destinations, threadVars, clears, queued, requested>>

-----------------------------------------------------------------------------
(* The routing thread.                                                     *)

WaitForData_OffByOne ==
  /\ thread = "waiting"
  /\ Len(operations) > 1
  /\ thread' = "ready"
  /\ UNCHANGED <<operations, tableVars, current, clone, pending, clearVars,
                 requestVars>>

WaitForData ==
  /\ thread = "waiting"
  /\ operations # <<>>
  /\ thread' = "ready"
  /\ UNCHANGED <<operations, tableVars, current, clone, pending, clearVars,
                 requestVars>>

(* Dequeue locks the queue again: it may have been emptied since.  The     *)
(* front of an empty queue is undefined: nothing is modelled after it.     *)
Dequeue ==
  /\ thread = "ready"
  /\ IF operations = <<>>
     THEN /\ thread' = "undefined"
          /\ UNCHANGED <<operations, current>>
     ELSE /\ thread' = "dequeued"
          /\ current' = Head(operations)
          /\ operations' = Tail(operations)
  /\ UNCHANGED <<tableVars, clone, pending, clearVars, requestVars>>

CloneActiveRoutes ==
  /\ thread = "dequeued"
  /\ thread' = "erasing"
  /\ clone' = active
  /\ pending' = active
  /\ UNCHANGED <<operations, tableVars, current, clearVars, requestVars>>

(* The first loop, over the clone: an UpdateRoutes operation erases the    *)
(* connection from the signals that it asks for, a RemoveRoutes operation  *)
(* from all.                                                               *)
Erased(operation, signal) ==
  operation.type = "RemoveRoutes" \/ signal \in operation.routes

Erase(signal) ==
  /\ thread = "erasing"
  /\ signal \in pending
  /\ pending' = pending \ {signal}
  /\ destinations' = IF Erased(current, signal)
                     THEN [destinations EXCEPT ![signal] = @ \ {current.destination}]
                     ELSE destinations
  /\ UNCHANGED <<operations, active, thread, current, clone, clearVars, requestVars>>

EraseDone_EverySignal ==
  /\ thread = "erasing"
  /\ pending = {}
  /\ thread' = "inserting"
  /\ pending' = clone \cup current.routes
  /\ UNCHANGED <<operations, tableVars, current, clone, clearVars, requestVars>>

EraseDone ==
  /\ thread = "erasing"
  /\ pending = {}
  /\ thread' = "inserting"
  /\ pending' = current.routes
  /\ UNCHANGED <<operations, tableVars, current, clone, clearVars, requestVars>>

(* The second loop, over the desired signals: one that the clone lacks     *)
(* gets a new, empty set.                                                  *)
Inserted_Replaces(signal) == {current.destination}
Inserted_NewOnly(signal) ==
  IF signal \in clone THEN destinations[signal] ELSE {current.destination}

Inserted(signal) ==
  (IF signal \in clone THEN destinations[signal] ELSE {}) \cup {current.destination}

Insert(signal) ==
  /\ thread = "inserting"
  /\ signal \in pending
  /\ pending' = pending \ {signal}
  /\ clone' = clone \cup {signal}
  /\ destinations' = [destinations EXCEPT ![signal] = Inserted(signal)]
  /\ UNCHANGED <<operations, active, thread, current, clearVars, requestVars>>

SetActiveRoutes ==
  /\ thread = "inserting"
  /\ pending = {}
  /\ active' = clone
  /\ thread' = "waiting"
  /\ current' = Nothing
  /\ clone' = {}
  /\ UNCHANGED <<operations, destinations, pending, clearVars, requestVars>>

RoutingThread ==
  \/ WaitForData
  \/ Dequeue
  \/ CloneActiveRoutes
  \/ \E s \in SignalID : Erase(s) \/ Insert(s)
  \/ EraseDone
  \/ SetActiveRoutes

Next ==
  \/ \E c \in Connection, routes \in SUBSET SignalID : UpdateRoutes(c, routes)
  \/ \E c \in Connection : RemoveRoutes(c)
  \/ ClearOperations
  \/ ClearActiveRoutes
  \/ RoutingThread

Spec == Init /\ [][Next]_vars

(* The routing thread runs whenever it has something to do, and a call of  *)
(* Clear goes on to its end.                                               *)
FairSpec == Spec /\ WF_vars(RoutingThread) /\ WF_vars(ClearActiveRoutes)

-----------------------------------------------------------------------------

(* PublishMeasurements, under the reader lock: who gets a measurement.     *)
DestinationsOf(signal) == IF signal \in active THEN destinations[signal] ELSE {}

Routed(connection) == {s \in SignalID : connection \in DestinationsOf(s)}

Idle == operations = <<>> /\ thread = "waiting" /\ ~clearing

(* The type invariant: what each variable holds.                           *)
TypeOK ==
  /\ operations \in Seq(Operation)
  /\ active \subseteq SignalID
  /\ destinations \in [SignalID -> SUBSET Connection]
  /\ thread \in {"waiting", "ready", "dequeued", "erasing", "inserting", "undefined"}
  /\ current \in Operation \cup {Nothing}
  /\ clone \subseteq SignalID
  /\ pending \subseteq SignalID
  /\ clearing \in BOOLEAN
  /\ queued \in Nat
  /\ clears \in Nat
  /\ latest \in [Connection -> Operation \cup {Nothing}]
  /\ requested \in [Connection -> SUBSET SignalID]

(* Once all operations are carried out, every connection is a destination  *)
(* of every signal that its last operation asked for, and of none at all   *)
(* if that was RemoveRoutes (publishing to it would use a connection that  *)
(* is gone), whatever the other connections and Clear did meanwhile        *)
(* (UpdateRoutesOperation, RemoveRoutesOperation).                         *)
DesiredAreRouted ==
  Idle => \A c \in Connection : latest[c] # Nothing =>
            /\ latest[c].routes \subseteq Routed(c)
            /\ latest[c].type = "RemoveRoutes" => Routed(c) = {}

(* A connection never gets a signal that it did not ask for, not even      *)
(* through a set of destinations that outlived the table it was in.        *)
RoutedAreRequested == \A c \in Connection : Routed(c) \subseteq requested[c]

(* An operation changes the routes of its own connection only, although    *)
(* the clone shares its sets with the table in use; only Clear takes       *)
(* routes from others.                                                     *)
OthersUndisturbed ==
  [][\A c \in Connection :
       Routed(c)' # Routed(c) =>
         \/ current # Nothing /\ current.destination = c
         \/ clears > 0]_vars

(* Every operation is carried out, unless Clear drops it.                  *)
OperationsComplete == operations # <<>> ~> Idle \/ thread = "undefined"

-----------------------------------------------------------------------------
(* What the comments of the source say and the code does not keep.         *)

(* RoutingTables.cpp, UpdateRoutesOperation: "Remove subscriber connection *)
(* from undesired measurement route destinations".  Hence, when all is     *)
(* done, a connection is a destination of nothing it no longer desires.    *)
UndesiredAreNotRouted ==
  Idle => \A c \in Connection :
            latest[c] # Nothing => Routed(c) \subseteq latest[c].routes

=============================================================================
