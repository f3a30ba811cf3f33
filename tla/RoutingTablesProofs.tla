------------------------- MODULE RoutingTablesProofs -------------------------
(***************************************************************************)
(* What holds of RoutingTables for every set of connections and signals    *)
(* and any number of operations and clears.                                *)
(***************************************************************************)
EXTENDS RoutingTables, SequenceTheorems, TLAPS

-----------------------------------------------------------------------------
(* Queues.                                                                 *)

LEMMA SendType ==
  ASSUME NEW S, NEW queue \in Seq(S), NEW item \in S
  PROVE  Append(queue, item) \in Seq(S)
  OBVIOUS

LEMMA ReceiveType ==
  ASSUME NEW S, NEW queue \in Seq(S), queue # <<>>
  PROVE  Head(queue) \in S /\ Tail(queue) \in Seq(S)
  BY HeadTailProperties

(* What is asked is an operation, and is queued last.                      *)
LEMMA AskedType ==
  ASSUME NEW c \in Connection, NEW routes \in SUBSET SignalID
  PROVE  /\ Update(c, routes) \in Operation
         /\ Remove(c) \in Operation
  BY DEF Update, Remove, Operation

LEMMA NothingIsNoOperation == Nothing \notin Operation
  BY DEF Nothing, Operation

-----------------------------------------------------------------------------
(* Type correctness.  While the routing thread is inside an operation it   *)
(* has one.                                                                *)
HasCurrent ==
  thread \in {"dequeued", "erasing", "inserting"} => current \in Operation

TypeInv == TypeOK /\ HasCurrent

LEMMA TypeInit == Init => TypeInv
  <1> SUFFICES ASSUME Init PROVE TypeInv
    OBVIOUS
  <1>1. operations \in Seq(Operation)
    BY DEF Init
  <1>2. /\ destinations \in [SignalID -> SUBSET Connection]
        /\ latest \in [Connection -> Operation \cup {Nothing}]
        /\ requested \in [Connection -> SUBSET SignalID]
    BY DEF Init
  <1> QED
    BY <1>1, <1>2 DEF Init, TypeInv, TypeOK, HasCurrent

LEMMA AskType ==
  ASSUME TypeInv, NEW operation \in Operation, Ask(operation)
  PROVE  TypeInv'
  <1>1. operations' \in Seq(Operation)
    BY SendType DEF Ask, Enqueue, TypeInv, TypeOK
  <1>2. /\ operation.destination \in Connection
        /\ operation.routes \in SUBSET SignalID
    BY DEF Operation
  <1>3. /\ latest' \in [Connection -> Operation \cup {Nothing}]
        /\ requested' \in [Connection -> SUBSET SignalID]
    BY <1>2 DEF Ask, TypeInv, TypeOK
  <1> QED
    BY <1>1, <1>3 DEF Ask, TypeInv, TypeOK, HasCurrent, tableVars, threadVars,
       clearVars

LEMMA TypeNext == TypeInv /\ [Next]_vars => TypeInv'
  <1> SUFFICES ASSUME TypeInv, [Next]_vars PROVE TypeInv'
    OBVIOUS
  <1>1. CASE UNCHANGED vars
    BY <1>1 DEF vars, tableVars, threadVars, clearVars, requestVars, TypeInv, TypeOK,
       HasCurrent
  <1>2. ASSUME NEW c \in Connection, NEW routes \in SUBSET SignalID,
               UpdateRoutes(c, routes)
        PROVE  TypeInv'
    BY <1>2, AskedType, AskType DEF UpdateRoutes
  <1>3. ASSUME NEW c \in Connection, RemoveRoutes(c) PROVE TypeInv'
    BY <1>3, AskedType, AskType DEF RemoveRoutes
  <1>4. CASE ClearOperations
    BY <1>4 DEF ClearOperations, TypeInv, TypeOK, HasCurrent, tableVars, threadVars,
       requestVars
  <1>5. CASE ClearActiveRoutes
    BY <1>5 DEF ClearActiveRoutes, TypeInv, TypeOK, HasCurrent, threadVars
  <1>6. CASE WaitForData
    BY <1>6 DEF WaitForData, TypeInv, TypeOK, HasCurrent, tableVars, clearVars,
       requestVars
  <1>7. CASE Dequeue
    <2>1. operations # <<>> =>
            Head(operations) \in Operation /\ Tail(operations) \in Seq(Operation)
      BY ReceiveType DEF TypeInv, TypeOK
    <2> QED
      BY <1>7, <2>1 DEF Dequeue, TypeInv, TypeOK, HasCurrent, tableVars, clearVars,
         requestVars
  <1>8. CASE CloneActiveRoutes
    BY <1>8 DEF CloneActiveRoutes, TypeInv, TypeOK, HasCurrent, tableVars, clearVars,
       requestVars
  <1>9. ASSUME NEW s \in SignalID, Erase(s) PROVE TypeInv'
    BY <1>9 DEF Erase, TypeInv, TypeOK, HasCurrent, clearVars, requestVars
  <1>10. CASE EraseDone
    BY <1>10 DEF EraseDone, TypeInv, TypeOK, HasCurrent, Operation, tableVars,
       clearVars, requestVars
  <1>11. ASSUME NEW s \in SignalID, Insert(s) PROVE TypeInv'
    <2>1. current.destination \in Connection
      BY <1>11 DEF Insert, TypeInv, HasCurrent, Operation
    <2> QED
      BY <1>11, <2>1 DEF Insert, Inserted, TypeInv, TypeOK, HasCurrent, clearVars,
         requestVars
  <1>12. CASE SetActiveRoutes
    BY <1>12 DEF SetActiveRoutes, TypeInv, TypeOK, HasCurrent, clearVars, requestVars
  <1> QED
    BY <1>1, <1>2, <1>3, <1>4, <1>5, <1>6, <1>7, <1>8, <1>9, <1>10, <1>11, <1>12
       DEF Next, RoutingThread

(* Every variable of the routing tables keeps its type, whatever is queued *)
(* and cleared.                                                            *)
THEOREM TypeCorrect == Spec => []TypeOK
  <1>1. TypeInv => TypeOK
    BY DEF TypeInv
  <1> QED
    BY <1>1, TypeInit, TypeNext, PTL DEF Spec

-----------------------------------------------------------------------------
(* Routes are requested ones.                                              *)

(* Whatever may still become a route was requested: what is queued, what   *)
(* is being carried out, and every set of destinations, reachable or not.  *)
Requested(operation) == operation.routes \subseteq requested[operation.destination]

RequestedInv ==
  /\ \A i \in 1 .. Len(operations) : Requested(operations[i])
  /\ thread \in {"dequeued", "erasing", "inserting"} => Requested(current)
  /\ thread = "inserting" => pending \subseteq current.routes
  /\ \A s \in SignalID : \A c \in destinations[s] : s \in requested[c]

LEMMA RequestedInit == Init => RequestedInv
  BY DEF Init, RequestedInv

LEMMA AskRequested ==
  ASSUME TypeInv, RequestedInv, NEW operation \in Operation, Ask(operation)
  PROVE  RequestedInv'
  <1>1. /\ operation.destination \in Connection
        /\ operation.routes \in SUBSET SignalID
    BY DEF Operation
  <1>2. \A c \in Connection : requested[c] \subseteq requested'[c]
    BY <1>1 DEF Ask, TypeInv, TypeOK
  <1>3. Requested(operation)'
    BY <1>1 DEF Ask, Requested, TypeInv, TypeOK
  <1>4. ASSUME NEW i \in 1 .. Len(operations') PROVE Requested(operations[i])'
    <2>1. CASE i = Len(operations) + 1
      BY <1>3, <2>1 DEF Ask, Enqueue, TypeInv, TypeOK
    <2>2. CASE i # Len(operations) + 1
      <3>1. /\ i \in 1 .. Len(operations)
            /\ operations'[i] = operations[i]
            /\ operations[i] \in Operation
        BY <2>2 DEF Ask, Enqueue, TypeInv, TypeOK
      <3> QED
        BY <1>2, <3>1 DEF RequestedInv, Requested, Operation
    <2> QED
      BY <2>1, <2>2
  <1>5. thread \in {"dequeued", "erasing", "inserting"} => Requested(current)'
    BY <1>2 DEF Ask, RequestedInv, Requested, TypeInv, HasCurrent, Operation, threadVars
  <1> QED
    BY <1>2, <1>4, <1>5 DEF Ask, RequestedInv, TypeInv, TypeOK, tableVars, threadVars

LEMMA RequestedNext == TypeInv /\ RequestedInv /\ [Next]_vars => RequestedInv'
  <1> SUFFICES ASSUME TypeInv, RequestedInv, [Next]_vars PROVE RequestedInv'
    OBVIOUS
  <1>1. CASE UNCHANGED vars
    BY <1>1 DEF vars, tableVars, threadVars, requestVars, RequestedInv, Requested
  <1>2. ASSUME NEW c \in Connection, NEW routes \in SUBSET SignalID,
               UpdateRoutes(c, routes)
        PROVE  RequestedInv'
    BY <1>2, AskedType, AskRequested DEF UpdateRoutes
  <1>3. ASSUME NEW c \in Connection, RemoveRoutes(c) PROVE RequestedInv'
    BY <1>3, AskedType, AskRequested DEF RemoveRoutes
  <1>4. CASE ClearOperations
    BY <1>4 DEF ClearOperations, RequestedInv, Requested, tableVars, threadVars,
       requestVars
  <1>5. CASE ClearActiveRoutes
    BY <1>5 DEF ClearActiveRoutes, RequestedInv, Requested, threadVars
  <1>6. CASE WaitForData
    BY <1>6 DEF WaitForData, RequestedInv, Requested, tableVars, requestVars
  <1>7. CASE Dequeue
    <2>1. CASE operations = <<>>
      BY <1>7, <2>1 DEF Dequeue, RequestedInv, Requested, tableVars, requestVars
    <2>2. CASE operations # <<>>
      <3>1. /\ Requested(Head(operations))
            /\ \A i \in 1 .. Len(Tail(operations)) : Requested(Tail(operations)[i])
        BY <2>2, HeadTailProperties DEF RequestedInv, TypeInv, TypeOK
      <3> QED
        BY <1>7, <2>2, <3>1 DEF Dequeue, RequestedInv, Requested, tableVars, requestVars
    <2> QED
      BY <2>1, <2>2
  <1>8. CASE CloneActiveRoutes
    BY <1>8 DEF CloneActiveRoutes, RequestedInv, Requested, tableVars, requestVars
  <1>9. ASSUME NEW s \in SignalID, Erase(s) PROVE RequestedInv'
    BY <1>9 DEF Erase, RequestedInv, Requested, requestVars, TypeInv, TypeOK
  <1>10. CASE EraseDone
    BY <1>10 DEF EraseDone, RequestedInv, Requested, tableVars, requestVars
  <1>11. ASSUME NEW s \in SignalID, Insert(s) PROVE RequestedInv'
    <2>1. s \in requested[current.destination]
      BY <1>11 DEF Insert, RequestedInv, Requested
    <2>2. \A c \in Inserted(s) : s \in requested[c]
      BY <2>1 DEF Inserted, RequestedInv
    <2> QED
      BY <1>11, <2>2 DEF Insert, RequestedInv, Requested, requestVars, TypeInv, TypeOK
  <1>12. CASE SetActiveRoutes
    BY <1>12 DEF SetActiveRoutes, RequestedInv, Requested, requestVars
  <1> QED
    BY <1>1, <1>2, <1>3, <1>4, <1>5, <1>6, <1>7, <1>8, <1>9, <1>10, <1>11, <1>12
       DEF Next, RoutingThread

(* A connection is never a destination of a signal that it did not ask     *)
(* for, although tables share their sets of destinations and Clear may     *)
(* meet an operation half way.                                             *)
THEOREM RoutesAreRequested == Spec => []RoutedAreRequested
  <1>1. TypeInv /\ RequestedInv => RoutedAreRequested
    BY DEF RequestedInv, RoutedAreRequested, Routed, DestinationsOf
  <1> QED
    BY <1>1, TypeInit, TypeNext, RequestedInit, RequestedNext, PTL DEF Spec

-----------------------------------------------------------------------------
(* The clone, and what is in it that the active table has not.             *)

AtWork == thread \in {"erasing", "inserting"}

CloneInv ==
  /\ AtWork => active \subseteq clone
  /\ clearing => clears > 0
  /\ clears = 0 /\ AtWork =>
       \A s \in clone \ active : destinations[s] \subseteq {current.destination}

LEMMA CloneInit == Init => CloneInv
  BY RoutingBounds DEF Init, CloneInv, AtWork

LEMMA CloneNext == TypeInv /\ CloneInv /\ [Next]_vars => CloneInv'
  <1> SUFFICES ASSUME TypeInv, CloneInv, [Next]_vars PROVE CloneInv'
    OBVIOUS
  <1> USE DEF CloneInv, AtWork, tableVars, threadVars, clearVars, requestVars
  <1>1. CASE UNCHANGED vars
    BY <1>1 DEF vars
  <1>2. ASSUME NEW operation, Ask(operation) PROVE CloneInv'
    BY <1>2 DEF Ask
  <1>3. CASE ClearOperations
    BY <1>3 DEF ClearOperations, TypeInv, TypeOK
  <1>4. CASE ClearActiveRoutes
    BY <1>4 DEF ClearActiveRoutes, TypeInv, TypeOK
  <1>5. CASE WaitForData \/ Dequeue \/ CloneActiveRoutes \/ EraseDone \/ SetActiveRoutes
    BY <1>5 DEF WaitForData, Dequeue, CloneActiveRoutes, EraseDone, SetActiveRoutes
  <1>6. ASSUME NEW s \in SignalID, Erase(s) PROVE CloneInv'
    BY <1>6 DEF Erase, TypeInv, TypeOK
  <1>7. ASSUME NEW s \in SignalID, Insert(s) PROVE CloneInv'
    BY <1>7 DEF Insert, Inserted, TypeInv, TypeOK
  <1> QED
    BY <1>1, <1>2, <1>3, <1>4, <1>5, <1>6, <1>7 DEF Next, RoutingThread, UpdateRoutes, RemoveRoutes

(* As long as Clear is not called, an operation adds and takes routes of   *)
(* its own connection only, at each of its steps, although it works on     *)
(* sets of destinations that the table in use shares.                      *)
THEOREM OthersAreUndisturbed == Spec => OthersUndisturbed
  <1> DEFINE Undisturbed ==
        \A c \in Connection : Routed(c)' # Routed(c) =>
          \/ current # Nothing /\ current.destination = c
          \/ clears > 0
  <1>1. ASSUME TypeInv, CloneInv, [Next]_vars PROVE [Undisturbed]_vars
    <2>0. TypeInv /\ CloneInv /\ [Next]_vars
      BY <1>1
    <2> USE <2>0 DEF tableVars, threadVars, clearVars, requestVars
    <2>1. CASE UNCHANGED tableVars
      BY <2>1 DEF Routed, DestinationsOf
    <2>2. CASE ClearActiveRoutes
      BY <2>2 DEF ClearActiveRoutes, CloneInv
    <2>3. ASSUME thread \in {"erasing", "inserting"}
          PROVE  current # Nothing
      BY <2>3, NothingIsNoOperation DEF TypeInv, HasCurrent
    <2>4. ASSUME NEW s \in SignalID, Erase(s), NEW c \in Connection, current.destination # c
          PROVE  Routed(c)' = Routed(c)
      BY <2>4 DEF Erase, Routed, DestinationsOf, TypeInv, TypeOK
    <2>5. ASSUME NEW s \in SignalID, Insert(s), NEW c \in Connection, current.destination # c
          PROVE  Routed(c)' = Routed(c)
      <3>1. active' = active /\ active \subseteq clone
            /\ destinations' = [destinations EXCEPT ![s] = Inserted(s)]
        BY <2>5 DEF Insert, CloneInv, AtWork
      <3>2. \A r \in active : c \in destinations'[r] <=> c \in destinations[r]
        BY <2>5, <3>1 DEF Inserted, TypeInv, TypeOK
      <3> QED
        BY <3>1, <3>2 DEF Routed, DestinationsOf
    <2>6. ASSUME SetActiveRoutes, NEW c \in Connection, current.destination # c, clears = 0
          PROVE  Routed(c)' = Routed(c)
      <3>1. /\ active' = clone /\ destinations' = destinations /\ active \subseteq clone
            /\ \A s \in clone \ active : destinations[s] \subseteq {current.destination}
        BY <2>6 DEF SetActiveRoutes, CloneInv, AtWork
      <3> QED
        BY <2>6, <3>1 DEF Routed, DestinationsOf
    <2>7. clears # 0 => clears > 0
      BY DEF TypeInv, TypeOK
    <2>8. ASSUME NEW s \in SignalID, Erase(s) \/ Insert(s) PROVE Undisturbed
      <3>1. current # Nothing
        BY <2>3, <2>8 DEF Erase, Insert
      <3> QED
        BY <2>4, <2>5, <2>8, <3>1
    <2>9. CASE SetActiveRoutes
      <3>1. current # Nothing
        BY <2>3, <2>9 DEF SetActiveRoutes
      <3> QED
        BY <2>6, <2>7, <2>9, <3>1
    <2>10. \/ UNCHANGED tableVars \/ ClearActiveRoutes \/ SetActiveRoutes
           \/ \E s \in SignalID : Erase(s) \/ Insert(s)
      BY DEF Next, RoutingThread, UpdateRoutes, RemoveRoutes, Ask, ClearOperations, WaitForData,
         Dequeue, CloneActiveRoutes, EraseDone, vars
    <2> QED
      BY <2>1, <2>2, <2>8, <2>9, <2>10
  <1>2. TypeInv /\ CloneInv /\ [Next]_vars => (TypeInv /\ CloneInv)'
    BY TypeNext, CloneNext
  <1> QED
    BY <1>1, <1>2, TypeInit, CloneInit, PTL DEF Spec, OthersUndisturbed

-----------------------------------------------------------------------------
(* What became of the last operation of a connection.                      *)

Table == IF AtWork THEN clone ELSE active
Has(c, s) == s \in Table /\ c \in destinations[s]

Absent(c, queue) == \A i \in 1 .. Len(queue) : queue[i].destination # c

Queued(c, operation, queue) ==
  \E i \in 1 .. Len(queue) :
    queue[i] = operation /\ \A j \in i + 1 .. Len(queue) : queue[j].destination # c

CarriesOut(c) == thread \notin {"waiting", "ready", "undefined"} /\ current.destination = c

(* The operation is under way: its first loop erases, its second inserts.  *)
InHands(c) ==
  /\ CarriesOut(c) /\ current = latest[c]
  /\ thread = "erasing" /\ current.type = "RemoveRoutes" =>
       \A s \in clone \ pending : c \notin destinations[s]
  /\ thread = "inserting" => /\ \A s \in current.routes \ pending : Has(c, s)
                             /\ pending \subseteq current.routes
                             /\ current.type = "RemoveRoutes" =>
                                  \A s \in clone : c \notin destinations[s]

CarriedOut(c) ==
  /\ ~CarriesOut(c)
  /\ \A s \in latest[c].routes : Has(c, s)
  /\ latest[c].type = "RemoveRoutes" => \A s \in Table : c \notin destinations[s]

LatestInv ==
  /\ \A c \in Connection : latest[c] # Nothing =>
       /\ latest[c].destination = c
       /\ latest[c].type = "RemoveRoutes" => latest[c].routes = {}
  /\ ~clearing => \A c \in Connection : latest[c] # Nothing =>
       \/ Queued(c, latest[c], operations)
       \/ Absent(c, operations) /\ (InHands(c) \/ CarriedOut(c))

LEMMA QueueAfterAsk ==
  ASSUME NEW queue \in Seq(Operation), NEW operation \in Operation, NEW c,
         NEW longer, longer = Append(queue, operation)
  PROVE  /\ operation.destination = c => Queued(c, operation, longer)
         /\ operation.destination # c =>
              /\ Absent(c, queue) => Absent(c, longer)
              /\ \A o : Queued(c, o, queue) => Queued(c, o, longer)
  <1>1. /\ Len(queue) \in Nat /\ Len(longer) = Len(queue) + 1
        /\ \A i \in 1 .. Len(queue) : longer[i] = queue[i]
        /\ longer[Len(queue) + 1] = operation
    BY AppendProperties, LenProperties
  <1>2. ASSUME operation.destination # c, NEW o, NEW i \in 1 .. Len(queue), queue[i] = o,
               \A j \in i + 1 .. Len(queue) : queue[j].destination # c
        PROVE  Queued(c, o, longer)
    <2>1. i \in 1 .. Len(longer) /\ longer[i] = o
      BY <1>1, <1>2
    <2>2. \A j \in i + 1 .. Len(longer) : longer[j].destination # c
      BY <1>1, <1>2
    <2> QED
      BY <2>1, <2>2 DEF Queued
  <1>3. operation.destination # c /\ Absent(c, queue) => Absent(c, longer)
    BY <1>1 DEF Absent
  <1>4. operation.destination = c => Queued(c, operation, longer)
    BY <1>1 DEF Queued
  <1> QED
    BY <1>2, <1>3, <1>4 DEF Queued

LEMMA QueueAfterDequeue ==
  ASSUME NEW queue \in Seq(Operation), queue # <<>>, NEW c, NEW rest, rest = Tail(queue)
  PROVE  /\ Absent(c, queue) => Absent(c, rest) /\ Head(queue).destination # c
         /\ \A o : Queued(c, o, queue) =>
              Queued(c, o, rest) \/ (Absent(c, rest) /\ Head(queue) = o)
  <1>1. /\ Len(queue) \in Nat /\ Len(queue) # 0 /\ Head(queue) = queue[1]
        /\ Len(rest) = Len(queue) - 1
        /\ \A i \in 1 .. Len(rest) : rest[i] = queue[i + 1]
    BY HeadTailProperties, LenProperties, EmptySeq
  <1>2. Absent(c, queue) => Absent(c, rest) /\ Head(queue).destination # c
    BY <1>1 DEF Absent
  <1>3. ASSUME NEW o, NEW i \in 1 .. Len(queue), queue[i] = o,
               \A j \in i + 1 .. Len(queue) : queue[j].destination # c
        PROVE  Queued(c, o, rest) \/ (Absent(c, rest) /\ Head(queue) = o)
    <2>1. CASE i = 1
      BY <1>1, <1>3, <2>1 DEF Absent
    <2>2. CASE i # 1
      <3>1. i - 1 \in 1 .. Len(rest) /\ rest[i - 1] = o
        BY <1>1, <1>3, <2>2
      <3>2. \A j \in (i - 1) + 1 .. Len(rest) : rest[j].destination # c
        BY <1>1, <1>3
      <3> QED
        BY <3>1, <3>2 DEF Queued
    <2> QED
      BY <2>1, <2>2
  <1> QED
    BY <1>2, <1>3 DEF Queued

LEMMA LatestInit == Init => LatestInv
  BY DEF Init, LatestInv

LEMMA LatestNext == TypeInv /\ CloneInv /\ LatestInv /\ [Next]_vars => LatestInv'
  <1> SUFFICES ASSUME TypeInv, CloneInv, LatestInv, [Next]_vars PROVE LatestInv'
    OBVIOUS
  <1> USE DEF tableVars, threadVars, clearVars, requestVars
  <1>0. /\ operations \in Seq(Operation) /\ destinations \in [SignalID -> SUBSET Connection]
        /\ latest \in [Connection -> Operation \cup {Nothing}]
        /\ clone \subseteq SignalID /\ active \subseteq SignalID
        /\ current \in Operation \cup {Nothing}
        /\ AtWork \/ thread = "dequeued" => current \in Operation
    BY DEF TypeInv, TypeOK, HasCurrent, AtWork
  <1>l. ASSUME latest' = latest
        PROVE  \A c \in Connection : latest[c] # Nothing =>
                 /\ latest'[c].destination = c
                 /\ latest'[c].type = "RemoveRoutes" => latest'[c].routes = {}
    BY <1>l DEF LatestInv
  <1>1. CASE UNCHANGED vars
    BY <1>1 DEF vars, LatestInv, InHands, CarriedOut, CarriesOut, Has, Table, AtWork
  <1>2. ASSUME NEW operation \in Operation, operation.type = "RemoveRoutes" => operation.routes = {},
               Ask(operation)
        PROVE  LatestInv'
    <2>1. /\ operations' = Append(operations, operation)
          /\ operation.destination \in Connection
          /\ latest' = [latest EXCEPT ![operation.destination] = operation]
          /\ UNCHANGED <<tableVars, threadVars, clearVars>>
      BY <1>2 DEF Ask, Enqueue, Operation
    <2>2. PICK longer : longer = operations'
      OBVIOUS
    <2>3. ASSUME NEW c \in Connection, latest'[c] # Nothing
          PROVE  /\ latest'[c].destination = c
                 /\ latest'[c].type = "RemoveRoutes" => latest'[c].routes = {}
      BY <1>0, <1>2, <2>1, <2>3 DEF LatestInv
    <2>4. ASSUME ~clearing', NEW c \in Connection, latest'[c] # Nothing
          PROVE  \/ Queued(c, latest'[c], operations')
                 \/ Absent(c, operations') /\ (InHands(c)' \/ CarriedOut(c)')
      <3>1. CASE operation.destination = c
        <4>1. latest'[c] = operation
          BY <1>0, <2>1, <3>1
        <4> QED
          BY <1>0, <2>1, <2>2, <3>1, <4>1, QueueAfterAsk
      <3>2. CASE operation.destination # c
        <4>1. latest'[c] = latest[c] /\ ~clearing
          BY <1>0, <2>1, <2>4, <3>2
        <4>2. \/ Queued(c, latest[c], operations)
              \/ Absent(c, operations) /\ (InHands(c) \/ CarriedOut(c))
          BY <2>4, <4>1 DEF LatestInv
        <4>3. Queued(c, latest[c], operations) => Queued(c, latest[c], operations')
          BY <1>0, <2>1, <2>2, <3>2, QueueAfterAsk
        <4>4. Absent(c, operations) => Absent(c, operations')
          BY <1>0, <2>1, <2>2, <3>2, QueueAfterAsk
        <4>5. InHands(c) => InHands(c)'
          BY <2>1, <4>1 DEF InHands, CarriesOut, Has, Table, AtWork
        <4>6. CarriedOut(c) => CarriedOut(c)'
          BY <2>1, <4>1 DEF CarriedOut, CarriesOut, Has, Table, AtWork
        <4> QED
          BY <4>1, <4>2, <4>3, <4>4, <4>5, <4>6
      <3> QED
        BY <3>1, <3>2
    <2> QED
      BY <2>3, <2>4 DEF LatestInv
  <1>3. CASE ClearOperations
    BY <1>l, <1>3 DEF ClearOperations, LatestInv
  <1>4. CASE ClearActiveRoutes
    BY <1>4 DEF ClearActiveRoutes, LatestInv
  <1>s. ASSUME UNCHANGED <<latest, operations, clearing>>,
               \A c \in Connection : InHands(c) \/ CarriedOut(c) => InHands(c)' \/ CarriedOut(c)'
        PROVE  LatestInv'
    BY <1>l, <1>s DEF LatestInv
  <1>5. CASE WaitForData
    BY <1>5, <1>s DEF WaitForData, InHands, CarriedOut, CarriesOut, Has, Table, AtWork
  <1>6. CASE Dequeue
    <2>1. CASE operations = <<>>
      BY <1>6, <1>s, <2>1 DEF Dequeue, InHands, CarriedOut, CarriesOut, Has, Table, AtWork
    <2>2. CASE operations # <<>>
      <3>1. /\ thread = "ready" /\ thread' = "dequeued"
            /\ current' = Head(operations) /\ operations' = Tail(operations)
            /\ UNCHANGED <<tableVars, clone, pending, clearVars, requestVars>>
        BY <1>6, <2>2 DEF Dequeue
      <3>2. PICK rest : rest = operations'
        OBVIOUS
      <3>3. ASSUME ~clearing, NEW c \in Connection, latest[c] # Nothing
            PROVE  \/ Queued(c, latest[c], operations')
                   \/ Absent(c, operations') /\ (InHands(c)' \/ CarriedOut(c)')
        <4>1. CASE Queued(c, latest[c], operations)
          <5>1. Queued(c, latest[c], operations') \/ (Absent(c, operations') /\ current' = latest[c])
            BY <1>0, <2>2, <3>1, <3>2, <4>1, QueueAfterDequeue
          <5>2. latest[c].destination = c
            BY <3>3 DEF LatestInv
          <5>3. current' = latest[c] => InHands(c)'
            BY <3>1, <5>2 DEF InHands, CarriesOut
          <5> QED
            BY <5>1, <5>3
        <4>2. CASE Absent(c, operations) /\ (InHands(c) \/ CarriedOut(c))
          <5>1. Absent(c, operations') /\ current'.destination # c
            BY <1>0, <2>2, <3>1, <3>2, <4>2, QueueAfterDequeue
          <5>2. CarriedOut(c)
            BY <3>1, <4>2 DEF InHands, CarriesOut
          <5>3. CarriedOut(c)'
            BY <3>1, <5>1, <5>2 DEF CarriedOut, CarriesOut, Has, Table, AtWork
          <5> QED
            BY <5>1, <5>3
        <4> QED
          BY <3>3, <4>1, <4>2 DEF LatestInv
      <3> QED
        BY <1>l, <3>1, <3>3 DEF LatestInv
    <2> QED
      BY <2>1, <2>2
  <1>7. CASE CloneActiveRoutes
    BY <1>7, <1>s DEF CloneActiveRoutes, InHands, CarriedOut, CarriesOut, Has, Table, AtWork
  <1>8. ASSUME NEW s \in SignalID, Erase(s) PROVE LatestInv'
    <2>1. /\ thread = "erasing" /\ pending' = pending \ {s}
          /\ destinations' = IF Erased(current, s)
                             THEN [destinations EXCEPT ![s] = @ \ {current.destination}]
                             ELSE destinations
          /\ UNCHANGED <<operations, active, thread, current, clone, clearVars, requestVars>>
      BY <1>8 DEF Erase
    <2>2. ASSUME NEW c \in Connection, InHands(c) PROVE InHands(c)'
      BY <1>0, <2>1, <2>2 DEF InHands, CarriesOut, Erased
    <2>3. ASSUME NEW c \in Connection, CarriedOut(c) PROVE CarriedOut(c)'
      <3>1. current.destination # c
        BY <2>1, <2>3 DEF CarriedOut, CarriesOut
      <3>2. \A r \in SignalID : c \in destinations'[r] <=> c \in destinations[r]
        BY <1>0, <2>1, <3>1
      <3>3. Table' = Table /\ Table \subseteq SignalID
        BY <1>0, <2>1 DEF Table, AtWork
      <3> QED
        BY <2>1, <2>3, <3>2, <3>3 DEF CarriedOut, CarriesOut, Has
    <2> QED
      BY <1>s, <2>1, <2>2, <2>3
  <1>9. CASE EraseDone
    BY <1>9, <1>s DEF EraseDone, InHands, CarriedOut, CarriesOut, Has, Table, AtWork
  <1>10. ASSUME NEW s \in SignalID, Insert(s) PROVE LatestInv'
    <2>1. /\ thread = "inserting" /\ s \in pending /\ pending' = pending \ {s}
          /\ clone' = clone \cup {s}
          /\ destinations' = [destinations EXCEPT ![s] = Inserted(s)]
          /\ UNCHANGED <<operations, active, thread, current, clearVars, requestVars>>
      BY <1>10 DEF Insert
    <2>2. /\ Table = clone /\ Table' = clone'
          /\ \A c \in Connection \ {current.destination} : \A r \in clone :
               c \in destinations'[r] <=> c \in destinations[r]
          /\ \A c \in Connection \ {current.destination} : s \notin clone => c \notin destinations'[s]
          /\ current.destination \in destinations'[s]
          /\ \A r \in SignalID \ {s} : destinations'[r] = destinations[r]
      BY <1>0, <2>1 DEF Inserted, Table, AtWork
    <2>3. ASSUME NEW c \in Connection, InHands(c) PROVE InHands(c)'
      <3>1. /\ current = latest[c] /\ current.destination = c
            /\ \A r \in current.routes \ pending : Has(c, r)
            /\ pending \subseteq current.routes
        BY <2>1, <2>3 DEF InHands, CarriesOut
      <3>2. current.type # "RemoveRoutes"
        BY <2>1, <3>1, <1>0 DEF LatestInv, AtWork, Nothing, Operation
      <3>3. \A r \in current.routes \ pending' : Has(c, r)'
        BY <1>0, <2>1, <2>2, <3>1 DEF Has
      <3> QED
        BY <2>1, <3>1, <3>2, <3>3 DEF InHands, CarriesOut
    <2>4. ASSUME NEW c \in Connection, CarriedOut(c) PROVE CarriedOut(c)'
      <3>1. current.destination # c
        BY <2>1, <2>4 DEF CarriedOut, CarriesOut
      <3> QED
        BY <2>1, <2>2, <2>4, <3>1 DEF CarriedOut, CarriesOut, Has
    <2> QED
      BY <1>s, <2>1, <2>3, <2>4
  <1>11. CASE SetActiveRoutes
    <2>1. /\ thread = "inserting" /\ thread' = "waiting" /\ pending = {}
          /\ active' = clone /\ Table = clone /\ Table' = active'
          /\ UNCHANGED <<operations, destinations, latest, clearing>>
      BY <1>11 DEF SetActiveRoutes, Table, AtWork
    <2>2. ASSUME NEW c \in Connection, InHands(c) PROVE CarriedOut(c)'
      BY <2>1, <2>2 DEF InHands, CarriedOut, CarriesOut, Has
    <2>3. ASSUME NEW c \in Connection, CarriedOut(c) PROVE CarriedOut(c)'
      BY <2>1, <2>3 DEF CarriedOut, CarriesOut, Has
    <2> QED
      BY <1>s, <2>1, <2>2, <2>3
  <1>12. ASSUME NEW c \in Connection, NEW routes \in SUBSET SignalID,
                UpdateRoutes(c, routes) \/ RemoveRoutes(c)
         PROVE  LatestInv'
    <2>1. Update(c, routes).type # "RemoveRoutes" /\ Remove(c).routes = {}
      BY DEF Update, Remove
    <2> QED
      BY <1>2, <1>12, <2>1, AskedType DEF UpdateRoutes, RemoveRoutes
  <1> QED
    BY <1>1, <1>3, <1>4, <1>5, <1>6, <1>7, <1>8, <1>9, <1>10, <1>11, <1>12 DEF Next, RoutingThread

(* When all operations have been carried out, a connection gets the        *)
(* signals that its last one asked for, and none if it was removed: what   *)
(* the others' operations and Clear did in between changes nothing of it.  *)
THEOREM DesiredRoutesAreThere == Spec => []DesiredAreRouted
  <1>1. TypeInv /\ LatestInv => DesiredAreRouted
    <2> SUFFICES ASSUME TypeInv, LatestInv, Idle, NEW c \in Connection, latest[c] # Nothing
                 PROVE  /\ latest[c].routes \subseteq Routed(c)
                        /\ latest[c].type = "RemoveRoutes" => Routed(c) = {}
      BY DEF DesiredAreRouted
    <2>1. operations = <<>> /\ thread = "waiting" /\ ~clearing
      BY DEF Idle
    <2>2. ~Queued(c, latest[c], operations)
      BY <2>1 DEF Queued
    <2>3. CarriedOut(c) /\ Table = active
      BY <2>1, <2>2 DEF LatestInv, InHands, CarriesOut, Table, AtWork
    <2>4. active \subseteq SignalID
      BY DEF TypeInv, TypeOK
    <2> QED
      BY <2>3, <2>4 DEF CarriedOut, Has, Routed, DestinationsOf
  <1>2. /\ Init => TypeInv /\ CloneInv /\ LatestInv
        /\ TypeInv /\ CloneInv /\ LatestInv /\ [Next]_vars => (TypeInv /\ CloneInv /\ LatestInv)'
    BY TypeInit, TypeNext, CloneInit, CloneNext, LatestInit, LatestNext
  <1> QED
    BY <1>1, <1>2, PTL DEF Spec

=============================================================================
