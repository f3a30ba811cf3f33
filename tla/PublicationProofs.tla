-------------------------- MODULE PublicationProofs --------------------------
(***************************************************************************)
(* What holds of publication in both formats: of CompactPublication for    *)
(* every number of threads, of subscriptions, of publications and of       *)
(* rotations, and for every interval; at the end, of TsscStream for all    *)
(* measurements, batches and resets.                                       *)
(***************************************************************************)
EXTENDS CompactPublication, TsscStream, SequenceTheorems, FiniteSetTheorems, TLAPS

Timestamp == {n \in Nat : n >= Epoch}
Measurement == [offset : BOOLEAN, index : 1 .. 2, number : Nat]
Data == [kind : {"data"}, measurement : Measurement, timestamp : Timestamp, clean : BOOLEAN]
Times == [kind : {"times"}, baseTimes : [1 .. 2 -> Nat]]
Message == Data \cup Times

TimerState == {"none", "started", "waiting", "publishing", "index", "base", "send", "ended"}

TimerTypes ==
  /\ handler \in {"idle", "stopRotation", "stopThrottle", "start"}
  /\ subscription \in Nat /\ subscription <= MaxSubscribes
  /\ timer \in [Timer -> TimerState]
  /\ running \in [Timer -> BOOLEAN]
  /\ cancelled \in [Timer -> {"no", "missed", "joining", "yes"}]
  /\ pc \in [Publisher -> {"idle", "serialize", "publish"}]

DataTypes ==
  /\ latest \in Timestamp \cup {0} /\ latestTimestamp \in Nat /\ clock \in Nat
  /\ baseTimes \in [1 .. 2 -> Nat] /\ theirBaseTimes \in [1 .. 2 -> Nat]
  /\ timeIndex \in 1 .. 2 /\ index \in [Publisher -> 1 .. 2]
  /\ realTime \in [Rotation -> Nat]
  /\ time \in [Publisher -> Nat] /\ clean \in [Publisher -> BOOLEAN]
  /\ packet \in [Publisher -> Measurement \cup {<<>>}]
  /\ channel \in Seq(Message)
  /\ \A p \in Publisher : /\ pc[p] # "idle" => time[p] \in Timestamp
                          /\ pc[p] = "publish" => packet[p] \in Measurement

-----------------------------------------------------------------------------
(* Timers.  One that Stop has done with is gone, or was missed.            *)

Done(t) == cancelled[t] = "missed" \/ timer[t] \in {"none", "ended"}

SubscriptionOf(t) == t[2]  \* the subscription that a timer belongs to

TimersOfTheFuture ==
  \A t \in Timer : SubscriptionOf(t) > subscription =>
    timer[t] = "none" /\ ~running[t] /\ cancelled[t] = "no"

(* A timer that is at work runs, or Stop waits for it.                     *)
WorkingRun ==
  \A t \in Timer :
    (timer[t] \notin {"none", "started", "ended"} /\ ~running[t]) => cancelled[t] = "joining"

HandlerKnows ==
  /\ handler # "idle" => subscription < MaxSubscribes
  /\ handler \in {"stopRotation", "stopThrottle"} => subscription # 0
  /\ handler = "stopThrottle" => Done(<<"rotation", subscription>>)
  /\ handler = "start" /\ subscription # 0 =>
       Done(<<"rotation", subscription>>) /\ Done(<<"throttle", subscription>>)

ThrottlesPublish == \A t \in Throttle : pc[t] # "idle" => timer[t] = "publishing"

EarlierAreDone == \A t \in Timer : SubscriptionOf(t) < subscription => Done(t)

TimerInv ==
  /\ TimerTypes /\ TimersOfTheFuture /\ WorkingRun /\ HandlerKnows
  /\ ThrottlesPublish /\ EarlierAreDone

-----------------------------------------------------------------------------
(* Base times.  What the subscriber knows when it has read all that was    *)
(* sent are the publisher's base times, unless these were cleared or a     *)
(* rotation is under way.                                                  *)

NoTimes(queue, first, last) == \A j \in first .. last : queue[j].kind # "times"

Announced(b, theirs, queue) ==
  \/ NoTimes(queue, 1, Len(queue)) /\ b = theirs
  \/ \E j \in 1 .. Len(queue) : /\ queue[j].kind = "times" /\ queue[j].baseTimes = b
                               /\ NoTimes(queue, j + 1, Len(queue))

NoneRotating == \A t \in Rotation : ~Rotating(t)

Synchronized == NoneRotating =>
  baseTimes = <<0, 0>> \/ Announced(baseTimes, theirBaseTimes, channel)

(* The measurement says the timestamp to one who knows the base times b.   *)
Exact(measurement, timestamp, b) ==
  IF measurement.offset
  THEN b[measurement.index] # 0 /\ b[measurement.index] + measurement.number = timestamp
  ELSE measurement.number = timestamp

CleanUndisturbed ==
  \A p \in Publisher : (clean[p] /\ pc[p] # "idle") =>
    NoneRotating /\ (pc[p] = "publish" => Exact(packet[p], time[p], baseTimes))

(* What is read of a clean packet, with the base times that come before it.*)
AllExact(theirs, queue) ==
  \A k \in 1 .. Len(queue) : (queue[k].kind = "data" /\ queue[k].clean) =>
    /\ NoTimes(queue, 1, k - 1) => Exact(queue[k].measurement, queue[k].timestamp, theirs)
    /\ \A j \in 1 .. k - 1 : (queue[j].kind = "times" /\ NoTimes(queue, j + 1, k - 1)) =>
         Exact(queue[k].measurement, queue[k].timestamp, queue[j].baseTimes)

SentExact == AllExact(theirBaseTimes, channel)

DataInv == DataTypes /\ Synchronized /\ CleanUndisturbed /\ SentExact

-----------------------------------------------------------------------------
(* Names, and the steps of Next, each by its name.                         *)

LEMMA Names ==
  /\ Rotation \subseteq Timer /\ Throttle \subseteq Timer
  /\ Program \subseteq Publisher /\ Throttle \subseteq Publisher
  /\ Rotation \cap Throttle = {} /\ Program \cap Timer = {}
  /\ \A t \in Timer : /\ t[2] \in 1 .. MaxSubscribes
                      /\ t \in {<<"rotation", t[2]>>, <<"throttle", t[2]>>}
  /\ \A n \in 1 .. MaxSubscribes : /\ <<"rotation", n>> \in Rotation
                                   /\ <<"throttle", n>> \in Throttle
                                   /\ <<"rotation", n>>[2] = n /\ <<"throttle", n>>[2] = n
                                   /\ <<"rotation", n>> # <<"throttle", n>>
  <1>1. Rotation \cap Throttle = {}
    BY DEF Rotation, Throttle
  <1>2. \A t \in Timer : /\ t[2] \in 1 .. MaxSubscribes
                         /\ t \in {<<"rotation", t[2]>>, <<"throttle", t[2]>>}
    BY DEF Timer, Rotation, Throttle
  <1>3. \A n \in 1 .. MaxSubscribes : <<"rotation", n>> \in Rotation /\ <<"throttle", n>> \in Throttle
    BY DEF Rotation, Throttle
  <1> QED
    BY <1>1, <1>2, <1>3, ProgramAssumption DEF Timer, Publisher

LEMMA Bounds ==
  /\ MaxSubscribes \in Nat /\ MaxPublications \in Nat /\ Interval \in Nat
  /\ Step \in Nat /\ Span \in Nat /\ Span # 0 /\ Epoch \in Nat
  BY BoundsAssumption, StepAssumption DEF Epoch

LEMMA Members ==
  /\ \A t \in Timer : SubscriptionOf(t) \in Nat
  /\ \A p \in Program : p \in Publisher /\ p \notin Throttle
  /\ \A t \in Throttle : t \in Timer /\ t \in Publisher /\ t \notin Rotation
  /\ \A t \in Rotation : t \in Timer /\ t \notin Throttle
  BY Names, Bounds DEF SubscriptionOf

(* The timers of a subscription.                                           *)
LEMMA TimersOf ==
  ASSUME NEW n \in Nat, n <= MaxSubscribes, n # 0
  PROVE  /\ <<"rotation", n>> \in Timer /\ <<"throttle", n>> \in Timer
         /\ SubscriptionOf(<<"rotation", n>>) = n /\ SubscriptionOf(<<"throttle", n>>) = n
         /\ <<"rotation", n>> # <<"throttle", n>>
         /\ \A t \in Timer : SubscriptionOf(t) = n => t \in {<<"rotation", n>>, <<"throttle", n>>}
  <1>1. n \in 1 .. MaxSubscribes
    BY Bounds
  <1> QED
    BY <1>1, Names DEF SubscriptionOf

LEMMA Steps ==
  ASSUME [Next]_vars
  PROVE  \/ UNCHANGED vars
         \/ \E p \in Program : PublishMeasurements(p)
         \/ \E p \in Publisher : Serialize(p) \/ PublishCompactDataPacket(p)
         \/ \E t \in Timer : RunTimer(t) \/ Interrupted(t)
         \/ \E t \in Throttle : PublishLatest(t)
         \/ \E t \in Rotation : \/ Rotate(t) \/ SetTimeIndex(t) \/ SetBaseTime(t)
                                \/ UpdateBaseTimes(t)
         \/ HandleSubscribe \/ HandleUnsubscribe
         \/ StopRotation \/ StopThrottle \/ StartTimers \/ Receive
  BY Names DEF Next, PublisherStep, RotationStep, ThrottleStep, HandlerStep

-----------------------------------------------------------------------------
(* The timers.                                                             *)

LEMMA TimerInit == Init => TimerInv
  <1> SUFFICES ASSUME Init PROVE TimerInv
    OBVIOUS
  <1>1. 0 \in 0 .. MaxSubscribes
    BY BoundsAssumption
  <1> QED
    BY <1>1, Names DEF Init, TimerInv, TimerTypes, TimerState, TimersOfTheFuture, WorkingRun,
       HandlerKnows, ThrottlesPublish, EarlierAreDone, Done

(* A timer at work that goes on or ends, without the handler.              *)
LEMMA TimerGoesOn ==
  ASSUME TimerInv, NEW t \in Timer,
         timer[t] \notin {"none", "ended"},
         timer'[t] \in TimerState \ {"none", "started"},
         \A u \in Timer \ {t} : timer'[u] = timer[u] /\ running'[u] = running[u],
         timer' \in [Timer -> TimerState], running' \in [Timer -> BOOLEAN],
         running'[t] = running[t] \/ timer'[t] = "ended" \/ running'[t],
         timer[t] = "started" => running'[t],
         UNCHANGED <<handler, subscription, cancelled>>,
         pc' \in [Publisher -> {"idle", "serialize", "publish"}],
         ThrottlesPublish'
  PROVE  TimerInv'
  <1> USE DEF TimerInv
  <1>1. TimerTypes'
    BY DEF TimerTypes
  <1>2. TimersOfTheFuture'
    BY DEF TimersOfTheFuture
  <1>3. WorkingRun'
    BY DEF WorkingRun
  <1>4. \A u \in Timer : Done(u) => Done(u)'
    BY DEF Done
  <1>5. HandlerKnows'
    <2>1. subscription # 0 => <<"rotation", subscription>> \in Timer /\ <<"throttle", subscription>> \in Timer
      BY TimersOf DEF TimerTypes
    <2> QED
      BY <1>4, <2>1 DEF HandlerKnows
  <1>6. EarlierAreDone'
    BY <1>4 DEF EarlierAreDone
  <1> QED
    BY <1>1, <1>2, <1>3, <1>5, <1>6

(* Steps that leave the timers alone.                                      *)
LEMMA TimersAlone ==
  ASSUME TimerInv, UNCHANGED <<handler, subscription, timer, running, cancelled>>,
         pc' \in [Publisher -> {"idle", "serialize", "publish"}],
         \A t \in Throttle : pc'[t] # "idle" => pc[t] # "idle"
  PROVE  TimerInv'
  BY DEF TimerInv, TimerTypes, TimersOfTheFuture, WorkingRun, HandlerKnows, ThrottlesPublish,
         EarlierAreDone, Done

LEMMA StopTimerInv ==
  ASSUME TimerInv, NEW t \in Timer, NEW next \in {"stopThrottle", "start"},
         SubscriptionOf(t) = subscription, handler \in {"stopRotation", "stopThrottle"},
         StopTimer(t, next), UNCHANGED <<subscription, timer, pc>>
  PROVE  /\ TimerTypes' /\ TimersOfTheFuture' /\ WorkingRun' /\ ThrottlesPublish'
         /\ EarlierAreDone'
         /\ handler' \in {handler, next}
         /\ handler' # handler => Done(t)'
         /\ \A u \in Timer \ {t} : Done(u) => Done(u)'
  <1>0. subscription \in Nat
    BY DEF TimerInv, TimerTypes
  <1> USE DEF TimerInv
  <1>1. TimerTypes'
    BY DEF StopTimer, TimerTypes
  <1>2. /\ \A u \in Timer \ {t} : running'[u] = running[u] /\ cancelled'[u] = cancelled[u]
        /\ timer' = timer
    BY DEF StopTimer, TimerTypes
  <1>3. TimersOfTheFuture'
    <2> SUFFICES ASSUME NEW u \in Timer, SubscriptionOf(u) > subscription
                 PROVE  timer[u] = "none" /\ ~running'[u] /\ cancelled'[u] = "no"
      BY <1>2 DEF TimersOfTheFuture
    <2>1. u # t
      BY <1>0
    <2> QED
      BY <1>2, <2>1 DEF TimersOfTheFuture
  <1>4. WorkingRun'
    <2>1. (timer[t] \notin {"none", "started", "ended"} /\ ~running'[t]) => cancelled'[t] = "joining"
      BY DEF StopTimer, WorkingRun, TimerTypes
    <2> QED
      BY <1>2, <2>1 DEF WorkingRun
  <1>5. \A u \in Timer \ {t} : Done(u) => Done(u)'
    BY <1>2 DEF Done
  <1>6. EarlierAreDone'
    <2> SUFFICES ASSUME NEW u \in Timer, SubscriptionOf(u) < subscription PROVE Done(u)'
      BY <1>2 DEF EarlierAreDone
    <2>1. u # t
      BY <1>0
    <2> QED
      BY <1>5, <2>1 DEF EarlierAreDone
  <1>7. handler' # handler => Done(t)'
    BY DEF StopTimer, Done, WorkingRun, TimerTypes
  <1> QED
    BY <1>1, <1>3, <1>4, <1>5, <1>6, <1>7 DEF StopTimer, ThrottlesPublish

LEMMA TimerNext == TimerInv /\ [Next]_vars => TimerInv'
  <1> SUFFICES ASSUME TimerInv, [Next]_vars PROVE TimerInv'
    OBVIOUS
  <1>m. /\ \A p \in Program : p \in Publisher /\ p \notin Throttle
        /\ \A t \in Throttle : t \in Timer /\ t \in Publisher /\ t \notin Rotation
        /\ \A t \in Rotation : t \in Timer /\ t \notin Throttle
    BY Members
  <1> USE DEF subscriptionVars, baseVars, timerVars, publisherVars, counters
  <1>0. TimerTypes /\ ThrottlesPublish
    BY DEF TimerInv
  <1>1. CASE UNCHANGED vars
    BY <1>0, <1>1, TimersAlone DEF vars, TimerTypes
  <1>2. ASSUME NEW p \in Program, PublishMeasurements(p) PROVE TimerInv'
    <2>1. pc' = pc \/ pc' = [pc EXCEPT ![p] = "serialize"]
      BY <1>2 DEF PublishMeasurements, Capture
    <2>2. UNCHANGED <<handler, subscription, timer, running, cancelled>>
      BY <1>2 DEF PublishMeasurements
    <2> QED
      BY <1>0, <1>m, <2>1, <2>2, TimersAlone DEF TimerTypes
  <1>3. ASSUME NEW p \in Publisher, Serialize(p) PROVE TimerInv'
    BY <1>0, <1>m, <1>3, TimersAlone DEF Serialize, TimerTypes
  <1>4. ASSUME NEW p \in Publisher, PublishCompactDataPacket(p) PROVE TimerInv'
    <2>1. pc' = [pc EXCEPT ![p] = "idle"] /\ UNCHANGED <<handler, subscription, running, cancelled>>
      BY <1>4 DEF PublishCompactDataPacket
    <2>2. CASE p \in Throttle
      <3>1. timer[p] = "publishing"
        BY <1>0, <1>m, <1>4, <2>2 DEF PublishCompactDataPacket, ThrottlesPublish
      <3>2. timer' = [timer EXCEPT ![p] = IF running[p] THEN "waiting" ELSE "ended"]
        BY <1>4, <2>2 DEF PublishCompactDataPacket, AfterCallback
      <3>3. ThrottlesPublish'
        BY <1>0, <1>m, <2>1, <3>2 DEF ThrottlesPublish, TimerTypes
      <3> QED
        BY <1>0, <1>m, <2>1, <2>2, <3>1, <3>2, <3>3, TimerGoesOn DEF TimerTypes, TimerState
    <2>3. CASE p \notin Throttle
      <3>1. timer' = timer
        BY <1>4, <2>3 DEF PublishCompactDataPacket
      <3> QED
        BY <1>0, <1>m, <2>1, <3>1, TimersAlone DEF TimerTypes
    <2> QED
      BY <2>2, <2>3
  <1>5. ASSUME NEW t \in Timer, RunTimer(t) PROVE TimerInv'
    <2>1. ThrottlesPublish'
      BY <1>0, <1>m, <1>5 DEF RunTimer, ThrottlesPublish, TimerTypes
    <2> QED
      BY <1>0, <1>m, <1>5, <2>1, TimerGoesOn DEF RunTimer, TimerTypes, TimerState
  <1>6. ASSUME NEW t \in Timer, Interrupted(t) PROVE TimerInv'
    <2>1. ThrottlesPublish'
      BY <1>0, <1>m, <1>6 DEF Interrupted, ThrottlesPublish, TimerTypes
    <2> QED
      BY <1>0, <1>m, <1>6, <2>1, TimerGoesOn DEF Interrupted, TimerTypes, TimerState
  <1>7. ASSUME NEW t \in Throttle, PublishLatest(t) PROVE TimerInv'
    <2>1. CASE latest = 0
      BY <1>0, <1>m, <1>7, <2>1, TimersAlone DEF PublishLatest, TimerTypes
    <2>2. CASE latest # 0
      <3>1. /\ timer' = [timer EXCEPT ![t] = "publishing"]
            /\ pc' = [pc EXCEPT ![t] = "serialize"]
            /\ timer[t] = "waiting"
            /\ UNCHANGED <<handler, subscription, running, cancelled>>
        BY <1>7, <2>2 DEF PublishLatest, Capture
      <3>2. ThrottlesPublish'
        BY <1>0, <1>m, <3>1 DEF ThrottlesPublish, TimerTypes
      <3> QED
        BY <1>0, <1>m, <3>1, <3>2, TimerGoesOn DEF TimerTypes, TimerState
    <2> QED
      BY <2>1, <2>2
  <1>8. ASSUME NEW t \in Rotation,
               \/ Rotate(t) \/ SetTimeIndex(t) \/ SetBaseTime(t) \/ UpdateBaseTimes(t)
        PROVE  TimerInv'
    <2>1. UNCHANGED <<handler, subscription, running, cancelled, pc>>
      BY <1>8 DEF Rotate, SetTimeIndex, SetBaseTime, UpdateBaseTimes
    <2>2. CASE timer' = timer
      BY <1>0, <1>m, <2>1, <2>2, TimersAlone DEF TimerTypes
    <2>3. CASE timer' # timer
      <3>1. /\ timer[t] \in {"waiting", "index", "base", "send"}
            /\ \E state \in {"waiting", "index", "base", "send", "ended"} :
                 timer' = [timer EXCEPT ![t] = state]
        BY <1>8, <2>3 DEF Rotate, SetTimeIndex, SetBaseTime, UpdateBaseTimes, AfterCallback
      <3>2. ThrottlesPublish'
        BY <1>0, <1>m, <2>1, <3>1 DEF ThrottlesPublish, TimerTypes
      <3> QED
        <4>1. PICK state \in {"waiting", "index", "base", "send", "ended"} :
                timer' = [timer EXCEPT ![t] = state]
          BY <3>1
        <4>2. /\ timer[t] \notin {"none", "ended", "started"}
              /\ timer' \in [Timer -> TimerState] /\ timer'[t] \in TimerState \ {"none", "started"}
              /\ \A u \in Timer \ {t} : timer'[u] = timer[u]
          BY <1>0, <1>m, <3>1, <4>1 DEF TimerTypes, TimerState
        <4> QED
          BY <1>0, <1>m, <2>1, <3>2, <4>2, TimerGoesOn DEF TimerTypes
    <2> QED
      BY <2>2, <2>3
  <1>9. CASE HandleSubscribe
    BY <1>9 DEF HandleSubscribe, TimerInv, TimerTypes, TimersOfTheFuture, WorkingRun,
       HandlerKnows, ThrottlesPublish, EarlierAreDone, Done
  <1>10. CASE HandleUnsubscribe \/ Receive
    BY <1>0, <1>10, TimersAlone DEF HandleUnsubscribe, Receive, TimerTypes
  <1>11. CASE StopRotation
    <2>0. PICK n \in Nat : n = subscription
      BY <1>0 DEF TimerTypes
    <2> DEFINE t == <<"rotation", n>>
    <2>1. handler = "stopRotation" /\ n < MaxSubscribes /\ n # 0
      BY <1>11, <2>0 DEF StopRotation, TimerInv, HandlerKnows
    <2>2. t \in Timer /\ SubscriptionOf(t) = n
      <3>1. n <= MaxSubscribes
        BY <2>1, Bounds
      <3> QED
        BY <2>1, <3>1, TimersOf
    <2>3. StopTimer(t, "stopThrottle") /\ UNCHANGED <<subscription, timer, pc>>
      BY <1>11, <2>0 DEF StopRotation, StopTimer
    <2> HIDE DEF t
    <2>4. /\ TimerTypes' /\ TimersOfTheFuture' /\ WorkingRun' /\ ThrottlesPublish' /\ EarlierAreDone'
          /\ handler' \in {handler, "stopThrottle"}
          /\ handler' # handler => Done(t)'
      BY <2>0, <2>1, <2>2, <2>3, StopTimerInv
    <2>5. HandlerKnows'
      BY <2>0, <2>1, <2>3, <2>4 DEF HandlerKnows, t
    <2> QED
      BY <2>4, <2>5 DEF TimerInv
  <1>12. CASE StopThrottle
    <2>0. PICK n \in Nat : n = subscription
      BY <1>0 DEF TimerTypes
    <2> DEFINE t == <<"throttle", n>>
               r == <<"rotation", n>>
    <2>1. handler = "stopThrottle" /\ n < MaxSubscribes /\ n # 0 /\ Done(r)
      BY <1>12, <2>0 DEF StopThrottle, TimerInv, HandlerKnows
    <2>2. t \in Timer /\ r \in Timer /\ r # t /\ SubscriptionOf(t) = n
      BY <2>1, TimersOf, Bounds
    <2>3. CASE timer[t] = "none"
      <3>1. handler' = "start" /\ UNCHANGED <<subscription, timer, running, cancelled, pc>>
        BY <1>12, <2>0, <2>3 DEF StopThrottle
      <3>2. Done(r)' /\ Done(t)'
        BY <2>1, <2>3, <3>1 DEF Done
      <3>3. HandlerKnows'
        BY <2>0, <2>1, <3>1, <3>2 DEF HandlerKnows
      <3> QED
        BY <3>1, <3>3 DEF TimerInv, TimerTypes, TimersOfTheFuture, WorkingRun,
           ThrottlesPublish, EarlierAreDone, Done
    <2>4. CASE timer[t] # "none"
      <3>1. StopTimer(t, "start") /\ UNCHANGED <<subscription, timer, pc>>
        BY <1>12, <2>0, <2>4 DEF StopThrottle, StopTimer
      <3> HIDE DEF t, r
      <3>2. /\ TimerTypes' /\ TimersOfTheFuture' /\ WorkingRun' /\ ThrottlesPublish' /\ EarlierAreDone'
            /\ handler' \in {handler, "start"}
            /\ handler' # handler => Done(t)'
            /\ Done(r)'
        BY <2>0, <2>1, <2>2, <3>1, StopTimerInv
      <3>3. HandlerKnows'
        BY <2>0, <2>1, <3>1, <3>2 DEF HandlerKnows, t, r
      <3> QED
        BY <3>2, <3>3 DEF TimerInv
    <2> QED
      BY <2>3, <2>4
  <1>13. CASE StartTimers
    <2>1. /\ handler = "start" /\ handler' = "idle"
          /\ subscription' = subscription + 1 /\ subscription < MaxSubscribes
          /\ subscription \in Nat
          /\ UNCHANGED <<running, cancelled, pc>>
      BY <1>13 DEF StartTimers, TimerInv, HandlerKnows, TimerTypes
    <2>2. /\ timer' \in [Timer -> TimerState]
          /\ \A t \in Timer : \/ timer'[t] = timer[t]
                              \/ SubscriptionOf(t) = subscription + 1 /\ timer'[t] = "started"
      <3>1. timer' = [t \in Timer |->
              IF \/ t = <<"rotation", subscription + 1>>
                 \/ t = <<"throttle", subscription + 1>> /\ throttled'
              THEN "started" ELSE timer[t]]
        BY <1>13, <2>1 DEF StartTimers
      <3>2. /\ SubscriptionOf(<<"rotation", subscription + 1>>) = subscription + 1
            /\ SubscriptionOf(<<"throttle", subscription + 1>>) = subscription + 1
        BY DEF SubscriptionOf
      <3> QED
        BY <1>0, <3>1, <3>2 DEF TimerTypes, TimerState
    <2>3. TimerTypes'
      BY <1>0, <2>1, <2>2, Bounds DEF TimerTypes
    <2>4. TimersOfTheFuture'
      BY <2>1, <2>2, Members DEF TimerInv, TimersOfTheFuture
    <2>5. WorkingRun'
      BY <2>1, <2>2 DEF TimerInv, WorkingRun
    <2>6. HandlerKnows'
      BY <2>1 DEF HandlerKnows
    <2>7. ThrottlesPublish'
      BY <1>m, <2>1, <2>2 DEF TimerInv, ThrottlesPublish, TimersOfTheFuture
    <2>8. EarlierAreDone'
      <3> SUFFICES ASSUME NEW t \in Timer, SubscriptionOf(t) < subscription + 1 PROVE Done(t)'
        BY <2>1 DEF EarlierAreDone
      <3>1. SubscriptionOf(t) \in Nat
        BY Members
      <3>2. SubscriptionOf(t) < subscription => Done(t)
        BY DEF TimerInv, EarlierAreDone
      <3>3. SubscriptionOf(t) = subscription => Done(t)
        <4> SUFFICES ASSUME SubscriptionOf(t) = subscription PROVE Done(t)
          OBVIOUS
        <4>1. subscription <= MaxSubscribes /\ subscription # 0
          BY <1>0, Names, Bounds DEF SubscriptionOf, TimerTypes
        <4>2. t \in {<<"rotation", subscription>>, <<"throttle", subscription>>}
          BY <2>1, <4>1, TimersOf
        <4> QED
          BY <2>1, <4>1, <4>2 DEF TimerInv, HandlerKnows
      <3>4. Done(t)
        BY <2>1, <3>1, <3>2, <3>3
      <3> QED
        BY <2>1, <2>2, <3>1, <3>4, Members DEF Done
    <2> QED
      BY <2>3, <2>4, <2>5, <2>6, <2>7, <2>8 DEF TimerInv
  <1> QED
    BY Steps, <1>1, <1>2, <1>3, <1>4, <1>5, <1>6, <1>7, <1>8, <1>9, <1>10, <1>11, <1>12, <1>13

LEMMA TimerInvariance == Spec => []TimerInv
  BY TimerInit, TimerNext, PTL DEF Spec

(* When a subscription has started its timers, those of earlier ones have  *)
(* ended, except one that Timer::Stop found before its thread ran.         *)
THEOREM StoppedTimersAreGone == Spec => []StoppedTimersEnd
  <1>1. TimerInv => StoppedTimersEnd
    BY DEF TimerInv, EarlierAreDone, Done, SubscriptionOf, StoppedTimersEnd
  <1> QED
    BY <1>1, TimerInvariance, PTL

-----------------------------------------------------------------------------
(* Types of the data.                                                      *)

LEMMA Appended ==
  ASSUME NEW S, NEW s \in Seq(S), NEW e \in S
  PROVE  /\ Append(s, e) \in Seq(S)
         /\ Len(s) \in Nat /\ Len(Append(s, e)) = Len(s) + 1
         /\ \A k \in 1 .. Len(s) : Append(s, e)[k] = s[k]
         /\ Append(s, e)[Len(s) + 1] = e
  BY AppendProperties, LenProperties

LEMMA WithoutHead ==
  ASSUME NEW S, NEW s \in Seq(S), s # <<>>
  PROVE  /\ Tail(s) \in Seq(S) /\ Head(s) = s[1] /\ s[1] \in S
         /\ Len(s) \in Nat /\ Len(s) # 0 /\ Len(Tail(s)) = Len(s) - 1
         /\ \A k \in 1 .. Len(s) - 1 : Tail(s)[k] = s[k + 1]
  BY HeadTailProperties, LenProperties, EmptySeq, ElementOfSeq

LEMMA TimestampOfClock ==
  ASSUME NEW n \in Nat
  PROVE  Epoch + Step * n \in Timestamp
  <1>1. Step * n \in Nat
    BY Bounds
  <1> HIDE DEF Epoch
  <1>2. \A m \in Nat : Epoch + m \in Nat /\ Epoch + m >= Epoch
    BY Bounds
  <1> QED
    BY <1>1, <1>2 DEF Timestamp

(* A timestamp is sent as an offset only to a base time that is set.       *)
LEMMA Serialized ==
  ASSUME NEW timestamp \in Timestamp, NEW i \in 1 .. 2, baseTimes \in [1 .. 2 -> Nat]
  PROVE  /\ SerializeMeasurement(timestamp, i) \in Measurement
         /\ Exact(SerializeMeasurement(timestamp, i), timestamp, baseTimes)
  <1>1. /\ baseTimes[i] \in Nat /\ timestamp \in Nat /\ timestamp >= Span + 1
        /\ Span \in Nat
    BY Bounds DEF Timestamp, Epoch
  <1>2. CASE Fits(timestamp - baseTimes[i])
    <2>1. SerializeMeasurement(timestamp, i) =
            [offset |-> TRUE, index |-> i, number |-> timestamp - baseTimes[i]]
      BY <1>2 DEF SerializeMeasurement
    <2>2. /\ timestamp - baseTimes[i] \in Nat /\ baseTimes[i] # 0
          /\ baseTimes[i] + (timestamp - baseTimes[i]) = timestamp
      BY <1>1, <1>2 DEF Fits
    <2> QED
      BY <2>1, <2>2 DEF Measurement, Exact
  <1>3. CASE ~Fits(timestamp - baseTimes[i])
    <2>1. SerializeMeasurement(timestamp, i) =
            [offset |-> FALSE, index |-> i, number |-> timestamp]
      BY <1>3 DEF SerializeMeasurement
    <2> QED
      BY <1>1, <2>1 DEF Measurement, Exact
  <1> QED
    BY <1>2, <1>3

LEMMA DataInit == Init => DataInv
  <1> SUFFICES ASSUME Init PROVE DataInv
    OBVIOUS
  <1>1. /\ channel = <<>> /\ \A p \in Publisher : pc[p] = "idle"
        /\ baseTimes = <<0, 0>>
    BY DEF Init
  <1>2. DataTypes
    <2>1. <<0, 0>> \in [1 .. 2 -> Nat] /\ <<>> \in Seq(Message)
      BY EmptySeq
    <2>2. /\ time \in [Publisher -> Nat] /\ clean \in [Publisher -> BOOLEAN]
          /\ index \in [Publisher -> 1 .. 2] /\ realTime \in [Rotation -> Nat]
          /\ packet \in [Publisher -> Measurement \cup {<<>>}]
      BY DEF Init
    <2> QED
      BY <1>1, <2>1, <2>2 DEF Init, DataTypes
  <1>3. Synchronized /\ CleanUndisturbed
    BY <1>1 DEF Synchronized, CleanUndisturbed
  <1>4. SentExact
    <2>1. 1 .. Len(channel) = {}
      BY <1>1, EmptySeq
    <2> QED
      BY <2>1 DEF SentExact, AllExact
  <1> QED
    BY <1>2, <1>3, <1>4 DEF DataInv

LEMMA DataTypesNext == TimerTypes /\ DataTypes /\ [Next]_vars => DataTypes'
  <1> SUFFICES ASSUME TimerTypes, DataTypes, [Next]_vars PROVE DataTypes'
    OBVIOUS
  <1>m. /\ \A p \in Program : p \in Publisher
        /\ \A t \in Throttle : t \in Publisher
        /\ Interval \in Nat
    BY Members, Bounds
  <1>c. ASSUME NEW p \in Publisher, NEW timestamp \in Timestamp, Capture(p, timestamp)
        PROVE  /\ time' \in [Publisher -> Nat] /\ index' \in [Publisher -> 1 .. 2]
               /\ clean' \in [Publisher -> BOOLEAN]
               /\ packet' = packet
               /\ \A q \in Publisher : /\ pc'[q] # "idle" => time'[q] \in Timestamp
                                       /\ pc'[q] = "publish" => packet'[q] \in Measurement
    BY <1>c DEF Capture, DataTypes, TimerTypes, Timestamp
  <1>d. ASSUME Disturb PROVE clean' \in [Publisher -> BOOLEAN]
    BY <1>d DEF Disturb, DataTypes
  <1> USE DEF subscriptionVars, baseVars, timerVars, publisherVars, counters
  <1>1. CASE UNCHANGED vars
    BY <1>1 DEF vars, DataTypes
  <1>2. ASSUME NEW p \in Program, PublishMeasurements(p) PROVE DataTypes'
    <2>1. clock' \in Nat /\ Epoch + Step * clock' \in Timestamp
      <3>1. clock' \in Nat
        BY <1>2 DEF PublishMeasurements, DataTypes
      <3> QED
        BY <3>1, TimestampOfClock
    <2>2. \/ latest' = Epoch + Step * clock' /\ UNCHANGED publisherVars
          \/ Capture(p, Epoch + Step * clock') /\ UNCHANGED latest
      BY <1>2 DEF PublishMeasurements
    <2>3. UNCHANGED <<baseVars, latestTimestamp, realTime, channel, theirBaseTimes>>
      BY <1>2 DEF PublishMeasurements
    <2>4. CASE latest' = Epoch + Step * clock' /\ UNCHANGED publisherVars
      BY <2>1, <2>3, <2>4 DEF DataTypes
    <2>5. CASE Capture(p, Epoch + Step * clock') /\ UNCHANGED latest
      <3> DEFINE timestamp == Epoch + Step * clock'
      <3>1. PICK s \in Timestamp : s = Epoch + Step * clock'
        BY <2>1
      <3>2. Capture(p, s)
        BY <2>5, <3>1
      <3> QED
        BY <1>c, <1>m, <2>1, <2>3, <2>5, <3>2 DEF DataTypes
    <2> QED
      BY <2>2, <2>4, <2>5
  <1>3. ASSUME NEW p \in Publisher, Serialize(p) PROVE DataTypes'
    <2>1. time[p] \in Timestamp /\ index[p] \in 1 .. 2 /\ baseTimes \in [1 .. 2 -> Nat]
      BY <1>3 DEF Serialize, DataTypes
    <2>2. SerializeMeasurement(time[p], index[p]) \in Measurement
      BY <2>1, Serialized
    <2>3. latestTimestamp' \in Nat
      BY <1>3, <2>1 DEF Serialize, DataTypes, Timestamp
    <2>4. /\ packet' = [packet EXCEPT ![p] = SerializeMeasurement(time[p], index[p])]
          /\ pc' = [pc EXCEPT ![p] = "publish"]
          /\ UNCHANGED <<latest, baseVars, time, index, clean, realTime, channel,
                         theirBaseTimes, clock>>
      BY <1>3 DEF Serialize
    <2>5. packet' \in [Publisher -> Measurement \cup {<<>>}] /\ packet'[p] \in Measurement
      BY <2>2, <2>4 DEF DataTypes
    <2>6. \A q \in Publisher : /\ pc'[q] # "idle" => time'[q] \in Timestamp
                               /\ pc'[q] = "publish" => packet'[q] \in Measurement
      <3> SUFFICES ASSUME NEW q \in Publisher
                   PROVE  /\ pc'[q] # "idle" => time'[q] \in Timestamp
                          /\ pc'[q] = "publish" => packet'[q] \in Measurement
        OBVIOUS
      <3>1. CASE q = p
        BY <2>1, <2>4, <2>5, <3>1
      <3>2. CASE q # p
        <4>1. pc'[q] = pc[q] /\ packet'[q] = packet[q]
          BY <2>4, <3>2 DEF DataTypes, TimerTypes
        <4> QED
          BY <2>4, <4>1 DEF DataTypes
      <3> QED
        BY <3>1, <3>2
    <2> QED
      BY <2>3, <2>4, <2>5, <2>6 DEF DataTypes
  <1>4. ASSUME NEW p \in Publisher, PublishCompactDataPacket(p) PROVE DataTypes'
    <2> DEFINE e == [kind |-> "data", measurement |-> packet[p],
                     timestamp |-> time[p], clean |-> clean[p]]
    <2>1. e \in Message
      <3>1. packet[p] \in Measurement /\ time[p] \in Timestamp /\ clean[p] \in BOOLEAN
        BY <1>4 DEF PublishCompactDataPacket, DataTypes
      <3> QED
        BY <3>1 DEF Message, Data
    <2>2. channel' = Append(channel, e)
      BY <1>4 DEF PublishCompactDataPacket
    <2>3. channel' \in Seq(Message)
      <3> HIDE DEF e
      <3> QED
        BY <2>1, <2>2, Appended DEF DataTypes
    <2>4. /\ pc' = [pc EXCEPT ![p] = "idle"] /\ time' = [time EXCEPT ![p] = 0]
          /\ packet' = [packet EXCEPT ![p] = <<>>]
          /\ UNCHANGED <<latest, baseVars, latestTimestamp, index, clean, realTime,
                         theirBaseTimes, clock>>
      BY <1>4 DEF PublishCompactDataPacket
    <2>5. /\ time' \in [Publisher -> Nat] /\ packet' \in [Publisher -> Measurement \cup {<<>>}]
          /\ \A q \in Publisher \ {p} : pc'[q] = pc[q] /\ time'[q] = time[q] /\ packet'[q] = packet[q]
          /\ pc'[p] = "idle"
      BY <2>4 DEF DataTypes, TimerTypes
    <2>6. \A q \in Publisher : /\ pc'[q] # "idle" => time'[q] \in Timestamp
                               /\ pc'[q] = "publish" => packet'[q] \in Measurement
      BY <2>5 DEF DataTypes
    <2> QED
      BY <2>3, <2>4, <2>5, <2>6 DEF DataTypes
  <1>5. ASSUME NEW t \in Timer, RunTimer(t) \/ Interrupted(t) PROVE DataTypes'
    BY <1>5 DEF RunTimer, Interrupted, DataTypes
  <1>6. ASSUME NEW t \in Throttle, PublishLatest(t) PROVE DataTypes'
    <2>1. CASE latest = 0
      BY <1>6, <2>1 DEF PublishLatest, DataTypes
    <2>2. CASE latest # 0
      <3>1. latest \in Timestamp /\ Capture(t, latest)
        BY <1>6, <2>2 DEF PublishLatest, DataTypes
      <3>2. UNCHANGED <<latest, baseVars, latestTimestamp, realTime, channel,
                        theirBaseTimes, clock>>
        BY <1>6 DEF PublishLatest
      <3> QED
        BY <1>c, <1>m, <3>1, <3>2 DEF DataTypes
    <2> QED
      BY <2>1, <2>2
  <1>7. ASSUME NEW t \in Rotation, Rotate(t) PROVE DataTypes'
    <2>1. CASE latestTimestamp = 0
      BY <1>7, <2>1 DEF Rotate, DataTypes
    <2>2. CASE latestTimestamp # 0
      <3>1. clean' \in [Publisher -> BOOLEAN]
        BY <1>7, <1>d, <2>2 DEF Rotate
      <3>1a. realTime' \in [Rotation -> Nat]
        BY <1>7, <2>2 DEF Rotate, DataTypes
      <3>1b. timeIndex' \in {timeIndex, OtherIndex} /\ timeIndex \in 1 .. 2
        BY <1>7, <2>2 DEF Rotate, DataTypes
      <3>2. realTime' \in [Rotation -> Nat] /\ timeIndex' \in 1 .. 2
        BY <3>1a, <3>1b DEF OtherIndex
      <3>3. <<latestTimestamp, latestTimestamp + Interval>> \in [1 .. 2 -> Nat]
        BY <1>m DEF DataTypes
      <3>4. baseTimes' \in [1 .. 2 -> Nat]
        BY <1>7, <2>2, <3>3 DEF Rotate, DataTypes
      <3> QED
        BY <1>7, <3>1, <3>2, <3>4 DEF Rotate, DataTypes
    <2> QED
      BY <2>1, <2>2
  <1>8. ASSUME NEW t \in Rotation, SetTimeIndex(t) PROVE DataTypes'
    BY <1>8, <1>d DEF SetTimeIndex, DataTypes
  <1>9. ASSUME NEW t \in Rotation, SetBaseTime(t) PROVE DataTypes'
    <2>1. baseTimes' \in [1 .. 2 -> Nat]
      BY <1>m, <1>9 DEF SetBaseTime, OtherIndex, DataTypes
    <2> QED
      BY <1>9, <1>d, <2>1 DEF SetBaseTime, DataTypes
  <1>10. ASSUME NEW t \in Rotation, UpdateBaseTimes(t) PROVE DataTypes'
    <2> DEFINE e == [kind |-> "times", baseTimes |-> baseTimes]
    <2>1. e \in Message
      BY DEF Message, Times, DataTypes
    <2>2. channel' = Append(channel, e)
      BY <1>10 DEF UpdateBaseTimes
    <2>3. channel' \in Seq(Message)
      <3> HIDE DEF e
      <3> QED
        BY <2>1, <2>2, Appended DEF DataTypes
    <2> QED
      BY <1>10, <2>3 DEF UpdateBaseTimes, DataTypes
  <1>11. CASE HandleSubscribe \/ HandleUnsubscribe \/ StopRotation \/ StopThrottle
    BY <1>11 DEF HandleSubscribe, HandleUnsubscribe, StopRotation, StopThrottle, DataTypes
  <1>12. CASE StartTimers
    <2>1. <<0, 0>> \in [1 .. 2 -> Nat]
      OBVIOUS
    <2> QED
      BY <1>12, <1>d, <2>1 DEF StartTimers, DataTypes
  <1>13. CASE Receive
    <2>1. channel \in Seq(Message) /\ channel # <<>> /\ channel' = Tail(channel)
      BY <1>13 DEF Receive, DataTypes
    <2>2. Tail(channel) \in Seq(Message) /\ Head(channel) \in Message
      BY <2>1, WithoutHead
    <2>3. theirBaseTimes' \in [1 .. 2 -> Nat]
      BY <1>13, <2>2 DEF Receive, HandleUpdateBaseTimes, Message, Data, Times, DataTypes
    <2> QED
      BY <1>13, <2>1, <2>2, <2>3 DEF Receive, DataTypes
  <1> QED
    BY Steps, <1>1, <1>2, <1>3, <1>4, <1>5, <1>6, <1>7, <1>8, <1>9, <1>10, <1>11, <1>12, <1>13

-----------------------------------------------------------------------------
(* What is sent and read.                                                  *)

LEMMA TimesSent ==
  ASSUME NEW queue \in Seq(Message), NEW theirs, NEW b \in [1 .. 2 -> Nat],
         NEW s, s = Append(queue, [kind |-> "times", baseTimes |-> b])
  PROVE  /\ Announced(b, theirs, s)
         /\ AllExact(theirs, queue) => AllExact(theirs, s)
  <1> DEFINE e == [kind |-> "times", baseTimes |-> b]
  <1>1. e \in Message /\ e.kind = "times" /\ e.baseTimes = b
    BY DEF Message, Times
  <1> HIDE DEF e
  <1>2. /\ Len(queue) \in Nat /\ Len(s) = Len(queue) + 1
        /\ \A k \in 1 .. Len(queue) : s[k] = queue[k]
        /\ s[Len(s)] = e
    BY <1>1, Appended DEF e
  <1>3. Announced(b, theirs, s)
    <2>1. Len(s) \in 1 .. Len(s) /\ NoTimes(s, Len(s) + 1, Len(s))
      BY <1>2 DEF NoTimes
    <2> QED
      BY <1>1, <1>2, <2>1 DEF Announced
  <1>4. ASSUME AllExact(theirs, queue) PROVE AllExact(theirs, s)
    <2> SUFFICES ASSUME NEW k \in 1 .. Len(s), s[k].kind = "data", s[k].clean
                 PROVE  /\ NoTimes(s, 1, k - 1) => Exact(s[k].measurement, s[k].timestamp, theirs)
                        /\ \A j \in 1 .. k - 1 : (s[j].kind = "times" /\ NoTimes(s, j + 1, k - 1)) =>
                             Exact(s[k].measurement, s[k].timestamp, s[j].baseTimes)
      BY DEF AllExact
    <2>1. k \in 1 .. Len(queue)
      BY <1>1, <1>2
    <2>2. \A j \in 1 .. k : s[j] = queue[j]
      BY <1>2, <2>1
    <2>3. \A j \in Nat : NoTimes(s, j + 1, k - 1) => NoTimes(queue, j + 1, k - 1)
      BY <1>2, <2>2 DEF NoTimes
    <2>4. NoTimes(s, 1, k - 1) => NoTimes(queue, 1, k - 1)
      BY <1>2, <2>2 DEF NoTimes
    <2>5. s[k] = queue[k] /\ \A j \in 1 .. k - 1 : s[j] = queue[j] /\ j \in Nat
      BY <2>1, <2>2
    <2> QED
      BY <1>4, <2>1, <2>3, <2>4, <2>5 DEF AllExact
  <1> QED
    BY <1>3, <1>4

LEMMA DataSent ==
  ASSUME NEW queue \in Seq(Message), NEW theirs, NEW b, NEW e \in Message, e.kind = "data",
         NEW s, s = Append(queue, e)
  PROVE  /\ Announced(b, theirs, queue) => Announced(b, theirs, s)
         /\ (/\ AllExact(theirs, queue)
             /\ e.clean => /\ Exact(e.measurement, e.timestamp, b)
                           /\ b = <<0, 0>> \/ Announced(b, theirs, queue))
              => AllExact(theirs, s)
  <1>1. /\ Len(queue) \in Nat /\ Len(s) = Len(queue) + 1
        /\ \A k \in 1 .. Len(queue) : s[k] = queue[k]
        /\ s[Len(queue) + 1] = e
    BY Appended
  <1>2. /\ NoTimes(queue, 1, Len(queue)) => NoTimes(s, 1, Len(s))
        /\ \A j \in 1 .. Len(queue) : NoTimes(queue, j + 1, Len(queue)) => NoTimes(s, j + 1, Len(s))
    BY <1>1 DEF NoTimes
  <1>3. ASSUME Announced(b, theirs, queue) PROVE Announced(b, theirs, s)
    <2>1. CASE NoTimes(queue, 1, Len(queue)) /\ b = theirs
      BY <1>2, <2>1 DEF Announced
    <2>2. ASSUME NEW j \in 1 .. Len(queue), queue[j].kind = "times", queue[j].baseTimes = b,
                 NoTimes(queue, j + 1, Len(queue))
          PROVE  Announced(b, theirs, s)
      <3>1. j \in 1 .. Len(s) /\ s[j] = queue[j]
        BY <1>1
      <3> QED
        BY <1>2, <2>2, <3>1 DEF Announced
    <2> QED
      BY <1>3, <2>1, <2>2 DEF Announced
  <1>4. ASSUME AllExact(theirs, queue),
               e.clean => /\ Exact(e.measurement, e.timestamp, b)
                          /\ b = <<0, 0>> \/ Announced(b, theirs, queue)
        PROVE  AllExact(theirs, s)
    <2> SUFFICES ASSUME NEW k \in 1 .. Len(s), s[k].kind = "data", s[k].clean
                 PROVE  /\ NoTimes(s, 1, k - 1) => Exact(s[k].measurement, s[k].timestamp, theirs)
                        /\ \A j \in 1 .. k - 1 : (s[j].kind = "times" /\ NoTimes(s, j + 1, k - 1)) =>
                             Exact(s[k].measurement, s[k].timestamp, s[j].baseTimes)
      BY DEF AllExact
    <2>0. /\ \A j \in 1 .. k - 1 : s[j] = queue[j] /\ j \in Nat
          /\ \A j \in Nat : NoTimes(s, j + 1, k - 1) => NoTimes(queue, j + 1, k - 1)
          /\ NoTimes(s, 1, k - 1) => NoTimes(queue, 1, k - 1)
      <3>1. \A j \in 1 .. k - 1 : s[j] = queue[j] /\ j \in Nat
        BY <1>1
      <3> QED
        BY <1>1, <3>1 DEF NoTimes
    <2>1. CASE k \in 1 .. Len(queue)
      <3>1. s[k] = queue[k]
        BY <1>1, <2>1
      <3> QED
        BY <1>4, <2>0, <2>1, <3>1 DEF AllExact
    <2>2. CASE k = Len(queue) + 1
      <3>1. s[k] = e /\ k - 1 = Len(queue)
        BY <1>1, <2>2
      <3>2. CASE b = <<0, 0>>
        <4>1. e.measurement.index \in 1 .. 2
          BY DEF Message, Data, Times, Measurement
        <4> HIDE DEF Message
        <4>2. ~e.measurement.offset /\ e.measurement.number = e.timestamp
          BY <1>4, <3>1, <3>2, <4>1 DEF Exact
        <4> QED
          BY <3>1, <4>2 DEF Exact
      <3>3. CASE Announced(b, theirs, queue)
        <4>1. NoTimes(s, 1, k - 1) => b = theirs
          BY <2>0, <3>1, <3>3 DEF Announced, NoTimes
        <4>2. ASSUME NEW j \in 1 .. k - 1, s[j].kind = "times", NoTimes(s, j + 1, k - 1)
              PROVE  b = s[j].baseTimes
          <5>1. j \in 1 .. Len(queue) /\ queue[j].kind = "times" /\ NoTimes(queue, j + 1, Len(queue))
                /\ s[j] = queue[j]
            BY <1>1, <2>0, <3>1, <4>2
          <5>2. ~NoTimes(queue, 1, Len(queue))
            BY <5>1 DEF NoTimes
          <5>3. PICK i \in 1 .. Len(queue) : /\ queue[i].kind = "times" /\ queue[i].baseTimes = b
                                             /\ NoTimes(queue, i + 1, Len(queue))
            BY <3>3, <5>2 DEF Announced
          <5>4. ~(i < j) /\ ~(j < i)
            BY <1>1, <5>1, <5>3 DEF NoTimes
          <5>5. i = j
            BY <5>4
          <5> QED
            BY <5>1, <5>3, <5>5
        <4> QED
          BY <1>4, <3>1, <4>1, <4>2
      <3> QED
        BY <1>4, <3>1, <3>2, <3>3
    <2> QED
      BY <1>1, <2>1, <2>2
  <1> QED
    BY <1>3, <1>4

LEMMA HeadRead ==
  ASSUME NEW queue \in Seq(Message), queue # <<>>, NEW theirs, NEW b,
         NEW theirs1, theirs1 = IF Head(queue).kind = "times" THEN Head(queue).baseTimes ELSE theirs,
         NEW s, s = Tail(queue)
  PROVE  /\ Announced(b, theirs, queue) => Announced(b, theirs1, s)
         /\ AllExact(theirs, queue) => AllExact(theirs1, s)
  <1>1. /\ Head(queue) = queue[1] /\ Len(queue) \in Nat /\ Len(queue) # 0
        /\ Len(s) = Len(queue) - 1 /\ \A k \in 1 .. Len(s) : s[k] = queue[k + 1]
    BY WithoutHead
  <1>2. \A k, l \in Nat : (NoTimes(s, k, l) /\ k # 0 /\ l <= Len(s)) => NoTimes(queue, k + 1, l + 1)
    <2> SUFFICES ASSUME NEW k \in Nat, NEW l \in Nat, NoTimes(s, k, l), k # 0, l <= Len(s),
                        NEW j \in k + 1 .. l + 1
                 PROVE  queue[j].kind # "times"
      BY DEF NoTimes
    <2>1. j - 1 \in k .. l /\ j - 1 \in 1 .. Len(s) /\ (j - 1) + 1 = j
      BY <1>1
    <2>2. s[j - 1] = queue[j] /\ s[j - 1].kind # "times"
      BY <1>1, <2>1 DEF NoTimes
    <2> QED
      BY <2>2
  <1>3. \A k, l \in Nat : (NoTimes(queue, k + 1, l + 1) /\ k # 0 /\ l <= Len(s)) => NoTimes(s, k, l)
    <2> SUFFICES ASSUME NEW k \in Nat, NEW l \in Nat, NoTimes(queue, k + 1, l + 1), k # 0, l <= Len(s),
                        NEW j \in k .. l
                 PROVE  s[j].kind # "times"
      BY DEF NoTimes
    <2>1. j + 1 \in k + 1 .. l + 1 /\ j \in 1 .. Len(s)
      BY <1>1
    <2> QED
      BY <1>1, <2>1 DEF NoTimes
  <1>4. ASSUME Announced(b, theirs, queue) PROVE Announced(b, theirs1, s)
    <2>1. CASE NoTimes(queue, 1, Len(queue)) /\ b = theirs
      <3>1. queue[1].kind # "times"
        BY <1>1, <2>1 DEF NoTimes
      <3>2. NoTimes(s, 1, Len(s))
        <4>1. NoTimes(queue, 1 + 1, Len(s) + 1)
          BY <1>1, <2>1 DEF NoTimes
        <4>2. Len(s) \in Nat /\ 1 # 0
          BY <1>1
        <4> QED
          BY <1>3, <4>1, <4>2
      <3> QED
        BY <1>1, <2>1, <3>1, <3>2 DEF Announced
    <2>2. ASSUME NEW j \in 1 .. Len(queue), queue[j].kind = "times", queue[j].baseTimes = b,
                 NoTimes(queue, j + 1, Len(queue))
          PROVE  Announced(b, theirs1, s)
      <3>1. Len(s) \in Nat /\ Len(s) + 1 = Len(queue) /\ j \in Nat /\ j # 0
        BY <1>1
      <3>2. NoTimes(s, j, Len(s))
        BY <1>3, <2>2, <3>1
      <3>3. CASE j = 1
        BY <1>1, <2>2, <3>2, <3>3 DEF Announced
      <3>4. CASE j # 1
        <4>1. j - 1 \in 1 .. Len(s) /\ (j - 1) + 1 = j
          BY <3>1, <3>4
        <4>2. s[j - 1] = queue[j]
          BY <1>1, <4>1
        <4> QED
          BY <2>2, <3>2, <4>1, <4>2 DEF Announced
      <3> QED
        BY <3>3, <3>4
    <2> QED
      BY <1>4, <2>1, <2>2 DEF Announced
  <1>5. ASSUME AllExact(theirs, queue) PROVE AllExact(theirs1, s)
    <2> SUFFICES ASSUME NEW k \in 1 .. Len(s), s[k].kind = "data", s[k].clean
                 PROVE  /\ NoTimes(s, 1, k - 1) => Exact(s[k].measurement, s[k].timestamp, theirs1)
                        /\ \A j \in 1 .. k - 1 : (s[j].kind = "times" /\ NoTimes(s, j + 1, k - 1)) =>
                             Exact(s[k].measurement, s[k].timestamp, s[j].baseTimes)
      BY DEF AllExact
    <2>1. /\ k + 1 \in 1 .. Len(queue) /\ s[k] = queue[k + 1]
          /\ k \in Nat /\ k - 1 \in Nat /\ (k - 1) + 1 = k /\ (k + 1) - 1 = k
          /\ k - 1 <= Len(s) /\ 1 # 0 /\ 1 + 1 = 2
      BY <1>1
    <2>2. /\ NoTimes(queue, 1, k) => Exact(s[k].measurement, s[k].timestamp, theirs)
          /\ \A j \in 1 .. k : (queue[j].kind = "times" /\ NoTimes(queue, j + 1, k)) =>
               Exact(s[k].measurement, s[k].timestamp, queue[j].baseTimes)
      BY <1>5, <2>1 DEF AllExact
    <2>3. ASSUME NoTimes(s, 1, k - 1) PROVE Exact(s[k].measurement, s[k].timestamp, theirs1)
      <3>1. NoTimes(queue, 2, k)
        BY <1>2, <2>1, <2>3
      <3>2. CASE queue[1].kind = "times"
        <4>1. 1 \in 1 .. k
          BY <2>1
        <4>2. (queue[1].kind = "times" /\ NoTimes(queue, 2, k)) =>
                 Exact(s[k].measurement, s[k].timestamp, queue[1].baseTimes)
          BY <2>1, <2>2, <4>1
        <4> QED
          BY <1>1, <3>1, <3>2, <4>2
      <3>3. CASE queue[1].kind # "times"
        <4>1. NoTimes(queue, 1, k)
          <5> SUFFICES ASSUME NEW j \in 1 .. k PROVE queue[j].kind # "times"
            BY DEF NoTimes
          <5>1. j = 1 \/ j \in 2 .. k BY <2>1
          <5> QED BY <3>1, <3>3, <5>1 DEF NoTimes
        <4> QED
          BY <1>1, <2>2, <3>3, <4>1
      <3> QED
        BY <3>2, <3>3
    <2>4. ASSUME NEW j \in 1 .. k - 1, s[j].kind = "times", NoTimes(s, j + 1, k - 1)
          PROVE  Exact(s[k].measurement, s[k].timestamp, s[j].baseTimes)
      <3>1. k \in Nat /\ Len(s) \in Nat /\ k <= Len(s)
        BY <1>1
      <3>2. /\ j + 1 \in 1 .. k /\ j + 1 \in Nat /\ j + 1 # 0 /\ j \in 1 .. Len(s)
        BY <3>1
      <3>3. s[j] = queue[j + 1] /\ NoTimes(queue, (j + 1) + 1, k)
        BY <1>1, <1>2, <2>1, <2>4, <3>2
      <3> QED
        BY <2>2, <2>4, <3>2, <3>3
    <2> QED
      BY <2>3, <2>4
  <1> QED
    BY <1>4, <1>5

-----------------------------------------------------------------------------
(* Base times and packets.                                                 *)

(* Steps that leave the base times, the packets and the channel alone, and *)
(* of the timers start or end no rotation.                                 *)
LEMMA DataAlone ==
  ASSUME DataInv, DataTypes', NoneRotating' => NoneRotating, NoneRotating => NoneRotating',
         UNCHANGED <<baseTimes, pc, time, packet, clean, channel, theirBaseTimes>>
  PROVE  DataInv'
  BY DEF DataInv, Synchronized, CleanUndisturbed, SentExact

(* A measurement begins.                                                   *)
LEMMA DataCaptured ==
  ASSUME DataInv, TimerTypes, DataTypes', NEW p \in Publisher, NEW timestamp,
         Capture(p, timestamp), NoneRotating' = NoneRotating,
         UNCHANGED <<baseTimes, channel, theirBaseTimes>>
  PROVE  DataInv'
  <1>1. /\ \A q \in Publisher \ {p} : /\ pc'[q] = pc[q] /\ clean'[q] = clean[q]
                                      /\ packet'[q] = packet[q] /\ time'[q] = time[q]
        /\ pc'[p] = "serialize" /\ clean'[p] = NoneRotating
    BY DEF Capture, NoneRotating, DataInv, DataTypes, TimerTypes
  <1>2. CleanUndisturbed'
    <2> SUFFICES ASSUME NEW q \in Publisher, clean'[q], pc'[q] # "idle"
                 PROVE  /\ NoneRotating
                        /\ pc'[q] = "publish" => Exact(packet'[q], time'[q], baseTimes)
      BY DEF CleanUndisturbed, Exact
    <2> QED
      BY <1>1 DEF DataInv, CleanUndisturbed
  <1> QED
    BY <1>2 DEF DataInv, Synchronized, SentExact

(* A base time or the index changes while a rotation is, or comes, under   *)
(* way.                                                                    *)
LEMMA DataDisturbed ==
  ASSUME DataInv, TimerTypes, DataTypes', Disturb, ~NoneRotating' \/ baseTimes' = <<0, 0>>,
         UNCHANGED <<pc, channel, theirBaseTimes>>
  PROVE  DataInv'
  <1>1. \A p \in Publisher : clean'[p] => pc'[p] = "idle"
    BY DEF Disturb, TimerTypes
  <1>2. CleanUndisturbed'
    BY <1>1 DEF CleanUndisturbed
  <1> QED
    BY <1>2 DEF DataInv, Synchronized, SentExact

LEMMA RotatingIs ==
  ASSUME TimerTypes, NEW t \in Timer, \A u \in Timer \ {t} : timer'[u] = timer[u],
         timer[t] \notin {"index", "base", "send"}, timer'[t] \notin {"index", "base", "send"}
  PROVE  NoneRotating' = NoneRotating
  BY Members DEF NoneRotating, Rotating, TimerTypes

LEMMA DataNext == TimerInv /\ DataInv /\ [Next]_vars => DataInv'
  <1> SUFFICES ASSUME TimerInv, DataInv, [Next]_vars PROVE DataInv'
    OBVIOUS
  <1>m. /\ \A p \in Program : p \in Publisher
        /\ \A t \in Throttle : t \in Timer /\ t \in Publisher /\ t \notin Rotation
        /\ \A t \in Rotation : t \in Timer
    BY Members
  <1>0. TimerTypes /\ DataTypes
    BY DEF TimerInv, DataInv
  <1>t. DataTypes'
    BY <1>0, DataTypesNext
  <1> USE DEF subscriptionVars, baseVars, timerVars, publisherVars, counters
  <1>1. CASE UNCHANGED vars
    <2>1. NoneRotating' = NoneRotating
      BY <1>1 DEF vars, NoneRotating, Rotating
    <2> QED
      BY <1>1, <1>t, <2>1, DataAlone DEF vars
  <1>2. ASSUME NEW p \in Program, PublishMeasurements(p) PROVE DataInv'
    <2>1. /\ UNCHANGED <<baseTimes, channel, theirBaseTimes, timer>>
          /\ NoneRotating' = NoneRotating
      BY <1>2 DEF PublishMeasurements, NoneRotating, Rotating
    <2>2. CASE UNCHANGED publisherVars
      BY <1>t, <2>1, <2>2, DataAlone
    <2>3. CASE Capture(p, Epoch + Step * clock')
      <3>1. PICK s : s = Epoch + Step * clock'
        OBVIOUS
      <3>2. Capture(p, s)
        BY <2>3, <3>1
      <3> QED
        BY <1>0, <1>m, <1>t, <2>1, <3>2, DataCaptured
    <2> QED
      BY <1>2, <2>2, <2>3 DEF PublishMeasurements
  <1>3. ASSUME NEW p \in Publisher, Serialize(p) PROVE DataInv'
    <2>1. time[p] \in Timestamp /\ index[p] \in 1 .. 2 /\ baseTimes \in [1 .. 2 -> Nat]
      BY <1>0, <1>3 DEF Serialize, DataTypes
    <2>2. /\ packet' = [packet EXCEPT ![p] = SerializeMeasurement(time[p], index[p])]
          /\ pc' = [pc EXCEPT ![p] = "publish"] /\ pc[p] # "idle"
          /\ UNCHANGED <<baseTimes, time, clean, timer, channel, theirBaseTimes>>
      BY <1>3 DEF Serialize
    <2>3. Exact(packet'[p], time[p], baseTimes)
      BY <1>0, <2>1, <2>2, Serialized DEF DataTypes
    <2>4. NoneRotating' = NoneRotating
      BY <2>2 DEF NoneRotating, Rotating
    <2>5. CleanUndisturbed'
      <3> SUFFICES ASSUME NEW q \in Publisher, clean[q], pc'[q] # "idle"
                   PROVE  /\ NoneRotating
                          /\ pc'[q] = "publish" => Exact(packet'[q], time[q], baseTimes)
        BY <2>2, <2>4 DEF CleanUndisturbed, Exact
      <3>1. CASE q = p
        BY <2>2, <2>3, <3>1 DEF DataInv, CleanUndisturbed
      <3>2. CASE q # p
        BY <1>0, <2>2, <3>2 DEF DataInv, CleanUndisturbed, DataTypes, TimerTypes
      <3> QED
        BY <3>1, <3>2
    <2> QED
      BY <1>t, <2>2, <2>4, <2>5 DEF DataInv, Synchronized, SentExact
  <1>4. ASSUME NEW p \in Publisher, PublishCompactDataPacket(p) PROVE DataInv'
    <2> DEFINE e == [kind |-> "data", measurement |-> packet[p],
                     timestamp |-> time[p], clean |-> clean[p]]
    <2>1. e \in Message
      <3>1. packet[p] \in Measurement /\ time[p] \in Timestamp /\ clean[p] \in BOOLEAN
        BY <1>0, <1>4 DEF PublishCompactDataPacket, DataTypes
      <3> QED
        BY <3>1 DEF Message, Data
    <2>2. /\ channel' = Append(channel, e) /\ pc[p] = "publish"
          /\ pc' = [pc EXCEPT ![p] = "idle"] /\ time' = [time EXCEPT ![p] = 0]
          /\ packet' = [packet EXCEPT ![p] = <<>>]
          /\ UNCHANGED <<baseTimes, clean, theirBaseTimes>>
      BY <1>4 DEF PublishCompactDataPacket
    <2>3. /\ e.kind = "data"
          /\ e.clean => /\ Exact(e.measurement, e.timestamp, baseTimes)
                        /\ baseTimes = <<0, 0>> \/ Announced(baseTimes, theirBaseTimes, channel)
      BY <2>2 DEF DataInv, CleanUndisturbed, Synchronized
    <2>4. channel \in Seq(Message)
      BY <1>0 DEF DataTypes
    <2> HIDE DEF e
    <2>5. /\ Announced(baseTimes, theirBaseTimes, channel) =>
               Announced(baseTimes, theirBaseTimes, channel')
          /\ AllExact(theirBaseTimes, channel')
      <3>1. AllExact(theirBaseTimes, channel)
        BY DEF DataInv, SentExact
      <3>2. PICK s : s = channel'
        OBVIOUS
      <3>3. s = Append(channel, e)
        BY <2>2, <3>2
      <3> QED
        BY <2>1, <2>3, <2>4, <3>1, <3>2, <3>3, DataSent
    <2>6. NoneRotating' = NoneRotating
      <3>1. CASE p \in Throttle
        <4>1. timer[p] = "publishing"
          BY <2>2, <3>1 DEF TimerInv, ThrottlesPublish
        <4>2. \E state \in {"waiting", "ended"} : timer' = [timer EXCEPT ![p] = state]
          BY <1>4, <3>1 DEF PublishCompactDataPacket, AfterCallback
        <4>3. /\ timer'[p] \notin {"index", "base", "send"}
              /\ \A u \in Timer \ {p} : timer'[u] = timer[u]
          BY <1>0, <1>m, <3>1, <4>2 DEF TimerTypes
        <4> QED
          BY <1>0, <1>m, <3>1, <4>1, <4>3, RotatingIs
      <3>2. CASE p \notin Throttle
        BY <1>4, <3>2 DEF PublishCompactDataPacket, NoneRotating, Rotating
      <3> QED
        BY <3>1, <3>2
    <2>7. CleanUndisturbed'
      <3> SUFFICES ASSUME NEW q \in Publisher, clean[q], pc'[q] # "idle"
                   PROVE  /\ NoneRotating
                          /\ pc'[q] = "publish" => Exact(packet'[q], time'[q], baseTimes)
        BY <2>2, <2>6 DEF CleanUndisturbed, Exact
      <3>1. /\ q # p /\ pc[q] = pc'[q]
            /\ packet'[q] = packet[q] /\ time'[q] = time[q]
        BY <1>0, <2>2 DEF DataTypes, TimerTypes
      <3> QED
        BY <3>1 DEF DataInv, CleanUndisturbed
    <2> QED
      BY <1>t, <2>2, <2>5, <2>6, <2>7 DEF DataInv, Synchronized, SentExact
  <1>5. ASSUME NEW t \in Timer, RunTimer(t) \/ Interrupted(t) PROVE DataInv'
    <2>1. /\ timer[t] \in {"started", "waiting"}
          /\ \E state \in {"waiting", "ended"} : timer' = [timer EXCEPT ![t] = state]
          /\ UNCHANGED <<baseTimes, pc, time, packet, clean, channel, theirBaseTimes>>
      BY <1>5 DEF RunTimer, Interrupted
    <2>2. /\ timer'[t] \notin {"index", "base", "send"}
          /\ timer[t] \notin {"index", "base", "send"}
          /\ \A u \in Timer \ {t} : timer'[u] = timer[u]
      BY <1>0, <2>1 DEF TimerTypes
    <2>3. NoneRotating' = NoneRotating
      BY <1>0, <2>2, RotatingIs
    <2> QED
      BY <1>t, <2>1, <2>3, DataAlone
  <1>6. ASSUME NEW t \in Throttle, PublishLatest(t) PROVE DataInv'
    <2>1. UNCHANGED <<baseTimes, channel, theirBaseTimes>>
      BY <1>6 DEF PublishLatest
    <2>2. CASE latest = 0
      <3>1. UNCHANGED <<timer, publisherVars>>
        BY <1>6, <2>2 DEF PublishLatest
      <3>2. NoneRotating' = NoneRotating
        BY <3>1 DEF NoneRotating, Rotating
      <3> QED
        BY <1>t, <2>1, <3>1, <3>2, DataAlone
    <2>3. CASE latest # 0
      <3>1. /\ timer' = [timer EXCEPT ![t] = "publishing"] /\ timer[t] = "waiting"
            /\ Capture(t, latest)
        BY <1>6, <2>3 DEF PublishLatest
      <3>2. NoneRotating' = NoneRotating
        <4>1. /\ timer'[t] \notin {"index", "base", "send"}
              /\ \A u \in Timer \ {t} : timer'[u] = timer[u]
          BY <1>0, <1>m, <3>1 DEF TimerTypes
        <4> QED
          BY <1>0, <1>m, <3>1, <4>1, RotatingIs
      <3>3. PICK s : s = latest
        OBVIOUS
      <3>4. Capture(t, s)
        BY <3>1, <3>3
      <3> QED
        BY <1>0, <1>m, <1>t, <2>1, <3>2, <3>4, DataCaptured
    <2> QED
      BY <2>2, <2>3
  <1>7. ASSUME NEW t \in Rotation, Rotate(t) PROVE DataInv'
    <2>1. UNCHANGED <<pc, time, packet, channel, theirBaseTimes>>
      BY <1>7 DEF Rotate
    <2>2. CASE latestTimestamp = 0
      <3>1. UNCHANGED <<timer, baseTimes, clean>>
        BY <1>7, <2>2 DEF Rotate
      <3>2. NoneRotating' = NoneRotating
        BY <3>1 DEF NoneRotating, Rotating
      <3> QED
        BY <1>t, <2>1, <3>1, <3>2, DataAlone
    <2>3. CASE latestTimestamp # 0
      <3>1. Disturb /\ \E state \in {"index", "base"} : timer' = [timer EXCEPT ![t] = state]
        BY <1>7, <2>3 DEF Rotate
      <3>2. ~NoneRotating'
        BY <1>0, <1>m, <3>1 DEF NoneRotating, Rotating, TimerTypes
      <3> QED
        BY <1>0, <1>t, <2>1, <3>1, <3>2, DataDisturbed
    <2> QED
      BY <2>2, <2>3
  <1>8. ASSUME NEW t \in Rotation, SetTimeIndex(t) \/ SetBaseTime(t) PROVE DataInv'
    <2>1. /\ UNCHANGED <<pc, time, packet, channel, theirBaseTimes>>
          /\ Disturb /\ timer' = [timer EXCEPT ![t] = "send"]
      BY <1>8 DEF SetTimeIndex, SetBaseTime
    <2>2. ~NoneRotating'
      BY <1>0, <1>m, <2>1 DEF NoneRotating, Rotating, TimerTypes
    <2> QED
      BY <1>0, <1>t, <2>1, <2>2, DataDisturbed
  <1>9. ASSUME NEW t \in Rotation, UpdateBaseTimes(t) PROVE DataInv'
    <2>1. /\ channel' = Append(channel, [kind |-> "times", baseTimes |-> baseTimes])
          /\ UNCHANGED <<baseTimes, pc, time, packet, clean, theirBaseTimes>>
          /\ ~NoneRotating
      BY <1>9 DEF UpdateBaseTimes, NoneRotating, Rotating
    <2>2. Announced(baseTimes, theirBaseTimes, channel') /\ AllExact(theirBaseTimes, channel')
      <3>1. /\ AllExact(theirBaseTimes, channel) /\ channel \in Seq(Message)
            /\ baseTimes \in [1 .. 2 -> Nat]
        BY <1>0 DEF DataInv, SentExact, DataTypes
      <3>2. PICK s : s = channel'
        OBVIOUS
      <3>3. s = Append(channel, [kind |-> "times", baseTimes |-> baseTimes])
        BY <2>1, <3>2
      <3> QED
        BY <3>1, <3>2, <3>3, TimesSent
    <2>3. \A p \in Publisher : ~(clean[p] /\ pc[p] # "idle")
      BY <2>1 DEF DataInv, CleanUndisturbed
    <2> QED
      BY <1>t, <2>1, <2>2, <2>3 DEF DataInv, Synchronized, CleanUndisturbed, SentExact
  <1>10. CASE HandleSubscribe \/ HandleUnsubscribe \/ StopRotation \/ StopThrottle
    <2>1. UNCHANGED <<baseTimes, pc, time, packet, clean, channel, theirBaseTimes, timer>>
      BY <1>10 DEF HandleSubscribe, HandleUnsubscribe, StopRotation, StopThrottle
    <2>2. NoneRotating' = NoneRotating
      BY <2>1 DEF NoneRotating, Rotating
    <2> QED
      BY <1>t, <2>1, <2>2, DataAlone
  <1>11. CASE StartTimers
    BY <1>0, <1>t, <1>11, DataDisturbed DEF StartTimers
  <1>12. CASE Receive
    <2>1. /\ channel # <<>>
          /\ UNCHANGED <<baseTimes, pc, time, packet, clean, timer>>
          /\ channel' = Tail(channel)
          /\ theirBaseTimes' = IF Head(channel).kind = "times" THEN Head(channel).baseTimes
                               ELSE theirBaseTimes
      BY <1>12 DEF Receive, HandleUpdateBaseTimes
    <2>2. NoneRotating' = NoneRotating
      BY <2>1 DEF NoneRotating, Rotating
    <2>3. /\ Announced(baseTimes, theirBaseTimes, channel) =>
               Announced(baseTimes, theirBaseTimes', channel')
          /\ AllExact(theirBaseTimes', channel')
      <3>1. AllExact(theirBaseTimes, channel) /\ channel \in Seq(Message)
        BY <1>0 DEF DataInv, SentExact, DataTypes
      <3>2. PICK s : s = channel'
        OBVIOUS
      <3>3. PICK theirs : theirs = theirBaseTimes'
        OBVIOUS
      <3>4. /\ s = Tail(channel)
            /\ theirs = IF Head(channel).kind = "times" THEN Head(channel).baseTimes
                        ELSE theirBaseTimes
        BY <2>1, <3>2, <3>3
      <3> QED
        BY <2>1, <3>1, <3>2, <3>3, <3>4, HeadRead
    <2>4. CleanUndisturbed'
      BY <2>1, <2>2 DEF DataInv, CleanUndisturbed
    <2> QED
      BY <1>t, <2>1, <2>2, <2>3, <2>4 DEF DataInv, Synchronized, SentExact
  <1> QED
    BY Steps, <1>1, <1>2, <1>3, <1>4, <1>5, <1>6, <1>7, <1>8, <1>9, <1>10, <1>11, <1>12

(* A packet made and sent while no base time changed says, to the          *)
(* subscriber that reads it, the timestamp that its measurement was        *)
(* published with (CompactMeasurement::SerializeTimestamp and              *)
(* DataSubscriber's decoding), whatever came before.                       *)
THEOREM UndisturbedAreExact == Spec => []UndisturbedTimestampsExact
  <1>1. DataInv => UndisturbedTimestampsExact
    <2> SUFFICES ASSUME DataInv, channel # <<>>, Head(channel).kind = "data", Head(channel).clean
                 PROVE  /\ ~ParseFails(Head(channel).measurement)
                        /\ ParsedTimestamp(Head(channel).measurement) = Head(channel).timestamp
      BY DEF UndisturbedTimestampsExact
    <2>1. channel \in Seq(Message)
      BY DEF DataInv, DataTypes
    <2>2. /\ Head(channel) = channel[1] /\ 1 \in 1 .. Len(channel)
          /\ NoTimes(channel, 1, 1 - 1)
      BY <2>1, WithoutHead DEF NoTimes
    <2>3. Exact(channel[1].measurement, channel[1].timestamp, theirBaseTimes)
      BY <2>2 DEF DataInv, SentExact, AllExact
    <2> QED
      BY <2>2, <2>3 DEF Exact, ParseFails, ParsedTimestamp
  <1>2. TimerInv /\ DataInv /\ [Next]_vars => (TimerInv /\ DataInv)'
    BY TimerNext, DataNext
  <1> QED
    BY <1>1, <1>2, TimerInit, DataInit, PTL DEF Spec

-----------------------------------------------------------------------------
(* The TSSC encoder.  What is written is counted in bits, in which every   *)
(* code has at most eight: so much is certain of its words, whichever were *)
(* chosen.                                                                 *)

(* A sequence, of whatever.                                                *)
Sequential(s) == \E S : s \in Seq(S)

(* Operations on sequences whose elements do not matter.                   *)
LEMMA SequentialLength ==
  ASSUME NEW s, Sequential(s)
  PROVE  Len(s) \in Nat
BY LenProperties DEF Sequential

LEMMA AppendSequential ==
  ASSUME NEW s, NEW v, Sequential(s)
  PROVE  Sequential(Append(s, v)) /\ Len(Append(s, v)) = Len(s) + 1
<1>1. PICK S : s \in Seq(S) BY DEF Sequential
<1>2. s \in Seq(S \cup {v}) BY <1>1, SeqMonotonic
<1>3. Append(s, v) \in Seq(S \cup {v}) /\ Len(Append(s, v)) = Len(s) + 1 BY <1>2
<1> QED BY <1>3 DEF Sequential

LEMMA ConcatSequential ==
  ASSUME NEW s, NEW t, Sequential(s), Sequential(t)
  PROVE  Sequential(s \o t) /\ Len(s \o t) = Len(s) + Len(t)
<1>1. PICK S : s \in Seq(S) BY DEF Sequential
<1>2. PICK T : t \in Seq(T) BY DEF Sequential
<1>3. s \in Seq(S \cup T) /\ t \in Seq(S \cup T) BY <1>1, <1>2, SeqMonotonic
<1>4. s \o t \in Seq(S \cup T) /\ Len(s \o t) = Len(s) + Len(t) BY <1>3, ConcatProperties
<1> QED BY <1>4 DEF Sequential

LEMMA ExceptSequential ==
  ASSUME NEW s, NEW i, NEW v, Sequential(s)
  PROVE  Sequential([s EXCEPT ![i] = v]) /\ Len([s EXCEPT ![i] = v]) = Len(s)
<1>1. PICK S : s \in Seq(S) BY DEF Sequential
<1>2. s \in Seq(S \cup {v}) BY <1>1, SeqMonotonic
<1>3. CASE i \in 1 .. Len(s) BY <1>2, <1>3, ExceptSeq DEF Sequential
<1>4. CASE i \notin 1 .. Len(s)
  <2>1. DOMAIN s = 1 .. Len(s) /\ s \in [1 .. Len(s) -> S] BY <1>1, LenProperties
  <2>2. [s EXCEPT ![i] = v] = s BY <1>4, <2>1
  <2> QED BY <2>2
<1> QED BY <1>3, <1>4

LEMMA FunctionSequential ==
  ASSUME NEW n \in Nat, NEW f, NEW S, f \in [1 .. n -> S]
  PROVE  Sequential(f) /\ Len(f) = n
<1>1. f \in Seq(S) /\ Len(f) = n OBVIOUS
<1> QED BY <1>1 DEF Sequential

(* How many bytes a number takes.                                          *)
LEMMA LowBytesLength ==
  ASSUME NEW value, NEW n \in Nat
  PROVE  Sequential(LowBytes(value, n)) /\ Len(LowBytes(value, n)) = n
<1> DEFINE bytes == LowBytes(value, n)
<1>1. bytes \in [1 .. n -> {bytes[i] : i \in 1 .. n}] BY DEF LowBytes
<1> QED BY <1>1, FunctionSequential

LEMMA PlacesBound ==
  ASSUME NEW value, NEW radix, NEW most \in Nat \ {0}
  PROVE  Places(value, radix, most) \in 1 .. most
<1> DEFINE passed == {n \in 1 .. most - 1 : value >= radix ^ n}
<1>1. IsFiniteSet(1 .. most - 1) /\ Cardinality(1 .. most - 1) = most - 1
  BY FS_Interval
<1>2. IsFiniteSet(passed) /\ Cardinality(passed) <= most - 1
  BY <1>1, FS_Subset
<1>3. Cardinality(passed) \in Nat BY <1>2, FS_CardinalityType
<1> QED BY <1>2, <1>3 DEF Places

LEMMA Encode7BitLength ==
  ASSUME NEW value, NEW most \in Nat \ {0}
  PROVE  Sequential(Encode7Bit(value, most)) /\ Len(Encode7Bit(value, most)) \in 1 .. most
<1> DEFINE bytes == Encode7Bit(value, most)
           groups == Places(value, 128, most)
<1>1. groups \in 1 .. most BY PlacesBound
<1>2. bytes \in [1 .. groups -> {bytes[i] : i \in 1 .. groups}] BY DEF Encode7Bit
<1>3. groups \in Nat BY <1>1
<1> HIDE DEF bytes, groups
<1>4. Sequential(bytes) /\ Len(bytes) = groups BY <1>2, <1>3, FunctionSequential
<1> QED BY <1>1, <1>4 DEF bytes

(* An encoder between two writes: each point has at most three short       *)
(* words, fewer than eight bits wait, and a byte that was written is       *)
(* reserved for them exactly while there are any.                          *)
Fields == {"points", "last", "time", "deltas", "data", "index", "bits", "cache"}

PointOK(p) == "words" \in DOMAIN p /\ Len(p.words) \in 0 .. 3

PointsOK(points) ==
  DOMAIN points = {-1} \cup ID /\ \A id \in {-1} \cup ID : PointOK(points[id])

BitsOK(data, at, bits) ==
  /\ Sequential(data)
  /\ bits \in 0 .. 7
  /\ bits = 0 => at = 0
  /\ bits # 0 => at \in 1 .. Len(data)

EncoderOK(e) ==
  /\ DOMAIN e = Fields
  /\ PointsOK(e.points)
  /\ e.last \in {-1} \cup ID
  /\ BitsOK(e.data, e.index, e.bits)

(* The bits written: the byte that is reserved is not full.                *)
Used(e) == 8 * Len(e.data) - (IF e.bits = 0 THEN 0 ELSE 8 - e.bits)

(* e, with codes and bytes of no more than n bits written after it.        *)
Wrote(e, f, n) ==
  EncoderOK(f) /\ Used(f) <= Used(e) + n /\ f.last = e.last

LEMMA UsedType ==
  ASSUME NEW e, EncoderOK(e)
  PROVE  Used(e) \in Int /\ 8 * Len(e.data) - 7 <= Used(e) /\ Used(e) <= 8 * Len(e.data)
<1>1. Len(e.data) \in Nat /\ e.bits \in 0 .. 7
  BY SequentialLength DEF EncoderOK, BitsOK
<1>2. CASE e.bits = 0 BY <1>1, <1>2 DEF Used
<1>3. CASE e.bits # 0
  <2>1. Used(e) = 8 * Len(e.data) - (8 - e.bits) BY <1>3 DEF Used
  <2> QED BY <1>1, <1>3, <2>1
<1> QED BY <1>2, <1>3

(* What is written after what was written, and no more than was counted.   *)
LEMMA WroteMore ==
  ASSUME NEW e, NEW f, NEW g, NEW n \in Nat, NEW k \in Nat, EncoderOK(e),
         Wrote(e, f, n), Wrote(f, g, k)
  PROVE  \A m \in Nat : n + k <= m => Wrote(e, g, m)
<1>1. Used(e) \in Int /\ Used(f) \in Int /\ Used(g) \in Int BY UsedType DEF Wrote
<1> QED BY <1>1 DEF Wrote

(* Bits counted in bytes, of which the last may have room for some.        *)
LEMMA BytesMore ==
  ASSUME NEW n \in Nat, NEW k \in Nat, NEW free \in Int
  PROVE  8 * (n + k) - free = (8 * n - free) + 8 * k
OBVIOUS

LEMMA BitsMore ==
  ASSUME NEW n \in Nat, NEW bits \in Int, NEW length \in Int
  PROVE  /\ 8 * n - (8 - (bits + length)) = (8 * n - 8 + bits) + length
         /\ 8 * (n + 1) - (8 - ((bits + length) - 8)) = (8 * n - 8 + bits) + length
         /\ (bits + length) - 8 = 0 => 8 * n = (8 * n - 8 + bits) + length
OBVIOUS

(* What is written in one piece.                                           *)
LEMMA PutBytesOK ==
  ASSUME NEW e, NEW bytes, EncoderOK(e), Sequential(bytes)
  PROVE  Wrote(e, PutBytes(e, bytes), 8 * Len(bytes))
<1> DEFINE f == PutBytes(e, bytes)
<1>1. /\ DOMAIN f = Fields /\ f.points = e.points /\ f.last = e.last
      /\ f.data = e.data \o bytes /\ f.index = e.index /\ f.bits = e.bits
  BY DEF PutBytes, EncoderOK, BitsOK, Fields
<1>2. Sequential(f.data) /\ Len(f.data) = Len(e.data) + Len(bytes)
  BY <1>1, ConcatSequential DEF EncoderOK, BitsOK
<1>3. Len(e.data) \in Nat /\ Len(bytes) \in Nat BY SequentialLength DEF EncoderOK, BitsOK
<1> HIDE DEF f
<1>4. EncoderOK(f) BY <1>1, <1>2, <1>3 DEF EncoderOK, BitsOK
<1>5. Used(f) = Used(e) + 8 * Len(bytes)
  <2> DEFINE free == IF e.bits = 0 THEN 0 ELSE 8 - e.bits
  <2>1. free \in 0 .. 8 BY DEF EncoderOK, BitsOK
  <2>2. Used(f) = 8 * Len(f.data) - free /\ Used(e) = 8 * Len(e.data) - free
    BY <1>1 DEF Used
  <2> HIDE DEF free
  <2>3. free \in Int BY <2>1
  <2>4. 8 * (Len(e.data) + Len(bytes)) - free = (8 * Len(e.data) - free) + 8 * Len(bytes)
    BY <1>3, <2>3, BytesMore
  <2> QED BY <1>2, <2>2, <2>4
<1>6. Used(f) <= Used(e) + 8 * Len(bytes) BY <1>3, <1>5, UsedType
<1> QED BY <1>1, <1>4, <1>6 DEF Wrote, f

LEMMA WriteBitsOK ==
  ASSUME NEW e, NEW code, NEW length \in 1 .. 8, EncoderOK(e)
  PROVE  Wrote(e, WriteBits(e, code, length), length)
<1> DEFINE r == Reserve(e)
           b == [r EXCEPT !.cache = @ * 2 ^ length + code, !.bits = @ + length]
           f == BitStreamEnd(b)
<1>1. Len(e.data) \in Nat BY SequentialLength DEF EncoderOK, BitsOK
<1>2. /\ DOMAIN r = Fields /\ r.points = e.points /\ r.last = e.last /\ r.bits = e.bits
      /\ Sequential(r.data) /\ r.index \in 1 .. Len(r.data)
      /\ Len(r.data) = IF e.bits = 0 THEN Len(e.data) + 1 ELSE Len(e.data)
  <2>1. CASE e.bits = 0
    <3>1. r = [e EXCEPT !.data = Append(@, 0), !.index = Len(e.data) + 1]
      BY <2>1 DEF Reserve, EncoderOK, BitsOK
    <3>2. /\ DOMAIN r = Fields /\ r.points = e.points /\ r.last = e.last /\ r.bits = e.bits
          /\ r.data = Append(e.data, 0) /\ r.index = Len(e.data) + 1
      BY <3>1 DEF EncoderOK, BitsOK, Fields
    <3>3. Sequential(r.data) /\ Len(r.data) = Len(e.data) + 1
      BY <3>2, AppendSequential DEF EncoderOK, BitsOK
    <3> QED BY <1>1, <2>1, <3>2, <3>3
  <2>2. CASE e.bits # 0
    <3>1. r = e BY <1>1, <2>2 DEF Reserve, EncoderOK, BitsOK
    <3> QED BY <2>2, <3>1 DEF EncoderOK, BitsOK
  <2> QED BY <2>1, <2>2
<1>3. Len(r.data) \in Nat BY <1>2, SequentialLength
<1>4. e.bits \in 0 .. 7 BY DEF EncoderOK, BitsOK
<1>5. e.bits \in Int /\ length \in Int BY <1>4
<1>6. /\ 8 * Len(r.data) - (8 - (e.bits + length)) = (8 * Len(r.data) - 8 + e.bits) + length
      /\ 8 * (Len(r.data) + 1) - (8 - ((e.bits + length) - 8))
           = (8 * Len(r.data) - 8 + e.bits) + length
      /\ (e.bits + length) - 8 = 0
           => 8 * Len(r.data) = (8 * Len(r.data) - 8 + e.bits) + length
  BY <1>3, <1>5, BitsMore
<1>7. Used(e) = 8 * Len(r.data) - 8 + e.bits
  <2>1. CASE e.bits = 0 BY <1>1, <1>2, <2>1 DEF Used
  <2>2. CASE e.bits # 0
    <3>1. Used(e) = 8 * Len(e.data) - (8 - e.bits) BY <2>2 DEF Used
    <3> QED BY <1>1, <1>2, <1>4, <2>2, <3>1
  <2> QED BY <2>1, <2>2
<1> HIDE DEF r
<1>8. /\ DOMAIN b = Fields /\ b.points = e.points /\ b.last = e.last
      /\ b.bits = e.bits + length /\ b.data = r.data /\ b.index = r.index
  BY <1>2 DEF Fields
<1> HIDE DEF b, f
<1>9. /\ f.points = e.points /\ f.last = e.last /\ DOMAIN f = Fields
      /\ BitsOK(f.data, f.index, f.bits)
      /\ Used(f) = Used(e) + length
  <2>1. CASE b.bits <= 7
    <3>1. f = b BY <2>1 DEF BitStreamEnd, f
    <3>2. BitsOK(f.data, f.index, f.bits)
      <4>1. f.bits \in 1 .. 7 BY <1>4, <1>8, <2>1, <3>1
      <4>2. f.bits \in 0 .. 7 /\ f.bits # 0 BY <4>1
      <4> QED BY <1>2, <1>8, <3>1, <4>2 DEF BitsOK
    <3>3. Used(f) = Used(e) + length
      <4>1. f.bits = e.bits + length /\ f.bits # 0 /\ Len(f.data) = Len(r.data)
        BY <1>8, <1>4, <3>1
      <4>2. Used(f) = 8 * Len(f.data) - (8 - f.bits) BY <4>1 DEF Used
      <4>3. Used(f) = 8 * Len(r.data) - (8 - (e.bits + length)) BY <4>1, <4>2
      <4> QED BY <1>7, <1>6, <4>3
    <3> QED BY <1>2, <1>8, <3>1, <3>2, <3>3
  <2>2. CASE ~(b.bits <= 7)
    <3> DEFINE rest == b.bits - 8
               w == [b EXCEPT !.data[b.index] = b.cache \div 2 ^ rest, !.index = 0,
                              !.bits = rest, !.cache = @ % 2 ^ rest]
    <3>1. /\ DOMAIN w = Fields /\ w.points = e.points /\ w.last = e.last
          /\ w.data = [b.data EXCEPT ![b.index] = b.cache \div 2 ^ rest]
          /\ w.index = 0 /\ w.bits = rest
      BY <1>8 DEF Fields
    <3>4. f = IF rest > 0 THEN Reserve(w) ELSE w BY <2>2 DEF BitStreamEnd, f
    <3> HIDE DEF w
    <3>2. Sequential(w.data) /\ Len(w.data) = Len(r.data)
      <4>1. Sequential(b.data) BY <1>2, <1>8
      <4>2. /\ Sequential([b.data EXCEPT ![b.index] = b.cache \div 2 ^ rest])
            /\ Len([b.data EXCEPT ![b.index] = b.cache \div 2 ^ rest]) = Len(b.data)
        BY <4>1, ExceptSequential, Zenon
      <4> QED BY <1>8, <3>1, <4>2
    <3>3. rest \in 0 .. 7
      <4>1. b.bits \in 8 .. 15 BY <1>8, <1>4, <2>2
      <4> QED BY <4>1
    <3>5. CASE rest = 0
      <4>1. f = w BY <3>4, <3>5
      <4>2. BitsOK(f.data, f.index, f.bits)
        BY <3>1, <3>2, <3>5, <4>1 DEF BitsOK
      <4>3. Used(f) = Used(e) + length
        <5>1. f.bits = 0 /\ (e.bits + length) - 8 = 0 /\ Len(f.data) = Len(r.data)
          BY <1>8, <3>1, <3>2, <3>5, <4>1
        <5>2. Used(f) = 8 * Len(r.data) BY <1>3, <5>1 DEF Used
        <5> QED BY <1>7, <1>6, <5>1, <5>2
      <4> QED BY <3>1, <4>1, <4>2, <4>3
    <3>6. CASE rest # 0
      <4>1. f = [w EXCEPT !.data = Append(@, 0), !.index = Len(w.data) + 1]
        BY <3>1, <3>3, <3>4, <3>6 DEF Reserve
      <4>2. /\ DOMAIN f = Fields /\ f.points = e.points /\ f.last = e.last /\ f.bits = rest
            /\ f.data = Append(w.data, 0) /\ f.index = Len(w.data) + 1
        BY <3>1, <4>1 DEF Fields
      <4>3. Sequential(f.data) /\ Len(f.data) = Len(r.data) + 1
        BY <3>2, <4>2, AppendSequential
      <4>4. BitsOK(f.data, f.index, f.bits)
        BY <1>3, <3>3, <3>6, <4>2, <4>3, <3>2 DEF BitsOK
      <4>5. Used(f) = Used(e) + length
        <5>1. f.bits = (e.bits + length) - 8 /\ f.bits # 0 /\ Len(f.data) = Len(r.data) + 1
          BY <1>8, <3>6, <4>2, <4>3
        <5>2. Used(f) = 8 * Len(f.data) - (8 - f.bits) BY <5>1 DEF Used
        <5>3. Used(f) = 8 * (Len(r.data) + 1) - (8 - ((e.bits + length) - 8))
          BY <5>1, <5>2
        <5> QED BY <1>7, <1>6, <5>3
      <4> QED BY <4>2, <4>4, <4>5
    <3> QED BY <3>5, <3>6
  <2> QED BY <2>1, <2>2
<1>10. f = WriteBits(e, code, length) BY DEF WriteBits, f, b, r
<1>11. EncoderOK(f) BY <1>9 DEF EncoderOK, BitsOK
<1>12. Used(f) <= Used(e) + length BY <1>9, UsedType
<1> QED BY <1>9, <1>10, <1>11, <1>12 DEF Wrote

(* A code has one to three bits as a short word, and otherwise five and    *)
(* one for each short word.                                                *)
LEMMA BestBound ==
  ASSUME NEW sizes
  PROVE  Best(sizes) \in 0 .. 3
BY DEF Best

LEMMA CountedOK ==
  ASSUME NEW p, NEW code, PointOK(p)
  PROVE  PointOK(UpdatedCodeStatistics(p, code))
<1> DEFINE counted == [p EXCEPT !.stats[code] = @ + 1, !.sent = @ + 1]
           started == [counted EXCEPT !.startup = IF @ < 2 THEN @ + 1 ELSE 2]
<1>1. PointOK(counted) /\ PointOK(started) BY DEF PointOK
<1> HIDE DEF counted, started
<1>2. ASSUME NEW q, NEW top, PointOK(q)
      PROVE  PointOK(WithWords(q, top))
  <2> DEFINE sizes == [n \in 0 .. 3 |-> Size(top, q.sent, n)]
             words == [i \in 1 .. Best(sizes) |-> top[i].code]
  <2>1. Best(sizes) \in 0 .. 3 BY BestBound
  <2>2. Len(words) = Best(sizes) BY <2>1
  <2>3. "words" \in DOMAIN WithWords(q, top) /\ WithWords(q, top).words = words
    BY <1>2 DEF WithWords, PointOK
  <2> HIDE DEF words
  <2> QED BY <2>1, <2>2, <2>3 DEF PointOK
<1>3. PointOK(AdaptCommands(started)) BY <1>1, <1>2 DEF AdaptCommands
<1> QED BY <1>1, <1>3 DEF UpdatedCodeStatistics, counted, started

(* A point may change all that it holds but the number of its words.       *)
LEMMA PointChangeOK ==
  ASSUME NEW e, NEW f, NEW n \in Nat, NEW id \in {-1} \cup ID, NEW p,
         Wrote(e, f, n), PointOK(p)
  PROVE  Wrote(e, [f EXCEPT !.points[id] = p], n)
<1> DEFINE g == [f EXCEPT !.points[id] = p]
<1>1. /\ DOMAIN g = Fields /\ g.points = [f.points EXCEPT ![id] = p] /\ g.last = f.last
      /\ g.data = f.data /\ g.index = f.index /\ g.bits = f.bits
  BY DEF Wrote, EncoderOK, Fields
<1>2. PointsOK(g.points) BY <1>1 DEF Wrote, EncoderOK, PointsOK
<1> HIDE DEF g
<1>3. EncoderOK(g) BY <1>1, <1>2 DEF Wrote, EncoderOK
<1>4. Used(g) = Used(f) BY <1>1 DEF Used
<1> QED BY <1>1, <1>3, <1>4 DEF Wrote, g

LEMMA WriteCodeOK ==
  ASSUME NEW e, NEW code, EncoderOK(e)
  PROVE  Wrote(e, WriteCode(e, code), 8)
<1> DEFINE p == e.points[e.last]
           n == Len(p.words)
           short == {i \in 1 .. n : p.words[i] = code}
           first == CHOOSE i \in short : \A j \in short : i <= j
           written == IF short = {} THEN WriteBits(e, code, 5 + n) ELSE WriteBits(e, 1, first)
<1>1. e.last \in {-1} \cup ID /\ PointOK(p) BY DEF EncoderOK, PointsOK
<1>2. n \in 0 .. 3 BY <1>1 DEF PointOK
<1>3. PointOK(UpdatedCodeStatistics(p, code)) BY <1>1, CountedOK
<1> HIDE DEF p, n
<1>4. short # {} => first \in 1 .. 3
  <2>1. short \subseteq 1 .. 3 BY <1>2
  <2> HIDE DEF short
  <2>2. SUFFICES ASSUME short # {} PROVE \E i \in short : \A j \in short : i <= j
    BY <2>1
  <2>3. CASE 1 \in short BY <2>1, <2>3
  <2>4. CASE 1 \notin short /\ 2 \in short BY <2>1, <2>4
  <2>5. CASE 1 \notin short /\ 2 \notin short
    <3>1. PICK i \in short : TRUE BY <2>2
    <3>2. \A j \in short : j = 3
      <4>1. \A j \in 1 .. 3 : j = 1 \/ j = 2 \/ j = 3 OBVIOUS
      <4> QED BY <2>1, <2>5, <4>1
    <3> QED BY <3>1, <3>2
  <2> QED BY <2>3, <2>4, <2>5
<1> HIDE DEF short, first
<1>5. \E k \in 1 .. 8 : Wrote(e, written, k)
  <2>1. CASE short = {}
    <3>1. 5 + n \in 1 .. 8 BY <1>2
    <3>2. Wrote(e, WriteBits(e, code, 5 + n), 5 + n) BY <3>1, WriteBitsOK
    <3> QED BY <2>1, <3>1, <3>2
  <2>2. CASE short # {}
    <3>1. first \in 1 .. 8 BY <1>4, <2>2
    <3>2. Wrote(e, WriteBits(e, 1, first), first) BY <3>1, WriteBitsOK
    <3> QED BY <2>2, <3>1, <3>2
  <2> QED BY <2>1, <2>2
<1>6. WriteCode(e, code) = [written EXCEPT !.points[e.last] = UpdatedCodeStatistics(p, code)]
  BY DEF WriteCode, written, first, short, n, p
<1> HIDE DEF written
<1>7. Wrote(e, written, 8)
  <2>1. PICK k \in 1 .. 8 : Wrote(e, written, k) BY <1>5
  <2>2. Used(e) \in Int /\ Used(written) \in Int BY <2>1, UsedType DEF Wrote
  <2> QED BY <2>1, <2>2 DEF Wrote
<1> QED BY <1>1, <1>3, <1>6, <1>7, PointChangeOK

LEMMA DigitsBound ==
  ASSUME NEW value
  PROVE  Digits(value) \in 1 .. 8
BY PlacesBound DEF Digits

LEMMA WriteChangeOK ==
  ASSUME NEW e, NEW code, NEW change, NEW digits \in 1 .. 8, EncoderOK(e)
  PROVE  Wrote(e, WriteChange(e, code, change, digits), 40)
<1> DEFINE coded == WriteCode(e, code)
<1>1. Wrote(e, coded, 8) /\ EncoderOK(coded) BY WriteCodeOK DEF Wrote
<1> HIDE DEF coded
<1>2. CASE digits % 2 = 1
  <2> DEFINE nibble == WriteBits(coded, change % 16, 4)
             bytes == LowBytes(change \div 16, digits \div 2)
             f == PutBytes(nibble, bytes)
  <2>1. digits \div 2 \in Nat /\ digits \div 2 <= 3 BY <1>2
  <2>2. Sequential(bytes) /\ Len(bytes) = digits \div 2 BY <2>1, LowBytesLength
  <2>3. Wrote(coded, nibble, 4) /\ EncoderOK(nibble) BY <1>1, WriteBitsOK DEF Wrote
  <2> HIDE DEF nibble, bytes
  <2>4. Wrote(e, nibble, 12) BY <1>1, <2>3, WroteMore
  <2>5. Wrote(nibble, f, 8 * Len(bytes)) BY <2>2, <2>3, PutBytesOK
  <2>6. WriteChange(e, code, change, digits) = f
    BY <1>2 DEF WriteChange, f, nibble, bytes, coded
  <2>7. 8 * Len(bytes) \in Nat /\ 12 + 8 * Len(bytes) <= 40 BY <2>1, <2>2
  <2> HIDE DEF f
  <2> QED BY <2>4, <2>5, <2>6, <2>7, WroteMore
<1>3. CASE digits % 2 # 1
  <2> DEFINE bytes == LowBytes(change, digits \div 2)
             f == PutBytes(coded, bytes)
  <2>1. digits \div 2 \in Nat /\ digits \div 2 <= 4 OBVIOUS
  <2>2. Sequential(bytes) /\ Len(bytes) = digits \div 2 BY <2>1, LowBytesLength
  <2> HIDE DEF bytes
  <2>3. Wrote(coded, f, 8 * Len(bytes)) BY <1>1, <2>2, PutBytesOK
  <2>4. WriteChange(e, code, change, digits) = f
    BY <1>3 DEF WriteChange, f, bytes, coded
  <2>5. 8 * Len(bytes) \in Nat /\ 8 + 8 * Len(bytes) <= 40 BY <2>1, <2>2
  <2> HIDE DEF f
  <2> QED BY <1>1, <2>3, <2>4, <2>5, WroteMore
<1> QED BY <1>2, <1>3

LEMMA WriteCodeAndBytesOK ==
  ASSUME NEW e, NEW code, NEW value, NEW most \in Nat \ {0}, EncoderOK(e)
  PROVE  Wrote(e, PutBytes(WriteCode(e, code), Encode7Bit(value, most)), 8 + 8 * most)
<1> DEFINE coded == WriteCode(e, code)
           bytes == Encode7Bit(value, most)
           f == PutBytes(coded, bytes)
<1>1. Wrote(e, coded, 8) /\ EncoderOK(coded) BY WriteCodeOK DEF Wrote
<1>2. Sequential(bytes) /\ Len(bytes) \in 1 .. most BY Encode7BitLength
<1> HIDE DEF coded, bytes
<1>3. Wrote(coded, f, 8 * Len(bytes)) BY <1>1, <1>2, PutBytesOK
<1>4. 8 * Len(bytes) \in Nat /\ 8 + 8 * most \in Nat
      /\ 8 + 8 * Len(bytes) <= 8 + 8 * most
  BY <1>2
<1> HIDE DEF f
<1>5. Wrote(e, f, 8 + 8 * most) BY <1>1, <1>3, <1>4, WroteMore
<1> QED BY <1>5 DEF f, coded, bytes

(* The parts of a measurement.                                             *)
LEMMA IdentifiedOK ==
  ASSUME NEW e, NEW m, EncoderOK(e)
  PROVE  Wrote(e, Identified(e, m), 40)
<1>1. Wrote(e, e, 40) BY UsedType DEF Wrote
<1>2. Wrote(e, WritePointIDChange(e, m.id), 40)
  <2> DEFINE change == Xor(m.id, e.points[e.last].next)
             f == WriteIDChange(e, change, ChangeDigits(change))
             p == [f.points[e.last] EXCEPT !.next = m.id]
  <2>1. ChangeDigits(change) \in 1 .. 8 BY DigitsBound DEF ChangeDigits
  <2>2. Wrote(e, f, 40) BY <2>1, WriteChangeOK DEF WriteIDChange
  <2>3. WritePointIDChange(e, m.id) = [f EXCEPT !.points[e.last] = p]
    BY DEF WritePointIDChange
  <2> HIDE DEF f
  <2>4. e.last \in {-1} \cup ID BY DEF EncoderOK
  <2>5. PointOK(p) BY <2>2, <2>4 DEF Wrote, EncoderOK, PointsOK, PointOK
  <2> HIDE DEF p
  <2> QED BY <2>2, <2>3, <2>4, <2>5, PointChangeOK
<1> QED BY <1>1, <1>2 DEF Identified

LEMMA TimedOK ==
  ASSUME NEW e, NEW m, EncoderOK(e)
  PROVE  Wrote(e, Timed(e, m), 8 + 8 * TimeBytes)
<1>1. TimeBytes \in Nat \ {0} BY CodecAssumption
<1>2. Wrote(e, e, 8 + 8 * TimeBytes) BY <1>1, UsedType DEF Wrote
<1>3. Wrote(e, WriteTimestampChange(e, m.time), 8 + 8 * TimeBytes)
  <2>1. \A code : Wrote(e, WriteCode(e, code), 8 + 8 * TimeBytes)
    <3> TAKE code
    <3>1. Wrote(e, WriteCode(e, code), 8) BY WriteCodeOK
    <3>2. Used(e) \in Int /\ Used(WriteCode(e, code)) \in Int
      BY <3>1, UsedType DEF Wrote
    <3> QED BY <1>1, <3>1, <3>2 DEF Wrote
  <2>2. \A f : Wrote(e, f, 8 + 8 * TimeBytes)
          => Wrote(e, TimeSet(f, m.time), 8 + 8 * TimeBytes)
    <3> TAKE f
    <3> DEFINE g == TimeSet(f, m.time)
    <3> HAVE Wrote(e, f, 8 + 8 * TimeBytes)
    <3>1. /\ DOMAIN g = Fields /\ g.points = f.points /\ g.last = f.last
          /\ g.data = f.data /\ g.index = f.index /\ g.bits = f.bits
      BY DEF TimeSet, Wrote, EncoderOK, Fields
    <3> HIDE DEF g
    <3> QED BY <3>1 DEF Wrote, EncoderOK, Used, g
  <2>3. Wrote(e, PutBytes(WriteCode(e, TimeXOR7Bit), Encode7Bit(Xor(m.time, e.time[1]), TimeBytes)),
              8 + 8 * TimeBytes)
    BY <1>1, WriteCodeAndBytesOK
  <2> QED BY <2>1, <2>2, <2>3 DEF WriteTimestampChange
<1> QED BY <1>2, <1>3 DEF Timed

LEMMA QualifiedOK ==
  ASSUME NEW e, NEW m, m.id \in ID, EncoderOK(e)
  PROVE  Wrote(e, Qualified(e, m), 8 + 8 * QualityBytes)
<1>1. QualityBytes \in Nat \ {0} BY CodecAssumption
<1>2. Wrote(e, e, 8 + 8 * QualityBytes) BY <1>1, UsedType DEF Wrote
<1>3. Wrote(e, WriteQualityChange(e, m.id, m.quality), 8 + 8 * QualityBytes)
  <2>1. Wrote(e, WriteCode(e, Quality2), 8 + 8 * QualityBytes)
    <3>1. Wrote(e, WriteCode(e, Quality2), 8) BY WriteCodeOK
    <3>2. Used(e) \in Int /\ Used(WriteCode(e, Quality2)) \in Int
      BY <3>1, UsedType DEF Wrote
    <3> QED BY <1>1, <3>1, <3>2 DEF Wrote
  <2>2. Wrote(e, PutBytes(WriteCode(e, Quality7Bit32), Encode7Bit(m.quality, QualityBytes)),
              8 + 8 * QualityBytes)
    BY <1>1, WriteCodeAndBytesOK
  <2>3. ASSUME NEW f, Wrote(e, f, 8 + 8 * QualityBytes)
        PROVE  Wrote(e, QualitySet(f, m.id, m.quality), 8 + 8 * QualityBytes)
    <3> DEFINE p == [f.points[m.id] EXCEPT !.quality = <<m.quality, @[1]>>]
    <3>1. QualitySet(f, m.id, m.quality) = [f EXCEPT !.points[m.id] = p] BY DEF QualitySet
    <3>2. PointOK(p) BY <2>3 DEF Wrote, EncoderOK, PointsOK, PointOK
    <3> HIDE DEF p
    <3> QED BY <1>1, <2>3, <3>1, <3>2, PointChangeOK
  <2> QED BY <2>1, <2>2, <2>3 DEF WriteQualityChange
<1> QED BY <1>2, <1>3 DEF Qualified

LEMMA WriteValueOK ==
  ASSUME NEW e, NEW id \in ID, NEW value, EncoderOK(e)
  PROVE  Wrote(e, WriteValue(e, id, value), 40)
<1>1. ASSUME NEW f, NEW code, Wrote(e, f, 40)
      PROVE  Wrote(e, ValueSet(f, id, value, code), 40)
  <2> DEFINE p == [f.points[id] EXCEPT !.value =
                     CASE code = Value1 -> @
                       [] code = Value1 + 1 -> <<value, @[1], @[3]>>
                       [] OTHER -> <<value, @[1], @[2]>>]
  <2>1. ValueSet(f, id, value, code) = [f EXCEPT !.points[id] = p] BY DEF ValueSet
  <2>2. PointOK(p) BY <1>1 DEF Wrote, EncoderOK, PointsOK, PointOK
  <2> HIDE DEF p
  <2> QED BY <1>1, <2>1, <2>2, PointChangeOK
<1>2. ASSUME NEW code
      PROVE  Wrote(e, WriteCode(e, code), 40)
  <2>1. Wrote(e, WriteCode(e, code), 8) BY WriteCodeOK
  <2>2. Used(e) \in Int /\ Used(WriteCode(e, code)) \in Int
    BY <2>1, UsedType DEF Wrote
  <2> QED BY <2>1, <2>2 DEF Wrote
<1>3. ASSUME NEW code, NEW change
      PROVE  Wrote(e, WriteChange(e, code, change, Digits(change)), 40)
  BY DigitsBound, WriteChangeOK
<1> QED BY <1>1, <1>2, <1>3 DEF WriteValue

(* Four codes, identity and value of four bytes, time and quality.         *)
LEMMA AddMeasurementOK ==
  ASSUME NEW e, NEW m, m.id \in ID, EncoderOK(e)
  PROVE  /\ EncoderOK(AddMeasurement(e, m))
         /\ Used(AddMeasurement(e, m)) <= Used(e) + 8 * (12 + TimeBytes + QualityBytes)
<1> DEFINE f == Identified(e, m)
           g == Timed(f, m)
           h == Qualified(g, m)
           v == WriteValue(h, m.id, m.value)
           a == [v EXCEPT !.last = m.id]
<1>1. EncoderOK(f) /\ Used(f) <= Used(e) + 40 BY IdentifiedOK DEF Wrote
<1> HIDE DEF f
<1>2. EncoderOK(g) /\ Used(g) <= Used(f) + 8 + 8 * TimeBytes
  <2>1. Wrote(f, g, 8 + 8 * TimeBytes) BY <1>1, TimedOK
  <2>2. Used(f) + (8 + 8 * TimeBytes) = Used(f) + 8 + 8 * TimeBytes
    BY <1>1, UsedType, CodecAssumption
  <2> QED BY <2>1, <2>2 DEF Wrote
<1> HIDE DEF g
<1>3. EncoderOK(h) /\ Used(h) <= Used(g) + 8 + 8 * QualityBytes
  <2>1. Wrote(g, h, 8 + 8 * QualityBytes) BY <1>2, QualifiedOK
  <2>2. Used(g) + (8 + 8 * QualityBytes) = Used(g) + 8 + 8 * QualityBytes
    BY <1>2, UsedType, CodecAssumption
  <2> QED BY <2>1, <2>2 DEF Wrote
<1> HIDE DEF h
<1>4. EncoderOK(v) /\ Used(v) <= Used(h) + 40 BY <1>3, WriteValueOK DEF Wrote
<1> HIDE DEF v
<1>5. /\ DOMAIN a = Fields /\ a.points = v.points /\ a.last = m.id
      /\ a.data = v.data /\ a.index = v.index /\ a.bits = v.bits
  BY <1>4 DEF EncoderOK, Fields
<1>6. AddMeasurement(e, m) = a BY DEF AddMeasurement, a, v, h, g, f
<1> HIDE DEF a
<1>7. EncoderOK(a) BY <1>4, <1>5 DEF EncoderOK
<1>8. Used(a) = Used(v) BY <1>5 DEF Used
<1>9. /\ Used(e) \in Int /\ Used(f) \in Int /\ Used(g) \in Int /\ Used(h) \in Int
      /\ Used(v) \in Int
  BY <1>1, <1>2, <1>3, <1>4, UsedType
<1>10. TimeBytes \in Nat /\ QualityBytes \in Nat BY CodecAssumption
<1>11. Used(v) <= Used(e) + 8 * (12 + TimeBytes + QualityBytes)
  BY <1>1, <1>2, <1>3, <1>4, <1>9, <1>10
<1> QED BY <1>6, <1>7, <1>8, <1>11

(* The code that ends the block, and the padding of the last byte.         *)
LEMMA FinishBlockOK ==
  ASSUME NEW e, EncoderOK(e)
  PROVE  LET f == FinishBlock(e) IN
         /\ EncoderOK(f) /\ f.bits = 0
         /\ IF e.bits = 0 THEN f = e ELSE 8 * Len(f.data) <= Used(e) + 15
<1> DEFINE f == FinishBlock(e)
           ended == WriteCode(e, EndOfStream)
<1>1. CASE e.bits = 0 BY <1>1 DEF FinishBlock
<1>2. CASE e.bits # 0
  <2>1. EncoderOK(ended) /\ Used(ended) <= Used(e) + 8 BY WriteCodeOK DEF Wrote
  <2>2. /\ Used(e) \in Int /\ Used(ended) \in Int /\ Len(ended.data) \in Nat
        /\ 8 * Len(ended.data) - 7 <= Used(ended)
    BY <2>1, UsedType, SequentialLength DEF EncoderOK, BitsOK
  <2>3. 8 * Len(ended.data) <= Used(e) + 15 BY <2>1, <2>2
  <2>4. f = IF ended.bits = 0 THEN ended
            ELSE [ended EXCEPT !.data[ended.index] = ended.cache * 2 ^ (8 - ended.bits),
                               !.index = 0, !.bits = 0, !.cache = 0]
    BY <1>2 DEF FinishBlock
  <2> HIDE DEF ended, f
  <2>5. CASE ended.bits = 0 BY <1>2, <2>1, <2>3, <2>4, <2>5 DEF f
  <2>6. CASE ended.bits # 0
    <3>1. /\ DOMAIN f = Fields /\ f.points = ended.points /\ f.last = ended.last
          /\ f.data = [ended.data EXCEPT ![ended.index] = ended.cache * 2 ^ (8 - ended.bits)]
          /\ f.index = 0 /\ f.bits = 0
      BY <2>1, <2>4, <2>6 DEF EncoderOK, Fields
    <3>2. Sequential(f.data) /\ Len(f.data) = Len(ended.data)
      <4>1. Sequential(ended.data) BY <2>1 DEF EncoderOK, BitsOK
      <4>2. /\ Sequential([ended.data EXCEPT ![ended.index] = ended.cache * 2 ^ (8 - ended.bits)])
            /\ Len([ended.data EXCEPT ![ended.index] = ended.cache * 2 ^ (8 - ended.bits)])
                 = Len(ended.data)
        BY <4>1, ExceptSequential, Zenon
      <4> QED BY <3>1, <4>2
    <3>3. EncoderOK(f) BY <2>1, <3>1, <3>2 DEF EncoderOK, BitsOK
    <3> QED BY <1>2, <2>3, <3>1, <3>2, <3>3 DEF f
  <2> QED BY <2>5, <2>6
<1> QED BY <1>1, <1>2

(* Between two packets, and after a reset.                                 *)
LEMMA SetBufferOK ==
  ASSUME NEW e, EncoderOK(e)
  PROVE  LET f == SetBuffer(e) IN EncoderOK(f) /\ Len(f.data) = 0 /\ f.bits = 0
<1> DEFINE f == SetBuffer(e)
<1>1. /\ DOMAIN f = Fields /\ f.points = e.points /\ f.last = e.last
      /\ f.data = <<>> /\ f.index = 0 /\ f.bits = 0
  BY DEF SetBuffer, EncoderOK, Fields
<1> HIDE DEF f
<1>2. Sequential(f.data) /\ Len(f.data) = 0 BY <1>1, EmptySeq DEF Sequential
<1> QED BY <1>1, <1>2 DEF EncoderOK, BitsOK, f

LEMMA NewEncoderOK == EncoderOK(NewEncoder) /\ NewEncoder.bits = 0 /\ Len(NewEncoder.data) = 0
<1>1. \A n : PointOK(NewPoint(n)) BY DEF PointOK, NewPoint
<1> HIDE DEF NewPoint
<1>2. /\ DOMAIN NewEncoder = Fields
      /\ NewEncoder.points = [id \in {-1} \cup ID |-> NewPoint(id + 1)]
      /\ NewEncoder.last = -1 /\ NewEncoder.data = <<>>
      /\ NewEncoder.index = 0 /\ NewEncoder.bits = 0
  BY DEF NewEncoder, NewPoints, Fields
<1>3. Sequential(NewEncoder.data) /\ Len(NewEncoder.data) = 0
  BY <1>2, EmptySeq DEF Sequential
<1>4. PointsOK(NewEncoder.points) BY <1>1, <1>2 DEF PointsOK
<1> QED BY <1>2, <1>3, <1>4 DEF EncoderOK, BitsOK

(* The encoder between two operations: what was written leaves room for    *)
(* the code that ends the block.                                           *)
EncoderInv ==
  /\ EncoderOK(encoder)
  /\ Len(encoder.data) <= BufferSize /\ Len(dataPacket.data) <= BufferSize
  /\ encoder.bits # 0 => Used(encoder) <= 8 * BufferSize - 8

LEMMA TsscConstants ==
  /\ ReservedBytes \in Nat /\ BufferSize \in Nat
  /\ TimeBytes \in Nat /\ QualityBytes \in Nat
  /\ 13 + TimeBytes + QualityBytes <= ReservedBytes
BY CodecAssumption, ReservedAssumption

LEMMA TsscInitInv == TsscInit => EncoderInv
<1>1. Len(NoPacket.data) = 0 BY DEF NoPacket
<1> QED BY <1>1, NewEncoderOK, TsscConstants DEF TsscInit, EncoderInv

LEMMA TsscNextInv == EncoderInv /\ [TsscNext]_tsscVars => EncoderInv'
<1> SUFFICES ASSUME EncoderInv, [TsscNext]_tsscVars PROVE EncoderInv'
  OBVIOUS
<1>0. Len(NoPacket.data) = 0 BY DEF NoPacket
<1>1. CASE StartBlock
  <2> PICK e : EncoderOK(e) /\ encoder' = SetBuffer(e)
    BY <1>1, NewEncoderOK DEF StartBlock, EncoderInv
  <2>1. EncoderOK(encoder') /\ Len(encoder'.data) = 0 /\ encoder'.bits = 0
    BY SetBufferOK
  <2> QED BY <1>1, <2>1, TsscConstants DEF StartBlock, EncoderInv
<1>2. ASSUME NEW m \in Measurements, TryAddMeasurement(m)
      PROVE  EncoderInv'
  <2>1. m.id \in ID BY StreamAssumption
  <2>2. /\ encoder' = AddMeasurement(encoder, m) /\ dataPacket' = dataPacket
        /\ BufferSize - Len(encoder.data) >= ReservedBytes
    BY <1>2 DEF TryAddMeasurement, HasSpace, tsscCounters
  <2> PICK f : f = AddMeasurement(encoder, m) OBVIOUS
  <2>3. /\ EncoderOK(f)
        /\ Used(f) <= Used(encoder) + 8 * (12 + TimeBytes + QualityBytes)
    BY <2>1, AddMeasurementOK DEF EncoderInv
  <2>4. /\ Used(encoder) \in Int /\ Used(encoder) <= 8 * Len(encoder.data)
        /\ Used(f) \in Int /\ 8 * Len(f.data) - 7 <= Used(f)
        /\ Len(encoder.data) \in Nat /\ Len(f.data) \in Nat
    BY <2>3, UsedType, SequentialLength DEF EncoderInv, EncoderOK, BitsOK
  <2>5. Used(f) <= 8 * BufferSize - 8
    <3> DEFINE most == 12 + TimeBytes + QualityBytes
    <3>1. most \in Nat /\ BufferSize \in Nat /\ Len(encoder.data) + most + 1 <= BufferSize
      <4>1. most \in Nat /\ BufferSize \in Nat BY TsscConstants
      <4>2. Len(encoder.data) + ReservedBytes <= BufferSize BY <2>2, <2>4, TsscConstants
      <4>3. most + 1 <= ReservedBytes BY TsscConstants
      <4> HIDE DEF most
      <4> QED BY <2>4, <4>1, <4>2, <4>3, TsscConstants
    <3>2. Used(f) <= Used(encoder) + 8 * most BY <2>3
    <3> HIDE DEF most
    <3> QED BY <2>4, <3>1, <3>2
  <2>6. Len(f.data) <= BufferSize BY <2>4, <2>5, TsscConstants
  <2>7. encoder' = f BY <2>2
  <2> QED BY <2>2, <2>3, <2>5, <2>6, <2>7 DEF EncoderInv
<1>3. ASSUME NEW more \in BOOLEAN, PublishTSSCDataPacket(more)
      PROVE  EncoderInv'
  <2> PICK f : f = FinishBlock(encoder) OBVIOUS
  <2>1. dataPacket'.data = f.data /\ encoder' = SetBuffer(f)
    BY <1>3 DEF PublishTSSCDataPacket
  <2>2. /\ EncoderOK(f)
        /\ IF encoder.bits = 0 THEN f = encoder ELSE 8 * Len(f.data) <= Used(encoder) + 15
    BY FinishBlockOK DEF EncoderInv
  <2>3. Used(encoder) \in Int /\ Len(f.data) \in Nat
    BY <2>2, UsedType, SequentialLength DEF EncoderInv, EncoderOK, BitsOK
  <2>4. Len(f.data) <= BufferSize
    <3>1. CASE encoder.bits = 0 BY <2>2, <3>1 DEF EncoderInv
    <3>2. CASE encoder.bits # 0
      <4>1. 8 * Len(f.data) <= Used(encoder) + 15 BY <2>2, <3>2
      <4>2. Used(encoder) <= 8 * BufferSize - 8 BY <3>2 DEF EncoderInv
      <4> QED BY <2>3, <4>1, <4>2, TsscConstants
    <3> QED BY <3>1, <3>2
  <2>5. EncoderOK(encoder') /\ Len(encoder'.data) = 0 /\ encoder'.bits = 0
    BY <2>1, <2>2, SetBufferOK
  <2> QED BY <2>1, <2>4, <2>5, TsscConstants DEF EncoderInv
<1>4. CASE /\ encoder' = encoder
           /\ dataPacket' = dataPacket \/ dataPacket' = NoPacket
  BY <1>0, <1>4, TsscConstants DEF EncoderInv
<1>5. RequestReset => encoder' = encoder /\ dataPacket' = dataPacket
  BY DEF RequestReset
<1>6. ReceivePacket => encoder' = encoder /\ (dataPacket' = dataPacket \/ dataPacket' = NoPacket)
  BY DEF ReceivePacket, encoderVars
<1>7. GetMeasurement => encoder' = encoder /\ dataPacket' = dataPacket
  BY DEF GetMeasurement, encoderVars
<1>8. EndOfBlock => encoder' = encoder /\ dataPacket' = NoPacket
  BY DEF EndOfBlock, encoderVars
<1>9. tsscVars' = tsscVars => encoder' = encoder /\ dataPacket' = dataPacket
  BY DEF tsscVars, encoderVars
<1> QED BY <1>1, <1>2, <1>3, <1>4, <1>5, <1>6, <1>7, <1>8, <1>9 DEF TsscNext

(* One test for space is enough for a measurement and the end of its       *)
(* block: for all measurements, code words and resets no packet is longer  *)
(* than the buffer and bits are written to a byte that was reserved.       *)
THEOREM BuffersAreNotOverrun == TsscSpec => []NoBufferOverrun
<1>1. EncoderInv => NoBufferOverrun
  BY DEF EncoderInv, EncoderOK, BitsOK, NoBufferOverrun
<1> QED BY <1>1, TsscInitInv, TsscNextInv, PTL DEF TsscSpec
=============================================================================
