------------------------- MODULE CompactPublication -------------------------
(***************************************************************************)
(* Publication in the compact format on one connection                     *)
(* (SubscriberConnection.cpp, CompactMeasurement.cpp, Timer.cpp, and the   *)
(* subscriber's decoding in DataSubscriber.cpp).  Threads of the program   *)
(* publish measurements; every subscription has a timer that rotates the   *)
(* two base times, relative to which timestamps are encoded, and a         *)
(* throttled one a timer that publishes the latest measurement; the        *)
(* thread that reads commands stops and starts the timers.  Each           *)
(* measurement is a packet and there is one signal: cache, value and flags *)
(* are left out, and so is the time at which a timer elapses.  The model   *)
(* is of a subscription that includes timestamps, as offsets and in ticks: *)
(* with millisecond resolution an offset is cut to milliseconds.           *)
(***************************************************************************)
EXTENDS Integers, Sequences, FiniteSets

CONSTANTS Program,         \* the program's threads that publish
          MaxSubscribes,   \* bound: Subscribe commands
          MaxPublications, \* bound: calls of PublishMeasurements
          MaxRotations,    \* bound: calls of the rotation timers' callback
          MaxThrottles,    \* bound: calls of the throttling timers' callback
          Interval,        \* of the rotation timer
          Step,            \* between the timestamps of two calls
          Span             \* an offset that is not less is not used

ASSUME BoundsAssumption ==
  {MaxSubscribes, MaxPublications, MaxRotations, MaxThrottles, Interval} \subseteq Nat
ASSUME StepAssumption == Step \in Nat /\ Span \in Nat \ {0}

Rotation == {<<"rotation", n>> : n \in 1 .. MaxSubscribes}
Throttle == {<<"throttle", n>> : n \in 1 .. MaxSubscribes}
Timer == Rotation \cup Throttle
Publisher == Program \cup Throttle

ASSUME ProgramAssumption == Program \cap Timer = {}

(* Timestamps are far from zero, which stands for no time: no offset to a  *)
(* base that is not set is less than Span.                                 *)
Epoch == Span + 1
Time == {0} \cup Epoch .. Epoch + Step * MaxPublications + Interval

VARIABLES
  subscribed, throttled,       \* m_subscribed, m_trackLatestMeasurements
  latest,                      \* m_latestMeasurements: the timestamp, 0 for none
  baseTimes, timeIndex,        \* m_baseTimeOffsets, m_timeIndex
  latestTimestamp,             \* m_latestTimestamp
  handler, subscription,       \* where the command thread is; Subscribes so far
  timer, running, interrupted, \* each timer's thread, m_running, its interruption
  cancelled,                   \* history: how Stop found each timer
  pc, time, index, packet,     \* each publisher: its measurement, time index, packet
  clean,                       \* history: no base time changed under its hands
  realTime,                    \* realTime of each rotation
  channel,                     \* m_tcpWriteBuffers and the connection
  theirBaseTimes,              \* m_baseTimeOffsets of the subscriber
  clock, rotations, throttles  \* measurements so far, and counters of the bounds

subscriptionVars == <<subscribed, throttled, handler, subscription>>
baseVars == <<baseTimes, timeIndex>>
timerVars == <<timer, running, interrupted, cancelled>>
publisherVars == <<pc, time, index, packet, clean>>
counters == <<clock, rotations, throttles>>
vars == <<subscriptionVars, latest, baseVars, latestTimestamp, timerVars,
          publisherVars, realTime, channel, theirBaseTimes, counters>>

Init ==
  /\ subscribed = FALSE /\ throttled = FALSE /\ latest = 0
  /\ baseTimes = <<0, 0>> /\ timeIndex = 1 /\ latestTimestamp = 0
  /\ handler = "idle" /\ subscription = 0
  /\ timer = [t \in Timer |-> "none"]
  /\ running = [t \in Timer |-> FALSE]
  /\ interrupted = [t \in Timer |-> FALSE]
  /\ cancelled = [t \in Timer |-> "no"]
  /\ pc = [p \in Publisher |-> "idle"]
  /\ time = [p \in Publisher |-> 0]
  /\ index = [p \in Publisher |-> 1]
  /\ packet = [p \in Publisher |-> <<>>]
  /\ clean = [p \in Publisher |-> TRUE]
  /\ realTime = [t \in Rotation |-> 0]
  /\ channel = <<>>
  /\ theirBaseTimes = <<0, 0>>
  /\ clock = 0 /\ rotations = 0 /\ throttles = 0

-----------------------------------------------------------------------------
(* CompactMeasurement: a timestamp is sent as its offset to the base time  *)
(* with the given index if that fits, in full otherwise.                   *)

Fits(offset) == offset > 0 /\ offset < Span

SerializeMeasurement(timestamp, i) ==
  IF Fits(timestamp - baseTimes[i])
  THEN [offset |-> TRUE, index |-> i, number |-> timestamp - baseTimes[i]]
  ELSE [offset |-> FALSE, index |-> i, number |-> timestamp]

ParseFails(m) == m.offset /\ theirBaseTimes[m.index] = 0
ParsedTimestamp(m) == IF m.offset THEN theirBaseTimes[m.index] + m.number ELSE m.number

-----------------------------------------------------------------------------
(* When its callback returns the timer waits again if it still runs.       *)
AfterCallback(t) == timer' = [timer EXCEPT ![t] = IF running[t] THEN "waiting" ELSE "ended"]

(* PublishMeasurements on a thread of the program.  PublishCompact keeps   *)
(* the time index that it finds first and reads the base time, through a   *)
(* pointer, with each measurement.                                         *)

Rotating(t) == timer[t] \in {"index", "base", "send"}

Capture(p, timestamp) ==
  /\ pc' = [pc EXCEPT ![p] = "serialize"]
  /\ time' = [time EXCEPT ![p] = timestamp]
  /\ index' = [index EXCEPT ![p] = timeIndex]
  /\ clean' = [clean EXCEPT ![p] = \A t \in Rotation : ~Rotating(t)]
  /\ UNCHANGED packet

PublishMeasurements(p) ==
  /\ pc[p] = "idle" /\ clock < MaxPublications
  /\ subscribed
  /\ clock' = clock + 1
  /\ IF throttled
     THEN latest' = Epoch + Step * clock' /\ UNCHANGED publisherVars
     ELSE Capture(p, Epoch + Step * clock') /\ UNCHANGED latest
  /\ UNCHANGED <<subscriptionVars, baseVars, latestTimestamp, timerVars, realTime,
                 channel, theirBaseTimes, rotations, throttles>>

Serialize(p) ==
  /\ pc[p] = "serialize"
  /\ packet' = [packet EXCEPT ![p] = SerializeMeasurement(time[p], index[p])]
  /\ latestTimestamp' = IF time[p] > latestTimestamp THEN time[p] ELSE latestTimestamp
  /\ pc' = [pc EXCEPT ![p] = "publish"]
  /\ UNCHANGED <<subscriptionVars, latest, baseVars, timerVars, time, index, clean,
                 realTime, channel, theirBaseTimes, counters>>

PublishCompactDataPacket(p) ==
  /\ pc[p] = "publish"
  /\ channel' = Append(channel, [kind |-> "data", measurement |-> packet[p],
                                 timestamp |-> time[p], clean |-> clean[p]])
  /\ pc' = [pc EXCEPT ![p] = "idle"]
  /\ time' = [time EXCEPT ![p] = 0]
  /\ packet' = [packet EXCEPT ![p] = <<>>]
  /\ IF p \in Throttle THEN AfterCallback(p) ELSE UNCHANGED timer
  /\ UNCHANGED <<subscriptionVars, latest, baseVars, latestTimestamp, running,
                 interrupted, cancelled, index, clean, realTime, theirBaseTimes,
                 counters>>

-----------------------------------------------------------------------------
(* A timer's thread.                                                       *)

RunTimer(t) ==
  /\ timer[t] = "started"
  /\ running' = [running EXCEPT ![t] = TRUE]
  /\ timer' = [timer EXCEPT ![t] = "waiting"]
  /\ UNCHANGED <<subscriptionVars, latest, baseVars, latestTimestamp, interrupted,
                 cancelled, publisherVars, realTime, channel, theirBaseTimes, counters>>

(* Stop interrupts the wait.                                               *)
Interrupted(t) ==
  /\ timer[t] = "waiting" /\ interrupted[t]
  /\ running' = [running EXCEPT ![t] = FALSE]
  /\ timer' = [timer EXCEPT ![t] = "ended"]
  /\ UNCHANGED <<subscriptionVars, latest, baseVars, latestTimestamp, interrupted,
                 cancelled, publisherVars, realTime, channel, theirBaseTimes, counters>>

(* The callback of the throttling timer looks at m_subscribed no more than *)
(* what it calls.                                                          *)
PublishLatest(t) ==
  /\ timer[t] = "waiting" /\ running[t] /\ throttles < MaxThrottles
  /\ throttles' = throttles + 1
  /\ IF latest = 0
     THEN UNCHANGED <<timer, publisherVars>>
     ELSE timer' = [timer EXCEPT ![t] = "publishing"] /\ Capture(t, latest)
  /\ UNCHANGED <<subscriptionVars, latest, baseVars, latestTimestamp, running,
                 interrupted, cancelled, realTime, channel, theirBaseTimes, clock,
                 rotations>>

(* Packets under way when a base time or the index changes.                *)
Disturb == clean' = [p \in Publisher |-> clean[p] /\ pc[p] = "idle"]

OtherIndex == 3 - timeIndex

(* The callback of the rotation timer: both base times are set first, and  *)
(* later the active one gives way to the other and is set anew.            *)
Rotate(t) ==
  /\ timer[t] = "waiting" /\ running[t] /\ rotations < MaxRotations
  /\ rotations' = rotations + 1
  /\ IF latestTimestamp = 0
     THEN UNCHANGED <<timer, baseVars, realTime, clean>>
     ELSE /\ Disturb
          /\ realTime' = [realTime EXCEPT ![t] = latestTimestamp]
          /\ IF baseTimes[1] = 0
             THEN /\ baseTimes' = <<latestTimestamp, latestTimestamp + Interval>>
                  /\ timer' = [timer EXCEPT ![t] = "index"]
                  /\ UNCHANGED timeIndex
             ELSE /\ timeIndex' = OtherIndex
                  /\ timer' = [timer EXCEPT ![t] = "base"]
                  /\ UNCHANGED baseTimes
  /\ UNCHANGED <<subscriptionVars, latest, latestTimestamp, running, interrupted,
                 cancelled, pc, time, index, packet, channel, theirBaseTimes, clock,
                 throttles>>

SetTimeIndex_NotSent(t) ==
  /\ timer[t] = "index"
  /\ timeIndex' = 1
  /\ Disturb
  /\ AfterCallback(t)
  /\ UNCHANGED <<subscriptionVars, latest, baseTimes, latestTimestamp, running,
                 interrupted, cancelled, pc, time, index, packet, realTime, channel,
                 theirBaseTimes, counters>>

SetTimeIndex(t) ==
  /\ timer[t] = "index"
  /\ timeIndex' = 1
  /\ Disturb
  /\ timer' = [timer EXCEPT ![t] = "send"]
  /\ UNCHANGED <<subscriptionVars, latest, baseTimes, latestTimestamp, running,
                 interrupted, cancelled, pc, time, index, packet, realTime, channel,
                 theirBaseTimes, counters>>

(* The index was flipped: OtherIndex is the old one, unless another        *)
(* timer that Stop has missed flips it too.                                *)
SetBaseTime(t) ==
  /\ timer[t] = "base"
  /\ baseTimes' = [baseTimes EXCEPT ![OtherIndex] = realTime[t] + Interval]
  /\ Disturb
  /\ timer' = [timer EXCEPT ![t] = "send"]
  /\ UNCHANGED <<subscriptionVars, latest, timeIndex, latestTimestamp, running,
                 interrupted, cancelled, pc, time, index, packet, realTime, channel,
                 theirBaseTimes, counters>>

UpdateBaseTimes(t) ==
  /\ timer[t] = "send"
  /\ channel' = Append(channel, [kind |-> "times", baseTimes |-> baseTimes])
  /\ AfterCallback(t)
  /\ UNCHANGED <<subscriptionVars, latest, baseVars, latestTimestamp, running,
                 interrupted, cancelled, publisherVars, realTime, theirBaseTimes,
                 counters>>

-----------------------------------------------------------------------------
(* The thread that reads commands.                                         *)

(* Timer::Stop: a timer that is not running yet is left alone; a running   *)
(* one is interrupted and joined.                                          *)
StopTimer_NotJoined(t, next) ==
  \/ /\ ~running[t] /\ cancelled[t] = "no"
     /\ cancelled' = [cancelled EXCEPT ![t] = IF timer[t] = "started" THEN "missed" ELSE "yes"]
     /\ handler' = next
     /\ UNCHANGED <<running, interrupted>>
  \/ /\ running[t]
     /\ running' = [running EXCEPT ![t] = FALSE]
     /\ interrupted' = [interrupted EXCEPT ![t] = TRUE]
     /\ cancelled' = [cancelled EXCEPT ![t] = "yes"]
     /\ handler' = next

StopTimer(t, next) ==
  \/ /\ ~running[t] /\ cancelled[t] = "no"
     /\ cancelled' = [cancelled EXCEPT ![t] = IF timer[t] = "started" THEN "missed" ELSE "yes"]
     /\ handler' = next
     /\ UNCHANGED <<running, interrupted>>
  \/ /\ running[t]
     /\ running' = [running EXCEPT ![t] = FALSE]
     /\ interrupted' = [interrupted EXCEPT ![t] = TRUE]
     /\ cancelled' = [cancelled EXCEPT ![t] = "joining"]
     /\ UNCHANGED handler
  \/ /\ cancelled[t] = "joining" /\ timer[t] = "ended"
     /\ cancelled' = [cancelled EXCEPT ![t] = "yes"]
     /\ handler' = next
     /\ UNCHANGED <<running, interrupted>>

HandleSubscribe ==
  /\ handler = "idle" /\ subscription < MaxSubscribes
  /\ handler' = IF subscription = 0 THEN "start" ELSE "stopRotation"
  /\ UNCHANGED <<subscribed, throttled, subscription, latest, baseVars, latestTimestamp,
                 timerVars, publisherVars, realTime, channel, theirBaseTimes, counters>>

StopRotation ==
  /\ handler = "stopRotation"
  /\ StopTimer(<<"rotation", subscription>>, "stopThrottle")
  /\ UNCHANGED <<subscribed, throttled, subscription, latest, baseVars, latestTimestamp,
                 timer, publisherVars, realTime, channel, theirBaseTimes, counters>>

StopThrottle ==
  /\ handler = "stopThrottle"
  /\ IF timer[<<"throttle", subscription>>] = "none"
     THEN handler' = "start" /\ UNCHANGED <<running, interrupted, cancelled>>
     ELSE StopTimer(<<"throttle", subscription>>, "start")
  /\ UNCHANGED <<subscribed, throttled, subscription, latest, baseVars, latestTimestamp,
                 timer, publisherVars, realTime, channel, theirBaseTimes, counters>>

(* The latest measurements are dropped, the settings taken, the base times *)
(* cleared and the timers of the subscription started.                     *)
StartTimers ==
  /\ handler = "start"
  /\ latest' = 0
  /\ throttled' \in BOOLEAN
  /\ baseTimes' = <<0, 0>>
  /\ latestTimestamp' = 0
  /\ Disturb
  /\ subscription' = subscription + 1
  /\ timer' = [t \in Timer |->
       IF \/ t = <<"rotation", subscription'>>
          \/ t = <<"throttle", subscription'>> /\ throttled'
       THEN "started" ELSE timer[t]]
  /\ subscribed' = TRUE
  /\ handler' = "idle"
  /\ UNCHANGED <<timeIndex, running, interrupted, cancelled, pc, time, index, packet,
                 realTime, channel, theirBaseTimes, counters>>

HandleUnsubscribe ==
  /\ handler = "idle" /\ subscribed
  /\ subscribed' = FALSE
  /\ UNCHANGED <<throttled, handler, subscription, latest, baseVars, latestTimestamp,
                 timerVars, publisherVars, realTime, channel, theirBaseTimes, counters>>

-----------------------------------------------------------------------------
(* The subscriber reads what was sent in order.                            *)

HandleUpdateBaseTimes_Swapped ==
  theirBaseTimes' = <<Head(channel).baseTimes[2], Head(channel).baseTimes[1]>>
HandleUpdateBaseTimes == theirBaseTimes' = Head(channel).baseTimes

Receive ==
  /\ channel # <<>>
  /\ channel' = Tail(channel)
  /\ IF Head(channel).kind = "times"
     THEN HandleUpdateBaseTimes
     ELSE UNCHANGED theirBaseTimes
  /\ UNCHANGED <<subscriptionVars, latest, baseVars, latestTimestamp, timerVars,
                 publisherVars, realTime, counters>>

-----------------------------------------------------------------------------

PublisherStep(p) == Serialize(p) \/ PublishCompactDataPacket(p)
RotationStep(t) ==
  \/ RunTimer(t) \/ Interrupted(t) \/ Rotate(t)
  \/ SetTimeIndex(t) \/ SetBaseTime(t) \/ UpdateBaseTimes(t)
ThrottleStep(t) ==
  RunTimer(t) \/ Interrupted(t) \/ PublishLatest(t) \/ PublisherStep(t)
HandlerStep == StopRotation \/ StopThrottle \/ StartTimers

Next ==
  \/ \E p \in Program : PublishMeasurements(p) \/ PublisherStep(p)
  \/ \E t \in Rotation : RotationStep(t)
  \/ \E t \in Throttle : ThrottleStep(t)
  \/ HandleSubscribe \/ HandleUnsubscribe \/ HandlerStep
  \/ Receive

Spec == Init /\ [][Next]_vars

(* Threads run, timers elapse and what was sent is read; nothing makes the *)
(* program publish or the subscriber send a command.                       *)
Fairness ==
  /\ \A p \in Program : WF_vars(PublisherStep(p))
  /\ \A t \in Rotation : WF_vars(RotationStep(t))
  /\ \A t \in Throttle : WF_vars(ThrottleStep(t))
  /\ WF_vars(HandlerStep) /\ WF_vars(Receive)

FairSpec == Spec /\ Fairness

-----------------------------------------------------------------------------

(* Every variable keeps its type.                                          *)
TypeOK ==
  /\ {subscribed, throttled} \subseteq BOOLEAN
  /\ latest \in Time /\ latestTimestamp \in Time
  /\ baseTimes \in [1 .. 2 -> Time] /\ theirBaseTimes \in [1 .. 2 -> Time]
  /\ timeIndex \in 1 .. 2 /\ index \in [Publisher -> 1 .. 2]
  /\ handler \in {"idle", "stopRotation", "stopThrottle", "start"}
  /\ subscription \in 0 .. MaxSubscribes
  /\ timer \in [Timer -> {"none", "started", "waiting", "publishing",
                          "index", "base", "send", "ended"}]
  /\ running \in [Timer -> BOOLEAN] /\ interrupted \in [Timer -> BOOLEAN]
  /\ cancelled \in [Timer -> {"no", "missed", "joining", "yes"}]
  /\ pc \in [Publisher -> {"idle", "serialize", "publish"}]
  /\ time \in [Publisher -> Time] /\ realTime \in [Rotation -> Time]
  /\ clean \in [Publisher -> BOOLEAN]
  /\ \A i \in DOMAIN channel : channel[i].kind \in {"data", "times"}
  /\ clock \in 0 .. MaxPublications /\ rotations \in 0 .. MaxRotations
  /\ throttles \in 0 .. MaxThrottles

(* A measurement whose packet was made and sent while no base time changed *)
(* has, at the subscriber, the timestamp it was published with, whatever   *)
(* rotations and subscriptions went before.                                *)
UndisturbedTimestampsExact ==
  (channel # <<>> /\ Head(channel).kind = "data" /\ Head(channel).clean)
    => /\ ~ParseFails(Head(channel).measurement)
       /\ ParsedTimestamp(Head(channel).measurement) = Head(channel).timestamp

(* The timers of an earlier subscription are gone when a new subscription  *)
(* has started its own, unless Stop came before their threads ran.         *)
StoppedTimersEnd ==
  \A t \in Timer :
    (t[2] < subscription /\ cancelled[t] # "missed") => timer[t] \in {"none", "ended"}

(* The subscriber comes to know the active base time, unless the index     *)
(* changes or a new subscription clears it first.                          *)
ActiveBaseIsKnown ==
  \A i \in 1 .. 2 :
    (timeIndex = i /\ baseTimes[i] # 0)
      ~> (theirBaseTimes[i] = baseTimes[i] \/ timeIndex # i \/ baseTimes[i] = 0)

(* No publication begins after the subscription was cancelled              *)
(* (DataSubscriber.h:293, "Cancel the current subscription to stop         *)
(* receiving data").                                                       *)
UnsubscribedGetsNoData ==
  [][\A p \in Publisher : (pc[p] = "idle" /\ pc'[p] # "idle") => subscribed]_vars
=============================================================================
