---------------------- MODULE CommunicationManagerProofs ----------------------
(* Proofs about CommunicationManager, for every clock width and interval.  *)
EXTENDS CommunicationManager, TLAPS

-----------------------------------------------------------------------------
(* A difference of two clock readings, modulo the clock's size.            *)
LEMMA Difference ==
  ASSUME NEW a \in 0..(ClockSize - 1), NEW b \in 0..(ClockSize - 1)
  PROVE  (a - b) % ClockSize = IF a >= b THEN a - b ELSE a - b + ClockSize
<1>1. ClockSize \in Nat \ {0}
  BY ClockAssumption
<1>2. CASE a >= b
  BY <1>1, <1>2
<1>3. CASE a < b
  BY <1>1, <1>3
<1>. QED
  BY <1>1, <1>2, <1>3

(* The next clock reading.                                                 *)
LEMMA Successor ==
  ASSUME NEW a \in 0..(ClockSize - 1)
  PROVE  (a + 1) % ClockSize = IF a = ClockSize - 1 THEN 0 ELSE a + 1
<1>1. ClockSize \in Nat \ {0}
  BY ClockAssumption
<1>2. CASE a = ClockSize - 1
  BY <1>1, <1>2
<1>3. CASE a # ClockSize - 1
  BY <1>1, <1>3
<1>. QED
  BY <1>1, <1>2, <1>3

-----------------------------------------------------------------------------
(* Where the connectivity task is tells what its flags were when it came   *)
(* there, because no other task writes them.                               *)
Phases ==
  /\ pc["link"] = "restart" => ~modemStarted
  /\ pc["link"] = "network" => modemStarted /\ ~networkConnected
  /\ pc["link"] \in {"query", "decide", "connect", "setUp", "setDown", "info"}
       => networkConnected
  /\ pc["link"] \in {"connect", "setUp", "setDown"} => ~anyConnected
  /\ pc["link"] = "setUp" => gprsConnected
  /\ pc["app"] = "begin" => pc["link"] = "absent"

LinkInv == TypeOK /\ FlagsNested /\ Phases

(* As long as an attempt that failed is recent, the clock and the time     *)
(* noted for it are as far apart as they really are.                       *)
FailureTimed == sinceFailure <= Interval => Elapsed = sinceFailure

LEMMA ClockValues ==
  /\ ClockSize \in Nat \ {0} /\ Interval \in Nat /\ Interval + 2 <= ClockSize
  /\ 0 \in 0..(ClockSize - 1)
  /\ Interval + 1 \in 0..(Interval + 1)
  BY ClockAssumption

LEMMA InitLinkInv ==
  ASSUME Init
  PROVE  LinkInv
  BY ClockValues
     DEF Init, LinkInv, TypeOK, FlagsNested, Phases, Tasks, AppPoints,
         LinkPoints, MqttPoints, LinkInModem

(* One step of the connectivity task.                                      *)
LEMMA LinkStepKeeps ==
  ASSUME LinkInv, LinkStep
  PROVE  LinkInv'
<1> USE DEF LinkInv, TypeOK, FlagsNested, Phases, Tasks, AppPoints, LinkPoints,
            MqttPoints, LinkInModem, Goto, flags, world, time
<1>1. CASE RestartCall
  BY <1>1 DEF RestartCall, Call
<1>2. CASE RestartEnd
  BY <1>2 DEF RestartEnd
<1>3. CASE NetworkCall
  BY <1>3 DEF NetworkCall, Call
<1>4. CASE NetworkEnd
  BY <1>4 DEF NetworkEnd, Effect
<1>5. CASE QueryCall
  BY <1>5 DEF QueryCall, Call
<1>6. CASE QueryEnd
  BY <1>6 DEF QueryEnd, Answer
<1>7. CASE ConnectCall
  BY <1>7 DEF ConnectCall, Call
<1>8. CASE ConnectEnd
  BY <1>8 DEF ConnectEnd, Effect
<1>9. CASE SetDown
  BY <1>9 DEF SetDown
<1>10. CASE SetUp
  BY <1>10 DEF SetUp
<1>11. CASE InfoCall
  BY <1>11 DEF InfoCall, Call
<1>12. CASE InfoEnd
  BY <1>12 DEF InfoEnd
<1>13. CASE LinkSleep
  BY <1>13 DEF LinkSleep
<1>. QED
  BY <1>1, <1>2, <1>3, <1>4, <1>5, <1>6, <1>7, <1>8, <1>9, <1>10, <1>11,
     <1>12, <1>13 DEF LinkStep

(* The steps of everyone else leave the flags alone.                       *)
LEMMA OtherStepsKeep ==
  ASSUME LinkInv,
         AppStep \/ MqttStep \/ Tick \/ LinkDrops \/ BrokerDrops \/ UNCHANGED vars
  PROVE  LinkInv' /\ UNCHANGED flags
<1> USE DEF LinkInv, TypeOK, FlagsNested, Phases, Tasks, AppPoints, LinkPoints,
            MqttPoints, LinkInModem, Goto, flags, world, time
<1>1. CASE AppStep
  <2>1. CASE BeginMonitor
    <3>1. pc'["app"] = "settings" /\ pc'["link"] = "top" /\ pc'["mqtt"] = pc["mqtt"]
      BY <2>1 DEF BeginMonitor
    <3>2. pc' \in [Tasks -> AppPoints \cup LinkPoints \cup MqttPoints]
      BY <2>1 DEF BeginMonitor
    <3>3. UNCHANGED <<flags, mutex, lastAttempt, world, time>> /\ ~LinkInModem
      BY <2>1 DEF BeginMonitor
    <3>. QED
      BY <3>1, <3>2, <3>3
  <2>2. CASE BeginMqtt
    BY <2>2 DEF BeginMqtt
  <2>. QED
    BY <1>1, <2>1, <2>2 DEF AppStep
<1>2. CASE MqttAsk
  BY <1>2 DEF MqttAsk
<1>3. CASE MqttCheck
  BY <1>3, ClockValues DEF MqttCheck, Begun
<1>4. CASE MqttConnect
  BY <1>4 DEF MqttConnect
<1>5. CASE MqttSubscribe
  BY <1>5, ClockValues DEF MqttSubscribe
<1>6. CASE MqttLoop \/ MqttSleep
  BY <1>6 DEF MqttLoop, MqttSleep
<1>7. CASE Tick
  <2>1. now' \in 0..(ClockSize - 1)
    BY <1>7, Successor, ClockValues DEF Tick
  <2>2. sinceFailure' \in 0..(Interval + 1)
    BY <1>7, ClockValues DEF Tick
  <2>. QED
    BY <1>7, <2>1, <2>2 DEF Tick
<1>8. CASE LinkDrops
  BY <1>8 DEF LinkDrops
<1>9. CASE BrokerDrops
  <2>1. mqttUp' \in BOOLEAN
    BY <1>9 DEF BrokerDrops
  <2>2. UNCHANGED <<flags, mutex, lastAttempt, pc, link, time>>
    BY <1>9 DEF BrokerDrops
  <2>. QED
    BY <2>1, <2>2
<1>10. CASE UNCHANGED vars
  BY <1>10 DEF vars
<1>. QED
  BY <1>1, <1>2, <1>3, <1>4, <1>5, <1>6, <1>7, <1>8, <1>9, <1>10 DEF MqttStep

LEMMA LinkInvAlways == Spec => []LinkInv
<1>1. LinkInv /\ [Next]_vars => LinkInv'
  BY LinkStepKeeps, OtherStepsKeep DEF Next
<1>. QED
  BY InitLinkInv, <1>1, PTL DEF Spec

-----------------------------------------------------------------------------
(* Every variable keeps its type, and s_monitorMutex is held exactly during*)
(* the modem calls of monitorConnectivity().                               *)
THEOREM TypeCorrect == Spec => []TypeOK
<1>1. LinkInv => TypeOK
  BY DEF LinkInv
<1>. QED
  BY LinkInvAlways, <1>1, PTL

(* isConnected() never sees flags that contradict each other.              *)
THEOREM FlagsAgree == Spec => []FlagsNested
<1>1. LinkInv => FlagsNested
  BY DEF LinkInv
<1>. QED
  BY LinkInvAlways, <1>1, PTL

-----------------------------------------------------------------------------
LEMMA InitRung ==
  ASSUME Init
  PROVE  Ladder!Init
  BY DEF Init, Ladder!Init, Rung

(* The rungs next to each other.                                           *)
LEMMA Climbs ==
  \/ Rung = "off" /\ Rung' = "modem"
  \/ Rung = "modem" /\ Rung' = "network"
  \/ Rung = "network" /\ Rung' = "online"
  => Ladder!Next
<1>1. /\ Ladder!Rungs[1] = "off" /\ Ladder!Rungs[2] = "modem"
      /\ Ladder!Rungs[3] = "network" /\ Ladder!Rungs[4] = "online"
  BY DEF Ladder!Rungs
<1>2. 1 \in 1..3 /\ 2 \in 1..3 /\ 3 \in 1..3 /\ 1 + 1 = 2 /\ 2 + 1 = 3 /\ 3 + 1 = 4
  OBVIOUS
<1>. QED
  BY <1>1, <1>2 DEF Ladder!Next, Ladder!Climb

LEMMA LinkStepClimbs ==
  ASSUME LinkInv, LinkStep
  PROVE  Ladder!Next \/ UNCHANGED Rung
<1> USE DEF LinkInv, TypeOK, FlagsNested, Phases
<1>1. CASE RestartEnd
  <2>1. Rung = "off" /\ Rung' \in {"off", "modem"}
    BY <1>1 DEF RestartEnd, Rung
  <2>. QED
    BY <2>1, Climbs
<1>2. CASE NetworkEnd
  <2>1. Rung = "modem" /\ Rung' \in {"modem", "network"}
    BY <1>2 DEF NetworkEnd, Rung
  <2>. QED
    BY <2>1, Climbs
<1>3. CASE QueryEnd
  <2>1. Rung \in {"network", "online"} /\ Rung' \in {"network", "online"}
    BY <1>3 DEF QueryEnd, Rung
  <2>. QED
    BY <2>1, Climbs DEF Ladder!Next, Ladder!Lose
<1>4. CASE ConnectEnd
  BY <1>4 DEF ConnectEnd, Rung
<1>5. CASE SetDown
  <2>1. Rung = "network" /\ Rung' = "off"
    BY <1>5 DEF SetDown, Rung
  <2>. QED
    BY <2>1 DEF Ladder!Next, Ladder!GiveUp
<1>6. CASE SetUp
  <2>1. Rung = "network" /\ Rung' = "online"
    BY <1>6 DEF SetUp, Rung
  <2>. QED
    BY <2>1, Climbs
<1>7. CASE RestartCall \/ NetworkCall \/ QueryCall \/ ConnectCall \/ InfoCall
           \/ InfoEnd \/ LinkSleep
  BY <1>7 DEF RestartCall, NetworkCall, QueryCall, ConnectCall, InfoCall, Call,
              InfoEnd, LinkSleep, flags, Rung
<1>. QED
  BY <1>1, <1>2, <1>3, <1>4, <1>5, <1>6, <1>7 DEF LinkStep

(* monitorConnectivity() implements the ladder: connectivity is gained one *)
(* rung at a time and lost only the two ways the ladder allows.            *)
THEOREM ImplementsLadder == Spec => ClimbsLadder
<1>1. LinkInv /\ [Next]_vars => [Ladder!Next]_Rung
  <2> SUFFICES ASSUME LinkInv, [Next]_vars
               PROVE  Ladder!Next \/ UNCHANGED Rung
    OBVIOUS
  <2>1. CASE LinkStep
    BY <2>1, LinkStepClimbs
  <2>2. CASE ~LinkStep
    BY <2>2, OtherStepsKeep DEF Next, flags, Rung
  <2>. QED
    BY <2>1, <2>2
<1>. QED
  BY InitRung, LinkInvAlways, <1>1, PTL DEF Spec, ClimbsLadder, Ladder!Spec

-----------------------------------------------------------------------------
LEMMA FailureTimedStep ==
  ASSUME LinkInv, FailureTimed, [Next]_vars
  PROVE  FailureTimed'
<1> USE DEF FailureTimed, Elapsed
<1>. now \in 0..(ClockSize - 1) /\ lastAttempt \in 0..(ClockSize - 1)
     /\ sinceFailure \in 0..(Interval + 1)
  BY DEF LinkInv, TypeOK
<1>1. CASE Tick
  <2> SUFFICES ASSUME sinceFailure' <= Interval
               PROVE  Elapsed' = sinceFailure'
    OBVIOUS
  <2>1. /\ sinceFailure <= Interval /\ sinceFailure' = sinceFailure + 1
        /\ now' = (now + 1) % ClockSize /\ lastAttempt' = lastAttempt
    BY <1>1, ClockValues DEF Tick
  <2>2. now' = IF now = ClockSize - 1 THEN 0 ELSE now + 1
    BY <2>1, Successor
  <2>3. now' \in 0..(ClockSize - 1)
    BY <2>2, ClockValues
  <2>4. sinceFailure = IF now >= lastAttempt THEN now - lastAttempt
                                             ELSE now - lastAttempt + ClockSize
    BY <2>1, Difference
  <2>5. Elapsed' = IF now' >= lastAttempt THEN now' - lastAttempt
                                          ELSE now' - lastAttempt + ClockSize
    BY <2>1, <2>3, Difference
  <2>. QED
    BY <2>1, <2>2, <2>4, <2>5, ClockValues
<1>2. CASE MqttCheck
  <2>1. CASE Begun /\ lastAttempt' = now /\ now' = now
    <3>1. (now - now) % ClockSize = 0
      BY Difference
    <3>. QED
      BY <2>1, <3>1 DEF Begun
  <2>2. CASE UNCHANGED <<lastAttempt, sinceFailure, now>>
    BY <2>2
  <2>. QED
    BY <1>2, <2>1, <2>2 DEF MqttCheck
<1>3. CASE MqttSubscribe
  BY <1>3, ClockValues DEF MqttSubscribe
<1>4. CASE UNCHANGED <<now, lastAttempt, sinceFailure>>
  BY <1>4
<1>5. CASE AppStep
  BY <1>4, <1>5 DEF AppStep, BeginMonitor, BeginMqtt, time
<1>6. CASE LinkStep
  BY <1>4, <1>6 DEF LinkStep, RestartCall, NetworkCall, QueryCall, ConnectCall,
     InfoCall, Call, RestartEnd, NetworkEnd, QueryEnd, ConnectEnd, SetDown,
     SetUp, InfoEnd, LinkSleep, time
<1>7. CASE MqttAsk \/ MqttConnect \/ MqttLoop \/ MqttSleep
  BY <1>4, <1>7 DEF MqttAsk, MqttConnect, MqttLoop, MqttSleep, time
<1>8. CASE LinkDrops \/ BrokerDrops \/ UNCHANGED vars
  BY <1>4, <1>8 DEF LinkDrops, BrokerDrops, vars, time
<1>. QED
  BY <1>1, <1>2, <1>3, <1>5, <1>6, <1>7, <1>8 DEF Next, MqttStep

(* Only the check that finds the interval passed begins an attempt.        *)
LEMMA AttemptBegins ==
  ASSUME LinkInv, [Next]_vars, pc["mqtt"] = "check", pc'["mqtt"] = "connect"
  PROVE  Elapsed > Interval
<1> USE DEF LinkInv, TypeOK, Tasks, Goto
<1>1. CASE MqttCheck
  BY <1>1 DEF MqttCheck
<1>2. CASE AppStep
  BY <1>2 DEF AppStep, BeginMonitor, BeginMqtt
<1>3. CASE LinkStep
  BY <1>3 DEF LinkStep, RestartCall, NetworkCall, QueryCall, ConnectCall,
     InfoCall, Call, RestartEnd, NetworkEnd, QueryEnd, ConnectEnd, SetDown,
     SetUp, InfoEnd, LinkSleep
<1>4. CASE MqttAsk \/ MqttConnect \/ MqttSubscribe \/ MqttLoop \/ MqttSleep
  BY <1>4 DEF MqttAsk, MqttConnect, MqttSubscribe, MqttLoop, MqttSleep
<1>5. CASE Tick \/ LinkDrops \/ BrokerDrops \/ UNCHANGED vars
  BY <1>5 DEF Tick, LinkDrops, BrokerDrops, vars
<1>. QED
  BY <1>1, <1>2, <1>3, <1>4, <1>5 DEF Next, MqttStep

(* A broker that refused is left alone for the interval, for every width   *)
(* of the clock that is wider than the interval by two.                    *)
THEOREM AttemptsKeepTheirDistance == Spec => AttemptsSpaced
<1>1. Init => FailureTimed
  BY ClockValues DEF Init, FailureTimed
<1>2. LinkInv /\ FailureTimed /\ [Next]_vars => FailureTimed'
  BY FailureTimedStep
<1>3. LinkInv /\ FailureTimed /\ [Next]_vars
        => [pc["mqtt"] = "check" /\ pc'["mqtt"] = "connect"
              => sinceFailure > Interval]_vars
  <2> SUFFICES ASSUME LinkInv, FailureTimed, [Next]_vars,
                      pc["mqtt"] = "check", pc'["mqtt"] = "connect"
               PROVE  sinceFailure > Interval
    OBVIOUS
  <2>1. Elapsed > Interval
    BY AttemptBegins
  <2>2. sinceFailure \in 0..(Interval + 1)
    BY DEF LinkInv, TypeOK
  <2>. QED
    BY <2>1, <2>2, ClockValues DEF FailureTimed
<1>. QED
  BY LinkInvAlways, <1>1, <1>2, <1>3, PTL DEF Spec, AttemptsSpaced
=============================================================================
