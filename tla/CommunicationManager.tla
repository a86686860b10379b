------------------------ MODULE CommunicationManager ------------------------
(***************************************************************************)
(* The communication manager of TinyGSM_IoTHub: the task "link", which is  *)
(* monitorConnectivity(), brings the modem up step by step and keeps four  *)
(* flags; the task "mqtt", which is monitorMQTT(), keeps the broker        *)
(* connection while isConnected(); "app", which is setup(), starts both in *)
(* begin().  s_monitorMutex guards the flags and is held during the modem  *)
(* calls of "link", but the MQTT client reaches the modem without it.      *)
(***************************************************************************)
EXTENDS Integers

CONSTANTS
  ClockSize,      \* millis() wraps at it: 2^32 in the code
  Interval        \* 10000 in the code: time between two MQTT attempts

ASSUME ClockAssumption ==
  ClockSize \in Nat \ {0} /\ Interval \in 0..(ClockSize - 2)

VARIABLES
  modemStarted,      \* s_connectionProperties.IsModemStarted
  networkConnected,  \* .IsNetworkConnected
  gprsConnected,     \* .IsGPRSConnected
  anyConnected,      \* .IsAnyConnected
  mutex,             \* the holder of s_monitorMutex, or "free"
  lastAttempt,       \* s_lastReconnectAttempt
  now,               \* millis()
  pc,                \* where each task is
  (* The world: what the modem is attached to, the broker's connection.    *)
  link,
  mqttUp,
  (* History: the time since an attempt that failed was begun, as far as   *)
  (* it matters.                                                           *)
  sinceFailure

flags == <<modemStarted, networkConnected, gprsConnected, anyConnected>>
world == <<link, mqttUp>>
time  == <<now, sinceFailure>>
vars  == <<flags, mutex, lastAttempt, pc, world, time>>

Tasks == {"app", "link", "mqtt"}
LinkPoints ==
  {"absent", "top", "restart", "network", "query", "decide", "connect",
   "setUp", "setDown", "info", "sleep"}
MqttPoints == {"absent", "ask", "check", "connect", "subscribe", "loop", "sleep"}
AppPoints  == {"begin", "settings", "done"}

(* The points at which a task exchanges AT commands with the modem.        *)
LinkInModem == pc["link"] \in {"restart", "network", "query", "connect", "info"}
MqttInModem == pc["mqtt"] \in {"check", "connect", "subscribe", "loop"}

(* With both in the modem, one may take an answer meant for the other, and *)
(* what a command has done is anybody's guess.                             *)
Answer(truth) == IF MqttInModem THEN BOOLEAN ELSE {truth}

Effect(done, before) == IF MqttInModem THEN {done, before} ELSE {done}

Goto(t, p) == pc' = [pc EXCEPT ![t] = p]

Init ==
  /\ modemStarted = FALSE /\ networkConnected = FALSE
  /\ gprsConnected = FALSE /\ anyConnected = FALSE
  /\ mutex = "free"
  /\ lastAttempt = 0
  /\ now = 0
  /\ pc = [t \in Tasks |-> IF t = "app" THEN "begin" ELSE "absent"]
  /\ link = "down"
  /\ mqttUp = FALSE
  /\ sinceFailure = Interval + 1

-----------------------------------------------------------------------------
(* begin() starts the connectivity task before it sets MQTT up.            *)
BeginMonitor ==
  /\ pc["app"] = "begin"
  /\ pc' = [pc EXCEPT !["app"] = "settings", !["link"] = "top"]
  /\ UNCHANGED <<flags, mutex, lastAttempt, world, time>>

BeginMqtt ==
  /\ pc["app"] = "settings"
  /\ pc' = [pc EXCEPT !["app"] = "done", !["mqtt"] = "ask"]
  /\ UNCHANGED <<flags, mutex, lastAttempt, world, time>>

-----------------------------------------------------------------------------
(* monitorConnectivity().  A modem call is made with the mutex: Call takes *)
(* it, the action that ends the call assigns the flags and gives it back.  *)
Call(from, to) ==
  /\ pc["link"] = from
  /\ mutex = "free"
  /\ mutex' = "link"
  /\ Goto("link", to)
  /\ UNCHANGED <<flags, lastAttempt, world, time>>

RestartCall == ~modemStarted /\ Call("top", "restart")

RestartEnd ==
  /\ pc["link"] = "restart"
  /\ modemStarted' \in BOOLEAN
  /\ link' \in IF modemStarted' THEN {"down"} ELSE {link, "down"}
  /\ mutex' = "free"
  /\ Goto("link", "sleep")
  /\ UNCHANGED <<networkConnected, gprsConnected, anyConnected, lastAttempt,
                 mqttUp, time>>

NetworkCall == modemStarted /\ ~networkConnected /\ Call("top", "network")

(* waitForNetwork() returns what it found within 60 s.                     *)
NetworkEnd ==
  /\ pc["link"] = "network"
  /\ networkConnected' \in BOOLEAN
  /\ link' \in IF networkConnected' /\ link = "down" THEN Effect("net", link)
                                                    ELSE {link}
  /\ mutex' = "free"
  /\ Goto("link", "sleep")
  /\ UNCHANGED <<modemStarted, gprsConnected, anyConnected, lastAttempt,
                 mqttUp, time>>

QueryCall == modemStarted /\ networkConnected /\ Call("top", "query")

(* The flag that isConnected() reports is left to the branches below.      *)
FaultyQueryEnd ==
  /\ pc["link"] = "query"
  /\ gprsConnected' \in Answer(link = "gprs")
  /\ mutex' = "free"
  /\ Goto("link", "decide")
  /\ UNCHANGED <<modemStarted, networkConnected, anyConnected, lastAttempt,
                 world, time>>

QueryEnd ==
  /\ pc["link"] = "query"
  /\ gprsConnected' \in Answer(link = "gprs")
  /\ anyConnected' = gprsConnected'
  /\ mutex' = "free"
  /\ Goto("link", "decide")
  /\ UNCHANGED <<modemStarted, networkConnected, lastAttempt, world, time>>

ConnectCall == ~gprsConnected /\ Call("decide", "connect")

(* gprsConnect() drops a session before it opens one.                      *)
ConnectEnd ==
  /\ pc["link"] = "connect"
  /\ gprsConnected' \in IF MqttInModem \/ link # "down" THEN BOOLEAN ELSE {FALSE}
  /\ link' \in IF link = "down" THEN {link}
               ELSE Effect(IF gprsConnected' THEN "gprs" ELSE "net", link)
  /\ mutex' = "free"
  /\ Goto("link", IF gprsConnected' THEN "setUp" ELSE "setDown")
  /\ UNCHANGED <<modemStarted, networkConnected, anyConnected, lastAttempt,
                 mqttUp, time>>

(* The network flag is left set, so that only the modem is restarted.      *)
FaultySetDown ==
  /\ pc["link"] = "setDown"
  /\ mutex = "free"
  /\ anyConnected' = FALSE /\ gprsConnected' = FALSE /\ modemStarted' = FALSE
  /\ Goto("link", "sleep")
  /\ UNCHANGED <<networkConnected, mutex, lastAttempt, world, time>>

(* A failed attempt starts again from the modem.                           *)
SetDown ==
  /\ pc["link"] = "setDown"
  /\ mutex = "free"
  /\ anyConnected' = FALSE /\ gprsConnected' = FALSE
  /\ networkConnected' = FALSE /\ modemStarted' = FALSE
  /\ Goto("link", "sleep")
  /\ UNCHANGED <<mutex, lastAttempt, world, time>>

SetUp ==
  /\ pc["link"] = "setUp"
  /\ mutex = "free"
  /\ anyConnected' = TRUE /\ gprsConnected' = TRUE
  /\ networkConnected' = TRUE /\ modemStarted' = TRUE
  /\ Goto("link", "sleep")
  /\ UNCHANGED <<mutex, lastAttempt, world, time>>

(* Operator, address and signal are asked for, and only logged.            *)
InfoCall == gprsConnected /\ Call("decide", "info")

(* The mutex is not given back.                                            *)
FaultyInfoEnd ==
  /\ pc["link"] = "info"
  /\ Goto("link", "sleep")
  /\ UNCHANGED <<flags, mutex, lastAttempt, world, time>>

InfoEnd ==
  /\ pc["link"] = "info"
  /\ mutex' = "free"
  /\ Goto("link", "sleep")
  /\ UNCHANGED <<flags, lastAttempt, world, time>>

LinkSleep ==
  /\ pc["link"] = "sleep"
  /\ Goto("link", "top")
  /\ UNCHANGED <<flags, mutex, lastAttempt, world, time>>

-----------------------------------------------------------------------------
(* monitorMQTT(): nothing but a delay while there is no connectivity.      *)
(* isConnected() takes the mutex, reads one flag and gives the mutex back. *)
MqttAsk ==
  /\ pc["mqtt"] = "ask"
  /\ mutex = "free"
  /\ Goto("mqtt", IF anyConnected THEN "check" ELSE "sleep")
  /\ UNCHANGED <<flags, mutex, lastAttempt, world, time>>

(* The times are compared as if millis() never wrapped.                    *)
FaultyElapsed == IF now < lastAttempt THEN 0 ELSE now - lastAttempt

Elapsed == (now - lastAttempt) % ClockSize

Begun == sinceFailure' = 0

(* The time of the attempt is noted only when it has succeeded.            *)
FaultyMqttCheck ==
  /\ pc["mqtt"] = "check"
  /\ IF ~mqttUp /\ Elapsed > Interval
       THEN Goto("mqtt", "connect") /\ Begun
       ELSE Goto("mqtt", "loop") /\ UNCHANGED sinceFailure
  /\ UNCHANGED <<flags, mutex, lastAttempt, world, now>>

(* A lost broker is dialled again, if the last attempt is long enough ago. *)
(* _mqtt.connected() polls the modem, and so is a point of MqttInModem, but*)
(* returns the socket's own flag, which is taken to be true of the broker. *)
MqttCheck ==
  /\ pc["mqtt"] = "check"
  /\ IF ~mqttUp /\ Elapsed > Interval
       THEN lastAttempt' = now /\ Goto("mqtt", "connect") /\ Begun
       ELSE Goto("mqtt", "loop") /\ UNCHANGED <<lastAttempt, sinceFailure>>
  /\ UNCHANGED <<flags, mutex, world, now>>

(* mqttConnect(): _mqtt.connect(), then publish, subscribe and a last look *)
(* at the connection.                                                      *)
MqttConnect ==
  /\ pc["mqtt"] = "connect"
  /\ mqttUp' \in IF LinkInModem \/ link = "gprs" THEN BOOLEAN ELSE {FALSE}
  /\ Goto("mqtt", IF mqttUp' THEN "subscribe" ELSE "loop")
  /\ UNCHANGED <<flags, mutex, lastAttempt, link, time>>

(* An attempt that succeeded clears the time of the attempt.               *)
MqttSubscribe ==
  /\ pc["mqtt"] = "subscribe"
  /\ IF mqttUp THEN lastAttempt' = 0 /\ sinceFailure' = Interval + 1
               ELSE UNCHANGED <<lastAttempt, sinceFailure>>
  /\ Goto("mqtt", "loop")
  /\ UNCHANGED <<flags, mutex, world, now>>

MqttLoop ==
  /\ pc["mqtt"] = "loop"
  /\ Goto("mqtt", "sleep")
  /\ UNCHANGED <<flags, mutex, lastAttempt, world, time>>

MqttSleep ==
  /\ pc["mqtt"] = "sleep"
  /\ Goto("mqtt", "ask")
  /\ UNCHANGED <<flags, mutex, lastAttempt, world, time>>

-----------------------------------------------------------------------------
(* Only the MQTT task looks at the clock: what its delays, its loop and    *)
(* its waits for the mutex take is counted when it can next take the mutex.*)
Tick ==
  /\ \/ pc["mqtt"] \in {"absent", "connect", "subscribe"}
     \/ pc["mqtt"] = "ask" /\ mutex = "free"
  /\ now' = (now + 1) % ClockSize
  /\ sinceFailure' = IF sinceFailure <= Interval THEN sinceFailure + 1
                                                 ELSE sinceFailure
  /\ UNCHANGED <<flags, mutex, lastAttempt, pc, world>>

LinkDrops ==
  /\ link # "down"
  /\ link' \in {"down", "net"} \ {link}
  /\ UNCHANGED <<flags, mutex, lastAttempt, pc, mqttUp, time>>

BrokerDrops ==
  /\ mqttUp
  /\ mqttUp' = FALSE
  /\ UNCHANGED <<flags, mutex, lastAttempt, pc, link, time>>

-----------------------------------------------------------------------------
AppStep == BeginMonitor \/ BeginMqtt

LinkStep ==
  \/ RestartCall \/ RestartEnd \/ NetworkCall \/ NetworkEnd
  \/ QueryCall \/ QueryEnd \/ ConnectCall \/ ConnectEnd
  \/ SetDown \/ SetUp \/ InfoCall \/ InfoEnd \/ LinkSleep

MqttStep ==
  MqttAsk \/ MqttCheck \/ MqttConnect \/ MqttSubscribe \/ MqttLoop \/ MqttSleep

Next ==
  \/ AppStep \/ LinkStep \/ MqttStep
  \/ Tick \/ LinkDrops \/ BrokerDrops

Spec == Init /\ [][Next]_vars

(***************************************************************************)
(* Every task runs and the clock with it.  Whoever waits for the mutex     *)
(* gets it in the end: the connectivity task leaves it free for a second   *)
(* or more in every round; the MQTT task is not late whenever the interval *)
(* has passed.  What is asked again and again is given in the end: the     *)
(* modem restarts, finds a network, opens a session, tells the truth about *)
(* one that failed or was lost, and the broker accepts a connection.       *)
(***************************************************************************)
NetworkFound  == NetworkEnd /\ networkConnected' /\ link' # "down"
SessionOpened == ConnectEnd /\ gprsConnected' /\ link' = "gprs"
SessionFailed == ConnectEnd /\ ~gprsConnected' /\ link' # "gprs"

Fairness ==
  /\ WF_vars(AppStep) /\ WF_vars(MqttStep) /\ SF_vars(Tick)
  /\ SF_vars(LinkStep) /\ SF_vars(MqttAsk)
  /\ SF_vars(MqttAsk /\ Elapsed > Interval)
  /\ SF_vars(RestartEnd /\ modemStarted') /\ SF_vars(NetworkFound)
  /\ SF_vars(SessionOpened) /\ SF_vars(SessionOpened \/ SessionFailed)
  /\ SF_vars(QueryEnd /\ ~gprsConnected')
  /\ SF_vars(MqttConnect /\ mqttUp')

FairSpec == Spec /\ Fairness

-----------------------------------------------------------------------------
(* Every variable keeps its type, and the mutex is held during the modem   *)
(* calls of the connectivity task and at no other time.                    *)
TypeOK ==
  /\ {modemStarted, networkConnected, gprsConnected, anyConnected} \subseteq BOOLEAN
  /\ mutex = IF LinkInModem THEN "link" ELSE "free"
  /\ {lastAttempt, now} \subseteq 0..(ClockSize - 1)
  /\ pc \in [Tasks -> AppPoints \cup LinkPoints \cup MqttPoints]
  /\ pc["app"] \in AppPoints /\ pc["link"] \in LinkPoints
  /\ pc["mqtt"] \in MqttPoints
  /\ link \in {"down", "net", "gprs"}
  /\ mqttUp \in BOOLEAN
  /\ sinceFailure \in 0..(Interval + 1)

(* What isConnected() may see of the flags is consistent: connected means  *)
(* that GPRS is, GPRS that the network is, the network that the modem runs.*)
FlagsNested ==
  /\ anyConnected => gprsConnected
  /\ gprsConnected => networkConnected
  /\ networkConnected => modemStarted

(* "Reconnect every 10 seconds": after an attempt that failed the broker   *)
(* is left alone for that long, also when millis() wraps in between.       *)
AttemptsSpaced ==
  [][pc["mqtt"] = "check" /\ pc'["mqtt"] = "connect"
       => sinceFailure > Interval]_vars

(* The rung of the ladder that the flags stand for.                        *)
Rung ==
  IF ~modemStarted THEN "off"
  ELSE IF ~networkConnected THEN "modem"
  ELSE IF ~anyConnected THEN "network"
  ELSE "online"

Ladder == INSTANCE ConnectivityLadder WITH rung <- Rung

(* The four flags climb and descend the ladder of ConnectivityLadder.      *)
ClimbsLadder == Ladder!Spec

NetworkStays == <>[][~LinkDrops]_vars

(* "Verifica a conectividade com a rede continuamente": once the network   *)
(* stays, connectivity comes back from wherever it was lost, although the  *)
(* MQTT client mixes up answers of the modem.                              *)
LinkRecovers == NetworkStays => []<>(anyConnected /\ link = "gprs")

(* While there is connectivity a lost broker is dialled until it is back,  *)
(* whatever the clock shows when it is lost.                               *)
MqttReconnects == <>[](anyConnected /\ link = "gprs") => []<>mqttUp
=============================================================================
