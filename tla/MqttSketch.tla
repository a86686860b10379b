----------------------------- MODULE MqttSketch -----------------------------
(***************************************************************************)
(* The sketch that toggles a led on MQTT messages over GSM: setup() waits  *)
(* for the network and the GPRS session, loop() keeps the session with the *)
(* broker, on one task.  Time is counted in passes of loop(), 100 ms each. *)
(***************************************************************************)
EXTENDS Naturals

CONSTANT Period   \* ticks that have to be exceeded between attempts, 10 s

ASSUME MqttAssumption == Period \in Nat \ {0}

VARIABLES
  mqttPc,     \* the place in setup() and loop()
  gprs,       \* the modem has a GPRS session
  session,    \* with the broker: "up", "dead" (lost, not noticed yet), "none"
  subscribed, \* the broker's view of this session: "yes", "no", or "unsent"
              \* if SUBSCRIBE could not be sent while the session stayed up
  since,      \* ticks since lastReconnectAttempt; more than Period if that is 0
  led,        \* ledStatus
  gap,        \* history: ticks since the last attempt began
  failing     \* history: the last attempt failed

mqttVars == <<mqttPc, gprs, session, subscribed, since, led, gap, failing>>

Later(n) == IF n > Period THEN n ELSE n + 1
Elapsed  == since' = Later(since) /\ gap' = Later(gap)

MqttInit ==
  /\ mqttPc = "network"
  /\ gprs = FALSE /\ session = "none" /\ subscribed = "no"
  /\ since = 0 /\ led = FALSE /\ gap = 0 /\ failing = FALSE

WaitForNetwork ==
  /\ mqttPc = "network"
  /\ mqttPc' \in {"gprs", "halted"}
  /\ Elapsed
  /\ UNCHANGED <<gprs, session, subscribed, led, failing>>

GprsConnect ==
  /\ mqttPc = "gprs"
  /\ \/ mqttPc' = "loop" /\ gprs' = TRUE
     \/ UNCHANGED <<mqttPc, gprs>>
  /\ Elapsed
  /\ UNCHANGED <<session, subscribed, led, failing>>

-----------------------------------------------------------------------------
(* loop() without a session.                                               *)
Unconnected == mqttPc = "loop" /\ session = "none"

FaultyStamp == since' = since

Stamp == since' = 0

FaultyTooEarly ==
  /\ Unconnected /\ since <= Period
  /\ Stamp /\ gap' = Later(gap)
  /\ UNCHANGED <<mqttPc, gprs, session, subscribed, led, failing>>

TooEarly ==
  /\ Unconnected /\ since <= Period
  /\ Elapsed
  /\ UNCHANGED <<mqttPc, gprs, session, subscribed, led, failing>>

BeginAttempt ==
  /\ Unconnected /\ since > Period
  /\ mqttPc' = "connecting"
  /\ Stamp /\ gap' = 0
  /\ UNCHANGED <<gprs, session, subscribed, led, failing>>

(* mqtt.connect() takes its time, up to the library's time-outs.           *)
StillConnecting ==
  /\ mqttPc = "connecting" /\ since <= Period
  /\ Elapsed
  /\ UNCHANGED <<mqttPc, gprs, session, subscribed, led, failing>>

(* The result of mqtt.subscribe() is not looked at.                        *)
Subscribe == subscribed' \in {"yes", "unsent"}

(* mqttConnect() got through.  The session may be lost again before it     *)
(* looks, with the loss noticed or not.                                    *)
Connect ==
  /\ mqttPc = "connecting" /\ gprs
  /\ mqttPc' = "loop"
  /\ \/ session' = "up" /\ Subscribe
     \/ session' \in {"dead", "none"} /\ UNCHANGED subscribed
  /\ IF session' = "none" THEN Elapsed ELSE since' = Period + 1 /\ gap' = Later(gap)
  /\ failing' = (session' = "none")
  /\ UNCHANGED <<gprs, led>>

ConnectFails ==
  /\ mqttPc = "connecting"
  /\ mqttPc' = "loop"
  /\ Elapsed
  /\ failing' = TRUE
  /\ UNCHANGED <<gprs, session, subscribed, led>>

(* loop() with one: mqttCallback(), or the library finds the session lost, *)
(* or nothing is to be done.                                               *)
Toggle ==
  /\ mqttPc = "loop" /\ session = "up" /\ subscribed = "yes"
  /\ led' = ~led
  /\ \/ UNCHANGED <<session, subscribed>>
     \/ session' = "dead" /\ subscribed' = "no"   \* the status is lost
  /\ gap' = Later(gap)
  /\ UNCHANGED <<mqttPc, gprs, since, failing>>

NoticeLoss ==
  /\ mqttPc = "loop" /\ session = "dead"
  /\ session' = "none"
  /\ gap' = Later(gap)
  /\ UNCHANGED <<mqttPc, gprs, subscribed, since, led, failing>>

-----------------------------------------------------------------------------
SessionLost ==
  /\ session = "up"
  /\ session' = "dead" /\ subscribed' = "no"
  /\ UNCHANGED <<mqttPc, gprs, since, led, gap, failing>>

GprsLost ==
  /\ gprs
  /\ gprs' = FALSE
  /\ session' = IF session = "up" THEN "dead" ELSE session
  /\ subscribed' = "no"
  /\ UNCHANGED <<mqttPc, since, led, gap, failing>>

MqttStep ==
  \/ WaitForNetwork \/ GprsConnect \/ TooEarly \/ BeginAttempt
  \/ StillConnecting \/ Connect \/ ConnectFails \/ Toggle \/ NoticeLoss

MqttNext == MqttStep \/ SessionLost \/ GprsLost

(* loop() is called again and again, and a broker that can be reached is   *)
(* reached some time.                                                      *)
MqttFairness ==
  /\ WF_mqttVars(TooEarly \/ BeginAttempt \/ ConnectFails \/ NoticeLoss)
  /\ SF_mqttVars(Connect /\ session' = "up")

MqttSpec == MqttInit /\ [][MqttNext]_mqttVars /\ MqttFairness

-----------------------------------------------------------------------------
MqttTypeOK ==
  /\ mqttPc \in {"network", "halted", "gprs", "loop", "connecting"}
  /\ session \in {"up", "dead", "none"}
  /\ subscribed \in {"yes", "no", "unsent"}
  /\ gprs \in BOOLEAN /\ led \in BOOLEAN /\ failing \in BOOLEAN
  /\ since \in 0..(Period + 1) /\ gap \in 0..(Period + 1)

(* A session is never up without the subscription to the led's topic, not  *)
(* even one that came back, unless SUBSCRIBE itself could not be sent,     *)
(* which the code does not look at (main.cpp:203).                         *)
UpIsSubscribed == session = "up" => subscribed # "no"

(* After an attempt that failed, the next one begins more than ten seconds *)
(* after it began, however long it took to fail (main.cpp:154-156).        *)
FailedAttemptsAreSpaced ==
  [][mqttPc' = "connecting" /\ mqttPc = "loop" /\ failing => gap > Period]_mqttVars

(* As long as the GPRS session stays, a lost session with the broker comes *)
(* back; nothing brings back a lost GPRS session (main.cpp:149-164).       *)
SessionComesBack ==
  [](gprs /\ session = "none" => <>(session = "up" \/ ~gprs))
=============================================================================
