----------------------------- MODULE MCSketches -----------------------------
(***************************************************************************)
(* The small programs for TLC, all in one run: the initial state says      *)
(* which of them is on the board, and only that one takes steps.           *)
(***************************************************************************)
EXTENDS OtaUpdater, WavePlayer, MqttSketch, GpsHandler, UartInterrupt, ButtonLed,
        HttpsDownload, LedHandler

VARIABLE sketch   \* the program on the board

Sketches == {"ota", "wave", "mqtt", "gps", "uart", "buttonled", "download", "leds"}

MCLengths == {-1, 0, 3}
MCLEDS    == <<1, 2, 8, 4>>

SketchesInit ==
  /\ sketch \in Sketches
  /\ OtaInit /\ WavInit /\ MqttInit /\ GpsInit /\ UartInit /\ LedInit
  /\ DownloadInit /\ HandlerInit

Is(name) == sketch = name /\ UNCHANGED sketch

(* What the programs other than each one keep.                             *)
exceptOta      == <<wavVars, mqttVars, gpsVars, uartVars, ledVars, fetchVars, handlerVars>>
exceptWave     == <<otaVars, mqttVars, gpsVars, uartVars, ledVars, fetchVars, handlerVars>>
exceptMqtt     == <<otaVars, wavVars, gpsVars, uartVars, ledVars, fetchVars, handlerVars>>
exceptGps      == <<otaVars, wavVars, mqttVars, uartVars, ledVars, fetchVars, handlerVars>>
exceptUart     == <<otaVars, wavVars, mqttVars, gpsVars, ledVars, fetchVars, handlerVars>>
exceptLed      == <<otaVars, wavVars, mqttVars, gpsVars, uartVars, fetchVars, handlerVars>>
exceptDownload == <<otaVars, wavVars, mqttVars, gpsVars, uartVars, ledVars, handlerVars>>
exceptLeds     == <<otaVars, wavVars, mqttVars, gpsVars, uartVars, ledVars, fetchVars>>

SketchesNext ==
  \/ Is("ota") /\ OtaNext /\ UNCHANGED exceptOta
  \/ Is("wave") /\ WavNext /\ UNCHANGED exceptWave
  \/ Is("mqtt") /\ MqttNext /\ UNCHANGED exceptMqtt
  \/ Is("gps") /\ GpsNext /\ UNCHANGED exceptGps
  \/ Is("uart") /\ UartNext /\ UNCHANGED exceptUart
  \/ Is("buttonled") /\ LedNext /\ UNCHANGED exceptLed
  \/ Is("download") /\ DownloadNext /\ UNCHANGED exceptDownload
  \/ Is("leds") /\ HandlerNext /\ UNCHANGED exceptLeds

allVars == <<sketch, otaVars, exceptOta>>

(* Each program's fairness, for the program on the board.                  *)
SketchesFairness ==
  /\ WF_otaVars(Is("ota") /\ Join)
  /\ WF_otaVars(Is("ota") /\ WiFiEvent)
  /\ WF_wavVars(Is("wave") /\ PlayFile)
  /\ WF_mqttVars(Is("mqtt") /\ (TooEarly \/ BeginAttempt \/ ConnectFails \/ NoticeLoss))
  /\ SF_mqttVars(Is("mqtt") /\ Connect /\ session' = "up")
  /\ WF_uartVars(Is("uart") /\ ReceiveTimeOut)
  /\ WF_uartVars(Is("uart") /\ Handler)
  /\ WF_uartVars(Is("uart") /\ PrintByte)
  /\ WF_ledVars(Is("buttonled") /\ TimePasses)
  /\ WF_ledVars(Is("buttonled") /\ StartBeep)
  /\ WF_ledVars(Is("buttonled") /\ ClearFlag)
  /\ WF_fetchVars(Is("download") /\ Download)
  /\ WF_fetchVars(Is("download") /\ Sends)

SketchesSpec == SketchesInit /\ [][SketchesNext]_allVars /\ SketchesFairness

(* The variables of every program have their types (the code: each         *)
(* program's variables and its library's state, by its module).            *)
SketchesTypeOK ==
  /\ OtaTypeOK /\ WavTypeOK /\ MqttTypeOK /\ GpsTypeOK /\ UartTypeOK
  /\ LedTypeOK /\ DownloadTypeOK /\ HandlerTypeOK

(* ReconnectsUnlessStuck of OtaUpdater, when that is on the board: a lost  *)
(* connection comes back (ConnectionManager.cpp:56-64, 156).               *)
OtaReconnects == sketch = "ota" => ReconnectsUnlessStuck
=============================================================================
