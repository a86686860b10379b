--------------------------- MODULE SketchesProofs ---------------------------
(***************************************************************************)
(* Proofs about MCSketches: one program on the board keeps all of what the *)
(* modules of the programs promise each for itself.                        *)
(***************************************************************************)
EXTENDS MCSketches, NetworkSketchesProofs, DeviceSketchesProofs

(* Every program on the board runs as its module says, and the others      *)
(* stand still.                                                            *)
THEOREM BoardRunsPrograms ==
  SketchesSpec =>
    /\ OtaInit /\ [][OtaNext]_otaVars
    /\ WavInit /\ [][WavNext]_wavVars
    /\ MqttInit /\ [][MqttNext]_mqttVars
    /\ GpsInit /\ [][GpsNext]_gpsVars
    /\ UartInit /\ [][UartNext]_uartVars
    /\ LedInit /\ [][LedNext]_ledVars
    /\ DownloadInit /\ [][DownloadNext]_fetchVars
    /\ HandlerInit /\ [][HandlerNext]_handlerVars
<1>1. SketchesInit =>
        /\ OtaInit /\ WavInit /\ MqttInit /\ GpsInit /\ UartInit /\ LedInit
        /\ DownloadInit /\ HandlerInit
  BY Zenon DEF SketchesInit
<1>2. [SketchesNext]_allVars =>
        /\ [OtaNext]_otaVars /\ [WavNext]_wavVars /\ [MqttNext]_mqttVars
        /\ [GpsNext]_gpsVars /\ [UartNext]_uartVars /\ [LedNext]_ledVars
        /\ [DownloadNext]_fetchVars /\ [HandlerNext]_handlerVars
  BY Zenon DEF SketchesNext, Is, allVars, exceptOta, exceptWave, exceptMqtt, exceptGps,
         exceptUart, exceptLed, exceptDownload, exceptLeds
<1> QED BY <1>1, <1>2, PTL DEF SketchesSpec

(* The variables of every program keep their types, for all values of all  *)
(* the programs' constants.                                                *)
THEOREM BoardIsTyped == SketchesSpec => []SketchesTypeOK
<1>1. OtaInit /\ [][OtaNext]_otaVars => []OtaTypeOK
  BY OtaInitEstablishesInv, OtaNextKeepsInv, OtaInitTyped, OtaNextTyped, PTL
<1>2. WavInit /\ [][WavNext]_wavVars => []WavTypeOK
  <2>1. WavInv => WavTypeOK BY DEF WavInv
  <2> QED BY WavInitEstablishesInv, WavNextKeepsInv, <2>1, PTL
<1>3. MqttInit /\ [][MqttNext]_mqttVars => []MqttTypeOK
  <2>1. MqttInv => MqttTypeOK BY DEF MqttInv
  <2> QED BY MqttInitEstablishesInv, MqttNextKeepsInv, <2>1, PTL
<1>4. GpsInit /\ [][GpsNext]_gpsVars => []GpsTypeOK
  <2>1. GpsInv => GpsTypeOK BY DEF GpsInv
  <2> QED BY GpsInitEstablishesInv, GpsNextKeepsInv, <2>1, PTL
<1>5. UartInit /\ [][UartNext]_uartVars => []UartTypeOK
  BY UartInitTyped, UartNextTyped, PTL
<1>6. LedInit /\ [][LedNext]_ledVars => []LedTypeOK
  <2>1. LedInv => LedTypeOK BY DEF LedInv
  <2> QED BY LedInitEstablishesInv, LedNextKeepsInv, <2>1, PTL
<1>7. DownloadInit /\ [][DownloadNext]_fetchVars => []DownloadTypeOK
  <2>1. DownloadInv => DownloadTypeOK BY DEF DownloadInv
  <2> QED BY DownloadInitEstablishesInv, DownloadNextKeepsInv, <2>1, PTL
<1>8. HandlerInit /\ [][HandlerNext]_handlerVars => []HandlerTypeOK
  <2>1. HandlerInv => HandlerTypeOK BY DEF HandlerInv
  <2> QED BY HandlerInitEstablishesInv, HandlerNextKeepsInv, <2>1, PTL
<1>9. OtaTypeOK /\ WavTypeOK /\ MqttTypeOK /\ GpsTypeOK /\ UartTypeOK /\ LedTypeOK
        /\ DownloadTypeOK /\ HandlerTypeOK => SketchesTypeOK
  BY DEF SketchesTypeOK
<1> QED
  BY BoardRunsPrograms, <1>1, <1>2, <1>3, <1>4, <1>5, <1>6, <1>7, <1>8, <1>9, PTL

(* On the board, too: "OK" is true of the upload, a file is heard in order *)
(* and the leds show what was asked, for all values of all the constants   *)
(* (OTAManager.cpp:142, WavePlayer.cpp:119, LedHandler.cpp:89).            *)
THEOREM BoardKeepsItsWord ==
  SketchesSpec => [](FreshOkRunsUpload /\ SoundIsHeard /\ ShowsWhatWasAsked)
<1>1. OtaInit /\ [][OtaNext]_otaVars => []FreshOkRunsUpload
  <2>1. OtaInv => FreshOkRunsUpload BY DEF OtaInv
  <2> QED BY OtaInitEstablishesInv, OtaNextKeepsInv, <2>1, PTL
<1>2. WavInit /\ [][WavNext]_wavVars => []SoundIsHeard
  BY WavInitEstablishesInv, WavNextKeepsInv, EndIsHeard, PTL
<1>3. HandlerInit /\ [][HandlerNext]_handlerVars => []ShowsWhatWasAsked
  BY HandlerInitEstablishesInv, HandlerNextKeepsInv, InvShows, PTL
<1> QED BY BoardRunsPrograms, <1>1, <1>2, <1>3, PTL
=============================================================================
