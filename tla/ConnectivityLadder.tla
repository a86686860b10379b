------------------------ MODULE ConnectivityLadder ------------------------
(***************************************************************************)
(* What monitorConnectivity() of TinyGSM_IoTHub promises, whatever it does *)
(* with the modem to keep it: connectivity is a ladder that is climbed one *)
(* rung at a time, a lost session costs one rung, and an attempt to open   *)
(* one that fails sends the modem back to the ground.                      *)
(***************************************************************************)
EXTENDS Naturals, Sequences

VARIABLE rung

Rungs == <<"off", "modem", "network", "online">>

Init == rung = "off"

Climb == \E i \in 1..3 : rung = Rungs[i] /\ rung' = Rungs[i + 1]

Lose == rung = "online" /\ rung' = "network"

GiveUp == rung = "network" /\ rung' = "off"

Next == Climb \/ Lose \/ GiveUp

Spec == Init /\ [][Next]_rung
=============================================================================
