------------------------- MODULE ConnectionService -------------------------
(***************************************************************************)
(* What the connection manager's status promises whoever reads it, as long *)
(* as nobody but its user brings a connection about: a request is taken    *)
(* from DISCONNECTED only and answered before the next one, every other    *)
(* move starts from the status that was looked at, and a session is open   *)
(* only behind a status that admits it.                                    *)
(***************************************************************************)
VARIABLES
  state,    \* the status
  session   \* whether a session is open

serviceVars == <<state, session>>

Init == state = "DISCONNECTING" /\ session = FALSE

Begin   == state = "DISCONNECTING" /\ state' = "DISCONNECTED" /\ UNCHANGED session
Request == state = "DISCONNECTED" /\ state' = "CONNECTING" /\ UNCHANGED session

(* The session is opened by the one who answers the request.               *)
Open   == state = "CONNECTING" /\ session' = TRUE /\ UNCHANGED state
Answer == /\ state = "CONNECTING"
          /\ state' = "CONNECTED" \/ (state' = "DISCONNECTED" /\ ~session)
          /\ UNCHANGED session

(* The network may close it at any time; a status that gives it up only    *)
(* follows.                                                                *)
Close == session' = FALSE /\ UNCHANGED state
Leave == state = "CONNECTED" /\ state' = "DISCONNECTED" /\ ~session /\ UNCHANGED session

Next == Begin \/ Request \/ Open \/ Answer \/ Close \/ Leave

Spec == Init /\ [][Next]_serviceVars
=============================================================================
