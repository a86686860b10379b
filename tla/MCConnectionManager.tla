------------------------ MODULE MCConnectionManager ------------------------
(* Instances of ConnectionManager for TLC.                                 *)
EXTENDS ConnectionManager, TLC

(* Making, using and ending the connection, with the monitor doing nothing *)
(* but connect: every command of main.cpp but the two that give it more to *)
(* do, CONNECT_CLIENT and SET_AUTO_RECONNECT.  A socket then comes only    *)
(* from connectClient(), which the class offers and main.cpp does not      *)
(* call; without it HTTP would always be refused.                          *)
ConnectionCommands == AllCommands \ {"CONNECT_CLIENT", "SET_AUTO_RECONNECT"}

(* The connection and auto-reconnect.                                      *)
LinkCommands == {"CONNECT", "DISCONNECT", "ISCONNECTED", "QUERY", "SET_AUTO_RECONNECT"}

LiveCommands == LinkCommands \ {"QUERY"}

(* Every command of main.cpp; nothing tells one server from another.       *)
SketchCommands == AllCommands \ {"CONNECT_CLIENT_SYNC"}

AnyServer == Permutations(Servers)
=============================================================================
