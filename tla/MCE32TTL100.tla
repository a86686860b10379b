---------------------------- MODULE MCE32TTL100 ----------------------------
(* Instances of E32TTL100 for TLC: all values are in the configurations.   *)
EXTENDS E32TTL100
=============================================================================
