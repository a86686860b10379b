--------------------------- MODULE MCThreeButtons ---------------------------
(* Instances of ThreeButtons for TLC: all values are in the                *)
(* configurations.                                                         *)
EXTENDS ThreeButtons
=============================================================================
