--------------------------- MODULE MCHttpTransfer ---------------------------
(* Instances of HttpTransfer for TLC.                                      *)
EXTENDS HttpTransfer

Length(n) == [kind |-> "length", value |-> n]
Field     == [kind |-> "field", value |-> 0]
Blank     == [kind |-> "blank", value |-> 0]
Byte(i)   == [kind |-> "byte", value |-> i]
Bytes(n)  == [i \in 1..n |-> Byte(i)]

(* Contents of 0 to 3 bytes, with and without a length, the length before  *)
(* or after another field, true, too small or too large; one answer whose  *)
(* header never ends and one server that says nothing.                     *)
Answers ==
  {h \o <<Blank>> \o Bytes(n) :
     h \in {<<>>, <<Field>>} \cup {<<Length(l), Field>> : l \in 0..3}
                             \cup {<<Field, Length(l)>> : l \in {2, 3}},
     n \in 0..3}
  \cup {<<Field>>, <<>>}
=============================================================================
