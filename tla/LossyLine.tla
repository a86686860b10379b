----------------------------- MODULE LossyLine -----------------------------
(***************************************************************************)
(* What an interrupt handler, its queue and the task behind it promise of  *)
(* the bytes of a serial line, whatever buffers they pass: a byte that is  *)
(* on the line may get lost and no other byte notices, but none is         *)
(* overtaken, received twice or invented.                                  *)
(***************************************************************************)
EXTENDS Naturals, Sequences, SequencesExt

VARIABLES
  sent,      \* bytes sent, numbered from 1 on
  line,      \* those under way
  received,  \* those that arrived
  lost       \* those that never will

lineVars == <<sent, line, received, lost>>

LineInit == sent = 0 /\ line = <<>> /\ received = <<>> /\ lost = {}

Send ==
  /\ sent' = sent + 1
  /\ \/ line' = Append(line, sent + 1) /\ UNCHANGED lost
     \/ lost' = lost \cup {sent + 1} /\ UNCHANGED line
  /\ UNCHANGED received

Lose(i) ==
  /\ line' = RemoveAt(line, i)
  /\ lost' = lost \cup {line[i]}
  /\ UNCHANGED <<sent, received>>

Receive ==
  /\ line # <<>>
  /\ received' = Append(received, Head(line))
  /\ line' = Tail(line)
  /\ UNCHANGED <<sent, lost>>

LineNext == Send \/ (\E i \in DOMAIN line : Lose(i)) \/ Receive

LineSpec == LineInit /\ [][LineNext]_lineVars
=============================================================================
