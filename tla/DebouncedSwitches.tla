-------------------------- MODULE DebouncedSwitches -------------------------
(***************************************************************************)
(* What debouncing promises whoever looks at the switches behind it: a     *)
(* switch moves only to where its contact is, and having moved it rests    *)
(* for longer than a contact bounces.  A contact that moves meanwhile may  *)
(* go unnoticed.                                                           *)
(***************************************************************************)
EXTENDS Naturals

CONSTANTS
  Switches,
  Wait       \* how long a switch rests, in ticks

VARIABLES
  closed,    \* the contacts that are closed
  on,        \* the switches that are on
  rested     \* ticks since each switch moved, as far as they matter

switchVars == <<closed, on, rested>>

SwitchInit ==
  /\ closed \in SUBSET Switches /\ on = {}
  /\ rested = [s \in Switches |-> Wait + 1]

Contact(s) ==
  /\ closed' = IF s \in closed THEN closed \ {s} ELSE closed \cup {s}
  /\ UNCHANGED <<on, rested>>

Follow(s) ==
  /\ rested[s] > Wait
  /\ on' = IF s \in closed THEN on \cup {s} ELSE on \ {s}
  /\ rested' = [rested EXCEPT ![s] = 0]
  /\ UNCHANGED closed

Pass ==
  /\ rested' = [s \in Switches |-> IF rested[s] > Wait THEN Wait + 1 ELSE rested[s] + 1]
  /\ UNCHANGED <<closed, on>>

(* A restart turns all of them off.                                        *)
Off == on' = {} /\ UNCHANGED <<closed, rested>>

SwitchNext ==
  \/ \E s \in Switches : Contact(s) \/ Follow(s)
  \/ Pass \/ Off

SwitchSpec == SwitchInit /\ [][SwitchNext]_switchVars
=============================================================================
