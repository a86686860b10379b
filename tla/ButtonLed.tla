----------------------------- MODULE ButtonLed -----------------------------
(***************************************************************************)
(* The sketch with two buttons, two leds and a buzzer: an edge of a button *)
(* toggles its led in an interrupt and asks loop() for a beep by a flag.   *)
(***************************************************************************)
EXTENDS Naturals

CONSTANTS
  LedButtons,   \* BUTTON_AUTO and BUTTON_SPEED
  Debounce,     \* ticks that have to be exceeded, 600 ms
  BeepTicks     \* of a beep and the pause after it, 1500 ms

ASSUME ButtonLedAssumption == {Debounce, BeepTicks} \subseteq Nat \ {0}

VARIABLES
  lit,      \* for each button, the state of its led
  quiet,    \* ticks since the button's last interrupt, as far as it matters
  buzzer,   \* g_buzzerEnabled
  beep,     \* ticks left of buzzerBeep(), or 0
  clearing, \* loop() is between the beep and the clearing of the flag
  owed      \* history: a led was toggled outside a beep and none has begun since

ledVars == <<lit, quiet, buzzer, beep, clearing, owed>>

Busy == beep > 0 \/ clearing

LedInit ==
  /\ lit = [b \in LedButtons |-> FALSE]
  /\ quiet = [b \in LedButtons |-> 0]
  /\ buzzer = FALSE /\ beep = 0 /\ clearing = FALSE
  /\ owed = FALSE

(* blinkAuto() and blinkSpeed().  The time is taken at every edge: a       *)
(* button that does not rest does not count.                               *)
Blink(b) ==
  /\ IF quiet[b] > Debounce
     THEN /\ lit' = [lit EXCEPT ![b] = ~@]
          /\ buzzer' = TRUE
          /\ owed' = (owed \/ ~Busy)
     ELSE UNCHANGED <<lit, buzzer, owed>>
  /\ quiet' = [quiet EXCEPT ![b] = 0]
  /\ UNCHANGED <<beep, clearing>>

Aged == [b \in LedButtons |-> IF quiet[b] > Debounce THEN quiet[b] ELSE quiet[b] + 1]

TimePasses ==
  /\ quiet' = Aged
  /\ beep' = IF beep > 0 THEN beep - 1 ELSE 0
  /\ clearing' = (clearing \/ beep = 1)
  /\ UNCHANGED <<lit, buzzer, owed>>

-----------------------------------------------------------------------------
(* loop().  The flag is cleared after the beep, whoever set it meanwhile.  *)
StartBeep ==
  /\ ~Busy /\ buzzer
  /\ beep' = BeepTicks
  /\ owed' = FALSE
  /\ UNCHANGED <<lit, quiet, buzzer, clearing>>

FaultyClearFlag ==
  /\ beep = 0
  /\ buzzer' = FALSE /\ clearing' = FALSE
  /\ UNCHANGED <<lit, quiet, beep, owed>>

ClearFlag ==
  /\ clearing
  /\ buzzer' = FALSE /\ clearing' = FALSE
  /\ UNCHANGED <<lit, quiet, beep, owed>>

LedNext ==
  \/ \E b \in LedButtons : Blink(b)
  \/ TimePasses \/ StartBeep \/ ClearFlag

LedFairness == WF_ledVars(TimePasses) /\ WF_ledVars(StartBeep) /\ WF_ledVars(ClearFlag)

LedSpec == LedInit /\ [][LedNext]_ledVars /\ LedFairness

-----------------------------------------------------------------------------
LedTypeOK ==
  /\ lit \in [LedButtons -> BOOLEAN]
  /\ quiet \in [LedButtons -> 0..(Debounce + 1)]
  /\ beep \in 0..BeepTicks
  /\ {buzzer, clearing, owed} \subseteq BOOLEAN
  /\ beep > 0 => buzzer

(* A press outside a beep is beeped, whenever its interrupt comes; one     *)
(* during a beep loses its beep (ButtonLedInterrupt3.ino:53-57).           *)
PressIsBeeped == owed ~> ~owed
=============================================================================
