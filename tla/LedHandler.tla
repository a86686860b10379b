----------------------------- MODULE LedHandler -----------------------------
(***************************************************************************)
(* The led controller: setLed() adds or subtracts the led's bit in a sum   *)
(* and shifts the sum out to a register, which shows it when the load pin  *)
(* rises.  The register is not reset with the processor.                   *)
(***************************************************************************)
EXTENDS Integers, Sequences

CONSTANT LEDS   \* the bit of each led, a sequence

Leds == DOMAIN LEDS
Bits == Len(LEDS)   \* of the shift register, 8

ASSUME LedHandlerAssumption ==
  /\ LEDS \in Seq(Nat)
  /\ \E place \in [Leds -> 0..(Bits - 1)] :
       /\ \A i, j \in Leds : i # j => place[i] # place[j]
       /\ \A i \in Leds : LEDS[i] = 2 ^ place[i]

VARIABLES
  dataSum,    \* m_dataSum
  currentSum, \* what setLed() is shifting out
  bit,        \* bits still to shift, or 0 when setLed() is not shifting
  shift,      \* the register's bits, the last one shifted in first
  latch,      \* what it shows
  test,       \* calls of setLed() that autoTest() has made
  asked       \* history: the leds last asked to be on

handlerVars == <<dataSum, currentSum, bit, shift, latch, test, asked>>

HasBit(sum, value) == (sum \div value) % 2 = 1

Dark == [i \in 1..Bits |-> FALSE]

HandlerInit ==
  /\ dataSum = 0 /\ currentSum = 0 /\ bit = 0
  /\ shift = Dark /\ latch = Dark
  /\ test = 0 /\ asked = {}

(* esp_restart() or a watchdog: begin() starts with a sum of zero.         *)
HandlerRestart ==
  /\ dataSum' = 0 /\ currentSum' = 0 /\ bit' = 0 /\ test' = 0 /\ asked' = {}
  /\ UNCHANGED <<shift, latch>>

FaultySum(led, on) == IF on THEN dataSum + LEDS[led] ELSE dataSum - LEDS[led]

SwitchedSum(led, on) ==
  IF on = HasBit(dataSum, LEDS[led]) THEN dataSum
  ELSE IF on THEN dataSum + LEDS[led] ELSE dataSum - LEDS[led]

SetLed(led, on) ==
  /\ bit = 0
  /\ currentSum' = SwitchedSum(led, on)
  /\ bit' = IF currentSum' = dataSum THEN 0 ELSE Bits
  /\ asked' = IF on THEN asked \cup {led} ELSE asked \ {led}
  /\ UNCHANGED <<dataSum, shift, latch>>

(* autoTest(): all leds on, one after the other, and all off again.        *)
TestDone == test = 2 * Bits

AutoTest ==
  /\ ~TestDone
  /\ SetLed((test % Bits) + 1, test < Bits)
  /\ test' = test + 1

SetLedCalled ==
  /\ TestDone
  /\ \E led \in Leds, on \in BOOLEAN : SetLed(led, on)
  /\ UNCHANGED test

FaultyBitOut == HasBit(currentSum, 2 ^ (Bits - bit))

(* shiftOut(): the highest bit first.                                      *)
BitOut == HasBit(currentSum, 2 ^ (bit - 1))

ShiftOut ==
  /\ bit > 0
  /\ shift' = <<BitOut>> \o SubSeq(shift, 1, Bits - 1)
  /\ bit' = bit - 1
  /\ IF bit = 1 THEN latch' = shift' /\ dataSum' = currentSum
               ELSE UNCHANGED <<latch, dataSum>>
  /\ UNCHANGED <<currentSum, test, asked>>

HandlerNext == AutoTest \/ SetLedCalled \/ ShiftOut \/ HandlerRestart

HandlerSpec == HandlerInit /\ [][HandlerNext]_handlerVars

-----------------------------------------------------------------------------
HandlerTypeOK ==
  /\ dataSum \in 0..(2 ^ Bits - 1) /\ currentSum \in 0..(2 ^ Bits - 1)
  /\ bit \in 0..Bits
  /\ shift \in [1..Bits -> BOOLEAN] /\ latch \in [1..Bits -> BOOLEAN]
  /\ test \in 0..(2 * Bits) /\ asked \subseteq Leds

(* After the test of begin(), and whenever no bits are being shifted, the  *)
(* register shows the leds that were asked to be on and no others, even if *)
(* the processor restarted between two bits and left the register as it    *)
(* was (LedHandler.cpp:45, 73-90, 159-178).                                *)
ShowsWhatWasAsked ==
  TestDone /\ bit = 0 =>
    \A led \in Leds : led \in asked <=> \E i \in 1..Bits : latch[i] /\ LEDS[led] = 2 ^ (i - 1)
=============================================================================
