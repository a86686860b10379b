-------------------------- MODULE E32TTL100Proofs --------------------------
(***************************************************************************)
(* Proofs about E32TTL100, for any number of looks at AUX, any sizes of    *)
(* the answers and any buffers.                                            *)
(***************************************************************************)
EXTENDS E32TTL100, TLAPS

(* Where in Program the driver does what.                                  *)
AtMode    == {2, 12, 20, 28, 38, 46, 52, 58}
AtPins    == {4, 14, 22, 30, 40, 48, 54, 60}
AtClean   == {6, 32, 42}
AtCommand == {7, 16, 24, 33, 43}
AtInfo    == {8, 34, 44}
AtCheck   == {10, 36, 51}
AtOther   == {56, 57, 62, 63, 64}
AtWait    ==
  (1..64) \ (AtMode \cup AtPins \cup AtClean \cup AtCommand \cup AtInfo
               \cup AtCheck \cup AtOther)

(* Modes are switched to as the driver starts or gets to another part, and *)
(* the rest of the switch is skipped in the mode that it has already.      *)
Skipped == (13..15) \cup (21..23) \cup (29..31) \cup (39..41) \cup (53..55) \cup (59..61)

PreModeAt(p) == IF p <= 2 THEN "init" ELSE IF p <= 46 THEN "sleep" ELSE "normal"
PinsAt(p)    == IF p <= 4 \/ p >= 49 THEN "normal" ELSE "sleep"

OnItsWay == pc \notin Skipped /\ preMode = PreModeAt(pc) /\ pins = PinsAt(pc)

(* The module is idle only in the mode that the pins ask for, and busy as  *)
(* long as it has bytes to hand out.                                       *)
ModuleFollows ==
  /\ modState = "idle" => modMode = pins
  /\ owed # <<>> => modState = "busy"

Normal == modMode = "normal" /\ modState # "switching"

(* A wait that succeeded saw the module idle.                              *)
SeenIdle == pc = 51 /\ waited = "success" => Normal

ModeInv == TypeOK /\ OnItsWay /\ ModuleFollows /\ SeenIdle /\ RunsInNormalMode

(* What more holds for a timely module.  Every wait ends with it idle, so  *)
(* between the two switches it sleeps, and is busy only after a command.   *)
AfterCommand == {8, 9, 17, 25, 34, 35, 44, 45}

Sleeps ==
  /\ polls < TimeOutCount
  /\ pc \in 6..48 => modMode = "sleep" /\ modState # "switching"
  /\ pc \in (6..48) \ AfterCommand => modState = "idle"

(* After the buffer was emptied for a command only its answer comes in.    *)
OwnAnswer ==
  /\ pc \in {7, 33, 43} => rx = <<>>
  /\ pc \in AtInfo => rx \in Seq({Arg}) /\ owed \in Seq({Arg})

Configured == pc >= 17 => config = "asked"

InStep == Sleeps /\ OwnAnswer /\ Configured

TimelyInv == timely => InStep

Inv == ModeInv /\ TimelyInv

-----------------------------------------------------------------------------
LEMMA Constants ==
  /\ TimeOutCount \in Nat /\ TimeOutCount >= 1 /\ SendEvery \in Nat /\ SendEvery >= 1
  /\ CountSize \in Nat /\ CountSize >= 1 /\ ConfigSize \in Nat /\ VersionSize \in Nat
  /\ RxLimit \in Nat /\ RadioLimit \in Nat
BY E32Assumption DEF E32Assumption

(* The entries of Program.                                                 *)
LEMMA Table ==
  /\ Len(Program) = 64 /\ LoopStart = 52
  /\ \A i \in AtWait : Program[i] = Wait
  /\ \A i \in AtMode :
       Program[i] = Op("mode", IF i \in {46, 52, 58} THEN "normal" ELSE "sleep")
  /\ \A i \in AtPins :
       Program[i] = Op("pins", IF i \in {48, 54, 60} THEN "normal" ELSE "sleep")
  /\ \A i \in AtClean : Program[i] = Clean
  /\ Program[7] = Op("command", "read") /\ Program[16] = Op("command", "write")
  /\ Program[24] = Op("command", "reset") /\ Program[33] = Op("command", "read")
  /\ Program[43] = Op("command", "version")
  /\ Program[8] = Op("info", "config") /\ Program[34] = Op("info", "config")
  /\ Program[44] = Op("info", "version")
  /\ Program[10] = Check /\ Program[36] = Check /\ Program[51] = Op("check", "waited")
  /\ Program[56] = Op("receive", "uart") /\ Program[57] = Op("due", "count")
  /\ Program[62] = Op("look", "aux") /\ Program[63] = Op("look", "aux")
  /\ Program[64] = Op("transmit", "uart")
BY DEF Program, LoopStart, Begin, Configure, Loop, InSleepMode, ReadConfig, WriteConfig,
       ResetModule, ReadVersion, Switch, Op, Wait, Clean, Check, AtWait, AtMode, AtPins,
       AtClean, AtCommand, AtInfo, AtCheck, AtOther

(* The waits that are not skipped, and what comes after them.              *)
LEMMA Waits ==
  ASSUME pc \in AtWait, pc \notin Skipped
  PROVE  /\ pc \in {1, 3, 5, 9, 11, 17, 18, 19, 25, 26, 27, 35, 37, 45, 47, 49, 50}
         /\ pc + 1 \in 1..51 /\ pc + 1 \notin Skipped
         /\ PreModeAt(pc + 1) = PreModeAt(pc) /\ PinsAt(pc + 1) = PinsAt(pc)
<1>1. pc \in {1, 3, 5, 9, 11, 17, 18, 19, 25, 26, 27, 35, 37, 45, 47, 49, 50}
  BY DEF AtWait, Skipped, AtMode, AtPins, AtClean, AtCommand, AtInfo, AtCheck, AtOther
<1> QED BY <1>1 DEF Skipped, PreModeAt, PinsAt

(* The rest of the sleep mode's part.                                      *)
LEMMA Asleep ==
  ASSUME pc \in AtClean \cup AtCommand \cup AtInfo \cup {10, 36}
  PROVE  /\ pc \in 6..44 /\ pc + 1 \in 7..45 /\ pc + 1 \notin Skipped
         /\ PreModeAt(pc + 1) = PreModeAt(pc) /\ PinsAt(pc + 1) = PinsAt(pc)
BY DEF AtClean, AtCommand, AtInfo, Skipped, PreModeAt, PinsAt

(* What the driver does tells where it is.                                 *)
LEMMA Points ==
  ASSUME TypeOK
  PROVE  /\ pc \in 1..64
         /\ At("wait") => pc \in AtWait
         /\ At("mode") => pc \in AtMode /\ Arg = IF pc \in {46, 52, 58} THEN "normal" ELSE "sleep"
         /\ At("pins") => pc \in AtPins /\ Arg = IF pc \in {48, 54, 60} THEN "normal" ELSE "sleep"
         /\ At("clean") => pc \in AtClean
         /\ At("command") => pc \in AtCommand
         /\ At("info") => pc \in AtInfo
         /\ At("check") => pc \in AtCheck
         /\ At("receive") => pc = 56
         /\ At("due") => pc = 57
         /\ At("look") => pc \in {62, 63}
         /\ At("transmit") => pc = 64
<1>1. pc \in 1..64 BY Table DEF TypeOK
<1>2. \/ pc \in AtWait \/ pc \in AtMode \/ pc \in AtPins \/ pc \in AtClean
      \/ pc \in AtCommand \/ pc \in AtInfo \/ pc \in AtCheck \/ pc \in AtOther
  BY <1>1 DEF AtWait
<1> QED
  BY <1>1, <1>2, Table
  DEF At, Arg, Op, Wait, Clean, Check, AtMode, AtPins, AtClean, AtCommand, AtInfo, AtCheck, AtOther

-----------------------------------------------------------------------------
LEMMA InitEstablishesInv == Init => Inv
<1> SUFFICES ASSUME Init PROVE Inv
  OBVIOUS
<1>1. TypeOK
  BY Constants, Table DEF Init, TypeOK, Looking, Modes
<1>2. OnItsWay /\ ModuleFollows /\ SeenIdle /\ RunsInNormalMode
  BY Table DEF Init, OnItsWay, ModuleFollows, SeenIdle, RunsInNormalMode, Running, Looking, Skipped,
         PreModeAt, PinsAt
<1>3. TimelyInv
  <2>1. Sleeps BY Constants DEF Init, Sleeps
  <2>2. OwnAnswer BY DEF Init, OwnAnswer, AtInfo
  <2>3. Configured BY DEF Init, Configured
  <2> QED BY <2>1, <2>2, <2>3 DEF TimelyInv, InStep
<1> QED BY <1>1, <1>2, <1>3 DEF Inv, ModeInv

LEMMA PollLowKeepsModeInv == ASSUME ModeInv, PollLow, UNCHANGED nature PROVE ModeInv'
<1>1. pc \in AtWait /\ pc \in 1..64 /\ pc \notin Skipped
  BY Points DEF ModeInv, OnItsWay, PollLow
<1>2. pc \in 1..51 /\ pc + 1 \in 1..51
  BY <1>1, Waits
<1>3. pc' = pc \/ pc' = pc + 1 
  BY DEF PollLow
<1>4. polls' \in 0..TimeOutCount
  BY Constants DEF PollLow, ModeInv, TypeOK
<1>5. (waited' = waited /\ pc' = pc) \/ waited' = "timeout"
  BY Constants DEF PollLow, ModeInv, TypeOK, AuxSeen, Expired
<1>6. TypeOK'
  <2>1. pc' \in 1..Len(Program) BY <1>2, <1>3, Table
  <2>2. waited' \in {"success", "timeout"} BY <1>5 DEF ModeInv, TypeOK
  <2> QED BY <1>4, <2>1, <2>2 DEF ModeInv, TypeOK, PollLow, module, nature
<1>7. OnItsWay'
  BY <1>1, <1>3, Waits DEF ModeInv, OnItsWay, PollLow
<1>8. ModuleFollows' BY DEF ModeInv, ModuleFollows, PollLow, module
<1>9. SeenIdle'
  BY <1>5 DEF ModeInv, SeenIdle, PollLow, Normal, module
<1>10. RunsInNormalMode'
  BY <1>2, <1>3, Table DEF RunsInNormalMode, Running
<1> QED BY <1>6, <1>7, <1>8, <1>9, <1>10 DEF ModeInv

LEMMA PollHighKeepsModeInv == ASSUME ModeInv, PollHigh, UNCHANGED nature PROVE ModeInv'
<1>1. pc \in AtWait /\ pc \in 1..64 /\ pc \notin Skipped
  BY Points DEF ModeInv, OnItsWay, PollHigh
<1>2. pc' = pc + 1 /\ pc + 1 \in 1..51
  BY <1>1, Waits DEF PollHigh
<1>3. polls' \in 0..TimeOutCount /\ waited' \in {"success", "timeout"}
  BY Constants DEF PollHigh, AuxSeen
<1>4. TypeOK'
  <2>1. pc' \in 1..Len(Program) BY <1>2, Table
  <2> QED BY <1>3, <2>1 DEF ModeInv, TypeOK, PollHigh, module, nature
<1>5. OnItsWay'
  BY <1>1, <1>2, Waits DEF ModeInv, OnItsWay, PollHigh
<1>6. ModuleFollows' BY DEF ModeInv, ModuleFollows, PollHigh, module
<1>7. SeenIdle'
  <2> SUFFICES ASSUME pc' = 51 PROVE Normal'
    BY DEF SeenIdle
  <2>1. pins = "normal" BY <1>1, <1>2 DEF ModeInv, OnItsWay, PinsAt
  <2> QED BY <2>1 DEF PollHigh, AuxHigh, ModeInv, ModuleFollows, Normal, module
<1>8. RunsInNormalMode'
  BY <1>2, Table DEF RunsInNormalMode, Running
<1> QED BY <1>4, <1>5, <1>6, <1>7, <1>8 DEF ModeInv

LEMMA SwitchModeKeepsModeInv ==
  ASSUME ModeInv, SwitchMode, UNCHANGED nature PROVE ModeInv'
<1>1. /\ pc \in AtMode
      /\ Arg = IF pc \in {46, 52, 58} THEN "normal" ELSE "sleep"
  BY Points DEF ModeInv, SwitchMode
<1>2. preMode = PreModeAt(pc) BY DEF ModeInv, OnItsWay
<1>3. /\ pc \in {2, 46} => pc' = pc + 1 /\ preMode' = Arg
      /\ pc \notin {2, 46} => pc' = pc + 4 /\ preMode' = preMode
  BY <1>1, <1>2 DEF SwitchMode, Remember, PreModeAt, AtMode
<1>4. /\ pc' \in 1..64 /\ pc' \notin Skipped
      /\ PinsAt(pc') = PinsAt(pc) /\ preMode' = PreModeAt(pc') /\ pc' # 51
      /\ pc' >= 52 => pc >= 52
  BY <1>1, <1>2, <1>3 DEF AtMode, PreModeAt, PinsAt, Skipped
<1>5. TypeOK'
  <2>1. pc' \in 1..Len(Program) BY <1>4, Table
  <2>2. preMode' \in Modes \cup {"init"} BY <1>4 DEF PreModeAt, Modes
  <2> QED BY <2>1, <2>2 DEF ModeInv, TypeOK, SwitchMode, module, nature
<1>6. OnItsWay' BY <1>4 DEF ModeInv, OnItsWay, SwitchMode
<1>7. ModuleFollows' BY DEF ModeInv, ModuleFollows, SwitchMode, module
<1>8. SeenIdle' BY <1>4 DEF SeenIdle
<1>9. RunsInNormalMode'
  BY <1>4, Table DEF ModeInv, RunsInNormalMode, Running, SwitchMode, module
<1> QED BY <1>5, <1>6, <1>7, <1>8, <1>9 DEF ModeInv

LEMMA WritePinsKeepsModeInv ==
  ASSUME ModeInv, WritePins, UNCHANGED nature PROVE ModeInv'
<1>1. /\ pc \in {4, 48} /\ pc' = pc + 1
      /\ Arg = IF pc = 48 THEN "normal" ELSE "sleep"
  BY Points DEF ModeInv, OnItsWay, WritePins, AtPins, Skipped
<1>2. /\ pc' \in {5, 49} /\ pc' \notin Skipped
      /\ PreModeAt(pc') = PreModeAt(pc) /\ PinsAt(pc') = Arg
  BY <1>1 DEF Skipped, PreModeAt, PinsAt
<1>3. modState' = IF AuxHigh THEN Looking(Arg) ELSE modState
  BY DEF WritePins
<1>4. TypeOK'
  <2>1. pc' \in 1..Len(Program) BY <1>2, Table
  <2>2. modState' \in {"idle", "busy", "switching"} /\ pins' \in Modes
    BY <1>1, <1>3 DEF ModeInv, TypeOK, Looking, WritePins, Modes
  <2> QED BY <2>1, <2>2 DEF ModeInv, TypeOK, WritePins, nature
<1>5. OnItsWay' BY <1>2 DEF ModeInv, OnItsWay, WritePins
<1>6. ModuleFollows'
  BY <1>3 DEF ModeInv, ModuleFollows, WritePins, Looking, AuxHigh
<1>7. SeenIdle' BY <1>2 DEF SeenIdle
<1>8. RunsInNormalMode' BY <1>2, Table DEF RunsInNormalMode, Running
<1> QED BY <1>4, <1>5, <1>6, <1>7, <1>8 DEF ModeInv

(* In the sleep mode's part the pins and the remembered mode stay.         *)
LEMMA SleepStepKeepsModeInv ==
  ASSUME ModeInv, TypeOK', ModuleFollows', UNCHANGED <<preMode, pins>>,
         pc \in AtClean \cup AtCommand \cup AtInfo \cup {10, 36}, pc' = pc + 1
  PROVE  ModeInv'
<1>1. pc' \in 7..45 BY Asleep
<1>2. OnItsWay' BY Asleep DEF ModeInv, OnItsWay
<1>3. SeenIdle' /\ RunsInNormalMode'
  BY <1>1, Table DEF SeenIdle, RunsInNormalMode, Running
<1> QED BY <1>2, <1>3 DEF ModeInv

LEMMA CleanBufferKeepsModeInv ==
  ASSUME ModeInv, CleanBuffer, UNCHANGED nature PROVE ModeInv'
<1>1. pc \in AtClean /\ pc' = pc + 1 /\ rx' = <<>>
  BY Points DEF ModeInv, CleanBuffer
<1>2. pc' \in 1..Len(Program) BY <1>1, Asleep, Table
<1>3. TypeOK'
  BY <1>1, <1>2, Constants DEF ModeInv, TypeOK, CleanBuffer, module, nature
<1>4. ModuleFollows' BY DEF ModeInv, ModuleFollows, CleanBuffer, module
<1> QED BY <1>1, <1>3, <1>4, SleepStepKeepsModeInv DEF CleanBuffer

(* The bytes of an answer.                                                 *)
LEMMA CopiesTyped ==
  ASSUME NEW kind \in Kinds, NEW n \in Nat
  PROVE  Copies(kind, n) \in Seq({kind}) /\ Copies(kind, n) \in Seq(Kinds)
BY DEF Copies

LEMMA CommandKeepsModeInv ==
  ASSUME ModeInv, Command, UNCHANGED nature PROVE ModeInv'
<1>1. pc \in AtCommand /\ pc' = pc + 1
  BY Points DEF ModeInv, Command
<1>2. pc' \in 1..Len(Program) BY <1>1, Asleep, Table
<1>3. Arg \in {"read", "write", "version", "reset"}
  BY <1>1, Table DEF AtCommand, Arg, Op
<1>4. Answers(Arg) \subseteq Seq(Kinds)
  <2>1. /\ Copies("config", ConfigSize) \in Seq(Kinds)
        /\ Copies("version", VersionSize) \in Seq(Kinds)
        /\ <<>> \in Seq(Kinds)
    BY CopiesTyped, Constants DEF Kinds
  <2> QED BY <1>3, <2>1, Zenon DEF Answers
<1>5. /\ modState' \in {"idle", "busy", "switching"} /\ owed' \in Seq(Kinds)
      /\ config' \in {"other", "asked"}
  BY <1>4 DEF Command, Take, ModeInv, TypeOK
<1>6. TypeOK' BY <1>2, <1>5 DEF ModeInv, TypeOK, Command, nature
<1>7. ModuleFollows' BY DEF ModeInv, ModuleFollows, Command, Take
<1> QED BY <1>1, <1>6, <1>7, SleepStepKeepsModeInv DEF Command

(* What is left of a buffer after its first bytes.                         *)
LEMMA Rest ==
  ASSUME NEW S, NEW s \in Seq(S), NEW n \in Nat
  PROVE  /\ SubSeq(s, n + 1, Len(s)) \in Seq(S)
         /\ Len(SubSeq(s, n + 1, Len(s))) <= Len(s)
OBVIOUS

LEMMA AvailableTyped == ASSUME TypeOK PROVE Available \in Nat /\ Available <= Len(rx)
BY Constants DEF TypeOK, Available

LEMMA GetModuleInfoKeepsModeInv ==
  ASSUME ModeInv, GetModuleInfo, UNCHANGED nature PROVE ModeInv'
<1>1. pc \in AtInfo /\ pc' = pc + 1
  BY Points DEF ModeInv, GetModuleInfo
<1>2. pc' \in 1..Len(Program) BY <1>1, Asleep, Table
<1>3. Size(Arg) \in Nat BY Constants DEF Size
<1>4. rx' \in Seq(Kinds) /\ Len(rx') <= RxLimit
  BY <1>3, Rest, Constants DEF GetModuleInfo, ModeInv, TypeOK
<1>5. status' \in {"success", "mismatch"} BY DEF GetModuleInfo, Result
<1>6. TypeOK'
  BY <1>2, <1>4, <1>5 DEF ModeInv, TypeOK, GetModuleInfo, module, nature
<1>7. ModuleFollows' BY DEF ModeInv, ModuleFollows, GetModuleInfo, module
<1> QED BY <1>1, <1>6, <1>7, SleepStepKeepsModeInv DEF GetModuleInfo

LEMMA CheckPassesKeepsModeInv ==
  ASSUME ModeInv, CheckPasses, UNCHANGED nature PROVE ModeInv'
<1>1. pc \in AtCheck /\ pc' = pc + 1
  BY Points DEF ModeInv, CheckPasses
<1>2. TypeOK'
  <2>1. pc' \in 1..Len(Program) BY <1>1, Table DEF AtCheck
  <2> QED BY <2>1 DEF ModeInv, TypeOK, CheckPasses, module, nature
<1>3. ModuleFollows' BY DEF ModeInv, ModuleFollows, CheckPasses, module
<1>4. CASE pc \in {10, 36}
  BY <1>1, <1>2, <1>3, <1>4, SleepStepKeepsModeInv DEF CheckPasses
<1>5. CASE pc = 51
  <2>1. waited = "success"
    BY <1>5, Table DEF CheckPasses, Outcome, Arg, Op
  <2>2. OnItsWay'
    BY <1>1, <1>5 DEF ModeInv, OnItsWay, CheckPasses, PreModeAt, PinsAt, Skipped
  <2>3. SeenIdle' BY <1>1, <1>5 DEF SeenIdle
  <2>4. RunsInNormalMode'
    BY <1>5, <2>1 DEF ModeInv, SeenIdle, Normal, RunsInNormalMode, CheckPasses, module
  <2> QED BY <1>2, <1>3, <2>2, <2>3, <2>4 DEF ModeInv
<1> QED BY <1>1, <1>4, <1>5 DEF AtCheck

LEMMA RestartKeepsModeInv == ASSUME ModeInv, Restart, UNCHANGED nature PROVE ModeInv'
<1>1. /\ pc' = 1 /\ preMode' = "init" /\ polls' = 0 /\ waited' = "success"
      /\ status' = "success" /\ turn' = 0 /\ pins' = "normal" /\ rx' = <<>>
      /\ modState' = IF AuxHigh THEN Looking("normal") ELSE modState
      /\ UNCHANGED <<modMode, owed, config>>
  BY DEF Restart
<1>2. TypeOK'
  BY <1>1, Table, Constants DEF ModeInv, TypeOK, nature, Looking, Modes
<1>3. OnItsWay' BY <1>1 DEF OnItsWay, PreModeAt, PinsAt, Skipped
<1>4. ModuleFollows' BY <1>1 DEF ModeInv, ModuleFollows, Looking, AuxHigh
<1>5. SeenIdle' BY <1>1 DEF SeenIdle
<1>6. RunsInNormalMode' BY <1>1, Table DEF RunsInNormalMode, Running
<1> QED BY <1>2, <1>3, <1>4, <1>5, <1>6 DEF ModeInv

(* The loop has its own steps, in the mode that begin() ended with.        *)
LEMMA LoopStepKeepsModeInv ==
  ASSUME ModeInv, TypeOK', ModuleFollows', UNCHANGED <<preMode, pins, modMode>>,
         pc \in AtOther, (pc' = pc + 1 /\ pc # 64) \/ pc' = LoopStart,
         modState = "switching" <=> modState' = "switching"
  PROVE  ModeInv'
<1>1. pc' \in 52..64 /\ pc \in 52..64 /\ pc' \notin Skipped
  BY Table DEF AtOther, Skipped
<1>2. OnItsWay' BY <1>1 DEF ModeInv, OnItsWay, PreModeAt, PinsAt
<1>3. SeenIdle' BY <1>1 DEF SeenIdle
<1>4. RunsInNormalMode' BY <1>1, Table DEF ModeInv, RunsInNormalMode, Running
<1> QED BY <1>2, <1>3, <1>4 DEF ModeInv

LEMMA LoopKeepsModeInv ==
  ASSUME ModeInv, UNCHANGED nature,
         ReceiveMessage \/ SendIsDue \/ LookAtAux \/ Transmit
  PROVE  ModeInv'
<1>1. /\ pc \in AtOther /\ ((pc' = pc + 1 /\ pc # 64) \/ pc' = LoopStart)
      /\ UNCHANGED <<preMode, pins, modMode>>
  BY Points, Table
  DEF ModeInv, ReceiveMessage, SendIsDue, LookAtAux, Transmit, AtOther, module
<1>2. pc' \in 1..Len(Program) BY <1>1, Table DEF AtOther
<1>3. rx' \in Seq(Kinds) /\ Len(rx') <= RxLimit
  <2>1. rx \in Seq(Kinds) /\ Len(rx) <= RxLimit BY DEF ModeInv, TypeOK
  <2>2. Available \in Nat BY AvailableTyped DEF ModeInv
  <2>3. rx' = rx \/ rx' = SubSeq(rx, Available + 1, Len(rx))
    BY DEF ReceiveMessage, SendIsDue, LookAtAux, Transmit
  <2>4. /\ SubSeq(rx, Available + 1, Len(rx)) \in Seq(Kinds)
        /\ Len(SubSeq(rx, Available + 1, Len(rx))) <= Len(rx)
    BY <2>1, <2>2, Rest
  <2>5. CASE rx' = rx BY <2>1, <2>5
  <2>6. CASE rx' = SubSeq(rx, Available + 1, Len(rx))
    <3>1. rx' \in Seq(Kinds) /\ Len(rx') <= Len(rx) BY <2>4, <2>6
    <3> QED BY <2>1, <3>1, Constants
  <2> QED BY <2>3, <2>5, <2>6
<1>4. turn' \in 0..(SendEvery - 1)
  BY Constants DEF ModeInv, TypeOK, ReceiveMessage, SendIsDue, LookAtAux, Transmit
<1>5. /\ modState' \in {"idle", "busy", "switching"}
      /\ modState' = modState \/ (modState' = "busy" /\ modState # "switching")
      /\ UNCHANGED <<polls, waited, status, owed, config>>
  BY DEF ModeInv, TypeOK, ReceiveMessage, SendIsDue, LookAtAux, Transmit, module
<1>6. TypeOK' BY <1>1, <1>2, <1>3, <1>4, <1>5 DEF ModeInv, TypeOK, nature
<1>7. ModuleFollows' BY <1>1, <1>5 DEF ModeInv, ModuleFollows
<1> QED BY <1>1, <1>5, <1>6, <1>7, LoopStepKeepsModeInv

(* The module's own steps.  It never leaves the mode that the pins ask for *)
(* but to switch.                                                          *)
LEMMA ModuleKeepsModeInv ==
  ASSUME ModeInv, UNCHANGED nature, Traffic \/ Deliver \/ Finish \/ SwitchEnds
  PROVE  ModeInv'
<1>1. UNCHANGED <<pc, preMode, polls, waited, status, turn, pins>>
  BY DEF Traffic, Deliver, Finish, SwitchEnds, driver
<1>2. OnItsWay' BY <1>1 DEF ModeInv, OnItsWay
<1>3. pc >= 49 => pins = "normal" BY DEF ModeInv, OnItsWay, PinsAt
<1>4. pc \in 1..64 BY Points DEF ModeInv
<1>5. Normal /\ pins = "normal" => Normal'
  BY DEF Normal, Traffic, Deliver, Finish, SwitchEnds, Looking
<1>6. SeenIdle' /\ RunsInNormalMode'
  BY <1>1, <1>3, <1>4, <1>5, Table
  DEF ModeInv, SeenIdle, RunsInNormalMode, Running, Normal
<1>7. CASE Traffic
  <2>1. owed' \in Seq(Kinds)
    BY <1>7, CopiesTyped, Constants DEF Traffic, Kinds
  <2>2. TypeOK' BY <1>1, <1>7, <2>1 DEF ModeInv, TypeOK, Traffic, nature
  <2>3. ModuleFollows' BY <1>7 DEF ModeInv, ModuleFollows, Traffic
  <2> QED BY <1>2, <1>6, <2>2, <2>3 DEF ModeInv
<1>8. CASE Deliver
  <2>1. owed' \in Seq(Kinds) /\ rx' \in Seq(Kinds) /\ Len(rx') <= RxLimit
    BY <1>8, Constants DEF ModeInv, TypeOK, Deliver
  <2>2. TypeOK' BY <1>1, <1>8, <2>1 DEF ModeInv, TypeOK, Deliver, nature
  <2>3. ModuleFollows' BY <1>8 DEF ModeInv, ModuleFollows, Deliver, driver
  <2> QED BY <1>2, <1>6, <2>2, <2>3 DEF ModeInv
<1>9. CASE Finish
  <2>1. TypeOK' BY <1>1, <1>9 DEF ModeInv, TypeOK, Finish, nature, Looking
  <2>2. ModuleFollows' BY <1>9 DEF ModeInv, ModuleFollows, Finish, driver, Looking
  <2> QED BY <1>2, <1>6, <2>1, <2>2 DEF ModeInv
<1>10. CASE SwitchEnds
  <2>1. TypeOK' BY <1>1, <1>10 DEF ModeInv, TypeOK, SwitchEnds, nature
  <2>2. ModuleFollows' BY <1>10 DEF ModeInv, ModuleFollows, SwitchEnds, driver
  <2> QED BY <1>2, <1>6, <2>1, <2>2 DEF ModeInv
<1> QED BY <1>7, <1>8, <1>9, <1>10

LEMMA NextKeepsModeInv == ModeInv /\ [Next]_vars => ModeInv'
<1> SUFFICES ASSUME ModeInv, [Next]_vars PROVE ModeInv'
  OBVIOUS
<1>1. CASE UNCHANGED vars
  BY <1>1
  DEF vars, driver, module, nature, ModeInv, TypeOK, OnItsWay, ModuleFollows, SeenIdle,
      Normal, RunsInNormalMode, Running
<1>2. CASE Next
  BY <1>2, PollLowKeepsModeInv, PollHighKeepsModeInv, SwitchModeKeepsModeInv,
     WritePinsKeepsModeInv, CleanBufferKeepsModeInv, CommandKeepsModeInv,
     GetModuleInfoKeepsModeInv, CheckPassesKeepsModeInv, RestartKeepsModeInv,
     LoopKeepsModeInv, ModuleKeepsModeInv
  DEF Next, DriverStep
<1> QED BY <1>1, <1>2

-----------------------------------------------------------------------------
(* The same steps, with a timely module.                                   *)
LEMMA PollLowKeepsStep == ASSUME ModeInv, InStep, timely, PollLow PROVE InStep'
<1>1. polls \in Nat /\ polls + 1 < TimeOutCount /\ pc' = pc /\ polls' = polls + 1
  BY Constants DEF PollLow, ModeInv, TypeOK
<1> QED BY <1>1, Constants
        DEF InStep, Sleeps, OwnAnswer, Configured, PollLow, module, Arg

LEMMA PollHighKeepsStep ==
  ASSUME ModeInv, ModeInv', InStep, timely, PollHigh PROVE InStep'
<1>1. /\ pc \in {1, 3, 5, 9, 11, 17, 18, 19, 25, 26, 27, 35, 37, 45, 47, 49, 50}
      /\ pc' = pc + 1 /\ polls' = 0
      /\ modState' = "idle" /\ config' = config
  BY Points, Waits DEF ModeInv, OnItsWay, PollHigh, AuxHigh, module
<1>2. Sleeps'
  <2> SUFFICES ASSUME pc' \in 6..48
               PROVE  modMode' = "sleep"
    BY <1>1, Constants DEF Sleeps
  <2> QED BY <1>1 DEF ModeInv, OnItsWay, ModuleFollows, PinsAt
<1>3. OwnAnswer' BY <1>1 DEF OwnAnswer, AtInfo
<1>4. Configured' BY <1>1 DEF InStep, Configured
<1> QED BY <1>2, <1>3, <1>4 DEF InStep

LEMMA SwitchModeKeepsStep ==
  ASSUME ModeInv, InStep, timely, SwitchMode PROVE InStep'
<1>1. /\ pc \in AtMode
      /\ Arg = IF pc \in {46, 52, 58} THEN "normal" ELSE "sleep"
      /\ preMode = PreModeAt(pc)
  BY Points DEF ModeInv, OnItsWay, SwitchMode
<1>2. /\ pc \in {2, 46} => pc' = pc + 1
      /\ pc \notin {2, 46} => pc' = pc + 4
  BY <1>1 DEF SwitchMode, Remember, PreModeAt, AtMode
<1>3. UNCHANGED <<polls, rx, modState, modMode, owed, config>>
  BY DEF SwitchMode, module
<1>4. Sleeps' BY <1>1, <1>2, <1>3 DEF InStep, Sleeps, AtMode, AfterCommand
<1>5. OwnAnswer' BY <1>1, <1>2 DEF OwnAnswer, AtMode, AtInfo
<1>6. Configured' BY <1>1, <1>2, <1>3 DEF InStep, Configured, AtMode
<1> QED BY <1>4, <1>5, <1>6 DEF InStep

LEMMA WritePinsKeepsStep ==
  ASSUME ModeInv, InStep, timely, WritePins PROVE InStep'
<1>1. pc \in {4, 48} /\ pc' = pc + 1
  BY Points DEF ModeInv, OnItsWay, WritePins, AtPins, Skipped
<1> QED BY <1>1 DEF InStep, Sleeps, OwnAnswer, Configured, AtInfo, WritePins

LEMMA CleanBufferKeepsStep ==
  ASSUME ModeInv, InStep, timely, CleanBuffer PROVE InStep'
<1>1. pc \in AtClean /\ pc' = pc + 1 /\ rx' = <<>>
      /\ UNCHANGED <<polls, modState, modMode, owed, config>>
  BY Points DEF ModeInv, CleanBuffer, module
<1>2. Sleeps' BY <1>1 DEF InStep, Sleeps, AtClean, AfterCommand
<1>3. OwnAnswer' BY <1>1 DEF OwnAnswer, AtClean, AtInfo
<1>4. Configured' BY <1>1 DEF InStep, Configured, AtClean
<1> QED BY <1>2, <1>3, <1>4 DEF InStep

(* A command is written to a module that sleeps and is idle.               *)
LEMMA CommandReaches ==
  ASSUME ModeInv, InStep, timely, At("command")
  PROVE  modMode = "sleep" /\ modState = "idle" /\ owed = <<>>
<1>1. pc \in AtCommand BY Points DEF ModeInv
<1> QED BY <1>1 DEF ModeInv, InStep, Sleeps, ModuleFollows, AtCommand, AfterCommand

LEMMA CommandKeepsStep ==
  ASSUME ModeInv, InStep, timely, Command PROVE InStep'
<1>1. /\ pc \in AtCommand /\ pc' = pc + 1
      /\ UNCHANGED <<polls, rx, modMode>>
  BY Points DEF ModeInv, Command
<1>2. modMode = "sleep" /\ modState = "idle"
  BY CommandReaches DEF Command
<1>3. /\ modState' = "busy" /\ owed' \in Answers(Arg)
      /\ config' = IF Arg = "write" THEN "asked" ELSE config
  BY <1>2 DEF Command, Take, AuxHigh
<1>4. Sleeps' BY <1>1, <1>2, <1>3 DEF InStep, Sleeps, AtCommand, AfterCommand
<1>5. OwnAnswer'
  <2>1. pc' \notin {7, 33, 43} BY <1>1 DEF AtCommand
  <2>2. ASSUME pc' \in AtInfo PROVE rx' \in Seq({Arg'}) /\ owed' \in Seq({Arg'})
    <3>1. pc \in {7, 33, 43} BY <1>1, <2>2 DEF AtCommand, AtInfo
    <3>2. rx' = <<>> BY <1>1, <3>1 DEF InStep, OwnAnswer
    <3>3. \/ Arg = "read" /\ Arg' = "config"
          \/ Arg = "version" /\ Arg' = "version"
      BY <1>1, <3>1, Table DEF Arg, Op
    <3>4. /\ Copies("config", ConfigSize) \in Seq({"config"})
          /\ Copies("version", VersionSize) \in Seq({"version"})
      BY CopiesTyped, Constants DEF Kinds
    <3>5. owed' \in Seq({Arg'})
      BY <1>3, <3>3, <3>4, Zenon DEF Answers
    <3> QED BY <3>2, <3>5
  <2> QED BY <2>1, <2>2 DEF OwnAnswer
<1>6. Configured'
  <2>1. CASE pc = 7 BY <1>1, <2>1 DEF Configured
  <2>2. CASE pc = 16 BY <1>3, <2>2, Table DEF Configured, Arg, Op
  <2>3. CASE pc \in {24, 33, 43} BY <1>3, <2>3 DEF InStep, Configured
  <2> QED BY <1>1, <2>1, <2>2, <2>3 DEF AtCommand
<1> QED BY <1>4, <1>5, <1>6 DEF InStep

LEMMA GetModuleInfoKeepsStep ==
  ASSUME ModeInv, InStep, timely, GetModuleInfo PROVE InStep'
<1>1. /\ pc \in AtInfo /\ pc' = pc + 1
      /\ UNCHANGED <<polls, modState, modMode, owed, config>>
  BY Points DEF ModeInv, GetModuleInfo, module
<1>2. Sleeps' BY <1>1 DEF InStep, Sleeps, AtInfo, AfterCommand
<1>3. OwnAnswer' BY <1>1 DEF OwnAnswer, AtInfo
<1>4. Configured' BY <1>1 DEF InStep, Configured, AtInfo
<1> QED BY <1>2, <1>3, <1>4 DEF InStep

LEMMA CheckKeepsStep ==
  ASSUME ModeInv, InStep, timely, CheckPasses \/ Restart PROVE InStep'
<1>1. /\ pc \in AtCheck /\ (pc' = pc + 1 \/ pc' = 1)
      /\ pc' = pc + 1 => UNCHANGED <<polls, modState, modMode, config>>
      /\ pc' = 1 => polls' = 0
  BY Points DEF ModeInv, CheckPasses, Restart, module, AtCheck
<1>2. Sleeps' BY <1>1, Constants DEF InStep, Sleeps, AtCheck, AfterCommand
<1>3. OwnAnswer' BY <1>1 DEF OwnAnswer, AtCheck, AtInfo
<1>4. Configured' BY <1>1 DEF InStep, Configured, AtCheck
<1> QED BY <1>2, <1>3, <1>4 DEF InStep

LEMMA LoopKeepsStep ==
  ASSUME ModeInv, InStep, timely,
         ReceiveMessage \/ SendIsDue \/ LookAtAux \/ Transmit
  PROVE  InStep'
<1>1. /\ pc \in 52..64 /\ pc' \in 52..65
      /\ UNCHANGED <<polls, config>>
  BY Points, Table
  DEF ModeInv, ReceiveMessage, SendIsDue, LookAtAux, Transmit, module
<1> QED BY <1>1 DEF InStep, Sleeps, OwnAnswer, Configured, AtInfo

LEMMA ModuleKeepsStep ==
  ASSUME ModeInv, InStep, timely, Traffic \/ Deliver \/ Finish \/ SwitchEnds
  PROVE  InStep'
<1>1. UNCHANGED <<pc, polls, config, pins>> /\ Arg' = Arg
  BY DEF Traffic, Deliver, Finish, SwitchEnds, driver, Arg
<1>2. Configured' BY <1>1 DEF InStep, Configured
<1>3. pc \in 6..48 => pins = "sleep" BY DEF ModeInv, OnItsWay, PinsAt
<1>4. Sleeps'
  BY <1>1, <1>3 DEF InStep, ModeInv, ModuleFollows, Sleeps, Traffic, Deliver, Finish,
                    SwitchEnds, Looking, AuxHigh, AfterCommand
<1>5. OwnAnswer'
  <2>1. pc \in {7, 33, 43} => UNCHANGED rx
    BY DEF InStep, ModeInv, ModuleFollows, Sleeps, Traffic, Deliver, Finish, SwitchEnds,
           AfterCommand
  <2>2. ASSUME pc \in AtInfo PROVE rx' \in Seq({Arg}) /\ owed' \in Seq({Arg})
    <3>1. rx \in Seq({Arg}) /\ owed \in Seq({Arg}) /\ modMode = "sleep"
      BY <2>2 DEF InStep, OwnAnswer, Sleeps, AtInfo
    <3>2. CASE Deliver BY <3>1, <3>2 DEF Deliver
    <3>3. CASE Traffic BY <3>1, <3>3 DEF Traffic
    <3>4. CASE Finish \/ SwitchEnds BY <3>1, <3>4 DEF Finish, SwitchEnds
    <3> QED BY <3>2, <3>3, <3>4
  <2> QED BY <1>1, <2>1, <2>2 DEF InStep, OwnAnswer
<1> QED BY <1>2, <1>4, <1>5 DEF InStep

LEMMA NextKeepsInv == Inv /\ [Next]_vars => Inv'
<1> SUFFICES ASSUME Inv, [Next]_vars PROVE Inv'
  OBVIOUS
<1>1. ModeInv /\ ModeInv' BY NextKeepsModeInv DEF Inv
<1>2. timely' = timely BY DEF Next, vars, nature
<1>3. ASSUME timely PROVE InStep'
  <2>1. InStep BY <1>3 DEF Inv, TimelyInv
  <2>2. CASE UNCHANGED vars
    BY <2>1, <2>2
    DEF vars, driver, module, InStep, Sleeps, OwnAnswer, Configured, Arg
  <2>3. CASE Next
    BY <1>1, <1>3, <2>1, <2>3, PollLowKeepsStep, PollHighKeepsStep, SwitchModeKeepsStep,
       WritePinsKeepsStep, CleanBufferKeepsStep, CommandKeepsStep,
       GetModuleInfoKeepsStep, CheckKeepsStep, LoopKeepsStep, ModuleKeepsStep
    DEF Next, DriverStep
  <2> QED BY <2>2, <2>3
<1> QED BY <1>1, <1>2, <1>3 DEF Inv, TimelyInv

LEMMA InvHolds == Spec => []Inv
BY InitEstablishesInv, NextKeepsInv, PTL DEF Spec

-----------------------------------------------------------------------------
(* Every variable has its type, and the driver is at an entry of Program,  *)
(* for any sizes and bounds (E32TTL100.cpp).                               *)
THEOREM TypeCorrect == Spec => []TypeOK
<1>1. Inv => TypeOK BY DEF Inv, ModeInv
<1> QED BY InvHolds, <1>1, PTL

(* Nobody sends or receives before the module is in the normal mode,       *)
(* however long it keeps AUX low: isSameMode()'s static and the unchecked  *)
(* waits do no harm, as begin() looks at its last wait                     *)
(* (E32TTL100.cpp:45-61, 64-75).                                         *)
THEOREM LoopRunsInNormalMode == Spec => []RunsInNormalMode
<1>1. Inv => RunsInNormalMode BY DEF Inv, ModeInv
<1> QED BY InvHolds, <1>1, PTL

(* A timely module has taken the configuration when the loop runs, though  *)
(* nobody looks at what the write returned.                                *)
THEOREM LoopRunsConfigured == Spec => []RunsConfigured
<1>1. Inv => RunsConfigured
  BY Table DEF Inv, TimelyInv, InStep, Configured, RunsConfigured, Running, ModeInv, TypeOK
<1> QED BY InvHolds, <1>1, PTL

(* No command is sent as a message by a timely module                      *)
(* (executeCommandInSleepMode()).                                          *)
THEOREM CommandsReachASleepingModule == Spec => CommandsInSleepMode
<1>1. Inv => (timely /\ At("command") => modMode = "sleep")
  BY CommandReaches DEF Inv, TimelyInv
<1>2. Inv /\ [Next]_vars
        => [timely /\ At("command") /\ pc' # pc => modMode = "sleep"]_vars
  BY <1>1
<1> QED BY InvHolds, <1>2, PTL DEF Spec, CommandsInSleepMode

(* The bytes that getModuleInfo() takes are of the answer it waits for,    *)
(* with a timely module (getModuleInfo(), the callers' cleanUARTBuffer()). *)
LEMMA TakesOwnAnswer ==
  ASSUME Inv, timely, At("info"), NEW kind \in Kinds, Arg = kind, Fits(kind)
  PROVE  \A i \in 1..Size(kind) : rx[i] = kind
<1>1. rx \in Seq({kind})
  BY Points DEF Inv, ModeInv, TimelyInv, InStep, OwnAnswer
<1>2. Size(kind) \in Nat /\ Size(kind) <= Len(rx)
  BY AvailableTyped, Constants DEF Inv, ModeInv, Fits, Size
<1> QED BY <1>1, <1>2

(* The answer that getModuleInfo() reads is the one to its own command     *)
(* (E32TTL100.cpp, getModuleInfo() and the readers that call it).          *)
THEOREM AnswersAreOwn == Spec => ReadsOwnAnswer
<1>1. Inv /\ [Next]_vars
        => [\A kind \in Kinds :
              timely /\ At("info") /\ Arg = kind /\ pc' # pc /\ Fits(kind)
                => \A i \in 1..Size(kind) : rx[i] = kind]_vars
  BY TakesOwnAnswer
<1> QED BY InvHolds, <1>1, PTL DEF Spec, ReadsOwnAnswer
=============================================================================
