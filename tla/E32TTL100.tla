----------------------------- MODULE E32TTL100 -----------------------------
(***************************************************************************)
(* The driver of the E32-TTL-100 radio module and the sketch that uses it. *)
(* The driver steers the module with two mode pins, watches its AUX pin    *)
(* (low: busy) and talks to it over a UART: commands and their answers in  *)
(* the sleep mode, messages to and from the air in the normal mode.  The   *)
(* module works on its own beside the driver.                              *)
(***************************************************************************)
EXTENDS Integers, Sequences

CONSTANTS
  TimeOutCount,   \* TIME_OUT_CNT, 100 looks at AUX, 100 ms apart
  SendEvery,      \* 100: the loop sends in every hundredth pass
  CountSize,      \* 2^8: the number of waiting bytes is kept in a uint8_t
  ConfigSize,     \* sizeof(E32_CONFIG_t), 6
  VersionSize,    \* sizeof(E32_MODULE_VERSION_t), 4
  RxLimit,        \* capacity of the UART's receive buffer
  RadioLimit      \* bound: longest message heard from the air

ASSUME E32Assumption ==
  /\ {TimeOutCount, SendEvery, CountSize, ConfigSize, VersionSize} \subseteq Nat \ {0}
  /\ RxLimit \in Nat /\ RadioLimit \in Nat
  /\ ConfigSize # VersionSize

VARIABLES
  (* The driver and the sketch.                                            *)
  pc,        \* the place in Program
  preMode,   \* isSameMode()'s static pre_mode
  polls,     \* waitAuxPinHigh()'s count
  waited,    \* what the last waitAuxPinHigh() returned
  status,    \* what the last command with an answer returned
  turn,      \* count of the sketch, as far as count % SendEvery
  (* The wires and the module.                                             *)
  pins,      \* the mode that M0 and M1 ask for
  rx,        \* bytes in the UART's receive buffer, by where they come from
  modState,  \* "idle", "busy", or "switching" to another mode
  modMode,   \* the mode the module is in
  owed,      \* bytes it is still going to hand out
  config,    \* the configuration it keeps
  (* What kind of module it is, from the start and for ever.               *)
  timely,    \* with messages too, AUX is never low as long as a wait lasts
  prompt     \* it answers a command within the 50 ms allowed

driver == <<pc, preMode, polls, waited, status, turn>>
module == <<modState, modMode, owed, config>>
nature == <<timely, prompt>>
vars   == <<driver, pins, rx, module, nature>>

Modes == {"normal", "sleep"}
Kinds == {"config", "version", "radio"}

(***************************************************************************)
(* The calls of setup() and loop() in the order the code makes them: one   *)
(* entry for each thing the driver does to a wire or a decision it takes.  *)
(***************************************************************************)
Op(name, arg) == [name |-> name, arg |-> arg]
Wait  == Op("wait", "aux")
Clean == Op("clean", "uart")
Check == Op("check", "status")

FaultySwitch(mode) == <<Op("mode", mode), Wait, Wait, Op("pins", mode)>>

Switch(mode) == <<Op("mode", mode), Wait, Op("pins", mode), Wait>>

FaultyInSleepMode(body) == Switch("sleep") \o body

InSleepMode(body) == <<Wait>> \o Switch("sleep") \o body \o <<Wait>>

ReadConfig   == <<Clean, Op("command", "read"), Op("info", "config")>>
WriteConfig  == <<Op("command", "write"), Wait>>
ResetModule  == <<Op("command", "reset"), Wait>>
ReadVersion  == <<Clean, Op("command", "version"), Op("info", "version")>>

Configure ==
  InSleepMode(WriteConfig) \o InSleepMode(ResetModule) \o InSleepMode(ReadConfig)

Begin ==
  InSleepMode(ReadConfig) \o <<Check>> \o Configure \o <<Check>>
    \o InSleepMode(ReadVersion) \o Switch("normal")
    \o <<Wait, Op("check", "waited")>>

Loop ==
  Switch("normal") \o <<Op("receive", "uart"), Op("due", "count")>>
    \o Switch("normal") \o <<Op("look", "aux"), Op("look", "aux"), Op("transmit", "uart")>>

Program   == Begin \o Loop
LoopStart == Len(Begin) + 1

At(name)  == Program[pc].name = name
Arg       == Program[pc].arg
Running   == pc >= LoopStart

AuxHigh == modState = "idle"

Copies(kind, n) == [i \in 1..n |-> kind]

(* A module that looks at its pins again starts to switch if they ask for  *)
(* another mode.                                                           *)
Looking(asked) == IF asked = modMode THEN "idle" ELSE "switching"

Init ==
  /\ pc = 1 /\ preMode = "init" /\ polls = 0 /\ waited = "success"
  /\ status = "success" /\ turn = 0
  /\ pins = "normal" /\ rx = <<>>
  /\ modMode \in Modes /\ modState \in {"busy", Looking("normal")}
  /\ owed = <<>> /\ config = "other"
  /\ timely \in BOOLEAN /\ prompt \in BOOLEAN

-----------------------------------------------------------------------------
(* waitAuxPinHigh(): looks until AUX is high or the looks are used up.     *)
FaultyExpired(n) == n + 1 >= TimeOutCount

Expired(n) == n >= TimeOutCount

AuxSeen(n) == IF Expired(n) THEN "timeout" ELSE "success"

(* A timely module is busy for less than all the looks.  And no module     *)
(* changes its mode for that long: the looks take 10 s, a change, without  *)
(* anything to send or to store, milliseconds.                             *)
PollLow ==
  /\ At("wait") /\ ~AuxHigh
  /\ timely \/ modState = "switching" => polls + 1 < TimeOutCount
  /\ IF polls < TimeOutCount
       THEN polls' = polls + 1 /\ UNCHANGED <<pc, waited>>
       ELSE polls' = 0 /\ waited' = AuxSeen(polls + 1) /\ pc' = pc + 1
  /\ UNCHANGED <<preMode, status, turn, pins, rx, module>>

PollHigh ==
  /\ At("wait") /\ AuxHigh
  /\ polls' = 0 /\ waited' = AuxSeen(polls) /\ pc' = pc + 1
  /\ UNCHANGED <<preMode, status, turn, pins, rx, module>>

(* switchMode(): nothing to do in the mode it remembers.                   *)
FaultyRemember(mode) ==
  IF preMode # "init" THEN pc' = pc + 4 /\ UNCHANGED preMode
                      ELSE pc' = pc + 1 /\ preMode' = mode

Remember(mode) ==
  IF preMode = mode THEN pc' = pc + 4 /\ UNCHANGED preMode
                    ELSE pc' = pc + 1 /\ preMode' = mode

SwitchMode ==
  /\ At("mode") /\ Remember(Arg)
  /\ UNCHANGED <<polls, waited, status, turn, pins, rx, module>>

(* The 10 ms switchMode() waits after its last look at AUX are time for    *)
(* the module to see its pins: an idle one sees them at once.              *)
WritePins ==
  /\ At("pins") /\ pc' = pc + 1
  /\ pins' = Arg
  /\ modState' = IF AuxHigh THEN Looking(Arg) ELSE modState
  /\ UNCHANGED <<preMode, polls, waited, status, turn, rx, modMode, owed, config>>

FaultyCleanBuffer ==
  /\ At("clean") /\ pc' = pc + 1
  /\ UNCHANGED <<preMode, polls, waited, status, turn, pins, rx, module>>

CleanBuffer ==
  /\ At("clean") /\ pc' = pc + 1 /\ rx' = <<>>
  /\ UNCHANGED <<preMode, polls, waited, status, turn, pins, module>>

-----------------------------------------------------------------------------
(* A command reaches a module that sleeps and is idle; one in the normal   *)
(* mode takes the bytes for a message and sends them; else they are lost.  *)
Answers(command) ==
  CASE command = "read"    -> {Copies("config", ConfigSize)}
    [] command = "version" -> {Copies("version", VersionSize)}
    [] command = "write"   -> {<<>>, Copies("config", ConfigSize)}
    [] command = "reset"   -> {<<>>}

Take(command) ==
  \/ /\ AuxHigh /\ modMode = "sleep"
     /\ modState' = "busy" /\ owed' \in Answers(command)
     /\ config' = IF command = "write" THEN "asked" ELSE config
  \/ /\ modMode = "normal" /\ modState # "switching"
     /\ modState' = "busy" /\ UNCHANGED <<owed, config>>
  \/ /\ modState = "switching" \/ (modMode = "sleep" /\ ~AuxHigh)
     /\ UNCHANGED <<modState, owed, config>>

Command ==
  /\ At("command") /\ pc' = pc + 1
  /\ Take(Arg)
  /\ UNCHANGED <<preMode, polls, waited, status, turn, pins, rx, modMode>>

(* available(), as the code keeps it.                                      *)
Available == Len(rx) % CountSize

Size(kind) == IF kind = "config" THEN ConfigSize ELSE VersionSize

Fits(kind) == Available = Size(kind)

Result(kind) ==
  IF kind = "version" \/ Fits(kind) THEN "success" ELSE "mismatch"

(* getModuleInfo(): the answer is taken only when it has the right size,   *)
(* else all is thrown away.  readModuleVersion() reports success anyway.   *)
GetModuleInfo ==
  /\ At("info") /\ pc' = pc + 1
  /\ prompt => owed = <<>>
  /\ rx' = IF Fits(Arg) THEN SubSeq(rx, Size(Arg) + 1, Len(rx)) ELSE <<>>
  /\ status' = Result(Arg)
  /\ UNCHANGED <<preMode, polls, waited, turn, pins, module>>

Outcome(what) == IF what = "status" THEN status ELSE waited

CheckPasses ==
  /\ At("check") /\ Outcome(Arg) = "success" /\ pc' = pc + 1
  /\ UNCHANGED <<preMode, polls, waited, status, turn, pins, rx, module>>

(* begin() fails and setup() restarts the ESP32; the module goes on, with  *)
(* the mode pins back at their level after a reset.                        *)
Restart ==
  /\ At("check") /\ Outcome(Arg) # "success"
  /\ pc' = 1 /\ preMode' = "init" /\ polls' = 0 /\ waited' = "success"
  /\ status' = "success" /\ turn' = 0
  /\ pins' = "normal" /\ rx' = <<>>
  /\ modState' = IF AuxHigh THEN Looking("normal") ELSE modState
  /\ UNCHANGED <<modMode, owed, config>>

-----------------------------------------------------------------------------
(* loop(): receiveMessage(), then in its turn sendMessageBroadCast().      *)
ReceiveMessage ==
  /\ At("receive") /\ pc' = pc + 1
  /\ rx' = SubSeq(rx, Available + 1, Len(rx))
  /\ UNCHANGED <<preMode, polls, waited, status, turn, pins, module>>

FaultySendIsDue ==
  /\ At("due")
  /\ turn' = turn + 1
  /\ pc' = IF turn = 0 THEN pc + 1 ELSE LoopStart
  /\ UNCHANGED <<preMode, polls, waited, status, pins, rx, module>>

SendIsDue ==
  /\ At("due")
  /\ turn' = (turn + 1) % SendEvery
  /\ pc' = IF turn = 0 THEN pc + 1 ELSE LoopStart
  /\ UNCHANGED <<preMode, polls, waited, status, pins, rx, module>>

LookAtAux ==
  /\ At("look")
  /\ pc' = IF AuxHigh THEN pc + 1 ELSE LoopStart
  /\ UNCHANGED <<preMode, polls, waited, status, turn, pins, rx, module>>

Transmit ==
  /\ At("transmit") /\ pc' = LoopStart
  /\ modState' = IF modState = "switching" THEN modState ELSE "busy"
  /\ UNCHANGED <<preMode, polls, waited, status, turn, pins, rx, modMode, owed, config>>

-----------------------------------------------------------------------------
(* The module.  In the normal mode there may be traffic on the air at any  *)
(* time, with a message for us or none.                                    *)
Traffic ==
  /\ AuxHigh /\ modMode = "normal" /\ modState' = "busy"
  /\ \E n \in 0..RadioLimit : owed' = Copies("radio", n)
  /\ UNCHANGED <<driver, pins, rx, modMode, config>>

Deliver ==
  /\ owed # <<>> /\ owed' = Tail(owed)
  /\ rx' = IF Len(rx) < RxLimit THEN Append(rx, Head(owed)) ELSE rx
  /\ UNCHANGED <<driver, pins, modState, modMode, config>>

Finish ==
  /\ modState = "busy" /\ owed = <<>>
  /\ modState' = Looking(pins)
  /\ UNCHANGED <<driver, pins, rx, modMode, owed, config>>

SwitchEnds ==
  /\ modState = "switching"
  /\ modState' = "idle" /\ modMode' = pins
  /\ UNCHANGED <<driver, pins, rx, owed, config>>

DriverStep ==
  \/ PollLow \/ PollHigh \/ SwitchMode \/ WritePins \/ CleanBuffer \/ Command
  \/ GetModuleInfo \/ CheckPasses \/ Restart
  \/ ReceiveMessage \/ SendIsDue \/ LookAtAux \/ Transmit

Next ==
  /\ DriverStep \/ Traffic \/ Deliver \/ Finish \/ SwitchEnds
  /\ UNCHANGED nature

Spec == Init /\ [][Next]_vars

(* The driver's task always gets on, a timely module is seen idle before   *)
(* the looks are used up however much traffic there is, and it finishes    *)
(* what it does.                                                           *)
Fairness ==
  /\ WF_vars(DriverStep /\ UNCHANGED nature)
  /\ SF_vars(PollHigh /\ timely /\ UNCHANGED nature)
  /\ WF_vars(Deliver /\ UNCHANGED nature)
  /\ WF_vars(Finish /\ UNCHANGED nature)
  /\ WF_vars(SwitchEnds /\ UNCHANGED nature)

FairSpec == Spec /\ Fairness

-----------------------------------------------------------------------------
(* Every variable has its type; the driver is at an entry of Program.      *)
TypeOK ==
  /\ pc \in 1..Len(Program) /\ preMode \in Modes \cup {"init"}
  /\ polls \in 0..TimeOutCount /\ waited \in {"success", "timeout"}
  /\ status \in {"success", "mismatch"} /\ turn \in 0..(SendEvery - 1)
  /\ pins \in Modes /\ modMode \in Modes
  /\ rx \in Seq(Kinds) /\ Len(rx) <= RxLimit
  /\ modState \in {"idle", "busy", "switching"}
  /\ owed \in Seq(Kinds) /\ config \in {"other", "asked"}
  /\ timely \in BOOLEAN /\ prompt \in BOOLEAN

(* executeCommandInSleepMode(): no command is written to a module that is  *)
(* not in the sleep mode, where the radio would send the command's bytes   *)
(* as a message, as long as the module is timely.                          *)
CommandsInSleepMode ==
  [][timely /\ At("command") /\ pc' # pc => modMode = "sleep"]_vars

(* The loop runs with a timely module only when that took the              *)
(* configuration configureModule() asks for, although nobody looks at what *)
(* the write returned: it is not written while the module is still busy.   *)
RunsConfigured == timely /\ Running => config = "asked"

(* However long the module keeps AUX low, begin() lets nobody send or      *)
(* receive before the module is in the normal mode, and isSameMode() does  *)
(* not keep it in another one.                                             *)
RunsInNormalMode == Running => modMode = "normal" /\ modState # "switching"

(* What getModuleInfo() takes for an answer is the answer to the command   *)
(* before it, not bytes from the air or of another command, as long as the *)
(* module is timely.                                                       *)
ReadsOwnAnswer ==
  [][\A kind \in Kinds :
       timely /\ At("info") /\ Arg = kind /\ pc' # pc /\ Fits(kind)
         => \A i \in 1..Size(kind) : rx[i] = kind]_vars

(* The sketch gets past begin() and stays there with a timely and prompt   *)
(* module, whatever that was doing when the ESP32 started.                 *)
SetupEnds == timely /\ prompt => <>[]Running

(* begin() is told when the version could not be read: it has a message    *)
(* for that.                                                               *)
VersionFailureReported ==
  [][At("info") /\ Arg = "version" /\ pc' # pc /\ ~Fits("version")
       => status' # "success"]_vars
=============================================================================
