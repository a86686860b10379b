---------------------------- MODULE ThreeButtons ----------------------------
(***************************************************************************)
(* The firmware of the three buttons: an edge on a pin raises an           *)
(* interrupt; its handler drops it if it comes too soon after the last one *)
(* it took, else it sets the button's lamp and, at a release, has the      *)
(* engine put an operation into a queue which the engine's loop empties.   *)
(***************************************************************************)
EXTENDS Integers, Sequences

CONSTANTS
  Buttons,        \* of BUTTON_1 .. BUTTON_3 those that are fitted
  ClockSize,      \* millis() wraps at it: 2^32
  Debounce,       \* DEBOUNCE_WAIT_TIME, 20 ms
  LongPress,      \* 3000 ms
  QueueCapacity   \* 20

ASSUME ButtonsAssumption ==
  /\ Buttons \subseteq {"BUTTON_1", "BUTTON_2", "BUTTON_3"}
  /\ ClockSize \in Nat \ {0} /\ QueueCapacity \in Nat \ {0}
  /\ Debounce \in Nat /\ LongPress \in Nat

VARIABLES
  now,            \* millis()
  debounceTime,   \* g_button<n>DebounceTime
  pressedTime,    \* g_button<n>PressedTime
  lit,            \* the buttons whose lamp is on
  pc,             \* where the engine is: "begin", "attach" or "loop"
  queue,          \* g_buttonOperationQueue
  operation,      \* g_buttonOperation
  stuck,          \* a handler wants to wait for room in the queue
  (* The pins and the interrupt controller.                                *)
  down,           \* the buttons whose pin is LOW
  raised,         \* the buttons whose interrupt waits to be handled
  (* History: the buttons of which an edge has raised an interrupt since   *)
  (* the program started, and when the last one did; how long ago the last *)
  (* interrupt was taken, how long the button has been up and, gaps up to  *)
  (* Debounce not counted, down, as far as they matter.                    *)
  noticed, changedAt, takenAgo, upFor, heldFor

times   == <<debounceTime, pressedTime>>
engine  == <<pc, queue, operation>>
edges   == <<noticed, changedAt>>
held    == <<upFor, heldFor>>
history == <<takenAgo, held>>
vars    == <<now, times, lit, engine, stuck, down, raised, edges, history>>

Operations == {"OP_001", "OP_002", "OP_003", "OP_004", "OP_005"}

Elapsed(since) == (now - since) % ClockSize

Zero == [b \in Buttons |-> 0]

Init ==
  /\ now = 0 /\ debounceTime = Zero /\ pressedTime = Zero /\ lit = {}
  /\ pc = "begin" /\ queue = <<>> /\ operation = "none" /\ stuck = FALSE
  /\ down \in SUBSET Buttons /\ raised = {}
  /\ noticed = {} /\ changedAt = Zero
  /\ upFor = [b \in Buttons |-> IF b \in down THEN 0 ELSE Debounce + 1]
  /\ heldFor = Zero
  /\ takenAgo = [b \in Buttons |-> Debounce + 1]

-----------------------------------------------------------------------------
(* ButtonManager.begin() attaches the interrupts, attach() the engine.     *)
Begin ==
  /\ pc = "begin" /\ pc' = "attach"
  /\ UNCHANGED <<now, times, lit, queue, operation, stuck, down, raised, edges, history>>

Attach ==
  /\ pc = "attach" /\ ~stuck /\ pc' = "loop"
  /\ UNCHANGED <<now, times, lit, queue, operation, stuck, down, raised, edges, history>>

(* processButtonEvents(); with nothing in the queue it changes nothing.    *)
FaultyProcessButtonEvents ==
  /\ pc = "loop" /\ ~stuck /\ queue # <<>>
  /\ operation' = Head(queue)
  /\ UNCHANGED <<now, times, lit, pc, queue, stuck, down, raised, edges, history>>

ProcessButtonEvents ==
  /\ pc = "loop" /\ ~stuck /\ queue # <<>>
  /\ operation' = Head(queue) /\ queue' = Tail(queue)
  /\ UNCHANGED <<now, times, lit, pc, stuck, down, raised, edges, history>>

-----------------------------------------------------------------------------
(* The 32-bit difference of two times, as the int it is passed on in.      *)
PressedTime(b) ==
  LET d == Elapsed(pressedTime[b])
  IN  IF 2 * d >= ClockSize THEN d - ClockSize ELSE d

IsLong(b) == PressedTime(b) > LongPress

(* OnButtonPressed(): the operation that a release stands for.             *)
OperationOf(b) ==
  CASE b = "BUTTON_1" -> "OP_001"
    [] b = "BUTTON_2" -> IF IsLong(b) THEN "OP_002" ELSE "OP_003"
    [] b = "BUTTON_3" -> IF IsLong(b) THEN "OP_004" ELSE "OP_005"

FaultyAccepts(b) == now - debounceTime[b] > Debounce

FaultyAcceptsEarly(b) == Elapsed(debounceTime[b]) >= Debounce

Accepts(b) == Elapsed(debounceTime[b]) > Debounce

Handling(b) ==
  /\ b \in raised /\ ~stuck /\ raised' = raised \ {b}
  /\ UNCHANGED <<now, down, edges, held, pc, operation>>

HandleTooSoon(b) ==
  /\ Handling(b) /\ ~Accepts(b)
  /\ UNCHANGED <<times, lit, queue, stuck, takenAgo>>

Taking(b) ==
  /\ Handling(b) /\ Accepts(b)
  /\ takenAgo' = [takenAgo EXCEPT ![b] = 0]

HandlePress(b) ==
  /\ Taking(b) /\ b \in down
  /\ lit' = lit \cup {b}
  /\ pressedTime' = [pressedTime EXCEPT ![b] = now]
  /\ debounceTime' = [debounceTime EXCEPT ![b] = now]
  /\ UNCHANGED <<queue, stuck>>

FaultyHandleRelease(b) ==
  /\ Taking(b) /\ b \notin down
  /\ lit' = lit \ {b}
  /\ queue' = IF pc = "loop" THEN Append(queue, OperationOf(b)) ELSE queue
  /\ debounceTime' = [debounceTime EXCEPT ![b] = now]
  /\ UNCHANGED <<pressedTime, stuck>>

(* Before the engine is attached notify() tells nobody.                    *)
HandleRelease(b) ==
  /\ Taking(b) /\ b \notin down
  /\ pc = "loop" => Len(queue) < QueueCapacity
  /\ lit' = lit \ {b}
  /\ queue' = IF pc = "loop" THEN Append(queue, OperationOf(b)) ELSE queue
  /\ debounceTime' = [debounceTime EXCEPT ![b] = now]
  /\ UNCHANGED <<pressedTime, stuck>>

(* xQueueSend() with portMAX_DELAY on a full queue, called in an interrupt *)
(* handler: undefined.  The task that would make room cannot run; what     *)
(* happens is a hang or a panic, which restarts the ESP32.                 *)
HandleReleaseNoRoom(b) ==
  /\ Taking(b) /\ b \notin down
  /\ pc = "loop" /\ Len(queue) = QueueCapacity
  /\ lit' = lit \ {b} /\ stuck' = TRUE
  /\ UNCHANGED <<times, queue>>

Restart ==
  /\ stuck
  /\ now' = 0 /\ debounceTime' = Zero /\ pressedTime' = Zero /\ lit' = {}
  /\ pc' = "begin" /\ queue' = <<>> /\ operation' = "none" /\ stuck' = FALSE
  /\ raised' = {} /\ noticed' = {} /\ changedAt' = Zero
  /\ UNCHANGED <<down, history>>

-----------------------------------------------------------------------------
(* A finger, or a contact that bounces: several edges before the handler   *)
(* runs raise one interrupt.                                               *)
Edge(b) ==
  /\ down' = IF b \in down THEN down \ {b} ELSE down \cup {b}
  /\ IF pc = "begin"
       THEN UNCHANGED <<raised, edges>>
       ELSE /\ raised' = raised \cup {b} /\ noticed' = noticed \cup {b}
            /\ changedAt' = [changedAt EXCEPT ![b] = now]
  /\ UNCHANGED <<now, times, lit, engine, stuck, history>>

AtMost(n, limit) == IF n < limit THEN n ELSE limit

(* Handlers run within the millisecond of the edge, or never again.        *)
Tick ==
  /\ raised = {} \/ stuck
  /\ now' = (now + 1) % ClockSize
  /\ takenAgo' = [b \in Buttons |-> AtMost(takenAgo[b] + 1, Debounce + 1)]
  /\ upFor' = [b \in Buttons |->
       IF b \in down THEN 0 ELSE AtMost(upFor[b] + 1, Debounce + 1)]
  /\ heldFor' = [b \in Buttons |->
       IF upFor'[b] > Debounce \/ (b \notin down /\ heldFor[b] = 0)
         THEN 0 ELSE AtMost(heldFor[b] + 1, LongPress + 1)]
  /\ UNCHANGED <<times, lit, engine, stuck, down, raised, edges>>

Handle(b) ==
  \/ HandleTooSoon(b) \/ HandlePress(b) \/ HandleRelease(b) \/ HandleReleaseNoRoom(b)

Engine == Begin \/ Attach \/ ProcessButtonEvents

Next ==
  \/ Engine \/ Restart \/ Tick
  \/ \E b \in Buttons : Handle(b) \/ Edge(b)

Spec == Init /\ [][Next]_vars

(* The loop and the interrupts always get on; nobody has to press.         *)
Fairness == WF_vars(Engine) /\ \A b \in Buttons : WF_vars(Handle(b))

FairSpec == Spec /\ Fairness

-----------------------------------------------------------------------------
(* Every variable has its type; the queue never holds more than its        *)
(* capacity.                                                               *)
TypeOK ==
  /\ now \in 0..(ClockSize - 1)
  /\ debounceTime \in [Buttons -> 0..(ClockSize - 1)]
  /\ pressedTime \in [Buttons -> 0..(ClockSize - 1)]
  /\ lit \subseteq Buttons /\ down \subseteq Buttons /\ raised \subseteq Buttons
  /\ noticed \subseteq Buttons
  /\ pc \in {"begin", "attach", "loop"}
  /\ queue \in Seq(Operations) /\ Len(queue) <= QueueCapacity
  /\ operation \in Operations \cup {"none"} /\ stuck \in BOOLEAN
  /\ changedAt \in [Buttons -> 0..(ClockSize - 1)]
  /\ takenAgo \in [Buttons -> 0..(Debounce + 1)]
  /\ upFor \in [Buttons -> 0..(Debounce + 1)]
  /\ heldFor \in [Buttons -> 0..(LongPress + 1)]

(* Once its interrupts are handled, a lamp disagrees with its button for   *)
(* one of two reasons only.  Either no edge of the button has raised an    *)
(* interrupt since the program started: it is held since before begin(),   *)
(* at power-on or through a restart, and its lamp is off, for the code     *)
(* never looks at a pin without an interrupt.  Or the last edge was        *)
(* dropped, and nothing makes up for it: it came within Debounce, as       *)
(* millis() tells it, of debounceTime, which is the last interrupt that    *)
(* was taken or, when none was, the millis() = 0 of the start.             *)
HeldSinceStart(b) == b \notin noticed /\ b \in down /\ b \notin lit

LastEdgeDropped(b) ==
  b \in noticed /\ (changedAt[b] - debounceTime[b]) % ClockSize <= Debounce

LampIsTheButton ==
  pc # "begin" =>
    \A b \in Buttons \ raised :
      (b \in lit) # (b \in down) => HeldSinceStart(b) \/ LastEdgeDropped(b)

(* Behind the interrupts, the handlers that drop or take them, the wrap of *)
(* millis() and restarts, the lamps are debounced switches: each goes on   *)
(* or off only as its button is then, and not again before Debounce has    *)
(* passed (ButtonManager.cpp:16-101).                                      *)
Lamps ==
  INSTANCE DebouncedSwitches WITH
    Switches <- Buttons, Wait <- Debounce, closed <- down, on <- lit,
    rested <- takenAgo

LampsAreDebounced == Lamps!SwitchSpec

(* Two interrupts of a button that are taken are more than Debounce apart, *)
(* across the wrap of millis() too: no bounce is taken for a press or a    *)
(* release.                                                                *)
EdgesSpaced ==
  [][\A b \in Buttons : Taking(b) => takenAgo[b] > Debounce]_vars

(* An operation that was put into the queue is processed, unless a handler *)
(* gets stuck first.                                                       *)
OperationsProcessed ==
  \A op \in Operations :
    (\E i \in 1..Len(queue) : queue[i] = op) ~> (operation = op \/ stuck)

(* OnButtonPressed() signals SOS, or an emergency, only when the button    *)
(* was down for more than LongPress.                                       *)
LongMeansHeld ==
  [][\A b \in Buttons :
       HandleRelease(b) /\ pc = "loop" /\ OperationOf(b) \in {"OP_002", "OP_004"}
         => heldFor[b] > LongPress]_vars
=============================================================================
