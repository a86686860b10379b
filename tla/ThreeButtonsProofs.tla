------------------------- MODULE ThreeButtonsProofs -------------------------
(* Proofs about ThreeButtons, for any buttons, clock, debounce time and    *)
(* queue.                                                                  *)
EXTENDS ThreeButtons, TLAPS

LEMMA Constants ==
  /\ ClockSize \in Nat \ {0} /\ QueueCapacity \in Nat \ {0}
  /\ Debounce \in Nat /\ LongPress \in Nat
  /\ 0 \in 0..(ClockSize - 1) /\ 0 % ClockSize = 0
  BY ButtonsAssumption

(* A time on the clock is no time ago; one tick later every time is at     *)
(* most one tick longer ago.                                               *)
LEMMA NoTimeAgo ==
  ASSUME NEW a \in 0..(ClockSize - 1)
  PROVE  (a - a) % ClockSize = 0
  BY Constants

LEMMA Difference ==
  ASSUME NEW a \in 0..(ClockSize - 1), NEW b \in 0..(ClockSize - 1)
  PROVE  (a - b) % ClockSize = IF a >= b THEN a - b ELSE a - b + ClockSize
<1>1. CASE a >= b
  BY <1>1, Constants
<1>2. CASE a < b
  BY <1>2, Constants
<1>. QED
  BY <1>1, <1>2

LEMMA ElapsedTyped ==
  ASSUME NEW a \in 0..(ClockSize - 1), NEW b \in 0..(ClockSize - 1)
  PROVE  (a - b) % ClockSize \in 0..(ClockSize - 1)
  BY Difference, Constants

LEMMA NextReading ==
  ASSUME NEW a \in 0..(ClockSize - 1)
  PROVE  (a + 1) % ClockSize = IF a = ClockSize - 1 THEN 0 ELSE a + 1
<1>1. CASE a = ClockSize - 1
  BY <1>1, Constants
<1>2. CASE a # ClockSize - 1
  BY <1>2, Constants
<1>. QED
  BY <1>1, <1>2

LEMMA OneTickLater ==
  ASSUME NEW a \in 0..(ClockSize - 1), NEW b \in 0..(ClockSize - 1)
  PROVE  (((a + 1) % ClockSize) - b) % ClockSize <= ((a - b) % ClockSize) + 1
<1>1. CASE a = ClockSize - 1
  BY <1>1, NextReading, Difference, Constants
<1>2. CASE a # ClockSize - 1
  <2>1. (a + 1) % ClockSize = a + 1 /\ a + 1 \in 0..(ClockSize - 1)
    BY <1>2, NextReading, Constants
  <2>. QED
    BY <2>1, Difference, Constants
<1>. QED
  BY <1>1, <1>2

LEMMA OperationTyped ==
  ASSUME NEW b \in Buttons
  PROVE  OperationOf(b) \in Operations
<1>1. b \in {"BUTTON_1", "BUTTON_2", "BUTTON_3"}
  BY ButtonsAssumption
<1>. QED
  BY <1>1 DEF OperationOf, Operations

-----------------------------------------------------------------------------
(* Before the interrupts are attached no edge has raised one.              *)
Fresh == pc = "begin" => noticed = {}

(* Only an interrupt lights a lamp, and only an edge raises an interrupt.  *)
LitByEdges == lit \cup raised \subseteq noticed

(* An interrupt that waits was raised within this millisecond.             *)
RaisedNow == ~stuck => \A b \in raised : changedAt[b] = now

(* As long as an interrupt that was taken is recent, its time is noted in  *)
(* debounceTime, or the handler got stuck before it noted it.              *)
TakenNoted ==
  ~stuck => \A b \in Buttons :
    takenAgo[b] <= Debounce => Elapsed(debounceTime[b]) <= takenAgo[b]

Inv == TypeOK /\ Fresh /\ LitByEdges /\ RaisedNow /\ LampIsTheButton /\ TakenNoted

LEMMA InitInv == Init => Inv
<1>. SUFFICES ASSUME Init PROVE Inv
  OBVIOUS
<1>1. TypeOK
  <2>1. Zero \in [Buttons -> 0..(ClockSize - 1)] /\ Zero \in [Buttons -> 0..(LongPress + 1)]
    BY Constants DEF Zero
  <2>2. upFor \in [Buttons -> 0..(Debounce + 1)] /\ takenAgo \in [Buttons -> 0..(Debounce + 1)]
    BY Constants DEF Init
  <2>3. queue \in Seq(Operations) /\ Len(queue) <= QueueCapacity
    BY Constants DEF Init
  <2>. QED
    BY <2>1, <2>2, <2>3, Constants DEF Init, TypeOK
<1>2. Fresh /\ LitByEdges /\ RaisedNow /\ LampIsTheButton /\ TakenNoted
  BY Constants DEF Init, Fresh, LitByEdges, RaisedNow, LampIsTheButton, TakenNoted, Zero
<1>. QED
  BY <1>1, <1>2 DEF Inv

(* What the engine does touches neither buttons nor times.                 *)
LEMMA EngineKeeps ==
  ASSUME Inv, Engine
  PROVE  Inv'
<1>. USE DEF Inv, TypeOK, times, edges, history, held
<1>1. CASE Begin
  <2>1. TypeOK'
    BY <1>1 DEF Begin
  <2>2. Fresh' /\ LitByEdges' /\ RaisedNow' /\ TakenNoted'
    BY <1>1 DEF Begin, Fresh, LitByEdges, RaisedNow, TakenNoted, Elapsed
  <2>3. LampIsTheButton'
    BY <1>1 DEF Begin, Fresh, LitByEdges, LampIsTheButton, HeldSinceStart
  <2>. QED
    BY <2>1, <2>2, <2>3
<1>2. CASE Attach
  BY <1>2 DEF Attach, Fresh, LitByEdges, RaisedNow, LampIsTheButton, HeldSinceStart, LastEdgeDropped,
              TakenNoted, Elapsed
<1>3. CASE ProcessButtonEvents
  <2>1. Head(queue) \in Operations /\ Tail(queue) \in Seq(Operations)
          /\ Len(Tail(queue)) <= QueueCapacity
    BY <1>3, Constants DEF ProcessButtonEvents
  <2>2. TypeOK'
    BY <1>3, <2>1 DEF ProcessButtonEvents
  <2>3. Fresh' /\ LitByEdges' /\ RaisedNow' /\ LampIsTheButton' /\ TakenNoted'
    BY <1>3 DEF ProcessButtonEvents, Fresh, LitByEdges, RaisedNow, LampIsTheButton,
                HeldSinceStart, LastEdgeDropped, TakenNoted, Elapsed
  <2>. QED
    BY <2>2, <2>3
<1>. QED
  BY <1>1, <1>2, <1>3 DEF Engine

(* A press or release that is taken leaves the lamp as the button is, the  *)
(* other lamps alone, and notes the time.                                  *)
LEMMA TakenKeeps ==
  ASSUME Inv, NEW b \in Buttons, Taking(b), pc # "begin",
         debounceTime' = [debounceTime EXCEPT ![b] = now],
         (b \in lit') <=> (b \in down), lit' \ {b} = lit \ {b},
         UNCHANGED stuck
  PROVE  Fresh' /\ LitByEdges' /\ RaisedNow' /\ LampIsTheButton' /\ TakenNoted'
<1>1. /\ UNCHANGED <<pc, now, down, noticed, changedAt>> /\ raised' = raised \ {b}
      /\ takenAgo' = [takenAgo EXCEPT ![b] = 0] /\ b \in raised
  BY DEF Taking, Handling, edges
<1>2. /\ debounceTime \in [Buttons -> 0..(ClockSize - 1)]
      /\ takenAgo \in [Buttons -> 0..(Debounce + 1)]
      /\ now \in 0..(ClockSize - 1)
  BY DEF Inv, TypeOK
<1>3. Fresh' /\ LitByEdges' /\ RaisedNow'
  BY <1>1 DEF Inv, Fresh, LitByEdges, RaisedNow
<1>4. LampIsTheButton'
  <2>. SUFFICES ASSUME NEW c \in Buttons, c \notin raised', (c \in lit') # (c \in down)
                PROVE  HeldSinceStart(c)' \/ LastEdgeDropped(c)'
    BY <1>1 DEF LampIsTheButton
  <2>1. c # b /\ c \notin raised /\ (c \in lit) # (c \in down)
    BY <1>1
  <2>2. debounceTime'[c] = debounceTime[c]
    BY <1>2, <2>1
  <2>3. (c \in lit') <=> (c \in lit)
    BY <2>1
  <2>4. HeldSinceStart(c) \/ LastEdgeDropped(c)
    BY <2>1 DEF Inv, LampIsTheButton
  <2>. QED
    BY <1>1, <2>2, <2>3, <2>4 DEF HeldSinceStart, LastEdgeDropped
<1>5. TakenNoted'
  <2>. SUFFICES ASSUME ~stuck, NEW c \in Buttons, takenAgo'[c] <= Debounce
                PROVE  (now - debounceTime'[c]) % ClockSize <= takenAgo'[c]
    BY <1>1 DEF TakenNoted, Elapsed
  <2>1. CASE c = b
    <3>1. debounceTime'[c] = now /\ takenAgo'[c] = 0
      BY <1>1, <1>2, <2>1
    <3>2. (now - now) % ClockSize = 0
      BY <1>2, NoTimeAgo
    <3>. QED
      BY <3>1, <3>2
  <2>2. CASE c # b
    <3>1. debounceTime'[c] = debounceTime[c] /\ takenAgo'[c] = takenAgo[c]
      BY <1>1, <1>2, <2>2
    <3>2. (now - debounceTime[c]) % ClockSize <= takenAgo[c]
      BY <3>1 DEF Inv, TakenNoted, Elapsed
    <3>. QED
      BY <3>1, <3>2
  <2>. QED
    BY <2>1, <2>2
<1>. QED
  BY <1>3, <1>4, <1>5

(* The types of what an interrupt that is taken leaves alone or notes.     *)
LEMMA TakenTyped ==
  ASSUME Inv, NEW b \in Buttons, Taking(b),
         debounceTime' \in [Buttons -> 0..(ClockSize - 1)],
         pressedTime' \in [Buttons -> 0..(ClockSize - 1)],
         lit' \subseteq Buttons, stuck' \in BOOLEAN,
         queue' \in Seq(Operations), Len(queue') <= QueueCapacity
  PROVE  TypeOK'
<1>1. /\ UNCHANGED <<now, down, noticed, changedAt, upFor, heldFor, pc, operation>>
      /\ raised' = raised \ {b} /\ takenAgo' = [takenAgo EXCEPT ![b] = 0]
  BY DEF Taking, Handling, edges, held
<1>2. takenAgo' \in [Buttons -> 0..(Debounce + 1)]
  <2>1. takenAgo \in [Buttons -> 0..(Debounce + 1)] /\ 0 \in 0..(Debounce + 1)
    BY Constants DEF Inv, TypeOK
  <2>. QED
    BY <1>1, <2>1
<1>3. /\ now' \in 0..(ClockSize - 1) /\ down' \subseteq Buttons
      /\ raised' \subseteq Buttons /\ noticed' \subseteq Buttons
      /\ pc' \in {"begin", "attach", "loop"}
      /\ operation' \in Operations \cup {"none"}
      /\ changedAt' \in [Buttons -> 0..(ClockSize - 1)]
      /\ upFor' \in [Buttons -> 0..(Debounce + 1)]
      /\ heldFor' \in [Buttons -> 0..(LongPress + 1)]
  BY <1>1 DEF Inv, TypeOK
<1>. QED
  BY <1>2, <1>3 DEF TypeOK

(* An interrupt that is taken keeps the invariant, one that is dropped     *)
(* came within Debounce, just now.                                         *)
LEMMA HandleKeeps ==
  ASSUME Inv, NEW b \in Buttons, Handle(b)
  PROVE  Inv'
<1>1. pc # "begin"
  BY DEF Handle, HandleTooSoon, HandlePress, HandleRelease,
         HandleReleaseNoRoom, Taking, Handling, Inv, Fresh, LitByEdges
<1>2. /\ now \in 0..(ClockSize - 1) /\ lit \subseteq Buttons
      /\ debounceTime \in [Buttons -> 0..(ClockSize - 1)]
      /\ pressedTime \in [Buttons -> 0..(ClockSize - 1)]
      /\ queue \in Seq(Operations) /\ Len(queue) <= QueueCapacity
      /\ stuck \in BOOLEAN
  BY DEF Inv, TypeOK
<1>3. CASE HandleTooSoon(b)
  <2>1. /\ UNCHANGED <<now, times, lit, queue, stuck, takenAgo, down, noticed,
                       changedAt, held, pc, operation>>
        /\ raised' = raised \ {b} /\ b \in raised /\ ~stuck /\ ~Accepts(b)
    BY <1>3 DEF HandleTooSoon, Handling, edges
  <2>2. TypeOK'
    BY <2>1 DEF Inv, TypeOK, times, held
  <2>3. Fresh' /\ LitByEdges' /\ RaisedNow' /\ TakenNoted'
    BY <2>1, <1>1 DEF Inv, Fresh, LitByEdges, RaisedNow, TakenNoted, Elapsed, times
  <2>4. (changedAt[b] - debounceTime[b]) % ClockSize <= Debounce
    <3>1. changedAt[b] = now /\ ~((now - debounceTime[b]) % ClockSize > Debounce)
      BY <2>1 DEF Inv, RaisedNow, Accepts, Elapsed
    <3>2. (now - debounceTime[b]) % ClockSize \in 0..(ClockSize - 1)
      BY <1>2, ElapsedTyped
    <3>. QED
      BY <3>1, <3>2, Constants
  <2>5. LampIsTheButton'
    <3>1. LastEdgeDropped(b)'
      BY <2>1, <2>4 DEF Inv, LitByEdges, LastEdgeDropped, times
    <3>2. \A c \in Buttons \ raised :
            /\ HeldSinceStart(c)' <=> HeldSinceStart(c)
            /\ LastEdgeDropped(c)' <=> LastEdgeDropped(c)
      BY <2>1 DEF HeldSinceStart, LastEdgeDropped, times
    <3>. QED
      BY <2>1, <3>1, <3>2, <1>1 DEF Inv, LampIsTheButton
  <2>. QED
    BY <2>2, <2>3, <2>5 DEF Inv
<1>4. CASE HandlePress(b)
  <2>1. /\ Taking(b) /\ b \in down /\ lit' = lit \cup {b}
        /\ pressedTime' = [pressedTime EXCEPT ![b] = now]
        /\ debounceTime' = [debounceTime EXCEPT ![b] = now]
        /\ UNCHANGED <<queue, stuck>>
    BY <1>4 DEF HandlePress
  <2>2. TypeOK'
    <3>1. /\ debounceTime' \in [Buttons -> 0..(ClockSize - 1)]
          /\ pressedTime' \in [Buttons -> 0..(ClockSize - 1)]
          /\ lit' \subseteq Buttons
      BY <1>2, <2>1
    <3>. QED
      BY <1>2, <2>1, <3>1, TakenTyped
  <2>3. Fresh' /\ LitByEdges' /\ RaisedNow' /\ LampIsTheButton' /\ TakenNoted'
    <3>1. (b \in lit') <=> (b \in down) /\ lit' \ {b} = lit \ {b}
      BY <2>1
    <3>. QED
      BY <1>1, <2>1, <3>1, TakenKeeps
  <2>. QED
    BY <2>2, <2>3 DEF Inv
<1>5. CASE HandleRelease(b)
  <2>1. /\ Taking(b) /\ b \notin down /\ lit' = lit \ {b}
        /\ debounceTime' = [debounceTime EXCEPT ![b] = now]
        /\ UNCHANGED <<pressedTime, stuck>>
    BY <1>5 DEF HandleRelease
  <2>2. queue' \in Seq(Operations) /\ Len(queue') <= QueueCapacity
    BY <1>2, <1>5, OperationTyped, Constants DEF HandleRelease
  <2>3. TypeOK'
    <3>1. debounceTime' \in [Buttons -> 0..(ClockSize - 1)] /\ lit' \subseteq Buttons
      BY <1>2, <2>1
    <3>. QED
      BY <1>2, <2>1, <2>2, <3>1, TakenTyped
  <2>4. Fresh' /\ LitByEdges' /\ RaisedNow' /\ LampIsTheButton' /\ TakenNoted'
    <3>1. (b \in lit') <=> (b \in down) /\ lit' \ {b} = lit \ {b}
      BY <2>1
    <3>. QED
      BY <1>1, <2>1, <3>1, TakenKeeps
  <2>. QED
    BY <2>3, <2>4 DEF Inv
<1>6. CASE HandleReleaseNoRoom(b)
  <2>1. /\ Taking(b) /\ b \notin down /\ lit' = lit \ {b} /\ stuck'
        /\ UNCHANGED <<debounceTime, pressedTime, queue>>
    BY <1>6 DEF HandleReleaseNoRoom, times
  <2>2. UNCHANGED <<pc, now, down, noticed, changedAt>> /\ raised' = raised \ {b}
    BY <2>1 DEF Taking, Handling, edges
  <2>3. TypeOK'
    <3>1. lit' \subseteq Buttons /\ stuck' \in BOOLEAN
      BY <1>2, <1>6 DEF HandleReleaseNoRoom
    <3>. QED
      BY <1>2, <2>1, <3>1, TakenTyped
  <2>4. Fresh' /\ LitByEdges' /\ RaisedNow' /\ TakenNoted'
    BY <1>1, <2>1, <2>2 DEF Inv, Fresh, LitByEdges, RaisedNow, TakenNoted
  <2>5. LampIsTheButton'
    BY <2>1, <2>2 DEF Inv, LampIsTheButton, HeldSinceStart, LastEdgeDropped
  <2>. QED
    BY <2>3, <2>4, <2>5 DEF Inv
<1>. QED
  BY <1>3, <1>4, <1>5, <1>6 DEF Handle

LEMMA EdgeKeeps ==
  ASSUME Inv, NEW b \in Buttons, Edge(b)
  PROVE  Inv'
<1>. USE DEF Inv, TypeOK, times, engine, edges, history, held, Edge
<1>1. TypeOK'
  OBVIOUS
<1>2. Fresh' /\ LitByEdges' /\ RaisedNow' /\ TakenNoted'
  BY DEF Fresh, LitByEdges, RaisedNow, TakenNoted, Elapsed
<1>3. LampIsTheButton'
  BY DEF LampIsTheButton, HeldSinceStart, LastEdgeDropped
<1>. QED
  BY <1>1, <1>2, <1>3

LEMMA RestartKeeps ==
  ASSUME Inv, Restart
  PROVE  Inv'
<1>. USE DEF Inv, TypeOK, history, held, Restart
<1>1. TypeOK'
  <2>1. Zero \in [Buttons -> 0..(ClockSize - 1)]
    BY Constants DEF Zero
  <2>2. <<>> \in Seq(Operations) /\ Len(<<>>) <= QueueCapacity
    BY Constants
  <2>. QED
    BY <2>1, <2>2, Constants
<1>2. Fresh' /\ LitByEdges' /\ RaisedNow' /\ LampIsTheButton'
  BY DEF Fresh, LitByEdges, RaisedNow, LampIsTheButton
<1>3. TakenNoted'
  BY Constants DEF TakenNoted, Elapsed, Zero
<1>. QED
  BY <1>1, <1>2, <1>3

LEMMA CappedCount ==
  /\ \A n \in 0..(Debounce + 1) : AtMost(n + 1, Debounce + 1) \in 0..(Debounce + 1)
  /\ \A n \in 0..(LongPress + 1) : AtMost(n + 1, LongPress + 1) \in 0..(LongPress + 1)
  /\ 0 \in 0..(Debounce + 1) /\ 0 \in 0..(LongPress + 1)
  BY Constants DEF AtMost

LEMMA TickKeeps ==
  ASSUME Inv, Tick
  PROVE  Inv'
<1>. USE DEF Inv, TypeOK, times, engine, edges, history, held, Tick
<1>1. TypeOK'
  <2>1. now' \in 0..(ClockSize - 1)
    BY NextReading, Constants
  <2>2. takenAgo' \in [Buttons -> 0..(Debounce + 1)] /\ upFor' \in [Buttons -> 0..(Debounce + 1)]
    BY CappedCount
  <2>3. \A b \in Buttons : AtMost(heldFor[b] + 1, LongPress + 1) \in 0..(LongPress + 1)
    BY CappedCount
  <2>4. heldFor' \in [Buttons -> 0..(LongPress + 1)]
    BY <2>3, Constants
  <2>. QED
    BY <2>1, <2>2, <2>4
<1>2. Fresh' /\ LitByEdges' /\ RaisedNow' /\ LampIsTheButton'
  BY DEF Fresh, LitByEdges, RaisedNow, LampIsTheButton, HeldSinceStart, LastEdgeDropped
<1>3. TakenNoted'
  <2>. SUFFICES ASSUME ~stuck, NEW b \in Buttons, takenAgo'[b] <= Debounce
                PROVE  (now' - debounceTime[b]) % ClockSize <= takenAgo'[b]
    BY DEF TakenNoted, Elapsed
  <2>1. takenAgo[b] <= Debounce /\ takenAgo'[b] = takenAgo[b] + 1
    BY Constants DEF AtMost
  <2>2. (now - debounceTime[b]) % ClockSize <= takenAgo[b]
    BY <2>1 DEF TakenNoted, Elapsed
  <2>3. (now' - debounceTime[b]) % ClockSize <= ((now - debounceTime[b]) % ClockSize) + 1
    BY OneTickLater
  <2>4. /\ (now - debounceTime[b]) % ClockSize \in 0..(ClockSize - 1)
        /\ (now' - debounceTime[b]) % ClockSize \in 0..(ClockSize - 1)
    <3>1. /\ now \in 0..(ClockSize - 1) /\ now' \in 0..(ClockSize - 1)
          /\ debounceTime[b] \in 0..(ClockSize - 1)
      BY <1>1
    <3>. QED
      BY <3>1, ElapsedTyped
  <2>. QED
    BY <2>1, <2>2, <2>3, <2>4
<1>. QED
  BY <1>1, <1>2, <1>3

LEMMA StutterKeeps ==
  ASSUME Inv, UNCHANGED vars
  PROVE  Inv'
  BY DEF Inv, TypeOK, Fresh, LitByEdges, RaisedNow, LampIsTheButton, HeldSinceStart,
         LastEdgeDropped, TakenNoted, Elapsed, vars, times, engine, edges, history, held

LEMMA InvHolds == Spec => []Inv
<1>1. Inv /\ [Next]_vars => Inv'
  BY EngineKeeps, RestartKeeps, TickKeeps, HandleKeeps, EdgeKeeps, StutterKeeps DEF Next
<1>. QED
  BY <1>1, InitInv, PTL DEF Spec

-----------------------------------------------------------------------------
(* Every variable keeps its type and the queue its capacity.               *)
THEOREM TypeCorrect == Spec => []TypeOK
<1>1. Inv => TypeOK
  BY DEF Inv
<1>. QED
  BY <1>1, InvHolds, PTL

(* A lamp disagrees with its button only when the button is held since     *)
(* before the interrupts were attached, or when OnButton<n>Pressed() has   *)
(* dropped the last edge for coming too soon after the time it noted       *)
(* (ButtonManager.cpp:16-101).                                             *)
THEOREM LampFollows == Spec => []LampIsTheButton
<1>1. Inv => LampIsTheButton
  BY DEF Inv
<1>. QED
  BY <1>1, InvHolds, PTL

LEMMA TakenIsSpaced ==
  ASSUME Inv, NEW b \in Buttons, Taking(b)
  PROVE  takenAgo[b] > Debounce
<1>1. ~stuck /\ (now - debounceTime[b]) % ClockSize > Debounce
  BY DEF Taking, Handling, Accepts, Elapsed
<1>2. takenAgo[b] \in 0..(Debounce + 1)
  BY DEF Inv, TypeOK
<1>3. (now - debounceTime[b]) % ClockSize \in 0..(ClockSize - 1)
  <2>1. now \in 0..(ClockSize - 1) /\ debounceTime[b] \in 0..(ClockSize - 1)
    BY DEF Inv, TypeOK
  <2>. QED
    BY <2>1, ElapsedTyped
<1>. QED
  BY <1>1, <1>2, <1>3, Constants DEF Inv, TakenNoted, Elapsed

(* Two interrupts that are taken are more than DEBOUNCE_WAIT_TIME apart,   *)
(* whatever the size of millis() and however often it wraps.               *)
THEOREM EdgesKeepTheirDistance == Spec => EdgesSpaced
<1>1. Inv /\ [Next]_vars => [\A b \in Buttons : Taking(b) => takenAgo[b] > Debounce]_vars
  BY TakenIsSpaced
<1>. QED
  BY <1>1, InvHolds, PTL DEF Spec, EdgesSpaced

-----------------------------------------------------------------------------
(* The refinement of DebouncedSwitches.                                    *)
LEMMA HandleFollows ==
  ASSUME Inv, NEW b \in Buttons, Handle(b)
  PROVE  Lamps!Follow(b) \/ UNCHANGED Lamps!switchVars
<1>1. CASE HandleTooSoon(b)
  BY <1>1 DEF HandleTooSoon, Handling, Lamps!switchVars
<1>2. CASE ~HandleTooSoon(b)
  <2>1. Taking(b)
    BY <1>2 DEF Handle, HandlePress, HandleRelease, HandleReleaseNoRoom
  <2>2. takenAgo[b] > Debounce
    BY <2>1, TakenIsSpaced
  <2>3. takenAgo' = [takenAgo EXCEPT ![b] = 0] /\ UNCHANGED down
    BY <2>1 DEF Taking, Handling
  <2>4. lit' = IF b \in down THEN lit \cup {b} ELSE lit \ {b}
    BY <1>2 DEF Handle, HandlePress, HandleRelease, HandleReleaseNoRoom
  <2>. QED
    BY <2>2, <2>3, <2>4 DEF Lamps!Follow
<1>. QED
  BY <1>1, <1>2

LEMMA TickPasses ==
  ASSUME Inv, Tick
  PROVE  Lamps!Pass
<1>1. \A b \in Buttons : takenAgo[b] \in 0..(Debounce + 1)
  BY DEF Inv, TypeOK
<1>2. \A b \in Buttons :
        AtMost(takenAgo[b] + 1, Debounce + 1)
          = IF takenAgo[b] > Debounce THEN Debounce + 1 ELSE takenAgo[b] + 1
  <2>1. \A n \in 0..(Debounce + 1) :
          AtMost(n + 1, Debounce + 1) = IF n > Debounce THEN Debounce + 1 ELSE n + 1
    BY Constants DEF AtMost
  <2>. QED
    BY <1>1, <2>1
<1>. QED
  BY <1>2 DEF Tick, Lamps!Pass

(* The lamps are debounced switches, whatever the clock, the debounce time *)
(* and the number of buttons: the time that the code computes from a clock *)
(* that wraps is never longer than the time that a switch has rested.      *)
THEOREM ImplementsDebounce == Spec => LampsAreDebounced
<1>1. Init => Lamps!SwitchInit
  BY DEF Init, Lamps!SwitchInit
<1>2. Inv /\ [Next]_vars => [Lamps!SwitchNext]_(Lamps!switchVars)
  <2>. SUFFICES ASSUME Inv, [Next]_vars
                PROVE  Lamps!SwitchNext \/ UNCHANGED Lamps!switchVars
    OBVIOUS
  <2>1. CASE Engine
    BY <2>1 DEF Engine, Begin, Attach, ProcessButtonEvents, history, Lamps!switchVars
  <2>2. CASE Restart
    BY <2>2 DEF Restart, history, Lamps!Off, Lamps!SwitchNext
  <2>3. CASE Tick
    BY <2>3, TickPasses DEF Lamps!SwitchNext
  <2>4. ASSUME NEW b \in Buttons, Handle(b)
        PROVE  Lamps!SwitchNext \/ UNCHANGED Lamps!switchVars
    BY <2>4, HandleFollows DEF Lamps!SwitchNext
  <2>5. ASSUME NEW b \in Buttons, Edge(b)
        PROVE  Lamps!SwitchNext
    <3>1. Lamps!Contact(b)
      BY <2>5 DEF Edge, history, Lamps!Contact
    <3>. QED
      BY <3>1 DEF Lamps!SwitchNext
  <2>6. CASE UNCHANGED vars
    BY <2>6 DEF vars, history, Lamps!switchVars
  <2>. QED
    BY <2>1, <2>2, <2>3, <2>4, <2>5, <2>6 DEF Next
<1>. QED
  BY <1>1, <1>2, InvHolds, PTL DEF Spec, LampsAreDebounced, Lamps!SwitchSpec
=============================================================================
