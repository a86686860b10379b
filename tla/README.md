# Verification of esp32lab

esp32lab is a laboratory: every directory of `src/` is a program of its own for an ESP32, from one-page sensor sketches to
firmware with several FreeRTOS tasks.  This directory holds TLA+ models of the programs that have logic of their own, the
TLC configurations that check them, and TLAPS proofs of what matters most about them.

    tlc -workers 2 -config ConnectionManager_basic.cfg MCConnectionManager.tla     # any run of PROJECT.json
    tlapm ConnectionManagerProofs.tla                                              # any module of proofs

PROJECT.json lists the runs, the source lines every definition stands for (`map`), the hazards, the findings, and the mutants.

## 1. Inventory

### Modelled

| component (under `src/PlatformIO/`) | state | operations | whom it interacts with | what is hard | what makes it correct |
|---|---|---|---|---|---|
| **GSM connection manager**, `gsm/TinyGSM/TinyGSM_AllFunctions` | status, auto-reconnect flag, queue of 20 operations, current server, the socket | 11 kinds of serial commands run by `loop()`; the task `OperationMonitor` with queue and auto-reconnect | two tasks share one modem without a lock and the status under `m_lock`; the network and the server act on their own | status read, lock released, modem asked, status written: all by two tasks | a status of CONNECTING is answered, one request at a time, one user of the modem, no session that nobody can close, a lost link noticed |
| **HTTP transfers**, same program: `httpGet()`, `downloadFile()` | received length, expected length, the file, the returned string | wait, header loop, content loop | called by `loop()`; polls the modem's buffer, SD card | the header's lengths, closing and cutting anywhere, the clock | a transfer that nothing disturbed is complete, every call ends |
| **Communication manager**, `gsm/TinyGSM/TinyGSM_IoTHub` | four flags, mutex, time of the last MQTT attempt | two tasks, `begin()`, `isConnected()` | flags under a mutex that the MQTT client does not take for the modem | mixed answers, a clock that wraps, a broker that goes away | flags never contradict each other, recovery, spacing of attempts |
| **E32-TTL-100 driver**, `lora/ebyte/E32-TTL-100_Test` | remembered mode, wait counter, the sketch's counter | `begin()` with configuration, `loop()` with receive and send | two mode pins, the AUX pin and a UART to a module that works beside it | the module is busy, switching, late, or hears a message at any moment | commands only to a sleeping module, answers not mixed up, set up in the end |
| **Three buttons**, `button/3Buttons` | per button: lamp, last event, last press; a queue of 20 | three interrupt handlers, the engine's loop | handlers send to the queue that the loop empties | bounces, a clock that wraps, a full queue in an interrupt | lamps and why they may be wrong, spacing, processing of operations, SOS only for a long press |
| **OTA web updater**, `ota/otawebupdater-esp32doit-devkit-v1` | the Update library's state, the boot partition, the request in progress, the WiFi status | upload handler and answer in the monitor task, WiFi event handler | a browser, the Update library, the WiFi library's event task | a write that fails, a browser that leaves, a power cut between any two pieces; a handler that never returns | "OK" means that the uploaded file runs; only a successful upload changes what is booted; the connection comes back |
| **Wave player**, `audio/MAXAudioTest` | header state, kept from file to file | `PlayFile()` | card, I2S port | files cut off anywhere, the second file | all of the sound is heard, in order, whatever state a file finds |
| **MQTT sketch**, `gsm/TinyGSM/TinyGSM_MQTT` | led, time of the last attempt | `setup()`, `loop()`, callback | modem, broker | sessions lost at any moment, attempts longer than their interval | spacing, recovery, subscription of each session |
| **GPS handler**, `ubidots/UbidotsTest` | fix, two counters | `getData()` with its wait | the parser over a UART | verdicts per call, sentences when they like | the fix changes only by twelve verdicts in a row, and no sentence judged again at once wins it |
| **Led handler**, `gsm/TinyGSM/TinyGSM_IoTHub/src/LedHandler.cpp` (copies in TinyGSM_MQTT and `src/Arduino`) | the sum of lit leds | `setLed()`, `autoTest()`, `shiftOut()` | a shift register that keeps its bits over a restart | a restart between two bits | the leds show what was asked |
| **UART interrupt sketch**, `uart/UARTInterrupt` | a queue | interrupt handler, printing task | the UART's FIFO | bytes that come in while the handler reads; full queue and FIFO | order kept, what was not dropped is printed |
| **Button interrupt sketch**, `src/Arduino/interrupts/ButtonLedInterrupt3` | flags and times of two buttons | two handlers, `loop()` | buttons, buzzer | a press during the beep | a press that counts is beeped |
| **HTTPS download**, `http/HTTPSFileDownload` | lengths, the file | `download()` | server, card | a server that stops or closes at any byte, a full card | success means that the file is on the card; it returns |

### Not modelled

Parts of modelled programs are named in section 3.  The rest: sketches that read or write one device in
one loop and keep no state that something else depends on (sensors, leds, storage, serial, displays, REST, Bluetooth);
examples shipped with a library or the board support; third-party code (curl, libssh2, VidoGPRS, libGSM, the micro-SD and
Azure libraries), of which only the use is modelled, where a modelled program uses it; the NiceRF master and slave, which
store the radio object through a null pointer in `setup()` (`NiceRF_LoraMaster/src/main.cpp:33`, the pointer is declared at
line 20 and never set) and so never reach `loop()`; `MessageSender_IoTHub`, whose functions are empty; `RepeatTimer`, the example of the board support, whose interrupt counts
before it gives the semaphore that `loop()` takes.  Of the 291872 lines of implementation nearly all are that third-party code and
copies of it, which is why the definitions here stand for less than one line in a hundred: the programs written for this
repository, with behaviour that another actor can disturb, are the thirteen above.
PROJECT.json gives the reason for every component.

## 2. Plan

Done, in this order: ConnectionManager (the program with most concurrency), HttpTransfer (its transfers), CommunicationManager
with the abstract ConnectivityLadder, E32TTL100, ThreeButtons; then the small programs, each in a module of its own, and
MCSketches that runs them; theorems about all of these and about MCSketches itself; the abstract ConnectionService, LossyLine,
DebouncedSwitches and AtomicUpload, with the refinements of ConnectionManager, UartInterrupt, ThreeButtons and OtaUpdater proved
as that of CommunicationManager is.  Every invariant that a run checks is a theorem.

Left:

1. The composition of ConnectionManager and HttpTransfer: a transfer in `loop()` while the monitor reconnects.
2. The sending to Ubidots in the loop of the GPS program, which waits for HTTP answers between two calls of `getData()`.

## 3. Modules

All modules are written alike: state as variables, `Init`, one action per step of the code that another actor can come
between, `Next`, `Spec`, `FairSpec` where there is liveness, properties at the end.  An `MC...` module extends its module for TLC.
A definition `Faulty...` is a slip that the code could have had; no specification uses it, see section 6.

**ConnectionManager** (`ConnectionManager.cpp`, `main.cpp`).  `pc` tells where `loop()` ("main") and `OperationMonitor` ("mon")
are.  Every critical section of `m_lock` holds one read or one assignment, so each is one step and the lock needs no variable.
Every modem call is a step of its own.  `seen` is what `getConnectionStatus()` returned to each task, `cmd` and `job` what each
is running.  `crossed` is history: both tasks have been in the modem (`ModemPoints`) at once.  Three commands go to the modem without
a look at the status (`Ungated`): POWER, which talks to it through `SerialAT`, and DISCONNECT_CLIENT and ISCLIENTCONNECTED, which ask
the socket (`client.connected()`) and may close it.  The commands that use the socket ask it too, at the point `cc_look`.  `link` (`down`, `net`, `gprs`) stands for what `isNetworkConnected()` and `isGprsConnected()` would answer.
`MixedAnswers` says whether two tasks in the modem at once get arbitrary answers, which is what sharing a serial line without
a lock comes to; with FALSE every answer is true, which shows what goes wrong, or comes right, all the same.
Abstracted: `due` is the 60 s test of `doAutoReconnect()`; the parameters of a client request (a string of 64 bytes) are the
server they name; the modem queries `getSimCCID()` ... `sendSMS()` are one command, QUERY.  Left out: the last-error record and
the result handlers, which are only logged; failures of `begin()`; the SD card, which `begin()` may fail to mount without
effect.  `connectClient()` (the synchronous call) is not called by `main.cpp`; the model has it, and connection_basic checks it beside
the commands that are.

**ConnectionService** is the abstract specification of the status: a request is taken from DISCONNECTED only and answered before
the next, every other change starts from the status that was looked at, and a session is opened only while a request is being
answered and is open only behind CONNECTING or CONNECTED.  `KeepsService` in ConnectionManager is its specification with the status for the state
and an attached modem (`link = "gprs"`) for the session, the latter until `crossed`: once another task has talked into `gprsConnect()`, its
answer may be a false failure, and a session stays open behind DISCONNECTED.  What it says of the status goes on after that.
It holds for a monitor that only answers CONNECT (no CONNECT_CLIENT, no auto-reconnect); with auto-reconnect, connection_orphan shows
that it cannot.

**HttpTransfer**.  One transfer, from the moment the request is sent.  The answer arrives in units: a header line or a byte of
content; a line that `readStringUntil()` gives up on half-way is two lines in `Responses`.  `late` is the test of `millis() -
startTime` against the time-out, reset where the code resets `startTime`.  The division `contentLength / 13` is kept, and
division by zero ends in "reset".  The file of `downloadFile()` and the string of `httpGet()` are both filled, since the loops are
the same.  The card may fail at any byte (`CardFails`): nobody looks at what `file.print()` returns, and a file that failed once takes
nothing more.

**CommunicationManager**.  `app` is `setup()` in `begin()`, `link` is `monitorConnectivity()`, `mqtt` is `monitorMQTT()`.  A modem call
that holds `s_monitorMutex` is a `...Call` step and an `...End` step.  The MQTT client talks to the modem without the mutex: while
it does (looking, connecting, subscribing, looping), the answers and effects of calls by `link` are arbitrary, and the reverse.  Looking is
`_mqtt.connected()`, which polls the modem but returns the socket's own flag, so its answer is taken to be true.  Time passes only where the MQTT task can
observe it.  `sinceFailure` is history.  Settings are the valid constants of `main.cpp`; `esp_restart()` for invalid ones is left out.

**ConnectivityLadder** is the abstract specification of the four flags: off, modem, network, online are climbed one at a time; a
lost session costs one rung; a failed attempt goes back to off.  `ClimbsLadder` in CommunicationManager is its specification
under the mapping `Rung`.

**E32TTL100**.  `setup()` and `loop()` make a fixed sequence of calls, so the program is a constant sequence `Program` of entries
(wait for AUX, write the pins, clean the UART, write a command, ...) built from operators named for the functions, and `pc` is an
index.  The module is external: busy or switching means AUX low; it takes commands only while it sleeps and is idle; in
normal mode the bytes of a command are a message to the air; otherwise they are lost.  `timely` and `prompt` say what kind of
module it is; they are chosen once.  No module, timely or not, takes a whole wait (10 s) to change its mode: RunsInNormalMode rests on
that.  A module that was configured stays so over a restart.  Bytes are abstracted to where they come from.  `available()` is kept in a `uint8_t`, so it
is taken modulo `CountSize`.

**ThreeButtons**.  A handler is one step within the millisecond of its edge; several edges before it raise one interrupt.  Edges
before `begin()` attaches the interrupts raise nothing.  `xQueueSend(..., portMAX_DELAY)` in an interrupt with a full queue is
undefined: the handler is `stuck`, then it hangs or the ESP32 restarts.  `changedAt`, `noticed` (an edge of the
button raised an interrupt since the start), `takenAgo`, `upFor`, `heldFor` are history.

**DebouncedSwitches** is the abstract specification of the lamps: a switch moves only to where its contact is, and having moved it
rests for longer than a contact bounces.  It has no interrupts and no clock that wraps.  `LampsAreDebounced` in ThreeButtons is its
specification with the lamps for the switches, the pins for the contacts and `takenAgo`, real time, for how long a switch has
rested.  It may leave a contact unnoticed, as the code does; LampIsTheButton says when: the button is down since the
program started, without an edge (`HeldSinceStart`: the code looks at a pin only in an interrupt), or its last edge was dropped (`LastEdgeDropped`).

**The small programs** have modules alike, whose names of definitions carry a prefix or the program's own word, so that
**MCSketches** can extend all of them: its variable `sketch` says which one is on the board, and only that one takes steps.
What each one leaves to the outside, and how much of it is modelled:

- **OtaUpdater** (`OTAManager.cpp`, `ConnectionManager.cpp`).  `UpdateBegin`, `UpdateWrite`, `UpdateEnd` are the external Update library as the
  handlers use it: `begin()` refuses without an error while an update is running or when it gets no memory for its buffer, an error ends the update, `end()` accepts only a whole image.
  `handleClient()` deals with a whole request, so `phase` is where in it the server is; a request whose browser leaves is dropped
  without a call of the handler.  A file is a sequence of pieces, and the partition a sequence of pieces of files.  WiFi events
  wait in the library's task.  Every file is a build of the same program.  The two pages change no state and are left out.
  **AtomicUpload** is its abstract specification: an upload is one change of what is booted, or none, and is told of as it was.
  The pieces, the partition and the states of the library do not show in it; what is left of an upload that was withdrawn does, as
  one Boolean, `leftover`: such an update is still running when the next upload comes, unless the board restarts in between.  An upload is
  `fresh` if neither that nor a lack of memory was in its way.
- **WavePlayer** (`WavePlayer.cpp`).  A file is a prefix of a wave file, a word its position, so that "played" tells what was heard.
- **MqttSketch** (`main.cpp`).  `since` is `millis() - lastReconnectAttempt`, as far as it matters; `session` "dead" is lost and not noticed.
- **GpsHandler** (`GPSHandler.cpp`).  The parser is reduced to whether its last sentence has satellites enough and whether its time is
  updated.  `waitEnd`, `timeRead`, `row` are history.
- **LedHandler** (`LedHandler.cpp`).  The register takes one bit per step, and a restart may come between any two.
- **UartInterrupt** (`main.c`).  Bytes are numbered; they come in, and the task prints, between any two steps of the handler.
  The receive time-out (several bytes long) is taken to be longer than the handler, so that it does not fall between the last read and
  the clearing of the status; of the UART's conditions only the two that are cleared (FULL and time-out, `main.c:41`) are modelled.
  **LossyLine** is its abstract specification: one line that may lose any byte, but lets none overtake another, come twice or come
  from nowhere.  The FIFO and the queue together are its line.
- **ButtonLed** (`ButtonLedInterrupt3.ino`).  The handlers are steps of their own, the beep lasts ticks.
- **HttpsDownload** (`main.cpp`).  `available()` is what came and was not read; the server sends, closes and goes silent when it likes.  A file that
  did not open is a card that is full at once (`CardFills`).

## 4. Runs

| run | checks | bounds and why they are enough |
|---|---|---|
| connection_basic | a monitor that only answers CONNECT, against every command but CONNECT_CLIENT and SET_AUTO_RECONNECT, POWER and the two that ask the socket among them, mixed answers: OneConnectOutstanding, ModemExclusive, KeepsService | queue of 2 of 20: OneConnectOutstanding says that it never holds more than one; one server: the monitor dials none here |
| connection_sketch | every command of `main.cpp`, auto-reconnect on and off, mixed answers: TypeOK, ConnectingIsPending, ServerIsCurrent | queue of 2, so that it fills and has an order; 2 servers, so that there is a wrong one, and symmetric, as no property is a liveness property |
| connection_live | ConnectAnswered, CommandsEnd, LostLinkNoticed | queue of 1, so that `loop()` waits for room; true answers, as a mixed answer can hide a loss |
| connection_lost | LostLinkReconnected is violated | as connection_live |
| connection_orphan | NoOrphanSession is violated with auto-reconnect, with true answers | queue of 2; no server needed |
| http_all | TypeOK, DeliversContent, TransferEnds | contents of 0 to 3 bytes with lengths 0 to 3, so below, at and above both the store limit (2 of 10240) and the parts (2 of 13); header lines true, false, absent, unfinished |
| http_short | AlwaysReturns is violated | as http_all |
| iothub_all | TypeOK, FlagsNested, AttemptsSpaced, ClimbsLadder, LinkRecovers, MqttReconnects | a clock of 5 and an interval of 2: attempts begin at every reading, also around each wrap |
| e32_all | TypeOK, RunsInNormalMode, RunsConfigured, CommandsInSleepMode, ReadsOwnAnswer, SetupEnds | 2 looks at AUX of 100, one send in 2 passes of 100, sizes 2 and 1 of 6 and 4, a buffer of 4 and a byte count of 4, so that the count wraps when the buffer is full |
| buttons_all | TypeOK, LampIsTheButton, LampsAreDebounced, OperationsProcessed | one button (they share only the queue; the theorems are for any set), a clock of 8, debounce 1, long press 2, queue of 2: bounces, holds, wraps and overflow all happen |
| buttons_sos | LongMeansHeld is violated | as buttons_all |
| sketches_all | the small programs: SketchesTypeOK; OTA: FreshOkRunsUpload, UploadIsAtomic, OtaReconnects; wave: SoundIsHeard; MQTT: FailedAttemptsAreSpaced, SessionComesBack; GPS: FixIsEarned; UART: PrintedInOrder (a lossy line that keeps the order and hands over in the end); button: PressIsBeeped; download: DownloadTells; leds: ShowsWhatWasAsked | OTA: 2 files, one a multiple of the buffer, of 2 buffers, room for 5 pieces (one file fits, what two uploads write may not), 2 waiting events; wave: header as in the code (3 + 6 + 2 words), 3 samples, so that a cut falls in every part; MQTT: more than 3 ticks between attempts; GPS: 3 verdicts of 12; UART: 6 bytes through a FIFO of 3, threshold 2, and a queue of 2, so that both overflow; button: debounce 1, beep 3, so that a press falls into a beep; download: no length, 0 and 3 bytes with a buffer of 2; leds: 4 with bits out of order |

What they show, in short.  *Connection manager:* as long as the monitor only
answers CONNECT, the status alone keeps every command that looks at it away from the monitor and lets one request in at a time,
although it is checked and set in different critical sections.  It does not keep away POWER, DISCONNECT_CLIENT and ISCLIENTCONNECTED,
which `loop()` carries out without a look at it: both tasks are in the modem then.  ModemExclusive says that nothing else does this,
KeepsService that the status goes on as ConnectionService describes even so, and the session until the first such crossing.  With
auto-reconnect not even that (connection_orphan:
DISCONNECT crosses a reconnection, and the session stays open behind DISCONNECTED).  CONNECTING is never left without somebody
who will answer it, even then and with mixed answers.  Auto-reconnect notices a lost link, but may then set DISCONNECTED, which
it ignores for ever (connection_lost).  *Transfers:* always end, leave nothing but the beginning of the content, and are complete when undisturbed, except that contents shorter
than the number of progress reports divide by zero (http_short).  *Communication manager:* sound as far as checked, with mixed
answers too.  *E32:* sound with a timely module, and `begin()` ends in normal mode with any; the message for a version that cannot
be read cannot occur (below).  *Buttons:* debounced and processed; a lamp is wrong after a dropped edge or for a button held at power-on; SOS can be signalled by a touch (buttons_sos).
*Small programs:* sound as far as stated; what they do not promise is stated next to it in the modules and listed below.

Deadlock is checked everywhere but in HttpTransfer, where the call ends, and in sketches_all, where `download()` ends, the MQTT
sketch may halt in `setup()` and the UART's bytes are bounded.

### Disagreements seen while modelling, without a run of their own

- POWER (`ConnectionManager.cpp:963`), DISCONNECT_CLIENT (`:744`) and ISCLIENTCONNECTED (`:490`) use the modem whatever the status is,
  also while the monitor connects.  An answer that the monitor loses to them may be that of `gprsConnect()`: the session is then
  open behind DISCONNECTED, as in connection_orphan but without auto-reconnect.
- Two CONNECT_CLIENT commands queued before the first is run are both accepted, since the socket is checked when the request
  is queued (`ConnectionManager.cpp:723`) and not when it is dialled (`:303`): the second replaces the connection of the first.  The
  Host header follows: ServerIsCurrent holds through it.
- `main.cpp:367` logs "Arquivo baixado!" for ESP_OK, and `downloadFile()` returns ESP_OK after its content loop however that
  ended (`ConnectionManager.cpp:815, 844`): time-out, broken connection, a header that ran dry, a card that did not open.
- With AUX low through a whole wait, `executeCommandInSleepMode()` goes on (`E32TTL100.cpp:447-450` look at no result), and
  the command's bytes are sent as a message.  CommandsInSleepMode is therefore stated for a timely module.
- A button held at power-on, or through a restart by the panic handler, has its lamp off until its first edges: `begin()` attaches
  the interrupt and looks at no pin (`ButtonManager.cpp:118-149`).  An edge in the first 20 ms of `millis()` is dropped as if it followed
  another, since the time of the last one starts at 0 (`:21`).
- `waitAuxPinHigh()` reports a time-out when AUX rose just before its last look (`E32TTL100.cpp:335-338`).
- `receiveMessage()` counts the waiting bytes in a `uint8_t` (`E32TTL100.cpp:154`): with exactly 256 nothing is received.

Some are stated as definitions that no run lists; added to the named cfg, TLC refutes them:

- `TransferNamesItsHost` (ConnectionManager_sketch.cfg): the Host of a transfer that is being sent (`ConnectionManager.cpp:856`) is the server
  of its connection.  A CONNECT_CLIENT that waits in the queue records its server (`:300`) before the old connection is given up.
- `VersionFailureReported` (E32TTL100_all.cfg): `readModuleVersion()` reports success whatever came (`E32TTL100.cpp:433`).
- `OkRunsUpload` (Sketches_all.cfg): "Update Success" (`OTAManager.cpp:167`) and "OK" after an upload that was cut off are about the
  cut-off one, whose update goes on, if its whole image had come in; and when `begin()` gets no memory, which
  line 151 sees and only prints, "OK" is about nothing, for no error is recorded.  FreshOkRunsUpload is therefore about an update of its own.
- `HeaderIsNotPlayed` (Sketches_all.cfg): "after processing wav file, it is time to process music data" (`WavePlayer.cpp:165`); in every file
  that does not find the initial state a header, or the rest of one, is played.  SoundIsHeard says that the sound follows it unharmed.
- `WaitsForNextData` (Sketches_all.cfg): "until the GPS returns the next data" (`GPSHandler.cpp:207`); after a verdict without a fix
  the wait ends at once, so that one sentence may lose the fix.  FixIsEarned says that none wins it so.

And from reading the small programs: a POST without a file is answered "OK" and restarts the board (`OTAManager.cpp:142-143`); the
monitor task spins without a delay while the WiFi is not connected (`OTAManager.cpp:105`); ButtonLedInterrupt3 says "FALLING"
and attaches RISING (lines 46-48); the HTTPS download says "read up to 128 byte" and reads 1024 (`main.cpp:107`);
`LedHandler::begin()` makes one pin an output twice and another never (`LedHandler.cpp:41-43`).

## 5. Fairness

- ConnectionManager: WF of both tasks and of the 60 s clock, for FreeRTOS schedules both.  SF for what the modem does in the end
  when it is asked again and again (restart, find a network, be attached when asked, open and close a session, admit a loss); the
  code's own retry loops have no other way to end.  No fairness for commands, link drops or the server.
- HttpTransfer: WF of the function and the clock.  The network owes nothing.
- CommunicationManager: WF of `app` and `mqtt`; SF of the link task, of `isConnected()` getting the mutex (it is free for a second
  or more in each round, and waiters are queued by FreeRTOS) and of the clock; SF of the MQTT task being there when the interval
  has passed, which excludes only a task that always looks in the same 10 s of the 4294967 s that the clock takes to wrap.  SF for the modem and the broker as above.  LinkRecovers assumes that the network stays, MqttReconnects
  that connectivity does.
- E32TTL100: WF of the driver, which does nothing else; SF of seeing a timely module idle, for all the traffic; WF of the module
  finishing what it does.
- ThreeButtons: WF of the loop and of pending interrupts.  Nobody has to press.
- MCSketches takes over the fairness of each module for the program on the board.  OTA: WF of joining the access point and of the event
  task; OtaReconnects assumes that the power stays on in the end.  Wave: WF of `PlayFile()`.  MQTT: WF of `loop()`, SF of an attempt
  that gets through, for the broker is there some time; SessionComesBack assumes that the GPRS session stays.  UART: WF of the handler,
  the FIFO's time-out and the task; no byte has to come.  Button: WF of time and of the loop.  Download: WF of `download()` and of a
  server that has not gone silent or closed.

## 6. Mutants

For every property of a passing run, the definition of the code that is replaced and the property that breaks:

| in | mutant | the slip | breaks |
|---|---|---|---|
| ConnectionManager | FaultyRefusedConnect | a request is refused only when connected | OneConnectOutstanding |
| | FaultyRefusedDisconnect | DISCONNECT is let in while connecting | ModemExclusive |
| | FaultyDisconnectRetry | one failed gprsDisconnect() is taken for a success | KeepsService |
| | FaultyEnqueue | no wait for room in the queue | TypeOK |
| | FaultyOpConnectSetFailed | a failed attempt leaves the status | ConnectingIsPending, ConnectAnswered |
| | FaultyOpClientBegin | the server dialled is not recorded | ServerIsCurrent |
| | FaultyMonReceive | the operation stays in the queue | CommandsEnd |
| | FaultyAutoQuery | the network is asked about, not the session | LostLinkNoticed |
| HttpTransfer | FaultyStore | one byte too many in the string | TypeOK |
| | FaultyWantsMore | what the modem holds after the close is dropped | DeliversContent |
| | FaultyWantsMoreForever | no time-out in the content loop | TransferEnds |
| CommunicationManager | FaultyInfoEnd | the mutex is not given back | TypeOK |
| | FaultyQueryEnd | the flag of isConnected() is left to the branches | FlagsNested, ClimbsLadder |
| | FaultyMqttCheck | the time of an attempt is noted only when it succeeded | AttemptsSpaced |
| | FaultySetDown | the network flag stays set after a failure | LinkRecovers |
| | FaultyElapsed | times compared as if millis() never wrapped | MqttReconnects |
| E32TTL100 | FaultySendIsDue | the counter is never reduced | TypeOK |
| | FaultyRemember | any mode counts as the remembered one | RunsInNormalMode |
| | FaultyInSleepMode | no waits around the command | RunsConfigured |
| | FaultySwitch | both waits before the pins | CommandsInSleepMode |
| | FaultyCleanBuffer | the buffer is not cleaned | ReadsOwnAnswer |
| | FaultyExpired | one look short | SetupEnds |
| ThreeButtons | FaultyHandleRelease | no look at the room in the queue | TypeOK |
| | FaultyAccepts | the difference of times is not unsigned | LampIsTheButton |
| | FaultyAcceptsEarly | >= for > | LampsAreDebounced |
| | FaultyProcessButtonEvents | the operation stays in the queue | OperationsProcessed |
| OtaUpdater | FaultyUploadEnd | the update is not ended before the answer | FreshOkRunsUpload |
| | FaultyUploadAborted | an upload that is cut off is ended like a whole one | UploadIsAtomic |
| | FaultyAutoReconnect | a lost connection is not joined again | OtaReconnects |
| WavePlayer | FaultyPlaySample | two words read for one sample | SoundIsHeard |
| MqttSketch | FaultyStamp | the time of the attempt is not noted | FailedAttemptsAreSpaced |
| | FaultyTooEarly | it is noted in every pass | SessionComesBack |
| GpsHandler | FaultyGoodVerdict | the time is not read | FixIsEarned |
| UartInterrupt | FaultyCount | one byte is left in the FIFO | PrintedInOrder |
| ButtonLed | FaultyClearFlag | the flag is cleared whenever no beep sounds, also one just set | PressIsBeeped |
| HttpsDownload | FaultyRest | the missing length is not reduced | DownloadTells |
| LedHandler | FaultySum | a led that is already as asked is added or subtracted again | SketchesTypeOK |
| | FaultyBitOut | the lowest bit first | ShowsWhatWasAsked |

## 7. Proofs

All theorems hold for every value of the constants that satisfies the named assumptions of the module (ConstantsAssumption,
ClockAssumption, ButtonsAssumption, ...): any number of servers, buttons, files, answers, any capacity, interval, clock.

**ConnectionManagerProofs.**  `TypeCorrect` ([]TypeOK), from `TypeInv`.  `ConnectingAlwaysPending` ([]ConnectingIsPending), from
`PendingInv`: ConnectingIsPending, and that the status is not CONNECTING while `begin()` has not created the monitor (`Booting`),
without which the step that creates it could not be shown to keep the rest.  Under the assumption
`ConnectionOnly` (no CONNECT_CLIENT and no auto-reconnect, so that the monitor only answers CONNECT; all other commands, POWER and
those on the socket included): `StatusKeepsTasksApart` ([]ModemExclusive: no command but POWER, DISCONNECT_CLIENT and
ISCLIENTCONNECTED is in the modem together with the monitor), `OneRequestAtATime` ([]OneConnectOutstanding), `NoSessionIsOrphaned`
([](~crossed => NoOrphanSession)) and `ImplementsService` (Spec => KeepsService).  None of them is inductive; `SoleInv` adds where the
tasks can be (`SolePoints`), that the request is in one place only (`OneRequest`), what the status is at each of these places
(`StatusTells`), that `crossed` notes a crossing (`CrossingNoted`) and, until it has, where an open session can be (`SessionTold`).
The mutual exclusion is used inside the induction: until the tasks cross, an answer is true because the modem has one user (`MonAlone`);
and what is said of the status needs no true answer, since the three commands that cross never write it.  In the refinement each
step maps to a step of ConnectionService or a stutter (`ServiceMain`, `ServiceMon`; `ServiceKeepers` and `ServiceCloses` for the steps that leave the
status alone); the steps that matter are those that write the status one critical section, or one modem call, after they read it:
`SoleInv` tells that it is still what they read.  With auto-reconnect the last two are false: connection_orphan is the counterexample.
`HostIsTheServer`: under
the assumption `Queued` (no synchronous `connectClient()`, which `main.cpp` does not call), ServerIsCurrent, with auto-reconnect and mixed
answers; `ServerInv` adds that main never dials and that the monitor dials the server it has just recorded.

**CommunicationManagerProofs.**  `TypeCorrect`; `FlagsAgree` ([]FlagsNested), where the invariant adds what the flags are at each
point of the link task (`Phases`), as they are written in several critical sections; `ImplementsLadder` (Spec => ClimbsLadder), a refinement:
each step maps to a step of the ladder or a stutter; `AttemptsKeepTheirDistance` (AttemptsSpaced): after a failure as long as
no more than the interval has passed since the attempt, the modular difference that the code computes is exactly that time
(`FailureTimed`), so the code sees the interval exceeded no sooner than it is.

**ThreeButtonsProofs.**  `TypeCorrect`, `LampFollows` ([]LampIsTheButton) and `EdgesKeepTheirDistance` (EdgesSpaced), from `Inv`:
TypeOK, LampIsTheButton, `Fresh` (no interrupt before they are attached), `LitByEdges` (a lamp that is on and an interrupt that waits had
an edge since the start), `RaisedNow` (a pending interrupt is of this millisecond)
and `TakenNoted` (a recent interrupt's time is in debounceTime).  Four lemmas are about differences modulo the clock.
`ImplementsDebounce` (Spec => LampsAreDebounced), a refinement from the same invariant: an interrupt that is taken is the switch following its
contact, one that is dropped is a stutter.  What carries it is `TakenIsSpaced`: the time computed from a clock that wraps may be
shorter than the time that passed, and then an edge is dropped, but never longer.

**HttpTransferProofs.**  `TypeCorrect`, `UndisturbedComplete` ([]UndisturbedIsComplete) and `ContentIsDelivered` ([]DeliversContent), from `TransferInv`: what the modem holds and
what has still to come are the rest of the answer, in order (`InOrder`); the file is the beginning of the content, as much of
it as was read until the card failed, and so is the string up to its limit (`Content`); the content ends by the length, the clock or an end of the connection that leaves nothing behind (`Endings`).
`OneBlank` shows from the assumption on answers that the blank line at which the code stops is the one.

**E32TTL100Proofs.**  `TypeCorrect` ([]TypeOK), `LoopRunsInNormalMode` ([]RunsInNormalMode), `LoopRunsConfigured` ([]RunsConfigured),
`CommandsReachASleepingModule` (CommandsInSleepMode) and `AnswersAreOwn` (ReadsOwnAnswer), so every safety property of e32_all, for every number of
looks, size of buffer and size of answer.  `Program` is a sequence of known length, and the lemma `Table` says once what its entries are; everything else speaks
of positions in it.  The invariant is in two parts.  `ModeInv` holds whatever the module does: an idle module is in the mode of
the pins (`ModuleFollows`), what it has still to hand out keeps it busy, and a wait that saw AUX high before `loop()` saw the normal mode
(`SeenIdle`).  `TimelyInv` holds when the module is timely: it sleeps between the two switches and is busy only after a command
(`Sleeps`), after the buffer is cleaned only bytes of the answer asked for come in (`OwnAnswer`), and from the position after the
configuration's wait on it is configured (`Configured`).  The three come together: a command is taken only by a module that sleeps.

**NetworkSketchesProofs.**  *OtaUpdater:* `FreshOkIsTrue` ([]FreshOkRunsUpload) and `UploadBoots` (BootChangesByUpload), from `OtaInv`: while an upload has the update
to itself the partition holds exactly the pieces passed so far, or the update has failed (`OwnUpdate`); what will be answered is
true of the boot partition (`BootsUpload`).  `OneImage`: a partition written with one file boots no other.  `NoRestartIsOwed` ([]RunsWhatItBoots).
`UpdaterIsTyped` ([]OtaTypeOK): that the pieces written are of files, and so what is booted is one, rests on `OtaInv`.
`ImplementsAtomicUpload` (OtaSpec => UploadIsAtomic), a refinement: the writes and the WiFi are stutters, the end of the update is the one step
that installs or refuses (`EndInstallsOrRefuses`, which rests on `OneImage`), and a fresh upload does not end without an update that
is running or has failed (`OwnUpdate`), so that the answer tells of this upload.
*MqttSketch:* `AttemptsAreSpaced` (FailedAttemptsAreSpaced), because the sketch's clock agrees with the one that runs since the
attempt began for as long as no attempt succeeds (`ClocksAgree`); `SessionIsSubscribed` ([]UpIsSubscribed).
*HttpsDownload:* `SuccessIsTold` ([]SuccessIsComplete, the first half of DownloadTells), from `Accounts`: what is read, waiting and
coming make up the length, and the card has all that was read until it fills up.

**DeviceSketchesProofs.**  *GpsHandler:* `FixIsWonByVerdicts` (FixIsEarned), from `FixTakesARow` (FixChangesByARow): a counter that is not zero counts verdicts of the
present row (`CountsOfTheRow`); and `FixIsWaitedFor` ([]WaitsAfterFix), from `FlagCleared`.
*WavePlayer:* `FilesAreHeard` ([]SoundIsHeard), for every length of header and sound and every place where a file ends.
`InFile`: in a file that finds a header state, the words between that state and the end of a header are read as one (`Skipped`), and all
that follow are played, so that the sound, which comes last, is among them (`LaterPieceIsSuffix`).
*UartInterrupt:* `UartImplementsLine` (UartSpec => UartLine!LineSpec): each step of the handler, the task and the UART is a step of the lossy line or a stutter; moving a byte
from the FIFO to the queue is a stutter if the queue has room, and the loss of one byte of the line if not.  From it,
`BytesAreNotOvertaken` ([]BytesKeepOrder) and `BytesAreAccountedFor` ([]NoByteVanishes: a byte that came in is printed or under way, or a
full buffer cost it).  Both are invariants of the abstract line alone (`LineInv`) and carried over by the refinement; the lemmas on
`RemoveAt`, `Ordered` and `Has` are what they rest on.  These are the safety part of PrintedInOrder.
*ButtonLed:* `PressIsAskedFor` ([]OwedIsAsked): a press that counts and has not been beeped is in its flag, the step by which PressIsBeeped could fail.
*LedHandler:* `LedsShowWhatWasAsked` ([]ShowsWhatWasAsked), for any number of leds and any order of their bits.  `HandlerInv` says that a bit of the sum is
set exactly if its led is asked for (`SumIsAsked`), that the bits shifted so far are the upper ones of the sum (`ShiftedSoFar`), and
that the register shows that sum when the shift is over (`Latched`, `FromTheSum`); a restart starts all this anew, whatever the register
holds.  It rests on `AddBit` and `SubtractBit`: adding a power of two to a sum without it sets that bit and no other, and
the reverse.  These need facts about `^` and `\div` that no prover here knows.  They come from two observations.  A set of n elements has 2^n subsets, a
theorem of FiniteSetTheorems, so that the powers double because the subsets of a set with one element more do (`PowerCounts`,
`PowerDoubles`).  And induction over a set of numbers follows from the well-foundedness of < (`NaturalsFromZero`), in a form whose
parameter is a set and not an operator.

**SketchesProofs.**  `BoardRunsPrograms`: the specification that sketches_all checks implies each program's own, so that nothing is true on the
board only because of how MCSketches puts them there.  From it and the invariants above `BoardIsTyped` ([]SketchesTypeOK) and
`BoardKeepsItsWord` (its three other invariants).

### Only model-checked

All liveness (ConnectAnswered, CommandsEnd, LostLinkNoticed, TransferEnds, LinkRecovers, MqttReconnects, SetupEnds, OperationsProcessed,
OtaReconnects, SessionComesBack, PressIsBeeped, the liveness parts of PrintedInOrder and DownloadTells): fairness and ENABLED are out of the prover's reach.
The safety parts of the last three are theorems (`PressIsAskedFor`, `BytesAreNotOvertaken`, `SuccessIsTold`).  Every invariant, action property and refinement
that a passing run checks is proved.

No module has a RECURSIVE operator.
