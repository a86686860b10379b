----------------------------- MODULE OtaUpdater -----------------------------
(***************************************************************************)
(* The firmware that updates itself over the web: the monitor task serves  *)
(* a browser while the WiFi is connected, the handlers of POST /update     *)
(* pass the file to the Update library and restart the board, and the WiFi *)
(* event task keeps the connection.  Names carry the program's prefix      *)
(* because MCSketches extends all the small programs together.             *)
(***************************************************************************)
EXTENDS Naturals, Sequences, SequencesExt

CONSTANTS
  Files,     \* firmware files that browsers upload; all are builds of this program
  Exact,     \* those whose length is a multiple of the server's upload buffer
  Factory,   \* the firmware the board was delivered with
  NoFile,    \* stands for no file
  Buffers,   \* full buffers in a file
  Space,     \* bound: buffers the update partition has room for
  EventLimit \* bound: WiFi events waiting for the event task

ASSUME OtaAssumption ==
  /\ Exact \subseteq Files /\ Factory \notin Files
  /\ NoFile \notin Files \cup {Factory}
  /\ {Buffers, Space, EventLimit} \subseteq Nat \ {0}

VARIABLES
  boot,      \* the file in the partition the board boots from
  running,   \* the file whose program runs
  updater,   \* the Update library: "idle", "running" or "error"
  flash,     \* what it has written to the other partition
  phase,     \* what the server is doing with the request in progress
  upload,    \* the file of that request
  sent,      \* buffers of it that were passed to the upload handler
  fresh,     \* whether Update.begin() of that request began an update or noted why not
  answer,    \* the last answer, until the next request
  link,      \* whether the access point has the board
  wifiEvents,\* events that wait for the event task
  connected, \* WiFi.isConnected()
  joining,   \* whether the WiFi library is trying to get a link
  stuck      \* the event task is in WiFiEvent()'s endless loop

updateVars == <<boot, running, updater, flash, phase, upload, sent, fresh, answer>>
wifiVars   == <<link, wifiEvents, connected, joining, stuck>>
otaVars    == <<updateVars, wifiVars>>

Length(f)   == IF f \in Exact THEN Buffers ELSE Buffers + 1
Contents(f) == [i \in 1..Length(f) |-> <<f, i>>]

(* The boot loader accepts what begins with a whole image.                 *)
Bootable(f) == IsPrefix(Contents(f), flash)

NoAnswer == [text |-> "none", to |-> NoFile, fresh |-> TRUE]

OtaInit ==
  /\ boot = Factory /\ running = Factory
  /\ updater = "idle" /\ flash = <<>>
  /\ phase = "none" /\ upload = NoFile /\ sent = 0 /\ fresh = TRUE
  /\ answer = NoAnswer
  /\ link = FALSE /\ wifiEvents = <<>> /\ connected = FALSE /\ joining = TRUE
  /\ stuck = FALSE

(***************************************************************************)
(* A restart: setup() of the file in the boot partition starts the WiFi.   *)
(***************************************************************************)
Restart ==
  /\ running' = boot
  /\ updater' = "idle" /\ flash' = <<>>
  /\ link' = FALSE /\ wifiEvents' = <<>> /\ connected' = FALSE /\ joining' = TRUE
  /\ stuck' = FALSE

PowerCut ==
  /\ Restart
  /\ phase' = "none" /\ upload' = NoFile /\ sent' = 0 /\ fresh' = TRUE
  /\ answer' = NoAnswer
  /\ UNCHANGED boot

-----------------------------------------------------------------------------
(* The Update library.  begin() leaves no error behind when it refuses,    *)
(* which it does while an update is running, or when memory for its buffer *)
(* runs out ("idle"); an error ends the update.                            *)
UpdateBegin ==
  \/ updater = "running" /\ UNCHANGED <<updater, flash>>
  \/ updater # "running" /\ updater' \in {"running", "error", "idle"} /\ flash' = <<>>

UpdateWrite(piece) ==
  \/ /\ updater = "running" /\ Len(flash) < Space
     /\ flash' = Append(flash, piece)
     /\ UNCHANGED updater
  \/ /\ updater = "running"
     /\ updater' = "error"
     /\ UNCHANGED flash
  \/ updater # "running" /\ UNCHANGED <<updater, flash>>

UpdateEnd ==
  \/ /\ updater = "running"
     /\ \E f \in Files : Bootable(f) /\ boot' = f
     /\ updater' = "idle"
  \/ /\ updater = "running"
     /\ \A f \in Files : ~Bootable(f)
     /\ updater' = "error"
     /\ UNCHANGED boot
  \/ updater # "running" /\ UNCHANGED <<updater, boot>>

-----------------------------------------------------------------------------
(* The requests.  handleClient() is called only while connected, and then  *)
(* deals with the whole request.                                           *)
RequestArrives == phase = "none" /\ connected /\ link

UploadStart(f) ==
  /\ RequestArrives
  /\ UpdateBegin
  /\ phase' = "writing" /\ upload' = f /\ sent' = 0
  /\ fresh' = (updater # "running" /\ updater' # "idle")
  /\ answer' = NoAnswer
  /\ UNCHANGED <<boot, running, wifiVars>>

UploadWrite ==
  /\ phase = "writing" /\ sent < Buffers /\ link
  /\ UpdateWrite(<<upload, sent + 1>>)
  /\ sent' = sent + 1
  /\ UNCHANGED <<boot, running, phase, upload, fresh, answer, wifiVars>>

(* The end of the file: a last, shorter buffer, which may be empty, and    *)
(* the end of the upload at once.                                          *)
UploadRest ==
  /\ phase = "writing" /\ sent = Buffers /\ link
  /\ IF upload \in Exact THEN UNCHANGED <<updater, flash>>
                         ELSE UpdateWrite(<<upload, sent + 1>>)
  /\ phase' = "ending"
  /\ UNCHANGED <<boot, running, upload, sent, fresh, answer, wifiVars>>

FaultyUploadEnd ==
  /\ phase = "ending"
  /\ phase' = "answering"
  /\ UNCHANGED <<boot, running, updater, flash, upload, sent, fresh, answer, wifiVars>>

UploadEnd ==
  /\ phase = "ending"
  /\ UpdateEnd
  /\ phase' = "answering"
  /\ UNCHANGED <<running, flash, upload, sent, fresh, answer, wifiVars>>

FaultyUploadAborted ==
  /\ phase = "writing"
  /\ UpdateEnd
  /\ phase' = "none" /\ upload' = NoFile /\ sent' = 0 /\ fresh' = TRUE
  /\ UNCHANGED <<running, flash, answer, wifiVars>>

(* The browser or the link goes away: the handler has no case for it, and  *)
(* the request is not answered.                                            *)
UploadAborted ==
  /\ phase = "writing"
  /\ phase' = "none" /\ upload' = NoFile /\ sent' = 0 /\ fresh' = TRUE
  /\ UNCHANGED <<boot, running, updater, flash, answer, wifiVars>>

PostWithoutFile ==
  /\ RequestArrives
  /\ phase' = "answering" /\ answer' = NoAnswer
  /\ UNCHANGED <<boot, running, updater, flash, upload, sent, fresh, wifiVars>>

Verdict == IF updater = "error" THEN "FAIL" ELSE "OK"

Answer ==
  /\ phase = "answering"
  /\ answer' = [text |-> Verdict, to |-> upload, fresh |-> fresh]
  /\ Restart
  /\ phase' = "none" /\ upload' = NoFile /\ sent' = 0 /\ fresh' = TRUE
  /\ UNCHANGED boot

-----------------------------------------------------------------------------
(* The WiFi.                                                               *)
Join ==
  /\ joining /\ ~link /\ Len(wifiEvents) < EventLimit
  /\ link' = TRUE /\ joining' = FALSE
  /\ wifiEvents' = Append(wifiEvents, "got_ip")
  /\ UNCHANGED <<connected, stuck, updateVars>>

LinkLost ==
  /\ link /\ Len(wifiEvents) < EventLimit
  /\ link' = FALSE
  /\ wifiEvents' = Append(wifiEvents, "disconnected")
  /\ UNCHANGED <<connected, joining, stuck, updateVars>>

FaultyAutoReconnect == FALSE

AutoReconnect == TRUE

(* WiFiEvent() runs in the library's event task, after the library has set *)
(* its status; only the address's arrival does more than print.            *)
WiFiEvent ==
  /\ ~stuck /\ wifiEvents # <<>>
  /\ wifiEvents' = Tail(wifiEvents)
  /\ \/ /\ Head(wifiEvents) = "got_ip"
        /\ connected' = TRUE
        /\ stuck' \in BOOLEAN
        /\ UNCHANGED joining
     \/ /\ Head(wifiEvents) = "disconnected"
        /\ connected' = FALSE
        /\ joining' = AutoReconnect
        /\ UNCHANGED stuck
  /\ UNCHANGED <<link, updateVars>>

Serve ==
  \/ \E f \in Files : UploadStart(f)
  \/ UploadWrite \/ UploadRest \/ UploadEnd \/ UploadAborted
  \/ PostWithoutFile \/ Answer

OtaNext == Serve \/ PowerCut \/ Join \/ LinkLost \/ WiFiEvent

OtaFairness == WF_otaVars(Join) /\ WF_otaVars(WiFiEvent)

OtaSpec == OtaInit /\ [][OtaNext]_otaVars /\ OtaFairness

-----------------------------------------------------------------------------
OtaTypeOK ==
  /\ {boot, running} \subseteq Files \cup {Factory}
  /\ updater \in {"idle", "running", "error"}
  /\ flash \in Seq(Files \X (1..(Buffers + 1))) /\ Len(flash) <= Space
  /\ phase \in {"none", "writing", "ending", "answering"}
  /\ upload \in Files \cup {NoFile} /\ sent \in 0..Buffers /\ fresh \in BOOLEAN
  /\ answer \in [text : {"none", "OK", "FAIL"}, to : Files \cup {NoFile}, fresh : BOOLEAN]
  /\ link \in BOOLEAN /\ connected \in BOOLEAN /\ joining \in BOOLEAN /\ stuck \in BOOLEAN
  /\ wifiEvents \in Seq({"got_ip", "disconnected"}) /\ Len(wifiEvents) <= EventLimit

(* A browser that uploaded a file into an update of its own and reads "OK" *)
(* has the board running that file, even if writes failed or the power was *)
(* cut during uploads before it (OTAManager.cpp:142, 165).  Its update is  *)
(* not its own after a begin() that refused it without an error: then      *)
(* end() has nothing to end, no error is found, and the browser reads "OK" *)
(* (see OkRunsUpload).                                                     *)
FreshOkRunsUpload ==
  answer.text = "OK" /\ answer.to # NoFile /\ answer.fresh => running = answer.to

(* Between requests the board runs what it would boot: no update waits for *)
(* a restart that nobody makes (OTAManager.cpp:143).                       *)
RunsWhatItBoots == phase = "none" => running = boot

(* To whoever looks at the request in progress, the answers and what is    *)
(* booted, every upload is atomic: its pieces, failures of writes, cuts by *)
(* the browser and power cuts do not show (OTAManager.cpp:138-171).  What  *)
(* a cut-off upload left running is in the way of the next one until the   *)
(* board restarts, and so may a lack of memory be.                         *)
Atomic ==
  INSTANCE AtomicUpload WITH
    Images <- Files, None <- NoFile, boots <- boot, runs <- running,
    request <- upload, told <- answer,
    leftover <- phase = "none" /\ updater = "running",
    outcome <- IF phase = "answering" THEN Verdict ELSE "open"

UploadIsAtomic == Atomic!AtomicSpec

(* What is booted changes only at the end of an upload that succeeds, and  *)
(* if that upload has the update to itself it becomes that very file; in   *)
(* particular not when the browser was told "FAIL" (OTAManager.cpp:163).   *)
BootChangesByUpload ==
  [][boot' # boot => /\ phase = "ending" /\ updater' = "idle"
                     /\ fresh => boot' = upload]_otaVars

(* Once the power stays on, a lost connection comes back if the access     *)
(* point does, unless mDNS has failed in the event task                    *)
(* (ConnectionManager.cpp:56-64, 156).                                     *)
ReconnectsUnlessStuck ==
  <>[][~PowerCut]_otaVars => (~connected ~> connected \/ stuck)

(* "Update Success" (OTAManager.cpp:167) and the answer "OK" are about the *)
(* file just uploaded.  Not so after an upload that was cut off: its       *)
(* update goes on, line 151 begins none, and if all of its image had come  *)
(* in it is the one that boots.  Nor when begin() finds no memory: it      *)
(* notes no error, and line 142 answers "OK" with nothing installed.       *)
OkRunsUpload == answer.text = "OK" /\ answer.to # NoFile => running = answer.to
=============================================================================
