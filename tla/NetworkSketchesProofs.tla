------------------------ MODULE NetworkSketchesProofs -----------------------
(***************************************************************************)
(* Proofs about the small programs that use a network: OtaUpdater, for any *)
(* files and sizes, MqttSketch, for any pause between the attempts, and    *)
(* HttpsDownload, for any lengths and any buffer.                          *)
(***************************************************************************)
EXTENDS OtaUpdater, MqttSketch, HttpsDownload, TLAPS

-----------------------------------------------------------------------------
(* OtaUpdater.                                                             *)
LEMMA OtaConstants == Buffers \in Nat /\ Buffers >= 1 /\ NoFile \notin Files
BY OtaAssumption DEF OtaAssumption

Pieces(f, n) == [i \in 1..n |-> <<f, i>>]

LEMMA PiecesGrow ==
  ASSUME NEW f \in Files, NEW n \in Nat
  PROVE  Append(Pieces(f, n), <<f, n + 1>>) = Pieces(f, n + 1)
<1>1. /\ Pieces(f, n) \in Seq(Files \X Nat) /\ Len(Pieces(f, n)) = n
      /\ Pieces(f, n + 1) \in Seq(Files \X Nat) /\ Len(Pieces(f, n + 1)) = n + 1
  BY DEF Pieces
<1>2. \A i \in 1..(n + 1) :
        Append(Pieces(f, n), <<f, n + 1>>)[i] = Pieces(f, n + 1)[i]
  BY <1>1 DEF Pieces
<1>3. /\ Append(Pieces(f, n), <<f, n + 1>>) \in Seq(Files \X Nat)
      /\ Len(Append(Pieces(f, n), <<f, n + 1>>)) = n + 1
  BY <1>1
<1> QED BY <1>1, <1>2, <1>3

(* An image begins with its first piece, so that the partition boots only  *)
(* the file it was written with.                                           *)
LEMMA OneImage ==
  ASSUME NEW f \in Files, NEW g \in Files, flash = Contents(g), Bootable(f)
  PROVE  f = g
<1>1. /\ Contents(f) \in Seq(Files \X Nat) /\ Len(Contents(f)) = Length(f)
      /\ Contents(g) \in Seq(Files \X Nat) /\ Len(Contents(g)) = Length(g)
      /\ Length(f) \in Nat /\ Length(f) >= 1 /\ Length(g) \in Nat
  BY OtaConstants DEF Contents, Length
<1>2. /\ Length(f) <= Length(g)
      /\ SubSeq(Contents(f), 1, Length(f)) = SubSeq(Contents(g), 1, Length(f))
  BY <1>1 DEF Bootable, IsPrefix
<1>3. SubSeq(Contents(f), 1, Length(f))[1] = Contents(f)[1]
  BY <1>1
<1>4. SubSeq(Contents(g), 1, Length(f))[1] = Contents(g)[1]
  BY <1>1, <1>2
<1>5. Contents(f)[1] = <<f, 1>> /\ Contents(g)[1] = <<g, 1>>
  BY <1>1, <1>2 DEF Contents
<1>6. <<f, 1>> = <<g, 1>> BY <1>2, <1>3, <1>4, <1>5
<1> QED BY <1>6

-----------------------------------------------------------------------------
Requests ==
  /\ phase = "none" => upload = NoFile
  /\ phase \in {"writing", "ending"} => upload \in Files
  /\ phase = "writing" => sent \in 0..Buffers
  /\ phase \in {"none", "writing", "ending", "answering"}

(* An upload that began an update has it to itself: the partition holds    *)
(* what was passed of the file, or the update has failed.                  *)
OwnUpdate ==
  /\ fresh /\ phase \in {"writing", "ending"} => updater \in {"running", "error"}
  /\ fresh /\ phase = "writing" /\ updater = "running" => flash = Pieces(upload, sent)
  /\ fresh /\ phase = "ending" /\ updater = "running" => flash = Contents(upload)

(* What will be answered is true of the boot partition.                    *)
BootsUpload ==
  phase = "answering" /\ upload # NoFile /\ fresh /\ updater # "error" => boot = upload

OtaInv == Requests /\ OwnUpdate /\ BootsUpload /\ FreshOkRunsUpload

LEMMA OtaInitEstablishesInv == OtaInit => OtaInv
BY DEF OtaInit, OtaInv, Requests, OwnUpdate, BootsUpload, FreshOkRunsUpload, NoAnswer

LEMMA StartKeepsInv ==
  ASSUME OtaInv, NEW f \in Files, UploadStart(f) PROVE OtaInv'
<1>1. Pieces(f, 0) = <<>> BY DEF Pieces
<1>2. fresh' => updater' \in {"running", "error"} /\ flash' = <<>>
  BY DEF UploadStart, UpdateBegin
<1>3. sent' = 0 /\ sent' \in 0..Buffers
  BY OtaConstants DEF UploadStart
<1> QED
  BY <1>1, <1>2, <1>3
  DEF UploadStart, OtaInv, Requests, OwnUpdate, BootsUpload, FreshOkRunsUpload, NoAnswer

LEMMA WriteKeepsInv == ASSUME OtaInv, UploadWrite PROVE OtaInv'
<1>1. /\ upload \in Files /\ sent \in Nat /\ sent' = sent + 1 /\ sent' \in 0..Buffers
      /\ phase' = "writing" /\ upload' = upload /\ fresh' = fresh
  BY OtaConstants DEF UploadWrite, OtaInv, Requests
<1>2. fresh => updater' \in {"running", "error"}
  BY DEF UploadWrite, UpdateWrite, OtaInv, OwnUpdate
<1>3. ASSUME fresh, updater' = "running" PROVE flash' = Pieces(upload, sent + 1)
  <2>1. flash' = Append(flash, <<upload, sent + 1>>) /\ flash = Pieces(upload, sent)
    BY <1>3 DEF UploadWrite, UpdateWrite, OtaInv, OwnUpdate
  <2> QED BY <2>1, <1>1, PiecesGrow
<1> QED
  BY <1>1, <1>2, <1>3
  DEF UploadWrite, OtaInv, Requests, OwnUpdate, BootsUpload, FreshOkRunsUpload

LEMMA RestKeepsInv == ASSUME OtaInv, UploadRest PROVE OtaInv'
<1>1. /\ upload \in Files /\ sent = Buffers
      /\ phase' = "ending" /\ upload' = upload /\ fresh' = fresh
  BY DEF UploadRest, OtaInv, Requests
<1>2. fresh => updater' \in {"running", "error"}
  BY DEF UploadRest, UpdateWrite, OtaInv, OwnUpdate
<1>3. ASSUME fresh, updater' = "running" PROVE flash' = Contents(upload)
  <2>1. CASE upload \in Exact
    BY <2>1, <1>1, <1>3 DEF UploadRest, OtaInv, OwnUpdate, Contents, Length, Pieces
  <2>2. CASE upload \notin Exact
    <3>1. flash' = Append(flash, <<upload, sent + 1>>) /\ flash = Pieces(upload, sent)
      BY <2>2, <1>3 DEF UploadRest, UpdateWrite, OtaInv, OwnUpdate
    <3>2. flash' = Pieces(upload, Buffers + 1)
      BY <3>1, <1>1, PiecesGrow, OtaConstants
    <3> QED BY <3>2, <2>2 DEF Contents, Length, Pieces
  <2> QED BY <2>1, <2>2
<1> QED
  BY <1>1, <1>2, <1>3
  DEF UploadRest, OtaInv, Requests, OwnUpdate, BootsUpload, FreshOkRunsUpload

(* The end of an update boots the upload it belongs to.                    *)
LEMMA EndBootsUpload ==
  ASSUME OtaInv, UploadEnd, fresh, updater' # "error"
  PROVE  boot' = upload /\ updater = "running" /\ updater' = "idle"
<1>1. updater = "running" /\ flash = Contents(upload) /\ upload \in Files
  BY DEF UploadEnd, UpdateEnd, OtaInv, OwnUpdate, Requests
<1>2. PICK f \in Files : Bootable(f) /\ boot' = f
  BY <1>1 DEF UploadEnd, UpdateEnd
<1>3. f = upload BY <1>1, <1>2, OneImage
<1> QED BY <1>1, <1>2, <1>3 DEF UploadEnd, UpdateEnd

LEMMA EndKeepsInv == ASSUME OtaInv, UploadEnd PROVE OtaInv'
BY EndBootsUpload
DEF UploadEnd, OtaInv, Requests, OwnUpdate, BootsUpload, FreshOkRunsUpload

LEMMA AnswerKeepsInv == ASSUME OtaInv, Answer PROVE OtaInv'
<1>1. answer'.text = "OK" => updater # "error"
  BY DEF Answer, Verdict
<1>2. answer'.to = upload /\ answer'.fresh = fresh /\ running' = boot
  BY DEF Answer, Restart
<1> QED
  BY <1>1, <1>2
  DEF Answer, Restart, OtaInv, Requests, OwnUpdate, BootsUpload, FreshOkRunsUpload

LEMMA OtaNextKeepsInv == OtaInv /\ [OtaNext]_otaVars => OtaInv'
<1> SUFFICES ASSUME OtaInv, [OtaNext]_otaVars PROVE OtaInv'
  OBVIOUS
<1>1. ASSUME NEW f \in Files, UploadStart(f) PROVE OtaInv' BY <1>1, StartKeepsInv
<1>2. CASE UploadWrite BY <1>2, WriteKeepsInv
<1>3. CASE UploadRest BY <1>3, RestKeepsInv
<1>4. CASE UploadEnd BY <1>4, EndKeepsInv
<1>5. CASE Answer BY <1>5, AnswerKeepsInv
<1> USE DEF OtaInv, Requests, OwnUpdate, BootsUpload, FreshOkRunsUpload
<1>6. CASE UploadAborted BY <1>6 DEF UploadAborted
<1>7. CASE PostWithoutFile BY <1>7 DEF PostWithoutFile, RequestArrives, NoAnswer
<1>8. CASE PowerCut BY <1>8 DEF PowerCut, NoAnswer
<1>9. CASE Join \/ LinkLost \/ WiFiEvent
  BY <1>9 DEF Join, LinkLost, WiFiEvent, updateVars
<1>10. CASE UNCHANGED otaVars BY <1>10 DEF otaVars, updateVars
<1> QED
  BY <1>1, <1>2, <1>3, <1>4, <1>5, <1>6, <1>7, <1>8, <1>9, <1>10 DEF OtaNext, Serve

-----------------------------------------------------------------------------
LEMMA StepBootsUpload ==
  OtaInv /\ [OtaNext]_otaVars
    => [boot' # boot => /\ phase = "ending" /\ updater' = "idle"
                        /\ fresh => boot' = upload]_otaVars
<1> SUFFICES ASSUME OtaInv, OtaNext, boot' # boot
             PROVE  phase = "ending" /\ updater' = "idle" /\ (fresh => boot' = upload)
  BY DEF otaVars, updateVars
<1>1. UploadEnd
  BY DEF OtaNext, Serve, UploadStart, UploadWrite, UploadRest, UploadAborted,
         PostWithoutFile, Answer, PowerCut, Join, LinkLost, WiFiEvent, updateVars
<1>2. phase = "ending" /\ updater' = "idle"
  BY <1>1 DEF UploadEnd, UpdateEnd
<1> QED BY <1>1, <1>2, EndBootsUpload

LEMMA OtaInvHolds == OtaSpec => []OtaInv
BY OtaInitEstablishesInv, OtaNextKeepsInv, PTL DEF OtaSpec

(* "OK" is true of an upload that had the update to itself, through failed *)
(* writes, cut uploads and power cuts (OTAManager.cpp:142, 165), for any   *)
(* files and any sizes.                                                    *)
THEOREM FreshOkIsTrue == OtaSpec => []FreshOkRunsUpload
<1>1. OtaInv => FreshOkRunsUpload BY DEF OtaInv
<1> QED BY OtaInvHolds, <1>1, PTL

(* What the board boots changes only by an upload that succeeds, and to    *)
(* that upload if it had the update to itself (OTAManager.cpp:163).        *)
THEOREM UploadBoots == OtaSpec => BootChangesByUpload
BY OtaInvHolds, StepBootsUpload, PTL DEF OtaSpec, BootChangesByUpload

-----------------------------------------------------------------------------
BootedUntilEnd == phase \in {"none", "writing", "ending"} => running = boot

LEMMA NextKeepsBooted == BootedUntilEnd /\ [OtaNext]_otaVars => BootedUntilEnd'
<1> SUFFICES ASSUME BootedUntilEnd, [OtaNext]_otaVars PROVE BootedUntilEnd'
  OBVIOUS
<1> USE DEF BootedUntilEnd
<1>1. ASSUME NEW f \in Files, UploadStart(f) PROVE BootedUntilEnd'
  BY <1>1 DEF UploadStart, RequestArrives
<1>2. CASE UploadWrite \/ UploadRest \/ UploadEnd \/ UploadAborted
  BY <1>2 DEF UploadWrite, UploadRest, UploadEnd, UploadAborted
<1>3. CASE PostWithoutFile BY <1>3 DEF PostWithoutFile
<1>4. CASE Answer \/ PowerCut BY <1>4 DEF Answer, PowerCut, Restart
<1>5. CASE Join \/ LinkLost \/ WiFiEvent
  BY <1>5 DEF Join, LinkLost, WiFiEvent, updateVars
<1>6. CASE UNCHANGED otaVars BY <1>6 DEF otaVars, updateVars
<1> QED BY <1>1, <1>2, <1>3, <1>4, <1>5, <1>6 DEF OtaNext, Serve

(* Between requests no update waits for a restart: the request that ends   *)
(* an update restarts the board (OTAManager.cpp:143).                      *)
THEOREM NoRestartIsOwed == OtaSpec => []RunsWhatItBoots
<1>1. OtaInit => BootedUntilEnd BY DEF OtaInit, BootedUntilEnd
<1>2. BootedUntilEnd => RunsWhatItBoots BY DEF BootedUntilEnd, RunsWhatItBoots
<1> QED BY <1>1, <1>2, NextKeepsBooted, PTL DEF OtaSpec

-----------------------------------------------------------------------------
(* The refinement of AtomicUpload.  Between requests nothing is in the way *)
(* but what an upload left running; OwnUpdate says that a fresh upload     *)
(* does not end without an update that is running or has failed.           *)
UpdateUnderway ==
  /\ phase = "none" => fresh
  /\ fresh \in BOOLEAN
  /\ updater \in {"idle", "running", "error"}

LEMMA NextKeepsUpdateUnderway == OtaInv /\ UpdateUnderway /\ [OtaNext]_otaVars => UpdateUnderway'
<1> SUFFICES ASSUME OtaInv, UpdateUnderway, [OtaNext]_otaVars PROVE UpdateUnderway'
  OBVIOUS
<1> USE DEF UpdateUnderway
<1>1. ASSUME NEW f \in Files, UploadStart(f) PROVE UpdateUnderway'
  BY <1>1 DEF UploadStart, UpdateBegin
<1>2. CASE UploadWrite \/ UploadRest
  BY <1>2 DEF UploadWrite, UploadRest, UpdateWrite
<1>3. CASE UploadEnd BY <1>3 DEF UploadEnd, UpdateEnd
<1>4. CASE UploadAborted \/ PostWithoutFile
  BY <1>4 DEF UploadAborted, PostWithoutFile
<1>5. CASE Answer \/ PowerCut BY <1>5 DEF Answer, PowerCut, Restart
<1>6. CASE Join \/ LinkLost \/ WiFiEvent
  BY <1>6 DEF Join, LinkLost, WiFiEvent, updateVars
<1>7. CASE UNCHANGED otaVars BY <1>7 DEF otaVars, updateVars
<1> QED BY <1>1, <1>2, <1>3, <1>4, <1>5, <1>6, <1>7 DEF OtaNext, Serve

Left    == phase = "none" /\ updater = "running"
Outcome == IF phase = "answering" THEN Verdict ELSE "open"

(* The pieces of a file do not show.                                       *)
LEMMA WriteIsUnseen ==
  ASSUME OtaInv, UploadWrite \/ UploadRest PROVE UNCHANGED Atomic!uploadVars
<1>1. /\ UNCHANGED <<boot, running, upload, fresh, answer>>
      /\ phase = "writing" /\ phase' \in {"writing", "ending"}
  BY DEF UploadWrite, UploadRest
<1>2. Left' = Left /\ Outcome' = Outcome
  BY <1>1 DEF Left, Outcome
<1> QED BY <1>1, <1>2 DEF Atomic!uploadVars, Left, Outcome

LEMMA WifiIsUnseen ==
  ASSUME Join \/ LinkLost \/ WiFiEvent \/ UNCHANGED otaVars
  PROVE  UNCHANGED Atomic!uploadVars
BY DEF Join, LinkLost, WiFiEvent, otaVars, updateVars, Atomic!uploadVars, Verdict

LEMMA StartBegins ==
  ASSUME OtaInv, NEW f \in Files, UploadStart(f) PROVE Atomic!Begin(f)
<1>1. phase = "none" /\ phase' = "writing" /\ upload = NoFile
  BY DEF UploadStart, RequestArrives, OtaInv, Requests
<1>2. (Left => ~fresh') /\ fresh' \in BOOLEAN
  BY <1>1 DEF UploadStart, Left
<1>3. ~Left' /\ Outcome = "open" /\ Outcome' = "open"
  BY <1>1 DEF Left, Outcome
<1> QED
  BY <1>1, <1>2, <1>3, Zenon
  DEF UploadStart, NoAnswer, Left, Outcome, Atomic!Begin, Atomic!NoRequest,
      Atomic!Nothing

(* The end of the update is the one step that changes what is booted.      *)
LEMMA EndInstallsOrRefuses ==
  ASSUME OtaInv, UpdateUnderway, UploadEnd PROVE Atomic!Install \/ Atomic!Refuse
<1>1. /\ phase = "ending" /\ phase' = "answering" /\ upload \in Files /\ upload # NoFile
      /\ UNCHANGED <<running, upload, fresh, answer>>
  BY OtaConstants DEF UploadEnd, OtaInv, Requests
<1>2. Outcome = "open" /\ Left = FALSE /\ Left' = FALSE /\ Outcome' = Verdict'
  BY <1>1 DEF Outcome, Left
<1>3. CASE updater' # "error"
  <2>1. boot' \in Files \cup {boot}
    BY <1>1, <1>3 DEF UploadEnd, UpdateEnd, UpdateUnderway
  <2>2. boot' \in (IF fresh THEN {upload} ELSE Files \cup {boot})
    BY <1>3, <2>1, EndBootsUpload
  <2>3. Outcome' = "OK" BY <1>2, <1>3 DEF Verdict
  <2> QED
    BY <1>1, <1>2, <2>2, <2>3, Zenon DEF Atomic!Install, Left, Outcome
<1>4. CASE updater' = "error"
  <2>1. boot' = boot BY <1>4 DEF UploadEnd, UpdateEnd
  <2>2. Outcome' = "FAIL" BY <1>2, <1>4 DEF Verdict
  <2> QED BY <1>1, <1>2, <2>1, <2>2, Zenon DEF Atomic!Refuse, Left, Outcome
<1> QED BY <1>3, <1>4

LEMMA AbortWithdraws ==
  ASSUME OtaInv, UploadAborted PROVE Atomic!Withdraw
<1>1. /\ phase = "writing" /\ phase' = "none" /\ upload # NoFile
      /\ upload' = NoFile /\ fresh' = TRUE
      /\ UNCHANGED <<boot, running, answer>>
  BY OtaConstants DEF UploadAborted, OtaInv, Requests
<1>2. Outcome = "open" /\ Outcome' = "open" /\ Left' \in BOOLEAN
  BY <1>1 DEF Outcome, Left
<1> QED BY <1>1, <1>2, Zenon DEF Atomic!Withdraw, Left, Outcome

LEMMA NoFileIsEmpty ==
  ASSUME OtaInv, PostWithoutFile PROVE Atomic!Empty
<1>1. /\ phase = "none" /\ phase' = "answering" /\ upload = NoFile
      /\ answer' = NoAnswer
      /\ UNCHANGED <<boot, running, upload, fresh>>
  BY DEF PostWithoutFile, RequestArrives, OtaInv, Requests
<1>2. Outcome = "open" /\ Outcome' \in {"OK", "FAIL"} /\ Left' = FALSE
  BY <1>1 DEF Outcome, Left, Verdict
<1> QED
  BY <1>1, <1>2, Zenon
  DEF NoAnswer, Left, Outcome, Atomic!Empty, Atomic!NoRequest, Atomic!Nothing

LEMMA RestartRestarts ==
  ASSUME Restart, phase' = "none", upload' = NoFile, fresh' = TRUE, UNCHANGED boot
  PROVE  Atomic!Restart
<1>1. Outcome' = "open" /\ Left' = FALSE
  BY DEF Restart, Outcome, Left
<1> QED BY <1>1, Zenon DEF Restart, Atomic!Restart, Left, Outcome

LEMMA AnswerTells == ASSUME Answer PROVE Atomic!Tell
<1>1. Atomic!Restart BY RestartRestarts DEF Answer
<1>2. Outcome = Verdict /\ Outcome # "open"
  BY DEF Answer, Outcome, Verdict
<1>3. answer' = [text |-> Outcome, to |-> upload, fresh |-> fresh]
  BY <1>2 DEF Answer
<1> QED BY <1>1, <1>2, <1>3, Zenon DEF Atomic!Tell, Outcome

LEMMA PowerCutIsOne == ASSUME PowerCut PROVE Atomic!PowerCut
<1>1. Atomic!Restart BY RestartRestarts DEF PowerCut
<1> QED BY <1>1, Zenon DEF PowerCut, NoAnswer, Atomic!PowerCut, Atomic!Nothing

(* The pieces of an upload, failed writes, browsers that leave and power   *)
(* cuts between any two steps do not show: each upload is one change of    *)
(* what is booted, or none, and is told of as it was (OTAManager.cpp:138-  *)
(* 171), for any files and sizes.                                          *)
THEOREM ImplementsAtomicUpload == OtaSpec => UploadIsAtomic
<1>1. OtaInit => Atomic!AtomicInit
  <2> SUFFICES ASSUME OtaInit PROVE Atomic!AtomicInit
    OBVIOUS
  <2>1. Outcome = "open" /\ Left = FALSE BY DEF OtaInit, Outcome, Left
  <2> QED
    BY <2>1, Zenon DEF OtaInit, NoAnswer, Left, Outcome, Atomic!AtomicInit,
                       Atomic!NoRequest, Atomic!Nothing
<1>2. OtaInv /\ UpdateUnderway /\ [OtaNext]_otaVars => [Atomic!AtomicNext]_(Atomic!uploadVars)
  <2> SUFFICES ASSUME OtaInv, UpdateUnderway, [OtaNext]_otaVars
               PROVE  Atomic!AtomicNext \/ UNCHANGED Atomic!uploadVars
    OBVIOUS
  <2>1. CASE \E f \in Files : UploadStart(f)
    BY <2>1, StartBegins DEF Atomic!AtomicNext
  <2>2. CASE UploadWrite \/ UploadRest BY <2>2, WriteIsUnseen
  <2>3. CASE UploadEnd BY <2>3, EndInstallsOrRefuses DEF Atomic!AtomicNext
  <2>4. CASE UploadAborted BY <2>4, AbortWithdraws DEF Atomic!AtomicNext
  <2>5. CASE PostWithoutFile BY <2>5, NoFileIsEmpty DEF Atomic!AtomicNext
  <2>6. CASE Answer BY <2>6, AnswerTells DEF Atomic!AtomicNext
  <2>7. CASE PowerCut BY <2>7, PowerCutIsOne DEF Atomic!AtomicNext
  <2>8. CASE Join \/ LinkLost \/ WiFiEvent \/ UNCHANGED otaVars BY <2>8, WifiIsUnseen
  <2> QED BY <2>1, <2>2, <2>3, <2>4, <2>5, <2>6, <2>7, <2>8 DEF OtaNext, Serve
<1>3. OtaInit => UpdateUnderway BY DEF OtaInit, UpdateUnderway
<1> QED
  BY <1>1, <1>2, <1>3, OtaInvHolds, NextKeepsUpdateUnderway, PTL
  DEF OtaSpec, UploadIsAtomic, Atomic!AtomicSpec

-----------------------------------------------------------------------------
(* The handlers of the upload and the Update library under them.           *)
UpdateTyped ==
  /\ {boot, running} \subseteq Files \cup {Factory}
  /\ updater \in {"idle", "running", "error"}
  /\ flash \in Seq(Files \X (1..(Buffers + 1))) /\ Len(flash) <= Space
  /\ phase \in {"none", "writing", "ending", "answering"}
  /\ upload \in Files \cup {NoFile} /\ sent \in 0..Buffers /\ fresh \in BOOLEAN
  /\ answer \in [text : {"none", "OK", "FAIL"}, to : Files \cup {NoFile}, fresh : BOOLEAN]

EventsTyped ==
  wifiEvents \in Seq({"got_ip", "disconnected"}) /\ Len(wifiEvents) <= EventLimit

WifiTyped ==
  /\ link \in BOOLEAN /\ connected \in BOOLEAN /\ joining \in BOOLEAN /\ stuck \in BOOLEAN
  /\ EventsTyped

LEMMA OtaTypeParts == OtaTypeOK <=> UpdateTyped /\ WifiTyped
BY DEF OtaTypeOK, UpdateTyped, WifiTyped, EventsTyped

LEMMA OtaSizes ==
  /\ Space \in Nat /\ Space >= 1 /\ EventLimit \in Nat /\ EventLimit >= 1
  /\ 0 \in 0..Buffers /\ NoFile \in Files \cup {NoFile}
BY OtaAssumption DEF OtaAssumption

LEMMA NoAnswerTyped ==
  NoAnswer \in [text : {"none", "OK", "FAIL"}, to : Files \cup {NoFile}, fresh : BOOLEAN]
BY DEF NoAnswer

LEMMA OtaInitTyped == OtaInit => OtaTypeOK
<1> SUFFICES ASSUME OtaInit PROVE UpdateTyped /\ WifiTyped
  BY OtaTypeParts
<1>1. UpdateTyped BY OtaSizes, NoAnswerTyped DEF OtaInit, UpdateTyped
<1>2. EventsTyped BY OtaSizes DEF OtaInit, EventsTyped
<1>3. WifiTyped BY <1>2, Zenon DEF OtaInit, WifiTyped
<1> QED BY <1>1, <1>3

LEMMA RestartTyped ==
  ASSUME UpdateTyped, Restart
  PROVE  /\ WifiTyped' /\ running' \in Files \cup {Factory} /\ updater' = "idle"
         /\ flash' = <<>> /\ Len(flash') <= Space
<1>1. EventsTyped' BY OtaSizes DEF Restart, EventsTyped
<1>2. WifiTyped' BY <1>1, Zenon DEF Restart, WifiTyped
<1>3. /\ running' \in Files \cup {Factory} /\ updater' = "idle"
      /\ flash' = <<>> /\ Len(flash') <= Space
  BY OtaSizes DEF Restart, UpdateTyped
<1> QED BY <1>2, <1>3

LEMMA UploadTyped ==
  ASSUME OtaInv, UpdateTyped, Serve PROVE UpdateTyped'
<1> USE OtaSizes, NoAnswerTyped DEF UpdateTyped
<1>1. ASSUME NEW f \in Files, UploadStart(f) PROVE UpdateTyped'
  <2>1. /\ updater' \in {"idle", "running", "error"}
        /\ flash' \in Seq(Files \X (1..(Buffers + 1))) /\ Len(flash') <= Space
    <3>1. CASE UNCHANGED <<updater, flash>> BY <3>1
    <3>2. CASE updater' \in {"running", "error", "idle"} /\ flash' = <<>>
      <4>1. <<>> \in Seq(Files \X (1..(Buffers + 1))) /\ Len(<<>>) <= Space
        BY OtaSizes
      <4> QED BY <3>2, <4>1
    <3> QED BY <1>1, <3>1, <3>2 DEF UploadStart, UpdateBegin
  <2>2. fresh' \in BOOLEAN BY <1>1, Zenon DEF UploadStart
  <2>3. /\ UNCHANGED <<boot, running>> /\ phase' = "writing" /\ upload' = f
        /\ sent' = 0 /\ answer' = NoAnswer
    BY <1>1 DEF UploadStart
  <2> QED BY <2>1, <2>2, <2>3
<1>2. CASE UploadWrite \/ UploadRest
  <2>1. upload \in Files /\ phase = "writing"
    BY <1>2 DEF UploadWrite, UploadRest, OtaInv, Requests
  <2>2. <<upload, sent + 1>> \in Files \X (1..(Buffers + 1))
    BY <2>1, OtaConstants
  <2>3. /\ flash' \in Seq(Files \X (1..(Buffers + 1))) /\ Len(flash') <= Space
        /\ updater' \in {"idle", "running", "error"}
    <3>1. CASE UNCHANGED flash /\ updater' \in {updater, "error"}
      BY <3>1
    <3>2. CASE /\ flash' = Append(flash, <<upload, sent + 1>>)
               /\ updater' = updater /\ Len(flash) < Space
      BY <2>2, <3>2
    <3> QED BY <1>2, <3>1, <3>2 DEF UploadWrite, UploadRest, UpdateWrite
  <2>4. /\ UNCHANGED <<boot, running, upload, fresh, answer>>
        /\ sent' \in 0..Buffers /\ phase' \in {"writing", "ending"}
    BY <1>2, OtaConstants DEF UploadWrite, UploadRest
  <2> QED BY <2>3, <2>4
<1>3. CASE UploadEnd BY <1>3 DEF UploadEnd, UpdateEnd
<1>4. CASE UploadAborted BY <1>4 DEF UploadAborted
<1>5. CASE PostWithoutFile BY <1>5 DEF PostWithoutFile, RequestArrives
<1>6. CASE Answer
  <2>1. answer' \in [text : {"none", "OK", "FAIL"}, to : Files \cup {NoFile}, fresh : BOOLEAN]
    BY <1>6 DEF Answer, Verdict
  <2>2. /\ running' \in Files \cup {Factory} /\ updater' = "idle"
        /\ flash' = <<>> /\ Len(flash') <= Space
    BY <1>6, RestartTyped DEF Answer
  <2>3. /\ boot' = boot /\ phase' = "none" /\ upload' = NoFile /\ sent' = 0 /\ fresh' = TRUE
    BY <1>6 DEF Answer
  <2> QED BY <2>1, <2>2, <2>3
<1> QED BY <1>1, <1>2, <1>3, <1>4, <1>5, <1>6 DEF Serve

LEMMA OtaNextTyped == OtaInv /\ OtaTypeOK /\ [OtaNext]_otaVars => OtaTypeOK'
<1> SUFFICES ASSUME OtaInv, UpdateTyped, WifiTyped, [OtaNext]_otaVars
             PROVE  UpdateTyped' /\ WifiTyped'
  BY DEF OtaTypeOK, UpdateTyped, WifiTyped, EventsTyped
<1>1. CASE Serve
  <2>1. UpdateTyped' BY <1>1, UploadTyped
  <2>2. CASE Answer BY <2>1, <2>2, RestartTyped DEF Answer
  <2>3. CASE ~Answer
    <3>1. UNCHANGED <<link, wifiEvents, connected, joining, stuck>>
      BY <1>1, <2>3 DEF Serve, UploadStart, UploadWrite, UploadRest, UploadEnd,
                        UploadAborted, PostWithoutFile, wifiVars
    <3>2. WifiTyped' BY <3>1, Zenon DEF WifiTyped, EventsTyped
    <3> QED BY <2>1, <3>2
  <2> QED BY <2>2, <2>3
<1>2. CASE PowerCut
  <2>1. /\ WifiTyped' /\ running' \in Files \cup {Factory} /\ updater' = "idle"
        /\ flash' = <<>> /\ Len(flash') <= Space
    BY <1>2, RestartTyped DEF PowerCut
  <2>2. /\ boot' = boot /\ phase' = "none" /\ upload' = NoFile /\ sent' = 0 /\ fresh' = TRUE
        /\ answer' = NoAnswer
    BY <1>2 DEF PowerCut
  <2>3. UpdateTyped' BY <2>1, <2>2, OtaSizes, NoAnswerTyped DEF UpdateTyped
  <2> QED BY <2>1, <2>3
<1>3. CASE Join \/ LinkLost \/ WiFiEvent
  <2>1. UpdateTyped' BY <1>3 DEF Join, LinkLost, WiFiEvent, updateVars, UpdateTyped
  <2>2. EventsTyped'
    BY <1>3, OtaSizes DEF Join, LinkLost, WiFiEvent, WifiTyped, EventsTyped
  <2>3. WifiTyped'
    BY <1>3, <2>2, Zenon DEF Join, LinkLost, WiFiEvent, AutoReconnect, WifiTyped
  <2> QED BY <2>1, <2>3
<1>4. CASE UNCHANGED otaVars
  <2>1. UpdateTyped' BY <1>4 DEF otaVars, updateVars, UpdateTyped
  <2>2. WifiTyped' BY <1>4, Zenon DEF otaVars, wifiVars, WifiTyped, EventsTyped
  <2> QED BY <2>1, <2>2
<1> QED BY <1>1, <1>2, <1>3, <1>4 DEF OtaNext

(* Whatever fails, is cut off or restarts, the Update library and the WiFi *)
(* stay in their states, the partition holds pieces of files and no more   *)
(* than it has room for, and the board boots a file (OTAManager.cpp:138-   *)
(* 171, ConnectionManager.cpp:41-70).                                      *)
THEOREM UpdaterIsTyped == OtaSpec => []OtaTypeOK
BY OtaInvHolds, OtaInitTyped, OtaNextTyped, PTL DEF OtaSpec

-----------------------------------------------------------------------------
(* MqttSketch.                                                              *)
(* While an attempt runs and after it failed, the sketch's clock runs with *)
(* the one that started when the attempt began.                            *)
ClocksAgree ==
  mqttPc = "connecting" \/ failing => since = gap /\ session = "none"

MqttInv == MqttTypeOK /\ ClocksAgree

LEMMA PeriodIsPositive == Period \in Nat /\ Period >= 1
BY MqttAssumption DEF MqttAssumption

LEMMA LaterTyped ==
  ASSUME NEW n \in 0..(Period + 1) PROVE Later(n) \in 0..(Period + 1)
BY PeriodIsPositive DEF Later

LEMMA MqttInitEstablishesInv == MqttInit => MqttInv
<1> SUFFICES ASSUME MqttInit PROVE MqttInv
  OBVIOUS
<1>1. since \in 0..(Period + 1) /\ gap \in 0..(Period + 1)
  BY PeriodIsPositive DEF MqttInit
<1> QED BY <1>1, Zenon DEF MqttInit, MqttInv, MqttTypeOK, ClocksAgree

LEMMA MqttNextKeepsInv == MqttInv /\ [MqttNext]_mqttVars => MqttInv'
<1> SUFFICES ASSUME MqttInv, [MqttNext]_mqttVars PROVE MqttInv'
  OBVIOUS
<1>1. /\ Later(since) \in 0..(Period + 1) /\ Later(gap) \in 0..(Period + 1)
      /\ 0 \in 0..(Period + 1) /\ Period + 1 \in 0..(Period + 1)
  BY LaterTyped, PeriodIsPositive DEF MqttInv, MqttTypeOK
<1> USE DEF MqttInv, MqttTypeOK, ClocksAgree, Elapsed, Stamp, Unconnected
<1>2. CASE WaitForNetwork BY <1>1, <1>2, Zenon DEF WaitForNetwork
<1>3. CASE GprsConnect BY <1>1, <1>3, Zenon DEF GprsConnect
<1>4. CASE TooEarly BY <1>1, <1>4, Zenon DEF TooEarly
<1>5. CASE BeginAttempt BY <1>1, <1>5, Zenon DEF BeginAttempt
<1>6. CASE StillConnecting BY <1>1, <1>6, Zenon DEF StillConnecting
<1>7. CASE Connect BY <1>1, <1>7, Zenon DEF Connect, Subscribe
<1>8. CASE ConnectFails BY <1>1, <1>8, Zenon DEF ConnectFails
<1>9. CASE Toggle BY <1>1, <1>9, Zenon DEF Toggle
<1>10. CASE NoticeLoss BY <1>1, <1>10, Zenon DEF NoticeLoss
<1>11. CASE SessionLost BY <1>11, Zenon DEF SessionLost
<1>12. CASE GprsLost BY <1>12, Zenon DEF GprsLost
<1>13. CASE UNCHANGED mqttVars BY <1>13, Zenon DEF mqttVars
<1> QED
  BY <1>2, <1>3, <1>4, <1>5, <1>6, <1>7, <1>8, <1>9, <1>10, <1>11, <1>12, <1>13
  DEF MqttNext, MqttStep

(* Only BeginAttempt leads from loop() into an attempt.                    *)
LEMMA StepIsSpaced ==
  MqttInv /\ [MqttNext]_mqttVars
    => [mqttPc' = "connecting" /\ mqttPc = "loop" /\ failing => gap > Period]_mqttVars
<1> SUFFICES ASSUME MqttInv, MqttNext,
                    mqttPc' = "connecting", mqttPc = "loop", failing
             PROVE  gap > Period
  BY DEF mqttVars
<1>1. BeginAttempt
  BY DEF MqttNext, MqttStep, WaitForNetwork, GprsConnect, TooEarly, StillConnecting,
         Connect, ConnectFails, Toggle, NoticeLoss, SessionLost, GprsLost
<1>2. since = gap /\ since > Period
  BY <1>1 DEF BeginAttempt, MqttInv, ClocksAgree
<1> QED BY <1>2

(* Attempts that fail are spaced, however long each took to fail           *)
(* (main.cpp:154-156), for any pause.                                      *)
THEOREM AttemptsAreSpaced == MqttSpec => FailedAttemptsAreSpaced
<1>1. MqttSpec => []MqttInv
  BY MqttInitEstablishesInv, MqttNextKeepsInv, PTL DEF MqttSpec
<1> QED BY <1>1, StepIsSpaced, PTL DEF MqttSpec, FailedAttemptsAreSpaced

-----------------------------------------------------------------------------
LEMMA NextKeepsSubscribed ==
  UpIsSubscribed /\ [MqttNext]_mqttVars => UpIsSubscribed'
<1> SUFFICES ASSUME UpIsSubscribed, [MqttNext]_mqttVars PROVE UpIsSubscribed'
  OBVIOUS
<1> USE DEF UpIsSubscribed
<1>1. CASE Connect BY <1>1 DEF Connect, Subscribe
<1>2. CASE Toggle BY <1>2 DEF Toggle
<1>3. CASE NoticeLoss BY <1>3 DEF NoticeLoss
<1>4. CASE SessionLost BY <1>4 DEF SessionLost
<1>5. CASE GprsLost BY <1>5 DEF GprsLost
<1>6. CASE UNCHANGED mqttVars BY <1>6 DEF mqttVars
<1>7. CASE WaitForNetwork \/ GprsConnect \/ TooEarly \/ BeginAttempt
           \/ StillConnecting \/ ConnectFails
  BY <1>7
  DEF WaitForNetwork, GprsConnect, TooEarly, BeginAttempt, StillConnecting, ConnectFails
<1> QED BY <1>1, <1>2, <1>3, <1>4, <1>5, <1>6, <1>7 DEF MqttNext, MqttStep

(* A session that came back has its subscription back, unless SUBSCRIBE    *)
(* could not be sent (main.cpp:203).                                       *)
THEOREM SessionIsSubscribed == MqttSpec => []UpIsSubscribed
<1>1. MqttInit => UpIsSubscribed BY DEF MqttInit, UpIsSubscribed
<1> QED BY <1>1, NextKeepsSubscribed, PTL DEF MqttSpec

-----------------------------------------------------------------------------
(* HttpsDownload.                                                           *)
(* Before the answer nothing is there; then what is read and what is       *)
(* missing make up the length, and the card has all that was read.         *)
Accounts ==
  /\ fetch = "get" => available = 0 /\ downloaded = 0 /\ total = 1
  /\ Underway => len = total - downloaded /\ (~cardFull => onCard = downloaded)

DownloadInv == DownloadTypeOK /\ Accounts /\ SuccessIsComplete

LEMMA DownloadSizes ==
  /\ Lengths \subseteq Int /\ \A n \in Lengths : n >= -1
  /\ BuffSize \in Nat /\ BuffSize >= 1
BY DownloadAssumption DEF DownloadAssumption

LEMMA DownloadInitEstablishesInv == DownloadInit => DownloadInv
<1> SUFFICES ASSUME DownloadInit PROVE DownloadInv
  OBVIOUS
<1>1. /\ total \in Lengths \cup {1} /\ len \in -1..total
      /\ downloaded \in Nat /\ onCard \in 0..downloaded
      /\ coming \in Nat /\ available \in Nat
  BY DEF DownloadInit
<1>2. cardFull \in BOOLEAN /\ open \in BOOLEAN /\ silent \in BOOLEAN
  BY DEF DownloadInit
<1>3. fetch = "get" /\ ret = 0 /\ available = 0 /\ downloaded = 0 /\ total = 1
  BY DEF DownloadInit
<1> QED
  BY <1>1, <1>2, <1>3
  DEF DownloadInv, DownloadTypeOK, Accounts, SuccessIsComplete, Underway

LEMMA ReadKeepsDownloadInv == ASSUME DownloadInv, ReadSome PROVE DownloadInv'
<1> DEFINE c == IF available > BuffSize THEN BuffSize ELSE available
<1> USE DEF DownloadInv, DownloadTypeOK, Accounts, SuccessIsComplete, Underway
<1>1. c \in Nat /\ c >= 1 /\ c <= available
  BY DownloadSizes DEF ReadSome
<1>2. /\ len' = len - c /\ downloaded' = downloaded + c /\ available' = available - c
      /\ fetch = "loop" /\ fetch' = "paused"
  BY DEF ReadSome, Rest
<1>3. onCard' = IF cardFull THEN onCard ELSE onCard + c
  BY DEF ReadSome
<1>4. UNCHANGED <<total, ret, cardFull, coming, open, silent>>
  BY DEF ReadSome
<1> HIDE DEF c
<1>5. total \in Int BY DownloadSizes
<1>6. len' \in -1..total' /\ onCard' \in 0..downloaded' /\ available' \in Nat
  BY <1>1, <1>2, <1>3, <1>4, <1>5
<1>7. (IF total' > 0 THEN total' ELSE 0) = downloaded' + available' + coming'
  BY <1>1, <1>2, <1>4, <1>5
<1>8. DownloadTypeOK'
  BY <1>1, <1>2, <1>4, <1>6, <1>7
<1>9. Accounts'
  BY <1>1, <1>2, <1>3, <1>4, <1>5
<1> QED BY <1>2, <1>8, <1>9

LEMMA DownloadNextKeepsInv == DownloadInv /\ [DownloadNext]_fetchVars => DownloadInv'
<1> SUFFICES ASSUME DownloadInv, [DownloadNext]_fetchVars PROVE DownloadInv'
  OBVIOUS
<1> USE DEF DownloadInv, DownloadTypeOK, Accounts, SuccessIsComplete, Underway,
            callVars, cardVars, serverVars
<1>1. ASSUME NEW length \in Lengths, GetOk(length) PROVE DownloadInv'
  BY <1>1, DownloadSizes DEF GetOk
<1>2. CASE GetFails BY <1>2, DownloadSizes DEF GetFails, Finish
<1>3. CASE ReadSome BY <1>3, ReadKeepsDownloadInv
<1>4. CASE NothingToRead BY <1>4 DEF NothingToRead
<1>5. CASE Pause BY <1>5 DEF Pause
<1>6. CASE LoopEnds BY <1>6, DownloadSizes DEF LoopEnds, Finish, Connected, Missing
<1>7. ASSUME NEW n \in 1..coming, ServerSends(n) PROVE DownloadInv'
  BY <1>7, DownloadSizes DEF ServerSends
<1>8. CASE ServerCloses BY <1>8 DEF ServerCloses
<1>9. CASE ServerGoesSilent BY <1>9 DEF ServerGoesSilent
<1>10. CASE CardFills BY <1>10 DEF CardFills
<1>11. CASE UNCHANGED fetchVars BY <1>11 DEF fetchVars
<1> QED
  BY <1>1, <1>2, <1>3, <1>4, <1>5, <1>6, <1>7, <1>8, <1>9, <1>10, <1>11
  DEF DownloadNext, Download, Sends

(* What download() says of its success is true of the card, and a file     *)
(* that came in as a whole is a success (main.cpp:100, 111, 137), for any  *)
(* lengths and any buffer.                                                 *)
THEOREM SuccessIsTold == DownloadSpec => []SuccessIsComplete
<1>1. DownloadInv => SuccessIsComplete BY DEF DownloadInv
<1> QED BY DownloadInitEstablishesInv, DownloadNextKeepsInv, <1>1, PTL DEF DownloadSpec
=============================================================================
