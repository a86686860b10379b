----------------------------- MODULE GpsHandler -----------------------------
(***************************************************************************)
(* The GPS handler: getData() waits for the receiver's next sentence, and  *)
(* takes the fix as won or lost after a number of verdicts in a row.  The  *)
(* sketch calls it again and again; the receiver talks when it likes.      *)
(***************************************************************************)
EXTENDS Naturals

CONSTANT Messages   \* verdicts in a row that change the fix, 12

ASSUME GpsAssumption == Messages \in Nat \ {0}

VARIABLES
  gpsPc,       \* "between" two calls, in its "wait", or at its "verdict"
  heard,       \* the parser has seen characters enough to trust the cable
  arrived,     \* last sentence in the UART's buffer: "none", "good", "bad"
  parsed,      \* the parser's last sentence: good if satellites and HDOP are
  timeUpdated, \* the parser's time.isUpdated()
  hasFix,      \* _hasFix
  toFix,       \* _messagesReadToFix
  toLost,      \* _messagesReadToFixLost
  waitEnd,     \* history: why the last wait ended
  timeRead,    \* history: the last verdict read the time
  row          \* history: how many verdicts in a row were like the last one

gpsVars == <<gpsPc, heard, arrived, parsed, timeUpdated, hasFix, toFix, toLost,
             waitEnd, timeRead, row>>

GpsInit ==
  /\ gpsPc = "between" /\ heard = FALSE /\ arrived = "none" /\ parsed = "bad"
  /\ timeUpdated = FALSE
  /\ hasFix = FALSE /\ toFix = 0 /\ toLost = 0
  /\ waitEnd = "none" /\ timeRead = TRUE /\ row = 0

(* The receiver sends a sentence; of several that wait the last one counts.*)
Sentence(quality) ==
  /\ arrived' = quality
  /\ UNCHANGED <<gpsPc, heard, parsed, timeUpdated, hasFix, toFix, toLost,
                 waitEnd, timeRead, row>>

GetData ==
  /\ gpsPc = "between"
  /\ gpsPc' = "wait"
  /\ UNCHANGED <<heard, arrived, parsed, timeUpdated, hasFix, toFix, toLost,
                 waitEnd, timeRead, row>>

-----------------------------------------------------------------------------
(* executeSmartDelay(): every sentence has a time, with or without a fix.  *)
WaitEnds(why) ==
  /\ gpsPc = "wait"
  /\ gpsPc' = "verdict" /\ waitEnd' = why
  /\ UNCHANGED <<hasFix, toFix, toLost, timeRead, row>>

ReadSentence ==
  /\ arrived # "none"
  /\ WaitEnds("sentence")
  /\ parsed' = arrived /\ arrived' = "none" /\ heard' = TRUE
  /\ timeUpdated' = TRUE

NothingToWaitFor ==
  /\ arrived = "none" /\ timeUpdated
  /\ WaitEnds("nothing")
  /\ UNCHANGED <<heard, arrived, parsed, timeUpdated>>

WaitTimesOut ==
  /\ arrived = "none" /\ ~timeUpdated
  /\ WaitEnds("timeout")
  /\ UNCHANGED <<heard, arrived, parsed, timeUpdated>>

-----------------------------------------------------------------------------
(* The rest of getData().                                                  *)
CapAt(n) == IF n > Messages THEN Messages ELSE n
SameAgain(good) == row' = IF good = timeRead THEN CapAt(row + 1) ELSE 1

(* The cable is doubted only later than 5 s after power-on.                *)
NoCable ==
  /\ gpsPc = "verdict" /\ ~heard
  /\ gpsPc' = "between"
  /\ UNCHANGED <<heard, arrived, parsed, timeUpdated, hasFix, toFix, toLost,
                 waitEnd, timeRead, row>>

FaultyGoodVerdict ==
  /\ gpsPc = "verdict" /\ parsed = "good"
  /\ gpsPc' = "between"
  /\ toLost' = 0
  /\ \/ hasFix /\ UNCHANGED <<hasFix, toFix>>
     \/ ~hasFix /\ toFix + 1 < Messages /\ toFix' = toFix + 1 /\ UNCHANGED hasFix
     \/ ~hasFix /\ toFix + 1 >= Messages /\ toFix' = 0 /\ hasFix' = TRUE
  /\ timeRead' = TRUE /\ SameAgain(TRUE)
  /\ UNCHANGED <<heard, arrived, parsed, timeUpdated, waitEnd>>

(* Position and time are read, which clears the time's updated flag.       *)
GoodVerdict ==
  /\ gpsPc = "verdict" /\ parsed = "good"
  /\ gpsPc' = "between"
  /\ toLost' = 0
  /\ \/ hasFix /\ UNCHANGED <<hasFix, toFix>>
     \/ ~hasFix /\ toFix + 1 < Messages /\ toFix' = toFix + 1 /\ UNCHANGED hasFix
     \/ ~hasFix /\ toFix + 1 >= Messages /\ toFix' = 0 /\ hasFix' = TRUE
  /\ timeUpdated' = FALSE
  /\ timeRead' = TRUE /\ SameAgain(TRUE)
  /\ UNCHANGED <<heard, arrived, parsed, waitEnd>>

BadVerdict ==
  /\ gpsPc = "verdict" /\ parsed = "bad"
  /\ gpsPc' = "between"
  /\ toFix' = 0
  /\ \/ ~hasFix /\ UNCHANGED <<hasFix, toLost>>
     \/ hasFix /\ toLost + 1 < Messages /\ toLost' = toLost + 1 /\ UNCHANGED hasFix
     \/ hasFix /\ toLost + 1 >= Messages /\ toLost' = 0 /\ hasFix' = FALSE
  /\ timeRead' = FALSE /\ SameAgain(FALSE)
  /\ UNCHANGED <<heard, arrived, parsed, timeUpdated, waitEnd>>

GpsNext ==
  \/ \E quality \in {"good", "bad"} : Sentence(quality)
  \/ GetData
  \/ ReadSentence \/ NothingToWaitFor \/ WaitTimesOut
  \/ NoCable \/ GoodVerdict \/ BadVerdict

GpsSpec == GpsInit /\ [][GpsNext]_gpsVars

-----------------------------------------------------------------------------
GpsTypeOK ==
  /\ gpsPc \in {"between", "wait", "verdict"}
  /\ heard \in BOOLEAN /\ timeUpdated \in BOOLEAN
  /\ hasFix \in BOOLEAN /\ timeRead \in BOOLEAN
  /\ arrived \in {"none", "good", "bad"} /\ parsed \in {"good", "bad"}
  /\ toFix \in 0..(Messages - 1) /\ toLost \in 0..(Messages - 1)
  /\ waitEnd \in {"none", "sentence", "nothing", "timeout"}
  /\ row \in 0..Messages

(* The fix is won or lost only by twelve verdicts in a row against the     *)
(* present one: a single other verdict among them starts the count anew    *)
(* (GPSHandler.cpp:110-121, 139-149).                                      *)
FixChangesByARow ==
  [][hasFix' # hasFix => row' = Messages /\ timeRead' = hasFix']_gpsVars

(* After a verdict with a fix the next wait ends with a new sentence or    *)
(* its time-out, so that no sentence is judged twice before its time-out   *)
(* (GPSHandler.cpp:127-130, 229).                                          *)
WaitsAfterFix == gpsPc = "verdict" /\ heard /\ timeRead => waitEnd # "nothing"

(* Both of every step: the fix is won only by so many verdicts in a row,   *)
(* before each of which but the first the receiver had 1.1 s for a new     *)
(* sentence.  It may be lost by one sentence: a verdict without a fix does *)
(* not read the time, and the waits after it end at once, see              *)
(* WaitsForNextData (GPSHandler.cpp:101-149, 229).                         *)
FixIsEarned ==
  [][/\ hasFix' # hasFix => row' = Messages /\ timeRead' = hasFix'
     /\ WaitsAfterFix']_gpsVars

(* "until the GPS returns the next data" (GPSHandler.cpp:207): a wait ends *)
(* with a new sentence or its time-out.  Without a fix the time is never   *)
(* read, stays updated, and ends the next wait at once.                    *)
WaitsForNextData == waitEnd # "nothing"
=============================================================================
