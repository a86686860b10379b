------------------------ MODULE DeviceSketchesProofs ------------------------
(***************************************************************************)
(* Proofs about the small programs around a device: GpsHandler, for any    *)
(* number of verdicts, WavePlayer, for any files, UartInterrupt, for any   *)
(* sizes of its buffers, ButtonLed, for any buttons and times, and         *)
(* LedHandler, for any number of leds.                                     *)
(***************************************************************************)
EXTENDS GpsHandler, WavePlayer, UartInterrupt, ButtonLed, LedHandler,
        SequenceTheorems, FiniteSetTheorems, WellFoundedInduction, TLAPS

-----------------------------------------------------------------------------
(* GpsHandler.                                                              *)
(* The counters are behind the row of like verdicts: a counter that is not *)
(* zero counts verdicts of the present row.                                *)
CountsOfTheRow ==
  /\ toFix  # 0 => ~hasFix /\ timeRead  /\ toFix  <= row
  /\ toLost # 0 =>  hasFix /\ ~timeRead /\ toLost <= row

GpsInv == GpsTypeOK /\ CountsOfTheRow

LEMMA MessageBound == Messages \in Nat /\ Messages >= 1 /\ 0 \in 0..(Messages - 1)
BY GpsAssumption DEF GpsAssumption

LEMMA GpsInitEstablishesInv == GpsInit => GpsInv
<1> SUFFICES ASSUME GpsInit PROVE GpsInv
  OBVIOUS
<1>1. row \in 0..Messages /\ toFix = 0 /\ toLost = 0 BY MessageBound DEF GpsInit
<1>2. GpsTypeOK BY <1>1, MessageBound, Zenon DEF GpsInit, GpsTypeOK
<1> QED BY <1>1, <1>2, Zenon DEF GpsInv, CountsOfTheRow

(* A row grows by one, as far as it matters, or starts anew.               *)
LEMMA RowGrows ==
  ASSUME GpsInv, NEW good \in BOOLEAN, SameAgain(good)
  PROVE  /\ row' \in 1..Messages
         /\ good = timeRead => row' >= row /\ (row' = Messages \/ row' = row + 1)
BY GpsAssumption DEF GpsAssumption, GpsInv, GpsTypeOK, SameAgain, CapAt

LEMMA GoodKeepsInv == ASSUME GpsInv, GoodVerdict PROVE GpsInv'
<1>1. /\ row' \in 1..Messages
      /\ timeRead => row' >= row /\ (row' = Messages \/ row' = row + 1)
  BY RowGrows DEF GoodVerdict, GpsInv, GpsTypeOK
<1>2. toFix \in Nat /\ toFix < Messages
  BY MessageBound DEF GpsInv, GpsTypeOK
<1>3. toFix' \in 0..(Messages - 1) /\ toLost' = 0
  BY <1>2, MessageBound DEF GoodVerdict
<1>4. hasFix' \in BOOLEAN /\ timeRead' = TRUE
  BY Zenon DEF GoodVerdict, GpsInv, GpsTypeOK
<1>5. toFix # 0 => ~hasFix /\ timeRead /\ toFix <= row
  BY DEF GpsInv, CountsOfTheRow
<1>6. toFix' # 0 => ~hasFix' /\ toFix' = toFix + 1 /\ toFix + 1 <= Messages
  <2>1. CASE hasFix BY <1>5, <2>1, Zenon DEF GoodVerdict
  <2>2. CASE ~hasFix BY <1>2, <2>2, MessageBound DEF GoodVerdict
  <2> QED BY <2>1, <2>2
<1>7. row \in 0..Messages BY DEF GpsInv, GpsTypeOK
<1>8. toFix' # 0 => toFix' <= row'
  BY <1>1, <1>2, <1>5, <1>6, <1>7, MessageBound
<1>9. row' \in 0..Messages BY <1>1, MessageBound
<1>10. GpsTypeOK'
  BY <1>3, <1>4, <1>9, MessageBound, Zenon DEF GpsInv, GpsTypeOK, GoodVerdict
<1>11. CountsOfTheRow'
  BY <1>3, <1>4, <1>6, <1>8, Zenon DEF CountsOfTheRow
<1> QED BY <1>10, <1>11 DEF GpsInv

LEMMA BadKeepsInv == ASSUME GpsInv, BadVerdict PROVE GpsInv'
<1>1. /\ row' \in 1..Messages
      /\ ~timeRead => row' >= row /\ (row' = Messages \/ row' = row + 1)
  BY RowGrows DEF BadVerdict, GpsInv, GpsTypeOK
<1>2. toLost \in Nat /\ toLost < Messages
  BY MessageBound DEF GpsInv, GpsTypeOK
<1>3. toLost' \in 0..(Messages - 1) /\ toFix' = 0
  BY <1>2, MessageBound DEF BadVerdict
<1>4. hasFix' \in BOOLEAN /\ timeRead' = FALSE
  BY Zenon DEF BadVerdict, GpsInv, GpsTypeOK
<1>5. toLost # 0 => hasFix /\ ~timeRead /\ toLost <= row
  BY DEF GpsInv, CountsOfTheRow
<1>6. toLost' # 0 => hasFix' /\ toLost' = toLost + 1 /\ toLost + 1 <= Messages
  <2>1. CASE ~hasFix
    <3>1. toLost' = toLost BY <2>1, Zenon DEF BadVerdict
    <3>2. toLost = 0 BY <1>5, <2>1
    <3> QED BY <3>1, <3>2
  <2>2. CASE hasFix
    <3>1. toLost' # 0 => /\ hasFix' = hasFix /\ toLost' = toLost + 1
                         /\ toLost + 1 < Messages
      BY <2>2, Zenon DEF BadVerdict
    <3> QED BY <1>2, <2>2, <3>1, MessageBound
  <2> QED BY <2>1, <2>2
<1>7. row \in 0..Messages BY DEF GpsInv, GpsTypeOK
<1>8. toLost' # 0 => toLost' <= row'
  BY <1>1, <1>2, <1>5, <1>6, <1>7, MessageBound
<1>9. row' \in 0..Messages BY <1>1, MessageBound
<1>10. GpsTypeOK'
  BY <1>3, <1>4, <1>9, MessageBound, Zenon DEF GpsInv, GpsTypeOK, BadVerdict
<1>11. CountsOfTheRow'
  BY <1>3, <1>4, <1>6, <1>8, Zenon DEF CountsOfTheRow
<1> QED BY <1>10, <1>11 DEF GpsInv

LEMMA GpsNextKeepsInv == GpsInv /\ [GpsNext]_gpsVars => GpsInv'
<1> SUFFICES ASSUME GpsInv, [GpsNext]_gpsVars PROVE GpsInv'
  OBVIOUS
<1> USE DEF GpsInv, GpsTypeOK, CountsOfTheRow
<1>1. ASSUME NEW quality \in {"good", "bad"}, Sentence(quality) PROVE GpsInv'
  BY <1>1 DEF Sentence
<1>2. CASE GetData BY <1>2 DEF GetData
<1>3. CASE ReadSentence BY <1>3 DEF ReadSentence, WaitEnds
<1>4. CASE NothingToWaitFor BY <1>4 DEF NothingToWaitFor, WaitEnds
<1>5. CASE WaitTimesOut BY <1>5 DEF WaitTimesOut, WaitEnds
<1>6. CASE NoCable BY <1>6 DEF NoCable
<1>7. CASE GoodVerdict BY <1>7, GoodKeepsInv
<1>8. CASE BadVerdict BY <1>8, BadKeepsInv
<1>9. CASE UNCHANGED gpsVars BY <1>9 DEF gpsVars
<1> QED BY <1>1, <1>2, <1>3, <1>4, <1>5, <1>6, <1>7, <1>8, <1>9 DEF GpsNext

(* Only the two verdicts touch the fix.                                    *)
LEMMA StepChangesByARow ==
  GpsInv /\ [GpsNext]_gpsVars
    => [hasFix' # hasFix => row' = Messages /\ timeRead' = hasFix']_gpsVars
<1> SUFFICES ASSUME GpsInv, GpsNext, hasFix' # hasFix
             PROVE  row' = Messages /\ timeRead' = hasFix'
  BY DEF gpsVars
<1>1. CASE GoodVerdict
  <2>1. SameAgain(TRUE) BY <1>1 DEF GoodVerdict
  <2>2. ~hasFix /\ hasFix' /\ toFix + 1 >= Messages
    BY <1>1 DEF GoodVerdict, GpsInv, GpsTypeOK
  <2>3. row' \in 1..Messages /\ (timeRead => row' = Messages \/ row' = row + 1)
    BY <2>1, RowGrows DEF GpsInv, GpsTypeOK
  <2>4. row' = Messages
    BY <2>2, <2>3, GpsAssumption
    DEF GpsAssumption, GpsInv, GpsTypeOK, CountsOfTheRow
  <2> QED BY <1>1, <2>2, <2>4 DEF GoodVerdict
<1>2. CASE BadVerdict
  <2>1. SameAgain(FALSE) BY <1>2 DEF BadVerdict
  <2>2. hasFix /\ ~hasFix' /\ toLost + 1 >= Messages
    BY <1>2, Zenon DEF BadVerdict
  <2>3. row' \in 1..Messages /\ (~timeRead => row' = Messages \/ row' = row + 1)
    BY <2>1, RowGrows DEF GpsInv, GpsTypeOK
  <2>4. row' = Messages
    BY <2>2, <2>3, GpsAssumption
    DEF GpsAssumption, GpsInv, GpsTypeOK, CountsOfTheRow
  <2> QED BY <1>2, <2>2, <2>4 DEF BadVerdict
<1> QED
  BY <1>1, <1>2
  DEF GpsNext, Sentence, GetData, ReadSentence, NothingToWaitFor, WaitTimesOut, WaitEnds, NoCable

(* Won or lost, the fix takes as many verdicts in a row as the code says   *)
(* (GPSHandler.cpp:110-121, 139-149), for any number of them.              *)
THEOREM FixTakesARow == GpsSpec => FixChangesByARow
<1>1. GpsSpec => []GpsInv
  BY GpsInitEstablishesInv, GpsNextKeepsInv, PTL DEF GpsSpec
<1>2. GpsInv /\ [GpsNext]_gpsVars
        => [hasFix' # hasFix => row' = Messages /\ timeRead' = hasFix']_gpsVars
  BY StepChangesByARow
<1> QED BY <1>1, <1>2, PTL DEF GpsSpec, FixChangesByARow

-----------------------------------------------------------------------------
(* The time's updated flag, which ends a wait at once, is cleared by a     *)
(* verdict with a fix and set only by a sentence.                          *)
FlagCleared ==
  /\ timeUpdated => heard
  /\ gpsPc # "verdict" /\ timeRead => ~timeUpdated

FlagInv == GpsTypeOK /\ FlagCleared /\ WaitsAfterFix

LEMMA GpsNextKeepsFlag == FlagInv /\ GpsTypeOK' /\ [GpsNext]_gpsVars => FlagInv'
<1> SUFFICES ASSUME FlagInv, GpsTypeOK', [GpsNext]_gpsVars
             PROVE  FlagCleared' /\ WaitsAfterFix'
  BY DEF FlagInv
<1> USE DEF FlagInv, FlagCleared, WaitsAfterFix
<1>1. ASSUME NEW quality \in {"good", "bad"}, Sentence(quality)
      PROVE  FlagCleared' /\ WaitsAfterFix'
  BY <1>1 DEF Sentence
<1>2. CASE GetData BY <1>2 DEF GetData
<1>3. CASE ReadSentence BY <1>3 DEF ReadSentence, WaitEnds
<1>4. CASE NothingToWaitFor BY <1>4 DEF NothingToWaitFor, WaitEnds
<1>5. CASE WaitTimesOut BY <1>5 DEF WaitTimesOut, WaitEnds
<1>6. CASE NoCable BY <1>6 DEF NoCable
<1>7. CASE GoodVerdict BY <1>7 DEF GoodVerdict
<1>8. CASE BadVerdict BY <1>8 DEF BadVerdict
<1>9. CASE UNCHANGED gpsVars BY <1>9 DEF gpsVars
<1> QED BY <1>1, <1>2, <1>3, <1>4, <1>5, <1>6, <1>7, <1>8, <1>9 DEF GpsNext

(* After a verdict with a fix no sentence is judged a second time before   *)
(* its wait timed out (GPSHandler.cpp:127-130, 229).                       *)
THEOREM FixIsWaitedFor == GpsSpec => []WaitsAfterFix
<1>1. GpsInit => FlagInv
  BY GpsInitEstablishesInv DEF GpsInit, GpsInv, FlagInv, FlagCleared, WaitsAfterFix
<1>2. GpsInv /\ [GpsNext]_gpsVars => GpsInv' BY GpsNextKeepsInv
<1>3. GpsInv => GpsTypeOK BY DEF GpsInv
<1>4. FlagInv => WaitsAfterFix BY DEF FlagInv
<1> QED
  BY GpsInitEstablishesInv, GpsNextKeepsFlag, <1>1, <1>2, <1>3, <1>4, PTL DEF GpsSpec

(* So a fix is won and lost by a row of verdicts, and in the row that wins *)
(* it each sentence was waited for (GPSHandler.cpp:101-149, 229), for any  *)
(* number of verdicts.                                                     *)
THEOREM FixIsWonByVerdicts == GpsSpec => FixIsEarned
<1>1. /\ [hasFix' # hasFix => row' = Messages /\ timeRead' = hasFix']_gpsVars
      /\ WaitsAfterFix'
      => [/\ hasFix' # hasFix => row' = Messages /\ timeRead' = hasFix'
          /\ WaitsAfterFix']_gpsVars
  OBVIOUS
<1> QED
  BY FixTakesARow, FixIsWaitedFor, <1>1, PTL DEF FixIsEarned, FixChangesByARow

-----------------------------------------------------------------------------
(* WavePlayer.                                                              *)
LEMMA WavSizes ==
  /\ RiffWords \in Nat /\ RiffWords >= 1 /\ FmtWords \in Nat /\ FmtWords >= 1
  /\ Samples \in Nat /\ Samples >= 1
  /\ HeaderWords \in Nat /\ HeaderWords = RiffWords + FmtWords + 2
  /\ WholeFile = HeaderWords + Samples
BY WavAssumption DEF WavAssumption, HeaderWords, WholeFile

(* n words of a file, the first k of which come before them.               *)
Piece(k, n) == [i \in 1..n |-> k + i]

LEMMA PieceTyped ==
  ASSUME NEW k \in Nat, NEW n \in Nat
  PROVE  Piece(k, n) \in Seq(Nat) /\ Len(Piece(k, n)) = n
BY DEF Piece

LEMMA PieceGrows ==
  ASSUME NEW k \in Nat, NEW n \in Nat
  PROVE  Append(Piece(k, n), k + n + 1) = Piece(k, n + 1)
<1>1. Piece(k, n) \in Seq(Nat) /\ Len(Piece(k, n)) = n
  BY PieceTyped
<1>2. Piece(k, n + 1) \in Seq(Nat) /\ Len(Piece(k, n + 1)) = n + 1
  BY PieceTyped
<1>3. \A i \in 1..(n + 1) : Append(Piece(k, n), k + n + 1)[i] = Piece(k, n + 1)[i]
  BY <1>1 DEF Piece
<1>4. /\ Append(Piece(k, n), k + n + 1) \in Seq(Nat)
      /\ Len(Append(Piece(k, n), k + n + 1)) = n + 1
  BY <1>1
<1> QED BY <1>2, <1>3, <1>4, SeqEqual

LEMMA NothingHeard == \A k \in Nat : Piece(k, 0) = <<>>
BY DEF Piece

(* The sound that SoundIsHeard speaks of.                                  *)
LEMMA SoundIsPiece ==
  ASSUME NEW n \in Int, n <= Samples
  PROVE  SubSeq(Sound, 1, n) = IF n > 0 THEN Piece(HeaderWords, n) ELSE <<>>
<1>1. Sound \in Seq(Nat) /\ Len(Sound) = Samples BY WavSizes DEF Sound
<1>2. CASE n <= 0 BY <1>1, <1>2
<1>3. CASE n > 0
  <2>1. SubSeq(Sound, 1, n) \in Seq(Nat) /\ Len(SubSeq(Sound, 1, n)) = n
    BY <1>1, <1>3, WavSizes
  <2>2. Piece(HeaderWords, n) \in Seq(Nat) /\ Len(Piece(HeaderWords, n)) = n
    BY <1>3, PieceTyped, WavSizes
  <2>3. \A i \in 1..n : SubSeq(Sound, 1, n)[i] = Piece(HeaderWords, n)[i]
    BY <1>1, <1>3, WavSizes DEF Sound, Piece
  <2> QED BY <1>3, <2>1, <2>2, <2>3, SeqEqual
<1> QED BY <1>2, <1>3

(* Of two pieces with the same end the shorter is a suffix of the longer.  *)
LEMMA LaterPieceIsSuffix ==
  ASSUME NEW k \in Nat, NEW n \in Nat, NEW j \in Nat, NEW m \in Nat,
         k + n = j + m, n <= m
  PROVE  IsSuffix(Piece(k, n), Piece(j, m))
<1>1. Piece(k, n) \in Seq(Nat) /\ Len(Piece(k, n)) = n
  BY PieceTyped
<1>2. Piece(j, m) \in Seq(Nat) /\ Len(Piece(j, m)) = m
  BY PieceTyped
<1> DEFINE s == Reverse(Piece(k, n))
           w == Reverse(Piece(j, m))
<1>3. s \in Seq(Nat) /\ Len(s) = n /\ w \in Seq(Nat) /\ Len(w) = m
  BY <1>1, <1>2 DEF Reverse
<1>4. \A i \in 1..n : s[i] = w[i]
  BY <1>1, <1>2 DEF Reverse, Piece
<1> HIDE DEF s, w
<1>5. /\ SubSeq(s, 1, n) \in Seq(Nat) /\ Len(SubSeq(s, 1, n)) = n
      /\ SubSeq(w, 1, n) \in Seq(Nat) /\ Len(SubSeq(w, 1, n)) = n
  BY <1>3
<1>6. \A i \in 1..n : SubSeq(s, 1, n)[i] = SubSeq(w, 1, n)[i]
  BY <1>3, <1>4
<1>7. SubSeq(s, 1, n) = SubSeq(w, 1, n)
  BY <1>5, <1>6, SeqEqual
<1> QED BY <1>3, <1>7 DEF IsSuffix, IsPrefix, s, w

-----------------------------------------------------------------------------
(* How much of the header is taken for read in a header state.             *)
HeaderRead(state) ==
  CASE state = "HEADER_RIFF" -> 0
    [] state = "HEADER_FMT"  -> RiffWords
    [] state = "HEADER_DATA" -> RiffWords + FmtWords
    [] OTHER                 -> HeaderWords

(* The words of the present file that are read as a header: all of it only *)
(* if the file was opened in the initial state.                            *)
Skipped == HeaderWords - HeaderRead(opened)

(* The state tells how far the reading is, unless the file ended within    *)
(* what is read as its header; and all that follows is played.             *)
InFile ==
  IF headerState = "DATA"
  THEN pos >= Skipped /\ played = Piece(Skipped, pos - Skipped)
  ELSE /\ played = <<>>
       /\ pos + HeaderRead(opened) = HeaderRead(headerState) \/ (pos = words /\ words < Skipped)

ReadToTheEnd == ~playing => pos = words

WavInv == WavTypeOK /\ InFile /\ ReadToTheEnd

LEMMA HeadersRead ==
  /\ HeaderRead("HEADER_RIFF") = 0
  /\ HeaderRead("HEADER_FMT") = RiffWords
  /\ HeaderRead("HEADER_DATA") = RiffWords + FmtWords
  /\ HeaderRead("DATA") = HeaderWords
  /\ \A state : HeaderRead(state) \in 0..HeaderWords
BY WavSizes DEF HeaderRead

LEMMA SkippedTyped == Skipped \in 0..HeaderWords /\ Skipped + HeaderRead(opened) = HeaderWords
BY HeadersRead, WavSizes DEF Skipped

LEMMA WavInitEstablishesInv == WavInit => WavInv
<1> SUFFICES ASSUME WavInit PROVE WavInv
  OBVIOUS
<1>1. WavTypeOK
  <2>1. 0 \in 0..WholeFile /\ <<>> \in Seq(1..WholeFile) BY WavSizes
  <2>2. words \in 0..WholeFile /\ pos \in 0..words /\ played \in Seq(1..WholeFile)
    BY <2>1 DEF WavInit
  <2>3. playing \in BOOLEAN BY DEF WavInit
  <2> QED BY <2>2, <2>3 DEF WavInit, WavTypeOK, HeaderStates
<1>2. InFile BY HeadersRead DEF WavInit, InFile
<1> QED BY <1>1, <1>2 DEF WavInit, WavInv, ReadToTheEnd

(* File.read() gets what is asked for, or the rest of the file.            *)
LEMMA ReadGets ==
  ASSUME WavTypeOK, NEW n \in Nat, n >= 1, Available > 0, Advance(n)
  PROVE  /\ pos' \in 1..words
         /\ (Got(n) = n /\ pos' = pos + n) \/ (Got(n) < n /\ pos' = words /\ words < pos + n)
<1>1. words \in Nat /\ pos \in Nat /\ pos < words
  BY WavSizes DEF WavTypeOK, Available
<1> QED BY <1>1 DEF Advance, Got, Available

(* A step from one header state to the next reads what lies between them,  *)
(* or the file ends there.                                                 *)
LEMMA HeaderStep ==
  ASSUME WavInv, NEW n \in Nat, n >= 1, NEW next \in HeaderStates,
         Case(headerState), headerState # "DATA", Advance(n),
         HeaderRead(next) = HeaderRead(headerState) + n,
         headerState' = IF Got(n) = n THEN next ELSE headerState,
         UNCHANGED <<words, playing, opened, played>>
  PROVE  WavInv'
<1>1. words \in 0..WholeFile /\ words \in Nat /\ pos \in Nat /\ pos < words /\ playing
  BY WavSizes DEF WavInv, WavTypeOK, Case, Available
<1>2. pos' \in 1..words /\ pos' \in 0..words
  BY <1>1, ReadGets DEF WavInv, Case
<1>3. WavTypeOK' BY <1>2 DEF WavInv, WavTypeOK
<1>4. ReadToTheEnd' BY <1>1 DEF ReadToTheEnd
<1>5. Skipped' = Skipped BY DEF Skipped
<1>6. /\ HeaderRead(opened) \in Nat /\ HeaderRead(headerState) \in Nat
      /\ HeaderRead(next) \in Nat /\ HeaderRead(next) <= HeaderWords
  BY HeadersRead, WavSizes
<1>7. played = <<>> /\ pos + HeaderRead(opened) = HeaderRead(headerState)
  BY <1>1 DEF WavInv, InFile
<1>8. CASE Got(n) = n /\ pos' = pos + n
  <2>1. headerState' = next /\ pos' + HeaderRead(opened) = HeaderRead(next)
    BY <1>1, <1>6, <1>7, <1>8
  <2>2. CASE next = "DATA"
    <3>1. pos' = Skipped
      BY <1>1, <1>2, <1>6, <2>1, <2>2, HeadersRead, SkippedTyped, WavSizes
    <3>2. played' = Piece(Skipped, 0) /\ pos' - Skipped = 0
      BY <1>2, <1>7, <3>1, NothingHeard, SkippedTyped, WavSizes
    <3>3. InFile'
      BY <1>5, <2>1, <2>2, <3>1, <3>2, SkippedTyped, WavSizes DEF InFile
    <3> QED BY <1>3, <1>4, <3>3 DEF WavInv
  <2>3. CASE next # "DATA"
    <3>1. InFile' BY <1>7, <2>1, <2>3 DEF InFile
    <3> QED BY <1>3, <1>4, <3>1 DEF WavInv
  <2> QED BY <2>2, <2>3
<1>9. CASE Got(n) < n /\ pos' = words /\ words < pos + n
  <2>1. headerState' = headerState BY <1>9
  <2>2. words < Skipped
    BY <1>1, <1>6, <1>7, <1>9, SkippedTyped, WavSizes
  <2>3. InFile' BY <1>5, <1>7, <1>9, <2>1, <2>2 DEF InFile
  <2> QED BY <1>3, <1>4, <2>3 DEF WavInv
<1> QED BY <1>8, <1>9, ReadGets DEF WavInv, Case

LEMMA ReadsKeepInv ==
  ASSUME WavInv, ReadRiff \/ ReadFmt \/ ReadChunk PROVE WavInv'
<1>1. CASE ReadRiff
  <2>1. /\ Case("HEADER_RIFF") /\ headerState = "HEADER_RIFF" /\ Advance(RiffWords)
        /\ UNCHANGED <<words, playing, opened, played>>
    BY <1>1 DEF ReadRiff, Case
  <2>2. IsRiff
    <3>1. words \in Nat /\ pos \in Nat /\ pos < words
      BY <2>1, WavSizes DEF WavInv, WavTypeOK, Case, Available
    <3>2. pos + HeaderRead(opened) = 0 /\ HeaderRead(opened) \in Nat
      BY <2>1, <3>1, HeadersRead, WavSizes DEF WavInv, InFile
    <3> QED BY <3>1, <3>2 DEF IsRiff
  <2>3. headerState' = IF Got(RiffWords) = RiffWords THEN "HEADER_FMT" ELSE headerState
    BY <1>1, <2>2 DEF ReadRiff
  <2>4. HeaderRead("HEADER_FMT") = HeaderRead(headerState) + RiffWords
    BY <2>1, HeadersRead, WavSizes
  <2> QED BY <2>1, <2>3, <2>4, HeaderStep, WavSizes DEF HeaderStates
<1>2. CASE ReadFmt
  <2>1. /\ Case("HEADER_FMT") /\ headerState = "HEADER_FMT" /\ Advance(FmtWords)
        /\ UNCHANGED <<words, playing, opened, played>>
        /\ headerState' = IF Got(FmtWords) = FmtWords THEN "HEADER_DATA" ELSE headerState
    BY <1>2 DEF ReadFmt, Case
  <2>2. HeaderRead("HEADER_DATA") = HeaderRead(headerState) + FmtWords
    BY <2>1, HeadersRead, WavSizes
  <2> QED BY <2>1, <2>2, HeaderStep, WavSizes DEF HeaderStates
<1>3. CASE ReadChunk
  <2>1. /\ Case("HEADER_DATA") /\ headerState = "HEADER_DATA" /\ Advance(2)
        /\ UNCHANGED <<words, playing, opened, played>>
        /\ headerState' = IF Got(2) = 2 THEN "DATA" ELSE headerState
    BY <1>3 DEF ReadChunk, Case
  <2>2. HeaderRead("DATA") = HeaderRead(headerState) + 2
    BY <2>1, HeadersRead, WavSizes
  <2> QED BY <2>1, <2>2, HeaderStep, WavSizes DEF HeaderStates
<1> QED BY <1>1, <1>2, <1>3

LEMMA PlayKeepsInv == ASSUME WavInv, PlaySample PROVE WavInv'
<1>1. /\ headerState = "DATA" /\ playing /\ played' = Append(played, pos + 1)
      /\ UNCHANGED <<headerState, words, playing, opened>>
  BY DEF PlaySample, Case
<1>2. words \in Nat /\ pos \in Nat /\ pos < words /\ words <= WholeFile
  BY WavSizes DEF PlaySample, Case, Available, WavInv, WavTypeOK
<1>3. pos' = pos + 1
  <2>1. pos' = pos + 1 \/ (Got(1) < 1 /\ pos' = words)
    BY ReadGets DEF PlaySample, Case, WavInv
  <2> QED BY <1>2, <2>1 DEF Got, Available
<1>4. WavTypeOK'
  BY <1>1, <1>2, <1>3, WavSizes DEF WavInv, WavTypeOK
<1>5. InFile'
  <2>1. pos >= Skipped /\ played = Piece(Skipped, pos - Skipped) /\ Skipped' = Skipped
    BY <1>1 DEF WavInv, InFile, Skipped
  <2>2. /\ Skipped \in Nat /\ pos - Skipped \in Nat
        /\ pos + 1 = Skipped + (pos - Skipped) + 1
    BY <1>2, <2>1, SkippedTyped, WavSizes
  <2>3. played' = Piece(Skipped, pos - Skipped + 1)
    BY <1>1, <2>1, <2>2, PieceGrows
  <2>4. pos - Skipped + 1 = pos' - Skipped /\ pos' >= Skipped
    BY <1>2, <1>3, <2>1, <2>2
  <2> QED BY <1>1, <2>1, <2>3, <2>4 DEF InFile
<1>6. ReadToTheEnd' BY <1>1 DEF ReadToTheEnd
<1> QED BY <1>4, <1>5, <1>6 DEF WavInv

LEMMA WavNextKeepsInv == WavInv /\ [WavNext]_wavVars => WavInv'
<1> SUFFICES ASSUME WavInv, [WavNext]_wavVars PROVE WavInv'
  OBVIOUS
<1>1. ASSUME NEW length \in 0..WholeFile, Open(length) PROVE WavInv'
  <2>1. WavTypeOK' BY <1>1, WavSizes DEF Open, WavInv, WavTypeOK
  <2>2. pos' = 0 /\ played' = <<>> /\ opened' = headerState' /\ playing'
    BY <1>1 DEF Open
  <2>3. Skipped' = HeaderWords - HeaderRead(headerState') BY <2>2 DEF Skipped
  <2>4. CASE headerState' = "DATA"
    <3>1. Skipped' = 0 BY <2>3, <2>4, HeadersRead, WavSizes
    <3>2. played' = Piece(0, 0) BY <2>2, NothingHeard
    <3> QED BY <2>1, <2>2, <2>4, <3>1, <3>2 DEF WavInv, InFile, ReadToTheEnd
  <2>5. CASE headerState' # "DATA"
    <3>1. 0 + HeaderRead(headerState') = HeaderRead(headerState')
      BY HeadersRead, WavSizes
    <3> QED BY <2>1, <2>2, <2>5, <3>1 DEF WavInv, InFile, ReadToTheEnd
  <2> QED BY <2>4, <2>5
<1>2. CASE ReadRiff \/ ReadFmt \/ ReadChunk BY <1>2, ReadsKeepInv
<1>3. CASE PlaySample BY <1>3, PlayKeepsInv
<1>4. CASE Close \/ UNCHANGED wavVars
  <2>1. UNCHANGED <<headerState, words, pos, opened, played>>
    BY <1>4 DEF Close, wavVars
  <2>2. words \in Nat /\ pos \in Nat BY WavSizes DEF WavInv, WavTypeOK
  <2>3. playing' \in BOOLEAN /\ ReadToTheEnd'
    <3>1. CASE Close
      <4>1. Available = 0 /\ playing' = FALSE BY <3>1 DEF Close
      <4>2. pos' = words' BY <2>1, <2>2, <4>1 DEF Available
      <4> QED BY <4>1, <4>2 DEF ReadToTheEnd
    <3>2. CASE UNCHANGED wavVars
      BY <2>1, <3>2 DEF wavVars, WavInv, WavTypeOK, ReadToTheEnd
    <3> QED BY <1>4, <3>1, <3>2
  <2>4. WavTypeOK' BY <2>1, <2>3 DEF WavInv, WavTypeOK
  <2>5. InFile' BY <2>1 DEF WavInv, InFile, Skipped
  <2> QED BY <2>3, <2>4, <2>5 DEF WavInv
<1> QED BY <1>1, <1>2, <1>3, <1>4 DEF WavNext, PlayFile

LEMMA EndIsHeard == WavInv => SoundIsHeard
<1> DEFINE n == words - HeaderWords
<1> SUFFICES ASSUME WavInv, ~playing
             PROVE  /\ IsSuffix(SubSeq(Sound, 1, n), played)
                    /\ opened = "HEADER_RIFF" => played = SubSeq(Sound, 1, n)
  BY Zenon DEF SoundIsHeard
<1>1. pos = words /\ words \in Nat /\ words <= WholeFile /\ played \in Seq(1..WholeFile)
  BY WavSizes DEF WavInv, WavTypeOK, ReadToTheEnd
<1>2. n \in Int /\ n <= Samples BY <1>1, WavSizes
<1>3. Skipped \in Nat /\ Skipped <= HeaderWords BY SkippedTyped, WavSizes
<1>4. opened = "HEADER_RIFF" => Skipped = HeaderWords
  BY HeadersRead, WavSizes DEF Skipped
<1>5. CASE n > 0
  <2>1. headerState = "DATA"
    BY <1>1, <1>3, <1>5, HeadersRead, SkippedTyped, WavSizes
    DEF WavInv, WavTypeOK, HeaderStates, InFile
  <2>2. played = Piece(Skipped, words - Skipped) /\ words - Skipped \in Nat
    BY <1>1, <1>3, <2>1 DEF WavInv, InFile
  <2>3. SubSeq(Sound, 1, n) = Piece(HeaderWords, n) /\ n \in Nat
    BY <1>2, <1>5, SoundIsPiece
  <2>4. HeaderWords + n = Skipped + (words - Skipped) /\ n <= words - Skipped
    BY <1>1, <1>3, WavSizes
  <2>5. IsSuffix(Piece(HeaderWords, n), Piece(Skipped, words - Skipped))
    BY <1>3, <2>2, <2>3, <2>4, LaterPieceIsSuffix, WavSizes
  <2> QED BY <1>4, <2>2, <2>3, <2>5
<1>6. CASE n <= 0
  <2>1. SubSeq(Sound, 1, n) = <<>> BY <1>2, <1>6, SoundIsPiece
  <2>2. IsSuffix(<<>>, played)
    BY <1>1 DEF IsSuffix, IsPrefix, Reverse
  <2>3. ASSUME opened = "HEADER_RIFF" PROVE played = <<>>
    <3>1. CASE headerState = "DATA"
      <4>1. words - Skipped = 0 /\ played = Piece(Skipped, words - Skipped)
        BY <1>1, <1>3, <1>4, <1>6, <2>3, <3>1, WavSizes DEF WavInv, InFile
      <4> QED BY <1>3, <4>1, NothingHeard
    <3>2. CASE headerState # "DATA" BY <3>2 DEF WavInv, InFile
    <3> QED BY <3>1, <3>2
  <2> QED BY <2>1, <2>2, <2>3
<1> QED BY <1>2, <1>5, <1>6

(* Whatever files are played one after the other, and wherever they and    *)
(* those before them are cut off, the sound of each is heard in order and  *)
(* in full, that of the first and nothing else                             *)
(* (WavePlayer.cpp:4, 117-181).                                            *)
THEOREM FilesAreHeard == WavSpec => []SoundIsHeard
BY WavInitEstablishesInv, WavNextKeepsInv, EndIsHeard, PTL DEF WavSpec

-----------------------------------------------------------------------------
(* UartInterrupt.                                                           *)
(* A sequence of bytes in their order, and a byte in it.                   *)
Ordered(s) == \A i, j \in DOMAIN s : i < j => s[i] < s[j]
Has(s, b)  == \E i \in DOMAIN s : s[i] = b

LEMMA WithoutOne ==
  ASSUME NEW S, NEW s \in Seq(S), NEW k \in 1..Len(s)
  PROVE  /\ RemoveAt(s, k) \in Seq(S) /\ Len(RemoveAt(s, k)) = Len(s) - 1
         /\ \A i \in 1..(Len(s) - 1) :
              RemoveAt(s, k)[i] = IF i < k THEN s[i] ELSE s[i + 1]
<1> DEFINE a == SubSeq(s, 1, k - 1)
           z == SubSeq(s, k + 1, Len(s))
<1>1. /\ a \in Seq(S) /\ Len(a) = k - 1 /\ \A i \in 1..(k - 1) : a[i] = s[i]
  OBVIOUS
<1>2. /\ z \in Seq(S) /\ Len(z) = Len(s) - k
      /\ \A i \in 1..(Len(s) - k) : z[i] = s[k + i]
  <2>1. CASE k < Len(s) BY <2>1
  <2>2. CASE k = Len(s)
    <3>1. z = <<>> BY <2>2
    <3> QED BY <2>2, <3>1
  <2> QED BY <2>1, <2>2
<1> HIDE DEF a, z
<1>3. RemoveAt(s, k) = a \o z BY DEF RemoveAt, a, z
<1>4. /\ a \o z \in Seq(S) /\ Len(a \o z) = Len(s) - 1
      /\ \A i \in 1..(Len(s) - 1) : (a \o z)[i] = IF i < k THEN a[i] ELSE z[i - (k - 1)]
  <2>1. /\ a \in Seq(S) /\ z \in Seq(S)
        /\ Len(a) = k - 1 /\ Len(z) = Len(s) - k /\ Len(s) \in Nat
    BY <1>1, <1>2
  <2>2. /\ a \o z \in Seq(S) /\ Len(a \o z) = Len(a) + Len(z)
        /\ \A i \in 1..(Len(a) + Len(z)) :
             (a \o z)[i] = IF i <= Len(a) THEN a[i] ELSE z[i - Len(a)]
    BY <2>1, ConcatProperties
  <2>3. Len(a) + Len(z) = Len(s) - 1 /\ \A i \in Nat : i <= Len(a) <=> i < k
    BY <2>1
  <2> QED BY <2>1, <2>2, <2>3
<1>5. ASSUME NEW i \in 1..(Len(s) - 1)
      PROVE  (a \o z)[i] = IF i < k THEN s[i] ELSE s[i + 1]
  <2>1. CASE i < k BY <1>1, <1>4, <2>1
  <2>2. CASE ~(i < k)
    <3>1. i - (k - 1) \in 1..(Len(s) - k) /\ k + (i - (k - 1)) = i + 1
      BY <2>2
    <3> QED BY <1>2, <1>4, <2>2, <3>1
  <2> QED BY <2>1, <2>2
<1> QED BY <1>3, <1>4, <1>5

LEMMA WithoutFirst ==
  ASSUME NEW S, NEW s \in Seq(S), s # <<>> PROVE RemoveAt(s, 1) = Tail(s)
<1>1. 1 \in 1..Len(s) OBVIOUS
<1>2. /\ RemoveAt(s, 1) \in Seq(S) /\ Len(RemoveAt(s, 1)) = Len(s) - 1
      /\ \A i \in 1..(Len(s) - 1) : RemoveAt(s, 1)[i] = s[i + 1]
  BY <1>1, WithoutOne
<1>3. /\ Tail(s) \in Seq(S) /\ Len(Tail(s)) = Len(s) - 1
      /\ \A i \in 1..(Len(s) - 1) : Tail(s)[i] = s[i + 1]
  BY HeadTailProperties
<1> QED BY <1>2, <1>3, SeqEqual

LEMMA WithoutOneBehind ==
  ASSUME NEW S, NEW s \in Seq(S), NEW t \in Seq(S), NEW k \in 1..Len(t)
  PROVE  RemoveAt(s \o t, Len(s) + k) = s \o RemoveAt(t, k)
<1> DEFINE st == s \o t
           r  == RemoveAt(t, k)
<1>1. /\ st \in Seq(S) /\ Len(st) = Len(s) + Len(t)
      /\ \A i \in 1..Len(st) : st[i] = IF i <= Len(s) THEN s[i] ELSE t[i - Len(s)]
  BY ConcatProperties
<1>2. /\ r \in Seq(S) /\ Len(r) = Len(t) - 1
      /\ \A i \in 1..(Len(t) - 1) : r[i] = IF i < k THEN t[i] ELSE t[i + 1]
  BY WithoutOne
<1> HIDE DEF st, r
<1>3. /\ s \o r \in Seq(S) /\ Len(s \o r) = Len(s) + Len(r)
      /\ \A i \in 1..Len(s \o r) : (s \o r)[i] = IF i <= Len(s) THEN s[i] ELSE r[i - Len(s)]
  <2>1. r \in Seq(S) BY <1>2
  <2> QED BY <2>1, ConcatProperties
<1>4. Len(s) + k \in 1..Len(st) BY <1>1
<1>5. /\ RemoveAt(st, Len(s) + k) \in Seq(S) /\ Len(RemoveAt(st, Len(s) + k)) = Len(st) - 1
      /\ \A i \in 1..(Len(st) - 1) :
           RemoveAt(st, Len(s) + k)[i] = IF i < Len(s) + k THEN st[i] ELSE st[i + 1]
  BY <1>1, <1>4, WithoutOne
<1>6. ASSUME NEW i \in 1..Len(s \o r) PROVE RemoveAt(st, Len(s) + k)[i] = (s \o r)[i]
  <2>1. i \in 1..(Len(st) - 1) /\ i \in Nat /\ Len(s) \in Nat BY <1>1, <1>2, <1>3
  <2>2. CASE i <= Len(s) BY <1>1, <1>3, <1>5, <2>1, <2>2
  <2>3. CASE i > Len(s)
    <3>1. i - Len(s) \in 1..(Len(t) - 1) BY <1>1, <2>1, <2>3
    <3>2. (s \o r)[i] = r[i - Len(s)] BY <1>3, <2>1, <2>3
    <3>3. CASE i < Len(s) + k
      <4>1. r[i - Len(s)] = t[i - Len(s)] BY <1>2, <2>1, <3>1, <3>3
      <4>2. RemoveAt(st, Len(s) + k)[i] = st[i] BY <1>5, <2>1, <3>3
      <4> QED BY <1>1, <2>1, <2>3, <3>2, <4>1, <4>2
    <3>4. CASE ~(i < Len(s) + k)
      <4>1. r[i - Len(s)] = t[(i - Len(s)) + 1]
        <5>1. ~(i - Len(s) < k) BY <2>1, <3>4
        <5> QED BY <1>2, <3>1, <5>1
      <4>2. RemoveAt(st, Len(s) + k)[i] = st[i + 1] BY <1>5, <2>1, <3>4
      <4>3. st[i + 1] = t[(i + 1) - Len(s)] BY <1>1, <2>1, <2>3
      <4>4. (i + 1) - Len(s) = (i - Len(s)) + 1 BY <2>1
      <4> QED BY <3>2, <4>1, <4>2, <4>3, <4>4
    <3> QED BY <3>3, <3>4
  <2> QED BY <2>1, <2>2, <2>3
<1>7. Len(RemoveAt(st, Len(s) + k)) = Len(s \o r) BY <1>1, <1>2, <1>3, <1>5
<1>8. RemoveAt(st, Len(s) + k) = s \o r
  BY <1>3, <1>5, <1>6, <1>7, SeqEqual
<1> QED BY <1>8 DEF st, r

(* The order survives a byte that is added behind all others and a byte    *)
(* that gets lost, and nothing else changes.                               *)
LEMMA OrderedAppend ==
  ASSUME NEW s \in Seq(Nat), Ordered(s), NEW x \in Nat, \A i \in DOMAIN s : s[i] < x
  PROVE  /\ Ordered(Append(s, x))
         /\ \A b : Has(Append(s, x), b) <=> Has(s, b) \/ b = x
<1>1. /\ Append(s, x) \in Seq(Nat) /\ Len(Append(s, x)) = Len(s) + 1
      /\ \A i \in 1..Len(s) : Append(s, x)[i] = s[i]
      /\ Append(s, x)[Len(s) + 1] = x
  BY AppendProperties
<1>2. DOMAIN s = 1..Len(s) /\ DOMAIN Append(s, x) = 1..(Len(s) + 1) /\ Len(s) \in Nat
  BY <1>1
<1>3. \A i \in 1..(Len(s) + 1) : i \in 1..Len(s) \/ i = Len(s) + 1 BY <1>2
<1> HIDE DEF Ordered
<1>4. Ordered(Append(s, x))
  <2> SUFFICES ASSUME NEW i \in 1..(Len(s) + 1), NEW j \in 1..(Len(s) + 1), i < j
               PROVE  Append(s, x)[i] < Append(s, x)[j]
    BY <1>2 DEF Ordered
  <2>1. i \in 1..Len(s) BY <1>2
  <2> QED BY <1>1, <1>2, <1>3, <2>1 DEF Ordered
<1>5. ASSUME NEW b PROVE Has(Append(s, x), b) <=> Has(s, b) \/ b = x
  <2>1. ASSUME Has(Append(s, x), b) PROVE Has(s, b) \/ b = x
    BY <1>1, <1>2, <1>3, <2>1 DEF Has
  <2>2. ASSUME Has(s, b) PROVE Has(Append(s, x), b)
    <3>1. PICK i \in 1..Len(s) : s[i] = b BY <1>2, <2>2 DEF Has
    <3>2. i \in DOMAIN Append(s, x) /\ Append(s, x)[i] = b BY <1>1, <1>2, <3>1
    <3> QED BY <3>2 DEF Has
  <2>3. ASSUME b = x PROVE Has(Append(s, x), b)
    <3>1. Len(s) + 1 \in DOMAIN Append(s, x) BY <1>2
    <3> QED BY <1>1, <2>3, <3>1 DEF Has
  <2> QED BY <2>1, <2>2, <2>3
<1> QED BY <1>4, <1>5

LEMMA OrderedWithoutOne ==
  ASSUME NEW s \in Seq(Nat), Ordered(s), NEW k \in 1..Len(s)
  PROVE  /\ Ordered(RemoveAt(s, k))
         /\ \A b : Has(RemoveAt(s, k), b) <=> Has(s, b) /\ b # s[k]
<1> DEFINE r == RemoveAt(s, k)
<1>1. /\ r \in Seq(Nat) /\ Len(r) = Len(s) - 1
      /\ \A i \in 1..(Len(s) - 1) : r[i] = IF i < k THEN s[i] ELSE s[i + 1]
  BY WithoutOne
<1> HIDE DEF r
<1>2. /\ DOMAIN s = 1..Len(s) /\ DOMAIN r = 1..(Len(s) - 1) /\ Len(s) \in Nat
      /\ \A i \in 1..Len(s) : s[i] \in Nat
  BY <1>1
<1>3. \A i, j \in 1..Len(s) : i < j => s[i] < s[j] BY <1>2 DEF Ordered
<1> HIDE DEF Ordered
<1>4. Ordered(r)
  <2> SUFFICES ASSUME NEW i \in 1..(Len(s) - 1), NEW j \in 1..(Len(s) - 1), i < j
               PROVE  r[i] < r[j]
    BY <1>2 DEF Ordered
  <2>1. i \in 1..Len(s) /\ j \in 1..Len(s) /\ i + 1 \in 1..Len(s) /\ j + 1 \in 1..Len(s)
    BY <1>2
  <2>2. CASE j < k BY <1>1, <1>3, <2>1, <2>2
  <2>3. CASE i < k /\ ~(j < k)
    <3>1. i < j + 1 OBVIOUS
    <3> QED BY <1>1, <1>3, <2>1, <2>3, <3>1
  <2>4. CASE ~(i < k)
    <3>1. ~(j < k) /\ i + 1 < j + 1 BY <2>4
    <3> QED BY <1>1, <1>3, <2>1, <2>4, <3>1
  <2> QED BY <2>2, <2>3, <2>4
<1>5. ASSUME NEW b, Has(r, b) PROVE Has(s, b) /\ b # s[k]
  <2>1. PICK i \in 1..(Len(s) - 1) : r[i] = b BY <1>2, <1>5 DEF Has
  <2>2. i \in 1..Len(s) /\ i + 1 \in 1..Len(s) BY <1>2
  <2>3. CASE i < k
    <3>1. b = s[i] /\ s[i] < s[k] BY <1>1, <1>3, <2>1, <2>2, <2>3
    <3>2. b # s[k] BY <1>2, <2>2, <3>1
    <3> QED BY <1>2, <2>2, <3>1, <3>2 DEF Has
  <2>4. CASE ~(i < k)
    <3>1. b = s[i + 1] BY <1>1, <2>1, <2>4
    <3>2. k < i + 1 BY <2>2, <2>4
    <3>3. s[k] < s[i + 1] BY <1>3, <2>2, <3>2
    <3>4. b # s[k] BY <1>2, <2>2, <3>1, <3>3
    <3> QED BY <1>2, <2>2, <3>1, <3>4 DEF Has
  <2> QED BY <2>3, <2>4
<1>6. ASSUME NEW b, Has(s, b), b # s[k] PROVE Has(r, b)
  <2>1. PICK i \in 1..Len(s) : s[i] = b BY <1>2, <1>6 DEF Has
  <2>2. CASE i < k
    <3>1. i \in 1..(Len(s) - 1) BY <1>2, <2>2
    <3>2. r[i] = b BY <1>1, <2>1, <2>2, <3>1
    <3> QED BY <1>2, <3>1, <3>2 DEF Has
  <2>3. CASE i > k
    <3>1. i - 1 \in 1..(Len(s) - 1) /\ ~(i - 1 < k) /\ (i - 1) + 1 = i BY <1>2, <2>3
    <3>2. r[i - 1] = b BY <1>1, <2>1, <3>1
    <3> QED BY <1>2, <3>1, <3>2 DEF Has
  <2>4. i # k BY <1>6, <2>1
  <2> QED BY <2>2, <2>3, <2>4
<1>7. Ordered(r) /\ \A b : Has(r, b) <=> Has(s, b) /\ b # s[k]
  BY <1>4, <1>5, <1>6
<1> QED BY <1>7 DEF r

-----------------------------------------------------------------------------
LEMMA UartBuffers ==
  /\ Bytes \in Nat /\ FifoSize \in Nat /\ QueueSize \in Nat /\ Threshold \in Nat
BY UartAssumption DEF UartAssumption

LEMMA UartInitTyped == UartInit => UartTypeOK
<1> SUFFICES ASSUME UartInit PROVE UartTypeOK
  OBVIOUS
<1>1. /\ arrivals \in 0..Bytes
      /\ uartPc \in {"off", "reading", "clearing"} /\ dropped \subseteq 1..arrivals
  BY UartBuffers DEF UartInit
<1>3. raised \in BOOLEAN BY DEF UartInit
<1>2. /\ fifo = <<>> /\ queue = <<>> /\ printed = <<>> /\ toRead = 0
      /\ <<>> \in Seq(1..arrivals) /\ Len(<<>>) = 0
  BY DEF UartInit
<1> QED BY <1>1, <1>2, <1>3, UartBuffers DEF UartTypeOK

LEMMA UartNextTyped == UartTypeOK /\ [UartNext]_uartVars => UartTypeOK'
<1> SUFFICES ASSUME UartTypeOK, [UartNext]_uartVars PROVE UartTypeOK'
  OBVIOUS
<1>1. CASE ByteArrives
  <2>1. /\ arrivals \in Nat /\ arrivals' = arrivals + 1 /\ arrivals' \in 0..Bytes
        /\ arrivals + 1 \in 1..arrivals'
        /\ \A S : S \subseteq 1..arrivals => S \subseteq 1..arrivals'
    BY <1>1, UartBuffers DEF ByteArrives, UartTypeOK
  <2>2. /\ fifo \in Seq(1..arrivals') /\ queue \in Seq(1..arrivals')
        /\ printed \in Seq(1..arrivals')
    BY <2>1, SeqMonotonic DEF UartTypeOK
  <2>3. /\ fifo' \in Seq(1..arrivals') /\ Len(fifo') <= FifoSize
        /\ Len(fifo') \in Nat /\ Len(fifo') >= Len(fifo)
        /\ dropped' \subseteq 1..arrivals'
    <3>1. CASE Len(fifo) < FifoSize
      <4>1. fifo' = Append(fifo, arrivals + 1) /\ dropped' = dropped
        BY <1>1, <3>1 DEF ByteArrives
      <4> QED BY <2>1, <2>2, <3>1, <4>1, UartBuffers DEF UartTypeOK
    <3>2. CASE ~(Len(fifo) < FifoSize)
      <4>1. fifo' = fifo /\ dropped' = dropped \cup {arrivals + 1}
        BY <1>1, <3>2 DEF ByteArrives
      <4> QED BY <2>1, <2>2, <4>1 DEF UartTypeOK
    <3> QED BY <3>1, <3>2
  <2>4. raised' \in BOOLEAN BY <1>1, Zenon DEF ByteArrives, UartTypeOK
  <2>5. toRead' \in 0..Len(fifo') BY <1>1, <2>2, <2>3 DEF ByteArrives, UartTypeOK
  <2>6. UNCHANGED <<uartPc, queue, printed>> BY <1>1 DEF ByteArrives
  <2> QED BY <2>1, <2>2, <2>3, <2>4, <2>5, <2>6 DEF UartTypeOK
<1>2. CASE ReadByte
  <2>1. /\ fifo # <<>> /\ Len(fifo) \in Nat /\ toRead \in Nat /\ toRead > 0 /\ toRead <= Len(fifo)
    BY <1>2 DEF ReadByte, UartTypeOK
  <2>2. Head(fifo) \in 1..arrivals /\ Tail(fifo) \in Seq(1..arrivals) /\ Len(Tail(fifo)) = Len(fifo) - 1
    BY <2>1, HeadTailProperties DEF UartTypeOK
  <2>3. /\ fifo' \in Seq(1..arrivals) /\ Len(fifo') <= FifoSize /\ toRead' \in 0..Len(fifo')
    BY <1>2, <2>1, <2>2, UartBuffers DEF ReadByte, UartTypeOK
  <2>4. /\ queue' \in Seq(1..arrivals) /\ Len(queue') <= QueueSize
        /\ dropped' \subseteq 1..arrivals
    <3>1. CASE Len(queue) < QueueSize
      <4>1. queue' = Append(queue, Head(fifo)) /\ dropped' = dropped
        BY <1>2, <3>1 DEF ReadByte
      <4> QED BY <2>2, <3>1, <4>1, UartBuffers DEF UartTypeOK
    <3>2. CASE ~(Len(queue) < QueueSize)
      <4>1. queue' = queue /\ dropped' = dropped \cup {Head(fifo)}
        BY <1>2, <3>2 DEF ReadByte
      <4> QED BY <2>2, <4>1 DEF UartTypeOK
    <3> QED BY <3>1, <3>2
  <2>5. UNCHANGED <<arrivals, raised, uartPc, printed>> BY <1>2 DEF ReadByte
  <2> QED BY <2>3, <2>4, <2>5 DEF UartTypeOK
<1>3. CASE PrintByte
  <2>1. queue # <<>> /\ queue \in Seq(1..arrivals) BY <1>3 DEF PrintByte, UartTypeOK
  <2>2. Head(queue) \in 1..arrivals /\ Tail(queue) \in Seq(1..arrivals)
        /\ Len(Tail(queue)) = Len(queue) - 1
    BY <2>1, HeadTailProperties
  <2>3. /\ queue' \in Seq(1..arrivals) /\ Len(queue') <= QueueSize
        /\ printed' \in Seq(1..arrivals)
    BY <1>3, <2>1, <2>2, UartBuffers DEF PrintByte, UartTypeOK
  <2> QED BY <1>3, <2>3 DEF PrintByte, UartTypeOK
<1>4. CASE Interrupt
  <2>1. Len(fifo) \in 0..Len(fifo) BY DEF UartTypeOK
  <2> QED BY <1>4, <2>1 DEF Interrupt, Count, UartTypeOK
<1>5. CASE ReceiveTimeOut BY <1>5 DEF ReceiveTimeOut, UartTypeOK
<1>6. CASE AllRead BY <1>6 DEF AllRead, UartTypeOK
<1>7. CASE ClearStatus BY <1>7 DEF ClearStatus, UartTypeOK
<1>8. CASE UNCHANGED uartVars BY <1>8 DEF uartVars, UartTypeOK
<1> QED BY <1>1, <1>2, <1>3, <1>4, <1>5, <1>6, <1>7, <1>8 DEF UartNext, Handler

(* Each step is a step of the line, or none: what the handler and the task *)
(* carry from one buffer to the next stays where it is on the line.        *)
LEMMA StepOfTheLine ==
  UartTypeOK /\ [UartNext]_uartVars => [UartLine!LineNext]_(UartLine!lineVars)
<1> SUFFICES ASSUME UartTypeOK, UartNext
             PROVE  UartLine!LineNext \/ UNCHANGED UartLine!lineVars
  BY DEF uartVars, UartLine!lineVars
<1> DEFINE S == 1..arrivals
<1>0. fifo \in Seq(S) /\ queue \in Seq(S) /\ printed \in Seq(S) /\ arrivals \in Nat
  BY UartBuffers DEF UartTypeOK
<1> HIDE DEF S
<1>1. CASE ByteArrives
  <2>1. arrivals' = arrivals + 1 /\ queue' = queue /\ printed' = printed
    BY <1>1 DEF ByteArrives
  <2>2. CASE Len(fifo) < FifoSize
    <3>1. fifo' = Append(fifo, arrivals + 1) /\ dropped' = dropped
      BY <1>1, <2>2 DEF ByteArrives
    <3>2. fifo \in Seq(Nat) /\ queue \in Seq(Nat) /\ arrivals + 1 \in Nat
      BY <1>0 DEF S
    <3>3. queue \o Append(fifo, arrivals + 1) = Append(queue \o fifo, arrivals + 1)
      BY <3>2
    <3> QED BY <2>1, <3>1, <3>3 DEF UartLine!LineNext, UartLine!Send
  <2>3. CASE ~(Len(fifo) < FifoSize)
    <3>1. fifo' = fifo /\ dropped' = dropped \cup {arrivals + 1}
      BY <1>1, <2>3 DEF ByteArrives
    <3> QED BY <2>1, <3>1 DEF UartLine!LineNext, UartLine!Send
  <2> QED BY <2>2, <2>3
<1>2. CASE ReadByte
  <2>1. /\ fifo # <<>> /\ Len(fifo) \in Nat /\ Len(fifo) >= 1
        /\ fifo' = Tail(fifo) /\ UNCHANGED <<arrivals, printed>>
    BY <1>0, <1>2 DEF ReadByte, UartTypeOK
  <2>2. Head(fifo) = fifo[1] /\ Head(fifo) \in S /\ Tail(fifo) \in Seq(S)
    BY <1>0, <2>1, HeadTailProperties
  <2>3. CASE Len(queue) < QueueSize
    <3>1. queue' = Append(queue, Head(fifo)) /\ dropped' = dropped
      BY <1>2, <2>3 DEF ReadByte
    <3>2. Append(queue, Head(fifo)) \o Tail(fifo) = queue \o fifo
      BY <1>0, <2>1, <2>2
    <3> QED BY <2>1, <3>1, <3>2 DEF UartLine!lineVars
  <2>4. CASE ~(Len(queue) < QueueSize)
    <3>1. queue' = queue /\ dropped' = dropped \cup {Head(fifo)}
      BY <1>2, <2>4 DEF ReadByte
    <3>2. queue \o Tail(fifo) = RemoveAt(queue \o fifo, Len(queue) + 1)
      <4>1. 1 \in 1..Len(fifo) BY <2>1
      <4>2. RemoveAt(queue \o fifo, Len(queue) + 1) = queue \o RemoveAt(fifo, 1)
        BY <1>0, <4>1, WithoutOneBehind
      <4>3. RemoveAt(fifo, 1) = Tail(fifo) BY <1>0, <2>1, WithoutFirst
      <4> QED BY <4>2, <4>3
    <3>3. /\ Len(queue) + 1 \in DOMAIN (queue \o fifo)
          /\ (queue \o fifo)[Len(queue) + 1] = fifo[1]
      BY <1>0, <2>1
    <3>4. UartLine!Lose(Len(queue) + 1)
      <4>1. queue' \o fifo' = RemoveAt(queue \o fifo, Len(queue) + 1)
        BY <2>1, <3>1, <3>2
      <4>2. dropped' = dropped \cup {(queue \o fifo)[Len(queue) + 1]}
        BY <2>2, <3>1, <3>3
      <4> QED
        BY <2>1, <4>1, <4>2 DEF UartLine!Lose, UartLine!RemoveAt, RemoveAt
    <3> QED BY <3>3, <3>4 DEF UartLine!LineNext
  <2> QED BY <2>3, <2>4
<1>3. CASE PrintByte
  <2>1. /\ queue # <<>> /\ queue' = Tail(queue) /\ printed' = Append(printed, Head(queue))
        /\ UNCHANGED <<arrivals, fifo, dropped>>
    BY <1>3 DEF PrintByte
  <2>2. /\ queue \o fifo # <<>> /\ Head(queue \o fifo) = Head(queue)
        /\ Tail(queue \o fifo) = Tail(queue) \o fifo
    BY <1>0, <2>1
  <2> QED BY <2>1, <2>2 DEF UartLine!LineNext, UartLine!Receive
<1>4. CASE Interrupt BY <1>4 DEF Interrupt, UartLine!lineVars
<1>5. CASE ReceiveTimeOut BY <1>5 DEF ReceiveTimeOut, UartLine!lineVars
<1>6. CASE AllRead BY <1>6 DEF AllRead, UartLine!lineVars
<1>7. CASE ClearStatus BY <1>7 DEF ClearStatus, UartLine!lineVars
<1> QED BY <1>1, <1>2, <1>3, <1>4, <1>5, <1>6, <1>7 DEF UartNext, Handler

(* The handler, its queue and the task are a lossy line.                   *)
THEOREM UartImplementsLine == UartSpec => UartLine!LineSpec
<1>1. UartInit => UartLine!LineInit
  <2> SUFFICES ASSUME UartInit PROVE UartLine!LineInit
    OBVIOUS
  <2>1. <<>> \o <<>> = <<>> OBVIOUS
  <2> QED BY <2>1 DEF UartInit, UartLine!LineInit
<1> QED
  BY UartInitTyped, UartNextTyped, StepOfTheLine, <1>1, PTL
  DEF UartSpec, UartLine!LineSpec

-----------------------------------------------------------------------------
(* Of n bytes that were sent those in d are lost, and those in w, in their *)
(* order, are not.                                                         *)
Accounted(n, w, d) ==
  /\ n \in Nat /\ w \in Seq(Nat) /\ d \subseteq 1..n
  /\ Ordered(w) /\ \A i \in DOMAIN w : w[i] \in 1..n
  /\ \A b \in 1..n : b \in d <=> ~Has(w, b)

LEMMA SentIsAccounted ==
  ASSUME NEW n, NEW w, NEW d, Accounted(n, w, d)
  PROVE  Accounted(n + 1, Append(w, n + 1), d) /\ Accounted(n + 1, w, d \cup {n + 1})
<1>1. /\ n \in Nat /\ w \in Seq(Nat) /\ d \subseteq 1..n /\ Ordered(w)
      /\ \A i \in DOMAIN w : w[i] \in 1..n
      /\ \A b \in 1..n : b \in d <=> ~Has(w, b)
  BY DEF Accounted
<1>2. /\ \A b \in 1..(n + 1) : b \in 1..n \/ b = n + 1
      /\ 1..n \subseteq 1..(n + 1) /\ n + 1 \in 1..(n + 1) /\ n + 1 \notin 1..n
  BY <1>1
<1>3. ~Has(w, n + 1) /\ n + 1 \notin d BY <1>1, <1>2 DEF Has
<1>4. \A i \in DOMAIN w : w[i] \in 1..(n + 1) BY <1>1, <1>2
<1>5. \A i \in DOMAIN w : w[i] < n + 1
  <2> SUFFICES ASSUME NEW i \in DOMAIN w PROVE w[i] < n + 1
    OBVIOUS
  <2>1. w[i] \in 1..n BY <1>1
  <2> QED BY <1>1, <2>1
<1>6. /\ Ordered(Append(w, n + 1))
      /\ \A b : Has(Append(w, n + 1), b) <=> Has(w, b) \/ b = n + 1
  <2>1. n + 1 \in Nat BY <1>1
  <2> QED BY <1>1, <1>5, <2>1, OrderedAppend
<1>7. /\ Append(w, n + 1) \in Seq(Nat)
      /\ \A i \in DOMAIN Append(w, n + 1) : Append(w, n + 1)[i] \in 1..(n + 1)
  <2>1. /\ Append(w, n + 1) \in Seq(Nat) /\ DOMAIN Append(w, n + 1) = 1..(Len(w) + 1)
        /\ DOMAIN w = 1..Len(w) /\ Len(w) \in Nat
        /\ \A i \in 1..Len(w) : Append(w, n + 1)[i] = w[i]
        /\ Append(w, n + 1)[Len(w) + 1] = n + 1
    BY <1>1
  <2>2. \A i \in 1..(Len(w) + 1) : i \in 1..Len(w) \/ i = Len(w) + 1 BY <2>1
  <2> QED BY <1>2, <1>4, <2>1, <2>2
<1>8. n + 1 \in Nat /\ d \subseteq 1..(n + 1) /\ d \cup {n + 1} \subseteq 1..(n + 1)
  BY <1>1, <1>2
<1>9. \A b \in 1..(n + 1) : b \in d <=> ~Has(Append(w, n + 1), b)
  BY <1>1, <1>2, <1>3, <1>6
<1>10. \A b \in 1..(n + 1) : b \in d \cup {n + 1} <=> ~Has(w, b)
  BY <1>1, <1>2, <1>3
<1> QED BY <1>1, <1>4, <1>6, <1>7, <1>8, <1>9, <1>10 DEF Accounted

LEMMA LostIsAccounted ==
  ASSUME NEW n, NEW w, NEW d, Accounted(n, w, d), NEW k \in 1..Len(w)
  PROVE  Accounted(n, RemoveAt(w, k), d \cup {w[k]})
<1>1. /\ n \in Nat /\ w \in Seq(Nat) /\ d \subseteq 1..n /\ Ordered(w)
      /\ \A i \in DOMAIN w : w[i] \in 1..n
      /\ \A b \in 1..n : b \in d <=> ~Has(w, b)
  BY DEF Accounted
<1>2. /\ Ordered(RemoveAt(w, k))
      /\ \A b : Has(RemoveAt(w, k), b) <=> Has(w, b) /\ b # w[k]
  BY <1>1, OrderedWithoutOne
<1>3. RemoveAt(w, k) \in Seq(Nat) BY <1>1, WithoutOne
<1>4. \A i \in DOMAIN RemoveAt(w, k) : Has(w, RemoveAt(w, k)[i]) BY <1>2 DEF Has
<1>5. \A i \in DOMAIN RemoveAt(w, k) : RemoveAt(w, k)[i] \in 1..n
  BY <1>1, <1>4 DEF Has
<1>6. k \in DOMAIN w BY <1>1
<1>7. w[k] \in 1..n BY <1>1, <1>6
<1>8. \A b \in 1..n : b \in d \cup {w[k]} <=> ~Has(RemoveAt(w, k), b)
  BY <1>1, <1>2
<1> QED BY <1>1, <1>2, <1>3, <1>5, <1>7, <1>8 DEF Accounted

(* The bytes that arrived and those under way are those that are not lost. *)
LineInv ==
  /\ printed \in Seq(Nat) /\ queue \o fifo \in Seq(Nat)
  /\ Accounted(arrivals, printed \o (queue \o fifo), dropped)

LEMMA LineKeepsInv ==
  LineInv /\ [UartLine!LineNext]_(UartLine!lineVars) => LineInv'
<1> SUFFICES ASSUME LineInv, [UartLine!LineNext]_(UartLine!lineVars) PROVE LineInv'
  OBVIOUS
<1> DEFINE l == queue \o fifo
<1>0. printed \in Seq(Nat) /\ l \in Seq(Nat) /\ Accounted(arrivals, printed \o l, dropped)
  BY DEF LineInv
<1>1. SUFFICES /\ printed' \in Seq(Nat) /\ l' \in Seq(Nat)
               /\ Accounted(arrivals', printed' \o l', dropped')
  BY DEF LineInv
<1>2. CASE UartLine!Send
  <2>1. /\ arrivals' = arrivals + 1 /\ printed' = printed
        /\ \/ l' = Append(l, arrivals + 1) /\ dropped' = dropped
           \/ dropped' = dropped \cup {arrivals + 1} /\ l' = l
    BY <1>2 DEF UartLine!Send
  <2>2. arrivals \in Nat BY <1>0 DEF Accounted
  <2> HIDE DEF l
  <2>3. printed \o Append(l, arrivals + 1) = Append(printed \o l, arrivals + 1)
    BY <1>0, <2>2
  <2>4. Append(l, arrivals + 1) \in Seq(Nat) BY <1>0, <2>2
  <2> QED BY <1>0, <2>1, <2>3, <2>4, SentIsAccounted
<1>3. ASSUME NEW k \in DOMAIN l, UartLine!Lose(k)
      PROVE  /\ printed' \in Seq(Nat) /\ l' \in Seq(Nat)
             /\ Accounted(arrivals', printed' \o l', dropped')
  <2>1. /\ l' = RemoveAt(l, k) /\ dropped' = dropped \cup {l[k]}
        /\ arrivals' = arrivals /\ printed' = printed
    BY <1>3 DEF UartLine!Lose, UartLine!RemoveAt, RemoveAt
  <2> HIDE DEF l
  <2>2. k \in 1..Len(l) /\ Len(printed) + k \in 1..Len(printed \o l)
        /\ (printed \o l)[Len(printed) + k] = l[k]
    BY <1>0, <1>3
  <2>3. RemoveAt(printed \o l, Len(printed) + k) = printed \o RemoveAt(l, k)
    BY <1>0, <2>2, WithoutOneBehind
  <2>4. RemoveAt(l, k) \in Seq(Nat) BY <1>0, <2>2, WithoutOne
  <2>5. Accounted(arrivals, RemoveAt(printed \o l, Len(printed) + k),
                  dropped \cup {(printed \o l)[Len(printed) + k]})
    BY <1>0, <2>2, LostIsAccounted
  <2> QED BY <1>0, <2>1, <2>2, <2>3, <2>4, <2>5
<1>4. CASE UartLine!Receive
  <2>1. /\ l # <<>> /\ printed' = Append(printed, Head(l)) /\ l' = Tail(l)
        /\ arrivals' = arrivals /\ dropped' = dropped
    BY <1>4 DEF UartLine!Receive
  <2> HIDE DEF l
  <2>2. Head(l) \in Nat /\ Tail(l) \in Seq(Nat) BY <1>0, <2>1, HeadTailProperties
  <2>3. Append(printed, Head(l)) \o Tail(l) = printed \o l BY <1>0, <2>1, <2>2
  <2>4. Append(printed, Head(l)) \in Seq(Nat) BY <1>0, <2>2
  <2> QED BY <1>0, <2>1, <2>2, <2>3, <2>4
<1>5. CASE UNCHANGED UartLine!lineVars
  <2>1. l' = l /\ printed' = printed /\ arrivals' = arrivals /\ dropped' = dropped
    BY <1>5 DEF UartLine!lineVars
  <2> HIDE DEF l
  <2> QED BY <1>0, <2>1
<1> QED BY <1>2, <1>3, <1>4, <1>5 DEF UartLine!LineNext

LEMMA LineIsAccounted == UartSpec => [](UartTypeOK /\ LineInv)
<1>1. UartLine!LineInit => LineInv
  <2> SUFFICES ASSUME UartLine!LineInit PROVE LineInv
    OBVIOUS
  <2>1. printed = <<>> /\ queue \o fifo = <<>> /\ arrivals = 0 /\ dropped = {}
    BY DEF UartLine!LineInit
  <2>2. <<>> \in Seq(Nat) /\ <<>> \o <<>> = <<>> /\ DOMAIN <<>> = {} /\ 1..0 = {}
    OBVIOUS
  <2> QED BY <2>1, <2>2 DEF LineInv, Accounted, Ordered
<1>2. UartLine!LineSpec => []LineInv BY LineKeepsInv, <1>1, PTL DEF UartLine!LineSpec
<1> QED BY UartInitTyped, UartNextTyped, UartImplementsLine, <1>2, PTL DEF UartSpec

LEMMA TheWay ==
  UartTypeOK => printed \o (queue \o fifo) = printed \o queue \o fifo
<1> SUFFICES ASSUME UartTypeOK PROVE printed \o (queue \o fifo) = printed \o queue \o fifo
  OBVIOUS
<1> DEFINE S == 1..arrivals
<1>1. printed \in Seq(S) /\ queue \in Seq(S) /\ fifo \in Seq(S) BY DEF UartTypeOK
<1> QED BY <1>1, ConcatAssociative

(* Bytes keep their order on their way through FIFO and queue and none is  *)
(* there twice (main.c:29-38), for any sizes of the two, because the       *)
(* handler and the task are a lossy line.                                  *)
THEOREM BytesAreNotOvertaken == UartSpec => []BytesKeepOrder
<1>1. UartTypeOK /\ LineInv => BytesKeepOrder
  BY TheWay DEF LineInv, Accounted, Ordered, BytesKeepOrder
<1> QED BY LineIsAccounted, <1>1, PTL

(* Only a full FIFO or a full queue costs a byte (main.c:29-38, 52): none  *)
(* vanishes between the two, however the handler's count and the bytes     *)
(* that come in while it reads interleave.                                 *)
NoByteVanishes ==
  \A b \in 1..arrivals : b \in dropped <=> ~Has(printed \o queue \o fifo, b)

(* Of every byte that came in: either a full buffer cost it, or it is      *)
(* printed or under way (main.c, the interrupt handler and the task).      *)
THEOREM BytesAreAccountedFor == UartSpec => []NoByteVanishes
<1>1. UartTypeOK /\ LineInv => NoByteVanishes
  BY TheWay DEF LineInv, Accounted, NoByteVanishes
<1> QED BY LineIsAccounted, <1>1, PTL

-----------------------------------------------------------------------------
(* ButtonLed.                                                               *)
(* A beep and the clearing of the flag after it exclude each other, and    *)
(* as long as a beep is owed the flag waits for loop() to look at it.      *)
OwedIsAsked == owed => buzzer /\ ~Busy

LedInv == LedTypeOK /\ (clearing => beep = 0) /\ OwedIsAsked

LEMMA Ticks ==
  Debounce \in Nat /\ Debounce >= 1 /\ BeepTicks \in Nat /\ BeepTicks >= 1
BY ButtonLedAssumption DEF ButtonLedAssumption

LEMMA LedInitEstablishesInv == LedInit => LedInv
<1> SUFFICES ASSUME LedInit PROVE LedInv
  OBVIOUS
<1>1. 0 \in 0..(Debounce + 1) /\ beep \in 0..BeepTicks /\ ~(beep > 0) /\ beep = 0
  BY Ticks DEF LedInit
<1> QED
  BY <1>1, Zenon DEF LedInit, LedInv, LedTypeOK, OwedIsAsked

LEMMA LedNextKeepsInv == LedInv /\ [LedNext]_ledVars => LedInv'
<1> SUFFICES ASSUME LedInv, [LedNext]_ledVars PROVE LedInv'
  OBVIOUS
<1>0. 0 \in 0..(Debounce + 1) /\ BeepTicks \in 0..BeepTicks /\ BeepTicks > 0 /\ ~(0 > 0)
  BY Ticks
<1>1. beep \in 0..BeepTicks /\ (beep = 0 <=> ~(beep > 0))
  BY Ticks DEF LedInv, LedTypeOK
<1> USE DEF LedInv, LedTypeOK, OwedIsAsked, Busy
<1>2. ASSUME NEW b \in LedButtons, Blink(b) PROVE LedInv'
  BY <1>0, <1>1, <1>2, Zenon DEF Blink
<1>3. CASE TimePasses
  <2>1. quiet' \in [LedButtons -> 0..(Debounce + 1)]
    <3>1. ASSUME NEW b \in LedButtons
          PROVE  (IF quiet[b] > Debounce THEN quiet[b] ELSE quiet[b] + 1) \in 0..(Debounce + 1)
      BY Ticks
    <3> QED BY <1>3, <3>1 DEF TimePasses, Aged
  <2>2. /\ beep' \in 0..BeepTicks /\ (beep' > 0 => beep > 0)
        /\ (beep = 1 => beep' = 0) /\ (beep = 0 => beep' = 0) /\ (beep = 1 => beep > 0)
    BY <1>3, Ticks DEF TimePasses
  <2>3. clearing' = (clearing \/ beep = 1) /\ UNCHANGED <<lit, buzzer, owed>>
    BY <1>3 DEF TimePasses
  <2> QED BY <1>1, <2>1, <2>2, <2>3, Zenon
<1>4. CASE StartBeep BY <1>0, <1>1, <1>4, Zenon DEF StartBeep
<1>5. CASE ClearFlag BY <1>0, <1>1, <1>5, Zenon DEF ClearFlag
<1>6. CASE UNCHANGED ledVars BY <1>6, Zenon DEF ledVars
<1> QED BY <1>2, <1>3, <1>4, <1>5, <1>6 DEF LedNext

(* A press whose beep has not begun is still asked for: nothing clears the *)
(* flag between the interrupt and the beep, whenever the interrupt comes   *)
(* (ButtonLedInterrupt3.ino:53-57), for any times and any buttons.         *)
THEOREM PressIsAskedFor == LedSpec => []OwedIsAsked
<1>1. LedInv => OwedIsAsked BY DEF LedInv
<1> QED BY LedInitEstablishesInv, LedNextKeepsInv, <1>1, PTL DEF LedSpec

-----------------------------------------------------------------------------
(* Induction over the naturals for a set of them.                          *)
LEMMA NaturalsFromZero ==
  ASSUME NEW T, T \subseteq Nat, 0 \in T, \A n \in T : n + 1 \in T
  PROVE  T = Nat
<1> SUFFICES ASSUME Nat \ T # {} PROVE FALSE
  OBVIOUS
<1> DEFINE R == {ss \in Nat \X Nat : ss[1] < ss[2]}
<1>1. IsWellFoundedOn(R, Nat) BY NatLessThanWellFounded DEF OpToRel
<1>2. Nat \ T \subseteq Nat OBVIOUS
<1> HIDE DEF R
<1>3. PICK m \in Nat \ T : \A y \in Nat \ T : ~(<<y, m>> \in R)
  BY <1>1, <1>2, WFMin
<1>4. m # 0 /\ m - 1 \in Nat /\ m - 1 < m OBVIOUS
<1>5. <<m - 1, m>> \in R BY <1>4 DEF R
<1>6. m - 1 \in T BY <1>3, <1>4, <1>5
<1>7. (m - 1) + 1 \in T BY <1>6
<1> QED BY <1>4, <1>7

-----------------------------------------------------------------------------
(* Powers of two.                                                          *)
LEMMA PowerCounts ==
  ASSUME NEW n \in Nat
  PROVE  /\ IsFiniteSet(SUBSET (1..n)) /\ 2 ^ n = Cardinality(SUBSET (1..n))
         /\ 2 ^ n \in Nat
<1>1. /\ IsFiniteSet(1..n)
      /\ Cardinality(1..n) = IF 1 > n THEN 0 ELSE n - 1 + 1
  BY FS_Interval
<1>2. Cardinality(1..n) = n BY <1>1
<1>3. /\ IsFiniteSet(SUBSET (1..n))
      /\ Cardinality(SUBSET (1..n)) = 2 ^ Cardinality(1..n)
  BY <1>1, FS_SUBSET, Zenon
<1>4. Cardinality(SUBSET (1..n)) \in Nat BY <1>3, FS_CardinalityType, Zenon
<1> QED BY <1>2, <1>3, <1>4, Zenon

(* Half of the subsets of 1..(n + 1) hold n + 1.                           *)
LEMMA PowerDoubles ==
  ASSUME NEW n \in Nat PROVE 2 ^ (n + 1) = 2 * 2 ^ n
<1> DEFINE S == SUBSET (1..n)
           T == {A \in SUBSET (1..(n + 1)) : n + 1 \in A}
           f == [A \in S |-> A \cup {n + 1}]
<1>1. n + 1 \notin 1..n /\ 1..(n + 1) = (1..n) \cup {n + 1} OBVIOUS
<1>2. SUBSET (1..(n + 1)) = S \cup T /\ S \cap T = {}
  BY <1>1, Zenon
<1>3. f \in Bijection(S, T)
  <2>1. \A A \in S : f[A] \in T BY <1>1
  <2>2. \A A, B \in S : f[A] = f[B] => A = B BY <1>1
  <2>3. \A B \in T : \E A \in S : f[A] = B
    <3> TAKE B \in T
    <3>1. B \ {n + 1} \in S BY <1>1
    <3>2. (B \ {n + 1}) \cup {n + 1} = B OBVIOUS
    <3> QED BY <3>1, <3>2
  <2> QED BY <2>1, <2>2, <2>3 DEF Bijection, Injection, Surjection, IsInjective
<1>4. IsFiniteSet(S) /\ 2 ^ n = Cardinality(S) /\ 2 ^ n \in Nat BY PowerCounts
<1>5. ExistsBijection(S, T) BY <1>3 DEF ExistsBijection
<1> HIDE DEF S, T, f
<1>6. IsFiniteSet(T) /\ Cardinality(T) = Cardinality(S)
  BY <1>4, <1>5, FS_Bijection, Zenon
<1>7. Cardinality(S \cup T) =
        Cardinality(S) + Cardinality(T) - Cardinality(S \cap T)
  BY <1>4, <1>6, FS_Union
<1>8. Cardinality({}) = 0 BY FS_EmptySet, Zenon
<1>9. n + 1 \in Nat OBVIOUS
<1>10. 2 ^ (n + 1) = Cardinality(SUBSET (1..(n + 1))) BY <1>9, PowerCounts, Zenon
<1>11. Cardinality(S \cap T) = 0 BY <1>2, <1>8, Zenon
<1>12. Cardinality(S \cup T) = Cardinality(S) + Cardinality(S)
  BY <1>4, <1>6, <1>7, <1>11
<1>13. Cardinality(S \cup T) = 2 * Cardinality(S) BY <1>4, <1>12
<1> QED BY <1>2, <1>4, <1>10, <1>13, Zenon

LEMMA PowerIsPositive == \A n \in Nat : 2 ^ n \in Nat /\ 2 ^ n >= 1
<1> DEFINE T == {n \in Nat : 2 ^ n \in Nat /\ 2 ^ n >= 1}
<1>1. 2 ^ 0 = 1 OBVIOUS
<1>2. 0 \in T BY <1>1
<1>3. \A n \in T : n + 1 \in T
  <2> TAKE n \in T
  <2>1. 2 ^ (n + 1) = 2 * 2 ^ n BY PowerDoubles
  <2>2. 2 ^ n \in Nat /\ 2 ^ n >= 1 OBVIOUS
  <2> QED BY <2>1, <2>2
<1>4. T \subseteq Nat OBVIOUS
<1> HIDE DEF T
<1>5. T = Nat BY <1>2, <1>3, <1>4, NaturalsFromZero
<1> QED BY <1>5 DEF T

(* A power of two is an even multiple of every smaller one.                *)
LEMMA PowerDivides ==
  ASSUME NEW q \in Nat
  PROVE  \A d \in Nat : \E k \in Nat : k >= 1 /\ 2 ^ (q + 1 + d) = (2 * 2 ^ q) * k
<1> DEFINE T == {d \in Nat : \E k \in Nat : k >= 1 /\ 2 ^ (q + 1 + d) = (2 * 2 ^ q) * k}
<1>0. 2 ^ q \in Nat BY PowerIsPositive
<1>1. 0 \in T
  <2>1. 2 ^ (q + 1) = 2 * 2 ^ q BY PowerDoubles
  <2>2. q + 1 + 0 = q + 1 OBVIOUS
  <2>3. 2 ^ (q + 1 + 0) = (2 * 2 ^ q) * 1 BY <1>0, <2>1, <2>2
  <2> QED BY <2>3
<1>2. \A d \in T : d + 1 \in T
  <2> TAKE d \in T
  <2>1. PICK k \in Nat : k >= 1 /\ 2 ^ (q + 1 + d) = (2 * 2 ^ q) * k OBVIOUS
  <2>2. q + 1 + d \in Nat /\ q + 1 + (d + 1) = (q + 1 + d) + 1 OBVIOUS
  <2>3. 2 ^ (q + 1 + (d + 1)) = 2 * 2 ^ (q + 1 + d) BY <2>2, PowerDoubles
  <2>4. 2 ^ (q + 1 + (d + 1)) = (2 * 2 ^ q) * (2 * k)
    BY <1>0, <2>1, <2>3
  <2>5. 2 * k \in Nat /\ 2 * k >= 1 BY <2>1
  <2>6. d + 1 \in Nat OBVIOUS
  <2> QED BY <2>4, <2>5, <2>6
<1>3. T \subseteq Nat OBVIOUS
<1> HIDE DEF T
<1>4. T = Nat BY <1>1, <1>2, <1>3, NaturalsFromZero
<1> QED BY <1>4 DEF T

LEMMA PowersApart ==
  ASSUME NEW q \in Nat, NEW p \in Nat, q < p
  PROVE  \E k \in Nat : k >= 1 /\ 2 ^ p = (2 * 2 ^ q) * k
<1>1. p - q - 1 \in Nat /\ q + 1 + (p - q - 1) = p OBVIOUS
<1>2. PICK k \in Nat : k >= 1 /\ 2 ^ (q + 1 + (p - q - 1)) = (2 * 2 ^ q) * k
  BY <1>1, PowerDivides, Zenon
<1> QED BY <1>1, <1>2, Zenon

-----------------------------------------------------------------------------
(* Bits of a sum.                                                          *)
LEMMA Quotient ==
  ASSUME NEW n \in Nat, NEW d \in Nat, d >= 1,
         NEW x \in Nat, NEW r \in Nat, r < d, n = x * d + r
  PROVE  n \div d = x
OBVIOUS

LEMMA Divided ==
  ASSUME NEW n \in Nat, NEW d \in Nat, d >= 1
  PROVE  \E x, r \in Nat : r < d /\ n = x * d + r /\ n \div d = x
<1>1. /\ n \div d \in Nat /\ n % d \in Nat /\ n % d < d
      /\ n = (n \div d) * d + (n % d)
  OBVIOUS
<1> QED BY <1>1

LEMMA Parity ==
  /\ \A x \in Nat : \E c \in Nat : \/ x = 2 * c /\ x % 2 # 1
                                   \/ x = 2 * c + 1 /\ x % 2 = 1
  /\ \A x, k \in Nat : (x + 2 * k) % 2 = x % 2
<1>1. ASSUME NEW x \in Nat
      PROVE  \E c \in Nat : (x = 2 * c /\ x % 2 # 1) \/ (x = 2 * c + 1 /\ x % 2 = 1)
  <2>1. x \div 2 \in Nat /\ x = 2 * (x \div 2) + (x % 2) /\ (x % 2 = 0 \/ x % 2 = 1)
    OBVIOUS
  <2> QED BY <2>1
<1>2. \A x, k \in Nat : (x + 2 * k) % 2 = x % 2 OBVIOUS
<1> QED BY <1>1, <1>2

(* The bit of weight w tells whether w goes into the sum an odd number of  *)
(* times.                                                                  *)
LEMMA BitClear ==
  ASSUME NEW s \in Nat, NEW w \in Nat, w >= 1, ~HasBit(s, w)
  PROVE  \E c, a \in Nat : a < w /\ s = (2 * c) * w + a
<1>1. PICK x \in Nat, a \in Nat : a < w /\ s = x * w + a /\ s \div w = x
  BY Divided
<1>2. PICK c \in Nat : (x = 2 * c /\ x % 2 # 1) \/ (x = 2 * c + 1 /\ x % 2 = 1)
  BY Parity
<1>3. x % 2 # 1 BY <1>1 DEF HasBit
<1> QED BY <1>1, <1>2, <1>3

LEMMA BitSet ==
  ASSUME NEW s \in Nat, NEW w \in Nat, w >= 1, HasBit(s, w)
  PROVE  \E c, a \in Nat : a < w /\ s = (2 * c + 1) * w + a
<1>1. PICK x \in Nat, a \in Nat : a < w /\ s = x * w + a /\ s \div w = x
  BY Divided
<1>2. PICK c \in Nat : (x = 2 * c /\ x % 2 # 1) \/ (x = 2 * c + 1 /\ x % 2 = 1)
  BY Parity
<1>3. x % 2 = 1 BY <1>1 DEF HasBit
<1> QED BY <1>1, <1>2, <1>3

LEMMA BitOf ==
  ASSUME NEW w \in Nat, w >= 1, NEW c \in Nat, NEW a \in Nat, a < w
  PROVE  ~HasBit((2 * c) * w + a, w) /\ HasBit((2 * c + 1) * w + a, w)
<1>1. /\ 2 * c \in Nat /\ 2 * c + 1 \in Nat
      /\ (2 * c) * w + a \in Nat /\ (2 * c + 1) * w + a \in Nat
  OBVIOUS
<1>2. ((2 * c) * w + a) \div w = 2 * c BY <1>1, Quotient
<1>3. ((2 * c + 1) * w + a) \div w = 2 * c + 1 BY <1>1, Quotient
<1>4. (2 * c) % 2 # 1 /\ (2 * c + 1) % 2 = 1 OBVIOUS
<1> QED BY <1>2, <1>3, <1>4 DEF HasBit

(* Adding a power whose bit is clear sets this bit and no other.           *)
LEMMA AddLower ==
  ASSUME NEW s \in Nat, NEW w \in Nat, w >= 1, NEW k \in Nat
  PROVE  HasBit(s + (2 * w) * k, w) <=> HasBit(s, w)
<1>1. PICK x \in Nat, a \in Nat : a < w /\ s = x * w + a /\ s \div w = x
  BY Divided
<1>2. /\ x + 2 * k \in Nat /\ s + (2 * w) * k = (x + 2 * k) * w + a
      /\ s + (2 * w) * k \in Nat
  BY <1>1
<1>3. (s + (2 * w) * k) \div w = x + 2 * k BY <1>1, <1>2, Quotient
<1>4. (x + 2 * k) % 2 = x % 2 BY Parity
<1> QED BY <1>1, <1>3, <1>4 DEF HasBit

(* The power v lies above w: it is an even multiple of it.                 *)
LiesAbove(v, w) == \E k \in Nat : k >= 1 /\ v = (2 * w) * k

LEMMA AddUpper ==
  ASSUME NEW s \in Nat, NEW w \in Nat, w >= 1, ~HasBit(s, w),
         NEW v, LiesAbove(v, w)
  PROVE  /\ HasBit(s + w, v) <=> HasBit(s, v)
         /\ s < v => s + w < v
<1> PICK k \in Nat : k >= 1 /\ v = (2 * w) * k BY DEF LiesAbove
<1>0. PICK c \in Nat, a \in Nat : a < w /\ s = (2 * c) * w + a
  BY BitClear
<1>1. PICK x \in Nat, y \in Nat : y < k /\ c = x * k + y
  BY Divided
<1>2. /\ s = x * v + ((2 * w) * y + a)
      /\ s + w = x * v + ((2 * w) * y + w + a)
  BY <1>0, <1>1
<1>3. /\ (2 * w) * y + (2 * w) <= v /\ v \in Nat /\ v >= 1
      /\ (2 * w) * y + a \in Nat /\ (2 * w) * y + w + a \in Nat
      /\ s \in Nat /\ s + w \in Nat
  <2>1. y + 1 <= k BY <1>1
  <2>2. (2 * w) * (y + 1) <= (2 * w) * k BY <2>1
  <2>3. (2 * w) * (y + 1) = (2 * w) * y + (2 * w) OBVIOUS
  <2>4. (2 * w) * y \in Nat /\ v \in Nat OBVIOUS
  <2> QED BY <1>0, <2>2, <2>3, <2>4
<1>4. (2 * w) * y + a < v /\ (2 * w) * y + w + a < v
  <2>1. (2 * w) * y \in Nat OBVIOUS
  <2> QED BY <1>0, <1>3, <2>1
<1>5. s \div v = x /\ (s + w) \div v = x
  BY <1>2, <1>3, <1>4, Quotient
<1>6. s < v => s + w < v
  <2> SUFFICES ASSUME s < v PROVE s + w < v
    OBVIOUS
  <2>1. s = 0 * v + s BY <1>3
  <2>2. s \div v = 0 BY <1>3, <2>1, Quotient
  <2>3. x = 0 BY <1>5, <2>2
  <2> QED BY <1>2, <1>3, <1>4, <2>3
<1> QED BY <1>5, <1>6 DEF HasBit

LEMMA AddBit ==
  ASSUME NEW s \in Nat, NEW p \in Nat, ~HasBit(s, 2 ^ p)
  PROVE  /\ HasBit(s + 2 ^ p, 2 ^ p)
         /\ \A q \in Nat : q # p => (HasBit(s + 2 ^ p, 2 ^ q) <=> HasBit(s, 2 ^ q))
         /\ \A q \in Nat : p < q /\ s < 2 ^ q => s + 2 ^ p < 2 ^ q
<1>1. 2 ^ p \in Nat /\ 2 ^ p >= 1 BY PowerIsPositive
<1>2. PICK c \in Nat, a \in Nat : a < 2 ^ p /\ s = (2 * c) * 2 ^ p + a
  BY <1>1, BitClear
<1>3. HasBit(s + 2 ^ p, 2 ^ p)
  <2>1. s + 2 ^ p = (2 * c + 1) * 2 ^ p + a BY <1>1, <1>2
  <2> QED BY <1>1, <1>2, <2>1, BitOf
<1>4. ASSUME NEW q \in Nat, q < p
      PROVE  HasBit(s + 2 ^ p, 2 ^ q) <=> HasBit(s, 2 ^ q)
  <2>1. PICK k \in Nat : 2 ^ p = (2 * 2 ^ q) * k BY <1>4, PowersApart
  <2>2. 2 ^ q \in Nat /\ 2 ^ q >= 1 BY PowerIsPositive
  <2> QED BY <2>1, <2>2, AddLower
<1>5. ASSUME NEW q \in Nat, p < q
      PROVE  /\ HasBit(s + 2 ^ p, 2 ^ q) <=> HasBit(s, 2 ^ q)
             /\ s < 2 ^ q => s + 2 ^ p < 2 ^ q
  <2>1. LiesAbove(2 ^ q, 2 ^ p) BY <1>5, PowersApart DEF LiesAbove
  <2> QED BY <1>1, <2>1, AddUpper, Zenon
<1>6. \A q \in Nat : q # p => q < p \/ p < q OBVIOUS
<1> QED BY <1>3, <1>4, <1>5, <1>6

(* Subtracting one whose bit is set clears this bit and no other.          *)
LEMMA SubtractBit ==
  ASSUME NEW s \in Nat, NEW p \in Nat, HasBit(s, 2 ^ p)
  PROVE  /\ s - 2 ^ p \in Nat
         /\ ~HasBit(s - 2 ^ p, 2 ^ p)
         /\ \A q \in Nat : q # p => (HasBit(s - 2 ^ p, 2 ^ q) <=> HasBit(s, 2 ^ q))
<1>1. 2 ^ p \in Nat /\ 2 ^ p >= 1 BY PowerIsPositive
<1>2. PICK c \in Nat, a \in Nat : a < 2 ^ p /\ s = (2 * c + 1) * 2 ^ p + a
  BY <1>1, BitSet
<1>3. s - 2 ^ p = (2 * c) * 2 ^ p + a /\ (2 * c) * 2 ^ p \in Nat
  BY <1>1, <1>2
<1>4. s - 2 ^ p \in Nat /\ (s - 2 ^ p) + 2 ^ p = s BY <1>1, <1>2, <1>3
<1>5. ~HasBit(s - 2 ^ p, 2 ^ p) BY <1>1, <1>2, <1>3, BitOf
<1>6. \A q \in Nat : q # p =>
        (HasBit((s - 2 ^ p) + 2 ^ p, 2 ^ q) <=> HasBit(s - 2 ^ p, 2 ^ q))
  BY <1>4, <1>5, AddBit
<1> QED BY <1>4, <1>5, <1>6

-----------------------------------------------------------------------------
(* LedHandler.                                                             *)
LEMMA LedTable ==
  /\ Bits \in Nat /\ Leds = 1..Bits
  /\ \E place \in [Leds -> 0..(Bits - 1)] :
       /\ \A i, j \in Leds : i # j => place[i] # place[j]
       /\ \A i \in Leds : LEDS[i] = 2 ^ place[i]
BY LedHandlerAssumption DEF LedHandlerAssumption, Leds, Bits

(* The sum that setLed() shifts out has the bits of the leds asked for.    *)
SumIsAsked == \A led \in Leds : HasBit(currentSum, LEDS[led]) <=> led \in asked

(* What was shifted so far are the sum's bits, the highest farthest in.    *)
ShiftedSoFar ==
  bit > 0 => \A j \in 1..Bits :
    j <= Bits - bit => (shift[j] <=> HasBit(currentSum, 2 ^ (bit + j - 1)))

(* Once the test has begun the register shows the sum between two calls.   *)
Latched ==
  test > 0 /\ bit = 0 =>
    \A i \in 1..Bits : latch[i] <=> HasBit(currentSum, 2 ^ (i - 1))

FromTheSum ==
  /\ bit = 0 => currentSum = dataSum
  /\ test = 0 => bit = 0 /\ dataSum = 0

HandlerInv == HandlerTypeOK /\ SumIsAsked /\ ShiftedSoFar /\ Latched /\ FromTheSum

LEMMA NoBits == ASSUME NEW w \in Nat, w >= 1 PROVE ~HasBit(0, w)
<1>1. 0 \div w = 0 BY Quotient
<1> QED BY <1>1 DEF HasBit

LEMMA LedWeight ==
  ASSUME NEW led \in Leds
  PROVE  LEDS[led] \in Nat /\ LEDS[led] >= 1
<1>1. PICK p \in 0..(Bits - 1) : LEDS[led] = 2 ^ p BY LedTable
<1>2. p \in Nat BY LedTable
<1> QED BY <1>1, <1>2, PowerIsPositive

LEMMA HandlerInitEstablishesInv == HandlerInit => HandlerInv
<1> SUFFICES ASSUME HandlerInit PROVE HandlerInv
  OBVIOUS
<1>1. 2 ^ Bits \in Nat /\ 2 ^ Bits >= 1 BY LedTable, PowerIsPositive
<1>2. Dark \in [1..Bits -> BOOLEAN] BY Zenon DEF Dark
<1>3. 0 \in 0..(2 ^ Bits - 1) /\ 0 \in 0..Bits /\ 0 \in 0..(2 * Bits)
  BY <1>1, LedTable
<1>4. HandlerTypeOK BY <1>2, <1>3, Zenon DEF HandlerInit, HandlerTypeOK
<1>5. SumIsAsked BY NoBits, LedWeight DEF HandlerInit, SumIsAsked
<1>6. ShiftedSoFar /\ Latched /\ FromTheSum
  BY DEF HandlerInit, ShiftedSoFar, Latched, FromTheSum
<1> QED BY <1>4, <1>5, <1>6 DEF HandlerInv

LEMMA RestartKeepsInv == ASSUME HandlerInv, HandlerRestart PROVE HandlerInv'
<1>1. 2 ^ Bits \in Nat /\ 2 ^ Bits >= 1 BY LedTable, PowerIsPositive
<1>2. 0 \in 0..(2 ^ Bits - 1) /\ 0 \in 0..Bits /\ 0 \in 0..(2 * Bits)
  BY <1>1, LedTable
<1>3. HandlerTypeOK'
  BY <1>2, Zenon DEF HandlerRestart, HandlerInv, HandlerTypeOK
<1>4. SumIsAsked' BY NoBits, LedWeight DEF HandlerRestart, SumIsAsked
<1>5. ShiftedSoFar' /\ Latched' /\ FromTheSum'
  BY DEF HandlerRestart, ShiftedSoFar, Latched, FromTheSum
<1> QED BY <1>3, <1>4, <1>5 DEF HandlerInv

(* The sum with one led switched has this led's bit changed and no other.  *)
LEMMA SumOfOne ==
  ASSUME NEW led \in Leds, NEW on \in BOOLEAN, dataSum \in 0..(2 ^ Bits - 1)
  PROVE  /\ SwitchedSum(led, on) \in 0..(2 ^ Bits - 1)
         /\ HasBit(SwitchedSum(led, on), LEDS[led]) <=> on
         /\ \A other \in Leds \ {led} :
              HasBit(SwitchedSum(led, on), LEDS[other]) <=> HasBit(dataSum, LEDS[other])
<1>1. PICK place \in [Leds -> 0..(Bits - 1)] :
        /\ \A i, j \in Leds : i # j => place[i] # place[j]
        /\ \A i \in Leds : LEDS[i] = 2 ^ place[i]
  BY LedTable
<1>2. /\ Bits \in Nat /\ place[led] \in Nat /\ place[led] < Bits
      /\ \A other \in Leds : place[other] \in Nat
  BY <1>1, LedTable
<1>3. /\ 2 ^ Bits \in Nat /\ LEDS[led] = 2 ^ place[led] /\ 2 ^ place[led] \in Nat
      /\ dataSum \in Nat /\ dataSum < 2 ^ Bits
  BY <1>1, <1>2, PowerIsPositive
<1>4. CASE on <=> HasBit(dataSum, LEDS[led])
  <2>1. SwitchedSum(led, on) = dataSum BY <1>4 DEF SwitchedSum, HasBit
  <2> QED BY <1>4, <2>1
<1>5. CASE on /\ ~HasBit(dataSum, LEDS[led])
  <2>1. SwitchedSum(led, on) = dataSum + 2 ^ place[led] BY <1>3, <1>5 DEF SwitchedSum
  <2>2. ~HasBit(dataSum, 2 ^ place[led]) BY <1>3, <1>5
  <2>3. HasBit(dataSum + 2 ^ place[led], 2 ^ place[led])
    BY <1>2, <1>3, <2>2, AddBit, Zenon
  <2>4. dataSum + 2 ^ place[led] < 2 ^ Bits
    BY <1>2, <1>3, <2>2, AddBit, Zenon
  <2>5. \A q \in Nat : q # place[led] =>
          (HasBit(dataSum + 2 ^ place[led], 2 ^ q) <=> HasBit(dataSum, 2 ^ q))
    BY <1>2, <1>3, <2>2, AddBit, Zenon
  <2>6. \A other \in Leds \ {led} :
          HasBit(SwitchedSum(led, on), LEDS[other]) <=> HasBit(dataSum, LEDS[other])
    BY <1>1, <1>2, <2>1, <2>5, Zenon
  <2>7. SwitchedSum(led, on) \in 0..(2 ^ Bits - 1) BY <1>3, <2>1, <2>4
  <2> QED BY <1>3, <1>5, <2>1, <2>3, <2>6, <2>7, Zenon
<1>6. CASE ~on /\ HasBit(dataSum, LEDS[led])
  <2>1. SwitchedSum(led, on) = dataSum - 2 ^ place[led] BY <1>3, <1>6 DEF SwitchedSum
  <2>2. HasBit(dataSum, 2 ^ place[led]) BY <1>3, <1>6
  <2>3. ~HasBit(dataSum - 2 ^ place[led], 2 ^ place[led])
    BY <1>2, <1>3, <2>2, SubtractBit, Zenon
  <2>4. dataSum - 2 ^ place[led] \in Nat
    BY <1>2, <1>3, <2>2, SubtractBit, Zenon
  <2>5. \A q \in Nat : q # place[led] =>
          (HasBit(dataSum - 2 ^ place[led], 2 ^ q) <=> HasBit(dataSum, 2 ^ q))
    BY <1>2, <1>3, <2>2, SubtractBit, Zenon
  <2>6. \A other \in Leds \ {led} :
          HasBit(SwitchedSum(led, on), LEDS[other]) <=> HasBit(dataSum, LEDS[other])
    BY <1>1, <1>2, <2>1, <2>5, Zenon
  <2>7. SwitchedSum(led, on) \in 0..(2 ^ Bits - 1) BY <1>3, <2>1, <2>4
  <2> QED BY <1>3, <1>6, <2>1, <2>3, <2>6, <2>7, Zenon
<1> QED BY <1>4, <1>5, <1>6

LEMMA SetLedKeepsInv ==
  ASSUME HandlerInv, NEW led \in Leds, NEW on \in BOOLEAN, SetLed(led, on),
         test' \in 1..(2 * Bits), test = 0 => on
  PROVE  HandlerInv'
<1>1. /\ bit = 0 /\ currentSum = dataSum /\ dataSum \in 0..(2 ^ Bits - 1)
      /\ currentSum' = SwitchedSum(led, on) /\ UNCHANGED <<dataSum, shift, latch>>
  BY DEF SetLed, HandlerInv, FromTheSum, HandlerTypeOK
<1>2. /\ currentSum' \in 0..(2 ^ Bits - 1)
      /\ HasBit(currentSum', LEDS[led]) <=> on
      /\ \A other \in Leds \ {led} :
           HasBit(currentSum', LEDS[other]) <=> HasBit(dataSum, LEDS[other])
  BY <1>1, SumOfOne
<1>3. asked' = IF on THEN asked \cup {led} ELSE asked \ {led} BY DEF SetLed
<1>4. SumIsAsked'
  <2> SUFFICES ASSUME NEW other \in Leds
               PROVE  HasBit(currentSum', LEDS[other]) <=> other \in asked'
    BY DEF SumIsAsked
  <2>1. HasBit(dataSum, LEDS[other]) <=> other \in asked
    BY <1>1 DEF HandlerInv, SumIsAsked
  <2> QED BY <1>2, <1>3, <2>1
<1>5. Bits \in Nat /\ Bits > 0 BY LedTable
<1>6. (bit' = 0 /\ currentSum' = dataSum) \/ (bit' = Bits /\ currentSum' # dataSum)
  BY DEF SetLed
<1>7. HandlerTypeOK'
  <2>1. bit' \in 0..Bits /\ test' \in 0..(2 * Bits) BY <1>5, <1>6
  <2>2. asked' \subseteq Leds BY <1>3 DEF HandlerInv, HandlerTypeOK
  <2>3. /\ shift' \in [1..Bits -> BOOLEAN] /\ latch' \in [1..Bits -> BOOLEAN]
        /\ dataSum' \in 0..(2 ^ Bits - 1)
    BY <1>1, Zenon DEF HandlerInv, HandlerTypeOK
  <2> QED BY <1>2, <2>1, <2>2, <2>3, Zenon DEF HandlerTypeOK
<1>8. FromTheSum' BY <1>1, <1>6, <1>5 DEF FromTheSum
<1>9. ShiftedSoFar'
  <2> SUFFICES ASSUME bit' > 0, NEW j \in 1..Bits, j <= Bits - bit' PROVE FALSE
    BY DEF ShiftedSoFar
  <2> QED BY <1>5, <1>6
<1>10. Latched'
  <2> SUFFICES ASSUME bit' = 0, NEW i \in 1..Bits
               PROVE  latch'[i] <=> HasBit(currentSum', 2 ^ (i - 1))
    BY DEF Latched
  <2>1. currentSum' = dataSum BY <1>5, <1>6
  <2>2. test # 0
    <3> SUFFICES ASSUME test = 0 PROVE FALSE
      OBVIOUS
    <3>1. on /\ dataSum = 0 BY DEF HandlerInv, FromTheSum
    <3>2. ~HasBit(0, LEDS[led]) BY LedWeight, NoBits
    <3> QED BY <1>2, <2>1, <3>1, <3>2
  <2>3. test > 0 BY <2>2, LedTable DEF HandlerInv, HandlerTypeOK
  <2>4. latch[i] <=> HasBit(currentSum, 2 ^ (i - 1))
    BY <1>1, <2>3 DEF HandlerInv, Latched
  <2> QED BY <1>1, <2>1, <2>4
<1> QED BY <1>4, <1>7, <1>8, <1>9, <1>10 DEF HandlerInv

LEMMA ShiftOutKeepsInv == ASSUME HandlerInv, ShiftOut PROVE HandlerInv'
<1>1. /\ bit \in Nat /\ bit > 0 /\ bit <= Bits /\ Bits \in Nat /\ bit' = bit - 1
      /\ UNCHANGED <<currentSum, test, asked>>
  BY LedTable DEF ShiftOut, HandlerInv, HandlerTypeOK
<1>2. /\ shift' \in [1..Bits -> BOOLEAN]
      /\ shift'[1] = BitOut
      /\ \A j \in 2..Bits : shift'[j] = shift[j - 1]
  <2>1. shift \in [1..Bits -> BOOLEAN] BY DEF HandlerInv, HandlerTypeOK
  <2>2. shift \in Seq(BOOLEAN) /\ Len(shift) = Bits BY <1>1, <2>1
  <2> DEFINE b == BitOut
             rest == SubSeq(shift, 1, Bits - 1)
  <2>3. b \in BOOLEAN BY DEF BitOut, HasBit
  <2>4. /\ rest \in Seq(BOOLEAN) /\ Len(rest) = Bits - 1
        /\ \A j \in 1..(Bits - 1) : rest[j] = shift[j]
    BY <1>1, <2>2
  <2>5. shift' = <<b>> \o rest BY DEF ShiftOut
  <2> HIDE DEF b, rest
  <2>6. /\ shift' \in Seq(BOOLEAN) /\ Len(shift') = Bits /\ shift'[1] = b
        /\ \A j \in 2..Bits : shift'[j] = rest[j - 1]
    BY <1>1, <2>3, <2>4, <2>5
  <2>7. \A j \in 2..Bits : shift'[j] = shift[j - 1] BY <1>1, <2>4, <2>6
  <2>8. shift' \in [1..Bits -> BOOLEAN] BY <2>6
  <2> QED BY <2>6, <2>7, <2>8 DEF b
<1>3. ASSUME NEW j \in 1..Bits, j <= Bits - bit'
      PROVE  shift'[j] <=> HasBit(currentSum, 2 ^ (bit' + j - 1))
  <2>1. CASE j = 1
    <3>1. bit' + j - 1 = bit - 1 BY <1>1, <2>1
    <3> QED BY <1>2, <2>1, <3>1, Zenon DEF BitOut
  <2>2. CASE j # 1
    <3>1. /\ j \in 2..Bits /\ j - 1 \in 1..Bits /\ j - 1 <= Bits - bit
          /\ bit + (j - 1) - 1 = bit' + j - 1
      BY <1>1, <1>3, <2>2
    <3>2. shift[j - 1] <=> HasBit(currentSum, 2 ^ (bit + (j - 1) - 1))
      BY <1>1, <3>1 DEF HandlerInv, ShiftedSoFar
    <3>3. shift'[j] = shift[j - 1] BY <1>2, <3>1
    <3> QED BY <3>1, <3>2, <3>3, Zenon
  <2> QED BY <2>1, <2>2
<1>4. \/ bit = 1 /\ latch' = shift' /\ dataSum' = currentSum
      \/ bit # 1 /\ UNCHANGED <<latch, dataSum>>
  BY DEF ShiftOut
<1>5. HandlerTypeOK'
  <2>1. bit' \in 0..Bits BY <1>1
  <2>2. dataSum' \in 0..(2 ^ Bits - 1) /\ latch' \in [1..Bits -> BOOLEAN]
    BY <1>2, <1>4, Zenon DEF HandlerInv, HandlerTypeOK
  <2> QED BY <1>1, <1>2, <2>1, <2>2, Zenon DEF HandlerInv, HandlerTypeOK
<1>6. SumIsAsked' BY <1>1 DEF HandlerInv, SumIsAsked
<1>7. ShiftedSoFar' BY <1>1, <1>3 DEF ShiftedSoFar
<1>8. Latched'
  <2> SUFFICES ASSUME bit' = 0, NEW i \in 1..Bits
               PROVE  latch'[i] <=> HasBit(currentSum', 2 ^ (i - 1))
    BY DEF Latched
  <2>1. latch' = shift' /\ i <= Bits - bit' /\ bit' + i - 1 = i - 1 BY <1>1, <1>4
  <2>2. shift'[i] <=> HasBit(currentSum, 2 ^ (i - 1)) BY <1>3, <2>1
  <2> QED BY <1>1, <2>1, <2>2
<1>9. FromTheSum'
  <2>1. test # 0 BY <1>1 DEF HandlerInv, FromTheSum
  <2> QED BY <1>1, <1>4, <2>1 DEF FromTheSum
<1> QED BY <1>5, <1>6, <1>7, <1>8, <1>9 DEF HandlerInv

LEMMA HandlerNextKeepsInv == HandlerInv /\ [HandlerNext]_handlerVars => HandlerInv'
<1> SUFFICES ASSUME HandlerInv, [HandlerNext]_handlerVars PROVE HandlerInv'
  OBVIOUS
<1>1. Bits \in Nat /\ test \in 0..(2 * Bits) /\ Leds = 1..Bits
  BY LedTable DEF HandlerInv, HandlerTypeOK
<1>2. CASE AutoTest
  <2>1. test < 2 * Bits /\ Bits > 0 BY <1>1, <1>2 DEF AutoTest, TestDone
  <2>2. (test % Bits) + 1 \in Leds BY <1>1, <2>1
  <2>3. test' \in 1..(2 * Bits) /\ (test = 0 => test < Bits)
    BY <1>1, <1>2, <2>1 DEF AutoTest
  <2>4. SetLed((test % Bits) + 1, test < Bits) BY <1>2 DEF AutoTest
  <2>5. (test < Bits) \in BOOLEAN OBVIOUS
  <2> QED BY <2>2, <2>3, <2>4, <2>5, SetLedKeepsInv
<1>3. CASE SetLedCalled
  <2>1. PICK led \in Leds, on \in BOOLEAN : SetLed(led, on)
    BY <1>3 DEF SetLedCalled
  <2>2. test' = test /\ test = 2 * Bits /\ Bits > 0
    BY <1>1, <1>3, <2>1 DEF SetLedCalled, TestDone
  <2>3. test' \in 1..(2 * Bits) /\ test # 0 BY <1>1, <2>2
  <2> QED BY <2>1, <2>3, SetLedKeepsInv
<1>4. CASE ShiftOut BY <1>4, ShiftOutKeepsInv
<1>5. CASE HandlerRestart BY <1>5, RestartKeepsInv
<1>6. CASE UNCHANGED handlerVars
  BY <1>6, Zenon
  DEF handlerVars, HandlerInv, HandlerTypeOK, SumIsAsked, ShiftedSoFar, Latched, FromTheSum
<1> QED BY <1>2, <1>3, <1>4, <1>5, <1>6 DEF HandlerNext

LEMMA InvShows == HandlerInv => ShowsWhatWasAsked
<1> SUFFICES ASSUME HandlerInv, TestDone, bit = 0, NEW led \in Leds
             PROVE  led \in asked <=>
                      \E i \in 1..Bits : latch[i] /\ LEDS[led] = 2 ^ (i - 1)
  BY DEF ShowsWhatWasAsked
<1>1. Bits \in Nat /\ Bits > 0 /\ test > 0 BY LedTable DEF TestDone
<1>2. \A i \in 1..Bits : latch[i] <=> HasBit(currentSum, 2 ^ (i - 1))
  BY <1>1 DEF HandlerInv, Latched
<1>3. HasBit(currentSum, LEDS[led]) <=> led \in asked
  BY DEF HandlerInv, SumIsAsked
<1>4. PICK p \in 0..(Bits - 1) : LEDS[led] = 2 ^ p BY LedTable
<1>5. p + 1 \in 1..Bits /\ (p + 1) - 1 = p BY <1>1
<1>6. LEDS[led] = 2 ^ ((p + 1) - 1) BY <1>4, <1>5
<1> QED BY <1>2, <1>3, <1>5, <1>6, Zenon

(* The register shows the leds asked for and no others whenever no bits    *)
(* are being shifted after the test, through restarts between any two      *)
(* bits, for any number of leds whose weights are different powers of two  *)
(* (LedHandler.cpp:45, 73-90, 159-178).                                    *)
THEOREM LedsShowWhatWasAsked == HandlerSpec => []ShowsWhatWasAsked
BY HandlerInitEstablishesInv, HandlerNextKeepsInv, InvShows, PTL DEF HandlerSpec
=============================================================================
