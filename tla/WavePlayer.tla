----------------------------- MODULE WavePlayer -----------------------------
(***************************************************************************)
(* The player of wave files: PlayFile() walks through a file with a header *)
(* state that is a variable of the program, not of the call.  A file is    *)
(* the first so many words of a wave file with the usual header, all of it *)
(* unless the file was cut off, and a word is known by its position.       *)
(***************************************************************************)
EXTENDS Integers, Sequences, SequencesExt

CONSTANTS
  RiffWords,   \* words of wavRiff_t, 3
  FmtWords,    \* words of wavProperties_t, 6
  Samples      \* words of sound in a whole file

ASSUME WavAssumption ==
  {RiffWords, FmtWords, Samples} \subseteq Nat \ {0}

VARIABLES
  headerState, \* _headerState, which outlives the call
  words,       \* words of the file being played
  pos,         \* words of it read so far
  playing,     \* PlayFile() has not returned
  opened,      \* the header state in which the file was opened
  played       \* what was written to the I2S port for this file

wavVars == <<headerState, words, pos, playing, opened, played>>

HeaderWords == RiffWords + FmtWords + 2
WholeFile   == HeaderWords + Samples
Sound       == [i \in 1..Samples |-> HeaderWords + i]
HeaderStates == {"HEADER_RIFF", "HEADER_FMT", "HEADER_DATA", "DATA"}

WavInit ==
  /\ headerState = "HEADER_RIFF"
  /\ words = 0 /\ pos = 0 /\ playing = FALSE
  /\ opened = "HEADER_RIFF" /\ played = <<>>

(* A missing file is reported and nothing else happens.                    *)
Open(length) ==
  /\ ~playing
  /\ playing' = TRUE
  /\ words' = length /\ pos' = 0
  /\ opened' = headerState /\ played' = <<>>
  /\ UNCHANGED headerState

Available == words - pos

(* What File.read() gets of n words.                                       *)
Got(n) == IF Available < n THEN Available ELSE n

Case(state) == playing /\ Available > 0 /\ headerState = state

(* The next n words are a RIFF chunk of the WAVE format.                   *)
IsRiff == pos = 0

Advance(n) == pos' = pos + Got(n)

ReadRiff ==
  /\ Case("HEADER_RIFF")
  /\ Advance(RiffWords)
  /\ headerState' = IF Got(RiffWords) = RiffWords /\ IsRiff THEN "HEADER_FMT" ELSE headerState
  /\ UNCHANGED <<words, playing, opened, played>>

ReadFmt ==
  /\ Case("HEADER_FMT")
  /\ Advance(FmtWords)
  /\ headerState' = IF Got(FmtWords) = FmtWords THEN "HEADER_DATA" ELSE headerState
  /\ UNCHANGED <<words, playing, opened, played>>

(* The chunk's name is read and printed, not tested; then its size.        *)
ReadChunk ==
  /\ Case("HEADER_DATA")
  /\ Advance(2)
  /\ headerState' = IF Got(2) = 2 THEN "DATA" ELSE headerState
  /\ UNCHANGED <<words, playing, opened, played>>

FaultyPlaySample ==
  /\ Case("DATA")
  /\ Advance(2)
  /\ played' = Append(played, pos + 1)
  /\ UNCHANGED <<headerState, words, playing, opened>>

PlaySample ==
  /\ Case("DATA")
  /\ Advance(1)
  /\ played' = Append(played, pos + 1)
  /\ UNCHANGED <<headerState, words, playing, opened>>

Close ==
  /\ playing /\ Available = 0
  /\ playing' = FALSE
  /\ UNCHANGED <<headerState, words, pos, opened, played>>

PlayFile == ReadRiff \/ ReadFmt \/ ReadChunk \/ PlaySample \/ Close

WavNext == (\E length \in 0..WholeFile : Open(length)) \/ PlayFile

WavFairness == WF_wavVars(PlayFile)

WavSpec == WavInit /\ [][WavNext]_wavVars /\ WavFairness

-----------------------------------------------------------------------------
WavTypeOK ==
  /\ headerState \in HeaderStates /\ opened \in HeaderStates
  /\ words \in 0..WholeFile /\ pos \in 0..words
  /\ playing \in BOOLEAN
  /\ played \in Seq(1..WholeFile)

(* Whatever header state a file finds, and wherever it and those before it *)
(* were cut off, all of its sound is played in the end, in order and with  *)
(* nothing after it; and of a file opened in the initial state nothing     *)
(* else (WavePlayer.cpp:4, 117-181).  What comes before it in the other    *)
(* files is the rest of a header, see HeaderIsNotPlayed.                   *)
SoundIsHeard ==
  ~playing =>
    LET sound == SubSeq(Sound, 1, words - HeaderWords)
    IN  /\ IsSuffix(sound, played)
        /\ opened = "HEADER_RIFF" => played = sound

(* "after processing wav file, it is time to process music data"           *)
(* (WavePlayer.cpp:165): what is played is never a file's header.  It is,  *)
(* for every file but the first.                                           *)
HeaderIsNotPlayed == \A i \in DOMAIN played : played[i] > HeaderWords
=============================================================================
