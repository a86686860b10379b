--------------------------- MODULE HttpsDownload ---------------------------
(***************************************************************************)
(* download() of the sketch that fetches a file to the SD card: the loop   *)
(* runs while the connection lives and bytes are missing, without a        *)
(* time-out.                                                               *)
(***************************************************************************)
EXTENDS Integers

CONSTANTS
  Lengths,   \* values of Content-Length; -1 is what getSize() says without one
  BuffSize   \* sizeof(buff), 1024

ASSUME DownloadAssumption ==
  Lengths \subseteq Nat \cup {-1} /\ BuffSize \in Nat \ {0}

VARIABLES
  fetch,      \* download() is at "get", in its "loop", "paused", or "done"
  len,        \* bytes still expected
  downloaded, \* bytes read
  total,      \* what downloaded is compared with
  ret,        \* what download() returned
  onCard,     \* bytes of the file on the card
  cardFull,   \* the card takes no more
  coming,     \* bytes the server has not sent yet
  available,  \* bytes that came and were not read
  open,       \* the server keeps the connection
  silent      \* the server says nothing any more and keeps the connection

callVars   == <<fetch, len, downloaded, total, ret>>
cardVars   == <<onCard, cardFull>>
serverVars   == <<coming, available, open, silent>>
fetchVars  == <<callVars, cardVars, serverVars>>

DownloadInit ==
  /\ fetch = "get" /\ len = 0 /\ downloaded = 0 /\ total = 1 /\ ret = 0
  /\ onCard = 0 /\ cardFull = FALSE
  /\ coming = 0 /\ available = 0 /\ open = FALSE /\ silent = FALSE

Finish(count, of) ==
  /\ fetch' = "done"
  /\ ret' = IF count = of THEN 0 ELSE -1

(* The GET fails, or is answered with a length: the old file is removed    *)
(* and the new one opened.                                                 *)
GetFails ==
  /\ fetch = "get"
  /\ Finish(0, 1)
  /\ UNCHANGED <<len, downloaded, total, cardVars, serverVars>>

(* Whether the new file opened is not looked at: a file that did not takes *)
(* no bytes, which is the card full from here on.                          *)
GetOk(length) ==
  /\ fetch = "get"
  /\ fetch' = "loop" /\ len' = length /\ total' = length /\ downloaded' = 0
  /\ onCard' = 0
  /\ coming' = (IF length > 0 THEN length ELSE 0) /\ open' = TRUE
  /\ UNCHANGED <<ret, cardFull, available, silent>>

Connected == open \/ available > 0

Missing == len > 0

FaultyRest(c) == len

Rest(c) == len - c

(* One turn of the loop; the result of the write is not looked at.         *)
ReadSome ==
  /\ fetch = "loop" /\ Connected /\ Missing /\ available > 0
  /\ LET c == IF available > BuffSize THEN BuffSize ELSE available
     IN  /\ len' = Rest(c) /\ downloaded' = downloaded + c
         /\ available' = available - c
         /\ onCard' = IF cardFull THEN onCard ELSE onCard + c
  /\ fetch' = "paused"
  /\ UNCHANGED <<total, ret, cardFull, coming, open, silent>>

NothingToRead ==
  /\ fetch = "loop" /\ Connected /\ Missing /\ available = 0
  /\ fetch' = "paused"
  /\ UNCHANGED <<len, downloaded, total, ret, cardVars, serverVars>>

Pause ==
  /\ fetch = "paused"
  /\ fetch' = "loop"
  /\ UNCHANGED <<len, downloaded, total, ret, cardVars, serverVars>>

LoopEnds ==
  /\ fetch = "loop" /\ ~(Connected /\ Missing)
  /\ Finish(downloaded, total)
  /\ UNCHANGED <<len, downloaded, total, cardVars, serverVars>>

-----------------------------------------------------------------------------
Underway == fetch \in {"loop", "paused"}

ServerSends(n) ==
  /\ Underway /\ open /\ ~silent /\ n <= coming
  /\ coming' = coming - n /\ available' = available + n
  /\ UNCHANGED <<callVars, cardVars, open, silent>>

(* A server that has sent all may keep the connection; one that breaks off *)
(* closes it or goes silent.                                               *)
ServerCloses ==
  /\ Underway /\ open
  /\ open' = FALSE
  /\ UNCHANGED <<callVars, cardVars, coming, available, silent>>

ServerGoesSilent ==
  /\ Underway /\ open /\ ~silent /\ coming > 0
  /\ silent' = TRUE
  /\ UNCHANGED <<callVars, cardVars, coming, available, open>>

CardFills ==
  /\ Underway /\ ~cardFull
  /\ cardFull' = TRUE
  /\ UNCHANGED <<callVars, onCard, serverVars>>

Download == GetFails \/ ReadSome \/ NothingToRead \/ Pause \/ LoopEnds

Sends == \E n \in 1..coming : ServerSends(n)

DownloadNext ==
  \/ \E length \in Lengths : GetOk(length)
  \/ Download
  \/ Sends \/ ServerCloses \/ ServerGoesSilent \/ CardFills

DownloadFairness == WF_fetchVars(Download) /\ WF_fetchVars(Sends)

DownloadSpec == DownloadInit /\ [][DownloadNext]_fetchVars /\ DownloadFairness

-----------------------------------------------------------------------------
DownloadTypeOK ==
  /\ fetch \in {"get", "loop", "paused", "done"}
  /\ total \in Lengths \cup {1} /\ len \in -1..total
  /\ downloaded \in Nat /\ onCard \in 0..downloaded
  /\ ret \in {0, -1}
  /\ coming \in Nat /\ available \in Nat
  /\ cardFull \in BOOLEAN /\ open \in BOOLEAN /\ silent \in BOOLEAN
  /\ Underway => (IF total > 0 THEN total ELSE 0) = downloaded + available + coming

(* A download that is told a success has all of the file on the card,      *)
(* unless the card filled up, which is not looked at; and it is a success  *)
(* if all of the file came in, even if the server closes before the last   *)
(* bytes are read (main.cpp:100, 111, 137).                                *)
SuccessIsComplete ==
  fetch = "done" =>
    /\ ret = 0 /\ ~cardFull => onCard = total
    /\ total > 1 /\ coming = 0 => ret = 0

(* download() returns, also from a server that keeps the connection after  *)
(* the last byte, but not from one that stops in the middle and keeps it:  *)
(* there is no time-out; and what it returns is true (main.cpp:100, 121).  *)
DownloadTells == []SuccessIsComplete /\ (Underway ~> fetch = "done" \/ silent)
=============================================================================
