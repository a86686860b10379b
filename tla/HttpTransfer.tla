---------------------------- MODULE HttpTransfer ----------------------------
(***************************************************************************)
(* downloadFile() and httpGet() of TinyGSM_AllFunctions after they have    *)
(* sent the request: wait for the answer, read the header line by line,    *)
(* read the content byte by byte until the length, the time-out or the end *)
(* of the connection.  The two differ in the length assumed when no header *)
(* gives one and in where the content goes; one transfer here fills both   *)
(* the file of the first and the string of the second.                     *)
(***************************************************************************)
EXTENDS Naturals, Sequences

CONSTANTS
  Responses,      \* what a server may send: header lines, a blank, the bytes
  Defaults,       \* the lengths assumed: fileSize for a download, 0 for a GET
  StoreLimit,     \* 10240 in the code: what the result string may hold
  ProgressParts   \* 13 in the code: progress is logged that many times

(* A line that readStringUntil() gives up waiting for is two lines here.   *)
Unit == [kind : {"length", "field", "blank", "byte"}, value : Nat]

Blanks(r) == {i \in DOMAIN r : r[i].kind = "blank"}

ASSUME ResponsesAssumption ==
  /\ Responses \subseteq Seq(Unit)
  /\ \A r \in Responses : \A i \in DOMAIN r :
       r[i].kind = "byte" <=> \E b \in Blanks(r) : b < i
  /\ Defaults \subseteq Nat
  /\ StoreLimit \in Nat
  /\ ProgressParts \in Nat \ {0}

VARIABLES
  pc,             \* where the function is; "returned" and "reset" end it
  result,         \* the esp_err_t returned
  wire,           \* what the server has still to send
  rx,             \* what the modem holds for client.read()
  socket,         \* whether the socket is open
  late,           \* millis() - startTime has reached the timeout
  contentLength,
  readLength,
  file,           \* what file.print() has written
  incoming,       \* the string httpGet() returns
  card,           \* whether SD.open() gives a file, and the file takes bytes
  (* History, read by the properties alone.                                *)
  response,       \* the whole answer of the server
  headerRead,     \* the header loop ended at the blank line
  cut             \* the connection broke before the server had sent it all

code    == <<pc, result, contentLength, readLength, file, incoming>>
outside == <<wire, rx, socket, cut>>
vars    == <<code, outside, late, card, response, headerRead>>

Init ==
  /\ pc = "wait"
  /\ result = "none"
  /\ response \in Responses
  /\ wire = response
  /\ rx = <<>>
  /\ socket = TRUE
  /\ late = FALSE
  /\ contentLength \in Defaults
  /\ readLength = 0
  /\ file = <<>>
  /\ incoming = <<>>
  /\ card \in BOOLEAN
  /\ headerRead = FALSE
  /\ cut = FALSE

Available == rx # <<>>

(* TinyGsmClient::connected() is true while there is something to read.    *)
Connected == socket \/ Available

Return(value) == pc' = "returned" /\ result' = value

-----------------------------------------------------------------------------
(* Poll available() until something is there or the time is up.            *)
WaitAnswered ==
  /\ pc = "wait" /\ Available
  /\ pc' = "header"
  /\ UNCHANGED <<result, contentLength, readLength, file, incoming, outside,
                 late, card, response, headerRead>>

WaitTimedOut ==
  /\ pc = "wait" /\ ~Available /\ late
  /\ Return("fail")
  /\ UNCHANGED <<contentLength, readLength, file, incoming, outside, late,
                 card, response, headerRead>>

(* One header line, up to the blank one; the clock starts again there.     *)
HeaderLine ==
  /\ pc = "header" /\ Available
  /\ rx' = Tail(rx)
  /\ contentLength' = IF Head(rx).kind = "length" THEN Head(rx).value
                                                  ELSE contentLength
  /\ headerRead' = (Head(rx).kind = "blank")
  /\ IF headerRead' THEN pc' = "body" /\ late' = FALSE
                    ELSE UNCHANGED <<pc, late>>
  /\ UNCHANGED <<result, readLength, file, incoming, wire, socket, cut, card,
                 response>>

(* Nothing to read just now ends the header too.                           *)
HeaderRunsDry ==
  /\ pc = "header" /\ ~Available
  /\ pc' = "body"
  /\ late' = FALSE
  /\ UNCHANGED <<result, contentLength, readLength, file, incoming, outside,
                 card, response, headerRead>>

(* Only the socket is looked at: what the modem still holds is dropped.    *)
FaultyWantsMore == readLength < contentLength /\ socket /\ ~late

(* No time-out while the content is read.                                  *)
FaultyWantsMoreForever == readLength < contentLength /\ Connected

WantsMore == readLength < contentLength /\ Connected /\ ~late

BodyContinue ==
  /\ pc = "body" /\ WantsMore
  /\ pc' = "drain"
  /\ UNCHANGED <<result, contentLength, readLength, file, incoming, outside,
                 late, card, response, headerRead>>

(* ESP_OK, whatever has been read.                                         *)
BodyEnd ==
  /\ pc = "body" /\ ~WantsMore
  /\ Return("ok")
  /\ UNCHANGED <<contentLength, readLength, file, incoming, outside, late,
                 card, response, headerRead>>

(* The string may grow by one byte more.                                   *)
FaultyStore(byte) ==
  incoming' = IF readLength <= StoreLimit THEN Append(incoming, byte) ELSE incoming

Store(byte) ==
  incoming' = IF readLength < StoreLimit THEN Append(incoming, byte) ELSE incoming

(* The inner loop reads while there is something, past the length as well. *)
(* The progress test divides by contentLength / 13: for a short content    *)
(* that is a division by zero, which resets the chip.                      *)
DrainByte ==
  /\ pc = "drain" /\ Available
  /\ rx' = Tail(rx)
  /\ Store(Head(rx))
  /\ file' = IF card THEN Append(file, Head(rx)) ELSE file
  /\ readLength' = readLength + 1
  /\ IF contentLength \div ProgressParts = 0
       THEN pc' = "reset" /\ UNCHANGED late
       ELSE late' = FALSE /\ UNCHANGED pc
  /\ UNCHANGED <<result, contentLength, wire, socket, cut, card, response,
                 headerRead>>

DrainEmpty ==
  /\ pc = "drain" /\ ~Available
  /\ pc' = "body"
  /\ UNCHANGED <<result, contentLength, readLength, file, incoming, outside,
                 late, card, response, headerRead>>

-----------------------------------------------------------------------------
(* The network delivers, the server closes once it has sent everything     *)
(* ("Connection: close"), the connection breaks, time passes.              *)
Arrive ==
  /\ socket /\ wire # <<>>
  /\ rx' = Append(rx, Head(wire))
  /\ wire' = Tail(wire)
  /\ UNCHANGED <<code, socket, cut, late, card, response, headerRead>>

ServerCloses ==
  /\ socket /\ wire = <<>>
  /\ socket' = FALSE
  /\ UNCHANGED <<code, wire, rx, cut, late, card, response, headerRead>>

ConnectionBreaks ==
  /\ socket /\ wire # <<>>
  /\ socket' = FALSE
  /\ cut' = TRUE
  /\ UNCHANGED <<code, wire, rx, late, card, response, headerRead>>

(* The card is full or fails.  A file that failed once stays failed: the   *)
(* file system keeps the error.  No one looks at what file.print() returns.*)
CardFails ==
  /\ card
  /\ card' = FALSE
  /\ UNCHANGED <<code, outside, late, response, headerRead>>

TimePasses ==
  /\ ~late
  /\ late' = TRUE
  /\ UNCHANGED <<code, outside, card, response, headerRead>>

Ended == pc \in {"returned", "reset"}

Step ==
  \/ WaitAnswered \/ WaitTimedOut
  \/ HeaderLine \/ HeaderRunsDry
  \/ BodyContinue \/ BodyEnd
  \/ DrainByte \/ DrainEmpty

Environment ==
  ~Ended /\ (Arrive \/ ServerCloses \/ ConnectionBreaks \/ CardFails \/ TimePasses)

Next == Step \/ Environment

Spec == Init /\ [][Next]_vars

(* The task runs and the clock runs; the network owes nothing.             *)
FairSpec == Spec /\ WF_vars(Step) /\ WF_vars(~Ended /\ TimePasses)

-----------------------------------------------------------------------------
(* The content: what follows the blank line, of which there is one at most.*)
HeaderLength == IF Blanks(response) = {} THEN Len(response)
                ELSE CHOOSE b \in Blanks(response) : TRUE

Body == SubSeq(response, HeaderLength + 1, Len(response))

(* Every variable keeps its type, and the returned string its limit.       *)
TypeOK ==
  /\ pc \in {"wait", "header", "body", "drain", "returned", "reset"}
  /\ result \in {"none", "ok", "fail"}
  /\ response \in Responses
  /\ wire \in Seq(Unit) /\ rx \in Seq(Unit)
  /\ file \in Seq(Unit)
  /\ incoming \in Seq(Unit) /\ Len(incoming) <= StoreLimit
  /\ contentLength \in Nat /\ readLength \in Nat
  /\ socket \in BOOLEAN /\ late \in BOOLEAN /\ card \in BOOLEAN
  /\ headerRead \in BOOLEAN /\ cut \in BOOLEAN

(* However a transfer is cut off, times out or ends, what it leaves is the *)
(* beginning of the content, in order: in the file as far as it was read,  *)
(* or as the card took it, in the returned string up to its limit          *)
(* (ConnectionManager.cpp:815-841, 904-931).                               *)
BeginsContent ==
  headerRead =>
    /\ file = SubSeq(Body, 1, Len(file)) /\ Len(file) <= readLength
    /\ card => Len(file) = readLength
    /\ incoming = SubSeq(Body, 1, IF readLength < StoreLimit THEN readLength ELSE StoreLimit)

(* An ESP_OK transfer is complete if nothing got in its way: the header    *)
(* was read up to its blank line and told the length, the card took it all,*)
(* the connection was not cut and the time did not run out.  A       *)
(* server that closes right after its last byte gets in no one's way.      *)
UndisturbedIsComplete ==
  /\ result = "ok" /\ headerRead /\ card /\ ~cut /\ ~late
  /\ contentLength = Len(Body)
  => file = Body

(* What was delivered is never anything but the beginning of the content,  *)
(* and all of it if nothing got in the way.                                *)
DeliversContent == BeginsContent /\ UndisturbedIsComplete

(* The call returns one of the two outcomes that main.cpp tells apart,     *)
(* "Falha ao executar o GET." and "Resultado do GET: %s".                  *)
AlwaysReturns == pc # "reset"

(* Whatever the server and the network do, the call comes to an end.       *)
TransferEnds == <>Ended
=============================================================================
