------------------------- MODULE HttpTransferProofs -------------------------
(***************************************************************************)
(* Proofs about HttpTransfer, for any answers of the server, any default   *)
(* lengths and any limit of the result string.                             *)
(***************************************************************************)
EXTENDS HttpTransfer, Integers, TLAPS

LEMMA Constants ==
  /\ Responses \subseteq Seq(Unit) /\ Defaults \subseteq Nat
  /\ StoreLimit \in Nat /\ ProgressParts \in Nat /\ ProgressParts >= 1
BY ResponsesAssumption

Moved == wire \in Seq(Unit) /\ rx \in Seq(Unit) /\ response \in Seq(Unit)

(* Units that have been read.                                              *)
Taken == Len(response) - Len(rx) - Len(wire)

(* What the modem holds and what has still to come are the rest of the     *)
(* answer, in order.                                                       *)
InOrder ==
  /\ Taken >= 0
  /\ \A i \in 1..Len(rx) : rx[i] = response[Taken + i]
  /\ \A i \in 1..Len(wire) : wire[i] = response[Taken + Len(rx) + i]

(* What the result string has of the content.                              *)
Stored == IF readLength < StoreLimit THEN readLength ELSE StoreLimit

(* What is in the file and in the string is the beginning of the content.  *)
Content ==
  /\ pc \in {"wait", "header"} =>
       ~headerRead /\ readLength = 0 /\ file = <<>> /\ incoming = <<>>
  /\ headerRead => Taken = HeaderLength + readLength
  /\ headerRead =>
       /\ Len(file) <= readLength
       /\ card => Len(file) = readLength
       /\ \A i \in 1..Len(file) : file[i] = response[HeaderLength + i]
  /\ headerRead =>
       /\ Len(incoming) = Stored
       /\ \A i \in 1..Stored : incoming[i] = response[HeaderLength + i]

(* Only a connection that was cut ends before the answer does, and only    *)
(* the length, the clock or the end of the connection ends the content.    *)
Endings ==
  /\ Len(incoming) <= readLength
  /\ ~socket /\ ~cut => wire = <<>>
  /\ pc # "returned" => result = "none"
  /\ result = "ok" /\ ~late => readLength >= contentLength \/ (~socket /\ rx = <<>>)

TransferInv == TypeOK /\ InOrder /\ Content /\ Endings

-----------------------------------------------------------------------------
(* Every byte of an answer comes after a blank line, and nothing else      *)
(* does: there is one blank line at most.                                  *)
LEMMA OneBlank ==
  ASSUME response \in Responses, NEW b \in Blanks(response)
  PROVE  HeaderLength = b
<1>1. response \in Seq(Unit) BY Constants
<1>2. \A c \in Blanks(response) : c = b
  <2> SUFFICES ASSUME NEW c \in Blanks(response), c # b PROVE FALSE
    OBVIOUS
  <2>1. /\ b \in DOMAIN response /\ response[b].kind = "blank"
        /\ c \in DOMAIN response /\ response[c].kind = "blank"
        /\ b \in Int /\ c \in Int
    BY <1>1 DEF Blanks
  <2>2. \A i \in DOMAIN response :
          response[i].kind = "byte" <=> \E d \in Blanks(response) : d < i
    BY ResponsesAssumption
  <2>3. CASE b < c BY <2>1, <2>2, <2>3
  <2>4. CASE c < b BY <2>1, <2>2, <2>4
  <2> QED BY <2>1, <2>3, <2>4
<1> QED BY <1>2 DEF HeaderLength

LEMMA HeaderWithin ==
  ASSUME response \in Responses
  PROVE  HeaderLength \in 0..Len(response)
<1>1. response \in Seq(Unit) BY Constants
<1>2. CASE Blanks(response) = {} BY <1>1, <1>2 DEF HeaderLength
<1>3. CASE Blanks(response) # {}
  <2>1. PICK b \in Blanks(response) : TRUE BY <1>3
  <2>2. HeaderLength = b BY <2>1, OneBlank
  <2> QED BY <1>1, <2>2 DEF Blanks
<1> QED BY <1>2, <1>3

(* What the code reads is the next unit of the answer.                     *)
LEMMA ReadNext ==
  ASSUME Moved, InOrder, rx # <<>>, rx' = Tail(rx), UNCHANGED <<wire, response>>
  PROVE  /\ rx' \in Seq(Unit) /\ Taken' = Taken + 1 /\ InOrder'
         /\ Taken + 1 \in 1..Len(response)
         /\ Head(rx) = response[Taken + 1] /\ Head(rx) \in Unit
<1>1. Len(rx) \in Nat /\ Len(wire) \in Nat /\ Len(response) \in Nat /\ Len(rx) >= 1
  BY DEF Moved
<1>2. /\ Tail(rx) \in Seq(Unit) /\ Len(Tail(rx)) = Len(rx) - 1
      /\ \A i \in 1..(Len(rx) - 1) : Tail(rx)[i] = rx[i + 1]
      /\ Head(rx) = rx[1] /\ Head(rx) \in Unit
  BY <1>1 DEF Moved
<1>3. Taken \in Int /\ Taken' = Taken + 1
  BY <1>1, <1>2 DEF Taken
<1>4. Head(rx) = response[Taken + 1]
  BY <1>1, <1>2 DEF InOrder
<1>5. Taken + 1 \in 1..Len(response)
  BY <1>1 DEF Taken, InOrder
<1>6. InOrder'
  <2>1. Taken' >= 0 BY <1>3 DEF InOrder
  <2>2. ASSUME NEW i \in 1..Len(rx') PROVE rx'[i] = response'[Taken' + i]
    <3>1. i + 1 \in 1..Len(rx) /\ rx'[i] = rx[i + 1]
      BY <1>1, <1>2
    <3>2. rx[i + 1] = response[Taken + (i + 1)] BY <3>1 DEF InOrder
    <3>3. Taken + (i + 1) = Taken' + i BY <1>3
    <3> QED BY <3>1, <3>2, <3>3
  <2>3. ASSUME NEW i \in 1..Len(wire') PROVE wire'[i] = response'[Taken' + Len(rx') + i]
    <3>1. wire[i] = response[Taken + Len(rx) + i] BY DEF InOrder
    <3>2. Taken' + Len(rx') + i = Taken + Len(rx) + i BY <1>1, <1>2, <1>3
    <3> QED BY <3>1, <3>2
  <2> QED BY <2>1, <2>2, <2>3 DEF InOrder
<1> QED BY <1>2, <1>3, <1>4, <1>5, <1>6

LEMMA ArriveInOrder ==
  ASSUME Moved, InOrder, wire # <<>>,
         rx' = Append(rx, Head(wire)), wire' = Tail(wire), UNCHANGED response
  PROVE  rx' \in Seq(Unit) /\ wire' \in Seq(Unit) /\ Taken' = Taken /\ InOrder'
<1>1. Len(rx) \in Nat /\ Len(wire) \in Nat /\ Len(response) \in Nat /\ Len(wire) >= 1
  BY DEF Moved
<1>2. /\ wire' \in Seq(Unit) /\ Len(wire') = Len(wire) - 1
      /\ \A i \in 1..(Len(wire) - 1) : wire'[i] = wire[i + 1]
      /\ Head(wire) = wire[1] /\ Head(wire) \in Unit
  BY <1>1 DEF Moved
<1>3. /\ rx' \in Seq(Unit) /\ Len(rx') = Len(rx) + 1
      /\ \A i \in 1..Len(rx) : rx'[i] = rx[i]
      /\ rx'[Len(rx) + 1] = wire[1]
  BY <1>1, <1>2 DEF Moved
<1>4. Taken \in Int /\ Taken' = Taken
  BY <1>1, <1>2, <1>3 DEF Taken
<1>5. ASSUME NEW i \in 1..Len(rx') PROVE rx'[i] = response'[Taken' + i]
  <2>1. CASE i \in 1..Len(rx) BY <1>3, <1>4, <2>1 DEF InOrder
  <2>2. CASE i = Len(rx) + 1
    <3>1. wire[1] = response[Taken + Len(rx) + 1] BY <1>1 DEF InOrder
    <3>2. Taken + Len(rx) + 1 = Taken' + i BY <1>1, <1>4, <2>2
    <3> QED BY <1>3, <2>2, <3>1, <3>2
  <2> QED BY <1>1, <1>3, <2>1, <2>2
<1>6. ASSUME NEW i \in 1..Len(wire') PROVE wire'[i] = response'[Taken' + Len(rx') + i]
  <2>1. i + 1 \in 1..Len(wire) /\ wire'[i] = wire[i + 1] BY <1>1, <1>2
  <2>2. wire[i + 1] = response[Taken + Len(rx) + (i + 1)] BY <2>1 DEF InOrder
  <2>3. Taken + Len(rx) + (i + 1) = Taken' + Len(rx') + i BY <1>1, <1>3, <1>4
  <2> QED BY <2>1, <2>2, <2>3
<1>7. Taken' >= 0 BY <1>4 DEF InOrder
<1> QED BY <1>2, <1>3, <1>4, <1>5, <1>6, <1>7 DEF InOrder

-----------------------------------------------------------------------------
LEMMA InvMoved == TransferInv => Moved /\ HeaderLength \in 0..Len(response)
BY HeaderWithin, Constants DEF TransferInv, TypeOK, Moved

LEMMA InitEstablishesInv == Init => TransferInv
<1> SUFFICES ASSUME Init PROVE TransferInv
  OBVIOUS
<1>1. response \in Seq(Unit) /\ contentLength \in Nat /\ <<>> \in Seq(Unit)
  BY Constants DEF Init
<1>2. TypeOK
  <2>1. /\ pc = "wait" /\ result = "none" /\ response \in Responses
        /\ wire \in Seq(Unit) /\ rx \in Seq(Unit) /\ file \in Seq(Unit)
        /\ incoming \in Seq(Unit) /\ Len(incoming) <= StoreLimit
        /\ readLength \in Nat
    BY <1>1, Constants DEF Init
  <2>2. /\ socket \in BOOLEAN /\ late \in BOOLEAN /\ card \in BOOLEAN
        /\ headerRead \in BOOLEAN /\ cut \in BOOLEAN
    BY DEF Init
  <2> QED BY <1>1, <2>1, <2>2 DEF TypeOK
<1>3. Len(rx) = 0 /\ Len(wire) = Len(response) /\ Taken = 0
  BY <1>1 DEF Init, Taken
<1>4. InOrder
  BY <1>1, <1>3 DEF Init, InOrder
<1>5. Len(incoming) <= readLength BY DEF Init
<1> QED BY <1>2, <1>4, <1>5 DEF Init, TransferInv, Content, Endings

(* The steps that neither read nor deliver.                                *)
LEMMA StandingStill ==
  ASSUME TransferInv, UNCHANGED <<wire, rx, response, file, incoming, readLength,
                                  contentLength, card, headerRead>>,
         pc' \in {"wait", "header"} => pc \in {"wait", "header"}
  PROVE  InOrder' /\ Content' /\ Len(incoming') <= readLength'
<1>1. HeaderLength' = HeaderLength /\ Taken' = Taken /\ Stored' = Stored
  BY DEF HeaderLength, Blanks, Taken, Stored
<1>2. InOrder' BY <1>1 DEF TransferInv, InOrder
<1>3. Content' BY <1>1 DEF TransferInv, Content
<1> QED BY <1>2, <1>3 DEF TransferInv, Endings

LEMMA QuietStep ==
  ASSUME TransferInv,
         \/ WaitAnswered \/ WaitTimedOut \/ HeaderRunsDry \/ BodyContinue \/ BodyEnd
         \/ DrainEmpty
  PROVE  TransferInv'
<1>1. TypeOK'
  BY DEF TransferInv, TypeOK, WaitAnswered, WaitTimedOut, HeaderRunsDry, BodyContinue,
         BodyEnd, DrainEmpty, outside, Return
<1>2. InOrder' /\ Content' /\ Len(incoming') <= readLength'
  BY StandingStill DEF WaitAnswered, WaitTimedOut, HeaderRunsDry, BodyContinue,
         BodyEnd, DrainEmpty, outside, Return
<1>3. ~socket' /\ ~cut' => wire' = <<>>
  BY DEF TransferInv, Endings, WaitAnswered, WaitTimedOut, HeaderRunsDry, BodyContinue,
         BodyEnd, DrainEmpty, outside
<1>4. pc' # "returned" => result' = "none"
  BY DEF TransferInv, Endings, WaitAnswered, WaitTimedOut, HeaderRunsDry, BodyContinue,
         BodyEnd, DrainEmpty, outside, Return
<1>5. result' = "ok" /\ ~late' => readLength' >= contentLength' \/ (~socket' /\ rx' = <<>>)
  <2>1. CASE BodyEnd
    BY <2>1 DEF BodyEnd, WantsMore, Connected, Available, outside, TransferInv, TypeOK
  <2>2. CASE ~BodyEnd
    BY <2>2 DEF TransferInv, Endings, WaitAnswered, WaitTimedOut, HeaderRunsDry,
                BodyContinue, DrainEmpty, Return
  <2> QED BY <2>1, <2>2
<1> QED BY <1>1, <1>2, <1>3, <1>4, <1>5 DEF TransferInv, Endings

LEMMA HeaderLineKeepsInv == ASSUME TransferInv, HeaderLine PROVE TransferInv'
<1>1. /\ Moved /\ InOrder /\ rx # <<>> /\ rx' = Tail(rx)
      /\ UNCHANGED <<wire, response, result, readLength, file, incoming, socket, cut, card>>
      /\ pc = "header" /\ ~headerRead /\ readLength = 0 /\ file = <<>> /\ incoming = <<>>
  BY InvMoved DEF HeaderLine, Available, TransferInv, Content
<1>2. /\ rx' \in Seq(Unit) /\ Taken' = Taken + 1 /\ InOrder'
      /\ Taken + 1 \in 1..Len(response)
      /\ Head(rx) = response[Taken + 1] /\ Head(rx) \in Unit
  BY <1>1, ReadNext
<1>3. CASE Head(rx).kind = "blank"
  <2>1. /\ headerRead' = TRUE /\ pc' = "body" /\ late' = FALSE
        /\ contentLength' = contentLength
    BY <1>3 DEF HeaderLine
  <2>2. Taken + 1 \in Blanks(response)
    BY <1>1, <1>2, <1>3 DEF Blanks, Moved
  <2>3. HeaderLength = Taken + 1
    BY <2>2, OneBlank DEF TransferInv, TypeOK
  <2>4. HeaderLength' = HeaderLength
    BY <1>1 DEF HeaderLength, Blanks
  <2>5. TypeOK' BY <1>1, <1>2, <2>1 DEF TransferInv, TypeOK
  <2>6. Content' BY <1>1, <1>2, <2>1, <2>3, <2>4, Constants DEF Content, Stored
  <2>7. Endings' BY <1>1, <2>1 DEF TransferInv, Endings
  <2> QED BY <1>2, <2>5, <2>6, <2>7 DEF TransferInv
<1>4. CASE Head(rx).kind # "blank"
  <2>1. headerRead' = FALSE /\ pc' = pc /\ late' = late
    BY <1>4 DEF HeaderLine
  <2>2. contentLength' \in Nat
    BY <1>2 DEF HeaderLine, Unit, TransferInv, TypeOK
  <2>3. TypeOK' BY <1>1, <1>2, <2>1, <2>2 DEF TransferInv, TypeOK
  <2>4. Content' BY <1>1, <2>1 DEF Content
  <2>5. Endings' BY <1>1, <2>1 DEF TransferInv, Endings
  <2> QED BY <1>2, <2>3, <2>4, <2>5 DEF TransferInv
<1> QED BY <1>3, <1>4

LEMMA DrainByteKeepsInv == ASSUME TransferInv, DrainByte PROVE TransferInv'
<1>1. /\ Moved /\ InOrder /\ rx # <<>> /\ rx' = Tail(rx) /\ pc = "drain"
      /\ UNCHANGED <<wire, response, result, contentLength, socket, cut, card, headerRead>>
      /\ readLength' = readLength + 1 /\ readLength \in Nat
      /\ pc' \in {"reset", "drain"}
  BY InvMoved DEF DrainByte, Available, TransferInv, TypeOK
<1>2. /\ rx' \in Seq(Unit) /\ Taken' = Taken + 1 /\ InOrder'
      /\ Taken + 1 \in 1..Len(response)
      /\ Head(rx) = response[Taken + 1] /\ Head(rx) \in Unit
  BY <1>1, ReadNext
<1>3. late' \in BOOLEAN
  BY DEF DrainByte, TransferInv, TypeOK
<1>4. /\ incoming' \in Seq(Unit) /\ Len(incoming') <= StoreLimit
      /\ Len(incoming') <= readLength'
  BY <1>1, <1>2, Constants DEF DrainByte, Store, TransferInv, TypeOK, Endings
<1>5. file' = IF card THEN Append(file, Head(rx)) ELSE file
  BY DEF DrainByte
<1>6. file' \in Seq(Unit)
  BY <1>2, <1>5 DEF TransferInv, TypeOK
<1>7. TypeOK'
  BY <1>1, <1>2, <1>3, <1>4, <1>6 DEF TransferInv, TypeOK
<1>8. HeaderLength' = HeaderLength
  BY <1>1 DEF HeaderLength, Blanks
<1>9. HeaderLength \in Nat /\ Taken \in Int
  BY InvMoved, <1>1 DEF Moved, Taken
<1>10. headerRead => Taken = HeaderLength + readLength
  BY DEF TransferInv, Content
<1>11. ASSUME headerRead
       PROVE  /\ Len(file') <= readLength'
              /\ card => Len(file') = readLength'
              /\ \A i \in 1..Len(file') : file'[i] = response[HeaderLength + i]
  <2>1. /\ file \in Seq(Unit) /\ Len(file) <= readLength
        /\ card => Len(file) = readLength
        /\ \A i \in 1..Len(file) : file[i] = response[HeaderLength + i]
    BY <1>11 DEF TransferInv, TypeOK, Content
  <2>2. CASE card
    <3>1. /\ Len(file') = readLength + 1 /\ file'[readLength + 1] = Head(rx)
          /\ \A i \in 1..readLength : file'[i] = file[i]
      BY <1>2, <1>5, <2>1, <2>2
    <3>2. Head(rx) = response[HeaderLength + (readLength + 1)]
      BY <1>1, <1>2, <1>9, <1>10, <1>11
    <3> QED BY <1>1, <2>1, <2>2, <3>1, <3>2
  <2>3. CASE ~card
    <3>1. file' = file BY <1>5, <2>3
    <3> QED BY <1>1, <2>1, <2>3, <3>1
  <2> QED BY <2>2, <2>3
<1>15. ASSUME headerRead
       PROVE  /\ Len(incoming') = Stored'
              /\ \A i \in 1..Stored' : incoming'[i] = response[HeaderLength + i]
  <2>1. /\ Len(incoming) = Stored /\ incoming \in Seq(Unit)
        /\ \A i \in 1..Stored : incoming[i] = response[HeaderLength + i]
    BY <1>15 DEF TransferInv, TypeOK, Content
  <2>2. CASE readLength < StoreLimit
    <3>1. /\ incoming' = Append(incoming, Head(rx))
          /\ Stored = readLength /\ Stored' = readLength + 1
      BY <2>2, <1>1, Constants DEF DrainByte, Store, Stored
    <3>2. /\ Len(incoming') = readLength + 1 /\ incoming'[readLength + 1] = Head(rx)
          /\ \A i \in 1..readLength : incoming'[i] = incoming[i]
      BY <1>2, <2>1, <3>1
    <3>3. Head(rx) = response[HeaderLength + (readLength + 1)]
      BY <1>1, <1>2, <1>9, <1>10, <1>15
    <3> QED BY <1>1, <2>1, <3>1, <3>2, <3>3
  <2>3. CASE ~(readLength < StoreLimit)
    <3>1. incoming' = incoming /\ Stored' = StoreLimit /\ Stored = StoreLimit
      BY <2>3, <1>1, Constants DEF DrainByte, Store, Stored
    <3> QED BY <2>1, <3>1
  <2> QED BY <2>2, <2>3
<1>12. Content'
  BY <1>1, <1>2, <1>8, <1>9, <1>10, <1>11, <1>15 DEF Content
<1>13. result = "none" BY <1>1 DEF TransferInv, Endings
<1>14. Endings'
  BY <1>1, <1>4, <1>13 DEF TransferInv, Endings
<1> QED BY <1>2, <1>7, <1>12, <1>14 DEF TransferInv

LEMMA EnvironmentKeepsInv == ASSUME TransferInv, Environment PROVE TransferInv'
<1>1. result = "none"
  BY DEF Environment, Ended, TransferInv, Endings
<1>2. CASE Arrive
  <2>1. /\ UNCHANGED <<code, socket, cut, late, card, response, headerRead>>
        /\ socket /\ wire # <<>> /\ rx' = Append(rx, Head(wire)) /\ wire' = Tail(wire)
    BY <1>2 DEF Arrive
  <2>2. rx' \in Seq(Unit) /\ wire' \in Seq(Unit) /\ Taken' = Taken /\ InOrder'
    BY <2>1, InvMoved, ArriveInOrder DEF TransferInv
  <2>3. TypeOK' BY <2>1, <2>2 DEF code, TransferInv, TypeOK
  <2>4. Content'
    BY <2>1, <2>2 DEF code, TransferInv, Content, HeaderLength, Blanks, Stored
  <2>5. Endings' BY <1>1, <2>1 DEF code, TransferInv, Endings
  <2> QED BY <2>2, <2>3, <2>4, <2>5 DEF TransferInv
<1>3. CASE ServerCloses \/ ConnectionBreaks \/ TimePasses
  <2>1. TypeOK'
    BY <1>3 DEF ServerCloses, ConnectionBreaks, TimePasses, code, outside,
                TransferInv, TypeOK
  <2>2. InOrder' /\ Content' /\ Len(incoming') <= readLength'
    BY <1>3, StandingStill DEF ServerCloses, ConnectionBreaks, TimePasses, code, outside
  <2>3. Endings'
    BY <1>1, <1>3, <2>2 DEF ServerCloses, ConnectionBreaks, TimePasses, code, outside,
                TransferInv, Endings
  <2> QED BY <2>1, <2>2, <2>3 DEF TransferInv
<1>4. CASE CardFails
  <2>1. TypeOK' BY <1>4 DEF CardFails, code, outside, TransferInv, TypeOK
  <2>2. HeaderLength' = HeaderLength /\ Taken' = Taken /\ Stored' = Stored
    BY <1>4 DEF CardFails, code, outside, HeaderLength, Blanks, Taken, Stored
  <2>3. InOrder' BY <1>4, <2>2 DEF CardFails, code, outside, TransferInv, InOrder
  <2>4. Content' BY <1>4, <2>2 DEF CardFails, code, outside, TransferInv, Content
  <2>5. Endings' BY <1>1, <1>4 DEF CardFails, code, outside, TransferInv, Endings
  <2> QED BY <2>1, <2>3, <2>4, <2>5 DEF TransferInv
<1> QED BY <1>2, <1>3, <1>4 DEF Environment

LEMMA NextKeepsInv == TransferInv /\ [Next]_vars => TransferInv'
<1> SUFFICES ASSUME TransferInv, [Next]_vars PROVE TransferInv'
  OBVIOUS
<1>1. CASE UNCHANGED vars
  <2>1. TypeOK' /\ Endings'
    BY <1>1 DEF vars, code, outside, TransferInv, TypeOK, Endings
  <2>2. InOrder' /\ Content'
    BY <1>1, StandingStill DEF vars, code, outside
  <2> QED BY <2>1, <2>2 DEF TransferInv
<1>2. CASE Next
  BY <1>2, QuietStep, HeaderLineKeepsInv, DrainByteKeepsInv, EnvironmentKeepsInv
  DEF Next, Step
<1> QED BY <1>1, <1>2

LEMMA InvHolds == Spec => []TransferInv
BY InitEstablishesInv, NextKeepsInv, PTL DEF Spec

-----------------------------------------------------------------------------
LEMMA SameUnits ==
  ASSUME NEW s \in Seq(Unit), NEW t \in Seq(Unit),
         Len(s) = Len(t), \A i \in 1..Len(t) : s[i] = t[i]
  PROVE  s = t
OBVIOUS

(* A length that was read, or a connection that ended by itself, means     *)
(* that all of the content is in the file.                                 *)
LEMMA InvComplete == TransferInv => UndisturbedIsComplete
<1> SUFFICES ASSUME TransferInv, result = "ok", headerRead, card, ~cut, ~late,
                    contentLength = Len(Body)
             PROVE  file = Body
  BY DEF UndisturbedIsComplete
<1>1. /\ response \in Seq(Unit) /\ rx \in Seq(Unit) /\ wire \in Seq(Unit)
      /\ file \in Seq(Unit) /\ readLength \in Nat
      /\ HeaderLength \in 0..Len(response)
  BY InvMoved DEF Moved, TransferInv, TypeOK
<1>2. /\ Body \in Seq(Unit) /\ Len(Body) = Len(response) - HeaderLength
      /\ \A i \in 1..Len(Body) : Body[i] = response[HeaderLength + i]
  BY <1>1 DEF Body
<1>3. /\ Taken = HeaderLength + readLength /\ Len(file) = readLength
      /\ \A i \in 1..readLength : file[i] = response[HeaderLength + i]
  BY DEF TransferInv, Content
<1>4. Taken <= Len(response)
  BY <1>1 DEF Taken
<1>5. readLength = Len(Body)
  <2> DEFINE all == Len(response)
             header == HeaderLength
             content == Len(Body)
             read == Taken
  <2>1. /\ all \in Nat /\ header \in Nat /\ content = all - header
        /\ read = header + readLength /\ read <= all /\ readLength \in Nat
    BY <1>1, <1>2, <1>3, <1>4
  <2>2. contentLength = content OBVIOUS
  <2>3. read = all => readLength = content
    <3> HIDE DEF all, header, content, read
    <3> QED BY <2>1
  <2>4. CASE readLength >= contentLength
    <3> HIDE DEF all, header, content, read
    <3>1. readLength = content BY <2>4, <2>1, <2>2
    <3> QED BY <3>1 DEF content
  <2>5. CASE ~socket /\ rx = <<>>
    <3>1. wire = <<>> BY <2>5 DEF TransferInv, Endings
    <3>2. Taken = Len(response) BY <1>1, <2>5, <3>1 DEF Taken
    <3> QED BY <2>3, <3>2
  <2> QED BY <2>4, <2>5 DEF TransferInv, Endings
<1>6. \A i \in 1..Len(Body) : file[i] = Body[i]
  BY <1>2, <1>3, <1>5
<1>7. Len(file) = Len(Body) BY <1>3, <1>5
<1> QED BY <1>1, <1>2, <1>6, <1>7, SameUnits

(* Every variable keeps its type, and the returned string its limit        *)
(* (ConnectionManager.cpp), for any answers and any limit.                 *)
THEOREM TypeCorrect == Spec => []TypeOK
<1>1. TransferInv => TypeOK BY DEF TransferInv
<1> QED BY InvHolds, <1>1, PTL

(* A transfer that nothing disturbed has the whole content in the file, in *)
(* order, for any answers of the server and even if it closes right after  *)
(* the last byte.                                                          *)
THEOREM UndisturbedComplete == Spec => []UndisturbedIsComplete
BY InvHolds, InvComplete, PTL

-----------------------------------------------------------------------------
LEMMA PrefixOfContent ==
  ASSUME TransferInv, headerRead, NEW s \in Seq(Unit), NEW n \in 0..readLength,
         Len(s) = n, \A i \in 1..n : s[i] = response[HeaderLength + i]
  PROVE  s = SubSeq(Body, 1, n)
<1>1. /\ response \in Seq(Unit) /\ rx \in Seq(Unit) /\ wire \in Seq(Unit)
      /\ readLength \in Nat /\ HeaderLength \in 0..Len(response)
  BY InvMoved DEF Moved, TransferInv, TypeOK
<1>2. /\ Body \in Seq(Unit) /\ Len(Body) = Len(response) - HeaderLength
      /\ \A i \in 1..Len(Body) : Body[i] = response[HeaderLength + i]
  BY <1>1 DEF Body
<1>3. readLength <= Len(Body)
  <2> DEFINE all == Len(response)
             header == HeaderLength
             content == Len(Body)
             read == Taken
  <2>1. /\ all \in Nat /\ header \in Nat /\ content = all - header
        /\ read = header + readLength /\ read <= all
    BY <1>1, <1>2 DEF TransferInv, Content, Taken
  <2> HIDE DEF all, header, content, read
  <2>2. readLength <= content BY <2>1, <1>1
  <2> QED BY <2>2 DEF content
<1>4. /\ SubSeq(Body, 1, n) \in Seq(Unit) /\ Len(SubSeq(Body, 1, n)) = n
      /\ \A i \in 1..n : SubSeq(Body, 1, n)[i] = Body[i]
  BY <1>1, <1>2, <1>3
<1>5. ASSUME NEW i \in 1..n PROVE s[i] = SubSeq(Body, 1, n)[i]
  <2> DEFINE content == Len(Body)
  <2>1. content \in Nat /\ readLength <= content BY <1>2, <1>3
  <2> HIDE DEF content
  <2>2. i \in 1..content BY <1>1, <2>1
  <2>3. Body[i] = response[HeaderLength + i] BY <1>2, <2>2 DEF content
  <2> QED BY <1>4, <2>3
<1> QED BY <1>4, <1>5, SameUnits

LEMMA InvBegins == TransferInv => BeginsContent
<1> SUFFICES ASSUME TransferInv, headerRead
             PROVE  /\ file = SubSeq(Body, 1, Len(file)) /\ Len(file) <= readLength
                    /\ card => Len(file) = readLength
                    /\ incoming = SubSeq(Body, 1, Stored)
  BY DEF BeginsContent, Stored
<1>1. /\ file \in Seq(Unit) /\ incoming \in Seq(Unit) /\ readLength \in Nat
  BY DEF TransferInv, TypeOK
<1>2. readLength \in 0..readLength /\ Stored \in 0..readLength
  BY <1>1, Constants DEF Stored
<1>3. incoming = SubSeq(Body, 1, Stored)
  BY <1>1, <1>2, PrefixOfContent DEF TransferInv, Content
<1>4. /\ Len(file) <= readLength /\ Len(file) \in 0..readLength
      /\ card => Len(file) = readLength
      /\ \A i \in 1..Len(file) : file[i] = response[HeaderLength + i]
  BY <1>1 DEF TransferInv, Content
<1>5. file = SubSeq(Body, 1, Len(file))
  BY <1>1, <1>4, PrefixOfContent
<1> QED BY <1>3, <1>4, <1>5

(* However a transfer ends, what it leaves is the beginning of the         *)
(* content, in the file and in the string; if nothing got in its way it is *)
(* the whole (ConnectionManager.cpp:815-841, 904-931).                     *)
THEOREM ContentIsDelivered == Spec => []DeliversContent
<1>1. TransferInv => DeliversContent
  BY InvBegins, InvComplete DEF DeliversContent
<1> QED BY InvHolds, <1>1, PTL
=============================================================================
