----------------------- MODULE ConnectionManagerProofs -----------------------
(***************************************************************************)
(* Theorems about ConnectionManager, for every set of commands, servers    *)
(* and every queue capacity.                                               *)
(***************************************************************************)
EXTENDS ConnectionManager, SequenceTheorems, TLAPS

(* TypeOK in three parts: the control points, the commands with what they  *)
(* carry, and the rest.  A queued client operation names a server because  *)
(* only a CONNECT_CLIENT command gets to cc_send.                          *)
PointsOK ==
  /\ pc \in [Tasks -> MainPoints \cup MonPoints]
  /\ pc["main"] \in MainPoints /\ pc["mon"] \in MonPoints
  /\ crossed \in BOOLEAN

CommandOK ==
  /\ cmd \in Command
  /\ cmd.name = "CONNECT_CLIENT" => cmd.server \in Servers
  /\ pc["main"] = "cc_send" => cmd.name = "CONNECT_CLIENT"

DataOK ==
  /\ status \in Status
  /\ autoReconnect \in BOOLEAN
  /\ queue \in Seq(Operation) /\ Len(queue) <= QueueCapacity
  /\ currentServer \in Servers \cup {NoServer}
  /\ due \in BOOLEAN
  /\ link \in Links
  /\ client \in Servers \cup {NoServer}
  /\ seen \in [Tasks -> Status]
  /\ job \in Operation \cup {AutoReconnectJob}

TypeInv == PointsOK /\ CommandOK /\ DataOK

(* What the operations are, without the records.                           *)
LEMMA OperationFacts ==
  /\ ConnectOp \in Operation
  /\ \A s \in Servers : ClientOp(s) \in Operation
  /\ \A op \in Operation \cup {AutoReconnectJob} : op.server \in Servers \cup {NoServer}
  <1>1. ConnectOp \in Operation
    BY DEF Operation
  <1>2. \A s \in Servers : ClientOp(s) \in Operation
    BY DEF Operation
  <1>3. \A op \in Operation \cup {AutoReconnectJob} : op.server \in Servers \cup {NoServer}
    <2>1. ConnectOp.server = NoServer /\ AutoReconnectJob.server = NoServer
      BY DEF ConnectOp, AutoReconnectJob
    <2>2. \A s \in Servers : ClientOp(s).server = s
      BY DEF ClientOp
    <2> QED
      BY <2>1, <2>2 DEF Operation
  <1> QED
    BY <1>1, <1>2, <1>3

(* An element added at the end of a sequence, or taken from its front,     *)
(* leaves a sequence over the same set.                                    *)
LEMMA QueueSteps ==
  ASSUME NEW S, NEW q \in Seq(S), NEW e \in S
  PROVE  /\ Append(q, e) \in Seq(S) /\ Len(Append(q, e)) = Len(q) + 1
         /\ q # <<>> => /\ Head(q) \in S /\ Tail(q) \in Seq(S)
                        /\ Len(Tail(q)) = Len(q) - 1
  OBVIOUS

(* Moving one task moves only that task.                                   *)
LEMMA GotoMain ==
  ASSUME PointsOK, NEW p \in MainPoints, Goto("main", p)
  PROVE  PointsOK' /\ pc'["main"] = p /\ pc'["mon"] = pc["mon"]
  BY DEF PointsOK, Goto, Tasks

LEMMA GotoMon ==
  ASSUME PointsOK, NEW p \in MonPoints, Goto("mon", p)
  PROVE  PointsOK' /\ pc'["mon"] = p /\ pc'["main"] = pc["main"]
  BY DEF PointsOK, Goto, Tasks

LEMMA NoCommandOK == NoCommand \in Command /\ NoCommand.name = "ISCONNECTED"
  BY DEF NoCommand, Command, AllCommands

LEMMA FinishTypes ==
  ASSUME TypeInv, Finish
  PROVE  /\ PointsOK' /\ CommandOK' /\ seen' \in [Tasks -> Status]
         /\ pc'["main"] = "idle" /\ pc'["mon"] = pc["mon"]
  <1>1. PointsOK' /\ pc'["main"] = "idle" /\ pc'["mon"] = pc["mon"]
    BY DEF TypeInv, PointsOK, Finish, Tasks, MainPoints
  <1>2. CommandOK'
    BY <1>1, NoCommandOK DEF Finish, CommandOK
  <1>3. seen' \in [Tasks -> Status]
    BY DEF Finish, TypeInv, DataOK, Status, Tasks
  <1> QED
    BY <1>1, <1>2, <1>3

LEMMA InitTypeInv == Init => TypeInv
  <1> SUFFICES ASSUME Init PROVE TypeInv
    OBVIOUS
  <1> USE DEF Init
  <1>1. PointsOK
    BY DEF PointsOK, Tasks, MainPoints, MonPoints
  <1>2. CommandOK
    <2>1. pc["main"] = "boot"
      BY DEF Tasks
    <2> QED
      BY NoCommandOK, <2>1 DEF CommandOK
  <1>3. DataOK
    <2>1. queue \in Seq(Operation) /\ Len(queue) <= QueueCapacity
      BY ConstantsAssumption
    <2>2. seen \in [Tasks -> Status]
      BY DEF Status
    <2>3. job \in Operation
      BY OperationFacts
    <2> QED
      BY <2>1, <2>2, <2>3 DEF DataOK, Status, Links
  <1> QED
    BY <1>1, <1>2, <1>3 DEF TypeInv

(* begin(), and a command being read.                                      *)
LEMMA StartTypeInv ==
  ASSUME TypeInv,
         BeginCreateTask \/ BeginSetStatus \/ \E c \in Requests : IssueCommand(c)
  PROVE  TypeInv'
  <1>1. CASE BeginCreateTask
    <2>1. PointsOK'
      BY <1>1 DEF BeginCreateTask, TypeInv, PointsOK, Tasks, MainPoints, MonPoints
    <2>2. CommandOK'
      BY <1>1 DEF BeginCreateTask, TypeInv, PointsOK, CommandOK, Tasks
    <2>3. DataOK'
      BY <1>1 DEF BeginCreateTask, TypeInv, DataOK
    <2> QED
      BY <2>1, <2>2, <2>3 DEF TypeInv
  <1>2. CASE BeginSetStatus
    <2>1. PointsOK' /\ pc'["main"] = "idle"
      BY <1>2, GotoMain DEF BeginSetStatus, TypeInv, MainPoints
    <2>2. CommandOK'
      BY <1>2, <2>1 DEF BeginSetStatus, TypeInv, CommandOK
    <2>3. DataOK'
      BY <1>2 DEF BeginSetStatus, TypeInv, DataOK, Status
    <2> QED
      BY <2>1, <2>2, <2>3 DEF TypeInv
  <1>3. ASSUME NEW c \in Requests, IssueCommand(c) PROVE TypeInv'
    <2>1. PointsOK' /\ pc'["main"] # "cc_send"
      <3>1. FirstPoint(c.name) \in MainPoints /\ FirstPoint(c.name) # "cc_send"
        BY DEF FirstPoint, MainPoints
      <3> QED
        BY <1>3, <3>1, GotoMain DEF IssueCommand, TypeInv
    <2>2. cmd' \in Command /\ (cmd'.name = "CONNECT_CLIENT" => cmd'.server \in Servers)
      BY <1>3 DEF IssueCommand, Requests, Command
    <2>3. CommandOK'
      BY <2>1, <2>2 DEF CommandOK
    <2>4. DataOK'
      BY <1>3 DEF IssueCommand, TypeInv, DataOK
    <2> QED
      BY <2>1, <2>3, <2>4 DEF TypeInv
  <1> QED
    BY <1>1, <1>2, <1>3

LEMMA GotoMainTypes ==
  ASSUME TypeInv, NEW p \in MainPoints, Goto("main", p), UNCHANGED cmd,
         p = "cc_send" => cmd.name = "CONNECT_CLIENT"
  PROVE  PointsOK' /\ CommandOK'
  BY GotoMain DEF TypeInv, CommandOK

LEMMA GotoMonTypes ==
  ASSUME TypeInv, NEW p \in MonPoints, Goto("mon", p), UNCHANGED cmd
  PROVE  PointsOK' /\ CommandOK'
  BY GotoMon DEF TypeInv, CommandOK

(* getConnectionStatus(), whichever task runs it.                          *)
LEMMA GetStatusTypeInv ==
  ASSUME TypeInv, NEW t \in Tasks,
         GetStatusRead(t) \/ GetStatusQuery(t) \/ GetStatusDrop(t)
  PROVE  TypeInv'
  <1>1. PICK p \in {"gs_query", "gs_drop", "body"} : Goto(t, p)
    BY DEF GetStatusRead, GetStatusQuery, GetStatusDrop
  <1>2. p \in MainPoints /\ p \in MonPoints /\ p # "cc_send"
    BY <1>1 DEF MainPoints, MonPoints
  <1>3. UNCHANGED cmd
    BY DEF GetStatusRead, GetStatusQuery, GetStatusDrop
  <1>4. PointsOK' /\ CommandOK'
    BY <1>1, <1>2, <1>3, GotoMainTypes, GotoMonTypes DEF Tasks
  <1>5. DataOK'
    <2>1. CASE GetStatusRead(t)
      BY <2>1 DEF GetStatusRead, TypeInv, DataOK
    <2>2. CASE GetStatusQuery(t)
      BY <2>2 DEF GetStatusQuery, TypeInv, DataOK
    <2>3. CASE GetStatusDrop(t)
      BY <2>3 DEF GetStatusDrop, TypeInv, DataOK, Status
    <2> QED
      BY <2>1, <2>2, <2>3
  <1> QED
    BY <1>4, <1>5 DEF TypeInv

(* The steps of main that move it to another point of the same command.    *)
LEMMA MainMoveTypeInv ==
  ASSUME TypeInv,
         \/ ConnectSetAuto \/ ConnectSetStatus \/ DisconnectSetAuto
         \/ DisconnectModem \/ QueryBegin \/ AskSocket \/ ConnectClientAccept
         \/ ConnectClientSync \/ DisconnectClientBegin \/ HttpBegin
  PROVE  TypeInv'
  <1> USE DEF MainPoints
  <1>1. CASE ConnectSetAuto
    <2>1. DataOK'
      BY <1>1 DEF ConnectSetAuto, TypeInv, DataOK, CommandOK, Command
    <2> QED
      BY <1>1, <2>1, GotoMainTypes DEF ConnectSetAuto, TypeInv
  <1>2. CASE ConnectSetStatus
    <2>1. DataOK'
      BY <1>2 DEF ConnectSetStatus, TypeInv, DataOK, Status
    <2> QED
      BY <1>2, <2>1, GotoMainTypes DEF ConnectSetStatus, TypeInv
  <1>3. CASE DisconnectSetAuto
    <2>1. DataOK'
      BY <1>3 DEF DisconnectSetAuto, TypeInv, DataOK
    <2> QED
      BY <1>3, <2>1, GotoMainTypes DEF DisconnectSetAuto, TypeInv
  <1>4. CASE DisconnectModem
    <2>1. link' \in Links
      BY <1>4 DEF DisconnectModem, TypeInv, DataOK, Links
    <2>2. DataOK'
      BY <1>4, <2>1 DEF DisconnectModem, TypeInv, DataOK
    <2> QED
      BY <1>4, <2>2, GotoMainTypes DEF DisconnectModem, TypeInv
  <1>5. CASE QueryBegin
    <2>1. DataOK'
      BY <1>5 DEF QueryBegin, TypeInv, DataOK
    <2> QED
      BY <1>5, <2>1, GotoMainTypes DEF QueryBegin, TypeInv
  <1>6. CASE ConnectClientAccept
    <2>1. DataOK'
      BY <1>6 DEF ConnectClientAccept, TypeInv, DataOK
    <2> QED
      BY <1>6, <2>1, GotoMainTypes DEF ConnectClientAccept, SocketFound, TypeInv
  <1>7. CASE ConnectClientSync
    <2>1. DataOK'
      BY <1>7 DEF ConnectClientSync, TypeInv, DataOK, CommandOK, Command
    <2> QED
      BY <1>7, <2>1, GotoMainTypes DEF ConnectClientSync, TypeInv
  <1>8. CASE AskSocket \/ DisconnectClientBegin \/ HttpBegin
    <2>1. DataOK'
      BY <1>8 DEF AskSocket, DisconnectClientBegin, HttpBegin, TypeInv, DataOK
    <2> QED
      BY <1>8, <2>1, GotoMainTypes DEF AskSocket, DisconnectClientBegin, HttpBegin, TypeInv
  <1> QED
    BY <1>1, <1>2, <1>3, <1>4, <1>5, <1>6, <1>7, <1>8

(* The steps that end a command of main.                                   *)
LEMMA MainFinishTypeInv ==
  ASSUME TypeInv,
         \/ Refuse \/ ConnectSend \/ DisconnectSetStatus \/ SetAutoReconnect
         \/ QueryEnd \/ Power \/ SocketRefuse \/ ConnectClientSend
         \/ ConnectClientDial \/ DisconnectClientStop \/ HttpSend
  PROVE  TypeInv'
  <1>1. Finish
    BY DEF Refuse, ConnectSend, DisconnectSetStatus, SetAutoReconnect, QueryEnd,
           Power, SocketRefuse, ConnectClientSend, ConnectClientDial,
           DisconnectClientStop, HttpSend
  <1>2. PointsOK' /\ CommandOK' /\ seen' \in [Tasks -> Status]
    BY <1>1, FinishTypes
  <1>3. CASE ConnectSend
    <2>1. queue' \in Seq(Operation) /\ Len(queue') <= QueueCapacity
      <3>1. Len(queue) < QueueCapacity /\ queue' = Append(queue, ConnectOp)
        BY <1>3 DEF ConnectSend, Enqueue
      <3>2. queue \in Seq(Operation) /\ QueueCapacity \in Nat
        BY ConstantsAssumption DEF TypeInv, DataOK
      <3> QED
        BY <3>1, <3>2, QueueSteps, OperationFacts
    <2> QED
      BY <1>2, <1>3, <2>1 DEF ConnectSend, TypeInv, DataOK
  <1>4. CASE ConnectClientSend
    <2>1. ClientOp(cmd.server) \in Operation
      BY <1>4, OperationFacts DEF ConnectClientSend, TypeInv, CommandOK
    <2>2. queue' \in Seq(Operation) /\ Len(queue') <= QueueCapacity
      <3>1. Len(queue) < QueueCapacity /\ queue' = Append(queue, ClientOp(cmd.server))
        BY <1>4 DEF ConnectClientSend, Enqueue
      <3>2. queue \in Seq(Operation) /\ QueueCapacity \in Nat
        BY ConstantsAssumption DEF TypeInv, DataOK
      <3> QED
        BY <2>1, <3>1, <3>2, QueueSteps
    <2> QED
      BY <1>2, <1>4, <2>2 DEF ConnectClientSend, TypeInv, DataOK
  <1>5. CASE DisconnectSetStatus
    BY <1>2, <1>5 DEF DisconnectSetStatus, TypeInv, DataOK, Status
  <1>6. CASE SetAutoReconnect
    BY <1>2, <1>6 DEF SetAutoReconnect, TypeInv, DataOK, CommandOK, Command
  <1>7. CASE Power
    BY <1>2, <1>7 DEF Power, TypeInv, DataOK, Links
  <1>8. CASE ConnectClientDial \/ DisconnectClientStop
    <2>1. client' \in Servers \cup {NoServer}
      BY <1>8 DEF ConnectClientDial, DisconnectClientStop, Dial, TypeInv, CommandOK, Command
    <2> QED
      BY <1>2, <1>8, <2>1 DEF ConnectClientDial, DisconnectClientStop, TypeInv, DataOK
  <1>9. CASE Refuse \/ QueryEnd \/ SocketRefuse \/ HttpSend
    BY <1>2, <1>9 DEF Refuse, QueryEnd, SocketRefuse, HttpSend, TypeInv, DataOK
  <1> QED
    BY <1>3, <1>4, <1>5, <1>6, <1>7, <1>8, <1>9

(* The monitor's steps that change neither the queue nor its operation.    *)
LEMMA MonMoveTypeInv ==
  ASSUME TypeInv,
         \/ MonTimeout \/ AutoCheck \/ AutoRead \/ AutoDone \/ OpConnectCheck
         \/ NetworkRestart \/ NetworkFound \/ NetworkNotFound \/ NetworkVerify
         \/ GprsConnected \/ GprsFailed
         \/ OpConnectSetConnected \/ OpConnectSetFailed
  PROVE  TypeInv'
  <1> USE DEF MonPoints, ConnectPoints
  <1>1. CASE MonTimeout \/ AutoCheck \/ AutoRead \/ OpConnectCheck
             \/ NetworkNotFound \/ NetworkVerify
    <2>1. PICK p \in MonPoints : Goto("mon", p)
      BY <1>1 DEF MonTimeout, AutoCheck, AutoRead, OpConnectCheck,
                  NetworkNotFound, NetworkVerify
    <2>2. UNCHANGED cmd
      BY <1>1 DEF MonTimeout, AutoCheck, AutoRead, OpConnectCheck,
                  NetworkNotFound, NetworkVerify
    <2>3. DataOK'
      BY <1>1 DEF MonTimeout, AutoCheck, AutoRead, OpConnectCheck,
                  NetworkNotFound, NetworkVerify, TypeInv, DataOK
    <2> QED
      BY <2>1, <2>2, <2>3, GotoMonTypes DEF TypeInv
  <1>2. CASE AutoDone
    <2>1. DataOK'
      BY <1>2 DEF AutoDone, TypeInv, DataOK
    <2> QED
      BY <1>2, <2>1, GotoMonTypes DEF AutoDone, TypeInv
  <1>3. CASE NetworkRestart
    <2>1. PointsOK' /\ CommandOK'
      BY <1>3, GotoMonTypes DEF NetworkRestart, TypeInv, PointsOK, CommandOK
    <2>2. DataOK'
      BY <1>3 DEF NetworkRestart, TypeInv, DataOK, Links
    <2> QED
      BY <2>1, <2>2 DEF TypeInv
  <1>4. CASE NetworkFound
    <2>1. DataOK'
      BY <1>4 DEF NetworkFound, TypeInv, DataOK, Links
    <2> QED
      BY <1>4, <2>1, GotoMonTypes DEF NetworkFound, TypeInv
  <1>5. CASE GprsConnected
    <2>1. DataOK'
      BY <1>5 DEF GprsConnected, TypeInv, DataOK, Links
    <2> QED
      BY <1>5, <2>1, GotoMonTypes DEF GprsConnected, TypeInv
  <1>6. CASE GprsFailed
    <2>1. link' \in Links
      BY <1>6 DEF GprsFailed, TypeInv, DataOK, Links
    <2>2. DataOK'
      BY <1>6, <2>1 DEF GprsFailed, TypeInv, DataOK
    <2> QED
      BY <1>6, <2>2, GotoMonTypes DEF GprsFailed, TypeInv
  <1>7. CASE OpConnectSetConnected \/ OpConnectSetFailed
    <2>1. DataOK'
      BY <1>7 DEF OpConnectSetConnected, OpConnectSetFailed, TypeInv, DataOK, Status
    <2>2. Goto("mon", AfterConnect) /\ UNCHANGED cmd
      BY <1>7 DEF OpConnectSetConnected, OpConnectSetFailed
    <2>3. AfterConnect \in MonPoints
      BY DEF AfterConnect
    <2> QED
      BY <2>1, <2>2, <2>3, GotoMonTypes DEF TypeInv
  <1> QED
    BY <1>1, <1>2, <1>3, <1>4, <1>5, <1>6, <1>7

(* The monitor's steps that take an operation or run one on the client.    *)
LEMMA MonJobTypeInv ==
  ASSUME TypeInv,
         MonReceive \/ AutoQuery \/ OpClientBegin \/ OpClientDial
  PROVE  TypeInv'
  <1> USE DEF MonPoints, ConnectPoints
  <1>1. CASE MonReceive
    <2>1. PointsOK' /\ CommandOK'
      BY <1>1, GotoMonTypes DEF MonReceive, TypeInv
    <2>2. /\ job' \in Operation
          /\ queue' \in Seq(Operation) /\ Len(queue') <= QueueCapacity
      BY <1>1, QueueSteps, ConstantsAssumption, OperationFacts
         DEF MonReceive, TypeInv, DataOK
    <2> QED
      BY <1>1, <2>1, <2>2 DEF MonReceive, TypeInv, DataOK
  <1>2. CASE AutoQuery
    <2>1. PointsOK' /\ CommandOK'
      BY <1>2, GotoMonTypes DEF AutoQuery, TypeInv
    <2> QED
      BY <1>2, <2>1 DEF AutoQuery, TypeInv, DataOK
  <1>3. CASE OpClientBegin
    <2>1. PointsOK' /\ CommandOK'
      BY <1>3, GotoMonTypes DEF OpClientBegin, TypeInv
    <2>2. seen' \in [Tasks -> Status]
      BY <1>3 DEF OpClientBegin, TypeInv, DataOK, Status, Tasks
    <2>3. currentServer' \in Servers \cup {NoServer}
      BY <1>3, OperationFacts DEF OpClientBegin, TypeInv, DataOK
    <2> QED
      BY <1>3, <2>1, <2>2, <2>3 DEF OpClientBegin, TypeInv, DataOK
  <1>4. CASE OpClientDial
    <2>1. PointsOK' /\ CommandOK'
      BY <1>4, GotoMonTypes DEF OpClientDial, TypeInv
    <2>2. client' \in Servers \cup {NoServer}
      BY <1>4, OperationFacts DEF OpClientDial, Dial, TypeInv, DataOK
    <2> QED
      BY <1>4, <2>1, <2>2 DEF OpClientDial, TypeInv, DataOK
  <1> QED
    BY <1>1, <1>2, <1>3, <1>4

LEMMA EnvironmentTypeInv ==
  ASSUME TypeInv, Environment \/ DisconnectRetry \/ UNCHANGED vars
  PROVE  TypeInv'
  <1>1. CASE DisconnectRetry
    <2>1. link' \in Links
      BY <1>1 DEF DisconnectRetry, TypeInv, DataOK
    <2> QED
      BY <1>1, <2>1 DEF DisconnectRetry, TypeInv, PointsOK, CommandOK, DataOK
  <1>2. CASE Environment
    BY <1>2 DEF Environment, LinkDrop, ServerCloses, ReconnectDue, TypeInv,
                PointsOK, CommandOK, DataOK, Links
  <1>3. CASE UNCHANGED vars
    BY <1>3 DEF vars, TypeInv, PointsOK, CommandOK, DataOK
  <1> QED
    BY <1>1, <1>2, <1>3

LEMMA NextTypeInv == TypeInv /\ [Next]_vars => TypeInv'
  BY StartTypeInv, GetStatusTypeInv, MainMoveTypeInv, MainFinishTypeInv,
     MonMoveTypeInv, MonJobTypeInv, EnvironmentTypeInv
     DEF Next, MainStep, MonStep, Tasks

LEMMA TypeInvAlways == Spec => []TypeInv
  BY InitTypeInv, NextTypeInv, PTL DEF Spec

(* Every variable always has its type, and the operation queue never holds *)
(* more than xQueueCreate() gave it room for.                              *)
THEOREM TypeCorrect == Spec => []TypeOK
  <1>1. TypeInv => TypeOK
    BY DEF TypeInv, TypeOK, PointsOK, CommandOK, DataOK
  <1> QED
    BY <1>1, TypeInvAlways, PTL

-----------------------------------------------------------------------------
(* A connect operation stays in the queue when another is added, is there  *)
(* once it is added, and leaves it only as the operation that is taken.    *)
LEMMA QueuedSteps ==
  ASSUME NEW q \in Seq(Operation), NEW op \in Operation
  PROVE  /\ \A i \in DOMAIN q : i \in DOMAIN Append(q, op) /\ Append(q, op)[i] = q[i]
         /\ Append(q, op)[Len(q) + 1] = op /\ Len(q) + 1 \in DOMAIN Append(q, op)
         /\ q # <<>> => \A i \in DOMAIN q :
              \/ q[i] = Head(q)
              \/ i - 1 \in DOMAIN Tail(q) /\ Tail(q)[i - 1] = q[i]
  <1>1. \A i \in DOMAIN q : i \in DOMAIN Append(q, op) /\ Append(q, op)[i] = q[i]
    OBVIOUS
  <1>2. Append(q, op)[Len(q) + 1] = op /\ Len(q) + 1 \in DOMAIN Append(q, op)
    OBVIOUS
  <1>3. ASSUME q # <<>>, NEW i \in DOMAIN q, q[i] # Head(q)
        PROVE  i - 1 \in DOMAIN Tail(q) /\ Tail(q)[i - 1] = q[i]
    <2>1. i \in 2 .. Len(q)
      BY <1>3
    <2> QED
      BY <1>3, <2>1
  <1> QED
    BY <1>1, <1>2, <1>3

(* What the proof carries along with ConnectingIsPending: while begin() is *)
(* running nothing has asked for a connection.                             *)
Booting == pc["main"] = "boot"

PendingInv == ConnectingIsPending /\ (Booting => status # "CONNECTING")

LEMMA PendingMain ==
  ASSUME TypeInv, PendingInv, MainStep
  PROVE  PendingInv'
  <1> USE DEF PendingInv, ConnectingIsPending, Booting
  <1>1. CASE BeginCreateTask
    BY <1>1 DEF BeginCreateTask
  <1>2. CASE ConnectSend
    <2>1. queue \in Seq(Operation) /\ queue' = Append(queue, ConnectOp)
      BY <1>2 DEF ConnectSend, Enqueue, TypeInv, DataOK
    <2>2. ConnectQueued'
      BY <2>1, QueuedSteps, OperationFacts DEF ConnectQueued
    <2>3. pc'["main"] = "idle"
      BY <1>2, FinishTypes DEF ConnectSend
    <2> QED
      BY <2>2, <2>3
  <1>3. CASE ConnectClientSend
    <2>1. /\ queue \in Seq(Operation) /\ ClientOp(cmd.server) \in Operation
          /\ queue' = Append(queue, ClientOp(cmd.server)) /\ status' = status
      BY <1>3, OperationFacts
         DEF ConnectClientSend, Enqueue, TypeInv, DataOK, CommandOK
    <2>2. ConnectQueued => ConnectQueued'
      BY <2>1, QueuedSteps DEF ConnectQueued
    <2>3. /\ pc["main"] # "c_send" /\ pc'["main"] = "idle"
          /\ Connecting => Connecting'
      BY <1>3, FinishTypes DEF ConnectClientSend, Connecting
    <2> QED
      BY <2>1, <2>2, <2>3
  <1>4. CASE ConnectSetStatus
    BY <1>4, GotoMain DEF ConnectSetStatus, TypeInv, MainPoints
  <1>5. CASE BeginSetStatus \/ GetStatusDrop("main") \/ DisconnectSetStatus
    BY <1>5 DEF BeginSetStatus, GetStatusDrop, DisconnectSetStatus
  <1>6. CASE \/ GetStatusRead("main") \/ GetStatusQuery("main") \/ Refuse
             \/ ConnectSetAuto \/ DisconnectSetAuto \/ DisconnectModem
             \/ DisconnectRetry \/ SetAutoReconnect \/ QueryBegin \/ QueryEnd
             \/ Power \/ AskSocket \/ SocketRefuse \/ ConnectClientAccept
             \/ ConnectClientSync \/ ConnectClientDial
             \/ DisconnectClientBegin \/ DisconnectClientStop \/ HttpBegin \/ HttpSend
    <2>1. /\ UNCHANGED <<status, queue>> /\ pc["main"] # "c_send"
          /\ pc'["mon"] = pc["mon"] /\ pc'["main"] # "boot"
      BY <1>6 DEF GetStatusRead, GetStatusQuery, Refuse, ConnectSetAuto,
                  DisconnectSetAuto, DisconnectModem, DisconnectRetry,
                  SetAutoReconnect, QueryBegin, QueryEnd, Power,
                  AskSocket, SocketRefuse, SocketFound, ConnectClientAccept,
                  ConnectClientSync, ConnectClientDial, DisconnectClientBegin,
                  DisconnectClientStop, HttpBegin, HttpSend, MainBody, Finish, Goto,
                  TypeInv, PointsOK, Tasks
    <2> QED
      BY <2>1 DEF ConnectQueued, Connecting
  <1> QED
    BY <1>1, <1>2, <1>3, <1>4, <1>5, <1>6 DEF MainStep

LEMMA PendingMon ==
  ASSUME TypeInv, PendingInv, MonStep
  PROVE  PendingInv'
  <1> USE DEF PendingInv, ConnectingIsPending, Booting
  <1>1. CASE MonReceive
    <2>1. queue \in Seq(Operation) /\ queue # <<>> /\ queue' = Tail(queue)
          /\ UNCHANGED status
      BY <1>1 DEF MonReceive, TypeInv, DataOK
    <2>2. CASE Head(queue) = ConnectOp
      <3>1. Goto("mon", "oc_check")
        BY <1>1, <2>2 DEF MonReceive, ConnectOp
      <3> QED
        BY <2>1, <3>1, GotoMon DEF TypeInv, Connecting, ConnectPoints, MonPoints
    <2>3. CASE Head(queue) # ConnectOp
      <3>1. ConnectQueued => ConnectQueued'
        <4> SUFFICES ASSUME ConnectQueued PROVE ConnectQueued'
          OBVIOUS
        <4>1. PICK i \in DOMAIN queue : queue[i] = ConnectOp
          BY DEF ConnectQueued
        <4>2. i - 1 \in DOMAIN Tail(queue) /\ Tail(queue)[i - 1] = ConnectOp
          BY <2>1, <2>3, <4>1, QueuedSteps, OperationFacts
        <4> QED
          BY <2>1, <4>2 DEF ConnectQueued
      <3>2. pc'["main"] = pc["main"] /\ ~Connecting
        BY <1>1 DEF MonReceive, Goto, TypeInv, PointsOK, Tasks, Connecting, ConnectPoints
      <3> QED
        BY <2>1, <3>1, <3>2
    <2> QED
      BY <2>2, <2>3
  <1>2. CASE OpConnectSetConnected \/ OpConnectSetFailed \/ GetStatusDrop("mon")
    BY <1>2 DEF OpConnectSetConnected, OpConnectSetFailed, GetStatusDrop
  <1>3. CASE \/ MonTimeout \/ AutoCheck \/ AutoRead \/ AutoQuery \/ AutoDone
             \/ OpConnectCheck \/ NetworkRestart \/ NetworkFound
             \/ NetworkNotFound \/ NetworkVerify \/ GprsConnected \/ GprsFailed
             \/ GetStatusRead("mon") \/ GetStatusQuery("mon")
             \/ OpClientBegin \/ OpClientDial
    <2>1. /\ UNCHANGED <<status, queue>> /\ pc'["main"] = pc["main"]
          /\ Connecting => Connecting'
      BY <1>3 DEF MonTimeout, AutoCheck, AutoRead, AutoQuery, AutoDone,
                  OpConnectCheck, NetworkRestart, NetworkFound, NetworkNotFound,
                  NetworkVerify, GprsConnected, GprsFailed, GetStatusRead,
                  GetStatusQuery, OpClientBegin, OpClientDial, Goto, Connecting,
                  ConnectPoints, TypeInv, PointsOK, Tasks
    <2> QED
      BY <2>1 DEF ConnectQueued
  <1> QED
    BY <1>1, <1>2, <1>3 DEF MonStep

(* A status of CONNECTING always has a connection attempt behind it, for   *)
(* every set of commands, with auto-reconnect, and with the modem's        *)
(* answers mixed up: no interleaving leaves the status at CONNECTING with  *)
(* nobody to move it on.                                                   *)
THEOREM ConnectingAlwaysPending == Spec => []ConnectingIsPending
  <1>1. Init => PendingInv
    BY DEF Init, PendingInv, ConnectingIsPending, Booting
  <1>2. TypeInv /\ PendingInv /\ [Next]_vars => PendingInv'
    <2> SUFFICES ASSUME TypeInv, PendingInv, [Next]_vars
                 PROVE  PendingInv'
      OBVIOUS
    <2>1. CASE MainStep
      BY <2>1, PendingMain
    <2>2. CASE MonStep
      BY <2>2, PendingMon
    <2>3. ASSUME NEW c \in Requests, IssueCommand(c) PROVE PendingInv'
      BY <2>3 DEF IssueCommand, FirstPoint, Goto, PendingInv, ConnectingIsPending,
                  Booting, ConnectQueued, Connecting, TypeInv, PointsOK, Tasks
    <2>4. CASE Environment \/ UNCHANGED vars
      BY <2>4 DEF Environment, LinkDrop, ServerCloses, ReconnectDue, vars,
                  PendingInv, ConnectingIsPending, Booting, ConnectQueued, Connecting
    <2> QED
      BY <2>1, <2>2, <2>3, <2>4 DEF Next
  <1> QED
    <2>1. PendingInv => ConnectingIsPending
      BY DEF PendingInv
    <2> QED
      BY <1>1, <1>2, <2>1, TypeInvAlways, PTL DEF Spec

-----------------------------------------------------------------------------
(***************************************************************************)
(* As long as the monitor does nothing but answer CONNECT, the status is   *)
(* what keeps the tasks apart: it is CONNECTING from the moment a request  *)
(* is accepted until the monitor has answered it, and a command that looks *)
(* at the status uses the modem only while it is CONNECTED.  The others    *)
(* (Ungated) are in the modem when they like; they never write the status. *)
(***************************************************************************)
SoleCommands == AllCommands \ {"CONNECT_CLIENT", "SET_AUTO_RECONNECT"}

ConnectionOnly == Commands \subseteq SoleCommands /\ AutoValues \subseteq {FALSE}

Requested == queue # <<>> \/ Connecting \/ pc["main"] = "c_send"

(* Main's points in a command that found the status CONNECTED, and those   *)
(* of a command that did not look.                                         *)
OnlinePoints == {"gs_query", "gs_drop", "d_gprs", "d_status", "query",
                 "cc_dial", "h_send"}

Online == pc["main"] \in OnlinePoints
          \/ (pc["main"] = "cc_look" /\ cmd.name \notin Ungated)

SoleMainPoints ==
  {"boot", "bootStatus", "idle", "gs_read", "body", "c_status", "c_send",
   "power", "cc_look", "cc_stop"}
  \cup OnlinePoints

SolePoints ==
  /\ pc["main"] \in SoleMainPoints
  /\ pc["main"] \in {"power", "cc_stop"} => cmd.name \in Ungated
  /\ pc["mon"] \in {"absent", "recv", "ar_check"} \cup ConnectPoints
  /\ cmd.name \in SoleCommands /\ cmd.flag = FALSE
  /\ autoReconnect = FALSE /\ job = ConnectOp

OneRequest ==
  /\ queue \in {<<>>, <<ConnectOp>>}
  /\ queue # <<>> => ~Connecting /\ pc["main"] # "c_send"
  /\ Connecting => pc["main"] # "c_send"

StatusTells ==
  /\ Requested => status = "CONNECTING"
  /\ Online => status = "CONNECTED"
  /\ pc["main"] = "gs_query" => seen["main"] = "CONNECTED"
  /\ pc["main"] = "body" /\ seen["main"] = "CONNECTED" => status = "CONNECTED"
  /\ pc["main"] = "body" /\ seen["main"] = "DISCONNECTED" => status = "DISCONNECTED"
  /\ pc["main"] = "c_status" => status = "DISCONNECTED"
  /\ pc["main"] \in {"boot", "bootStatus"} => status = "DISCONNECTING"

(* A crossing is noted; until one has mixed up answers, an open session is *)
(* where the status admits it.                                             *)
CrossingNoted == Crossing => crossed

SessionTold ==
  link = "gprs" /\ ~crossed =>
    /\ pc["main"] \notin {"gs_drop", "d_status"}
    /\ pc["mon"] # "oc_fail"
    /\ status \in {"CONNECTING", "CONNECTED"}

SoleInv == SolePoints /\ OneRequest /\ StatusTells /\ CrossingNoted /\ SessionTold

LEMMA InitSoleInv == Init => SoleInv
  BY DEF Init, SoleInv, SolePoints, OneRequest, StatusTells, CrossingNoted, SessionTold,
         SoleMainPoints, OnlinePoints, Online, Requested, Connecting, ConnectPoints,
         NoCommand, SoleCommands, AllCommands, Tasks, Crossing, InModem, ModemPoints

(* Main is in the modem with the monitor only in a command that did not    *)
(* look at the status.                                                     *)
LEMMA SoleExclusive ==
  ASSUME TypeInv, SoleInv
  PROVE  ModemExclusive
  <1>1. pc["mon"] \in ModemPoints => Connecting
    BY DEF SoleInv, SolePoints, ModemPoints, Connecting, ConnectPoints
  <1>2. ~(Connecting /\ Online)
    BY DEF SoleInv, StatusTells, Requested
  <1>3. pc["main"] \in ModemPoints => Online \/ cmd.name \in Ungated
    BY DEF SoleInv, SolePoints, ModemPoints, SoleMainPoints, OnlinePoints, Online
  <1> QED
    BY <1>1, <1>2, <1>3 DEF ModemExclusive, Crossing, InModem

(* So a command that found the status CONNECTED gets true answers, and so  *)
(* does the monitor until a crossing.                                      *)
LEMMA MainAlone ==
  ASSUME TypeInv, SoleInv, Online
  PROVE  Alone("main")
  <1>1. pc["mon"] \in ModemPoints => Connecting
    BY DEF SoleInv, SolePoints, ModemPoints, Connecting, ConnectPoints
  <1>2. ~Connecting
    BY DEF SoleInv, StatusTells, Requested
  <1> QED
    BY <1>1, <1>2 DEF Alone, InModem, Other

LEMMA MonAlone ==
  ASSUME SoleInv, InModem("mon"), ~crossed
  PROVE  Alone("mon")
  BY DEF SoleInv, CrossingNoted, Crossing, Alone, Other

(* Every step notes the crossing it leads to, and none forgets one.        *)
LEMMA CrossingKept ==
  ASSUME TypeInv, CrossingNoted, [Next]_vars
  PROVE  CrossingNoted' /\ (crossed => crossed')
  <1> DEFINE Noting == crossed' = (crossed \/ Crossing')
             Still  == UNCHANGED <<pc, crossed>>
  <1>1. CASE BeginCreateTask \/ DisconnectRetry \/ Environment \/ UNCHANGED vars
    <2>1. crossed' = crossed /\ (Still \/ ~Crossing')
      BY <1>1 DEF BeginCreateTask, DisconnectRetry, Environment, LinkDrop, ServerCloses,
                  ReconnectDue, vars, Crossing, InModem, ModemPoints, TypeInv, PointsOK, Tasks
    <2> QED
      BY <2>1 DEF CrossingNoted, Crossing, InModem
  <1>2. CASE \/ Refuse \/ ConnectSend \/ DisconnectSetStatus \/ SetAutoReconnect
             \/ QueryEnd \/ Power \/ SocketRefuse \/ ConnectClientSend
             \/ ConnectClientDial \/ DisconnectClientStop \/ HttpSend
    <2>1. Finish
      BY <1>2 DEF Refuse, ConnectSend, DisconnectSetStatus, SetAutoReconnect, QueryEnd,
                  Power, SocketRefuse, ConnectClientSend, ConnectClientDial,
                  DisconnectClientStop, HttpSend
    <2>2. pc'["main"] = "idle" /\ crossed' = crossed
      BY <2>1, FinishTypes DEF Finish
    <2> QED
      BY <2>2 DEF CrossingNoted, Crossing, InModem, ModemPoints
  <1>3. CASE \/ BeginSetStatus \/ GetStatusRead("main") \/ GetStatusQuery("main")
             \/ GetStatusDrop("main") \/ ConnectSetAuto \/ ConnectSetStatus
             \/ DisconnectSetAuto \/ DisconnectModem \/ QueryBegin \/ AskSocket
             \/ ConnectClientAccept \/ ConnectClientSync \/ DisconnectClientBegin
             \/ HttpBegin \/ \E c \in Requests : IssueCommand(c)
    <2>1. Noting
      BY <1>3 DEF BeginSetStatus, GetStatusRead, GetStatusQuery, GetStatusDrop,
                  ConnectSetAuto, ConnectSetStatus, DisconnectSetAuto, DisconnectModem,
                  QueryBegin, AskSocket, ConnectClientAccept, ConnectClientSync,
                  DisconnectClientBegin, HttpBegin, IssueCommand, Goto
    <2> QED
      BY <2>1 DEF CrossingNoted
  <1>4. CASE MonStep
    <2>1. Noting \/ Still
      BY <1>4 DEF MonStep, MonReceive, MonTimeout, AutoCheck, AutoRead, AutoQuery,
                  AutoDone, OpConnectCheck, NetworkRestart, NetworkFound,
                  NetworkNotFound, NetworkVerify, GprsConnected, GprsFailed,
                  OpConnectSetConnected, OpConnectSetFailed, GetStatusRead,
                  GetStatusQuery, GetStatusDrop, OpClientBegin, OpClientDial, Goto
    <2> QED
      BY <2>1 DEF CrossingNoted, Crossing, InModem
  <1> QED
    BY <1>1, <1>2, <1>3, <1>4 DEF Next, MainStep

(* The rest of SoleInv, step by step.                                      *)
SoleCore == SolePoints /\ OneRequest /\ StatusTells /\ SessionTold

LEMMA SoleMainStep ==
  ASSUME TypeInv, SoleInv, MainStep
  PROVE  SoleCore'
  <1>0. crossed => crossed'
    BY CrossingKept DEF SoleInv, Next
  <1> USE <1>0 DEF SoleCore, SoleInv, SolePoints, OneRequest, StatusTells, SessionTold,
              Requested, Connecting, ConnectPoints, SoleMainPoints, Online,
              OnlinePoints, Goto, Finish, MainBody, TypeInv, PointsOK, Tasks
  <1>1. CASE BeginCreateTask
    BY <1>1 DEF BeginCreateTask
  <1>2. CASE BeginSetStatus
    BY <1>2 DEF BeginSetStatus
  <1>3. CASE GetStatusRead("main")
    BY <1>3 DEF GetStatusRead, DataOK
  <1>4. CASE GetStatusQuery("main")
    <2>1. Alone("main")
      BY <1>4, MainAlone DEF GetStatusQuery
    <2>2. Goto("main", IF link = "gprs" THEN "body" ELSE "gs_drop")
      BY <1>4, <2>1 DEF GetStatusQuery, Answer
    <2>3. UNCHANGED <<status, autoReconnect, queue, link, seen, cmd, job>>
      BY <1>4 DEF GetStatusQuery
    <2>4. pc["main"] = "gs_query" /\ status = "CONNECTED" /\ seen["main"] = "CONNECTED"
      BY <1>4 DEF GetStatusQuery
    <2> QED
      BY <2>2, <2>3, <2>4
  <1>5. CASE GetStatusDrop("main")
    BY <1>5 DEF GetStatusDrop, DataOK
  <1>6. CASE Refuse \/ SocketRefuse \/ QueryEnd \/ HttpSend
    <2>1. Finish /\ UNCHANGED <<status, autoReconnect, queue, link, job>>
      BY <1>6 DEF Refuse, SocketRefuse, QueryEnd, HttpSend
    <2>2. pc["main"] # "c_send"
      BY <1>6 DEF Refuse, SocketRefuse, SocketFound, QueryEnd, HttpSend
    <2> QED
      BY <2>1, <2>2 DEF NoCommand, SoleCommands, AllCommands
  <1>7. CASE ConnectSetAuto
    BY <1>7 DEF ConnectSetAuto, Refused
  <1>8. CASE ConnectSetStatus
    BY <1>8 DEF ConnectSetStatus
  <1>9. CASE ConnectSend
    <2>1. queue = <<>> /\ queue' = Append(queue, ConnectOp)
      BY <1>9 DEF ConnectSend, Enqueue
    <2>2. queue' = <<ConnectOp>> /\ queue' # <<>>
      BY <2>1
    <2>3. pc' = [pc EXCEPT !["main"] = "idle"] /\ cmd' = NoCommand
          /\ UNCHANGED <<status, autoReconnect, link, job>>
      BY <1>9 DEF ConnectSend
    <2>4. pc["main"] = "c_send" /\ status = "CONNECTING" /\ ~Connecting
      BY <1>9 DEF ConnectSend
    <2> QED
      BY <2>2, <2>3, <2>4 DEF NoCommand, SoleCommands, AllCommands
  <1>10. CASE DisconnectSetAuto
    BY <1>10 DEF DisconnectSetAuto, Refused, OnlineOnly
  <1>11. CASE DisconnectModem \/ DisconnectRetry
    <2>1. Alone("main")
      BY <1>11, MainAlone DEF DisconnectModem, DisconnectRetry
    <2> QED
      BY <1>11, <2>1 DEF DisconnectModem, DisconnectRetry
  <1>12. CASE DisconnectSetStatus
    BY <1>12 DEF DisconnectSetStatus, NoCommand, SoleCommands, AllCommands
  <1>13. CASE QueryBegin
    BY <1>13 DEF QueryBegin, Refused, OnlineOnly
  <1>14. CASE Power
    BY <1>14 DEF Power, NoCommand, SoleCommands, AllCommands
  <1>15. CASE AskSocket
    BY <1>15 DEF AskSocket, Refused, OnlineOnly, SocketCommands
  <1>16. CASE ConnectClientSync \/ DisconnectClientBegin \/ HttpBegin
    BY <1>16 DEF ConnectClientSync, DisconnectClientBegin, HttpBegin, SocketFound, Ungated
  <1>17. CASE ConnectClientDial \/ DisconnectClientStop
    BY <1>17 DEF ConnectClientDial, DisconnectClientStop, NoCommand, SoleCommands, AllCommands
  <1>18. ~ \/ SetAutoReconnect \/ ConnectClientAccept \/ ConnectClientSend
    BY DEF SetAutoReconnect, ConnectClientAccept, ConnectClientSend, SocketFound, SoleCommands
  <1> QED
    BY <1>1, <1>2, <1>3, <1>4, <1>5, <1>6, <1>7, <1>8, <1>9, <1>10, <1>11,
       <1>12, <1>13, <1>14, <1>15, <1>16, <1>17, <1>18 DEF MainStep

LEMMA SoleMonStep ==
  ASSUME TypeInv, SoleInv, MonStep
  PROVE  SoleCore'
  <1>0. crossed => crossed'
    BY CrossingKept DEF SoleInv, Next
  <1>a. InModem("mon") /\ ~crossed' => Alone("mon")
    BY <1>0, MonAlone
  <1> USE <1>0 DEF SoleCore, SoleInv, SolePoints, OneRequest, StatusTells, SessionTold,
              Requested, Connecting, ConnectPoints, SoleMainPoints, Online,
              OnlinePoints, Goto, TypeInv, PointsOK, Tasks
  <1>1. CASE MonReceive
    BY <1>1 DEF MonReceive, ConnectOp, DataOK
  <1>2. CASE MonTimeout \/ AutoCheck \/ NetworkNotFound
    BY <1>2 DEF MonTimeout, AutoCheck, NetworkNotFound
  <1>3. CASE OpConnectCheck \/ NetworkVerify
    BY <1>3 DEF OpConnectCheck, NetworkVerify
  <1>4. CASE NetworkRestart
    BY <1>4 DEF NetworkRestart
  <1>5. CASE NetworkFound
    BY <1>5 DEF NetworkFound
  <1>6. CASE GprsConnected
    BY <1>6 DEF GprsConnected
  <1>7. CASE GprsFailed
    <2>1. ~crossed' => link' # "gprs"
      BY <1>7, <1>a DEF GprsFailed, InModem, ModemPoints
    <2> QED
      BY <1>7, <2>1 DEF GprsFailed
  <1>8. CASE OpConnectSetConnected \/ OpConnectSetFailed
    BY <1>8 DEF OpConnectSetConnected, OpConnectSetFailed, AfterConnect, ConnectOp,
                AutoReconnectJob
  <1>9. ~ \/ AutoRead \/ AutoQuery \/ AutoDone
          \/ GetStatusRead("mon") \/ GetStatusQuery("mon") \/ GetStatusDrop("mon")
          \/ OpClientBegin \/ OpClientDial
    BY DEF AutoRead, AutoQuery, AutoDone, GetStatusRead, GetStatusQuery,
           GetStatusDrop, OpClientBegin, OpClientDial
  <1> QED
    BY <1>1, <1>2, <1>3, <1>4, <1>5, <1>6, <1>7, <1>8, <1>9 DEF MonStep

LEMMA SoleIssue ==
  ASSUME ConnectionOnly, TypeInv, SoleInv, NEW c \in Requests, IssueCommand(c)
  PROVE  SoleCore'
  <1>1. c.name \in SoleCommands /\ c.flag = FALSE
    BY DEF ConnectionOnly, Requests
  <1>2. crossed => crossed'
    BY CrossingKept DEF SoleInv, Next
  <1> QED
    BY <1>1, <1>2 DEF IssueCommand, FirstPoint, Ungated, SoleCommands, SoleCore, SoleInv,
       SolePoints, OneRequest, StatusTells, SessionTold, Requested, Connecting, Online,
       ConnectPoints, SoleMainPoints, OnlinePoints, Goto, TypeInv, PointsOK, Tasks

LEMMA SoleEnvironment ==
  ASSUME TypeInv, SoleInv, Environment \/ UNCHANGED vars
  PROVE  SoleCore'
  BY DEF Environment, LinkDrop, ServerCloses, ReconnectDue, vars, SoleCore, SoleInv,
     SolePoints, OneRequest, StatusTells, SessionTold, Requested, Connecting, Online

LEMMA SoleOneConnect ==
  ASSUME SoleInv
  PROVE  OneConnectOutstanding
  <1>1. ConnectQueued => queue = <<ConnectOp>>
    BY DEF SoleInv, OneRequest, ConnectQueued
  <1>2. \A i, j \in DOMAIN queue : i = j
    BY DEF SoleInv, OneRequest
  <1>3. pc["main"] = "c_status" => ~Requested
    BY DEF SoleInv, StatusTells
  <1> QED
    BY <1>1, <1>2, <1>3
       DEF OneConnectOutstanding, Accepting, ConnectRunning, Requested, SoleInv,
           OneRequest

(***************************************************************************)
(* The status is only moved by a task that still knows it, and until the   *)
(* first crossing a session is only opened by the monitor answering a      *)
(* request: each step is a step of the connection service or leaves status *)
(* and session alone.                                                      *)
(***************************************************************************)
LEMMA ServiceKeepers ==
  ASSUME UNCHANGED <<status, link>>, crossed => crossed'
  PROVE  Service!Next \/ UNCHANGED Service!serviceVars
  BY DEF Service!Next, Service!Close, Service!serviceVars

LEMMA ServiceCloses ==
  ASSUME UNCHANGED status, link' # "gprs" \/ crossed'
  PROVE  Service!Next
  BY DEF Service!Next, Service!Close

LEMMA ServiceMain ==
  ASSUME TypeInv, SoleInv, MainStep
  PROVE  Service!Next \/ UNCHANGED Service!serviceVars
  <1>0. crossed => crossed'
    BY CrossingKept DEF SoleInv, Next
  <1>1. CASE BeginSetStatus
    <2>1. status = "DISCONNECTING" /\ status' = "DISCONNECTED" /\ link' = link
      BY <1>1 DEF BeginSetStatus, SoleInv, StatusTells
    <2>2. crossed' = crossed
      BY <1>1, GotoMain DEF BeginSetStatus, Goto, Crossing, InModem, ModemPoints,
                            MainPoints, TypeInv, PointsOK
    <2> QED
      BY <2>1, <2>2 DEF Service!Next, Service!Begin
  <1>2. CASE ConnectSetStatus
    <2>1. status = "DISCONNECTED" /\ status' = "CONNECTING" /\ link' = link
      BY <1>2 DEF ConnectSetStatus, SoleInv, StatusTells
    <2>2. crossed' = crossed
      BY <1>2, GotoMain DEF ConnectSetStatus, Goto, Crossing, InModem, ModemPoints,
                            MainPoints, TypeInv, PointsOK
    <2> QED
      BY <2>1, <2>2 DEF Service!Next, Service!Request
  <1>3. CASE GetStatusDrop("main") \/ DisconnectSetStatus
    <2>1. pc["main"] \in {"gs_drop", "d_status"} /\ status' = "DISCONNECTED" /\ link' = link
      BY <1>3 DEF GetStatusDrop, DisconnectSetStatus
    <2>2. status = "CONNECTED" /\ (link # "gprs" \/ crossed)
      BY <2>1 DEF SoleInv, StatusTells, SessionTold, OnlinePoints, Online
    <2>3. crossed' = crossed
      BY <1>3, GotoMain DEF GetStatusDrop, DisconnectSetStatus, Finish, Goto, Crossing,
                            InModem, ModemPoints, MainPoints, TypeInv, PointsOK
    <2> QED
      BY <2>1, <2>2, <2>3 DEF Service!Next, Service!Leave
  <1>4. CASE DisconnectModem \/ DisconnectRetry
    <2>1. Alone("main")
      BY <1>4, MainAlone DEF DisconnectModem, DisconnectRetry, Online, OnlinePoints
    <2>2. status' = status /\ (link' = link \/ link' = "net")
      BY <1>4, <2>1 DEF DisconnectModem, DisconnectRetry
    <2> QED
      BY <1>0, <2>2, ServiceKeepers, ServiceCloses
  <1>5. CASE \/ BeginCreateTask \/ GetStatusRead("main") \/ GetStatusQuery("main")
             \/ Refuse \/ ConnectSetAuto \/ ConnectSend \/ DisconnectSetAuto
             \/ SetAutoReconnect \/ QueryBegin \/ QueryEnd
    BY <1>0, <1>5, ServiceKeepers
       DEF BeginCreateTask, GetStatusRead, GetStatusQuery, Refuse, ConnectSetAuto,
           ConnectSend, DisconnectSetAuto, SetAutoReconnect, QueryBegin, QueryEnd
  <1>6. CASE \/ AskSocket \/ SocketRefuse \/ ConnectClientAccept \/ ConnectClientSend
             \/ ConnectClientSync \/ ConnectClientDial \/ DisconnectClientBegin
             \/ DisconnectClientStop \/ HttpBegin \/ HttpSend
    BY <1>0, <1>6, ServiceKeepers
       DEF AskSocket, SocketRefuse, ConnectClientAccept, ConnectClientSend,
           ConnectClientSync, ConnectClientDial, DisconnectClientBegin,
           DisconnectClientStop, HttpBegin, HttpSend
  <1>7. CASE Power
    BY <1>7, ServiceCloses DEF Power
  <1> QED
    BY <1>1, <1>2, <1>3, <1>4, <1>5, <1>6, <1>7 DEF MainStep

LEMMA ServiceMon ==
  ASSUME TypeInv, SoleInv, MonStep
  PROVE  Service!Next \/ UNCHANGED Service!serviceVars
  <1>0. crossed => crossed'
    BY CrossingKept DEF SoleInv, Next
  <1>1. Connecting => status = "CONNECTING"
    BY DEF SoleInv, StatusTells, Requested
  <1>2. CASE OpConnectSetConnected \/ OpConnectSetFailed
    <2>1. /\ status = "CONNECTING" /\ status' \in {"CONNECTED", "DISCONNECTED"}
          /\ link' = link
      BY <1>1, <1>2 DEF OpConnectSetConnected, OpConnectSetFailed, Connecting, ConnectPoints
    <2>2. status' = "DISCONNECTED" => link # "gprs" \/ crossed
      BY <1>2 DEF OpConnectSetConnected, OpConnectSetFailed, SoleInv, SessionTold
    <2>3. crossed' = crossed
      <3>1. pc'["mon"] \in {"ar_done", "ar_check"}
        BY <1>2 DEF OpConnectSetConnected, OpConnectSetFailed, AfterConnect, Goto,
                    TypeInv, PointsOK, Tasks
      <3> QED
        BY <1>2, <3>1 DEF OpConnectSetConnected, OpConnectSetFailed, Goto, Crossing,
                          InModem, ModemPoints, TypeInv, PointsOK
    <2> QED
      BY <2>1, <2>2, <2>3 DEF Service!Next, Service!Answer
  <1>3. CASE GprsConnected
    <2>1. status = "CONNECTING" /\ status' = status /\ InModem("mon")
      BY <1>1, <1>3 DEF GprsConnected, Connecting, ConnectPoints, InModem, ModemPoints
    <2>2. CASE crossed'
      BY <2>1, <2>2, ServiceCloses
    <2>3. CASE ~crossed'
      <3>1. link' = "gprs"
        BY <1>0, <1>3, <2>1, <2>3, MonAlone DEF GprsConnected
      <3> QED
        BY <2>1, <2>3, <3>1 DEF Service!Next, Service!Open
    <2> QED
      BY <2>2, <2>3
  <1>4. CASE GprsFailed
    <2>1. status' = status /\ InModem("mon")
      BY <1>4 DEF GprsFailed, InModem, ModemPoints
    <2>2. ~crossed' => link' = link \/ link' = "net"
      BY <1>0, <1>4, <2>1, MonAlone DEF GprsFailed
    <2> QED
      BY <1>0, <2>1, <2>2, ServiceKeepers, ServiceCloses
  <1>5. CASE NetworkRestart \/ NetworkFound
    <2>1. status' = status /\ (link' = link \/ link' \in {"down", "net"})
      BY <1>5 DEF NetworkRestart, NetworkFound
    <2> QED
      BY <1>0, <2>1, ServiceKeepers, ServiceCloses
  <1>6. CASE \/ MonReceive \/ MonTimeout \/ AutoCheck \/ AutoRead \/ AutoQuery
             \/ AutoDone \/ OpConnectCheck \/ NetworkNotFound \/ NetworkVerify
             \/ OpClientBegin \/ OpClientDial
             \/ GetStatusRead("mon") \/ GetStatusQuery("mon")
    BY <1>0, <1>6, ServiceKeepers
       DEF MonReceive, MonTimeout, AutoCheck, AutoRead, AutoQuery, AutoDone,
           OpConnectCheck, NetworkNotFound, NetworkVerify, OpClientBegin,
           OpClientDial, GetStatusRead, GetStatusQuery
  <1>7. ~GetStatusDrop("mon")
    BY DEF GetStatusDrop, SoleInv, SolePoints, ConnectPoints
  <1> QED
    BY <1>2, <1>3, <1>4, <1>5, <1>6, <1>7 DEF MonStep

LEMMA ServiceStep ==
  ASSUME TypeInv, SoleInv, [Next]_vars
  PROVE  [Service!Next]_(Service!serviceVars)
  <1>0. crossed => crossed'
    BY CrossingKept DEF SoleInv
  <1>1. ASSUME NEW c \in Requests, IssueCommand(c)
        PROVE  Service!Next \/ UNCHANGED Service!serviceVars
    BY <1>0, <1>1, ServiceKeepers DEF IssueCommand
  <1>2. CASE LinkDrop
    <2>1. status' = status /\ link' \in {"down", "net"}
      BY <1>2 DEF LinkDrop
    <2> QED
      BY <2>1, ServiceCloses
  <1>3. CASE ServerCloses \/ ReconnectDue \/ UNCHANGED vars
    BY <1>0, <1>3, ServiceKeepers DEF ServerCloses, ReconnectDue, vars
  <1> QED
    BY <1>1, <1>2, <1>3, ServiceMain, ServiceMon DEF Next, Environment

LEMMA SoleAlways ==
  ASSUME ConnectionOnly
  PROVE  Spec => [](TypeInv /\ SoleInv)
  <1>1. TypeInv /\ SoleInv /\ [Next]_vars => SoleInv'
    <2> SUFFICES ASSUME TypeInv, SoleInv, [Next]_vars PROVE SoleInv'
      OBVIOUS
    <2>1. SoleCore'
      BY SoleMainStep, SoleMonStep, SoleIssue, SoleEnvironment DEF Next
    <2>2. CrossingNoted'
      BY CrossingKept DEF SoleInv
    <2> QED
      BY <2>1, <2>2 DEF SoleInv, SoleCore
  <1> QED
    BY InitSoleInv, <1>1, TypeInvAlways, PTL DEF Spec

(* Both tasks are in the modem only when main runs POWER, DISCONNECT_CLIENT*)
(* or ISCLIENTCONNECTED, which do not look at the status, for every set of *)
(* commands but those that make the monitor do more than answer CONNECT.   *)
(* All other commands are kept apart from the monitor by the status alone, *)
(* which is read and set in critical sections that end before the modem is *)
(* used, and which stays right although the commands that do cross mix up  *)
(* the monitor's answers (ConnectionManager.cpp:137, 744, 963).            *)
THEOREM StatusKeepsTasksApart ==
  ASSUME ConnectionOnly
  PROVE  Spec => []ModemExclusive
  <1>1. TypeInv /\ SoleInv => ModemExclusive
    BY SoleExclusive
  <1> QED
    BY SoleAlways, <1>1, PTL

(* For the same user, connectAsync() lets one request in at a time although*)
(* it checks the status, sets it and queues the request in critical        *)
(* sections of their own (ConnectionManager.cpp:420-446).                  *)
THEOREM OneRequestAtATime ==
  ASSUME ConnectionOnly
  PROVE  Spec => []OneConnectOutstanding
  <1>1. TypeInv /\ SoleInv => OneConnectOutstanding
    BY SoleOneConnect
  <1> QED
    BY SoleAlways, <1>1, PTL

(* For the same user, and until both tasks have been in the modem at once, *)
(* a status of DISCONNECTED with both tasks idle means that no session is  *)
(* open, which DISCONNECT would refuse to close                            *)
(* (ConnectionManager.cpp:200-253, 313-324).                               *)
THEOREM NoSessionIsOrphaned ==
  ASSUME ConnectionOnly
  PROVE  Spec => [](~crossed => NoOrphanSession)
  <1>1. TypeInv /\ SoleInv => (~crossed => NoOrphanSession)
    BY DEF NoOrphanSession, SoleInv, SessionTold
  <1> QED
    BY SoleAlways, <1>1, PTL

(* For the same user, the manager implements the connection service: the   *)
(* status that connectAsync(), disconnect(), getConnectionStatus() or the  *)
(* monitor moves is still the one it looked at, and, until both tasks have *)
(* been in the modem at once, no session is open behind a status that      *)
(* denies it (ConnectionManager.cpp:137-174, 200-253, 420-453).            *)
THEOREM ImplementsService ==
  ASSUME ConnectionOnly
  PROVE  Spec => KeepsService
  <1>1. Init => Service!Init
    BY DEF Init, Service!Init
  <1>2. TypeInv /\ SoleInv /\ [Next]_vars => [Service!Next]_(Service!serviceVars)
    BY ServiceStep
  <1> QED
    BY SoleAlways, <1>1, <1>2, PTL DEF Spec, KeepsService, Service!Spec

-----------------------------------------------------------------------------
(***************************************************************************)
(* Without the synchronous connectClient(), which main.cpp does not call,  *)
(* only the monitor changes the server and dials.                          *)
(***************************************************************************)
Queued == "CONNECT_CLIENT_SYNC" \notin Commands

ServerInv ==
  /\ cmd.name # "CONNECT_CLIENT_SYNC" /\ pc["main"] # "cc_dial"
  /\ pc["main"] = "boot" => pc["mon"] = "absent"
  /\ pc["mon"] = "cc_dial" => currentServer = job.server
  /\ ServerIsCurrent

LEMMA ServerMain ==
  ASSUME TypeInv, ServerInv, MainStep
  PROVE  ServerInv'
  <1>1. /\ UNCHANGED <<currentServer, job>>
        /\ client' \in {client, NoServer}
        /\ pc'["mon"] = pc["mon"] \/ pc'["mon"] = "recv"
        /\ pc["mon"] = "cc_dial" => pc'["mon"] = "cc_dial"
        /\ pc'["main"] \notin {"cc_dial", "boot"}
    <2>1. CASE BeginCreateTask
      BY <2>1 DEF BeginCreateTask, TypeInv, PointsOK, Tasks, ServerInv
    <2>2. CASE \/ BeginSetStatus \/ GetStatusRead("main") \/ GetStatusQuery("main")
               \/ GetStatusDrop("main") \/ ConnectSetAuto \/ ConnectSetStatus
               \/ DisconnectSetAuto \/ DisconnectModem \/ DisconnectRetry
               \/ QueryBegin \/ AskSocket \/ ConnectClientAccept
               \/ DisconnectClientBegin \/ HttpBegin
      BY <2>2 DEF BeginSetStatus, GetStatusRead, GetStatusQuery, GetStatusDrop,
                  ConnectSetAuto, ConnectSetStatus, DisconnectSetAuto, DisconnectModem,
                  DisconnectRetry, QueryBegin, AskSocket, ConnectClientAccept,
                  DisconnectClientBegin, HttpBegin, Finish, Goto, TypeInv, PointsOK, Tasks
    <2>3. CASE \/ Refuse \/ ConnectSend \/ DisconnectSetStatus \/ SetAutoReconnect
               \/ QueryEnd \/ Power \/ SocketRefuse \/ ConnectClientSend
               \/ DisconnectClientStop \/ HttpSend
      BY <2>3 DEF Refuse, ConnectSend, DisconnectSetStatus, SetAutoReconnect, QueryEnd,
                  Power, SocketRefuse, ConnectClientSend, DisconnectClientStop, HttpSend, Finish,
                  TypeInv, PointsOK, Tasks
    <2>4. ~ConnectClientSync /\ ~ConnectClientDial
      BY DEF ConnectClientSync, ConnectClientDial, SocketFound, ServerInv
    <2> QED
      BY <2>1, <2>2, <2>3, <2>4 DEF MainStep
  <1>2. cmd'.name # "CONNECT_CLIENT_SYNC"
    <2>1. cmd' \in {cmd, NoCommand}
      BY DEF MainStep, BeginCreateTask, BeginSetStatus, GetStatusRead, GetStatusQuery,
             GetStatusDrop, ConnectSetAuto, ConnectSetStatus, DisconnectSetAuto,
             DisconnectModem, DisconnectRetry, QueryBegin, AskSocket, ConnectClientAccept,
             HttpBegin, Refuse, ConnectSend, DisconnectSetStatus, SetAutoReconnect, QueryEnd,
             Power, SocketRefuse, ConnectClientSend, DisconnectClientBegin,
             DisconnectClientStop, HttpSend, ConnectClientSync, ConnectClientDial, Finish
    <2> QED
      BY <2>1, NoCommandOK DEF ServerInv
  <1> QED
    BY <1>1, <1>2 DEF ServerInv, ServerIsCurrent

LEMMA ServerMon ==
  ASSUME TypeInv, ServerInv, MonStep
  PROVE  ServerInv'
  <1> USE DEF ServerInv, ServerIsCurrent
  <1>1. UNCHANGED cmd /\ pc'["main"] = pc["main"]
    BY DEF MonStep, MonReceive, MonTimeout, AutoCheck, AutoRead, AutoQuery, AutoDone,
           OpConnectCheck, NetworkRestart, NetworkFound, NetworkNotFound, NetworkVerify,
           GprsConnected, GprsFailed, OpConnectSetConnected, OpConnectSetFailed,
           GetStatusRead, GetStatusQuery, GetStatusDrop, OpClientBegin, OpClientDial,
           Goto, TypeInv, PointsOK, Tasks
  <1>2. CASE OpClientBegin
    BY <1>1, <1>2 DEF OpClientBegin, Goto, TypeInv, PointsOK, Tasks
  <1>3. CASE OpClientDial
    BY <1>1, <1>3 DEF OpClientDial, Dial, Goto, TypeInv, PointsOK, Tasks
  <1>4. CASE MonReceive \/ MonTimeout \/ AutoCheck \/ AutoRead \/ AutoQuery \/ AutoDone
    <2>1. /\ UNCHANGED <<currentServer, client>>
          /\ pc["mon"] # "cc_dial" /\ pc'["mon"] # "cc_dial" /\ pc["mon"] # "absent"
      BY <1>4 DEF MonReceive, MonTimeout, AutoCheck, AutoRead, AutoQuery, AutoDone,
                  Goto, TypeInv, PointsOK, Tasks
    <2> QED
      BY <1>1, <2>1
  <1>5. CASE \/ OpConnectCheck \/ NetworkRestart \/ NetworkFound
             \/ NetworkNotFound \/ NetworkVerify \/ GprsConnected \/ GprsFailed
             \/ OpConnectSetConnected \/ OpConnectSetFailed
    <2>1. /\ UNCHANGED <<currentServer, client>>
          /\ pc["mon"] # "cc_dial" /\ pc'["mon"] # "cc_dial" /\ pc["mon"] # "absent"
      BY <1>5 DEF OpConnectCheck, NetworkRestart, NetworkFound,
                  NetworkNotFound, NetworkVerify, GprsConnected, GprsFailed,
                  OpConnectSetConnected, OpConnectSetFailed,
                  AfterConnect, Goto, TypeInv, PointsOK, Tasks
    <2> QED
      BY <1>1, <2>1
  <1>6. CASE GetStatusRead("mon") \/ GetStatusQuery("mon") \/ GetStatusDrop("mon")
    <2>1. /\ UNCHANGED <<currentServer, client>>
          /\ pc["mon"] # "cc_dial" /\ pc'["mon"] # "cc_dial" /\ pc["mon"] # "absent"
      BY <1>6 DEF GetStatusRead, GetStatusQuery, GetStatusDrop,
                  Goto, TypeInv, PointsOK, Tasks
    <2> QED
      BY <1>1, <2>1
  <1> QED
    BY <1>2, <1>3, <1>4, <1>5, <1>6 DEF MonStep

(* The Host header names the server that the socket is open to, except     *)
(* between the steps in which the monitor records the next server and      *)
(* dials it: for every set of commands that queue their client operations, *)
(* with auto-reconnect and with the modem's answers mixed up.              *)
THEOREM HostIsTheServer ==
  ASSUME Queued
  PROVE  Spec => []ServerIsCurrent
  <1>1. Init => ServerInv
    BY DEF Init, ServerInv, ServerIsCurrent, NoCommand, Tasks
  <1>2. TypeInv /\ ServerInv /\ [Next]_vars => ServerInv'
    <2> SUFFICES ASSUME TypeInv, ServerInv, [Next]_vars
                 PROVE  ServerInv'
      OBVIOUS
    <2>1. CASE MainStep
      BY <2>1, ServerMain
    <2>2. CASE MonStep
      BY <2>2, ServerMon
    <2>3. ASSUME NEW c \in Requests, IssueCommand(c) PROVE ServerInv'
      <3>1. c.name # "CONNECT_CLIENT_SYNC"
        BY DEF Requests, Queued
      <3> QED
        BY <2>3, <3>1 DEF IssueCommand, FirstPoint, Goto, ServerInv, ServerIsCurrent, TypeInv,
                          PointsOK, Tasks
    <2>4. CASE Environment \/ UNCHANGED vars
      BY <2>4 DEF Environment, LinkDrop, ServerCloses, ReconnectDue, vars, ServerInv,
                  ServerIsCurrent
    <2> QED
      BY <2>1, <2>2, <2>3, <2>4 DEF Next
  <1> QED
    <2>1. ServerInv => ServerIsCurrent
      BY DEF ServerInv
    <2> QED
      BY <1>1, <1>2, <2>1, TypeInvAlways, PTL DEF Spec
=============================================================================
