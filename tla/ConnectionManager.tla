------------------------- MODULE ConnectionManager -------------------------
(***************************************************************************)
(* The GSM connection manager of TinyGSM_AllFunctions.  Two FreeRTOS tasks *)
(* share it: "main" is loop() in main.cpp, which runs one serial command   *)
(* at a time, and "mon" is OperationMonitor, which takes queued operations *)
(* and, every 60 s, looks for a link to reconnect.  Every critical section *)
(* of m_lock holds one read or one assignment, so each is one step here,   *)
(* and the mutex itself is left out; every modem call is a step of its     *)
(* own, so whatever a task learned from the modem or from the status may   *)
(* be stale by its next step.                                              *)
(***************************************************************************)
EXTENDS Naturals, Sequences

CONSTANTS
  Commands,       \* the serial commands that are given to loop()
  Servers,        \* the hosts a client can be connected to
  NoServer,       \* no host: the client is not connected
  AutoValues,     \* the values SET_AUTO_RECONNECT and connectAsync may set
  MixedAnswers,   \* whether tasks that use the modem at once mix its answers
  QueueCapacity   \* 20 in the code: xQueueCreate(20, ...)

AllCommands ==
  {"CONNECT", "DISCONNECT", "ISCONNECTED", "QUERY", "SET_AUTO_RECONNECT",
   "CONNECT_CLIENT", "CONNECT_CLIENT_SYNC", "DISCONNECT_CLIENT",
   "ISCLIENTCONNECTED", "HTTP", "POWER"}

ASSUME ConstantsAssumption ==
  /\ Commands \subseteq AllCommands
  /\ NoServer \notin Servers
  /\ AutoValues \subseteq BOOLEAN
  /\ MixedAnswers \in BOOLEAN
  /\ QueueCapacity \in Nat \ {0}

VARIABLES
  status,         \* g_connectionStatus
  autoReconnect,  \* g_connectionSettings.AutoReconnect
  queue,          \* g_connectionOperationQueue
  currentServer,  \* g_currentServer
  due,            \* millis() - g_lastReconnectCheck has reached 60000
  link,           \* what the modem is attached to: nothing, the network, GPRS
  client,         \* the host the TinyGsmClient socket is open to
  pc,             \* where each task is
  seen,           \* what each task's getConnectionStatus() has returned
  cmd,            \* the command main is running
  job,            \* the operation mon is running
  crossed         \* history: both tasks have been in the modem at once

vars == <<status, autoReconnect, queue, currentServer, due, link, client,
          pc, seen, cmd, job, crossed>>

Status == {"DISCONNECTING", "DISCONNECTED", "CONNECTING", "CONNECTED"}
Links  == {"down", "net", "gprs"}
Tasks  == {"main", "mon"}

Command   == [name : AllCommands, server : Servers \cup {NoServer}, flag : BOOLEAN]
NoCommand == [name |-> "ISCONNECTED", server |-> NoServer, flag |-> FALSE]

ConnectOp        == [kind |-> "connect", server |-> NoServer]
ClientOp(s)      == [kind |-> "client", server |-> s]
AutoReconnectJob == [kind |-> "auto", server |-> NoServer]
Operation        == {ConnectOp} \cup {ClientOp(s) : s \in Servers}

MainPoints == {"boot", "bootStatus", "idle", "gs_read", "gs_query", "gs_drop",
               "body", "c_status", "c_send", "d_gprs", "d_status", "query",
               "power", "cc_look", "cc_send", "cc_dial", "cc_stop", "h_send"}
ConnectPoints == {"oc_check", "cn_restart", "cn_wait", "cn_verify", "oc_gprs",
                  "oc_info", "oc_fail"}
MonPoints == {"absent", "recv", "gs_read", "gs_query", "gs_drop", "body",
              "cc_dial", "ar_check", "ar_read", "ar_query", "ar_done"}
             \cup ConnectPoints

(* The points at which a task is exchanging AT commands with the modem.    *)
ModemPoints == {"gs_query", "d_gprs", "query", "power", "cc_look", "cc_dial",
                "cc_stop", "h_send", "oc_check", "cn_restart", "cn_wait",
                "cn_verify", "oc_gprs", "oc_info", "ar_query"}
InModem(t) == pc[t] \in ModemPoints
Crossing   == InModem("main") /\ InModem("mon")

Other(t) == IF t = "main" THEN "mon" ELSE "main"

(***************************************************************************)
(* The modem object has no lock of its own: while both tasks talk to it    *)
(* over the same serial line either can take the other's answer, so the    *)
(* result of a call, and what the call leaves the modem attached to, are   *)
(* arbitrary.  MixedAnswers = FALSE leaves that out, to show what goes     *)
(* wrong, or comes right, even when every answer is true.                  *)
(***************************************************************************)
Alone(t) == MixedAnswers => ~InModem(Other(t))

Answer(t, truth) == IF Alone(t) THEN {truth} ELSE BOOLEAN

(***************************************************************************)
(* An operator named Faulty... is a slip the code could have had and does  *)
(* not: no specification uses it.  Put in place of the definition that     *)
(* follows it, it breaks a property (the README has the list).             *)
(***************************************************************************)
-----------------------------------------------------------------------------
(* g_connectionStatus is a zero-initialised global: DISCONNECTING is 0x00. *)
Init ==
  /\ status = "DISCONNECTING"
  /\ autoReconnect = FALSE
  /\ queue = <<>>
  /\ currentServer = NoServer
  /\ due = FALSE
  /\ link = "down"
  /\ client = NoServer
  /\ pc = [t \in Tasks |-> IF t = "main" THEN "boot" ELSE "absent"]
  /\ seen = [t \in Tasks |-> "DISCONNECTED"]
  /\ cmd = NoCommand
  /\ job = ConnectOp
  /\ crossed = FALSE

Goto(t, p) ==
  /\ pc' = [pc EXCEPT ![t] = p]
  /\ crossed' = (crossed \/ Crossing')

(* Main is done with its command.                                          *)
Finish ==
  /\ pc' = [pc EXCEPT !["main"] = "idle"]
  /\ seen' = [seen EXCEPT !["main"] = "DISCONNECTED"]
  /\ cmd' = NoCommand
  /\ UNCHANGED crossed

(* begin() creates the monitor before it sets the first status.            *)
BeginCreateTask ==
  /\ pc["main"] = "boot"
  /\ pc' = [pc EXCEPT !["main"] = "bootStatus", !["mon"] = "recv"]
  /\ UNCHANGED <<status, autoReconnect, queue, currentServer, due, link,
                 client, seen, cmd, job, crossed>>

BeginSetStatus ==
  /\ pc["main"] = "bootStatus"
  /\ status' = "DISCONNECTED"
  /\ Goto("main", "idle")
  /\ UNCHANGED <<autoReconnect, queue, currentServer, due, link, client, seen,
                 cmd, job>>

(* The commands loop() can be given: a server where the command names one, *)
(* a flag for CONNECT and SET_AUTO_RECONNECT.                              *)
Requests ==
  {c \in Command :
     /\ c.name \in Commands
     /\ (c.server # NoServer) <=> (c.name \in {"CONNECT_CLIENT", "CONNECT_CLIENT_SYNC"})
     /\ IF c.name \in {"CONNECT", "SET_AUTO_RECONNECT"} THEN c.flag \in AutoValues
                                                        ELSE c.flag = FALSE}

(* The commands that go to the modem whatever the status is.               *)
Ungated == {"POWER", "DISCONNECT_CLIENT", "ISCLIENTCONNECTED"}

FirstPoint(name) ==
  CASE name = "POWER" -> "power"
    [] name \in {"DISCONNECT_CLIENT", "ISCLIENTCONNECTED"} -> "cc_look"
    [] name = "SET_AUTO_RECONNECT" -> "body"
    [] OTHER -> "gs_read"

(* loop() reads a command; most of them begin with getConnectionStatus().  *)
IssueCommand(c) ==
  /\ pc["main"] = "idle"
  /\ cmd' = c
  /\ Goto("main", FirstPoint(c.name))
  /\ UNCHANGED <<status, autoReconnect, queue, currentServer, due, link,
                 client, seen, job>>

-----------------------------------------------------------------------------
(* getConnectionStatus(), run by either task: the status is read under the *)
(* lock, the modem is asked after the lock is released, and a link found   *)
(* down is written back as DISCONNECTED whatever the status is by then.    *)
GetStatusRead(t) ==
  /\ pc[t] = "gs_read"
  /\ seen' = [seen EXCEPT ![t] = status]
  /\ Goto(t, IF status = "CONNECTED" THEN "gs_query" ELSE "body")
  /\ UNCHANGED <<status, autoReconnect, queue, currentServer, due, link,
                 client, cmd, job>>

GetStatusQuery(t) ==
  /\ pc[t] = "gs_query"
  /\ \E up \in Answer(t, link = "gprs") :
       Goto(t, IF up THEN "body" ELSE "gs_drop")
  /\ UNCHANGED <<status, autoReconnect, queue, currentServer, due, link,
                 client, seen, cmd, job>>

GetStatusDrop(t) ==
  /\ pc[t] = "gs_drop"
  /\ status' = "DISCONNECTED"
  /\ seen' = [seen EXCEPT ![t] = "DISCONNECTED"]
  /\ Goto(t, "body")
  /\ UNCHANGED <<autoReconnect, queue, currentServer, due, link, client, cmd,
                 job>>

-----------------------------------------------------------------------------
(* Main's commands, after the status check.                                *)
MainBody(name) == pc["main"] = "body" /\ cmd.name = name

SocketCommands == {"CONNECT_CLIENT", "CONNECT_CLIENT_SYNC", "HTTP"}

OnlineOnly == {"DISCONNECT", "QUERY"} \cup SocketCommands

(* A request is refused only when a session is up.                         *)
FaultyRefusedConnect ==
  \/ cmd.name = "ISCONNECTED"
  \/ cmd.name = "CONNECT" /\ seen["main"] = "CONNECTED"
  \/ cmd.name \in OnlineOnly /\ seen["main"] # "CONNECTED"

(* DISCONNECT is let in while a connection is being made.                  *)
FaultyRefusedDisconnect ==
  \/ cmd.name = "ISCONNECTED"
  \/ cmd.name = "CONNECT" /\ seen["main"] # "DISCONNECTED"
  \/ cmd.name = "DISCONNECT" /\ seen["main"] = "DISCONNECTED"
  \/ cmd.name \in OnlineOnly \ {"DISCONNECT"} /\ seen["main"] # "CONNECTED"

(* The status each command needs to go on; ISCONNECTED only reports it.    *)
Refused ==
  \/ cmd.name = "ISCONNECTED"
  \/ cmd.name = "CONNECT" /\ seen["main"] # "DISCONNECTED"
  \/ cmd.name \in OnlineOnly /\ seen["main"] # "CONNECTED"

Refuse ==
  /\ pc["main"] = "body"
  /\ Refused
  /\ Finish
  /\ UNCHANGED <<status, autoReconnect, queue, currentServer, due, link,
                 client, job>>

(* connectAsync(): auto-reconnect, then the status, then the queue, each   *)
(* in a critical section of its own.                                       *)
ConnectSetAuto ==
  /\ MainBody("CONNECT") /\ ~Refused
  /\ autoReconnect' = cmd.flag
  /\ Goto("main", "c_status")
  /\ UNCHANGED <<status, queue, currentServer, due, link, client, seen, cmd,
                 job>>

ConnectSetStatus ==
  /\ pc["main"] = "c_status"
  /\ status' = "CONNECTING"
  /\ Goto("main", "c_send")
  /\ UNCHANGED <<autoReconnect, queue, currentServer, due, link, client, seen,
                 cmd, job>>

(* No wait for room, and no look at the result.                            *)
FaultyEnqueue(op) == queue' = Append(queue, op)

(* xQueueSend(..., portMAX_DELAY) waits for room.                          *)
Enqueue(op) == Len(queue) < QueueCapacity /\ queue' = Append(queue, op)

ConnectSend ==
  /\ pc["main"] = "c_send"
  /\ Enqueue(ConnectOp)
  /\ Finish
  /\ UNCHANGED <<status, autoReconnect, currentServer, due, link, client, job>>

(* disconnect() runs operationDisconnect() in main, not through the queue. *)
DisconnectSetAuto ==
  /\ MainBody("DISCONNECT") /\ ~Refused
  /\ autoReconnect' = FALSE
  /\ Goto("main", "d_gprs")
  /\ UNCHANGED <<status, queue, currentServer, due, link, client, seen, cmd,
                 job>>

(* gprsDisconnect() is retried until it answers that it succeeded.         *)
DisconnectModem ==
  /\ pc["main"] = "d_gprs"
  /\ link' \in IF Alone("main") THEN {IF link = "gprs" THEN "net" ELSE link}
                                ELSE Links
  /\ Goto("main", "d_status")
  /\ UNCHANGED <<status, autoReconnect, queue, currentServer, due, client,
                 seen, cmd, job>>

(* One failed gprsDisconnect() is taken for a success.                     *)
FaultyDisconnectRetry ==
  /\ pc["main"] = "d_gprs"
  /\ link' \in IF Alone("main") THEN {link} ELSE Links
  /\ Goto("main", "d_status")
  /\ UNCHANGED <<status, autoReconnect, queue, currentServer, due, client,
                 seen, cmd, job>>

DisconnectRetry ==
  /\ pc["main"] = "d_gprs"
  /\ link' \in IF Alone("main") THEN {link} ELSE Links
  /\ UNCHANGED <<status, autoReconnect, queue, currentServer, due, client, pc,
                 seen, cmd, job, crossed>>

DisconnectSetStatus ==
  /\ pc["main"] = "d_status"
  /\ status' = "DISCONNECTED"
  /\ Finish
  /\ UNCHANGED <<autoReconnect, queue, currentServer, due, link, client, job>>

SetAutoReconnect ==
  /\ MainBody("SET_AUTO_RECONNECT")
  /\ autoReconnect' = cmd.flag
  /\ Finish
  /\ UNCHANGED <<status, queue, currentServer, due, link, client, job>>

(* getSimCCID() ... sendSMS(): one exchange with the modem once the status *)
(* said CONNECTED; nothing of this state changes.                          *)
QueryBegin ==
  /\ MainBody("QUERY") /\ ~Refused
  /\ Goto("main", "query")
  /\ UNCHANGED <<status, autoReconnect, queue, currentServer, due, link,
                 client, seen, cmd, job>>

QueryEnd ==
  /\ pc["main"] = "query"
  /\ Finish
  /\ UNCHANGED <<status, autoReconnect, queue, currentServer, due, link,
                 client, job>>

(* power() toggles the power pin and drains the serial line: the modem     *)
(* goes down, and no variable of the manager is told.                      *)
Power ==
  /\ pc["main"] = "power"
  /\ link' = "down"
  /\ Finish
  /\ UNCHANGED <<status, autoReconnect, queue, currentServer, due, client, job>>

(* client.connected(), which asks the modem for what the socket received.  *)
AskSocket ==
  /\ pc["main"] = "body" /\ cmd.name \in SocketCommands /\ ~Refused
  /\ Goto("main", "cc_look")
  /\ UNCHANGED <<status, autoReconnect, queue, currentServer, due, link,
                 client, seen, cmd, job>>

SocketFound(name, open) ==
  /\ pc["main"] = "cc_look" /\ cmd.name = name
  /\ open \in Answer("main", client # NoServer)

(* A second connection, a transfer or a close without one, a mere question.*)
SocketRefuse ==
  /\ \/ \E name \in {"CONNECT_CLIENT", "CONNECT_CLIENT_SYNC"} : SocketFound(name, TRUE)
     \/ \E name \in {"HTTP", "DISCONNECT_CLIENT"} : SocketFound(name, FALSE)
     \/ \E open \in BOOLEAN : SocketFound("ISCLIENTCONNECTED", open)
  /\ Finish
  /\ UNCHANGED <<status, autoReconnect, queue, currentServer, due, link,
                 client, job>>

(* connectClientAsync(): the socket is looked at now, dialled by mon later.*)
ConnectClientAccept ==
  /\ SocketFound("CONNECT_CLIENT", FALSE)
  /\ Goto("main", "cc_send")
  /\ UNCHANGED <<status, autoReconnect, queue, currentServer, due, link,
                 client, seen, cmd, job>>

ConnectClientSend ==
  /\ pc["main"] = "cc_send"
  /\ Enqueue(ClientOp(cmd.server))
  /\ Finish
  /\ UNCHANGED <<status, autoReconnect, currentServer, due, link, client, job>>

(* connectClient(), the synchronous call of the class, dials in main.      *)
ConnectClientSync ==
  /\ SocketFound("CONNECT_CLIENT_SYNC", FALSE)
  /\ currentServer' = cmd.server
  /\ Goto("main", "cc_dial")
  /\ UNCHANGED <<status, autoReconnect, queue, due, link, client, seen, cmd,
                 job>>

(* TinyGsmClient::connect() closes the socket before it dials.             *)
Dial(t, server) ==
  \E ok \in IF Alone(t) /\ link # "gprs" THEN {FALSE} ELSE BOOLEAN :
     client' = IF ok THEN server ELSE NoServer

ConnectClientDial ==
  /\ pc["main"] = "cc_dial"
  /\ Dial("main", cmd.server)
  /\ Finish
  /\ UNCHANGED <<status, autoReconnect, queue, currentServer, due, link, job>>

(* disconnectClient(): stop() if connected, an error if not; it looks at   *)
(* no status, and the monitor may be in the modem.                         *)
DisconnectClientBegin ==
  /\ SocketFound("DISCONNECT_CLIENT", TRUE)
  /\ Goto("main", "cc_stop")
  /\ UNCHANGED <<status, autoReconnect, queue, currentServer, due, link,
                 client, seen, cmd, job>>

DisconnectClientStop ==
  /\ pc["main"] = "cc_stop"
  /\ client' = NoServer
  /\ Finish
  /\ UNCHANGED <<status, autoReconnect, queue, currentServer, due, link, job>>

(* httpGet(), downloadFile() and write() use the socket they looked at;    *)
(* the first two name currentServer in the request's Host header.          *)
HttpBegin ==
  /\ SocketFound("HTTP", TRUE)
  /\ Goto("main", "h_send")
  /\ UNCHANGED <<status, autoReconnect, queue, currentServer, due, link,
                 client, seen, cmd, job>>

HttpSend ==
  /\ pc["main"] = "h_send"
  /\ Finish
  /\ UNCHANGED <<status, autoReconnect, queue, currentServer, due, link,
                 client, job>>

-----------------------------------------------------------------------------
(* The operation is peeked at and stays in the queue.                      *)
FaultyMonReceive ==
  /\ pc["mon"] = "recv"
  /\ queue # <<>>
  /\ job' = Head(queue)
  /\ Goto("mon", IF Head(queue).kind = "connect" THEN "oc_check" ELSE "gs_read")
  /\ UNCHANGED <<status, autoReconnect, queue, currentServer, due, link, client,
                 seen, cmd>>

(* OperationMonitor: processOperationQueue(), then doAutoReconnect().      *)
MonReceive ==
  /\ pc["mon"] = "recv"
  /\ queue # <<>>
  /\ job' = Head(queue)
  /\ queue' = Tail(queue)
  /\ Goto("mon", IF Head(queue).kind = "connect" THEN "oc_check" ELSE "gs_read")
  /\ UNCHANGED <<status, autoReconnect, currentServer, due, link, client, seen,
                 cmd>>

MonTimeout ==
  /\ pc["mon"] = "recv"
  /\ queue = <<>>
  /\ Goto("mon", "ar_check")
  /\ UNCHANGED <<status, autoReconnect, queue, currentServer, due, link,
                 client, seen, cmd, job>>

(* doAutoReconnect() returns early unless the flag, which it reads without *)
(* the lock, is set and 60 s have passed; then it reads the status.        *)
AutoCheck ==
  /\ pc["mon"] = "ar_check"
  /\ Goto("mon", IF autoReconnect /\ due THEN "ar_read" ELSE "recv")
  /\ UNCHANGED <<status, autoReconnect, queue, currentServer, due, link,
                 client, seen, cmd, job>>

AutoRead ==
  /\ pc["mon"] = "ar_read"
  /\ Goto("mon", IF status = "CONNECTED" THEN "ar_query" ELSE "ar_done")
  /\ UNCHANGED <<status, autoReconnect, queue, currentServer, due, link,
                 client, seen, cmd, job>>

(* The network is asked about, the GPRS session is not.                    *)
FaultyAutoQuery ==
  /\ pc["mon"] = "ar_query"
  /\ \E up \in Answer("mon", link # "down") :
       /\ Goto("mon", IF up THEN "ar_done" ELSE "oc_check")
       /\ job' = IF up THEN job ELSE AutoReconnectJob
  /\ UNCHANGED <<status, autoReconnect, queue, currentServer, due, link,
                 client, seen, cmd>>

AutoQuery ==
  /\ pc["mon"] = "ar_query"
  /\ \E up \in Answer("mon", link = "gprs") :
       /\ Goto("mon", IF up THEN "ar_done" ELSE "oc_check")
       /\ job' = IF up THEN job ELSE AutoReconnectJob
  /\ UNCHANGED <<status, autoReconnect, queue, currentServer, due, link,
                 client, seen, cmd>>

AutoDone ==
  /\ pc["mon"] = "ar_done"
  /\ due' = FALSE
  /\ Goto("mon", "recv")
  /\ UNCHANGED <<status, autoReconnect, queue, currentServer, link, client,
                 seen, cmd, job>>

(* operationConnect(): attach to the network if the modem is not, with a   *)
(* restart of the modem in every round of connectNetwork().                *)
OpConnectCheck ==
  /\ pc["mon"] = "oc_check"
  /\ \E up \in Answer("mon", link # "down") :
       Goto("mon", IF up THEN "oc_gprs" ELSE "cn_restart")
  /\ UNCHANGED <<status, autoReconnect, queue, currentServer, due, link,
                 client, seen, cmd, job>>

NetworkRestart ==
  /\ pc["mon"] = "cn_restart"
  /\ \/ /\ link' = "down"
        /\ Goto("mon", "cn_wait")
     \/ /\ link' \in {link, "down"}
        /\ UNCHANGED <<pc, crossed>>
  /\ UNCHANGED <<status, autoReconnect, queue, currentServer, due, client,
                 seen, cmd, job>>

NetworkFound ==
  /\ pc["mon"] = "cn_wait"
  /\ link' = "net"
  /\ Goto("mon", "cn_verify")
  /\ UNCHANGED <<status, autoReconnect, queue, currentServer, due, client,
                 seen, cmd, job>>

NetworkNotFound ==
  /\ pc["mon"] = "cn_wait"
  /\ Goto("mon", "cn_restart")
  /\ UNCHANGED <<status, autoReconnect, queue, currentServer, due, link,
                 client, seen, cmd, job>>

NetworkVerify ==
  /\ pc["mon"] = "cn_verify"
  /\ \E up \in Answer("mon", link # "down") :
       Goto("mon", IF up THEN "oc_gprs" ELSE "cn_restart")
  /\ UNCHANGED <<status, autoReconnect, queue, currentServer, due, link,
                 client, seen, cmd, job>>

(* gprsConnect() drops a session before it opens one.                      *)
GprsConnected ==
  /\ pc["mon"] = "oc_gprs"
  /\ IF Alone("mon") THEN link # "down" /\ link' = "gprs" ELSE link' \in Links
  /\ Goto("mon", "oc_info")
  /\ UNCHANGED <<status, autoReconnect, queue, currentServer, due, client,
                 seen, cmd, job>>

GprsFailed ==
  /\ pc["mon"] = "oc_gprs"
  /\ link' \in IF Alone("mon") THEN {IF link = "gprs" THEN "net" ELSE link}
                               ELSE Links
  /\ Goto("mon", "oc_fail")
  /\ UNCHANGED <<status, autoReconnect, queue, currentServer, due, client,
                 seen, cmd, job>>

(* Back from operationConnect(): to the queue's caller, which runs the     *)
(* handler (main.cpp's only logs), or to doAutoReconnect().                *)
AfterConnect == IF job = AutoReconnectJob THEN "ar_done" ELSE "ar_check"

(* The SIM, operator, battery and clock queries, then the new status, with *)
(* no look at the link it is about.                                        *)
OpConnectSetConnected ==
  /\ pc["mon"] = "oc_info"
  /\ status' = "CONNECTED"
  /\ Goto("mon", AfterConnect)
  /\ UNCHANGED <<autoReconnect, queue, currentServer, due, link, client, seen,
                 cmd, job>>

(* A failed attempt returns its error and leaves the status.               *)
FaultyOpConnectSetFailed ==
  /\ pc["mon"] = "oc_fail"
  /\ Goto("mon", AfterConnect)
  /\ UNCHANGED <<status, autoReconnect, queue, currentServer, due, link,
                 client, seen, cmd, job>>

OpConnectSetFailed ==
  /\ pc["mon"] = "oc_fail"
  /\ status' = "DISCONNECTED"
  /\ Goto("mon", AfterConnect)
  /\ UNCHANGED <<autoReconnect, queue, currentServer, due, link, client, seen,
                 cmd, job>>

(* The asynchronous path does not record the server it dials.              *)
FaultyOpClientBegin ==
  /\ pc["mon"] = "body"
  /\ Goto("mon", IF seen["mon"] = "CONNECTED" THEN "cc_dial" ELSE "ar_check")
  /\ seen' = [seen EXCEPT !["mon"] = "DISCONNECTED"]
  /\ UNCHANGED <<status, autoReconnect, queue, currentServer, due, link, client,
                 cmd, job>>

(* operationConnectClient(), after its own getConnectionStatus(): the      *)
(* socket is not looked at again.                                          *)
OpClientBegin ==
  /\ pc["mon"] = "body"
  /\ IF seen["mon"] = "CONNECTED"
       THEN currentServer' = job.server /\ Goto("mon", "cc_dial")
       ELSE UNCHANGED currentServer /\ Goto("mon", "ar_check")
  /\ seen' = [seen EXCEPT !["mon"] = "DISCONNECTED"]
  /\ UNCHANGED <<status, autoReconnect, queue, due, link, client, cmd, job>>

OpClientDial ==
  /\ pc["mon"] = "cc_dial"
  /\ Dial("mon", job.server)
  /\ Goto("mon", "ar_check")
  /\ UNCHANGED <<status, autoReconnect, queue, currentServer, due, link, seen,
                 cmd, job>>

-----------------------------------------------------------------------------
(* What happens around the program: the network or the session is lost,    *)
(* the server closes the socket, 60 s pass.                                *)
LinkDrop ==
  /\ link # "down"
  /\ link' \in {"down", "net"} \ {link}
  /\ UNCHANGED <<status, autoReconnect, queue, currentServer, due, client, pc,
                 seen, cmd, job, crossed>>

ServerCloses ==
  /\ client # NoServer
  /\ client' = NoServer
  /\ UNCHANGED <<status, autoReconnect, queue, currentServer, due, link, pc,
                 seen, cmd, job, crossed>>

ReconnectDue ==
  /\ ~due
  /\ due' = TRUE
  /\ UNCHANGED <<status, autoReconnect, queue, currentServer, link, client, pc,
                 seen, cmd, job, crossed>>

-----------------------------------------------------------------------------
MainStep ==
  \/ BeginCreateTask \/ BeginSetStatus
  \/ GetStatusRead("main") \/ GetStatusQuery("main") \/ GetStatusDrop("main")
  \/ Refuse
  \/ ConnectSetAuto \/ ConnectSetStatus \/ ConnectSend
  \/ DisconnectSetAuto \/ DisconnectModem \/ DisconnectRetry
  \/ DisconnectSetStatus
  \/ SetAutoReconnect \/ QueryBegin \/ QueryEnd \/ Power
  \/ AskSocket \/ SocketRefuse
  \/ ConnectClientAccept \/ ConnectClientSend
  \/ ConnectClientSync \/ ConnectClientDial
  \/ DisconnectClientBegin \/ DisconnectClientStop
  \/ HttpBegin \/ HttpSend

MonStep ==
  \/ MonReceive \/ MonTimeout
  \/ AutoCheck \/ AutoRead \/ AutoQuery \/ AutoDone
  \/ OpConnectCheck
  \/ NetworkRestart \/ NetworkFound \/ NetworkNotFound \/ NetworkVerify
  \/ GprsConnected \/ GprsFailed
  \/ OpConnectSetConnected \/ OpConnectSetFailed
  \/ GetStatusRead("mon") \/ GetStatusQuery("mon") \/ GetStatusDrop("mon")
  \/ OpClientBegin \/ OpClientDial

Environment == LinkDrop \/ ServerCloses \/ ReconnectDue

Next ==
  \/ \E c \in Requests : IssueCommand(c)
  \/ MainStep
  \/ MonStep
  \/ Environment

Spec == Init /\ [][Next]_vars

(***************************************************************************)
(* The two tasks are always scheduled and the clock runs; nobody has to    *)
(* type a command.  A modem that is asked again and again for one of these *)
(* things does it in the end: it restarts, finds a network and is still on *)
(* it when asked, opens or closes a session, says that the link is lost.   *)
(***************************************************************************)
NetworkRestarted == NetworkRestart /\ pc'["mon"] = "cn_wait"
NetworkAttached  == NetworkVerify /\ pc'["mon"] = "oc_gprs"
LossReported     == AutoQuery /\ pc'["mon"] = "oc_check"

Fairness ==
  /\ WF_vars(MainStep) /\ WF_vars(MonStep) /\ WF_vars(ReconnectDue)
  /\ SF_vars(NetworkRestarted) /\ SF_vars(NetworkFound) /\ SF_vars(NetworkAttached)
  /\ SF_vars(GprsConnected) /\ SF_vars(DisconnectModem) /\ SF_vars(LossReported)

FairSpec == Spec /\ Fairness

-----------------------------------------------------------------------------
(* Every variable keeps its type, and the queue its capacity.              *)
TypeOK ==
  /\ status \in Status
  /\ autoReconnect \in BOOLEAN
  /\ queue \in Seq(Operation) /\ Len(queue) <= QueueCapacity
  /\ currentServer \in Servers \cup {NoServer}
  /\ due \in BOOLEAN
  /\ link \in Links
  /\ client \in Servers \cup {NoServer}
  /\ pc \in [Tasks -> MainPoints \cup MonPoints]
  /\ pc["main"] \in MainPoints /\ pc["mon"] \in MonPoints
  /\ seen \in [Tasks -> Status]
  /\ cmd \in Command
  /\ job \in Operation \cup {AutoReconnectJob}
  /\ crossed \in BOOLEAN

Connecting     == pc["mon"] \in ConnectPoints
ConnectQueued  == \E i \in DOMAIN queue : queue[i] = ConnectOp
ConnectRunning == Connecting /\ job = ConnectOp

(* A status of CONNECTING always has a connection on its way: the request  *)
(* is about to be queued by connectAsync(), is in the queue, or is being   *)
(* run by the monitor, which will replace the status.  Otherwise no task   *)
(* would ever move the status again: connectAsync() refuses a new request  *)
(* and doAutoReconnect() ignores the state.                                *)
ConnectingIsPending ==
  status = "CONNECTING" => pc["main"] = "c_send" \/ ConnectQueued \/ Connecting

(* connectAsync() never lets a second request in while one is outstanding: *)
(* being accepted, in the queue, or being run.                             *)
Accepting == pc["main"] \in {"c_status", "c_send"}

OneConnectOutstanding ==
  /\ \A i, j \in DOMAIN queue : queue[i] = ConnectOp /\ queue[j] = ConnectOp => i = j
  /\ ~(Accepting /\ ConnectQueued)
  /\ ~(Accepting /\ ConnectRunning)
  /\ ~(ConnectQueued /\ ConnectRunning)

(* The modem has no lock.  As long as the monitor does nothing but answer  *)
(* CONNECT (no CONNECT_CLIENT, no auto-reconnect), the two tasks exchange  *)
(* AT commands with it at the same time only when main runs one of the     *)
(* commands that do not look at the status: POWER, DISCONNECT_CLIENT and   *)
(* ISCLIENTCONNECTED, which loop() runs and which do cross the monitor.    *)
(* All others are kept out of it by the status alone, even after such a    *)
(* crossing has mixed up answers (ConnectionManager.cpp:137, 744, 963).    *)
ModemExclusive == Crossing => cmd.name \in Ungated

Quiet == pc["main"] = "idle" /\ pc["mon"] \in {"recv", "ar_check"} /\ queue = <<>>

(* With both tasks idle, a status of DISCONNECTED means that no session is *)
(* open.  A session open behind that status could not be closed by         *)
(* DISCONNECT, which does nothing unless the status is CONNECTED.          *)
NoOrphanSession == Quiet /\ status = "DISCONNECTED" => link # "gprs"

(* For a user who does without auto-reconnect and without CONNECT_CLIENT,  *)
(* which the monitor carries out, the manager keeps the promises of a      *)
(* connection service, although the status is looked at in one critical    *)
(* section and set in another (ConnectionManager.cpp:137-174, 424-437).    *)
(* What it says of the session goes as far as the first time that both     *)
(* tasks were in the modem (POWER and the two commands on the socket do    *)
(* it): then gprsConnect() may take the other's answer for its own, report *)
(* a failure and leave a session open.  What it says of the status goes on.*)
Service ==
  INSTANCE ConnectionService WITH
    state <- status, session <- (link = "gprs" /\ ~crossed)

KeepsService == Service!Spec

(* httpGet() and downloadFile() put in the Host header, from currentServer,*)
(* the host the socket is open to.  It is recorded before it is dialled:   *)
(* while the monitor is in between, a transfer that loop() is just         *)
(* starting on the old connection does name the new host.                  *)
ServerIsCurrent ==
  client \in {NoServer, currentServer} \/ pc["mon"] = "cc_dial"

(* The same without that exception, of a transfer that is being sent: TLC  *)
(* refutes it.                                                             *)
TransferNamesItsHost ==
  pc["main"] = "h_send" => client \in {NoServer, currentServer}

(* A connection attempt ends: CONNECTING is left for good or bad.          *)
ConnectAnswered == status = "CONNECTING" ~> status # "CONNECTING"

(* Every command ends, even one that has to wait for room in the queue.    *)
CommandsEnd == pc["main"] # "idle" ~> pc["main"] = "idle"

(* With auto-reconnect enabled, a lost link does not stay behind a status  *)
(* of CONNECTED: it is reconnected, or the status tells.                   *)
LostLinkNoticed ==
  (autoReconnect /\ status = "CONNECTED" /\ link # "gprs")
    ~> (~autoReconnect \/ status # "CONNECTED" \/ link = "gprs")

(* With auto-reconnect enabled, a lost link is reconnected, unless the     *)
(* flag is cleared.                                                        *)
LostLinkReconnected ==
  (autoReconnect /\ status = "CONNECTED" /\ link # "gprs")
    ~> (~autoReconnect \/ link = "gprs")
=============================================================================
