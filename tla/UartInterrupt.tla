--------------------------- MODULE UartInterrupt ---------------------------
(***************************************************************************)
(* The UART sketch: an interrupt handler empties the receive FIFO into a   *)
(* queue and a task prints what is in the queue.  Bytes are numbered in    *)
(* the order they come in.  The handler is interrupted by nothing here,    *)
(* but bytes come in, and the task runs on the other core, while it runs.  *)
(***************************************************************************)
EXTENDS Naturals, Sequences

CONSTANTS
  Bytes,      \* bound: bytes that come in
  FifoSize,   \* of the UART, 128
  Threshold,  \* bytes in it that raise the interrupt
  QueueSize   \* 10240

ASSUME UartAssumption ==
  /\ {Bytes, FifoSize, Threshold, QueueSize} \subseteq Nat \ {0}
  /\ Threshold <= FifoSize

VARIABLES
  arrivals,  \* bytes that came in so far
  fifo,      \* the UART's receive FIFO
  raised,    \* the interrupt's status: threshold or time-out
  uartPc,    \* the handler is "off", or "reading", or "clearing"
  toRead,    \* numberOfBytesToRead
  queue,     \* uart_queue
  printed,   \* bytes printed by the task
  dropped    \* history: bytes that found the FIFO or the queue full

uartVars == <<arrivals, fifo, raised, uartPc, toRead, queue, printed, dropped>>

UartInit ==
  /\ arrivals = 0 /\ fifo = <<>> /\ raised = FALSE
  /\ uartPc = "off" /\ toRead = 0
  /\ queue = <<>> /\ printed = <<>> /\ dropped = {}

-----------------------------------------------------------------------------
(* The UART.                                                               *)
ByteArrives ==
  /\ arrivals < Bytes
  /\ arrivals' = arrivals + 1
  /\ IF Len(fifo) < FifoSize
     THEN fifo' = Append(fifo, arrivals + 1) /\ UNCHANGED dropped
     ELSE dropped' = dropped \cup {arrivals + 1} /\ UNCHANGED fifo
  /\ raised' = (raised \/ Len(fifo') >= Threshold)
  /\ UNCHANGED <<uartPc, toRead, queue, printed>>

(* Bytes that wait for some time raise the interrupt too.  That time is    *)
(* of several bytes, and the handler is taken to be done sooner: else a    *)
(* time-out between its last read and the clearing of the status would be  *)
(* cleared unseen, and the bytes would wait for the next one to come in.   *)
ReceiveTimeOut ==
  /\ fifo # <<>> /\ ~raised /\ uartPc = "off"
  /\ raised' = TRUE
  /\ UNCHANGED <<arrivals, fifo, uartPc, toRead, queue, printed, dropped>>

-----------------------------------------------------------------------------
(* uart_intr_handle().                                                     *)
FaultyCount == IF fifo = <<>> THEN 0 ELSE Len(fifo) - 1

Count == Len(fifo)

Interrupt ==
  /\ raised /\ uartPc = "off"
  /\ toRead' = Count
  /\ uartPc' = "reading"
  /\ UNCHANGED <<arrivals, fifo, raised, queue, printed, dropped>>

ReadByte ==
  /\ uartPc = "reading" /\ toRead > 0
  /\ toRead' = toRead - 1
  /\ fifo' = Tail(fifo)
  /\ IF Len(queue) < QueueSize
     THEN queue' = Append(queue, Head(fifo)) /\ UNCHANGED dropped
     ELSE dropped' = dropped \cup {Head(fifo)} /\ UNCHANGED queue
  /\ UNCHANGED <<arrivals, raised, uartPc, printed>>

AllRead ==
  /\ uartPc = "reading" /\ toRead = 0
  /\ uartPc' = "clearing"
  /\ UNCHANGED <<arrivals, fifo, raised, toRead, queue, printed, dropped>>

(* The status is raised again at once if the FIFO is still that full.      *)
(* Only the two conditions cleared here are modelled (main.c:41), not the  *)
(* UART's overflow and error interrupts.                                   *)
ClearStatus ==
  /\ uartPc = "clearing"
  /\ uartPc' = "off"
  /\ raised' = (Len(fifo) >= Threshold)
  /\ UNCHANGED <<arrivals, fifo, toRead, queue, printed, dropped>>

(* uart_event_task().                                                      *)
PrintByte ==
  /\ queue # <<>>
  /\ printed' = Append(printed, Head(queue))
  /\ queue' = Tail(queue)
  /\ UNCHANGED <<arrivals, fifo, raised, uartPc, toRead, dropped>>

Handler == Interrupt \/ ReadByte \/ AllRead \/ ClearStatus

UartNext == ByteArrives \/ ReceiveTimeOut \/ Handler \/ PrintByte

UartFairness ==
  WF_uartVars(ReceiveTimeOut) /\ WF_uartVars(Handler) /\ WF_uartVars(PrintByte)

UartSpec == UartInit /\ [][UartNext]_uartVars /\ UartFairness

-----------------------------------------------------------------------------
UartTypeOK ==
  /\ arrivals \in 0..Bytes
  /\ fifo \in Seq(1..arrivals) /\ Len(fifo) <= FifoSize
  /\ queue \in Seq(1..arrivals) /\ Len(queue) <= QueueSize
  /\ printed \in Seq(1..arrivals)
  /\ dropped \subseteq 1..arrivals
  /\ raised \in BOOLEAN
  /\ uartPc \in {"off", "reading", "clearing"} /\ toRead \in 0..Len(fifo)

(* Bytes keep their order on their way through FIFO and queue, and none is *)
(* there twice, although the handler takes the count once and bytes come   *)
(* in while it reads (main.c:29-38).                                       *)
BytesKeepOrder ==
  LET way == printed \o queue \o fifo
  IN \A i, j \in DOMAIN way : i < j => way[i] < way[j]

(* FIFO, handler, queue and task are together one lossy line.              *)
UartLine ==
  INSTANCE LossyLine WITH sent <- arrivals, line <- queue \o fifo,
                          received <- printed, lost <- dropped

(* A byte that found room is printed in the end, the last one too, for     *)
(* which the FIFO never fills up (main.c:41, 52), and all are printed in   *)
(* the order in which they came in, as a lossy line promises it.           *)
PrintedInOrder ==
  /\ UartLine!LineSpec
  /\ []BytesKeepOrder
  /\ \A b \in 1..Bytes :
       b <= arrivals ~> b \in dropped \/ \E i \in DOMAIN printed : printed[i] = b
=============================================================================
