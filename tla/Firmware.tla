------------------------------ MODULE Firmware ------------------------------
(***************************************************************************)
(* stm32-echo-server: the UART's bytes go by DMA, round and round, into    *)
(* sRxBuffer; the main loop looks once a second how far it has come.  And  *)
(* nanopb, which such firmware uses: a message there and back.             *)
(* Bytes are numbered as they arrive.                                      *)
(***************************************************************************)
EXTENDS Threads

CONSTANTS RxBufferSize,   \* sRxBufferSize (32)
          Arrivals,       \* bytes that arrive
          Message, Chunk  \* bytes of the log message; of readString's buffer (16)

ASSUME FirmwareAssumption == RxBufferSize \in Nat \ {0}

Loop == 0

\* tail is where the DMA writes next, and dmaTail what pollRxStream has read of
\* it.  The rest are notes: how many bytes had arrived then (seen), how many the
\* loop is done with (copied), whether the poll has begun after the last error
\* (whole), and whether the loop is in step with the stream, since the echo was
\* how long (base) and how far behind the stream (shift).
FirmwareInit == Calls("firmware", {Loop},
  [ring |-> [i \in 0 .. RxBufferSize - 1 |-> 0], tail |-> 0, dmaHead |-> 0,
   dmaTail |-> 0, arrived |-> 0, copied |-> 0, tx |-> <<>>, echo |-> <<>>,
   dmar |-> FALSE, RxState |-> "READY", dmaState |-> "READY",
   seen |-> 0, whole |-> FALSE, inStep |-> TRUE, base |-> 0, shift |-> 0])

\* A stream that is not ready is left as it is; one that starts is filled from
\* the beginning of the buffer, while dmaHead stays where it was.
startRxStream(memory) ==
  IF memory.RxState # "READY" \/ memory.dmaState # "READY" THEN memory
  ELSE [memory EXCEPT !.RxState = "BUSY", !.dmaState = "BUSY", !.dmar = TRUE,
                      !.tail = 0]

\* Whatever fails while the clocks and peripherals are set up, the processor
\* spins in errorHandler.
init ==
  \/ Goes(Loop, "start", "delay", startRxStream(mem))
  \/ Goes(Loop, "start", "hung", mem)

Dma ==
  /\ demo = "firmware" /\ mem.dmar /\ mem.arrived < Arrivals
  /\ LET n == mem.arrived + 1 IN
     mem' = [mem EXCEPT !.ring[mem.tail] = n, !.arrived = n,
                        !.tail = (@ + 1) % RxBufferSize,
                        !.inStep = @ /\ n - mem.copied < RxBufferSize]
  /\ UNCHANGED <<demo, at>>

\* The bytes from dmaHead to dmaTail, around the end of the buffer.
Fresh == LET size == (mem.dmaTail - mem.dmaHead) % RxBufferSize IN
         [i \in 1 .. size |-> mem.ring[(mem.dmaHead + i - 1) % RxBufferSize]]

\* The loop is in step again when a whole poll is over, if the buffer has not
\* been filled since it looked.
Regained(memory) ==
  IF \/ memory.inStep \/ ~memory.whole
     \/ memory.arrived - memory.seen >= RxBufferSize
  THEN memory
  ELSE [memory EXCEPT !.inStep = TRUE, !.base = Len(memory.echo),
                      !.shift = memory.seen - Len(memory.echo)]
Looks == [mem EXCEPT !.dmaTail = mem.tail, !.seen = mem.arrived, !.whole = TRUE]
Copies == [mem EXCEPT !.tx = Fresh, !.copied = mem.seen]
Transmits(head) ==
  Regained([mem EXCEPT !.echo = @ \o mem.tx, !.tx = <<>>, !.dmaHead = head])

\* A mutant: the head is moved to where the DMA is by now.
pollRxStreamLate ==
  \/ Goes(Loop, "delay", "copy", Looks)
  \/ Goes(Loop, "copy", "transmit", Copies)
  \/ Goes(Loop, "transmit", "delay", Transmits(mem.tail))

pollRxStream ==
  \/ Goes(Loop, "delay", "copy", Looks)
  \/ Goes(Loop, "copy", "transmit", Copies)
  \/ Goes(Loop, "transmit", "delay", Transmits(mem.dmaTail))

\* The callback writes its message where the loop may be sending from, which a
\* UART that is busy does not send, and starts the stream again.
HAL_UART_ErrorCallback(memory) ==
  startRxStream([memory EXCEPT !.tx = [i \in 1 .. Len(@) |-> 0],
                               !.whole = FALSE, !.inStep = FALSE])

\* An error of the UART, or of a transfer, has stopped the stream; one of the
\* FIFO has not, and its handler, which shuts the UART's side, cannot restart it.
Uart == HAL_UART_ErrorCallback(
          [mem EXCEPT !.RxState = "READY", !.dmaState = "READY", !.dmar = FALSE])
dmaErrorHandler(state) == HAL_UART_ErrorCallback(
          [mem EXCEPT !.RxState = "READY", !.dmaState = state, !.dmar = FALSE])

Interrupt ==
  /\ demo = "firmware" /\ at[Loop] \notin {"start", "hung"} /\ mem.dmar
  /\ mem' \in {Uart, dmaErrorHandler("READY"), dmaErrorHandler("BUSY")}
  /\ UNCHANGED <<demo, at>>
-----------------------------------------------------------------------------
NanopbInit == Calls("nanopb", {Loop}, [left |-> 0, str |-> 0])

encode ==
  \/ Goes(Loop, "start", "decode", [mem EXCEPT !.left = Message])
  \/ Goes(Loop, "start", "done", mem)

\* A message of no fixed size is read piece by piece.
readString ==
  IF mem.left = 0 THEN Goes(Loop, "decode", "done", mem)
  ELSE LET len == Min({mem.left, Chunk}) IN
       Goes(Loop, "decode", "decode", [mem EXCEPT !.left = @ - len, !.str = @ + len])

FirmwareStep(t) ==
  \/ demo = "firmware" /\ (init \/ pollRxStream)
  \/ demo = "nanopb" /\ (encode \/ readString)
-----------------------------------------------------------------------------
\* What is sent back is what arrives, in its order, each byte once, and when a
\* poll is over, all that it has seen.  It is so from the start, and until the
\* unread bytes fill the buffer (bytes are lost, or sent twice) or an error
\* stops the stream: the head stays where it was while the stream starts at 0
\* again (app.cpp:242), so that the next poll sends stale bytes and loses others.
\* With that poll it is over: from the first whole one after either on, the
\* bytes are sent back in order again, none twice and none left out.
EchoesBytes ==
  demo = "firmware" /\ mem.inStep =>
    /\ \A i \in mem.base + 1 .. Len(mem.echo) : mem.echo[i] = i + mem.shift
    /\ at[Loop] = "delay" => Len(mem.echo) + mem.shift = mem.seen
=============================================================================
