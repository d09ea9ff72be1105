------------------------------- MODULE Serial -------------------------------
(***************************************************************************)
(* Words sent bit by bit: the transmitter and receiver of uart.sv, joined  *)
(* by their line, and the SPI master and slave of spi_slave.sv.            *)
(*                                                                         *)
(* A step is an edge of the divided clock.  In one uart_top both ends      *)
(* divide the same clock and tick together; on two boards they tick in     *)
(* turn.  Bits stands for the 8 bits of a UART word and the 12 of an SPI   *)
(* word, the lowest of which is sent first in both.                        *)
(***************************************************************************)
EXTENDS Clocked

CONSTANT Bits

ASSUME SerialAssumption == Bits \in Nat \ {0}

Offers(c) == IF c.state = "idle" /\ bench.words < MaxWords THEN Word(Bits) ELSE {}
-----------------------------------------------------------------------------
(* uart.sv                                                                 *)

Transmitter == [state |-> "idle", counts |-> 0, din |-> Zeros(Bits),
                line |-> X, done |-> FALSE]
Receiver == [state |-> "idle", counts |-> 0, data |-> Zeros(Bits), done |-> FALSE]

Rests(c) == [c EXCEPT !.counts = 0, !.line = 1, !.done = FALSE]
Begins(c, word) == [Rests(c) EXCEPT !.state = "transfer", !.din = word, !.line = 0]

\* A tick of the transmitter in the middle of a word.
transmit(c) ==
  IF c.counts < Bits
    THEN [c EXCEPT !.counts = @ + 1, !.line = c.din[c.counts + 1]]
    ELSE [c EXCEPT !.counts = 0, !.line = 1, !.state = "idle", !.done = TRUE]

\* A tick with nothing to accept.
uarttx(c) == IF c.state = "idle" THEN Rests(c) ELSE transmit(c)

\* The stop bit is not looked at: the tick it comes with raises done.
receive(c, line) ==
  IF c.counts < Bits
    THEN [c EXCEPT !.counts = @ + 1, !.data = Shifted(@, line)]
    ELSE [c EXCEPT !.counts = 0, !.done = TRUE, !.state = "idle"]

uartrx(c, line) ==
  IF c.state = "start" THEN receive(c, line)
  ELSE [Receiver EXCEPT !.state = IF line = 0 THEN "start" ELSE "idle"]

\* Reset takes the transmitter to its idle state and leaves the line as it
\* is; it clears the receiver's registers but not its state.
ResetTx(c) == [c EXCEPT !.state = "idle"]
ResetRx(c) == [Receiver EXCEPT !.state = c.state]

Quiet(c) == c.tx.state = "idle" /\ c.tx.line # 0 /\ c.rx.state = "idle"
Heard(notes, rx) ==
  IF rx.done /\ ~chip.rx.done THEN Delivers(notes, rx.data) ELSE notes

UartTicks(tx, rx, notes) ==
  LET next == [tx |-> tx, rx |-> rx]
  IN  Edge(next, Rested(Heard(notes, rx), Quiet(next)))

UartInit == \E name \in {"uart", "twoUarts"}, turn \in {"tx", "rx"} :
              Powered(name, [tx |-> Transmitter, rx |-> Receiver],
                      [Nothing EXCEPT !.turn = turn])

\* Both halves of one uart_top, the line looped back.
UartClock ==
  /\ device = "uart"
  /\ UartTicks(uarttx(chip.tx), uartrx(chip.rx, chip.tx.line), bench)
UartStep ==
  \/ UartClock
  \/ /\ device = "uart"
     /\ \/ \E word \in Offers(chip.tx) :
              UartTicks(Begins(chip.tx, word), uartrx(chip.rx, chip.tx.line),
                        Accepts(bench, word))
        \/ /\ bench.resets < MaxResets
           /\ UartTicks(ResetTx(chip.tx), ResetRx(chip.rx), Loses(bench))

\* Two boards whose clocks have the same period.
Turned(turn) == [bench EXCEPT !.turn = turn]
Turns(turn) == device = "twoUarts" /\ bench.turn = turn
TxClock == Turns("tx") /\ UartTicks(uarttx(chip.tx), chip.rx, Turned("rx"))
RxClock == Turns("rx") /\ UartTicks(chip.tx, uartrx(chip.rx, chip.tx.line), Turned("tx"))
TxTicks ==
  \/ TxClock
  \/ /\ Turns("tx")
     /\ \/ \E word \in Offers(chip.tx) :
             UartTicks(Begins(chip.tx, word), chip.rx, Accepts(Turned("rx"), word))
        \/ /\ bench.resets < MaxResets
           /\ UartTicks(ResetTx(chip.tx), chip.rx, Loses(Turned("rx")))
RxTicks ==
  \/ RxClock
  \/ /\ Turns("rx") /\ bench.resets < MaxResets
     /\ UartTicks(chip.tx, ResetRx(chip.rx), Loses(Turned("tx")))
-----------------------------------------------------------------------------
(* spi_slave.sv, whose master spi_master.sv repeats                        *)

Master == [state |-> "idle", count |-> 0, temp |-> Zeros(Bits), cs |-> X, mosi |-> X]
Slave == [state |-> "detect_start", count |-> 0, temp |-> Zeros(Bits), done |-> FALSE]

Selects(c, din) == [c EXCEPT !.state = "send", !.temp = din, !.cs = 0]

spi_master(c) ==
  CASE c.state = "idle" -> [c EXCEPT !.temp = Zeros(Bits)]
    [] c.state = "send" /\ c.count < Bits ->
         [c EXCEPT !.mosi = c.temp[c.count + 1], !.count = @ + 1]
    [] OTHER -> [c EXCEPT !.count = 0, !.state = "idle", !.cs = 1, !.mosi = 0]

\* Mutant: done is not taken back when the slave waits for the next word.
spi_slaveHeld(c, cs, mosi) ==
  CASE c.state = "detect_start" ->
         [c EXCEPT !.state = IF cs = 0 THEN "read_data" ELSE "detect_start"]
    [] c.state = "read_data" /\ c.count < Bits ->
         [c EXCEPT !.count = @ + 1, !.temp = Shifted(@, mosi)]
    [] OTHER -> [c EXCEPT !.count = 0, !.done = TRUE, !.state = "detect_start"]

\* Once selected the slave counts its bits without looking at cs.
spi_slave(c, cs, mosi) ==
  CASE c.state = "detect_start" ->
         [c EXCEPT !.done = FALSE,
                   !.state = IF cs = 0 THEN "read_data" ELSE "detect_start"]
    [] c.state = "read_data" /\ c.count < Bits ->
         [c EXCEPT !.count = @ + 1, !.temp = Shifted(@, mosi)]
    [] OTHER -> [c EXCEPT !.count = 0, !.done = TRUE, !.state = "detect_start"]

SpiEdge(master, notes) ==
  LET slave == spi_slave(chip.s, chip.m.cs, chip.m.mosi)
      heard == IF slave.done /\ ~chip.s.done THEN Delivers(notes, slave.temp) ELSE notes
      rests == master.state = "idle" /\ slave.state = "detect_start" /\ master.cs # 0
  IN  Edge([m |-> master, s |-> slave], Rested(heard, rests))

SpiInit == Powered("spi", [m |-> Master, s |-> Slave], Nothing)

\* While rst is high sclk is held low and neither end moves.  The reset of
\* the master is carried out only if rst rises together with sclk; it does
\* not touch the state.
SpiClock == device = "spi" /\ SpiEdge(spi_master(chip.m), bench)
SpiStep ==
  \/ SpiClock
  \/ /\ device = "spi"
     /\ \/ \E din \in Offers(chip.m) : SpiEdge(Selects(chip.m, din), Accepts(bench, din))
        \/ /\ bench.resets < MaxResets
           /\ SpiEdge([chip.m EXCEPT !.cs = 1, !.mosi = 0], Loses(bench))
-----------------------------------------------------------------------------
SerialClock == UartClock \/ TxClock \/ RxClock \/ SpiClock
SerialDevices == {"uart", "twoUarts", "spi"}

\* Every word a transmitter accepts comes out of the receiver once, whole
\* and in order, on one clock or on two, back to back or with pauses; after
\* a reset in the middle of a word this is so again from the moment both ends
\* are at rest (uart.sv:169, spi_slave.sv:108).
Linked == device \in SerialDevices => InOrder(bench)
=============================================================================
