------------------------------ MODULE MCBuses ------------------------------
(***************************************************************************)
(* The bus devices of comms-interfaces and the parts of the RTL miner      *)
(* core, one in each behaviour.                                            *)
(***************************************************************************)
EXTENDS Serial, I2c, Memories, MinerCore

\* Two addresses and two bytes that are no palindromes, so that the order of
\* their bits shows.
MCRequests ==
  [op : {"write"}, addr : {<<0, 1>>, <<1, 0>>}, din : {<<1, 0, 1>>, <<0, 1, 1>>}]
    \cup [op : {"read"}, addr : {<<0, 1>>, <<1, 0>>}, din : {Zeros(Width)}]

MCBursts == {[kind |-> "single", beats |-> 1], [kind |-> "unspec", beats |-> 2],
             [kind |-> "incr", beats |-> 4], [kind |-> "wrap", beats |-> 4]}

\* The AHB driver has sent all its transfers.
AhbAtRest == device = "ahb" /\ bench.phase = "next" /\ ~More /\ UNCHANGED vars

Init == UartInit \/ SpiInit \/ I2cInit \/ ApbInit \/ WbInit \/ AhbInit
        \/ HasherInit \/ RegistersInit
Next == \/ UartStep \/ TxTicks \/ RxTicks \/ SpiStep \/ I2cStep
        \/ ApbStep \/ WbStep \/ AhbStep \/ AhbAtRest
        \/ HasherStep \/ RegistersStep
Clock == SerialClock \/ I2cClock \/ WbClock \/ AhbClock \/ HasherClock
Spec == Init /\ [][Next]_vars /\ WF_vars(Clock)
-----------------------------------------------------------------------------
\* What is sent over a serial line or through a hasher comes out, what the
\* miner's registers are asked is answered, and the two ends of the I2C bus
\* stay in step (uart.sv:169, spi_slave.sv:108, i2c.sv:464, Hasher.sv:182,
\* MinerConfig.sv:98).
Exchanged == Linked /\ InStep /\ Hashed /\ Acknowledged

\* What the accesses to the memories do.  APB and AHB: a read gives what the
\* writes before it have left, a burst of AHB at the addresses its own kind
\* prescribes, no other cell changes, and what is beyond the memory is refused,
\* but for bursts after one of unspecified length (apb_ram.sv:60, ahb.sv:428).
\* Wishbone: a write is in memory when it is acknowledged, and forgotten at the
\* next request; every read gives 0x11 (whishbone.sv:52).  I2C: a read gives
\* what was written, unless a reset has left w_mem high (i2c.sv:334).
Remembered == ApbAnswers /\ WbAnswers /\ AhbAnswers /\ CellsKept

Streams == SerialDevices \cup {"hasher"}
Arrived == device \in Streams /\ Through(bench)
I2cBusy == device = "i2c" /\ chip.m.busy
WbPhase(phase) == device = "wishbone" /\ bench.phase = phase
AhbPhase(phase) == device = "ahb" /\ bench.phase = phase

\* Who has begun to wait for a device is answered: all that was sent comes
\* out, also after a reset, a hash if its receiver is ready at times; an I2C
\* transfer ends; the Wishbone driver gets its acknowledgement; and an AHB
\* burst that begins inside the memory gets through all its beats, which the
\* driver waits for without a limit (spi_slave.sv:108, Hasher.sv:185,
\* i2c.sv:103, whishbone_test.sv:80, ahb_test.sv:163).
Answered ==
  /\ device \in Streams ~> []Arrived
  /\ I2cBusy ~> ~I2cBusy
  /\ WbPhase("waiting") ~> WbPhase("acked")
  /\ AhbPhase("beat") /\ bench.in.haddr \in Cell ~> AhbPhase("next")
=============================================================================
