-------------------------------- MODULE I2c --------------------------------
(***************************************************************************)
(* i2c_top of i2c.sv: a master and a memory on the lines sda and scl.      *)
(* Each divides the clock by itself into four pulses for a bit, the slave  *)
(* from the moment at which it sees the start condition, and they are not  *)
(* told about each other again: that both stand at the same bit rests on   *)
(* every one of their states taking equally many clocks.                   *)
(*                                                                         *)
(* A step is an edge of clk.  Quarter stands for clk_count1, 100 clocks,   *)
(* and Width for the 8 bits of a byte; the first byte is the address with  *)
(* the direction as its last bit.                                          *)
(***************************************************************************)
EXTENDS Clocked

CONSTANTS Quarter, Width,
          Requests,        \* [op, addr, din]: what newd is raised with
          MaxRequests,     \* bound: requests of a behaviour
          MaxBusResets     \* bound: resets of a behaviour

ASSUME I2cAssumption ==
  /\ Quarter \in Nat /\ Quarter > 2 /\ Width \in Nat \ {0, 1}
  /\ Requests \subseteq [op : {"read", "write"}, addr : Word(Width - 1), din : Word(Width)]

Cells == Word(Width - 1)
Byte == Word(Width)
LastClock == 4 * Quarter - 1
pulse(c) == c.count1 \div Quarter
Ends(c) == c.count1 = LastClock
Samples(c) == c.count1 = 2 * Quarter
Sent(byte, i) == byte[i + 1]   \* bits go out in the order they are written
-----------------------------------------------------------------------------
(* The line: Z when nobody drives it, X when two drivers disagree.         *)
Driven(c) == IF c.sda_en THEN {c.sda_t} ELSE {}
sda == LET levels == Driven(chip.m) \cup Driven(chip.s)
       IN  CASE levels = {} -> Z [] levels = Bit -> X
             [] OTHER -> CHOOSE level \in levels : TRUE
-----------------------------------------------------------------------------
(* i2c_master                                                              *)
MasterReset(c) ==
  [state |-> "idle", count1 |-> 0, bitcount |-> 0, data_addr |-> Zeros(Width),
   data_tx |-> Zeros(Width), scl |-> 1, sda_t |-> 1, sda_en |-> c.sda_en,
   r_ack |-> c.r_ack, rx_data |-> c.rx_data, busy |-> FALSE,
   ack_err |-> FALSE, done |-> FALSE]

\* The divider runs only while busy.
Counted(c) == [c EXCEPT !.count1 = IF c.busy THEN (@ + 1) % (4 * Quarter) ELSE 0]
Levels(c, en, level) ==
  [Counted(c) EXCEPT !.sda_en = en, !.sda_t = level,
                     !.scl = IF pulse(c) < 2 THEN 0 ELSE 1]

Waits(c) == [Counted(c) EXCEPT !.done = FALSE, !.busy = FALSE, !.ack_err = FALSE,
                               !.data_addr = Zeros(Width), !.data_tx = Zeros(Width)]
Asked(c, r) == [Waits(c) EXCEPT !.busy = TRUE, !.state = "start",
                                !.data_addr = Append(r.addr, IF r.op = "read" THEN 1 ELSE 0),
                                !.data_tx = r.din]

start(c) ==
  LET d == [Levels(c, TRUE, IF pulse(c) < 2 THEN 1 ELSE 0) EXCEPT !.scl = 1]
  IN  IF Ends(c) THEN [d EXCEPT !.state = "write_addr", !.scl = 0] ELSE d

\* One bit of a byte, or, after the last, one clock to give up the line.
NextBit(c, d) == IF Ends(c) THEN [d EXCEPT !.bitcount = @ + 1, !.scl = 0] ELSE d
Whole(c) == c.bitcount = Width
Passes(c, to, en) ==
  [Counted(c) EXCEPT !.state = to, !.bitcount = 0, !.sda_en = en]

write_addr(c) ==
  IF Whole(c) THEN Passes(c, "ack_1", FALSE)
  ELSE NextBit(c, Levels(c, TRUE, CASE pulse(c) = 0 -> 0
                                    [] pulse(c) = 1 -> Sent(c.data_addr, c.bitcount)
                                    [] OTHER -> c.sda_t))

write_data(c) ==
  IF Whole(c) THEN Passes(c, "ack_2", FALSE)
  ELSE NextBit(c, IF pulse(c) = 1
                    THEN Levels(c, TRUE, Sent(c.data_tx, c.bitcount))
                    ELSE Levels(c, c.sda_en, c.sda_t))

read_data(c) ==
  IF Whole(c) THEN Passes(c, "master_ack", TRUE)
  ELSE LET d == Levels(c, FALSE, IF pulse(c) < 2 THEN 0 ELSE c.sda_t)
       IN  NextBit(c, IF Samples(c) THEN [d EXCEPT !.rx_data = Shifted(@, sda)] ELSE d)

Listens(c) ==
  LET d == Levels(c, FALSE, IF pulse(c) < 3 THEN 0 ELSE c.sda_t)
  IN  IF pulse(c) = 2 THEN [d EXCEPT !.r_ack = sda] ELSE d

Stops(d, error) ==
  [d EXCEPT !.state = "stop", !.sda_en = TRUE, !.ack_err = error]

ack_1(c) ==
  LET d == Listens(c)
  IN  CASE ~Ends(c) -> d
        [] Ends(c) /\ c.r_ack # 0 -> Stops(d, TRUE)
        [] Ends(c) /\ c.r_ack = 0 /\ c.data_addr[Width] = 0 ->
             [d EXCEPT !.state = "write_data", !.sda_t = 0, !.sda_en = TRUE, !.bitcount = 0]
        [] OTHER -> [d EXCEPT !.state = "read_data", !.sda_t = 1, !.bitcount = 0]

ack_2(c) ==
  LET d == Listens(c)
  IN  IF Ends(c) THEN Stops([d EXCEPT !.sda_t = 0], c.r_ack # 0) ELSE d

master_ack(c) ==
  LET d == Levels(c, TRUE, 1)
  IN  IF Ends(c) THEN [d EXCEPT !.state = "stop", !.sda_t = 0] ELSE d

stop(c) ==
  LET d == [Levels(c, TRUE, IF pulse(c) < 2 THEN 0 ELSE 1) EXCEPT !.scl = 1]
  IN  IF Ends(c) THEN [d EXCEPT !.state = "idle", !.scl = 0, !.busy = FALSE, !.done = TRUE]
                 ELSE d

i2c_master(c) ==
  CASE c.state = "idle" -> Waits(c)
    [] c.state = "start" -> start(c)
    [] c.state = "write_addr" -> write_addr(c)
    [] c.state = "ack_1" -> ack_1(c)
    [] c.state = "write_data" -> write_data(c)
    [] c.state = "read_data" -> read_data(c)
    [] c.state = "master_ack" -> master_ack(c)
    [] c.state = "ack_2" -> ack_2(c)
    [] c.state = "stop" -> stop(c)
-----------------------------------------------------------------------------
(* i2c_Slave                                                               *)
SlaveReset(c) ==
  [state |-> "idle", count1 |-> 0, busy |-> FALSE, bitcnt |-> 0,
   r_addr |-> Zeros(Width), addr |-> Zeros(Width - 1),
   mem |-> [a \in Cells |-> <<0>> \o a],
   dout |-> Zeros(Width), din |-> Zeros(Width), r_mem |-> FALSE,
   w_mem |-> c.w_mem, sda_t |-> 0, sda_en |-> FALSE, r_ack |-> c.r_ack,
   ack_err |-> FALSE]

\* Mutant: the divider is set to the middle of the bit, without the two
\* clocks that the start condition took to be seen.
DividedLate(c) ==
  [c EXCEPT !.count1 = IF c.busy THEN (@ + 1) % (4 * Quarter) ELSE 2 * Quarter]

\* The divider, and the block that reads and writes the memory.
Divided(c) ==
  [c EXCEPT !.count1 = IF c.busy THEN (@ + 1) % (4 * Quarter) ELSE 2 * Quarter + 2]
Accessed(c) ==
  CASE c.r_mem -> [Divided(c) EXCEPT !.dout = c.mem[c.addr]]
    [] ~c.r_mem /\ c.w_mem -> [Divided(c) EXCEPT !.mem[c.addr] = c.din]
    [] OTHER -> Divided(c)

TurnsTo(c, to) == [Accessed(c) EXCEPT !.state = to, !.bitcnt = 0]
Full(c) == c.bitcnt = Width
CountBit(c, d) == IF Ends(c) THEN [d EXCEPT !.bitcnt = @ + 1] ELSE d
AtEnd(c, d) == IF Ends(c) THEN d ELSE Accessed(c)

read_addr(c) ==
  LET d == [Accessed(c) EXCEPT !.sda_en = FALSE]
  IN  IF Full(c) THEN [TurnsTo(c, "send_ack1") EXCEPT !.sda_en = TRUE,
                                                    !.addr = SubSeq(c.r_addr, 1, Width - 1)]
      ELSE CountBit(c, IF Samples(c) THEN [d EXCEPT !.r_addr = Shifted(@, sda)] ELSE d)

Acknowledges(c) == IF pulse(c) = 0 THEN [Accessed(c) EXCEPT !.sda_t = 0] ELSE Accessed(c)

send_ack1(c) ==
  LET reads == c.r_addr[Width] = 1
  IN  IF Ends(c) THEN [Accessed(c) EXCEPT !.state = IF reads THEN "send_data" ELSE "read_data",
                                          !.r_mem = reads]
      ELSE Acknowledges(c)

slave_read_data(c) ==
  LET d == [Accessed(c) EXCEPT !.sda_en = FALSE]
  IN  IF Full(c) THEN [TurnsTo(c, "send_ack2") EXCEPT !.sda_en = TRUE, !.w_mem = TRUE]
      ELSE CountBit(c, IF Samples(c) THEN [d EXCEPT !.din = Shifted(@, sda)] ELSE d)

\* Mutant: w_mem stays high once the byte has been taken.
send_ack2Open(c) ==
  CASE Ends(c) -> [Accessed(c) EXCEPT !.state = "detect_stop", !.sda_en = FALSE]
    [] OTHER -> Acknowledges(c)

send_ack2(c) ==
  CASE Ends(c) -> [Accessed(c) EXCEPT !.state = "detect_stop", !.sda_en = FALSE]
    [] pulse(c) = 1 -> [Accessed(c) EXCEPT !.w_mem = FALSE]
    [] OTHER -> Acknowledges(c)

send_data(c) ==
  LET d == [Accessed(c) EXCEPT !.sda_en = TRUE, !.r_mem = FALSE]
  IN  IF Full(c) THEN [TurnsTo(c, "master_ack") EXCEPT !.sda_en = FALSE]
      ELSE CountBit(c, IF c.count1 = Quarter
                         THEN [d EXCEPT !.sda_t = Sent(c.dout, c.bitcnt)] ELSE d)

slave_master_ack(c) ==
  CASE Samples(c) -> [Accessed(c) EXCEPT !.r_ack = sda]
    [] Ends(c) -> [Accessed(c) EXCEPT !.ack_err = c.r_ack # 1,
                                      !.state = "detect_stop", !.sda_en = FALSE]
    [] OTHER -> Accessed(c)

i2c_Slave(c) ==
  CASE c.state = "idle" ->
         IF chip.m.scl = 1 /\ sda = 0
           THEN [Accessed(c) EXCEPT !.busy = TRUE, !.state = "wait_p"] ELSE Accessed(c)
    [] c.state = "wait_p" -> AtEnd(c, [Accessed(c) EXCEPT !.state = "read_addr"])
    [] c.state = "read_addr" -> read_addr(c)
    [] c.state = "send_ack1" -> send_ack1(c)
    [] c.state = "read_data" -> slave_read_data(c)
    [] c.state = "send_ack2" -> send_ack2(c)
    [] c.state = "send_data" -> send_data(c)
    [] c.state = "master_ack" -> slave_master_ack(c)
    [] c.state = "detect_stop" ->
         AtEnd(c, [Accessed(c) EXCEPT !.state = "idle", !.busy = FALSE])
-----------------------------------------------------------------------------
\* As driver.reset leaves them.
I2cInit ==
  LET m == [sda_en |-> FALSE, r_ack |-> 0, rx_data |-> Zeros(Width)]
      s == [w_mem |-> FALSE, r_ack |-> X]
  IN  Powered("i2c", [m |-> MasterReset(m), s |-> SlaveReset(s)],
              [request |-> [op |-> "none"], golden |-> SlaveReset(s).mem,
               requests |-> 0, resets |-> 0, spoilt |-> FALSE, lost |-> {}])

Serves(m, notes) == Edge([m |-> m, s |-> i2c_Slave(chip.s)], notes)

\* w_mem has no reset: a reset between a written byte and its acknowledgement
\* leaves it high, and the memory takes din at addr at every clock until the
\* next write is over.  A cell that is read meanwhile is lost (spoilt and lost
\* are notes).
Again == [bench EXCEPT !.resets = @ + 1, !.request = [op |-> "none"],
                       !.golden = SlaveReset(chip.s).mem,
                       !.spoilt = @ \/ chip.s.w_mem, !.lost = {}]
StillLost(r) == IF r.op = "write" THEN bench.lost \ {r.addr}
                ELSE bench.lost \cup {a \in {r.addr} : chip.s.w_mem}
I2cClock == device = "i2c" /\ Serves(i2c_master(chip.m), bench)
I2cStep ==
  \/ I2cClock
  \/ /\ device = "i2c"
     /\ \/ /\ chip.m.state = "idle" /\ bench.requests < MaxRequests
           /\ \E r \in Requests :
                Serves(Asked(chip.m, r),
                       [bench EXCEPT !.request = r, !.requests = @ + 1, !.lost = StillLost(r),
                                     !.golden = IF r.op = "write" THEN [@ EXCEPT ![r.addr] = r.din]
                                                                  ELSE @])
        \/ /\ bench.resets < MaxBusResets
           /\ Edge([m |-> MasterReset(chip.m), s |-> SlaveReset(chip.s)], Again)
-----------------------------------------------------------------------------
\* Which state of the slave belongs to which of the master.
Counterpart ==
  [write_addr |-> {"read_addr"}, ack_1 |-> {"send_ack1"}, write_data |-> {"read_data"},
   ack_2 |-> {"send_ack2"}, read_data |-> {"send_data"}, master_ack |-> {"master_ack"},
   stop |-> {"detect_stop"}, start |-> {"idle", "wait_p"}, idle |-> {"idle"}]

\* From the start condition to the stop both ends are at the same clock of
\* the same bit, and they never drive sda against each other (i2c.sv:464).
InStep ==
  device = "i2c" =>
    /\ chip.s.state \in Counterpart[chip.m.state]
    /\ chip.s.busy /\ chip.s.state # "idle" => chip.s.count1 = chip.m.count1
    /\ sda # X

\* When the master is done the slave's memory holds what was written, at
\* the address it was written to, and the master what was read; no access
\* is refused, unless a reset has left w_mem high (i2c.sv:334).
CellsKept ==
  device = "i2c" /\ chip.m.done /\ ~bench.spoilt =>
    /\ chip.s.mem = bench.golden
    /\ bench.request.op = "read" => chip.m.rx_data = bench.golden[bench.request.addr]
    /\ ~chip.m.ack_err /\ ~chip.s.ack_err

\* After such a reset too, no access is refused, and a cell keeps its byte
\* unless it is read before the next write is over; from then on what is written
\* stays and is read back, the lost cells once they have been written again.
Restored ==
  device = "i2c" /\ chip.m.done =>
    /\ \A a \in Cells \ bench.lost : chip.s.mem[a] = bench.golden[a]
    /\ bench.request.op = "read" /\ bench.request.addr \notin bench.lost =>
         chip.m.rx_data = bench.golden[bench.request.addr]
    /\ bench.request.op = "write" => ~chip.s.w_mem
    /\ ~chip.m.ack_err /\ ~chip.s.ack_err
=============================================================================
