------------------------------ MODULE Memories ------------------------------
(***************************************************************************)
(* The memories behind a bus, each with the driver of its testbench:       *)
(* apb_ram.sv, whishbone.sv and ahb.sv.  A step is an edge of the bus      *)
(* clock, at which the driver changes the inputs and the registers take    *)
(* their next values.  The combinational blocks of the last two then       *)
(* settle, once: whenever the state of their chip or an input changes.     *)
(*                                                                         *)
(* golden is the memory a user of the bus expects.                         *)
(***************************************************************************)
EXTENDS Clocked

CONSTANTS MemSize,      \* 32 words, 256 bytes: the cells of a memory
          Addresses,    \* those the generators draw from
          MaxTransfers, \* bound: requests of a behaviour
          MaxApbResets, \* bound: calls of the APB driver's reset
          Lanes,        \* 4, the bytes of a beat: 2^hsize
          Bursts,       \* AHB: [kind, beats]
          IncrLimit     \* 32: beats after which an unspecified burst pauses

ASSUME MemoriesAssumption ==
  /\ {MemSize, Lanes, IncrLimit} \subseteq Nat \ {0}
  /\ Addresses \subseteq Nat /\ {MaxTransfers, MaxApbResets} \subseteq Nat
  /\ Bursts \subseteq [kind : {"single", "unspec", "incr", "wrap"}, beats : Nat \ {0}]
  /\ \A hburst \in Bursts : hburst.kind = "single" => hburst.beats = 1

Cell == 0 .. MemSize - 1
Filled(value) == [a \in Cell |-> value]
Data == bench.transfers + 1   \* every transfer brings a value of its own
OneMore == [bench EXCEPT !.transfers = @ + 1]
More == bench.transfers < MaxTransfers

\* golden with one word stored; a word beyond the memory is refused.
Stored(addr, value) ==
  [a \in Cell |-> IF a = addr THEN value ELSE bench.golden[a]]
-----------------------------------------------------------------------------
(* apb_ram.sv: setup, access and transfer phases                           *)
ApbCleared == [state |-> "idle", mem |-> Filled(0), prdata |-> 0,
               pready |-> FALSE, pslverr |-> FALSE]
ApbIdle == [psel |-> FALSE, penable |-> FALSE, pwrite |-> FALSE, paddr |-> 0, pwdata |-> 0]

apb_access(c, in) ==
  LET d == [c EXCEPT !.state = "transfer", !.pslverr = in.paddr \notin Cell]
  IN  CASE in.paddr \notin Cell ->
             [d EXCEPT !.pready = TRUE, !.prdata = IF in.pwrite THEN @ ELSE X]
        [] in.paddr \in Cell /\ in.pwrite -> [d EXCEPT !.mem[in.paddr] = in.pwdata]
        [] OTHER -> [d EXCEPT !.prdata = c.mem[in.paddr], !.pready = TRUE]

apb_ram(c, in) ==
  CASE c.state = "idle" ->
         [ApbCleared EXCEPT !.mem = c.mem,
                            !.state = IF in.psel \/ in.penable THEN "idle" ELSE "setup"]
    [] c.state = "setup" /\ in.psel /\ ~in.penable ->
         [c EXCEPT !.state = "access", !.pready = in.paddr \in Cell]
    [] c.state = "access" /\ in.psel /\ in.penable -> apb_access(c, in)
    [] c.state = "transfer" ->
         [c EXCEPT !.state = "setup", !.pready = FALSE, !.pslverr = FALSE]
    [] OTHER -> c

ApbInit == Powered("apb", ApbCleared,
                   [in |-> ApbIdle, phase |-> "reset", golden |-> Filled(0),
                    transfers |-> 0, resets |-> 0])

Apb(from, to, in, golden, notes) ==
  /\ device = "apb" /\ bench.phase = from
  /\ Edge(apb_ram(chip, bench.in),
          [notes EXCEPT !.phase = to, !.in = in, !.golden = golden])

\* The driver's tasks do not look at pready.  Of the five edges its reset
\* waits for, the first takes the memory out of its idle state.
ApbStep ==
  LET in == bench.in
  IN  \/ Apb("reset", "idle", in, bench.golden, bench)
      \/ Apb("idle", "idle", in, bench.golden, bench)
      \/ /\ device = "apb" /\ More
         /\ \E write \in BOOLEAN, addr \in Addresses :
              Apb("idle", "setup", [psel |-> TRUE, penable |-> FALSE, pwrite |-> write,
                                    paddr |-> addr, pwdata |-> Data],
                  IF write THEN Stored(addr, Data) ELSE bench.golden, OneMore)
      \/ Apb("setup", "enabled", [in EXCEPT !.penable = TRUE], bench.golden, bench)
      \/ Apb("enabled", "sampled", in, bench.golden, bench)
      \/ Apb("sampled", "idle", [in EXCEPT !.psel = FALSE, !.penable = FALSE,
                                           !.pwrite = FALSE], bench.golden, bench)
      \/ /\ device = "apb" /\ bench.resets < MaxApbResets
         /\ Edge(ApbCleared, [bench EXCEPT !.phase = "reset", !.in = ApbIdle,
                                           !.golden = Filled(0), !.resets = @ + 1])

\* At the edge at which the monitor samples, the access has been carried
\* out, or refused if and only if it is beyond the memory (apb_ram.sv:60).
ApbAnswers ==
  device = "apb" /\ bench.phase = "sampled" =>
    /\ chip.pready /\ chip.mem = bench.golden
    /\ chip.pslverr <=> bench.in.paddr \notin Cell
    /\ ~bench.in.pwrite =>
         chip.prdata = IF chip.pslverr THEN X ELSE bench.golden[bench.in.paddr]
-----------------------------------------------------------------------------
(* whishbone.sv                                                            *)
Fresh == 17   \* 8'h11

\* The idle state fills the whole memory, every time it is passed.
WbForgets(c) == [c EXCEPT !.ack = FALSE, !.rdata = 0, !.mem = Filled(Fresh)]

\* The outputs once the state and the inputs have settled.
mem_wb(c, in) ==
  CASE c.state = "idle" -> WbForgets(c)
    [] c.state = "check_mode" -> IF in.strb /\ ~in.we THEN [c EXCEPT !.temp = c.mem[in.addr]]
                                                      ELSE c
    [] c.state = "write" -> [c EXCEPT !.mem[in.addr] = in.wdata, !.ack = TRUE]
    [] c.state = "read" -> [c EXCEPT !.rdata = c.temp, !.ack = TRUE]

WbNext(c, in) ==
  CASE c.state = "idle" -> "check_mode"
    [] c.state = "check_mode" -> IF ~in.strb THEN "check_mode"
                                 ELSE IF in.we THEN "write" ELSE "read"
    [] OTHER -> "idle"

WbOff == [we |-> FALSE, strb |-> FALSE, addr |-> 0, wdata |-> 0]
WbInit == Powered("wishbone",
                  WbForgets([state |-> "idle", mem |-> Filled(X), temp |-> X,
                             rdata |-> X, ack |-> FALSE]),
                  [in |-> WbOff, phase |-> "idle", golden |-> Filled(Fresh), transfers |-> 0])

\* The driver takes the rise of ack, whatever it answers, for its own.
WbEdge(in, phase, notes) ==
  LET c == mem_wb([chip EXCEPT !.state = WbNext(chip, bench.in)], in)
  IN  Edge(c, [notes EXCEPT !.in = in,
                            !.phase = CASE phase = "waiting" /\ c.ack -> "acked"
                                        [] phase = "acked" -> "idle"
                                        [] OTHER -> phase])

\* The next request comes two edges after an acknowledgement, or later by as
\* many repetitions of the last one as the scoreboard takes, strb still high.
WbClock == device = "wishbone" /\ WbEdge(bench.in, bench.phase, bench)
WbStep ==
  \/ WbClock
  \/ /\ device = "wishbone"
     /\ bench.phase = "idle" /\ More
     /\ chip.state = "idle" \/ (chip.state = "check_mode" /\ ~bench.in.strb)
     /\ \E write, strobe \in BOOLEAN, addr \in Addresses \cap Cell :
          WbEdge([we |-> write, strb |-> strobe, addr |-> addr, wdata |-> Data],
                 IF strobe THEN "waiting" ELSE "idle", OneMore)

\* An acknowledgement belongs to the request the driver waits with.  At that
\* moment the memory holds what is to be written and, in every other cell, the
\* value the scoreboard calls the default; what is read is that default.  The
\* memory remembers nothing: what an earlier request has written is gone
\* (whishbone.sv:52, whishbone_test.sv:219).
WbAnswers ==
  device = "wishbone" /\ bench.phase = "acked" =>
    IF bench.in.we
      THEN chip.state = "write" /\ chip.mem = [Filled(Fresh) EXCEPT ![bench.in.addr] = bench.in.wdata]
      ELSE chip.state = "read" /\ chip.mem = Filled(Fresh) /\ chip.rdata = Fresh
-----------------------------------------------------------------------------
(* ahb.sv: bursts, and the addresses of their beats                        *)
Lane == 0 .. Lanes - 1

\* A byte is named by where it comes from: transfer, beat and lane, or the 12
\* that memory is filled with.  All are tuples, so that TLC can compare them.
Beat(txn, i) == [l \in Lane |-> <<txn, i, l>>]
Default == <<12>>

boundary(hburst) == IF hburst.kind = "wrap" THEN hburst.beats * Lanes ELSE 0
Along(a, limit) == IF limit # 0 /\ (a + 1) % limit = 0 THEN a + 1 - limit ELSE a + 1

\* The addresses of the bytes of a beat that starts at a, and the one after.
Walk(a, limit) ==
  LET at[l \in 0 .. Lanes] == IF l = 0 THEN a ELSE Along(at[l - 1], limit) IN at

ahb_wr(mem, at, word) ==
  [x \in Cell |-> LET to == {l \in Lane : at[l] = x}
                  IN  IF to = {} THEN mem[x] ELSE word[CHOOSE l \in to : TRUE]]
ahb_rd(mem, at) == [l \in Lane |-> IF at[l] \in Cell THEN mem[at[l]] ELSE X]

\* Whether the burst goes on after the beat that is being served.
GoesOn(hburst, len_count) ==
  CASE hburst.kind = "single" -> FALSE
    [] hburst.kind = "unspec" -> len_count < IncrLimit
    [] OTHER -> len_count <= hburst.beats - 2

\* Mutant: every burst walks straight on.
ServedStraight(c, in, a) ==
  LET at == Walk(a, 0)
      on == GoesOn(in.hburst, c.len_count)
  IN  [c EXCEPT !.hready = TRUE, !.hresp = "okay",
                !.retaddr = IF in.hburst.kind = "single" THEN a ELSE at[Lanes],
                !.mem = IF c.state = "write" THEN ahb_wr(@, at, in.hwdata) ELSE @,
                !.hrdata = IF c.state = "read" THEN ahb_rd(c.mem, at) ELSE @,
                !.next = IF on THEN "check_mode" ELSE "idle",
                !.len_count = IF on THEN @ + 1
                              ELSE IF in.hburst.kind = "single" THEN @ ELSE 0]

\* One beat at address a.
Served(c, in, a) ==
  LET at == Walk(a, boundary(in.hburst))
      on == GoesOn(in.hburst, c.len_count)
  IN  [c EXCEPT !.hready = TRUE, !.hresp = "okay",
                !.retaddr = IF in.hburst.kind = "single" THEN a ELSE at[Lanes],
                !.mem = IF c.state = "write" THEN ahb_wr(@, at, in.hwdata) ELSE @,
                !.hrdata = IF c.state = "read" THEN ahb_rd(c.mem, at) ELSE @,
                !.next = IF on THEN "check_mode" ELSE "idle",
                !.len_count = IF on THEN @ + 1
                              ELSE IF in.hburst.kind = "single" THEN @ ELSE 0]

ahb_slave(c, in) ==
  CASE c.state = "idle" ->
         [c EXCEPT !.next = "check_mode", !.hready = FALSE, !.len_count = 0, !.hresp = "okay"]
    [] c.state = "check_mode" ->
         [c EXCEPT !.hready = FALSE,
                   !.next = IF in.hsel /\ in.haddr \in Cell THEN "addr_decode" ELSE "idle",
                   !.hresp = IF in.hsel /\ in.haddr \notin Cell THEN "error" ELSE @]
    [] c.state = "addr_decode" ->
         [c EXCEPT !.next_addr = IF in.htrans = "nonseq" THEN in.haddr ELSE c.retaddr,
                   !.next = IF in.hwrite THEN "write" ELSE "read"]
    [] c.state = "write" -> Served(c, in, c.next_addr)
    [] c.state = "read" ->
         Served(c, in, IF in.hburst.kind = "single" THEN in.haddr ELSE c.next_addr)

AhbOff == [hsel |-> FALSE, hwrite |-> FALSE, haddr |-> 0, htrans |-> "nonseq",
           hburst |-> [kind |-> "single", beats |-> 1], hwdata |-> Beat(0, 0)]
AhbInit ==
  Powered("ahb",
          ahb_slave([state |-> "idle", next |-> "idle", len_count |-> 0, retaddr |-> X,
                     next_addr |-> X, hready |-> FALSE, hresp |-> "okay",
                     mem |-> Filled(Default), hrdata |-> [l \in Lane |-> X]], AhbOff),
          [in |-> AhbOff, phase |-> "idle", beat |-> 0, golden |-> Filled(Default), transfers |-> 0,
           unspec |-> FALSE])

\* The address of lane l of beat i, in closed form.
BeatByte(hburst, a, i, l) ==
  LET size == hburst.beats * Lanes
      base == size * (a \div size)
  IN  IF hburst.kind = "wrap" THEN base + ((a - base + Lanes * i + l) % size)
                              ELSE a + Lanes * i + l

\* golden with a beat stored; bytes beyond the memory are lost.
BeatStored(in, i) ==
  [x \in Cell |->
     LET to == {l \in Lane : BeatByte(in.hburst, in.haddr, i, l) = x}
     IN  IF in.hwrite /\ to # {} THEN in.hwdata[CHOOSE l \in to : TRUE] ELSE bench.golden[x]]

AhbEdge(in, phase, i, golden, notes) ==
  Edge(ahb_slave([chip EXCEPT !.state = chip.next], in),
       [notes EXCEPT !.in = in, !.phase = phase, !.beat = i, !.golden = golden])

AhbWaits ==
  /\ bench.phase = "idle" \/ (bench.phase = "beat" /\ ~chip.hready)
  /\ AhbEdge(bench.in, bench.phase, bench.beat, bench.golden, bench)

\* Once a task has ended the next begins at the next edge: until then the
\* slave, still selected, has not begun another beat.
AhbStarts ==
  /\ bench.phase \in {"idle", "next"} /\ More
  /\ \E write \in BOOLEAN, addr \in Addresses, hburst \in Bursts :
       LET in == [hsel |-> TRUE, hwrite |-> write, haddr |-> addr, htrans |-> "nonseq",
                  hburst |-> hburst, hwdata |-> Beat(Data, 0)]
       IN  AhbEdge(in, "beat", 0, BeatStored(in, 0),
                   [OneMore EXCEPT !.unspec = @ \/ bench.in.hburst.kind = "unspec"])

AhbNextBeat ==
  LET i == bench.beat + 1
      in == [bench.in EXCEPT !.htrans = "seq", !.hwdata = Beat(bench.transfers, i)]
  IN  /\ bench.phase = "beat" /\ chip.hready /\ i < bench.in.hburst.beats
      /\ AhbEdge(in, "beat", i, BeatStored(in, i), bench)

AhbEnds ==
  /\ bench.phase = "beat" /\ chip.hready /\ bench.beat + 1 = bench.in.hburst.beats
  /\ AhbEdge(bench.in, "next", bench.beat, bench.golden, bench)

AhbClock == device = "ahb" /\ (AhbWaits \/ AhbNextBeat \/ AhbEnds)
AhbStep == AhbClock \/ (device = "ahb" /\ AhbStarts)

\* Every beat of every burst, aligned or not, is served at the address its
\* kind prescribes, whatever the burst before it has left in the latches.  A
\* request beyond the memory is served only after a burst of unspecified
\* length, which leaves the count or the address check of the slave to the
\* bursts that follow, and then touches no cell (ahb.sv:428, 443, 479).
AhbAnswers ==
  device = "ahb" /\ chip.hready =>
    /\ bench.in.haddr \in Cell \/ bench.unspec
    /\ chip.mem = bench.golden
    /\ chip.state = "read" =>
         \A l \in Lane :
           LET x == BeatByte(bench.in.hburst, bench.in.haddr, bench.beat, l)
           IN  chip.hrdata[l] = IF x \in Cell THEN bench.golden[x] ELSE X
=============================================================================
