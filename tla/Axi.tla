-------------------------------- MODULE Axi --------------------------------
(***************************************************************************)
(* axi_slave with the testbench of comms-interfaces/axi.sv around it: the  *)
(* driver's write and read tasks, the monitor's beat count, and golden,    *)
(* the memory the protocol asks for.  Every step but Reset is one rising   *)
(* edge of clk, at which the driver changes the inputs and after which all *)
(* blocks settle.                                                          *)
(***************************************************************************)
EXTENDS AxiBurst

CONSTANTS LenRange, Default, Zero,
          Txns,          \* the transactions the generator draws from
          MaxTxns,       \* bound: transactions of a behaviour
          MaxResets,     \* bound: resets of a behaviour
          AwSize, ArSize,   \* 3'b010 in every task of the driver
          BReady, RReady    \* the levels a master gives bready and rready;
                            \* the driver holds both high

ASSUME AxiAssumption ==
  /\ MemSize \in Nat \ {0} /\ LenRange \in Nat \ {0}
  /\ AddrRange \in Nat /\ AddrRange > MemSize
  /\ Txns \subseteq [kind : {"write", "read"}, burst : {"fixed", "incr", "wrap"},
                     len : 0 .. LenRange - 1, addr : Nat]
  /\ \A txn \in Txns : txn.addr + 4 * (txn.len + 1) < AddrRange
  /\ \A txn \in Txns : txn.burst = "wrap" => txn.len \in {1, 3, 7, 15}
  /\ AwSize = 2 /\ ArSize = 2
  /\ TRUE \in BReady /\ TRUE \in RReady

VARIABLES in, awstate, awready, wstate, w, mem, bstate, b,
          arstate, arready, araddrt, rstate, r,
          drv,     \* the driver: phase, the transaction it serves, its beat i
          got,     \* the monitor: rvalid pulses of the transaction, counted
                   \* up to one more than were asked for
          count,   \* transactions started and resets made
          golden

W == INSTANCE AxiWrite
R == INSTANCE AxiRead

slave == <<awstate, awready, wstate, w, mem, bstate, b,
           arstate, arready, araddrt, rstate, r>>
vars == <<in, slave, drv, got, count, golden>>

Word(t, i) == [l \in Lane |-> <<t, i, l>>]

Quiet == [awvalid |-> FALSE, awaddr |-> 0, awlen |-> 0, awburst |-> "fixed",
          awsize |-> 0, wvalid |-> FALSE, wdata |-> Word(0, 0),
          wlast |-> FALSE, bready |-> FALSE,
          arvalid |-> FALSE, araddr |-> 0, arlen |-> 0, arburst |-> "fixed",
          arsize |-> 0, rready |-> FALSE]

NoTxn == [kind |-> "none", burst |-> "fixed", len |-> 0, addr |-> 0]

Init == /\ in = Quiet
        /\ W!WInit(Word(0, 0), "okay") /\ R!RInit
        /\ drv = [phase |-> "idle", txn |-> NoTxn, i |-> 0]
        /\ got = 0
        /\ count = [txns |-> 0, resets |-> 0]
        /\ golden = [x \in Addr |-> Default]

t == drv.txn
Beats == t.len + 1

\* A clock edge after which the master drives `next'.
Edge(next, started) ==
  \E br \in BReady, rr \in RReady :
    /\ in' = [next EXCEPT !.bready = br, !.rready = rr]
    /\ W!AwEdge /\ W!WEdge /\ W!BEdge
    /\ R!ArEdge /\ R!REdge
    /\ got' = CASE started -> 0
                [] ~started /\ r'.rvalid /\ ~r.rvalid /\ got <= Beats -> got + 1
                [] OTHER -> got

Go(phase, i) == drv' = [drv EXCEPT !.phase = phase, !.i = i]

WriteCommand(txn) ==
  [in EXCEPT !.awvalid = TRUE, !.arvalid = FALSE, !.awlen = txn.len, !.awsize = AwSize,
             !.awburst = txn.burst, !.awaddr = txn.addr, !.wvalid = TRUE,
             !.wdata = Word(count.txns + 1, 0)]

StartWrite(txn) ==
  /\ drv.phase = "idle" /\ txn.kind = "write" /\ count.txns < MaxTxns
  /\ count' = [count EXCEPT !.txns = @ + 1]
  /\ drv' = [phase |-> "write", txn |-> txn, i |-> 0]
  /\ Edge(WriteCommand(txn), TRUE)
  /\ UNCHANGED golden

\* wready rose: the next beat, with the address the task computes for it.
BeatData ==
  [in EXCEPT !.awaddr = CASE t.burst = "fixed" -> t.addr
                          [] t.burst = "incr" -> t.addr + 4 * (drv.i + 1)
                          [] t.burst = "wrap" -> w.retaddr,
             !.wdata = Word(count.txns, drv.i + 1)]

NextBeat ==
  /\ drv.phase = "write" /\ w.wready /\ drv.i + 1 < Beats
  /\ Go("write", drv.i + 1)
  /\ Edge(BeatData, FALSE)
  /\ UNCHANGED <<count, golden>>

\* The bytes of the first n beats that go to x, as <<beat, lane>>.
Struck(n, x) ==
  {h \in (0 .. n - 1) \X Lane : BeatByte(t.burst, t.len, t.addr, h[1], h[2]) = x}

Latest(hits) == CHOOSE h \in hits : \A k \in hits : k[1] <= h[1]

\* golden as the first n beats leave it: of those that strike a byte the last
\* one stays.
StoredTo(n) ==
  [x \in Addr |-> LET h == Latest(Struck(n, x))
                  IN  IF Struck(n, x) = {} THEN golden[x] ELSE Word(count.txns, h[1])[h[2]]]

Released == [in EXCEPT !.awvalid = FALSE, !.arvalid = FALSE, !.wvalid = FALSE]

EndBurst ==
  /\ drv.phase = "write" /\ w.wready /\ drv.i + 1 = Beats
  /\ Go("wlast", 0)
  /\ Edge([IF t.burst = "wrap" THEN in ELSE Released EXCEPT !.wlast = TRUE], FALSE)
  /\ golden' = StoredTo(Beats)
  /\ UNCHANGED count

LowerLast ==
  /\ drv.phase = "wlast"
  /\ Go("wresp", 0)
  /\ Edge([Released EXCEPT !.wlast = FALSE], FALSE)
  /\ UNCHANGED <<count, golden>>

ReadCommand(txn) ==
  [in EXCEPT !.awvalid = FALSE, !.arvalid = TRUE, !.arlen = txn.len, !.arsize = ArSize,
             !.arburst = txn.burst, !.araddr = txn.addr]

StartRead(txn) ==
  /\ drv.phase = "idle" /\ txn.kind = "read" /\ count.txns < MaxTxns
  /\ count' = [count EXCEPT !.txns = @ + 1]
  /\ drv' = [phase |-> "read", txn |-> txn, i |-> 0]
  /\ Edge(ReadCommand(txn), TRUE)
  /\ UNCHANGED golden

\* FIXED and INCR advance with the address channel, WRAP with the data.
Advances == IF t.burst = "wrap" THEN r.rvalid ELSE arready

BeatAddress ==
  [in EXCEPT !.araddr = CASE t.burst = "fixed" -> t.addr
                          [] t.burst = "incr" -> t.addr + 4 * (drv.i + 1)
                          [] t.burst = "wrap" -> r.rdretaddr]

NextAddress ==
  /\ drv.phase = "read" /\ Advances
  /\ IF drv.i + 1 < Beats THEN Go("read", drv.i + 1) /\ Edge(BeatAddress, FALSE)
                          ELSE Go("rlast", 0) /\ Edge(in, FALSE)
  /\ UNCHANGED <<count, golden>>

\* The edges at which an output the driver waits for falls: bvalid after the
\* response, rlast after the last beat.
BvalidFalls == b.bvalid /\ W!BNextState = "bidle"
RlastFalls == r.rlast /\ r.rnext = "ridle"

EndWrite ==
  /\ drv.phase = "wresp" /\ BvalidFalls
  /\ Go("pause", 0) /\ Edge(in, FALSE)
  /\ UNCHANGED <<count, golden>>

\* Mutant: the next transaction may start right after rlast.
EndReadNoPause ==
  /\ drv.phase = "rlast" /\ RlastFalls
  /\ Go("idle", 0) /\ Edge([in EXCEPT !.arvalid = FALSE], FALSE)
  /\ UNCHANGED <<count, golden>>
\* The driver reacts to the fall of rlast within the time step of the edge.
EndRead ==
  /\ drv.phase = "rlast" /\ RlastFalls
  /\ Go("pause", 0) /\ Edge([in EXCEPT !.arvalid = FALSE], FALSE)
  /\ UNCHANGED <<count, golden>>

\* The monitor has seen a pulse of rvalid for every beat that was asked for.
Observed == t.kind = "write" \/ got >= Beats

\* The generator goes on when the monitor has, one more edge later; of a read
\* with fewer beats it waits for the others for ever.
Resume ==
  /\ drv.phase = "pause" /\ Observed
  /\ Go("idle", 0) /\ Edge(in, FALSE)
  /\ UNCHANGED <<count, golden>>

Waiting == \/ drv.phase = "idle"
           \/ drv.phase = "write" /\ ~w.wready
           \/ drv.phase = "wresp" /\ ~BvalidFalls
           \/ drv.phase = "read" /\ ~Advances
           \/ drv.phase = "rlast" /\ ~RlastFalls
           \/ drv.phase = "pause" /\ ~Observed

Wait == Waiting /\ Edge(in, FALSE) /\ UNCHANGED <<drv, count, golden>>

\* The driver pulls resetn low and starts over; what a burst has stored so
\* far stays in memory.
Reset ==
  /\ count.resets < MaxResets
  /\ count' = [count EXCEPT !.resets = @ + 1]
  /\ in' = Quiet
  /\ W!WReset /\ R!RReset
  /\ drv' = [phase |-> "idle", txn |-> NoTxn, i |-> 0]
  /\ got' = 0
  /\ golden' = mem

Tick == \/ \E txn \in Txns : StartWrite(txn) \/ StartRead(txn)
        \/ NextBeat \/ EndBurst \/ LowerLast \/ EndWrite
        \/ NextAddress \/ EndRead \/ Resume \/ Wait

Next == Tick \/ Reset

Spec == Init /\ [][Next]_vars

\* The clock runs for ever, and a master that is slow to accept accepts at
\* last.
Accepts == Tick /\ in'.bready /\ in'.rready
FairSpec == Spec /\ WF_vars(Accepts)
-----------------------------------------------------------------------------
\* Once the driver has seen its last beat taken, memory holds what the
\* protocol asks for: every beat stored, at its address, none twice and
\* nothing beside them (axi.sv:179-368, 444-759, 775-862).
MemMatches == drv.phase # "write" => mem = golden

\* What the slave puts on rdata with rvalid, beat after beat, is the memory
\* at the address of that beat, as far as beats were asked for
\* (axi.sv:959-1079, 1110-1163).
DataMatched ==
  r.rvalid /\ got <= Beats =>
    \A l \in Lane :
      LET x == BeatByte(t.burst, t.len, t.addr, got - 1, l)
      IN  r.rdata[l] = IF x \in Addr THEN golden[x] ELSE Unknown

\* rlast ends a burst of arlen + 1 beats, none missing and none too many,
\* when every beat starts in memory (axi.sv:1175-1200).
Within == \A i \in 0 .. t.len : BeatByte(t.burst, t.len, t.addr, i, 0) \in Addr
BeatsDelivered ==
  drv.phase = "pause" /\ t.kind = "read" /\ Within => got = Beats

\* The response follows the last beat: with bvalid up nothing of the burst is
\* still to be stored (axi.sv:872-909).
ResponseAfterData == b.bvalid => drv.phase \notin {"write", "wlast"}

\* The block of the data channel counts and advances each time it is
\* evaluated; it comes out right because the address channel never moves
\* araddrt, and no write moves mem, at the edge that starts a beat
\* (axi.sv:933-955, 1091-1163).
OneEvaluation ==
  [][rstate' = "rstart" /\ r'.rvalid => arstate' # "arstart" /\ mem' = mem]_vars

\* A transaction that the slave can answer ends, and the generator goes on
\* (axi.sv:1363-1380, 1400-1679, 1822-1876): every write, and every read whose
\* beats all start in memory and are fewer than len_count has values.  Of the
\* other reads the driver or the monitor waits for ever: for rlast to fall if
\* len_count never reaches arlen + 1 or a beat starts at MemSize itself, for
\* the missing beats if the read is refused or leaves memory.
Answerable == t.kind = "read" => Within /\ Beats < LenRange
TxnEnds == drv.phase # "idle" /\ Answerable ~> drv.phase = "idle"
=============================================================================
