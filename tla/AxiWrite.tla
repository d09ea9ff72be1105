------------------------------ MODULE AxiWrite ------------------------------
(***************************************************************************)
(* The write half of axi_slave (comms-interfaces/axi.sv): the address,     *)
(* data and response channels, each a register for the state and a         *)
(* combinational block whose variables keep their value (latches) in the   *)
(* states that do not assign them.  An edge of clk loads the next states   *)
(* computed from the inputs before the edge (in); the blocks then settle   *)
(* on the inputs after it (in').                                           *)
(***************************************************************************)
EXTENDS AxiBurst

CONSTANTS LenRange,   \* 2^4: values of wlen_count and len_count
          Default     \* the byte mem is filled with, 12

VARIABLES in,         \* what the master drives on both halves
          awstate, awready,
          wstate, w,  \* w: wready, first, wlen_count, wdatat, nextaddr, retaddr
          mem,
          bstate, b   \* b: bvalid, bresp

wvars == <<awstate, awready, wstate, w, mem, bstate, b>>

Strobes == Lane   \* the master drives wstrb = 4'b1111 throughout

WInit(word, resp) ==
  /\ awstate = "awidle" /\ awready = FALSE
  /\ wstate = "widle"
  /\ w = [wready |-> FALSE, first |-> FALSE, wlen_count |-> 0,
          wdatat |-> word, nextaddr |-> 0, retaddr |-> 0]
  /\ mem = [x \in Addr |-> Default]
  /\ bstate = "bidle"
  /\ b = [bvalid |-> FALSE, bresp |-> resp]

AwEdge ==
  /\ awstate' = CASE awstate = "awidle" -> "awstart"
                  [] awstate = "awstart" /\ in.awvalid -> "awreadys"
                  [] awstate = "awstart" /\ ~in.awvalid -> "awstart"
                  [] awstate = "awreadys" -> "awidle"
  /\ awready' = CASE awstate' = "awidle" -> FALSE
                  [] awstate' = "awreadys" -> TRUE
                  [] OTHER -> awready

WNextState ==
  CASE wstate = "widle" -> "wstart"
    [] wstate = "wstart" -> IF in.wvalid THEN "waddr_dec" ELSE "wstart"
    [] wstate = "waddr_dec" -> "wreadys"
    [] wstate = "wreadys" -> IF in.wlast THEN "widle" ELSE "wvalids"
    [] wstate = "wvalids" -> "wstart"

WIdle ==
  /\ wstate' = "widle"
  /\ w' = [w EXCEPT !.wready = FALSE, !.first = FALSE, !.wlen_count = 0]
  /\ UNCHANGED mem

WStart ==
  /\ wstate' = "wstart"
  /\ w' = IF in'.wvalid THEN [w EXCEPT !.wdatat = in'.wdata] ELSE w
  /\ UNCHANGED mem

\* Mutant: the second beat goes where the first one went.
WAddrDecStale ==
  /\ wstate' = "waddr_dec"
  /\ w' = IF ~w.first \/ w.wlen_count = in'.awlen + 1
          THEN [w EXCEPT !.nextaddr = in'.awaddr, !.first = TRUE] ELSE w
  /\ UNCHANGED mem
\* The first beat takes the address from the bus, the next ones the address
\* the beat before returned, until wlen_count beats have been counted.
WAddrDec ==
  /\ wstate' = "waddr_dec"
  /\ w' = IF ~w.first
          THEN [w EXCEPT !.nextaddr = in'.awaddr, !.first = TRUE]
          ELSE IF w.wlen_count # in'.awlen + 1
          THEN [w EXCEPT !.nextaddr = w.retaddr]
          ELSE [w EXCEPT !.nextaddr = in'.awaddr]
  /\ UNCHANGED mem

\* The beat is stored whether it is acknowledged (wready) or, with wlast high,
\* not.
WReadys ==
  LET a == IF in'.awburst = "fixed" THEN in'.awaddr ELSE w.nextaddr
      bound == Boundary(in'.awburst, in'.awlen, in'.awsize)
      ret == data_wr_addr(in'.awburst, bound, Strobes, a)
  IN  /\ wstate' = "wreadys"
      /\ mem' = data_wr(mem, bound, Strobes, a, w.wdatat)
      /\ w' = IF in'.wlast
              THEN [w EXCEPT !.wready = FALSE, !.wlen_count = 0,
                             !.first = FALSE, !.retaddr = ret]
              ELSE [w EXCEPT !.wready = TRUE, !.retaddr = ret]

WValids ==
  /\ wstate' = "wvalids"
  /\ w' = [w EXCEPT !.wready = FALSE,
                    !.wlen_count = IF @ # in'.awlen + 1
                                   THEN (@ + 1) % LenRange ELSE @]
  /\ UNCHANGED mem

WEdge == /\ wstate' = WNextState
         /\ WIdle \/ WStart \/ WAddrDec \/ WReadys \/ WValids

\* Mutants: the response does not wait for wlast; it waits for bready low.
BNextStateEarly ==
  CASE bstate = "bidle" -> "bdetect_last"
    [] bstate = "bdetect_last" -> IF in.wvalid THEN "bstart" ELSE "bdetect_last"
    [] bstate = "bstart" -> "bwait"
    [] bstate = "bwait" -> IF in.bready THEN "bidle" ELSE "bwait"
BNextStateInverted ==
  CASE bstate = "bidle" -> "bdetect_last"
    [] bstate = "bdetect_last" -> IF in.wlast THEN "bstart" ELSE "bdetect_last"
    [] bstate = "bstart" -> "bwait"
    [] bstate = "bwait" -> IF in.bready THEN "bwait" ELSE "bidle"
BNextState ==
  CASE bstate = "bidle" -> "bdetect_last"
    [] bstate = "bdetect_last" -> IF in.wlast THEN "bstart" ELSE "bdetect_last"
    [] bstate = "bstart" -> "bwait"
    [] bstate = "bwait" -> IF in.bready THEN "bidle" ELSE "bwait"

Response(addr, size) == CASE addr < MemSize /\ size <= 3 -> "okay"
                          [] size > 3 -> "slverr"
                          [] OTHER -> "decerr"

BEdge ==
  /\ bstate' = BNextState
  /\ b' = CASE bstate' = "bidle" -> [bvalid |-> FALSE, bresp |-> "okay"]
            [] bstate' = "bstart" ->
                 [bvalid |-> TRUE, bresp |-> Response(in'.awaddr, in'.awsize)]
            [] OTHER -> b

\* resetn low: the registers go to idle and the blocks settle there.
WReset == /\ awstate' = "awidle" /\ awready' = FALSE
          /\ wstate' = "widle" /\ WIdle
          /\ bstate' = "bidle" /\ b' = [bvalid |-> FALSE, bresp |-> "okay"]
=============================================================================
