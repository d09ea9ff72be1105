------------------------------ MODULE AxiRead ------------------------------
(***************************************************************************)
(* The read half of axi_slave (comms-interfaces/axi.sv).  The data channel *)
(* keeps its next state in a latch (rnext): in rstart one combination of   *)
(* inputs assigns none.  Its block counts beats as a side effect of being  *)
(* evaluated, so it matters when it is: on a change of rstate or of a      *)
(* signal it reads and does not write.                                     *)
(***************************************************************************)
EXTENDS AxiBurst

CONSTANTS LenRange,   \* 2^4: values of len_count
          Zero        \* a byte of the cleared rdata

VARIABLES in, mem,    \* shared with the write half
          arstate, arready, araddrt,
          rstate, r   \* r: rnext, rvalid, rlast, rresp, rdata, rdfirst,
                      \*    len_count, rdnextaddr, rdretaddr

rvars == <<arstate, arready, araddrt, rstate, r>>

Cleared == [l \in Lane |-> Zero]

RIdleLatches(latches) ==
  [latches EXCEPT !.rvalid = FALSE, !.rlast = FALSE, !.rresp = "okay",
                  !.rdata = Cleared, !.rdfirst = FALSE, !.len_count = 0]

RInit ==
  /\ arstate = "aridle" /\ arready = FALSE /\ araddrt = 0
  /\ rstate = "ridle"
  /\ r = [rnext |-> "ridle", rvalid |-> FALSE, rlast |-> FALSE,
          rresp |-> "okay", rdata |-> Cleared, rdfirst |-> FALSE,
          len_count |-> 0, rdnextaddr |-> 0, rdretaddr |-> 0]

\* The address channel takes a new araddrt every time it passes arstart, for
\* as long as arvalid stays up.
ArEdge ==
  /\ arstate' = CASE arstate = "aridle" -> "arstart"
                  [] arstate = "arstart" /\ in.arvalid -> "arreadys"
                  [] arstate = "arstart" /\ ~in.arvalid -> "arstart"
                  [] arstate = "arreadys" -> "aridle"
  /\ arready' = CASE arstate' = "aridle" -> FALSE
                  [] arstate' = "arreadys" -> TRUE
                  [] OTHER -> arready
  /\ araddrt' = IF arstate' = "arstart" /\ in'.arvalid THEN in'.araddr
                                                       ELSE araddrt

RIdle ==
  /\ rstate' = "ridle"
  /\ r' = [RIdleLatches(r) EXCEPT
             !.rnext = IF in'.arvalid THEN "rstart" ELSE "ridle"]

InRange == araddrt' < MemSize /\ in'.arsize <= 2

\* Where the beat after the first starts: FIXED stays on the bus address, the
\* others follow the beat before, while len_count has not reached the end.
NextAddr ==
  CASE ~r.rdfirst -> in'.araddr
    [] r.rdfirst /\ r.len_count = in'.arlen + 1 -> r.rdnextaddr
    [] OTHER -> IF in'.arburst = "fixed" THEN in'.araddr ELSE r.rdretaddr

\* A beat.  FIXED reads at the address of the address channel.
RBeat ==
  LET count == IF r.rdfirst THEN r.len_count ELSE 0
      a == IF in'.arburst = "fixed" THEN araddrt' ELSE NextAddr
      bound == Boundary(in'.arburst, in'.arlen, in'.arsize)
  IN  /\ rstate' = "rstart" /\ InRange
      /\ r' = [r EXCEPT !.rvalid = TRUE, !.rnext = "rwait", !.rresp = "okay",
                        !.rdfirst = TRUE, !.len_count = count,
                        !.rdata = read_data(mem', @, bound, in'.arsize, a),
                        !.rdnextaddr = NextAddr,
                        !.rdretaddr = IF in'.arburst = "fixed" THEN @
                                      ELSE read_data_addr(bound, in'.arsize, a)]

\* The address is refused; MemSize itself matches neither comparison and
\* leaves every latch, rnext included, as it was.
RRefuse ==
  /\ rstate' = "rstart" /\ ~InRange
  /\ r' = IF in'.arsize > 2
          THEN [r EXCEPT !.rresp = "slverr", !.rnext = "rerror"]
          ELSE IF in'.araddr > MemSize
          THEN [r EXCEPT !.rresp = "decerr", !.rnext = "rerror"]
          ELSE r

\* Mutant: one beat too many.
IsLastLate(count) == count = in'.arlen + 2
\* The beat counted is the last of the burst.
IsLast(count) == count = in'.arlen + 1

RWait ==
  LET count == (r.len_count + 1) % LenRange
  IN  /\ rstate' = "rwait"
      /\ r' = [r EXCEPT !.rvalid = FALSE, !.len_count = count,
                        !.rnext = IF in'.rready THEN "rvalids" ELSE "rwait",
                        !.rlast = IF in'.rready THEN IsLast(count) ELSE @]

RValids ==
  /\ rstate' = "rvalids"
  /\ r' = [r EXCEPT !.rnext = IF IsLast(r.len_count) THEN "ridle" ELSE "rstart"]

RError ==
  LET count == (r.len_count + 1) % LenRange
  IN  /\ rstate' = "rerror"
      /\ r' = [r EXCEPT !.len_count = count, !.rlast = IsLast(count),
                        !.rnext = IF IsLast(count) THEN "rvalids" ELSE "rstart"]

Sensed(i) == <<i.arvalid, i.araddr, i.arlen, i.arburst, i.arsize, i.rready>>

Retriggered == \/ rstate' # rstate
               \/ Sensed(in') # Sensed(in)
               \/ araddrt' # araddrt
               \/ mem' # mem

REdge ==
  /\ rstate' = r.rnext
  /\ IF Retriggered
     THEN RIdle \/ RBeat \/ RRefuse \/ RWait \/ RValids \/ RError
     ELSE UNCHANGED r

\* resetn low: both registers go to idle and the blocks settle there.
RReset == /\ arstate' = "aridle" /\ arready' = FALSE /\ UNCHANGED araddrt
          /\ rstate' = "ridle" /\ RIdle
=============================================================================
