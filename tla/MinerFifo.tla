------------------------------ MODULE MinerFifo ------------------------------
(***************************************************************************)
(* The FIFO of miner/fpga-projects/rtl-miner/src/Fifo.sv, one step per     *)
(* rising clock edge.  Its registers are those of the FIFO of              *)
(* comms-interfaces, but it serves a write and a read at the same edge,    *)
(* and its size is a parameter while the pointers and the counter have     *)
(* widths of their own.                                                    *)
(***************************************************************************)
EXTENDS Fifo

CONSTANT FIFO_SIZE   \* the parameter of the module; 32 unless overridden

ASSUME MinerFifoAssumption == FIFO_SIZE \in Nat \ {0}

MinerInit == /\ wptr = 0 /\ rptr = 0 /\ cnt = 0
             /\ mem = [a \in 0 .. FIFO_SIZE - 1 |-> Undef]
             /\ dout = Undef

\* Mutant: full is raised one word late.
MinerFullLate == cnt = FIFO_SIZE + 1
MinerFull == cnt = FIFO_SIZE   \* never, when FIFO_SIZE is not below CntRange

\* The three blocks of the always process: the memory and the write pointer,
\* the output and the read pointer, the counter.  A pointer may stand beyond a
\* memory of fewer than PtrRange words: there a write is lost and a read
\* gives x.
WriteSide(push, din) ==
  IF push THEN mem' = [mem EXCEPT ![wptr] = din] /\ wptr' = Inc(wptr, PtrRange)
          ELSE UNCHANGED <<mem, wptr>>
ReadSide(pop) ==
  IF pop THEN dout' = (IF rptr < FIFO_SIZE THEN mem[rptr] ELSE Undef) /\ rptr' = Inc(rptr, PtrRange)
         ELSE UNCHANGED <<dout, rptr>>
\* Mutant: a read hides the write at the same edge.
CounterPopFirst(push, pop) ==
  cnt' = CASE pop -> (cnt - 1) % CntRange
           [] push /\ ~pop -> (cnt + 1) % CntRange
           [] OTHER -> cnt
Counter(push, pop) ==
  cnt' = CASE pop /\ ~push -> (cnt - 1) % CntRange
           [] push /\ ~pop -> (cnt + 1) % CntRange
           [] OTHER -> cnt

Serve(wr, rd, din) == /\ WriteSide(wr /\ ~MinerFull, din)
                      /\ ReadSide(rd /\ ~Empty)
                      /\ Counter(wr /\ ~MinerFull, rd /\ ~Empty)

MinerClock(rst, wr, rd, din) == IF rst THEN Reset ELSE Serve(wr, rd, din)

MinerNext ==
  \E rst, wr, rd \in BOOLEAN, din \in Data : MinerClock(rst, wr, rd, din)

MinerSpec == MinerInit /\ [][MinerNext]_vars
-----------------------------------------------------------------------------
\* Type invariant, for every FIFO_SIZE.
MinerTypeOK == /\ wptr \in 0 .. PtrRange - 1
               /\ rptr \in 0 .. PtrRange - 1
               /\ cnt \in 0 .. CntRange - 1
               /\ mem \in [0 .. FIFO_SIZE - 1 -> Data \cup {Undef}]
               /\ dout \in Data \cup {Undef}

\* With FIFO_SIZE = 2^4 this FIFO too satisfies PointersAgree, though its
\* counter is kept by a block of its own that sees a read and a write at one
\* edge as no change at all (Fifo.sv:73-79), and IsQueue, also when it hands
\* out a word and takes one in at the same edge (Fifo.sv:50-79).
=============================================================================
