-------------------------------- MODULE Fifo --------------------------------
(***************************************************************************)
(* The FIFO of comms-interfaces/fifo.sv, one step per rising clock edge.   *)
(* rst, wr, rd and din are the levels of the inputs at the edge.  A write  *)
(* that is accepted takes precedence: the read asked for at the same edge  *)
(* is not served.                                                          *)
(***************************************************************************)
EXTENDS Storage

CONSTANTS Data,       \* the words on din
          Undef,      \* an output register before its first assignment
          PtrRange,   \* 2^4: values of the 4-bit pointers, slots of mem
          CntRange,   \* 2^5: values of the 5-bit counter
          Depth       \* 16: the count that raises full

ASSUME FifoAssumption ==
  /\ PtrRange \in Nat \ {0} /\ CntRange \in Nat \ {0}
  /\ Depth = PtrRange
  /\ CntRange > Depth
  /\ Undef \notin Data

VARIABLES wptr, rptr, cnt, mem, dout
vars == <<wptr, rptr, cnt, mem, dout>>

Empty == cnt = 0
\* Mutant: full is raised one word late.
FullLate == cnt = Depth + 1
Full == cnt = Depth

Init == /\ wptr = 0 /\ rptr = 0 /\ cnt = 0
        /\ mem = [a \in 0 .. PtrRange - 1 |-> Undef]
        /\ dout = Undef

Reset == /\ wptr' = 0 /\ rptr' = 0 /\ cnt' = 0
         /\ UNCHANGED <<mem, dout>>

\* Mutant: the pointer moves before the word is stored.
WriteAhead(din) == /\ wptr' = Inc(wptr, PtrRange)
                   /\ mem' = [mem EXCEPT ![wptr'] = din]
                   /\ cnt' = (cnt + 1) % CntRange
                   /\ UNCHANGED <<rptr, dout>>

Write(din) == /\ mem' = [mem EXCEPT ![wptr] = din]
              /\ wptr' = Inc(wptr, PtrRange)
              /\ cnt' = (cnt + 1) % CntRange
              /\ UNCHANGED <<rptr, dout>>

\* Mutant: a read that does not move the pointer.
ReadInPlace == /\ dout' = mem[rptr]
               /\ cnt' = (cnt - 1) % CntRange
               /\ UNCHANGED <<wptr, rptr, mem>>

Read == /\ dout' = mem[rptr]
        /\ rptr' = Inc(rptr, PtrRange)
        /\ cnt' = (cnt - 1) % CntRange
        /\ UNCHANGED <<wptr, mem>>

Clock(rst, wr, rd, din) ==
  \/ rst /\ Reset
  \/ ~rst /\ (wr /\ ~Full) /\ Write(din)
  \/ ~rst /\ ~(wr /\ ~Full) /\ (rd /\ ~Empty) /\ Read
  \/ ~rst /\ ~(wr /\ ~Full) /\ ~(rd /\ ~Empty) /\ UNCHANGED vars

Next == \E rst, wr, rd \in BOOLEAN, din \in Data : Clock(rst, wr, rd, din)

Spec == Init /\ [][Next]_vars

\* The clock runs for ever and the reader goes on asking: edges with rd high
\* and rst low keep coming, whatever the writer does at them.
ReaderAsks == \E wr \in BOOLEAN, din \in Data : Clock(FALSE, wr, TRUE, din)
FairSpec == Spec /\ WF_vars(ReaderAsks)
-----------------------------------------------------------------------------
TypeOK == /\ wptr \in 0 .. PtrRange - 1
          /\ rptr \in 0 .. PtrRange - 1
          /\ cnt \in 0 .. Depth
          /\ mem \in [0 .. PtrRange - 1 -> Data \cup {Undef}]
          /\ dout \in Data \cup {Undef}

\* The three registers agree: the write pointer is cnt slots after the read
\* pointer, and every slot between the two has been written.  The registers
\* are updated independently of each other (fifo.sv:16-36).
PointersAgree ==
  /\ wptr = Slot(rptr, cnt, PtrRange)
  /\ \A i \in 1 .. cnt : Contents(mem, rptr, cnt, PtrRange)[i] \in Data

\* The FIFO is a queue of Depth words: nothing is lost, duplicated, reordered
\* or read before it was written, across wrap-around, refused requests and
\* resets (fifo.sv:14-41).
Q == INSTANCE BoundedQueue
       WITH queue <- Contents(mem, rptr, cnt, PtrRange), out <- dout,
            Capacity <- Depth
IsQueue == Q!Spec

\* Although writes win over reads, a reader that keeps asking is served: the
\* word at the head leaves (or a reset drops it), since a writer that never
\* pauses fills the FIFO and is then refused (fifo.sv:23, 30).
HeadLeaves ==
  \A p \in 0 .. PtrRange - 1 :
    (rptr = p /\ cnt > 0) ~> (rptr # p \/ cnt = 0)
=============================================================================
