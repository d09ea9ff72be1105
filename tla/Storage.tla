------------------------------ MODULE Storage ------------------------------
(***************************************************************************)
(* How what is stored is read.  The FIFO of comms-interfaces and the FIFO  *)
(* of the miner keep words in a ring of memory, addressed by registers     *)
(* that wrap by their width alone; a queue or a vector keeps, when some of *)
(* its elements are taken out, the others in their order.                  *)
(***************************************************************************)
EXTENDS Integers, Sequences

\* The pointer after an increment of a register that has `range' values.
Inc(p, range) == (p + 1) % range

\* The slot `i' places after slot p.
Slot(p, i, range) == (p + i) % range

\* The `cnt' words that start at slot rptr, oldest first.
Contents(mem, rptr, cnt, range) ==
  [i \in 1 .. cnt |-> mem[Slot(rptr, i - 1, range)]]

\* The elements of s at the positions in I, in their order.
Kept(s, I) ==
  LET upTo[n \in 0 .. Len(s)] ==
        IF n = 0 THEN <<>>
        ELSE IF n \in I THEN Append(upTo[n - 1], s[n]) ELSE upTo[n - 1]
  IN  upTo[Len(s)]
=============================================================================
