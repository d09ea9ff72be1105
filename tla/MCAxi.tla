-------------------------------- MODULE MCAxi --------------------------------
(* Instances of Axi for TLC: sets of transactions for the generator.         *)
EXTENDS Axi

Write(burst, len, addr) ==
  [kind |-> "write", burst |-> burst, len |-> len, addr |-> addr]
Read(burst, len, addr) ==
  [kind |-> "read", burst |-> burst, len |-> len, addr |-> addr]

\* Bursts of one length: two beats of four bytes wrap at 8.
SameLength ==
  {Write(bt, 1, a) : bt \in {"fixed", "incr", "wrap"}, a \in {0, 5}}
  \cup {Read(bt, 1, a) : bt \in {"fixed", "incr", "wrap"}, a \in {0, 5}}

\* Two lengths of INCR writes.
TwoLengths == {Write("incr", len, a) : len \in {0, 1}, a \in {0, 5}}

\* Reads the slave does not answer in full: refused, out of memory at the
\* second beat (behind its end and exactly at it), and as many beats as
\* len_count has values.
Unanswered ==
  {Read("incr", 1, a) : a \in {20, 13, 12}} \cup {Read("incr", 3, 0)}
Mixed == SameLength \cup Unanswered

Always == {TRUE}
Sometimes == BOOLEAN
=============================================================================
