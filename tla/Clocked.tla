------------------------------ MODULE Clocked ------------------------------
(***************************************************************************)
(* What the bus devices of comms-interfaces and the parts of the miner     *)
(* core have in common: registers that change together at the edge of a    *)
(* clock, and a testbench that drives their inputs and takes down what     *)
(* they answer.  A step is one edge; every register takes the value it     *)
(* computes from the values before the edge.                               *)
(***************************************************************************)
EXTENDS Integers, FiniteSets, SequencesExt

CONSTANTS X, Z,       \* the levels of a line that are neither 0 nor 1:
                      \* unknown, and driven by nobody
          MaxWords,   \* bound: words or blocks of a behaviour
          MaxResets   \* bound: ticks with the reset high

ASSUME ClockedAssumption ==
  MaxWords \in Nat \ {0} /\ MaxResets \in Nat /\ {X, Z} \cap {0, 1} = {} /\ X # Z

VARIABLES device,   \* what is simulated
          chip,     \* its registers
          bench     \* the testbench: its tasks and its notes

vars == <<device, chip, bench>>

Powered(name, registers, notes) ==
  device = name /\ chip = registers /\ bench = notes

Edge(registers, notes) ==
  /\ chip' = registers /\ bench' = notes
  /\ UNCHANGED device

Bit == {0, 1}
Word(width) == [1 .. width -> Bit]     \* lowest bit first
Zeros(width) == [i \in 1 .. width |-> 0]

\* A shift register that takes bits at its top.
Shifted(register, bit) == Append(Tail(register), bit)
-----------------------------------------------------------------------------
(* The notes of a bench that sends words: those accepted, those that came  *)
(* out, and whether a reset has put the two ends out of step; whose tick   *)
(* is next, and the part of a message that has been sent.                  *)
Nothing == [sent |-> <<>>, got |-> <<>>, lost |-> FALSE, words |-> 0, resets |-> 0,
            turn |-> "tx", message |-> <<>>]

Accepts(notes, word) == [notes EXCEPT !.sent = Append(@, word), !.words = @ + 1]
Delivers(notes, word) == [notes EXCEPT !.got = Append(@, word)]
Loses(notes) == [notes EXCEPT !.lost = TRUE, !.resets = @ + 1]

\* Both ends at rest again: what was under way is written off.
Rested(notes, atRest) ==
  IF notes.lost /\ atRest
    THEN [notes EXCEPT !.sent = <<>>, !.got = <<>>, !.lost = FALSE]
    ELSE notes

InOrder(notes) == notes.lost \/ IsPrefix(notes.got, notes.sent)
Through(notes) == ~notes.lost /\ notes.got = notes.sent
=============================================================================
