----------------------------- MODULE MinerCore -----------------------------
(***************************************************************************)
(* What MinerCore.sv puts into the miner: the hashers of Hasher.sv, with   *)
(* the round of Sha256Compression.sv each of them drives, and the          *)
(* registers of MinerConfig.sv.  MinerCore leaves the ports of its hashers *)
(* unconnected; they are driven here as TestHasher.sv drives one.          *)
(*                                                                         *)
(* What a round computes is left open: working variables stand for the     *)
(* hash they began with, their block and the number of rounds, and a hash  *)
(* for the blocks it has digested.                                         *)
(***************************************************************************)
EXTENDS Clocked

CONSTANTS Rounds,                 \* 64
          WriteIndices, ReadIndices  \* registers the processor writes and reads

ASSUME MinerCoreAssumption ==
  /\ Rounds \in Nat /\ Rounds > 2
  /\ WriteIndices \cup ReadIndices \subseteq Nat
-----------------------------------------------------------------------------
(* Hasher.sv                                                               *)
InitialVars == <<>>   \* no block digested
Wrong == -1           \* no round count, and a block no one has sent
Cleared == <<Wrong>>  \* what the hash is set to at a reset
NoBlock == [firstBlock |-> FALSE, lastBlock |-> FALSE, block |-> 0]

\* Round j of the compression; at j = 0 its inputs are the hash and the block.
compression(c) ==
  IF c.j = 0 THEN [from |-> c.hashLocal, block |-> c.data.block, rounds |-> 1]
  ELSE [c.vars EXCEPT !.rounds = IF @ = c.j THEN @ + 1 ELSE Wrong]

Digested(c) ==
  Append(c.hashLocal,
         IF c.vars = [from |-> c.hashLocal, block |-> c.data.block, rounds |-> Rounds]
           THEN c.data.block ELSE Wrong)

transferHash(c, readyHashIn) == c.validHash /\ readyHashIn
nextValidHash(c, readyHashIn) ==
  c.state = "TransferOut" /\ c.data.lastBlock /\ ~transferHash(c, readyHashIn)
stalled(c, readyHashIn) == c.validHash /\ ~readyHashIn

nextState(c, transferIn, readyHashIn) ==
  CASE c.state = "Idle" -> IF transferIn THEN "HashingBlock" ELSE "Idle"
    [] c.state = "HashingBlock" -> IF c.j = Rounds - 2 THEN "LastRound" ELSE "HashingBlock"
    [] c.state = "LastRound" -> "UpdateHash"
    [] c.state = "UpdateHash" -> IF c.data.lastBlock THEN "TransferOut" ELSE "Idle"
    [] c.state = "TransferOut" ->
         IF transferHash(c, readyHashIn) THEN "Idle" ELSE "TransferOut"

\* An edge with the reset low; dataIn is what is transferred, or NoBlock.
hasher(c, dataIn, readyHashIn) ==
  LET transferIn == dataIn # NoBlock
      valid == nextValidHash(c, readyHashIn)
      holds == stalled(c, readyHashIn)
  IN  [ready |-> c.state = "Idle" /\ ~transferIn,
       data |-> IF transferIn THEN dataIn ELSE c.data,
       j |-> CASE c.state = "Idle" -> 0 [] c.state = "HashingBlock" -> c.j + 1
               [] OTHER -> c.j,
       hashLocal |-> IF transferIn /\ dataIn.firstBlock THEN InitialVars
                     ELSE IF c.state = "UpdateHash" THEN Digested(c) ELSE c.hashLocal,
       vars |-> compression(c),
       hash |-> IF ~holds /\ valid THEN c.hashLocal ELSE c.hash,
       validHash |-> IF holds THEN TRUE ELSE valid,
       state |-> nextState(c, transferIn, readyHashIn)]

\* The reset leaves the state, the data and the round counter as they go, and
\* with them a block that is taken at its edge.
ResetHasher(c, dataIn, readyHashIn) ==
  [hasher(c, dataIn, readyHashIn) EXCEPT
     !.ready = FALSE, !.hashLocal = Cleared, !.hash = Cleared, !.validHash = FALSE]

HasherInit ==
  Powered("hasher",
          [ready |-> FALSE, data |-> NoBlock, j |-> 0, hashLocal |-> Cleared,
           vars |-> [from |-> Cleared, block |-> 0, rounds |-> Wrong],
           hash |-> Cleared, validHash |-> FALSE, state |-> "Idle"],
          Nothing)

Collected(readyHashIn) ==
  IF transferHash(chip, readyHashIn) THEN Delivers(bench, chip.hash) ELSE bench
HasherEdge(c, notes) ==
  Edge(c, Rested(notes, c.ready /\ c.state = "Idle" /\ ~c.validHash))

\* A message is sent when its last block is taken.
Sends(notes, in) ==
  LET message == Append(notes.message, in.block)
  IN  IF in.lastBlock THEN [Accepts(notes, message) EXCEPT !.message = <<>>]
      ELSE [notes EXCEPT !.message = message, !.words = @ + 1]

HasherClock == device = "hasher" /\ HasherEdge(hasher(chip, NoBlock, TRUE), Collected(TRUE))
HasherStep ==
  \/ HasherClock
  \/ /\ device = "hasher"
     /\ \E readyHashIn \in BOOLEAN, lastBlock \in BOOLEAN :
          LET in == [firstBlock |-> bench.message = <<>>, lastBlock |-> lastBlock,
                     block |-> bench.words + 1]
          IN  \/ HasherEdge(hasher(chip, NoBlock, readyHashIn), Collected(readyHashIn))
              \/ /\ chip.ready /\ bench.words <= MaxWords
                 /\ HasherEdge(hasher(chip, in, readyHashIn), Sends(Collected(readyHashIn), in))
              \/ /\ bench.resets < MaxResets
                 /\ \E dataIn \in {in, NoBlock} :
                      /\ dataIn = in => chip.ready
                      /\ HasherEdge(ResetHasher(chip, dataIn, readyHashIn),
                                    [Loses(Collected(readyHashIn)) EXCEPT !.message = <<>>])
-----------------------------------------------------------------------------
(* MinerConfig.sv.  Registers are named by their index, one in eight bytes *)
START_CONFIG == 2
START_CONTROL == 4
END_REGISTERS == 5
Statuses == [i \in 0 .. START_CONFIG - 1 |-> <<"status", i>>]
Address(index) == <<"address", index>>
Value(n) == <<"value", n>>
Unknown == <<"unknown", 0>>

\* Both arrays are indexed from 0 and addressed with the index among all
\* registers, which is beyond them: simulated, such a read gives unknowns and
\* such a write does nothing; built, the index may lose its upper bits.
Read(registers, index) ==
  {Unknown, Value(registers[index % Cardinality(DOMAIN registers)])}
Written(registers, index, value) ==
  {registers, [registers EXCEPT ![index % Cardinality(DOMAIN registers)] = value]}
IsConfig(index) == START_CONFIG <= index /\ index < START_CONTROL
IsControl(index) == START_CONTROL <= index /\ index < END_REGISTERS

\* What is read is chosen by the address of the write.
ReadData(c, in) ==
  CASE in.araddr < START_CONFIG -> {Statuses[in.araddr]}
    [] in.araddr >= START_CONFIG /\ IsConfig(in.awaddr) -> Read(c.configs, in.araddr)
    [] in.araddr >= START_CONFIG /\ IsControl(in.awaddr) -> Read(c.control, in.araddr)
    [] OTHER -> {Address(in.araddr)}

Configs(c, in) == IF c.awready /\ IsConfig(in.awaddr)
                    THEN Written(c.configs, in.awaddr, bench.writes + 1) ELSE {c.configs}
ControlOf(c, in) == IF c.awready /\ IsControl(in.awaddr)
                      THEN Written(c.control, in.awaddr, bench.writes + 1) ELSE {c.control}

Awready(c, in) ==
  ~c.awready /\ in.awvalid /\ in.wvalid /\ (~c.bvalid \/ in.bready)

MinerRegisters(c, in) ==
  {[awready |-> Awready(c, in),
    bvalid |-> c.awready \/ (c.bvalid /\ ~in.bready),
    readValid |-> IF c.readValid THEN ~in.rready ELSE in.arvalid,
    readData |-> r, configs |-> g, control |-> t]
     : r \in ReadData(c, in), g \in Configs(c, in), t \in ControlOf(c, in)}
\* The reset of the handshakes does not hold back the registers themselves.
ResetRegisters(c, in) ==
  {[d EXCEPT !.awready = FALSE, !.bvalid = FALSE, !.readValid = FALSE]
     : d \in MinerRegisters(c, in)}

Off == [awvalid |-> FALSE, wvalid |-> FALSE, bready |-> FALSE, arvalid |-> FALSE,
        rready |-> FALSE, awaddr |-> 0, araddr |-> 1]
Inputs == [awvalid : BOOLEAN, wvalid : BOOLEAN, bready : BOOLEAN, arvalid : BOOLEAN,
           rready : BOOLEAN, awaddr : WriteIndices, araddr : ReadIndices]
RegistersInit ==
  Powered("registers",
          [awready |-> FALSE, bvalid |-> FALSE, readValid |-> FALSE, readData |-> Unknown,
           configs |-> [i \in 0 .. START_CONTROL - START_CONFIG - 1 |-> 0],
           control |-> [i \in 0 .. END_REGISTERS - START_CONTROL - 1 |-> 0]],
          [in |-> Off, writes |-> 0, acks |-> 0, reads |-> 0, answers |-> 0,
           asked |-> 0, held |-> FALSE, resets |-> 0])

Plus(n, happens) == IF happens THEN n + 1 ELSE n
Observed(in) ==
  LET reads == in.arvalid /\ ~chip.readValid
  IN  [bench EXCEPT !.writes = Plus(@, chip.awready),
                    !.acks = Plus(@, chip.bvalid /\ in.bready),
                    !.reads = Plus(@, reads),
                    !.answers = Plus(@, chip.readValid /\ in.rready),
                    !.asked = IF reads THEN in.araddr ELSE @,
                    !.held = reads \/ (@ /\ in.araddr = bench.asked)]

\* The master keeps what is valid until it is taken.  It gives the address of
\* a next read, perhaps, while the answer to the last one waits.  That it is
\* ready for an answer makes no difference before there is one.
MayFollow(in, next, c, notes) ==
  /\ next.bready => c.bvalid
  /\ next.rready => c.readValid
  /\ in.awvalid /\ ~chip.awready => next.awvalid
  /\ in.wvalid /\ ~chip.awready => next.wvalid
  /\ in.arvalid /\ chip.readValid => next.arvalid
  /\ next.awaddr # in.awaddr => next.awvalid /\ (in.awvalid => chip.awready)
  /\ next.araddr # in.araddr => next.arvalid /\ (in.arvalid => ~chip.readValid)
  /\ next.awvalid \/ next.wvalid => notes.writes < MaxWords
  /\ next.arvalid => notes.reads < MaxWords

RegistersStep ==
  /\ device = "registers"
  /\ \/ \E c \in MinerRegisters(chip, bench.in), next \in Inputs :
          LET notes == Observed(bench.in)
          IN  /\ MayFollow(bench.in, next, c, notes)
              /\ Edge(c, [notes EXCEPT !.in = next])
     \/ \E c \in ResetRegisters(chip, bench.in) :
          /\ bench.resets < MaxResets
          /\ Edge(c, [bench EXCEPT !.in = Off, !.writes = 0, !.acks = 0, !.reads = 0,
                                   !.answers = 0, !.resets = @ + 1])
-----------------------------------------------------------------------------
\* Every message has its hash, made of all its blocks and of no other, once
\* and in order, however long its receiver keeps it waiting and however close
\* the next message follows (Hasher.sv:182).
Hashed == device = "hasher" => InOrder(bench)

\* Every write the registers take is acknowledged once and every read is
\* answered once, and a status that is read with its address held is the
\* status (MinerConfig.sv:98, 177).
Acknowledged ==
  device = "registers" =>
    /\ bench.writes = Plus(bench.acks, chip.bvalid)
    /\ bench.reads = Plus(bench.answers, chip.readValid)
    /\ chip.readValid /\ bench.held /\ bench.asked < START_CONFIG =>
         chip.readData = Statuses[bench.asked]
=============================================================================
