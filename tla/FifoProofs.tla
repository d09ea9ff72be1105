----------------------------- MODULE FifoProofs -----------------------------
(***************************************************************************)
(* The FIFO of Fifo.tla is a queue of Depth words, for every Depth, every  *)
(* set of words and a counter of any width that can count to Depth.  The   *)
(* registers of the FIFO of MinerFifo.tla keep their types for every size; *)
(* with a size that matches the pointers it is the same queue, also at the *)
(* edges that serve a write and a read together.                           *)
(***************************************************************************)
EXTENDS MinerFifo, DataTheorems

LEMMA Sizes ==
  /\ PtrRange \in Nat /\ PtrRange # 0
  /\ CntRange \in Nat /\ CntRange # 0
  /\ Depth = PtrRange /\ CntRange > Depth
  BY FifoAssumption

\* The counter register does not wrap between 0 and Depth.
LEMMA Counting ==
  ASSUME NEW C \in Nat, C # 0, NEW c \in 0 .. C - 1
  PROVE  /\ c + 1 < C => (c + 1) % C = c + 1
         /\ c # 0 => (c - 1) % C = c - 1
  <1>1. c + 1 < C => (c + 1) % C = c + 1
    BY SMT
  <1>2. c # 0 => (c - 1) % C = c - 1
    BY SMT
  <1> QED BY <1>1, <1>2

\* What an accepted write and a served read do to the counter.
LEMMA CountSteps ==
  ASSUME TypeOK
  PROVE  /\ ~Full => cnt \in 0 .. Depth - 1 /\ (cnt + 1) % CntRange = cnt + 1
         /\ ~Empty => cnt \in 1 .. Depth /\ (cnt - 1) % CntRange = cnt - 1
  <1>1. cnt \in 0 .. CntRange - 1 /\ cnt \in 0 .. Depth /\ Depth \in Nat
    BY Sizes DEF TypeOK
  <1>2. ~Full => cnt \in 0 .. Depth - 1 /\ cnt + 1 < CntRange
    BY <1>1, Sizes DEF Full
  <1>3. ~Empty => cnt \in 1 .. Depth /\ cnt # 0
    BY <1>1 DEF Empty
  <1> QED BY <1>1, <1>2, <1>3, Sizes, Counting

-----------------------------------------------------------------------------
LEMMA TypeInit == Init => TypeOK
  BY Sizes DEF Init, TypeOK

LEMMA TypeStep == TypeOK /\ [Next]_vars => TypeOK'
  <1> SUFFICES ASSUME TypeOK, [Next]_vars PROVE TypeOK'
    OBVIOUS
  <1>1. ASSUME Reset PROVE TypeOK'
    BY <1>1, Sizes DEF Reset, TypeOK
  <1>2. ASSUME NEW din \in Data, ~Full, Write(din) PROVE TypeOK'
    <2>1. cnt' \in 0 .. Depth
      BY <1>2, CountSteps, Sizes DEF Write
    <2>2. wptr' \in 0 .. PtrRange - 1
      BY <1>2, Sizes, IncRange DEF Write, TypeOK
    <2> QED BY <1>2, <2>1, <2>2 DEF Write, TypeOK
  <1>3. ASSUME ~Empty, Read PROVE TypeOK'
    <2>1. cnt' \in 0 .. Depth
      BY <1>3, CountSteps, Sizes DEF Read
    <2>2. rptr' \in 0 .. PtrRange - 1
      BY <1>3, Sizes, IncRange DEF Read, TypeOK
    <2> QED BY <1>3, <2>1, <2>2 DEF Read, TypeOK
  <1>4. CASE UNCHANGED vars
    BY <1>4 DEF vars, TypeOK
  <1> QED BY <1>1, <1>2, <1>3, <1>4 DEF Next, Clock

\* The pointers stay inside the ring and the counter never passes the number
\* of slots: full is raised in time (fifo.sv:23-41).
THEOREM TypeInvariant == Spec => []TypeOK
  BY TypeInit, TypeStep, PTL DEF Spec

-----------------------------------------------------------------------------
Stored == Contents(mem, rptr, cnt, PtrRange)

\* The words between the pointers, one step later.
LEMMA StoredByWrite ==
  ASSUME TypeOK, PointersAgree, ~Full, NEW din \in Data, Write(din)
  PROVE  Stored' = Append(Stored, din)
  <1>1. DOMAIN mem = 0 .. PtrRange - 1 /\ rptr \in 0 .. PtrRange - 1
    BY DEF TypeOK
  <1>2. cnt \in 0 .. PtrRange - 1 /\ cnt' = cnt + 1
    BY CountSteps, Sizes DEF Write
  <1>3. wptr = Slot(rptr, cnt, PtrRange)
    BY DEF PointersAgree
  <1>4. mem' = [mem EXCEPT ![wptr] = din] /\ rptr' = rptr
    BY DEF Write
  <1>5. Stored' = Contents(mem', rptr, cnt', PtrRange)
    BY <1>2, <1>4 DEF Stored
  <1>6. /\ mem'[Slot(rptr, cnt, PtrRange)] = din
        /\ \A a \in 0 .. PtrRange - 1 :
             a # Slot(rptr, cnt, PtrRange) => mem'[a] = mem[a]
    BY <1>1, <1>3, <1>4 DEF TypeOK
  <1>7. PtrRange \in Nat /\ PtrRange # 0 /\ cnt' \in 1 .. PtrRange /\ cnt' - cnt = 1
    BY <1>2, Sizes
  <1>8. Contents(mem', rptr, cnt', PtrRange)
          = Append(Contents(mem, rptr, cnt, PtrRange), din)
    BY <1>1, <1>2, <1>6, <1>7, ContentsPush
  <1> QED BY <1>5, <1>8 DEF Stored

LEMMA StoredByRead ==
  ASSUME TypeOK, ~Empty, Read
  PROVE  Stored # <<>> /\ dout' = Head(Stored) /\ Stored' = Tail(Stored)
  <1>1. rptr \in 0 .. PtrRange - 1
    BY DEF TypeOK
  <1>2. cnt \in 1 .. PtrRange /\ cnt' = cnt - 1
    BY CountSteps, Sizes DEF Read
  <1>3. mem' = mem /\ rptr' = Inc(rptr, PtrRange) /\ dout' = mem[rptr]
    BY DEF Read
  <1>4. Stored' = Contents(mem, Inc(rptr, PtrRange), cnt - 1, PtrRange)
    BY <1>2, <1>3 DEF Stored
  <1>5. /\ Stored # <<>> /\ Head(Stored) = mem[rptr]
        /\ Contents(mem, Inc(rptr, PtrRange), cnt - 1, PtrRange) = Tail(Stored)
    BY <1>1, <1>2, Sizes, ContentsPop DEF Stored
  <1> QED BY <1>3, <1>4, <1>5

LEMMA StoredSeq ==
  ASSUME TypeOK, PointersAgree
  PROVE  Stored \in Seq(Data) /\ Len(Stored) = cnt
  <1>1. cnt \in Nat /\ Stored = [i \in 1 .. cnt |-> mem[Slot(rptr, i - 1, PtrRange)]]
    BY Sizes DEF TypeOK, Stored, Contents
  <1>2. \A i \in 1 .. cnt : Stored[i] \in Data
    BY DEF PointersAgree, Stored
  <1> QED BY <1>1, <1>2

LEMMA StoredByReset ==
  ASSUME Reset
  PROVE  Stored' = <<>>
  BY DEF Reset, Stored, Contents

-----------------------------------------------------------------------------
LEMMA PointersInit == Init => PointersAgree
  <1> SUFFICES ASSUME Init PROVE PointersAgree
    OBVIOUS
  <1>1. 0 \in 0 .. PtrRange - 1 /\ 0 \in 0 .. PtrRange
    BY Sizes
  <1>2. Slot(0, 0, PtrRange) = 0
    BY <1>1, Sizes, SlotRange
  <1> QED BY <1>2 DEF Init, PointersAgree

LEMMA PointersStep == TypeOK /\ PointersAgree /\ [Next]_vars => PointersAgree'
  <1> SUFFICES ASSUME TypeOK, PointersAgree, [Next]_vars
               PROVE  PointersAgree'
    OBVIOUS
  <1>1. ASSUME Reset PROVE PointersAgree'
    <2>1. 0 \in 0 .. PtrRange - 1 /\ 0 \in 0 .. PtrRange
      BY Sizes
    <2>2. Slot(0, 0, PtrRange) = 0
      BY <2>1, Sizes, SlotRange
    <2> QED BY <1>1, <2>2 DEF Reset, PointersAgree
  <1>2. ASSUME NEW din \in Data, ~Full, Write(din) PROVE PointersAgree'
    <2>1. cnt \in 0 .. PtrRange - 1 /\ cnt' = cnt + 1
      BY <1>2, CountSteps, Sizes DEF Write
    <2>2. wptr' = Inc(Slot(rptr, cnt, PtrRange), PtrRange) /\ rptr' = rptr
      BY <1>2 DEF Write, PointersAgree
    <2>3. wptr' = Slot(rptr', cnt', PtrRange)
      BY <2>1, <2>2, Sizes, SlotStep DEF TypeOK
    <2>4. Stored' = Append(Stored, din) /\ Stored \in Seq(Data)
          /\ Len(Stored) = cnt /\ cnt \in Nat
      BY <1>2, <2>1, StoredByWrite, StoredSeq, Sizes
    <2>5. \A i \in 1 .. cnt' : Stored'[i] \in Data
      BY <2>1, <2>4
    <2> QED BY <2>3, <2>5 DEF PointersAgree, Stored
  <1>3. ASSUME ~Empty, Read PROVE PointersAgree'
    <2>1. cnt \in 1 .. PtrRange /\ cnt' = cnt - 1 /\ cnt - 1 \in 0 .. PtrRange - 1
          /\ (cnt - 1) + 1 = cnt
      BY <1>3, CountSteps, Sizes DEF Read
    <2>2. wptr' = Slot(rptr, cnt, PtrRange) /\ rptr' = Inc(rptr, PtrRange)
      BY <1>3 DEF Read, PointersAgree
    <2>3. Slot(Inc(rptr, PtrRange), cnt - 1, PtrRange)
            = Slot(rptr, (cnt - 1) + 1, PtrRange)
      BY <2>1, Sizes, SlotStep DEF TypeOK
    <2>4. Stored' = Tail(Stored) /\ Stored \in Seq(Data) /\ Stored # <<>>
          /\ Len(Stored) = cnt
      BY <1>3, StoredByRead, StoredSeq
    <2>5. \A i \in 1 .. cnt' : Stored'[i] \in Data
      BY <2>1, <2>4
    <2> QED BY <2>1, <2>2, <2>3, <2>5 DEF PointersAgree, Stored
  <1>4. CASE UNCHANGED vars
    BY <1>4 DEF vars, PointersAgree
  <1> QED BY <1>1, <1>2, <1>3, <1>4 DEF Next, Clock

\* The two pointers and the counter, which the clocked block updates
\* independently of each other, always describe the same stored words.
THEOREM PointersInvariant == Spec => []PointersAgree
  BY TypeInit, TypeStep, PointersInit, PointersStep, PTL DEF Spec

-----------------------------------------------------------------------------
LEMMA QueueInit == Init => Q!Init
  BY FifoAssumption DEF Init, Q!Init, Contents

LEMMA QueueStep ==
  TypeOK /\ PointersAgree /\ [Next]_vars => [Q!Next]_<<Stored, dout>>
  <1> SUFFICES ASSUME TypeOK, PointersAgree, [Next]_vars
               PROVE  [Q!Next]_<<Stored, dout>>
    OBVIOUS
  <1>1. ASSUME Reset PROVE Q!Next
    BY <1>1, StoredByReset DEF Reset, Stored, Q!Next, Q!Clear
  <1>2. ASSUME NEW din \in Data, ~Full, Write(din) PROVE Q!Next
    <2>1. Len(Stored) < Depth
      BY <1>2, StoredSeq, CountSteps, Sizes
    <2>2. Stored' = Append(Stored, din) /\ dout' = dout
      BY <1>2, StoredByWrite DEF Write
    <2>3. Q!Push(din)
      BY <2>1, <2>2 DEF Q!Push, Stored
    <2> QED BY <2>3 DEF Q!Next
  <1>3. ASSUME ~Empty, Read PROVE Q!Next
    BY <1>3, StoredByRead DEF Stored, Q!Next, Q!Pop
  <1>4. CASE UNCHANGED vars
    BY <1>4 DEF vars, Stored
  <1> QED BY <1>1, <1>2, <1>3, <1>4 DEF Next, Clock

\* The hardware FIFO implements the bounded queue: every clock edge adds one
\* word at the tail, hands out the word at the head, empties the queue, or
\* changes nothing that a client can see.
THEOREM ImplementsQueue == Spec => IsQueue
  <1>1. Init => Q!Init
    BY QueueInit
  <1>2. TypeOK /\ PointersAgree /\ [Next]_vars
          => [Q!Next]_<<Contents(mem, rptr, cnt, PtrRange), dout>>
    BY QueueStep DEF Stored
  <1> QED BY <1>1, <1>2, TypeInvariant, PointersInvariant, PTL
          DEF Spec, IsQueue, Q!Spec

-----------------------------------------------------------------------------
(* The FIFO of the miner.                                                  *)

LEMMA MinerSizes == FIFO_SIZE \in Nat /\ FIFO_SIZE # 0
  BY MinerFifoAssumption

\* A counter of any width counts within it.
LEMMA MinerCounting ==
  ASSUME NEW C \in Nat, C # 0, NEW c \in 0 .. C - 1
  PROVE  (c + 1) % C \in 0 .. C - 1 /\ (c - 1) % C \in 0 .. C - 1
  <1>1. (c + 1) % C \in 0 .. C - 1
    BY SMT
  <1>2. (c - 1) % C \in 0 .. C - 1
    BY SMT
  <1> QED BY <1>1, <1>2

LEMMA MinerTypeInit == MinerInit => MinerTypeOK
  BY Sizes DEF MinerInit, MinerTypeOK

LEMMA MinerTypeServe ==
  ASSUME MinerTypeOK, NEW wr \in BOOLEAN, NEW rd \in BOOLEAN, NEW din \in Data,
         Serve(wr, rd, din)
  PROVE  MinerTypeOK'
  <1> DEFINE push == wr /\ ~MinerFull
             pop == rd /\ ~Empty
  <1>0. WriteSide(push, din) /\ ReadSide(pop) /\ Counter(push, pop)
    BY DEF Serve
  <1>1. /\ wptr' \in 0 .. PtrRange - 1
        /\ mem' \in [0 .. FIFO_SIZE - 1 -> Data \cup {Undef}]
    <2>1. CASE push
      <3>1. wptr' = Inc(wptr, PtrRange) /\ mem' = [mem EXCEPT ![wptr] = din]
        BY <1>0, <2>1 DEF WriteSide
      <3>2. wptr' \in 0 .. PtrRange - 1
        BY <3>1, Sizes, IncRange DEF MinerTypeOK
      <3> QED BY <3>1, <3>2 DEF MinerTypeOK
    <2>2. CASE ~push
      BY <1>0, <2>2 DEF WriteSide, MinerTypeOK
    <2> QED BY <2>1, <2>2
  <1>2. rptr' \in 0 .. PtrRange - 1 /\ dout' \in Data \cup {Undef}
    <2>1. CASE pop
      <3>1. /\ rptr' = Inc(rptr, PtrRange)
            /\ dout' = IF rptr < FIFO_SIZE THEN mem[rptr] ELSE Undef
        BY <1>0, <2>1 DEF ReadSide
      <3>2. rptr' \in 0 .. PtrRange - 1
        BY <3>1, Sizes, IncRange DEF MinerTypeOK
      <3>3. rptr < FIFO_SIZE => rptr \in 0 .. FIFO_SIZE - 1
        BY Sizes, MinerSizes DEF MinerTypeOK
      <3> QED BY <3>1, <3>2, <3>3 DEF MinerTypeOK
    <2>2. CASE ~pop
      BY <1>0, <2>2 DEF ReadSide, MinerTypeOK
    <2> QED BY <2>1, <2>2
  <1>3. cnt' \in 0 .. CntRange - 1
    <2>1. /\ cnt \in 0 .. CntRange - 1
          /\ (cnt + 1) % CntRange \in 0 .. CntRange - 1
          /\ (cnt - 1) % CntRange \in 0 .. CntRange - 1
      BY Sizes, MinerCounting DEF MinerTypeOK
    <2>2. cnt' = (cnt - 1) % CntRange \/ cnt' = (cnt + 1) % CntRange \/ cnt' = cnt
      BY <1>0 DEF Counter
    <2> QED BY <2>1, <2>2
  <1> QED BY <1>1, <1>2, <1>3 DEF MinerTypeOK

LEMMA MinerTypeStep == MinerTypeOK /\ [MinerNext]_vars => MinerTypeOK'
  <1> SUFFICES ASSUME MinerTypeOK, [MinerNext]_vars PROVE MinerTypeOK'
    OBVIOUS
  <1>1. ASSUME Reset PROVE MinerTypeOK'
    BY <1>1, Sizes DEF Reset, MinerTypeOK
  <1>2. ASSUME NEW wr \in BOOLEAN, NEW rd \in BOOLEAN, NEW din \in Data,
               Serve(wr, rd, din)
        PROVE  MinerTypeOK'
    BY <1>2, MinerTypeServe
  <1>3. CASE UNCHANGED vars
    BY <1>3 DEF vars, MinerTypeOK
  <1> QED BY <1>1, <1>2, <1>3 DEF MinerNext, MinerClock

\* Whatever FIFO_SIZE is, smaller or larger than what the pointers address, the
\* pointers and the counter keep their widths, and what is stored and handed
\* out is data that came in or x (Fifo.sv:40-79).
THEOREM MinerTypes == MinerSpec => []MinerTypeOK
  BY MinerTypeInit, MinerTypeStep, PTL DEF MinerSpec

-----------------------------------------------------------------------------
\* The sizes agree: FIFO_SIZE is what the pointers can address, as in the
\* instances with FIFO_SIZE(16) (Fifo.sv:22-24).
Matching == FIFO_SIZE = PtrRange

\* An edge that takes a word in and hands one out.
WriteAndRead(din) ==
  /\ mem' = [mem EXCEPT ![wptr] = din] /\ wptr' = Inc(wptr, PtrRange)
  /\ dout' = mem[rptr] /\ rptr' = Inc(rptr, PtrRange)
  /\ cnt' = cnt

\* What the blocks do at an edge without reset: what the other FIFO does, or
\* both at once.
LEMMA Served ==
  ASSUME TypeOK, Matching, NEW wr \in BOOLEAN, NEW rd \in BOOLEAN, NEW din \in Data,
         Serve(wr, rd, din)
  PROVE  \/ ~Full /\ Write(din)
         \/ ~Empty /\ Read
         \/ ~Full /\ ~Empty /\ WriteAndRead(din)
         \/ UNCHANGED vars
  <1>1. MinerFull <=> Full
    BY Sizes DEF Matching, MinerFull, Full
  <1> DEFINE push == wr /\ ~Full
             pop == rd /\ ~Empty
  <1>2. WriteSide(push, din) /\ ReadSide(pop) /\ Counter(push, pop)
    BY <1>1 DEF Serve
  <1>0. rptr < FIFO_SIZE
    BY Sizes DEF TypeOK, Matching
  <1>3. CASE push /\ ~pop
    BY <1>2, <1>3 DEF WriteSide, ReadSide, Counter, Write
  <1>4. CASE ~push /\ pop
    BY <1>0, <1>2, <1>4 DEF WriteSide, ReadSide, Counter, Read
  <1>5. CASE push /\ pop
    BY <1>0, <1>2, <1>5 DEF WriteSide, ReadSide, Counter, WriteAndRead
  <1>6. CASE ~push /\ ~pop
    BY <1>2, <1>6 DEF WriteSide, ReadSide, Counter, vars
  <1> QED BY <1>3, <1>4, <1>5, <1>6

\* Every word of a sequence of Data with one of Data behind it is in Data.
LEMMA AppendWords ==
  ASSUME NEW s \in Seq(Data), NEW d \in Data
  PROVE  \A i \in 1 .. Len(s) + 1 : Append(s, d)[i] \in Data
  OBVIOUS

\* The contents with the word din behind them, while the read pointer rests.
LEMMA Appended ==
  ASSUME NEW din \in Data, NEW more \in 1 .. PtrRange,
         PtrRange \in Nat, PtrRange # 0,
         cnt \in 0 .. PtrRange - 1, rptr \in 0 .. PtrRange - 1, more - cnt = 1,
         mem'[Slot(rptr, cnt, PtrRange)] = din,
         \A a \in 0 .. PtrRange - 1 :
           a # Slot(rptr, cnt, PtrRange) => mem'[a] = mem[a]
  PROVE  Contents(mem', rptr, more, PtrRange)
           = Append(Contents(mem, rptr, cnt, PtrRange), din)
  BY ContentsPush

LEMMA Extended ==
  ASSUME TypeOK, PointersAgree, NEW din \in Data,
         cnt \in 0 .. PtrRange - 1, mem' = [mem EXCEPT ![wptr] = din]
  PROVE  Contents(mem', rptr, cnt + 1, PtrRange) = Append(Stored, din)
  <1>1. DOMAIN mem = 0 .. PtrRange - 1 /\ rptr \in 0 .. PtrRange - 1
    BY Sizes DEF TypeOK
  <1>2. wptr = Slot(rptr, cnt, PtrRange) /\ wptr \in 0 .. PtrRange - 1
    BY DEF PointersAgree, TypeOK
  <1>3. /\ mem'[Slot(rptr, cnt, PtrRange)] = din
        /\ \A a \in 0 .. PtrRange - 1 :
             a # Slot(rptr, cnt, PtrRange) => mem'[a] = mem[a]
    BY <1>1, <1>2
  <1>4. PICK more \in 1 .. PtrRange : more = cnt + 1
    BY Sizes
  <1>5. more - cnt = 1 /\ PtrRange \in Nat /\ PtrRange # 0
    BY <1>4, Sizes
  <1>6. Contents(mem', rptr, more, PtrRange)
          = Append(Contents(mem, rptr, cnt, PtrRange), din)
    BY <1>1, <1>3, <1>5, Appended
  <1> QED BY <1>4, <1>6 DEF Stored

\* What is stored loses its head and gains din at once.
LEMMA StoredByBoth ==
  ASSUME TypeOK, PointersAgree, ~Full, ~Empty, NEW din \in Data, WriteAndRead(din)
  PROVE  /\ cnt \in 0 .. PtrRange - 1 /\ cnt \in 1 .. PtrRange
         /\ Stored # <<>> /\ dout' = Head(Stored)
         /\ Stored' = Append(Tail(Stored), din)
  <1> DEFINE longer == Contents(mem', rptr, cnt + 1, PtrRange)
  <1>1. /\ cnt \in 0 .. PtrRange - 1 /\ cnt \in 1 .. PtrRange
        /\ cnt + 1 \in 1 .. PtrRange /\ (cnt + 1) - 1 = cnt
        /\ rptr \in 0 .. PtrRange - 1
    BY CountSteps, Sizes DEF TypeOK
  <1>2. longer = Append(Stored, din)
    BY <1>1, Extended DEF WriteAndRead
  <1>3. Contents(mem', Inc(rptr, PtrRange), (cnt + 1) - 1, PtrRange) = Tail(longer)
    BY <1>1, Sizes, ContentsPop
  <1>4. Stored # <<>> /\ Head(Stored) = mem[rptr]
    BY <1>1, Sizes, ContentsPop DEF Stored
  <1>5. Tail(Append(Stored, din)) = Append(Tail(Stored), din)
    BY <1>4, StoredSeq
  <1>6. Stored' = Contents(mem', Inc(rptr, PtrRange), cnt, PtrRange)
    BY DEF WriteAndRead, Stored
  <1> QED BY <1>1, <1>2, <1>3, <1>4, <1>5, <1>6 DEF WriteAndRead

\* Every such edge is an edge of the queue, and the pointers go on describing
\* the stored words.
LEMMA BothStep ==
  ASSUME Matching, TypeOK, PointersAgree, ~Full, ~Empty, NEW din \in Data,
         WriteAndRead(din)
  PROVE  TypeOK' /\ PointersAgree' /\ Q!PushPop(din)
  <1>1. /\ cnt \in 0 .. PtrRange - 1 /\ cnt \in 1 .. PtrRange
        /\ Stored # <<>> /\ dout' = Head(Stored)
        /\ Stored' = Append(Tail(Stored), din)
    BY StoredByBoth
  <1>2. /\ rptr \in 0 .. PtrRange - 1 /\ wptr \in 0 .. PtrRange - 1
        /\ wptr = Slot(rptr, cnt, PtrRange)
        /\ Stored \in Seq(Data) /\ Len(Stored) = cnt
    BY StoredSeq DEF TypeOK, PointersAgree
  <1>3. wptr' = Slot(rptr', cnt', PtrRange)
    <2>1. Inc(Slot(rptr, cnt, PtrRange), PtrRange) = Slot(rptr, cnt + 1, PtrRange)
          /\ Slot(Inc(rptr, PtrRange), cnt, PtrRange) = Slot(rptr, cnt + 1, PtrRange)
      BY <1>1, <1>2, Sizes, SlotStep
    <2> QED BY <1>2, <2>1 DEF WriteAndRead
  <1>4. \A i \in 1 .. cnt' : Stored'[i] \in Data
    <2>1. Tail(Stored) \in Seq(Data) /\ Len(Tail(Stored)) = cnt - 1
      BY <1>1, <1>2
    <2>2. \A i \in 1 .. (cnt - 1) + 1 : Append(Tail(Stored), din)[i] \in Data
      BY <1>1, <2>1, AppendWords
    <2>3. (cnt - 1) + 1 = cnt /\ cnt' = cnt
      BY <1>1, Sizes DEF WriteAndRead
    <2> QED BY <1>1, <2>2, <2>3
  <1>5. Len(Stored) < Depth
    BY <1>1, <1>2, Sizes
  <1>6. TypeOK'
    <2>1. /\ Inc(wptr, PtrRange) \in 0 .. PtrRange - 1
          /\ Inc(rptr, PtrRange) \in 0 .. PtrRange - 1
      BY <1>2, Sizes, IncRange
    <2> QED BY <1>2, <2>1 DEF WriteAndRead, TypeOK
  <1> QED BY <1>1, <1>3, <1>4, <1>5, <1>6 DEF PointersAgree, Q!PushPop, Stored

-----------------------------------------------------------------------------
LEMMA MatchingInit == Matching /\ MinerInit => Init
  BY DEF Matching, MinerInit, Init

\* An edge of the miner's FIFO is one of the other FIFO, or serves both.
LEMMA MatchingStep ==
  ASSUME TypeOK, Matching, MinerNext
  PROVE  \/ [Next]_vars
         \/ \E din \in Data : ~Full /\ ~Empty /\ WriteAndRead(din)
  <1> PICK rst \in BOOLEAN, wr \in BOOLEAN, rd \in BOOLEAN, din \in Data :
        MinerClock(rst, wr, rd, din)
    BY DEF MinerNext
  <1>1. CASE rst
    BY <1>1 DEF MinerClock, Next, Clock
  <1>2. CASE ~rst
    <2>1. Serve(wr, rd, din)
      BY <1>2 DEF MinerClock
    <2>2. ASSUME ~Full, Write(din) PROVE Next
      <3>1. Clock(FALSE, TRUE, FALSE, din)
        BY <2>2 DEF Clock
      <3> QED BY <3>1 DEF Next
    <2>3. ASSUME ~Empty, Read PROVE Next
      <3>1. Clock(FALSE, FALSE, TRUE, din)
        BY <2>3 DEF Clock
      <3> QED BY <3>1 DEF Next
    <2> QED BY <2>1, <2>2, <2>3, Served
  <1> QED BY <1>1, <1>2

LEMMA MinerStep ==
  ASSUME Matching, TypeOK, PointersAgree, [MinerNext]_vars
  PROVE  TypeOK' /\ PointersAgree' /\ [Q!Next]_<<Stored, dout>>
  <1>1. CASE [Next]_vars
    BY <1>1, TypeStep, PointersStep, QueueStep
  <1>2. ASSUME NEW din \in Data, ~Full, ~Empty, WriteAndRead(din)
        PROVE  TypeOK' /\ PointersAgree' /\ [Q!Next]_<<Stored, dout>>
    BY <1>2, BothStep DEF Q!Next
  <1> QED BY <1>1, <1>2, MatchingStep

\* With a matching size the pointers and the counter, kept by three blocks of
\* their own, always describe the same stored words (Fifo.sv:50-79).
THEOREM MinerPointers == Matching => (MinerSpec => []PointersAgree)
  <1> SUFFICES ASSUME Matching PROVE MinerSpec => []PointersAgree
    OBVIOUS
  <1>1. MinerInit => TypeOK /\ PointersAgree
    BY MatchingInit, TypeInit, PointersInit
  <1>2. TypeOK /\ PointersAgree /\ [MinerNext]_vars => TypeOK' /\ PointersAgree'
    BY MinerStep
  <1> QED BY <1>1, <1>2, PTL DEF MinerSpec

\* With a matching size the miner's FIFO implements the bounded queue; at an
\* edge with both requests it hands out the head and appends in one step.
THEOREM MinerImplementsQueue == Matching => (MinerSpec => IsQueue)
  <1> SUFFICES ASSUME Matching PROVE MinerSpec => IsQueue
    OBVIOUS
  <1>1. MinerInit => TypeOK /\ PointersAgree /\ Q!Init
    BY MatchingInit, TypeInit, PointersInit, QueueInit
  <1>2. TypeOK /\ PointersAgree /\ [MinerNext]_vars
          => /\ TypeOK' /\ PointersAgree'
             /\ [Q!Next]_<<Contents(mem, rptr, cnt, PtrRange), dout>>
    BY MinerStep DEF Stored
  <1> QED BY <1>1, <1>2, PTL DEF MinerSpec, IsQueue, Q!Spec
=============================================================================
