---------------------------- MODULE BusesProofs ----------------------------
(***************************************************************************)
(* The devices of MCBuses, for words, quarters, rounds and memories of any *)
(* size.  One device is simulated in each behaviour, so each has an        *)
(* invariant of its own, which the steps of the others leave alone.        *)
(***************************************************************************)
EXTENDS MCBuses, DataTheorems

LEMMA Levels01 == X # 0 /\ X # 1 /\ Z # 0 /\ Z # 1 /\ X # Z
  BY ClockedAssumption

\* What has come out is a prefix of what was sent if it is all of it, or all
\* but the word under way.
LEMMA PrefixOfSent ==
  ASSUME NEW S, NEW got \in Seq(S), NEW sent,
         sent = got \/ \E w \in S : sent = Append(got, w)
  PROVE  IsPrefix(got, sent)
  <1>1. CASE sent = got
    BY <1>1 DEF IsPrefix
  <1>2. ASSUME NEW w \in S, sent = Append(got, w)
        PROVE  IsPrefix(got, sent)
    <2>1. sent \in Seq(S) /\ Len(sent) = Len(got) + 1
      BY <1>2
    <2>2. \A i \in 1 .. Len(got) : sent[i] = got[i]
      BY <1>2
    <2>3. /\ SubSeq(sent, 1, Len(got)) \in Seq(S) /\ SubSeq(got, 1, Len(got)) \in Seq(S)
          /\ Len(SubSeq(sent, 1, Len(got))) = Len(SubSeq(got, 1, Len(got)))
          /\ \A i \in 1 .. Len(got) : SubSeq(sent, 1, Len(got))[i] = SubSeq(got, 1, Len(got))[i]
      BY <2>1, <2>2
    <2>4. Len(SubSeq(got, 1, Len(got))) = Len(got)
      OBVIOUS
    <2>5. SubSeq(got, 1, Len(got)) = SubSeq(sent, 1, Len(got))
      BY <2>3, <2>4, SeqEqual
    <2> QED BY <2>1, <2>5 DEF IsPrefix
  <1> QED BY <1>1, <1>2

\* A word shifted in bit by bit: the last n of the m entries of the register
\* are the first n of the word.
Taken(register, word, n, m) ==
  \A i \in 1 .. n : register[m - n + i] = word[i]

LEMMA WordSeq ==
  ASSUME NEW n \in Nat, NEW S
  PROVE  /\ \A w \in [1 .. n -> S] : w \in Seq(S) /\ Len(w) = n
         /\ \A s \in Seq(S) : Len(s) = n => s \in [1 .. n -> S]
  OBVIOUS

LEMMA ZerosWord == \A n \in Nat : Zeros(n) \in Word(n)
  BY DEF Word, Zeros, Bit

LEMMA ShiftedIn ==
  ASSUME NEW n \in Nat \ {0}, NEW S, NEW register \in [1 .. n -> S], NEW b \in S
  PROVE  /\ Shifted(register, b) \in [1 .. n -> S]
         /\ \A i \in 1 .. n - 1 : Shifted(register, b)[i] = register[i + 1]
         /\ Shifted(register, b)[n] = b
  <1>1. register \in Seq(S) /\ Len(register) = n /\ register # <<>>
    BY WordSeq
  <1> DEFINE t == Tail(register)
  <1>2. t \in Seq(S) /\ Len(t) = n - 1 /\ \A i \in 1 .. n - 1 : t[i] = register[i + 1]
    BY <1>1, Shrink
  <1> HIDE DEF t
  <1>3. /\ Append(t, b) \in Seq(S) /\ Len(Append(t, b)) = n
        /\ \A i \in 1 .. n - 1 : Append(t, b)[i] = t[i]
        /\ Append(t, b)[n] = b
    BY <1>2
  <1>4. Shifted(register, b) = Append(t, b)
    BY DEF Shifted, t
  <1>5. Append(t, b) \in [1 .. n -> S]
    <2> DEFINE a == Append(t, b)
    <2>1. a \in Seq(S) /\ Len(a) = n
      BY <1>3
    <2> HIDE DEF a
    <2> QED BY <2>1, WordSeq DEF a
  <1> QED BY <1>2, <1>3, <1>4, <1>5

LEMMA TakenOneMore ==
  ASSUME NEW m \in Nat \ {0}, NEW S, NEW register \in [1 .. m -> S], NEW word,
         NEW n \in 0 .. m - 1, NEW b \in S, b = word[n + 1], Taken(register, word, n, m)
  PROVE  /\ Shifted(register, b) \in [1 .. m -> S]
         /\ Taken(Shifted(register, b), word, n + 1, m)
  <1> DEFINE s == Shifted(register, b)
  <1>1. /\ s \in [1 .. m -> S] /\ s[m] = b
        /\ \A i \in 1 .. m - 1 : s[i] = register[i + 1]
    BY ONLY ShiftedIn, m \in Nat \ {0}, register \in [1 .. m -> S], b \in S
  <1> HIDE DEF s
  <1>2. ASSUME NEW i \in 1 .. n + 1
        PROVE  s[m - (n + 1) + i] = word[i]
    <2>1. CASE i = n + 1
      BY <1>1, <2>1
    <2>2. CASE i \in 1 .. n
      <3>1. m - (n + 1) + i \in 1 .. m - 1 /\ m - (n + 1) + i + 1 = m - n + i
        BY <2>2
      <3> QED BY <1>1, <2>2, <3>1 DEF Taken
    <2> QED BY <2>1, <2>2
  <1>3. Taken(s, word, n + 1, m)
    BY <1>2 DEF Taken
  <1> QED BY <1>1, <1>3 DEF s

LEMMA TakenAll ==
  ASSUME NEW m \in Nat \ {0}, NEW S, NEW register \in [1 .. m -> S], NEW word \in Word(m),
         Taken(register, word, m, m)
  PROVE  register = word
  BY DEF Word, Taken

-----------------------------------------------------------------------------
(* The notes of a bench that sends words.                                  *)

Notes == {"sent", "got", "lost", "words", "resets", "turn", "message"}

LEMMA NotesKept ==
  ASSUME NEW n, DOMAIN n = Notes, NEW w
  PROVE  /\ DOMAIN Accepts(n, w) = Notes /\ DOMAIN Delivers(n, w) = Notes
         /\ DOMAIN Loses(n) = Notes /\ \A rest : DOMAIN Rested(n, rest) = Notes
         /\ Accepts(n, w).sent = Append(n.sent, w) /\ Accepts(n, w).got = n.got
         /\ Accepts(n, w).lost = n.lost /\ Accepts(n, w).turn = n.turn
         /\ Accepts(n, w).message = n.message /\ Accepts(n, w).words = n.words + 1
         /\ Delivers(n, w).got = Append(n.got, w) /\ Delivers(n, w).sent = n.sent
         /\ Delivers(n, w).lost = n.lost /\ Delivers(n, w).turn = n.turn
         /\ Delivers(n, w).message = n.message /\ Delivers(n, w).words = n.words
         /\ Loses(n).lost /\ Loses(n).turn = n.turn /\ Loses(n).message = n.message
         /\ Loses(n).words = n.words
         /\ \A rest : /\ Rested(n, rest).turn = n.turn
                      /\ Rested(n, rest).message = n.message
                      /\ Rested(n, rest).words = n.words
                      /\ n.lost /\ ~rest => Rested(n, rest).lost
                      /\ n.lost /\ rest => /\ ~Rested(n, rest).lost
                                           /\ Rested(n, rest).sent = <<>>
                                           /\ Rested(n, rest).got = <<>>
                      /\ ~n.lost => Rested(n, rest) = n
  BY DEF Notes, Accepts, Delivers, Loses, Rested

-----------------------------------------------------------------------------
(* The UART.  The receiver looks at the line as the transmitter left it:   *)
(* between their ticks it is a bit behind (`behind').                      *)

TxFields == {"state", "counts", "din", "line", "done"}
RxFields == {"state", "counts", "data", "done"}

UartRest(tx, rx, n) ==
  tx.state = "idle" /\ tx.line # 0 /\ rx.state = "idle" /\ n.sent = n.got
UartBegun(tx, rx, n) ==
  /\ tx.state = "transfer" /\ tx.counts = 0 /\ tx.line = 0 /\ rx.state = "idle"
  /\ tx.din \in Word(Bits) /\ n.sent = Append(n.got, tx.din)
UartBits(tx, rx, n, behind) ==
  /\ tx.state = "transfer" /\ rx.state = "start" /\ rx.done = FALSE
  /\ tx.din \in Word(Bits) /\ rx.data \in Word(Bits) /\ n.sent = Append(n.got, tx.din)
  /\ rx.counts \in 0 .. Bits /\ Taken(rx.data, tx.din, rx.counts, Bits)
  /\ tx.counts = (IF behind THEN rx.counts + 1 ELSE rx.counts) /\ tx.counts <= Bits
  /\ behind => tx.line = tx.din[tx.counts]
UartStop(tx, rx, n) ==
  /\ tx.state = "idle" /\ tx.line # 0 /\ rx.state = "start" /\ rx.done = FALSE
  /\ rx.counts = Bits /\ rx.data \in Word(Bits) /\ n.sent = Append(n.got, rx.data)

UartWord(tx, rx, n, behind) ==
  /\ n.sent \in Seq(Word(Bits)) /\ n.got \in Seq(Word(Bits))
  /\ \/ UartRest(tx, rx, n) \/ UartBits(tx, rx, n, behind)
     \/ behind /\ (UartBegun(tx, rx, n) \/ UartStop(tx, rx, n))

UartFields(tx, rx, n) == DOMAIN tx = TxFields /\ DOMAIN rx = RxFields /\ DOMAIN n = Notes

\* The receiver's tick, and what the bench takes down.
LEMMA UartReceives ==
  ASSUME NEW tx, NEW rx, NEW n, UartFields(tx, rx, n), ~n.lost, UartWord(tx, rx, n, TRUE),
         NEW next, next = uartrx(rx, tx.line),
         NEW heard, heard = IF next.done /\ ~rx.done THEN Delivers(n, next.data) ELSE n
  PROVE  DOMAIN next = RxFields /\ DOMAIN heard = Notes /\ UartWord(tx, next, heard, FALSE)
  <1>0. Bits \in Nat \ {0} /\ Zeros(Bits) \in Word(Bits)
    BY SerialAssumption, ZerosWord
  <1>1. DOMAIN heard = Notes
    BY NotesKept DEF UartFields
  <1>2. ASSUME rx.state = "idle"
        PROVE  /\ DOMAIN next = RxFields /\ next.counts = 0 /\ next.data = Zeros(Bits)
               /\ next.done = FALSE /\ heard = n
               /\ next.state = IF tx.line = 0 THEN "start" ELSE "idle"
    BY <1>2 DEF uartrx, Receiver, RxFields
  <1>3. ASSUME rx.state = "start", rx.counts = Bits
        PROVE  /\ DOMAIN next = RxFields /\ next.state = "idle" /\ next.done = TRUE
               /\ next.data = rx.data
    BY <1>0, <1>3 DEF uartrx, receive, UartFields, RxFields
  <1>4. ASSUME rx.state = "start", rx.counts \in 0 .. Bits - 1
        PROVE  /\ DOMAIN next = RxFields /\ next.state = "start" /\ next.done = rx.done
               /\ next.data = Shifted(rx.data, tx.line) /\ next.counts = rx.counts + 1
    BY <1>0, <1>4 DEF uartrx, receive, UartFields, RxFields
  <1>5. CASE UartRest(tx, rx, n)
    BY <1>1, <1>2, <1>5 DEF UartRest, UartWord
  <1>6. CASE UartBegun(tx, rx, n)
    <2>1. next.counts = 0 /\ Taken(next.data, tx.din, next.counts, Bits)
      BY <1>2, <1>6 DEF UartBegun, Taken
    <2>2. UartBits(tx, next, n, FALSE)
      <3>1. /\ tx.state = "transfer" /\ tx.counts = 0 /\ tx.din \in Word(Bits)
            /\ n.sent = Append(n.got, tx.din) /\ next.state = "start" /\ next.done = FALSE
            /\ next.data \in Word(Bits)
        BY <1>0, <1>2, <1>6 DEF UartBegun
      <3> QED BY <1>0, <2>1, <3>1 DEF UartBits
    <2> QED BY <1>1, <1>2, <1>6, <2>2 DEF UartBegun, UartWord
  <1>7. CASE UartBits(tx, rx, n, TRUE)
    <2>1. /\ rx.counts \in 0 .. Bits - 1 /\ tx.counts = rx.counts + 1 /\ rx.done = FALSE
          /\ tx.line = tx.din[rx.counts + 1] /\ tx.din \in Word(Bits) /\ rx.data \in Word(Bits)
          /\ Taken(rx.data, tx.din, rx.counts, Bits) /\ rx.state = "start"
      BY <1>0, <1>7 DEF UartBits
    <2>2. next.data \in Word(Bits) /\ Taken(next.data, tx.din, rx.counts + 1, Bits)
      <3>1. tx.din[rx.counts + 1] \in Bit /\ rx.data \in [1 .. Bits -> Bit]
        BY <1>0, <2>1 DEF Word
      <3>2. Shifted(rx.data, tx.line) \in [1 .. Bits -> Bit]
            /\ Taken(Shifted(rx.data, tx.line), tx.din, rx.counts + 1, Bits)
        <4>1. PICK b \in Bit : b = tx.line
          BY <2>1, <3>1
        <4>2. /\ Shifted(rx.data, b) \in [1 .. Bits -> Bit]
              /\ Taken(Shifted(rx.data, b), tx.din, rx.counts + 1, Bits)
          BY <1>0, <2>1, <3>1, <4>1, TakenOneMore
        <4> QED BY <4>1, <4>2
      <3> QED BY <1>4, <2>1, <3>2 DEF Word
    <2>3. UartBits(tx, next, n, FALSE) /\ heard = n
      BY <1>0, <1>4, <1>7, <2>1, <2>2 DEF UartBits
    <2> QED BY <1>1, <1>4, <2>1, <2>3 DEF UartWord
  <1>8. CASE UartStop(tx, rx, n)
    <2>1. heard = Delivers(n, rx.data) /\ DOMAIN next = RxFields /\ next.state = "idle"
      BY <1>3, <1>8 DEF UartStop
    <2>2. heard.got = n.sent /\ heard.sent = n.sent
      BY <1>8, <2>1, NotesKept DEF UartFields, UartStop
    <2> QED BY <1>1, <1>8, <2>1, <2>2 DEF UartStop, UartRest, UartWord
  <1> QED BY <1>5, <1>6, <1>7, <1>8 DEF UartWord

\* The transmitter's tick.
LEMMA UartTransmits ==
  ASSUME NEW tx, NEW rx, NEW n, UartFields(tx, rx, n), UartWord(tx, rx, n, FALSE),
         NEW next, next = uarttx(tx)
  PROVE  DOMAIN next = TxFields /\ UartWord(next, rx, n, TRUE)
  <1>0. Bits \in Nat \ {0}
    BY SerialAssumption
  <1>1. CASE UartRest(tx, rx, n)
    <2>1. DOMAIN next = TxFields /\ next.state = "idle" /\ next.line = 1
      BY <1>1 DEF UartRest, uarttx, Rests, UartFields, TxFields
    <2> QED BY <1>1, <2>1 DEF UartRest, UartWord
  <1>2. CASE UartBits(tx, rx, n, FALSE) /\ tx.counts < Bits
    <2>1. /\ DOMAIN next = TxFields /\ next.state = "transfer" /\ next.counts = tx.counts + 1
          /\ next.din = tx.din /\ next.line = tx.din[tx.counts + 1]
      BY <1>2 DEF UartBits, uarttx, transmit, UartFields, TxFields
    <2>2. UartBits(next, rx, n, TRUE)
      BY <1>0, <1>2, <2>1 DEF UartBits
    <2> QED BY <2>1, <2>2 DEF UartWord
  <1>3. CASE UartBits(tx, rx, n, FALSE) /\ ~(tx.counts < Bits)
    <2>1. DOMAIN next = TxFields /\ next.state = "idle" /\ next.line = 1
      BY <1>3 DEF UartBits, uarttx, transmit, UartFields, TxFields
    <2>2. rx.counts = Bits /\ rx.data = tx.din
      <3>1. /\ rx.counts = Bits /\ rx.data \in [1 .. Bits -> Bit] /\ tx.din \in Word(Bits)
            /\ Taken(rx.data, tx.din, Bits, Bits)
        BY <1>0, <1>3 DEF UartBits, Word
      <3> QED BY <1>0, <3>1, TakenAll
    <2>3. UartStop(next, rx, n)
      BY <1>3, <2>1, <2>2 DEF UartBits, UartStop
    <2> QED BY <2>1, <2>3 DEF UartWord
  <1> QED BY <1>1, <1>2, <1>3 DEF UartWord

\* The transmitter accepts a word.
LEMMA UartBegins ==
  ASSUME NEW tx, NEW rx, NEW n, UartFields(tx, rx, n), UartWord(tx, rx, n, FALSE),
         tx.state = "idle", NEW word \in Word(Bits), NEW next, next = Begins(tx, word),
         NEW more, more.sent = Append(n.sent, word), more.got = n.got
  PROVE  DOMAIN next = TxFields /\ UartWord(next, rx, more, TRUE)
  <1>1. UartRest(tx, rx, n)
    BY DEF UartWord, UartBits
  <1>2. /\ DOMAIN next = TxFields /\ next.state = "transfer" /\ next.line = 0
        /\ next.counts = 0 /\ next.din = word
    BY DEF Begins, Rests, UartFields, TxFields
  <1>3. UartBegun(next, rx, more)
    BY <1>1, <1>2 DEF UartRest, UartBegun
  <1>4. more.sent \in Seq(Word(Bits)) /\ more.got \in Seq(Word(Bits))
    BY DEF UartWord
  <1> QED BY <1>2, <1>3, <1>4 DEF UartWord

Worded(tx, rx, n) ==
  IF device = "uart" \/ n.turn = "rx" THEN UartWord(tx, rx, n, TRUE)
                                      ELSE UartWord(tx, rx, n, FALSE)

UartInv ==
  /\ UartFields(chip.tx, chip.rx, bench)
  /\ ~bench.lost => Worded(chip.tx, chip.rx, bench)

LEMMA UartTicked ==
  ASSUME NEW tx, NEW rx, NEW notes, UartTicks(tx, rx, notes),
         UartFields(tx, rx, Heard(notes, rx)),
         ~Heard(notes, rx).lost => Worded(tx, rx, Heard(notes, rx))
  PROVE  UartInv' /\ device' = device
  <1> DEFINE heard == Heard(notes, rx)
             next == [tx |-> tx, rx |-> rx]
  <1>1. /\ chip' = next /\ bench' = Rested(heard, Quiet(next)) /\ device' = device
        /\ chip'.tx = tx /\ chip'.rx = rx
    BY DEF UartTicks, Edge
  <1>2. /\ DOMAIN bench' = Notes /\ bench'.turn = heard.turn
        /\ heard.lost /\ ~Quiet(next) => bench'.lost
        /\ heard.lost /\ Quiet(next) => bench'.sent = <<>> /\ bench'.got = <<>>
        /\ ~heard.lost => bench' = heard
    BY <1>1, NotesKept DEF UartFields
  <1>3. UartFields(chip'.tx, chip'.rx, bench')
    BY <1>1, <1>2 DEF UartFields
  <1>4. CASE ~heard.lost
    BY <1>1, <1>2, <1>3, <1>4 DEF UartInv, Worded
  <1>5. CASE heard.lost /\ ~Quiet(next)
    BY <1>1, <1>2, <1>3, <1>5 DEF UartInv
  <1>6. CASE heard.lost /\ Quiet(next)
    <2>1. UartRest(tx, rx, bench') /\ bench'.sent \in Seq(Word(Bits)) /\ bench'.got \in Seq(Word(Bits))
      <3>1. tx.state = "idle" /\ tx.line # 0 /\ rx.state = "idle"
        BY <1>6 DEF Quiet
      <3>2. bench'.sent = <<>> /\ bench'.got = <<>>
        BY <1>2, <1>6
      <3> QED BY <3>1, <3>2 DEF UartRest
    <2>2. \A b : UartWord(tx, rx, bench', b)
      BY <2>1 DEF UartWord
    <2> QED BY <1>1, <1>3, <2>2 DEF UartInv, Worded
  <1> QED BY <1>4, <1>5, <1>6

LEMMA UartStarts == UartInit => UartInv
  <1> SUFFICES ASSUME NEW name, NEW turn,
                      Powered(name, [tx |-> Transmitter, rx |-> Receiver],
                              [Nothing EXCEPT !.turn = turn])
               PROVE  UartInv
    BY DEF UartInit
  <1>1. /\ UartFields(chip.tx, chip.rx, bench) /\ UartRest(chip.tx, chip.rx, bench)
        /\ bench.sent = <<>> /\ bench.got = <<>>
    BY Levels01 DEF Powered, Nothing, Transmitter, Receiver, UartFields, TxFields, RxFields,
                    Notes, UartRest
  <1> QED BY <1>1 DEF UartInv, Worded, UartWord

LEMMA UartFieldsKept ==
  ASSUME NEW tx, NEW rx, DOMAIN tx = TxFields, DOMAIN rx = RxFields
  PROVE  /\ DOMAIN uarttx(tx) = TxFields /\ \A w : DOMAIN Begins(tx, w) = TxFields
         /\ DOMAIN ResetTx(tx) = TxFields /\ DOMAIN ResetRx(rx) = RxFields
         /\ \A line : DOMAIN uartrx(rx, line) = RxFields
  <1>1. DOMAIN uarttx(tx) = TxFields
    BY DEF uarttx, Rests, transmit
  <1>2. \A w : DOMAIN Begins(tx, w) = TxFields
    BY DEF Begins, Rests
  <1>3. DOMAIN ResetTx(tx) = TxFields /\ DOMAIN ResetRx(rx) = RxFields
    BY DEF ResetTx, ResetRx, Receiver, RxFields
  <1>4. \A line : DOMAIN uartrx(rx, line) = RxFields
    BY DEF uartrx, receive, Receiver, RxFields
  <1> QED BY <1>1, <1>2, <1>3, <1>4

\* The bench takes down a word when done rises.
LEMMA HeardNotes ==
  ASSUME NEW n, DOMAIN n = Notes, NEW next
  PROVE  /\ DOMAIN Heard(n, next) = Notes
         /\ Heard(n, next).lost = n.lost /\ Heard(n, next).turn = n.turn
         /\ Heard(n, next).sent = n.sent
         /\ Heard(n, next).got = IF next.done /\ ~chip.rx.done
                                   THEN Append(n.got, next.data) ELSE n.got
  <1>1. CASE next.done /\ ~chip.rx.done
    <2>1. Heard(n, next) = Delivers(n, next.data)
      BY <1>1 DEF Heard
    <2> QED BY <1>1, <2>1, NotesKept
  <1>2. CASE ~(next.done /\ ~chip.rx.done)
    BY <1>2 DEF Heard
  <1> QED BY <1>1, <1>2

LEMMA TurnedNotes ==
  ASSUME DOMAIN bench = Notes, NEW turn
  PROVE  /\ DOMAIN Turned(turn) = Notes /\ Turned(turn).turn = turn
         /\ Turned(turn).lost = bench.lost /\ Turned(turn).sent = bench.sent
         /\ Turned(turn).got = bench.got
  BY DEF Turned, Notes

LEMMA SameWord ==
  ASSUME NEW tx, NEW rx, NEW n, NEW m, NEW b, UartWord(tx, rx, n, b),
         m.sent = n.sent, m.got = n.got
  PROVE  UartWord(tx, rx, m, b)
  BY DEF UartWord, UartRest, UartBits, UartBegun, UartStop

LEMMA UartKeeps ==
  ASSUME UartInv, device \in {"uart", "twoUarts"}, UartStep \/ TxTicks \/ RxTicks
  PROVE  UartInv' /\ device' = device
  <1> DEFINE tx == chip.tx
             rx == chip.rx
             rnext == uartrx(rx, tx.line)
             tnext == uarttx(tx)
             behind == device = "uart" \/ bench.turn = "rx"
  <1>0. /\ DOMAIN tx = TxFields /\ DOMAIN rx = RxFields /\ DOMAIN bench = Notes
        /\ DOMAIN tnext = TxFields /\ DOMAIN rnext = RxFields
        /\ DOMAIN ResetTx(tx) = TxFields /\ DOMAIN ResetRx(rx) = RxFields
        /\ \A w : DOMAIN Begins(tx, w) = TxFields
    BY UartFieldsKept DEF UartInv, UartFields
  <1>1. ASSUME ~bench.lost, behind
        PROVE  UartWord(tx, rnext, Heard(bench, rnext), FALSE)
    <2>1. UartWord(tx, rx, bench, TRUE)
      BY <1>1 DEF UartInv, Worded
    <2>2. Heard(bench, rnext) = IF rnext.done /\ ~rx.done THEN Delivers(bench, rnext.data) ELSE bench
      BY DEF Heard
    <2> QED BY <1>0, <1>1, <2>1, <2>2, UartReceives DEF UartFields
  <1>2. ASSUME ~bench.lost, ~behind
        PROVE  UartWord(tx, rx, bench, FALSE)
    BY <1>2 DEF UartInv, Worded
  <1> HIDE DEF tx, rx, rnext, tnext
  <1>h. \A n : Heard(n, rx) = n
    BY DEF Heard, rx
  \* A reset: what is under way is lost.
  <1>r. ASSUME NEW c, NEW d, NEW n, DOMAIN c = TxFields, DOMAIN d = RxFields, DOMAIN n = Notes,
               UartTicks(c, d, Loses(n))
        PROVE  UartInv' /\ device' = device
    <2> DEFINE m == Heard(Loses(n), d)
    <2>1. DOMAIN Loses(n) = Notes /\ Loses(n).lost
      BY <1>r, NotesKept
    <2>2. DOMAIN m = Notes /\ m.lost
      BY <2>1, HeardNotes
    <2>3. UartFields(c, d, m) /\ (~m.lost => Worded(c, d, m))
      BY <1>r, <2>2 DEF UartFields
    <2> HIDE DEF m
    <2> QED BY <1>r, <2>3, UartTicked DEF m
  <1>3. CASE UartClock
    <2> DEFINE n == Heard(bench, rnext)
    <2>1. UartTicks(tnext, rnext, bench) /\ device = "uart"
      BY <1>3 DEF UartClock, tnext, rnext, tx, rx
    <2>2. DOMAIN n = Notes /\ n.lost = bench.lost
      BY <1>0, HeardNotes
    <2>3. ASSUME ~n.lost
          PROVE  UartWord(tnext, rnext, n, TRUE)
      <3>1. UartWord(tx, rnext, n, FALSE)
        BY <1>0, <1>1, <2>1, <2>2, <2>3
      <3> HIDE DEF n
      <3> QED BY <1>0, <2>2, <3>1, UartTransmits DEF UartFields, tnext
    <2>4. UartFields(tnext, rnext, n) /\ (~n.lost => Worded(tnext, rnext, n))
      BY <1>0, <2>1, <2>2, <2>3 DEF UartFields, Worded
    <2> HIDE DEF n
    <2> QED BY <2>1, <2>4, UartTicked DEF n
  <1>4. ASSUME device = "uart", NEW word \in Offers(tx),
               UartTicks(Begins(tx, word), rnext, Accepts(bench, word))
        PROVE  UartInv' /\ device' = device
    <2>1. word \in Word(Bits) /\ tx.state = "idle"
      BY <1>4 DEF Offers
    <2> DEFINE n == Heard(Accepts(bench, word), rnext)
               m == Heard(bench, rnext)
    <2>2. /\ DOMAIN Accepts(bench, word) = Notes /\ Accepts(bench, word).lost = bench.lost
          /\ Accepts(bench, word).sent = Append(bench.sent, word)
          /\ Accepts(bench, word).got = bench.got
      BY <1>0, NotesKept
    <2>3. DOMAIN m = Notes /\ m.sent = bench.sent
          /\ m.got = IF rnext.done /\ ~chip.rx.done THEN Append(bench.got, rnext.data) ELSE bench.got
      BY <1>0, HeardNotes
    <2>4. /\ DOMAIN n = Notes /\ n.lost = bench.lost /\ n.sent = Append(m.sent, word)
          /\ n.got = m.got
      <3>1. /\ DOMAIN n = Notes /\ n.lost = Accepts(bench, word).lost
            /\ n.sent = Accepts(bench, word).sent
            /\ n.got = IF rnext.done /\ ~chip.rx.done
                         THEN Append(Accepts(bench, word).got, rnext.data)
                         ELSE Accepts(bench, word).got
        BY <2>2, HeardNotes
      <3> QED BY <2>2, <2>3, <3>1
    <2>5. ASSUME ~bench.lost
          PROVE  UartWord(tx, rnext, m, FALSE)
      BY <1>1, <1>4, <2>5
    <2> HIDE DEF n, m
    <2>6. ASSUME ~n.lost
          PROVE  UartWord(Begins(tx, word), rnext, n, TRUE)
      <3>1. UartWord(tx, rnext, m, FALSE) /\ UartFields(tx, rnext, m)
        BY <1>0, <2>3, <2>4, <2>5, <2>6 DEF UartFields
      <3> QED BY <2>1, <2>4, <3>1, UartBegins
    <2>7. UartFields(Begins(tx, word), rnext, n)
          /\ (~n.lost => Worded(Begins(tx, word), rnext, n))
      BY <1>0, <1>4, <2>4, <2>6 DEF UartFields, Worded
    <2> QED BY <1>4, <2>7, UartTicked DEF n
  <1>5. CASE UartTicks(ResetTx(tx), ResetRx(rx), Loses(bench))
    BY <1>0, <1>5, <1>r
  <1>6. CASE TxClock
    <2> DEFINE n == Turned("rx")
    <2>1. UartTicks(tnext, rx, n) /\ ~behind
      BY <1>6 DEF TxClock, Turns, tnext, tx, rx
    <2>2. /\ DOMAIN n = Notes /\ n.lost = bench.lost /\ n.turn = "rx"
          /\ n.sent = bench.sent /\ n.got = bench.got
      BY <1>0, TurnedNotes
    <2> HIDE DEF n
    <2>3. ASSUME ~n.lost
          PROVE  UartWord(tnext, rx, n, TRUE)
      <3>1. UartFields(tx, rx, bench) /\ UartWord(tx, rx, bench, FALSE)
        BY <1>0, <1>2, <2>1, <2>2, <2>3 DEF UartFields
      <3>2. UartWord(tnext, rx, bench, TRUE)
        BY <3>1, UartTransmits DEF tnext
      <3> QED BY <2>2, <3>2, SameWord
    <2>4. UartFields(tnext, rx, n) /\ (~n.lost => Worded(tnext, rx, n)) /\ Heard(n, rx) = n
      BY <1>0, <1>h, <2>2, <2>3 DEF UartFields, Worded
    <2> QED BY <2>1, <2>4, UartTicked
  <1>7. ASSUME Turns("tx"), NEW word \in Offers(tx),
               UartTicks(Begins(tx, word), rx, Accepts(Turned("rx"), word))
        PROVE  UartInv' /\ device' = device
    <2>1. word \in Word(Bits) /\ tx.state = "idle" /\ ~behind
      BY <1>7 DEF Offers, Turns
    <2> DEFINE n == Accepts(Turned("rx"), word)
    <2>2. /\ DOMAIN n = Notes /\ n.lost = bench.lost /\ n.turn = "rx"
          /\ n.sent = Append(bench.sent, word) /\ n.got = bench.got
      <3>1. /\ DOMAIN Turned("rx") = Notes /\ Turned("rx").turn = "rx"
            /\ Turned("rx").lost = bench.lost /\ Turned("rx").sent = bench.sent
            /\ Turned("rx").got = bench.got
        BY <1>0, TurnedNotes
      <3> QED BY <3>1, NotesKept
    <2> HIDE DEF n
    <2>3. ASSUME ~n.lost
          PROVE  UartWord(Begins(tx, word), rx, n, TRUE)
      <3>1. UartWord(tx, rx, bench, FALSE) /\ UartFields(tx, rx, bench)
        BY <1>0, <1>2, <2>1, <2>2, <2>3 DEF UartFields
      <3> QED BY <2>1, <2>2, <3>1, UartBegins
    <2>4. /\ UartFields(Begins(tx, word), rx, n) /\ Heard(n, rx) = n
          /\ ~n.lost => Worded(Begins(tx, word), rx, n)
      BY <1>0, <1>h, <2>2, <2>3 DEF UartFields, Worded
    <2> QED BY <1>7, <2>4, UartTicked DEF n
  <1>8. CASE UartTicks(ResetTx(tx), rx, Loses(Turned("rx")))
    BY <1>0, <1>8, <1>r, TurnedNotes
  <1>9. CASE RxClock
    <2>1. UartTicks(tx, rnext, Turned("tx")) /\ behind /\ device = "twoUarts"
      BY <1>9 DEF RxClock, Turns, rnext, tx, rx
    <2> DEFINE n == Heard(Turned("tx"), rnext)
               m == Heard(bench, rnext)
    <2>2. /\ DOMAIN Turned("tx") = Notes /\ Turned("tx").turn = "tx"
          /\ Turned("tx").lost = bench.lost /\ Turned("tx").sent = bench.sent
          /\ Turned("tx").got = bench.got
      BY <1>0, TurnedNotes
    <2>3. /\ m.sent = bench.sent
          /\ m.got = IF rnext.done /\ ~chip.rx.done THEN Append(bench.got, rnext.data) ELSE bench.got
      BY <1>0, HeardNotes
    <2>4. /\ DOMAIN n = Notes /\ n.lost = bench.lost /\ n.turn = "tx"
          /\ n.sent = m.sent /\ n.got = m.got
      <3>1. /\ DOMAIN n = Notes /\ n.lost = Turned("tx").lost /\ n.turn = Turned("tx").turn
            /\ n.sent = Turned("tx").sent
            /\ n.got = IF rnext.done /\ ~chip.rx.done
                         THEN Append(Turned("tx").got, rnext.data) ELSE Turned("tx").got
        BY <2>2, HeardNotes
      <3> QED BY <2>2, <2>3, <3>1
    <2>5. ASSUME ~bench.lost
          PROVE  UartWord(tx, rnext, m, FALSE)
      BY <1>1, <2>1, <2>5
    <2> HIDE DEF n, m
    <2>6. ASSUME ~n.lost
          PROVE  UartWord(tx, rnext, n, FALSE)
      BY <2>4, <2>5, <2>6, SameWord
    <2>7. UartFields(tx, rnext, n) /\ (~n.lost => Worded(tx, rnext, n))
      BY <1>0, <2>1, <2>4, <2>6 DEF UartFields, Worded
    <2> QED BY <2>1, <2>7, UartTicked DEF n
  <1>10. CASE UartTicks(tx, ResetRx(rx), Loses(Turned("tx")))
    BY <1>0, <1>10, <1>r, TurnedNotes
  <1> QED BY <1>3, <1>4, <1>5, <1>6, <1>7, <1>8, <1>9, <1>10
          DEF UartStep, TxTicks, RxTicks, tnext, rnext, tx, rx

LEMMA UartLinked == UartInv => InOrder(bench)
  <1> SUFFICES ASSUME UartInv, ~bench.lost PROVE IsPrefix(bench.got, bench.sent)
    BY DEF InOrder
  <1>1. /\ bench.got \in Seq(Word(Bits))
        /\ bench.sent = bench.got \/ \E w \in Word(Bits) : bench.sent = Append(bench.got, w)
    BY DEF UartInv, Worded, UartWord, UartRest, UartBits, UartBegun, UartStop
  <1> QED BY <1>1, PrefixOfSent
-----------------------------------------------------------------------------
(* SPI.  The slave looks at the lines as the master left them.             *)

Level == {0, 1, X, Z}
MFields == {"state", "count", "temp", "cs", "mosi"}
SFields == {"state", "count", "temp", "done"}

SpiRest(m, s, n) ==
  m.state = "idle" /\ m.cs # 0 /\ s.state = "detect_start" /\ n.sent = n.got
SpiBegun(m, s, n) ==
  /\ m.state = "send" /\ m.count = 0 /\ m.cs = 0 /\ s.state = "detect_start"
  /\ n.sent = Append(n.got, m.temp)
SpiBits(m, s, n) ==
  /\ m.state = "send" /\ m.cs = 0 /\ s.state = "read_data" /\ s.done = FALSE
  /\ s.count \in 0 .. Bits - 1 /\ m.count = s.count + 1 /\ m.mosi = m.temp[m.count]
  /\ Taken(s.temp, m.temp, s.count, Bits) /\ n.sent = Append(n.got, m.temp)
SpiStop(m, s, n) ==
  /\ m.state = "idle" /\ m.cs # 0 /\ s.state = "read_data" /\ s.done = FALSE
  /\ s.count = Bits /\ s.temp \in Word(Bits) /\ n.sent = Append(n.got, s.temp)

SpiWord(m, s, n) ==
  /\ n.sent \in Seq(Word(Bits)) /\ n.got \in Seq(Word(Bits))
  /\ SpiRest(m, s, n) \/ SpiBegun(m, s, n) \/ SpiBits(m, s, n) \/ SpiStop(m, s, n)

\* Also when the two ends are out of step.
SpiMasterType(m) ==
  /\ DOMAIN m = MFields /\ m.temp \in Word(Bits) /\ m.mosi \in Level
  /\ m.count \in 0 .. Bits /\ (m.state = "idle" => m.count = 0)
SpiSlaveType(s) ==
  /\ DOMAIN s = SFields /\ s.temp \in [1 .. Bits -> Level]
  /\ s.state = "detect_start" => s.count = 0
SpiType(m, s) == SpiMasterType(m) /\ SpiSlaveType(s)

SpiInv ==
  /\ SpiType(chip.m, chip.s) /\ DOMAIN bench = Notes
  /\ ~bench.lost => SpiWord(chip.m, chip.s, bench)

LEMMA SpiMasterNext ==
  ASSUME NEW m, NEW s, SpiType(m, s), NEW next, next = spi_master(m)
  PROVE  /\ SpiType(next, s)
         /\ m.state = "idle" => next.state = "idle" /\ next.cs = m.cs
         /\ m.state = "send" /\ m.count < Bits =>
              /\ next.state = "send" /\ next.count = m.count + 1 /\ next.temp = m.temp
              /\ next.mosi = m.temp[m.count + 1] /\ next.cs = m.cs
         /\ m.state = "send" /\ ~(m.count < Bits) => next.state = "idle" /\ next.cs = 1
  <1>0. Bits \in Nat \ {0} /\ Zeros(Bits) \in Word(Bits)
    BY SerialAssumption, ZerosWord
  <1>1. CASE m.state = "idle"
    <2>1. /\ DOMAIN next = MFields /\ next.state = "idle" /\ next.cs = m.cs
          /\ next.temp = Zeros(Bits) /\ next.mosi = m.mosi /\ next.count = m.count
      BY <1>1 DEF spi_master, SpiType, SpiMasterType, SpiSlaveType, MFields
    <2> QED BY <1>0, <1>1, <2>1 DEF SpiType, SpiMasterType, SpiSlaveType
  <1>2. CASE m.state = "send" /\ m.count < Bits
    <2>1. /\ DOMAIN next = MFields /\ next.state = "send" /\ next.cs = m.cs
          /\ next.temp = m.temp /\ next.mosi = m.temp[m.count + 1] /\ next.count = m.count + 1
      BY <1>2 DEF spi_master, SpiType, SpiMasterType, SpiSlaveType, MFields
    <2>2. m.temp[m.count + 1] \in Level /\ m.count + 1 \in 0 .. Bits
      BY <1>0, <1>2 DEF SpiType, SpiMasterType, SpiSlaveType, Word, Bit, Level
    <2> QED BY <1>2, <2>1, <2>2 DEF SpiType, SpiMasterType, SpiSlaveType
  <1>3. CASE m.state # "idle" /\ ~(m.state = "send" /\ m.count < Bits)
    <2>1. /\ DOMAIN next = MFields /\ next.state = "idle" /\ next.cs = 1
          /\ next.temp = m.temp /\ next.mosi = 0 /\ next.count = 0
      BY <1>3 DEF spi_master, SpiType, SpiMasterType, SpiSlaveType, MFields
    <2> QED BY <1>0, <1>3, <2>1 DEF SpiType, SpiMasterType, SpiSlaveType, Level
  <1> QED BY <1>1, <1>2, <1>3

SlaveMoves(m, s, next) ==
  /\ SpiSlaveType(next)
  /\ s.state = "detect_start" =>
       /\ next.done = FALSE /\ next.count = 0
       /\ next.state = IF m.cs = 0 THEN "read_data" ELSE "detect_start"
  /\ s.state = "read_data" /\ s.count < Bits =>
       /\ next.state = "read_data" /\ next.count = s.count + 1
       /\ next.temp = Shifted(s.temp, m.mosi) /\ next.done = s.done
  /\ s.state = "read_data" /\ ~(s.count < Bits) =>
       next.state = "detect_start" /\ next.done = TRUE /\ next.temp = s.temp

LEMMA SpiSlaveNext ==
  ASSUME NEW m, NEW s, SpiType(m, s), NEW next, next = spi_slave(s, m.cs, m.mosi)
  PROVE  SlaveMoves(m, s, next)
  <1>0. Bits \in Nat \ {0}
    BY SerialAssumption
  <1>1. CASE s.state = "detect_start"
    <2>1. /\ DOMAIN next = SFields /\ next.done = FALSE /\ next.count = s.count
          /\ next.temp = s.temp /\ next.state = IF m.cs = 0 THEN "read_data" ELSE "detect_start"
      BY <1>1 DEF spi_slave, SpiType, SpiMasterType, SpiSlaveType, SFields
    <2> QED BY <1>0, <1>1, <2>1 DEF SpiType, SpiMasterType, SpiSlaveType, SlaveMoves
  <1>2. CASE s.state = "read_data" /\ s.count < Bits
    <2>1. /\ DOMAIN next = SFields /\ next.done = s.done /\ next.count = s.count + 1
          /\ next.temp = Shifted(s.temp, m.mosi) /\ next.state = "read_data"
      BY <1>2 DEF spi_slave, SpiType, SpiMasterType, SpiSlaveType, SFields
    <2>2. next.temp \in [1 .. Bits -> Level]
      <3>1. PICK b \in Level : b = m.mosi
        BY DEF SpiType, SpiMasterType, SpiSlaveType
      <3>2. Shifted(s.temp, b) \in [1 .. Bits -> Level]
        BY <1>0, ShiftedIn DEF SpiType, SpiMasterType, SpiSlaveType
      <3> QED BY <2>1, <3>1, <3>2
    <2> QED BY <1>2, <2>1, <2>2 DEF SpiType, SpiMasterType, SpiSlaveType, SlaveMoves
  <1>3. CASE s.state # "detect_start" /\ ~(s.state = "read_data" /\ s.count < Bits)
    <2>1. /\ DOMAIN next = SFields /\ next.done = TRUE /\ next.count = 0
          /\ next.temp = s.temp /\ next.state = "detect_start"
      BY <1>3 DEF spi_slave, SpiType, SpiMasterType, SpiSlaveType, SFields
    <2> QED BY <1>0, <1>3, <2>1 DEF SpiType, SpiMasterType, SpiSlaveType, SlaveMoves
  <1> QED BY <1>1, <1>2, <1>3 DEF SlaveMoves

LEMMA SpiStarts == SpiInit => SpiInv
  <1> SUFFICES ASSUME SpiInit PROVE SpiInv
    OBVIOUS
  <1>0. Bits \in Nat \ {0} /\ Zeros(Bits) \in Word(Bits)
    BY SerialAssumption, ZerosWord
  <1>1. chip.m = Master /\ chip.s = Slave /\ bench = Nothing
    BY DEF SpiInit, Powered
  <1>2. SpiType(chip.m, chip.s)
    BY <1>0, <1>1 DEF SpiType, SpiMasterType, SpiSlaveType, Master, Slave, MFields, SFields, Level, Word, Bit
  <1>3. DOMAIN bench = Notes /\ bench.sent = <<>> /\ bench.got = <<>>
    BY <1>1 DEF Nothing, Notes
  <1>4. SpiRest(chip.m, chip.s, bench)
    BY <1>1, <1>3, Levels01 DEF SpiRest, Master, Slave
  <1> QED BY <1>2, <1>3, <1>4 DEF SpiInv, SpiWord

LEMMA SpiEdged ==
  ASSUME NEW master, NEW notes, SpiEdge(master, notes), DOMAIN notes = Notes,
         NEW slave, slave = spi_slave(chip.s, chip.m.cs, chip.m.mosi),
         NEW heard, heard = IF slave.done /\ ~chip.s.done THEN Delivers(notes, slave.temp) ELSE notes,
         SpiType(master, slave), ~notes.lost => SpiWord(master, slave, heard)
  PROVE  SpiInv' /\ device' = device
  <1> DEFINE rests == master.state = "idle" /\ slave.state = "detect_start" /\ master.cs # 0
  <1>1. /\ chip' = [m |-> master, s |-> slave] /\ bench' = Rested(heard, rests)
        /\ device' = device /\ chip'.m = master /\ chip'.s = slave
    BY DEF SpiEdge, Edge
  <1>2. DOMAIN heard = Notes /\ heard.lost = notes.lost
    BY NotesKept
  <1> HIDE DEF rests
  <1>3. /\ DOMAIN bench' = Notes
        /\ heard.lost /\ ~rests => bench'.lost
        /\ heard.lost /\ rests => bench'.sent = <<>> /\ bench'.got = <<>>
        /\ ~heard.lost => bench' = heard
    <2>1. ASSUME NEW rest
          PROVE  /\ DOMAIN Rested(heard, rest) = Notes
                 /\ heard.lost /\ ~rest => Rested(heard, rest).lost
                 /\ heard.lost /\ rest => /\ Rested(heard, rest).sent = <<>>
                                          /\ Rested(heard, rest).got = <<>>
                 /\ ~heard.lost => Rested(heard, rest) = heard
      BY ONLY <1>2, NotesKept
    <2> QED BY ONLY <1>1, <2>1
  <1>4. CASE ~heard.lost
    BY <1>1, <1>2, <1>3, <1>4 DEF SpiInv
  <1>5. CASE heard.lost /\ ~rests
    BY <1>1, <1>2, <1>3, <1>5 DEF SpiInv
  <1>6. CASE heard.lost /\ rests
    <2>1. bench'.sent = <<>> /\ bench'.got = <<>>
      BY <1>3, <1>6
    <2>2. SpiRest(master, slave, bench')
      BY <1>6, <2>1 DEF rests, SpiRest
    <2>3. SpiWord(master, slave, bench')
      BY <2>1, <2>2 DEF SpiWord
    <2> QED BY <1>1, <1>3, <2>3 DEF SpiInv
  <1> QED BY <1>4, <1>5, <1>6

LEMMA SpiKeeps ==
  ASSUME SpiInv, SpiStep
  PROVE  SpiInv' /\ device' = device
  <1> DEFINE m == chip.m
             s == chip.s
             slave == spi_slave(s, m.cs, m.mosi)
             heard(n) == IF slave.done /\ ~s.done THEN Delivers(n, slave.temp) ELSE n
             next == spi_master(m)
  <1>0. Bits \in Nat \ {0} /\ SpiType(m, s) /\ DOMAIN bench = Notes
        /\ (~bench.lost => SpiWord(m, s, bench))
    BY SerialAssumption DEF SpiInv
  <1> HIDE DEF m, s, slave, next
  <1>1. SlaveMoves(m, s, slave)
    BY <1>0, SpiSlaveNext DEF slave
  <1>2. /\ SpiType(next, s)
        /\ m.state = "idle" => next.state = "idle" /\ next.cs = m.cs
        /\ m.state = "send" /\ m.count < Bits =>
             /\ next.state = "send" /\ next.count = m.count + 1 /\ next.temp = m.temp
             /\ next.mosi = m.temp[m.count + 1] /\ next.cs = m.cs
        /\ m.state = "send" /\ ~(m.count < Bits) => next.state = "idle" /\ next.cs = 1
    BY <1>0, SpiMasterNext DEF next
  <1>n. \A n : DOMAIN n = Notes =>
          /\ heard(n).sent = n.sent
          /\ heard(n).got = IF slave.done /\ ~s.done THEN Append(n.got, slave.temp) ELSE n.got
    <2> TAKE n
    <2> HAVE DOMAIN n = Notes
    <2>1. CASE slave.done /\ ~s.done
      BY <2>1, NotesKept
    <2>2. CASE ~(slave.done /\ ~s.done)
      BY <2>2
    <2> QED BY <2>1, <2>2
  \* Where a master at rest leaves the slave: the word before is over.
  <1>3. ASSUME ~bench.lost, m.state = "idle"
        PROVE  /\ slave.state = "detect_start" /\ m.cs # 0
               /\ heard(bench).got = bench.sent /\ bench.sent \in Seq(Word(Bits))
    <2>1. CASE SpiRest(m, s, bench)
      BY <1>0, <1>1, <1>3, <1>n, <2>1 DEF SpiRest, SpiWord, SlaveMoves
    <2>2. CASE SpiStop(m, s, bench)
      <3>1. /\ s.state = "read_data" /\ ~(s.count < Bits) /\ s.done = FALSE /\ m.cs # 0
            /\ bench.sent = Append(bench.got, s.temp) /\ bench.sent \in Seq(Word(Bits))
        BY <1>0, <1>3, <2>2 DEF SpiStop, SpiWord
      <3> HIDE DEF heard
      <3> QED BY <1>0, <1>1, <1>n, <3>1 DEF SlaveMoves
    <2> QED BY <1>0, <1>3, <2>1, <2>2 DEF SpiWord, SpiBegun, SpiBits
  <1>4. CASE SpiClock
    <2>1. SpiEdge(next, bench)
      BY <1>4 DEF SpiClock, next, m
    <2>2. SpiType(next, slave)
      BY <1>1, <1>2 DEF SpiType, SlaveMoves
    <2>3. ASSUME ~bench.lost
          PROVE  SpiWord(next, slave, heard(bench))
      <3> DEFINE n == heard(bench)
      <3> SUFFICES SpiWord(next, slave, n)
        OBVIOUS
      <3> HIDE DEF heard
      <3>1. /\ n.sent = bench.sent
            /\ n.got = IF slave.done /\ ~s.done THEN Append(bench.got, slave.temp) ELSE bench.got
        BY <1>0, <1>n
      <3>2. CASE m.state = "idle"
        <4>1. n.got = n.sent /\ n.sent \in Seq(Word(Bits))
          BY <1>3, <2>3, <3>1, <3>2
        <4> HIDE DEF n
        <4>2. SpiRest(next, slave, n)
          BY <1>2, <1>3, <2>3, <3>2, <4>1 DEF SpiRest
        <4> QED BY <4>1, <4>2 DEF SpiWord
      <3>3. CASE SpiBegun(m, s, bench)
        <4>1. n.got = bench.got
          BY <1>1, <3>1, <3>3 DEF SpiBegun, SlaveMoves
        <4> HIDE DEF n
        <4>2. /\ slave.state = "read_data" /\ slave.done = FALSE /\ slave.count = 0
              /\ next.state = "send" /\ next.count = 1 /\ next.temp = m.temp /\ next.cs = 0
              /\ next.mosi = m.temp[1]
          BY <1>0, <1>1, <1>2, <3>3 DEF SpiBegun, SlaveMoves
        <4>3. slave.count \in 0 .. Bits - 1 /\ Taken(slave.temp, next.temp, slave.count, Bits)
          BY <1>0, <4>2 DEF Taken
        <4>4. SpiBits(next, slave, n)
          BY <3>1, <3>3, <4>1, <4>2, <4>3 DEF SpiBegun, SpiBits
        <4> QED BY <1>0, <2>3, <3>1, <4>1, <4>4 DEF SpiWord
      <3>4. CASE SpiBits(m, s, bench)
        <4>1. /\ s.state = "read_data" /\ s.done = FALSE /\ s.count \in 0 .. Bits - 1
              /\ slave.state = "read_data" /\ slave.done = FALSE /\ slave.count = s.count + 1
              /\ slave.temp = Shifted(s.temp, m.mosi) /\ m.mosi = m.temp[s.count + 1]
              /\ Taken(s.temp, m.temp, s.count, Bits) /\ m.count = s.count + 1
              /\ m.state = "send" /\ m.cs = 0 /\ bench.sent = Append(bench.got, m.temp)
          BY <1>0, <1>1, <3>4 DEF SpiBits, SlaveMoves
        <4>2. n.got = bench.got
          BY <3>1, <4>1
        <4> HIDE DEF n
        <4>3. slave.temp \in [1 .. Bits -> Level] /\ Taken(slave.temp, m.temp, slave.count, Bits)
          <5>1. PICK b \in Level : b = m.mosi
            BY <1>0 DEF SpiType, SpiMasterType, SpiSlaveType
          <5>2. s.temp \in [1 .. Bits -> Level] /\ b = m.temp[s.count + 1]
            BY <1>0, <4>1, <5>1 DEF SpiType, SpiMasterType, SpiSlaveType
          <5>3. /\ Shifted(s.temp, b) \in [1 .. Bits -> Level]
                /\ Taken(Shifted(s.temp, b), m.temp, s.count + 1, Bits)
            <6>1. Bits \in Nat \ {0} /\ s.count \in 0 .. Bits - 1
              BY <1>0, <4>1
            <6>2. Taken(s.temp, m.temp, s.count, Bits)
              BY <4>1
            <6>3. ASSUME NEW bits \in Nat \ {0}, NEW i \in 0 .. bits - 1,
                         NEW register \in [1 .. bits -> Level], NEW word,
                         b = word[i + 1], Taken(register, word, i, bits)
                  PROVE  /\ Shifted(register, b) \in [1 .. bits -> Level]
                         /\ Taken(Shifted(register, b), word, i + 1, bits)
              BY ONLY <6>3, TakenOneMore, b \in Level
            <6> QED BY ONLY <5>2, <6>1, <6>2, <6>3
          <5> QED BY <4>1, <5>1, <5>3
        <4>4. CASE m.count < Bits
          <5>1. SpiBits(next, slave, n)
            BY <1>0, <1>2, <3>1, <4>1, <4>2, <4>3, <4>4 DEF SpiBits
          <5> QED BY <1>0, <2>3, <3>1, <4>2, <5>1 DEF SpiWord
        <4>5. CASE ~(m.count < Bits)
          <5>1. slave.count = Bits /\ m.temp \in Word(Bits)
            BY <1>0, <4>1, <4>5 DEF SpiType, SpiMasterType, SpiSlaveType
          <5>2. slave.temp = m.temp
            BY <1>0, <4>3, <5>1, TakenAll
          <5>3. SpiStop(next, slave, n)
            BY <1>2, <3>1, <4>1, <4>2, <4>5, <5>1, <5>2 DEF SpiStop
          <5> QED BY <1>0, <2>3, <3>1, <4>2, <5>3 DEF SpiWord
        <4> QED BY <4>4, <4>5
      <3> HIDE DEF n
      <3> QED BY <1>0, <2>3, <3>2, <3>3, <3>4 DEF SpiWord, SpiRest, SpiStop, n
    <2> HIDE DEF heard
    <2> QED BY <1>0, <2>1, <2>2, <2>3, SpiEdged DEF heard, slave, m, s
  <1>5. ASSUME NEW din \in Offers(m), SpiEdge(Selects(m, din), Accepts(bench, din))
        PROVE  SpiInv' /\ device' = device
    <2> DEFINE k == Selects(m, din)
               a == Accepts(bench, din)
               n == heard(a)
    <2>1. m.state = "idle" /\ din \in Word(Bits)
      BY <1>5 DEF Offers
    <2>2. /\ DOMAIN k = MFields /\ k.state = "send" /\ k.temp = din /\ k.cs = 0
          /\ k.count = m.count /\ k.mosi = m.mosi
      BY <1>0 DEF SpiType, SpiMasterType, SpiSlaveType, Selects, MFields
    <2>3. /\ DOMAIN a = Notes /\ a.lost = bench.lost /\ a.sent = Append(bench.sent, din)
          /\ a.got = bench.got
      BY <1>0, NotesKept
    <2>4. n.sent = Append(bench.sent, din) /\ n.got = heard(bench).got
      BY <1>0, <1>n, <2>3
    <2> HIDE DEF k, a, n
    <2>5. SpiType(k, slave)
      BY <1>0, <1>1, <2>1, <2>2 DEF SpiType, SpiMasterType, SpiSlaveType, SlaveMoves
    <2>6. ASSUME ~a.lost
          PROVE  SpiWord(k, slave, n)
      <3>1. /\ slave.state = "detect_start" /\ n.got = bench.sent
            /\ bench.sent \in Seq(Word(Bits))
        BY <1>3, <2>1, <2>3, <2>4, <2>6
      <3>2. SpiBegun(k, slave, n)
        BY <1>0, <2>1, <2>2, <2>4, <3>1 DEF SpiBegun, SpiType, SpiMasterType, SpiSlaveType
      <3> QED BY <2>1, <2>4, <3>1, <3>2 DEF SpiWord
    <2> QED BY <1>5, <2>3, <2>5, <2>6, SpiEdged DEF k, a, n, slave, m, s
  <1>6. CASE SpiEdge([m EXCEPT !.cs = 1, !.mosi = 0], Loses(bench))
    <2> DEFINE k == [m EXCEPT !.cs = 1, !.mosi = 0]
               a == Loses(bench)
    <2>1. /\ DOMAIN k = MFields /\ k.state = m.state /\ k.temp = m.temp
          /\ k.count = m.count /\ k.mosi = 0
      BY <1>0 DEF SpiType, SpiMasterType, SpiSlaveType, MFields
    <2>2. DOMAIN a = Notes /\ a.lost
      BY <1>0, NotesKept
    <2> HIDE DEF k, a
    <2>3. SpiType(k, slave)
      BY <1>0, <1>1, <2>1 DEF SpiType, SpiMasterType, SpiSlaveType, Level, SlaveMoves
    <2> QED BY <1>6, <2>2, <2>3, SpiEdged DEF k, a, slave, m, s
  <1> QED BY <1>4, <1>5, <1>6 DEF SpiStep, m

LEMMA SpiLinked == SpiInv => InOrder(bench)
  <1> SUFFICES ASSUME SpiInv, ~bench.lost PROVE IsPrefix(bench.got, bench.sent)
    BY DEF InOrder
  <1>1. /\ bench.got \in Seq(Word(Bits))
        /\ bench.sent = bench.got \/ \E w \in Word(Bits) : bench.sent = Append(bench.got, w)
    BY DEF SpiInv, SpiType, SpiMasterType, SpiSlaveType, SpiWord, SpiRest, SpiBits, SpiBegun, SpiStop
  <1> QED BY <1>1, PrefixOfSent DEF SlaveMoves
-----------------------------------------------------------------------------
(* The hasher.                                                             *)

HasherStates == {"Idle", "HashingBlock", "LastRound", "UpdateHash", "TransferOut"}
Message == Seq(Nat)

\* The block under way, and what the bench knows of its message.
Under(c, n) ==
  /\ c.hashLocal \in Message /\ c.data.block \in Nat /\ c.data.lastBlock \in BOOLEAN
  /\ IF c.data.lastBlock
       THEN n.message = <<>> /\ n.sent = Append(n.got, Append(c.hashLocal, c.data.block))
       ELSE n.message = Append(c.hashLocal, c.data.block) /\ n.sent = n.got

\* Whose hash the working variables hold, after how many rounds.
Worked(c, rounds) ==
  c.vars = [from |-> c.hashLocal, block |-> c.data.block, rounds |-> rounds]

HasherIdle(c, n) ==
  /\ c.state = "Idle" /\ n.sent = n.got /\ n.message \in Message
  /\ n.message # <<>> => c.hashLocal = n.message
HasherRounds(c, n) ==
  /\ c.state = "HashingBlock" /\ Under(c, n) /\ c.j \in 0 .. Rounds - 2
  /\ c.j # 0 => Worked(c, c.j)
HasherLast(c, n) ==
  c.state = "LastRound" /\ Under(c, n) /\ c.j = Rounds - 1 /\ Worked(c, Rounds - 1)
HasherUpdates(c, n) ==
  c.state = "UpdateHash" /\ Under(c, n) /\ Worked(c, Rounds)
HasherOut(c, n) ==
  /\ c.state = "TransferOut" /\ c.data.lastBlock = TRUE /\ n.message = <<>>
  /\ c.hashLocal \in Message /\ n.sent = Append(n.got, c.hashLocal)
  /\ c.validHash => c.hash = c.hashLocal

HasherMessage(c, n) ==
  /\ n.sent \in Seq(Message) /\ n.got \in Seq(Message)
  /\ HasherIdle(c, n) \/ HasherRounds(c, n) \/ HasherLast(c, n) \/ HasherUpdates(c, n)
     \/ HasherOut(c, n)

\* Also after a reset, when the state machine is still in the middle of a block.
HasherType(c) ==
  /\ c.state \in HasherStates /\ c.validHash \in BOOLEAN
  /\ c.validHash => c.state = "TransferOut"
  /\ c.ready => c.state = "Idle"

HasherInv ==
  /\ HasherType(chip) /\ DOMAIN bench = Notes /\ bench.words \in Nat
  /\ bench.lost => bench.message = <<>> /\ ~chip.ready
  /\ ~bench.lost => HasherMessage(chip, bench)

\* Whatever comes in and goes out, the types are kept.
LEMMA HasherTyped ==
  ASSUME NEW c, HasherType(c), NEW in, in # NoBlock => c.ready, NEW readyHashIn \in BOOLEAN,
         NEW next, next = hasher(c, in, readyHashIn)
  PROVE  HasherType(next) /\ next.validHash = (c.state = "TransferOut" /\ next.validHash)
  <1>1. /\ next.state = nextState(c, in # NoBlock, readyHashIn)
        /\ next.ready = (c.state = "Idle" /\ ~(in # NoBlock))
        /\ next.validHash = IF stalled(c, readyHashIn) THEN TRUE ELSE nextValidHash(c, readyHashIn)
    BY DEF hasher
  <1>2. next.state \in HasherStates /\ (next.ready => next.state = "Idle")
    BY <1>1 DEF nextState, HasherType, HasherStates
  <1>3. next.validHash \in BOOLEAN
        /\ (next.validHash => c.state = "TransferOut" /\ next.state = "TransferOut")
    BY <1>1 DEF nextState, stalled, nextValidHash, transferHash, HasherType
  <1> QED BY <1>2, <1>3 DEF HasherType

\* What the bench holds after an edge.
LEMMA HasherEdged ==
  ASSUME NEW c, NEW n, HasherEdge(c, n), HasherType(c), DOMAIN n = Notes, n.words \in Nat,
         n.lost => n.message = <<>>, ~n.lost => HasherMessage(c, n)
  PROVE  HasherInv' /\ device' = device
  <1> DEFINE rests == c.ready /\ c.state = "Idle" /\ ~c.validHash
  <1>1. chip' = c /\ bench' = Rested(n, rests) /\ device' = device
    BY DEF HasherEdge, Edge
  <1>2. c.ready => rests
    BY DEF HasherType
  <1>3. rests => c.state = "Idle"
    OBVIOUS
  <1> HIDE DEF rests
  <1>4. /\ DOMAIN bench' = Notes /\ bench'.words = n.words /\ bench'.message = n.message
        /\ n.lost /\ ~rests => bench'.lost
        /\ n.lost /\ rests => ~bench'.lost /\ bench'.sent = <<>> /\ bench'.got = <<>>
        /\ ~n.lost => bench' = n
    BY <1>1, NotesKept
  <1>5. CASE ~n.lost
    BY <1>1, <1>4, <1>5 DEF HasherInv
  <1>6. CASE n.lost /\ ~rests
    BY <1>1, <1>2, <1>4, <1>6 DEF HasherInv
  <1>7. CASE n.lost /\ rests
    <2>1. bench'.sent = <<>> /\ bench'.got = <<>> /\ bench'.message = <<>> /\ c.state = "Idle"
      BY <1>3, <1>4, <1>7
    <2>2. HasherIdle(c, bench') /\ bench'.sent \in Seq(Message) /\ bench'.got \in Seq(Message)
      BY <2>1 DEF HasherIdle, Message
    <2>3. HasherMessage(c, bench')
      BY <2>2 DEF HasherMessage
    <2> QED BY <1>1, <1>4, <1>7, <2>3 DEF HasherInv
  <1> QED BY <1>5, <1>6, <1>7

LEMMA HasherStarts == HasherInit => HasherInv
  <1> SUFFICES ASSUME HasherInit PROVE HasherInv
    OBVIOUS
  <1>1. /\ chip.state = "Idle" /\ chip.validHash = FALSE /\ chip.ready = FALSE
        /\ bench = Nothing
    BY DEF HasherInit, Powered
  <1>2. /\ DOMAIN bench = Notes /\ bench.words = 0 /\ bench.sent = <<>> /\ bench.got = <<>>
        /\ bench.lost = FALSE /\ bench.message = <<>>
    BY <1>1 DEF Nothing, Notes
  <1>3. HasherIdle(chip, bench) /\ bench.sent \in Seq(Message) /\ bench.got \in Seq(Message)
    BY <1>1, <1>2 DEF HasherIdle, Message
  <1>4. HasherMessage(chip, bench)
    BY <1>3 DEF HasherMessage
  <1>5. HasherType(chip)
    BY <1>1 DEF HasherType, HasherStates
  <1> QED BY <1>1, <1>2, <1>4, <1>5 DEF HasherInv

\* An edge at which no block comes in.
LEMMA HasherRuns ==
  ASSUME NEW c, HasherType(c), NEW n, DOMAIN n = Notes, HasherMessage(c, n),
         NEW readyHashIn \in BOOLEAN, NEW next, next = hasher(c, NoBlock, readyHashIn),
         NEW m, m = IF transferHash(c, readyHashIn) THEN Delivers(n, c.hash) ELSE n
  PROVE  HasherMessage(next, m)
  <1>0. Rounds \in Nat /\ Rounds > 2
    BY MinerCoreAssumption
  <1>1. /\ next.data = c.data
        /\ next.j = CASE c.state = "Idle" -> 0 [] c.state = "HashingBlock" -> c.j + 1
                      [] OTHER -> c.j
        /\ next.hashLocal = IF c.state = "UpdateHash" THEN Digested(c) ELSE c.hashLocal
        /\ next.vars = compression(c)
        /\ next.hash = IF ~stalled(c, readyHashIn) /\ nextValidHash(c, readyHashIn)
                         THEN c.hashLocal ELSE c.hash
        /\ next.validHash = IF stalled(c, readyHashIn) THEN TRUE ELSE nextValidHash(c, readyHashIn)
        /\ next.state = nextState(c, FALSE, readyHashIn)
    BY DEF hasher
  <1>2. CASE c.state # "TransferOut"
    <2>1. m = n
      BY <1>2 DEF transferHash, HasherType
    <2>2. CASE HasherIdle(c, n)
      <3>1. next.state = "Idle" /\ next.hashLocal = c.hashLocal
        BY <1>1, <2>2 DEF HasherIdle, nextState
      <3>2. HasherIdle(next, n)
        BY <2>2, <3>1 DEF HasherIdle
      <3> QED BY <2>1, <3>2 DEF HasherMessage
    <2>3. CASE HasherRounds(c, n)
      <3>1. /\ next.j = c.j + 1 /\ next.data = c.data /\ next.hashLocal = c.hashLocal
            /\ c.j \in 0 .. Rounds - 2 /\ Under(next, n)
            /\ next.state = IF c.j = Rounds - 2 THEN "LastRound" ELSE "HashingBlock"
        BY <1>1, <2>3 DEF HasherRounds, nextState, Under
      <3>2. Worked(next, next.j)
        <4>1. CASE c.j = 0
          BY <1>1, <3>1, <4>1 DEF compression, Worked
        <4>2. CASE c.j # 0
          <5>1. c.vars = [from |-> c.hashLocal, block |-> c.data.block, rounds |-> c.j]
            BY <2>3, <4>2 DEF HasherRounds, Worked
          <5>2. next.vars = [c.vars EXCEPT !.rounds = IF @ = c.j THEN @ + 1 ELSE Wrong]
            BY <1>1, <4>2 DEF compression
          <5> QED BY <3>1, <5>1, <5>2 DEF Worked
        <4> QED BY <4>1, <4>2
      <3>3. CASE c.j = Rounds - 2
        <4>1. HasherLast(next, n)
          BY <1>0, <3>1, <3>2, <3>3 DEF HasherLast
        <4> QED BY <2>1, <4>1 DEF HasherMessage
      <3>4. CASE c.j # Rounds - 2
        <4>1. HasherRounds(next, n)
          BY <1>0, <3>1, <3>2, <3>4 DEF HasherRounds
        <4> QED BY <2>1, <4>1 DEF HasherMessage
      <3> QED BY <3>3, <3>4
    <2>4. CASE HasherLast(c, n)
      <3>1. /\ next.data = c.data /\ next.hashLocal = c.hashLocal /\ Under(next, n)
            /\ next.state = "UpdateHash" /\ c.j = Rounds - 1
        BY <1>1, <2>4 DEF HasherLast, nextState, Under
      <3>2. c.vars = [from |-> c.hashLocal, block |-> c.data.block, rounds |-> Rounds - 1]
        BY <2>4 DEF HasherLast, Worked
      <3>3. next.vars = [c.vars EXCEPT !.rounds = IF @ = c.j THEN @ + 1 ELSE Wrong]
        BY <1>0, <1>1, <3>1 DEF compression
      <3>4. Worked(next, Rounds)
        BY <1>0, <3>1, <3>2, <3>3 DEF Worked
      <3>5. HasherUpdates(next, n)
        BY <3>1, <3>4 DEF HasherUpdates
      <3> QED BY <2>1, <3>5 DEF HasherMessage
    <2>5. CASE HasherUpdates(c, n)
      <3>1. /\ next.data = c.data /\ next.hashLocal = Append(c.hashLocal, c.data.block)
            /\ next.state = IF c.data.lastBlock THEN "TransferOut" ELSE "Idle"
            /\ next.validHash = FALSE
        BY <1>1, <1>2, <2>5
           DEF HasherUpdates, nextState, Digested, Worked, stalled, nextValidHash, HasherType
      <3>2. Append(c.hashLocal, c.data.block) \in Message
        BY <2>5 DEF HasherUpdates, Under, Message
      <3>3. CASE c.data.lastBlock
        <4>1. HasherOut(next, n)
          BY <2>5, <3>1, <3>2, <3>3 DEF HasherOut, HasherUpdates, Under
        <4> QED BY <2>1, <4>1 DEF HasherMessage
      <3>4. CASE ~c.data.lastBlock
        <4>1. HasherIdle(next, n)
          BY <2>5, <3>1, <3>2, <3>4 DEF HasherIdle, HasherUpdates, Under
        <4> QED BY <2>1, <4>1 DEF HasherMessage
      <3> QED BY <3>3, <3>4
    <2> QED BY <1>2, <2>2, <2>3, <2>4, <2>5 DEF HasherMessage, HasherOut
  <1>3. CASE c.state = "TransferOut"
    <2>1. HasherOut(c, n)
      BY <1>3 DEF HasherMessage, HasherIdle, HasherRounds, HasherLast, HasherUpdates
    <2>2. CASE transferHash(c, readyHashIn)
      <3>1. next.state = "Idle"
        BY <1>1, <1>3, <2>2 DEF nextState
      <3>2. m.sent = n.sent /\ m.got = Append(n.got, c.hash) /\ m.message = n.message
        BY <2>2, NotesKept
      <3>3. c.hash = c.hashLocal
        BY <2>1, <2>2 DEF HasherOut, transferHash
      <3>4. m.got = m.sent /\ m.message = <<>>
        BY <2>1, <3>2, <3>3 DEF HasherOut
      <3>5. HasherIdle(next, m)
        <4>1. <<>> \in Message
          BY DEF Message
        <4> QED BY <3>1, <3>4, <4>1 DEF HasherIdle
      <3> QED BY <3>2, <3>4, <3>5 DEF HasherMessage
    <2>3. CASE ~transferHash(c, readyHashIn)
      <3>1. m = n /\ next.state = "TransferOut" /\ next.data = c.data
            /\ next.hashLocal = c.hashLocal
        BY <1>1, <1>3, <2>3 DEF nextState
      <3>2. next.hash = c.hashLocal
        <4>1. CASE stalled(c, readyHashIn)
          BY <1>1, <2>1, <4>1 DEF stalled, HasherOut
        <4>2. CASE ~stalled(c, readyHashIn)
          <5>1. nextValidHash(c, readyHashIn)
            BY <1>3, <2>1, <2>3 DEF nextValidHash, HasherOut
          <5> QED BY <1>1, <4>2, <5>1
        <4> QED BY <4>1, <4>2
      <3>3. HasherOut(next, n)
        BY <2>1, <3>1, <3>2 DEF HasherOut
      <3> QED BY <3>1, <3>3 DEF HasherMessage
    <2> QED BY <2>2, <2>3
  <1> QED BY <1>2, <1>3

\* An edge at which a block comes in.
LEMMA HasherTakes ==
  ASSUME NEW c, HasherType(c), c.ready, NEW n, DOMAIN n = Notes, HasherMessage(c, n),
         n.words \in Nat, NEW readyHashIn \in BOOLEAN, NEW lastBlock \in BOOLEAN,
         NEW in, in = [firstBlock |-> n.message = <<>>, lastBlock |-> lastBlock,
                       block |-> n.words + 1],
         NEW next, next = hasher(c, in, readyHashIn)
  PROVE  HasherMessage(next, Sends(n, in)) /\ in # NoBlock
  <1>1. c.state = "Idle" /\ HasherIdle(c, n)
    BY DEF HasherType, HasherMessage, HasherRounds, HasherLast, HasherUpdates, HasherOut
  <1>2. in # NoBlock /\ in.block = n.words + 1 /\ in.lastBlock = lastBlock
        /\ in.firstBlock = (n.message = <<>>)
    BY DEF NoBlock
  <1>3. next.data = in /\ next.j = 0
        /\ next.hashLocal = (IF in.firstBlock THEN <<>> ELSE c.hashLocal)
        /\ next.state = "HashingBlock"
    BY <1>1, <1>2 DEF hasher, nextState, InitialVars
  <1>4. next.hashLocal = n.message /\ n.message \in Message
    BY <1>1, <1>2, <1>3 DEF HasherIdle
  <1> DEFINE message == Append(n.message, in.block)
             m == Sends(n, in)
  <1>5. CASE lastBlock
    <2>1. m = [Accepts(n, message) EXCEPT !.message = <<>>]
      BY <1>2, <1>5 DEF Sends
    <2>2. DOMAIN Accepts(n, message) = Notes /\ Accepts(n, message).sent = Append(n.sent, message)
          /\ Accepts(n, message).got = n.got
      <3> HIDE DEF message
      <3> QED BY NotesKept
    <2>3. m.sent = Append(n.sent, message) /\ m.got = n.got /\ m.message = <<>>
      BY <2>1, <2>2 DEF Notes
    <2> HIDE DEF m
    <2>4. Under(next, m)
      <3>1. next.hashLocal \in Message /\ next.data.block \in Nat /\ next.data.lastBlock = TRUE
        BY <1>2, <1>3, <1>4, <1>5
      <3>2. message = Append(next.hashLocal, next.data.block) /\ n.sent = n.got
        BY <1>1, <1>2, <1>3, <1>4 DEF HasherIdle
      <3> QED BY <2>3, <3>1, <3>2 DEF Under
    <2>5. HasherRounds(next, m)
      BY <1>3, <2>4, MinerCoreAssumption DEF HasherRounds
    <2>6. m.sent \in Seq(Message) /\ m.got \in Seq(Message)
      BY <1>2, <1>4, <2>3 DEF HasherMessage, Message
    <2> QED BY <1>2, <2>5, <2>6 DEF HasherMessage, m
  <1>6. CASE ~lastBlock
    <2>1. m.sent = n.sent /\ m.got = n.got /\ m.message = message
      BY <1>2, <1>6 DEF Sends, Notes
    <2> HIDE DEF m
    <2>2. Under(next, m)
      BY <1>1, <1>2, <1>3, <1>4, <1>6, <2>1 DEF Under, HasherIdle
    <2>3. HasherRounds(next, m)
      BY <1>3, <2>2, MinerCoreAssumption DEF HasherRounds
    <2> QED BY <1>2, <2>1, <2>3 DEF HasherMessage, m
  <1> QED BY <1>5, <1>6

LEMMA CollectedNotes ==
  ASSUME DOMAIN bench = Notes, NEW r
  PROVE  /\ DOMAIN Collected(r) = Notes /\ Collected(r).lost = bench.lost
         /\ Collected(r).message = bench.message /\ Collected(r).words = bench.words
         /\ ~transferHash(chip, r) => Collected(r) = bench
  <1>1. CASE transferHash(chip, r)
    BY <1>1, NotesKept DEF Collected
  <1>2. CASE ~transferHash(chip, r)
    BY <1>2 DEF Collected
  <1> QED BY <1>1, <1>2

LEMMA HasherKeeps ==
  ASSUME HasherInv, HasherStep
  PROVE  HasherInv' /\ device' = device
  <1>0. /\ HasherType(chip) /\ DOMAIN bench = Notes /\ bench.words \in Nat
        /\ bench.lost => bench.message = <<>> /\ ~chip.ready
        /\ ~bench.lost => HasherMessage(chip, bench)
    BY DEF HasherInv
  <1>1. ASSUME NEW r \in BOOLEAN, HasherEdge(hasher(chip, NoBlock, r), Collected(r))
        PROVE  HasherInv' /\ device' = device
    <2> DEFINE c == hasher(chip, NoBlock, r)
               n == Collected(r)
    <2>1. /\ DOMAIN n = Notes /\ n.lost = bench.lost /\ n.message = bench.message
          /\ n.words = bench.words
      BY <1>0, CollectedNotes
    <2>2. n = IF transferHash(chip, r) THEN Delivers(bench, chip.hash) ELSE bench
      BY DEF Collected
    <2> HIDE DEF c, n
    <2>3. HasherType(c)
      BY <1>0, HasherTyped DEF c
    <2>4. ASSUME ~n.lost
          PROVE  HasherMessage(c, n)
      BY <1>0, <2>1, <2>2, <2>4, HasherRuns DEF c
    <2> QED BY <1>0, <1>1, <2>1, <2>3, <2>4, HasherEdged DEF c, n
  <1>2. ASSUME NEW r \in BOOLEAN, NEW lastBlock \in BOOLEAN, chip.ready,
               NEW in, in = [firstBlock |-> bench.message = <<>>, lastBlock |-> lastBlock,
                             block |-> bench.words + 1],
               HasherEdge(hasher(chip, in, r), Sends(Collected(r), in))
        PROVE  HasherInv' /\ device' = device
    <2>1. ~bench.lost /\ ~transferHash(chip, r)
      BY <1>0, <1>2 DEF transferHash, HasherType
    <2>2. Collected(r) = bench
      BY <1>0, <2>1, CollectedNotes
    <2> DEFINE c == hasher(chip, in, r)
               n == Sends(bench, in)
    <2>3. HasherMessage(c, n)
      BY <1>0, <1>2, <2>1, HasherTakes
    <2>4. HasherType(c)
      BY <1>0, <1>2, HasherTyped
    <2>5. DOMAIN n = Notes /\ n.words \in Nat /\ n.lost = bench.lost
      <3> DEFINE message == Append(bench.message, in.block)
      <3>1. n = IF in.lastBlock THEN [Accepts(bench, message) EXCEPT !.message = <<>>]
                ELSE [bench EXCEPT !.message = message, !.words = @ + 1]
        BY DEF Sends
      <3> HIDE DEF message, n
      <3>2. /\ DOMAIN Accepts(bench, message) = Notes
            /\ Accepts(bench, message).words = bench.words + 1
            /\ Accepts(bench, message).lost = bench.lost
        BY <1>0, NotesKept
      <3>3. CASE in.lastBlock
        BY <1>0, <3>1, <3>2, <3>3 DEF Notes
      <3>4. CASE ~in.lastBlock
        BY <1>0, <3>1, <3>4 DEF Notes
      <3> QED BY <3>3, <3>4
    <2> HIDE DEF c, n
    <2> QED BY <1>2, <2>1, <2>2, <2>3, <2>4, <2>5, HasherEdged DEF c, n
  <1>3. ASSUME NEW r \in BOOLEAN, NEW in, in # NoBlock => chip.ready,
               HasherEdge(ResetHasher(chip, in, r),
                          [Loses(Collected(r)) EXCEPT !.message = <<>>])
        PROVE  HasherInv' /\ device' = device
    <2> DEFINE c == ResetHasher(chip, in, r)
               d == hasher(chip, in, r)
               l == Loses(Collected(r))
               n == [l EXCEPT !.message = <<>>]
    <2>1. HasherType(d)
      BY <1>0, <1>3, HasherTyped
    <2>2. c.state = d.state /\ c.validHash = FALSE /\ c.ready = FALSE
      BY DEF ResetHasher, hasher
    <2>3. DOMAIN l = Notes /\ l.lost /\ l.words = bench.words
      <3> DEFINE m == Collected(r)
      <3>1. DOMAIN m = Notes /\ m.words = bench.words
        BY <1>0, CollectedNotes
      <3> HIDE DEF m
      <3> QED BY <3>1, NotesKept DEF m
    <2> HIDE DEF l
    <2>4. DOMAIN n = Notes /\ n.lost /\ n.words = bench.words /\ n.message = <<>>
      BY <2>3 DEF Notes
    <2> HIDE DEF c, d, n
    <2>5. HasherType(c)
      BY <2>1, <2>2 DEF HasherType
    <2> QED BY <1>0, <1>3, <2>4, <2>5, HasherEdged DEF c, n, l
  <1> QED BY <1>1, <1>2, <1>3 DEF HasherStep, HasherClock

LEMMA HasherHashed == HasherInv => InOrder(bench)
  <1> SUFFICES ASSUME HasherInv, ~bench.lost PROVE IsPrefix(bench.got, bench.sent)
    BY DEF InOrder
  <1>1. HasherMessage(chip, bench)
    BY DEF HasherInv
  <1>2. bench.got \in Seq(Message)
    BY <1>1 DEF HasherMessage
  <1>3. bench.sent = bench.got \/ \E w \in Message : bench.sent = Append(bench.got, w)
    <2>1. ASSUME Under(chip, bench)
          PROVE  bench.sent = bench.got \/ \E w \in Message : bench.sent = Append(bench.got, w)
      <3>1. Append(chip.hashLocal, chip.data.block) \in Message
        BY <2>1 DEF Under, Message
      <3> QED BY <2>1, <3>1 DEF Under
    <2>2. CASE HasherIdle(chip, bench) \/ HasherOut(chip, bench)
      BY <2>2 DEF HasherIdle, HasherOut
    <2>3. CASE HasherRounds(chip, bench) \/ HasherLast(chip, bench) \/ HasherUpdates(chip, bench)
      BY <2>1, <2>3 DEF HasherRounds, HasherLast, HasherUpdates
    <2> QED BY <1>1, <2>2, <2>3 DEF HasherMessage
  <1> QED BY <1>2, <1>3, PrefixOfSent

-----------------------------------------------------------------------------
(* The registers of MinerConfig.                                           *)

RegistersNotes ==
  {"in", "writes", "acks", "reads", "answers", "asked", "held", "resets"}

\* A write is on its way to the registers or waits to be acknowledged,
\* never both.
RegistersInv ==
  /\ DOMAIN bench = RegistersNotes
  /\ bench.in.bready \in BOOLEAN /\ bench.in.rready \in BOOLEAN
  /\ bench.in.arvalid \in BOOLEAN /\ bench.in.araddr \in Nat
  /\ bench.acks \in Nat /\ bench.answers \in Nat /\ bench.held \in BOOLEAN
  /\ chip.awready \in BOOLEAN /\ chip.bvalid \in BOOLEAN /\ chip.readValid \in BOOLEAN
  /\ chip.awready => ~chip.bvalid
  /\ bench.writes = Plus(bench.acks, chip.bvalid)
  /\ bench.reads = Plus(bench.answers, chip.readValid)
  /\ chip.readValid /\ bench.held /\ bench.asked < START_CONFIG =>
       chip.readData = Statuses[bench.asked]

LEMMA RegistersStart == RegistersInit => RegistersInv
  <1> SUFFICES ASSUME RegistersInit PROVE RegistersInv
    OBVIOUS
  <1>1. /\ bench = [in |-> Off, writes |-> 0, acks |-> 0, reads |-> 0, answers |-> 0,
                    asked |-> 0, held |-> FALSE, resets |-> 0]
        /\ chip.awready = FALSE /\ chip.bvalid = FALSE /\ chip.readValid = FALSE
    BY DEF RegistersInit, Powered
  <1> QED BY <1>1 DEF RegistersInv, RegistersNotes, Off, Plus

LEMMA RegistersKeep ==
  ASSUME RegistersInv, RegistersStep
  PROVE  RegistersInv' /\ device' = device
  <1> DEFINE in == bench.in
  <1>1. ASSUME NEW c \in MinerRegisters(chip, in), NEW next \in Inputs,
               Edge(c, [Observed(in) EXCEPT !.in = next])
        PROVE  RegistersInv' /\ device' = device
    <2>1. /\ c.awready = Awready(chip, in) /\ c.bvalid = (chip.awready \/ (chip.bvalid /\ ~in.bready))
          /\ c.readValid = IF chip.readValid THEN ~in.rready ELSE in.arvalid
          /\ c.readData \in ReadData(chip, in)
      BY <1>1 DEF MinerRegisters
    <2> DEFINE reads == in.arvalid /\ ~chip.readValid
    <2>2. /\ DOMAIN bench' = RegistersNotes /\ bench'.in = next
          /\ bench'.writes = Plus(bench.writes, chip.awready)
          /\ bench'.acks = Plus(bench.acks, chip.bvalid /\ in.bready)
          /\ bench'.reads = Plus(bench.reads, reads)
          /\ bench'.answers = Plus(bench.answers, chip.readValid /\ in.rready)
          /\ bench'.asked = IF reads THEN in.araddr ELSE bench.asked
          /\ bench'.held = (reads \/ (bench.held /\ in.araddr = bench.asked))
          /\ chip' = c /\ device' = device
      BY <1>1 DEF Edge, Observed, RegistersInv, RegistersNotes
    <2>3. /\ bench'.in.bready \in BOOLEAN /\ bench'.in.rready \in BOOLEAN
          /\ bench'.in.arvalid \in BOOLEAN /\ bench'.in.araddr \in Nat
      BY <2>2, MinerCoreAssumption DEF Inputs
    <2>4. /\ chip'.awready \in BOOLEAN /\ chip'.bvalid \in BOOLEAN /\ chip'.readValid \in BOOLEAN
          /\ chip'.awready => ~chip'.bvalid
      BY <2>1, <2>2 DEF Awready, RegistersInv
    <2>5. /\ bench'.acks \in Nat /\ bench'.writes = Plus(bench'.acks, chip'.bvalid)
      BY <2>1, <2>2 DEF Plus, RegistersInv
    <2>6. /\ bench'.answers \in Nat /\ bench'.reads = Plus(bench'.answers, chip'.readValid)
      BY <2>1, <2>2 DEF Plus, RegistersInv
    <2>7. ASSUME chip'.readValid, bench'.held, bench'.asked < START_CONFIG
          PROVE  chip'.readData = Statuses[bench'.asked]
      <3>1. bench'.asked = in.araddr
        BY <2>2, <2>7
      <3>2. in.araddr < START_CONFIG /\ in.araddr \in Nat
        BY <2>7, <3>1 DEF RegistersInv
      <3>3. ReadData(chip, in) = {Statuses[in.araddr]}
        BY <3>2 DEF ReadData, START_CONFIG
      <3> QED BY <2>1, <2>2, <3>1, <3>3
    <2>8. bench'.held \in BOOLEAN
      BY <2>2
    <2> QED BY <2>2, <2>3, <2>4, <2>5, <2>6, <2>7, <2>8 DEF RegistersInv
  <1>2. ASSUME NEW c \in ResetRegisters(chip, in),
               Edge(c, [bench EXCEPT !.in = Off, !.writes = 0, !.acks = 0, !.reads = 0,
                                     !.answers = 0, !.resets = @ + 1])
        PROVE  RegistersInv' /\ device' = device
    <2>1. c.awready = FALSE /\ c.bvalid = FALSE /\ c.readValid = FALSE
      <3>1. PICK d \in MinerRegisters(chip, in) :
               c = [d EXCEPT !.awready = FALSE, !.bvalid = FALSE, !.readValid = FALSE]
        BY <1>2 DEF ResetRegisters
      <3>2. {"awready", "bvalid", "readValid"} \subseteq DOMAIN d
        BY DEF MinerRegisters
      <3> QED BY <3>1, <3>2
    <2>2. /\ DOMAIN bench' = RegistersNotes /\ bench'.in = Off /\ bench'.writes = 0
          /\ bench'.acks = 0 /\ bench'.reads = 0 /\ bench'.answers = 0
          /\ bench'.held = bench.held /\ chip' = c /\ device' = device
      BY <1>2 DEF Edge, RegistersInv, RegistersNotes
    <2>3. /\ bench'.in.bready \in BOOLEAN /\ bench'.in.rready \in BOOLEAN
          /\ bench'.in.arvalid \in BOOLEAN /\ bench'.in.araddr \in Nat
      BY <2>2 DEF Off
    <2>4. bench'.held \in BOOLEAN
      BY <2>2 DEF RegistersInv
    <2>5. /\ chip'.awready = FALSE /\ chip'.bvalid = FALSE /\ chip'.readValid = FALSE
      BY <2>1, <2>2
    <2>6. /\ bench'.acks \in Nat /\ bench'.writes = Plus(bench'.acks, chip'.bvalid)
          /\ bench'.answers \in Nat /\ bench'.reads = Plus(bench'.answers, chip'.readValid)
      BY <2>2, <2>5 DEF Plus
    <2>7. /\ chip'.awready \in BOOLEAN /\ chip'.bvalid \in BOOLEAN /\ chip'.readValid \in BOOLEAN
          /\ ~chip'.awready /\ ~chip'.readValid
      BY <2>5
    <2> QED BY <2>2, <2>3, <2>4, <2>6, <2>7 DEF RegistersInv
  <1> QED BY <1>1, <1>2 DEF RegistersStep

-----------------------------------------------------------------------------
(* I2C: first what the functions of master and slave do in each state,     *)
(* then how the two stand to each other.                                   *)

\* The divider, and the pulse of a bit that it counts.
LEMMA Clocks ==
  ASSUME NEW n \in 0 .. LastClock
  PROVE  /\ LastClock \in Nat /\ n \in Nat /\ LastClock = 4 * Quarter - 1
         /\ (n + 1) % (4 * Quarter) = IF n = LastClock THEN 0 ELSE n + 1
         /\ n \div Quarter \in 0 .. 3
         /\ n \div Quarter = 0 <=> n < Quarter
         /\ n \div Quarter < 2 <=> n < 2 * Quarter
         /\ n \div Quarter < 3 <=> n < 3 * Quarter
         /\ n \div Quarter = 1 <=> n < 2 * Quarter /\ ~(n < Quarter)
         /\ n \div Quarter = 2 <=> n < 3 * Quarter /\ ~(n < 2 * Quarter)
  <1>0. Quarter \in Nat /\ Quarter > 2 /\ LastClock = 4 * Quarter - 1 /\ LastClock \in Nat
        /\ n \in Nat /\ n < 4 * Quarter
    BY I2cAssumption DEF LastClock
  <1>1. (n + 1) % (4 * Quarter) = IF n = LastClock THEN 0 ELSE n + 1
    <2>1. CASE n = LastClock
      BY <1>0, <2>1
    <2>2. CASE n < LastClock
      BY <1>0, <2>2
    <2> QED BY <1>0, <2>1, <2>2
  <1> DEFINE q == n \div Quarter
  <1>2. /\ q \in Int /\ Quarter * q <= n /\ n < Quarter * q + Quarter
    BY <1>0
  <1> HIDE DEF q
  <1>3. q >= 0
    BY <1>0, <1>2
  <1>4. q <= 3
    BY <1>0, <1>2, <1>3
  <1>5. q \in {0, 1, 2, 3}
    BY <1>2, <1>3, <1>4
  <1>6. /\ q = 0 <=> n < Quarter
        /\ q < 2 <=> n < 2 * Quarter
        /\ q < 3 <=> n < 3 * Quarter
        /\ q = 1 <=> n < 2 * Quarter /\ ~(n < Quarter)
        /\ q = 2 <=> n < 3 * Quarter /\ ~(n < 2 * Quarter)
    BY <1>0, <1>2, <1>5
  <1> QED BY <1>0, <1>1, <1>5, <1>6 DEF q

Ticked(n) == IF n = LastClock THEN 0 ELSE n + 1

MasterFields ==
  {"state", "count1", "bitcount", "data_addr", "data_tx", "scl", "sda_t", "sda_en",
   "r_ack", "rx_data", "busy", "ack_err", "done"}
SlaveFields ==
  {"state", "count1", "busy", "bitcnt", "r_addr", "addr", "mem", "dout", "din", "r_mem",
   "w_mem", "sda_t", "sda_en", "r_ack", "ack_err"}

\* What no state of a busy master changes, and what few of them do.
MasterKept(c, d) ==
  /\ DOMAIN d = MasterFields /\ d.count1 = Ticked(c.count1)
  /\ d.data_addr = c.data_addr /\ d.data_tx = c.data_tx
KeptFlags(c, d) == d.busy = TRUE /\ d.ack_err = c.ack_err /\ d.done = c.done

Works(c) == DOMAIN c = MasterFields /\ c.count1 \in 0 .. LastClock /\ c.busy = TRUE

Levelled(c, d, en, level) ==
  /\ MasterKept(c, d) /\ KeptFlags(c, d) /\ d.state = c.state /\ d.bitcount = c.bitcount
  /\ d.sda_en = en /\ d.sda_t = level /\ d.r_ack = c.r_ack /\ d.rx_data = c.rx_data
Passed(c, d, to, en) ==
  /\ MasterKept(c, d) /\ KeptFlags(c, d) /\ d.state = to /\ d.bitcount = 0
  /\ d.sda_en = en /\ d.sda_t = c.sda_t /\ d.r_ack = c.r_ack /\ d.rx_data = c.rx_data

\* Only the fields in F may differ.
MasterChanges(F, l, d) == DOMAIN d = MasterFields /\ \A x \in MasterFields \ F : d[x] = l[x]

LEMMA MasterKeptOn ==
  ASSUME NEW c, NEW l, MasterKept(c, l), NEW F,
         F \cap {"count1", "data_addr", "data_tx"} = {}, NEW d, MasterChanges(F, l, d)
  PROVE  MasterKept(c, d)
  <1>1. /\ d.count1 = l.count1 /\ d.data_addr = l.data_addr /\ d.data_tx = l.data_tx
        /\ DOMAIN d = MasterFields
    BY DEF MasterChanges, MasterFields
  <1> QED BY <1>1 DEF MasterKept

LEMMA MasterLevels ==
  ASSUME NEW c, Works(c), NEW en, NEW level, NEW d, d = Levels(c, en, level)
  PROVE  Levelled(c, d, en, level)
  <1>1. (c.count1 + 1) % (4 * Quarter) = Ticked(c.count1)
    BY Clocks DEF Works, Ticked
  <1> QED BY <1>1 DEF Works, Levels, Levelled, Counted, MasterKept, KeptFlags, MasterFields

LEMMA MasterPasses ==
  ASSUME NEW c, Works(c), NEW to, NEW en, NEW d, d = Passes(c, to, en)
  PROVE  Passed(c, d, to, en)
  <1>1. (c.count1 + 1) % (4 * Quarter) = Ticked(c.count1)
    BY Clocks DEF Works, Ticked
  <1> QED BY <1>1 DEF Works, Passes, Passed, Counted, MasterKept, KeptFlags, MasterFields

\* What each state of the master does.
AfterStart(c, d) ==
  /\ MasterKept(c, d) /\ KeptFlags(c, d) /\ d.r_ack = c.r_ack /\ d.rx_data = c.rx_data
  /\ d.bitcount = c.bitcount /\ d.sda_en = TRUE
  /\ d.sda_t = IF c.count1 < 2 * Quarter THEN 1 ELSE 0
  /\ c.count1 = LastClock => d.state = "write_addr"
  /\ c.count1 # LastClock => d.state = "start" /\ d.scl = 1

AfterWord(c, d, to) ==
  IF c.bitcount = Width
    THEN d.state = to /\ d.bitcount = 0 /\ d.sda_t = c.sda_t
    ELSE /\ d.state = c.state
         /\ d.bitcount = IF c.count1 = LastClock THEN c.bitcount + 1 ELSE c.bitcount

AfterAddress(c, d) ==
  /\ MasterKept(c, d) /\ KeptFlags(c, d) /\ d.r_ack = c.r_ack /\ d.rx_data = c.rx_data
  /\ AfterWord(c, d, "ack_1") /\ (d.sda_en = (c.bitcount # Width))
  /\ c.bitcount # Width =>
       d.sda_t = IF c.count1 < Quarter THEN 0
                 ELSE IF c.count1 < 2 * Quarter THEN c.data_addr[c.bitcount + 1] ELSE c.sda_t

AfterWrite(c, d) ==
  /\ MasterKept(c, d) /\ KeptFlags(c, d) /\ d.r_ack = c.r_ack /\ d.rx_data = c.rx_data
  /\ AfterWord(c, d, "ack_2")
  /\ c.bitcount = Width => d.sda_en = FALSE
  /\ c.bitcount # Width =>
       IF c.count1 < 2 * Quarter /\ ~(c.count1 < Quarter)
         THEN d.sda_en = TRUE /\ d.sda_t = c.data_tx[c.bitcount + 1]
         ELSE d.sda_en = c.sda_en /\ d.sda_t = c.sda_t

AfterRead(c, d) ==
  /\ MasterKept(c, d) /\ KeptFlags(c, d) /\ d.r_ack = c.r_ack
  /\ d.rx_data = IF c.bitcount # Width /\ c.count1 = 2 * Quarter
                   THEN Shifted(c.rx_data, sda) ELSE c.rx_data
  /\ AfterWord(c, d, "master_ack") /\ (d.sda_en = (c.bitcount = Width))
  /\ d.sda_t \in {0, c.sda_t}

AfterAck(c, d) ==
  /\ MasterKept(c, d) /\ d.busy = TRUE /\ d.done = c.done /\ d.rx_data = c.rx_data
  /\ d.r_ack = IF c.count1 < 3 * Quarter /\ ~(c.count1 < 2 * Quarter) THEN sda ELSE c.r_ack
  /\ d.sda_t \in {0, 1, c.sda_t} /\ (c.bitcount = 0 => d.bitcount = 0)
  /\ c.count1 # LastClock => d.state = c.state /\ d.sda_en = FALSE /\ d.ack_err = c.ack_err
  /\ c.count1 = LastClock /\ c.r_ack = 0 =>
       IF c.state = "ack_2" THEN d.state = "stop" /\ d.sda_en = TRUE /\ d.ack_err = FALSE
       ELSE /\ d.ack_err = c.ack_err
            /\ IF c.data_addr[Width] = 0
                 THEN d.state = "write_data" /\ d.sda_en = TRUE /\ d.sda_t = 0
                 ELSE d.state = "read_data" /\ d.sda_en = FALSE

AfterMasterAck(c, d) ==
  /\ MasterKept(c, d) /\ KeptFlags(c, d) /\ d.r_ack = c.r_ack /\ d.rx_data = c.rx_data
  /\ d.bitcount = c.bitcount /\ d.sda_en = TRUE
  /\ c.count1 = LastClock => d.state = "stop" /\ d.sda_t = 0
  /\ c.count1 # LastClock => d.state = "master_ack" /\ d.sda_t = 1

AfterStop(c, d) ==
  /\ MasterKept(c, d) /\ d.r_ack = c.r_ack /\ d.rx_data = c.rx_data
  /\ d.bitcount = c.bitcount /\ d.sda_en = TRUE /\ d.ack_err = c.ack_err
  /\ d.sda_t = IF c.count1 < 2 * Quarter THEN 0 ELSE 1
  /\ c.count1 = LastClock => d.state = "idle" /\ d.busy = FALSE /\ d.done = TRUE
  /\ c.count1 # LastClock => d.state = "stop" /\ d.busy = TRUE /\ d.done = c.done

LEMMA MasterStarts ==
  ASSUME NEW c, Works(c), c.state = "start", NEW d, d = i2c_master(c)
  PROVE  AfterStart(c, d)
  <1>1. PICK level : level = IF pulse(c) < 2 THEN 1 ELSE 0
    OBVIOUS
  <1>2. level = IF c.count1 < 2 * Quarter THEN 1 ELSE 0
    BY <1>1, Clocks DEF Works, pulse
  <1>3. d = IF Ends(c) THEN [[Levels(c, TRUE, level) EXCEPT !.scl = 1]
                               EXCEPT !.state = "write_addr", !.scl = 0]
            ELSE [Levels(c, TRUE, level) EXCEPT !.scl = 1]
    BY <1>1 DEF i2c_master, start
  <1> DEFINE l == Levels(c, TRUE, level)
  <1>4. Levelled(c, l, TRUE, level)
    BY MasterLevels
  <1>5. d = IF Ends(c) THEN [[l EXCEPT !.scl = 1] EXCEPT !.state = "write_addr", !.scl = 0]
            ELSE [l EXCEPT !.scl = 1]
    BY <1>3
  <1> HIDE DEF l
  <1> QED BY <1>2, <1>4, <1>5 DEF AfterStart, Levelled, MasterKept, KeptFlags, Ends, MasterFields

LEMMA MasterAddresses ==
  ASSUME NEW c, Works(c), c.state = "write_addr", c.bitcount \in 0 .. Width,
         NEW d, d = i2c_master(c)
  PROVE  AfterAddress(c, d)
  <1>1. PICK level : level = CASE pulse(c) = 0 -> 0
                               [] pulse(c) = 1 -> Sent(c.data_addr, c.bitcount)
                               [] OTHER -> c.sda_t
    OBVIOUS
  <1>2. level = IF c.count1 < Quarter THEN 0
                ELSE IF c.count1 < 2 * Quarter THEN c.data_addr[c.bitcount + 1] ELSE c.sda_t
    BY <1>1, Clocks DEF Works, pulse, Sent
  <1>3. d = IF Whole(c) THEN Passes(c, "ack_1", FALSE) ELSE NextBit(c, Levels(c, TRUE, level))
    BY <1>1 DEF i2c_master, write_addr
  <1>4. CASE Whole(c)
    <2>1. Passed(c, d, "ack_1", FALSE)
      BY <1>3, <1>4, MasterPasses
    <2> QED BY <1>4, <2>1 DEF Passed, AfterAddress, AfterWord, Whole
  <1>5. CASE ~Whole(c)
    <2> DEFINE l == Levels(c, TRUE, level)
    <2>1. Levelled(c, l, TRUE, level)
      BY MasterLevels
    <2>2. d = IF Ends(c) THEN [l EXCEPT !.bitcount = @ + 1, !.scl = 0] ELSE l
      BY <1>3, <1>5 DEF NextBit
    <2> HIDE DEF l
    <2>0. DOMAIN l = MasterFields
      BY <2>1 DEF Levelled, MasterKept
    <2>3. /\ MasterChanges({"bitcount", "scl"}, l, d)
          /\ d.bitcount = IF Ends(c) THEN l.bitcount + 1 ELSE l.bitcount
      BY <2>0, <2>2 DEF MasterChanges, MasterFields
    <2>4. MasterKept(c, d)
      BY <2>1, <2>3, MasterKeptOn DEF Levelled
    <2>5. /\ d.busy = l.busy /\ d.ack_err = l.ack_err /\ d.done = l.done /\ d.r_ack = l.r_ack
          /\ d.rx_data = l.rx_data /\ d.state = l.state /\ d.sda_en = l.sda_en
          /\ d.sda_t = l.sda_t
      BY <2>3 DEF MasterChanges, MasterFields
    <2>6. /\ KeptFlags(c, d) /\ d.r_ack = c.r_ack /\ d.rx_data = c.rx_data
          /\ d.state = c.state /\ d.sda_en = TRUE /\ d.sda_t = level /\ l.bitcount = c.bitcount
      BY <2>1, <2>5 DEF Levelled, KeptFlags
    <2> QED BY ONLY <1>2, <1>5, <2>3, <2>4, <2>6 DEF AfterAddress, AfterWord, Whole, Ends
  <1> QED BY <1>4, <1>5

LEMMA MasterWrites ==
  ASSUME NEW c, Works(c), c.state = "write_data", c.bitcount \in 0 .. Width,
         NEW d, d = i2c_master(c)
  PROVE  AfterWrite(c, d)
  <1>1. PICK en, level :
          IF pulse(c) = 1 THEN en = TRUE /\ level = Sent(c.data_tx, c.bitcount)
                          ELSE en = c.sda_en /\ level = c.sda_t
    OBVIOUS
  <1>2. IF c.count1 < 2 * Quarter /\ ~(c.count1 < Quarter)
          THEN en = TRUE /\ level = c.data_tx[c.bitcount + 1]
          ELSE en = c.sda_en /\ level = c.sda_t
    BY <1>1, Clocks DEF Works, pulse, Sent
  <1>3. d = IF Whole(c) THEN Passes(c, "ack_2", FALSE) ELSE NextBit(c, Levels(c, en, level))
    BY <1>1 DEF i2c_master, write_data
  <1>4. CASE Whole(c)
    <2>1. Passed(c, d, "ack_2", FALSE)
      BY <1>3, <1>4, MasterPasses
    <2> QED BY <1>4, <2>1 DEF Passed, AfterWrite, AfterWord, Whole
  <1>5. CASE ~Whole(c)
    <2> DEFINE l == Levels(c, en, level)
    <2>1. Levelled(c, l, en, level)
      BY MasterLevels
    <2>2. d = IF Ends(c) THEN [l EXCEPT !.bitcount = @ + 1, !.scl = 0] ELSE l
      BY <1>3, <1>5 DEF NextBit
    <2> HIDE DEF l
    <2> QED BY <1>2, <1>5, <2>1, <2>2
            DEF Levelled, AfterWrite, AfterWord, Whole, MasterKept, KeptFlags, Ends, MasterFields
  <1> QED BY <1>4, <1>5

LEMMA MasterReads ==
  ASSUME NEW c, Works(c), c.state = "read_data", c.bitcount \in 0 .. Width,
         NEW d, d = i2c_master(c)
  PROVE  AfterRead(c, d)
  <1>1. PICK level \in {0, c.sda_t} : level = IF pulse(c) < 2 THEN 0 ELSE c.sda_t
    OBVIOUS
  <1> DEFINE l == Levels(c, FALSE, level)
             r == IF Samples(c) THEN [l EXCEPT !.rx_data = Shifted(@, sda)] ELSE l
  <1>3. d = IF Whole(c) THEN Passes(c, "master_ack", TRUE) ELSE NextBit(c, r)
    BY <1>1 DEF i2c_master, read_data
  <1>4. CASE Whole(c)
    <2>1. Passed(c, d, "master_ack", TRUE)
      BY <1>3, <1>4, MasterPasses
    <2> QED BY <1>4, <2>1 DEF Passed, AfterRead, AfterWord, Whole
  <1>5. CASE ~Whole(c)
    <2>1. /\ MasterKept(c, r) /\ KeptFlags(c, r) /\ r.state = c.state
          /\ r.bitcount = c.bitcount /\ r.sda_en = FALSE /\ r.sda_t = level
          /\ r.r_ack = c.r_ack
          /\ r.rx_data = IF c.count1 = 2 * Quarter THEN Shifted(c.rx_data, sda) ELSE c.rx_data
      <3>1. Levelled(c, l, FALSE, level)
        BY MasterLevels
      <3>2. r = IF Samples(c) THEN [l EXCEPT !.rx_data = Shifted(@, sda)] ELSE l
        OBVIOUS
      <3> HIDE DEF l, r
      <3>0. DOMAIN l = MasterFields
        BY <3>1 DEF Levelled, MasterKept
      <3>3. /\ MasterChanges({"rx_data"}, l, r)
            /\ r.rx_data = IF Samples(c) THEN Shifted(l.rx_data, sda) ELSE l.rx_data
        BY <3>0, <3>2 DEF MasterChanges, MasterFields
      <3>4. MasterKept(c, r)
        BY <3>1, <3>3, MasterKeptOn DEF Levelled
      <3>5. /\ r.busy = l.busy /\ r.ack_err = l.ack_err /\ r.done = l.done /\ r.r_ack = l.r_ack
            /\ r.state = l.state /\ r.sda_en = l.sda_en /\ r.sda_t = l.sda_t
            /\ r.bitcount = l.bitcount
        BY <3>3 DEF MasterChanges, MasterFields
      <3> QED BY ONLY <3>1, <3>3, <3>4, <3>5 DEF Levelled, KeptFlags, Samples
    <2> HIDE DEF r
    <2>2. d = IF Ends(c) THEN [r EXCEPT !.bitcount = @ + 1, !.scl = 0] ELSE r
      BY <1>3, <1>5 DEF NextBit
    <2>0. DOMAIN r = MasterFields
      BY <2>1 DEF MasterKept
    <2>3. /\ MasterChanges({"bitcount", "scl"}, r, d)
          /\ d.bitcount = IF Ends(c) THEN r.bitcount + 1 ELSE r.bitcount
      BY <2>0, <2>2 DEF MasterChanges, MasterFields
    <2>4. MasterKept(c, d)
      BY <2>1, <2>3, MasterKeptOn
    <2>5. /\ d.busy = r.busy /\ d.ack_err = r.ack_err /\ d.done = r.done /\ d.r_ack = r.r_ack
          /\ d.rx_data = r.rx_data /\ d.state = r.state /\ d.sda_en = r.sda_en
          /\ d.sda_t = r.sda_t
      BY <2>3 DEF MasterChanges, MasterFields
    <2>6. KeptFlags(c, d)
      BY <2>1, <2>5 DEF KeptFlags
    <2> QED BY ONLY <1>1, <1>5, <2>1, <2>3, <2>4, <2>5, <2>6 DEF AfterRead, AfterWord, Whole, Ends
  <1> QED BY <1>4, <1>5

LEMMA MasterListens ==
  ASSUME NEW c, Works(c), c.state \in {"ack_1", "ack_2"}, NEW d, d = i2c_master(c)
  PROVE  AfterAck(c, d)
  <1> DEFINE l == Listens(c)
  <1>1. /\ MasterKept(c, l) /\ KeptFlags(c, l) /\ l.state = c.state /\ l.bitcount = c.bitcount
        /\ l.sda_en = FALSE /\ l.sda_t \in {0, c.sda_t} /\ l.rx_data = c.rx_data
        /\ l.r_ack = IF c.count1 < 3 * Quarter /\ ~(c.count1 < 2 * Quarter) THEN sda ELSE c.r_ack
    <2>1. PICK level \in {0, c.sda_t} : level = IF pulse(c) < 3 THEN 0 ELSE c.sda_t
      OBVIOUS
    <2>2. pulse(c) = 2 <=> c.count1 < 3 * Quarter /\ ~(c.count1 < 2 * Quarter)
      BY Clocks DEF Works, pulse
    <2>3. l = IF pulse(c) = 2 THEN [Levels(c, FALSE, level) EXCEPT !.r_ack = sda]
              ELSE Levels(c, FALSE, level)
      BY <2>1 DEF Listens
    <2> DEFINE k == Levels(c, FALSE, level)
    <2>4. Levelled(c, k, FALSE, level)
      BY MasterLevels
    <2>5. l = IF pulse(c) = 2 THEN [k EXCEPT !.r_ack = sda] ELSE k
      BY <2>3
    <2> HIDE DEF k, l
    <2> QED BY <2>1, <2>2, <2>4, <2>5 DEF Levelled, MasterKept, KeptFlags, MasterFields
  <1>2. d = IF c.state = "ack_1" THEN ack_1(c) ELSE ack_2(c)
    BY DEF i2c_master
  <1> HIDE DEF l
  <1>3. CASE ~Ends(c)
    <2>1. d = l
      BY <1>2, <1>3 DEF ack_1, ack_2, l
    <2> QED BY <1>1, <1>3, <2>1 DEF AfterAck, KeptFlags, Ends
  <1> DEFINE F == {"state", "sda_en", "sda_t", "ack_err", "bitcount"}
  <1>0. DOMAIN l = MasterFields
    BY <1>1 DEF MasterKept
  <1>7. ASSUME MasterChanges(F, l, d)
        PROVE  /\ MasterKept(c, d) /\ d.busy = TRUE /\ d.done = c.done /\ d.rx_data = c.rx_data
               /\ d.r_ack = l.r_ack
    <2>1. MasterKept(c, d)
      BY <1>1, <1>7, MasterKeptOn
    <2>2. /\ d.busy = l.busy /\ d.done = l.done /\ d.rx_data = l.rx_data /\ d.r_ack = l.r_ack
      BY <1>7 DEF MasterChanges, MasterFields
    <2> QED BY <1>1, <2>1, <2>2 DEF KeptFlags
  <1>4. CASE Ends(c) /\ c.state = "ack_2"
    <2>1. d = [[l EXCEPT !.sda_t = 0] EXCEPT !.state = "stop", !.sda_en = TRUE,
                                             !.ack_err = c.r_ack # 0]
      BY <1>2, <1>4 DEF ack_2, Stops, l
    <2>2. /\ MasterChanges(F, l, d) /\ d.state = "stop" /\ d.sda_en = TRUE /\ d.sda_t = 0
          /\ d.ack_err = (c.r_ack # 0) /\ d.bitcount = l.bitcount
      BY <1>0, <2>1 DEF MasterChanges, MasterFields
    <2> HIDE DEF F
    <2> QED BY <1>1, <1>4, <1>7, <2>2 DEF AfterAck, Ends
  <1>5. CASE Ends(c) /\ c.state = "ack_1" /\ c.r_ack # 0
    <2>1. d = [l EXCEPT !.state = "stop", !.sda_en = TRUE, !.ack_err = TRUE]
      BY <1>2, <1>5 DEF ack_1, Stops, l
    <2>2. MasterChanges(F, l, d) /\ d.sda_t = l.sda_t /\ d.bitcount = l.bitcount
      BY <1>0, <2>1 DEF MasterChanges, MasterFields
    <2> HIDE DEF F
    <2> QED BY <1>1, <1>5, <1>7, <2>2 DEF AfterAck, Ends
  <1>6. CASE Ends(c) /\ c.state = "ack_1" /\ c.r_ack = 0
    <2>1. d = IF c.data_addr[Width] = 0
                THEN [l EXCEPT !.state = "write_data", !.sda_t = 0, !.sda_en = TRUE, !.bitcount = 0]
                ELSE [l EXCEPT !.state = "read_data", !.sda_t = 1, !.bitcount = 0]
      BY <1>2, <1>6 DEF ack_1, l
    <2>2. /\ MasterChanges(F, l, d) /\ d.ack_err = l.ack_err /\ d.bitcount = 0
          /\ IF c.data_addr[Width] = 0
               THEN d.state = "write_data" /\ d.sda_en = TRUE /\ d.sda_t = 0
               ELSE d.state = "read_data" /\ d.sda_en = l.sda_en /\ d.sda_t = 1
      BY <1>0, <2>1 DEF MasterChanges, MasterFields
    <2> HIDE DEF F
    <2> QED BY <1>1, <1>6, <1>7, <2>2 DEF AfterAck, Ends, KeptFlags
  <1> QED BY <1>3, <1>4, <1>5, <1>6

LEMMA MasterAcknowledges ==
  ASSUME NEW c, Works(c), c.state = "master_ack", NEW d, d = i2c_master(c)
  PROVE  AfterMasterAck(c, d)
  <1>1. d = IF Ends(c) THEN [Levels(c, TRUE, 1) EXCEPT !.state = "stop", !.sda_t = 0]
            ELSE Levels(c, TRUE, 1)
    BY DEF i2c_master, master_ack
  <1> DEFINE l == Levels(c, TRUE, 1)
  <1>2. Levelled(c, l, TRUE, 1)
    BY MasterLevels
  <1>3. d = IF Ends(c) THEN [l EXCEPT !.state = "stop", !.sda_t = 0] ELSE l
    BY <1>1
  <1> HIDE DEF l
  <1> QED BY <1>2, <1>3 DEF Levelled, AfterMasterAck, MasterKept, KeptFlags, Ends, MasterFields

LEMMA MasterStops ==
  ASSUME NEW c, Works(c), c.state = "stop", NEW d, d = i2c_master(c)
  PROVE  AfterStop(c, d)
  <1>1. PICK level : level = IF pulse(c) < 2 THEN 0 ELSE 1
    OBVIOUS
  <1>2. level = IF c.count1 < 2 * Quarter THEN 0 ELSE 1
    BY <1>1, Clocks DEF Works, pulse
  <1>3. d = IF Ends(c) THEN [[Levels(c, TRUE, level) EXCEPT !.scl = 1]
                 EXCEPT !.state = "idle", !.scl = 0, !.busy = FALSE, !.done = TRUE]
            ELSE [Levels(c, TRUE, level) EXCEPT !.scl = 1]
    BY <1>1 DEF i2c_master, stop
  <1> DEFINE l == Levels(c, TRUE, level)
  <1>4. Levelled(c, l, TRUE, level)
    BY MasterLevels
  <1>5. d = IF Ends(c) THEN [[l EXCEPT !.scl = 1]
                 EXCEPT !.state = "idle", !.scl = 0, !.busy = FALSE, !.done = TRUE]
            ELSE [l EXCEPT !.scl = 1]
    BY <1>3
  <1> HIDE DEF l
  <1> QED BY <1>2, <1>4, <1>5 DEF Levelled, AfterStop, MasterKept, KeptFlags, Ends, MasterFields

\* At rest, and when it takes a request.
Waited(c, d) ==
  /\ DOMAIN d = MasterFields /\ d.count1 = 0 /\ d.bitcount = c.bitcount
  /\ d.sda_t = c.sda_t /\ d.sda_en = c.sda_en /\ d.rx_data = c.rx_data
  /\ d.ack_err = FALSE /\ d.done = FALSE

LEMMA MasterWaits ==
  ASSUME NEW c, DOMAIN c = MasterFields, c.busy = FALSE, c.state = "idle",
         NEW d, d = Waits(c)
  PROVE  /\ i2c_master(c) = d /\ Waited(c, d) /\ d.state = "idle" /\ d.busy = FALSE
         /\ d.data_addr = Zeros(Width) /\ d.data_tx = Zeros(Width)
  <1>1. i2c_master(c) = d
    BY DEF i2c_master
  <1> QED BY <1>1 DEF Waits, Counted, Waited, MasterFields

LEMMA MasterAsked ==
  ASSUME NEW c, DOMAIN c = MasterFields, c.busy = FALSE, c.state = "idle",
         NEW r, NEW d, d = Asked(c, r)
  PROVE  /\ Waited(c, d) /\ d.state = "start" /\ d.busy = TRUE
         /\ d.data_addr = Append(r.addr, IF r.op = "read" THEN 1 ELSE 0)
         /\ d.data_tx = r.din
  <1> DEFINE w == Waits(c)
  <1>1. DOMAIN w = MasterFields /\ Waited(c, w)
    BY MasterWaits DEF Waited
  <1>2. d = [w EXCEPT !.busy = TRUE, !.state = "start",
                      !.data_addr = Append(r.addr, IF r.op = "read" THEN 1 ELSE 0),
                      !.data_tx = r.din]
    BY DEF Asked
  <1> HIDE DEF w
  <1> QED BY <1>1, <1>2 DEF Waited, MasterFields

\* The slave's divider and memory, whatever its state.
Divides(c, n) == IF c.busy THEN Ticked(n) ELSE 2 * Quarter + 2
Accesses(c, d) ==
  /\ DOMAIN d = SlaveFields /\ d.count1 = Divides(c, c.count1)
  /\ d.dout = IF c.r_mem THEN c.mem[c.addr] ELSE c.dout
  /\ d.mem = IF ~c.r_mem /\ c.w_mem THEN [c.mem EXCEPT ![c.addr] = c.din] ELSE c.mem
SameFlags(c, d) ==
  d.r_mem = c.r_mem /\ d.w_mem = c.w_mem /\ d.r_ack = c.r_ack /\ d.ack_err = c.ack_err
SameData(c, d) == d.r_addr = c.r_addr /\ d.addr = c.addr /\ d.din = c.din
SameLine(c, d) == d.sda_t = c.sda_t /\ d.sda_en = c.sda_en

Responds(c) ==
  /\ DOMAIN c = SlaveFields /\ c.count1 \in 0 .. LastClock
  /\ c.busy \in BOOLEAN /\ c.r_mem \in BOOLEAN /\ c.w_mem \in BOOLEAN

Goes(c, d) ==
  /\ Accesses(c, d) /\ SameFlags(c, d) /\ SameData(c, d) /\ SameLine(c, d)
  /\ d.state = c.state /\ d.busy = c.busy /\ d.bitcnt = c.bitcnt

\* Only the fields in F may differ.
Changes(F, a, d) == DOMAIN d = SlaveFields /\ \A x \in SlaveFields \ F : d[x] = a[x]

LEMMA AccessesKept ==
  ASSUME NEW c, NEW a, Goes(c, a), NEW F,
         F \cap {"count1", "dout", "mem"} = {}, NEW d, Changes(F, a, d)
  PROVE  Accesses(c, d)
  <1>1. d.count1 = a.count1 /\ d.dout = a.dout /\ d.mem = a.mem /\ DOMAIN d = SlaveFields
    BY DEF Changes, SlaveFields
  <1> QED BY <1>1 DEF Goes, Accesses

LEMMA SlaveAccesses ==
  ASSUME NEW c, Responds(c), NEW d, d = Accessed(c)
  PROVE  Goes(c, d)
  <1> DEFINE e == Divided(c)
  <1>1. (c.count1 + 1) % (4 * Quarter) = Ticked(c.count1)
    BY Clocks DEF Responds, Ticked
  <1>2. /\ DOMAIN e = SlaveFields /\ e.count1 = Divides(c, c.count1)
        /\ e.dout = c.dout /\ e.mem = c.mem
        /\ SameFlags(c, e) /\ SameData(c, e) /\ SameLine(c, e)
        /\ e.state = c.state /\ e.busy = c.busy /\ e.bitcnt = c.bitcnt
    BY <1>1 DEF Responds, Divided, Divides, SameFlags, SameData, SameLine, SlaveFields
  <1>3. d = CASE c.r_mem -> [e EXCEPT !.dout = c.mem[c.addr]]
              [] ~c.r_mem /\ c.w_mem -> [e EXCEPT !.mem[c.addr] = c.din]
              [] OTHER -> e
    BY DEF Accessed
  <1> HIDE DEF e
  <1>4. CASE c.r_mem
    BY <1>2, <1>3, <1>4 DEF Goes, Accesses, SameFlags, SameData, SameLine, SlaveFields
  <1>5. CASE ~c.r_mem /\ c.w_mem
    <2>1. d = [e EXCEPT !.mem = [e.mem EXCEPT ![c.addr] = c.din]]
      BY <1>2, <1>3, <1>5 DEF SlaveFields
    <2> DEFINE mem == [e.mem EXCEPT ![c.addr] = c.din]
    <2>2. mem = [c.mem EXCEPT ![c.addr] = c.din]
      BY <1>2
    <2>3. d = [e EXCEPT !.mem = mem]
      BY <2>1
    <2> HIDE DEF mem
    <2> QED BY <1>2, <1>5, <2>2, <2>3
            DEF Goes, Accesses, SameFlags, SameData, SameLine, SlaveFields
  <1>6. CASE ~c.r_mem /\ ~c.w_mem
    BY <1>2, <1>3, <1>6 DEF Goes, Accesses, SameFlags, SameData, SameLine, SlaveFields
  <1> QED BY <1>4, <1>5, <1>6 DEF Responds

\* What each state of the slave does.
FromIdle(c, d) ==
  /\ Accesses(c, d) /\ SameFlags(c, d) /\ SameData(c, d) /\ SameLine(c, d)
  /\ d.bitcnt = c.bitcnt
  /\ IF chip.m.scl = 1 /\ sda = 0 THEN d.state = "wait_p" /\ d.busy = TRUE
                                  ELSE d.state = "idle" /\ d.busy = c.busy

FromWait(c, d) ==
  /\ Accesses(c, d) /\ SameFlags(c, d) /\ SameData(c, d) /\ SameLine(c, d)
  /\ d.bitcnt = c.bitcnt /\ d.busy = c.busy
  /\ d.state = IF c.count1 = LastClock THEN "read_addr" ELSE "wait_p"

FromByte(c, d, to) ==
  IF c.bitcnt = Width
    THEN d.state = to /\ d.bitcnt = 0
    ELSE /\ d.state = c.state
         /\ d.bitcnt = IF c.count1 = LastClock THEN c.bitcnt + 1 ELSE c.bitcnt

FromAddress(c, d) ==
  /\ Accesses(c, d) /\ SameFlags(c, d) /\ d.busy = c.busy /\ d.din = c.din
  /\ FromByte(c, d, "send_ack1") /\ d.sda_t = c.sda_t /\ (d.sda_en = (c.bitcnt = Width))
  /\ d.addr = IF c.bitcnt = Width THEN SubSeq(c.r_addr, 1, Width - 1) ELSE c.addr
  /\ d.r_addr = IF c.bitcnt # Width /\ c.count1 = 2 * Quarter
                  THEN Shifted(c.r_addr, sda) ELSE c.r_addr

FromAck(c, d) ==
  /\ Accesses(c, d) /\ SameData(c, d) /\ d.busy = c.busy /\ d.bitcnt = c.bitcnt
  /\ d.r_ack = c.r_ack /\ d.ack_err = c.ack_err
  /\ d.sda_t = IF c.count1 < Quarter THEN 0 ELSE c.sda_t

FromAck1(c, d) ==
  /\ FromAck(c, d) /\ d.w_mem = c.w_mem /\ d.sda_en = c.sda_en
  /\ c.count1 # LastClock => d.state = "send_ack1" /\ d.r_mem = c.r_mem
  /\ c.count1 = LastClock =>
       IF c.r_addr[Width] = 1 THEN d.state = "send_data" /\ d.r_mem = TRUE
                              ELSE d.state = "read_data" /\ d.r_mem = FALSE

FromRead(c, d) ==
  /\ Accesses(c, d) /\ d.busy = c.busy /\ d.r_addr = c.r_addr /\ d.addr = c.addr
  /\ d.r_mem = c.r_mem /\ d.r_ack = c.r_ack /\ d.ack_err = c.ack_err
  /\ FromByte(c, d, "send_ack2") /\ d.sda_t = c.sda_t /\ (d.sda_en = (c.bitcnt = Width))
  /\ d.w_mem = IF c.bitcnt = Width THEN TRUE ELSE c.w_mem
  /\ d.din = IF c.bitcnt # Width /\ c.count1 = 2 * Quarter
               THEN Shifted(c.din, sda) ELSE c.din

FromAck2(c, d) ==
  /\ FromAck(c, d) /\ d.r_mem = c.r_mem
  /\ d.w_mem = IF c.count1 < 2 * Quarter /\ ~(c.count1 < Quarter) THEN FALSE ELSE c.w_mem
  /\ IF c.count1 = LastClock THEN d.state = "detect_stop" /\ d.sda_en = FALSE
                             ELSE d.state = "send_ack2" /\ d.sda_en = c.sda_en

FromSend(c, d) ==
  /\ Accesses(c, d) /\ SameData(c, d) /\ d.busy = c.busy
  /\ d.w_mem = c.w_mem /\ d.r_ack = c.r_ack /\ d.ack_err = c.ack_err
  /\ FromByte(c, d, "master_ack") /\ (d.sda_en = (c.bitcnt # Width))
  /\ d.r_mem = IF c.bitcnt = Width THEN c.r_mem ELSE FALSE
  /\ d.sda_t = IF c.bitcnt # Width /\ c.count1 = Quarter
                 THEN c.dout[c.bitcnt + 1] ELSE c.sda_t

FromMasterAck(c, d) ==
  /\ Accesses(c, d) /\ SameData(c, d) /\ d.busy = c.busy /\ d.bitcnt = c.bitcnt
  /\ d.r_mem = c.r_mem /\ d.w_mem = c.w_mem /\ d.sda_t = c.sda_t
  /\ d.r_ack = IF c.count1 = 2 * Quarter THEN sda ELSE c.r_ack
  /\ d.ack_err = IF c.count1 = LastClock THEN c.r_ack # 1 ELSE c.ack_err
  /\ IF c.count1 = LastClock THEN d.state = "detect_stop" /\ d.sda_en = FALSE
                             ELSE d.state = "master_ack" /\ d.sda_en = c.sda_en

FromStop(c, d) ==
  /\ Accesses(c, d) /\ SameFlags(c, d) /\ SameData(c, d) /\ SameLine(c, d)
  /\ d.bitcnt = c.bitcnt
  /\ IF c.count1 = LastClock THEN d.state = "idle" /\ d.busy = FALSE
                             ELSE d.state = "detect_stop" /\ d.busy = c.busy

\* The middle of a bit is not its end.
LEMMA MiddleOfBit == 2 * Quarter # LastClock /\ Quarter # LastClock /\ ~(LastClock < 2 * Quarter)
  BY I2cAssumption DEF LastClock

LEMMA SlaveIdles ==
  ASSUME NEW c, Responds(c), c.state = "idle", NEW d, d = i2c_Slave(c)
  PROVE  FromIdle(c, d)
  <1> DEFINE a == Accessed(c)
  <1>1. Goes(c, a)
    BY SlaveAccesses
  <1>2. d = IF chip.m.scl = 1 /\ sda = 0
              THEN [a EXCEPT !.busy = TRUE, !.state = "wait_p"] ELSE a
    BY DEF i2c_Slave
  <1> HIDE DEF a
  <1> QED BY <1>1, <1>2
          DEF FromIdle, Goes, Responds, Accesses, SameFlags, SameData, SameLine, SlaveFields

LEMMA SlaveWaits ==
  ASSUME NEW c, Responds(c), c.state = "wait_p", NEW d, d = i2c_Slave(c)
  PROVE  FromWait(c, d)
  <1> DEFINE a == Accessed(c)
  <1>1. Goes(c, a)
    BY SlaveAccesses
  <1>2. d = IF Ends(c) THEN [a EXCEPT !.state = "read_addr"] ELSE a
    BY DEF i2c_Slave, AtEnd
  <1> HIDE DEF a
  <1> QED BY <1>1, <1>2
          DEF FromWait, Ends, Goes, Responds, Accesses, SameFlags, SameData, SameLine, SlaveFields

LEMMA SlaveReadsAddress ==
  ASSUME NEW c, Responds(c), c.state = "read_addr", NEW d, d = i2c_Slave(c)
  PROVE  FromAddress(c, d)
  <1> DEFINE a == Accessed(c)
  <1>1. Goes(c, a)
    BY SlaveAccesses
  <1> DEFINE e == [a EXCEPT !.sda_en = FALSE]
             r == IF Samples(c) THEN [e EXCEPT !.r_addr = Shifted(@, sda)] ELSE e
  <1>2. d = IF Full(c) THEN [[a EXCEPT !.state = "send_ack1", !.bitcnt = 0]
                               EXCEPT !.sda_en = TRUE,
                                      !.addr = SubSeq(c.r_addr, 1, Width - 1)]
            ELSE IF Ends(c) THEN [r EXCEPT !.bitcnt = @ + 1] ELSE r
    BY DEF i2c_Slave, read_addr, TurnsTo, CountBit
  <1>0. DOMAIN a = SlaveFields
    BY <1>1 DEF Goes, Accesses
  <1>3. CASE Full(c)
    <2> HIDE DEF a
    <2>1. /\ Changes({"state", "bitcnt", "sda_en", "addr"}, a, d)
          /\ d.state = "send_ack1" /\ d.bitcnt = 0 /\ d.sda_en = TRUE
          /\ d.addr = SubSeq(c.r_addr, 1, Width - 1)
      BY <1>0, <1>2, <1>3 DEF Changes, SlaveFields
    <2>2. Accesses(c, d)
      BY <1>1, <2>1, AccessesKept
    <2>3. /\ SameFlags(c, d) /\ d.busy = c.busy /\ d.din = c.din /\ d.sda_t = c.sda_t
          /\ d.r_addr = c.r_addr
      BY <1>1, <2>1 DEF Changes, Goes, SameFlags, SameData, SameLine, SlaveFields
    <2> QED BY ONLY <1>3, <2>1, <2>2, <2>3 DEF FromAddress, FromByte, Full
  <1>4. CASE ~Full(c)
    <2> HIDE DEF a
    <2>1. /\ Changes({"sda_en", "r_addr"}, a, r) /\ r.sda_en = FALSE
          /\ r.r_addr = IF Samples(c) THEN Shifted(a.r_addr, sda) ELSE a.r_addr
      BY <1>0 DEF Changes, SlaveFields
    <2>2. d = IF Ends(c) THEN [r EXCEPT !.bitcnt = @ + 1] ELSE r
      BY <1>2, <1>4
    <2> HIDE DEF r
    <2>3. /\ Changes({"sda_en", "r_addr", "bitcnt"}, a, d)
          /\ d.sda_en = FALSE /\ d.r_addr = r.r_addr
          /\ d.bitcnt = IF Ends(c) THEN a.bitcnt + 1 ELSE a.bitcnt
      BY <2>1, <2>2 DEF Changes, SlaveFields
    <2>4. Accesses(c, d)
      BY <1>1, <2>3, AccessesKept
    <2>5. /\ SameFlags(c, d) /\ d.busy = c.busy /\ d.din = c.din /\ d.sda_t = c.sda_t
          /\ d.addr = c.addr /\ d.state = c.state
      BY <1>1, <2>3 DEF Changes, Goes, SameFlags, SameData, SameLine, SlaveFields
    <2>6. a.r_addr = c.r_addr /\ a.bitcnt = c.bitcnt
      BY <1>1 DEF Goes, SameData
    <2> QED BY ONLY <1>4, <2>1, <2>3, <2>4, <2>5, <2>6
            DEF FromAddress, FromByte, Full, Samples, Ends
  <1> QED BY <1>3, <1>4

LEMMA SlaveAcknowledgesAddress ==
  ASSUME NEW c, Responds(c), c.state = "send_ack1", NEW d, d = i2c_Slave(c)
  PROVE  FromAck1(c, d)
  <1> DEFINE a == Accessed(c)
  <1>1. Goes(c, a)
    BY SlaveAccesses
  <1>2. pulse(c) = 0 <=> c.count1 < Quarter
    BY Clocks DEF Responds, pulse
  <1>3. d = IF Ends(c)
              THEN IF c.r_addr[Width] = 1
                     THEN [a EXCEPT !.state = "send_data", !.r_mem = TRUE]
                     ELSE [a EXCEPT !.state = "read_data", !.r_mem = FALSE]
            ELSE IF pulse(c) = 0 THEN [a EXCEPT !.sda_t = 0] ELSE a
    BY DEF i2c_Slave, send_ack1, Acknowledges
  <1>4. ~(LastClock < Quarter)
    BY I2cAssumption DEF LastClock
  <1> HIDE DEF a
  <1> QED BY <1>1, <1>2, <1>3, <1>4
          DEF FromAck1, FromAck, Ends, Goes, Responds, Accesses, SameFlags, SameData, SameLine, SlaveFields

LEMMA SlaveReadsData ==
  ASSUME NEW c, Responds(c), c.state = "read_data", NEW d, d = i2c_Slave(c)
  PROVE  FromRead(c, d)
  <1> DEFINE a == Accessed(c)
  <1>1. Goes(c, a)
    BY SlaveAccesses
  <1> DEFINE e == [a EXCEPT !.sda_en = FALSE]
             r == IF Samples(c) THEN [e EXCEPT !.din = Shifted(@, sda)] ELSE e
  <1>2. d = IF Full(c) THEN [[a EXCEPT !.state = "send_ack2", !.bitcnt = 0]
                               EXCEPT !.sda_en = TRUE, !.w_mem = TRUE]
            ELSE IF Ends(c) THEN [r EXCEPT !.bitcnt = @ + 1] ELSE r
    BY DEF i2c_Slave, slave_read_data, TurnsTo, CountBit
  <1>0. DOMAIN a = SlaveFields
    BY <1>1 DEF Goes, Accesses
  <1>3. CASE Full(c)
    <2> HIDE DEF a
    <2>1. /\ Changes({"state", "bitcnt", "sda_en", "w_mem"}, a, d)
          /\ d.state = "send_ack2" /\ d.bitcnt = 0 /\ d.sda_en = TRUE /\ d.w_mem = TRUE
      BY <1>0, <1>2, <1>3 DEF Changes, SlaveFields
    <2>2. Accesses(c, d)
      BY <1>1, <2>1, AccessesKept
    <2>3. /\ d.busy = c.busy /\ d.r_addr = c.r_addr /\ d.addr = c.addr /\ d.r_mem = c.r_mem
          /\ d.r_ack = c.r_ack /\ d.ack_err = c.ack_err /\ d.sda_t = c.sda_t /\ d.din = c.din
      BY <1>1, <2>1 DEF Changes, Goes, SameFlags, SameData, SameLine, SlaveFields
    <2> QED BY ONLY <1>3, <2>1, <2>2, <2>3 DEF FromRead, FromByte, Full
  <1>4. CASE ~Full(c)
    <2> HIDE DEF a
    <2>1. /\ Changes({"sda_en", "din"}, a, r) /\ r.sda_en = FALSE
          /\ r.din = IF Samples(c) THEN Shifted(a.din, sda) ELSE a.din
      BY <1>0 DEF Changes, SlaveFields
    <2>2. d = IF Ends(c) THEN [r EXCEPT !.bitcnt = @ + 1] ELSE r
      BY <1>2, <1>4
    <2> HIDE DEF r
    <2>3. /\ Changes({"sda_en", "din", "bitcnt"}, a, d)
          /\ d.sda_en = FALSE /\ d.din = r.din
          /\ d.bitcnt = IF Ends(c) THEN a.bitcnt + 1 ELSE a.bitcnt
      BY <2>1, <2>2 DEF Changes, SlaveFields
    <2>4. Accesses(c, d)
      BY <1>1, <2>3, AccessesKept
    <2>5. /\ d.busy = c.busy /\ d.r_addr = c.r_addr /\ d.addr = c.addr /\ d.r_mem = c.r_mem
          /\ d.w_mem = c.w_mem /\ d.r_ack = c.r_ack /\ d.ack_err = c.ack_err
          /\ d.sda_t = c.sda_t /\ d.state = c.state
      BY <1>1, <2>3 DEF Changes, Goes, SameFlags, SameData, SameLine, SlaveFields
    <2>6. a.din = c.din /\ a.bitcnt = c.bitcnt
      BY <1>1 DEF Goes, SameData
    <2> QED BY ONLY <1>4, <2>1, <2>3, <2>4, <2>5, <2>6
            DEF FromRead, FromByte, Full, Samples, Ends
  <1> QED BY <1>3, <1>4

LEMMA SlaveAcknowledgesData ==
  ASSUME NEW c, Responds(c), c.state = "send_ack2", NEW d, d = i2c_Slave(c)
  PROVE  FromAck2(c, d)
  <1> DEFINE a == Accessed(c)
  <1>1. Goes(c, a)
    BY SlaveAccesses
  <1>2. /\ pulse(c) = 0 <=> c.count1 < Quarter
        /\ pulse(c) = 1 <=> c.count1 < 2 * Quarter /\ ~(c.count1 < Quarter)
    BY Clocks DEF Responds, pulse
  <1>4. ~(LastClock < Quarter) /\ ~(LastClock < 2 * Quarter)
    BY I2cAssumption DEF LastClock
  <1>3. d = IF Ends(c) THEN [a EXCEPT !.state = "detect_stop", !.sda_en = FALSE]
            ELSE IF pulse(c) = 1 THEN [a EXCEPT !.w_mem = FALSE]
            ELSE IF pulse(c) = 0 THEN [a EXCEPT !.sda_t = 0] ELSE a
    BY <1>2, <1>4 DEF i2c_Slave, send_ack2, Acknowledges, Ends
  <1> HIDE DEF a
  <1>5. DOMAIN a = SlaveFields
    BY <1>1 DEF Goes, Accesses
  <1>6. /\ Changes({"state", "sda_en", "w_mem", "sda_t"}, a, d)
        /\ d.state = IF Ends(c) THEN "detect_stop" ELSE a.state
        /\ d.sda_en = IF Ends(c) THEN FALSE ELSE a.sda_en
        /\ d.w_mem = IF ~Ends(c) /\ pulse(c) = 1 THEN FALSE ELSE a.w_mem
        /\ d.sda_t = IF ~Ends(c) /\ pulse(c) = 0 THEN 0 ELSE a.sda_t
    <2>1. CASE Ends(c)
      BY <1>3, <1>5, <2>1 DEF Changes, SlaveFields
    <2>2. CASE ~Ends(c) /\ pulse(c) = 1
      BY <1>3, <1>5, <2>2 DEF Changes, SlaveFields
    <2>3. CASE ~Ends(c) /\ pulse(c) # 1
      BY <1>3, <1>5, <2>3 DEF Changes, SlaveFields
    <2> QED BY <2>1, <2>2, <2>3
  <1>7. Accesses(c, d)
    BY <1>1, <1>6, AccessesKept
  <1>8. /\ SameData(c, d) /\ d.busy = c.busy /\ d.bitcnt = c.bitcnt /\ d.r_mem = c.r_mem
        /\ d.r_ack = c.r_ack /\ d.ack_err = c.ack_err
    BY <1>1, <1>6 DEF Changes, Goes, SameFlags, SameData, SlaveFields
  <1>9. a.state = "send_ack2" /\ a.sda_en = c.sda_en /\ a.w_mem = c.w_mem /\ a.sda_t = c.sda_t
    BY <1>1 DEF Goes, SameFlags, SameLine
  <1> QED BY ONLY <1>2, <1>4, <1>6, <1>7, <1>8, <1>9 DEF FromAck2, FromAck, Ends

LEMMA SlaveSends ==
  ASSUME NEW c, Responds(c), c.state = "send_data", NEW d, d = i2c_Slave(c)
  PROVE  FromSend(c, d)
  <1> DEFINE a == Accessed(c)
  <1>1. Goes(c, a)
    BY SlaveAccesses
  <1> DEFINE e == [a EXCEPT !.sda_en = TRUE, !.r_mem = FALSE]
             r == IF c.count1 = Quarter THEN [e EXCEPT !.sda_t = c.dout[c.bitcnt + 1]] ELSE e
  <1>2. d = IF Full(c) THEN [[a EXCEPT !.state = "master_ack", !.bitcnt = 0]
                               EXCEPT !.sda_en = FALSE]
            ELSE IF Ends(c) THEN [r EXCEPT !.bitcnt = @ + 1] ELSE r
    BY DEF i2c_Slave, send_data, TurnsTo, CountBit, Sent
  <1>0. DOMAIN a = SlaveFields
    BY <1>1 DEF Goes, Accesses
  <1>3. CASE Full(c)
    <2> HIDE DEF a
    <2>1. /\ Changes({"state", "bitcnt", "sda_en"}, a, d)
          /\ d.state = "master_ack" /\ d.bitcnt = 0 /\ d.sda_en = FALSE
      BY <1>0, <1>2, <1>3 DEF Changes, SlaveFields
    <2>2. Accesses(c, d)
      BY <1>1, <2>1, AccessesKept
    <2>3. /\ SameData(c, d) /\ d.busy = c.busy /\ d.r_mem = c.r_mem /\ d.w_mem = c.w_mem
          /\ d.r_ack = c.r_ack /\ d.ack_err = c.ack_err /\ d.sda_t = c.sda_t
      BY <1>1, <2>1 DEF Changes, Goes, SameFlags, SameData, SameLine, SlaveFields
    <2> QED BY ONLY <1>3, <2>1, <2>2, <2>3 DEF FromSend, FromByte, Full
  <1>4. CASE ~Full(c)
    <2> HIDE DEF a
    <2>1. /\ Changes({"sda_en", "r_mem", "sda_t"}, a, r) /\ r.sda_en = TRUE /\ r.r_mem = FALSE
          /\ r.sda_t = IF c.count1 = Quarter THEN c.dout[c.bitcnt + 1] ELSE a.sda_t
      BY <1>0 DEF Changes, SlaveFields
    <2>2. d = IF Ends(c) THEN [r EXCEPT !.bitcnt = @ + 1] ELSE r
      BY <1>2, <1>4
    <2> HIDE DEF r
    <2>3. /\ Changes({"sda_en", "r_mem", "sda_t", "bitcnt"}, a, d)
          /\ d.sda_en = TRUE /\ d.r_mem = FALSE /\ d.sda_t = r.sda_t
          /\ d.bitcnt = IF Ends(c) THEN a.bitcnt + 1 ELSE a.bitcnt
      BY <2>1, <2>2 DEF Changes, SlaveFields
    <2>4. Accesses(c, d)
      BY <1>1, <2>3, AccessesKept
    <2>5. /\ SameData(c, d) /\ d.busy = c.busy /\ d.w_mem = c.w_mem
          /\ d.r_ack = c.r_ack /\ d.ack_err = c.ack_err /\ d.state = c.state
      BY <1>1, <2>3 DEF Changes, Goes, SameFlags, SameData, SameLine, SlaveFields
    <2>6. a.sda_t = c.sda_t /\ a.bitcnt = c.bitcnt
      BY <1>1 DEF Goes, SameLine
    <2> QED BY ONLY <1>4, <2>1, <2>3, <2>4, <2>5, <2>6 DEF FromSend, FromByte, Full, Ends
  <1> QED BY <1>3, <1>4

LEMMA SlaveHearsMaster ==
  ASSUME NEW c, Responds(c), c.state = "master_ack", NEW d, d = i2c_Slave(c)
  PROVE  FromMasterAck(c, d)
  <1> DEFINE a == Accessed(c)
  <1>1. Goes(c, a)
    BY SlaveAccesses
  <1>2. d = IF Samples(c) THEN [a EXCEPT !.r_ack = sda]
            ELSE IF Ends(c) THEN [a EXCEPT !.ack_err = c.r_ack # 1,
                                           !.state = "detect_stop", !.sda_en = FALSE]
            ELSE a
    BY MiddleOfBit DEF i2c_Slave, slave_master_ack, Samples, Ends
  <1> HIDE DEF a
  <1> QED BY <1>1, <1>2, MiddleOfBit
          DEF FromMasterAck, Samples, Ends, Goes, Responds, Accesses, SameFlags, SameData, SameLine, SlaveFields

LEMMA SlaveStops ==
  ASSUME NEW c, Responds(c), c.state = "detect_stop", NEW d, d = i2c_Slave(c)
  PROVE  FromStop(c, d)
  <1> DEFINE a == Accessed(c)
  <1>1. Goes(c, a)
    BY SlaveAccesses
  <1>2. d = IF Ends(c) THEN [a EXCEPT !.state = "idle", !.busy = FALSE] ELSE a
    BY DEF i2c_Slave, AtEnd
  <1> HIDE DEF a
  <1> QED BY <1>1, <1>2
          DEF FromStop, Ends, Goes, Responds, Accesses, SameFlags, SameData, SameLine, SlaveFields

LEMMA LineLevel ==
  ASSUME chip.m.sda_t \in Bit, chip.s.sda_t \in Bit
  PROVE  /\ chip.m.sda_en /\ ~chip.s.sda_en => sda = chip.m.sda_t
         /\ ~chip.m.sda_en /\ chip.s.sda_en => sda = chip.s.sda_t
         /\ ~chip.m.sda_en /\ ~chip.s.sda_en => sda = Z
         /\ chip.m.sda_en /\ chip.s.sda_en /\ chip.s.sda_t = chip.m.sda_t => sda = chip.m.sda_t
  <1> DEFINE levels == Driven(chip.m) \cup Driven(chip.s)
  <1>1. sda = CASE levels = {} -> Z [] levels = Bit -> X
                [] OTHER -> CHOOSE level \in levels : TRUE
    BY DEF sda
  <1>2. ASSUME NEW b \in Bit, levels = {b}
        PROVE  sda = b
    <2>1. levels # {} /\ levels # Bit
      BY <1>2 DEF Bit
    <2> QED BY <1>1, <1>2, <2>1
  <1>3. ~chip.m.sda_en /\ ~chip.s.sda_en => levels = {}
    BY DEF Driven
  <1>4. /\ chip.m.sda_en /\ ~chip.s.sda_en => levels = {chip.m.sda_t}
        /\ ~chip.m.sda_en /\ chip.s.sda_en => levels = {chip.s.sda_t}
        /\ chip.m.sda_en /\ chip.s.sda_en /\ chip.s.sda_t = chip.m.sda_t => levels = {chip.m.sda_t}
    BY DEF Driven
  <1> HIDE DEF levels
  <1> QED BY <1>1, <1>2, <1>3, <1>4 DEF Bit

MasterStates ==
  {"idle", "start", "write_addr", "ack_1", "write_data", "read_data", "master_ack",
   "ack_2", "stop"}
SlaveStates ==
  {"idle", "wait_p", "read_addr", "send_ack1", "read_data", "send_ack2", "send_data",
   "master_ack", "detect_stop"}

MasterType(m) ==
  /\ DOMAIN m = MasterFields /\ m.state \in MasterStates
  /\ m.count1 \in 0 .. LastClock /\ m.bitcount \in 0 .. Width
  /\ m.data_addr \in Byte /\ m.data_tx \in Byte
  /\ m.sda_t \in Bit /\ m.sda_en \in BOOLEAN /\ m.busy = (m.state # "idle")
SlaveType(s) ==
  /\ DOMAIN s = SlaveFields /\ s.state \in SlaveStates
  /\ s.count1 \in 0 .. LastClock /\ s.bitcnt \in 0 .. Width
  /\ s.r_addr \in Byte /\ s.dout \in Byte /\ s.din \in Byte /\ s.addr \in Cells
  /\ s.mem \in [Cells -> Byte] /\ s.r_mem \in BOOLEAN /\ s.w_mem \in BOOLEAN
  /\ s.sda_t \in Bit /\ s.sda_en \in BOOLEAN /\ s.busy = (s.state # "idle")

LEMMA ClockTyped ==
  /\ \A n \in 0 .. LastClock : Ticked(n) \in 0 .. LastClock
  /\ 2 * Quarter + 2 \in 0 .. LastClock /\ 0 \in 0 .. LastClock
  /\ LastClock \in Nat /\ Quarter \in Nat /\ Width \in Nat /\ Width > 1
  BY I2cAssumption DEF Ticked, LastClock

LEMMA BitOf ==
  ASSUME NEW byte \in Byte, NEW i \in 0 .. Width, i # Width
  PROVE  i + 1 \in 0 .. Width /\ byte[i + 1] \in Bit
  BY ClockTyped DEF Byte, Word

LEMMA MasterTyped ==
  ASSUME NEW m, MasterType(m), m.busy,
         m.state \in {"ack_1", "ack_2"} => m.bitcount = 0 /\ (m.count1 = LastClock => m.r_ack = 0),
         NEW d, d = i2c_master(m)
  PROVE  MasterType(d)
  <1>1. /\ Works(m) /\ 0 \in Bit /\ 1 \in Bit /\ Ticked(m.count1) \in 0 .. LastClock
        /\ 0 \in 0 .. Width /\ m.busy = TRUE /\ m.bitcount \in 0 .. Width
    BY ClockTyped DEF MasterType, Works, Bit
  <1>b. /\ m.bitcount # Width => /\ m.bitcount + 1 \in 0 .. Width
                                 /\ m.data_addr[m.bitcount + 1] \in Bit
                                 /\ m.data_tx[m.bitcount + 1] \in Bit
    BY BitOf DEF MasterType
  <1>2. CASE m.state = "start"
    <2>1. AfterStart(m, d)
      BY <1>1, <1>2, MasterStarts
    <2> QED BY <1>1, <1>b, <1>2, <2>1
            DEF MasterType, MasterStates, AfterStart, MasterKept, KeptFlags
  <1>3. CASE m.state = "write_addr"
    <2>1. AfterAddress(m, d)
      BY <1>1, <1>3, MasterAddresses
    <2> QED BY <1>1, <1>b, <1>3, <2>1
            DEF MasterType, MasterStates, AfterAddress, AfterWord, MasterKept, KeptFlags
  <1>4. CASE m.state = "write_data"
    <2>1. AfterWrite(m, d)
      BY <1>1, <1>4, MasterWrites
    <2> QED BY <1>1, <1>b, <1>4, <2>1
            DEF MasterType, MasterStates, AfterWrite, AfterWord, MasterKept, KeptFlags
  <1>5. CASE m.state = "read_data"
    <2>1. AfterRead(m, d)
      BY <1>1, <1>5, MasterReads
    <2> QED BY <1>1, <1>b, <1>5, <2>1
            DEF MasterType, MasterStates, AfterRead, AfterWord, MasterKept, KeptFlags
  <1>6. CASE m.state \in {"ack_1", "ack_2"}
    <2>1. AfterAck(m, d)
      BY <1>1, <1>6, MasterListens
    <2> QED BY <1>1, <1>b, <1>6, <2>1
            DEF MasterType, MasterStates, AfterAck, MasterKept
  <1>7. CASE m.state = "master_ack"
    <2>1. AfterMasterAck(m, d)
      BY <1>1, <1>7, MasterAcknowledges
    <2> QED BY <1>1, <1>b, <1>7, <2>1
            DEF MasterType, MasterStates, AfterMasterAck, MasterKept, KeptFlags
  <1>8. CASE m.state = "stop"
    <2>1. AfterStop(m, d)
      BY <1>1, <1>8, MasterStops
    <2> QED BY <1>1, <1>b, <1>8, <2>1
            DEF MasterType, MasterStates, AfterStop, MasterKept
  <1> QED BY <1>1, <1>2, <1>3, <1>4, <1>5, <1>6, <1>7, <1>8 DEF MasterType, MasterStates

LEMMA SlaveTyped ==
  ASSUME NEW s, SlaveType(s),
         s.state \in {"read_addr", "read_data"} /\ s.count1 = 2 * Quarter /\ s.bitcnt # Width =>
           sda \in Bit,
         NEW d, d = i2c_Slave(s)
  PROVE  SlaveType(d)
  <1>1. /\ Responds(s) /\ 0 \in Bit /\ Divides(s, s.count1) \in 0 .. LastClock
        /\ 0 \in 0 .. Width
    BY ClockTyped DEF SlaveType, Responds, Divides, Bit
  <1>b. /\ s.bitcnt # Width => /\ s.bitcnt + 1 \in 0 .. Width
                               /\ s.dout[s.bitcnt + 1] \in Bit
    BY BitOf DEF SlaveType
  <1>2. ASSUME NEW b \in Bit, NEW byte \in Byte
        PROVE  Shifted(byte, b) \in Byte
    BY <1>2, ShiftedIn, ClockTyped DEF Byte, Word
  <1>3. ASSUME NEW byte \in Byte
        PROVE  SubSeq(byte, 1, Width - 1) \in Cells
    <2>1. byte \in Seq(Bit) /\ Len(byte) = Width
      BY ClockTyped, WordSeq DEF Byte, Word
    <2>2. SubSeq(byte, 1, Width - 1) \in Seq(Bit) /\ Len(SubSeq(byte, 1, Width - 1)) = Width - 1
      BY <2>1, ClockTyped
    <2> DEFINE cell == SubSeq(byte, 1, Width - 1)
    <2>3. cell \in Seq(Bit) /\ Len(cell) = Width - 1 /\ Width - 1 \in Nat
      BY <2>2, ClockTyped
    <2> HIDE DEF cell
    <2>4. cell \in [1 .. Width - 1 -> Bit]
      BY <2>3, WordSeq
    <2> QED BY <2>4 DEF cell, Cells, Word
  <1> DEFINE Typed == /\ d.dout \in Byte /\ d.mem \in [Cells -> Byte]
                      /\ d.count1 \in 0 .. LastClock /\ DOMAIN d = SlaveFields
  <1>4. ASSUME Accesses(s, d)
        PROVE  Typed
    BY <1>1, <1>4 DEF SlaveType, Accesses
  <1> HIDE DEF Typed
  <1>5. CASE s.state = "idle"
    <2>1. FromIdle(s, d)
      BY <1>1, <1>5, SlaveIdles
    <2> QED BY <1>1, <1>b, <1>4, <1>5, <2>1
            DEF SlaveType, SlaveStates, FromIdle, SameFlags, SameData, SameLine, Typed
  <1>6. CASE s.state = "wait_p"
    <2>1. FromWait(s, d)
      BY <1>1, <1>6, SlaveWaits
    <2> QED BY <1>1, <1>b, <1>4, <1>6, <2>1
            DEF SlaveType, SlaveStates, FromWait, SameFlags, SameData, SameLine, Typed
  <1>7. CASE s.state = "read_addr"
    <2>1. FromAddress(s, d)
      BY <1>1, <1>7, SlaveReadsAddress
    <2> QED BY <1>1, <1>b, <1>2, <1>3, <1>4, <1>7, <2>1
            DEF SlaveType, SlaveStates, FromAddress, FromByte, SameFlags, Typed
  <1>8. CASE s.state = "send_ack1"
    <2>1. FromAck1(s, d)
      BY <1>1, <1>8, SlaveAcknowledgesAddress
    <2> QED BY <1>1, <1>b, <1>4, <1>8, <2>1
            DEF SlaveType, SlaveStates, FromAck1, FromAck, SameData, Typed
  <1>9. CASE s.state = "read_data"
    <2>1. FromRead(s, d)
      BY <1>1, <1>9, SlaveReadsData
    <2> QED BY <1>1, <1>b, <1>2, <1>4, <1>9, <2>1
            DEF SlaveType, SlaveStates, FromRead, FromByte, Typed
  <1>10. CASE s.state = "send_ack2"
    <2>1. FromAck2(s, d)
      BY <1>1, <1>10, SlaveAcknowledgesData
    <2> QED BY <1>1, <1>b, <1>4, <1>10, <2>1
            DEF SlaveType, SlaveStates, FromAck2, FromAck, SameData, Typed
  <1>11. CASE s.state = "send_data"
    <2>1. FromSend(s, d)
      BY <1>1, <1>11, SlaveSends
    <2> QED BY <1>1, <1>b, <1>4, <1>11, <2>1
            DEF SlaveType, SlaveStates, FromSend, FromByte, SameData, Typed
  <1>12. CASE s.state = "master_ack"
    <2>1. FromMasterAck(s, d)
      BY <1>1, <1>12, SlaveHearsMaster
    <2> QED BY <1>1, <1>b, <1>4, <1>12, <2>1
            DEF SlaveType, SlaveStates, FromMasterAck, SameData, Typed
  <1>13. CASE s.state = "detect_stop"
    <2>1. FromStop(s, d)
      BY <1>1, <1>13, SlaveStops
    <2> QED BY <1>1, <1>b, <1>4, <1>13, <2>1
            DEF SlaveType, SlaveStates, FromStop, SameFlags, SameData, SameLine, Typed
  <1> QED BY <1>5, <1>6, <1>7, <1>8, <1>9, <1>10, <1>11, <1>12, <1>13 DEF SlaveType, SlaveStates

\* How many bits of a byte have been taken where it is sampled.
TakenSoFar(n, bits) == IF n > 2 * Quarter THEN bits + 1 ELSE bits

Together(m, s, to, at) ==
  m.state = to /\ s.state = at /\ s.count1 = m.count1 /\ s.bitcnt = m.bitcount

I2cIdle(m, s) ==
  /\ m.state = "idle" /\ s.state = "idle" /\ m.count1 = 0 /\ m.bitcount = 0 /\ s.bitcnt = 0
  /\ m.sda_t = 1 /\ ~s.sda_en
I2cStarting(m, s) ==
  /\ m.state = "start" /\ m.bitcount = 0 /\ s.bitcnt = 0 /\ ~s.sda_en
  /\ IF m.count1 <= 2 * Quarter + 1
       THEN /\ s.state = "idle" /\ (m.count1 > 0 => m.sda_en /\ m.scl = 1)
            /\ m.sda_t = IF m.count1 <= 2 * Quarter THEN 1 ELSE 0
       ELSE s.state = "wait_p" /\ s.count1 = m.count1 /\ m.sda_en
I2cAddresses(m, s) ==
  /\ Together(m, s, "write_addr", "read_addr") /\ m.sda_en /\ ~s.sda_en
  /\ m.bitcount = Width => m.count1 = 0
  /\ m.count1 > Quarter => m.sda_t = m.data_addr[m.bitcount + 1]
  /\ Taken(s.r_addr, m.data_addr, TakenSoFar(m.count1, m.bitcount), Width)
I2cAcknowledges(m, s) ==
  /\ \/ Together(m, s, "ack_1", "send_ack1") /\ s.r_addr = m.data_addr
     \/ Together(m, s, "ack_2", "send_ack2")
  /\ m.bitcount = 0 /\ m.count1 > 0 /\ ~m.sda_en /\ s.sda_en
  /\ m.count1 > 1 => s.sda_t = 0
  /\ m.count1 > 2 * Quarter => m.r_ack = 0
I2cWrites(m, s) ==
  /\ Together(m, s, "write_data", "read_data") /\ m.sda_en
  /\ m.bitcount = Width => m.count1 = 0
  /\ s.sda_en => m.count1 = 0 /\ m.bitcount = 0 /\ m.sda_t = 0 /\ s.sda_t = 0
  /\ m.count1 > Quarter => m.sda_t = m.data_tx[m.bitcount + 1]
I2cReads(m, s) ==
  /\ Together(m, s, "read_data", "send_data") /\ ~m.sda_en /\ s.sda_en
  /\ m.bitcount = Width => m.count1 = 0
I2cEnds(m, s) ==
  /\ Together(m, s, "master_ack", "master_ack") \/ Together(m, s, "stop", "detect_stop")
  /\ m.bitcount = 0 /\ m.sda_en /\ ~s.sda_en
  /\ m.state = "stop" /\ m.count1 > 2 * Quarter => m.sda_t = 1

I2cBits(m, s) ==
  \/ I2cIdle(m, s) \/ I2cStarting(m, s) \/ I2cAddresses(m, s) \/ I2cAcknowledges(m, s)
  \/ I2cWrites(m, s) \/ I2cReads(m, s) \/ I2cEnds(m, s)

\* What the two ends see of each other and of themselves.
Facing(m, s) ==
  /\ MasterType(m) /\ SlaveType(s) /\ m.scl = chip.m.scl
  /\ m.sda_en /\ ~s.sda_en => sda = m.sda_t
  /\ ~m.sda_en /\ s.sda_en => sda = s.sda_t
  /\ ~m.sda_en /\ ~s.sda_en => sda = Z
  /\ m.sda_en /\ s.sda_en /\ s.sda_t = m.sda_t => sda = m.sda_t

LEMMA BothTick ==
  ASSUME NEW m, NEW s, Facing(m, s), s.state # "idle", NEW t, Accesses(s, t)
  PROVE  /\ t.count1 = Ticked(s.count1)
         /\ m.count1 \in 0 .. LastClock /\ s.count1 \in 0 .. LastClock
         /\ m.bitcount \in 0 .. Width /\ s.bitcnt \in 0 .. Width
  BY DEF Facing, MasterType, SlaveType, Accesses, Divides

LEMMA IdleTick ==
  ASSUME NEW m, NEW s, Facing(m, s), I2cIdle(m, s), NEW t, t = i2c_Slave(s),
         NEW n, n.bitcount = 0, n.count1 = 0, n.sda_t = 1
  PROVE  SlaveType(t) /\ (n.state = "idle" => I2cIdle(n, t))
         /\ (n.state = "start" => I2cStarting(n, t))
  <1>1. sda # 0
    BY Levels01 DEF Facing, MasterType, I2cIdle
  <1>2. FromIdle(s, t)
    BY SlaveIdles DEF I2cIdle, Facing, SlaveType, Responds
  <1>3. t.state = "idle" /\ t.bitcnt = 0 /\ ~t.sda_en
    BY <1>1, <1>2 DEF FromIdle, I2cIdle, SameLine
  <1>4. SlaveType(t)
    BY SlaveTyped DEF Facing, I2cIdle
  <1> QED BY <1>3, <1>4, ClockTyped DEF I2cIdle, I2cStarting

LEMMA StartTick ==
  ASSUME NEW m, NEW s, Facing(m, s), I2cStarting(m, s),
         NEW n, n = i2c_master(m), NEW t, t = i2c_Slave(s)
  PROVE  MasterType(n) /\ SlaveType(t) /\ (I2cStarting(n, t) \/ I2cAddresses(n, t))
  <1>0. /\ MasterType(n) /\ SlaveType(t) /\ Works(m) /\ m.count1 \in 0 .. LastClock
        /\ LastClock = 4 * Quarter - 1 /\ Quarter \in Nat /\ Quarter > 2
    <2>1. s.state \in {"idle", "wait_p"} /\ m.state = "start"
      BY DEF I2cStarting
    <2>2. m.busy /\ Works(m)
      BY <2>1 DEF Facing, MasterType, Works
    <2> QED BY <2>1, <2>2, MasterTyped, SlaveTyped, I2cAssumption
            DEF Facing, MasterType, LastClock
  <1>1. AfterStart(m, n)
    BY <1>0, MasterStarts DEF I2cStarting
  <1>2. CASE m.count1 <= 2 * Quarter + 1
    <2>1. FromIdle(s, t) /\ s.busy = FALSE
      BY <1>2, SlaveIdles DEF I2cStarting, Facing, SlaveType, Responds
    <2>2. n.count1 = m.count1 + 1 /\ n.state = "start" /\ n.sda_en = TRUE /\ n.scl = 1
          /\ n.bitcount = 0 /\ n.sda_t = IF n.count1 <= 2 * Quarter THEN 1 ELSE 0
      BY <1>0, <1>1, <1>2 DEF AfterStart, MasterKept, Ticked, I2cStarting
    <2>3. CASE m.count1 <= 2 * Quarter
      <3>1. sda # 0
        BY <1>2, <2>3, Levels01 DEF Facing, MasterType, I2cStarting
      <3>2. t.state = "idle" /\ t.bitcnt = 0 /\ ~t.sda_en
        BY <2>1, <3>1 DEF FromIdle, I2cStarting, SameLine
      <3> QED BY <1>0, <2>2, <2>3, <3>2 DEF I2cStarting
    <2>4. CASE m.count1 = 2 * Quarter + 1
      <3>1. m.scl = 1 /\ m.sda_en /\ m.sda_t = 0 /\ ~s.sda_en
        BY <1>0, <2>4 DEF I2cStarting
      <3>2. sda = 0 /\ chip.m.scl = 1
        BY <3>1 DEF Facing
      <3>3. t.state = "wait_p" /\ t.bitcnt = 0 /\ ~t.sda_en /\ t.count1 = 2 * Quarter + 2
        BY <2>1, <3>2 DEF FromIdle, I2cStarting, SameLine, Accesses, Divides
      <3> QED BY <1>0, <2>2, <2>4, <3>3 DEF I2cStarting
    <2> QED BY <1>0, <1>2, <2>3, <2>4
  <1>3. CASE ~(m.count1 <= 2 * Quarter + 1)
    <2>1. s.state = "wait_p" /\ s.count1 = m.count1 /\ s.bitcnt = 0 /\ ~s.sda_en
          /\ m.bitcount = 0
      BY <1>3 DEF I2cStarting
    <2>2. FromWait(s, t)
      BY <2>1, SlaveWaits DEF Facing, SlaveType, Responds
    <2>3. t.count1 = Ticked(m.count1) /\ t.bitcnt = 0 /\ ~t.sda_en
          /\ t.state = IF m.count1 = LastClock THEN "read_addr" ELSE "wait_p"
      BY <2>1, <2>2, BothTick DEF FromWait, SameLine
    <2>4. n.count1 = Ticked(m.count1) /\ n.bitcount = 0 /\ n.sda_en = TRUE
          /\ n.state = IF m.count1 = LastClock THEN "write_addr" ELSE "start"
      BY <1>1, <2>1 DEF AfterStart, MasterKept
    <2>5. CASE m.count1 = LastClock
      <3>1. n.count1 = 0 /\ t.count1 = 0
        BY <2>3, <2>4, <2>5 DEF Ticked
      <3>2. TakenSoFar(n.count1, n.bitcount) = 0
        BY <1>0, <2>4, <3>1 DEF TakenSoFar
      <3>3. Taken(t.r_addr, n.data_addr, TakenSoFar(n.count1, n.bitcount), Width)
        BY <3>2 DEF Taken
      <3> QED BY <1>0, <2>3, <2>4, <2>5, <3>1, <3>3, I2cAssumption DEF I2cAddresses, Together
    <2>6. CASE m.count1 # LastClock
      <3>1. n.count1 = m.count1 + 1 /\ t.count1 = m.count1 + 1
        BY <2>3, <2>4, <2>6 DEF Ticked
      <3> QED BY <1>0, <1>3, <2>3, <2>4, <2>6, <3>1 DEF I2cStarting
    <2> QED BY <2>5, <2>6
  <1> QED BY <1>2, <1>3

\* A bit is given up or held over by the end of its fourth pulse.
LEMMA NextClock ==
  ASSUME NEW c \in 0 .. LastClock
  PROVE  /\ c = LastClock => Ticked(c) = 0
         /\ c # LastClock => Ticked(c) = c + 1
         /\ LastClock = 4 * Quarter - 1 /\ Quarter \in Nat /\ Quarter > 2
         /\ Width \in Nat /\ Width > 1 /\ c \in Nat /\ LastClock > 2 * Quarter
  BY I2cAssumption DEF Ticked, LastClock

\* The register of a receiver at the clock at which it samples.
LEMMA TakesBit ==
  ASSUME NEW c \in 0 .. LastClock, NEW i \in 0 .. Width, i # Width,
         NEW word \in Byte, NEW register \in Byte,
         Taken(register, word, TakenSoFar(c, i), Width),
         c = 2 * Quarter => sda = word[i + 1],
         NEW taken, taken = IF c = 2 * Quarter THEN Shifted(register, sda) ELSE register,
         NEW j, j = IF c = LastClock THEN i + 1 ELSE i
  PROVE  taken \in Byte /\ Taken(taken, word, TakenSoFar(Ticked(c), j), Width)
  <1>1. CASE c = 2 * Quarter
    <2>1. TakenSoFar(c, i) = i /\ TakenSoFar(Ticked(c), j) = i + 1
      BY <1>1, NextClock DEF TakenSoFar
    <2>2. i \in 0 .. Width - 1 /\ word[i + 1] \in Bit /\ Width \in Nat \ {0}
      BY BitOf, NextClock
    <2>3. PICK b \in Bit : b = sda
      BY <1>1, <2>2
    <2>4. Shifted(register, b) \in Byte /\ Taken(Shifted(register, b), word, i + 1, Width)
      BY <1>1, <2>1, <2>2, <2>3, TakenOneMore DEF Byte, Word
    <2> QED BY <1>1, <2>1, <2>3, <2>4
  <1>2. CASE c # 2 * Quarter
    <2>1. TakenSoFar(Ticked(c), j) = TakenSoFar(c, i)
      BY <1>2, NextClock DEF TakenSoFar
    <2> QED BY <1>2, <2>1
  <1> QED BY <1>1, <1>2

LEMMA AddressTick ==
  ASSUME NEW m, NEW s, Facing(m, s), I2cAddresses(m, s),
         NEW n, n = i2c_master(m), NEW t, t = i2c_Slave(s)
  PROVE  MasterType(n) /\ SlaveType(t) /\ (I2cAddresses(n, t) \/ I2cAcknowledges(n, t))
  <1> DEFINE c == m.count1
             i == m.bitcount
  <1>0. /\ m.state = "write_addr" /\ s.state = "read_addr" /\ s.count1 = c /\ s.bitcnt = i
        /\ m.sda_en /\ ~s.sda_en /\ c \in 0 .. LastClock /\ i \in 0 .. Width
        /\ m.data_addr \in Byte /\ s.r_addr \in Byte /\ sda = m.sda_t /\ sda \in Bit
        /\ Works(m) /\ Responds(s)
    BY DEF Facing, MasterType, SlaveType, I2cAddresses, Together, Works, Responds
  <1>1. AfterAddress(m, n) /\ FromAddress(s, t)
    BY <1>0, MasterAddresses, SlaveReadsAddress
  <1>2. MasterType(n) /\ SlaveType(t)
    BY <1>0, MasterTyped, SlaveTyped DEF Facing, Works
  <1>3. n.count1 = Ticked(c) /\ t.count1 = Ticked(c) /\ n.data_addr = m.data_addr
    BY <1>0, <1>1, BothTick DEF AfterAddress, MasterKept, FromAddress
  <1>4. CASE i = Width
    <2>0. c = 0
      BY <1>4 DEF I2cAddresses
    <2>1. c = 0 /\ n.count1 = 1 /\ t.count1 = 1 /\ ~(1 > 2 * Quarter) /\ ~(c > 2 * Quarter)
      BY <1>0, <1>3, <2>0, NextClock
    <2>2. /\ n.state = "ack_1" /\ n.bitcount = 0 /\ ~n.sda_en
          /\ t.state = "send_ack1" /\ t.bitcnt = 0 /\ t.sda_en /\ t.r_addr = s.r_addr
      BY <1>0, <1>1, <1>4 DEF AfterAddress, AfterWord, FromAddress, FromByte
    <2>3. Taken(s.r_addr, m.data_addr, Width, Width)
      BY <1>4, <2>1 DEF I2cAddresses, TakenSoFar
    <2>4. s.r_addr = m.data_addr
      <3>1. Width \in Nat \ {0} /\ s.r_addr \in [1 .. Width -> Bit] /\ m.data_addr \in Word(Width)
        BY <1>0, NextClock DEF Byte, Word
      <3> QED BY <2>3, <3>1, TakenAll
    <2> QED BY <1>2, <1>3, <2>1, <2>2, <2>4 DEF I2cAcknowledges, Together
  <1>5. CASE i # Width
    <2>1. /\ n.state = "write_addr" /\ t.state = "read_addr" /\ n.sda_en /\ ~t.sda_en
          /\ n.bitcount = (IF c = LastClock THEN i + 1 ELSE i) /\ t.bitcnt = n.bitcount
          /\ n.sda_t = IF c < Quarter THEN 0
                       ELSE IF c < 2 * Quarter THEN m.data_addr[i + 1] ELSE m.sda_t
          /\ t.r_addr = IF c = 2 * Quarter THEN Shifted(s.r_addr, sda) ELSE s.r_addr
      BY <1>0, <1>1, <1>5 DEF AfterAddress, AfterWord, FromAddress, FromByte
    <2>2. c > Quarter => m.sda_t = m.data_addr[i + 1]
      BY DEF I2cAddresses
    <2>3. Taken(t.r_addr, n.data_addr, TakenSoFar(n.count1, n.bitcount), Width)
      <3>1. c = 2 * Quarter => sda = m.data_addr[i + 1]
        BY <1>0, <2>2, NextClock
      <3>2. Taken(s.r_addr, m.data_addr, TakenSoFar(c, i), Width)
        BY DEF I2cAddresses
      <3>3. PICK j : j = IF c = LastClock THEN i + 1 ELSE i
        OBVIOUS
      <3> HIDE DEF c, i
      <3>4. Taken(t.r_addr, m.data_addr, TakenSoFar(Ticked(c), j), Width)
        BY <1>0, <1>5, <2>1, <3>1, <3>2, <3>3, TakesBit
      <3> QED BY <1>3, <2>1, <3>3, <3>4
    <2>4. n.count1 > Quarter => n.sda_t = n.data_addr[n.bitcount + 1]
      BY <1>0, <1>3, <2>1, <2>2, NextClock
    <2>5. n.bitcount = Width => n.count1 = 0
      BY <1>0, <1>3, <1>5, <2>1, NextClock
    <2> QED BY <1>2, <1>3, <2>1, <2>3, <2>4, <2>5 DEF I2cAddresses, Together
  <1> QED BY <1>4, <1>5

LEMMA AckTick ==
  ASSUME NEW m, NEW s, Facing(m, s), I2cAcknowledges(m, s),
         NEW n, n = i2c_master(m), NEW t, t = i2c_Slave(s)
  PROVE  /\ MasterType(n) /\ SlaveType(t)
         /\ I2cAcknowledges(n, t) \/ I2cWrites(n, t) \/ I2cReads(n, t) \/ I2cEnds(n, t)
  <1> DEFINE c == m.count1
             first == m.state = "ack_1"
  <1>0. /\ s.count1 = c /\ s.bitcnt = 0 /\ m.bitcount = 0 /\ c > 0
        /\ IF first THEN s.state = "send_ack1" /\ s.r_addr = m.data_addr
                    ELSE m.state = "ack_2" /\ s.state = "send_ack2"
        /\ ~m.sda_en /\ s.sda_en /\ c \in 0 .. LastClock
        /\ m.data_addr \in Byte /\ sda = s.sda_t /\ Works(m) /\ Responds(s)
        /\ c > 1 => s.sda_t = 0
        /\ c > 2 * Quarter => m.r_ack = 0
    BY DEF Facing, MasterType, SlaveType, I2cAcknowledges, Together, Works, Responds
  <1>1. /\ AfterAck(m, n) /\ FromAck(s, t)
        /\ first => FromAck1(s, t)
        /\ ~first => FromAck2(s, t)
    <2>1. AfterAck(m, n)
      BY <1>0, MasterListens
    <2>2. first => FromAck1(s, t)
      BY <1>0, SlaveAcknowledgesAddress
    <2>3. ~first => FromAck2(s, t)
      BY <1>0, SlaveAcknowledgesData
    <2>4. FromAck(s, t)
      BY <2>2, <2>3 DEF FromAck1, FromAck2
    <2> QED BY <2>1, <2>2, <2>3, <2>4
  <1>2. MasterType(n) /\ SlaveType(t)
    BY <1>0, MasterTyped, SlaveTyped, NextClock DEF Facing, Works
  <1>3. /\ n.count1 = Ticked(c) /\ t.count1 = Ticked(c) /\ n.data_addr = m.data_addr
        /\ n.bitcount = 0 /\ t.bitcnt = 0 /\ t.r_addr = s.r_addr
    BY <1>0, <1>1, BothTick DEF AfterAck, MasterKept, FromAck, SameData
  <1>4. t.sda_t = 0
    BY <1>0, <1>1, NextClock DEF FromAck
  <1>5. CASE c # LastClock
    <2>1. n.count1 = c + 1 /\ n.state = m.state /\ ~n.sda_en /\ t.state = s.state /\ t.sda_en
      BY <1>0, <1>1, <1>3, <1>5, NextClock DEF AfterAck, FromAck1, FromAck2
    <2>2. n.count1 > 2 * Quarter => n.r_ack = 0
      BY <1>0, <1>1, <2>1, NextClock DEF AfterAck
    <2>3. n.count1 > 0 /\ n.count1 = t.count1
      BY <1>0, <1>3, <2>1, NextClock
    <2> QED BY <1>0, <1>2, <1>3, <1>4, <2>1, <2>2, <2>3 DEF I2cAcknowledges, Together
  <1>6. CASE c = LastClock
    <2>0. /\ n.count1 = 0 /\ t.count1 = 0 /\ m.r_ack = 0 /\ 0 # Width
          /\ ~(0 > Quarter) /\ ~(0 > 2 * Quarter)
      BY <1>0, <1>3, <1>6, NextClock
    <2>1. CASE ~first
      <3>1. n.state = "stop" /\ n.sda_en /\ t.state = "detect_stop" /\ ~t.sda_en
        BY <1>0, <1>1, <1>6, <2>0, <2>1 DEF AfterAck, FromAck2
      <3> QED BY <1>2, <1>3, <2>0, <3>1 DEF I2cEnds, Together
    <2>2. CASE first /\ m.data_addr[Width] = 0
      <3>1. m.state = "ack_1" /\ s.r_addr[Width] # 1
        BY <1>0, <2>2
      <3>2. n.state = "write_data" /\ n.sda_en /\ n.sda_t = 0
        BY <1>1, <1>6, <2>0, <2>2, <3>1 DEF AfterAck
      <3>3. t.state = "read_data" /\ t.sda_en
        BY <1>0, <1>1, <1>6, <2>2, <3>1 DEF FromAck1
      <3> QED BY <1>2, <1>3, <1>4, <2>0, <3>2, <3>3 DEF I2cWrites, Together
    <2>3. CASE first /\ m.data_addr[Width] # 0
      <3>1. m.data_addr[Width] = 1
        BY <1>0, <2>3, NextClock DEF Byte, Word, Bit
      <3>2. /\ n.state = "read_data" /\ ~n.sda_en /\ t.state = "send_data" /\ t.sda_en
        BY <1>0, <1>1, <1>6, <2>0, <2>3, <3>1 DEF AfterAck, FromAck1
      <3> QED BY <1>2, <1>3, <2>0, <3>2 DEF I2cReads, Together
    <2> QED BY <2>1, <2>2, <2>3
  <1> QED BY <1>5, <1>6

LEMMA WriteTick ==
  ASSUME NEW m, NEW s, Facing(m, s), I2cWrites(m, s),
         NEW n, n = i2c_master(m), NEW t, t = i2c_Slave(s)
  PROVE  MasterType(n) /\ SlaveType(t) /\ (I2cWrites(n, t) \/ I2cAcknowledges(n, t))
  <1> DEFINE c == m.count1
             i == m.bitcount
  <1>0. /\ m.state = "write_data" /\ s.state = "read_data" /\ s.count1 = c /\ s.bitcnt = i
        /\ m.sda_en /\ sda = m.sda_t /\ sda \in Bit
        /\ c \in 0 .. LastClock /\ i \in 0 .. Width /\ Works(m) /\ Responds(s)
    BY DEF Facing, MasterType, SlaveType, I2cWrites, Together, Works, Responds
  <1>1. AfterWrite(m, n) /\ FromRead(s, t)
    BY <1>0, MasterWrites, SlaveReadsData
  <1>2. MasterType(n) /\ SlaveType(t)
    BY <1>0, MasterTyped, SlaveTyped DEF Facing, Works
  <1>3. n.count1 = Ticked(c) /\ t.count1 = Ticked(c) /\ n.data_tx = m.data_tx
    BY <1>0, <1>1, BothTick DEF AfterWrite, MasterKept, FromRead
  <1>4. CASE i = Width
    <2>0. c = 0
      BY <1>4 DEF I2cWrites
    <2>1. c = 0 /\ n.count1 = 1 /\ t.count1 = 1 /\ ~(1 > 2 * Quarter) /\ ~(c > 2 * Quarter)
      BY <1>0, <1>3, <2>0, NextClock
    <2>2. /\ n.state = "ack_2" /\ n.bitcount = 0 /\ ~n.sda_en
          /\ t.state = "send_ack2" /\ t.bitcnt = 0 /\ t.sda_en
      <3>1. AfterWord(m, n, "ack_2") /\ n.sda_en = FALSE
        BY <1>1, <1>4 DEF AfterWrite
      <3>2. FromByte(s, t, "send_ack2") /\ t.sda_en = TRUE
        BY <1>0, <1>1, <1>4 DEF FromRead
      <3> QED BY <1>0, <1>4, <3>1, <3>2 DEF AfterWord, FromByte
    <2> QED BY <1>2, <1>3, <2>1, <2>2 DEF I2cAcknowledges, Together
  <1>5. CASE i # Width
    <2>1. /\ n.state = "write_data" /\ t.state = "read_data" /\ n.sda_en /\ ~t.sda_en
          /\ n.bitcount = (IF c = LastClock THEN i + 1 ELSE i) /\ t.bitcnt = n.bitcount
          /\ n.sda_t = IF c < 2 * Quarter /\ ~(c < Quarter) THEN m.data_tx[i + 1] ELSE m.sda_t
      <3>1. /\ AfterWord(m, n, "ack_2")
            /\ IF c < 2 * Quarter /\ ~(c < Quarter)
                 THEN n.sda_en = TRUE /\ n.sda_t = m.data_tx[i + 1]
                 ELSE n.sda_en = m.sda_en /\ n.sda_t = m.sda_t
        BY <1>1, <1>5 DEF AfterWrite
      <3>2. FromByte(s, t, "send_ack2") /\ t.sda_en = (i = Width)
        BY <1>0, <1>1 DEF FromRead
      <3> QED BY <1>0, <1>5, <3>1, <3>2 DEF AfterWord, FromByte
    <2>2. c > Quarter => m.sda_t = m.data_tx[i + 1]
      BY DEF I2cWrites
    <2>3. n.count1 > Quarter => n.sda_t = n.data_tx[n.bitcount + 1]
      BY <1>0, <1>3, <2>1, <2>2, NextClock
    <2>4. n.bitcount = Width => n.count1 = 0
      BY <1>0, <1>3, <1>5, <2>1, NextClock
    <2> QED BY <1>2, <1>3, <2>1, <2>3, <2>4 DEF I2cWrites, Together
  <1> QED BY <1>4, <1>5

LEMMA ReadTick ==
  ASSUME NEW m, NEW s, Facing(m, s), I2cReads(m, s),
         NEW n, n = i2c_master(m), NEW t, t = i2c_Slave(s)
  PROVE  MasterType(n) /\ SlaveType(t) /\ (I2cReads(n, t) \/ I2cEnds(n, t))
  <1> DEFINE c == m.count1
             i == m.bitcount
  <1>0. /\ m.state = "read_data" /\ s.state = "send_data" /\ s.count1 = c /\ s.bitcnt = i
        /\ c \in 0 .. LastClock /\ i \in 0 .. Width /\ Works(m) /\ Responds(s)
    BY DEF Facing, MasterType, SlaveType, I2cReads, Together, Works, Responds
  <1>1. AfterRead(m, n) /\ FromSend(s, t)
    BY <1>0, MasterReads, SlaveSends
  <1>2. MasterType(n) /\ SlaveType(t)
    BY <1>0, MasterTyped, SlaveTyped DEF Facing, Works
  <1>3. n.count1 = Ticked(c) /\ t.count1 = Ticked(c)
    BY <1>0, <1>1, BothTick DEF AfterRead, MasterKept, FromSend
  <1>4. CASE i = Width
    <2>1. /\ n.state = "master_ack" /\ n.bitcount = 0 /\ n.sda_en
          /\ t.state = "master_ack" /\ t.bitcnt = 0 /\ ~t.sda_en
      BY <1>0, <1>1, <1>4 DEF AfterRead, AfterWord, FromSend, FromByte
    <2> QED BY <1>2, <1>3, <2>1 DEF I2cEnds, Together
  <1>5. CASE i # Width
    <2>1. /\ n.state = "read_data" /\ t.state = "send_data" /\ ~n.sda_en /\ t.sda_en
          /\ n.bitcount = (IF c = LastClock THEN i + 1 ELSE i) /\ t.bitcnt = n.bitcount
      BY <1>0, <1>1, <1>5 DEF AfterRead, AfterWord, FromSend, FromByte
    <2>2. n.bitcount = Width => n.count1 = 0
      BY <1>0, <1>3, <1>5, <2>1, NextClock
    <2> QED BY <1>2, <1>3, <2>1, <2>2 DEF I2cReads, Together
  <1> QED BY <1>4, <1>5

LEMMA EndTick ==
  ASSUME NEW m, NEW s, Facing(m, s), I2cEnds(m, s),
         NEW n, n = i2c_master(m), NEW t, t = i2c_Slave(s)
  PROVE  MasterType(n) /\ SlaveType(t) /\ (I2cEnds(n, t) \/ I2cIdle(n, t))
  <1> DEFINE c == m.count1
  <1>0. /\ s.count1 = c /\ s.bitcnt = 0 /\ m.bitcount = 0 /\ m.sda_en /\ ~s.sda_en
        /\ c \in 0 .. LastClock /\ Works(m) /\ Responds(s)
        /\ \/ m.state = "master_ack" /\ s.state = "master_ack"
           \/ m.state = "stop" /\ s.state = "detect_stop"
    BY DEF Facing, MasterType, SlaveType, I2cEnds, Together, Works, Responds
  <1>1. MasterType(n) /\ SlaveType(t)
    BY <1>0, MasterTyped, SlaveTyped DEF Facing, Works
  <1>2. CASE m.state = "master_ack"
    <2>1. AfterMasterAck(m, n) /\ FromMasterAck(s, t)
      BY <1>0, <1>2, MasterAcknowledges, SlaveHearsMaster
    <2>2. n.count1 = Ticked(c) /\ t.count1 = Ticked(c)
      BY <1>0, <2>1, BothTick DEF AfterMasterAck, MasterKept, FromMasterAck
    <2>3. /\ n.bitcount = 0 /\ n.sda_en /\ t.bitcnt = 0 /\ ~t.sda_en
          /\ IF c = LastClock THEN n.state = "stop" /\ t.state = "detect_stop"
             ELSE n.state = "master_ack" /\ t.state = "master_ack"
      BY <1>0, <2>1 DEF AfterMasterAck, FromMasterAck
    <2>4. n.state = "stop" => ~(n.count1 > 2 * Quarter)
      BY <1>0, <2>2, <2>3, NextClock
    <2> QED BY <1>1, <2>2, <2>3, <2>4 DEF I2cEnds, Together
  <1>3. CASE m.state = "stop"
    <2>1. AfterStop(m, n) /\ FromStop(s, t)
      BY <1>0, <1>3, MasterStops, SlaveStops
    <2>2. n.count1 = Ticked(c) /\ t.count1 = Ticked(c)
      BY <1>0, <2>1, BothTick DEF AfterStop, MasterKept, FromStop
    <2>3. /\ n.bitcount = 0 /\ n.sda_en /\ t.bitcnt = 0 /\ ~t.sda_en
          /\ n.sda_t = (IF c < 2 * Quarter THEN 0 ELSE 1)
          /\ IF c = LastClock THEN n.state = "idle" /\ t.state = "idle"
             ELSE n.state = "stop" /\ t.state = "detect_stop"
      BY <1>0, <2>1 DEF AfterStop, FromStop, SameLine
    <2>4. CASE c = LastClock
      BY <1>0, <1>1, <2>2, <2>3, <2>4, NextClock DEF I2cIdle
    <2>5. CASE c # LastClock
      <3>1. n.count1 > 2 * Quarter => n.sda_t = 1
        BY <1>0, <2>2, <2>3, <2>5, NextClock
      <3> QED BY <1>1, <2>2, <2>3, <2>5, <3>1 DEF I2cEnds, Together
    <2> QED BY <2>4, <2>5
  <1> QED BY <1>0, <1>2, <1>3

I2cInv ==
  /\ MasterType(chip.m) /\ SlaveType(chip.s) /\ I2cBits(chip.m, chip.s)

LEMMA I2cFacing ==
  ASSUME I2cInv
  PROVE  Facing(chip.m, chip.s)
  <1>1. /\ chip.m.sda_t \in Bit /\ chip.s.sda_t \in Bit
    BY DEF I2cInv, MasterType, SlaveType
  <1> QED BY <1>1, LineLevel DEF I2cInv, Facing

\* A reset, of the simulation or in it.
LEMMA I2cReset ==
  ASSUME NEW c, c.sda_en \in BOOLEAN, NEW e, e.w_mem \in BOOLEAN,
         NEW m, m = MasterReset(c), NEW s, s = SlaveReset(e)
  PROVE  MasterType(m) /\ SlaveType(s) /\ I2cBits(m, s)
  <1>0. 0 \in 0 .. LastClock /\ 0 \in 0 .. Width /\ 0 \in Bit /\ 1 \in Bit
    BY ClockTyped DEF Bit
  <1>1. Zeros(Width) \in Byte /\ Zeros(Width - 1) \in Cells
    BY ZerosWord, ClockTyped DEF Byte, Cells
  <1>2. [a \in Cells |-> <<0>> \o a] \in [Cells -> Byte]
    <2> SUFFICES ASSUME NEW a \in Cells PROVE <<0>> \o a \in Byte
      OBVIOUS
    <2>1. a \in Seq(Bit) /\ Len(a) = Width - 1 /\ Width - 1 \in Nat
      BY WordSeq, ClockTyped DEF Cells, Word
    <2>2. <<0>> \in Seq(Bit) /\ Len(<<0>>) = 1
      BY <1>0
    <2> DEFINE byte == <<0>> \o a
    <2>3. byte \in Seq(Bit) /\ Len(byte) = Width
      BY <2>1, <2>2, ClockTyped
    <2> HIDE DEF byte
    <2>4. byte \in [1 .. Width -> Bit]
      BY <2>3, WordSeq, ClockTyped
    <2> QED BY <2>4 DEF byte, Byte, Word
  <1>3. MasterType(m)
    BY <1>0, <1>1 DEF MasterReset, MasterType, MasterFields, MasterStates
  <1>4. SlaveType(s)
    BY <1>0, <1>1, <1>2 DEF SlaveReset, SlaveType, SlaveFields, SlaveStates
  <1>5. I2cIdle(m, s)
    BY DEF MasterReset, SlaveReset, I2cIdle
  <1> QED BY <1>3, <1>4, <1>5 DEF I2cBits

LEMMA I2cStarts == I2cInit => I2cInv
  <1> SUFFICES ASSUME I2cInit PROVE I2cInv
    OBVIOUS
  <1> DEFINE c == [sda_en |-> FALSE, r_ack |-> 0, rx_data |-> Zeros(Width)]
             e == [w_mem |-> FALSE, r_ack |-> X]
  <1>1. chip.m = MasterReset(c) /\ chip.s = SlaveReset(e)
    BY DEF I2cInit, Powered
  <1>2. c.sda_en \in BOOLEAN /\ e.w_mem \in BOOLEAN
    OBVIOUS
  <1> HIDE DEF c, e
  <1> QED BY <1>1, <1>2, I2cReset DEF I2cInv

\* An edge of the clock.
LEMMA I2cTicks ==
  ASSUME NEW m, NEW s, Facing(m, s), I2cBits(m, s),
         NEW n, n = i2c_master(m), NEW t, t = i2c_Slave(s)
  PROVE  MasterType(n) /\ SlaveType(t) /\ I2cBits(n, t)
  <1>1. CASE I2cIdle(m, s)
    <2>1. Waited(m, n) /\ n.state = "idle" /\ n.busy = FALSE
          /\ n.data_addr = Zeros(Width) /\ n.data_tx = Zeros(Width)
      BY <1>1, MasterWaits DEF I2cIdle, Facing, MasterType
    <2>2. MasterType(n) /\ n.bitcount = 0 /\ n.count1 = 0 /\ n.sda_t = 1
      <3>1. Zeros(Width) \in Byte
        BY ZerosWord, ClockTyped DEF Byte
      <3> QED BY <1>1, <2>1, <3>1 DEF Waited, I2cIdle, Facing, MasterType
    <2>3. SlaveType(t) /\ I2cIdle(n, t)
      BY <1>1, <2>1, <2>2, IdleTick
    <2> QED BY <2>2, <2>3 DEF I2cBits
  <1>2. CASE I2cStarting(m, s)
    BY <1>2, StartTick DEF I2cBits
  <1>3. CASE I2cAddresses(m, s)
    BY <1>3, AddressTick DEF I2cBits
  <1>4. CASE I2cAcknowledges(m, s)
    BY <1>4, AckTick DEF I2cBits
  <1>5. CASE I2cWrites(m, s)
    BY <1>5, WriteTick DEF I2cBits
  <1>6. CASE I2cReads(m, s)
    BY <1>6, ReadTick DEF I2cBits
  <1>7. CASE I2cEnds(m, s)
    BY <1>7, EndTick DEF I2cBits
  <1> QED BY <1>1, <1>2, <1>3, <1>4, <1>5, <1>6, <1>7 DEF I2cBits

\* An edge at which a request comes in.
LEMMA I2cTakes ==
  ASSUME NEW m, NEW s, Facing(m, s), I2cBits(m, s), m.state = "idle", NEW r \in Requests,
         NEW n, n = Asked(m, r), NEW t, t = i2c_Slave(s)
  PROVE  MasterType(n) /\ SlaveType(t) /\ I2cStarting(n, t)
  <1>1. I2cIdle(m, s)
    BY DEF I2cBits, I2cStarting, I2cAddresses, I2cAcknowledges, I2cWrites, I2cReads, I2cEnds,
           Together
  <1>2. /\ Waited(m, n) /\ n.state = "start" /\ n.busy = TRUE /\ n.data_tx = r.din
        /\ n.data_addr = Append(r.addr, IF r.op = "read" THEN 1 ELSE 0)
    BY MasterAsked DEF Facing, MasterType
  <1>3. r.addr \in Cells /\ r.din \in Byte
    BY I2cAssumption DEF Cells, Byte
  <1>4. n.data_addr \in Byte
    <2>1. PICK b \in Bit : b = IF r.op = "read" THEN 1 ELSE 0
      BY DEF Bit
    <2>2. r.addr \in Seq(Bit) /\ Len(r.addr) = Width - 1
      BY <1>3, WordSeq, ClockTyped DEF Cells, Word
    <2> DEFINE byte == Append(r.addr, b)
    <2>3. byte \in Seq(Bit) /\ Len(byte) = Width
      BY <2>2, ClockTyped
    <2> HIDE DEF byte
    <2>4. byte \in Byte
      BY <2>3, WordSeq, ClockTyped DEF Byte, Word
    <2> QED BY <1>2, <2>1, <2>4 DEF byte
  <1>5. MasterType(n) /\ n.bitcount = 0 /\ n.count1 = 0 /\ n.sda_t = 1
    BY <1>1, <1>2, <1>3, <1>4 DEF Waited, I2cIdle, Facing, MasterType, MasterStates
  <1> QED BY <1>1, <1>2, <1>5, IdleTick

LEMMA I2cKeeps ==
  ASSUME I2cInv, I2cStep
  PROVE  I2cInv' /\ device' = device
  <1>0. Facing(chip.m, chip.s) /\ I2cBits(chip.m, chip.s)
    BY I2cFacing DEF I2cInv
  <1>1. ASSUME NEW m, NEW notes, Serves(m, notes)
        PROVE  chip'.m = m /\ chip'.s = i2c_Slave(chip.s) /\ device' = device
    BY <1>1 DEF Serves, Edge
  <1>2. ASSUME I2cClock
        PROVE  I2cInv' /\ device' = device
    <2>1. chip'.m = i2c_master(chip.m) /\ chip'.s = i2c_Slave(chip.s) /\ device' = device
      BY <1>1, <1>2 DEF I2cClock
    <2> QED BY <1>0, <2>1, I2cTicks DEF I2cInv
  <1>3. ASSUME NEW r \in Requests, NEW notes, chip.m.state = "idle", Serves(Asked(chip.m, r), notes)
        PROVE  I2cInv' /\ device' = device
    <2>1. chip'.m = Asked(chip.m, r) /\ chip'.s = i2c_Slave(chip.s) /\ device' = device
      BY <1>1, <1>3
    <2> QED BY <1>0, <1>3, <2>1, I2cTakes DEF I2cInv, I2cBits
  <1>4. ASSUME Edge([m |-> MasterReset(chip.m), s |-> SlaveReset(chip.s)], Again)
        PROVE  I2cInv' /\ device' = device
    <2>1. chip'.m = MasterReset(chip.m) /\ chip'.s = SlaveReset(chip.s) /\ device' = device
      BY <1>4 DEF Edge
    <2>2. chip.m.sda_en \in BOOLEAN /\ chip.s.w_mem \in BOOLEAN
      BY DEF I2cInv, MasterType, SlaveType
    <2> QED BY <2>1, <2>2, I2cReset DEF I2cInv
  <1> QED BY <1>2, <1>3, <1>4 DEF I2cStep

LEMMA I2cInStep == I2cInv => InStep
  <1> SUFFICES ASSUME I2cInv
               PROVE  /\ chip.s.state \in Counterpart[chip.m.state]
                      /\ chip.s.busy /\ chip.s.state # "idle" => chip.s.count1 = chip.m.count1
                      /\ sda # X
    BY DEF InStep
  <1> DEFINE m == chip.m
             s == chip.s
  <1>0. Facing(m, s) /\ I2cBits(m, s) /\ X # 0 /\ X # 1 /\ X # Z
    BY I2cFacing, Levels01 DEF I2cInv
  <1>1. sda # X
    <2>1. m.sda_en /\ s.sda_en => s.sda_t = m.sda_t
      BY <1>0 DEF I2cBits, I2cIdle, I2cStarting, I2cAddresses, I2cAcknowledges, I2cWrites,
                  I2cReads, I2cEnds
    <2> QED BY <1>0, <2>1 DEF Facing, MasterType, SlaveType, Bit
  <1>2. s.state # "idle" => s.count1 = m.count1
    BY <1>0 DEF I2cBits, I2cIdle, I2cStarting, I2cAddresses, I2cAcknowledges, I2cWrites,
                I2cReads, I2cEnds, Together
  <1>3. s.state \in Counterpart[m.state]
    <2>1. /\ Counterpart["idle"] = {"idle"} /\ Counterpart["start"] = {"idle", "wait_p"}
          /\ Counterpart["write_addr"] = {"read_addr"} /\ Counterpart["ack_1"] = {"send_ack1"}
          /\ Counterpart["write_data"] = {"read_data"} /\ Counterpart["ack_2"] = {"send_ack2"}
          /\ Counterpart["read_data"] = {"send_data"}
          /\ Counterpart["master_ack"] = {"master_ack"} /\ Counterpart["stop"] = {"detect_stop"}
      BY DEF Counterpart
    <2> QED BY <1>0, <2>1 DEF I2cBits, I2cIdle, I2cStarting, I2cAddresses, I2cAcknowledges,
                              I2cWrites, I2cReads, I2cEnds, Together
  <1> QED BY <1>1, <1>2, <1>3

-----------------------------------------------------------------------------
(* The cells behind the I2C bus, unless a reset has left w_mem high: what  *)
(* the transfer under way has done to them in each of its states.          *)

I2cNotes == {"request", "golden", "requests", "resets", "spoilt", "lost"}

Unused(s) == s.w_mem = FALSE /\ s.r_mem = FALSE
Asks(m, b) ==
  /\ b.request \in Requests /\ m.data_tx = b.request.din /\ m.done = FALSE
  /\ m.data_addr = Append(b.request.addr, IF b.request.op = "read" THEN 1 ELSE 0)
  /\ b.request.op = "write" => b.golden[b.request.addr] = b.request.din

\* The memory before and after what is asked for has been stored.
Unstored(s, b) ==
  b.golden = IF b.request.op = "write"
               THEN [s.mem EXCEPT ![b.request.addr] = b.request.din] ELSE s.mem
Received(m, b) == b.request.op = "read" => m.rx_data = b.golden[b.request.addr]

AtRest(m, s, b) == Unused(s) /\ b.golden = s.mem /\ (m.done => Received(m, b))
InAddress(m, s, b) == Asks(m, b) /\ Unused(s) /\ Unstored(s, b)
InAck1(m, s, b) == InAddress(m, s, b) /\ s.addr = b.request.addr
InWrite(m, s, b) ==
  /\ InAck1(m, s, b) /\ b.request.op = "write"
  /\ Taken(s.din, m.data_tx, TakenSoFar(m.count1, m.bitcount), Width)
InAck2(m, s, b) ==
  /\ Asks(m, b) /\ s.r_mem = FALSE /\ (s.w_mem <=> m.count1 <= Quarter)
  /\ IF m.count1 = 1 THEN Unstored(s, b) ELSE b.golden = s.mem
  /\ s.addr = b.request.addr /\ b.request.op = "write" /\ s.din = m.data_tx
InRead(m, s, b) ==
  /\ Asks(m, b) /\ s.w_mem = FALSE /\ (s.r_mem <=> m.count1 = 0 /\ m.bitcount = 0)
  /\ b.golden = s.mem /\ s.addr = b.request.addr /\ b.request.op = "read"
  /\ m.count1 > 0 \/ m.bitcount > 0 => s.dout = b.golden[b.request.addr]
  /\ m.count1 > Quarter => s.sda_t = s.dout[m.bitcount + 1]
  /\ Taken(m.rx_data, b.golden[b.request.addr], TakenSoFar(m.count1, m.bitcount), Width)
InEnd(m, s, b) == Asks(m, b) /\ Unused(s) /\ b.golden = s.mem /\ Received(m, b)
InMasterAck(m, s, b) ==
  /\ InEnd(m, s, b)
  /\ m.count1 > 1 => m.sda_t = 1
  /\ m.count1 > 2 * Quarter => s.r_ack = 1

Unrefused(m, s) == m.ack_err = FALSE /\ s.ack_err = FALSE /\ m.rx_data \in Byte
CellsHeld(m, s, b) ==
  /\ Unrefused(m, s)
  /\ m.state = "idle" => AtRest(m, s, b)
  /\ m.state \in {"start", "write_addr"} => InAddress(m, s, b)
  /\ m.state = "ack_1" => InAck1(m, s, b)
  /\ m.state = "write_data" => InWrite(m, s, b)
  /\ m.state = "ack_2" => InAck2(m, s, b)
  /\ m.state = "read_data" => InRead(m, s, b)
  /\ m.state = "master_ack" => InMasterAck(m, s, b)
  /\ m.state = "stop" => InEnd(m, s, b)

\* What a request puts on the bus.
LEMMA AskedFor ==
  ASSUME NEW m, NEW b, Asks(m, b)
  PROVE  /\ SubSeq(m.data_addr, 1, Width - 1) = b.request.addr /\ b.request.addr \in Cells
         /\ m.data_addr[Width] = IF b.request.op = "read" THEN 1 ELSE 0
         /\ b.request.op \in {"read", "write"} /\ m.data_tx = b.request.din
         /\ b.request.op = "write" => b.golden[b.request.addr] = b.request.din
  <1>1. PICK a : a = b.request.addr
    OBVIOUS
  <1>2. PICK d \in Bit : d = IF b.request.op = "read" THEN 1 ELSE 0
    BY DEF Bit
  <1>3. a \in Word(Width - 1) /\ b.request.op \in {"read", "write"}
    BY <1>1, I2cAssumption DEF Asks
  <1>4. Width - 1 \in Nat /\ Width \in Nat
    BY ClockTyped
  <1>5. PICK n : n = Width - 1
    OBVIOUS
  <1>6. a \in Seq(Bit) /\ Len(a) = n
    BY <1>3, <1>4, <1>5, WordSeq DEF Word
  <1>7. m.data_addr = Append(a, d)
    BY <1>1, <1>2 DEF Asks
  <1>8. SubSeq(Append(a, d), 1, n) = a /\ Append(a, d)[n + 1] = d
    BY <1>4, <1>5, <1>6
  <1>9. n + 1 = Width
    BY <1>4, <1>5
  <1> QED BY <1>1, <1>2, <1>3, <1>5, <1>7, <1>8, <1>9 DEF Cells, Asks

LEMMA SameMemory ==
  ASSUME NEW s, NEW t, Accesses(s, t), Unused(s)
  PROVE  t.mem = s.mem /\ t.dout = s.dout
  BY DEF Accesses, Unused

LEMMA SameRequest ==
  ASSUME NEW m, NEW n, NEW b, Asks(m, b), MasterKept(m, n), n.done = m.done
  PROVE  Asks(n, b) /\ n.data_addr = m.data_addr /\ n.data_tx = m.data_tx
  BY DEF Asks, MasterKept

LEMMA SameCells ==
  ASSUME NEW s, NEW t, NEW b, t.mem = s.mem
  PROVE  Unstored(s, b) => Unstored(t, b)
  BY DEF Unstored

LEMMA CellsStart ==
  ASSUME NEW m, NEW s, NEW b, Facing(m, s), I2cStarting(m, s), CellsHeld(m, s, b),
         NEW n, n = i2c_master(m), NEW t, t = i2c_Slave(s)
  PROVE  CellsHeld(n, t, b)
  <1>0. m.state = "start" /\ InAddress(m, s, b) /\ Unrefused(m, s) /\ Works(m) /\ Responds(s)
    BY DEF I2cStarting, CellsHeld, Facing, MasterType, SlaveType, Works, Responds
  <1>1. AfterStart(m, n)
    BY <1>0, MasterStarts
  <1>2. Accesses(s, t) /\ SameFlags(s, t)
    <2>1. s.state \in {"idle", "wait_p"}
      BY DEF I2cStarting
    <2>2. s.state = "idle" => FromIdle(s, t)
      BY <1>0, SlaveIdles
    <2>3. s.state = "wait_p" => FromWait(s, t)
      BY <1>0, SlaveWaits
    <2> QED BY <2>1, <2>2, <2>3 DEF FromIdle, FromWait
  <1>3. t.mem = s.mem /\ Unused(t) /\ Unrefused(n, t)
    BY <1>0, <1>1, <1>2, SameMemory
       DEF InAddress, Unused, SameFlags, Unrefused, AfterStart, KeptFlags
  <1>4. Asks(n, b)
    BY <1>0, <1>1, SameRequest DEF AfterStart, KeptFlags, InAddress
  <1>5. InAddress(n, t, b) /\ n.state \in {"start", "write_addr"}
    BY <1>0, <1>1, <1>3, <1>4, SameCells DEF InAddress, AfterStart
  <1> QED BY <1>3, <1>5 DEF CellsHeld

LEMMA CellsAddress ==
  ASSUME NEW m, NEW s, NEW b, Facing(m, s), I2cAddresses(m, s), CellsHeld(m, s, b),
         NEW n, n = i2c_master(m), NEW t, t = i2c_Slave(s)
  PROVE  CellsHeld(n, t, b)
  <1>0. /\ m.state = "write_addr" /\ InAddress(m, s, b) /\ Unrefused(m, s)
        /\ s.state = "read_addr" /\ s.bitcnt = m.bitcount /\ m.bitcount \in 0 .. Width
        /\ s.r_addr \in Byte /\ m.data_addr \in Byte /\ Works(m) /\ Responds(s)
    BY DEF I2cAddresses, Together, CellsHeld, Facing, MasterType, SlaveType, Works, Responds
  <1>1. AfterAddress(m, n) /\ FromAddress(s, t)
    BY <1>0, MasterAddresses, SlaveReadsAddress
  <1>2. t.mem = s.mem /\ Unused(t) /\ Unrefused(n, t)
    BY <1>0, <1>1, SameMemory
       DEF InAddress, Unused, FromAddress, SameFlags, Unrefused, AfterAddress, KeptFlags
  <1>3. Asks(n, b)
    BY <1>0, <1>1, SameRequest DEF AfterAddress, KeptFlags, InAddress
  <1>4. InAddress(n, t, b)
    BY <1>0, <1>2, <1>3, SameCells DEF InAddress
  <1>5. CASE m.bitcount # Width
    BY <1>1, <1>2, <1>4, <1>0, <1>5 DEF CellsHeld, AfterAddress, AfterWord
  <1>6. CASE m.bitcount = Width
    <2>1. n.state = "ack_1" /\ t.addr = SubSeq(s.r_addr, 1, Width - 1)
      BY <1>0, <1>1, <1>6 DEF AfterAddress, AfterWord, FromAddress
    <2>2. s.r_addr = m.data_addr
      <3>1. Taken(s.r_addr, m.data_addr, Width, Width)
        BY <1>6, NextClock, ClockTyped DEF I2cAddresses, TakenSoFar
      <3>2. Width \in Nat \ {0} /\ s.r_addr \in [1 .. Width -> Bit] /\ m.data_addr \in Word(Width)
        BY <1>0, ClockTyped DEF Byte, Word
      <3> QED BY <3>1, <3>2, TakenAll
    <2>3. t.addr = b.request.addr
      BY <1>0, <2>1, <2>2, AskedFor DEF InAddress
    <2> QED BY <1>2, <1>4, <2>1, <2>3 DEF CellsHeld, InAck1
  <1> QED BY <1>5, <1>6

LEMMA CellsFirstAck ==
  ASSUME NEW m, NEW s, NEW b, Facing(m, s), I2cAcknowledges(m, s), CellsHeld(m, s, b),
         m.state = "ack_1", NEW n, n = i2c_master(m), NEW t, t = i2c_Slave(s)
  PROVE  CellsHeld(n, t, b)
  <1> DEFINE c == m.count1
  <1>0. /\ InAck1(m, s, b) /\ Unrefused(m, s) /\ s.state = "send_ack1" /\ s.count1 = c
        /\ s.r_addr = m.data_addr /\ m.bitcount = 0 /\ c \in 0 .. LastClock
        /\ (c > 2 * Quarter => m.r_ack = 0) /\ Works(m) /\ Responds(s)
    BY DEF I2cAcknowledges, Together, CellsHeld, Facing, MasterType, SlaveType, Works, Responds
  <1>1. AfterAck(m, n) /\ FromAck1(s, t) /\ FromAck(s, t)
    BY <1>0, MasterListens, SlaveAcknowledgesAddress DEF FromAck1
  <1>2. t.mem = s.mem /\ t.addr = s.addr /\ t.w_mem = FALSE /\ Unused(s)
    BY <1>0, <1>1, SameMemory DEF InAck1, InAddress, FromAck1, FromAck, SameData, Unused
  <1>3. Asks(m, b) /\ Asks(n, b) /\ n.bitcount = 0 /\ n.count1 = Ticked(c)
    BY <1>0, <1>1, SameRequest DEF AfterAck, InAck1, InAddress, MasterKept
  <1>4. CASE c # LastClock
    <2>1. n.state = "ack_1" /\ Unrefused(n, t)
      BY <1>0, <1>1, <1>4 DEF AfterAck, FromAck, Unrefused
    <2>2. t.r_mem = FALSE
      BY <1>0, <1>1, <1>2, <1>4 DEF FromAck1, Unused
    <2>3. InAck1(n, t, b)
      BY <1>0, <1>2, <1>3, <2>2, SameCells DEF InAck1, InAddress, Unused
    <2> QED BY <2>1, <2>3 DEF CellsHeld
  <1>5. CASE c = LastClock
    <2>0. m.r_ack = 0 /\ n.count1 = 0
      BY <1>0, <1>3, <1>5, NextClock
    <2>1. Unrefused(n, t)
      BY <1>0, <1>1, <1>5, <2>0 DEF AfterAck, FromAck, Unrefused
    <2>2. TakenSoFar(n.count1, n.bitcount) = 0 /\ ~(0 > Quarter)
      BY <1>3, <2>0, ClockTyped DEF TakenSoFar
    <2>3. CASE b.request.op = "write"
      <3>1. m.data_addr[Width] = 0
        BY <1>3, <2>3, AskedFor
      <3>2. n.state = "write_data" /\ t.r_mem = FALSE
        BY <1>0, <1>1, <1>5, <2>0, <3>1 DEF AfterAck, FromAck1
      <3>3. InAck1(n, t, b)
        BY <1>0, <1>2, <1>3, <3>2, SameCells DEF InAck1, InAddress, Unused
      <3>4. InWrite(n, t, b)
        BY <2>2, <2>3, <3>3 DEF InWrite, Taken
      <3> QED BY <2>1, <3>2, <3>4 DEF CellsHeld
    <2>4. CASE b.request.op = "read"
      <3>1. m.data_addr[Width] = 1
        BY <1>3, <2>4, AskedFor
      <3>2. n.state = "read_data" /\ t.r_mem = TRUE
        BY <1>0, <1>1, <1>5, <2>0, <3>1 DEF AfterAck, FromAck1
      <3>3. b.golden = t.mem /\ t.addr = b.request.addr
        BY <1>0, <1>2, <2>4 DEF InAck1, InAddress, Unstored
      <3>4. Taken(n.rx_data, b.golden[b.request.addr], TakenSoFar(n.count1, n.bitcount), Width)
        BY <2>2 DEF Taken
      <3>5. InRead(n, t, b)
        BY <1>2, <1>3, <2>0, <2>2, <2>4, <3>2, <3>3, <3>4 DEF InRead
      <3> QED BY <2>1, <3>2, <3>5 DEF CellsHeld
    <2> QED BY <1>3, <2>3, <2>4, AskedFor
  <1> QED BY <1>4, <1>5

LEMMA CellsSecondAck ==
  ASSUME NEW m, NEW s, NEW b, Facing(m, s), I2cAcknowledges(m, s), CellsHeld(m, s, b),
         m.state = "ack_2", NEW n, n = i2c_master(m), NEW t, t = i2c_Slave(s)
  PROVE  CellsHeld(n, t, b)
  <1> DEFINE c == m.count1
  <1>0. /\ InAck2(m, s, b) /\ Unrefused(m, s) /\ s.state = "send_ack2" /\ s.count1 = c
        /\ m.bitcount = 0 /\ c \in 0 .. LastClock /\ c > 0 /\ s.mem \in [Cells -> Byte]
        /\ (c > 2 * Quarter => m.r_ack = 0) /\ Works(m) /\ Responds(s)
    BY DEF I2cAcknowledges, Together, CellsHeld, Facing, MasterType, SlaveType, Works, Responds
  <1>1. AfterAck(m, n) /\ FromAck2(s, t) /\ FromAck(s, t)
    BY <1>0, MasterListens, SlaveAcknowledgesData DEF FromAck2
  <1>2. /\ Asks(m, b) /\ Asks(n, b) /\ n.count1 = Ticked(c) /\ n.data_tx = m.data_tx
        /\ b.request.op = "write"
    BY <1>0, <1>1, SameRequest DEF AfterAck, InAck2, MasterKept
  <1>3. t.addr = s.addr /\ t.din = s.din /\ t.r_mem = FALSE
    BY <1>0, <1>1 DEF FromAck, FromAck2, SameData, InAck2
  <1>4. s.addr = b.request.addr /\ s.din = b.request.din /\ b.golden[s.addr] = s.din
    BY <1>0, <1>2, AskedFor DEF InAck2
  <1>5. b.golden = t.mem
    <2>1. t.mem = IF s.w_mem THEN [s.mem EXCEPT ![s.addr] = s.din] ELSE s.mem
      BY <1>0, <1>1 DEF FromAck, Accesses, InAck2
    <2>2. CASE c = 1
      <3>1. s.w_mem = TRUE
        BY <1>0, <2>2, ClockTyped, NextClock DEF InAck2, Responds
      <3> QED BY <1>0, <1>2, <1>4, <2>1, <2>2, <3>1 DEF InAck2, Unstored
    <2>3. CASE c # 1
      <3>1. b.golden = s.mem
        BY <1>0, <2>3 DEF InAck2
      <3>2. [s.mem EXCEPT ![s.addr] = s.din] = s.mem
        BY <1>0, <1>4, <3>1
      <3> QED BY <2>1, <3>1, <3>2
    <2> QED BY <2>2, <2>3
  <1>6. CASE c # LastClock
    <2>1. /\ n.state = "ack_2" /\ n.count1 = c + 1 /\ n.count1 # 1 /\ Unrefused(n, t)
      BY <1>0, <1>1, <1>2, <1>6, NextClock DEF AfterAck, FromAck, Unrefused
    <2>2. t.w_mem <=> c + 1 <= Quarter
      BY <1>0, <1>1, NextClock DEF FromAck2, InAck2
    <2>3. InAck2(n, t, b)
      BY <1>0, <1>2, <1>3, <1>5, <2>1, <2>2 DEF InAck2
    <2> QED BY <2>1, <2>3 DEF CellsHeld
  <1>7. CASE c = LastClock
    <2>1. m.r_ack = 0 /\ ~(c <= Quarter) /\ ~(c < 2 * Quarter)
      BY <1>0, <1>7, NextClock
    <2>2. n.state = "stop" /\ Unrefused(n, t)
      BY <1>0, <1>1, <1>7, <2>1 DEF AfterAck, FromAck, Unrefused
    <2>3. t.w_mem = FALSE
      BY <1>0, <1>1, <2>1 DEF FromAck2, InAck2, Responds
    <2>4. InEnd(n, t, b)
      BY <1>2, <1>3, <1>5, <2>3 DEF InEnd, Unused, Received
    <2> QED BY <2>2, <2>4 DEF CellsHeld
  <1> QED BY <1>6, <1>7

LEMMA CellsWrite ==
  ASSUME NEW m, NEW s, NEW b, Facing(m, s), I2cWrites(m, s), CellsHeld(m, s, b),
         NEW n, n = i2c_master(m), NEW t, t = i2c_Slave(s)
  PROVE  CellsHeld(n, t, b)
  <1> DEFINE c == m.count1
             i == m.bitcount
  <1>0. /\ InWrite(m, s, b) /\ Unrefused(m, s) /\ m.state = "write_data"
        /\ s.state = "read_data" /\ s.count1 = c /\ s.bitcnt = i
        /\ c \in 0 .. LastClock /\ i \in 0 .. Width /\ m.sda_en /\ sda = m.sda_t
        /\ s.din \in Byte /\ m.data_tx \in Byte /\ Works(m) /\ Responds(s)
    BY DEF I2cWrites, Together, CellsHeld, Facing, MasterType, SlaveType, Works, Responds
  <1>1. AfterWrite(m, n) /\ FromRead(s, t)
    BY <1>0, MasterWrites, SlaveReadsData
  <1>2. /\ t.mem = s.mem /\ t.addr = s.addr /\ Unused(s) /\ t.r_mem = FALSE
        /\ Unrefused(n, t)
    <2>1. Unused(s) /\ Accesses(s, t)
      BY <1>0, <1>1 DEF InWrite, InAck1, InAddress, FromRead
    <2>2. t.mem = s.mem
      BY <2>1, SameMemory
    <2> QED BY <1>0, <1>1, <2>1, <2>2 DEF FromRead, Unused, Unrefused, AfterWrite, KeptFlags
  <1>3. /\ Asks(m, b) /\ Asks(n, b) /\ n.count1 = Ticked(c) /\ n.data_tx = m.data_tx
    BY <1>0, <1>1, SameRequest DEF AfterWrite, KeptFlags, InWrite, InAck1, InAddress, MasterKept
  <1>4. Unstored(t, b) /\ t.addr = b.request.addr /\ b.request.op = "write"
    BY <1>0, <1>2, SameCells DEF InWrite, InAck1, InAddress
  <1>5. Taken(s.din, m.data_tx, TakenSoFar(c, i), Width)
    BY <1>0 DEF InWrite
  <1>6. CASE i = Width
    <2>1. c = 0
      BY <1>6 DEF I2cWrites
    <2>2. n.count1 = 1 /\ 1 <= Quarter /\ ~(c > 2 * Quarter)
      BY <1>0, <1>3, <2>1, NextClock
    <2>3. /\ n.state = "ack_2" /\ t.w_mem = TRUE /\ t.din = s.din
      BY <1>0, <1>1, <1>6 DEF AfterWrite, AfterWord, FromRead
    <2>4. s.din = m.data_tx
      <3>1. Width \in Nat \ {0} /\ s.din \in [1 .. Width -> Bit] /\ m.data_tx \in Word(Width)
        BY <1>0, NextClock DEF Byte, Word
      <3>2. Taken(s.din, m.data_tx, Width, Width)
        BY <1>5, <1>6, <2>2 DEF TakenSoFar
      <3> QED BY <3>1, <3>2, TakenAll
    <2>5. InAck2(n, t, b)
      BY <1>2, <1>3, <1>4, <2>2, <2>3, <2>4 DEF InAck2
    <2> QED BY <1>2, <2>3, <2>5 DEF CellsHeld
  <1>7. CASE i # Width
    <2>1. /\ n.state = "write_data" /\ t.w_mem = FALSE
          /\ n.bitcount = (IF c = LastClock THEN i + 1 ELSE i)
          /\ t.din = IF c = 2 * Quarter THEN Shifted(s.din, sda) ELSE s.din
      BY <1>0, <1>1, <1>2, <1>7 DEF AfterWrite, AfterWord, FromRead, Unused
    <2>2. c = 2 * Quarter => sda = m.data_tx[i + 1]
      BY <1>0, NextClock DEF I2cWrites
    <2>3. PICK j : j = IF c = LastClock THEN i + 1 ELSE i
      OBVIOUS
    <2>4. Taken(t.din, m.data_tx, TakenSoFar(Ticked(c), j), Width)
      <3> HIDE DEF c, i
      <3> QED BY <1>0, <1>5, <1>7, <2>1, <2>2, <2>3, TakesBit
    <2>5. InWrite(n, t, b)
      BY <1>2, <1>3, <1>4, <2>1, <2>3, <2>4 DEF InWrite, InAck1, InAddress, Unused
    <2> QED BY <1>2, <2>1, <2>5 DEF CellsHeld
  <1> QED BY <1>6, <1>7

LEMMA CellsRead ==
  ASSUME NEW m, NEW s, NEW b, Facing(m, s), I2cReads(m, s), CellsHeld(m, s, b),
         NEW n, n = i2c_master(m), NEW t, t = i2c_Slave(s)
  PROVE  CellsHeld(n, t, b)
  <1> DEFINE c == m.count1
             i == m.bitcount
  <1>a. PICK word : word = b.golden[b.request.addr]
    OBVIOUS
  <1>0. /\ InRead(m, s, b) /\ Unrefused(m, s) /\ m.state = "read_data"
        /\ s.state = "send_data" /\ s.count1 = c /\ s.bitcnt = i
        /\ c \in 0 .. LastClock /\ i \in 0 .. Width /\ sda = s.sda_t
        /\ s.mem \in [Cells -> Byte] /\ Works(m) /\ Responds(s)
    BY DEF I2cReads, Together, CellsHeld, Facing, MasterType, SlaveType, Works, Responds
  <1>1. AfterRead(m, n) /\ FromSend(s, t)
    BY <1>0, MasterReads, SlaveSends
  <1>2. /\ Asks(m, b) /\ Asks(n, b) /\ n.count1 = Ticked(c) /\ b.request.op = "read"
    BY <1>0, <1>1, SameRequest DEF AfterRead, KeptFlags, InRead, MasterKept
  <1>3. word = s.mem[s.addr] /\ word \in Byte
    BY <1>0, <1>2, <1>a, AskedFor DEF InRead
  <1>4. /\ t.mem = s.mem /\ b.golden = t.mem /\ t.addr = b.request.addr /\ t.w_mem = FALSE
        /\ t.dout = word
    <2>1. t.mem = s.mem /\ t.addr = s.addr /\ t.w_mem = FALSE
      BY <1>0, <1>1 DEF FromSend, Accesses, SameData, InRead
    <2>2. t.dout = IF s.r_mem THEN word ELSE s.dout
      BY <1>1, <1>3 DEF FromSend, Accesses
    <2>3. ~s.r_mem => s.dout = word
      BY <1>0, <1>a, NextClock DEF InRead
    <2> QED BY <1>0, <2>1, <2>2, <2>3 DEF InRead
  <1>5. Taken(m.rx_data, word, TakenSoFar(c, i), Width) /\ m.rx_data \in Byte
    BY <1>0, <1>a DEF InRead, Unrefused
  <1>6. m.ack_err = n.ack_err /\ t.ack_err = s.ack_err
    BY <1>1 DEF AfterRead, KeptFlags, FromSend
  <1>7. CASE i = Width
    <2>1. c = 0
      BY <1>7 DEF I2cReads
    <2>2. /\ n.count1 = 1 /\ ~(1 > 2 * Quarter) /\ ~(c > 2 * Quarter) /\ i > 0 /\ ~(1 > 1)
      BY <1>0, <1>2, <1>7, <2>1, NextClock
    <2>3. n.state = "master_ack" /\ t.r_mem = s.r_mem /\ n.rx_data = m.rx_data
      BY <1>0, <1>1, <1>7 DEF AfterRead, AfterWord, FromSend
    <2>4. t.r_mem = FALSE
      BY <1>0, <2>2, <2>3 DEF InRead, Responds
    <2>5. m.rx_data = word
      <3>1. Width \in Nat \ {0} /\ m.rx_data \in [1 .. Width -> Bit] /\ word \in Word(Width)
        BY <1>0, <1>3, <1>5, NextClock DEF Byte, Word
      <3>2. Taken(m.rx_data, word, Width, Width)
        BY <1>5, <1>7, <2>2 DEF TakenSoFar
      <3> QED BY <3>1, <3>2, TakenAll
    <2>6. InMasterAck(n, t, b)
      BY <1>2, <1>4, <1>a, <2>2, <2>3, <2>4, <2>5 DEF InMasterAck, InEnd, Unused, Received
    <2>7. Unrefused(n, t)
      BY <1>0, <1>5, <1>6, <2>3 DEF Unrefused
    <2> QED BY <2>3, <2>6, <2>7 DEF CellsHeld
  <1>8. CASE i # Width
    <2>1. /\ n.state = "read_data" /\ t.r_mem = FALSE
          /\ n.bitcount = (IF c = LastClock THEN i + 1 ELSE i)
          /\ n.rx_data = IF c = 2 * Quarter THEN Shifted(m.rx_data, sda) ELSE m.rx_data
          /\ t.sda_t = IF c = Quarter THEN s.dout[i + 1] ELSE s.sda_t
      BY <1>0, <1>1, <1>8 DEF AfterRead, AfterWord, FromSend
    <2>2. c > 0 => s.dout = word
      BY <1>0, <1>a DEF InRead
    <2>3. c = 2 * Quarter => sda = word[i + 1]
      BY <1>0, <2>2, NextClock DEF InRead
    <2>4. PICK j : j = IF c = LastClock THEN i + 1 ELSE i
      OBVIOUS
    <2>5. n.rx_data \in Byte /\ Taken(n.rx_data, word, TakenSoFar(Ticked(c), j), Width)
      <3> HIDE DEF c, i
      <3> QED BY <1>0, <1>3, <1>5, <1>8, <2>1, <2>3, <2>4, TakesBit
    <2>6. n.count1 > Quarter => t.sda_t = t.dout[n.bitcount + 1]
      <3>1. n.count1 > Quarter => n.count1 = c + 1 /\ c >= Quarter /\ c > 0 /\ n.bitcount = i
        BY <1>0, <1>2, <2>1, NextClock
      <3>2. c > Quarter => s.sda_t = s.dout[i + 1]
        BY <1>0 DEF InRead
      <3>3. c >= Quarter /\ c > 0 => t.sda_t = word[i + 1]
        BY <1>0, <2>1, <2>2, <3>2, NextClock
      <3> QED BY <1>4, <3>1, <3>3
    <2>7. ~(n.count1 = 0 /\ n.bitcount = 0)
      BY <1>0, <1>2, <2>1, NextClock
    <2>8. InRead(n, t, b)
      BY <1>2, <1>4, <1>a, <2>1, <2>4, <2>5, <2>6, <2>7 DEF InRead
    <2>9. Unrefused(n, t)
      BY <1>0, <1>6, <2>5 DEF Unrefused
    <2> QED BY <2>1, <2>8, <2>9 DEF CellsHeld
  <1> QED BY <1>7, <1>8

LEMMA CellsEnd ==
  ASSUME NEW m, NEW s, NEW b, Facing(m, s), I2cEnds(m, s), CellsHeld(m, s, b),
         NEW n, n = i2c_master(m), NEW t, t = i2c_Slave(s)
  PROVE  CellsHeld(n, t, b)
  <1> DEFINE c == m.count1
  <1>0. /\ InEnd(m, s, b) /\ Unrefused(m, s) /\ s.count1 = c /\ c \in 0 .. LastClock
        /\ sda = m.sda_t /\ Works(m) /\ Responds(s)
        /\ \/ m.state = "master_ack" /\ s.state = "master_ack" /\ InMasterAck(m, s, b)
           \/ m.state = "stop" /\ s.state = "detect_stop"
    BY DEF I2cEnds, Together, CellsHeld, InMasterAck, Facing, MasterType, SlaveType, Works, Responds
  <1>1. CASE m.state = "master_ack"
    <2>1. AfterMasterAck(m, n) /\ FromMasterAck(s, t)
      BY <1>0, <1>1, MasterAcknowledges, SlaveHearsMaster
    <2>2. Asks(n, b) /\ n.count1 = Ticked(c) /\ n.rx_data = m.rx_data
      BY <1>0, <2>1, SameRequest DEF AfterMasterAck, KeptFlags, InEnd, MasterKept
    <2>3. t.mem = s.mem /\ Unused(t)
      BY <1>0, <2>1, SameMemory DEF FromMasterAck, InEnd, Unused
    <2>4. InEnd(n, t, b)
      BY <1>0, <2>2, <2>3 DEF InEnd, Received
    <2>5. n.ack_err = FALSE /\ n.rx_data \in Byte
      BY <1>0, <2>1, <2>2 DEF AfterMasterAck, KeptFlags, Unrefused
    <2>6. CASE c = LastClock
      <3>1. s.r_ack = 1
        BY <1>0, <1>1, <2>6, NextClock DEF InMasterAck
      <3>2. n.state = "stop" /\ t.ack_err = FALSE
        BY <1>0, <2>1, <2>6, <3>1 DEF AfterMasterAck, FromMasterAck
      <3> QED BY <2>4, <2>5, <3>2 DEF CellsHeld, Unrefused
    <2>7. CASE c # LastClock
      <3>1. n.state = "master_ack" /\ n.sda_t = 1 /\ t.ack_err = FALSE /\ n.count1 = c + 1
        BY <1>0, <2>1, <2>2, <2>7, NextClock DEF AfterMasterAck, FromMasterAck, Unrefused
      <3>2. n.count1 > 2 * Quarter => t.r_ack = 1
        BY <1>0, <1>1, <2>1, <3>1, NextClock DEF FromMasterAck, InMasterAck
      <3>3. InMasterAck(n, t, b)
        BY <2>4, <3>1, <3>2 DEF InMasterAck
      <3> QED BY <2>5, <3>1, <3>3 DEF CellsHeld, Unrefused
    <2> QED BY <2>6, <2>7
  <1>2. CASE m.state = "stop"
    <2>1. AfterStop(m, n) /\ FromStop(s, t)
      BY <1>0, <1>2, MasterStops, SlaveStops
    <2>2. t.mem = s.mem /\ Unused(t) /\ Unrefused(n, t)
      BY <1>0, <2>1, SameMemory DEF FromStop, SameFlags, AfterStop, InEnd, Unused, Unrefused
    <2>3. b.golden = t.mem /\ Received(n, b)
      BY <1>0, <2>1, <2>2 DEF InEnd, Received, AfterStop
    <2>4. CASE c = LastClock
      <3>1. n.state = "idle"
        BY <2>1, <2>4 DEF AfterStop
      <3> QED BY <2>2, <2>3, <3>1 DEF CellsHeld, AtRest
    <2>5. CASE c # LastClock
      <3>1. n.state = "stop" /\ n.done = m.done
        BY <2>1, <2>5 DEF AfterStop
      <3>2. Asks(n, b)
        BY <1>0, <2>1, <3>1, SameRequest DEF AfterStop, InEnd
      <3> QED BY <2>2, <2>3, <3>1, <3>2 DEF CellsHeld, InEnd
    <2> QED BY <2>4, <2>5
  <1> QED BY <1>0, <1>1, <1>2

\* Nothing happens to the cells of a slave at rest.
LeftAlone(n, s, t, b) ==
  /\ Unrefused(n, t) /\ n.done = FALSE /\ Unused(t) /\ t.mem = s.mem /\ b.golden = t.mem

LEMMA CellsRest ==
  ASSUME NEW m, NEW s, NEW b, Facing(m, s), I2cIdle(m, s), CellsHeld(m, s, b),
         NEW n, Waited(m, n), NEW t, t = i2c_Slave(s)
  PROVE  LeftAlone(n, s, t, b)
  <1>0. AtRest(m, s, b) /\ Unrefused(m, s) /\ s.state = "idle" /\ Responds(s)
    BY DEF I2cIdle, CellsHeld, Facing, SlaveType, Responds
  <1>1. FromIdle(s, t)
    BY <1>0, SlaveIdles
  <1>2. t.mem = s.mem
    BY <1>0, <1>1, SameMemory DEF AtRest, FromIdle
  <1> QED BY <1>0, <1>1, <1>2 DEF LeftAlone, AtRest, Waited, Unused, Unrefused, FromIdle, SameFlags

\* An edge of the clock.
LEMMA CellsTick ==
  ASSUME NEW m, NEW s, NEW b, Facing(m, s), I2cBits(m, s), CellsHeld(m, s, b),
         NEW n, n = i2c_master(m), NEW t, t = i2c_Slave(s)
  PROVE  CellsHeld(n, t, b)
  <1>1. CASE I2cIdle(m, s)
    <2>1. Waited(m, n) /\ n.state = "idle"
      BY <1>1, MasterWaits DEF I2cIdle, Facing, MasterType
    <2>2. LeftAlone(n, s, t, b)
      BY <1>1, <2>1, CellsRest
    <2> QED BY <2>1, <2>2 DEF LeftAlone, CellsHeld, AtRest
  <1>2. CASE I2cAcknowledges(m, s)
    BY <1>2, CellsFirstAck, CellsSecondAck DEF I2cAcknowledges, Together
  <1>3. CASE I2cStarting(m, s)
    BY <1>3, CellsStart
  <1>4. CASE I2cAddresses(m, s)
    BY <1>4, CellsAddress
  <1>5. CASE I2cWrites(m, s)
    BY <1>5, CellsWrite
  <1>6. CASE I2cReads(m, s)
    BY <1>6, CellsRead
  <1>7. CASE I2cEnds(m, s)
    BY <1>7, CellsEnd
  <1> QED BY <1>1, <1>2, <1>3, <1>4, <1>5, <1>6, <1>7 DEF I2cBits

\* An edge at which a request comes in.
LEMMA CellsAsk ==
  ASSUME NEW m, NEW s, NEW b, Facing(m, s), I2cBits(m, s), CellsHeld(m, s, b),
         m.state = "idle", NEW r \in Requests, NEW e, e.request = r,
         e.golden = IF r.op = "write" THEN [b.golden EXCEPT ![r.addr] = r.din] ELSE b.golden,
         NEW n, n = Asked(m, r), NEW t, t = i2c_Slave(s)
  PROVE  CellsHeld(n, t, e)
  <1>1. I2cIdle(m, s)
    BY DEF I2cBits, I2cStarting, I2cAddresses, I2cAcknowledges, I2cWrites, I2cReads, I2cEnds,
           Together
  <1>2. /\ Waited(m, n) /\ n.state = "start" /\ n.busy = TRUE /\ n.data_tx = r.din
        /\ n.data_addr = Append(r.addr, IF r.op = "read" THEN 1 ELSE 0)
    <2>1. DOMAIN m = MasterFields /\ m.busy = FALSE /\ m.state = "idle"
      BY DEF Facing, MasterType
    <2> QED BY ONLY <2>1, MasterAsked, n = Asked(m, r)
  <1>3. LeftAlone(n, s, t, b)
    BY <1>1, <1>2, CellsRest
  <1>4. r.addr \in Cells /\ s.mem \in [Cells -> Byte]
    BY I2cAssumption DEF Cells, Facing, SlaveType
  <1>5. Asks(n, e)
    BY <1>2, <1>3, <1>4 DEF Asks, LeftAlone
  <1>6. InAddress(n, t, e)
    BY <1>3, <1>5 DEF InAddress, Unstored, LeftAlone
  <1> QED BY <1>2, <1>3, <1>6 DEF CellsHeld, LeftAlone

CellsInv ==
  /\ DOMAIN bench = I2cNotes
  /\ ~bench.spoilt => CellsHeld(chip.m, chip.s, bench)

LEMMA CellsReset ==
  ASSUME NEW c, NEW e, NEW b, c.rx_data \in Byte, e.w_mem = FALSE,
         b.golden = SlaveReset(e).mem,
         NEW m, m = MasterReset(c), NEW s, s = SlaveReset(e)
  PROVE  CellsHeld(m, s, b)
  BY DEF CellsHeld, MasterReset, SlaveReset, AtRest, Unused, Unrefused

LEMMA CellsStarts == I2cInit => CellsInv
  <1> SUFFICES ASSUME I2cInit PROVE CellsInv
    OBVIOUS
  <1> DEFINE c == [sda_en |-> FALSE, r_ack |-> 0, rx_data |-> Zeros(Width)]
             e == [w_mem |-> FALSE, r_ack |-> X]
  <1>1. chip.m = MasterReset(c) /\ chip.s = SlaveReset(e)
    BY DEF I2cInit, Powered
  <1>2. bench = [request |-> [op |-> "none"], golden |-> SlaveReset(e).mem,
                 requests |-> 0, resets |-> 0, spoilt |-> FALSE, lost |-> {}]
    BY DEF I2cInit, Powered
  <1>3. c.rx_data \in Byte /\ e.w_mem = FALSE
    BY ZerosWord, ClockTyped DEF Byte
  <1> HIDE DEF c, e
  <1>4. DOMAIN bench = I2cNotes /\ bench.golden = SlaveReset(e).mem
    BY <1>2 DEF I2cNotes
  <1> QED BY <1>1, <1>3, <1>4, CellsReset DEF CellsInv

LEMMA CellsKeep ==
  ASSUME I2cInv, CellsInv, I2cStep
  PROVE  CellsInv'
  <1>0. Facing(chip.m, chip.s) /\ I2cBits(chip.m, chip.s)
    BY I2cFacing DEF I2cInv
  <1>1. ASSUME NEW m, NEW notes, Serves(m, notes)
        PROVE  chip'.m = m /\ chip'.s = i2c_Slave(chip.s) /\ bench' = notes
    BY <1>1 DEF Serves, Edge
  <1>2. CASE I2cClock
    <2>1. chip'.m = i2c_master(chip.m) /\ chip'.s = i2c_Slave(chip.s) /\ bench' = bench
      BY <1>1, <1>2 DEF I2cClock
    <2> QED BY <1>0, <2>1, CellsTick DEF CellsInv
  <1>3. ASSUME NEW r \in Requests, chip.m.state = "idle",
               NEW notes, Serves(Asked(chip.m, r), notes),
               notes = [bench EXCEPT !.request = r, !.requests = @ + 1, !.lost = StillLost(r),
                                     !.golden = IF r.op = "write" THEN [@ EXCEPT ![r.addr] = r.din]
                                                                  ELSE @]
        PROVE  CellsInv'
    <2>1. chip'.m = Asked(chip.m, r) /\ chip'.s = i2c_Slave(chip.s) /\ bench' = notes
      BY <1>1, <1>3
    <2>2. /\ DOMAIN notes = I2cNotes /\ notes.request = r /\ notes.spoilt = bench.spoilt
          /\ notes.golden = IF r.op = "write" THEN [bench.golden EXCEPT ![r.addr] = r.din]
                                              ELSE bench.golden
      BY <1>3 DEF CellsInv, I2cNotes
    <2>3. ASSUME ~notes.spoilt
          PROVE  CellsHeld(chip'.m, chip'.s, notes)
      <3>1. CellsHeld(chip.m, chip.s, bench)
        BY <2>2, <2>3 DEF CellsInv
      <3>2. PICK n, t : n = Asked(chip.m, r) /\ t = i2c_Slave(chip.s)
        OBVIOUS
      <3>3. notes.request = r
        BY <2>2
      <3>4. notes.golden = IF r.op = "write" THEN [bench.golden EXCEPT ![r.addr] = r.din]
                                             ELSE bench.golden
        BY <2>2
      <3>5. chip.m.state = "idle"
        BY <1>3
      <3>6. CellsHeld(n, t, notes)
        BY ONLY <1>0, <3>1, <3>2, <3>3, <3>4, <3>5, CellsAsk, r \in Requests
      <3> QED BY <2>1, <3>2, <3>6
    <2> QED BY <2>1, <2>2, <2>3 DEF CellsInv
  <1>4. CASE Edge([m |-> MasterReset(chip.m), s |-> SlaveReset(chip.s)], Again)
    <2>1. chip'.m = MasterReset(chip.m) /\ chip'.s = SlaveReset(chip.s) /\ bench' = Again
      BY <1>4 DEF Edge
    <2>2. /\ DOMAIN Again = I2cNotes /\ Again.golden = SlaveReset(chip.s).mem
          /\ Again.spoilt = (bench.spoilt \/ chip.s.w_mem)
      BY DEF Again, CellsInv, I2cNotes
    <2>3. ASSUME ~Again.spoilt
          PROVE  CellsHeld(chip'.m, chip'.s, bench')
      <3>1. CellsHeld(chip.m, chip.s, bench) /\ chip.s.w_mem = FALSE
        BY <2>2, <2>3 DEF CellsInv, I2cInv, SlaveType
      <3>2. chip.m.rx_data \in Byte
        BY <3>1 DEF CellsHeld, Unrefused
      <3> QED BY <2>1, <2>2, <3>1, <3>2, CellsReset
    <2> QED BY <2>1, <2>2, <2>3 DEF CellsInv
  <1> QED BY <1>2, <1>3, <1>4 DEF I2cStep

LEMMA CellsAnswered ==
  ASSUME I2cInv, CellsInv
  PROVE  CellsKept
  <1> DEFINE m == chip.m
             s == chip.s
  <1> SUFFICES ASSUME m.done, ~bench.spoilt
               PROVE  /\ s.mem = bench.golden
                      /\ bench.request.op = "read" => m.rx_data = bench.golden[bench.request.addr]
                      /\ ~m.ack_err /\ ~s.ack_err
    BY DEF CellsKept
  <1>1. CellsHeld(m, s, bench) /\ m.state \in MasterStates
    BY DEF CellsInv, I2cInv, MasterType
  <1>2. m.state = "idle"
    BY <1>1 DEF CellsHeld, MasterStates, InAddress, InAck1, InWrite, InAck2, InRead, InMasterAck,
                InEnd, Asks
  <1> QED BY <1>1, <1>2 DEF CellsHeld, AtRest, Received, Unrefused

-----------------------------------------------------------------------------
(* The memory of the APB.                                                  *)

ApbInputs == {"psel", "penable", "pwrite", "paddr", "pwdata"}

\* The memory once the access under way has been carried out.
ApbWritten(mem, in) ==
  [a \in Cell |-> IF in.pwrite /\ a = in.paddr THEN in.pwdata ELSE mem[a]]

ApbAnswered(c, in, golden) ==
  /\ c.pready /\ c.mem = golden
  /\ c.pslverr <=> in.paddr \notin Cell
  /\ ~in.pwrite => c.prdata = IF c.pslverr THEN X ELSE golden[in.paddr]

ApbPhases(c, b) ==
  \/ /\ b.phase = "reset" /\ c.state = "idle" /\ b.in = ApbIdle /\ b.golden = c.mem
  \/ /\ b.phase = "idle" /\ c.state = "setup" /\ ~b.in.psel /\ b.golden = c.mem
  \/ /\ b.phase = "setup" /\ c.state = "setup" /\ b.in.psel /\ ~b.in.penable
     /\ b.golden = ApbWritten(c.mem, b.in)
  \/ /\ b.phase = "enabled" /\ c.state = "access" /\ b.in.psel /\ b.in.penable
     /\ b.golden = ApbWritten(c.mem, b.in) /\ (c.pready <=> b.in.paddr \in Cell)
  \/ /\ b.phase = "sampled" /\ c.state = "transfer" /\ ApbAnswered(c, b.in, b.golden)

ApbInv ==
  /\ DOMAIN chip = {"state", "mem", "prdata", "pready", "pslverr"}
  /\ DOMAIN bench = {"in", "phase", "golden", "transfers", "resets"}
  /\ DOMAIN bench.in = ApbInputs /\ bench.in.pwrite \in BOOLEAN
  /\ chip.mem = [a \in Cell |-> chip.mem[a]]
  /\ ApbPhases(chip, bench)

LEMMA ApbStarts == ApbInit => ApbInv
  <1> SUFFICES ASSUME ApbInit PROVE ApbInv
    OBVIOUS
  <1>1. /\ chip = ApbCleared
        /\ bench = [in |-> ApbIdle, phase |-> "reset", golden |-> Filled(0),
                    transfers |-> 0, resets |-> 0]
    BY DEF ApbInit, Powered
  <1> QED BY <1>1 DEF ApbInv, ApbCleared, ApbIdle, ApbInputs, Filled, ApbPhases

LEMMA ApbMoves ==
  ASSUME ApbInv, NEW from, NEW to, NEW in, NEW golden, NEW notes, Apb(from, to, in, golden, notes),
         DOMAIN notes = DOMAIN bench
  PROVE  /\ chip' = apb_ram(chip, bench.in) /\ bench'.in = in /\ bench'.golden = golden
         /\ bench'.phase = to /\ DOMAIN bench' = DOMAIN bench /\ device' = device
         /\ bench.phase = from
  BY DEF Apb, Edge, ApbInv

LEMMA ApbKeeps ==
  ASSUME ApbInv, ApbStep
  PROVE  ApbInv'
  <1> DEFINE c == chip
             in == bench.in
  <1>0. DOMAIN OneMore = DOMAIN bench /\ DOMAIN bench = DOMAIN bench
    BY DEF OneMore
  <1>1. CASE Apb("reset", "idle", in, bench.golden, bench)
    <2>1. /\ bench'.in = in /\ bench'.golden = bench.golden /\ bench'.phase = "idle"
          /\ DOMAIN bench' = DOMAIN bench /\ chip' = apb_ram(c, in) /\ bench.phase = "reset"
      BY <1>1, ApbMoves
    <2>2. c.state = "idle" /\ in = ApbIdle /\ bench.golden = c.mem
      BY <2>1 DEF ApbInv, ApbPhases
    <2>3. chip' = [ApbCleared EXCEPT !.mem = c.mem, !.state = "setup"]
      BY <2>1, <2>2 DEF apb_ram, ApbIdle
    <2>4. /\ DOMAIN chip' = {"state", "mem", "prdata", "pready", "pslverr"}
          /\ chip'.state = "setup" /\ chip'.mem = c.mem
      BY <2>3 DEF ApbCleared
    <2>5. ~in.psel
      BY <2>2 DEF ApbIdle
    <2> QED BY <2>1, <2>2, <2>4, <2>5 DEF ApbInv, ApbPhases
  <1>2. CASE Apb("idle", "idle", in, bench.golden, bench)
    <2>1. /\ bench'.in = in /\ bench'.golden = bench.golden /\ bench'.phase = "idle"
          /\ DOMAIN bench' = DOMAIN bench /\ chip' = apb_ram(c, in) /\ bench.phase = "idle"
      BY <1>2, ApbMoves
    <2>2. c.state = "setup" /\ ~in.psel /\ bench.golden = c.mem
      BY <2>1 DEF ApbInv, ApbPhases
    <2>3. chip' = c
      BY <2>1, <2>2 DEF apb_ram
    <2> QED BY <2>1, <2>2, <2>3 DEF ApbInv, ApbPhases
  <1>3. ASSUME NEW write \in BOOLEAN, NEW addr \in Addresses,
               Apb("idle", "setup", [psel |-> TRUE, penable |-> FALSE, pwrite |-> write,
                                     paddr |-> addr, pwdata |-> Data],
                   IF write THEN Stored(addr, Data) ELSE bench.golden, OneMore)
        PROVE  ApbInv'
    <2> DEFINE next == [psel |-> TRUE, penable |-> FALSE, pwrite |-> write,
                        paddr |-> addr, pwdata |-> Data]
    <2>1. /\ bench'.in = next /\ bench'.phase = "setup"
          /\ bench'.golden = (IF write THEN Stored(addr, Data) ELSE bench.golden)
          /\ DOMAIN bench' = DOMAIN bench /\ chip' = apb_ram(c, in) /\ bench.phase = "idle"
      BY <1>0, <1>3, ApbMoves
    <2>2. c.state = "setup" /\ ~in.psel /\ bench.golden = c.mem
      BY <2>1 DEF ApbInv, ApbPhases
    <2>3. chip' = c
      BY <2>1, <2>2 DEF apb_ram
    <2>4. bench'.golden = ApbWritten(c.mem, next)
      BY <2>1, <2>2 DEF ApbInv, ApbWritten, Stored
    <2> QED BY <2>1, <2>3, <2>4 DEF ApbInv, ApbPhases, ApbInputs
  <1>4. CASE Apb("setup", "enabled", [in EXCEPT !.penable = TRUE], bench.golden, bench)
    <2> DEFINE next == [in EXCEPT !.penable = TRUE]
    <2>1. /\ bench'.in = next /\ bench'.golden = bench.golden /\ bench'.phase = "enabled"
          /\ DOMAIN bench' = DOMAIN bench /\ chip' = apb_ram(c, in) /\ bench.phase = "setup"
      BY <1>4, ApbMoves
    <2>2. c.state = "setup" /\ in.psel /\ ~in.penable /\ bench.golden = ApbWritten(c.mem, in)
      BY <2>1 DEF ApbInv, ApbPhases
    <2>3. chip' = [c EXCEPT !.state = "access", !.pready = in.paddr \in Cell]
      BY <2>1, <2>2 DEF apb_ram
    <2>4. /\ DOMAIN next = ApbInputs /\ next.psel = in.psel /\ next.penable = TRUE
          /\ next.pwrite = in.pwrite /\ next.paddr = in.paddr /\ next.pwdata = in.pwdata
      BY DEF ApbInv, ApbInputs
    <2>5. ApbWritten(c.mem, next) = ApbWritten(c.mem, in)
      BY <2>4 DEF ApbWritten
    <2>6. /\ DOMAIN chip' = DOMAIN chip /\ chip'.mem = c.mem /\ chip'.state = "access"
          /\ chip'.pready = (in.paddr \in Cell)
      BY <2>3 DEF ApbInv
    <2>7. bench.golden = ApbWritten(c.mem, next)
      BY <2>2, <2>5
    <2>8. ApbPhases(chip, bench)'
      BY <2>1, <2>2, <2>4, <2>6, <2>7 DEF ApbPhases
    <2> QED BY <2>1, <2>2, <2>4, <2>6, <2>8 DEF ApbInv
  <1>5. CASE Apb("enabled", "sampled", in, bench.golden, bench)
    <2>1. /\ bench'.in = in /\ bench'.golden = bench.golden /\ bench'.phase = "sampled"
          /\ DOMAIN bench' = DOMAIN bench /\ chip' = apb_ram(c, in) /\ bench.phase = "enabled"
      BY <1>5, ApbMoves
    <2>2. /\ c.state = "access" /\ in.psel /\ in.penable /\ bench.golden = ApbWritten(c.mem, in)
          /\ c.pready <=> in.paddr \in Cell
      BY <2>1 DEF ApbInv, ApbPhases
    <2>3. chip' = apb_access(c, in)
      BY <2>1, <2>2 DEF apb_ram
    <2> DEFINE d == [c EXCEPT !.state = "transfer", !.pslverr = in.paddr \notin Cell]
    <2>4. /\ DOMAIN d = DOMAIN c /\ d.state = "transfer" /\ d.mem = c.mem
          /\ d.pready = c.pready /\ d.prdata = c.prdata /\ d.pslverr = (in.paddr \notin Cell)
      BY DEF ApbInv
    <2>5. chip' = CASE in.paddr \notin Cell ->
                         [d EXCEPT !.pready = TRUE, !.prdata = IF in.pwrite THEN @ ELSE X]
                    [] in.paddr \in Cell /\ in.pwrite -> [d EXCEPT !.mem[in.paddr] = in.pwdata]
                    [] OTHER -> [d EXCEPT !.prdata = c.mem[in.paddr], !.pready = TRUE]
      BY <2>3 DEF apb_access
    <2> HIDE DEF d
    <2>6. CASE in.paddr \notin Cell
      <3>1. /\ DOMAIN chip' = DOMAIN c /\ chip'.state = "transfer" /\ chip'.mem = c.mem
            /\ chip'.pready = TRUE /\ chip'.pslverr = TRUE
            /\ ~in.pwrite => chip'.prdata = X
        BY <2>4, <2>5, <2>6 DEF ApbInv
      <3>2. bench.golden = c.mem
        BY <2>2, <2>6 DEF ApbInv, ApbWritten
      <3> QED BY <2>1, <2>6, <3>1, <3>2 DEF ApbInv, ApbPhases, ApbAnswered
    <2>7. CASE in.paddr \in Cell /\ in.pwrite
      <3> DEFINE mem == [c.mem EXCEPT ![in.paddr] = in.pwdata]
      <3>1. chip' = [d EXCEPT !.mem = [d.mem EXCEPT ![in.paddr] = in.pwdata]]
        BY <2>4, <2>5, <2>7 DEF ApbInv
      <3>2. chip' = [d EXCEPT !.mem = mem]
        BY <2>4, <3>1
      <3>3. mem = bench.golden /\ mem = [a \in Cell |-> mem[a]]
        BY <2>2, <2>7 DEF ApbInv, ApbWritten
      <3> HIDE DEF mem
      <3>4. /\ DOMAIN chip' = DOMAIN c /\ chip'.state = "transfer" /\ chip'.mem = mem
            /\ chip'.pready = c.pready /\ chip'.pslverr = (in.paddr \notin Cell)
        BY <2>4, <3>2 DEF ApbInv
      <3>5. ApbAnswered(chip', bench'.in, bench'.golden)
        BY <2>1, <2>2, <2>7, <3>3, <3>4 DEF ApbAnswered
      <3>6. ApbPhases(chip', bench')
        BY <2>1, <3>4, <3>5 DEF ApbPhases
      <3> QED BY <2>1, <3>3, <3>4, <3>6 DEF ApbInv
    <2>8. CASE in.paddr \in Cell /\ ~in.pwrite
      <3>1. /\ DOMAIN chip' = DOMAIN c /\ chip'.state = "transfer" /\ chip'.mem = c.mem
            /\ chip'.pready = TRUE /\ chip'.pslverr = FALSE /\ chip'.prdata = c.mem[in.paddr]
        BY <2>4, <2>5, <2>8 DEF ApbInv
      <3>2. bench.golden = c.mem
        BY <2>2, <2>8 DEF ApbInv, ApbWritten
      <3> QED BY <2>1, <2>8, <3>1, <3>2 DEF ApbInv, ApbPhases, ApbAnswered
    <2> QED BY <2>6, <2>7, <2>8
  <1>6. CASE Apb("sampled", "idle", [in EXCEPT !.psel = FALSE, !.penable = FALSE,
                                               !.pwrite = FALSE], bench.golden, bench)
    <2> DEFINE next == [in EXCEPT !.psel = FALSE, !.penable = FALSE, !.pwrite = FALSE]
    <2>1. /\ bench'.in = next /\ bench'.golden = bench.golden /\ bench'.phase = "idle"
          /\ DOMAIN bench' = DOMAIN bench /\ chip' = apb_ram(c, in) /\ bench.phase = "sampled"
      BY <1>6, ApbMoves
    <2>2. c.state = "transfer" /\ c.mem = bench.golden
      BY <2>1 DEF ApbInv, ApbPhases, ApbAnswered
    <2>3. chip' = [c EXCEPT !.state = "setup", !.pready = FALSE, !.pslverr = FALSE]
      BY <2>1, <2>2 DEF apb_ram
    <2>4. DOMAIN next = ApbInputs /\ next.psel = FALSE /\ next.pwrite = FALSE
      BY DEF ApbInv, ApbInputs
    <2> QED BY <2>1, <2>2, <2>3, <2>4 DEF ApbInv, ApbPhases
  <1>7. CASE Edge(ApbCleared, [bench EXCEPT !.phase = "reset", !.in = ApbIdle,
                                            !.golden = Filled(0), !.resets = @ + 1])
    <2>1. /\ chip' = ApbCleared /\ DOMAIN bench' = DOMAIN bench /\ bench'.phase = "reset"
          /\ bench'.in = ApbIdle /\ bench'.golden = Filled(0)
      BY <1>7 DEF Edge, ApbInv
    <2> QED BY <2>1 DEF ApbInv, ApbCleared, ApbIdle, ApbInputs, Filled, ApbPhases
  <1> QED BY <1>1, <1>2, <1>3, <1>4, <1>5, <1>6, <1>7 DEF ApbStep

LEMMA ApbAnswersAll == ApbInv => ApbAnswers
  BY DEF ApbInv, ApbPhases, ApbAnswered, ApbAnswers

(* The memory on the Wishbone bus.                                         *)

\* The memory stands as the idle state fills it until a write, and a read
\* that can follow has its value.
WbSettled(c, in) ==
  /\ DOMAIN c = {"state", "mem", "temp", "rdata", "ack"}
  /\ c.state \in {"idle", "check_mode", "write", "read"}
  /\ c.ack <=> c.state \in {"write", "read"}
  /\ c.state \in {"idle", "check_mode"} => c.mem = Filled(Fresh)
  /\ c.state = "check_mode" /\ in.strb /\ ~in.we => c.temp = Fresh
  /\ c.state = "write" /\ in.we => c.mem = [Filled(Fresh) EXCEPT ![in.addr] = in.wdata]
  /\ c.state = "read" => c.rdata = Fresh /\ c.mem = Filled(Fresh)

WbInv ==
  /\ DOMAIN bench = {"in", "phase", "golden", "transfers"}
  /\ bench.in.addr \in Cell /\ bench.in.strb \in BOOLEAN /\ bench.in.we \in BOOLEAN
  /\ WbSettled(chip, bench.in)
  /\ bench.phase \in {"waiting", "idle", "acked"}
  /\ bench.phase = "acked" => chip.state = IF bench.in.we THEN "write" ELSE "read"

LEMMA WbStarts == WbInit => WbInv
  <1> SUFFICES ASSUME WbInit PROVE WbInv
    OBVIOUS
  <1>1. /\ chip = WbForgets([state |-> "idle", mem |-> Filled(X), temp |-> X,
                             rdata |-> X, ack |-> FALSE])
        /\ bench = [in |-> WbOff, phase |-> "idle", golden |-> Filled(Fresh), transfers |-> 0]
    BY DEF WbInit, Powered
  <1>2. /\ DOMAIN chip = {"state", "mem", "temp", "rdata", "ack"} /\ chip.state = "idle"
        /\ chip.ack = FALSE /\ chip.mem = Filled(Fresh)
    BY <1>1 DEF WbForgets
  <1>3. 0 \in Cell
    BY MemoriesAssumption DEF Cell
  <1> QED BY <1>1, <1>2, <1>3 DEF WbInv, WbSettled, WbOff

\* An edge, at which the inputs change or not.
LEMMA WbTicks ==
  ASSUME WbInv, NEW in, in.addr \in Cell, in.strb \in BOOLEAN, in.we \in BOOLEAN,
         in = bench.in \/ chip.state = "idle" \/ (chip.state = "check_mode" /\ ~bench.in.strb),
         NEW c, c = mem_wb([chip EXCEPT !.state = WbNext(chip, bench.in)], in)
  PROVE  /\ WbSettled(c, in)
         /\ c.ack => in = bench.in /\ c.state = IF in.we THEN "write" ELSE "read"
  <1> DEFINE d == [chip EXCEPT !.state = WbNext(chip, bench.in)]
  <1>0. /\ WbSettled(chip, bench.in) /\ bench.in.strb \in BOOLEAN /\ bench.in.we \in BOOLEAN
    BY DEF WbInv
  <1>1. /\ DOMAIN d = {"state", "mem", "temp", "rdata", "ack"}
        /\ d.state = WbNext(chip, bench.in) /\ d.mem = chip.mem /\ d.temp = chip.temp
        /\ d.rdata = chip.rdata /\ d.ack = chip.ack
    BY <1>0 DEF WbSettled
  <1>2. c = mem_wb(d, in)
    OBVIOUS
  <1> HIDE DEF d
  <1>3. CASE chip.state \in {"write", "read"}
    <2>1. d.state = "idle"
      BY <1>1, <1>3 DEF WbNext
    <2>2. c = [d EXCEPT !.ack = FALSE, !.rdata = 0, !.mem = Filled(Fresh)]
      BY <1>2, <2>1 DEF mem_wb, WbForgets
    <2> QED BY <1>1, <2>1, <2>2 DEF WbSettled
  <1>4. CASE chip.state = "idle" \/ (chip.state = "check_mode" /\ ~bench.in.strb)
    <2>1. d.state = "check_mode" /\ d.mem = Filled(Fresh) /\ d.ack = FALSE
      BY <1>0, <1>1, <1>4 DEF WbNext, WbSettled
    <2>2. c = IF in.strb /\ ~in.we THEN [d EXCEPT !.temp = d.mem[in.addr]] ELSE d
      BY <1>2, <2>1 DEF mem_wb
    <2>3. d.mem[in.addr] = Fresh
      BY <2>1 DEF Filled
    <2> QED BY <1>1, <2>1, <2>2, <2>3 DEF WbSettled
  <1>5. CASE chip.state = "check_mode" /\ bench.in.strb /\ bench.in.we
    <2>1. d.state = "write" /\ d.mem = Filled(Fresh) /\ in = bench.in
      BY <1>0, <1>1, <1>5 DEF WbNext, WbSettled
    <2> DEFINE mem == [d.mem EXCEPT ![in.addr] = in.wdata]
    <2>2. c = [d EXCEPT !.mem = mem, !.ack = TRUE]
      BY <1>1, <1>2, <2>1 DEF mem_wb
    <2>3. mem = [Filled(Fresh) EXCEPT ![in.addr] = in.wdata]
      BY <2>1
    <2> HIDE DEF mem
    <2> QED BY <1>1, <1>5, <2>1, <2>2, <2>3 DEF WbSettled
  <1>6. CASE chip.state = "check_mode" /\ bench.in.strb /\ ~bench.in.we
    <2>1. d.state = "read" /\ d.mem = Filled(Fresh) /\ in = bench.in /\ d.temp = Fresh
      BY <1>0, <1>1, <1>6 DEF WbNext, WbSettled
    <2>2. c = [d EXCEPT !.rdata = d.temp, !.ack = TRUE]
      BY <1>2, <2>1 DEF mem_wb
    <2> QED BY <1>1, <1>6, <2>1, <2>2 DEF WbSettled
  <1> QED BY <1>0, <1>3, <1>4, <1>5, <1>6 DEF WbSettled

LEMMA WbEdged ==
  ASSUME WbInv, NEW in, in.addr \in Cell, in.strb \in BOOLEAN, in.we \in BOOLEAN,
         in = bench.in \/ chip.state = "idle" \/ (chip.state = "check_mode" /\ ~bench.in.strb),
         NEW phase, phase \in {"waiting", "idle"} \/ (phase = "acked" /\ in = bench.in),
         NEW notes, DOMAIN notes = DOMAIN bench, WbEdge(in, phase, notes)
  PROVE  WbInv'
  <1> DEFINE c == mem_wb([chip EXCEPT !.state = WbNext(chip, bench.in)], in)
  <1>1. WbSettled(c, in) /\ (c.ack => c.state = IF in.we THEN "write" ELSE "read")
    BY WbTicks
  <1>2. /\ chip' = c
        /\ bench' = [notes EXCEPT !.in = in,
                                  !.phase = CASE phase = "waiting" /\ c.ack -> "acked"
                                              [] phase = "acked" -> "idle"
                                              [] OTHER -> phase]
    BY DEF WbEdge, Edge
  <1> HIDE DEF c
  <1>3. /\ DOMAIN bench' = DOMAIN bench /\ bench'.in = in
        /\ bench'.phase = CASE phase = "waiting" /\ c.ack -> "acked"
                            [] phase = "acked" -> "idle"
                            [] OTHER -> phase
    BY <1>2 DEF WbInv
  <1>4. bench'.phase \in {"waiting", "idle", "acked"} /\ (bench'.phase = "acked" => c.ack)
    BY <1>3
  <1> QED BY <1>1, <1>2, <1>3, <1>4 DEF WbInv

LEMMA WbKeeps ==
  ASSUME WbInv, WbStep
  PROVE  WbInv'
  <1>1. CASE WbClock
    BY <1>1, WbEdged DEF WbClock, WbInv
  <1>2. ASSUME NEW write \in BOOLEAN, NEW strobe \in BOOLEAN, NEW addr \in Cell,
               chip.state = "idle" \/ (chip.state = "check_mode" /\ ~bench.in.strb),
               NEW in, in = [we |-> write, strb |-> strobe, addr |-> addr, wdata |-> Data],
               NEW phase, phase \in {"waiting", "idle"}, WbEdge(in, phase, OneMore)
        PROVE  WbInv'
    <2>1. DOMAIN OneMore = DOMAIN bench
      BY DEF OneMore
    <2>2. in.addr \in Cell /\ in.strb \in BOOLEAN /\ in.we \in BOOLEAN
      BY <1>2
    <2> QED BY <1>2, <2>1, <2>2, WbEdged
  <1> QED BY <1>1, <1>2 DEF WbStep

LEMMA WbAnswersAll == WbInv => WbAnswers
  BY DEF WbInv, WbSettled, WbAnswers

-----------------------------------------------------------------------------
(* The AHB: the address of every byte of a burst in closed form.           *)

\* One byte further, in a region that begins at a multiple of its size.
LEMMA AlongRegion ==
  ASSUME NEW n \in Nat, n # 0, NEW q \in Nat, NEW k \in Nat
  PROVE  Along(n * q + (k % n), n) = n * q + ((k + 1) % n)
  <1> DEFINE r == k % n
  <1>1. r \in 0 .. n - 1
    BY Quotient
  <1>2. (k + 1) % n = IF r = n - 1 THEN 0 ELSE r + 1
    BY NextRemainder
  <1>3. n * q \in Nat /\ n * (q + 1) = n * q + n
    BY SMT
  <1> HIDE DEF r
  <1>4. CASE r = n - 1
    <2>1. n * q + r + 1 = n * (q + 1) + 0
      BY <1>1, <1>3, <1>4
    <2>2. (n * q + r + 1) % n = 0
      BY <2>1, Remainder
    <2> QED BY <1>1, <1>2, <1>3, <1>4, <2>2 DEF r, Along
  <1>5. CASE r # n - 1
    <2>1. n * q + r + 1 = n * q + (r + 1) /\ r + 1 \in 0 .. n - 1
      BY <1>1, <1>3, <1>5
    <2>2. (n * q + r + 1) % n # 0
      BY <1>1, <2>1, Remainder
    <2> QED BY <1>1, <1>2, <1>3, <1>5, <2>2 DEF r, Along
  <1> QED BY <1>4, <1>5

\* What is computed byte by byte is whatever starts and goes on likewise.
LEMMA WalkIs ==
  ASSUME NEW a, NEW limit, NEW h, Lanes \in Nat,
         h = [l \in 0 .. Lanes |-> IF l = 0 THEN a ELSE Along(h[l - 1], limit)]
  PROVE  \A l \in 0 .. Lanes : Walk(a, limit)[l] = h[l]
  <1> DEFINE at == Walk(a, limit)
             Same == {l \in Nat : at[l] = h[l]}
  <1>1. at = [l \in 0 .. Lanes |-> IF l = 0 THEN a ELSE Along(at[l - 1], limit)]
    BY DEF Walk
  <1> HIDE DEF at
  <1>2. 0 \in Same
    BY <1>1
  <1>3. ASSUME NEW n \in 0 .. Lanes - 1, n \in Same
        PROVE  n + 1 \in Same
    <2>1. n + 1 \in 0 .. Lanes /\ n + 1 # 0 /\ (n + 1) - 1 = n
      OBVIOUS
    <2>2. at[n + 1] = Along(at[n], limit) /\ h[n + 1] = Along(h[n], limit)
      BY <1>1, <2>1
    <2> QED BY <1>3, <2>1, <2>2
  <1>4. Same \in SUBSET Nat
    OBVIOUS
  <1>5. \A l \in 0 .. Lanes : l \in Same
    <2> HIDE DEF Same
    <2> QED BY <1>2, <1>3, <1>4, NatSetInduction
  <1> QED BY <1>5 DEF at

Burst == [kind : {"single", "unspec", "incr", "wrap"}, beats : Nat \ {0}]

\* Beat i is served at the bytes of the closed form, and leaves the address
\* of the beat after it.
LEMMA BeatWalk ==
  ASSUME NEW hburst \in Burst, NEW a \in Nat, NEW i \in Nat, Lanes \in Nat \ {0}
  PROVE  LET at == Walk(BeatByte(hburst, a, i, 0), boundary(hburst))
         IN  /\ \A l \in Lane : at[l] = BeatByte(hburst, a, i, l)
             /\ at[Lanes] = BeatByte(hburst, a, i + 1, 0)
  <1> DEFINE size == hburst.beats * Lanes
             q == a \div size
             first == a - size * q + Lanes * i
             h == [l \in 0 .. Lanes |-> BeatByte(hburst, a, i, l)]
             b == BeatByte(hburst, a, i, 0)
             limit == boundary(hburst)
  <1>0. hburst.beats \in Nat /\ hburst.beats # 0 /\ Lanes * i \in Nat
    BY DEF Burst
  <1>1. size \in Nat /\ size # 0
    BY <1>0, SMT
  <1>2. q \in Nat /\ a - size * q \in Nat
    <2> HIDE DEF size
    <2>1. q \in Nat /\ a % size \in Nat /\ a = size * q + (a % size)
      BY <1>1, Quotient
    <2>2. size * q \in Nat
      BY <1>1, <2>1
    <2> HIDE DEF q
    <2> QED BY <2>1, <2>2
  <1>3. first \in Nat
    <2> HIDE DEF q, size
    <2> DEFINE d == a - size * q
    <2>1. d \in Nat
      BY <1>2
    <2> HIDE DEF d
    <2>2. d + Lanes * i \in Nat
      BY <1>0, <2>1
    <2> QED BY <2>2 DEF d
  <1>4. \A l \in 0 .. Lanes :
          BeatByte(hburst, a, i, l) =
            IF hburst.kind = "wrap" THEN size * q + ((first + l) % size) ELSE a + Lanes * i + l
    BY DEF BeatByte
  <1>5. BeatByte(hburst, a, i + 1, 0) = BeatByte(hburst, a, i, Lanes)
    <2>1. Lanes * (i + 1) = Lanes * i + Lanes
      BY SMT
    <2> HIDE DEF q, size
    <2>2. a - size * q + Lanes * (i + 1) + 0 = a - size * q + Lanes * i + Lanes
      BY <2>1, <1>0, <1>1, <1>2
    <2>3. a + Lanes * (i + 1) + 0 = a + Lanes * i + Lanes
      BY <2>1, <1>0
    <2> USE DEF q, size
    <2> QED BY <2>2, <2>3 DEF BeatByte
  <1>6. ASSUME NEW l \in 0 .. Lanes, l # 0
        PROVE  h[l] = Along(h[l - 1], limit)
    <2>1. l - 1 \in 0 .. Lanes /\ (l - 1) + 1 = l
      BY <1>6
    <2>2. CASE hburst.kind = "wrap"
      <3> DEFINE k == first + (l - 1)
      <3>1. h[l] = size * q + ((first + l) % size) /\ h[l - 1] = size * q + (k % size)
        BY <1>4, <2>1, <2>2
      <3>2. limit = size
        BY <2>2 DEF boundary
      <3> HIDE DEF size, q, first, h, limit
      <3>3. k \in Nat /\ k + 1 = first + l
        BY <1>3, <1>6, <2>1
      <3> HIDE DEF k
      <3>4. Along(size * q + (k % size), size) = size * q + ((k + 1) % size)
        BY <1>1, <1>2, <3>3, AlongRegion
      <3> QED BY <3>1, <3>2, <3>3, <3>4
    <2>3. CASE hburst.kind # "wrap"
      <3>1. h[l] = a + Lanes * i + l /\ h[l - 1] = a + Lanes * i + (l - 1)
        BY <1>4, <2>1, <2>3
      <3>2. limit = 0
        BY <2>3 DEF boundary
      <3> HIDE DEF h, limit
      <3> QED BY <1>0, <1>6, <3>1, <3>2 DEF Along
    <2> QED BY <2>2, <2>3
  <1>7. h = [l \in 0 .. Lanes |-> IF l = 0 THEN b ELSE Along(h[l - 1], limit)]
    <2> DEFINE g == [l \in 0 .. Lanes |-> IF l = 0 THEN b ELSE Along(h[l - 1], limit)]
    <2>1. \A l \in 0 .. Lanes : h[l] = g[l]
      BY <1>6
    <2> QED BY <2>1
  <1> HIDE DEF size, q, first, b, limit
  <1>8. \A l \in 0 .. Lanes : Walk(b, limit)[l] = h[l]
    <2> HIDE DEF h
    <2> QED BY <1>7, WalkIs
  <1> QED BY <1>5, <1>8 DEF b, limit, Lane

\* A burst begins where it is told to.
LEMMA FirstByte ==
  ASSUME NEW hburst \in Burst, NEW a \in Nat, Lanes \in Nat \ {0}
  PROVE  BeatByte(hburst, a, 0, 0) = a
  <1> DEFINE size == hburst.beats * Lanes
             q == a \div size
             r == a - size * q
  <1>0. hburst.beats \in Nat /\ hburst.beats # 0
    BY DEF Burst
  <1>1. size \in Nat /\ size # 0
    BY <1>0, SMT
  <1>2. BeatByte(hburst, a, 0, 0) =
          IF hburst.kind = "wrap" THEN size * q + ((r + Lanes * 0 + 0) % size) ELSE a + Lanes * 0 + 0
    BY DEF BeatByte
  <1> HIDE DEF size
  <1>3. q \in Nat /\ a % size \in 0 .. size - 1 /\ a = size * q + (a % size)
    BY <1>1, Quotient
  <1>4. size * q \in Nat
    BY <1>1, <1>3
  <1> HIDE DEF q
  <1>5. r \in 0 .. size - 1 /\ size * q + r = a
    BY <1>1, <1>3, <1>4
  <1> HIDE DEF r
  <1>6. r % size = r
    BY <1>1, <1>5, SMT
  <1>7. r + Lanes * 0 + 0 = r /\ a + Lanes * 0 + 0 = a
    BY <1>5
  <1> QED BY <1>2, <1>5, <1>6, <1>7

\* A memory with the bytes of a beat in it.
BeatInto(mem, in, i) ==
  [x \in Cell |->
     LET to == {l \in Lane : BeatByte(in.hburst, in.haddr, i, l) = x}
     IN  IF in.hwrite /\ to # {} THEN in.hwdata[CHOOSE l \in to : TRUE] ELSE mem[x]]

AhbRegisters == {"state", "next", "len_count", "retaddr", "next_addr", "hready", "hresp",
                 "mem", "hrdata"}
AhbInputs == {"hsel", "hwrite", "haddr", "htrans", "hburst", "hwdata"}
AhbNotes == {"in", "phase", "beat", "golden", "transfers", "unspec"}

AhbDriven(in, i) ==
  /\ DOMAIN in = AhbInputs /\ in.hwrite \in BOOLEAN /\ in.haddr \in Nat
  /\ in.hburst \in Burst /\ i \in Nat /\ i < in.hburst.beats
  /\ in.hburst.kind = "single" => in.hburst.beats = 1

\* No burst is under way.
AhbRests(c, b) ==
  /\ ~c.hready /\ b.golden = c.mem /\ c.state \in {"idle", "check_mode"}
  /\ c.state = "idle" => c.next = "check_mode" /\ c.len_count = 0
  /\ c.state = "check_mode" => c.next \in {"idle", "addr_decode"}
  /\ b.phase = "idle" => ~b.in.hsel
  /\ b.in.hburst.kind = "unspec" \/ b.unspec \/ c.state = "idle" \/ ~b.in.hsel
  /\ ~b.in.hsel /\ c.state = "check_mode" => c.next = "idle"

\* What the latches hold of the burst while a beat of it is under way.
Latched(c, in, i) ==
  /\ in.hsel /\ in.htrans = IF i = 0 THEN "nonseq" ELSE "seq"
  /\ i > 0 => c.retaddr = BeatByte(in.hburst, in.haddr, i, 0)

\* Only an unspecified length puts the count out of step, or the check.
Counting(c, b) ==
  b.in.hburst.kind \in {"incr", "wrap"} /\ ~b.unspec =>
    c.len_count = b.beat /\ (b.beat > 0 => c.state # "idle" /\ b.in.haddr \in Cell)

AhbPends(c, b) ==
  /\ ~c.hready /\ c.state \in {"idle", "check_mode", "addr_decode"}
  /\ b.golden = BeatInto(c.mem, b.in, b.beat) /\ Latched(c, b.in, b.beat) /\ Counting(c, b)
  /\ c.state = "idle" => c.next = "check_mode"
  /\ c.state = "check_mode" => c.next = IF b.in.haddr \in Cell THEN "addr_decode" ELSE "idle"
  /\ c.state = "addr_decode" =>
       /\ c.next_addr = BeatByte(b.in.hburst, b.in.haddr, b.beat, 0)
       /\ c.next = IF b.in.hwrite THEN "write" ELSE "read"
       /\ b.in.haddr \in Cell \/ b.unspec

AhbServed(c, b) ==
  LET beat(i) == BeatByte(b.in.hburst, b.in.haddr, b.beat, i)
      more == b.beat + 1 < b.in.hburst.beats
  IN  /\ c.hready /\ c.state \in {"write", "read"} /\ c.next \in {"idle", "check_mode"}
      /\ b.golden = c.mem /\ b.in.hsel /\ (b.in.haddr \in Cell \/ b.unspec)
      /\ c.state = "read" =>
           \A l \in Lane : c.hrdata[l] = IF beat(l) \in Cell THEN c.mem[beat(l)] ELSE X
      /\ b.in.hburst.kind # "single" =>
           c.retaddr = BeatByte(b.in.hburst, b.in.haddr, b.beat + 1, 0)
      /\ b.in.hburst.kind = "single" => c.next = "idle"
      /\ b.in.hburst.kind \in {"incr", "wrap"} /\ ~b.unspec =>
           IF more THEN c.next = "check_mode" /\ c.len_count = b.beat + 1 ELSE c.next = "idle"

AhbInv ==
  /\ DOMAIN chip = AhbRegisters /\ DOMAIN bench = AhbNotes
  /\ chip.mem = [x \in Cell |-> chip.mem[x]] /\ AhbDriven(bench.in, bench.beat)
  /\ bench.unspec \in BOOLEAN /\ bench.phase \in {"idle", "beat", "next"}
  /\ IF bench.phase = "beat" THEN AhbPends(chip, bench) \/ AhbServed(chip, bench)
                             ELSE AhbRests(chip, bench)

LEMMA AhbConstants ==
  /\ Lanes \in Nat \ {0} /\ MemSize \in Nat /\ Addresses \subseteq Nat /\ Bursts \subseteq Burst
  /\ \A hburst \in Bursts : hburst.kind = "single" => hburst.beats = 1
  BY MemoriesAssumption DEF Burst

\* The outputs in the states that serve nothing.
AhbSettled(c, d, in) ==
  /\ DOMAIN c = AhbRegisters /\ c.state = d.state /\ c.mem = d.mem /\ c.retaddr = d.retaddr
  /\ d.state \in {"idle", "check_mode"} => ~c.hready
  /\ d.state = "addr_decode" => c.hready = d.hready
  /\ c.len_count = IF d.state = "idle" THEN 0 ELSE d.len_count
  /\ d.state = "idle" => c.next = "check_mode"
  /\ d.state = "check_mode" =>
       c.next = IF in.hsel /\ in.haddr \in Cell THEN "addr_decode" ELSE "idle"
  /\ d.state = "addr_decode" =>
       /\ c.next_addr = IF in.htrans = "nonseq" THEN in.haddr ELSE d.retaddr
       /\ c.next = IF in.hwrite THEN "write" ELSE "read"

LEMMA AhbSettles ==
  ASSUME NEW d, DOMAIN d = AhbRegisters, d.state \in {"idle", "check_mode", "addr_decode"},
         NEW in, NEW c, c = ahb_slave(d, in)
  PROVE  AhbSettled(c, d, in)
  <1> USE DEF AhbSettled
  <1>1. CASE d.state = "idle"
    BY <1>1 DEF ahb_slave, AhbRegisters
  <1>2. CASE d.state = "check_mode"
    BY <1>2 DEF ahb_slave, AhbRegisters
  <1>3. CASE d.state = "addr_decode"
    BY <1>3 DEF ahb_slave, AhbRegisters
  <1> QED BY <1>1, <1>2, <1>3

\* A beat that is served at address a.
LEMMA AhbServes ==
  ASSUME NEW d, DOMAIN d = AhbRegisters, NEW in, NEW a, NEW c, c = Served(d, in, a)
  PROVE  LET at == Walk(a, boundary(in.hburst))
             on == GoesOn(in.hburst, d.len_count)
         IN  /\ DOMAIN c = AhbRegisters /\ c.state = d.state /\ c.hready
             /\ c.retaddr = IF in.hburst.kind = "single" THEN a ELSE at[Lanes]
             /\ c.mem = IF d.state = "write" THEN ahb_wr(d.mem, at, in.hwdata) ELSE d.mem
             /\ d.state = "read" => c.hrdata = ahb_rd(d.mem, at)
             /\ c.next = IF on THEN "check_mode" ELSE "idle"
             /\ on => c.len_count = d.len_count + 1
  BY DEF Served, AhbRegisters

\* A beat that was due is in the memory, and what is read is what the
\* memory holds there.
LEMMA AhbCarries ==
  ASSUME NEW in, NEW i, AhbDriven(in, i), NEW mem, mem = [x \in Cell |-> mem[x]],
         NEW at, \A l \in Lane : at[l] = BeatByte(in.hburst, in.haddr, i, l)
  PROVE  /\ in.hwrite => ahb_wr(mem, at, in.hwdata) = BeatInto(mem, in, i)
         /\ ~in.hwrite => mem = BeatInto(mem, in, i)
         /\ \A l \in Lane : ahb_rd(mem, at)[l] =
              LET x == BeatByte(in.hburst, in.haddr, i, l) IN IF x \in Cell THEN mem[x] ELSE X
  <1>1. ASSUME NEW x \in Cell
        PROVE  {l \in Lane : at[l] = x} = {l \in Lane : BeatByte(in.hburst, in.haddr, i, l) = x}
    OBVIOUS
  <1>2. ASSUME in.hwrite
        PROVE  ahb_wr(mem, at, in.hwdata) = BeatInto(mem, in, i)
    <2>1. \A x \in Cell : ahb_wr(mem, at, in.hwdata)[x] = BeatInto(mem, in, i)[x]
      <3> TAKE x \in Cell
      <3> DEFINE to == {l \in Lane : at[l] = x}
      <3>1. to = {l \in Lane : BeatByte(in.hburst, in.haddr, i, l) = x}
        BY <1>1
      <3>2. ahb_wr(mem, at, in.hwdata)[x] =
              IF to = {} THEN mem[x] ELSE in.hwdata[CHOOSE l \in to : TRUE]
        BY DEF ahb_wr
      <3>3. BeatInto(mem, in, i)[x] =
              LET go == {l \in Lane : BeatByte(in.hburst, in.haddr, i, l) = x}
              IN  IF go # {} THEN in.hwdata[CHOOSE l \in go : TRUE] ELSE mem[x]
        BY <1>2 DEF BeatInto
      <3> HIDE DEF to
      <3> QED BY <3>1, <3>2, <3>3
    <2> QED BY <2>1 DEF ahb_wr, BeatInto
  <1>3. ~in.hwrite => mem = BeatInto(mem, in, i)
    BY DEF BeatInto
  <1>4. \A l \in Lane : ahb_rd(mem, at)[l] =
          LET x == BeatByte(in.hburst, in.haddr, i, l) IN IF x \in Cell THEN mem[x] ELSE X
    BY DEF ahb_rd
  <1> QED BY <1>2, <1>3, <1>4

LEMMA AhbEdged ==
  ASSUME AhbInv, NEW in, NEW phase, NEW i, NEW golden, NEW notes, DOMAIN notes = AhbNotes,
         AhbEdge(in, phase, i, golden, notes), NEW d, d = [chip EXCEPT !.state = chip.next]
  PROVE  /\ chip' = ahb_slave(d, in) /\ DOMAIN d = AhbRegisters /\ d.state = chip.next
         /\ d.mem = chip.mem /\ d.retaddr = chip.retaddr /\ d.len_count = chip.len_count
         /\ d.next_addr = chip.next_addr /\ d.hready = chip.hready
         /\ DOMAIN bench' = AhbNotes /\ bench'.in = in /\ bench'.phase = phase
         /\ bench'.beat = i /\ bench'.golden = golden /\ bench'.unspec = notes.unspec
  <1>1. chip' = ahb_slave(d, in)
    BY DEF AhbEdge, Edge
  <1>2. bench' = [notes EXCEPT !.in = in, !.phase = phase, !.beat = i, !.golden = golden]
    BY DEF AhbEdge, Edge
  <1>3. DOMAIN chip = AhbRegisters
    BY DEF AhbInv
  <1> QED BY <1>1, <1>2, <1>3 DEF AhbRegisters, AhbNotes

\* The next beat is due: so it is until the latches let it through.
LEMMA AhbDue ==
  ASSUME AhbInv, NEW d, DOMAIN d = AhbRegisters, NEW in, NEW i, AhbDriven(in, i),
         chip' = ahb_slave(d, in), d.state \in {"idle", "check_mode", "addr_decode"},
         d.mem = chip.mem, d.state = "addr_decode" => ~d.hready, Latched(d, in, i),
         DOMAIN bench' = AhbNotes, bench'.in = in, bench'.beat = i, bench'.phase = "beat",
         bench'.golden = BeatInto(chip.mem, in, i), bench'.unspec \in BOOLEAN,
         d.state = "addr_decode" => in.haddr \in Cell \/ bench'.unspec,
         in.hburst.kind \in {"incr", "wrap"} /\ ~bench'.unspec =>
           /\ d.len_count = i \/ (d.state = "idle" /\ i = 0)
           /\ i > 0 => d.state # "idle" /\ in.haddr \in Cell
  PROVE  AhbInv'
  <1> DEFINE c == chip'
             b == bench'
  <1>1. AhbSettled(c, d, in) /\ ~c.hready
    <2>1. AhbSettled(c, d, in)
      BY AhbSettles
    <2> QED BY <2>1 DEF AhbSettled
  <1>2. Latched(c, in, i)
    BY <1>1 DEF Latched, AhbSettled
  <1>3. Counting(c, b)
    BY <1>1 DEF Counting, AhbDriven, AhbSettled
  <1>4. c.mem = [x \in Cell |-> c.mem[x]]
    BY <1>1 DEF AhbInv, AhbSettled
  <1>5. ASSUME d.state = "addr_decode"
        PROVE  c.next_addr = BeatByte(in.hburst, in.haddr, i, 0)
    <2>1. CASE i = 0
      <3>1. c.next_addr = in.haddr
        BY <1>1, <1>5, <2>1 DEF Latched, AhbSettled
      <3>2. BeatByte(in.hburst, in.haddr, 0, 0) = in.haddr
        BY FirstByte, AhbConstants DEF AhbDriven
      <3> QED BY <2>1, <3>1, <3>2
    <2>2. CASE i # 0
      BY <1>1, <1>5, <2>2 DEF Latched, AhbDriven, AhbSettled
    <2> QED BY <2>1, <2>2
  <1> HIDE DEF c, b
  <1>6. AhbPends(c, b)
    BY <1>1, <1>2, <1>3, <1>5 DEF AhbPends, Latched, AhbSettled, b
  <1> QED BY <1>1, <1>4, <1>6 DEF AhbInv, AhbSettled, c, b

\* The beat that is due is served.
LEMMA AhbDone ==
  ASSUME AhbInv, bench.phase = "beat", AhbPends(chip, bench), chip.state = "addr_decode",
         AhbEdge(bench.in, "beat", bench.beat, bench.golden, bench)
  PROVE  AhbInv'
  <1> DEFINE d == [chip EXCEPT !.state = chip.next]
             in == bench.in
             i == bench.beat
             hburst == in.hburst
             a == BeatByte(hburst, in.haddr, i, 0)
             at == Walk(a, boundary(hburst))
             c == chip'
             b == bench'
  <1>1. /\ c = ahb_slave(d, in) /\ DOMAIN d = AhbRegisters /\ d.state = chip.next
        /\ d.mem = chip.mem /\ d.len_count = chip.len_count /\ d.next_addr = chip.next_addr
        /\ DOMAIN b = AhbNotes /\ b.in = in /\ b.phase = "beat"
        /\ b.beat = i /\ b.golden = bench.golden /\ b.unspec = bench.unspec
    <2> HIDE DEF d, c, b
    <2>1. d = [chip EXCEPT !.state = chip.next] /\ DOMAIN bench = AhbNotes
      BY DEF d, AhbInv
    <2> QED BY <2>1, AhbEdged DEF c, b
  <1>2. /\ AhbDriven(in, i) /\ hburst \in Burst /\ in.haddr \in Nat /\ i \in Nat
        /\ in.hwrite \in BOOLEAN /\ chip.mem = [x \in Cell |-> chip.mem[x]]
        /\ i < hburst.beats /\ hburst.beats \in Nat
    BY DEF AhbInv, AhbDriven, Burst
  <1>3. chip.next_addr = a /\ d.state = IF in.hwrite THEN "write" ELSE "read"
    BY <1>1 DEF AhbPends
  <1>4. c = Served(d, in, a)
    <2>1. CASE d.state = "write"
      BY <1>1, <1>3, <2>1 DEF ahb_slave
    <2>2. CASE d.state = "read" /\ hburst.kind # "single"
      BY <1>1, <1>3, <2>2 DEF ahb_slave
    <2>3. CASE d.state = "read" /\ hburst.kind = "single"
      <3>1. i = 0
        BY <1>2, <2>3 DEF AhbDriven
      <3>2. a = in.haddr
        BY <1>2, <3>1, FirstByte, AhbConstants
      <3> HIDE DEF a, d
      <3> QED BY <1>1, <2>3, <3>2 DEF ahb_slave
    <2> QED BY <1>3, <2>1, <2>2, <2>3
  <1> HIDE DEF d
  <1>5. /\ \A l \in Lane : at[l] = BeatByte(hburst, in.haddr, i, l)
        /\ at[Lanes] = BeatByte(hburst, in.haddr, i + 1, 0)
    BY <1>2, BeatWalk, AhbConstants
  <1> DEFINE on == GoesOn(hburst, d.len_count)
  <1>6. /\ DOMAIN c = AhbRegisters /\ c.state = d.state /\ c.hready
        /\ c.retaddr = IF hburst.kind = "single" THEN a ELSE at[Lanes]
        /\ c.mem = IF d.state = "write" THEN ahb_wr(d.mem, at, in.hwdata) ELSE d.mem
        /\ d.state = "read" => c.hrdata = ahb_rd(d.mem, at)
        /\ c.next = IF on THEN "check_mode" ELSE "idle"
        /\ on => c.len_count = d.len_count + 1
    <2> HIDE DEF c, a
    <2> QED BY <1>1, <1>4, AhbServes
  <1> DEFINE mem == chip.mem
  <1>7. /\ in.hwrite => ahb_wr(mem, at, in.hwdata) = BeatInto(mem, in, i)
        /\ ~in.hwrite => mem = BeatInto(mem, in, i)
        /\ \A l \in Lane : ahb_rd(mem, at)[l] =
             LET x == BeatByte(hburst, in.haddr, i, l) IN IF x \in Cell THEN mem[x] ELSE X
    <2> HIDE DEF mem, at
    <2>1. mem = [x \in Cell |-> mem[x]]
      BY <1>2 DEF mem
    <2> HIDE DEF in, i
    <2> QED BY <1>2, <1>5, <2>1, AhbCarries DEF hburst
  <1>8. b.golden = BeatInto(mem, in, i)
    BY <1>1 DEF AhbPends
  <1> HIDE DEF at, a, c, b, mem, on
  <1>9. c.mem = b.golden
    BY <1>1, <1>2, <1>3, <1>6, <1>7, <1>8 DEF mem
  <1>10. c.mem = [x \in Cell |-> c.mem[x]]
    BY <1>8, <1>9 DEF BeatInto
  <1>11. c.state = "read" =>
           \A l \in Lane : c.hrdata[l] =
              LET x == BeatByte(hburst, in.haddr, i, l) IN IF x \in Cell THEN c.mem[x] ELSE X
    BY <1>1, <1>3, <1>6, <1>7 DEF mem
  <1>12. /\ hburst.kind = "single" => c.next = "idle"
         /\ hburst.kind \in {"incr", "wrap"} /\ ~b.unspec =>
              IF i + 1 < hburst.beats THEN c.next = "check_mode" /\ c.len_count = i + 1
                                      ELSE c.next = "idle"
    <2>1. CASE hburst.kind = "single"
      BY <1>6, <2>1 DEF GoesOn, on
    <2>2. CASE hburst.kind \in {"incr", "wrap"} /\ ~b.unspec
      <3>1. d.len_count = i
        BY <1>1, <2>2 DEF AhbPends, Counting
      <3>2. on <=> i <= hburst.beats - 2
        BY <2>2, <3>1 DEF GoesOn, on
      <3>3. i <= hburst.beats - 2 <=> i + 1 < hburst.beats
        BY <1>2
      <3> QED BY <1>6, <2>2, <3>1, <3>2, <3>3
    <2> QED BY <2>1, <2>2
  <1>13. in.hsel /\ (in.haddr \in Cell \/ b.unspec)
    BY <1>1 DEF AhbPends, Latched
  <1>14. AhbServed(c, b)
    BY <1>1, <1>3, <1>5, <1>6, <1>9, <1>11, <1>12, <1>13 DEF AhbServed
  <1>15. b.unspec \in BOOLEAN
    BY <1>1 DEF AhbInv
  <1> QED BY <1>1, <1>2, <1>6, <1>10, <1>14, <1>15 DEF AhbInv, b, c

\* Between bursts the slave is idle or has begun a check.
LEMMA AhbIdles ==
  ASSUME AhbInv, NEW d, DOMAIN d = AhbRegisters, NEW in, NEW i, AhbDriven(in, i),
         chip' = ahb_slave(d, in), d.state \in {"idle", "check_mode"}, d.mem = chip.mem,
         DOMAIN bench' = AhbNotes, bench'.in = in, bench'.beat = i,
         bench'.phase \in {"idle", "next"}, bench'.phase = "idle" => ~in.hsel,
         bench'.golden = chip.mem, bench'.unspec \in BOOLEAN,
         in.hburst.kind = "unspec" \/ bench'.unspec \/ d.state = "idle" \/ ~in.hsel
  PROVE  AhbInv'
  <1>1. AhbSettled(chip', d, in)
    BY AhbSettles
  <1>2. AhbRests(chip', bench')
    BY <1>1 DEF AhbRests, AhbSettled
  <1> QED BY <1>1, <1>2 DEF AhbInv, AhbSettled

LEMMA AhbWaitsKeeps ==
  ASSUME AhbInv, AhbWaits
  PROVE  AhbInv'
  <1> DEFINE d == [chip EXCEPT !.state = chip.next]
             in == bench.in
             i == bench.beat
  <1>1. /\ chip' = ahb_slave(d, in) /\ DOMAIN d = AhbRegisters /\ d.state = chip.next
        /\ d.mem = chip.mem /\ d.retaddr = chip.retaddr /\ d.len_count = chip.len_count
        /\ d.next_addr = chip.next_addr /\ d.hready = chip.hready
        /\ DOMAIN bench' = AhbNotes /\ bench'.in = in /\ bench'.phase = bench.phase
        /\ bench'.beat = i /\ bench'.golden = bench.golden /\ bench'.unspec = bench.unspec
    <2>1. DOMAIN bench = AhbNotes
      BY DEF AhbInv
    <2>2. d = [chip EXCEPT !.state = chip.next]
      OBVIOUS
    <2> HIDE DEF d
    <2> QED BY <2>1, <2>2, AhbEdged DEF AhbWaits
  <1> HIDE DEF d
  <1>2. AhbDriven(in, i) /\ bench.unspec \in BOOLEAN
    BY DEF AhbInv
  <1>3. CASE bench.phase = "idle"
    <2>1. AhbRests(chip, bench) /\ ~in.hsel
      BY <1>3 DEF AhbInv, AhbRests
    <2>2. d.state \in {"idle", "check_mode"}
      BY <1>1, <2>1 DEF AhbRests
    <2>3. bench'.golden = chip.mem
      BY <1>1, <2>1 DEF AhbRests
    <2> HIDE DEF in, i
    <2> QED BY <1>1, <1>2, <1>3, <2>1, <2>2, <2>3, AhbIdles
  <1>4. CASE bench.phase = "beat" /\ ~chip.hready
    <2>1. AhbPends(chip, bench)
      BY <1>4 DEF AhbInv, AhbServed
    <2>2. CASE chip.state = "addr_decode"
      BY <1>4, <2>1, <2>2, AhbDone DEF AhbWaits
    <2>3. CASE chip.state \in {"idle", "check_mode"}
      <3>1. /\ d.state \in {"idle", "check_mode", "addr_decode"}
            /\ d.state = "addr_decode" => in.haddr \in Cell
            /\ chip.state = "check_mode" /\ in.haddr \in Cell => d.state = "addr_decode"
            /\ chip.state = "idle" => d.state = "check_mode"
        BY <1>1, <2>1, <2>3 DEF AhbPends
      <3>2. Latched(d, in, i) /\ bench'.golden = BeatInto(chip.mem, in, i)
        BY <1>1, <2>1 DEF AhbPends, Latched
      <3>3. in.hburst.kind \in {"incr", "wrap"} /\ ~bench'.unspec =>
              /\ d.len_count = i \/ (d.state = "idle" /\ i = 0)
              /\ i > 0 => d.state # "idle" /\ in.haddr \in Cell
        BY <1>1, <2>1, <2>3, <3>1 DEF AhbPends, Counting
      <3> HIDE DEF in, i
      <3> QED BY <1>1, <1>2, <1>4, <3>1, <3>2, <3>3, AhbDue
    <2> QED BY <2>1, <2>2, <2>3 DEF AhbPends
  <1> QED BY <1>3, <1>4 DEF AhbWaits

LEMMA AhbEndsKeeps ==
  ASSUME AhbInv, AhbEnds
  PROVE  AhbInv'
  <1> DEFINE d == [chip EXCEPT !.state = chip.next]
             in == bench.in
             i == bench.beat
  <1>1. /\ chip' = ahb_slave(d, in) /\ DOMAIN d = AhbRegisters /\ d.state = chip.next
        /\ d.mem = chip.mem /\ DOMAIN bench' = AhbNotes /\ bench'.in = in
        /\ bench'.phase = "next" /\ bench'.beat = i /\ bench'.golden = bench.golden
        /\ bench'.unspec = bench.unspec
    <2>1. DOMAIN bench = AhbNotes
      BY DEF AhbInv
    <2>2. d = [chip EXCEPT !.state = chip.next]
      OBVIOUS
    <2>3. AhbEdge(in, "next", i, bench.golden, bench)
      BY DEF AhbEnds
    <2> HIDE DEF d, in, i
    <2> QED BY <2>1, <2>2, <2>3, AhbEdged
  <1> HIDE DEF d
  <1>2. AhbDriven(in, i) /\ bench.unspec \in BOOLEAN
    BY DEF AhbInv
  <1>3. AhbServed(chip, bench) /\ ~(i + 1 < in.hburst.beats)
    BY <1>2 DEF AhbEnds, AhbInv, AhbPends, AhbDriven, Burst
  <1>4. d.state \in {"idle", "check_mode"} /\ bench'.golden = chip.mem
    BY <1>1, <1>3 DEF AhbServed
  <1>5. in.hburst.kind = "unspec" \/ bench'.unspec \/ d.state = "idle" \/ ~in.hsel
    BY <1>1, <1>2, <1>3 DEF AhbServed, AhbDriven, Burst
  <1> HIDE DEF in, i
  <1> QED BY <1>1, <1>2, <1>4, <1>5, AhbIdles

LEMMA AhbNextKeeps ==
  ASSUME AhbInv, AhbNextBeat
  PROVE  AhbInv'
  <1> DEFINE d == [chip EXCEPT !.state = chip.next]
             j == bench.beat
  <1>0. PICK in, i : /\ i = j + 1
                     /\ in = [bench.in EXCEPT !.htrans = "seq", !.hwdata = Beat(bench.transfers, i)]
    OBVIOUS
  <1>1. /\ chip' = ahb_slave(d, in) /\ DOMAIN d = AhbRegisters /\ d.state = chip.next
        /\ d.mem = chip.mem /\ d.retaddr = chip.retaddr /\ d.len_count = chip.len_count
        /\ d.next_addr = chip.next_addr /\ d.hready = chip.hready
        /\ DOMAIN bench' = AhbNotes /\ bench'.in = in /\ bench'.phase = "beat"
        /\ bench'.beat = i /\ bench'.golden = BeatStored(in, i) /\ bench'.unspec = bench.unspec
    <2>1. DOMAIN bench = AhbNotes
      BY DEF AhbInv
    <2>2. d = [chip EXCEPT !.state = chip.next]
      OBVIOUS
    <2>3. AhbEdge(in, "beat", i, BeatStored(in, i), bench)
      BY <1>0 DEF AhbNextBeat
    <2> HIDE DEF d
    <2>4. PICK golden : golden = BeatStored(in, i)
      OBVIOUS
    <2> QED BY <2>1, <2>2, <2>3, <2>4, AhbEdged
  <1> HIDE DEF d
  <1>2. AhbDriven(bench.in, j) /\ bench.unspec \in BOOLEAN
    BY DEF AhbInv
  <1>3. AhbServed(chip, bench) /\ j + 1 < bench.in.hburst.beats
    BY DEF AhbNextBeat, AhbInv, AhbPends
  <1>4. /\ DOMAIN in = AhbInputs /\ in.hwrite = bench.in.hwrite /\ in.haddr = bench.in.haddr
        /\ in.hburst = bench.in.hburst /\ in.hsel = bench.in.hsel /\ in.htrans = "seq"
    BY <1>0, <1>2 DEF AhbDriven, AhbInputs
  <1>5. AhbDriven(in, i) /\ i > 0
    BY <1>0, <1>2, <1>3, <1>4 DEF AhbDriven
  <1>6. in.hburst.kind # "single"
    BY <1>2, <1>3, <1>4 DEF AhbDriven
  <1>7. d.retaddr = BeatByte(in.hburst, in.haddr, i, 0)
    BY <1>0, <1>1, <1>3, <1>4, <1>6 DEF AhbServed
  <1>8. Latched(d, in, i)
    BY <1>3, <1>4, <1>5, <1>7 DEF AhbServed, Latched
  <1>9. bench'.golden = BeatInto(chip.mem, in, i)
    BY <1>1, <1>3 DEF BeatStored, BeatInto, AhbServed
  <1>10. d.state \in {"idle", "check_mode"}
    BY <1>1, <1>3 DEF AhbServed
  <1>11. in.hburst.kind \in {"incr", "wrap"} /\ ~bench'.unspec =>
           /\ d.len_count = i \/ (d.state = "idle" /\ i = 0)
           /\ i > 0 => d.state # "idle" /\ in.haddr \in Cell
    BY <1>0, <1>1, <1>3, <1>4 DEF AhbServed
  <1> QED BY <1>1, <1>2, <1>5, <1>8, <1>9, <1>10, <1>11, AhbDue

\* A new burst begins in whatever state the last one has left.
LEMMA AhbStartsKeeps ==
  ASSUME AhbInv, AhbStarts
  PROVE  AhbInv'
  <1> DEFINE d == [chip EXCEPT !.state = chip.next]
             unspec == bench.unspec \/ bench.in.hburst.kind = "unspec"
  <1>0. PICK write \in BOOLEAN, addr \in Addresses, hburst \in Bursts :
          LET in == [hsel |-> TRUE, hwrite |-> write, haddr |-> addr, htrans |-> "nonseq",
                     hburst |-> hburst, hwdata |-> Beat(Data, 0)]
          IN  AhbEdge(in, "beat", 0, BeatStored(in, 0),
                      [OneMore EXCEPT !.unspec = @ \/ bench.in.hburst.kind = "unspec"])
    BY DEF AhbStarts
  <1>1. PICK in : in = [hsel |-> TRUE, hwrite |-> write, haddr |-> addr, htrans |-> "nonseq",
                        hburst |-> hburst, hwdata |-> Beat(Data, 0)]
    OBVIOUS
  <1>2. PICK notes : notes = [OneMore EXCEPT !.unspec = @ \/ bench.in.hburst.kind = "unspec"]
    OBVIOUS
  <1>3. PICK golden : golden = BeatStored(in, 0)
    OBVIOUS
  <1>4. AhbEdge(in, "beat", 0, golden, notes)
    BY <1>0, <1>1, <1>2, <1>3
  <1>5. DOMAIN notes = AhbNotes /\ notes.unspec = unspec
    <2>1. DOMAIN bench = AhbNotes
      BY DEF AhbInv
    <2>2. DOMAIN OneMore = AhbNotes /\ OneMore.unspec = bench.unspec
      BY <2>1 DEF OneMore, AhbNotes
    <2> QED BY <1>2, <2>2 DEF AhbNotes
  <1>6. /\ chip' = ahb_slave(d, in) /\ DOMAIN d = AhbRegisters /\ d.state = chip.next
        /\ d.mem = chip.mem /\ d.retaddr = chip.retaddr /\ d.len_count = chip.len_count
        /\ d.next_addr = chip.next_addr /\ d.hready = chip.hready
        /\ DOMAIN bench' = AhbNotes /\ bench'.in = in /\ bench'.phase = "beat"
        /\ bench'.beat = 0 /\ bench'.golden = golden /\ bench'.unspec = unspec
    <2>1. d = [chip EXCEPT !.state = chip.next]
      OBVIOUS
    <2> HIDE DEF d, unspec
    <2> QED BY <2>1, <1>4, <1>5, AhbEdged
  <1> HIDE DEF d
  <1>7. AhbDriven(in, 0)
    BY <1>1, AhbConstants DEF AhbDriven, AhbInputs, Burst
  <1>8. AhbRests(chip, bench) /\ bench.unspec \in BOOLEAN
    BY DEF AhbStarts, AhbInv
  <1>9. Latched(d, in, 0)
    BY <1>1 DEF Latched
  <1>10. golden = BeatInto(chip.mem, in, 0)
    BY <1>3, <1>8 DEF BeatStored, BeatInto, AhbRests
  <1>11. /\ d.state \in {"idle", "check_mode", "addr_decode"}
         /\ d.state = "addr_decode" => ~d.hready /\ bench'.unspec
    BY <1>6, <1>8 DEF AhbRests
  <1>12. ~bench'.unspec => d.len_count = 0 \/ d.state = "idle"
    BY <1>6, <1>8 DEF AhbRests
  <1>13. bench'.unspec \in BOOLEAN
    BY <1>6, <1>8
  <1> HIDE DEF unspec
  <1> QED BY <1>6, <1>7, <1>9, <1>10, <1>11, <1>12, <1>13, AhbDue

LEMMA AhbInits ==
  ASSUME AhbInit
  PROVE  AhbInv
  <1> DEFINE d == [state |-> "idle", next |-> "idle", len_count |-> 0, retaddr |-> X,
                   next_addr |-> X, hready |-> FALSE, hresp |-> "okay",
                   mem |-> Filled(Default), hrdata |-> [l \in Lane |-> X]]
  <1>1. /\ chip = ahb_slave(d, AhbOff)
        /\ bench = [in |-> AhbOff, phase |-> "idle", beat |-> 0, golden |-> Filled(Default),
                    transfers |-> 0, unspec |-> FALSE]
    BY DEF AhbInit, Powered
  <1>2. DOMAIN d = AhbRegisters /\ d.state = "idle" /\ d.mem = Filled(Default)
    BY DEF AhbRegisters
  <1> HIDE DEF d
  <1>3. AhbSettled(chip, d, AhbOff)
    BY <1>1, <1>2, AhbSettles
  <1>4. AhbDriven(AhbOff, 0)
    BY DEF AhbDriven, AhbOff, AhbInputs, Burst
  <1>5. chip.mem = [x \in Cell |-> chip.mem[x]]
    BY <1>2, <1>3 DEF AhbSettled, Filled
  <1>6. AhbRests(chip, bench)
    BY <1>1, <1>2, <1>3 DEF AhbSettled, AhbRests, AhbOff
  <1> QED BY <1>1, <1>3, <1>4, <1>5, <1>6 DEF AhbInv, AhbSettled, AhbNotes

LEMMA AhbKeeps ==
  ASSUME AhbInv, AhbStep
  PROVE  AhbInv'
  BY AhbWaitsKeeps, AhbNextKeeps, AhbEndsKeeps, AhbStartsKeeps DEF AhbStep, AhbClock

LEMMA AhbAnswersAll == AhbInv => AhbAnswers
  BY DEF AhbInv, AhbServed, AhbPends, AhbRests, AhbAnswers

-----------------------------------------------------------------------------
(* All devices.                                                            *)

BusesInv ==
  /\ device \in {"uart", "twoUarts", "spi", "i2c", "hasher", "registers",
                 "apb", "wishbone", "ahb"}
  /\ device \in {"uart", "twoUarts"} => UartInv
  /\ device = "spi" => SpiInv
  /\ device = "i2c" => I2cInv /\ CellsInv
  /\ device = "apb" => ApbInv
  /\ device = "wishbone" => WbInv
  /\ device = "ahb" => AhbInv
  /\ device = "hasher" => HasherInv
  /\ device = "registers" => RegistersInv

LEMMA DeviceStays ==
  ASSUME Next
  PROVE  device' = device
  <1>1. CASE UartStep \/ TxTicks \/ RxTicks \/ SpiStep
    BY <1>1 DEF UartStep, UartClock, TxTicks, TxClock, RxTicks, RxClock, UartTicks,
                SpiStep, SpiClock, SpiEdge, Edge
  <1>2. CASE I2cStep \/ ApbStep \/ WbStep
    BY <1>2 DEF I2cStep, I2cClock, Serves, ApbStep, Apb, WbStep, WbClock, WbEdge, Edge
  <1>3. CASE AhbStep
    BY <1>3 DEF AhbStep, AhbClock, AhbWaits, AhbNextBeat, AhbEnds, AhbStarts, AhbEdge, Edge
  <1>4. CASE HasherStep \/ RegistersStep
    BY <1>4 DEF HasherStep, HasherClock, HasherEdge, RegistersStep, Edge
  <1>5. CASE AhbAtRest
    BY <1>5 DEF AhbAtRest, vars
  <1> QED BY <1>1, <1>2, <1>3, <1>4, <1>5 DEF Next

\* A step is one of the device that is simulated.
LEMMA WhoseStep ==
  ASSUME Next
  PROVE  /\ device \in {"uart", "twoUarts"} => UartStep \/ TxTicks \/ RxTicks
         /\ device = "spi" => SpiStep
         /\ device = "i2c" => I2cStep
         /\ device = "hasher" => HasherStep
         /\ device = "registers" => RegistersStep
         /\ device = "apb" => ApbStep
         /\ device = "wishbone" => WbStep
         /\ device = "ahb" => AhbStep \/ UNCHANGED vars
  <1>1. UartStep \/ TxTicks \/ RxTicks => device \in {"uart", "twoUarts"}
    BY DEF UartStep, UartClock, TxTicks, TxClock, RxTicks, RxClock, Turns
  <1>2. SpiStep => device = "spi"
    BY DEF SpiStep, SpiClock
  <1>3. I2cStep => device = "i2c"
    BY DEF I2cStep, I2cClock
  <1>4. HasherStep => device = "hasher"
    BY DEF HasherStep, HasherClock
  <1>5. RegistersStep => device = "registers"
    BY DEF RegistersStep
  <1>6. ApbStep => device = "apb"
    BY DEF ApbStep, Apb
  <1>7. WbStep => device = "wishbone"
    BY DEF WbStep, WbClock
  <1>8. AhbStep \/ AhbAtRest => device = "ahb"
    BY DEF AhbStep, AhbClock, AhbAtRest
  <1>9. AhbAtRest => UNCHANGED vars
    BY DEF AhbAtRest
  <1> QED BY <1>1, <1>2, <1>3, <1>4, <1>5, <1>6, <1>7, <1>8, <1>9 DEF Next

LEMMA BusesStart == Init => BusesInv
  <1>1. /\ UartInit => device \in {"uart", "twoUarts"}
        /\ SpiInit => device = "spi"
        /\ I2cInit => device = "i2c"
        /\ HasherInit => device = "hasher"
        /\ RegistersInit => device = "registers"
        /\ ApbInit => device = "apb"
        /\ WbInit => device = "wishbone"
        /\ AhbInit => device = "ahb"
    BY DEF UartInit, SpiInit, I2cInit, HasherInit, RegistersInit, ApbInit, WbInit, AhbInit, Powered
  <1> QED BY <1>1, UartStarts, SpiStarts, I2cStarts, CellsStarts, HasherStarts, RegistersStart,
             ApbStarts, WbStarts, AhbInits
          DEF Init, BusesInv

LEMMA BusesStutter ==
  ASSUME BusesInv, UNCHANGED vars
  PROVE  BusesInv'
  <1>1. device' = device /\ chip' = chip /\ bench' = bench
    BY DEF vars
  <1>2. UartInv => UartInv'
    BY <1>1 DEF UartInv, Worded, UartWord
  <1>3. (SpiInv => SpiInv') /\ (HasherInv => HasherInv')
    BY <1>1 DEF SpiInv, HasherInv
  <1>4. (I2cInv => I2cInv') /\ (CellsInv => CellsInv') /\ (RegistersInv => RegistersInv')
    BY <1>1 DEF I2cInv, CellsInv, RegistersInv
  <1>5. (ApbInv => ApbInv') /\ (WbInv => WbInv') /\ (AhbInv => AhbInv')
    BY <1>1 DEF ApbInv, WbInv, AhbInv
  <1> QED BY <1>1, <1>2, <1>3, <1>4, <1>5 DEF BusesInv

LEMMA BusesKeep ==
  ASSUME BusesInv, Next
  PROVE  BusesInv'
  <1>1. device' = device
    BY DeviceStays
  <1>2. CASE UNCHANGED vars
    BY <1>2, BusesStutter
  <1>3. CASE ~(UNCHANGED vars)
    <2>1. /\ device \in {"uart", "twoUarts"} => UartInv'
          /\ device = "spi" => SpiInv'
          /\ device = "i2c" => I2cInv' /\ CellsInv'
          /\ device = "hasher" => HasherInv'
          /\ device = "registers" => RegistersInv'
      BY WhoseStep, UartKeeps, SpiKeeps, I2cKeeps, CellsKeep, HasherKeeps, RegistersKeep
         DEF BusesInv
    <2>2. /\ device = "apb" => ApbInv'
          /\ device = "wishbone" => WbInv'
          /\ device = "ahb" => AhbInv'
      BY <1>3, WhoseStep, ApbKeeps, WbKeeps, AhbKeeps DEF BusesInv
    <2> QED BY <1>1, <2>1, <2>2 DEF BusesInv
  <1> QED BY <1>2, <1>3

LEMMA BusesInvariant == Spec => []BusesInv
  <1>1. Init => BusesInv
    BY BusesStart
  <1>2. BusesInv /\ [Next]_vars => BusesInv'
    BY BusesKeep, BusesStutter
  <1> QED BY <1>1, <1>2, PTL DEF Spec

\* What is sent comes out, what is asked is answered, and the I2C bus stays
\* in step: words, hashes and acknowledgements of any length and number,
\* however steps of the two ends, pauses and resets alternate (uart.sv:169,
\* spi_slave.sv:108, i2c.sv:464, Hasher.sv:182, MinerConfig.sv:98).
THEOREM BusesExchange == Spec => []Exchanged
  <1>1. BusesInv => Exchanged
    BY UartLinked, SpiLinked, I2cInStep, HasherHashed
       DEF BusesInv, Exchanged, Linked, SerialDevices, InStep, Hashed, Acknowledged, RegistersInv
  <1> QED BY <1>1, BusesInvariant, PTL

\* What the accesses to the memories do, for memories, beats and bursts of any
\* size.  APB and AHB: a read gives what the writes before it have left, a burst
\* of AHB at the addresses its own kind prescribes, no other cell changes, and
\* what is beyond the memory is refused, but for bursts after one of unspecified
\* length (apb_ram.sv:60, ahb.sv:428).  Wishbone: a write is in memory when it
\* is acknowledged and forgotten at the next request, so that every read gives
\* 0x11 (whishbone.sv:52).  I2C: a read gives what was written as long as no
\* reset has come while w_mem was high (i2c.sv:334).
THEOREM BusesRemember == Spec => []Remembered
  <1>1. BusesInv => Remembered
    <2> SUFFICES ASSUME BusesInv PROVE Remembered
      OBVIOUS
    <2>1. device = "i2c" => CellsKept
      BY CellsAnswered DEF BusesInv
    <2>2. device = "apb" => ApbAnswers
      BY ApbAnswersAll DEF BusesInv
    <2>3. device = "wishbone" => WbAnswers
      BY WbAnswersAll DEF BusesInv
    <2>4. device = "ahb" => AhbAnswers
      BY AhbAnswersAll DEF BusesInv
    <2> QED BY <2>1, <2>2, <2>3, <2>4
            DEF Remembered, CellsKept, ApbAnswers, WbAnswers, AhbAnswers
  <1> QED BY <1>1, BusesInvariant, PTL
=============================================================================
