----------------------------- MODULE AxiProofs -----------------------------
(***************************************************************************)
(* Proofs about Axi.  A burst is served beat by beat: the walk over its    *)
(* bytes is compared with the closed form (BeatWalk), then the driver and  *)
(* each half of the slave are shown to be at the same beat.                *)
(***************************************************************************)
EXTENDS Axi, DataTheorems

BeatStart(i) == BeatByte(t.burst, t.len, t.addr, i, 0)

\* What the slave can count: its counters hold as many beats as a burst has.
Counts == \A txn \in Txns : txn.len + 1 < LenRange
\* The bursts that write are of one length.
OneLength ==
  \A txn, other \in Txns : txn.kind = "write" /\ other.kind = "write" => txn.len = other.len
\* The driver holds rready high.
Ready == RReady = {TRUE}

-----------------------------------------------------------------------------
InFields == {"awvalid", "awaddr", "awlen", "awburst", "awsize", "wvalid", "wdata", "wlast",
             "bready", "arvalid", "araddr", "arlen", "arburst", "arsize", "rready"}
WFields == {"wready", "first", "wlen_count", "wdatat", "nextaddr", "retaddr"}
RFields == {"rnext", "rvalid", "rlast", "rresp", "rdata", "rdfirst", "len_count",
            "rdnextaddr", "rdretaddr"}

\* Which fields there are; wlast is up for one phase of the driver.
Shapes ==
  /\ DOMAIN in = InFields /\ DOMAIN w = WFields /\ DOMAIN r = RFields
  /\ DOMAIN b = {"bvalid", "bresp"} /\ DOMAIN drv = {"phase", "txn", "i"}
  /\ DOMAIN count = {"txns", "resets"}
  /\ in.wlast <=> drv.phase = "wlast"

\* The response channel waits for wlast and then answers.
RespInv ==
  /\ drv.phase = "wlast" => bstate = "bdetect_last"
  /\ drv.phase = "wresp" => bstate \in {"bstart", "bwait"} /\ b.bvalid
  /\ drv.phase # "wresp" => bstate \in {"bidle", "bdetect_last"} /\ ~b.bvalid

\* The data channel rests outside of bursts, and wready is up in one state.
WControl ==
  /\ w.wready <=> wstate = "wreadys"
  /\ drv.phase = "write" => wstate \in {"wvalids", "wstart", "waddr_dec", "wreadys"}
  /\ drv.phase = "wlast" => wstate = "wvalids"
  /\ drv.phase \notin {"write", "wlast"} => wstate \in {"widle", "wstart"} /\ ~in.wvalid

\* The beats are counted up to the length, or still are from the burst before.
Counted == \E txn \in Txns : txn.kind = "write" /\ w.wlen_count = txn.len + 1
WCounts(i) ==
  IF w.first /\ w.wlen_count = t.len + 1 THEN TRUE
  ELSE /\ w.wlen_count = i
       /\ w.first <=> i > 0 \/ wstate \in {"waddr_dec", "wreadys"}

\* The master drives beat i.
Driven(i) ==
  /\ t \in Txns /\ t.kind = "write" /\ i \in 0 .. t.len
  /\ in.wvalid /\ in.awlen = t.len /\ in.awburst = t.burst /\ in.awsize = 2
  /\ in.wdata = Word(count.txns, i) /\ in.awaddr = BeatStart(i)

\* The beats before i are stored, and i too once wready is up; the channel
\* knows where the next one goes.
WStores(i) ==
  /\ Driven(i) /\ WCounts(i)
  /\ mem = StoredTo(IF wstate = "wreadys" THEN i + 1 ELSE i)
  /\ wstate = "wreadys" => w.retaddr = BeatStart(i + 1)
  /\ wstate # "wreadys" /\ i > 0 => w.retaddr = BeatStart(i)
  /\ wstate = "wvalids" => i > 0
  /\ wstate \in {"wstart", "waddr_dec"} => w.wdatat = in.wdata
  /\ wstate = "waddr_dec" => w.nextaddr = BeatStart(i)

WriteInv ==
  /\ golden = [x \in Addr |-> golden[x]]
  /\ drv.phase = "write" => WStores(drv.i)
  /\ drv.phase # "write" => mem = golden
  /\ drv.phase = "wlast" => w.first
  /\ drv.phase # "write" => IF w.first THEN Counted ELSE w.wlen_count = 0

-----------------------------------------------------------------------------
(* The read half: at rest, then round and round one beat after the other   *)
(* (begins, serves, waits, goes on), in step with the address channel.     *)

RRests ==
  /\ rstate = "ridle" /\ r.rnext = "ridle" /\ ~in.arvalid
  /\ ~r.rvalid /\ ~r.rdfirst /\ r.len_count = 0
  /\ arstate = "arreadys" => drv.phase = "pause"
  /\ drv.phase \in {"write", "wlast", "wresp"} => t.kind = "write"
  /\ BeatsDelivered

Asked ==
  /\ t \in Txns /\ t.kind = "read" /\ in.arvalid /\ in.arlen = t.len
  /\ in.arburst = t.burst /\ in.arsize = 2 /\ in.rready
  /\ drv.phase \in {"read", "rlast"} /\ drv.i \in 0 .. t.len

RBegins ==
  /\ arstate = "arstart" /\ rstate = "ridle" /\ r.rnext = "rstart" /\ ~r.rdfirst /\ ~r.rvalid
  /\ drv.phase = "read" /\ drv.i = 0 /\ got = 0
  /\ in.araddr = BeatStart(0) /\ araddrt = in.araddr

\* The word that beat i finds in memory m.
BeatRead(txn, i, word, m) ==
  \A l \in Lane :
    LET x == BeatByte(txn.burst, txn.len, txn.addr, i, l)
    IN  word[l] = IF x \in Addr THEN m[x] ELSE Unknown

RServes ==
  /\ arstate = "arreadys" /\ rstate = "rstart" /\ r.rnext = "rwait" /\ r.rdfirst /\ r.rvalid
  /\ drv.phase = "read" /\ got = drv.i + 1 /\ r.len_count = drv.i
  /\ in.araddr = BeatStart(drv.i) /\ araddrt = in.araddr
  /\ t.burst # "fixed" => r.rdretaddr = BeatStart(drv.i + 1)
  /\ BeatRead(t, drv.i, r.rdata, mem)

\* A beat is over: the next one is asked for, or it was the last.
Advanced ==
  /\ r.rdfirst /\ ~r.rvalid /\ r.len_count = got /\ got \in 1 .. Beats
  /\ IF got = Beats THEN drv.phase = "rlast" /\ r.rlast
     ELSE /\ drv.phase = "read" /\ drv.i = got /\ in.araddr = BeatStart(got)
          /\ t.burst # "fixed" => r.rdretaddr = BeatStart(got)
RWaits == arstate = "aridle" /\ rstate = "rwait" /\ r.rnext = "rvalids" /\ Advanced
RGoesOn ==
  /\ arstate = "arstart" /\ rstate = "rvalids" /\ Advanced
  /\ r.rnext = IF got = Beats THEN "ridle" ELSE "rstart"
  /\ got # Beats => araddrt = in.araddr

\* The burst has left memory and does not come back.
RRefused ==
  /\ ~r.rvalid /\ araddrt \in Nat \ Addr /\ in.araddr \in Nat \ Addr /\ ~Within
  /\ t.burst = "fixed" => BeatStart(0) = in.araddr
  /\ t.burst = "incr" /\ drv.phase = "read" => BeatStart(drv.i) = in.araddr

ReadInv ==
  /\ arstate \in {"aridle", "arstart", "arreadys"} /\ (arready <=> arstate = "arreadys")
  /\ IF drv.phase \in {"read", "rlast"}
       THEN Asked /\ (RBegins \/ RServes \/ RWaits \/ RGoesOn \/ RRefused)
       ELSE RRests
-----------------------------------------------------------------------------
(* The bytes of a burst.                                                   *)

Bursts == {"fixed", "incr", "wrap"}

LEMMA SmallRemainder ==
  ASSUME NEW n \in Nat, NEW k \in Nat, k < n
  PROVE  k % n = k
  BY SMT

LEMMA Constants ==
  /\ MemSize \in Nat /\ MemSize # 0 /\ AddrRange \in Nat /\ LenRange \in Nat
  /\ AwSize = 2 /\ ArSize = 2
  /\ \A txn \in Txns :
       /\ txn.kind \in {"write", "read"} /\ txn.burst \in Bursts /\ txn.len \in Nat
       /\ txn.addr \in Nat /\ txn.addr + 4 * (txn.len + 1) < AddrRange
  BY AxiAssumption DEF Bursts

LEMMA Region == \A len \in Nat : wrap_boundary(len, 2) = 4 * (len + 1)
  <1>1. 2^2 = 4
    BY SMT
  <1> QED BY <1>1, SMT DEF wrap_boundary

\* One byte further, in a region that begins at a multiple of its size.
LEMMA AfterRegion ==
  ASSUME NEW n \in Nat, n # 0, NEW q \in Nat, NEW k \in Nat, n * q + n < AddrRange
  PROVE  After(n * q + (k % n), n) = n * q + ((k + 1) % n)
  <1> DEFINE e == k % n
  <1>1. e \in 0 .. n - 1
    BY Quotient
  <1>2. (k + 1) % n = IF e = n - 1 THEN 0 ELSE e + 1
    BY NextRemainder
  <1>3. n * q \in Nat /\ n * (q + 1) = n * q + n /\ AddrRange \in Nat
    BY Constants, SMT
  <1> HIDE DEF e
  <1>4. (n * q + e + 1) % AddrRange = n * q + e + 1 /\ (n * q) % AddrRange = n * q
    BY <1>1, <1>3, SmallRemainder
  <1>5. CASE e = n - 1
    <2>1. n * q + e + 1 = n * (q + 1) + 0
      BY <1>1, <1>3, <1>5
    <2>2. (n * q + e + 1) % n = 0
      BY <2>1, Remainder
    <2>3. n * q + e + 1 - n = n * q
      BY <1>1, <1>3, <1>5
    <2> QED BY <1>1, <1>2, <1>3, <1>4, <1>5, <2>2, <2>3 DEF e, After
  <1>6. CASE e # n - 1
    <2>1. n * q + e + 1 = n * q + (e + 1) /\ e + 1 \in 0 .. n - 1
      BY <1>1, <1>3, <1>6
    <2>2. (n * q + (e + 1)) % n = e + 1
      BY <2>1, Remainder
    <2>3. (n * q + e + 1) % n # 0
      BY <1>1, <2>1, <2>2
    <2> QED BY <1>1, <1>2, <1>3, <1>4, <1>6, <2>1, <2>3 DEF e, After
  <1> QED BY <1>5, <1>6

\* A byte of a burst, by what its address depends on: the region that begins
\* at q times its size n, and how far into it the beat begins.
Spot(burst, a, i, n, q, f, l) ==
  CASE burst = "fixed" -> a + l
    [] burst = "incr" -> a + 4 * i + l
    [] burst = "wrap" -> n * q + ((f + l) % n)

Laid(txn, i, n, q, f) ==
  /\ n >= 4 /\ n * q + n < AddrRange /\ n = 4 * (txn.len + 1)
  /\ \A l \in 0 .. 4 : BeatByte(txn.burst, txn.len, txn.addr, i, l)
                         = Spot(txn.burst, txn.addr, i, n, q, f, l)
  /\ BeatByte(txn.burst, txn.len, txn.addr, i + 1, 0) =
       IF txn.burst = "fixed" THEN txn.addr ELSE Spot(txn.burst, txn.addr, i, n, q, f, 4)
  /\ i = 0 => f % n = f /\ n * q + f = txn.addr

LEMMA ByteAt ==
  ASSUME NEW txn \in Txns, NEW i \in Nat
  PROVE  \E n \in Nat, q \in Nat, f \in Nat : Laid(txn, i, n, q, f)
  <1> DEFINE a == txn.addr
             n == 4 * (txn.len + 1)
             q == a \div n
             d == a - n * q
             f == d + 4 * i
  <1>1. /\ txn.len \in Nat /\ a \in Nat /\ a + n < AddrRange
        /\ txn.burst \in Bursts /\ wrap_boundary(txn.len, 2) = n
    BY Constants, Region
  <1>2. n \in Nat /\ n >= 4
    BY <1>1
  <1>3. \A l \in 0 .. 4, j \in Nat :
          BeatByte(txn.burst, txn.len, a, j, l) =
            CASE txn.burst = "fixed" -> a + l
              [] txn.burst = "incr" -> a + 4 * j + l
              [] txn.burst = "wrap" -> n * q + ((d + 4 * j + l) % n)
    BY <1>1 DEF BeatByte
  <1> HIDE DEF n, a
  <1>4. q \in Nat /\ a % n \in 0 .. n - 1 /\ a = n * q + (a % n)
    <2>1. n # 0
      BY <1>2
    <2>2. a \div n \in Nat /\ a % n \in 0 .. n - 1 /\ a = n * (a \div n) + (a % n)
      BY <1>1, <1>2, <2>1, Quotient
    <2> QED BY <2>2
  <1>5. n * q \in Nat
    BY <1>2, <1>4
  <1> HIDE DEF q
  <1>6. d \in 0 .. n - 1 /\ n * q + d = a /\ n * q + n < AddrRange
    BY <1>1, <1>2, <1>4, <1>5, Constants
  <1> HIDE DEF d
  <1>7. f \in Nat /\ d + 4 * (i + 1) + 0 = f + 4 /\ 4 * (i + 1) = 4 * i + 4
    BY <1>2, <1>6
  <1>8. \A l \in 0 .. 4 : BeatByte(txn.burst, txn.len, a, i, l) = Spot(txn.burst, a, i, n, q, f, l)
    BY <1>3 DEF Spot
  <1>9. BeatByte(txn.burst, txn.len, a, i + 1, 0) =
          IF txn.burst = "fixed" THEN a ELSE Spot(txn.burst, a, i, n, q, f, 4)
    <2>0. i + 1 \in Nat /\ 0 \in 0 .. 4
      OBVIOUS
    <2>1. BeatByte(txn.burst, txn.len, a, i + 1, 0) =
            CASE txn.burst = "fixed" -> a + 0
              [] txn.burst = "incr" -> a + 4 * (i + 1) + 0
              [] txn.burst = "wrap" -> n * q + ((d + 4 * (i + 1) + 0) % n)
      BY <1>3, <2>0
    <2>2. a + 0 = a /\ a + 4 * (i + 1) + 0 = a + 4 * i + 4
      BY <1>1
    <2> QED BY <1>1, <1>7, <2>1, <2>2 DEF Spot, Bursts
  <1>10. i = 0 => f = d /\ d % n = d
    BY <1>2, <1>6, SmallRemainder
  <1> HIDE DEF f
  <1>11. Laid(txn, i, n, q, f)
    BY <1>2, <1>6, <1>8, <1>9, <1>10 DEF Laid, n, a
  <1> QED BY <1>2, <1>4, <1>7, <1>11

\* Beat i of a burst, walked along, is at the bytes of the closed form, and
\* leads to the beat after it.
LEMMA BeatWalk ==
  ASSUME NEW txn \in Txns, NEW i \in 0 .. txn.len
  PROVE  LET first == BeatByte(txn.burst, txn.len, txn.addr, i, 0)
             at == Walk(first, Boundary(txn.burst, txn.len, 2), 4)
         IN  /\ \A l \in Lane : at[l] = BeatByte(txn.burst, txn.len, txn.addr, i, l)
             /\ txn.burst # "fixed" => at[4] = BeatByte(txn.burst, txn.len, txn.addr, i + 1, 0)
             /\ txn.burst = "fixed" => first = BeatByte(txn.burst, txn.len, txn.addr, i + 1, 0)
  <1> DEFINE byte(l) == BeatByte(txn.burst, txn.len, txn.addr, i, l)
             next == BeatByte(txn.burst, txn.len, txn.addr, i + 1, 0)
             bound == Boundary(txn.burst, txn.len, 2)
             at == Walk(byte(0), bound, 4)
  <1>1. /\ txn.len \in Nat /\ i \in Nat /\ txn.addr \in Nat /\ txn.burst \in Bursts
        /\ AddrRange \in Nat
    BY Constants
  <1> DEFINE spot(n, q, f, l) == Spot(txn.burst, txn.addr, i, n, q, f, l)
  <1>2. PICK n \in Nat, q \in Nat, f \in Nat :
           /\ n >= 4 /\ n * q + n < AddrRange /\ n = 4 * (txn.len + 1)
           /\ \A l \in 0 .. 4 : byte(l) = spot(n, q, f, l)
           /\ next = IF txn.burst = "fixed" THEN txn.addr ELSE spot(n, q, f, 4)
    <2>1. PICK n \in Nat, q \in Nat, f \in Nat : Laid(txn, i, n, q, f)
      BY <1>1, ByteAt
    <2> QED BY <2>1 DEF Laid
  <1>3. at = [l \in 0 .. 4 |-> IF l = 0 THEN byte(0) ELSE After(at[l - 1], bound)]
    BY DEF Walk
  <1>4. /\ at[0] = byte(0) /\ at[1] = After(at[0], bound) /\ at[2] = After(at[1], bound)
        /\ at[3] = After(at[2], bound) /\ at[4] = After(at[3], bound)
    <2> HIDE DEF at, bound, byte
    <2>1. at[0] = byte(0)
      BY <1>3
    <2>2. \A l \in 1 .. 4 : at[l] = After(at[l - 1], bound)
      BY <1>3
    <2>3. at[1] = After(at[1 - 1], bound) /\ at[2] = After(at[2 - 1], bound)
          /\ at[3] = After(at[3 - 1], bound) /\ at[4] = After(at[4 - 1], bound)
      BY <2>2
    <2> QED BY <2>1, <2>3
  <1>5. bound = IF txn.burst = "wrap" THEN n ELSE 0
    BY <1>1, <1>2, Region DEF Boundary
  <1> HIDE DEF at, bound
  <1>6. CASE txn.burst = "wrap"
    <2>1. /\ byte(0) = n * q + ((f + 0) % n) /\ byte(1) = n * q + ((f + 1) % n)
          /\ byte(2) = n * q + ((f + 2) % n) /\ byte(3) = n * q + ((f + 3) % n)
          /\ next = n * q + ((f + 4) % n)
      BY <1>2, <1>6 DEF Spot
    <2> HIDE DEF byte, next
    <2>2. n # 0 /\ f + 1 \in Nat /\ f + 2 \in Nat /\ f + 3 \in Nat /\ f + 0 \in Nat
          /\ (f + 0) + 1 = f + 1 /\ (f + 1) + 1 = f + 2 /\ (f + 2) + 1 = f + 3
          /\ (f + 3) + 1 = f + 4
      BY <1>2
    <2>3. bound = n
      BY <1>5, <1>6
    <2>4. at[1] = byte(1)
      BY <1>2, <1>4, <2>1, <2>2, <2>3, AfterRegion
    <2>5. at[2] = byte(2)
      BY <1>2, <1>4, <2>1, <2>2, <2>3, <2>4, AfterRegion
    <2>6. at[3] = byte(3)
      BY <1>2, <1>4, <2>1, <2>2, <2>3, <2>5, AfterRegion
    <2>7. at[4] = next
      BY <1>2, <1>4, <2>1, <2>2, <2>3, <2>6, AfterRegion
    <2>8. \A l \in Lane : l = 0 \/ l = 1 \/ l = 2 \/ l = 3
      BY DEF Lane
    <2>9. \A l \in Lane : at[l] = byte(l)
      BY <1>4, <2>4, <2>5, <2>6, <2>8
    <2> QED BY <1>6, <2>7, <2>9 DEF at, bound, byte, next
  <1>7. CASE txn.burst # "wrap"
    <2> DEFINE a == IF txn.burst = "fixed" THEN txn.addr ELSE txn.addr + 4 * i
    <2>1. /\ byte(0) = a + 0 /\ byte(1) = a + 1 /\ byte(2) = a + 2 /\ byte(3) = a + 3
          /\ next = IF txn.burst = "fixed" THEN a ELSE a + 4
      BY <1>1, <1>2, <1>7 DEF Bursts, Spot
    <2>2. a \in Nat /\ a + 4 < AddrRange
      BY <1>1, Constants
    <2> HIDE DEF byte, next, a
    <2>3. \A k \in Nat : k + 1 < AddrRange => After(k, bound) = k + 1
      <3> TAKE k \in Nat
      <3> HAVE k + 1 < AddrRange
      <3>1. (k + 1) % AddrRange = k + 1
        BY <1>1, SmallRemainder
      <3>2. bound = 0
        BY <1>5, <1>7
      <3> QED BY <3>1, <3>2 DEF After
    <2>4. at[1] = a + 1 /\ at[2] = a + 2 /\ at[3] = a + 3 /\ at[4] = a + 4
      <3>1. at[0] = a
        BY <1>4, <2>1, <2>2
      <3>2. at[1] = a + 1
        BY <1>1, <1>4, <2>2, <2>3, <3>1
      <3>3. at[2] = a + 2
        BY <1>1, <1>4, <2>2, <2>3, <3>2
      <3>4. at[3] = a + 3
        BY <1>1, <1>4, <2>2, <2>3, <3>3
      <3> QED BY <1>1, <1>4, <2>2, <2>3, <3>2, <3>3, <3>4
    <2>5. \A l \in Lane : at[l] = byte(l)
      BY <1>4, <2>1, <2>4 DEF Lane
    <2>6. byte(0) = a
      BY <2>1, <2>2
    <2> QED BY <1>7, <2>1, <2>4, <2>5, <2>6 DEF at, bound, byte, next
  <1> QED BY <1>6, <1>7

\* The bytes of one beat are different, and a burst begins where it is told to.
LEMMA BytesApart ==
  ASSUME NEW txn \in Txns, NEW i \in 0 .. txn.len, NEW l \in Lane, NEW k \in Lane,
         BeatByte(txn.burst, txn.len, txn.addr, i, l) = BeatByte(txn.burst, txn.len, txn.addr, i, k)
  PROVE  l = k
  <1> DEFINE byte(x) == BeatByte(txn.burst, txn.len, txn.addr, i, x)
  <1>1. /\ txn.len \in Nat /\ i \in Nat /\ txn.addr \in Nat /\ txn.burst \in Bursts
        /\ AddrRange \in Nat
    BY Constants
  <1>2. PICK n \in Nat, q \in Nat, f \in Nat :
           n >= 4 /\ \A x \in 0 .. 4 : byte(x) = Spot(txn.burst, txn.addr, i, n, q, f, x)
    <2>1. PICK n \in Nat, q \in Nat, f \in Nat : Laid(txn, i, n, q, f)
      BY <1>1, ByteAt
    <2> QED BY <2>1 DEF Laid
  <1>3. ASSUME NEW x \in Lane, NEW y \in Lane, x < y
        PROVE  byte(x) # byte(y)
    <2>0. x \in 0 .. 4 /\ y \in 0 .. 4
      BY DEF Lane
    <2>1. CASE txn.burst = "wrap"
      <3>1. byte(x) = n * q + ((f + x) % n) /\ byte(y) = n * q + ((f + y) % n)
        BY <1>2, <2>0, <2>1 DEF Spot
      <3>2. (f + x) % n # (f + y) % n
        <4>1. f + x \in Nat /\ f + y \in Nat /\ f + x < f + y /\ f + y < (f + x) + n /\ n # 0
          BY <1>2, <1>3 DEF Lane
        <4> QED BY <1>2, <4>1, RemaindersDiffer
      <3>3. n * q \in Nat /\ (f + x) % n \in Nat /\ (f + y) % n \in Nat
        BY <1>2, <2>0, SMT
      <3> HIDE DEF byte
      <3> QED BY <3>1, <3>2, <3>3
    <2>2. CASE txn.burst = "fixed"
      <3>1. byte(x) = txn.addr + x /\ byte(y) = txn.addr + y
        BY <1>2, <2>0, <2>2 DEF Spot
      <3> HIDE DEF byte
      <3> QED BY <1>1, <1>3, <2>0, <3>1
    <2>3. CASE txn.burst = "incr"
      <3>1. byte(x) = txn.addr + 4 * i + x /\ byte(y) = txn.addr + 4 * i + y
        BY <1>2, <2>0, <2>3 DEF Spot
      <3> HIDE DEF byte
      <3> QED BY <1>1, <1>3, <2>0, <3>1
    <2> QED BY <1>1, <2>1, <2>2, <2>3 DEF Bursts
  <1> HIDE DEF byte
  <1>4. byte(l) = byte(k)
    BY DEF byte
  <1> QED BY <1>3, <1>4 DEF Lane

LEMMA BurstBegins ==
  ASSUME NEW txn \in Txns
  PROVE  BeatByte(txn.burst, txn.len, txn.addr, 0, 0) = txn.addr
  <1>1. txn.addr \in Nat /\ txn.burst \in Bursts
    BY Constants
  <1>2. PICK n \in Nat, q \in Nat, f \in Nat : Laid(txn, 0, n, q, f)
    BY ByteAt
  <1>3. /\ BeatByte(txn.burst, txn.len, txn.addr, 0, 0) = Spot(txn.burst, txn.addr, 0, n, q, f, 0)
        /\ f % n = f /\ n * q + f = txn.addr
    BY <1>2 DEF Laid
  <1>4. f + 0 = f /\ txn.addr + 4 * 0 + 0 = txn.addr /\ txn.addr + 0 = txn.addr
    BY <1>1
  <1> QED BY <1>1, <1>3, <1>4 DEF Bursts, Spot

\* Both halves walk as Axi does.
LEMMA SameWalk ==
  ASSUME NEW a, NEW bound, NEW n, NEW burst, NEW len, NEW size
  PROVE  /\ W!Walk(a, bound, n) = Walk(a, bound, n) /\ R!Walk(a, bound, n) = Walk(a, bound, n)
         /\ W!Boundary(burst, len, size) = Boundary(burst, len, size)
         /\ R!Boundary(burst, len, size) = Boundary(burst, len, size)
         /\ W!Addr = Addr /\ R!Addr = Addr /\ W!Lane = Lane /\ R!Lane = Lane
  BY DEF W!Walk, R!Walk, Walk, W!After, R!After, After, W!Boundary, R!Boundary, Boundary,
         W!wrap_boundary, R!wrap_boundary, wrap_boundary, W!Addr, R!Addr, Addr,
         W!Lane, R!Lane, Lane

LEMMA SameCardinality ==
  ASSUME NEW S
  PROVE  W!Cardinality(S) = Cardinality(S)
  BY DEF W!Cardinality, Cardinality

LEMMA LaneRank ==
  /\ Cardinality(Lane) = 4
  /\ \A l \in Lane : Cardinality({k \in Lane : k < l}) = l
  <1>1. \A l \in 0 .. 4 : Cardinality({k \in Lane : k < l}) = l
    <2> TAKE l \in 0 .. 4
    <2>1. {k \in Lane : k < l} = 0 .. l - 1
      BY DEF Lane
    <2>2. 0 \in Int /\ l - 1 \in Int
      OBVIOUS
    <2>3. Cardinality(0 .. l - 1) = IF 0 > l - 1 THEN 0 ELSE l - 1 - 0 + 1
      BY <2>2, FS_Interval
    <2>4. (IF 0 > l - 1 THEN 0 ELSE l - 1 - 0 + 1) = l
      OBVIOUS
    <2> QED BY <2>1, <2>3, <2>4
  <1>2. {k \in Lane : k < 4} = Lane
    BY DEF Lane
  <1>3. 4 \in 0 .. 4 /\ \A l \in Lane : l \in 0 .. 4
    BY DEF Lane
  <1> QED BY <1>1, <1>2, <1>3

\* Memory m becomes stored when beat i carries the word.
BeatStored(txn, i, word, m, stored) ==
  /\ stored = [x \in Addr |-> stored[x]]
  /\ \A x \in Addr :
       (\A l \in Lane : BeatByte(txn.burst, txn.len, txn.addr, i, l) # x) => stored[x] = m[x]
  /\ \A x \in Addr, l \in Lane :
       BeatByte(txn.burst, txn.len, txn.addr, i, l) = x => stored[x] = word[l]

\* What a beat that is written does to memory, and where it leads.
LEMMA WriteBeat ==
  ASSUME NEW txn \in Txns, NEW i \in 0 .. txn.len, NEW m, NEW word, NEW bound, NEW first,
         bound = W!Boundary(txn.burst, txn.len, 2),
         first = BeatByte(txn.burst, txn.len, txn.addr, i, 0)
  PROVE  /\ BeatStored(txn, i, word, m, W!data_wr(m, bound, W!Strobes, first, word))
         /\ W!data_wr_addr(txn.burst, bound, W!Strobes, first)
              = BeatByte(txn.burst, txn.len, txn.addr, i + 1, 0)
  <1> DEFINE byte(l) == BeatByte(txn.burst, txn.len, txn.addr, i, l)
             next == BeatByte(txn.burst, txn.len, txn.addr, i + 1, 0)
             at == Walk(first, bound, 4)
             To(x) == {l \in Lane : byte(l) = x}
             stored == W!data_wr(m, bound, W!Strobes, first, word)
  <1>1. bound = Boundary(txn.burst, txn.len, 2)
    BY SameWalk
  <1>2. /\ \A l \in Lane : at[l] = byte(l)
        /\ txn.burst # "fixed" => at[4] = next
        /\ txn.burst = "fixed" => first = next
    BY <1>1, BeatWalk
  <1>3. W!Walk(first, bound, 4) = at
    BY SameWalk
  <1>4. W!Strobes = Lane /\ W!Addr = Addr
    BY SameWalk DEF W!Strobes
  <1> HIDE DEF at
  <1>5. /\ W!Cardinality(W!Strobes) = 4
        /\ \A l \in Lane : W!Cardinality({k \in Lane : k < l}) = l
    BY <1>4, LaneRank, SameCardinality
  <1>6. stored = [x \in Addr |->
                   LET to == {l \in Lane : at[W!Cardinality({k \in Lane : k < l})] = x}
                   IN  IF to = {} THEN m[x] ELSE word[W!Max(to)]]
    <2>1. W!Walk(first, bound, W!Cardinality(W!Strobes)) = at
      BY <1>3, <1>5
    <2> QED BY <1>4, <2>1 DEF W!data_wr
  <1>7. ASSUME NEW x \in Addr
        PROVE  stored[x] = IF To(x) = {} THEN m[x] ELSE word[W!Max(To(x))]
    <2>1. {l \in Lane : at[W!Cardinality({k \in Lane : k < l})] = x} = To(x)
      BY <1>2, <1>5
    <2> QED BY <1>6, <2>1
  <1>8. ASSUME NEW x, NEW l \in Lane, byte(l) = x
        PROVE  To(x) # {} /\ W!Max(To(x)) = l
    <2>1. To(x) = {l}
      BY <1>8, BytesApart
    <2>2. l >= l
      BY DEF Lane
    <2> QED BY <2>1, <2>2 DEF W!Max
  <1>9. W!data_wr_addr(txn.burst, bound, W!Strobes, first) = next
    BY <1>2, <1>3, <1>5 DEF W!data_wr_addr
  <1>10. stored = [x \in Addr |-> stored[x]]
    BY <1>6
  <1> HIDE DEF byte, next, stored
  <1>11. \A x \in Addr : (\A l \in Lane : byte(l) # x) => stored[x] = m[x]
    BY <1>7
  <1>12. \A x \in Addr, l \in Lane : byte(l) = x => stored[x] = word[l]
    BY <1>7, <1>8
  <1> QED BY <1>9, <1>10, <1>11, <1>12 DEF byte, next, stored, BeatStored

\* What a beat that is read puts out, and where it leads.
LEMMA ReadBeat ==
  ASSUME NEW txn \in Txns, NEW i \in 0 .. txn.len, NEW m, NEW old, NEW bound, NEW first,
         bound = R!Boundary(txn.burst, txn.len, 2),
         first = BeatByte(txn.burst, txn.len, txn.addr, i, 0)
  PROVE  /\ BeatRead(txn, i, R!read_data(m, old, bound, 2, first), m)
         /\ txn.burst # "fixed" =>
              R!read_data_addr(bound, 2, first)
                = BeatByte(txn.burst, txn.len, txn.addr, i + 1, 0)
  <1> DEFINE at == Walk(first, bound, 4)
             read == R!read_data(m, old, bound, 2, first)
  <1>1. bound = Boundary(txn.burst, txn.len, 2)
    BY SameWalk
  <1>2. /\ \A l \in Lane : at[l] = BeatByte(txn.burst, txn.len, txn.addr, i, l)
        /\ txn.burst # "fixed" => at[4] = BeatByte(txn.burst, txn.len, txn.addr, i + 1, 0)
    BY <1>1, BeatWalk
  <1>3. R!Walk(first, bound, 4) = at /\ R!Lane = Lane /\ R!Addr = Addr
    BY SameWalk
  <1>4. 2^2 = 4
    BY SMT
  <1> HIDE DEF at
  <1>5. read = [l \in Lane |-> IF l >= 4 THEN old[l]
                               ELSE IF at[l] \in Addr THEN m[at[l]] ELSE Unknown]
    BY <1>3, <1>4 DEF R!read_data
  <1>6. \A l \in Lane : ~(l >= 4)
    BY DEF Lane
  <1>7. R!read_data_addr(bound, 2, first) = at[4]
    BY <1>3, <1>4 DEF R!read_data_addr
  <1> HIDE DEF read
  <1>8. \A l \in Lane : read[l] = IF at[l] \in Addr THEN m[at[l]] ELSE Unknown
    BY <1>5, <1>6
  <1> QED BY <1>2, <1>7, <1>8 DEF read, BeatRead

\* Memory as the first n beats leave it, and as one more leaves it.
LEMMA NoneStored ==
  ASSUME golden = [x \in Addr |-> golden[x]]
  PROVE  StoredTo(0) = golden
  <1>1. \A x : Struck(0, x) = {}
    <2>1. 0 .. 0 - 1 = {}
      OBVIOUS
    <2> QED BY <2>1 DEF Struck
  <1> QED BY <1>1 DEF StoredTo

LEMMA OneMoreStored ==
  ASSUME t \in Txns, NEW i \in 0 .. t.len, NEW m,
         BeatStored(t, i, Word(count.txns, i), StoredTo(i), m)
  PROVE  m = StoredTo(i + 1)
  <1> DEFINE byte(j, l) == BeatByte(t.burst, t.len, t.addr, j, l)
             stored(h) == Word(count.txns, h[1])[h[2]]
  <1>0. t.len \in Nat /\ i \in Nat
    BY Constants
  <1> USE DEF BeatStored
  <1>1. ASSUME NEW x \in Addr
        PROVE  m[x] = StoredTo(i + 1)[x]
    <2>1. \A n : StoredTo(n)[x] = IF Struck(n, x) = {} THEN golden[x]
                                  ELSE stored(Latest(Struck(n, x)))
      BY DEF StoredTo
    <2>2. CASE \A l \in Lane : byte(i, l) # x
      <3>1. Struck(i + 1, x) = Struck(i, x)
        <4>1. \A h \in Struck(i + 1, x) : h \in Struck(i, x)
          BY <1>0, <2>2 DEF Struck
        <4>2. \A h \in Struck(i, x) : h \in Struck(i + 1, x)
          BY <1>0 DEF Struck
        <4> QED BY <4>1, <4>2 DEF Struck
      <3> QED BY <2>1, <2>2, <3>1
    <2>3. ASSUME NEW l \in Lane, byte(i, l) = x
          PROVE  m[x] = StoredTo(i + 1)[x]
      <3> DEFINE h == <<i, l>>
                 hits == Struck(i + 1, x)
      <3>1. h \in hits
        BY <1>0, <2>3 DEF Struck
      <3>2. \A k \in hits : k[1] <= h[1]
        BY <1>0 DEF Struck
      <3>3. ASSUME NEW k \in hits, \A j \in hits : j[1] <= k[1]
            PROVE  k = h
        <4>1. k = <<k[1], k[2]>> /\ k[1] \in 0 .. i /\ k[2] \in Lane /\ byte(k[1], k[2]) = x
          BY <1>0 DEF Struck
        <4>2. k[1] = i
          BY <1>0, <3>1, <3>3, <4>1
        <4>3. k[2] = l
          BY <2>3, <4>1, <4>2, BytesApart
        <4> QED BY <4>1, <4>2, <4>3
      <3>4. Latest(hits) = h
        <4> HIDE DEF hits, h
        <4> QED BY <3>1, <3>2, <3>3 DEF Latest
      <3>5. StoredTo(i + 1)[x] = stored(h)
        <4> HIDE DEF stored, h
        <4> QED BY <2>1, <3>1, <3>4 DEF hits
      <3> QED BY <2>3, <3>5
    <2> QED BY <2>2, <2>3
  <1>2. StoredTo(i + 1) = [x \in Addr |-> StoredTo(i + 1)[x]]
    BY DEF StoredTo
  <1> QED BY <1>1, <1>2

-----------------------------------------------------------------------------
(* Steps.                                                                  *)

\* An edge passes on what the master drives, but for the two ready levels.
Edged(s) ==
  /\ DOMAIN in' = InFields /\ in'.rready \in RReady
  /\ W!WEdge /\ W!BEdge /\ R!ArEdge /\ R!REdge
  /\ got' = CASE s -> 0
              [] ~s /\ r'.rvalid /\ ~r.rvalid /\ got <= Beats -> got + 1
              [] OTHER -> got
WritesAs(next) ==
  /\ in'.awaddr = next.awaddr /\ in'.awlen = next.awlen /\ in'.awburst = next.awburst
  /\ in'.awsize = next.awsize /\ in'.wvalid = next.wvalid /\ in'.wdata = next.wdata
ReadsAs(next) ==
  /\ in'.arvalid = next.arvalid /\ in'.araddr = next.araddr /\ in'.arlen = next.arlen
  /\ in'.arburst = next.arburst /\ in'.arsize = next.arsize

LEMMA EdgeInputs ==
  ASSUME NEW next, DOMAIN next = InFields, NEW s, Edge(next, s)
  PROVE  Edged(s) /\ WritesAs(next) /\ ReadsAs(next) /\ in'.wlast = next.wlast
  <1>1. PICK br, rr : rr \in RReady /\ in' = [next EXCEPT !.bready = br, !.rready = rr]
    BY DEF Edge
  <1>2. DOMAIN in' = InFields /\ in'.rready \in RReady /\ in'.wlast = next.wlast
    BY <1>1 DEF InFields
  <1>3. WritesAs(next) /\ ReadsAs(next)
    BY <1>1 DEF InFields, WritesAs, ReadsAs
  <1> QED BY <1>2, <1>3 DEF Edge, Edged

Drv(phase, txn, i) ==
  DOMAIN drv' = {"phase", "txn", "i"} /\ drv'.phase = phase /\ drv'.txn = txn /\ drv'.i = i

LEMMA Going ==
  ASSUME Shapes, NEW phase, NEW i, Go(phase, i)
  PROVE  Drv(phase, t, i)
  BY DEF Shapes, Go, Drv, t

\* What the driver does, action by action.
LEMMA WriteStarted ==
  ASSUME Shapes, NEW txn, StartWrite(txn)
  PROVE  /\ drv.phase = "idle" /\ txn.kind = "write" /\ Drv("write", txn, 0) /\ Edged(TRUE)
         /\ DOMAIN count' = {"txns", "resets"} /\ count'.txns = count.txns + 1 /\ golden' = golden
         /\ in'.awaddr = txn.addr /\ in'.awlen = txn.len /\ in'.awburst = txn.burst
         /\ in'.awsize = 2 /\ in'.wvalid = TRUE /\ in'.wdata = Word(count'.txns, 0)
         /\ in'.arvalid = FALSE /\ in'.wlast = in.wlast
  <1> DEFINE next == WriteCommand(txn)
  <1>1. /\ DOMAIN next = InFields /\ next.wlast = in.wlast /\ next.arvalid = FALSE
        /\ next.awaddr = txn.addr /\ next.awlen = txn.len /\ next.awburst = txn.burst
        /\ next.awsize = 2 /\ next.wvalid = TRUE /\ next.wdata = Word(count.txns + 1, 0)
    BY Constants DEF Shapes, InFields, WriteCommand
  <1>2. DOMAIN count' = {"txns", "resets"} /\ count'.txns = count.txns + 1
    BY DEF StartWrite, Shapes
  <1>3. Edge(next, TRUE) /\ drv.phase = "idle" /\ txn.kind = "write" /\ golden' = golden
    BY DEF StartWrite
  <1>4. Drv("write", txn, 0)
    BY DEF StartWrite, Drv
  <1> HIDE DEF next
  <1>5. Edged(TRUE) /\ WritesAs(next) /\ ReadsAs(next) /\ in'.wlast = next.wlast
    BY <1>1, <1>3, EdgeInputs
  <1> QED BY <1>1, <1>2, <1>3, <1>4, <1>5 DEF WritesAs, ReadsAs

LEMMA ReadStarted ==
  ASSUME Shapes, NEW txn, StartRead(txn)
  PROVE  /\ drv.phase = "idle" /\ txn.kind = "read" /\ Drv("read", txn, 0) /\ Edged(TRUE)
         /\ DOMAIN count' = {"txns", "resets"} /\ golden' = golden
         /\ in'.arvalid = TRUE /\ in'.araddr = txn.addr /\ in'.arlen = txn.len
         /\ in'.arburst = txn.burst /\ in'.arsize = 2
         /\ in'.wvalid = in.wvalid /\ in'.wlast = in.wlast
  <1> DEFINE next == ReadCommand(txn)
  <1>1. /\ DOMAIN next = InFields /\ next.wlast = in.wlast /\ next.wvalid = in.wvalid
        /\ next.arvalid = TRUE /\ next.araddr = txn.addr /\ next.arlen = txn.len
        /\ next.arburst = txn.burst /\ next.arsize = 2
    BY Constants DEF Shapes, InFields, ReadCommand
  <1>2. DOMAIN count' = {"txns", "resets"}
    BY DEF StartRead, Shapes
  <1>3. Edge(next, TRUE) /\ drv.phase = "idle" /\ txn.kind = "read" /\ golden' = golden
    BY DEF StartRead
  <1>4. Drv("read", txn, 0)
    BY DEF StartRead, Drv
  <1> HIDE DEF next
  <1>5. Edged(TRUE) /\ WritesAs(next) /\ ReadsAs(next) /\ in'.wlast = next.wlast
    BY <1>1, <1>3, EdgeInputs
  <1> QED BY <1>1, <1>2, <1>3, <1>4, <1>5 DEF WritesAs, ReadsAs

LEMMA BeatDriven ==
  ASSUME Shapes, NextBeat
  PROVE  /\ drv.phase = "write" /\ w.wready /\ drv.i + 1 < Beats /\ Drv("write", t, drv.i + 1)
         /\ Edged(FALSE) /\ count' = count /\ golden' = golden
         /\ in'.awaddr = CASE t.burst = "fixed" -> t.addr
                           [] t.burst = "incr" -> t.addr + 4 * (drv.i + 1)
                           [] t.burst = "wrap" -> w.retaddr
         /\ in'.awlen = in.awlen /\ in'.awburst = in.awburst /\ in'.awsize = in.awsize
         /\ in'.wvalid = in.wvalid /\ in'.wdata = Word(count.txns, drv.i + 1)
         /\ in'.arvalid = in.arvalid /\ in'.wlast = in.wlast
  <1> DEFINE next == BeatData
  <1>1. /\ DOMAIN next = InFields /\ next.wlast = in.wlast /\ next.arvalid = in.arvalid
        /\ next.awaddr = CASE t.burst = "fixed" -> t.addr
                           [] t.burst = "incr" -> t.addr + 4 * (drv.i + 1)
                           [] t.burst = "wrap" -> w.retaddr
        /\ next.awlen = in.awlen /\ next.awburst = in.awburst /\ next.awsize = in.awsize
        /\ next.wvalid = in.wvalid /\ next.wdata = Word(count.txns, drv.i + 1)
    BY DEF Shapes, InFields, BeatData
  <1>2. Edge(next, FALSE) /\ drv.phase = "write" /\ w.wready /\ drv.i + 1 < Beats
    BY DEF NextBeat
  <1>3. Drv("write", t, drv.i + 1) /\ count' = count /\ golden' = golden
    BY Going DEF NextBeat
  <1> HIDE DEF next
  <1>4. Edged(FALSE) /\ WritesAs(next) /\ ReadsAs(next) /\ in'.wlast = next.wlast
    BY <1>1, <1>2, EdgeInputs
  <1> QED BY <1>1, <1>2, <1>3, <1>4 DEF WritesAs, ReadsAs

LEMMA BurstEnded ==
  ASSUME Shapes, EndBurst
  PROVE  /\ drv.phase = "write" /\ w.wready /\ drv.i + 1 = Beats /\ Drv("wlast", t, 0)
         /\ Edged(FALSE) /\ count' = count /\ golden' = StoredTo(Beats)
         /\ in'.awlen = in.awlen /\ in'.wlast = TRUE /\ in'.arvalid \in {in.arvalid, FALSE}
  <1> DEFINE next == [IF t.burst = "wrap" THEN in ELSE Released EXCEPT !.wlast = TRUE]
  <1>1. /\ DOMAIN next = InFields /\ next.wlast = TRUE /\ next.awlen = in.awlen
        /\ next.arvalid \in {in.arvalid, FALSE}
    BY DEF Shapes, InFields, Released
  <1>2. /\ Edge(next, FALSE) /\ drv.phase = "write" /\ w.wready /\ drv.i + 1 = Beats
        /\ golden' = StoredTo(Beats)
    BY DEF EndBurst
  <1>3. Drv("wlast", t, 0) /\ count' = count
    BY Going DEF EndBurst
  <1> HIDE DEF next
  <1>4. Edged(FALSE) /\ WritesAs(next) /\ ReadsAs(next) /\ in'.wlast = next.wlast
    BY <1>1, <1>2, EdgeInputs
  <1> QED BY <1>1, <1>2, <1>3, <1>4 DEF WritesAs, ReadsAs

LEMMA LastLowered ==
  ASSUME Shapes, LowerLast
  PROVE  /\ drv.phase = "wlast" /\ Drv("wresp", t, 0)
         /\ Edged(FALSE) /\ count' = count /\ golden' = golden
         /\ in'.wlast = FALSE /\ in'.wvalid = FALSE /\ in'.arvalid = FALSE
  <1> DEFINE next == [Released EXCEPT !.wlast = FALSE]
  <1>1. DOMAIN next = InFields /\ next.wlast = FALSE /\ next.wvalid = FALSE /\ next.arvalid = FALSE
    BY DEF Shapes, InFields, Released
  <1>2. Edge(next, FALSE) /\ drv.phase = "wlast" /\ golden' = golden
    BY DEF LowerLast
  <1>3. Drv("wresp", t, 0) /\ count' = count
    BY Going DEF LowerLast
  <1> HIDE DEF next
  <1>4. Edged(FALSE) /\ WritesAs(next) /\ ReadsAs(next) /\ in'.wlast = next.wlast
    BY <1>1, <1>2, EdgeInputs
  <1> QED BY <1>1, <1>2, <1>3, <1>4 DEF WritesAs, ReadsAs

LEMMA AddressDriven ==
  ASSUME Shapes, NextAddress
  PROVE  /\ drv.phase = "read" /\ Advances /\ Edged(FALSE) /\ count' = count /\ golden' = golden
         /\ IF drv.i + 1 < Beats
              THEN /\ Drv("read", t, drv.i + 1)
                   /\ in'.araddr = CASE t.burst = "fixed" -> t.addr
                                     [] t.burst = "incr" -> t.addr + 4 * (drv.i + 1)
                                     [] t.burst = "wrap" -> r.rdretaddr
              ELSE Drv("rlast", t, 0) /\ in'.araddr = in.araddr
         /\ in'.arvalid = in.arvalid /\ in'.arlen = in.arlen /\ in'.arburst = in.arburst
         /\ in'.arsize = in.arsize /\ in'.wvalid = in.wvalid /\ in'.wlast = in.wlast
  <1> DEFINE next == BeatAddress
  <1>1. /\ DOMAIN next = InFields /\ next.wlast = in.wlast /\ next.wvalid = in.wvalid
        /\ next.araddr = CASE t.burst = "fixed" -> t.addr
                           [] t.burst = "incr" -> t.addr + 4 * (drv.i + 1)
                           [] t.burst = "wrap" -> r.rdretaddr
        /\ next.arvalid = in.arvalid /\ next.arlen = in.arlen /\ next.arburst = in.arburst
        /\ next.arsize = in.arsize
    BY DEF Shapes, InFields, BeatAddress
  <1>2. drv.phase = "read" /\ Advances /\ count' = count /\ golden' = golden
    BY DEF NextAddress
  <1> HIDE DEF next
  <1>3. CASE drv.i + 1 < Beats
    <2>1. Edge(next, FALSE) /\ Drv("read", t, drv.i + 1)
      BY <1>3, Going DEF NextAddress, next
    <2>2. Edged(FALSE) /\ WritesAs(next) /\ ReadsAs(next) /\ in'.wlast = next.wlast
      BY <1>1, <2>1, EdgeInputs
    <2> QED BY <1>1, <1>2, <1>3, <2>1, <2>2 DEF WritesAs, ReadsAs
  <1>4. CASE ~(drv.i + 1 < Beats)
    <2>1. Edge(in, FALSE) /\ Drv("rlast", t, 0)
      BY <1>4, Going DEF NextAddress
    <2>2. Edged(FALSE) /\ WritesAs(in) /\ ReadsAs(in) /\ in'.wlast = in.wlast
      BY <2>1, EdgeInputs DEF Shapes
    <2> QED BY <1>2, <1>4, <2>1, <2>2 DEF WritesAs, ReadsAs
  <1> QED BY <1>3, <1>4

LEMMA ReadEnded ==
  ASSUME Shapes, EndRead
  PROVE  /\ drv.phase = "rlast" /\ r.rlast /\ r.rnext = "ridle" /\ Drv("pause", t, 0)
         /\ Edged(FALSE) /\ count' = count /\ golden' = golden
         /\ in'.arvalid = FALSE /\ in'.wvalid = in.wvalid /\ in'.wlast = in.wlast
  <1> DEFINE next == [in EXCEPT !.arvalid = FALSE]
  <1>1. /\ DOMAIN next = InFields /\ next.wlast = in.wlast /\ next.wvalid = in.wvalid
        /\ next.arvalid = FALSE
    BY DEF Shapes, InFields
  <1>2. Edge(next, FALSE) /\ drv.phase = "rlast" /\ golden' = golden /\ RlastFalls
    BY DEF EndRead
  <1>3. Drv("pause", t, 0) /\ count' = count
    BY Going DEF EndRead
  <1> HIDE DEF next
  <1>4. Edged(FALSE) /\ WritesAs(next) /\ ReadsAs(next) /\ in'.wlast = next.wlast
    BY <1>1, <1>2, EdgeInputs
  <1> QED BY <1>1, <1>2, <1>3, <1>4 DEF WritesAs, ReadsAs, RlastFalls

\* At the others the master changes nothing but the ready levels.
LEMMA Undriven ==
  ASSUME Shapes, EndWrite \/ Resume \/ Wait
  PROVE  /\ Edged(FALSE) /\ WritesAs(in) /\ ReadsAs(in) /\ in'.wlast = in.wlast
         /\ count' = count /\ golden' = golden
         /\ \/ drv.phase = "wresp" /\ BvalidFalls /\ Drv("pause", t, 0)
            \/ drv.phase = "pause" /\ Drv("idle", t, 0)
            \/ Waiting /\ drv' = drv
  <1>1. Edge(in, FALSE) /\ count' = count /\ golden' = golden
    BY DEF EndWrite, Resume, Wait
  <1>2. DOMAIN in = InFields
    BY DEF Shapes
  <1>3. Edged(FALSE) /\ WritesAs(in) /\ ReadsAs(in) /\ in'.wlast = in.wlast
    BY <1>1, <1>2, EdgeInputs
  <1> QED BY <1>1, <1>3, Going DEF EndWrite, Resume, Wait

LEMMA Restarted ==
  ASSUME Reset
  PROVE  /\ DOMAIN in' = InFields /\ in'.wlast = FALSE /\ in'.wvalid = FALSE
         /\ in'.arvalid = FALSE /\ in'.awlen = 0
         /\ drv' = [phase |-> "idle", txn |-> NoTxn, i |-> 0]
         /\ Drv("idle", NoTxn, 0) /\ got' = 0 /\ golden' = mem
         /\ W!WReset /\ R!RReset
  <1>1. DOMAIN in' = InFields /\ in'.wlast = FALSE /\ in'.wvalid = FALSE /\ in'.awlen = 0
        /\ in'.arvalid = FALSE
    BY DEF Reset, Quiet, InFields
  <1>2. drv' = [phase |-> "idle", txn |-> NoTxn, i |-> 0] /\ Drv("idle", NoTxn, 0)
    BY DEF Reset, Drv
  <1> QED BY <1>1, <1>2 DEF Reset

LEMMA HalvesShaped ==
  ASSUME Shapes, W!WEdge \/ W!WReset, W!BEdge \/ W!WReset, R!REdge \/ R!RReset
  PROVE  /\ DOMAIN w' = WFields /\ DOMAIN r' = RFields /\ DOMAIN b' = {"bvalid", "bresp"}
  <1>1. DOMAIN w' = WFields
    BY DEF Shapes, W!WEdge, W!WReset, W!WIdle, W!WStart, W!WAddrDec, W!WReadys, W!WValids
  <1>2. DOMAIN b' = {"bvalid", "bresp"}
    BY DEF Shapes, W!BEdge, W!WReset
  <1>3. DOMAIN r' = RFields
    BY DEF Shapes, R!REdge, R!RReset, R!RIdle, R!RIdleLatches, R!RBeat, R!RRefuse, R!RWait,
           R!RValids, R!RError
  <1> QED BY <1>1, <1>2, <1>3

LEMMA ShapesKept ==
  ASSUME Shapes, Next
  PROVE  Shapes'
  <1>1. DOMAIN in = InFields /\ DOMAIN drv = {"phase", "txn", "i"}
        /\ DOMAIN count = {"txns", "resets"} /\ (in.wlast <=> drv.phase = "wlast")
    BY DEF Shapes
  <1>2. ASSUME NEW s, Edged(s), DOMAIN drv' = {"phase", "txn", "i"},
               DOMAIN count' = {"txns", "resets"}, in'.wlast <=> drv'.phase = "wlast"
        PROVE  Shapes'
    BY <1>2, HalvesShaped DEF Shapes, Edged
  <1>3. ASSUME NEW txn \in Txns, StartWrite(txn)
        PROVE  Shapes'
    BY <1>1, <1>2, <1>3, WriteStarted DEF Drv
  <1>4. ASSUME NEW txn \in Txns, StartRead(txn)
        PROVE  Shapes'
    BY <1>1, <1>2, <1>4, ReadStarted DEF Drv
  <1>5. CASE NextBeat
    BY <1>1, <1>2, <1>5, BeatDriven DEF Drv
  <1>6. CASE EndBurst
    BY <1>1, <1>2, <1>6, BurstEnded DEF Drv
  <1>7. CASE LowerLast
    BY <1>1, <1>2, <1>7, LastLowered DEF Drv
  <1>8. CASE EndWrite \/ Resume \/ Wait
    BY <1>1, <1>2, <1>8, Undriven DEF Drv, Waiting
  <1>9. CASE NextAddress
    BY <1>1, <1>2, <1>9, AddressDriven DEF Drv
  <1>10. CASE EndRead
    BY <1>1, <1>2, <1>10, ReadEnded DEF Drv
  <1>11. CASE Reset
    <2>1. DOMAIN count' = {"txns", "resets"}
      BY <1>1, <1>11 DEF Reset
    <2> QED BY <1>11, <2>1, Restarted, HalvesShaped DEF Shapes, Drv
  <1> QED BY <1>3, <1>4, <1>5, <1>6, <1>7, <1>8, <1>9, <1>10, <1>11 DEF Next, Tick

\* The response channel: what it answers to is wlast alone.
LEMMA Responding ==
  ASSUME Shapes, W!BEdge
  PROVE  /\ bstate \in {"bidle", "bdetect_last"} /\ ~in.wlast => bstate' = "bdetect_last" /\ b' = b
         /\ bstate = "bdetect_last" /\ in.wlast => bstate' = "bstart" /\ b'.bvalid
         /\ bstate \in {"bstart", "bwait"} =>
              /\ bstate' = W!BNextState /\ bstate' \in {"bwait", "bidle"}
              /\ bstate' = "bwait" => b' = b
         /\ bstate' = "bidle" => ~b'.bvalid
  BY DEF W!BEdge, W!BNextState

LEMMA RespKept ==
  ASSUME Shapes, RespInv, Next
  PROVE  RespInv'
  <1>1. in.wlast <=> drv.phase = "wlast"
    BY DEF Shapes
  <1>2. ASSUME NEW s, Edged(s), drv.phase \notin {"wlast", "wresp"}, drv'.phase # "wresp"
        PROVE  RespInv'
    <2>1. bstate' = "bdetect_last" /\ b' = b
      BY <1>1, <1>2, Responding DEF RespInv, Edged
    <2> QED BY <1>2, <2>1 DEF RespInv
  <1>3. ASSUME NEW txn \in Txns, StartWrite(txn)
        PROVE  RespInv'
    BY <1>2, <1>3, WriteStarted DEF Drv
  <1>4. ASSUME NEW txn \in Txns, StartRead(txn)
        PROVE  RespInv'
    BY <1>2, <1>4, ReadStarted DEF Drv
  <1>5. CASE NextBeat
    BY <1>2, <1>5, BeatDriven DEF Drv
  <1>6. CASE EndBurst
    BY <1>2, <1>6, BurstEnded DEF Drv
  <1>7. CASE LowerLast
    <2>1. drv.phase = "wlast" /\ drv'.phase = "wresp" /\ W!BEdge
      BY <1>7, LastLowered DEF Drv, Edged
    <2> QED BY <1>1, <2>1, Responding DEF RespInv
  <1>8. CASE EndWrite \/ Resume \/ Wait
    <2>1. CASE drv.phase = "wresp" /\ BvalidFalls /\ Drv("pause", t, 0) /\ W!BEdge
      BY <2>1, Responding DEF RespInv, BvalidFalls, Drv
    <2>2. CASE drv.phase = "wresp" /\ ~BvalidFalls /\ drv' = drv /\ W!BEdge
      BY <2>2, Responding DEF RespInv, BvalidFalls
    <2>3. CASE drv.phase = "pause" /\ Drv("idle", t, 0) /\ Edged(FALSE)
      BY <1>2, <2>3 DEF Drv
    <2>4. CASE Waiting /\ drv.phase # "wresp" /\ drv' = drv /\ Edged(FALSE)
      BY <1>2, <2>4 DEF Waiting
    <2>5. Edged(FALSE) => W!BEdge
      BY DEF Edged
    <2>6. Waiting /\ drv.phase = "wresp" => ~BvalidFalls
      BY DEF Waiting
    <2> QED BY <1>8, <2>1, <2>2, <2>3, <2>4, <2>5, <2>6, Undriven
  <1>9. CASE NextAddress
    BY <1>2, <1>9, AddressDriven DEF Drv
  <1>10. CASE EndRead
    BY <1>2, <1>10, ReadEnded DEF Drv
  <1>11. CASE Reset
    BY <1>11, Restarted DEF Drv, W!WReset, RespInv
  <1> QED BY <1>3, <1>4, <1>5, <1>6, <1>7, <1>8, <1>9, <1>10, <1>11 DEF Next, Tick

\* The data channel: which state follows which, and what it does there.
LEMMA Turning ==
  ASSUME W!WEdge
  PROVE  /\ wstate = "widle" => wstate' = "wstart"
         /\ wstate = "wstart" => wstate' = IF in.wvalid THEN "waddr_dec" ELSE "wstart"
         /\ wstate = "waddr_dec" => wstate' = "wreadys"
         /\ wstate = "wreadys" /\ ~in.wlast => wstate' = "wvalids"
         /\ wstate = "wvalids" => wstate' = "wstart"
         /\ wstate' = "wstart" => W!WStart
         /\ wstate' = "waddr_dec" => W!WAddrDec
         /\ wstate' = "wreadys" => W!WReadys
         /\ wstate' = "wvalids" => W!WValids
  <1>1. wstate' = W!WNextState
    BY DEF W!WEdge
  <1>2. W!WIdle \/ W!WStart \/ W!WAddrDec \/ W!WReadys \/ W!WValids
    BY DEF W!WEdge
  <1>3. /\ W!WIdle => wstate' = "widle"
        /\ W!WStart => wstate' = "wstart"
        /\ W!WAddrDec => wstate' = "waddr_dec"
        /\ W!WReadys => wstate' = "wreadys"
        /\ W!WValids => wstate' = "wvalids"
    BY DEF W!WIdle, W!WStart, W!WAddrDec, W!WReadys, W!WValids
  <1>4. /\ wstate = "widle" => wstate' = "wstart"
        /\ wstate = "wstart" => wstate' = IF in.wvalid THEN "waddr_dec" ELSE "wstart"
        /\ wstate = "waddr_dec" => wstate' = "wreadys"
        /\ wstate = "wreadys" /\ ~in.wlast => wstate' = "wvalids"
        /\ wstate = "wvalids" => wstate' = "wstart"
    BY <1>1 DEF W!WNextState
  <1> QED BY <1>2, <1>3, <1>4

\* wready is up where a beat has been stored, except at the end.
LEMMA Readiness ==
  ASSUME Shapes, WControl, W!WEdge,
         wstate' \in {"wvalids", "wstart", "waddr_dec", "wreadys"},
         ~in'.wlast \/ wstate' # "wreadys", wstate' = "wstart" => wstate # "wreadys",
         wstate' = "waddr_dec" => wstate = "wstart"
  PROVE  w'.wready <=> wstate' = "wreadys"
  <1>1. DOMAIN w = WFields /\ "wready" \in WFields
    BY DEF Shapes, WFields
  <1>2. w.wready <=> wstate = "wreadys"
    BY DEF WControl
  <1>3. CASE wstate' = "wstart"
    BY <1>1, <1>2, <1>3, Turning DEF W!WStart, WFields
  <1>4. CASE wstate' = "waddr_dec"
    BY <1>1, <1>2, <1>4, Turning DEF W!WAddrDec, WFields
  <1>5. CASE wstate' = "wreadys"
    BY <1>1, <1>5, Turning DEF W!WReadys, WFields
  <1>6. CASE wstate' = "wvalids"
    BY <1>1, <1>6, Turning DEF W!WValids, WFields
  <1> QED BY <1>3, <1>4, <1>5, <1>6

LEMMA ControlKept ==
  ASSUME Shapes, WControl, Next
  PROVE  WControl'
  <1>1. in.wlast <=> drv.phase = "wlast"
    BY DEF Shapes
  <1>2. ASSUME NEW s, Edged(s), drv.phase \notin {"write", "wlast"},
               drv'.phase \notin {"write", "wlast"}, in'.wvalid = in.wvalid
        PROVE  WControl'
    <2>1. wstate' = "wstart" /\ ~in.wvalid
      BY <1>2, Turning DEF WControl, Edged
    <2>2. ~w'.wready
      BY <1>2, <2>1, Readiness DEF WControl, Edged
    <2> QED BY <1>2, <2>1, <2>2 DEF WControl
  <1>3. ASSUME NEW txn \in Txns, StartWrite(txn)
        PROVE  WControl'
    <2>1. W!WEdge /\ drv.phase = "idle" /\ drv'.phase = "write"
      BY <1>3, WriteStarted DEF Drv, Edged
    <2>2. wstate' = "wstart"
      BY <2>1, Turning DEF WControl
    <2>3. ~w'.wready
      BY <2>1, <2>2, Readiness DEF WControl
    <2> QED BY <2>1, <2>2, <2>3 DEF WControl
  <1>4. ASSUME NEW txn \in Txns, StartRead(txn)
        PROVE  WControl'
    BY <1>2, <1>4, ReadStarted DEF Drv
  <1>5. CASE NextBeat \/ EndBurst
    <2>1. /\ W!WEdge /\ drv.phase = "write" /\ w.wready /\ drv'.phase \in {"write", "wlast"}
      BY <1>5, BeatDriven, BurstEnded DEF Drv, Edged
    <2>2. wstate' = "wvalids"
      BY <1>1, <2>1, Turning DEF WControl
    <2>3. ~w'.wready
      BY <2>1, <2>2, Readiness DEF WControl
    <2> QED BY <2>1, <2>2, <2>3 DEF WControl
  <1>6. CASE LowerLast
    <2>1. W!WEdge /\ drv.phase = "wlast" /\ drv'.phase = "wresp" /\ in'.wvalid = FALSE
      BY <1>6, LastLowered DEF Drv, Edged
    <2>2. wstate' = "wstart"
      BY <2>1, Turning DEF WControl
    <2>3. ~w'.wready
      BY <2>1, <2>2, Readiness DEF WControl
    <2> QED BY <2>1, <2>2, <2>3 DEF WControl
  <1>7. CASE EndWrite \/ Resume \/ Wait
    <2>1. CASE drv.phase \notin {"write", "wlast"}
      BY <1>2, <1>7, <2>1, Undriven DEF Drv, Waiting, WritesAs
    <2>2. CASE drv.phase \in {"write", "wlast"}
      <3>1. /\ drv' = drv /\ drv.phase = "write" /\ ~w.wready /\ W!WEdge
            /\ in'.wlast = in.wlast
        BY <1>7, <2>2, Undriven DEF Waiting, Edged
      <3>2. wstate' \in {"wvalids", "wstart", "waddr_dec", "wreadys"}
        BY <3>1, Turning DEF WControl
      <3>3. w'.wready <=> wstate' = "wreadys"
        BY <1>1, <3>1, <3>2, Readiness, Turning DEF WControl
      <3> QED BY <3>1, <3>2, <3>3 DEF WControl
    <2> QED BY <2>1, <2>2
  <1>8. CASE NextAddress
    BY <1>2, <1>8, AddressDriven DEF Drv
  <1>9. CASE EndRead
    BY <1>2, <1>9, ReadEnded DEF Drv
  <1>10. CASE Reset
    <2>1. DOMAIN w = WFields /\ "wready" \in WFields
      BY DEF Shapes, WFields
    <2>2. wstate' = "widle" /\ ~w'.wready
      BY <1>10, <2>1, Restarted DEF W!WReset, W!WIdle, WFields
    <2> QED BY <1>10, <2>2, Restarted DEF WControl, Drv
  <1> QED BY <1>3, <1>4, <1>5, <1>6, <1>7, <1>8, <1>9, <1>10 DEF Next, Tick

-----------------------------------------------------------------------------
(* The write half stores the burst.                                        *)

LEMMA StoredToNext ==
  ASSUME t' = t, count'.txns = count.txns, golden' = golden, NEW n, NEW m
  PROVE  (m = StoredTo(n))' <=> m' = StoredTo(n)
  BY DEF StoredTo, Struck, t

\* Outside a burst the data channel rests: nothing is stored or counted.
LEMMA WriteRests ==
  ASSUME Shapes, W!WEdge, wstate \in {"widle", "wstart", "wvalids"},
         wstate' = "wstart", ~in'.wvalid
  PROVE  mem' = mem /\ w' = w
  BY Turning DEF W!WStart

\* A burst begins with the beats counted as before its first one, or with the
\* count of a burst before it, which is the same length.
LEMMA StoreBegins ==
  ASSUME OneLength, Shapes, WControl, WriteInv, NEW txn \in Txns, StartWrite(txn)
  PROVE  WriteInv'
  <1>1. /\ drv.phase = "idle" /\ txn.kind = "write" /\ golden' = golden /\ W!WEdge
        /\ drv'.phase = "write" /\ drv'.txn = txn /\ drv'.i = 0
        /\ in'.awaddr = txn.addr /\ in'.awlen = txn.len /\ in'.awburst = txn.burst
        /\ in'.awsize = 2 /\ in'.wvalid = TRUE /\ in'.wdata = Word(count'.txns, 0)
    BY WriteStarted DEF Drv, Edged
  <1>2. wstate' = "wstart" /\ W!WStart
    BY <1>1, Turning DEF WControl
  <1>3. DOMAIN w = WFields /\ w' = [w EXCEPT !.wdatat = in'.wdata] /\ mem' = mem
    BY <1>1, <1>2 DEF Shapes, W!WStart
  <1>4. /\ w'.wdatat = in'.wdata /\ w'.first = w.first /\ w'.wlen_count = w.wlen_count
    BY <1>3 DEF WFields
  <1>5. t' = txn /\ txn.len \in Nat
    BY <1>1, Constants DEF t
  <1>6. WCounts(0)'
    <2>1. CASE w.first
      <3>1. PICK other \in Txns : other.kind = "write" /\ w.wlen_count = other.len + 1
        BY <1>1, <2>1 DEF WriteInv, Counted
      <3>2. other.len = txn.len
        BY <1>1, <3>1 DEF OneLength
      <3> QED BY <1>4, <1>5, <2>1, <3>1, <3>2 DEF WCounts
    <2>2. CASE ~w.first
      <3>1. w.wlen_count = 0
        BY <1>1, <2>2 DEF WriteInv
      <3> QED BY <1>2, <1>4, <1>5, <2>2, <3>1 DEF WCounts
    <2> QED BY <2>1, <2>2
  <1>7. in'.awaddr = BeatStart(0)'
    BY <1>1, <1>5, BurstBegins DEF BeatStart
  <1>8. Driven(0)'
    BY <1>1, <1>5, <1>7 DEF Driven
  <1>9. (mem = StoredTo(0))'
    <2>1. mem = golden /\ golden = [x \in Addr |-> golden[x]]
      BY <1>1 DEF WriteInv
    <2>2. (golden = [x \in Addr |-> golden[x]])' => (StoredTo(0) = golden)'
      BY NoneStored, PTL
    <2> QED BY <1>1, <1>3, <2>1, <2>2
  <1>10. WStores(0)'
    BY <1>2, <1>4, <1>6, <1>8, <1>9 DEF WStores
  <1> QED BY <1>1, <1>10 DEF WriteInv

\* The driver goes on to the next beat, and the channel counts the last.
LEMMA StoreGoesOn ==
  ASSUME Counts, Shapes, WControl, WriteInv, NextBeat
  PROVE  WriteInv'
  <1>1. /\ drv.phase = "write" /\ w.wready /\ drv.i + 1 < Beats /\ golden' = golden
        /\ count' = count /\ W!WEdge
        /\ drv'.phase = "write" /\ drv'.txn = t /\ drv'.i = drv.i + 1
        /\ in'.awaddr = CASE t.burst = "fixed" -> t.addr
                          [] t.burst = "incr" -> t.addr + 4 * (drv.i + 1)
                          [] t.burst = "wrap" -> w.retaddr
        /\ in'.awlen = in.awlen /\ in'.awburst = in.awburst /\ in'.awsize = in.awsize
        /\ in'.wvalid = in.wvalid /\ in'.wdata = Word(count.txns, drv.i + 1)
        /\ in'.wlast = in.wlast
    BY BeatDriven DEF Drv, Edged
  <1> DEFINE i == drv.i
  <1>2. wstate = "wreadys" /\ wstate' = "wvalids" /\ W!WValids /\ ~in.wlast
    BY <1>1, Turning DEF WControl, Shapes
  <1>3. WStores(i)
    BY <1>1 DEF WriteInv
  <1>4. /\ Driven(i) /\ WCounts(i) /\ mem = StoredTo(i + 1) /\ w.retaddr = BeatStart(i + 1)
    BY <1>2, <1>3 DEF WStores
  <1>5. /\ t \in Txns /\ t.len \in Nat /\ t.addr \in Nat /\ i \in Nat /\ t.burst \in Bursts
        /\ t.len + 1 < LenRange /\ LenRange \in Nat /\ i + 1 <= t.len
    BY <1>1, <1>4, Constants DEF Driven, Counts, Beats
  <1>6. t' = t /\ i' = i + 1
    BY <1>1 DEF t
  <1>7. /\ mem' = mem /\ w'.first = w.first /\ w'.retaddr = w.retaddr
        /\ w'.wlen_count = IF w.wlen_count # in'.awlen + 1
                           THEN (w.wlen_count + 1) % LenRange ELSE w.wlen_count
    BY <1>2 DEF W!WValids, Shapes, WFields
  <1>8. in'.awlen = t.len
    BY <1>1, <1>4 DEF Driven
  <1> HIDE DEF i
  <1>9. (w'.first /\ w'.wlen_count = t.len + 1) \/ (w'.first /\ w'.wlen_count = i + 1)
    <2>1. CASE w.first /\ w.wlen_count = t.len + 1
      BY <1>5, <1>7, <1>8, <2>1
    <2>2. CASE w.wlen_count = i /\ w.first
      <3>1. (i + 1) % LenRange = i + 1
        BY <1>5, SmallRemainder
      <3> QED BY <1>5, <1>7, <1>8, <2>2, <3>1
    <2> QED BY <1>2, <1>4, <2>1, <2>2 DEF WCounts
  <1>10. WCounts(i)'
    BY <1>1, <1>5, <1>6, <1>9 DEF WCounts
  <1>11. in'.awaddr = BeatStart(i)'
    <2>1. t.addr + 0 = t.addr /\ t.addr + 4 * (i + 1) + 0 = t.addr + 4 * (i + 1)
      BY <1>5
    <2>2. in'.awaddr = BeatStart(i + 1)
      BY <1>1, <1>4, <1>5, <2>1 DEF BeatStart, BeatByte, Bursts, i
    <2> QED BY <1>6, <2>2 DEF BeatStart
  <1>12. w'.retaddr = BeatStart(i)'
    BY <1>4, <1>6, <1>7 DEF BeatStart
  <1>13. Driven(i)'
    <2>1. /\ t' \in Txns /\ t'.kind = "write" /\ i' \in 0 .. t'.len /\ in'.awlen = t'.len
          /\ in'.wvalid /\ in'.awburst = t'.burst /\ in'.awsize = 2
      BY <1>1, <1>4, <1>5, <1>6, <1>8 DEF Driven
    <2>2. in'.wdata = Word(count.txns, i)'
      BY <1>1, <1>6 DEF Word, i
    <2> QED BY <1>11, <2>1, <2>2 DEF Driven, t
  <1>14. (mem = StoredTo(i))'
    <2>1. mem' = StoredTo(i + 1)
      BY <1>4, <1>7
    <2> QED BY <1>1, <1>6, <2>1 DEF StoredTo, Struck, t
  <1>15. WStores(i)'
    BY <1>2, <1>5, <1>6, <1>10, <1>12, <1>13, <1>14 DEF WStores
  <1> QED BY <1>1, <1>15 DEF WriteInv, i

\* While the driver waits, the channel takes the beat, finds its address and
\* stores it.
LEMMA StoreWaits ==
  ASSUME Shapes, WControl, WriteInv, Wait, drv.phase = "write"
  PROVE  WriteInv'
  <1>1. /\ drv' = drv /\ ~w.wready /\ golden' = golden /\ count' = count
        /\ W!WEdge /\ in'.awaddr = in.awaddr /\ in'.awlen = in.awlen
        /\ in'.awburst = in.awburst /\ in'.awsize = in.awsize /\ in'.wvalid = in.wvalid
        /\ in'.wdata = in.wdata /\ in'.wlast = in.wlast
    BY Undriven DEF Edged, WritesAs, Waiting
  <1> DEFINE i == drv.i
  <1>2. WStores(i) /\ Driven(i) /\ WCounts(i)
    BY DEF WriteInv, WStores
  <1>3. /\ t \in Txns /\ t.len \in Nat /\ i \in Nat /\ i \in 0 .. t.len
        /\ in.wvalid /\ in.awlen = t.len /\ in.awburst = t.burst /\ in.awsize = 2
        /\ in.wdata = Word(count.txns, i) /\ in.awaddr = BeatStart(i)
        /\ ~in'.wlast
    BY <1>1, <1>2, Constants DEF Driven, Shapes
  <1>4. t' = t /\ i' = i
    BY <1>1 DEF t
  <1>5. Driven(i)' /\ BeatStart(i)' = BeatStart(i) /\ BeatStart(i + 1)' = BeatStart(i + 1)
    BY <1>1, <1>2, <1>4 DEF Driven, BeatStart
  <1>6. \A n : (mem' = StoredTo(n)) => (mem = StoredTo(n))'
    BY <1>1, <1>4 DEF StoredTo, Struck, t
  <1>7. DOMAIN w = WFields
    BY DEF Shapes
  <1>8. ASSUME WStores(i)'
        PROVE  WriteInv'
    BY <1>1, <1>8 DEF WriteInv
  <1>9. CASE wstate = "wvalids"
    <2>1. wstate' = "wstart" /\ W!WStart /\ i > 0 /\ mem = StoredTo(i) /\ w.retaddr = BeatStart(i)
      BY <1>1, <1>2, <1>9, Turning DEF WStores
    <2>2. mem' = mem /\ w' = [w EXCEPT !.wdatat = in'.wdata]
      BY <1>1, <1>3, <2>1 DEF W!WStart
    <2>3. w'.first = w.first /\ w'.wlen_count = w.wlen_count /\ w'.retaddr = w.retaddr
          /\ w'.wdatat = in'.wdata
      BY <1>7, <2>2 DEF WFields
    <2>4. WCounts(i)'
      BY <1>2, <1>4, <1>9, <2>1, <2>3 DEF WCounts
    <2>5. (mem = StoredTo(i))'
      BY <1>1, <1>4, <2>1, <2>2 DEF StoredTo, Struck, t
    <2> QED BY <1>4, <1>5, <1>8, <2>1, <2>3, <2>4, <2>5 DEF WStores
  <1>10. CASE wstate = "wstart"
    <2>1. /\ wstate' = "waddr_dec" /\ W!WAddrDec /\ mem = StoredTo(i)
          /\ i > 0 => w.retaddr = BeatStart(i)
          /\ w.wdatat = in.wdata
      BY <1>1, <1>2, <1>3, <1>10, Turning DEF WStores
    <2>2. /\ mem' = mem /\ w'.first /\ w'.wlen_count = w.wlen_count
          /\ w'.retaddr = w.retaddr /\ w'.wdatat = w.wdatat
          /\ w'.nextaddr = IF w.first /\ w.wlen_count # in'.awlen + 1 THEN w.retaddr
                           ELSE in'.awaddr
      BY <1>7, <2>1 DEF W!WAddrDec, WFields
    <2>3. w'.nextaddr = BeatStart(i)
      BY <1>1, <1>2, <1>3, <1>10, <2>1, <2>2 DEF WCounts
    <2>4. WCounts(i)'
      BY <1>2, <1>3, <1>4, <2>1, <2>2 DEF WCounts
    <2>5. (mem = StoredTo(i))'
      BY <1>1, <1>4, <2>1, <2>2 DEF StoredTo, Struck, t
    <2> QED BY <1>1, <1>4, <1>5, <1>8, <2>1, <2>2, <2>3, <2>4, <2>5 DEF WStores
  <1>11. CASE wstate = "waddr_dec"
    <2>1. /\ wstate' = "wreadys" /\ W!WReadys /\ mem = StoredTo(i)
          /\ w.wdatat = in.wdata /\ w.nextaddr = BeatStart(i)
      BY <1>1, <1>2, <1>11, Turning DEF WStores
    <2> DEFINE first == IF in'.awburst = "fixed" THEN in'.awaddr ELSE w.nextaddr
               bound == W!Boundary(in'.awburst, in'.awlen, in'.awsize)
    <2>2. first = BeatStart(i) /\ bound = W!Boundary(t.burst, t.len, 2)
      BY <1>1, <1>3, <2>1
    <2>3. /\ mem' = W!data_wr(mem, bound, W!Strobes, first, w.wdatat)
          /\ w' = [w EXCEPT !.wready = TRUE,
                            !.retaddr = W!data_wr_addr(t.burst, bound, W!Strobes, first)]
      BY <1>1, <1>3, <2>1 DEF W!WReadys
    <2> HIDE DEF first, bound
    <2>4. /\ w'.first = w.first /\ w'.wlen_count = w.wlen_count
          /\ w'.retaddr = W!data_wr_addr(t.burst, bound, W!Strobes, first)
      BY <1>7, <2>3 DEF WFields
    <2>5. /\ BeatStored(t, i, w.wdatat, mem, mem')
          /\ w'.retaddr = BeatStart(i + 1)
      BY <1>3, <2>2, <2>3, <2>4, WriteBeat DEF BeatStart
    <2>6. mem' = StoredTo(i + 1)
      BY <1>3, <2>1, <2>5, OneMoreStored
    <2>7. (mem = StoredTo(i + 1))'
      BY <1>1, <1>4, <2>6 DEF StoredTo, Struck, t
    <2>8. WCounts(i)'
      BY <1>2, <1>4, <1>11, <2>1, <2>4 DEF WCounts
    <2> QED BY <1>4, <1>5, <1>8, <2>1, <2>5, <2>7, <2>8 DEF WStores
  <1> QED BY <1>1, <1>9, <1>10, <1>11 DEF WControl

\* With the last beat stored the burst is complete.
LEMMA StoreEnds ==
  ASSUME Counts, Shapes, WControl, WriteInv, EndBurst
  PROVE  WriteInv'
  <1> DEFINE i == drv.i
  <1>1. /\ drv.phase = "write" /\ w.wready /\ i + 1 = Beats /\ golden' = StoredTo(Beats)
        /\ drv'.phase = "wlast" /\ W!WEdge /\ in'.awlen = in.awlen
    BY BurstEnded DEF Drv, Edged
  <1>2. wstate = "wreadys" /\ wstate' = "wvalids" /\ W!WValids
    BY <1>1, Turning DEF WControl, Shapes
  <1>3. WStores(i) /\ Driven(i) /\ WCounts(i)
    BY <1>1 DEF WriteInv, WStores
  <1>4. mem = StoredTo(i + 1)
    BY <1>2, <1>3 DEF WStores
  <1>5. /\ t \in Txns /\ t.kind = "write" /\ t.len \in Nat /\ i = t.len
        /\ t.len + 1 < LenRange /\ LenRange \in Nat /\ in'.awlen = t.len
    BY <1>1, <1>3, Constants DEF Driven, Counts, Beats
  <1>6. /\ mem' = mem /\ w'.first = w.first
        /\ w'.wlen_count = IF w.wlen_count # in'.awlen + 1
                           THEN (w.wlen_count + 1) % LenRange ELSE w.wlen_count
    BY <1>2 DEF W!WValids, Shapes, WFields
  <1> HIDE DEF i
  <1>7. w'.first /\ w'.wlen_count = t.len + 1
    <2>1. CASE w.first /\ w.wlen_count = t.len + 1
      BY <1>5, <1>6, <2>1
    <2>2. CASE w.wlen_count = i /\ w.first
      <3>1. (t.len + 1) % LenRange = t.len + 1
        BY <1>5, SmallRemainder
      <3> QED BY <1>5, <1>6, <2>2, <3>1
    <2> QED BY <1>2, <1>3, <2>1, <2>2 DEF WCounts
  <1>8. golden' = mem' /\ golden' = [x \in Addr |-> golden'[x]]
    <2>1. golden' = mem' /\ golden' = StoredTo(Beats)
      BY <1>1, <1>4, <1>6
    <2> QED BY <2>1 DEF StoredTo
  <1>9. Counted'
    BY <1>5, <1>7 DEF Counted
  <1> QED BY <1>1, <1>7, <1>8, <1>9 DEF WriteInv

LEMMA WriteKept ==
  ASSUME Counts, OneLength, Shapes, WControl, WriteInv, Next
  PROVE  WriteInv'
  <1>1. ASSUME W!WEdge, drv.phase # "write", drv'.phase \notin {"write", "wlast"},
               ~in'.wvalid, golden' = golden
        PROVE  WriteInv'
    <2>1. mem' = mem /\ w' = w
      BY <1>1, Turning, WriteRests DEF WControl
    <2> QED BY <1>1, <2>1 DEF WriteInv, Counted
  <1>2. ASSUME NEW s, Edged(s), drv.phase \notin {"write", "wlast"},
               drv'.phase \notin {"write", "wlast"}, in'.wvalid = in.wvalid, golden' = golden
        PROVE  WriteInv'
    BY <1>1, <1>2 DEF WControl, Edged
  <1>3. ASSUME NEW txn \in Txns, StartWrite(txn)
        PROVE  WriteInv'
    BY <1>3, StoreBegins
  <1>4. ASSUME NEW txn \in Txns, StartRead(txn)
        PROVE  WriteInv'
    BY <1>2, <1>4, ReadStarted DEF Drv
  <1>5. CASE NextBeat
    BY <1>5, StoreGoesOn
  <1>6. CASE EndBurst
    BY <1>6, StoreEnds
  <1>7. CASE LowerLast
    BY <1>1, <1>7, LastLowered DEF Drv, Edged
  <1>8. CASE EndWrite \/ Resume \/ Wait
    <2>1. CASE Wait /\ drv.phase = "write"
      BY <2>1, StoreWaits
    <2>2. CASE ~(Wait /\ drv.phase = "write")
      <3>1. drv.phase \notin {"write", "wlast"}
        BY <1>8, <2>2 DEF EndWrite, Resume, Wait, Waiting
      <3> QED BY <1>2, <1>8, <3>1, Undriven DEF Drv, WritesAs
    <2> QED BY <2>1, <2>2
  <1>9. CASE NextAddress
    BY <1>2, <1>9, AddressDriven DEF Drv
  <1>10. CASE EndRead
    BY <1>2, <1>10, ReadEnded DEF Drv
  <1>11. CASE Reset
    <2>1. mem = [x \in Addr |-> mem[x]]
      BY DEF WriteInv, WStores, StoredTo
    <2>2. mem' = mem /\ ~w'.first /\ w'.wlen_count = 0 /\ golden' = mem
      BY <1>11, Restarted DEF W!WReset, W!WIdle, Shapes, WFields
    <2> QED BY <1>11, <2>1, <2>2, Restarted DEF WriteInv, Drv
  <1> QED BY <1>3, <1>4, <1>5, <1>6, <1>7, <1>8, <1>9, <1>10, <1>11 DEF Next, Tick

-----------------------------------------------------------------------------
(* The read half serves the burst.                                         *)

LEMMA BeatStarts ==
  ASSUME NEW txn \in Txns, NEW i \in Nat
  PROVE  BeatByte(txn.burst, txn.len, txn.addr, i, 0) \in Nat
  <1>1. txn.burst \in Bursts /\ txn.addr \in Nat
    BY Constants
  <1>2. PICK n \in Nat, q \in Nat, f \in Nat :
          /\ n >= 4
          /\ BeatByte(txn.burst, txn.len, txn.addr, i, 0) = Spot(txn.burst, txn.addr, i, n, q, f, 0)
    <2>1. PICK n \in Nat, q \in Nat, f \in Nat : Laid(txn, i, n, q, f)
      BY ByteAt
    <2> QED BY <2>1 DEF Laid
  <1>3. n * q \in Nat /\ (f + 0) % n \in Nat /\ txn.addr + 4 * i + 0 \in Nat
    BY <1>1, <1>2, SMT
  <1> QED BY <1>1, <1>2, <1>3 DEF Spot, Bursts

\* What depends on the transaction alone.
LEMMA SameTxn ==
  ASSUME t' = t
  PROVE  /\ \A i \in Nat : BeatStart(i)' = BeatStart(i)
         /\ Beats' = Beats /\ (Within' <=> Within)
  BY DEF BeatStart, Beats, Within

\* The address channel.
LEMMA Addressing ==
  ASSUME R!ArEdge
  PROVE  /\ arstate = "aridle" => arstate' = "arstart"
         /\ arstate = "arstart" => arstate' = IF in.arvalid THEN "arreadys" ELSE "arstart"
         /\ arstate = "arreadys" => arstate' = "aridle"
         /\ arstate' = "aridle" => ~arready'
         /\ arstate' = "arreadys" => arready'
         /\ arstate' = "arstart" => arready' = arready
         /\ araddrt' = IF arstate' = "arstart" /\ in'.arvalid THEN in'.araddr ELSE araddrt
  BY DEF R!ArEdge

LEMMA AddressKept ==
  ASSUME arstate \in {"aridle", "arstart", "arreadys"}, arready <=> arstate = "arreadys", R!ArEdge
  PROVE  (arstate \in {"aridle", "arstart", "arreadys"})' /\ (arready <=> arstate = "arreadys")'
  BY Addressing

\* The data channel: which state follows which, and what it does there.
LEMMA ReadTurning ==
  ASSUME R!REdge, R!Retriggered
  PROVE  /\ rstate' = r.rnext
         /\ rstate' = "ridle" => R!RIdle
         /\ rstate' = "rstart" => R!RBeat \/ R!RRefuse
         /\ rstate' = "rwait" => R!RWait
         /\ rstate' = "rvalids" => R!RValids
  BY DEF R!REdge, R!RIdle, R!RBeat, R!RRefuse, R!RWait, R!RValids, R!RError

\* At rest it stays as it is.
LEMMA RestGoesOn ==
  ASSUME Shapes, rstate = "ridle", r.rnext = "ridle", ~r.rvalid, ~r.rdfirst, r.len_count = 0,
         R!REdge
  PROVE  /\ rstate' = "ridle" /\ ~r'.rvalid /\ ~r'.rdfirst /\ r'.len_count = 0
         /\ ~in'.arvalid => r'.rnext = "ridle"
         /\ in'.arvalid /\ ~in.arvalid => r'.rnext = "rstart"
  <1>1. rstate' = "ridle"
    BY DEF R!REdge
  <1>2. CASE R!Retriggered
    BY <1>1, <1>2, ReadTurning DEF R!RIdle, R!RIdleLatches, Shapes, RFields
  <1>3. CASE ~R!Retriggered
    <2>1. r' = r /\ R!Sensed(in') = R!Sensed(in)
      BY <1>3 DEF R!REdge, R!Retriggered
    <2> QED BY <1>1, <2>1 DEF R!Sensed
  <1> QED BY <1>2, <1>3

\* Without an address in memory there is no beat.
LEMMA NoBeat ==
  ASSUME Shapes, ~r.rvalid, R!REdge, araddrt' \in Nat \ Addr
  PROVE  ~r'.rvalid
  <1>1. ~R!InRange
    BY Constants DEF R!InRange, Addr
  <1>2. DOMAIN r = RFields
    BY DEF Shapes
  <1>3. r' = r \/ R!RIdle \/ R!RRefuse \/ R!RWait \/ R!RValids \/ R!RError
    BY <1>1 DEF R!REdge, R!RBeat
  <1>4. CASE R!RIdle
    BY <1>2, <1>4 DEF R!RIdle, R!RIdleLatches, RFields
  <1>5. CASE R!RRefuse
    BY <1>2, <1>5 DEF R!RRefuse, RFields
  <1>6. CASE R!RWait
    BY <1>2, <1>6 DEF R!RWait, RFields
  <1>7. CASE R!RValids \/ R!RError
    BY <1>2, <1>7 DEF R!RValids, R!RError, RFields
  <1> QED BY <1>3, <1>4, <1>5, <1>6, <1>7

\* The edge that starts a beat: it is served, or the burst is refused.
LEMMA BeatServed ==
  ASSUME Ready, Shapes, Wait, Asked, drv.phase = "read",
         arstate = "arstart", r.rnext = "rstart", rstate # "rstart", ~r.rvalid,
         got = drv.i, in.araddr = BeatStart(drv.i), araddrt = in.araddr,
         IF r.rdfirst THEN r.len_count = got /\ (t.burst # "fixed" => r.rdretaddr = BeatStart(got))
                      ELSE got = 0
  PROVE  Asked' /\ (RServes \/ RRefused)'
  <1> DEFINE i == drv.i
  <1>1. /\ drv' = drv /\ R!ArEdge /\ R!REdge
        /\ in'.arvalid = in.arvalid /\ in'.araddr = in.araddr /\ in'.arlen = in.arlen
        /\ in'.arburst = in.arburst /\ in'.arsize = in.arsize /\ in'.rready
        /\ got' = IF r'.rvalid /\ ~r.rvalid /\ got <= Beats THEN got + 1 ELSE got
    BY Undriven DEF Edged, ReadsAs, Ready
  <1>2. /\ t \in Txns /\ t.kind = "read" /\ i \in 0 .. t.len /\ t.len \in Nat /\ i \in Nat
        /\ t.burst \in Bursts
        /\ in.arlen = t.len /\ in.arburst = t.burst /\ in.arsize = 2 /\ in.arvalid /\ in.rready
    BY Constants DEF Asked
  <1>3. t' = t /\ i' = i
    BY <1>1 DEF t
  <1>4. Asked'
    BY <1>1, <1>2, <1>3 DEF Asked, t
  <1>5. arstate' = "arreadys" /\ araddrt' = in'.araddr /\ rstate' = "rstart"
        /\ (R!RBeat \/ R!RRefuse)
    BY <1>1, <1>2, Addressing, ReadTurning DEF R!Retriggered, R!REdge
  <1>6. BeatStart(i) \in Nat /\ BeatStart(i)' = BeatStart(i) /\ BeatStart(i + 1)' = BeatStart(i + 1)
    BY <1>2, <1>3, BeatStarts DEF BeatStart
  <1>7. CASE R!RBeat
    <2> DEFINE bound == R!Boundary(in'.arburst, in'.arlen, in'.arsize)
               first == IF in'.arburst = "fixed" THEN araddrt' ELSE R!NextAddr
    <2>1. first = BeatByte(t.burst, t.len, t.addr, i, 0) /\ bound = R!Boundary(t.burst, t.len, 2)
      <3>1. got # t.len + 1
        BY <1>2
      <3>2. R!NextAddr = BeatStart(i) \/ t.burst = "fixed"
        BY <1>1, <1>2, <3>1 DEF R!NextAddr
      <3> QED BY <1>1, <1>2, <1>5, <3>2 DEF BeatStart
    <2>2. r' = [r EXCEPT !.rvalid = TRUE, !.rnext = "rwait", !.rresp = "okay",
                         !.rdfirst = TRUE, !.len_count = IF r.rdfirst THEN r.len_count ELSE 0,
                         !.rdata = R!read_data(mem', @, bound, 2, first),
                         !.rdnextaddr = R!NextAddr,
                         !.rdretaddr = IF in'.arburst = "fixed" THEN @
                                       ELSE R!read_data_addr(bound, 2, first)]
      BY <1>1, <1>2, <1>7 DEF R!RBeat
    <2> HIDE DEF bound, first
    <2>3. /\ r'.rvalid /\ r'.rnext = "rwait" /\ r'.rdfirst /\ r'.len_count = i
          /\ r'.rdata = R!read_data(mem', r.rdata, bound, 2, first)
          /\ t.burst # "fixed" => r'.rdretaddr = R!read_data_addr(bound, 2, first)
      BY <1>1, <1>2, <2>2 DEF Shapes, RFields
    <2>4. /\ BeatRead(t, i, r'.rdata, mem')
          /\ t.burst # "fixed" => r'.rdretaddr = BeatStart(i + 1)
      BY <1>2, <2>1, <2>3, ReadBeat DEF BeatStart
    <2>5. got' = i + 1
      BY <1>1, <1>2, <2>3 DEF Beats
    <2>6. BeatRead(t, i, r.rdata, mem)'
      BY <1>3, <2>4 DEF BeatRead
    <2> QED BY <1>1, <1>3, <1>4, <1>5, <1>6, <2>3, <2>4, <2>5, <2>6 DEF RServes
  <1>8. CASE R!RRefuse
    <2>1. araddrt' \in Nat \ Addr
      BY <1>1, <1>2, <1>5, <1>6, <1>8, Constants DEF R!RRefuse, R!InRange, Addr
    <2>2. ~r'.rvalid
      BY <1>8 DEF R!RRefuse, Shapes, RFields
    <2>3. ~Within
      BY <1>1, <1>2, <1>5, <2>1 DEF Within, BeatStart
    <2>4. t.burst = "fixed" => BeatStart(0) = BeatStart(i)
      BY DEF BeatStart, BeatByte
    <2> QED BY <1>1, <1>2, <1>3, <1>4, <1>5, <1>6, <2>1, <2>2, <2>3, <2>4
            DEF RRefused, Within, BeatStart
  <1> QED BY <1>4, <1>5, <1>7, <1>8

\* What every edge within a read keeps.
LEMMA AskedKept ==
  ASSUME Ready, Shapes, Asked, NextAddress \/ (Wait /\ drv.phase \in {"read", "rlast"})
  PROVE  /\ Asked' /\ t' = t /\ R!ArEdge /\ R!REdge
         /\ in'.arvalid /\ in'.arlen = t.len /\ in'.arburst = t.burst
         /\ in'.arsize = 2 /\ in'.rready
         /\ got' = IF r'.rvalid /\ ~r.rvalid /\ got <= Beats THEN got + 1 ELSE got
  <1>1. /\ t \in Txns /\ t.kind = "read" /\ t.len \in Nat /\ drv.i \in 0 .. t.len
        /\ in.arlen = t.len /\ in.arburst = t.burst /\ in.arsize = 2 /\ in.arvalid
    BY Constants DEF Asked
  <1>2. CASE NextAddress
    <2>1. /\ Edged(FALSE) /\ in'.arvalid = in.arvalid /\ in'.arlen = in.arlen
          /\ in'.arburst = in.arburst /\ in'.arsize = in.arsize /\ drv'.txn = t
          /\ drv'.phase \in {"read", "rlast"}
          /\ drv'.i = 0 \/ (drv'.i = drv.i + 1 /\ drv.i + 1 < Beats)
      BY <1>2, AddressDriven DEF Drv
    <2>2. drv'.i \in 0 .. t.len
      BY <1>1, <2>1 DEF Beats
    <2>3. R!ArEdge /\ R!REdge /\ in'.rready
          /\ got' = IF r'.rvalid /\ ~r.rvalid /\ got <= Beats THEN got + 1 ELSE got
      BY <2>1 DEF Edged, Ready
    <2> QED BY <1>1, <2>1, <2>2, <2>3 DEF Asked, t
  <1>3. CASE Wait /\ drv.phase \in {"read", "rlast"}
    <2>1. /\ Edged(FALSE) /\ in'.arvalid = in.arvalid /\ in'.arlen = in.arlen
          /\ in'.arburst = in.arburst /\ in'.arsize = in.arsize /\ drv' = drv
      BY <1>3, Undriven DEF ReadsAs
    <2>2. R!ArEdge /\ R!REdge /\ in'.rready
          /\ got' = IF r'.rvalid /\ ~r.rvalid /\ got <= Beats THEN got + 1 ELSE got
      BY <2>1 DEF Edged, Ready
    <2> QED BY <1>1, <1>3, <2>1, <2>2 DEF Asked, t
  <1> QED BY <1>2, <1>3

\* The beat taken, the driver advances, and the channel has counted it.
LEMMA BeatTaken ==
  ASSUME Counts, Ready, Shapes, Asked, RServes, NextAddress
  PROVE  RWaits'
  <1> DEFINE i == drv.i
  <1>1. /\ t \in Txns /\ t.len \in Nat /\ i \in 0 .. t.len /\ i \in Nat /\ t.addr \in Nat
        /\ t.burst \in Bursts /\ t.len + 1 < LenRange /\ LenRange \in Nat
    BY Constants DEF Asked, Counts
  <1>2. /\ t' = t /\ R!ArEdge /\ R!REdge /\ in'.arlen = t.len /\ in'.rready
        /\ got' = IF r'.rvalid /\ ~r.rvalid /\ got <= Beats THEN got + 1 ELSE got
    BY AskedKept
  <1>3. IF i + 1 < Beats
          THEN /\ drv'.phase = "read" /\ drv'.i = i + 1
               /\ in'.araddr = CASE t.burst = "fixed" -> t.addr
                                 [] t.burst = "incr" -> t.addr + 4 * (i + 1)
                                 [] t.burst = "wrap" -> r.rdretaddr
          ELSE drv'.phase = "rlast"
    BY AddressDriven DEF Drv
  <1>4. /\ arstate = "arreadys" /\ rstate = "rstart" /\ r.rnext = "rwait" /\ r.rdfirst
        /\ got = i + 1 /\ r.len_count = i
        /\ t.burst # "fixed" => r.rdretaddr = BeatStart(i + 1)
    BY DEF RServes
  <1>5. rstate' = "rwait" /\ R!RWait
    BY <1>2, <1>4, ReadTurning DEF R!Retriggered, R!REdge
  <1>6. (i + 1) % LenRange = i + 1
    BY <1>1, SmallRemainder
  <1>7. /\ ~r'.rvalid /\ r'.len_count = i + 1 /\ r'.rnext = "rvalids" /\ r'.rdfirst
        /\ r'.rdretaddr = r.rdretaddr /\ (r'.rlast <=> i + 1 = t.len + 1)
    BY <1>2, <1>4, <1>5, <1>6 DEF R!RWait, R!IsLast, Shapes, RFields
  <1>8. got' = i + 1 /\ Beats' = Beats /\ Beats = t.len + 1
    BY <1>2, <1>4, <1>7 DEF Beats
  <1>9. arstate' = "aridle"
    BY <1>2, <1>4, Addressing
  <1>10. i + 1 < Beats => in'.araddr = BeatStart(i + 1)
    <2>1. t.addr + 0 = t.addr /\ t.addr + 4 * (i + 1) + 0 = t.addr + 4 * (i + 1)
      BY <1>1
    <2> QED BY <1>1, <1>3, <1>4, <2>1 DEF BeatStart, BeatByte, Bursts
  <1>11. BeatStart(got)' = BeatStart(i + 1)
    BY <1>2, <1>8 DEF BeatStart
  <1> HIDE DEF i
  <1>12. Advanced'
    <2>1. i + 1 \in 1 .. Beats /\ (i + 1 = Beats \/ i + 1 < Beats)
      BY <1>1, <1>8
    <2>2. CASE i + 1 = Beats
      BY <1>3, <1>7, <1>8, <2>1, <2>2 DEF Advanced
    <2>3. CASE i + 1 < Beats
      <3>1. i + 1 # Beats
        BY <1>1, <1>8, <2>3
      <3> QED BY <1>2, <1>3, <1>4, <1>7, <1>8, <1>10, <1>11, <2>1, <2>3, <3>1 DEF Advanced
    <2> QED BY <2>1, <2>2, <2>3
  <1> QED BY <1>5, <1>7, <1>9, <1>12 DEF RWaits

\* The channel takes an edge to see whether the beat was the last.
LEMMA BeatWeighed ==
  ASSUME Ready, Shapes, Asked, RWaits, Wait
  PROVE  RGoesOn'
  <1>1. drv' = drv /\ in'.araddr = in.araddr /\ drv.phase \in {"read", "rlast"}
    BY Undriven DEF ReadsAs, RWaits, Advanced, Waiting, Asked
  <1>2. /\ t' = t /\ R!ArEdge /\ R!REdge /\ in'.arlen = t.len /\ in'.arvalid
        /\ got' = IF r'.rvalid /\ ~r.rvalid /\ got <= Beats THEN got + 1 ELSE got
    BY <1>1, AskedKept
  <1>3. arstate' = "arstart" /\ araddrt' = in'.araddr
    BY <1>2, Addressing DEF RWaits
  <1>4. rstate' = "rvalids" /\ R!RValids
    BY <1>2, ReadTurning DEF RWaits, R!Retriggered, R!REdge
  <1>5. /\ r'.rnext = IF r.len_count = t.len + 1 THEN "ridle" ELSE "rstart"
        /\ r'.rdfirst = r.rdfirst /\ r'.rvalid = r.rvalid /\ r'.len_count = r.len_count
        /\ r'.rlast = r.rlast /\ r'.rdretaddr = r.rdretaddr
    BY <1>2, <1>4 DEF R!RValids, R!IsLast, Shapes, RFields
  <1>6. got' = got /\ Beats' = Beats /\ Beats = t.len + 1 /\ BeatStart(got)' = BeatStart(got)
    BY <1>2, <1>5 DEF Beats, BeatStart, RWaits, Advanced
  <1>7. Advanced'
    BY <1>1, <1>2, <1>5, <1>6 DEF Advanced, RWaits
  <1> QED BY <1>1, <1>3, <1>4, <1>5, <1>6, <1>7 DEF RGoesOn, Advanced, RWaits

\* A burst that has left memory does not come back.
LEMMA RefusalGoesOn ==
  ASSUME Ready, Shapes, Asked, RRefused, NextAddress \/ (Wait /\ drv.phase \in {"read", "rlast"})
  PROVE  RRefused'
  <1>1. /\ t \in Txns /\ t.len \in Nat /\ drv.i \in Nat /\ t.addr \in Nat /\ t.burst \in Bursts
    BY Constants DEF Asked
  <1>2. /\ t' = t /\ R!ArEdge /\ R!REdge
    BY AskedKept
  <1>3. /\ in'.araddr \in Nat \ Addr
        /\ t.burst = "fixed" => BeatStart(0) = in'.araddr
        /\ t.burst = "incr" /\ drv'.phase = "read" => BeatStart(drv'.i) = in'.araddr
    <2>1. CASE Wait
      BY <2>1, Undriven DEF ReadsAs, RRefused, Waiting, Drv
    <2>2. CASE NextAddress /\ ~(drv.i + 1 < Beats)
      BY <2>2, AddressDriven DEF RRefused, Drv
    <2>3. CASE NextAddress /\ drv.i + 1 < Beats
      <3>1. /\ drv.phase = "read" /\ Advances /\ drv'.phase = "read" /\ drv'.i = drv.i + 1
            /\ in'.araddr = CASE t.burst = "fixed" -> t.addr
                              [] t.burst = "incr" -> t.addr + 4 * (drv.i + 1)
                              [] t.burst = "wrap" -> r.rdretaddr
        BY <2>3, AddressDriven DEF Drv
      <3>2. t.burst # "wrap"
        BY <3>1 DEF Advances, RRefused
      <3>3. CASE t.burst = "fixed"
        BY <1>1, <3>1, <3>3, BurstBegins DEF RRefused, BeatStart
      <3>4. CASE t.burst = "incr"
        <4>1. /\ BeatStart(drv.i) = t.addr + 4 * drv.i + 0
              /\ BeatStart(drv'.i) = t.addr + 4 * (drv.i + 1) + 0
          BY <3>1, <3>4 DEF BeatStart, BeatByte
        <4>2. t.addr + 4 * drv.i + 0 \in Nat \ Addr
          BY <3>1, <3>4, <4>1 DEF RRefused
        <4>3. t.addr + 4 * (drv.i + 1) + 0 \in Nat \ Addr
              /\ t.addr + 4 * (drv.i + 1) + 0 = t.addr + 4 * (drv.i + 1)
          <5> DEFINE a == drv.i
          <5>1. a \in Nat /\ t.addr + 4 * a + 0 \in Nat \ Addr
            BY <1>1, <4>2
          <5> HIDE DEF a
          <5>2. t.addr + 4 * (a + 1) + 0 \in Nat \ Addr
                /\ t.addr + 4 * (a + 1) + 0 = t.addr + 4 * (a + 1)
            BY <1>1, <5>1, Constants DEF Addr
          <5> QED BY <5>2 DEF a
        <4> QED BY <3>1, <3>4, <4>1, <4>3
      <3> QED BY <1>1, <3>2, <3>3, <3>4 DEF Bursts
    <2> QED BY <2>1, <2>2, <2>3
  <1>4. araddrt' \in Nat \ Addr
    BY <1>2, <1>3, Addressing DEF RRefused
  <1>5. ~r'.rvalid
    BY <1>2, <1>4, NoBeat DEF RRefused
  <1>6. /\ Within' <=> Within
        /\ BeatStart(0)' = BeatStart(0) /\ BeatStart(drv.i)' = BeatStart(drv'.i)
    BY <1>2 DEF Within, BeatStart
  <1> QED BY <1>2, <1>3, <1>4, <1>5, <1>6 DEF RRefused

LEMMA ReadKept ==
  ASSUME Counts, Ready, Shapes, ReadInv, Next
  PROVE  ReadInv'
  <1>1. /\ arstate \in {"aridle", "arstart", "arreadys"} /\ (arready <=> arstate = "arreadys")
    BY DEF ReadInv
  <1>2. drv.phase \in {"read", "rlast"} =>
          Asked /\ (RBegins \/ RServes \/ RWaits \/ RGoesOn \/ RRefused)
    BY DEF ReadInv
  <1>3. drv.phase \notin {"read", "rlast"} => RRests
    BY DEF ReadInv
  \* Outside a read.
  <1>4. ASSUME NEW s, Edged(s), drv.phase \notin {"read", "rlast"},
               drv'.phase \notin {"read", "rlast"}, ~in'.arvalid,
               drv'.phase \in {"write", "wlast", "wresp"} => t'.kind = "write",
               drv'.phase = "pause" => t'.kind = "write"
        PROVE  ReadInv'
    <2>1. R!ArEdge /\ R!REdge
      BY <1>4 DEF Edged
    <2>2. (arstate \in {"aridle", "arstart", "arreadys"})' /\ (arready <=> arstate = "arreadys")'
      BY <1>1, <2>1, AddressKept
    <2>3. arstate' # "arreadys"
      BY <1>1, <1>3, <1>4, <2>1, Addressing DEF RRests
    <2>4. rstate' = "ridle" /\ ~r'.rvalid /\ ~r'.rdfirst /\ r'.len_count = 0 /\ r'.rnext = "ridle"
      BY <1>3, <1>4, <2>1, RestGoesOn DEF RRests
    <2>5. BeatsDelivered'
      BY <1>4 DEF BeatsDelivered
    <2> QED BY <1>4, <2>2, <2>3, <2>4, <2>5 DEF ReadInv, RRests
  <1>5. ASSUME NEW txn \in Txns, StartWrite(txn)
        PROVE  ReadInv'
    BY <1>4, <1>5, WriteStarted DEF Drv, t
  <1>6. ASSUME NEW txn \in Txns, StartRead(txn)
        PROVE  ReadInv'
    <2>1. /\ drv.phase = "idle" /\ txn.kind = "read" /\ drv'.phase = "read" /\ drv'.txn = txn
          /\ drv'.i = 0 /\ in'.arvalid = TRUE /\ in'.araddr = txn.addr /\ in'.arlen = txn.len
          /\ in'.arburst = txn.burst /\ in'.arsize = 2 /\ in'.rready /\ got' = 0
          /\ R!ArEdge /\ R!REdge
      BY <1>6, ReadStarted DEF Drv, Edged, Ready
    <2>2. (arstate \in {"aridle", "arstart", "arreadys"})' /\ (arready <=> arstate = "arreadys")'
      BY <1>1, <2>1, AddressKept
    <2>3. RRests
      BY <1>3, <2>1
    <2>4. arstate' = "arstart" /\ araddrt' = in'.araddr
      BY <1>1, <2>1, <2>3, Addressing DEF RRests
    <2>5. rstate' = "ridle" /\ ~r'.rvalid /\ ~r'.rdfirst /\ r'.rnext = "rstart"
      BY <2>1, <2>3, RestGoesOn DEF RRests
    <2>6. t' = txn /\ txn.len \in Nat
      BY <2>1, Constants DEF t
    <2>7. Asked'
      BY <1>6, <2>1, <2>6 DEF Asked
    <2>8. BeatStart(0)' = txn.addr
      BY <1>6, <2>6, BurstBegins DEF BeatStart
    <2>9. RBegins'
      BY <2>1, <2>4, <2>5, <2>8 DEF RBegins
    <2> QED BY <2>1, <2>2, <2>7, <2>9 DEF ReadInv
  <1>7. CASE NextBeat
    BY <1>3, <1>4, <1>7, BeatDriven DEF Drv, t, RRests
  <1>8. CASE EndBurst
    BY <1>3, <1>4, <1>8, BurstEnded DEF Drv, t, RRests
  <1>9. CASE LowerLast
    BY <1>3, <1>4, <1>9, LastLowered DEF Drv, t, RRests
  <1>10. CASE drv.phase \notin {"read", "rlast"} /\ (EndWrite \/ Resume \/ Wait)
    <2>1. RRests
      BY <1>3, <1>10
    <2>2. Edged(FALSE) /\ in'.arvalid = in.arvalid
      BY <1>10, Undriven DEF ReadsAs
    <2>3. CASE drv.phase = "wresp" /\ Drv("pause", t, 0)
      BY <1>4, <2>1, <2>2, <2>3 DEF Drv, t, RRests
    <2>4. CASE drv.phase = "pause" /\ Drv("idle", t, 0)
      BY <1>4, <2>1, <2>2, <2>4 DEF Drv, t, RRests
    <2>5. CASE Waiting /\ drv' = drv /\ drv.phase # "pause"
      BY <1>4, <1>10, <2>1, <2>2, <2>5 DEF Waiting, t, RRests
    \* A read with fewer beats than were asked for: the slave stays at rest.
    <2>6. CASE drv.phase = "pause" /\ drv' = drv
      <3>1. R!ArEdge /\ R!REdge /\ ~in'.arvalid /\ t' = t
            /\ got' = IF r'.rvalid /\ ~r.rvalid /\ got <= Beats THEN got + 1 ELSE got
        BY <2>1, <2>2, <2>6 DEF Edged, RRests, t
      <3>2. (arstate \in {"aridle", "arstart", "arreadys"})' /\ (arready <=> arstate = "arreadys")'
        BY <1>1, <3>1, AddressKept
      <3>3. rstate' = "ridle" /\ ~r'.rvalid /\ ~r'.rdfirst /\ r'.len_count = 0 /\ r'.rnext = "ridle"
        BY <2>1, <3>1, RestGoesOn DEF RRests
      <3>4. BeatsDelivered'
        BY <2>1, <2>6, <3>1, <3>3, SameTxn DEF BeatsDelivered, RRests
      <3> QED BY <2>6, <3>1, <3>2, <3>3, <3>4 DEF ReadInv, RRests
    <2> QED BY <1>10, <2>3, <2>4, <2>5, <2>6, Undriven
  \* Within a read.
  <1>11. ASSUME NextAddress \/ (Wait /\ drv.phase \in {"read", "rlast"}),
                Asked, drv'.phase \in {"read", "rlast"},
                (RBegins \/ RServes \/ RWaits \/ RGoesOn \/ RRefused)'
         PROVE  ReadInv'
    <2>1. Asked' /\ R!ArEdge
      BY <1>11, AskedKept
    <2> QED BY <1>1, <1>11, <2>1, AddressKept DEF ReadInv
  <1>12. CASE NextAddress
    <2>1. drv.phase = "read" /\ Advances /\ drv'.phase \in {"read", "rlast"}
      BY <1>12, AddressDriven DEF Drv
    <2>2. Asked /\ (RServes \/ RRefused)
      BY <1>1, <1>2, <2>1 DEF Advances, RBegins, RWaits, RGoesOn, Advanced
    <2>3. CASE RServes
      BY <1>11, <1>12, <2>1, <2>2, <2>3, BeatTaken
    <2>4. CASE RRefused
      BY <1>11, <1>12, <2>1, <2>2, <2>4, RefusalGoesOn
    <2> QED BY <2>2, <2>3, <2>4
  <1>13. CASE Wait /\ drv.phase \in {"read", "rlast"}
    <2>1. /\ drv' = drv /\ Asked
          /\ drv.phase = "read" => ~Advances
          /\ drv.phase = "rlast" => ~RlastFalls
      BY <1>2, <1>13, Undriven DEF Waiting
    <2>2. CASE RBegins
      <3>1. RServes' \/ RRefused'
        BY <1>13, <2>1, <2>2, BeatServed DEF RBegins
      <3> QED BY <1>11, <1>13, <2>1, <3>1
    <2>3. CASE RServes
      BY <1>1, <2>1, <2>3 DEF RServes, Advances
    <2>4. CASE RWaits
      BY <1>11, <1>13, <2>1, <2>4, BeatWeighed
    <2>5. CASE RGoesOn
      <3>1. got # Beats
        BY <2>1, <2>5 DEF RGoesOn, Advanced, RlastFalls
      <3>2. RServes' \/ RRefused'
        BY <1>13, <2>1, <2>5, <3>1, BeatServed DEF RGoesOn, Advanced
      <3> QED BY <1>11, <1>13, <2>1, <3>2
    <2>6. CASE RRefused
      BY <1>11, <1>13, <2>1, <2>6, RefusalGoesOn
    <2> QED BY <1>2, <1>13, <2>2, <2>3, <2>4, <2>5, <2>6
  <1>14. CASE EndRead
    <2>1. /\ drv.phase = "rlast" /\ r.rnext = "ridle" /\ drv'.phase = "pause" /\ drv'.txn = t
          /\ ~in'.arvalid /\ R!ArEdge /\ R!REdge
          /\ got' = IF r'.rvalid /\ ~r.rvalid /\ got <= Beats THEN got + 1 ELSE got
      BY <1>14, ReadEnded DEF Drv, Edged
    <2>2. Asked /\ (RGoesOn \/ RRefused)
      BY <1>2, <2>1 DEF RBegins, RServes, RWaits
    <2>3. R!Retriggered
      BY <2>1, <2>2 DEF R!Retriggered, R!Sensed, Asked
    <2>4. rstate' = "ridle" /\ ~r'.rvalid /\ ~r'.rdfirst /\ r'.len_count = 0 /\ r'.rnext = "ridle"
      BY <2>1, <2>3, ReadTurning DEF R!RIdle, R!RIdleLatches, Shapes, RFields
    <2>5. got' = got /\ t' = t
      BY <2>1, <2>4 DEF t
    <2>6. got = Beats \/ ~Within
      BY <2>1, <2>2 DEF RGoesOn, RRefused, Advanced
    <2>7. BeatsDelivered'
      BY <2>5, <2>6, SameTxn DEF BeatsDelivered
    <2>8. (arstate \in {"aridle", "arstart", "arreadys"})' /\ (arready <=> arstate = "arreadys")'
      BY <1>1, <2>1, AddressKept
    <2> QED BY <2>1, <2>4, <2>7, <2>8 DEF ReadInv, RRests
  <1>15. CASE Reset
    <2>1. drv'.phase = "idle" /\ in'.arvalid = FALSE /\ R!RReset
      BY <1>15, Restarted DEF Drv
    <2>2. arstate' = "aridle" /\ ~arready' /\ rstate' = "ridle" /\ R!RIdle
      BY <2>1 DEF R!RReset
    <2>3. ~r'.rvalid /\ ~r'.rdfirst /\ r'.len_count = 0 /\ r'.rnext = "ridle"
      BY <2>1, <2>2 DEF R!RIdle, R!RIdleLatches, Shapes, RFields
    <2> QED BY <2>1, <2>2, <2>3 DEF ReadInv, RRests, BeatsDelivered
  <1>16. EndWrite \/ Resume => drv.phase \notin {"read", "rlast"}
    BY DEF EndWrite, Resume
  <1> QED BY <1>5, <1>6, <1>7, <1>8, <1>9, <1>10, <1>12, <1>13, <1>14, <1>15, <1>16 DEF Next, Tick

-----------------------------------------------------------------------------
(* Results.                                                                *)

LEMMA Begins ==
  ASSUME Init
  PROVE  Shapes /\ RespInv /\ WControl /\ WriteInv /\ ReadInv
  <1>1. /\ in = Quiet /\ golden = [x \in Addr |-> Default] /\ W!WInit(Word(0, 0), "okay") /\ R!RInit
        /\ drv = [phase |-> "idle", txn |-> NoTxn, i |-> 0]
        /\ count = [txns |-> 0, resets |-> 0]
    BY DEF Init
  <1>2. DOMAIN in = InFields /\ ~in.wlast /\ ~in.wvalid /\ ~in.arvalid
    BY <1>1 DEF Quiet, InFields
  <1>3. /\ drv.phase = "idle" /\ DOMAIN drv = {"phase", "txn", "i"}
        /\ DOMAIN count = {"txns", "resets"}
    BY <1>1
  <1>4. /\ wstate = "widle" /\ ~w.wready /\ ~w.first /\ w.wlen_count = 0 /\ DOMAIN w = WFields
        /\ bstate = "bidle" /\ ~b.bvalid /\ DOMAIN b = {"bvalid", "bresp"} /\ mem = golden
    <2>1. W!Addr = Addr
      BY SameWalk
    <2> QED BY <1>1, <2>1 DEF W!WInit, WFields
  <1>5. /\ arstate = "aridle" /\ ~arready /\ rstate = "ridle" /\ r.rnext = "ridle" /\ ~r.rvalid
        /\ ~r.rdfirst /\ r.len_count = 0 /\ DOMAIN r = RFields
    BY <1>1 DEF R!RInit, RFields
  <1> QED BY <1>1, <1>2, <1>3, <1>4, <1>5
       DEF Shapes, RespInv, WControl, WriteInv, ReadInv, RRests, BeatsDelivered

LEMMA Stutters ==
  ASSUME UNCHANGED vars
  PROVE  /\ Shapes => Shapes'
         /\ RespInv => RespInv'
         /\ WControl => WControl'
         /\ WriteInv => WriteInv'
         /\ ReadInv => ReadInv'
  <1>1. UNCHANGED <<in, awstate, awready, wstate, w, mem, bstate, b, arstate, arready, araddrt,
                    rstate, r, drv, got, count, golden>>
    BY DEF vars, slave
  <1>2. t' = t /\ UNCHANGED <<drv.phase, drv.i>>
    BY <1>1 DEF t
  <1>3. Shapes => Shapes'
    BY <1>1 DEF Shapes
  <1>4. RespInv => RespInv'
    BY <1>1 DEF RespInv
  <1>5. WControl => WControl'
    BY <1>1 DEF WControl
  <1>6. WriteInv => WriteInv'
    BY <1>1, <1>2 DEF WriteInv, WStores, Driven, WCounts, Counted, StoredTo, Struck, BeatStart, t
  <1>7. ReadInv => ReadInv'
    BY <1>1, <1>2 DEF ReadInv, RRests, Asked, RBegins, RServes, Advanced, RWaits, RGoesOn, RRefused,
       BeatsDelivered, Within, Beats, BeatStart, BeatRead, t
  <1> QED BY <1>3, <1>4, <1>5, <1>6, <1>7

\* Where the response and data channels are in each phase of the driver.
THEOREM AxiControl == Spec => [](Shapes /\ RespInv /\ WControl)
  <1>1. Init => Shapes /\ RespInv /\ WControl
    BY Begins
  <1>2. Shapes /\ RespInv /\ WControl /\ [Next]_vars => (Shapes /\ RespInv /\ WControl)'
    BY ShapesKept, RespKept, ControlKept, Stutters
  <1> QED BY <1>1, <1>2, PTL DEF Spec

\* The response follows the data: while the master still drives beats, or
\* wlast with the last of them, bvalid is down (axi.sv:872-909).
THEOREM AxiResponds == Spec => []ResponseAfterData
  <1>1. RespInv => ResponseAfterData
    BY DEF RespInv, ResponseAfterData
  <1> QED BY <1>1, AxiControl, PTL

\* The write half stores a burst of any kind as the protocol asks, for every
\* size of memory and every set of transactions whose writes are of one
\* length that the counters hold (axi.sv:179-368, 444-759, 775-862).
THEOREM AxiStores ==
  ASSUME Counts, OneLength
  PROVE  Spec => []MemMatches
  <1>1. Init => WriteInv
    BY Begins
  <1>2. Shapes /\ WControl /\ WriteInv /\ [Next]_vars => WriteInv'
    BY WriteKept, Stutters
  <1>3. WriteInv => MemMatches
    BY DEF WriteInv, MemMatches
  <1> QED BY <1>1, <1>2, <1>3, AxiControl, PTL DEF Spec

\* The read half counts the beats of a burst: with a master that holds rready
\* high, rlast comes with the last one asked for (axi.sv:959-1200).
THEOREM AxiCounts ==
  ASSUME Counts, Ready
  PROVE  Spec => [](ReadInv /\ BeatsDelivered)
  <1>1. Init => ReadInv
    BY Begins
  <1>2. Shapes /\ ReadInv /\ [Next]_vars => ReadInv'
    BY ReadKept, Stutters
  <1>3. ReadInv => BeatsDelivered
    BY DEF ReadInv, RRests, BeatsDelivered
  <1> QED BY <1>1, <1>2, <1>3, AxiControl, PTL DEF Spec

\* Every beat read is what the writes before it have left at its address.
THEOREM AxiReads ==
  ASSUME Counts, OneLength, Ready
  PROVE  Spec => []DataMatched
  <1>1. Shapes /\ ReadInv /\ MemMatches => DataMatched
    <2> SUFFICES ASSUME ReadInv, MemMatches, r.rvalid
                 PROVE  DataMatched
      BY DEF DataMatched
    <2>1. RServes /\ Asked
      BY DEF ReadInv, RRests, RBegins, RWaits, RGoesOn, Advanced, RRefused
    <2>2. drv.phase = "read" /\ got - 1 = drv.i /\ BeatRead(t, drv.i, r.rdata, mem)
      <3>1. drv.i \in Nat
        BY <2>1, Constants DEF Asked
      <3> QED BY <2>1, <3>1 DEF RServes
    <2>3. mem = golden
      BY <2>2 DEF MemMatches
    <2> QED BY <2>2, <2>3 DEF DataMatched, BeatRead
  <1> QED BY <1>1, AxiControl, AxiCounts, AxiStores, PTL

\* No beat is started at an edge that takes an address or stores a byte, so
\* the block that counts the beats is evaluated once for each
\* (axi.sv:933-955, 1091-1163).
THEOREM AxiEvaluates ==
  ASSUME Counts, Ready
  PROVE  Spec => OneEvaluation
  <1>1. ASSUME WControl, ReadInv, ReadInv', Shapes, Next, rstate' = "rstart", r'.rvalid
        PROVE  arstate' # "arstart" /\ mem' = mem
    <2>1. arstate' = "arreadys" /\ drv'.phase = "read"
      BY <1>1 DEF ReadInv, RRests, RBegins, RServes, RWaits, RGoesOn, Advanced, RRefused
    <2>2. ASSUME NEW s, Edged(s), drv.phase \notin {"write", "wlast"}
          PROVE  mem' = mem
      BY <1>1, <2>2, Turning DEF WControl, Edged, W!WStart
    <2> QED BY <1>1, <2>1, <2>2, WriteStarted, ReadStarted, BeatDriven, BurstEnded, LastLowered,
             AddressDriven, ReadEnded, Undriven, Restarted DEF Next, Tick, Drv, Waiting
  <1>2. Shapes /\ WControl /\ ReadInv /\ ReadInv' /\ [Next]_vars
          => [rstate' = "rstart" /\ r'.rvalid => arstate' # "arstart" /\ mem' = mem]_vars
    BY <1>1
  <1> QED BY <1>2, AxiControl, AxiCounts, PTL DEF Spec, OneEvaluation
=============================================================================
