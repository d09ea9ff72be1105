---------------------------- MODULE DataTheorems ----------------------------
(***************************************************************************)
(* Facts about the data the models share: sequences that grow and shrink,  *)
(* the ring and what is kept of a sequence (Storage.tla), and the         *)
(* induction over the naturals that a recursive function needs.            *)
(***************************************************************************)
EXTENDS Storage, TLAPS, FiniteSetTheorems

-----------------------------------------------------------------------------
(* Sequences.                                                              *)

\* What becomes of a sequence when an entry is added or taken.
LEMMA Grow ==
  ASSUME NEW S, NEW s \in Seq(S), NEW e \in S
  PROVE  /\ Append(s, e) \in Seq(S) /\ Len(Append(s, e)) = Len(s) + 1
         /\ Append(s, e) # <<>>
         /\ \A i \in 1 .. Len(s) : Append(s, e)[i] = s[i]
         /\ Append(s, e)[Len(s) + 1] = e
  OBVIOUS

LEMMA Shrink ==
  ASSUME NEW S, NEW s \in Seq(S), s # <<>>
  PROVE  /\ Tail(s) \in Seq(S) /\ Len(Tail(s)) = Len(s) - 1 /\ Len(s) \in Nat \ {0}
         /\ Head(s) \in S /\ Head(s) = s[1]
         /\ \A i \in 1 .. Len(s) - 1 : Tail(s)[i] = s[i + 1]
  OBVIOUS

\* Two sequences with the same words at the same places are the same.
LEMMA SeqEqual ==
  ASSUME NEW S, NEW s \in Seq(S), NEW t \in Seq(S), Len(s) = Len(t),
         \A i \in 1 .. Len(s) : s[i] = t[i]
  PROVE  s = t
  OBVIOUS

-----------------------------------------------------------------------------
(* The ring.                                                               *)

\* The slots of a ring are slots, and an incremented pointer stays a pointer.
LEMMA SlotRange ==
  ASSUME NEW M \in Nat, M # 0, NEW p \in 0 .. M - 1, NEW i \in 0 .. M
  PROVE  Slot(p, i, M) \in 0 .. M - 1 /\ Slot(p, 0, M) = p
  BY SMT DEF Slot

LEMMA IncRange ==
  ASSUME NEW M \in Nat, M # 0, NEW p \in 0 .. M - 1
  PROVE  Inc(p, M) \in 0 .. M - 1
  BY SMT DEF Inc

\* The slot after the n-th is the n+1-st, counted from p or from the one after.
LEMMA SlotStep ==
  ASSUME NEW M \in Nat, M # 0, NEW p \in 0 .. M - 1, NEW n \in 0 .. M - 1
  PROVE  /\ Inc(Slot(p, n, M), M) = Slot(p, n + 1, M)
         /\ Slot(Inc(p, M), n, M) = Slot(p, n + 1, M)
  <1>1. Inc(Slot(p, n, M), M) = Slot(p, n + 1, M)
    BY SMT DEF Slot, Inc
  <1>2. Slot(Inc(p, M), n, M) = Slot(p, n + 1, M)
    BY SMT DEF Slot, Inc
  <1> QED BY <1>1, <1>2

\* Two of the M slots that follow p are never the same.
LEMMA SlotsDistinct ==
  ASSUME NEW M \in Nat, M # 0, NEW p \in 0 .. M - 1,
         NEW i \in 0 .. M - 1, NEW j \in 0 .. M - 1,
         Slot(p, i, M) = Slot(p, j, M)
  PROVE  i = j
  BY SMT DEF Slot

\* What lies between a slot and one of the M that follow it.
LEMMA SlotBack ==
  ASSUME NEW M \in Nat, M # 0, NEW p \in 0 .. M - 1, NEW k \in 0 .. M - 1
  PROVE  (Slot(p, k, M) - p) % M = k
  <1>1. CASE p + k < M
    <2>1. Slot(p, k, M) = p + k
      BY <1>1, SMT DEF Slot
    <2>2. (Slot(p, k, M) - p) = k
      BY <2>1
    <2> QED BY <2>2, SMT
  <1>2. CASE p + k >= M
    <2>1. Slot(p, k, M) = p + k - M
      BY <1>2, SMT DEF Slot
    <2>2. (Slot(p, k, M) - p) = k - M
      BY <2>1
    <2>3. (k - M) % M = k
      BY SMT
    <2> QED BY <2>2, <2>3
  <1> QED BY <1>1, <1>2

\* The j-th slot after the k-th.
LEMMA SlotSlot ==
  ASSUME NEW M \in Nat, M # 0, NEW p \in 0 .. M - 1, NEW k \in 0 .. M - 1,
         NEW j \in 0 .. M - 1, k + j < M
  PROVE  Slot(Slot(p, k, M), j, M) = Slot(p, k + j, M)
  <1>1. CASE p + k < M
    <2>1. Slot(p, k, M) = p + k
      BY <1>1, SMT DEF Slot
    <2> QED BY <2>1, SMT DEF Slot
  <1>2. CASE p + k >= M
    <2>1. Slot(p, k, M) = p + k - M
      BY <1>2, SMT DEF Slot
    <2>2. Slot(p, k + j, M) = p + k + j - M
      BY <1>2, SMT DEF Slot
    <2>3. (p + k + j - M) % M = p + k + j - M
      BY <1>2, SMT
    <2> QED BY <2>1, <2>2, <2>3, SMT DEF Slot
  <1> QED BY <1>1, <1>2

\* The contents are a sequence of as many words as the counter says.
LEMMA ContentsSeq ==
  ASSUME NEW M \in Nat, M # 0, NEW S, NEW mem,
         \A a \in 0 .. M - 1 : mem[a] \in S,
         NEW p \in 0 .. M - 1, NEW n \in 0 .. M
  PROVE  Contents(mem, p, n, M) \in Seq(S)
  <1>1. ASSUME NEW i \in 1 .. n
        PROVE  mem[Slot(p, i - 1, M)] \in S
    <2>1. i - 1 \in 0 .. M
      OBVIOUS
    <2> QED BY <2>1, SlotRange
  <1> QED BY <1>1 DEF Contents

\* A word stored at the write pointer is appended.
LEMMA ContentsPush ==
  ASSUME NEW M \in Nat, M # 0, NEW mem, NEW mem2,
         NEW p \in 0 .. M - 1, NEW n \in 0 .. M - 1,
         NEW n2 \in 1 .. M, n2 - n = 1, NEW d,
         mem2[Slot(p, n, M)] = d,
         \A a \in 0 .. M - 1 : a # Slot(p, n, M) => mem2[a] = mem[a]
  PROVE  Contents(mem2, p, n2, M) = Append(Contents(mem, p, n, M), d)
  <1> DEFINE w == Slot(p, n, M)
             old == Contents(mem, p, n, M)
             new == Contents(mem2, p, n + 1, M)
             S == {mem[a] : a \in 0 .. M - 1} \cup {d}
  <1>1. /\ w \in 0 .. M - 1 /\ mem2[w] = d
        /\ \A a \in 0 .. M - 1 : mem[a] \in S /\ mem2[a] \in S
        /\ \A a \in 0 .. M - 1 : a # w => mem2[a] = mem[a]
        /\ d \in S
    <2>1. n \in 0 .. M
      OBVIOUS
    <2>2. w \in 0 .. M - 1
      BY <2>1, SlotRange
    <2> QED BY <2>2
  <1> HIDE DEF S
  <1>2. n \in Nat /\ p \in Nat /\ n + 1 \in Nat /\ n \in 0 .. M /\ n + 1 \in 0 .. M
    OBVIOUS
  <1>0. n2 = n + 1
    OBVIOUS
  <1>3. new \in Seq(S) /\ old \in Seq(S)
    <2>1. Contents(mem2, p, n + 1, M) \in Seq(S)
      BY <1>1, <1>2, ContentsSeq
    <2>2. Contents(mem, p, n, M) \in Seq(S)
      BY <1>1, <1>2, ContentsSeq
    <2> QED BY <2>1, <2>2
  <1>4. /\ Len(new) = n + 1
        /\ \A i \in 1 .. n : new[i] = mem2[Slot(p, i - 1, M)]
        /\ new[n + 1] = mem2[Slot(p, n, M)]
    <2>1. new = [i \in 1 .. n + 1 |-> mem2[Slot(p, i - 1, M)]]
      BY DEF Contents
    <2>2. n + 1 \in 1 .. n + 1 /\ (n + 1) - 1 = n
      OBVIOUS
    <2>3. new[n + 1] = mem2[Slot(p, n, M)]
      BY <2>1, <2>2
    <2> HIDE DEF new
    <2>4. Len(new) = n + 1 /\ \A i \in 1 .. n : new[i] = mem2[Slot(p, i - 1, M)]
      BY <1>2, <2>1
    <2> QED BY <2>3, <2>4
  <1>5. /\ Len(old) = n
        /\ \A i \in 1 .. n : old[i] = mem[Slot(p, i - 1, M)]
    BY <1>2 DEF Contents
  <1>6. ASSUME NEW i \in 1 .. n
        PROVE  new[i] = old[i]
    <2>1. i - 1 \in 0 .. M - 1 /\ i - 1 \in 0 .. M /\ i - 1 # n /\ n \in 0 .. M - 1
      OBVIOUS
    <2>2. Slot(p, i - 1, M) \in 0 .. M - 1
      BY <2>1, SlotRange
    <2>3. Slot(p, i - 1, M) # Slot(p, n, M)
      BY <2>1, SlotsDistinct
    <2>4. mem2[Slot(p, i - 1, M)] = mem[Slot(p, i - 1, M)]
      BY <1>1, <2>2, <2>3
    <2> QED BY <1>4, <1>5, <2>4
  <1>7. new[n + 1] = d
    BY <1>1, <1>4
  <1>8. /\ Append(old, d) \in Seq(S) /\ Len(Append(old, d)) = n + 1
        /\ \A i \in 1 .. n : Append(old, d)[i] = old[i]
        /\ Append(old, d)[n + 1] = d
    BY <1>1, <1>3, <1>5
  <1>9. \A i \in 1 .. n + 1 : new[i] = Append(old, d)[i]
    <2> TAKE i \in 1 .. n + 1
    <2>1. CASE i \in 1 .. n
      BY <1>6, <1>8, <2>1
    <2>2. CASE i = n + 1
      BY <1>7, <1>8, <2>2
    <2>3. i \in 1 .. n \/ i = n + 1
      OBVIOUS
    <2> QED BY <2>1, <2>2, <2>3
  <1>10. new = Append(old, d)
    BY <1>3, <1>4, <1>8, <1>9, SeqEqual
  <1> QED BY <1>0, <1>10

\* Moving the read pointer hands out the head and keeps the rest.
LEMMA ContentsPop ==
  ASSUME NEW M \in Nat, M # 0, NEW mem, NEW p \in 0 .. M - 1, NEW n \in 1 .. M
  PROVE  /\ Contents(mem, p, n, M) # <<>>
         /\ Head(Contents(mem, p, n, M)) = mem[p]
         /\ Contents(mem, Inc(p, M), n - 1, M) = Tail(Contents(mem, p, n, M))
  <1> DEFINE old == Contents(mem, p, n, M)
             new == Contents(mem, Inc(p, M), n - 1, M)
             S == {mem[a] : a \in 0 .. M - 1}
  <1>0. \A a \in 0 .. M - 1 : mem[a] \in S
    OBVIOUS
  <1> HIDE DEF S
  <1>1. 0 \in 0 .. M /\ n \in 0 .. M /\ n - 1 \in 0 .. M /\ n \in Nat /\ n - 1 \in Nat
        /\ p \in Nat
    OBVIOUS
  <1>2. Inc(p, M) \in 0 .. M - 1
    BY IncRange
  <1>3. Slot(p, 0, M) = p
    BY <1>1, SlotRange
  <1>4. old \in Seq(S) /\ new \in Seq(S)
    <2>1. Contents(mem, p, n, M) \in Seq(S)
      BY <1>0, <1>1, ContentsSeq
    <2>2. Contents(mem, Inc(p, M), n - 1, M) \in Seq(S)
      BY <1>0, <1>1, <1>2, ContentsSeq
    <2> QED BY <2>1, <2>2
  <1>5. /\ Len(old) = n
        /\ \A i \in 1 .. n : old[i] = mem[Slot(p, i - 1, M)]
    BY <1>1 DEF Contents
  <1>6. /\ Len(new) = n - 1
        /\ \A i \in 1 .. n - 1 : new[i] = mem[Slot(Inc(p, M), i - 1, M)]
    BY <1>1, <1>2 DEF Contents
  <1>7. ASSUME NEW i \in 1 .. n - 1
        PROVE  new[i] = old[i + 1]
    <2>1. i - 1 \in 0 .. M - 1 /\ (i - 1) + 1 = i /\ i + 1 \in 1 .. n
          /\ (i + 1) - 1 = i
      OBVIOUS
    <2>2. Slot(Inc(p, M), i - 1, M) = Slot(p, i, M)
      BY <2>1, SlotStep
    <2> QED BY <1>5, <1>6, <2>1, <2>2
  <1>8. old # <<>> /\ Head(old) = old[1]
    BY <1>4, <1>5
  <1>9. old[1] = mem[p]
    <2>1. 1 \in 1 .. n /\ 1 - 1 = 0
      OBVIOUS
    <2> QED BY <1>3, <1>5, <2>1
  <1>10. /\ Tail(old) \in Seq(S) /\ Len(Tail(old)) = n - 1
         /\ \A i \in 1 .. n - 1 : Tail(old)[i] = old[i + 1]
    BY <1>4, <1>5, <1>8
  <1>11. new = Tail(old)
    BY <1>4, <1>6, <1>7, <1>10, SeqEqual
  <1> QED BY <1>8, <1>9, <1>11

-----------------------------------------------------------------------------
(* Division.                                                               *)

\* A number is a quotient and a remainder.
LEMMA Quotient ==
  ASSUME NEW n \in Nat, n # 0, NEW k \in Nat
  PROVE  k \div n \in Nat /\ k % n \in 0 .. n - 1 /\ k = n * (k \div n) + (k % n)
  BY SMT

\* The remainder is the only number below the divisor that is.
LEMMA Remainder ==
  ASSUME NEW n \in Nat, n # 0, NEW q \in Nat, NEW r \in 0 .. n - 1
  PROVE  (n * q + r) % n = r
  BY SMT

\* One further on, the remainder is one more, or begins again.
LEMMA NextRemainder ==
  ASSUME NEW n \in Nat, n # 0, NEW k \in Nat
  PROVE  (k + 1) % n = IF k % n = n - 1 THEN 0 ELSE (k % n) + 1
  <1> DEFINE q == k \div n
             r == k % n
  <1>1. q \in Nat /\ r \in 0 .. n - 1 /\ k = n * q + r
    BY Quotient
  <1> HIDE DEF q, r
  <1>2. CASE r = n - 1
    <2>1. k + 1 = n * (q + 1) + 0
      BY <1>1, <1>2, SMT
    <2>2. (n * (q + 1) + 0) % n = 0
      BY <1>1, Remainder
    <2> QED BY <1>2, <2>1, <2>2 DEF r
  <1>3. CASE r # n - 1
    <2> DEFINE e == r + 1
    <2>1. k + 1 = n * q + e /\ e \in 0 .. n - 1
      BY <1>1, <1>3, SMT
    <2>2. q \in Nat /\ n \in Nat /\ n # 0
      BY <1>1
    <2> HIDE DEF e
    <2>3. (n * q + e) % n = e
      BY ONLY <2>1, <2>2, Remainder
    <2>4. (k + 1) % n = e
      BY ONLY <2>1, <2>3
    <2> QED BY ONLY <1>3, <2>4 DEF e, r
  <1> QED BY <1>2, <1>3

\* Numbers less than the divisor apart have different remainders.
LEMMA RemaindersDiffer ==
  ASSUME NEW n \in Nat, n # 0, NEW k \in Nat, NEW m \in Nat, k < m, m < k + n
  PROVE  k % n # m % n
  <1> DEFINE q == k \div n
             r == k % n
  <1>1. q \in Nat /\ r \in 0 .. n - 1 /\ k = n * q + r
    BY Quotient
  <1> HIDE DEF q, r
  <1>2. n * q \in Nat /\ n * (q + 1) = n * q + n /\ q + 1 \in Nat
    BY <1>1, SMT
  <1> DEFINE e == r + (m - k)
             p == n * q
  <1>3. CASE e < n
    <2>1. m = p + e /\ e \in 0 .. n - 1 /\ e # r
      BY <1>1, <1>2, <1>3
    <2> HIDE DEF e
    <2>2. m % n = e
      BY <1>1, <2>1, Remainder
    <2> QED BY <2>1, <2>2 DEF r
  <1>4. CASE e >= n
    <2> DEFINE f == e - n
    <2>1. m = p + n + f /\ f \in 0 .. n - 1 /\ f # r
      BY <1>1, <1>2, <1>4
    <2> HIDE DEF e, f
    <2>2. m = n * (q + 1) + f
      BY <1>2, <2>1
    <2>3. m % n = f
      BY <1>2, <2>1, <2>2, Remainder
    <2> QED BY <2>1, <2>3 DEF r
  <1> QED BY <1>1, <1>3, <1>4

-----------------------------------------------------------------------------
(* What is kept of a sequence.                                             *)

\* Induction over data without an operator for a parameter: what fails for a
\* number fails for a smallest one.
LEMMA LeastNat ==
  ASSUME NEW S \in SUBSET Nat, S # {}
  PROVE  \E m \in S : \A k \in S : m <= k
  <1>1. IsWellFoundedOn(OpToRel(<, Nat), Nat)
    BY NatLessThanWellFounded
  <1>2. PICK m \in S : \A k \in S : ~ (<<k, m>> \in OpToRel(<, Nat))
    BY <1>1, WFMin
  <1>3. \A k \in S : ~ (k < m)
    BY <1>2 DEF OpToRel
  <1> QED BY <1>3

LEMMA NatSetInduction ==
  ASSUME NEW P \in SUBSET Nat, NEW N \in Nat,
         0 \in P, \A n \in 0 .. N - 1 : n \in P => n + 1 \in P
  PROVE  \A n \in 0 .. N : n \in P
  <1> DEFINE Bad == {n \in Nat : n <= N /\ n \notin P}
  <1> SUFFICES ASSUME Bad # {} PROVE FALSE
    OBVIOUS
  <1>1. PICK m \in Bad : \A k \in Bad : m <= k
    <2> HIDE DEF Bad
    <2>1. Bad \in SUBSET Nat
      BY DEF Bad
    <2> QED BY <2>1, LeastNat
  <1>2. m # 0 /\ m - 1 \in 0 .. N - 1 /\ m - 1 \notin Bad
    BY <1>1
  <1> QED BY <1>1, <1>2

\* How Kept is computed.
Sifts(f, s, I) ==
  \A n \in 1 .. Len(s) :
    f[n] = IF n \in I THEN Append(f[n - 1], s[n]) ELSE f[n - 1]

LEMMA KeptComputed ==
  ASSUME NEW S, NEW s \in Seq(S), NEW I
  PROVE  \E f \in [0 .. Len(s) -> Seq(S)] :
           f[0] = <<>> /\ Sifts(f, s, I) /\ Kept(s, I) = f[Len(s)]
  <1> DEFINE N == Len(s)
             After(f, n) == IF n \in I THEN Append(f[n - 1], s[n]) ELSE f[n - 1]
             Up(f, n) == f[0] = <<>> /\ \A i \in 1 .. n : f[i] = After(f, i)
             P == {n \in Nat : \E f \in [0 .. n -> Seq(S)] : Up(f, n)}
  <1>0. N \in Nat /\ \A n \in 1 .. N : s[n] \in S
    OBVIOUS
  <1>1. 0 \in P
    <2>1. [n \in 0 .. 0 |-> <<>>] \in [0 .. 0 -> Seq(S)]
      OBVIOUS
    <2>2. Up([n \in 0 .. 0 |-> <<>>], 0)
      OBVIOUS
    <2> QED BY <2>1, <2>2
  <1>2. \A n \in 0 .. N - 1 : n \in P => n + 1 \in P
    <2> TAKE n \in 0 .. N - 1
    <2> HAVE n \in P
    <2>1. PICK f \in [0 .. n -> Seq(S)] : Up(f, n)
      OBVIOUS
    <2> DEFINE g == [i \in 0 .. n + 1 |-> IF i = n + 1 THEN After(f, n + 1) ELSE f[i]]
    <2>2. s[n + 1] \in S /\ f[n] \in Seq(S)
      BY <1>0, <2>1
    <2>3. After(f, n + 1) \in Seq(S)
      BY <2>2
    <2>4. g \in [0 .. n + 1 -> Seq(S)]
      BY <2>3
    <2>5. \A i \in 1 .. n + 1 : g[i] = After(g, i)
      <3> TAKE i \in 1 .. n + 1
      <3>1. CASE i = n + 1
        BY <3>1
      <3>2. CASE i # n + 1
        <4>1. i \in 1 .. n /\ i \in 0 .. n + 1 /\ i - 1 \in 0 .. n + 1 /\ i - 1 # n + 1
          BY <3>2
        <4>2. g[i] = f[i] /\ g[i - 1] = f[i - 1]
          BY <4>1, <3>2
        <4>3. f[i] = After(f, i)
          BY <2>1, <4>1
        <4> QED BY <4>2, <4>3
      <3> QED BY <3>1, <3>2
    <2>6. g[0] = <<>>
      BY <2>1
    <2> HIDE DEF g, After
    <2>7. Up(g, n + 1)
      BY <2>5, <2>6
    <2>8. \E h \in [0 .. n + 1 -> Seq(S)] : Up(h, n + 1)
      <3> HIDE DEF Up
      <3> QED BY <2>4, <2>7
    <2>9. n + 1 \in Nat
      BY <1>0
    <2> HIDE DEF Up
    <2> QED BY <2>8, <2>9
  <1>3. N \in P
    <2> HIDE DEF P
    <2>1. P \in SUBSET Nat
      BY DEF P
    <2>2. \A n \in 0 .. N : n \in P
      BY ONLY <1>0, <1>1, <1>2, <2>1, NatSetInduction
    <2>3. N \in 0 .. N
      BY <1>0
    <2> QED BY ONLY <2>2, <2>3
  <1>4. PICK f \in [0 .. N -> Seq(S)] : Up(f, N)
    BY <1>3
  <1> DEFINE Def(h) == [n \in 0 .. N |-> IF n = 0 THEN <<>> ELSE After(h, n)]
             c == CHOOSE h : h = Def(h)
  <1>5. f = Def(f)
    <2> HIDE DEF After
    <2>1. \A n \in 0 .. N : f[n] = IF n = 0 THEN <<>> ELSE After(f, n)
      <3>1. \A n \in 0 .. N : n = 0 \/ n \in 1 .. N
        BY <1>0
      <3> QED BY <1>4, <3>1
    <2>2. f = [n \in 0 .. N |-> f[n]]
      BY <1>4
    <2> QED BY <2>1, <2>2
  <1>6. c = Def(c)
    BY <1>5
  <1>7. Kept(s, I) = c[N]
    BY DEF Kept
  <1> HIDE DEF c
  <1>8. \A n \in 0 .. N : n \in {k \in Nat : k <= N => c[k] = f[k]}
    <2> DEFINE Q == {k \in Nat : k <= N => c[k] = f[k]}
    <2>1. 0 \in Q
      BY <1>0, <1>4, <1>6
    <2>2. \A n \in 0 .. N - 1 : n \in Q => n + 1 \in Q
      <3> TAKE n \in 0 .. N - 1
      <3> HAVE n \in Q
      <3>1. c[n] = f[n] /\ n + 1 \in 1 .. N /\ n + 1 # 0 /\ n + 1 - 1 = n
        BY <1>0
      <3>2. c[n + 1] = After(c, n + 1)
        <4> HIDE DEF After
        <4>1. \A k \in 0 .. N : c[k] = IF k = 0 THEN <<>> ELSE After(c, k)
          BY <1>6
        <4> QED BY <1>0, <3>1, <4>1
      <3>3. f[n + 1] = After(f, n + 1)
        BY <1>4, <3>1
      <3>4. c[n + 1] = f[n + 1]
        BY <3>1, <3>2, <3>3
      <3> QED BY <3>4
    <2>3. Q \in SUBSET Nat
      OBVIOUS
    <2> HIDE DEF Q
    <2> QED BY <1>0, <2>1, <2>2, <2>3, NatSetInduction DEF Q
  <1>9. c[N] = f[N]
    BY <1>0, <1>8
  <1> QED BY <1>4, <1>7, <1>9 DEF Sifts

\* What is kept of the first n elements depends on nothing else.
Alike(s, I, t, J, n) ==
  /\ Len(s) \in Nat /\ Len(t) \in Nat /\ n \in Nat /\ n <= Len(s) /\ n <= Len(t)
  /\ \A i \in 1 .. n : s[i] = t[i] /\ (i \in I <=> i \in J)

LEMMA SiftsSame ==
  ASSUME NEW s, NEW I, NEW f, NEW t, NEW J, NEW g, NEW n,
         f[0] = g[0], Sifts(f, s, I), Sifts(g, t, J), Alike(s, I, t, J, n)
  PROVE  f[n] = g[n]
  <1>0. /\ Len(s) \in Nat /\ Len(t) \in Nat /\ n \in Nat /\ n <= Len(s) /\ n <= Len(t)
        /\ \A i \in 1 .. n : s[i] = t[i] /\ (i \in I <=> i \in J)
    BY DEF Alike
  <1> DEFINE P == {k \in Nat : k <= n => f[k] = g[k]}
  <1>1. 0 \in P
    OBVIOUS
  <1>2. \A k \in 0 .. n - 1 : k \in P => k + 1 \in P
    <2> TAKE k \in 0 .. n - 1
    <2> HAVE k \in P
    <2>1. /\ k + 1 \in 1 .. n /\ k + 1 \in 1 .. Len(s) /\ k + 1 \in 1 .. Len(t)
          /\ k + 1 - 1 = k /\ f[k] = g[k]
      BY <1>0
    <2>2. f[k + 1] = g[k + 1]
      BY <1>0, <2>1 DEF Sifts
    <2> QED BY <2>2
  <1>3. P \in SUBSET Nat
    OBVIOUS
  <1>4. n \in P
    <2> HIDE DEF P
    <2>1. \A k \in 0 .. n : k \in P
      BY <1>0, <1>1, <1>2, <1>3, NatSetInduction
    <2> QED BY <1>0, <2>1
  <1> QED BY <1>0, <1>4

LEMMA KeptSeq ==
  ASSUME NEW S, NEW s \in Seq(S), NEW I
  PROVE  Kept(s, I) \in Seq(S)
  <1>1. PICK f \in [0 .. Len(s) -> Seq(S)] : Kept(s, I) = f[Len(s)]
    BY KeptComputed
  <1>2. Len(s) \in 0 .. Len(s)
    OBVIOUS
  <1> QED BY <1>1, <1>2

LEMMA KeptEmpty == \A I : Kept(<<>>, I) = <<>>
  <1> TAKE I
  <1>1. <<>> \in Seq({}) /\ Len(<<>>) = 0
    OBVIOUS
  <1>2. PICK f \in [0 .. Len(<<>>) -> Seq({})] : f[0] = <<>> /\ Kept(<<>>, I) = f[Len(<<>>)]
    BY <1>1, KeptComputed
  <1> QED BY <1>1, <1>2

LEMMA KeptSame ==
  ASSUME NEW S, NEW s \in Seq(S), NEW I, NEW J,
         \A i \in 1 .. Len(s) : i \in I <=> i \in J
  PROVE  Kept(s, I) = Kept(s, J)
  <1>1. PICK f \in [0 .. Len(s) -> Seq(S)] :
          f[0] = <<>> /\ Sifts(f, s, I) /\ Kept(s, I) = f[Len(s)]
    BY KeptComputed
  <1>2. PICK g \in [0 .. Len(s) -> Seq(S)] :
          g[0] = <<>> /\ Sifts(g, s, J) /\ Kept(s, J) = g[Len(s)]
    BY KeptComputed
  <1>3. Alike(s, I, s, J, Len(s))
    BY DEF Alike
  <1> QED BY <1>1, <1>2, <1>3, SiftsSame

\* A new last element is kept behind the others, or dropped.
LEMMA KeptAppend ==
  ASSUME NEW S, NEW s \in Seq(S), NEW e \in S, NEW I
  PROVE  Kept(Append(s, e), I) =
           IF Len(s) + 1 \in I THEN Append(Kept(s, I), e) ELSE Kept(s, I)
  <1> DEFINE t == Append(s, e)
             N == Len(s)
  <1>1. /\ t \in Seq(S) /\ N \in Nat /\ Len(t) = N + 1 /\ t[N + 1] = e
        /\ \A i \in 1 .. N : t[i] = s[i]
    OBVIOUS
  <1> HIDE DEF t
  <1>2. PICK f \in [0 .. N -> Seq(S)] :
          f[0] = <<>> /\ Sifts(f, s, I) /\ Kept(s, I) = f[N]
    BY KeptComputed
  <1>3. PICK g \in [0 .. Len(t) -> Seq(S)] :
          g[0] = <<>> /\ Sifts(g, t, I) /\ Kept(t, I) = g[Len(t)]
    <2>1. t \in Seq(S)
      BY <1>1
    <2> QED BY ONLY <2>1, KeptComputed
  <1>4. f[N] = g[N]
    <2>1. Alike(s, I, t, I, N)
      BY <1>1 DEF Alike
    <2>2. f[0] = g[0] /\ Sifts(f, s, I) /\ Sifts(g, t, I)
      BY <1>2, <1>3
    <2> QED BY ONLY <2>1, <2>2, SiftsSame
  <1>5. N + 1 \in 1 .. Len(t) /\ N + 1 - 1 = N
    BY <1>1
  <1>6. g[N + 1] = IF N + 1 \in I THEN Append(g[N], t[N + 1]) ELSE g[N]
    BY <1>3, <1>5 DEF Sifts
  <1>7. Kept(t, I) = IF N + 1 \in I THEN Append(Kept(s, I), e) ELSE Kept(s, I)
    BY <1>1, <1>2, <1>3, <1>4, <1>6
  <1> QED BY <1>7 DEF t

\* A concatenation the provers need not look into.
Joint(a, b) == a \o b

LEMMA JointAppend ==
  ASSUME NEW S, NEW a \in Seq(S), NEW b \in Seq(S), NEW e \in S
  PROVE  Append(Joint(a, b), e) = Joint(a, Append(b, e))
  BY DEF Joint

\* The concatenation of two sequences.
LEMMA Concatenated ==
  ASSUME NEW S, NEW a \in Seq(S), NEW b \in Seq(S)
  PROVE  /\ Joint(a, b) \in Seq(S) /\ Len(Joint(a, b)) = Len(a) + Len(b)
         /\ \A i \in 1 .. Len(a) : Joint(a, b)[i] = a[i]
         /\ \A i \in Len(a) + 1 .. Len(a) + Len(b) : Joint(a, b)[i] = b[i - Len(a)]
  BY DEF Joint

\* The first element, if it is kept, comes before what is kept of the others.
LEMMA KeptTail ==
  ASSUME NEW S, NEW s \in Seq(S), s # <<>>, NEW I, NEW J,
         \A i \in 1 .. Len(s) - 1 : i \in J <=> i + 1 \in I
  PROVE  Kept(s, I) = Joint(IF 1 \in I THEN <<Head(s)>> ELSE <<>>, Kept(Tail(s), J))
  <1> DEFINE t == Tail(s)
             M == Len(t)
             h == IF 1 \in I THEN <<Head(s)>> ELSE <<>>
  <1>1. /\ t \in Seq(S) /\ M \in Nat /\ Len(s) = M + 1 /\ h \in Seq(S)
        /\ \A i \in 1 .. M : t[i] = s[i + 1] /\ t[i] \in S
        /\ s[1] = Head(s) /\ s[1] \in S
    OBVIOUS
  <1>2. \A i \in 1 .. M : i \in J <=> i + 1 \in I
    BY <1>1
  <1> HIDE DEF t
  <1>3. PICK f \in [0 .. Len(s) -> Seq(S)] :
          f[0] = <<>> /\ Sifts(f, s, I) /\ Kept(s, I) = f[Len(s)]
    BY KeptComputed
  <1>4. PICK g \in [0 .. M -> Seq(S)] :
          g[0] = <<>> /\ Sifts(g, t, J) /\ Kept(t, J) = g[M]
    <2>1. t \in Seq(S)
      BY <1>1
    <2> HIDE DEF h
    <2> QED BY <2>1, KeptComputed
  <1>5. f[1] = Joint(h, g[0])
    <2>1. 1 \in 1 .. Len(s) /\ 1 - 1 = 0
      BY <1>1
    <2>2. f[1] = IF 1 \in I THEN Append(f[0], s[1]) ELSE f[0]
      <3> HIDE DEF h
      <3> QED BY <1>3, <2>1 DEF Sifts
    <2>3. Append(<<>>, s[1]) = <<s[1]>> /\ <<s[1]>> \o <<>> = <<s[1]>> /\ <<>> \o <<>> = <<>>
      BY <1>1
    <2> QED BY <1>1, <1>3, <1>4, <2>2, <2>3 DEF Joint
  <1> HIDE DEF h, M
  <1>6. ASSUME NEW k \in 0 .. M - 1, NEW i, i = k + 1, f[i] = Joint(h, g[k])
        PROVE  f[i + 1] = Joint(h, g[i])
    <2>1. i \in 1 .. M /\ i - 1 = k /\ i + 1 \in 1 .. Len(s) /\ i + 1 - 1 = i
      BY <1>1, <1>6
    <2>2. f[i + 1] = IF i + 1 \in I THEN Append(f[i], s[i + 1]) ELSE f[i]
      <3> DEFINE j == i + 1
      <3>1. j \in 1 .. Len(s) /\ j - 1 = i
        BY <2>1
      <3> HIDE DEF j
      <3>2. f[j] = IF j \in I THEN Append(f[j - 1], s[j]) ELSE f[j - 1]
        BY ONLY <1>3, <3>1 DEF Sifts
      <3> QED BY <3>1, <3>2 DEF j
    <2>3. g[i] = IF i \in J THEN Append(g[k], t[i]) ELSE g[k]
      BY ONLY <1>4, <2>1 DEF Sifts, M
    <2>4. g[k] \in Seq(S) /\ t[i] = s[i + 1] /\ t[i] \in S
      <3>1. k \in 0 .. M
        BY <1>1
      <3> QED BY <1>1, <1>4, <2>1, <3>1
    <2>5. Append(Joint(h, g[k]), t[i]) = Joint(h, Append(g[k], t[i]))
      <3>1. ASSUME NEW a \in Seq(S), NEW b \in Seq(S), NEW e \in S
            PROVE  Append(Joint(a, b), e) = Joint(a, Append(b, e))
        BY ONLY JointAppend
      <3>2. h \in Seq(S)
        BY <1>1
      <3> QED BY ONLY <2>4, <3>1, <3>2
    <2>6. i + 1 \in I <=> i \in J
      BY <1>2, <2>1
    <2>7. CASE i \in J
      BY ONLY <1>6, <2>2, <2>3, <2>4, <2>5, <2>6, <2>7
    <2>8. CASE i \notin J
      BY ONLY <1>6, <2>2, <2>3, <2>6, <2>8
    <2> QED BY ONLY <2>7, <2>8
  <1> DEFINE P == {k \in Nat : k <= M => f[k + 1] = Joint(h, g[k])}
  <1>7. M \in P
    <2>1. P \in SUBSET Nat
      OBVIOUS
    <2>2. 0 \in P
      BY <1>5
    <2>3. ASSUME NEW k \in 0 .. M - 1, k \in P PROVE k + 1 \in P
      <3>0. k \in Nat /\ k <= M /\ k + 1 \in Nat
        BY <1>1
      <3>1. f[k + 1] = Joint(h, g[k]) /\ k + 1 \in Nat
        BY ONLY <2>3, <3>0
      <3>2. f[k + 1 + 1] = Joint(h, g[k + 1])
        BY <1>6, <3>1
      <3> QED BY <3>1, <3>2
    <2> HIDE DEF P
    <2>4. \A k \in 0 .. M : k \in P
      BY <1>1, <2>1, <2>2, <2>3, NatSetInduction
    <2> QED BY <1>1, <2>4
  <1>8. f[M + 1] = Joint(h, g[M])
    BY <1>1, <1>7
  <1>9. Kept(s, I) = Joint(h, Kept(t, J))
    BY <1>1, <1>3, <1>4, <1>8
  <1> QED BY <1>9 DEF t, h

\* Every kept element stood at or behind its new place, at a position of I.
LEMMA KeptElements ==
  ASSUME NEW S, NEW s \in Seq(S), NEW I
  PROVE  \A j \in 1 .. Len(Kept(s, I)) :
           \E i \in 1 .. Len(s) : i \in I /\ j <= i /\ Kept(s, I)[j] = s[i]
  <1>1. PICK f \in [0 .. Len(s) -> Seq(S)] :
          f[0] = <<>> /\ Sifts(f, s, I) /\ Kept(s, I) = f[Len(s)]
    BY KeptComputed
  <1> DEFINE N == Len(s)
             Good(n) == /\ Len(f[n]) <= n
                        /\ \A j \in 1 .. Len(f[n]) :
                             \E i \in 1 .. n : i \in I /\ j <= i /\ f[n][j] = s[i]
             P == {n \in Nat : n <= N => Good(n)}
  <1>0. N \in Nat /\ \A n \in 1 .. N : s[n] \in S
    OBVIOUS
  <1>2. 0 \in P
    BY <1>0, <1>1
  <1>3. ASSUME NEW n \in 0 .. N - 1, n \in P PROVE n + 1 \in P
    <2>0. n + 1 \in 1 .. N /\ n + 1 - 1 = n /\ n \in 0 .. N /\ n + 1 \in 0 .. N /\ n \in Nat
          /\ f[n] \in Seq(S) /\ s[n + 1] \in S
      BY <1>0, <1>1
    <2>1. Good(n)
      BY <1>3, <2>0
    <2>2. f[n + 1] = IF n + 1 \in I THEN Append(f[n], s[n + 1]) ELSE f[n]
      BY <1>1, <2>0 DEF Sifts
    <2>3. CASE n + 1 \in I
      <3> DEFINE g == f[n]
                 h == f[n + 1]
      <3>1. /\ Len(h) = Len(g) + 1 /\ Len(g) \in Nat /\ h[Len(g) + 1] = s[n + 1]
            /\ \A i \in 1 .. Len(g) : h[i] = g[i]
        BY <2>0, <2>2, <2>3, Grow
      <3>2. Len(h) <= n + 1
        BY <2>0, <2>1, <3>1
      <3>3. ASSUME NEW j \in 1 .. Len(h)
            PROVE  \E i \in 1 .. n + 1 : i \in I /\ j <= i /\ h[j] = s[i]
        <4>1. CASE j = Len(g) + 1
          BY <2>0, <2>1, <2>3, <3>1, <4>1
        <4>2. CASE j \in 1 .. Len(g)
          <5>1. PICK i \in 1 .. n : i \in I /\ j <= i /\ g[j] = s[i]
            BY <2>1, <4>2
          <5>2. i \in 1 .. n + 1
            BY <2>0
          <5> QED BY <3>1, <4>2, <5>1, <5>2
        <4> QED BY <3>1, <4>1, <4>2
      <3> QED BY <2>0, <3>2, <3>3
    <2>4. CASE n + 1 \notin I
      BY <2>0, <2>1, <2>2, <2>4
    <2> QED BY <2>3, <2>4
  <1>4. Good(N)
    <2>1. P \in SUBSET Nat
      OBVIOUS
    <2> HIDE DEF P, Good
    <2>2. \A n \in 0 .. N : n \in P
      BY <1>0, <1>2, <1>3, <2>1, NatSetInduction
    <2> QED BY <1>0, <2>2 DEF P
  <1> QED BY <1>1, <1>4

-----------------------------------------------------------------------------
(* How many elements of a sequence are in a set.                           *)

Places(s, P) == {i \in DOMAIN s : s[i] \in P}
Tally(s, P) == Cardinality(Places(s, P))
OneIf(b) == IF b THEN 1 ELSE 0

LEMMA Tallied ==
  ASSUME NEW S, NEW s \in Seq(S), NEW P
  PROVE  IsFiniteSet(Places(s, P)) /\ Tally(s, P) \in Nat
  <1>1. IsFiniteSet(1 .. Len(s)) /\ Places(s, P) \in SUBSET (1 .. Len(s))
    <2>1. Len(s) \in Int
      OBVIOUS
    <2> QED BY <2>1, FS_Interval DEF Places
  <1>2. IsFiniteSet(Places(s, P))
    BY <1>1, FS_Subset
  <1> QED BY <1>2, FS_CardinalityType DEF Tally

LEMMA TallyEmpty == \A P : Tally(<<>>, P) = 0
  BY FS_EmptySet DEF Tally, Places

LEMMA TallyAppend ==
  ASSUME NEW S, NEW s \in Seq(S), NEW e \in S, NEW P
  PROVE  Tally(Append(s, e), P) = Tally(s, P) + OneIf(e \in P)
  <1> DEFINE t == Append(s, e)
             n == Len(s) + 1
  <1>1. /\ DOMAIN s = 1 .. Len(s) /\ DOMAIN t = 1 .. n /\ Len(s) \in Nat
        /\ \A i \in 1 .. Len(s) : t[i] = s[i]
        /\ t[n] = e
    BY Grow
  <1>2. IsFiniteSet(Places(s, P)) /\ Tally(s, P) \in Nat
    BY Tallied
  <1>3. n \notin Places(s, P)
    BY <1>1 DEF Places
  <1> HIDE DEF t
  <1>4. CASE e \in P
    <2>1. Places(t, P) = Places(s, P) \cup {n}
      BY <1>1, <1>4 DEF Places
    <2>2. Cardinality(Places(s, P) \cup {n}) = Cardinality(Places(s, P)) + 1
      BY <1>2, <1>3, FS_AddElement
    <2> QED BY <1>4, <2>1, <2>2 DEF Tally, OneIf, t
  <1>5. CASE e \notin P
    <2>1. Places(t, P) = Places(s, P)
      BY <1>1, <1>5 DEF Places
    <2> QED BY <1>2, <1>5, <2>1 DEF Tally, OneIf, t
  <1> QED BY <1>4, <1>5

LEMMA TallyExcept ==
  ASSUME NEW S, NEW s \in Seq(S), NEW i \in 1 .. Len(s), NEW e \in S, NEW P
  PROVE  Tally([s EXCEPT ![i] = e], P)
           = Tally(s, P) - OneIf(s[i] \in P) + OneIf(e \in P)
  <1> DEFINE t == [s EXCEPT ![i] = e]
             A == Places(s, P) \ {i}
  <1>1. /\ DOMAIN s = 1 .. Len(s) /\ DOMAIN t = 1 .. Len(s)
        /\ \A j \in 1 .. Len(s) : j # i => t[j] = s[j]
        /\ t[i] = e
    OBVIOUS
  <1>2. IsFiniteSet(Places(s, P)) /\ Tally(s, P) \in Nat
    BY Tallied
  <1>3. IsFiniteSet(A) /\ Cardinality(A) = Tally(s, P) - OneIf(s[i] \in P)
    <2>1. IsFiniteSet(A)
          /\ Cardinality(A) = IF i \in Places(s, P) THEN Cardinality(Places(s, P)) - 1
                                                    ELSE Cardinality(Places(s, P))
      BY <1>2, FS_RemoveElement
    <2>2. i \in Places(s, P) <=> s[i] \in P
      BY <1>1 DEF Places
    <2> QED BY <1>2, <2>1, <2>2 DEF Tally, OneIf
  <1> HIDE DEF t
  <1>4. Places(t, P) = IF e \in P THEN A \cup {i} ELSE A
    BY <1>1 DEF Places
  <1>5. Cardinality(A \cup {i}) = Cardinality(A) + 1 /\ Cardinality(A) \in Nat
    BY <1>3, FS_AddElement, FS_CardinalityType
  <1>6. Tally(t, P) = Cardinality(A) + OneIf(e \in P)
    BY <1>4, <1>5 DEF Tally, OneIf
  <1> QED BY <1>3, <1>6 DEF t

\* What n more elements behind a sequence add to its tally.
LEMMA TallyJoint ==
  ASSUME NEW S, NEW a \in Seq(S), NEW b \in Seq(S), NEW P
  PROVE  Tally(Joint(a, b), P) = Tally(a, P) + Tally(b, P)
  <1> DEFINE c == Joint(a, b)
             A == Places(a, P)
             B == Places(b, P)
             D == {i \in Places(c, P) : i > Len(a)}
             f == [i \in B |-> i + Len(a)]
  <1>1. PICK m \in Nat, n \in Nat : m = Len(a) /\ n = Len(b)
    OBVIOUS
  <1>2. /\ DOMAIN a = 1 .. m /\ DOMAIN b = 1 .. n /\ DOMAIN c = 1 .. m + n
        /\ \A i \in 1 .. m : c[i] = a[i]
        /\ \A i \in 1 .. n : i + m \in 1 .. m + n /\ c[i + m] = b[i]
    <2>1. /\ c \in Seq(S) /\ Len(c) = m + n
          /\ \A i \in 1 .. m : c[i] = a[i]
          /\ \A i \in m + 1 .. m + n : c[i] = b[i - m]
      BY <1>1, Concatenated
    <2>2. \A i \in 1 .. n : i + m \in 1 .. m + n /\ i + m \in m + 1 .. m + n /\ i + m - m = i
      BY <1>1
    <2> HIDE DEF c
    <2> QED BY <1>1, <2>1, <2>2
  <1>3. IsFiniteSet(A) /\ IsFiniteSet(B) /\ Cardinality(A) \in Nat /\ Cardinality(B) \in Nat
    BY Tallied DEF Tally
  <1> HIDE DEF c
  <1>4. f \in Bijection(B, D)
    <2>1. ASSUME NEW i \in B PROVE i + Len(a) \in D
      <3>1. i \in 1 .. n /\ b[i] \in P
        BY <1>2 DEF Places
      <3>2. i + m \in DOMAIN c /\ c[i + m] \in P /\ i + m > m
        BY <1>2, <3>1
      <3> QED BY <1>1, <3>2 DEF Places
    <2>2. f \in [B -> D]
      <3> HIDE DEF D, B
      <3> QED BY <2>1
    <2>3. \A x, y \in B : f[x] = f[y] => x = y
      BY <1>1, <1>2 DEF Places
    <2>4. \A t \in D : \E x \in B : f[x] = t
      <3> TAKE t \in D
      <3>1. t \in 1 .. m + n /\ t > m /\ c[t] \in P
        BY <1>1, <1>2 DEF Places
      <3>2. t - m \in 1 .. n /\ (t - m) + m = t
        BY <3>1
      <3>3. t - m \in B
        BY <1>2, <3>1, <3>2 DEF Places
      <3> QED BY <1>1, <3>2, <3>3
    <2> HIDE DEF f, D, B
    <2> QED BY <2>2, <2>3, <2>4 DEF Bijection, Injection, Surjection, IsInjective
  <1>5. IsFiniteSet(D) /\ Cardinality(D) = Cardinality(B)
    <2> HIDE DEF f, D, B
    <2> QED BY <1>3, <1>4, FS_Bijection DEF ExistsBijection
  <1>6. Places(c, P) = A \cup D /\ A \cap D = {}
    BY <1>1, <1>2 DEF Places
  <1>7. Cardinality(A \cup D) = Cardinality(A) + Cardinality(D)
    <2> HIDE DEF A, B, D
    <2>1. Cardinality(A \cup D) = Cardinality(A) + Cardinality(D) - Cardinality(A \cap D)
      BY <1>3, <1>5, FS_Union
    <2>2. Cardinality(A \cap D) = 0
      BY <1>6, FS_EmptySet, Zenon
    <2> QED BY <1>3, <1>5, <2>1, <2>2
  <1> QED BY <1>5, <1>6, <1>7 DEF Tally, c

\* Taking out elements that are not in the set leaves its tally as it was.
LEMMA TallyKept ==
  ASSUME NEW S, NEW s \in Seq(S), NEW I, NEW P,
         \A i \in 1 .. Len(s) : s[i] \in P => i \in I
  PROVE  Tally(Kept(s, I), P) = Tally(s, P)
  <1>1. PICK f \in [0 .. Len(s) -> Seq(S)] :
          f[0] = <<>> /\ Sifts(f, s, I) /\ Kept(s, I) = f[Len(s)]
    BY KeptComputed
  <1> DEFINE N == Len(s)
             Upto(n) == {i \in 1 .. n : s[i] \in P}
             Q == {n \in Nat : n <= N => Tally(f[n], P) = Cardinality(Upto(n))}
  <1>0. N \in Nat /\ DOMAIN s = 1 .. N /\ \A n \in 1 .. N : s[n] \in S
    OBVIOUS
  <1>2. 0 \in Q
    <2>1. Upto(0) = {}
      OBVIOUS
    <2> QED BY <1>1, <2>1, TallyEmpty, FS_EmptySet
  <1>3. ASSUME NEW n \in 0 .. N - 1, n \in Q PROVE n + 1 \in Q
    <2>0. n + 1 \in 1 .. N /\ n + 1 - 1 = n /\ n \in 0 .. N /\ n \in Nat
          /\ f[n] \in Seq(S) /\ s[n + 1] \in S
      BY <1>0, <1>1
    <2>1. Tally(f[n], P) = Cardinality(Upto(n))
      BY <1>3, <2>0
    <2>2. f[n + 1] = IF n + 1 \in I THEN Append(f[n], s[n + 1]) ELSE f[n]
      BY <1>1, <2>0 DEF Sifts
    <2>3. IsFiniteSet(Upto(n)) /\ Cardinality(Upto(n)) \in Nat
      <3>1. IsFiniteSet(1 .. n) /\ Upto(n) \in SUBSET (1 .. n)
        BY <2>0, FS_Interval
      <3> HIDE DEF Upto
      <3> QED BY <3>1, FS_Subset, FS_CardinalityType
    <2>4. CASE s[n + 1] \in P
      <3>1. Upto(n + 1) = Upto(n) \cup {n + 1} /\ n + 1 \notin Upto(n)
        BY <2>0, <2>4
      <3>2. Cardinality(Upto(n + 1)) = Cardinality(Upto(n)) + 1
        <4> HIDE DEF Upto
        <4> QED BY <2>3, <3>1, FS_AddElement
      <3>3. n + 1 \in I
        BY <2>0, <2>4
      <3>4. Tally(f[n + 1], P) = Tally(f[n], P) + 1
        BY <2>0, <2>2, <2>4, <3>3, TallyAppend DEF OneIf
      <3> HIDE DEF Upto
      <3> QED BY <2>0, <2>1, <3>2, <3>4
    <2>5. CASE s[n + 1] \notin P
      <3>1. Upto(n + 1) = Upto(n)
        BY <2>0, <2>5
      <3>2. Tally(f[n + 1], P) = Tally(f[n], P)
        <4>1. Tally(Append(f[n], s[n + 1]), P) = Tally(f[n], P) + 0
          BY <2>0, <2>5, TallyAppend DEF OneIf
        <4>2. Tally(f[n], P) \in Nat
          BY <2>0, Tallied
        <4> QED BY <2>2, <4>1, <4>2
      <3> HIDE DEF Upto
      <3> QED BY <2>0, <2>1, <3>1, <3>2
    <2> QED BY <2>4, <2>5
  <1>4. Tally(f[N], P) = Cardinality(Upto(N))
    <2>1. Q \in SUBSET Nat
      OBVIOUS
    <2> HIDE DEF Q, Upto
    <2>2. \A n \in 0 .. N : n \in Q
      BY <1>0, <1>2, <1>3, <2>1, NatSetInduction
    <2> QED BY <1>0, <2>2 DEF Q
  <1>5. Upto(N) = Places(s, P)
    BY <1>0 DEF Places
  <1> QED BY <1>1, <1>4, <1>5 DEF Tally

\* An element of the set beside the i-th.
LEMMA TallyOther ==
  ASSUME NEW S, NEW s \in Seq(S), NEW i \in 1 .. Len(s), NEW P,
         Tally(s, P) - OneIf(s[i] \in P) > 0
  PROVE  \E j \in 1 .. Len(s) : j # i /\ s[j] \in P
  <1>1. DOMAIN s = 1 .. Len(s)
    OBVIOUS
  <1>2. IsFiniteSet(Places(s, P)) /\ Tally(s, P) \in Nat
    BY Tallied
  <1>3. IsFiniteSet(Places(s, P) \ {i})
        /\ Cardinality(Places(s, P) \ {i}) = Tally(s, P) - OneIf(s[i] \in P)
    <2>1. IsFiniteSet(Places(s, P) \ {i})
          /\ Cardinality(Places(s, P) \ {i}) =
               IF i \in Places(s, P) THEN Cardinality(Places(s, P)) - 1
                                     ELSE Cardinality(Places(s, P))
      BY <1>2, FS_RemoveElement
    <2>2. i \in Places(s, P) <=> s[i] \in P
      BY <1>1 DEF Places
    <2> QED BY <1>2, <2>1, <2>2 DEF Tally, OneIf
  <1>4. Places(s, P) \ {i} # {}
    BY <1>3, FS_EmptySet
  <1> QED BY <1>1, <1>4 DEF Places

\* The elements of two sets that have none in common.
LEMMA TallySplit ==
  ASSUME NEW S, NEW s \in Seq(S), NEW P, NEW Q, P \cap Q = {}
  PROVE  Tally(s, P \cup Q) = Tally(s, P) + Tally(s, Q)
  <1> DEFINE A == Places(s, P)
             B == Places(s, Q)
  <1>1. IsFiniteSet(A) /\ IsFiniteSet(B)
    BY Tallied
  <1>2. Places(s, P \cup Q) = A \cup B /\ A \cap B = {}
    BY DEF Places
  <1> HIDE DEF A, B
  <1>3. Cardinality(A \cup B) = Cardinality(A) + Cardinality(B) - Cardinality(A \cap B)
    BY <1>1, FS_Union
  <1>4. Cardinality(A \cap B) = 0 /\ Cardinality(A) \in Nat /\ Cardinality(B) \in Nat
    BY <1>1, <1>2, FS_EmptySet, FS_CardinalityType
  <1>5. Cardinality(A \cup B) = Cardinality(A) + Cardinality(B)
    BY <1>3, <1>4
  <1> QED BY <1>2, <1>5 DEF Tally, A, B

\* Every element is in the set, or none is.
LEMMA TallyAll ==
  ASSUME NEW S, NEW s \in Seq(S), NEW P
  PROVE  /\ (\A i \in 1 .. Len(s) : s[i] \in P) => Tally(s, P) = Len(s)
         /\ (\A i \in 1 .. Len(s) : s[i] \notin P) => Tally(s, P) = 0
  <1>1. Len(s) \in Nat /\ DOMAIN s = 1 .. Len(s)
    OBVIOUS
  <1>2. ASSUME \A i \in 1 .. Len(s) : s[i] \in P
        PROVE  Tally(s, P) = Len(s)
    <2>1. Places(s, P) = 1 .. Len(s)
      BY <1>1, <1>2 DEF Places
    <2>2. Cardinality(1 .. Len(s)) = Len(s)
      BY <1>1, FS_Interval
    <2> QED BY <2>1, <2>2 DEF Tally
  <1>3. ASSUME \A i \in 1 .. Len(s) : s[i] \notin P
        PROVE  Tally(s, P) = 0
    <2>1. Places(s, P) = {}
      BY <1>1, <1>3 DEF Places
    <2> QED BY <2>1, FS_EmptySet, Zenon DEF Tally
  <1> QED BY <1>2, <1>3

-----------------------------------------------------------------------------
(* The order of what is kept.                                              *)

\* The elements of h are those of the first n of s at the positions in I, in
\* their order: g tells where each of them stood.
Ordered(g, h, s, I, n) ==
  /\ g \in [1 .. Len(h) -> 1 .. n]
  /\ \A m \in 1 .. Len(h) : g[m] \in I /\ h[m] = s[g[m]]
  /\ \A m, k \in 1 .. Len(h) : m < k => g[m] < g[k]
  /\ \A i \in 1 .. n : i \in I => \E m \in 1 .. Len(h) : g[m] = i

\* One more element is dropped, or comes last.
LEMMA OrderedDrop ==
  ASSUME NEW g, NEW h, NEW s, NEW I, NEW n \in Nat, Ordered(g, h, s, I, n), n + 1 \notin I
  PROVE  Ordered(g, h, s, I, n + 1)
  <1>1. g \in [1 .. Len(h) -> 1 .. n + 1]
    BY DEF Ordered
  <1>2. \A i \in 1 .. n + 1 : i \in I => i \in 1 .. n
    OBVIOUS
  <1> QED BY <1>1, <1>2 DEF Ordered

LEMMA OrderedAdd ==
  ASSUME NEW S, NEW h \in Seq(S), NEW e \in S, NEW g, NEW s, NEW I, NEW n \in Nat,
         Ordered(g, h, s, I, n), n + 1 \in I, e = s[n + 1]
  PROVE  \E f : Ordered(f, Append(h, e), s, I, n + 1)
  <1> DEFINE t == Append(h, e)
             l == Len(h)
             f == [m \in 1 .. l + 1 |-> IF m = l + 1 THEN n + 1 ELSE g[m]]
  <1>1. /\ Len(t) = l + 1 /\ l \in Nat /\ t[l + 1] = e /\ \A i \in 1 .. l : t[i] = h[i]
    BY Grow
  <1>2. /\ g \in [1 .. l -> 1 .. n]
        /\ \A m \in 1 .. l : g[m] \in I /\ h[m] = s[g[m]]
        /\ \A m, k \in 1 .. l : m < k => g[m] < g[k]
        /\ \A i \in 1 .. n : i \in I => \E m \in 1 .. l : g[m] = i
    BY DEF Ordered
  <1> HIDE DEF t, l
  <1>3. /\ f \in [1 .. l + 1 -> 1 .. n + 1] /\ f[l + 1] = n + 1
        /\ \A m \in 1 .. l : m # l + 1 /\ f[m] = g[m] /\ g[m] \in 1 .. n
    BY <1>1, <1>2
  <1>4. \A m \in 1 .. l + 1 : m = l + 1 \/ m \in 1 .. l
    BY <1>1
  <1> HIDE DEF f
  <1>5. ASSUME NEW m \in 1 .. l + 1 PROVE f[m] \in I /\ t[m] = s[f[m]]
    BY <1>1, <1>2, <1>3, <1>4
  <1>6. ASSUME NEW m \in 1 .. l + 1, NEW k \in 1 .. l + 1, m < k PROVE f[m] < f[k]
    <2>1. m \in 1 .. l
      BY <1>1, <1>6
    <2>2. CASE k = l + 1
      BY <1>3, <2>1, <2>2
    <2>3. CASE k \in 1 .. l
      BY <1>2, <1>3, <1>6, <2>1, <2>3
    <2> QED BY <1>4, <2>2, <2>3
  <1>7. ASSUME NEW i \in 1 .. n + 1, i \in I PROVE \E m \in 1 .. l + 1 : f[m] = i
    <2>1. CASE i = n + 1
      <3>1. l + 1 \in 1 .. l + 1
        BY <1>1
      <3> QED BY <1>3, <2>1, <3>1
    <2>2. CASE i # n + 1
      <3>1. PICK m \in 1 .. l : g[m] = i
        BY <1>2, <1>7, <2>2
      <3>2. m \in 1 .. l + 1
        BY <1>1
      <3> QED BY <1>3, <3>1, <3>2
    <2> QED BY <2>1, <2>2
  <1>8. Ordered(f, t, s, I, n + 1)
    BY <1>1, <1>3, <1>5, <1>6, <1>7 DEF Ordered
  <1> QED BY <1>8 DEF t

LEMMA KeptOrder ==
  ASSUME NEW S, NEW s \in Seq(S), NEW I
  PROVE  \E g : Ordered(g, Kept(s, I), s, I, Len(s))
  <1>1. PICK f \in [0 .. Len(s) -> Seq(S)] :
          f[0] = <<>> /\ Sifts(f, s, I) /\ Kept(s, I) = f[Len(s)]
    BY KeptComputed
  <1> DEFINE N == Len(s)
             Good(n) == \E g : Ordered(g, f[n], s, I, n)
             P == {n \in Nat : n <= N => Good(n)}
  <1>0. N \in Nat /\ \A n \in 1 .. N : s[n] \in S
    OBVIOUS
  <1>2. 0 \in P
    <2>1. Ordered(<<>>, <<>>, s, I, 0)
      BY DEF Ordered
    <2>2. Good(0)
      BY <1>1, <2>1
    <2> HIDE DEF Good
    <2> QED BY <2>2
  <1>3. ASSUME NEW n \in 0 .. N - 1, n \in P PROVE n + 1 \in P
    <2>0. n + 1 \in 1 .. N /\ n + 1 - 1 = n /\ n \in Nat /\ n <= N
          /\ f[n] \in Seq(S) /\ s[n + 1] \in S
      BY <1>0, <1>1
    <2>1. PICK g : Ordered(g, f[n], s, I, n)
      BY <1>3, <2>0
    <2>2. f[n + 1] = IF n + 1 \in I THEN Append(f[n], s[n + 1]) ELSE f[n]
      BY <1>1, <2>0 DEF Sifts
    <2>3. CASE n + 1 \in I
      <3>1. \E k : Ordered(k, Append(f[n], s[n + 1]), s, I, n + 1)
        BY <2>0, <2>1, <2>3, OrderedAdd
      <3>2. Good(n + 1)
        BY <2>2, <2>3, <3>1
      <3> HIDE DEF Good
      <3> QED BY <2>0, <3>2
    <2>4. CASE n + 1 \notin I
      <3>1. Ordered(g, f[n], s, I, n + 1)
        BY <2>0, <2>1, <2>4, OrderedDrop
      <3>2. Good(n + 1)
        BY <2>2, <2>4, <3>1
      <3> HIDE DEF Good
      <3> QED BY <2>0, <3>2
    <2> QED BY <2>3, <2>4
  <1>4. Good(N)
    <2>1. P \in SUBSET Nat
      OBVIOUS
    <2> HIDE DEF P, Good
    <2>2. \A n \in 0 .. N : n \in P
      BY <1>0, <1>2, <1>3, <2>1, NatSetInduction
    <2> QED BY <1>0, <2>2 DEF P
  <1> QED BY <1>1, <1>4
=============================================================================
