------------------------------ MODULE AxiBurst ------------------------------
(***************************************************************************)
(* The address arithmetic of comms-interfaces/axi.sv: which bytes of the   *)
(* slave's memory one beat of a FIXED, INCR or WRAP burst touches, and the *)
(* address it leaves for the next beat.  The functions of the source spell *)
(* out one branch per strobe and per size; here a beat is a walk over      *)
(* consecutive addresses, wrapped or not.                                  *)
(***************************************************************************)
EXTENDS Integers, FiniteSetsExt

CONSTANTS MemSize,   \* 128: bytes of mem
          AddrRange, \* 2^32: values of an address
          Unknown    \* what a read beyond mem returns

Addr == 0 .. MemSize - 1
Lane == 0 .. 3

wrap_boundary(len, size) == (len + 1) * 2^size

\* The address after a, wrapped at the boundary; no boundary is 0.
After(a, boundary) ==
  LET next == (a + 1) % AddrRange
  IN  IF boundary # 0 /\ next % boundary = 0 THEN (next - boundary) % AddrRange
                                             ELSE next

\* The n addresses of a beat that starts at a, and the one that follows.
Walk(a, boundary, n) ==
  LET at[i \in 0 .. n] == IF i = 0 THEN a ELSE After(at[i - 1], boundary)
  IN  at

Boundary(burst, len, size) ==
  IF burst = "wrap" THEN wrap_boundary(len, size) ELSE 0

\* One write beat: the lanes that wstrb selects, lowest first, go to
\* consecutive addresses; a byte addressed beyond mem is dropped.
\* word[l] is the byte on lane l.
data_wr(mem, boundary, wstrb, a, word) ==
  LET at == Walk(a, boundary, Cardinality(wstrb))
      To(x) == {l \in wstrb : at[Cardinality({k \in wstrb : k < l})] = x}
  IN  [x \in Addr |-> IF To(x) = {} THEN mem[x] ELSE word[Max(To(x))]]

\* The address the beat returns: a FIXED burst stays, the others move on.
data_wr_addr(burst, boundary, wstrb, a) ==
  IF burst = "fixed" THEN a
  ELSE Walk(a, boundary, Cardinality(wstrb))[Cardinality(wstrb)]

\* Mutant: a read that runs past the boundary.
read_dataUnwrapped(mem, rdata, boundary, size, a) ==
  [l \in Lane |-> IF l >= 2^size THEN rdata[l]
                  ELSE IF a + l \in Addr THEN mem[a + l] ELSE Unknown]

\* One read beat of 2^size bytes; the lanes above keep what they held.
read_data(mem, rdata, boundary, size, a) ==
  [l \in Lane |-> IF l >= 2^size THEN rdata[l]
                  ELSE LET x == Walk(a, boundary, 2^size)[l]
                       IN  IF x \in Addr THEN mem[x] ELSE Unknown]

read_data_addr(boundary, size, a) == Walk(a, boundary, 2^size)[2^size]
-----------------------------------------------------------------------------
\* What the protocol asks for, in closed form: the address of lane l of beat
\* i of a burst of 4-byte beats that starts at a.
BeatByte(burst, len, a, i, l) ==
  CASE burst = "fixed" -> a + l
    [] burst = "incr" -> a + 4 * i + l
    [] burst = "wrap" -> LET b == wrap_boundary(len, 2)
                             base == b * (a \div b)
                         IN  base + ((a - base + 4 * i + l) % b)
=============================================================================
