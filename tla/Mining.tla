------------------------------- MODULE Mining -------------------------------
(***************************************************************************)
(* miner/cmake-projects/cpp-miner: the header of a block, the padding of   *)
(* SHA-256 and the search for a nonce.  What hashBlock computes of a block *)
(* is left open: a hash is the sequence of the blocks it was computed of,  *)
(* and the hash of a header is chosen for each nonce.                      *)
(* Words are sequences of their four bytes, the lowest first.              *)
(***************************************************************************)
EXTENDS Threads, SequencesExt

CONSTANTS Lengths,    \* of the data that is hashed, in words
          NonceBits,  \* 32
          Nbits       \* what the header says of the threshold, as nibbles

sBlockSize == 16
sFirstPadWord == "pad"
tobe(word) == word   \* the words are compared, never looked into
length2Words(l) == <<<<"hi", l>>, <<"lo", l>>>>
Zeros(n) == [i \in 1 .. n |-> "zero"]

hashBlock(lastHash, block) == Append(lastHash, block)
sInitialHash == <<>>

\* Mutant: fourteen words are thought to leave room for the length.
extraBlock15(n) == n \in {15, 16}
\* copy_n leaves the rest of the block as it is, fill clears it.
extraBlock(n) == n \in {14, 15, 16}
Full(data, i) == SubSeq(data, i * sBlockSize + 1, (i + 1) * sBlockSize)
finalBlock(rest, l) ==
  LET n == Len(rest)
      filled == rest \o Zeros(sBlockSize - n)
      padded == IF n = 16 THEN filled
                ELSE [filled EXCEPT ![n + 1] = tobe(sFirstPadWord)]
  IN IF extraBlock(n) THEN padded
     ELSE [padded EXCEPT ![15] = length2Words(l)[1],
                         ![16] = length2Words(l)[2]]
secondBlock(n, l) ==
  (IF n = 16 THEN <<tobe(sFirstPadWord)>> \o Zeros(13) ELSE Zeros(14))
    \o length2Words(l)

\* One step for each block.
hashRounds ==
  /\ mem.i < Len(mem.data) \div sBlockSize
  /\ Goes("main", "start", "start",
          [mem EXCEPT !.i = @ + 1,
                      !.hash = hashBlock(@, Full(mem.data, mem.i))])
hashLast ==
  LET words == Len(mem.data)
      rest == SubSeq(mem.data, mem.i * sBlockSize + 1, words)
      last == hashBlock(mem.hash, finalBlock(rest, 32 * words))
  IN /\ mem.i = words \div sBlockSize
     /\ Goes("main", "start", "done",
             [mem EXCEPT !.hash =
                IF ~extraBlock(Len(rest)) THEN last
                ELSE hashBlock(last, secondBlock(Len(rest), 32 * words))])

HashInit ==
  \E n \in Lengths :
    Calls("hash", {"main"},
          [data |-> [i \in 1 .. n |-> i], i |-> 0, hash |-> sInitialHash])
-----------------------------------------------------------------------------
\* Two nibbles make a byte, the upper one first, and eight make a word, the
\* last word of a string that ends before being filled up with zeros.
Byte(hex, i) ==
  LET nibble(j) == IF j > Len(hex) THEN 0 ELSE hex[j]
  IN 16 * nibble(2 * i + 1) + nibble(2 * i + 2)
hexStrToBinary(hex) ==
  [w \in 1 .. (Len(hex) + 7) \div 8 |->
     [b \in 1 .. 4 |-> Byte(hex, 4 * (w - 1) + b - 1)]]

\* Strings of the wrong length leave the header as it is in memory.
Uninitialised == <<>>
BlockHeader(version, prevhash, merkleRoot, time, nbits) ==
  IF /\ Len(version) = 8 /\ Len(prevhash) = 64 /\ Len(merkleRoot) = 64
     /\ Len(time) = 8 /\ Len(nbits) = 8
  THEN hexStrToBinary(version \o prevhash \o merkleRoot \o time \o nbits)
         \o <<Uninitialised>>
  ELSE [i \in 1 .. 20 |-> Uninitialised]
Zeroes(n) == [i \in 1 .. n |-> 0]
genesisBlock(nbits) ==
  BlockHeader(<<0, 1>> \o Zeroes(6), Zeroes(64), Zeroes(64), Zeroes(8), nbits)
nbitsOf(header) == header[19]
setNonce(header, nonce) == [header EXCEPT ![20] = <<nonce>>]
nonceOf(header) == header[20][1]

\* The threshold of nbits, byte by byte from the lowest: the three bytes of
\* the significand end below the exponent, and what would be below the first
\* byte is lost.  What would be beyond the last is written behind the array.
sThresholdSize == 8
Threshold == 0 .. 4 * sThresholdSize - 1
nbitsToThreshold(nbits) ==
  LET exponent == nbits[4]
      byte(b) == {nbits[i + 1] : i \in {j \in 0 .. 2 : exponent - 3 + j = b}}
  IN [b \in Threshold |-> SumSet(byte(b))]
Overruns(nbits) ==
  \E i \in 0 .. 2 : nbits[4] + i >= 3 /\ nbits[4] - 3 + i \notin Threshold

\* The highest bytes are compared first.
validHash(threshold, hash) ==
  \E b \in Threshold : /\ hash[b] < threshold[b]
                       /\ \A c \in Threshold : c > b => hash[c] = threshold[c]

\* One hash for each nonce, from startNonce on and around.
Nonces == 0 .. 2 ^ NonceBits - 1
\* Mutant: the search does not go around.
nextUpToLast(nonce) == IF nonce + 1 \in Nonces THEN nonce + 1 ELSE nonce
nextNonce(nonce) == (nonce + 1) % 2 ^ NonceBits
hashOf(header) == mem.hashes[nonceOf(header)]
mine ==
  /\ mem.header # <<>>
  /\ LET header == setNonce(mem.header, mem.nonce)
         threshold == nbitsToThreshold(nbitsOf(header))
     IN IF validHash(threshold, hashOf(header))
        THEN Goes("main", "start", "done", [mem EXCEPT !.header = header])
        ELSE Goes("main", "start", "start",
                  [mem EXCEPT !.header = header,
                              !.nonce = nextNonce(@)])
\* A header that says nothing, or too much, of its threshold: undefined.
Usable(nbits) == IF nbits = Uninitialised THEN FALSE ELSE ~Overruns(nbits)
construct ==
  LET header == genesisBlock(mem.nbits)
  IN /\ mem.header = <<>>
     /\ IF Usable(nbitsOf(header))
        THEN Goes("main", "start", "start", [mem EXCEPT !.header = header])
        ELSE Goes("main", "start", "threw", mem)

\* The hashes of the blocks: below their threshold, it, or above it.
Grades == {"below", "equal", "above"}
Top(threshold) == Max({0} \cup {b \in Threshold : threshold[b] # 0})
Graded(grade, threshold) ==
  LET top == Top(threshold)
  IN CASE grade = "equal" -> threshold
       [] grade = "below" -> [b \in Threshold |->
            IF b = top THEN threshold[b] - 1 ELSE IF b < top THEN 255 ELSE 0]
       [] OTHER -> [b \in Threshold |-> 255]
MineInit ==
  \E nbits \in Nbits, grades \in [Nonces -> Grades], start \in Nonces :
    LET word == hexStrToBinary(nbits)[1]
    IN Calls("mine", {"main"},
             [nbits |-> nbits, grades |-> grades, start |-> start,
              nonce |-> start, header |-> <<>>,
              hashes |-> [n \in Nonces |->
                            Graded(grades[n], nbitsToThreshold(word))]])

MiningInit == HashInit \/ MineInit
MiningStep(t) ==
  \/ demo = "hash" /\ t = "main" /\ (hashRounds \/ hashLast)
  \/ demo = "mine" /\ t = "main" /\ (construct \/ mine)
-----------------------------------------------------------------------------
\* The blocks that were hashed are the data, one bit, as few zeros as fill
\* the last block, and the length of the data in bits.
Padded ==
  demo = "hash" /\ Done =>
    LET words == FlattenSeq(mem.hash)
        n == Len(mem.data)
    IN /\ SubSeq(words, 1, n + 1) = Append(mem.data, sFirstPadWord)
       /\ Len(words) \in n + 3 .. n + 18
       /\ \A i \in n + 2 .. Len(words) - 2 : words[i] = "zero"
       /\ SubSeq(words, Len(words) - 1, Len(words)) = length2Words(32 * n)
       /\ \A i \in DOMAIN mem.hash : Len(mem.hash[i]) = sBlockSize

\* The nonce that is found is the first from startNonce on, and around, whose
\* hash is below the threshold.
Behind(n) == {m \in Nonces : (m - mem.start) % 2 ^ NonceBits
                               < (n - mem.start) % 2 ^ NonceBits}
Mined ==
  demo = "mine" /\ at["main"] = "done" =>
    LET n == nonceOf(mem.header)
    IN /\ mem.grades[n] = "below"
       /\ \A m \in Behind(n) : mem.grades[m] # "below"
HashedAndMined == Padded /\ Mined
=============================================================================
