---------------------------- MODULE BufferProofs ----------------------------
(* Proofs about buffer and buffer_lens, for every alignment, element size,  *)
(* capacity and request, and for any number of bytes and blocks.            *)
EXTENDS Buffer, CommonLemmas, SequenceTheorems, TLAPS

\* The client with all four habits, whom the class serves as promised.
Disciplined == {"commit", "turns", "whole", "rewound"} \subseteq Discipline

-----------------------------------------------------------------------------
(* The invariant, over the blocks b, the reading position x and off, the    *)
(* producer's span sp, and the bytes written and received so far.           *)

IsBlocks(b) ==
    /\ b \in Seq(Block)
    /\ \A i \in 1 .. Len(b) : Len(b[i].data) <= b[i].capa

\* The blocks behind the reading position are gone, unless reads kept them.
Kept(b, x, keep) ==
    /\ x \in 0 .. Len(b)
    /\ \A i \in 1 .. Len(b) : i > x => b[i].capa # 0
    /\ keep \/ \A i \in 1 .. x : b[i].capa = 0

\* The last block was removed after all of it was read.
LastGone(b, x) == x = Len(b) /\ Len(b) # 0 /\ b[Len(b)] = Released

\* A span is what is left of the last block, which is still to be read, unless
\* that block is gone; no other block is empty.
Spanned(b, x, sp, keep) ==
    /\ sp \in Nat \cup {NoSpan}
    /\ sp # NoSpan => /\ ~keep
                      /\ \/ x < Len(b) /\ sp = Left(b[Len(b)])
                         \/ LastGone(b, x)
    /\ \A i \in 1 .. Len(b) :
           b[i].capa # 0 /\ Len(b[i].data) = 0 => i = Len(b) /\ sp # NoSpan

\* Reading is inside a block that has more, or at the start of an empty one.
Positioned(b, x, off) ==
    /\ off \in Nat
    /\ x = Len(b) => off = 0
    /\ x < Len(b) => \/ off < Len(b[x + 1].data)
                     \/ off = 0 /\ Len(b[x + 1].data) = 0

IsElements(n) == \E k \in Nat : n = EleSize * k

Aligned(b, off) ==
    /\ IsElements(off)
    /\ \A i \in 1 .. Len(b) : IsElements(Len(b[i].data))

\* Block i holds the bytes after start[i], in order; start says where the
\* removed blocks were.
Laid(b, w, start) ==
    /\ start \in [1 .. Len(b) + 1 -> 0 .. w]
    /\ start[1] = 0 /\ start[Len(b) + 1] = w
    /\ \A i \in 1 .. Len(b) : b[i].capa # 0 =>
           /\ start[i + 1] = start[i] + Len(b[i].data)
           /\ \A j \in 1 .. Len(b[i].data) : b[i].data[j] = start[i] + j

\* The numbers of the first n bytes.
FirstBytes(n) == [i \in 1 .. n |-> i]

\* The consumer has received all bytes before the reading position.
Placed(b, x, off, w, got) ==
    \E start \in [1 .. Len(b) + 1 -> 0 .. w] :
        /\ Laid(b, w, start)
        /\ got = FirstBytes(start[x + 1] + off)

Consistent(b, x, off, sp, keep, w, got) ==
    /\ IsBlocks(b) /\ keep \in BOOLEAN /\ w \in 0 .. MaxBytes
    /\ Kept(b, x, keep)
    /\ Spanned(b, x, sp, keep)
    /\ Positioned(b, x, off)
    /\ Aligned(b, off)
    /\ Placed(b, x, off, w, got)

IInv ==
    /\ m_newblock_capa \in Capas
    /\ m_current_block = Len(m_blocks)
    /\ Consistent(m_blocks, m_current_reading_block_idx,
                  m_current_block_readed_nbytes, span, keeping, written, received)

-----------------------------------------------------------------------------
(* Numbers.                                                                 *)

LEMMA RoundsUp ==
    ASSUME NEW n \in Nat \ {0}
    PROVE  RoundedUp(n) \in Nat /\ RoundedUp(n) >= n
<1> USE BufferAssumption
<1> DEFINE m == n + Align - 1
<1>1. m \in Nat /\ Align \in Nat \ {0}
  OBVIOUS
<1>2. /\ m \div Align \in Nat
      /\ m = Align * (m \div Align) + (m % Align)
      /\ m % Align \in 0 .. Align - 1
  <2> HIDE DEF m
  <2> QED BY <1>1
<1>3. RoundedUp(n) = Align * (m \div Align)
  BY <1>1, <1>2 DEF RoundedUp
<1>4. Align * (m \div Align) \in Nat /\ Align * (m \div Align) >= n
  BY <1>1, <1>2
<1> QED BY <1>3, <1>4

LEMMA SizesAreElements == \A n \in Sizes : n \in Nat /\ IsElements(n)
<1> SUFFICES ASSUME NEW n \in Sizes PROVE n \in Nat /\ IsElements(n)
  OBVIOUS
<1>1. n \in Nat /\ EleSize \in Nat \ {0} /\ n % EleSize = 0
  BY BufferAssumption
<1>2. n \div EleSize \in Nat /\ n = EleSize * (n \div EleSize) + (n % EleSize)
  BY <1>1
<1>3. n = EleSize * (n \div EleSize)
  BY <1>1, <1>2
<1> QED BY <1>1, <1>2, <1>3 DEF IsElements

LEMMA ElementsAdd ==
    ASSUME NEW m, NEW n, IsElements(m), IsElements(n)
    PROVE  IsElements(m + n)
<1>1. PICK j \in Nat, k \in Nat : m = EleSize * j /\ n = EleSize * k
  BY DEF IsElements
<1>2. j + k \in Nat /\ m + n = EleSize * (j + k)
  BY <1>1, BufferAssumption
<1> QED BY <1>2 DEF IsElements

\* What remains of a block, less than an element, is nothing.
LEMMA NoHalfElement ==
    ASSUME NEW m \in Nat, NEW n \in Nat, IsElements(m), IsElements(n), n <= m,
           (m - n) \div EleSize = 0
    PROVE  m = n
<1>1. PICK j \in Nat, k \in Nat : m = EleSize * j /\ n = EleSize * k
  BY DEF IsElements
<1>2. EleSize \in Nat \ {0}
  BY BufferAssumption
<1>3. j >= k
  BY <1>1, <1>2
<1>4. m - n = EleSize * (j - k) /\ j - k \in Nat
  BY <1>1, <1>2, <1>3
<1>5. (m - n) \div EleSize = j - k
  <2> DEFINE d == m - n
  <2>1. d \in Nat /\ d = EleSize * (j - k)
    BY <1>4
  <2>2. /\ d \div EleSize \in Nat
        /\ d = EleSize * (d \div EleSize) + (d % EleSize)
        /\ d % EleSize \in 0 .. EleSize - 1
    <3> HIDE DEF d
    <3> QED BY <1>2, <2>1
  <2> QED BY <1>2, <1>4, <2>1, <2>2
<1> QED BY <1>1, <1>4, <1>5

-----------------------------------------------------------------------------
(* Sequences.                                                               *)

LEMMA BlocksAreRecords ==
    ASSUME NEW b, IsBlocks(b)
    PROVE  /\ Len(b) \in Nat
           /\ \A i \in 1 .. Len(b) :
                  /\ b[i] = [capa |-> b[i].capa, data |-> b[i].data]
                  /\ b[i].capa \in Nat /\ b[i].data \in Seq(1 .. MaxBytes)
                  /\ Len(b[i].data) \in Nat /\ Len(b[i].data) <= b[i].capa
<1>1. Len(b) \in Nat
  BY LenProperties DEF IsBlocks
<1>2. ASSUME NEW i \in 1 .. Len(b)
      PROVE  /\ b[i] = [capa |-> b[i].capa, data |-> b[i].data]
             /\ b[i].capa \in Nat /\ b[i].data \in Seq(1 .. MaxBytes)
             /\ Len(b[i].data) \in Nat /\ Len(b[i].data) <= b[i].capa
  <2>1. b[i] \in Block
    BY ElementOfSeq DEF IsBlocks
  <2>2. /\ b[i] = [capa |-> b[i].capa, data |-> b[i].data]
        /\ b[i].capa \in Nat /\ b[i].data \in Seq(1 .. MaxBytes)
    BY <2>1 DEF Block
  <2>3. Len(b[i].data) \in Nat
    BY <2>2, LenProperties
  <2> QED BY <2>2, <2>3 DEF IsBlocks
<1> QED BY <1>1, <1>2

LEMMA FirstBytesLen ==
    ASSUME NEW n \in Nat
    PROVE  FirstBytes(n) \in Seq(Int) /\ Len(FirstBytes(n)) = n
<1>1. FirstBytes(n) \in [1 .. n -> Int]
  BY DEF FirstBytes
<1> QED BY <1>1, SeqDef

LEMMA FirstBytesUpTo ==
    \A w \in 0 .. MaxBytes : \A k \in 0 .. w :
        /\ FirstBytes(k) \in Seq(Int) /\ FirstBytes(k) \in Seq(1 .. MaxBytes)
        /\ Len(FirstBytes(k)) = k
<1> SUFFICES ASSUME NEW w \in 0 .. MaxBytes, NEW k \in 0 .. w
             PROVE  /\ FirstBytes(k) \in Seq(Int)
                    /\ FirstBytes(k) \in Seq(1 .. MaxBytes)
                    /\ Len(FirstBytes(k)) = k
  OBVIOUS
<1>1. k \in Nat /\ k <= MaxBytes
  BY BufferAssumption
<1>2. FirstBytes(k) \in [1 .. k -> 1 .. MaxBytes]
  BY <1>1, BufferAssumption DEF FirstBytes
<1>3. FirstBytes(k) \in Seq(1 .. MaxBytes)
  BY <1>1, <1>2, SeqDef
<1> QED BY <1>1, <1>3, FirstBytesLen

\* Bytes k + 1 .. k + n after bytes 1 .. k.
LEMMA Received ==
    ASSUME NEW k \in Nat, NEW n \in Nat, NEW off \in Nat,
           NEW d \in Seq(1 .. MaxBytes), off + n <= Len(d),
           \A j \in 1 .. n : d[off + j] = k + j
    PROVE  FirstBytes(k) \o SubSeq(SubSeq(d, off + 1, Len(d)), 1, n)
              = FirstBytes(k + n)
<1> DEFINE next == SubSeq(d, off + 1, Len(d))
           part == SubSeq(next, 1, n)
           all == FirstBytes(k) \o part
<1>1. /\ FirstBytes(k) \in Seq(Int) /\ Len(FirstBytes(k)) = k
      /\ FirstBytes(k + n) \in Seq(Int) /\ Len(FirstBytes(k + n)) = k + n
  BY FirstBytesLen
<1>2. \A j \in 1 .. n : next[j] = k + j
  <2>1. Len(d) \in Nat /\ off + 1 \in Int
    BY LenProperties
  <2>2. \A i \in off + 1 .. Len(d) : d[i] \in 1 .. MaxBytes
    <3>1. \A i \in off + 1 .. Len(d) : i \in 1 .. Len(d)
      BY <2>1
    <3> QED BY <3>1, ElementOfSeq
  <2>3. \A i \in 1 .. Len(d) - (off + 1) + 1 : next[i] = d[off + 1 + i - 1]
    BY <2>1, <2>2, SubSeqProperties
  <2> HIDE DEF next
  <2>4. \A i \in 1 .. n : next[i] = d[off + i]
    BY <2>1, <2>3
  <2> QED BY <2>4
<1> HIDE DEF next
<1>3. /\ part \in Seq(Int) /\ Len(part) = n
      /\ \A i \in 1 .. n : part[i] = k + i
  <2>1. /\ part \in Seq(Int) /\ Len(part) = IF 1 <= n THEN n - 1 + 1 ELSE 0
        /\ \A i \in 1 .. n - 1 + 1 : part[i] = next[1 + i - 1]
    BY <1>2, SubSeqProperties
  <2> HIDE DEF part
  <2> QED BY <1>2, <2>1
<1> HIDE DEF part
<1>4. /\ all \in Seq(Int) /\ Len(all) = k + n
      /\ \A i \in 1 .. k + n :
             all[i] = IF i <= k THEN FirstBytes(k)[i] ELSE part[i - k]
  <2>1. /\ all \in Seq(Int) /\ Len(all) = Len(FirstBytes(k)) + Len(part)
        /\ \A i \in 1 .. Len(FirstBytes(k)) + Len(part) :
               all[i] = IF i <= Len(FirstBytes(k)) THEN FirstBytes(k)[i]
                        ELSE part[i - Len(FirstBytes(k))]
    <3>1. FirstBytes(k) \in Seq(Int) /\ part \in Seq(Int)
      BY <1>1, <1>3
    <3> QED BY <3>1, ConcatProperties, Zenon
  <2> HIDE DEF all
  <2> QED BY <1>1, <1>3, <2>1
<1> HIDE DEF all
<1>5. \A i \in 1 .. k + n : all[i] = FirstBytes(k + n)[i]
  BY <1>3, <1>4 DEF FirstBytes
<1>6. all = FirstBytes(k + n)
  BY <1>1, <1>4, <1>5, SeqEqual
<1> QED BY <1>6 DEF all, part, next

-----------------------------------------------------------------------------
(* What the producer does.                                                  *)

\* A new block, taken for a span of capa bytes or more.
LEMMA BlockTaken ==
    ASSUME NEW b, NEW x, NEW off, NEW w, NEW got, NEW capa \in Nat \ {0},
           Consistent(b, x, off, NoSpan, FALSE, w, got)
    PROVE  Consistent(Append(b, NewBlock(capa)), x, off, RoundedUp(capa), FALSE,
                      w, got)
<1> DEFINE c == Append(b, NewBlock(capa))
<1>0. IsBlocks(b) /\ Len(b) \in Nat /\ w \in 0 .. MaxBytes
  BY BlocksAreRecords DEF Consistent
<1>1. /\ RoundedUp(capa) \in Nat /\ RoundedUp(capa) > 0
      /\ NewBlock(capa) = [capa |-> RoundedUp(capa), data |-> <<>>]
      /\ NewBlock(capa).capa = RoundedUp(capa) /\ Len(NewBlock(capa).data) = 0
      /\ NewBlock(capa) \in Block /\ Left(NewBlock(capa)) = RoundedUp(capa)
  BY RoundsUp DEF NewBlock, Block, Left
<1>2. /\ Len(c) = Len(b) + 1 /\ c \in Seq(Block)
      /\ \A i \in 1 .. Len(b) : c[i] = b[i]
      /\ c[Len(b) + 1] = NewBlock(capa)
  BY <1>0, <1>1, AppendProperties DEF IsBlocks
<1> HIDE DEF c
<1>3. IsBlocks(c)
  BY <1>0, <1>1, <1>2 DEF IsBlocks
<1>4. Kept(c, x, FALSE)
  BY <1>0, <1>1, <1>2 DEF Consistent, Kept
<1>5. Spanned(c, x, RoundedUp(capa), FALSE)
  BY <1>0, <1>1, <1>2 DEF Consistent, Spanned, Kept, NoSpan
<1>6. Positioned(c, x, off)
  BY <1>0, <1>1, <1>2 DEF Consistent, Positioned, Kept
<1>7. Aligned(c, off)
  <2>1. IsElements(0)
    BY BufferAssumption DEF IsElements
  <2> QED BY <1>0, <1>1, <1>2, <2>1 DEF Consistent, Aligned
<1>8. Placed(c, x, off, w, got)
  <2>1. PICK start \in [1 .. Len(b) + 1 -> 0 .. w] :
            /\ Laid(b, w, start)
            /\ got = FirstBytes(start[x + 1] + off)
    BY DEF Consistent, Placed
  <2> DEFINE more == [i \in 1 .. Len(c) + 1 |->
                         IF i <= Len(b) + 1 THEN start[i] ELSE w]
  <2>2. /\ more \in [1 .. Len(c) + 1 -> 0 .. w] /\ more[Len(c) + 1] = w
        /\ \A i \in 1 .. Len(b) + 1 : more[i] = start[i]
    BY <1>0, <1>2
  <2> HIDE DEF more
  <2>3. Laid(c, w, more)
    <3>1. more[1] = 0 /\ more[Len(b) + 1] = w
      BY <1>0, <2>1, <2>2 DEF Laid
    <3>2. \A i \in 1 .. Len(b) : more[i] = start[i] /\ more[i + 1] = start[i + 1]
      BY <1>0, <2>2
    <3>3. ASSUME NEW i \in 1 .. Len(b), c[i].capa # 0
          PROVE  /\ more[i + 1] = more[i] + Len(c[i].data)
                 /\ \A j \in 1 .. Len(c[i].data) : c[i].data[j] = more[i] + j
      <4>1. c[i] = b[i] /\ more[i] = start[i] /\ more[i + 1] = start[i + 1]
        BY <1>2, <3>2
      <4> QED BY <2>1, <3>3, <4>1 DEF Laid
    <3>4. ASSUME NEW i \in 1 .. Len(c), i = Len(b) + 1
          PROVE  /\ more[i + 1] = more[i] + Len(c[i].data)
                 /\ \A j \in 1 .. Len(c[i].data) : c[i].data[j] = more[i] + j
      <4>1. Len(c[i].data) = 0
        BY <1>1, <1>2, <3>4
      <4> QED BY <1>0, <1>2, <2>2, <3>1, <3>4, <4>1
    <3>5. \A i \in 1 .. Len(c) : i \in 1 .. Len(b) \/ i = Len(b) + 1
      BY <1>0, <1>2
    <3> QED BY <2>2, <3>1, <3>3, <3>4, <3>5 DEF Laid
  <2>4. more[x + 1] = start[x + 1]
    BY <1>0, <2>2 DEF Consistent, Kept
  <2> QED BY <2>1, <2>2, <2>3, <2>4 DEF Placed
<1>9. Consistent(c, x, off, RoundedUp(capa), FALSE, w, got)
  BY <1>0, <1>3, <1>4, <1>5, <1>6, <1>7, <1>8 DEF Consistent
<1> QED BY <1>9 DEF c

\* The room left in the last block, which cannot have been removed.
LEMMA RoomTaken ==
    ASSUME NEW b, NEW x, NEW off, NEW w, NEW got,
           Consistent(b, x, off, NoSpan, FALSE, w, got),
           Len(b) # 0, Left(b[Len(b)]) # 0
    PROVE  Consistent(b, x, off, Left(b[Len(b)]), FALSE, w, got)
<1>1. /\ Len(b) \in Nat /\ b[Len(b)].capa \in Nat
      /\ Len(b[Len(b)].data) \in Nat /\ Len(b[Len(b)].data) <= b[Len(b)].capa
  <2>1. IsBlocks(b) /\ Len(b) \in Nat
    BY BlocksAreRecords DEF Consistent
  <2>2. Len(b) \in 1 .. Len(b)
    BY <2>1
  <2> QED BY <2>1, <2>2, BlocksAreRecords
<1>2. Left(b[Len(b)]) \in Nat /\ b[Len(b)].capa # 0
  BY <1>1 DEF Left
<1>3. x < Len(b)
  BY <1>1, <1>2 DEF Consistent, Kept
<1>4. Spanned(b, x, Left(b[Len(b)]), FALSE)
  BY <1>1, <1>2, <1>3 DEF Consistent, Spanned, NoSpan
<1> QED BY <1>4 DEF Consistent

\* c is b with n more bytes, those after w, in its last block.
Extended(b, c, w, n) ==
    /\ c \in Seq(Block) /\ Len(c) = Len(b)
    /\ \A i \in 1 .. Len(b) : i # Len(b) => c[i] = b[i]
    /\ c[Len(b)].capa = b[Len(b)].capa
    /\ Len(c[Len(b)].data) = Len(b[Len(b)].data) + n
    /\ \A j \in 1 .. Len(b[Len(b)].data) :
           c[Len(b)].data[j] = b[Len(b)].data[j]
    /\ \A j \in 1 .. n : c[Len(b)].data[Len(b[Len(b)].data) + j] = w + j

LEMMA ByteNumbers ==
    ASSUME NEW w \in Nat, NEW n \in Nat, w + n <= MaxBytes
    PROVE  /\ [i \in 1 .. n |-> w + i] \in Seq(1 .. MaxBytes)
           /\ Len([i \in 1 .. n |-> w + i]) = n
           /\ \A j \in 1 .. n : [i \in 1 .. n |-> w + i][j] = w + j
<1> DEFINE bytes == [i \in 1 .. n |-> w + i]
<1>1. bytes \in [1 .. n -> 1 .. MaxBytes]
  BY BufferAssumption
<1>2. \A i \in 1 .. n : bytes[i] = w + i
  OBVIOUS
<1> HIDE DEF bytes
<1>3. bytes \in Seq(1 .. MaxBytes)
  BY <1>1, SeqDef
<1>4. Len(bytes) = n
  BY <1>1, <1>3, LenProperties
<1> QED BY <1>2, <1>3, <1>4 DEF bytes

WithData(b, e, d) == [b EXCEPT ![e].data = d]

LEMMA BlockReplaced ==
    ASSUME NEW b \in Seq(Block), NEW e \in 1 .. Len(b),
           NEW d \in Seq(1 .. MaxBytes)
    PROVE  /\ WithData(b, e, d) \in Seq(Block) /\ Len(WithData(b, e, d)) = Len(b)
           /\ \A i \in 1 .. Len(b) : i # e => WithData(b, e, d)[i] = b[i]
           /\ WithData(b, e, d)[e].capa = b[e].capa
           /\ WithData(b, e, d)[e].data = d
<1> DEFINE block == [b[e] EXCEPT !.data = d]
           c == [b EXCEPT ![e] = block]
<1>1. b[e] \in Block
  BY ElementOfSeq
<1>2. block \in Block /\ block.capa = b[e].capa /\ block.data = d
  BY <1>1 DEF Block
<1> HIDE DEF block
<1>3. /\ c \in Seq(Block) /\ Len(c) = Len(b)
      /\ \A i \in 1 .. Len(b) : c[i] = IF i = e THEN block ELSE b[i]
  BY <1>2, ExceptSeq
<1> HIDE DEF c
<1>4. /\ c \in Seq(Block) /\ Len(c) = Len(b)
      /\ \A i \in 1 .. Len(b) : i # e => c[i] = b[i]
      /\ c[e].capa = b[e].capa /\ c[e].data = d
  BY <1>2, <1>3
<1> QED BY <1>4 DEF c, block, WithData

LEMMA Extends ==
    ASSUME NEW b, IsBlocks(b), Len(b) # 0,
           NEW w \in Nat, NEW n \in Nat, w + n <= MaxBytes
    PROVE  Extended(b, [b EXCEPT ![Len(b)].data =
                                    @ \o [i \in 1 .. n |-> w + i]], w, n)
<1> DEFINE e == Len(b)
           d == b[e].data
           bytes == [i \in 1 .. n |-> w + i]
           c == WithData(b, e, d \o bytes)
<1>1. e \in 1 .. Len(b) /\ b \in Seq(Block)
      /\ d \in Seq(1 .. MaxBytes) /\ Len(d) \in Nat
  <2>1. Len(b) \in Nat
    BY BlocksAreRecords
  <2>2. Len(b) \in 1 .. Len(b)
    BY <2>1
  <2> QED BY <2>2, BlocksAreRecords DEF IsBlocks
<1>2. /\ bytes \in Seq(1 .. MaxBytes) /\ Len(bytes) = n
      /\ \A i \in 1 .. n : bytes[i] = w + i
  BY ByteNumbers
<1> HIDE DEF bytes, d
<1>3. /\ d \o bytes \in Seq(1 .. MaxBytes) /\ Len(d \o bytes) = Len(d) + n
      /\ \A i \in 1 .. Len(d) : (d \o bytes)[i] = d[i]
      /\ \A i \in 1 .. n : (d \o bytes)[Len(d) + i] = w + i
  <2>1. /\ d \o bytes \in Seq(1 .. MaxBytes)
        /\ Len(d \o bytes) = Len(d) + Len(bytes)
        /\ \A i \in 1 .. Len(d) + Len(bytes) :
               (d \o bytes)[i] = IF i <= Len(d) THEN d[i] ELSE bytes[i - Len(d)]
    BY <1>1, <1>2, ConcatProperties
  <2>2. \A i \in 1 .. n : (d \o bytes)[Len(d) + i] = bytes[i]
    BY <1>1, <1>2, <2>1
  <2> QED BY <1>1, <1>2, <2>1, <2>2
<1>4. /\ c \in Seq(Block) /\ Len(c) = Len(b)
      /\ \A i \in 1 .. Len(b) : i # e => c[i] = b[i]
      /\ c[e].capa = b[e].capa /\ c[e].data = d \o bytes
  <2> HIDE DEF e
  <2> QED BY <1>1, <1>3, BlockReplaced
<1> HIDE DEF c
<1>5. Extended(b, c, w, n)
  BY <1>3, <1>4 DEF Extended, d
<1> QED BY <1>5 DEF c, d, bytes, WithData

\* Bytes written to the span.
LEMMA BytesWritten ==
    ASSUME NEW b, NEW x, NEW off, NEW sp, NEW w, NEW got,
           NEW n \in Nat \ {0}, IsElements(n), w + n <= MaxBytes,
           Consistent(b, x, off, sp, FALSE, w, got), sp # NoSpan,
           Len(b) # 0, n <= Left(b[Len(b)]),
           NEW c, Extended(b, c, w, n)
    PROVE  Consistent(c, x, off, NoSpan, FALSE, w + n, got)
<1> DEFINE e == Len(b)
           d == b[e].data
<1>0. /\ IsBlocks(b) /\ Len(b) \in Nat /\ w \in 0 .. MaxBytes
      /\ x \in Nat /\ x < e /\ e \in 1 .. Len(b) /\ sp = Left(b[e])
  <2>1. IsBlocks(b) /\ Len(b) \in Nat /\ w \in 0 .. MaxBytes
    BY BlocksAreRecords DEF Consistent
  <2>2. Left(Released) = 0
    BY EmptySeq DEF Left, Released
  <2>3. ~LastGone(b, x)
    BY <2>2 DEF LastGone
  <2>4. x \in Nat /\ x < Len(b) /\ sp = Left(b[Len(b)])
    BY <2>1, <2>3 DEF Consistent, Kept, Spanned
  <2> QED BY <2>1, <2>4
<1>1. /\ b[e].capa \in Nat /\ Len(d) \in Nat /\ Len(d) + n <= b[e].capa
  <2>1. b[e].capa \in Nat /\ Len(d) \in Nat /\ Len(d) <= b[e].capa
    BY <1>0, BlocksAreRecords
  <2> QED BY <1>0, <2>1 DEF Left
<1>2. /\ c \in Seq(Block) /\ Len(c) = Len(b)
      /\ \A i \in 1 .. Len(b) : i # e => c[i] = b[i]
      /\ c[e].capa = b[e].capa /\ Len(c[e].data) = Len(d) + n
      /\ \A j \in 1 .. Len(d) : c[e].data[j] = d[j]
      /\ \A j \in 1 .. n : c[e].data[Len(d) + j] = w + j
  BY DEF Extended
<1> HIDE DEF d, e
<1>5. IsBlocks(c)
  <2>1. Len(c[e].data) <= c[e].capa
    BY <1>1, <1>2
  <2>2. \A i \in 1 .. Len(b) : i # e => Len(c[i].data) <= c[i].capa
    BY <1>0, <1>2 DEF IsBlocks
  <2> QED BY <1>2, <2>1, <2>2 DEF IsBlocks
<1>6. Kept(c, x, FALSE)
  BY <1>0, <1>2 DEF Consistent, Kept, e
<1>7. Spanned(c, x, NoSpan, FALSE)
  <2>1. Len(c[e].data) # 0
    BY <1>1, <1>2
  <2>2. \A i \in 1 .. Len(b) : i # e /\ c[i].capa # 0 => Len(c[i].data) # 0
    BY <1>0, <1>2 DEF Consistent, Spanned, e
  <2> QED BY <1>0, <1>2, <2>1, <2>2 DEF Spanned
<1>8. Positioned(c, x, off)
  <2>1. CASE x + 1 = e
    <3>1. off \in Nat /\ (off < Len(d) \/ (off = 0 /\ Len(d) = 0))
      BY <1>0, <2>1 DEF Consistent, Positioned, e, d
    <3>2. off < Len(c[e].data)
      BY <1>1, <1>2, <3>1
    <3>3. x < Len(c) /\ off < Len(c[x + 1].data) /\ x # Len(c)
      BY <1>0, <1>2, <2>1, <3>2 DEF e
    <3> QED BY <3>1, <3>3 DEF Positioned
  <2>2. CASE x + 1 # e
    <3>1. x + 1 \in 1 .. Len(b) /\ c[x + 1] = b[x + 1]
      BY <1>0, <1>2, <2>2 DEF e
    <3> QED BY <1>0, <1>2, <3>1 DEF Consistent, Positioned, e
  <2> QED BY <2>1, <2>2
<1>9. Aligned(c, off)
  <2>1. IsElements(Len(c[e].data))
    BY <1>0, <1>2, ElementsAdd DEF Consistent, Aligned, d
  <2> QED BY <1>0, <1>2, <2>1 DEF Consistent, Aligned
<1>10. Placed(c, x, off, w + n, got)
  <2>1. PICK start \in [1 .. Len(b) + 1 -> 0 .. w] :
            Laid(b, w, start) /\ got = FirstBytes(start[x + 1] + off)
    BY DEF Consistent, Placed
  <2> DEFINE more == [start EXCEPT ![Len(b) + 1] = w + n]
  <2>2. /\ more \in [1 .. Len(c) + 1 -> 0 .. w + n]
        /\ more[Len(b) + 1] = w + n
        /\ \A i \in 1 .. Len(b) : more[i] = start[i]
    BY <1>0, <1>2
  <2> HIDE DEF more
  <2>3. ASSUME NEW i \in 1 .. Len(b), i # e, c[i].capa # 0
        PROVE  /\ more[i + 1] = more[i] + Len(c[i].data)
               /\ \A j \in 1 .. Len(c[i].data) : c[i].data[j] = more[i] + j
    <3>1. more[i] = start[i] /\ more[i + 1] = start[i + 1] /\ c[i] = b[i]
      BY <1>0, <1>2, <2>2, <2>3 DEF e
    <3> QED BY <2>1, <2>3, <3>1 DEF Laid
  <2>4. /\ more[e + 1] = more[e] + Len(c[e].data)
        /\ \A j \in 1 .. Len(c[e].data) : c[e].data[j] = more[e] + j
    <3>1. b[e].capa # 0
      BY <1>1
    <3>2. /\ w = start[e] + Len(d) /\ start[e] \in Nat
          /\ \A j \in 1 .. Len(d) : d[j] = start[e] + j
      BY <1>0, <2>1, <3>1 DEF Laid, d, e
    <3>3. more[e] = start[e] /\ more[e + 1] = w + n
      BY <1>0, <2>2 DEF e
    <3>4. ASSUME NEW j \in 1 .. Len(d) + n
          PROVE  c[e].data[j] = start[e] + j
      <4>1. CASE j <= Len(d)
        BY <1>1, <1>2, <3>2, <4>1
      <4>2. CASE j > Len(d)
        <5>1. j \in Nat /\ j - Len(d) \in 1 .. n /\ Len(d) + (j - Len(d)) = j
          BY <1>1, <4>2
        <5>2. c[e].data[j] = w + (j - Len(d))
          BY <1>2, <5>1
        <5>3. w + (j - Len(d)) = start[e] + j
          BY <1>0, <1>1, <3>2, <5>1
        <5> QED BY <5>2, <5>3
      <4>3. j \in Nat /\ Len(d) \in Nat
        BY <1>1
      <4> QED BY <4>1, <4>2, <4>3
    <3> QED BY <1>1, <1>2, <3>2, <3>3, <3>4
  <2>5. more[1] = 0
    BY <1>0, <2>1, <2>2 DEF Laid
  <2>6. Laid(c, w + n, more)
    BY <1>0, <1>2, <2>2, <2>3, <2>4, <2>5 DEF Laid, e
  <2>7. more[x + 1] = start[x + 1]
    BY <1>0, <2>2 DEF e
  <2> QED BY <2>1, <2>2, <2>6, <2>7 DEF Placed
<1>11. w + n \in 0 .. MaxBytes
  BY <1>0, BufferAssumption
<1> QED BY <1>5, <1>6, <1>7, <1>8, <1>9, <1>10, <1>11 DEF Consistent
-----------------------------------------------------------------------------
(* What the consumer does.                                                  *)

\* Reads may keep blocks as long as the producer holds no span.
LEMMA KeepingAllowed ==
    ASSUME NEW b, NEW x, NEW off, NEW keep, NEW w, NEW got,
           Consistent(b, x, off, NoSpan, keep, w, got)
    PROVE  Consistent(b, x, off, NoSpan, TRUE, w, got)
BY DEF Consistent, Kept, Spanned

\* What a read of n bytes of the current block gives.
Got(b, x, off, got, n) ==
    got \o SubSeq(SubSeq(b[x + 1].data, off + 1, Len(b[x + 1].data)), 1, n)

LEMMA BytesGot ==
    ASSUME NEW b, IsBlocks(b), NEW x \in Nat, x < Len(b), b[x + 1].capa # 0,
           NEW off \in Nat, NEW n \in Nat, off + n <= Len(b[x + 1].data),
           NEW w \in Nat, NEW start, Laid(b, w, start),
           NEW got, got = FirstBytes(start[x + 1] + off)
    PROVE  Got(b, x, off, got, n) = FirstBytes(start[x + 1] + off + n)
<1> DEFINE d == b[x + 1].data
           k == start[x + 1] + off
<1>1. x + 1 \in 1 .. Len(b) /\ x + 1 \in 1 .. Len(b) + 1
  <2>1. Len(b) \in Nat
    BY BlocksAreRecords
  <2> QED BY <2>1
<1>2. d \in Seq(1 .. MaxBytes) /\ Len(d) \in Nat
  BY <1>1, BlocksAreRecords
<1>3. /\ start[x + 1] \in Nat
      /\ \A j \in 1 .. Len(d) : d[j] = start[x + 1] + j
  BY <1>1 DEF Laid
<1>4. k \in Nat
  BY <1>1, <1>3
<1>5. \A j \in 1 .. n : d[off + j] = k + j
  <2> SUFFICES ASSUME NEW j \in 1 .. n PROVE d[off + j] = k + j
    OBVIOUS
  <2>1. off + j \in 1 .. Len(d)
    BY <1>1, <1>2
  <2>2. d[off + j] = start[x + 1] + (off + j)
    BY <1>3, <2>1
  <2> QED BY <1>1, <1>3, <2>2
<1>6. FirstBytes(k) \o SubSeq(SubSeq(d, off + 1, Len(d)), 1, n) = FirstBytes(k + n)
  <2>1. off + n <= Len(d)
    OBVIOUS
  <2> HIDE DEF d, k
  <2> QED BY <1>1, <1>2, <1>4, <1>5, <2>1, Received
<1> QED BY <1>6 DEF Got

\* A read that leaves something of the block.
LEMMA PartRead ==
    ASSUME NEW b, NEW x, NEW off, NEW sp, NEW keep, NEW w, NEW got,
           Consistent(b, x, off, sp, keep, w, got), x < Len(b),
           NEW n \in Nat, IsElements(n), off + n < Len(b[x + 1].data)
    PROVE  Consistent(b, x, off + n, sp, keep, w, Got(b, x, off, got, n))
<1>1. /\ off \in Nat /\ IsElements(off) /\ Len(b) \in Nat
      /\ x \in Nat /\ x # Len(b) /\ IsBlocks(b) /\ w \in Nat
  BY BlocksAreRecords DEF Consistent, Positioned, Aligned, Kept
<1>2. Positioned(b, x, off + n)
  BY <1>1 DEF Positioned
<1>3. Aligned(b, off + n)
  BY <1>1, ElementsAdd DEF Consistent, Aligned
<1>4. Placed(b, x, off + n, w, Got(b, x, off, got, n))
  <2>1. PICK start \in [1 .. Len(b) + 1 -> 0 .. w] :
            Laid(b, w, start) /\ got = FirstBytes(start[x + 1] + off)
    BY DEF Consistent, Placed
  <2>2. Got(b, x, off, got, n) = FirstBytes(start[x + 1] + off + n)
    <3>1. x + 1 \in 1 .. Len(b) /\ b[x + 1].capa # 0
      BY <1>1 DEF Consistent, Kept
    <3>2. Len(b[x + 1].data) \in Nat
      BY <3>1, BlocksAreRecords DEF Consistent
    <3>3. off + n <= Len(b[x + 1].data)
      BY <1>1, <3>2
    <3> QED BY <1>1, <2>1, <3>1, <3>3, BytesGot
  <2>3. start[x + 1] + off + n = start[x + 1] + (off + n)
    <3>1. x + 1 \in 1 .. Len(b) + 1
      BY <1>1 DEF Consistent, Kept
    <3> QED BY <1>1, <3>1 DEF Consistent
  <2> QED BY <2>1, <2>2, <2>3 DEF Placed
<1> QED BY <1>2, <1>3, <1>4 DEF Consistent
\* A read of the rest of a block that stays.
LEMMA WholeRead ==
    ASSUME NEW b, NEW x, NEW off, NEW w, NEW got,
           Consistent(b, x, off, NoSpan, TRUE, w, got), x < Len(b),
           NEW n \in Nat, off + n = Len(b[x + 1].data)
    PROVE  Consistent(b, x + 1, 0, NoSpan, TRUE, w, Got(b, x, off, got, n))
<1>1. /\ off \in Nat /\ Len(b) \in Nat /\ x \in Nat
      /\ IsBlocks(b) /\ w \in Nat /\ x + 1 \in 1 .. Len(b) /\ b[x + 1].capa # 0
      /\ Len(b[x + 1].data) \in Nat
  <2>1. /\ off \in Nat /\ Len(b) \in Nat /\ x \in Nat
        /\ IsBlocks(b) /\ w \in Nat
    BY BlocksAreRecords DEF Consistent, Positioned, Kept
  <2>2. x + 1 \in 1 .. Len(b)
    BY <2>1
  <2>3. b[x + 1].capa # 0
    BY <2>1, <2>2 DEF Consistent, Kept
  <2> QED BY <2>1, <2>2, <2>3, BlocksAreRecords DEF Consistent
<1>2. Kept(b, x + 1, TRUE)
  BY <1>1 DEF Consistent, Kept
<1>3. Spanned(b, x + 1, NoSpan, TRUE)
  BY DEF Consistent, Spanned
<1>4. Positioned(b, x + 1, 0)
  <2>1. CASE x + 1 = Len(b)
    BY <1>1, <2>1 DEF Positioned
  <2>2. CASE x + 1 # Len(b)
    <3>1. (x + 1) + 1 \in 1 .. Len(b)
      BY <1>1, <2>2
    <3>2. Len(b[(x + 1) + 1].data) \in Nat
      BY <3>1, BlocksAreRecords DEF Consistent
    <3> QED BY <1>1, <2>2, <3>2 DEF Positioned
  <2> QED BY <2>1, <2>2
<1>5. Aligned(b, 0)
  <2>1. IsElements(0)
    BY BufferAssumption DEF IsElements
  <2> QED BY <2>1 DEF Consistent, Aligned
<1>6. Placed(b, x + 1, 0, w, Got(b, x, off, got, n))
  <2>1. PICK start \in [1 .. Len(b) + 1 -> 0 .. w] :
            Laid(b, w, start) /\ got = FirstBytes(start[x + 1] + off)
    BY DEF Consistent, Placed
  <2>2. Got(b, x, off, got, n) = FirstBytes(start[x + 1] + off + n)
    <3>1. off + n <= Len(b[x + 1].data)
      BY <1>1
    <3>2. Laid(b, w, start) /\ got = FirstBytes(start[x + 1] + off)
      BY <2>1
    <3> QED BY <1>1, <3>1, <3>2, BytesGot
  <2>3. start[(x + 1) + 1] = start[x + 1] + Len(b[x + 1].data)
    BY <1>1, <2>1 DEF Laid
  <2>4. start[x + 1] + off + n = start[(x + 1) + 1] + 0
    <3>1. start[x + 1] \in Nat
      BY <1>1 DEF Consistent
    <3> QED BY <1>1, <2>3, <3>1
  <2> QED BY <2>1, <2>2, <2>4 DEF Placed
<1> QED BY <1>2, <1>3, <1>4, <1>5, <1>6 DEF Consistent

\* c is b without its block i.
Without(b, c, i) ==
    /\ c \in Seq(Block) /\ Len(c) = Len(b)
    /\ c[i] = Released /\ c[i].capa = 0 /\ Len(c[i].data) = 0
    /\ \A j \in 1 .. Len(b) : j # i => c[j] = b[j]

LEMMA Removes ==
    ASSUME NEW b \in Seq(Block), NEW i \in 1 .. Len(b)
    PROVE  Without(b, [b EXCEPT ![i] = Released], i)
<1>1. Released \in Block /\ Released.capa = 0 /\ Len(Released.data) = 0
  BY EmptySeq DEF Released, Block
<1>2. i \in Nat /\ Len(b) \in Nat
  BY LenProperties
<1> HIDE DEF Released
<1> DEFINE c == [b EXCEPT ![i] = Released]
<1>3. /\ c \in Seq(Block) /\ Len(c) = Len(b)
      /\ \A j \in 1 .. Len(b) : c[j] = IF j = i THEN Released ELSE b[j]
  BY <1>1, ExceptSeq
<1> HIDE DEF c
<1>4. Without(b, c, i)
  BY <1>1, <1>3 DEF Without
<1> QED BY <1>4 DEF c

\* A read of the rest of a block that goes.
LEMMA WholeRemoved ==
    ASSUME NEW b, NEW x, NEW off, NEW sp, NEW keep, NEW w, NEW got,
           Consistent(b, x, off, sp, keep, w, got), x < Len(b),
           NEW n \in Nat, off + n = Len(b[x + 1].data),
           NEW c, Without(b, c, x + 1)
    PROVE  Consistent(c, x + 1, 0, sp, keep, w, Got(b, x, off, got, n))
<1>1. /\ off \in Nat /\ Len(b) \in Nat /\ x \in Nat
      /\ IsBlocks(b) /\ w \in Nat /\ x + 1 \in 1 .. Len(b) /\ b[x + 1].capa # 0
      /\ Len(b[x + 1].data) \in Nat
  <2>1. /\ off \in Nat /\ Len(b) \in Nat /\ x \in Nat
        /\ IsBlocks(b) /\ w \in Nat
    BY BlocksAreRecords DEF Consistent, Positioned, Kept
  <2>2. x + 1 \in 1 .. Len(b)
    BY <2>1
  <2>3. b[x + 1].capa # 0
    BY <2>1, <2>2 DEF Consistent, Kept
  <2> QED BY <2>1, <2>2, <2>3, BlocksAreRecords DEF Consistent
<1>2. /\ c \in Seq(Block) /\ Len(c) = Len(b)
      /\ c[x + 1] = Released /\ c[x + 1].capa = 0 /\ Len(c[x + 1].data) = 0
      /\ \A j \in 1 .. Len(b) : j # x + 1 => c[j] = b[j]
  BY DEF Without
<1>3. IsBlocks(c)
  BY <1>1, <1>2 DEF Consistent, IsBlocks
<1>4. Kept(c, x + 1, keep)
  <2>1. ASSUME NEW i \in 1 .. Len(b)
        PROVE  /\ i > x + 1 => c[i].capa # 0
               /\ keep \/ (i <= x + 1 => c[i].capa = 0)
    BY <1>1, <1>2, <2>1 DEF Consistent, Kept
  <2> QED BY <1>1, <1>2, <2>1 DEF Kept
<1>5. Spanned(c, x + 1, sp, keep)
  <2>1. CASE x + 1 = Len(b)
    <3>1. LastGone(c, x + 1)
      BY <1>1, <1>2, <2>1 DEF LastGone
    <3>2. /\ sp \in Nat \cup {NoSpan}
          /\ sp # NoSpan => ~keep
          /\ \A i \in 1 .. Len(b) :
                 b[i].capa # 0 /\ Len(b[i].data) = 0 => i = x + 1
      BY <2>1 DEF Consistent, Spanned
    <3>3. ASSUME NEW i \in 1 .. Len(c), c[i].capa # 0, Len(c[i].data) = 0
          PROVE  FALSE
      <4>1. i # x + 1 /\ i \in 1 .. Len(b)
        BY <1>2, <3>3
      <4>2. c[i] = b[i]
        BY <1>2, <4>1
      <4> QED BY <3>2, <3>3, <4>1, <4>2
    <3> QED BY <3>1, <3>2, <3>3 DEF Spanned
  <2>2. CASE x + 1 # Len(b)
    <3>1. x + 1 < Len(b) /\ c[Len(b)] = b[Len(b)] /\ ~LastGone(b, x)
      BY <1>1, <1>2, <2>2 DEF LastGone
    <3> QED BY <1>1, <1>2, <3>1 DEF Consistent, Spanned
  <2> QED BY <2>1, <2>2
<1>6. Positioned(c, x + 1, 0)
  <2>1. CASE x + 1 = Len(b)
    BY <1>1, <1>2, <2>1 DEF Positioned
  <2>2. CASE x + 1 # Len(b)
    <3>1. (x + 1) + 1 \in 1 .. Len(b)
      BY <1>1, <2>2
    <3>2. Len(c[(x + 1) + 1].data) \in Nat
      BY <1>2, <1>3, <3>1, BlocksAreRecords
    <3> QED BY <1>1, <1>2, <2>2, <3>2 DEF Positioned
  <2> QED BY <2>1, <2>2
<1>7. Aligned(c, 0)
  <2>1. IsElements(0)
    BY BufferAssumption DEF IsElements
  <2> QED BY <1>1, <1>2, <2>1 DEF Consistent, Aligned
<1>8. Placed(c, x + 1, 0, w, Got(b, x, off, got, n))
  <2>1. PICK start \in [1 .. Len(b) + 1 -> 0 .. w] :
            Laid(b, w, start) /\ got = FirstBytes(start[x + 1] + off)
    BY DEF Consistent, Placed
  <2>2. Got(b, x, off, got, n) = FirstBytes(start[x + 1] + off + n)
    <3>1. off + n <= Len(b[x + 1].data)
      BY <1>1
    <3>2. Laid(b, w, start) /\ got = FirstBytes(start[x + 1] + off)
      BY <2>1
    <3> QED BY <1>1, <3>1, <3>2, BytesGot
  <2>3. start[(x + 1) + 1] = start[x + 1] + Len(b[x + 1].data)
    BY <1>1, <2>1 DEF Laid
  <2>4. start[x + 1] + off + n = start[(x + 1) + 1] + 0
    <3>1. start[x + 1] \in Nat
      BY <1>1 DEF Consistent
    <3> QED BY <1>1, <2>3, <3>1
  <2>5. Laid(c, w, start)
    <3>1. ASSUME NEW i \in 1 .. Len(b), c[i].capa # 0
          PROVE  c[i] = b[i]
      BY <1>2, <3>1
    <3> QED BY <1>2, <2>1, <3>1 DEF Laid
  <2> QED BY <1>2, <2>1, <2>2, <2>4, <2>5 DEF Placed
<1> QED BY <1>3, <1>4, <1>5, <1>6, <1>7, <1>8 DEF Consistent

\* The buffer as it is made.
LEMMA FreshConsistent == Consistent(<<>>, 0, 0, NoSpan, FALSE, 0, <<>>)
<1> DEFINE b == <<>>
<1>1. b \in Seq(Block) /\ Len(b) = 0
  BY EmptySeq
<1> HIDE DEF b
<1>2. IsBlocks(b) /\ Kept(b, 0, FALSE) /\ Spanned(b, 0, NoSpan, FALSE)
      /\ Positioned(b, 0, 0)
  BY <1>1 DEF IsBlocks, Kept, Spanned, Positioned
<1>3. Aligned(b, 0)
  BY <1>1, BufferAssumption DEF Aligned, IsElements
<1>4. Placed(b, 0, 0, 0, FirstBytes(0))
  <2> DEFINE start == [i \in 1 .. 1 |-> 0]
  <2>1. start \in [1 .. Len(b) + 1 -> 0 .. 0] /\ start[1] = 0
    BY <1>1
  <2> HIDE DEF start
  <2>2. Laid(b, 0, start)
    BY <1>1, <2>1 DEF Laid
  <2>3. start[0 + 1] + 0 = 0
    BY <2>1
  <2> QED BY <2>1, <2>2, <2>3 DEF Placed
<1>5. FirstBytes(0) = <<>>
  <2>1. FirstBytes(0) \in Seq(Int) /\ Len(FirstBytes(0)) = 0
    BY FirstBytesLen
  <2> QED BY <2>1, EmptySeq
<1>6. Consistent(b, 0, 0, NoSpan, FALSE, 0, <<>>)
  <2>1. Placed(b, 0, 0, 0, <<>>)
    BY <1>4, <1>5
  <2>2. 0 \in 0 .. MaxBytes
    BY BufferAssumption
  <2> QED BY <1>2, <1>3, <2>1, <2>2 DEF Consistent
<1> QED BY <1>6 DEF b

\* Reading starts anew when nothing was removed.
LEMMA Rewound ==
    ASSUME NEW b, NEW x, NEW off, NEW sp, NEW keep, NEW w, NEW got,
           Consistent(b, x, off, sp, keep, w, got),
           \A i \in 1 .. Len(b) : b[i].capa # 0
    PROVE  Consistent(b, 0, 0, sp, FALSE, w, FirstBytes(0))
<1>1. IsBlocks(b) /\ Len(b) \in Nat
  BY BlocksAreRecords DEF Consistent
<1>2. Kept(b, 0, FALSE)
  BY <1>1 DEF Kept
<1>3. Spanned(b, 0, sp, FALSE)
  <2>1. ~LastGone(b, x)
    BY <1>1 DEF LastGone, Released
  <2> QED BY <1>1, <2>1 DEF Consistent, Spanned, Kept
<1>4. Positioned(b, 0, 0)
  <2>1. 0 < Len(b) => Len(b[0 + 1].data) \in Nat
    BY <1>1, BlocksAreRecords
  <2> QED BY <1>1, <2>1 DEF Positioned
<1>5. Aligned(b, 0)
  <2>1. IsElements(0)
    BY BufferAssumption DEF IsElements
  <2> QED BY <2>1 DEF Consistent, Aligned
<1>6. Placed(b, 0, 0, w, FirstBytes(0))
  <2>1. PICK start \in [1 .. Len(b) + 1 -> 0 .. w] : Laid(b, w, start)
    BY DEF Consistent, Placed
  <2>2. start[0 + 1] + 0 = 0
    BY <2>1 DEF Laid
  <2> QED BY <2>1, <2>2 DEF Placed
<1> QED BY <1>2, <1>3, <1>4, <1>5, <1>6 DEF Consistent
-----------------------------------------------------------------------------
(* The operations.                                                          *)

x == m_current_reading_block_idx
off == m_current_block_readed_nbytes

\* A buffer that offers n bytes in its last block.
Offers(buf, n) ==
    /\ buf = Buf(buf.blocks, m_newblock_capa, Len(buf.blocks))
    /\ CurrentLeft(buf) \in Nat /\ n <= CurrentLeft(buf)
    /\ Consistent(buf.blocks, x, off, CurrentLeft(buf), FALSE, written, received)

LEMMA SpanGiven ==
    ASSUME IInv, NEW n \in Sizes, ~keeping, span = NoSpan
    PROVE  Offers(WithSpan(this, n), n)
<1>1. /\ Len(m_blocks) \in Nat /\ IsBlocks(m_blocks) /\ n \in Nat
      /\ m_current_block = Len(m_blocks)
      /\ m_newblock_capa \in Nat \ {0}
      /\ Consistent(m_blocks, x, off, NoSpan, FALSE, written, received)
  <2>1. keeping = FALSE
    BY DEF IInv, Consistent
  <2> QED BY <2>1, BlocksAreRecords, BufferAssumption, SizesAreElements
          DEF IInv, Consistent, x, off
<1>2. /\ this.blocks = m_blocks /\ this.current = Len(m_blocks)
      /\ this.capa = m_newblock_capa
      /\ this = Buf(m_blocks, m_newblock_capa, Len(m_blocks))
  BY <1>1 DEF this, Buf
<1>3. CASE TakesNew(this, n)
  <2> DEFINE capa == IF n < m_newblock_capa THEN m_newblock_capa ELSE n
             b == Append(m_blocks, NewBlock(capa))
  <2>1. capa \in Nat \ {0} /\ capa >= n
    BY <1>1
  <2>2. WithSpan(this, n) = Buf(b, m_newblock_capa, Len(m_blocks) + 1)
    BY <1>2, <1>3 DEF WithSpan
  <2> HIDE DEF capa
  <2>3. Consistent(b, x, off, RoundedUp(capa), FALSE, written, received)
    BY <1>1, <2>1, BlockTaken
  <2>4. NewBlock(capa) \in Block /\ Left(NewBlock(capa)) = RoundedUp(capa)
    BY <2>1, RoundsUp DEF NewBlock, Block, Left
  <2>5. Len(b) = Len(m_blocks) + 1 /\ b[Len(m_blocks) + 1] = NewBlock(capa)
    BY <1>1, <2>4, AppendProperties DEF IsBlocks
  <2> HIDE DEF b
  <2>6. CurrentLeft(Buf(b, m_newblock_capa, Len(b))) = RoundedUp(capa)
    BY <1>1, <2>4, <2>5 DEF CurrentLeft, Current, Buf
  <2>7. RoundedUp(capa) \in Nat /\ n <= RoundedUp(capa)
    BY <1>1, <2>1, RoundsUp
  <2>8. Buf(b, m_newblock_capa, Len(b)).blocks = b
    BY DEF Buf
  <2> QED BY <2>2, <2>3, <2>5, <2>6, <2>7, <2>8 DEF Offers
<1>4. CASE ~TakesNew(this, n)
  <2>1. WithSpan(this, n) = this
    BY <1>4 DEF WithSpan
  <2>2. /\ Len(m_blocks) # 0
        /\ CurrentLeft(this) = Left(m_blocks[Len(m_blocks)])
        /\ CurrentLeft(this) # 0
    BY <1>2, <1>4 DEF TakesNew, CurrentLeft, Current
  <2>3. Consistent(m_blocks, x, off, CurrentLeft(this), FALSE, written, received)
    BY <1>1, <2>2, RoomTaken
  <2>4. CurrentLeft(this) \in Nat
    <3>1. Len(m_blocks) \in 1 .. Len(m_blocks)
      BY <1>1, <2>2
    <3>2. /\ m_blocks[Len(m_blocks)].capa \in Nat
          /\ Len(m_blocks[Len(m_blocks)].data) \in Nat
          /\ Len(m_blocks[Len(m_blocks)].data) <= m_blocks[Len(m_blocks)].capa
      BY <1>1, <3>1, BlocksAreRecords
    <3> QED BY <2>2, <3>2 DEF Left
  <2>5. n <= CurrentLeft(this)
    BY <1>1, <1>4, <2>4 DEF TakesNew
  <2> QED BY <1>2, <2>1, <2>3, <2>4, <2>5 DEF Offers
<1> QED BY <1>3, <1>4

\* A span into a block that is gone is given up.
LEMMA StaleGivenUp ==
    ASSUME NEW b, NEW i, NEW j, NEW sp, NEW w, NEW got,
           Consistent(b, i, j, sp, FALSE, w, got), LastGone(b, i)
    PROVE  Consistent(b, i, j, NoSpan, FALSE, w, got)
<1>1. Released.capa = 0
  BY DEF Released
<1>2. Spanned(b, i, NoSpan, FALSE)
  BY <1>1 DEF Consistent, Spanned, LastGone
<1> QED BY <1>2 DEF Consistent

\* The buffer after n bytes were committed to the span.
Full(buf, n) ==
    /\ buf = Buf(buf.blocks, m_newblock_capa, Len(buf.blocks))
    /\ Consistent(buf.blocks, x, off, NoSpan, FALSE, written + n, received)

LEMMA SpanFilled ==
    ASSUME NEW buf, NEW sp, sp # NoSpan, sp = CurrentLeft(buf),
           buf = Buf(buf.blocks, m_newblock_capa, Len(buf.blocks)),
           Consistent(buf.blocks, x, off, sp, FALSE, written, received),
           NEW n \in Sizes, n > 0, n <= sp, written + n <= MaxBytes
    PROVE  Full(Filled(buf, NextBytes(n)), n)
<1> DEFINE b == buf.blocks
           e == Len(b)
           c == [b EXCEPT ![e].data = @ \o [i \in 1 .. n |-> written + i]]
<1>1. /\ n \in Nat \ {0} /\ IsElements(n) /\ written \in Nat
      /\ IsBlocks(b) /\ e \in Nat /\ e # 0
  <2>1. n \in Nat \ {0} /\ IsElements(n)
    BY SizesAreElements
  <2>2. IsBlocks(b) /\ e \in Nat /\ written \in Nat
    BY BlocksAreRecords, BufferAssumption DEF Consistent
  <2> QED BY <2>1, <2>2 DEF Consistent, Spanned, Kept, LastGone
<1>2. Extended(b, c, written, n) /\ n <= Left(b[Len(b)])
  <2>1. sp = Left(b[e])
    BY <1>1 DEF CurrentLeft, Current, Buf
  <2> QED BY <1>1, <2>1, Extends
<1> HIDE DEF c
<1>3. Consistent(c, x, off, NoSpan, FALSE, written + n, received)
  BY <1>1, <1>2, BytesWritten
<1>4. Len(NextBytes(n)) = n
  BY <1>1, ByteNumbers DEF NextBytes
<1>5. Filled(buf, NextBytes(n)) = Buf(c, m_newblock_capa, e)
  <2>1. ~(Len(NextBytes(n)) > CurrentLeft(buf))
    BY <1>1, <1>4 DEF Consistent, Spanned
  <2>2. Filled(buf, NextBytes(n))
           = [buf EXCEPT !.blocks[buf.current].data = @ \o NextBytes(n)]
    BY <2>1 DEF Filled
  <2>3. buf = [blocks |-> b, capa |-> m_newblock_capa, current |-> e]
    BY DEF Buf
  <2>4. buf.current = e
    BY <2>3
  <2>5. Filled(buf, NextBytes(n)) = [buf EXCEPT !.blocks = c]
    BY <2>2, <2>4 DEF NextBytes, c
  <2> HIDE DEF b, e
  <2> QED BY <2>3, <2>5 DEF Buf
<1>6. Len(c) = e
  BY <1>2 DEF Extended
<1>7. /\ Buf(c, m_newblock_capa, e).blocks = c
      /\ Buf(c, m_newblock_capa, e).capa = m_newblock_capa
      /\ Buf(c, m_newblock_capa, e).current = e
  BY DEF Buf
<1> QED BY <1>3, <1>5, <1>6, <1>7 DEF Full
\* An action that puts buf in the place of the buffer.
LEMMA BecomesFull ==
    ASSUME NEW buf, NEW n, Full(buf, n), Becomes(buf), m_newblock_capa \in Capas,
           written' = written + n, span' = NoSpan, ~keeping, keeping \in BOOLEAN,
           UNCHANGED <<reading, keeping, received>>
    PROVE  IInv'
<1>1. buf.capa = m_newblock_capa /\ buf.current = Len(buf.blocks)
  BY DEF Full, Buf
<1>2. /\ m_blocks' = buf.blocks /\ m_current_block' = Len(m_blocks')
      /\ m_newblock_capa' = m_newblock_capa
  BY <1>1 DEF Becomes
<1>3. Consistent(m_blocks', x, off, NoSpan, FALSE, written', received)
  BY <1>2 DEF Full
<1>4. keeping' = FALSE /\ span' = NoSpan /\ x' = x /\ off' = off
  BY DEF reading, x, off
<1>5. Consistent(m_blocks', x', off', span', keeping', written', received')
  BY <1>3, <1>4
<1> QED BY <1>2, <1>5 DEF IInv, x, off

LEMMA WritableSpanStep ==
    ASSUME IInv, Disciplined, NEW n \in Sizes, WritableSpan(n)
    PROVE  IInv'
<1> DEFINE buf == WithSpan(this, n)
<1>1. /\ ~keeping /\ span = NoSpan /\ Becomes(buf) /\ span' = CurrentLeft(buf)
      /\ UNCHANGED <<reading, keeping, written, received>>
  BY DEF WritableSpan, Disciplined, MayWrite
<1>2. Offers(buf, n)
  BY <1>1, SpanGiven
<1> HIDE DEF buf
<1>3. buf.capa = m_newblock_capa /\ buf.current = Len(buf.blocks)
  BY <1>2 DEF Offers, Buf
<1>4. /\ m_blocks' = buf.blocks /\ m_current_block' = Len(m_blocks')
      /\ m_newblock_capa' = m_newblock_capa /\ keeping' = FALSE
      /\ x' = x /\ off' = off /\ written' = written /\ received' = received
  BY <1>1, <1>3 DEF Becomes, reading, x, off, IInv, Consistent
<1>5. Consistent(m_blocks', x', off', span', keeping', written', received')
  BY <1>1, <1>2, <1>4 DEF Offers
<1> QED BY <1>4, <1>5 DEF IInv, x, off

LEMMA CommitWriteStep ==
    ASSUME IInv, Disciplined, NEW n \in Sizes, CommitWrite(n)
    PROVE  IInv'
<1>1. /\ span # NoSpan /\ n <= span /\ written + n <= MaxBytes
      /\ Becomes(Filled(this, NextBytes(n))) /\ span' = NoSpan
      /\ written' = IF Accepts(n) THEN written + n ELSE written
      /\ UNCHANGED <<reading, keeping, received>>
  BY DEF CommitWrite
<1>2. n \in Nat /\ n > 0
  BY SizesAreElements DEF CommitWrite, Disciplined
<1>3. /\ this.blocks = m_blocks /\ this.current = Len(m_blocks)
      /\ this = Buf(this.blocks, m_newblock_capa, Len(this.blocks))
  BY DEF this, Buf, IInv
<1>4. /\ keeping = FALSE /\ m_newblock_capa \in Capas
      /\ Consistent(m_blocks, x, off, span, FALSE, written, received)
  BY <1>1 DEF IInv, Consistent, Spanned, x, off
<1>5. CASE x < Len(m_blocks) /\ span = Left(m_blocks[Len(m_blocks)])
  <2>1. x \in Nat /\ Len(m_blocks) \in Nat
    BY <1>4, BlocksAreRecords DEF Consistent, Kept
  <2>2. span = CurrentLeft(this) /\ Accepts(n)
    BY <1>1, <1>3, <1>5, <2>1 DEF CurrentLeft, Current, Accepts
  <2>3. Full(Filled(this, NextBytes(n)), n)
    <3>1. Consistent(this.blocks, x, off, span, FALSE, written, received)
      BY <1>3, <1>4
    <3> HIDE DEF this
    <3> QED BY <1>1, <1>2, <1>3, <2>2, <3>1, SpanFilled
  <2> QED BY <1>1, <1>4, <2>2, <2>3, BecomesFull
<1>6. CASE LastGone(m_blocks, x)
  <2>1. CurrentLeft(this) = 0
    BY <1>3, <1>6, EmptySeq DEF LastGone, CurrentLeft, Current, Left, Released
  <2>2. ~Accepts(n)
    BY <1>2, <2>1 DEF Accepts
  <2>3. Len(NextBytes(n)) = n
    BY <1>1, <1>2, <1>4, ByteNumbers, BufferAssumption DEF NextBytes, Consistent
  <2>4. Filled(this, NextBytes(n)) = this
    BY <2>2, <2>3, <1>2, <2>1 DEF Filled, Accepts
  <2>5. /\ m_blocks' = m_blocks /\ m_newblock_capa' = m_newblock_capa
        /\ m_current_block' = m_current_block /\ written' = written
        /\ x' = x /\ off' = off
    BY <1>1, <2>2, <2>4 DEF Becomes, this, Buf, reading, x, off
  <2>6. Consistent(m_blocks, x, off, NoSpan, FALSE, written, received)
    BY <1>4, <1>6, StaleGivenUp
  <2>7. Consistent(m_blocks', x', off', span', keeping', written', received')
    BY <1>1, <1>4, <2>5, <2>6
  <2> QED BY <2>5, <2>7 DEF IInv, x, off
<1> QED BY <1>1, <1>4, <1>5, <1>6 DEF Consistent, Spanned

LEMMA AppendBytesStep ==
    ASSUME IInv, Disciplined, NEW n \in Sizes, AppendBytes(n)
    PROVE  IInv'
<1> DEFINE buf == WithSpan(this, n)
<1>1. /\ ~keeping /\ keeping \in BOOLEAN /\ m_newblock_capa \in Capas
      /\ span = NoSpan /\ written + n <= MaxBytes
      /\ Becomes(Appended(this, NextBytes(n))) /\ span' = NoSpan
      /\ written' = written + n /\ UNCHANGED <<reading, keeping, received>>
  BY DEF AppendBytes, Disciplined, MayWrite, IInv, Consistent
<1>2. n \in Nat /\ n > 0
  BY SizesAreElements DEF AppendBytes, Disciplined
<1>3. Offers(buf, n)
  BY <1>1, SpanGiven
<1>4. Len(NextBytes(n)) = n
  BY <1>1, <1>2, ByteNumbers, BufferAssumption DEF NextBytes, IInv, Consistent
<1>5. Appended(this, NextBytes(n)) = Filled(buf, NextBytes(n))
  BY <1>4 DEF Appended
<1> HIDE DEF buf
<1>6. Full(Filled(buf, NextBytes(n)), n)
  <2>1. PICK sp : sp = CurrentLeft(buf)
    OBVIOUS
  <2>2. sp # NoSpan /\ n <= sp
    BY <1>3, <2>1 DEF Offers, NoSpan
  <2> QED BY <1>1, <1>2, <1>3, <2>1, <2>2, SpanFilled DEF Offers
<1> QED BY <1>1, <1>5, <1>6, BecomesFull
LEMMA SetNewBlockCapacityStep ==
    ASSUME IInv, NEW capa \in Capas, SetNewBlockCapacity(capa)
    PROVE  IInv'
BY DEF IInv, SetNewBlockCapacity, reading

LEMMA NextSpanLen ==
    ASSUME IInv
    PROVE  /\ Len(m_blocks) \in Nat /\ x \in 0 .. Len(m_blocks) /\ off \in Nat
           /\ x >= Len(m_blocks) => Len(next_readable_span) = 0
           /\ x < Len(m_blocks) =>
                /\ x + 1 \in 1 .. Len(m_blocks)
                /\ ReadingBlock = m_blocks[x + 1]
                /\ next_readable_span = SubSeq(m_blocks[x + 1].data, off + 1,
                                               Len(m_blocks[x + 1].data))
                /\ Len(m_blocks[x + 1].data) \in Nat
                /\ off <= Len(m_blocks[x + 1].data)
                /\ Len(next_readable_span) = Len(m_blocks[x + 1].data) - off
<1>1. /\ Len(m_blocks) \in Nat /\ x \in 0 .. Len(m_blocks) /\ off \in Nat
      /\ IsBlocks(m_blocks)
  BY BlocksAreRecords DEF IInv, Consistent, Kept, Positioned, x, off
<1>2. x >= Len(m_blocks) => Len(next_readable_span) = 0
  BY EmptySeq DEF next_readable_span, x
<1>3. ASSUME x < Len(m_blocks)
      PROVE  /\ x + 1 \in 1 .. Len(m_blocks)
             /\ ReadingBlock = m_blocks[x + 1]
             /\ next_readable_span = SubSeq(m_blocks[x + 1].data, off + 1,
                                            Len(m_blocks[x + 1].data))
             /\ Len(m_blocks[x + 1].data) \in Nat
             /\ off <= Len(m_blocks[x + 1].data)
             /\ Len(next_readable_span) = Len(m_blocks[x + 1].data) - off
  <2> DEFINE d == m_blocks[x + 1].data
  <2>1. x + 1 \in 1 .. Len(m_blocks) /\ ReadingBlock = m_blocks[x + 1]
    BY <1>1, <1>3 DEF ReadingBlock, x
  <2>2. ~(x >= Len(m_blocks))
    BY <1>1, <1>3
  <2>3. next_readable_span = SubSeq(d, off + 1, Len(d))
    BY <2>1, <2>2 DEF next_readable_span, x, off
  <2>4. d \in Seq(1 .. MaxBytes) /\ Len(d) \in Nat
    BY <1>1, <2>1, BlocksAreRecords
  <2>5. off <= Len(d)
    BY <1>1, <1>3, <2>4 DEF IInv, Consistent, Positioned, x, off
  <2> HIDE DEF d
  <2>6. Len(SubSeq(d, off + 1, Len(d))) = IF off + 1 <= Len(d)
                                          THEN Len(d) - (off + 1) + 1 ELSE 0
    <3>1. \A i \in off + 1 .. Len(d) : i \in 1 .. Len(d)
      BY <1>1, <2>4
    <3>2. \A i \in off + 1 .. Len(d) : d[i] \in 1 .. MaxBytes
      BY <2>4, <3>1, ElementOfSeq
    <3> QED BY <1>1, <2>4, <3>2, SubSeqProperties
  <2> QED BY <1>1, <2>1, <2>3, <2>4, <2>5, <2>6 DEF d
<1> QED BY <1>1, <1>2, <1>3

\* A read of n bytes, some and no more than the readable span has.
Reads(n) ==
    /\ n \in Nat \ {0} /\ IsElements(n)
    /\ x < Len(m_blocks) /\ off + n <= Len(m_blocks[x + 1].data)
    /\ received \o SubSeq(next_readable_span, 1, n)
          = Got(m_blocks, x, off, received, n)
    /\ ReadsWhole(n) <=> off + n = Len(m_blocks[x + 1].data)

LEMMA ElementsRead ==
    ASSUME IInv, NEW nele \in 1 .. NextElements
    PROVE  Reads(nele * EleSize)
<1> DEFINE n == nele * EleSize
           left == Len(next_readable_span)
<1>1. left \in Nat /\ EleSize \in Nat \ {0} /\ left \div EleSize \in Nat
  <2>1. left \in Nat
    BY NextSpanLen
  <2>2. EleSize \in Nat \ {0}
    BY BufferAssumption
  <2> HIDE DEF left
  <2> QED BY <2>1, <2>2
<1>2. nele \in Nat \ {0} /\ nele <= left \div EleSize
  BY <1>1 DEF NextElements
<1> HIDE DEF left
<1>3. left = EleSize * (left \div EleSize) + (left % EleSize)
      /\ left % EleSize \in 0 .. EleSize - 1
  BY <1>1
<1>4. n \in Nat \ {0} /\ n <= left /\ n = EleSize * nele
  <2>1. PICK q \in Nat : q = left \div EleSize
    BY <1>1
  <2>2. EleSize * nele <= EleSize * q
    BY <1>1, <1>2, <2>1
  <2> QED BY <1>1, <1>2, <1>3, <2>1, <2>2
<1>5. IsElements(n)
  BY <1>2, <1>4 DEF IsElements
<1> HIDE DEF n
<1>6. x < Len(m_blocks) /\ left = Len(m_blocks[x + 1].data) - off
  BY <1>4, NextSpanLen DEF left
<1>7. off + n <= Len(m_blocks[x + 1].data)
  BY <1>4, <1>6, NextSpanLen
<1>8. /\ ReadingBlock = m_blocks[x + 1]
      /\ next_readable_span = SubSeq(m_blocks[x + 1].data, off + 1,
                                     Len(m_blocks[x + 1].data))
  BY <1>6, NextSpanLen
<1>9. Reads(n)
  BY <1>4, <1>5, <1>6, <1>7, <1>8 DEF Reads, Got, ReadsWhole, off
<1> QED BY <1>9 DEF n

LEMMA CommitReadStep ==
    ASSUME IInv, Disciplined, NEW nele \in 1 .. NextElements, CommitRead(nele)
    PROVE  IInv'
<1> DEFINE n == nele * EleSize
<1>1. Reads(n)
  BY ElementsRead
<1>2. /\ span = NoSpan /\ AdvanceReading(n) /\ Receive(n) /\ keeping' = TRUE
      /\ UNCHANGED <<m_blocks, m_newblock_capa, m_current_block, span, written>>
  BY DEF CommitRead, Disciplined
<1> HIDE DEF n
<1>3. received' = Got(m_blocks, x, off, received, n)
  BY <1>1, <1>2 DEF Receive, Reads
<1>4. Consistent(m_blocks, x, off, NoSpan, TRUE, written, received)
  BY <1>2, KeepingAllowed DEF IInv, x, off
<1>5. n \in Nat /\ IsElements(n) /\ x < Len(m_blocks)
      /\ off \in Nat /\ Len(m_blocks[x + 1].data) \in Nat
      /\ off + n <= Len(m_blocks[x + 1].data)
  BY <1>1, NextSpanLen DEF Reads
<1>6. CASE ReadsWhole(n)
  <2>1. x' = x + 1 /\ off' = 0
    BY <1>2, <1>6 DEF AdvanceReading, x, off
  <2>2. off + n = Len(m_blocks[x + 1].data)
    BY <1>1, <1>6 DEF Reads
  <2>3. Consistent(m_blocks, x + 1, 0, NoSpan, TRUE, written,
                   Got(m_blocks, x, off, received, n))
    BY <1>4, <1>5, <2>2, WholeRead
  <2>4. Consistent(m_blocks', x', off', span', keeping', written', received')
    BY <1>2, <1>3, <2>1, <2>3
  <2> QED BY <1>2, <2>4 DEF IInv, x, off
<1>7. CASE ~ReadsWhole(n)
  <2>1. x' = x /\ off' = off + n
    BY <1>2, <1>7 DEF AdvanceReading, x, off
  <2>2. off + n < Len(m_blocks[x + 1].data)
    <3>1. off + n # Len(m_blocks[x + 1].data)
      BY <1>1, <1>7 DEF Reads
    <3> QED BY <1>5, <3>1
  <2>3. Consistent(m_blocks, x, off + n, NoSpan, TRUE, written,
                   Got(m_blocks, x, off, received, n))
    BY <1>4, <1>5, <2>2, PartRead
  <2>4. Consistent(m_blocks', x', off', span', keeping', written', received')
    BY <1>2, <1>3, <2>1, <2>3
  <2> QED BY <1>2, <2>4 DEF IInv, x, off
<1> QED BY <1>6, <1>7

LEMMA CommitRemoveStep ==
    ASSUME IInv, NEW nele \in 1 .. NextElements, CommitRemoveAfterRead(nele)
    PROVE  IInv'
<1> DEFINE n == nele * EleSize
<1>1. Reads(n)
  BY ElementsRead
<1>2. /\ m_blocks' = IF ReadsWhole(n) THEN BlocksRemoved ELSE m_blocks
      /\ AdvanceReading(n) /\ Receive(n)
      /\ UNCHANGED <<m_newblock_capa, m_current_block, span, keeping, written>>
  BY DEF CommitRemoveAfterRead
<1> HIDE DEF n
<1>3. received' = Got(m_blocks, x, off, received, n)
  BY <1>1, <1>2 DEF Receive, Reads
<1>4. Consistent(m_blocks, x, off, span, keeping, written, received)
  BY DEF IInv, x, off
<1>5. n \in Nat /\ IsElements(n) /\ x < Len(m_blocks)
      /\ off \in Nat /\ Len(m_blocks[x + 1].data) \in Nat
      /\ off + n <= Len(m_blocks[x + 1].data)
      /\ x + 1 \in 1 .. Len(m_blocks) /\ m_blocks \in Seq(Block)
      /\ m_current_block = Len(m_blocks)
  BY <1>1, NextSpanLen DEF Reads, IInv, Consistent, IsBlocks
<1>6. CASE ReadsWhole(n)
  <2>1. x' = x + 1 /\ off' = 0 /\ m_blocks' = BlocksRemoved
    BY <1>2, <1>6 DEF AdvanceReading, x, off
  <2>2. off + n = Len(m_blocks[x + 1].data)
    BY <1>1, <1>6 DEF Reads
  <2>3. Without(m_blocks, m_blocks', x + 1)
    BY <1>5, <2>1, Removes DEF BlocksRemoved, x
  <2>5. PICK c : c = m_blocks'
    OBVIOUS
  <2>6. Consistent(c, x + 1, 0, span, keeping, written,
                   Got(m_blocks, x, off, received, n))
    BY <1>4, <1>5, <2>2, <2>3, <2>5, WholeRemoved
  <2>7. Consistent(m_blocks', x', off', span', keeping', written', received')
    BY <1>2, <1>3, <2>1, <2>5, <2>6
  <2>8. Len(m_blocks') = Len(m_blocks)
    BY <2>3 DEF Without
  <2> QED BY <1>2, <1>5, <2>7, <2>8 DEF IInv, x, off
<1>7. CASE ~ReadsWhole(n)
  <2>1. x' = x /\ off' = off + n /\ m_blocks' = m_blocks
    BY <1>2, <1>7 DEF AdvanceReading, x, off
  <2>2. off + n < Len(m_blocks[x + 1].data)
    <3>1. off + n # Len(m_blocks[x + 1].data)
      BY <1>1, <1>7 DEF Reads
    <3> QED BY <1>5, <3>1
  <2>3. Consistent(m_blocks, x, off + n, span, keeping, written,
                   Got(m_blocks, x, off, received, n))
    BY <1>4, <1>5, <2>2, PartRead
  <2>4. Consistent(m_blocks', x', off', span', keeping', written', received')
    BY <1>2, <1>3, <2>1, <2>3
  <2> QED BY <1>2, <1>5, <2>1, <2>4 DEF IInv, x, off
<1> QED BY <1>6, <1>7
LEMMA StartStep ==
    ASSUME IInv, HasNoRemove, ReadFromStart,
           UNCHANGED <<m_blocks, m_newblock_capa, m_current_block, span, written>>
    PROVE  IInv' /\ received' = <<>>
<1>1. /\ Len(m_blocks) \in Nat /\ IsBlocks(m_blocks)
      /\ DOMAIN m_blocks = 1 .. Len(m_blocks) /\ written \in Nat
      /\ \A i \in 1 .. Len(m_blocks) : m_blocks[i].capa # 0
  BY LenProperties, BufferAssumption
  DEF IInv, Consistent, IsBlocks, HasNoRemove
<1>2. PICK start \in [1 .. Len(m_blocks) + 1 -> 0 .. written] :
          Laid(m_blocks, written, start)
  BY DEF IInv, Consistent, Placed
\* Every byte is in the last block that starts before it.
<1>3. ASSUME NEW byte \in 1 .. written
      PROVE  \E i \in DOMAIN m_blocks : byte \in ToSet(m_blocks[i].data)
  <2> DEFINE T == {i \in 1 .. Len(m_blocks) + 1 : start[i] < byte}
  <2>1. IsFiniteSet(T) /\ T \subseteq Int
    <3>1. IsFiniteSet(1 .. Len(m_blocks) + 1)
      BY <1>1, FS_Interval
    <3> QED BY <3>1, FS_Subset
  <2>2. 1 \in T
    BY <1>1, <1>2 DEF Laid
  <2>3. PICK i \in T : \A j \in T : j <= i
    <3> HIDE DEF T
    <3> QED BY <2>1, <2>2, HasGreatest
  <2>4. i \in 1 .. Len(m_blocks) /\ start[i] < byte
    BY <1>1, <1>2, <2>3 DEF Laid
  <2>5. i + 1 \in 1 .. Len(m_blocks) + 1 /\ i + 1 \notin T
    BY <1>1, <2>3, <2>4
  <2>6. byte <= start[i + 1]
    BY <1>1, <2>5
  <2> DEFINE d == m_blocks[i].data
             j == byte - start[i]
  <2>7. /\ start[i + 1] = start[i] + Len(d)
        /\ \A k \in 1 .. Len(d) : d[k] = start[i] + k
    BY <1>1, <1>2, <2>4 DEF Laid
  <2>8. d \in Seq(1 .. MaxBytes) /\ Len(d) \in Nat
    BY <1>1, <2>4, BlocksAreRecords
  <2>9. start[i] \in Nat
    BY <1>1, <2>4
  <2> HIDE DEF d
  <2>10. j \in 1 .. Len(d) /\ start[i] + j = byte
    BY <1>1, <2>4, <2>6, <2>7, <2>8, <2>9
  <2>11. d[j] = byte /\ j \in DOMAIN d
    BY <2>7, <2>8, <2>10, LenProperties
  <2>12. byte \in ToSet(d)
    BY <2>11 DEF ToSet
  <2> QED BY <1>1, <2>4, <2>12 DEF d
<1>4. Removed = {}
  BY <1>3 DEF Removed
<1>5. received' = FirstBytes(0)
  BY <1>4, FS_EmptySet DEF ReadFromStart, FirstBytes
<1>6. received' = <<>>
  <2>1. FirstBytes(0) \in Seq(Int) /\ Len(FirstBytes(0)) = 0
    BY FirstBytesLen
  <2> QED BY <1>5, <2>1, EmptySeq
<1>7. Consistent(m_blocks, 0, 0, span, FALSE, written, FirstBytes(0))
  BY <1>1, Rewound DEF IInv
<1>8. Consistent(m_blocks', x', off', span', keeping', written', received')
  BY <1>5, <1>7 DEF ReadFromStart, x, off
<1> QED BY <1>6, <1>8 DEF IInv, x, off

LEMMA MoveAssignStep ==
    ASSUME IInv, Disciplined, MoveAssignFresh
    PROVE  IInv'
<1>1. /\ x = 0 /\ off = 0 /\ span' = NoSpan
      /\ m_blocks' = <<>> /\ m_current_block' = 0
      /\ written' = 0 /\ received' = <<>> /\ keeping' = FALSE
      /\ UNCHANGED <<m_newblock_capa, x, off>>
  BY DEF MoveAssignFresh, Disciplined, reading, x, off
<1>2. Consistent(<<>>, 0, 0, NoSpan, FALSE, 0, <<>>)
  BY FreshConsistent
<1>3. Consistent(m_blocks', x', off', span', keeping', written', received')
  BY <1>1, <1>2
<1> QED BY <1>1, <1>3, EmptySeq DEF IInv, x, off
-----------------------------------------------------------------------------
(* The theorems.                                                            *)

LEMMA InitConsistent == ASSUME Init PROVE IInv
<1>1. /\ m_blocks = <<>> /\ m_newblock_capa \in Capas /\ m_current_block = 0
      /\ x = 0 /\ off = 0 /\ span = NoSpan /\ keeping = FALSE
      /\ written = 0 /\ received = <<>>
  BY DEF Init, x, off
<1> QED BY <1>1, FreshConsistent, EmptySeq DEF IInv, x, off

LEMMA UnchangedConsistent == ASSUME IInv, UNCHANGED vars PROVE IInv'
BY DEF IInv, vars, reading

LEMMA NextConsistent ==
    ASSUME IInv, Disciplined, [Next]_vars
    PROVE  IInv'
<1>1. ASSUME NEW n \in Sizes, WritableSpan(n) PROVE IInv'
  BY <1>1, WritableSpanStep
<1>2. ASSUME NEW n \in Sizes, AppendBytes(n) PROVE IInv'
  BY <1>2, AppendBytesStep
<1>3. ASSUME NEW n \in Sizes, CommitWrite(n) PROVE IInv'
  BY <1>3, CommitWriteStep
<1>4. ASSUME NEW capa \in Capas, SetNewBlockCapacity(capa) PROVE IInv'
  BY <1>4, SetNewBlockCapacityStep
<1>5. ASSUME NEW nele \in 1 .. NextElements, CommitRead(nele) PROVE IInv'
  BY <1>5, CommitReadStep
<1>6. ASSUME NEW nele \in 1 .. NextElements, CommitRemoveAfterRead(nele)
      PROVE  IInv'
  BY <1>6, CommitRemoveStep
<1>7. ASSUME ResetReadingInfo PROVE IInv'
  BY <1>7, StartStep DEF ResetReadingInfo
<1>8. ASSUME MoveConstruct PROVE IInv'
  BY <1>8, StartStep DEF MoveConstruct, Disciplined
<1>9. ASSUME MoveAssignFresh PROVE IInv'
  BY <1>9, MoveAssignStep
<1>10. ASSUME UNCHANGED vars PROVE IInv'
  BY <1>10, UnchangedConsistent
<1> QED
  BY <1>1, <1>2, <1>3, <1>4, <1>5, <1>6, <1>7, <1>8, <1>9, <1>10
  DEF Next, Produce, Commit, Consume

\* What was received is the beginning of what was written, all of it when
\* there is no element to read.
AllSoFar ==
    /\ written \in Nat /\ Len(received) \in 0 .. written
    /\ received \in Seq(Int) /\ received \in Seq(1 .. MaxBytes)
    /\ received = FirstBytes(Len(received))
    /\ NextElements = 0 => Len(received) = written

LEMMA ReceivedSoFar == IInv => AllSoFar
<1> SUFFICES ASSUME IInv PROVE AllSoFar
  OBVIOUS
<1> USE DEF AllSoFar
<1>1. /\ Len(m_blocks) \in Nat /\ x \in 0 .. Len(m_blocks) /\ off \in Nat
      /\ written \in 0 .. MaxBytes /\ written \in Nat
      /\ \A i \in 1 .. Len(m_blocks) : i > x => m_blocks[i].capa # 0
  BY NextSpanLen, BufferAssumption DEF IInv, Consistent, Kept, x
<1>2. PICK start \in [1 .. Len(m_blocks) + 1 -> 0 .. written] :
          /\ Laid(m_blocks, written, start)
          /\ received = FirstBytes(start[x + 1] + off)
  BY DEF IInv, Consistent, Placed, x, off
<1> DEFINE k == start[x + 1] + off
<1>3. start[x + 1] \in Nat /\ start[x + 1] <= written
  BY <1>1
<1>4. CASE x = Len(m_blocks)
  <2>1. start[x + 1] = written /\ off = 0
    BY <1>2, <1>4 DEF Laid, IInv, Consistent, Positioned, x, off
  <2>2. k \in 0 .. written /\ k = written
    BY <1>1, <2>1
  <2> QED BY <1>1, <1>2, <2>2, FirstBytesUpTo
<1>5. CASE x # Len(m_blocks)
  <2> DEFINE len == Len(m_blocks[x + 1].data)
  <2>1. x < Len(m_blocks) /\ x + 1 \in 1 .. Len(m_blocks)
        /\ (x + 1) + 1 \in 1 .. Len(m_blocks) + 1 /\ m_blocks[x + 1].capa # 0
    BY <1>1, <1>5
  <2>2. /\ len \in Nat /\ off <= len
        /\ Len(next_readable_span) = len - off
    BY <2>1, NextSpanLen
  <2>3. /\ start[(x + 1) + 1] = start[x + 1] + len
        /\ start[(x + 1) + 1] <= written
    <3>1. start[(x + 1) + 1] \in 0 .. written
      BY <2>1
    <3>2. start[(x + 1) + 1] = start[x + 1] + len
      BY <1>2, <2>1 DEF Laid
    <3> QED BY <1>1, <3>1, <3>2
  <2>4. k \in 0 .. written
    <3> HIDE DEF len
    <3> QED BY <1>1, <1>3, <2>2, <2>3
  <2>5. ASSUME NextElements = 0
        PROVE  k = written
    <3>1. IsElements(len) /\ IsElements(off)
      BY <2>1 DEF IInv, Consistent, Aligned, x, off
    <3>2. (len - off) \div EleSize = 0
      BY <2>2, <2>5 DEF NextElements
    <3> HIDE DEF len
    <3>3. len = off
      BY <1>1, <2>2, <3>1, <3>2, NoHalfElement
    <3>4. len = 0 /\ off = 0
      BY <1>1, <2>1, <2>2, <3>3 DEF IInv, Consistent, Positioned, x, off, len
    <3>5. x + 1 = Len(m_blocks)
      BY <2>1, <3>4 DEF IInv, Consistent, Spanned, len
    <3>6. start[(x + 1) + 1] = written
      BY <1>2, <3>5 DEF Laid
    <3> QED BY <1>3, <2>3, <3>4, <3>6
  <2> QED BY <1>1, <1>2, <2>4, <2>5, FirstBytesUpTo
<1> QED BY <1>4, <1>5

LEMMA IInvSafe ==
    ASSUME IInv
    PROVE  CursorsValid /\ DrainedWhenEmpty
<1>1. /\ Len(m_blocks) \in Nat /\ x \in 0 .. Len(m_blocks) /\ off \in Nat
      /\ IsBlocks(m_blocks) /\ DOMAIN m_blocks = 1 .. Len(m_blocks)
  BY NextSpanLen, LenProperties DEF IInv, Consistent, IsBlocks
<1>2. TypeOK
  <2>1. received \in Seq(1 .. MaxBytes)
    BY ReceivedSoFar DEF AllSoFar
  <2>2. span \in Nat \cup {NoSpan} /\ keeping \in BOOLEAN /\ written \in 0 .. MaxBytes
    BY DEF IInv, Consistent, Spanned
  <2>3. m_newblock_capa \in Capas /\ m_current_block \in 0 .. Len(m_blocks)
    BY <1>1 DEF IInv
  <2> QED BY <1>1, <2>1, <2>2, <2>3 DEF TypeOK, IsBlocks, x, off
<1>3. SpanStaysValid
  <2>1. /\ m_current_block = Len(m_blocks)
        /\ Current(this) = m_blocks[Len(m_blocks)]
        /\ span # NoSpan => \/ /\ x < Len(m_blocks)
                               /\ span = Left(m_blocks[Len(m_blocks)])
                            \/ LastGone(m_blocks, x)
    BY DEF IInv, Consistent, Spanned, x, Current, this, Buf
  <2>2. ASSUME span # NoSpan, ~SpanStale
        PROVE  span = CurrentLeft(this)
    <3>1. ~LastGone(m_blocks, x)
      BY <2>1, <2>2 DEF SpanStale, LastGone
    <3>2. x < Len(m_blocks) /\ span = Left(m_blocks[Len(m_blocks)])
      BY <2>1, <2>2, <3>1
    <3>3. Len(m_blocks) # 0
      BY <1>1, <3>2
    <3> QED BY <2>1, <3>2, <3>3 DEF CurrentLeft, this, Buf
  <2>3. ASSUME SpanStale
        PROVE  Len(received) = written
    <3>1. m_blocks[Len(m_blocks)].capa = 0
      BY <2>1, <2>3 DEF SpanStale, Released
    <3>2. ~(x < Len(m_blocks))
      BY <1>1, <3>1 DEF IInv, Consistent, Kept, x
    <3>3. Len(next_readable_span) = 0
      BY <1>1, <3>2, NextSpanLen
    <3>4. NextElements = 0
      BY <3>3, BufferAssumption DEF NextElements
    <3> QED BY <3>4, ReceivedSoFar DEF AllSoFar
  <2> QED BY <2>2, <2>3 DEF SpanStaysValid
<1>4. ReadCursorInside
  BY NextSpanLen DEF ReadCursorInside, x, off
<1>5. DrainedWhenEmpty
  BY ReceivedSoFar DEF AllSoFar, DrainedWhenEmpty
<1> QED BY <1>2, <1>3, <1>4, <1>5 DEF CursorsValid
LEMMA StreamStep ==
    ASSUME IInv, IInv', Disciplined, [Next]_vars
    PROVE  [Stream!Next]_<<written, received>>
<1>1. /\ written \in Nat /\ Len(received) \in Nat /\ received \in Seq(Int)
      /\ Len(received) <= written
  BY ReceivedSoFar DEF AllSoFar
<1>2. /\ written' \in Nat /\ Len(received') \in Nat /\ Len(received') <= written'
      /\ received' = FirstBytes(Len(received'))
  <2>1. IInv' => AllSoFar'
    BY ReceivedSoFar, PTL
  <2> QED BY <2>1 DEF AllSoFar
<1>3. ASSUME NEW n \in Sizes, WritableSpan(n)
      PROVE  UNCHANGED <<written, received>>
  BY <1>3 DEF WritableSpan
<1>4. ASSUME NEW n \in Sizes, written' = written + n,
             "commit" \in Discipline => n > 0, received' = received
      PROVE  Stream!Write
  <2>1. n \in Nat /\ n > 0
    BY <1>4, SizesAreElements DEF Disciplined
  <2> QED BY <1>1, <1>4, <2>1 DEF Stream!Write
<1>5. ASSUME NEW n \in Sizes, AppendBytes(n)
      PROVE  Stream!Write
  BY <1>4, <1>5 DEF AppendBytes
<1>6. ASSUME NEW n \in Sizes, CommitWrite(n)
      PROVE  Stream!Write \/ UNCHANGED <<written, received>>
  <2>1. CASE Accepts(n)
    BY <1>4, <1>6, <2>1 DEF CommitWrite
  <2>2. CASE ~Accepts(n)
    BY <1>6, <2>2 DEF CommitWrite
  <2> QED BY <2>1, <2>2
<1>7. ASSUME NEW nele \in 1 .. NextElements, written' = written,
             Receive(nele * EleSize)
      PROVE  \E n \in 0 .. written : Stream!Take(n)
  <2> DEFINE n == nele * EleSize
  <2>1. Reads(n)
    BY ElementsRead
  <2>2. received' = received \o SubSeq(next_readable_span, 1, n) /\ n \in Nat
    BY <1>7, <2>1 DEF Receive, Reads
  <2> HIDE DEF n
  <2>3. SubSeq(next_readable_span, 1, n) \in Seq(Int)
        /\ Len(SubSeq(next_readable_span, 1, n)) = n
    <3>1. /\ n <= Len(next_readable_span)
          /\ next_readable_span = SubSeq(m_blocks[x + 1].data, off + 1,
                                         Len(m_blocks[x + 1].data))
          /\ x + 1 \in 1 .. Len(m_blocks) /\ off \in Nat
      BY <2>1, NextSpanLen DEF Reads
    <3>2. \A i \in 1 .. n : next_readable_span[i] \in Int
      <4> DEFINE d == m_blocks[x + 1].data
      <4>1. d \in Seq(1 .. MaxBytes) /\ Len(d) \in Nat
        BY <3>1, BlocksAreRecords DEF IInv, Consistent
      <4>2. \A i \in off + 1 .. Len(d) : i \in 1 .. Len(d)
        BY <3>1, <4>1
      <4>3. \A i \in off + 1 .. Len(d) : d[i] \in 1 .. MaxBytes
        BY <4>1, <4>2, ElementOfSeq
      <4>4. SubSeq(d, off + 1, Len(d)) \in Seq(1 .. MaxBytes)
        BY <3>1, <4>1, <4>3, SubSeqProperties
      <4>5. \A i \in 1 .. Len(next_readable_span) :
               next_readable_span[i] \in 1 .. MaxBytes
        BY <3>1, <4>4, ElementOfSeq
      <4>6. \A i \in 1 .. n : i \in 1 .. Len(next_readable_span)
        BY <2>2, <3>1, NextSpanLen
      <4> QED BY <4>5, <4>6
    <3> QED BY <2>2, <3>2, SubSeqProperties
  <2>4. Len(received') = Len(received) + n
    BY <1>1, <2>2, <2>3, ConcatProperties
  <2>5. n \in 0 .. written
    BY <1>1, <1>2, <1>7, <2>2, <2>4
  <2>6. received' = FirstBytes(Len(received) + n) /\ Len(received) + n <= written
    BY <1>2, <1>7, <2>4
  <2> QED BY <1>7, <2>5, <2>6 DEF Stream!Take, FirstBytes
<1>8. ASSUME NEW nele \in 1 .. NextElements,
             CommitRead(nele) \/ CommitRemoveAfterRead(nele)
      PROVE  \E n \in 0 .. written : Stream!Take(n)
  BY <1>7, <1>8 DEF CommitRead, CommitRemoveAfterRead
<1>9. ASSUME ResetReadingInfo \/ MoveConstruct
      PROVE  Stream!Rewind
  <2>1. /\ HasNoRemove /\ ReadFromStart
        /\ UNCHANGED <<m_blocks, m_newblock_capa, m_current_block, span, written>>
    BY <1>9 DEF ResetReadingInfo, MoveConstruct, Disciplined
  <2> QED BY <2>1, StartStep DEF Stream!Rewind
<1>10. ASSUME MoveAssignFresh
       PROVE  Stream!Restart
  BY <1>10 DEF MoveAssignFresh, Stream!Restart
<1>11. ASSUME NEW capa \in Capas, SetNewBlockCapacity(capa)
       PROVE  UNCHANGED <<written, received>>
  BY <1>11 DEF SetNewBlockCapacity
<1>12. ASSUME UNCHANGED vars
       PROVE  UNCHANGED <<written, received>>
  BY <1>12 DEF vars
<1> QED
  BY <1>3, <1>5, <1>6, <1>8, <1>9, <1>10, <1>11, <1>12
  DEF Next, Produce, Commit, Consume, Stream!Next

\* Both clients' views stay inside the blocks, through removals, rewinds and
\* moves: the reading position never passes the end of a block, and the span the
\* producer holds is what commit_write() will find free, unless the consumer
\* removed its block, which it then did with everything read.
THEOREM BufferCursorsValid ==
    ASSUME Disciplined
    PROVE  Spec => []CursorsValid
<1>1. Init => IInv
  BY InitConsistent
<1>2. IInv /\ [Next]_vars => IInv'
  BY NextConsistent
<1>3. IInv => CursorsValid
  BY IInvSafe
<1> QED BY <1>1, <1>2, <1>3, PTL DEF Spec

\* A consumer that finds no element to read has received every byte written.
THEOREM BufferDrainedWhenEmpty ==
    ASSUME Disciplined
    PROVE  Spec => []DrainedWhenEmpty
<1>1. Init => IInv
  BY InitConsistent
<1>2. IInv /\ [Next]_vars => IInv'
  BY NextConsistent
<1>3. IInv => DrainedWhenEmpty
  BY IInvSafe
<1> QED BY <1>1, <1>2, <1>3, PTL DEF Spec

\* Every operation of the buffer is a step of the byte stream, or none: bytes
\* reach the consumer once each and in the order in which they were written.
THEOREM BufferImplementsByteStream ==
    ASSUME Disciplined
    PROVE  Spec => ImplementsByteStream
<1>1. Init => IInv
  BY InitConsistent
<1>2. IInv /\ [Next]_vars => IInv'
  BY NextConsistent
<1>3. Init => Stream!Init
  BY DEF Init, Stream!Init
<1>4. IInv /\ IInv' /\ [Next]_vars => [Stream!Next]_<<written, received>>
  BY StreamStep
<1> QED BY <1>1, <1>2, <1>3, <1>4, PTL DEF Spec, ImplementsByteStream, Stream!Spec

-----------------------------------------------------------------------------
(* dup(): what the folds compute, step by step.                             *)

LEMMA MaxUpTo ==
    ASSUME NEW n \in Nat, NEW i \in 1 .. n
    PROVE  Max(1 .. i) = i
<1>1. Greatest(1 .. i) = i
  BY UpToLast
<1> QED BY <1>1 DEF Max, Greatest

LEMMA TotalSteps ==
    ASSUME NEW sizes \in Seq(Nat)
    PROVE  \E sum : /\ Total(sizes) = sum[Len(sizes)]
                    /\ sum[0] = 0
                    /\ \A i \in 1 .. Len(sizes) : sum[i] = sum[i - 1] + sizes[i]
<1> DEFINE n == Len(sizes)
           H == [i \in 1 .. n |-> [a \in Nat |-> a + sizes[i]]]
           Step(it) == it = [s \in SUBSET (1 .. n) |->
                                IF s = {} THEN 0
                                ELSE it[s \ {Max(s)}] + sizes[Max(s)]]
           chosen == CHOOSE it : Step(it)
           sum == [i \in 0 .. n |-> chosen[1 .. i]]
<1>1. n \in Nat /\ DOMAIN sizes = 1 .. n /\ \A i \in 1 .. n : sizes[i] \in Nat
  OBVIOUS
<1>2. Total(sizes) = chosen[1 .. n]
  BY <1>1 DEF Total, FoldLeft, MapThenFoldSet
<1>3. \E it : Step(it)
  <2>1. H \in [1 .. n -> [Nat -> Nat]]
    BY <1>1
  <2>2. PICK it \in [SUBSET (1 .. n) -> Nat] : Folding(it, n, H, 0)
    BY <1>1, <2>1, FoldsExist
  <2>3. ASSUME NEW s \in SUBSET (1 .. n), s # {}
        PROVE  H[Greatest(s)][it[s \ {Greatest(s)}]]
                   = it[s \ {Max(s)}] + sizes[Max(s)]
    <3>1. Max(s) \in 1 .. n /\ Max(s) = Greatest(s)
      BY <1>1, <2>3, GreatestOfSome DEF Max, Greatest
    <3> QED BY <2>2, <3>1
  <2> HIDE DEF H, n
  <2>4. Step(it)
    BY <2>2, <2>3 DEF Folding
  <2> QED BY <2>4
<1> HIDE DEF n, H
<1>4. Step(chosen)
  BY <1>3
<1> HIDE DEF chosen
<1>5. chosen[1 .. 0] = 0
  BY <1>4
<1>6. ASSUME NEW i \in 1 .. n
      PROVE  chosen[1 .. i] = chosen[1 .. i - 1] + sizes[i]
  <2>1. /\ 1 .. i \in SUBSET (1 .. n) /\ 1 .. i # {}
        /\ Max(1 .. i) = i /\ (1 .. i) \ {i} = 1 .. i - 1
    BY <1>1, UpToLast, MaxUpTo
  <2> QED BY <1>4, <2>1
<1>7. /\ sum[0] = 0 /\ sum[n] = chosen[1 .. n]
      /\ \A i \in 1 .. n : sum[i] = sum[i - 1] + sizes[i]
  <2>1. 0 \in 0 .. n /\ n \in 0 .. n /\ \A i \in 1 .. n : i \in 0 .. n /\ i - 1 \in 0 .. n
    BY <1>1
  <2> QED BY <1>5, <1>6, <2>1
<1> HIDE DEF sum
<1> QED BY <1>2, <1>7 DEF n

\* A total is a number, and no less than the first of the sizes.
LEMMA TotalRight ==
    ASSUME NEW sizes \in Seq(Nat)
    PROVE  /\ Total(sizes) \in Nat
           /\ Len(sizes) > 0 => Total(sizes) >= sizes[1]
<1> DEFINE n == Len(sizes)
<1>1. PICK sum : /\ Total(sizes) = sum[n]
                 /\ sum[0] = 0
                 /\ \A i \in 1 .. n : sum[i] = sum[i - 1] + sizes[i]
  BY TotalSteps
<1>2. n \in Nat /\ \A i \in 1 .. n : sizes[i] \in Nat
  OBVIOUS
<1> DEFINE S == {i \in 0 .. n : sum[i] \in Nat /\ (i > 0 => sum[i] >= sizes[1])}
<1>3. 0 \in S
  BY <1>1, <1>2
<1>4. ASSUME NEW i \in 1 .. n, i - 1 \in S PROVE i \in S
  <2>1. sum[i - 1] \in Nat /\ sizes[i] \in Nat /\ sizes[1] \in Nat
        /\ sum[i] = sum[i - 1] + sizes[i]
    BY <1>1, <1>2, <1>4
  <2>2. i = 1 => sum[i - 1] = 0
    BY <1>1
  <2>3. i # 1 => sum[i - 1] >= sizes[1]
    BY <1>4
  <2> QED BY <1>2, <2>1, <2>2, <2>3
<1> HIDE DEF n
<1>5. \A i \in 0 .. n : i \in S
  <2> HIDE DEF S
  <2> QED BY <1>2, <1>3, <1>4, AllUpTo
<1>6. n \in 0 .. n
  BY <1>2
<1> QED BY <1>1, <1>2, <1>5, <1>6 DEF n

\* FlattenSeq of the sequences so far.
Flattening(g, ss, S) ==
    /\ g[0] = <<>>
    /\ \A i \in 0 .. Len(ss) : g[i] \in Seq(S)
    /\ \A i \in 1 .. Len(ss) : g[i] = g[i - 1] \o ss[i]

LEMMA FlattenSteps ==
    ASSUME NEW S, NEW ss \in Seq(Seq(S))
    PROVE  \E g : Flattening(g, ss, S) /\ FlattenSeq(ss) = g[Len(ss)]
<1> DEFINE n == Len(ss)
           H == [i \in 1 .. n |-> [s \in Seq(S) |-> s \o ss[i]]]
           Step(f) == f = [i \in 1 .. n |-> IF i = 1 THEN ss[i]
                                            ELSE f[i - 1] \o ss[i]]
           flatten == CHOOSE f : Step(f)
           g == [i \in 0 .. n |-> IF i = 0 THEN <<>> ELSE flatten[i]]
<1>1. /\ n \in Nat /\ \A i \in 1 .. n : ss[i] \in Seq(S)
      /\ <<>> \in Seq(S)
      /\ n = 0 => ss = <<>>
  OBVIOUS
<1>2. FlattenSeq(ss) = IF n = 0 THEN ss ELSE flatten[n]
  BY DEF FlattenSeq
<1>3. \E f \in [1 .. n -> Seq(S)] : Step(f)
  <2>1. H \in [1 .. n -> [Seq(S) -> Seq(S)]]
    BY <1>1, ConcatProperties
  <2>2. PICK it \in [SUBSET (1 .. n) -> Seq(S)] : Folding(it, n, H, <<>>)
    <3> HIDE DEF n, H
    <3> QED BY <1>1, <2>1, FoldsExist
  <2>3. /\ it[1 .. 0] = <<>>
        /\ \A i \in 1 .. n : it[1 .. i] = H[i][it[1 .. i - 1]]
    <3> HIDE DEF n, H
    <3>1. it[1 .. 0] = <<>>
      BY <2>2 DEF Folding
    <3>2. ASSUME NEW i \in 1 .. n PROVE it[1 .. i] = H[i][it[1 .. i - 1]]
      <4>1. /\ 1 .. i \in SUBSET (1 .. n) /\ 1 .. i # {}
            /\ Greatest(1 .. i) = i /\ (1 .. i) \ {i} = 1 .. i - 1
        BY <1>1, UpToLast
      <4> QED BY <2>2, <4>1 DEF Folding
    <3> QED BY <3>1, <3>2
  <2> DEFINE f == [i \in 1 .. n |-> it[1 .. i]]
  <2>4. f \in [1 .. n -> Seq(S)]
    <3>1. \A i \in 1 .. n : 1 .. i \in SUBSET (1 .. n)
      BY <1>1
    <3> QED BY <3>1
  <2>5. ASSUME NEW i \in 1 .. n
        PROVE  f[i] = IF i = 1 THEN ss[i] ELSE f[i - 1] \o ss[i]
    <3>1. 1 .. i - 1 \in SUBSET (1 .. n) /\ it[1 .. i - 1] \in Seq(S)
      <4>1. 1 .. i - 1 \in SUBSET (1 .. n)
        BY <1>1
      <4> QED BY <4>1
    <3>2. f[i] = it[1 .. i - 1] \o ss[i]
      BY <2>3, <3>1
    <3>3. CASE i = 1
      <4>1. it[1 .. i - 1] = <<>> /\ ss[i] \in Seq(S)
        BY <1>1, <2>3, <3>3
      <4> QED BY <3>2, <3>3, <4>1, ConcatEmptySeq
    <3>4. CASE i # 1
      <4>1. i - 1 \in 1 .. n
        BY <1>1, <3>4
      <4> QED BY <3>2, <3>4, <4>1
    <3> QED BY <3>3, <3>4
  <2> HIDE DEF f, n
  <2>6. Step(f)
    BY <2>4, <2>5
  <2> QED BY <2>4, <2>6
<1> HIDE DEF n, H
<1>4. Step(flatten)
  BY <1>3
<1> HIDE DEF flatten
<1>5. /\ g[0] = <<>> /\ g[n] = IF n = 0 THEN <<>> ELSE flatten[n]
      /\ \A i \in 1 .. n : g[i] = flatten[i]
  BY <1>1
<1>6. ASSUME NEW i \in 1 .. n PROVE g[i] = g[i - 1] \o ss[i]
  <2>1. flatten[i] = IF i = 1 THEN ss[i] ELSE flatten[i - 1] \o ss[i]
    BY <1>4
  <2>2. CASE i = 1
    <3>1. g[i - 1] = <<>> /\ ss[i] \in Seq(S)
      BY <1>1, <1>5, <2>2
    <3> QED BY <1>5, <2>1, <2>2, <3>1, ConcatEmptySeq
  <2>3. CASE i # 1
    <3>1. i - 1 \in 1 .. n
      BY <1>1, <2>3
    <3> QED BY <1>5, <2>1, <2>3, <3>1
  <2> QED BY <2>2, <2>3
<1> HIDE DEF g
<1>10. n = 0 => FlattenSeq(ss) = g[n]
  BY <1>1, <1>2, <1>5
<1>11. n # 0 => FlattenSeq(ss) = g[n]
  BY <1>2, <1>5
<1> DEFINE Flat == {i \in 0 .. n : g[i] \in Seq(S)}
<1>7. 0 \in Flat
  <2>1. g[0] \in Seq(S)
    BY <1>1, <1>5
  <2>2. 0 \in 0 .. n
    BY <1>1
  <2> QED BY <2>1, <2>2
<1>8. ASSUME NEW i \in 1 .. n, i - 1 \in Flat PROVE i \in Flat
  <2>1. g[i - 1] \in Seq(S) /\ ss[i] \in Seq(S) /\ i \in 0 .. n
    BY <1>1, <1>8
  <2>2. g[i] = g[i - 1] \o ss[i]
    BY <1>6
  <2>3. g[i] \in Seq(S)
    BY <2>1, <2>2, ConcatProperties
  <2> QED BY <2>1, <2>3
<1>9. \A i \in 0 .. n : g[i] \in Seq(S)
  <2>1. \A i \in 0 .. n : i \in Flat
    <3> HIDE DEF Flat
    <3> QED BY <1>1, <1>7, <1>8, AllUpTo
  <2> QED BY <2>1
<1> QED BY <1>5, <1>6, <1>9, <1>10, <1>11 DEF n, Flattening

LEMMA FlattenEmpty == FlattenSeq(<<>>) = <<>>
BY DEF FlattenSeq

\* Two of them that begin the same are the same that far.
SameUpTo(ss, tt, n) ==
    /\ Len(ss) \in Nat /\ Len(tt) \in Nat /\ n <= Len(ss) /\ n <= Len(tt)
    /\ \A i \in 1 .. n : ss[i] = tt[i]

LEMMA FlattenSame ==
    ASSUME NEW S, NEW ss, NEW tt, NEW n \in Nat, SameUpTo(ss, tt, n),
           NEW g, Flattening(g, ss, S), NEW h, Flattening(h, tt, S)
    PROVE  g[n] = h[n] /\ g[n] \in Seq(S)
<1> DEFINE Same == {i \in 0 .. n : g[i] = h[i]}
<1>1. 0 \in Same
  BY DEF Flattening
<1>2. ASSUME NEW i \in 1 .. n, i - 1 \in Same PROVE i \in Same
  <2>1. i \in 1 .. Len(ss) /\ i \in 1 .. Len(tt) /\ i \in 0 .. n
        /\ ss[i] = tt[i]
    BY DEF SameUpTo
  <2>2. g[i] = g[i - 1] \o ss[i] /\ h[i] = h[i - 1] \o tt[i]
    BY <2>1 DEF Flattening
  <2> QED BY <1>2, <2>1, <2>2
<1>3. \A i \in 0 .. n : i \in Same
  <2> HIDE DEF Same
  <2> QED BY <1>1, <1>2, AllUpTo
<1>4. n \in 0 .. n /\ n \in 0 .. Len(ss)
  BY DEF SameUpTo
<1> QED BY <1>3, <1>4 DEF Flattening

\* tt has s after what is in ss.
HasMore(ss, tt, s) ==
    /\ Len(tt) = Len(ss) + 1
    /\ \A i \in 1 .. Len(ss) : tt[i] = ss[i]
    /\ tt[Len(ss) + 1] = s

LEMMA FlattenAppend ==
    ASSUME NEW S, NEW ss \in Seq(Seq(S)), NEW tt \in Seq(Seq(S)), NEW s \in Seq(S),
           HasMore(ss, tt, s)
    PROVE  FlattenSeq(tt) = FlattenSeq(ss) \o s
<1>0. PICK n \in Nat :
          /\ n = Len(ss) /\ Len(tt) = n + 1
          /\ \A i \in 1 .. n : tt[i] = ss[i]
          /\ tt[n + 1] = s
  <2>1. Len(ss) \in Nat
    OBVIOUS
  <2> QED BY <2>1 DEF HasMore
<1>1. PICK g : Flattening(g, ss, S) /\ FlattenSeq(ss) = g[n]
  BY <1>0, FlattenSteps
<1>2. PICK h : Flattening(h, tt, S) /\ FlattenSeq(tt) = h[n + 1]
  BY <1>0, FlattenSteps
<1>3. g[n] = h[n]
  <2>1. SameUpTo(ss, tt, n)
    BY <1>0 DEF SameUpTo
  <2> QED BY <1>1, <1>2, <2>1, FlattenSame
<1>4. h[n + 1] = h[n] \o s
  <2>1. PICK m \in Nat : m = n + 1
    OBVIOUS
  <2>2. m \in 1 .. Len(tt) /\ m - 1 = n
    BY <1>0, <2>1
  <2>3. h[m] = h[m - 1] \o tt[m]
    BY <1>2, <2>2 DEF Flattening
  <2> QED BY <1>0, <2>1, <2>2, <2>3
<1> QED BY <1>1, <1>2, <1>3, <1>4

Associative(p, q, t) == (p \o q) \o t = p \o (q \o t)

LEMMA Associates ==
    ASSUME NEW S, NEW p \in Seq(S), NEW q \in Seq(S), NEW t \in Seq(S)
    PROVE  Associative(p, q, t)
BY ConcatAssociative DEF Associative

\* The last of the sequences gains t.
LastGains(ss, tt, t) ==
    /\ Len(ss) # 0 /\ Len(tt) = Len(ss)
    /\ \A i \in 1 .. Len(ss) - 1 : ss[i] = tt[i]
    /\ tt[Len(ss)] = ss[Len(ss)] \o t

LEMMA FlattenExtended ==
    ASSUME NEW S, NEW ss \in Seq(Seq(S)), NEW tt \in Seq(Seq(S)), NEW t \in Seq(S),
           LastGains(ss, tt, t)
    PROVE  FlattenSeq(tt) = FlattenSeq(ss) \o t
<1>0. PICK m \in Nat, n \in Nat :
          /\ n = m + 1 /\ Len(ss) = n /\ Len(tt) = n
          /\ \A i \in 1 .. m : ss[i] = tt[i]
          /\ tt[n] = ss[n] \o t
  <2>1. PICK n \in Nat : n = Len(ss)
    OBVIOUS
  <2>2. PICK m \in Nat : n = m + 1
    <3>1. n - 1 \in Nat /\ n = n - 1 + 1
      BY <2>1 DEF LastGains
    <3> QED BY <3>1
  <2>3. Len(ss) - 1 = m
    BY <2>1, <2>2
  <2>4. /\ Len(tt) = n /\ tt[n] = ss[n] \o t
        /\ \A i \in 1 .. m : ss[i] = tt[i]
    BY <2>1, <2>3 DEF LastGains
  <2> QED BY <2>1, <2>2, <2>4
<1>1. PICK g : Flattening(g, ss, S) /\ FlattenSeq(ss) = g[n]
  BY <1>0, FlattenSteps
<1>2. PICK h : Flattening(h, tt, S) /\ FlattenSeq(tt) = h[n]
  BY <1>0, FlattenSteps
<1>3. g[m] = h[m] /\ g[m] \in Seq(S)
  <2>1. SameUpTo(ss, tt, m)
    BY <1>0 DEF SameUpTo
  <2> QED BY <1>1, <1>2, <2>1, FlattenSame
<1>4. g[n] = g[m] \o ss[n] /\ h[n] = g[m] \o (ss[n] \o t)
  <2>1. n \in 1 .. Len(ss) /\ n \in 1 .. Len(tt) /\ n - 1 = m
    BY <1>0
  <2> QED BY <1>0, <1>1, <1>2, <1>3, <2>1 DEF Flattening
<1>5. PICK p, q : p = g[m] /\ q = ss[n]
  OBVIOUS
<1>6. p \in Seq(S) /\ q \in Seq(S)
  <2>1. n \in 1 .. Len(ss)
    BY <1>0
  <2> QED BY <1>3, <1>5, <2>1
<1>7. Associative(p, q, t)
  BY <1>6, Associates
<1> QED BY <1>1, <1>2, <1>4, <1>5, <1>7 DEF Associative

-----------------------------------------------------------------------------
(* dup(): the copy, block by block.                                         *)

Bytes == 1 .. MaxBytes
Datas(b) == [i \in DOMAIN b |-> b[i].data]

LEMMA DatasType ==
    ASSUME NEW b \in Seq(Block)
    PROVE  /\ Datas(b) \in Seq(Seq(Bytes)) /\ Len(Datas(b)) = Len(b)
           /\ \A i \in 1 .. Len(b) : Datas(b)[i] = b[i].data
           /\ flattened_view(b) = FlattenSeq(Datas(b))
           /\ flattened_view(b) \in Seq(Bytes)
<1>1. /\ Len(b) \in Nat /\ DOMAIN b = 1 .. Len(b)
      /\ \A i \in 1 .. Len(b) : b[i].data \in Seq(Bytes)
  <2>1. \A i \in 1 .. Len(b) : b[i] \in Block
    BY ElementOfSeq
  <2> QED BY <2>1 DEF Block, Bytes
<1>2. [i \in 1 .. Len(b) |-> b[i].data] \in [1 .. Len(b) -> Seq(Bytes)]
  BY <1>1
<1>3. Datas(b) \in Seq(Seq(Bytes)) /\ Len(Datas(b)) = Len(b)
  BY <1>1, <1>2, SeqDef, LenProperties DEF Datas
<1>4. flattened_view(b) = FlattenSeq(Datas(b))
  BY DEF flattened_view, Datas
<1>5. FlattenSeq(Datas(b)) \in Seq(Bytes)
  <2>1. PICK g : Flattening(g, Datas(b), Bytes) /\ FlattenSeq(Datas(b)) = g[Len(Datas(b))]
    BY <1>3, FlattenSteps
  <2>2. Len(Datas(b)) \in 0 .. Len(Datas(b))
    BY <1>1, <1>3
  <2> QED BY <2>1, <2>2 DEF Flattening
<1> QED BY <1>1, <1>3, <1>4, <1>5 DEF Datas

\* A block more, or more in the last one.
LEMMA ViewOfAppend ==
    ASSUME NEW b \in Seq(Block), NEW k \in Block
    PROVE  /\ Append(b, k) \in Seq(Block)
           /\ flattened_view(Append(b, k)) = flattened_view(b) \o k.data
<1>1. /\ Append(b, k) \in Seq(Block) /\ Len(Append(b, k)) = Len(b) + 1
      /\ \A i \in 1 .. Len(b) : Append(b, k)[i] = b[i]
      /\ Append(b, k)[Len(b) + 1] = k
      /\ Len(b) \in Nat /\ k.data \in Seq(Bytes)
  BY AppendProperties DEF Block, Bytes
<1>2. /\ Datas(Append(b, k)) \in Seq(Seq(Bytes))
      /\ Len(Datas(Append(b, k))) = Len(b) + 1
      /\ \A i \in 1 .. Len(b) + 1 : Datas(Append(b, k))[i] = Append(b, k)[i].data
      /\ Datas(b) \in Seq(Seq(Bytes)) /\ Len(Datas(b)) = Len(b)
      /\ \A i \in 1 .. Len(b) : Datas(b)[i] = b[i].data
  BY <1>1, DatasType
<1>3. PICK p, q, n : p = Datas(b) /\ q = Datas(Append(b, k)) /\ n = Len(b)
  OBVIOUS
<1>4. HasMore(p, q, k.data)
  <2>1. n + 1 \in 1 .. n + 1 /\ \A i \in 1 .. n : i \in 1 .. n + 1
    BY <1>1, <1>3
  <2> QED BY <1>1, <1>2, <1>3, <2>1 DEF HasMore
<1>5. FlattenSeq(q) = FlattenSeq(p) \o k.data
  <2>1. p \in Seq(Seq(Bytes)) /\ q \in Seq(Seq(Bytes)) /\ k.data \in Seq(Bytes)
    BY <1>1, <1>2, <1>3
  <2> QED BY <1>4, <2>1, FlattenAppend
<1> QED BY <1>1, <1>3, <1>5, DatasType

LEMMA ViewOfWritten ==
    ASSUME NEW b \in Seq(Block), Len(b) # 0, NEW bytes \in Seq(Bytes)
    PROVE  LET c == WithData(b, Len(b), b[Len(b)].data \o bytes)
           IN  flattened_view(c) = flattened_view(b) \o bytes
<1> DEFINE n == Len(b)
           d == b[n].data \o bytes
           c == WithData(b, n, d)
<1>1. /\ n \in Nat /\ n \in 1 .. n /\ b[n].data \in Seq(Bytes)
      /\ \A i \in 1 .. n - 1 : i \in 1 .. n /\ i # n
  <2>1. n \in Nat /\ n \in 1 .. n
    OBVIOUS
  <2>2. b[n] \in Block
    BY <2>1, ElementOfSeq
  <2> QED BY <2>1, <2>2 DEF Block, Bytes
<1>2. d \in Seq(1 .. MaxBytes)
  BY <1>1, ConcatProperties DEF Bytes
<1> HIDE DEF d
<1>3. /\ c \in Seq(Block) /\ Len(c) = n
      /\ \A i \in 1 .. n : i # n => c[i] = b[i]
      /\ c[n].data = d
  BY <1>1, <1>2, BlockReplaced
<1> HIDE DEF c
<1>4. /\ Datas(c) \in Seq(Seq(Bytes)) /\ Len(Datas(c)) = n
      /\ \A i \in 1 .. n - 1 : Datas(c)[i] = Datas(b)[i]
      /\ Datas(c)[n] = Datas(b)[n] \o bytes
      /\ Datas(b) \in Seq(Seq(Bytes)) /\ Len(Datas(b)) = n
  BY <1>1, <1>3, DatasType DEF d
<1>5. FlattenSeq(Datas(c)) = FlattenSeq(Datas(b)) \o bytes
  <2>1. PICK p, q : p = Datas(b) /\ q = Datas(c)
    OBVIOUS
  <2>2. LastGains(p, q, bytes)
    BY <1>1, <1>4, <2>1 DEF LastGains
  <2>3. p \in Seq(Seq(Bytes)) /\ q \in Seq(Seq(Bytes))
    BY <1>4, <2>1
  <2>4. FlattenSeq(q) = FlattenSeq(p) \o bytes
    BY <2>2, <2>3, FlattenExtended
  <2> QED BY <2>1, <2>4
<1>6. flattened_view(c) = flattened_view(b) \o bytes
  BY <1>3, <1>5, DatasType
<1> QED BY <1>6 DEF c, d

-----------------------------------------------------------------------------
(* dup(): what append_bytes() does to a buffer that is only written to.     *)

Bufs == {buf \in [blocks : Seq(Block), capa : Nat, current : Nat] :
            buf.current = Len(buf.blocks)}

LEMMA BufsAreRecords ==
    ASSUME NEW b \in Seq(Block), NEW capa \in Nat
    PROVE  /\ Buf(b, capa, Len(b)) \in Bufs
           /\ Buf(b, capa, Len(b)).blocks = b
           /\ Buf(b, capa, Len(b)).capa = capa
           /\ Buf(b, capa, Len(b)).current = Len(b)
BY DEF Buf, Bufs

LEMMA BufIsBuf ==
    ASSUME NEW buf \in Bufs
    PROVE  /\ buf = Buf(buf.blocks, buf.capa, Len(buf.blocks))
           /\ buf.blocks \in Seq(Block) /\ buf.capa \in Nat
           /\ buf.current = Len(buf.blocks)
BY DEF Buf, Bufs

\* The block that writable_span(n) makes has room for n bytes.
LEMMA NewBlockRoom ==
    ASSUME NEW capa \in Nat
    PROVE  /\ NewBlock(capa) \in Block /\ NewBlock(capa).data = <<>>
           /\ Left(NewBlock(capa)) >= capa
<1>1. RoundedUp(capa) \in Nat /\ RoundedUp(capa) >= capa
  <2>1. CASE capa # 0
    BY <2>1, RoundsUp
  <2>2. CASE capa = 0
    <3>1. Align \in Nat \ {0}
      BY BufferAssumption
    <3>2. (Align - 1) \div Align = 0
      BY <3>1
    <3>3. RoundedUp(0) = ((Align - 1) \div Align) * Align
      BY <3>1 DEF RoundedUp
    <3>4. RoundedUp(0) = 0
      BY <3>1, <3>2, <3>3
    <3> QED BY <2>2, <3>4
  <2> QED BY <2>1, <2>2
<1> QED BY <1>1 DEF NewBlock, Block, Left

\* What a buffer without open spans holds after an operation on it.
Grew(buf, new, bytes) ==
    /\ new \in Bufs
    /\ flattened_view(new.blocks) = flattened_view(buf.blocks) \o bytes

LEMMA SpanReady ==
    ASSUME NEW buf \in Bufs, NEW n \in Nat
    PROVE  /\ Grew(buf, WithSpan(buf, n), <<>>)
           /\ n <= CurrentLeft(WithSpan(buf, n))
           /\ WithSpan(buf, n).current # 0
<1> DEFINE b == buf.blocks
<1>1. /\ buf = Buf(b, buf.capa, Len(b)) /\ b \in Seq(Block) /\ buf.capa \in Nat
      /\ buf.current = Len(b) /\ Len(b) \in Nat
  BY BufIsBuf
<1>2. flattened_view(b) \o <<>> = flattened_view(b)
  BY <1>1, DatasType, ConcatEmptySeq
<1>3. CASE ~TakesNew(buf, n)
  <2>1. WithSpan(buf, n) = buf
    BY <1>3 DEF WithSpan
  <2>2. buf.current # 0
    BY <1>3 DEF TakesNew, CurrentLeft
  <2>3. CurrentLeft(buf) \in Int
    <3>1. b[Len(b)] \in Block
      BY <1>1, <2>2, ElementOfSeq
    <3>2. Left(b[Len(b)]) \in Int
      BY <3>1 DEF Block, Left
    <3> QED BY <1>1, <2>2, <3>2 DEF CurrentLeft, Current
  <2> QED BY <1>2, <1>3, <2>1, <2>2, <2>3 DEF TakesNew, Grew
<1>4. CASE TakesNew(buf, n)
  <2> DEFINE capa == IF n < buf.capa THEN buf.capa ELSE n
             k == NewBlock(capa)
             c == Append(b, k)
  <2>1. capa \in Nat /\ n <= capa
    BY <1>1
  <2>2. WithSpan(buf, n) = Buf(c, buf.capa, Len(b) + 1)
    BY <1>4 DEF WithSpan
  <2> HIDE DEF capa
  <2>3. k \in Block /\ k.data = <<>> /\ Left(k) >= capa /\ Left(k) \in Int
    BY <2>1, NewBlockRoom DEF Block, Left
  <2> HIDE DEF k
  <2>4. c \in Seq(Block) /\ flattened_view(c) = flattened_view(b)
    BY <1>1, <1>2, <2>3, ViewOfAppend
  <2>5. Len(c) = Len(b) + 1 /\ c[Len(b) + 1] = k
    BY <1>1, <2>3, AppendProperties
  <2> HIDE DEF c, b
  <2>6. WithSpan(buf, n) = Buf(c, buf.capa, Len(c))
    BY <2>2, <2>5
  <2>7. /\ WithSpan(buf, n) \in Bufs /\ WithSpan(buf, n).blocks = c
        /\ WithSpan(buf, n).current = Len(b) + 1
    BY <1>1, <2>4, <2>5, <2>6, BufsAreRecords
  <2>8. CurrentLeft(WithSpan(buf, n)) = Left(k)
    BY <1>1, <2>5, <2>7 DEF CurrentLeft, Current
  <2>9. n <= Left(k)
    BY <2>1, <2>3
  <2>10. Len(b) + 1 # 0
    BY <1>1
  <2> QED BY <1>2, <2>4, <2>7, <2>8, <2>9, <2>10 DEF Grew, b
<1> QED BY <1>3, <1>4

LEMMA FilledGrows ==
    ASSUME NEW buf \in Bufs, NEW bytes \in Seq(Bytes),
           Len(bytes) <= CurrentLeft(buf), buf.current # 0
    PROVE  Grew(buf, Filled(buf, bytes), bytes)
<1> DEFINE b == buf.blocks
           e == Len(b)
           c == WithData(b, e, b[e].data \o bytes)
<1>1. /\ buf = [blocks |-> b, capa |-> buf.capa, current |-> e]
      /\ b \in Seq(Block) /\ buf.capa \in Nat
      /\ buf.current = e /\ e \in Nat /\ e # 0
  BY BufIsBuf DEF Buf
<1>2. ~(Len(bytes) > CurrentLeft(buf))
  <2>1. b[e] \in Block /\ CurrentLeft(buf) = Left(b[e])
    BY <1>1, ElementOfSeq DEF CurrentLeft, Current
  <2>2. CurrentLeft(buf) \in Int /\ Len(bytes) \in Nat
    BY <2>1 DEF Block, Left
  <2> QED BY <2>2
<1>3. flattened_view(c) = flattened_view(b) \o bytes
  BY <1>1, ViewOfWritten
<1>4. c \in Seq(Block) /\ Len(c) = e
  <2>1. e \in 1 .. Len(b)
    BY <1>1
  <2>2. b[e].data \o bytes \in Seq(1 .. MaxBytes)
    <3>1. b[e] \in Block
      BY <1>1, ElementOfSeq
    <3>2. b[e].data \in Seq(Bytes)
      BY <3>1 DEF Block, Bytes
    <3> QED BY <3>2, ConcatProperties DEF Bytes
  <2> QED BY <1>1, <2>1, <2>2, BlockReplaced
<1>5. Filled(buf, bytes) = Buf(c, buf.capa, e)
  <2>1. Filled(buf, bytes)
           = [buf EXCEPT !.blocks[buf.current].data = @ \o bytes]
    BY <1>2 DEF Filled
  <2>2. Filled(buf, bytes) = [buf EXCEPT !.blocks = c]
    BY <1>1, <2>1 DEF WithData
  <2> HIDE DEF b, c, e
  <2> QED BY <1>1, <2>2 DEF Buf
<1> HIDE DEF c, e
<1>6. Filled(buf, bytes) = Buf(c, buf.capa, Len(c))
  BY <1>4, <1>5
<1>7. Filled(buf, bytes) \in Bufs /\ Filled(buf, bytes).blocks = c
  BY <1>1, <1>4, <1>6, BufsAreRecords
<1> QED BY <1>3, <1>7 DEF Grew

LEMMA AppendedGrows ==
    ASSUME NEW buf \in Bufs, NEW bytes \in Seq(Bytes)
    PROVE  Grew(buf, Appended(buf, bytes), bytes)
<1>1. PICK s : s = WithSpan(buf, Len(bytes))
  OBVIOUS
<1>2. /\ Grew(buf, s, <<>>) /\ Len(bytes) <= CurrentLeft(s) /\ s.current # 0
  BY <1>1, SpanReady
<1>3. Grew(s, Filled(s, bytes), bytes)
  BY <1>2, FilledGrows DEF Grew
<1>4. flattened_view(buf.blocks) \o <<>> = flattened_view(buf.blocks)
  BY BufIsBuf, DatasType, ConcatEmptySeq
<1> QED BY <1>1, <1>2, <1>3, <1>4 DEF Grew, Appended

-----------------------------------------------------------------------------
(* dup(): a chunk, block by block.                                          *)

LEMMA SizesType ==
    ASSUME NEW b \in Seq(Block)
    PROVE  /\ SizesOf(b) \in Seq(Nat) /\ Len(SizesOf(b)) = Len(b)
           /\ \A i \in 1 .. Len(b) : SizesOf(b)[i] = Len(b[i].data)
<1>1. Len(b) \in Nat /\ DOMAIN b = 1 .. Len(b)
  OBVIOUS
<1>2. ASSUME NEW i \in 1 .. Len(b) PROVE Len(b[i].data) \in Nat
  <2>1. b[i] \in Block
    BY ElementOfSeq
  <2>2. b[i].data \in Seq(1 .. MaxBytes)
    BY <2>1 DEF Block
  <2> QED BY <2>2
<1>3. [i \in 1 .. Len(b) |-> Len(b[i].data)] \in [1 .. Len(b) -> Nat]
  BY <1>2
<1> QED BY <1>1, <1>3, SeqDef, LenProperties DEF SizesOf

\* at[i] is the buffer after i blocks.
LEMMA DupChunkSteps ==
    ASSUME NEW buf \in Bufs, NEW chunk \in Seq(Block)
    PROVE  \E at : /\ DupChunk(buf, chunk) = at[Len(chunk)]
                   /\ at[0] \in Bufs /\ at[0].blocks = buf.blocks
                   /\ \A i \in 1 .. Len(chunk) :
                          at[i] = Appended(at[i - 1], chunk[i].data)
<1> DEFINE n == Len(chunk)
           base == [buf EXCEPT !.capa = total_nbytes_valid(chunk)]
           H == [i \in 1 .. n |-> [b \in Bufs |-> Appended(b, chunk[i].data)]]
           Step(it) == it = [s \in SUBSET (1 .. n) |->
                                IF s = {} THEN base
                                ELSE Appended(it[s \ {Max(s)}], chunk[Max(s)].data)]
           chosen == CHOOSE it : Step(it)
           at == [i \in 0 .. n |-> chosen[1 .. i]]
<1>1. /\ n \in Nat /\ DOMAIN chunk = 1 .. n
      /\ \A i \in 1 .. n : chunk[i].data \in Seq(Bytes)
  <2>1. \A i \in 1 .. n : chunk[i] \in Block
    BY ElementOfSeq
  <2> QED BY <2>1 DEF Block, Bytes
<1>2. DupChunk(buf, chunk) = chosen[1 .. n]
  BY <1>1 DEF DupChunk, FoldLeft, MapThenFoldSet
<1>3. base \in Bufs /\ base.blocks = buf.blocks
  <2>1. total_nbytes_valid(chunk) \in Nat
    BY SizesType, TotalRight DEF total_nbytes_valid
  <2> QED BY <2>1 DEF Bufs
<1> HIDE DEF base
<1>4. \E it : Step(it)
  <2>1. H \in [1 .. n -> [Bufs -> Bufs]]
    <3>1. \A i \in 1 .. n : \A b \in Bufs : Appended(b, chunk[i].data) \in Bufs
      BY <1>1, AppendedGrows DEF Grew
    <3> QED BY <3>1
  <2>2. PICK it \in [SUBSET (1 .. n) -> Bufs] : Folding(it, n, H, base)
    <3> HIDE DEF n, H
    <3> QED BY <1>1, <1>3, <2>1, FoldsExist
  <2>3. ASSUME NEW s \in SUBSET (1 .. n), s # {}
        PROVE  H[Greatest(s)][it[s \ {Greatest(s)}]]
                   = Appended(it[s \ {Max(s)}], chunk[Max(s)].data)
    <3>1. Max(s) \in 1 .. n /\ Max(s) = Greatest(s)
      BY <1>1, <2>3, GreatestOfSome DEF Max, Greatest
    <3>2. it[s \ {Max(s)}] \in Bufs
      <4>1. s \ {Max(s)} \in SUBSET (1 .. n)
        OBVIOUS
      <4> QED BY <4>1
    <3> QED BY <3>1, <3>2
  <2> HIDE DEF H, n
  <2>4. Step(it)
    BY <2>2, <2>3 DEF Folding
  <2> QED BY <2>4
<1> HIDE DEF n, H
<1>5. Step(chosen)
  BY <1>4
<1> HIDE DEF chosen
<1>6. chosen[1 .. 0] = base
  BY <1>5
<1>7. ASSUME NEW i \in 1 .. n
      PROVE  chosen[1 .. i] = Appended(chosen[1 .. i - 1], chunk[i].data)
  <2>1. /\ 1 .. i \in SUBSET (1 .. n) /\ 1 .. i # {}
        /\ Max(1 .. i) = i /\ (1 .. i) \ {i} = 1 .. i - 1
    BY <1>1, UpToLast, MaxUpTo
  <2> QED BY <1>5, <2>1
<1>8. /\ at[0] = base /\ at[n] = chosen[1 .. n]
      /\ \A i \in 1 .. n : at[i] = Appended(at[i - 1], chunk[i].data)
  <2>1. 0 \in 0 .. n /\ n \in 0 .. n /\ \A i \in 1 .. n : i \in 0 .. n /\ i - 1 \in 0 .. n
    BY <1>1
  <2> QED BY <1>6, <1>7, <2>1
<1> HIDE DEF at
<1> QED BY <1>2, <1>3, <1>8 DEF n

\* A buffer that grew by p and then by t grew by both.
LEMMA GrewTwice ==
    ASSUME NEW a, NEW b \in Bufs, NEW c, NEW p \in Seq(Bytes), NEW t \in Seq(Bytes),
           flattened_view(a.blocks) \in Seq(Bytes), Grew(a, b, p), Grew(b, c, t)
    PROVE  Grew(a, c, p \o t)
<1>1. PICK v : v = flattened_view(a.blocks)
  OBVIOUS
<1>2. Associative(v, p, t)
  BY <1>1, Associates
<1> QED BY <1>1, <1>2 DEF Grew, Associative

LEMMA DupChunkGrows ==
    ASSUME NEW buf \in Bufs, NEW chunk \in Seq(Block)
    PROVE  Grew(buf, DupChunk(buf, chunk), flattened_view(chunk))
<1> DEFINE n == Len(chunk)
<1>1. PICK at : /\ DupChunk(buf, chunk) = at[n]
                /\ at[0] \in Bufs /\ at[0].blocks = buf.blocks
                /\ \A i \in 1 .. n : at[i] = Appended(at[i - 1], chunk[i].data)
  BY DupChunkSteps
<1>2. PICK g : /\ Flattening(g, Datas(chunk), Bytes)
               /\ flattened_view(chunk) = g[n]
  <2>1. Datas(chunk) \in Seq(Seq(Bytes)) /\ Len(Datas(chunk)) = n
        /\ flattened_view(chunk) = FlattenSeq(Datas(chunk))
    BY DatasType
  <2> QED BY <2>1, FlattenSteps
<1>3. /\ n \in Nat /\ Len(Datas(chunk)) = n
      /\ \A i \in 1 .. n : Datas(chunk)[i] = chunk[i].data
      /\ \A i \in 1 .. n : Datas(chunk)[i] \in Seq(Bytes)
  BY DatasType, ElementOfSeq
<1> HIDE DEF n
<1>4. flattened_view(buf.blocks) \in Seq(Bytes)
  BY BufIsBuf, DatasType
<1> DEFINE Right == {i \in 0 .. n : Grew(buf, at[i], g[i])}
<1>5. 0 \in Right
  <2>1. 0 \in 0 .. n
    BY <1>3
  <2>2. flattened_view(buf.blocks) \o <<>> = flattened_view(buf.blocks)
    BY <1>4, ConcatEmptySeq
  <2>3. g[0] = <<>>
    BY <1>2 DEF Flattening
  <2> QED BY <1>1, <2>1, <2>2, <2>3 DEF Grew
<1>6. ASSUME NEW i \in 1 .. n, i - 1 \in Right PROVE i \in Right
  <2>1. i \in 0 .. n /\ i - 1 \in 0 .. n
    BY <1>3
  <2>2. Grew(buf, at[i - 1], g[i - 1]) /\ at[i - 1] \in Bufs
    BY <1>6 DEF Grew
  <2>3. g[i - 1] \in Seq(Bytes) /\ g[i] = g[i - 1] \o Datas(chunk)[i]
    BY <1>2, <1>3, <2>1 DEF Flattening
  <2>4. Grew(at[i - 1], at[i], Datas(chunk)[i])
    BY <1>1, <1>3, <2>2, AppendedGrows
  <2>5. PICK p, q, r, u : p = at[i - 1] /\ q = at[i] /\ r = g[i - 1]
                          /\ u = Datas(chunk)[i]
    OBVIOUS
  <2>6. Grew(buf, q, r \o u)
    BY <1>3, <1>4, <2>2, <2>3, <2>4, <2>5, GrewTwice
  <2> QED BY <2>1, <2>3, <2>5, <2>6
<1>7. n \in Right
  <2>1. \A i \in 0 .. n : i \in Right
    <3> HIDE DEF Right
    <3> QED BY <1>3, <1>5, <1>6, AllUpTo
  <2> QED BY <1>3, <2>1
<1> QED BY <1>1, <1>2, <1>7

-----------------------------------------------------------------------------
(* dup(): the chunks.                                                       *)

\* The chunks after block i, from those before it.
Chunked(blocks, c, i) ==
    IF i = 1 THEN <<<<blocks[1]>>>>
    ELSE IF Joined(SizesOf(blocks), i - 1)
    THEN [c EXCEPT ![Len(c)] = Append(@, blocks[i])]
    ELSE Append(c, <<blocks[i]>>)

LEMMA ExtendLast ==
    ASSUME NEW S, NEW c \in Seq(Seq(S)), NEW k \in S
    PROVE  LET d == [c EXCEPT ![Len(c)] = Append(@, k)]
           IN  /\ d \in Seq(Seq(S)) /\ Len(d) = Len(c)
               /\ \A i \in 1 .. Len(c) - 1 : d[i] = c[i]
               /\ Len(c) # 0 => d[Len(c)] = Append(c[Len(c)], k)
<1> DEFINE n == Len(c)
           d == [c EXCEPT ![n] = Append(@, k)]
<1>1. /\ n \in Nat /\ DOMAIN c = 1 .. n /\ c \in [1 .. n -> Seq(S)]
      /\ \A i \in 1 .. n : Append(c[i], k) \in Seq(S)
  BY AppendProperties
<1>2. \A i \in 1 .. n : d[i] = IF i = n THEN Append(c[n], k) ELSE c[i]
  BY <1>1
<1>3. d \in [1 .. n -> Seq(S)]
  BY <1>1, <1>2
<1>4. d \in Seq(Seq(S)) /\ Len(d) = n
  BY <1>1, <1>3, SeqDef, LenProperties
<1> HIDE DEF d
<1>5. /\ \A i \in 1 .. n - 1 : d[i] = c[i]
      /\ n # 0 => d[n] = Append(c[n], k)
  <2>0. n \in Nat
    BY <1>1
  <2> HIDE DEF n
  <2>1. \A i \in 1 .. n - 1 : i \in 1 .. n /\ i # n
    BY <2>0
  <2>2. n # 0 => n \in 1 .. n
    BY <2>0
  <2> QED BY <1>2, <2>1, <2>2
<1> QED BY <1>4, <1>5 DEF d

LEMMA ChunkedType ==
    ASSUME NEW blocks \in Seq(Block), NEW i \in 1 .. Len(blocks),
           NEW c \in Seq(Seq(Block))
    PROVE  Chunked(blocks, c, i) \in Seq(Seq(Block))
<1>1. /\ blocks[1] \in Block /\ blocks[i] \in Block
  BY ElementOfSeq
<1>2. /\ <<<<blocks[1]>>>> \in Seq(Seq(Block))
      /\ Append(c, <<blocks[i]>>) \in Seq(Seq(Block))
  BY <1>1
<1>3. [c EXCEPT ![Len(c)] = Append(@, blocks[i])] \in Seq(Seq(Block))
  BY <1>1, ExtendLast
<1> QED BY <1>2, <1>3 DEF Chunked

\* made[i] is the chunks after i blocks.
LEMMA ChunksSteps ==
    ASSUME NEW blocks \in Seq(Block)
    PROVE  \E made : /\ Chunks(blocks) = made[Len(blocks)]
                     /\ made[0] = <<>>
                     /\ \A i \in 1 .. Len(blocks) :
                            made[i] = Chunked(blocks, made[i - 1], i)
<1> DEFINE n == Len(blocks)
           X == Seq(Seq(Block))
           H == [i \in 1 .. n |-> [c \in X |-> Chunked(blocks, c, i)]]
           Step(it) == it = [s \in SUBSET (1 .. n) |->
                                IF s = {} THEN <<>>
                                ELSE Chunked(blocks, it[s \ {Max(s)}],
                                             [i \in 1 .. n |-> i][Max(s)])]
           chosen == CHOOSE it : Step(it)
           made == [i \in 0 .. n |-> chosen[1 .. i]]
<1>1. /\ n \in Nat /\ DOMAIN blocks = 1 .. n
      /\ DOMAIN [i \in 1 .. n |-> i] = 1 .. n
  OBVIOUS
<1>2. Chunks(blocks) = chosen[1 .. n]
  BY <1>1 DEF Chunks, Chunked, FoldLeftDomain, FoldLeft, MapThenFoldSet
<1>3. <<>> \in X
  OBVIOUS
<1>4. \E it : Step(it)
  <2>1. H \in [1 .. n -> [X -> X]]
    <3>1. \A i \in 1 .. n : \A c \in X : Chunked(blocks, c, i) \in X
      BY ChunkedType
    <3> HIDE DEF X
    <3> QED BY <3>1
  <2>2. PICK it \in [SUBSET (1 .. n) -> X] : Folding(it, n, H, <<>>)
    <3> HIDE DEF n, H, X
    <3> QED BY <1>1, <1>3, <2>1, FoldsExist
  <2>3. ASSUME NEW s \in SUBSET (1 .. n), s # {}
        PROVE  H[Greatest(s)][it[s \ {Greatest(s)}]]
                   = Chunked(blocks, it[s \ {Max(s)}], [i \in 1 .. n |-> i][Max(s)])
    <3>1. Max(s) \in 1 .. n /\ Max(s) = Greatest(s)
      BY <1>1, <2>3, GreatestOfSome DEF Max, Greatest
    <3>2. it[s \ {Max(s)}] \in X
      <4>1. s \ {Max(s)} \in SUBSET (1 .. n)
        OBVIOUS
      <4> HIDE DEF X
      <4> QED BY <4>1
    <3> HIDE DEF X
    <3> QED BY <3>1, <3>2
  <2> HIDE DEF H, n
  <2>4. Step(it)
    BY <2>2, <2>3 DEF Folding
  <2> QED BY <2>4
<1> HIDE DEF n, H, X
<1>5. Step(chosen)
  BY <1>4
<1> HIDE DEF chosen
<1>6. chosen[1 .. 0] = <<>>
  BY <1>5
<1>7. ASSUME NEW i \in 1 .. n
      PROVE  chosen[1 .. i] = Chunked(blocks, chosen[1 .. i - 1], i)
  <2>1. /\ 1 .. i \in SUBSET (1 .. n) /\ 1 .. i # {}
        /\ Max(1 .. i) = i /\ (1 .. i) \ {i} = 1 .. i - 1
    BY <1>1, UpToLast, MaxUpTo
  <2>2. [j \in 1 .. n |-> j][i] = i
    OBVIOUS
  <2> QED BY <1>5, <2>1, <2>2
<1>8. /\ made[0] = <<>> /\ made[n] = chosen[1 .. n]
      /\ \A i \in 1 .. n : made[i] = Chunked(blocks, made[i - 1], i)
  <2>1. 0 \in 0 .. n /\ n \in 0 .. n /\ \A i \in 1 .. n : i \in 0 .. n /\ i - 1 \in 0 .. n
    BY <1>1
  <2> QED BY <1>6, <1>7, <2>1
<1> HIDE DEF made
<1> QED BY <1>2, <1>8 DEF n

Views(c) == [j \in DOMAIN c |-> flattened_view(c[j])]

LEMMA ViewsType ==
    ASSUME NEW c \in Seq(Seq(Block))
    PROVE  /\ Views(c) \in Seq(Seq(Bytes)) /\ Len(Views(c)) = Len(c)
           /\ \A j \in 1 .. Len(c) : Views(c)[j] = flattened_view(c[j])
           /\ \A j \in 1 .. Len(c) : c[j] \in Seq(Block)
<1>1. /\ Len(c) \in Nat /\ DOMAIN c = 1 .. Len(c)
      /\ \A j \in 1 .. Len(c) : c[j] \in Seq(Block)
  BY ElementOfSeq
<1>2. \A j \in 1 .. Len(c) : flattened_view(c[j]) \in Seq(Bytes)
  BY <1>1, DatasType
<1>3. [j \in 1 .. Len(c) |-> flattened_view(c[j])] \in [1 .. Len(c) -> Seq(Bytes)]
  BY <1>2
<1> QED BY <1>1, <1>3, SeqDef, LenProperties DEF Views

LEMMA ViewOfOne ==
    ASSUME NEW k \in Block
    PROVE  <<k>> \in Seq(Block) /\ flattened_view(<<k>>) = k.data
<1>1. <<>> \in Seq(Block) /\ <<k>> = Append(<<>>, k) /\ k.data \in Seq(Bytes)
  BY DEF Block, Bytes
<1>2. flattened_view(<<>>) = <<>>
  <2>1. [i \in DOMAIN <<>> |-> <<>>[i].data] = <<>>
    OBVIOUS
  <2> QED BY <2>1, FlattenEmpty DEF flattened_view
<1>3. flattened_view(Append(<<>>, k)) = <<>> \o k.data
  BY <1>1, <1>2, ViewOfAppend
<1> QED BY <1>1, <1>3, ConcatEmptySeq

\* Chunks of blocks, none of them empty, whose bytes are those of view.
Covers(c, view, blocks) ==
    /\ c \in Seq(Seq(Block)) /\ FlattenSeq(Views(c)) = view
    /\ \A j \in 1 .. Len(c) : /\ Len(c[j]) # 0
                              /\ \E k \in 1 .. Len(blocks) : c[j][1] = blocks[k]

LEMMA ChunkAdded ==
    ASSUME NEW blocks \in Seq(Block), NEW i \in 1 .. Len(blocks),
           NEW c, NEW view, Covers(c, view, blocks)
    PROVE  Covers(Append(c, <<blocks[i]>>), view \o blocks[i].data, blocks)
<1> DEFINE d == Append(c, <<blocks[i]>>)
<1>1. /\ blocks[i] \in Block /\ <<blocks[i]>> \in Seq(Block)
      /\ flattened_view(<<blocks[i]>>) = blocks[i].data
      /\ blocks[i].data \in Seq(Bytes) /\ c \in Seq(Seq(Block))
      /\ Len(<<blocks[i]>>) # 0 /\ <<blocks[i]>>[1] = blocks[i]
  <2>1. blocks[i] \in Block
    BY ElementOfSeq
  <2> QED BY <2>1, ViewOfOne DEF Block, Bytes, Covers
<1>2. /\ d \in Seq(Seq(Block)) /\ Len(d) = Len(c) + 1 /\ Len(c) \in Nat
      /\ \A j \in 1 .. Len(c) : d[j] = c[j]
      /\ d[Len(c) + 1] = <<blocks[i]>>
  BY <1>1, AppendProperties
<1> HIDE DEF d
<1>3. PICK p, q, n : p = Views(c) /\ q = Views(d) /\ n = Len(c)
  OBVIOUS
<1>4. HasMore(p, q, blocks[i].data)
  <2>1. /\ Len(p) = n /\ Len(q) = n + 1 /\ n \in Nat
        /\ \A j \in 1 .. n : p[j] = flattened_view(c[j])
        /\ \A j \in 1 .. n + 1 : q[j] = flattened_view(d[j])
    BY <1>1, <1>2, <1>3, ViewsType
  <2>2. n + 1 \in 1 .. n + 1 /\ \A j \in 1 .. n : j \in 1 .. n + 1
    BY <2>1
  <2> QED BY <1>1, <1>2, <1>3, <2>1, <2>2 DEF HasMore
<1>5. FlattenSeq(q) = FlattenSeq(p) \o blocks[i].data
  <2>1. p \in Seq(Seq(Bytes)) /\ q \in Seq(Seq(Bytes))
    BY <1>1, <1>2, <1>3, ViewsType
  <2> QED BY <1>1, <1>4, <2>1, FlattenAppend
<1>6. ASSUME NEW j \in 1 .. Len(d)
      PROVE  Len(d[j]) # 0 /\ \E k \in 1 .. Len(blocks) : d[j][1] = blocks[k]
  <2>1. CASE j = Len(c) + 1
    BY <1>1, <1>2, <2>1
  <2>2. CASE j # Len(c) + 1
    <3>1. j \in 1 .. Len(c)
      BY <1>2, <2>2
    <3> QED BY <1>2, <3>1 DEF Covers
  <2> QED BY <2>1, <2>2
<1> QED BY <1>2, <1>3, <1>5, <1>6 DEF Covers, d

LEMMA ChunkExtended ==
    ASSUME NEW blocks \in Seq(Block), NEW i \in 1 .. Len(blocks),
           NEW c, NEW view, Covers(c, view, blocks), Len(c) # 0
    PROVE  Covers([c EXCEPT ![Len(c)] = Append(@, blocks[i])],
                  view \o blocks[i].data, blocks)
<1> DEFINE d == [c EXCEPT ![Len(c)] = Append(@, blocks[i])]
<1>1. blocks[i] \in Block /\ blocks[i].data \in Seq(Bytes) /\ c \in Seq(Seq(Block))
  <2>1. blocks[i] \in Block
    BY ElementOfSeq
  <2> QED BY <2>1 DEF Block, Bytes, Covers
<1>2. /\ d \in Seq(Seq(Block)) /\ Len(d) = Len(c)
      /\ \A j \in 1 .. Len(c) - 1 : d[j] = c[j]
      /\ d[Len(c)] = Append(c[Len(c)], blocks[i])
  BY <1>1, ExtendLast
<1> HIDE DEF d
<1>3. /\ Len(c) \in Nat /\ Len(c) \in 1 .. Len(c)
      /\ \A j \in 1 .. Len(c) - 1 : j \in 1 .. Len(c)
  <2>1. Len(c) \in Nat
    BY <1>1
  <2> QED BY <2>1
<1>4. /\ c[Len(c)] \in Seq(Block) /\ Len(c[Len(c)]) # 0
      /\ \E k \in 1 .. Len(blocks) : c[Len(c)][1] = blocks[k]
  BY <1>1, <1>3, ViewsType DEF Covers
<1>5. PICK last : last = c[Len(c)]
  OBVIOUS
<1>6. /\ flattened_view(Append(last, blocks[i]))
             = flattened_view(last) \o blocks[i].data
      /\ Len(Append(last, blocks[i])) # 0 /\ Append(last, blocks[i])[1] = last[1]
  <2>1. /\ last \in Seq(Block) /\ Len(last) \in Nat /\ Len(last) # 0
        /\ 1 \in 1 .. Len(last)
    BY <1>4, <1>5
  <2>2. Len(Append(last, blocks[i])) = Len(last) + 1
        /\ Append(last, blocks[i])[1] = last[1]
    BY <1>1, <2>1, AppendProperties
  <2> QED BY <1>1, <2>1, <2>2, ViewOfAppend
<1>7. PICK p, q, n : p = Views(c) /\ q = Views(d) /\ n = Len(c)
  OBVIOUS
<1>8. LastGains(p, q, blocks[i].data)
  <2>1. /\ Len(p) = n /\ Len(q) = n
        /\ \A j \in 1 .. n : p[j] = flattened_view(c[j])
        /\ \A j \in 1 .. n : q[j] = flattened_view(d[j])
    BY <1>1, <1>2, <1>7, ViewsType
  <2>2. q[n] = p[n] \o blocks[i].data
    BY <1>2, <1>3, <1>5, <1>6, <1>7, <2>1
  <2>3. \A j \in 1 .. n - 1 : p[j] = q[j]
    BY <1>2, <1>3, <1>7, <2>1
  <2> QED BY <1>7, <2>1, <2>2, <2>3 DEF LastGains
<1>9. FlattenSeq(q) = FlattenSeq(p) \o blocks[i].data
  <2>1. p \in Seq(Seq(Bytes)) /\ q \in Seq(Seq(Bytes))
    BY <1>1, <1>2, <1>7, ViewsType
  <2> QED BY <1>1, <1>8, <2>1, FlattenExtended
<1>10. ASSUME NEW j \in 1 .. Len(d)
       PROVE  Len(d[j]) # 0 /\ \E k \in 1 .. Len(blocks) : d[j][1] = blocks[k]
  <2>1. CASE j = Len(c)
    BY <1>2, <1>4, <1>5, <1>6, <2>1
  <2>2. CASE j # Len(c)
    <3>1. j \in 1 .. Len(c) - 1 /\ j \in 1 .. Len(c)
      BY <1>2, <1>3, <2>2
    <3> QED BY <1>2, <3>1 DEF Covers
  <2> QED BY <2>1, <2>2
<1> QED BY <1>2, <1>7, <1>9, <1>10 DEF Covers, d

LEMMA ChunksCover ==
    ASSUME NEW blocks \in Seq(Block)
    PROVE  Covers(Chunks(blocks), flattened_view(blocks), blocks)
<1> DEFINE n == Len(blocks)
<1>1. PICK made : /\ Chunks(blocks) = made[n]
                  /\ made[0] = <<>>
                  /\ \A i \in 1 .. n : made[i] = Chunked(blocks, made[i - 1], i)
  BY ChunksSteps
<1>2. PICK g : /\ Flattening(g, Datas(blocks), Bytes)
               /\ flattened_view(blocks) = g[n]
  <2>1. Datas(blocks) \in Seq(Seq(Bytes)) /\ Len(Datas(blocks)) = n
        /\ flattened_view(blocks) = FlattenSeq(Datas(blocks))
    BY DatasType
  <2> QED BY <2>1, FlattenSteps
<1>3. n \in Nat /\ Len(Datas(blocks)) = n
      /\ \A i \in 1 .. n : Datas(blocks)[i] = blocks[i].data
  BY DatasType
<1>4. Covers(<<>>, <<>>, blocks)
  <2>1. Views(<<>>) = <<>>
    BY DEF Views
  <2> QED BY <2>1, FlattenEmpty DEF Covers
<1>5. ASSUME NEW i \in 1 .. n, Covers(made[i - 1], g[i - 1], blocks),
             i # 1 => Len(made[i - 1]) # 0
      PROVE  Covers(made[i], g[i], blocks) /\ Len(made[i]) # 0
  <2>1. made[i] = Chunked(blocks, made[i - 1], i) /\ g[i] = g[i - 1] \o blocks[i].data
    BY <1>1, <1>2, <1>3 DEF Flattening
  <2>2. PICK c, view : c = made[i - 1] /\ view = g[i - 1]
    OBVIOUS
  <2>3. /\ Covers(c, view, blocks) /\ c \in Seq(Seq(Block)) /\ Len(c) \in Nat
        /\ blocks[i] \in Block
    BY <1>5, <2>2, ElementOfSeq DEF Covers
  <2>4. Covers(Append(c, <<blocks[i]>>), view \o blocks[i].data, blocks)
    BY <2>3, ChunkAdded
  <2>5. Len(c) # 0 => Covers([c EXCEPT ![Len(c)] = Append(@, blocks[i])],
                             view \o blocks[i].data, blocks)
    BY <2>3, ChunkExtended
  <2>6. /\ Len(Append(c, <<blocks[i]>>)) # 0
        /\ Len([c EXCEPT ![Len(c)] = Append(@, blocks[i])]) = Len(c)
    <3>1. Len(Append(c, <<blocks[i]>>)) = Len(c) + 1
      BY <2>3, AppendProperties
    <3>2. Len([c EXCEPT ![Len(c)] = Append(@, blocks[i])]) = Len(c)
      BY <2>3, ExtendLast
    <3> QED BY <2>3, <3>1, <3>2
  <2>7. CASE i = 1
    <3>1. c = <<>>
      BY <1>1, <2>2, <2>7
    <3>2. Chunked(blocks, c, i) = Append(c, <<blocks[i]>>)
      BY <2>7, <3>1 DEF Chunked
    <3> QED BY <2>1, <2>2, <2>4, <2>6, <3>2
  <2>8. CASE i # 1
    BY <1>5, <2>1, <2>2, <2>4, <2>5, <2>6, <2>8 DEF Chunked
  <2> QED BY <2>7, <2>8
<1> DEFINE Good == {i \in 0 .. n : /\ Covers(made[i], g[i], blocks)
                                   /\ i # 0 => Len(made[i]) # 0}
<1>6. 0 \in Good
  <2>1. 0 \in 0 .. n /\ g[0] = <<>>
    BY <1>2, <1>3 DEF Flattening
  <2> QED BY <1>1, <1>4, <2>1
<1>7. ASSUME NEW i \in 1 .. n, i - 1 \in Good PROVE i \in Good
  <2>1. i \in 0 .. n /\ (i # 1 => i - 1 # 0)
    BY <1>3
  <2> QED BY <1>5, <1>7, <2>1
<1>8. n \in Good
  <2>1. \A i \in 0 .. n : i \in Good
    <3> HIDE DEF Good, n
    <3> QED BY <1>3, <1>6, <1>7, AllUpTo
  <2> QED BY <1>3, <2>1
<1> QED BY <1>1, <1>2, <1>8

-----------------------------------------------------------------------------
(* dup()                                                                    *)

Empty == Buf(<<>>, m_newblock_capa, 0)

\* at[i] is the copy after i chunks.
LEMMA DupSteps ==
    ASSUME m_newblock_capa \in Nat, Chunks(m_blocks) \in Seq(Seq(Block))
    PROVE  \E at : /\ dup = at[Len(Chunks(m_blocks))].blocks
                   /\ at[0] = Empty
                   /\ \A i \in 1 .. Len(Chunks(m_blocks)) :
                          at[i] = DupChunk(at[i - 1], Chunks(m_blocks)[i])
<1> DEFINE chunks == Chunks(m_blocks)
           n == Len(chunks)
           H == [i \in 1 .. n |-> [b \in Bufs |-> DupChunk(b, chunks[i])]]
           Step(it) == it = [s \in SUBSET (1 .. n) |->
                                IF s = {} THEN Empty
                                ELSE DupChunk(it[s \ {Max(s)}], chunks[Max(s)])]
           chosen == CHOOSE it : Step(it)
           at == [i \in 0 .. n |-> chosen[1 .. i]]
<1>1. /\ n \in Nat /\ DOMAIN chunks = 1 .. n
      /\ \A i \in 1 .. n : chunks[i] \in Seq(Block)
  BY ElementOfSeq
<1>2. dup = chosen[1 .. n].blocks
  BY <1>1 DEF dup, FoldLeft, MapThenFoldSet, Empty
<1> HIDE DEF chunks
<1>3. Empty \in Bufs
  BY DEF Empty, Buf, Bufs
<1>4. \E it : Step(it)
  <2>1. H \in [1 .. n -> [Bufs -> Bufs]]
    <3>1. \A i \in 1 .. n : \A b \in Bufs : DupChunk(b, chunks[i]) \in Bufs
      BY <1>1, DupChunkGrows DEF Grew
    <3> QED BY <3>1
  <2>2. PICK it \in [SUBSET (1 .. n) -> Bufs] : Folding(it, n, H, Empty)
    <3> HIDE DEF n, H
    <3> QED BY <1>1, <1>3, <2>1, FoldsExist
  <2>3. ASSUME NEW s \in SUBSET (1 .. n), s # {}
        PROVE  H[Greatest(s)][it[s \ {Greatest(s)}]]
                   = DupChunk(it[s \ {Max(s)}], chunks[Max(s)])
    <3>1. Max(s) \in 1 .. n /\ Max(s) = Greatest(s)
      BY <1>1, <2>3, GreatestOfSome DEF Max, Greatest
    <3>2. it[s \ {Max(s)}] \in Bufs
      <4>1. s \ {Max(s)} \in SUBSET (1 .. n)
        OBVIOUS
      <4> QED BY <4>1
    <3> QED BY <3>1, <3>2
  <2> HIDE DEF H, n
  <2>4. Step(it)
    BY <2>2, <2>3 DEF Folding
  <2> QED BY <2>4
<1> HIDE DEF n, H
<1>5. Step(chosen)
  BY <1>4
<1> HIDE DEF chosen
<1>6. chosen[1 .. 0] = Empty
  BY <1>5
<1>7. ASSUME NEW i \in 1 .. n
      PROVE  chosen[1 .. i] = DupChunk(chosen[1 .. i - 1], chunks[i])
  <2>1. /\ 1 .. i \in SUBSET (1 .. n) /\ 1 .. i # {}
        /\ Max(1 .. i) = i /\ (1 .. i) \ {i} = 1 .. i - 1
    BY <1>1, UpToLast, MaxUpTo
  <2> QED BY <1>5, <2>1
<1>8. /\ at[0] = Empty /\ at[n] = chosen[1 .. n]
      /\ \A i \in 1 .. n : at[i] = DupChunk(at[i - 1], chunks[i])
  <2>1. 0 \in 0 .. n /\ n \in 0 .. n /\ \A i \in 1 .. n : i \in 0 .. n /\ i - 1 \in 0 .. n
    BY <1>1
  <2> QED BY <1>6, <1>7, <2>1
<1> HIDE DEF at
<1> QED BY <1>2, <1>8 DEF n, chunks

\* The copy holds what the chunks hold.
LEMMA DupOfChunks ==
    ASSUME m_newblock_capa \in Nat, Chunks(m_blocks) \in Seq(Seq(Block))
    PROVE  flattened_view(dup) = FlattenSeq(Views(Chunks(m_blocks)))
<1> DEFINE chunks == Chunks(m_blocks)
           n == Len(chunks)
<1>1. PICK at : /\ dup = at[n].blocks /\ at[0] = Empty
                /\ \A i \in 1 .. n : at[i] = DupChunk(at[i - 1], chunks[i])
  BY DupSteps
<1>2. PICK g : Flattening(g, Views(chunks), Bytes) /\ FlattenSeq(Views(chunks)) = g[n]
  <2>1. Views(chunks) \in Seq(Seq(Bytes)) /\ Len(Views(chunks)) = n
    BY ViewsType
  <2> QED BY <2>1, FlattenSteps
<1>3. /\ n \in Nat /\ Len(Views(chunks)) = n
      /\ \A i \in 1 .. n : Views(chunks)[i] = flattened_view(chunks[i])
      /\ \A i \in 1 .. n : chunks[i] \in Seq(Block)
  BY ViewsType
<1> HIDE DEF n, chunks
<1>4. Empty \in Bufs /\ flattened_view(Empty.blocks) = <<>>
  <2>1. flattened_view(<<>>) = <<>>
    <3>1. [i \in DOMAIN <<>> |-> <<>>[i].data] = <<>>
      OBVIOUS
    <3> QED BY <3>1, FlattenEmpty DEF flattened_view
  <2> QED BY <2>1 DEF Empty, Buf, Bufs
<1> HIDE DEF Empty
<1> DEFINE Right == {i \in 0 .. n : Grew(Empty, at[i], g[i])}
<1>5. 0 \in Right
  <2>1. 0 \in 0 .. n /\ g[0] = <<>>
    BY <1>2, <1>3 DEF Flattening
  <2>2. <<>> \o <<>> = <<>>
    OBVIOUS
  <2> QED BY <1>1, <1>4, <2>1, <2>2 DEF Grew
<1>6. ASSUME NEW i \in 1 .. n, i - 1 \in Right PROVE i \in Right
  <2>1. i \in 0 .. n /\ i - 1 \in 0 .. n
    BY <1>3
  <2>2. Grew(Empty, at[i - 1], g[i - 1]) /\ at[i - 1] \in Bufs
    BY <1>6 DEF Grew
  <2>3. g[i - 1] \in Seq(Bytes) /\ g[i] = g[i - 1] \o Views(chunks)[i]
    BY <1>2, <1>3, <2>1 DEF Flattening
  <2>4. Grew(at[i - 1], at[i], Views(chunks)[i]) /\ Views(chunks)[i] \in Seq(Bytes)
    BY <1>1, <1>3, <2>2, DupChunkGrows, DatasType
  <2>5. PICK p, q, r, u : p = at[i - 1] /\ q = at[i] /\ r = g[i - 1]
                          /\ u = Views(chunks)[i]
    OBVIOUS
  <2>6. Grew(Empty, q, r \o u)
    <3>1. flattened_view(Empty.blocks) \in Seq(Bytes)
      BY <1>4
    <3> QED BY <2>2, <2>3, <2>4, <2>5, <3>1, GrewTwice
  <2> QED BY <2>1, <2>3, <2>5, <2>6
<1>7. n \in Right
  <2>1. \A i \in 0 .. n : i \in Right
    <3> HIDE DEF Right
    <3> QED BY <1>3, <1>5, <1>6, AllUpTo
  <2> QED BY <1>3, <2>1
<1>8. g[n] \in Seq(Bytes) /\ flattened_view(dup) = <<>> \o g[n]
  <2>1. n \in 0 .. n
    BY <1>3
  <2> QED BY <1>1, <1>2, <1>3, <1>4, <1>7, <2>1 DEF Grew, Flattening
<1> QED BY <1>2, <1>8, ConcatEmptySeq DEF chunks

LEMMA DupCopies ==
    ASSUME m_newblock_capa \in Nat, m_blocks \in Seq(Block)
    PROVE  DupSameContent
<1>1. Covers(Chunks(m_blocks), flattened_view(m_blocks), m_blocks)
  BY ChunksCover
<1>2. flattened_view(dup) = flattened_view(m_blocks)
  BY <1>1, DupOfChunks DEF Covers
<1>3. ASSUME DupAsserts PROVE \E i \in DOMAIN m_blocks : m_blocks[i].data = <<>>
  <2>1. /\ Chunks(m_blocks) \in Seq(Seq(Block))
        /\ DOMAIN Chunks(m_blocks) = 1 .. Len(Chunks(m_blocks))
    BY <1>1 DEF Covers
  <2>2. PICK i \in 1 .. Len(Chunks(m_blocks)) :
            total_nbytes_valid(Chunks(m_blocks)[i]) = 0
    BY <1>3, <2>1 DEF DupAsserts
  <2>3. PICK chunk : chunk = Chunks(m_blocks)[i]
    OBVIOUS
  <2>4. chunk \in Seq(Block) /\ Len(chunk) # 0 /\ Len(chunk) \in Nat
        /\ 1 \in 1 .. Len(chunk)
    <3>1. chunk \in Seq(Block) /\ Len(chunk) # 0
      BY <1>1, <2>1, <2>3, ViewsType DEF Covers
    <3> QED BY <3>1
  <2>5. PICK k \in 1 .. Len(m_blocks) : chunk[1] = m_blocks[k]
    BY <1>1, <2>3 DEF Covers
  <2>6. Len(chunk[1].data) = 0
    <3>1. /\ SizesOf(chunk) \in Seq(Nat) /\ Len(SizesOf(chunk)) = Len(chunk)
          /\ SizesOf(chunk)[1] = Len(chunk[1].data)
      BY <2>4, SizesType
    <3>2. SizesOf(chunk)[1] \in Nat /\ Len(SizesOf(chunk)) > 0
      BY <2>4, <3>1
    <3>3. Total(SizesOf(chunk)) = 0
      BY <2>2, <2>3 DEF total_nbytes_valid
    <3>4. Total(SizesOf(chunk)) >= SizesOf(chunk)[1]
      BY <3>1, <3>2, TotalRight
    <3> QED BY <3>1, <3>2, <3>3, <3>4
  <2>7. m_blocks[k].data = <<>>
    <3>1. m_blocks[k].data \in Seq(1 .. MaxBytes)
      <4>1. m_blocks[k] \in Block
        BY ElementOfSeq
      <4> QED BY <4>1 DEF Block
    <3> QED BY <2>5, <2>6, <3>1, EmptySeq
  <2>8. k \in DOMAIN m_blocks
    OBVIOUS
  <2> QED BY <2>7, <2>8
<1> QED BY <1>2, <1>3 DEF DupSameContent

\* What dup() needs, and every client leaves: the last block is the current one.
Copyable == this \in Bufs /\ written \in Nat

LEMMA ThisIsBuf ==
    ASSUME Copyable
    PROVE  /\ m_blocks \in Seq(Block) /\ m_newblock_capa \in Nat
           /\ m_current_block = Len(m_blocks)
           /\ this.blocks = m_blocks /\ this.current = m_current_block
BY DEF Copyable, this, Buf, Bufs

LEMMA BecomesBuf ==
    ASSUME NEW buf \in Bufs, Becomes(buf), written' \in Nat
    PROVE  Copyable'
<1>1. /\ buf.blocks \in Seq(Block) /\ buf.capa \in Nat
      /\ buf.current = Len(buf.blocks)
  BY DEF Bufs
<1> QED BY <1>1 DEF Becomes, Copyable, this, Buf, Bufs

LEMMA ProducerCopyable ==
    ASSUME Copyable, NEW n \in Sizes,
           WritableSpan(n) \/ AppendBytes(n) \/ CommitWrite(n)
    PROVE  Copyable'
<1>1. n \in Nat /\ this \in Bufs /\ written \in Nat
  BY BufferAssumption DEF Copyable
<1>2. written + n <= MaxBytes => NextBytes(n) \in Seq(Bytes) /\ Len(NextBytes(n)) = n
  BY <1>1, ByteNumbers DEF NextBytes, Bytes
<1>3. CASE WritableSpan(n)
  <2>1. WithSpan(this, n) \in Bufs
    BY <1>1, SpanReady DEF Grew
  <2> QED BY <1>1, <1>3, <2>1, BecomesBuf DEF WritableSpan
<1>4. CASE AppendBytes(n)
  <2>1. Appended(this, NextBytes(n)) \in Bufs
    BY <1>1, <1>2, <1>4, AppendedGrows DEF AppendBytes, Grew
  <2> QED BY <1>1, <1>4, <2>1, BecomesBuf DEF AppendBytes
<1>5. CASE CommitWrite(n)
  <2>1. Filled(this, NextBytes(n)) \in Bufs
    <3>1. CASE n > CurrentLeft(this)
      BY <1>1, <1>2, <1>5, <3>1 DEF Filled, CommitWrite
    <3>2. CASE ~(n > CurrentLeft(this)) /\ this.current # 0
      <4>1. CurrentLeft(this) \in Int
        <5>1. /\ m_blocks[Len(m_blocks)] \in Block
              /\ CurrentLeft(this) = Left(m_blocks[Len(m_blocks)])
          BY <3>2, ThisIsBuf, ElementOfSeq DEF CurrentLeft, Current
        <5> QED BY <5>1 DEF Block, Left
      <4> QED BY <1>1, <1>2, <1>5, <3>2, <4>1, FilledGrows DEF Grew, CommitWrite
    <3>3. CASE ~(n > CurrentLeft(this)) /\ this.current = 0
      <4>1. m_blocks = <<>>
        BY <3>3, ThisIsBuf, EmptySeq
      <4>2. Filled(this, NextBytes(n))
               = [this EXCEPT !.blocks[0].data = @ \o NextBytes(n)]
        BY <1>2, <1>5, <3>3 DEF Filled, CommitWrite
      <4>3. [m_blocks EXCEPT ![0].data = @ \o NextBytes(n)] = m_blocks
        BY <4>1
      <4>4. Filled(this, NextBytes(n)) = this
        BY <4>2, <4>3 DEF this, Buf
      <4> QED BY <1>1, <4>4
    <3> QED BY <3>1, <3>2, <3>3
  <2> QED BY <1>1, <1>5, <2>1, BecomesBuf DEF CommitWrite
<1> QED BY <1>3, <1>4, <1>5

LEMMA RemovedIsBlocks ==
    ASSUME m_blocks \in Seq(Block)
    PROVE  BlocksRemoved \in Seq(Block) /\ Len(BlocksRemoved) = Len(m_blocks)
<1> DEFINE e == m_current_reading_block_idx + 1
<1>1. BlocksRemoved = [m_blocks EXCEPT ![e] = Released]
  BY DEF BlocksRemoved
<1> HIDE DEF e
<1>2. CASE e \in 1 .. Len(m_blocks)
  BY <1>1, <1>2, Removes DEF Without
<1>3. CASE e \notin 1 .. Len(m_blocks)
  <2>1. BlocksRemoved = m_blocks
    BY <1>1, <1>3
  <2> QED BY <2>1
<1> QED BY <1>2, <1>3

LEMMA AlwaysCopyable == Spec => []Copyable
<1>1. Init => Copyable
  <2> SUFFICES ASSUME Init PROVE Copyable
    OBVIOUS
  <2>1. m_newblock_capa \in Nat /\ m_blocks = <<>> /\ m_current_block = 0 /\ written = 0
    BY BufferAssumption DEF Init
  <2>2. this = Buf(<<>>, m_newblock_capa, 0)
    BY <2>1 DEF this
  <2> QED BY <2>1, <2>2 DEF Copyable, Buf, Bufs
<1>2. Copyable /\ [Next]_vars => Copyable'
  <2> SUFFICES ASSUME Copyable, [Next]_vars PROVE Copyable'
    OBVIOUS
  <2>1. /\ m_blocks \in Seq(Block) /\ m_newblock_capa \in Nat
        /\ m_current_block = Len(m_blocks) /\ written \in Nat
    BY ThisIsBuf DEF Copyable
  <2>2. ASSUME /\ m_blocks' \in Seq(Block) /\ m_newblock_capa' \in Nat
               /\ m_current_block' = Len(m_blocks') /\ written' \in Nat
        PROVE  Copyable'
    BY <2>2 DEF Copyable, this, Buf, Bufs
  <2>3. CASE Produce
    BY <2>3, ProducerCopyable DEF Produce
  <2>4. CASE Commit
    BY <2>4, ProducerCopyable DEF Commit
  <2>5. ASSUME NEW capa \in Capas, SetNewBlockCapacity(capa) PROVE Copyable'
    BY <2>1, <2>2, <2>5, BufferAssumption DEF SetNewBlockCapacity
  <2>6. CASE Consume
    <3>1. PICK nele \in 1 .. NextElements :
              CommitRead(nele) \/ CommitRemoveAfterRead(nele)
      BY <2>6 DEF Consume
    <3>2. CASE CommitRead(nele)
      BY <2>1, <2>2, <3>2 DEF CommitRead
    <3>3. CASE CommitRemoveAfterRead(nele)
      <4>1. /\ m_blocks' \in {BlocksRemoved, m_blocks}
            /\ UNCHANGED <<m_newblock_capa, m_current_block, written>>
        BY <3>3 DEF CommitRemoveAfterRead
      <4>2. m_blocks' \in Seq(Block) /\ Len(m_blocks') = Len(m_blocks)
        BY <2>1, <4>1, RemovedIsBlocks
      <4> QED BY <2>1, <2>2, <4>1, <4>2
    <3> QED BY <3>1, <3>2, <3>3
  <2>7. CASE ResetReadingInfo \/ MoveConstruct
    BY <2>1, <2>2, <2>7 DEF ResetReadingInfo, MoveConstruct
  <2>8. CASE MoveAssignFresh
    BY <2>1, <2>2, <2>8 DEF MoveAssignFresh
  <2>9. CASE UNCHANGED vars
    BY <2>1, <2>2, <2>9 DEF vars
  <2> QED BY <2>3, <2>4, <2>5, <2>6, <2>7, <2>8, <2>9 DEF Next
<1> QED BY <1>1, <1>2, PTL DEF Spec

\* A copy holds the same bytes in the same order, whatever its blocks are, for
\* a client of any habits; and where dup() fails its assertion, a block is empty.
THEOREM BufferDupSameContent == Spec => []DupSameContent
<1>1. Copyable => DupSameContent
  BY ThisIsBuf, DupCopies
<1> QED BY <1>1, AlwaysCopyable, PTL

=============================================================================
