------------------------------- MODULE Buffer -------------------------------
(***************************************************************************)
(* toolpex::buffer and buffer_lens (include/toolpex/buffer.h,              *)
(* src/buffer.cc): a queue of memory blocks that a producer fills, through *)
(* append() or through writable_span() and commit_write(), and a consumer  *)
(* reads through a lens of EleSize-byte elements: next_readable_span(),    *)
(* then commit_read() or commit_remove_after_read().                       *)
(*                                                                         *)
(* A byte is the number of its place in the order of writing.  A block     *)
(* whose memory was released has capacity 0.  Indices of blocks count from *)
(* 1 here, and m_current_block is 0 for nullptr.                           *)
(*                                                                         *)
(* A client with all the habits of Discipline is served as the names of    *)
(* the operations promise; the guards say what each habit refrains from:   *)
(*   "commit"   commit to every span, and never nothing                    *)
(*   "turns"    do not write to blocks that were read and kept, until      *)
(*              reading starts anew                                        *)
(*   "whole"    do not move-construct from a buffer with removed blocks    *)
(*   "rewound"  do not assign to a buffer that has been read               *)
(***************************************************************************)
EXTENDS Integers, FiniteSets, SequencesExt

CONSTANTS
    Align,      \* buffer_block::alignment
    Capas,      \* the block capacities the client sets
    Sizes,      \* the sizes it asks for, in bytes
    EleSize,    \* sizeof(EleT) of the lens
    MaxBytes,   \* bound: bytes written in a behaviour
    MaxBlocks,  \* bound: blocks in the buffer
    Discipline, \* the client's habits, see above
    Operations  \* the optional operations the client uses

ASSUME BufferAssumption ==
    /\ Align \in Nat \ {0} /\ EleSize \in Nat \ {0}
    /\ Align % EleSize = 0
    /\ MaxBytes \in Nat /\ MaxBlocks \in Nat
    /\ Capas \subseteq Nat \ {0} /\ Sizes \subseteq Nat
    /\ \A n \in Sizes : n % EleSize = 0
    /\ Discipline \subseteq {"commit", "turns", "whole", "rewound"}
    /\ Operations \subseteq {"keep", "remove", "reset", "construct", "assign"}

VARIABLES
    m_blocks, m_newblock_capa, m_current_block,
    m_current_reading_block_idx, m_current_block_readed_nbytes,
    span,       \* the size of the writable span the producer holds, or NoSpan
    keeping,    \* commit_read() was used since reading began
    written, received   \* as in ByteStream

reading == <<m_current_reading_block_idx, m_current_block_readed_nbytes>>
vars == <<m_blocks, m_newblock_capa, m_current_block, reading, span, keeping,
          written, received>>

NoSpan == -1

-----------------------------------------------------------------------------
(* Blocks, and buffers as far as writing goes.                             *)

\* buffer_block's constructor rounds the capacity up to the alignment.
RoundedUp(n) == ((n + Align - 1) \div Align) * Align
NewBlock(capa) == [capa |-> RoundedUp(capa), data |-> <<>>]
Released == [capa |-> 0, data |-> <<>>]

Left(block) == block.capa - Len(block.data)

Buf(blocks, capa, current) ==
    [blocks |-> blocks, capa |-> capa, current |-> current]
Current(buf) == buf.blocks[buf.current]
CurrentLeft(buf) == IF buf.current = 0 THEN 0 ELSE Left(Current(buf))

\* writable_span(at_least) takes a new block; with at_least = 0 it always does.
TakesNew(buf, at_least) ==
    \/ CurrentLeft(buf) = 0
    \/ at_least = 0
    \/ CurrentLeft(buf) < at_least

\* Mutant of WithSpan: the block is not enlarged to what was asked for.
MutantWithSpanSmall(buf, at_least) ==
    IF ~TakesNew(buf, at_least) THEN buf
    ELSE Buf(Append(buf.blocks, NewBlock(buf.capa)), buf.capa,
             Len(buf.blocks) + 1)

\* The buffer after writable_span(at_least).
WithSpan(buf, at_least) ==
    IF ~TakesNew(buf, at_least) THEN buf
    ELSE Buf(Append(buf.blocks, NewBlock(IF at_least < buf.capa
                                         THEN buf.capa ELSE at_least)),
             buf.capa, Len(buf.blocks) + 1)

\* Mutant of Filled: the bytes go to the first block with room for them.
MutantFilledFirst(buf, bytes) ==
    LET fits == {i \in 1 .. Len(buf.blocks) :
                    Left(buf.blocks[i]) >= Len(bytes)}
    IN IF fits = {} THEN buf
       ELSE [buf EXCEPT !.blocks[Min(fits)].data = @ \o bytes]

\* The buffer after bytes were copied to the span and commit_write(n); the
\* commit does nothing when they do not fit.
Filled(buf, bytes) ==
    IF Len(bytes) > CurrentLeft(buf) THEN buf
    ELSE [buf EXCEPT !.blocks[buf.current].data = @ \o bytes]

\* append_bytes(bytes)
Appended(buf, bytes) == Filled(WithSpan(buf, Len(bytes)), bytes)

SizesOf(blocks) == [i \in DOMAIN blocks |-> Len(blocks[i].data)]
Total(sizes) == FoldLeft(LAMBDA s, n : s + n, 0, sizes)
total_nbytes_valid(blocks) == Total(SizesOf(blocks))
flattened_view(blocks) == FlattenSeq([i \in DOMAIN blocks |-> blocks[i].data])

this == Buf(m_blocks, m_newblock_capa, m_current_block)

Becomes(buf) == /\ m_blocks' = buf.blocks
                /\ m_newblock_capa' = buf.capa
                /\ m_current_block' = buf.current

Init == /\ m_blocks = <<>> /\ m_newblock_capa \in Capas /\ m_current_block = 0
        /\ m_current_reading_block_idx = 0 /\ m_current_block_readed_nbytes = 0
        /\ span = NoSpan
        /\ keeping = FALSE
        /\ written = 0
        /\ received = <<>>

-----------------------------------------------------------------------------
(* The producer.                                                           *)

MayWrite == "turns" \in Discipline => ~keeping

RoomFor(buf) == Len(buf.blocks) <= MaxBlocks

WritableSpan(at_least) ==
    /\ MayWrite /\ written < MaxBytes
    /\ "commit" \in Discipline => span = NoSpan
    /\ RoomFor(WithSpan(this, at_least))
    /\ Becomes(WithSpan(this, at_least))
    /\ span' = CurrentLeft(WithSpan(this, at_least))
    /\ UNCHANGED <<reading, keeping, written, received>>

NextBytes(n) == [i \in 1 .. n |-> written + i]

\* commit_write() returns true.  What it does not take, for want of room in
\* the current block, is not written.
Accepts(n) == n <= CurrentLeft(this)

CommitWrite(n) ==
    /\ span # NoSpan /\ n <= span /\ written + n <= MaxBytes
    /\ "commit" \in Discipline => n > 0
    /\ Becomes(Filled(this, NextBytes(n)))
    /\ span' = NoSpan
    /\ written' = IF Accepts(n) THEN written + n ELSE written
    /\ UNCHANGED <<reading, keeping, received>>

\* A span that the producer did not commit to is given up.
AppendBytes(n) ==
    /\ MayWrite /\ written + n <= MaxBytes
    /\ "commit" \in Discipline => n > 0 /\ span = NoSpan
    /\ RoomFor(Appended(this, NextBytes(n)))
    /\ Becomes(Appended(this, NextBytes(n)))
    /\ span' = NoSpan
    /\ written' = written + n
    /\ UNCHANGED <<reading, keeping, received>>

SetNewBlockCapacity(capa) ==
    /\ m_newblock_capa' = capa
    /\ UNCHANGED <<m_blocks, m_current_block, reading, span, keeping, written,
                   received>>

-----------------------------------------------------------------------------
(* The consumer.                                                           *)

ReadingBlock == m_blocks[m_current_reading_block_idx + 1]

next_readable_span ==
    IF m_current_reading_block_idx >= Len(m_blocks) THEN <<>>
    ELSE SubSeq(ReadingBlock.data, m_current_block_readed_nbytes + 1,
                Len(ReadingBlock.data))

\* The lens counts in elements.
NextElements == Len(next_readable_span) \div EleSize

ReadsWhole(nbytes) ==
    m_current_block_readed_nbytes + nbytes = Len(ReadingBlock.data)

\* Mutant of AdvanceReading: the offset into the block read is not reset.
MutantAdvanceKeepsOffset(nbytes) ==
    /\ m_current_block_readed_nbytes' = m_current_block_readed_nbytes + nbytes
    /\ m_current_reading_block_idx' = m_current_reading_block_idx
                                       + IF ReadsWhole(nbytes) THEN 1 ELSE 0

\* Mutant of AdvanceReading: the block read to its end is not left.
MutantAdvanceStays(nbytes) ==
    /\ m_current_block_readed_nbytes' = m_current_block_readed_nbytes + nbytes
    /\ UNCHANGED m_current_reading_block_idx

\* commit_read_impl moves on to the next block when this one is read.
AdvanceReading(nbytes) ==
    IF ReadsWhole(nbytes)
    THEN /\ m_current_reading_block_idx' = m_current_reading_block_idx + 1
         /\ m_current_block_readed_nbytes' = 0
    ELSE /\ m_current_block_readed_nbytes' =
                m_current_block_readed_nbytes + nbytes
         /\ UNCHANGED m_current_reading_block_idx

Receive(nbytes) == received' = received \o SubSeq(next_readable_span, 1, nbytes)

CommitRead(nele) ==
    /\ "keep" \in Operations
    /\ "turns" \in Discipline => span = NoSpan
    /\ nele <= NextElements
    /\ AdvanceReading(nele * EleSize)
    /\ Receive(nele * EleSize)
    /\ keeping' = TRUE
    /\ UNCHANGED <<m_blocks, m_newblock_capa, m_current_block, span, written>>

BlocksRemoved ==
    [m_blocks EXCEPT ![m_current_reading_block_idx + 1] = Released]

\* The block is released whether or not the producer holds a span into it.
CommitRemoveAfterRead(nele) ==
    /\ "remove" \in Operations
    /\ nele <= NextElements
    /\ m_blocks' = IF ReadsWhole(nele * EleSize)
                   THEN BlocksRemoved ELSE m_blocks
    /\ AdvanceReading(nele * EleSize)
    /\ Receive(nele * EleSize)
    /\ UNCHANGED <<m_newblock_capa, m_current_block, span, keeping, written>>

HasNoRemove == \A i \in DOMAIN m_blocks : m_blocks[i].capa # 0

\* The bytes that went with their blocks.
Removed == {byte \in 1 .. written :
               \A i \in DOMAIN m_blocks : byte \notin ToSet(m_blocks[i].data)}

\* Reading begins again with the first byte the buffer still holds.
ReadFromStart == /\ m_current_reading_block_idx' = 0
                 /\ m_current_block_readed_nbytes' = 0
                 /\ received' = [i \in 1 .. Cardinality(Removed) |-> i]
                 /\ keeping' = FALSE

\* The code asserts that nothing was removed.
ResetReadingInfo ==
    /\ "reset" \in Operations
    /\ HasNoRemove
    /\ ReadFromStart
    /\ UNCHANGED <<m_blocks, m_newblock_capa, m_current_block, span, written>>

-----------------------------------------------------------------------------
(* Moves.                                                                  *)

\* buffer(buffer&&), both clients going on with the new buffer: the blocks
\* move, the reading position does not.
MoveConstruct ==
    /\ "construct" \in Operations
    /\ "whole" \in Discipline => HasNoRemove
    /\ ReadFromStart
    /\ UNCHANGED <<m_blocks, m_newblock_capa, m_current_block, span, written>>

\* operator=(buffer&&) from a fresh buffer: its blocks come, its capacity and
\* reading position do not; a span goes with the blocks it pointed into.
MoveAssignFresh ==
    /\ "assign" \in Operations
    /\ "rewound" \in Discipline => reading = <<0, 0>>
    /\ m_blocks' = <<>>
    /\ m_current_block' = 0
    /\ written' = 0 /\ received' = <<>>
    /\ span' = NoSpan
    /\ keeping' = FALSE
    /\ UNCHANGED <<m_newblock_capa, reading>>

-----------------------------------------------------------------------------

Produce == \E n \in Sizes : WritableSpan(n) \/ AppendBytes(n)
Commit == \E n \in Sizes : CommitWrite(n)
Consume == \E nele \in 1 .. NextElements :
               CommitRead(nele) \/ CommitRemoveAfterRead(nele)

Next == \/ Produce \/ Commit
        \/ \E capa \in Capas : SetNewBlockCapacity(capa)
        \/ Consume \/ ResetReadingInfo
        \/ MoveConstruct \/ MoveAssignFresh

Spec == Init /\ [][Next]_vars

\* A consumer that reads whenever there is something to read, and a producer
\* that commits to the spans it asks for.
LiveSpec == Spec /\ WF_vars(Consume) /\ WF_vars(Commit)

-----------------------------------------------------------------------------
(* dup(): blocks that chunk_by puts together share a block of the copy.    *)

\* The lambda's sum after it compared blocks i and i + 1: the first time it
\* adds the left size, later whether the right size is small.
SumAfter(sizes) ==
    LET sum[i \in 1 .. Len(sizes)] ==
            IF i = 1 THEN IF sizes[1] < m_newblock_capa THEN sizes[1] ELSE 0
            ELSE sum[i - 1] + IF i < Len(sizes) /\ sizes[i + 1] < m_newblock_capa
                              THEN 1 ELSE 0
    IN sum

\* Blocks i and i + 1 are in one chunk.
Joined(sizes, i) == IF i = 1 THEN sizes[1] < m_newblock_capa
                    ELSE SumAfter(sizes)[i] # 0

\* Mutant of Chunks: chunk_by loses the block after a break.
MutantChunksSkip(blocks) ==
    FoldLeftDomain(
        LAMBDA chunks, i :
            IF i = 1 THEN <<<<blocks[1]>>>>
            ELSE IF Joined(SizesOf(blocks), i - 1)
            THEN [chunks EXCEPT ![Len(chunks)] = Append(@, blocks[i])]
            ELSE Append(chunks, <<>>),
        <<>>, blocks)

Chunks(blocks) ==
    FoldLeftDomain(
        LAMBDA chunks, i :
            IF i = 1 THEN <<<<blocks[1]>>>>
            ELSE IF Joined(SizesOf(blocks), i - 1)
            THEN [chunks EXCEPT ![Len(chunks)] = Append(@, blocks[i])]
            ELSE Append(chunks, <<blocks[i]>>),
        <<>>, blocks)

\* Each chunk is appended, block by block, to blocks of the size it needs.
DupChunk(buf, chunk) ==
    FoldLeft(LAMBDA b, block : Appended(b, block.data),
             [buf EXCEPT !.capa = total_nbytes_valid(chunk)], chunk)

dup == FoldLeft(DupChunk, Buf(<<>>, m_newblock_capa, 0), Chunks(m_blocks)).blocks

\* For a chunk that holds nothing dup() sets the capacity of new blocks to 0 and
\* asks for one, which a build with assertions does not survive.
DupAsserts == \E i \in DOMAIN Chunks(m_blocks) :
                  total_nbytes_valid(Chunks(m_blocks)[i]) = 0

-----------------------------------------------------------------------------
(* Properties.                                                             *)

Block == [capa : Nat, data : Seq(1 .. MaxBytes)]

\* Every variable keeps to its type, and no block holds more than its capacity.
TypeOK ==
    /\ m_blocks \in Seq(Block)
    /\ \A i \in DOMAIN m_blocks : Len(m_blocks[i].data) <= m_blocks[i].capa
    /\ m_newblock_capa \in Capas
    /\ m_current_block \in 0 .. Len(m_blocks)
    /\ m_current_reading_block_idx \in Nat
    /\ m_current_block_readed_nbytes \in Nat
    /\ span \in Nat \cup {NoSpan}
    /\ keeping \in BOOLEAN
    /\ written \in 0 .. MaxBytes
    /\ received \in Seq(1 .. MaxBytes)

\* The block of the span is gone: commit_remove_after_read() released it.
SpanStale == span # NoSpan /\ Current(this) = Released

\* The span the producer holds is the free part of the block that commit_write()
\* is going to fill, so that a commit of no more than its size succeeds, across
\* rewinds and moves; unless the consumer removed that very block meanwhile,
\* which it does only when it has read everything there is.
SpanStaysValid ==
    /\ span # NoSpan /\ ~SpanStale => span = CurrentLeft(this)
    /\ SpanStale => Len(received) = written

\* next_readable_span() never cuts beyond the end of a block's valid span.
ReadCursorInside ==
    m_current_reading_block_idx < Len(m_blocks) =>
        m_current_block_readed_nbytes <= Len(ReadingBlock.data)

\* Both clients' views stay inside the blocks: the producer's span and the
\* consumer's reading position, across removals, rewinds and moves.
CursorsValid == TypeOK /\ SpanStaysValid /\ ReadCursorInside

\* An empty readable span means that everything committed has been read: the
\* loop of the simple_read test misses nothing.
DrainedWhenEmpty == NextElements = 0 => Len(received) = written

\* dup() copies the valid bytes, all of them and in order, however the blocks
\* are put together; and only empty blocks make it fail an assertion.
DupSameContent ==
    /\ flattened_view(dup) = flattened_view(m_blocks)
    /\ DupAsserts => \E i \in DOMAIN m_blocks : m_blocks[i].data = <<>>

Stream == INSTANCE ByteStream

\* Bytes reach the consumer once each and in the order in which they were
\* written.
ImplementsByteStream == Stream!Spec

StartsOver == ResetReadingInfo \/ MoveConstruct \/ MoveAssignFresh

\* Every byte committed is eventually read by a consumer that keeps reading
\* and does not start over for ever.
AllArrives ==
    \/ []<><<StartsOver>>_vars
    \/ \A n \in 1 .. MaxBytes : written >= n ~> \/ Len(received) >= n
                                             \/ written < n
=============================================================================
