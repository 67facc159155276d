----------------------------- MODULE SparseImage -----------------------------
(***************************************************************************)
(* The files that can be flashed.  A sparse image is a header and chunks;  *)
(* here its words are the sequence of chunk headers, data blocks and fill  *)
(* words behind the file header.  The block size of the image is the block *)
(* of the model.                                                           *)
(***************************************************************************)
EXTENDS Naturals, Sequences, SequencesExt

ChunkHeader(type, size) == [word |-> "chunk", ChunkType |-> type, ChunkSize |-> size]
Fill(b) == [word |-> "fill", block |-> b]
Raw(b) == [word |-> "raw", block |-> b]
Sum(b) == [word |-> "checksum", block |-> b]

Plain(blocks) == [sparse |-> FALSE, blocks |-> blocks]

\* chunks: a sequence of [type, size, blocks].
Words(chunk) ==
    << ChunkHeader(chunk.type, chunk.size) >>
        \o CASE chunk.type = "RAW" -> [i \in 1..Len(chunk.blocks) |-> Raw(chunk.blocks[i])]
             [] chunk.type = "FILL" -> << Fill(chunk.blocks[1]) >>
             [] chunk.type = "CRC32" -> << Sum(chunk.blocks[1]) >>
             [] OTHER -> << >>

Sparse(major, chunks) ==
    [sparse |-> TRUE, MajorVersion |-> major, TotalChunks |-> Len(chunks), chunks |-> chunks,
     words |-> FlattenSeq([c \in 1..Len(chunks) |-> Words(chunks[c])])]

\* The reader meets a word of that kind; once it read another it is out of step
\* with the image for good, and what it reads may be anything.
Reads(words, p, kind, aligned) ==
    aligned /\ p \in DOMAIN words /\ words[p].word = kind

WellFormed(chunk) ==
    \/ chunk.type = "RAW" /\ Len(chunk.blocks) = chunk.size
    \/ chunk.type = "FILL" /\ Len(chunk.blocks) = 1
    \/ chunk.type = "DONT_CARE" /\ chunk.blocks = << >>

\* What the format says: the partition after the image over what was in it.
\* Block b belongs to the chunk that begins at or before it and ends behind it.
Start(chunks, c) == FoldLeft(LAMBDA n, chunk : n + chunk.size, 0, SubSeq(chunks, 1, c - 1))

Expansion(chunks, old) ==
    [b \in 1..Len(old) |->
        IF \A c \in 1..Len(chunks) :
               b \notin Start(chunks, c) + 1 .. Start(chunks, c) + chunks[c].size
        THEN old[b]
        ELSE LET c == CHOOSE k \in 1..Len(chunks) :
                        b \in Start(chunks, k) + 1 .. Start(chunks, k) + chunks[k].size
             IN  CASE chunks[c].type = "RAW" -> chunks[c].blocks[b - Start(chunks, c)]
                   [] chunks[c].type = "FILL" -> chunks[c].blocks[1]
                   [] OTHER -> old[b]]

\* What a flash of the image is to leave in a partition.
Flashed(image, old) ==
    IF image.sparse THEN Expansion(image.chunks, old)
    ELSE image.blocks \o SubSeq(old, Len(image.blocks) + 1, Len(old))
=============================================================================
