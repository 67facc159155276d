-------------------------- MODULE MCPartitionEditor --------------------------
(* A disk of eleven blocks with two partitions, and images of every kind.     *)
EXTENDS PartitionEditor

Extent(name, first, size) == [name |-> name, first |-> first, size |-> size]
MCTable == << Extent("boot", 4, 3), Extent("data", 7, 1) >>
MCOtherTable == << Extent("data", 4, 1), Extent("boot", 5, 3) >>

a == Data("a")
b1 == Data("b")
Chunk(type, size, blocks) == [type |-> type, size |-> size, blocks |-> blocks]

MCImages == {
    Plain(<< a, b1 >>),
    Plain(<< a, b1, a, b1 >>),
    Sparse(2, << >>),
    Sparse(1, << Chunk("DONT_CARE", 2, << >>) >>),
    Sparse(1, << Chunk("RAW", 1, << a >>), Chunk("DONT_CARE", 1, << >>), Chunk("RAW", 1, << b1 >>) >>),
    Sparse(1, << Chunk("FILL", 2, << b1 >>), Chunk("RAW", 1, << a >>) >>),
    Sparse(1, << Chunk("RAW", 2, << a, b1 >>), Chunk("RAW", 2, << a, b1 >>) >>),
    Sparse(1, << Chunk("RAW", 1, << a >>), Chunk("CRC32", 0, << a >>), Chunk("FILL", 1, << b1 >>) >>) }
=============================================================================
