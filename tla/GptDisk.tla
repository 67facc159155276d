------------------------------- MODULE GptDisk -------------------------------
(***************************************************************************)
(* What the partition editor meets: a disk with a GPT, a stick, and the    *)
(* handles the firmware made of both at the last boot.  The unit of size   *)
(* is the block.  A block is known by what is in it; a table of partitions *)
(* is a sequence of [name, first, size].                                   *)
(***************************************************************************)
EXTENDS Naturals, Sequences

CONSTANTS LastBlock,    \* of the disk
          EntriesSize,  \* blocks of MAX_GPT_ENTRIES entries
          EntriesPerBlock,
          StickSize,
          Values        \* contents of a block of data

\* There is room for both copies of the table.
ASSUME DiskAssumption ==
    /\ LastBlock \in Nat /\ EntriesSize \in Nat \ {0} /\ StickSize \in Nat \ {0}
    /\ EntriesPerBlock \in Nat \ {0}
    /\ LastBlock >= 2 * EntriesSize + 2

Devices == {"disk", "stick"}
SizeOf(d) == IF d = "disk" THEN LastBlock + 1 ELSE StickSize

Zero == [kind |-> "zero"]
Mbr == [kind |-> "protective MBR"]
Header(lba, table) == [kind |-> "header", MyLBA |-> lba, table |-> table]
Entries(table) == [kind |-> "entries", table |-> table]    \* those of the block's place
Data(v) == [kind |-> "data", value |-> v]
DataBlocks == {Data(v) : v \in Values}

\* Block b of a device is the element b + 1 of its sequence.
Slice(blocks, offset, size) == SubSeq(blocks, offset + 1, offset + size)
Overwrite(blocks, offset, new) ==
    [b \in DOMAIN blocks |->
        IF b \in offset + 1 .. offset + Len(new) THEN new[b - offset] ELSE blocks[b]]

Zeros(n) == [i \in 1..n |-> Zero]

\* The front of a disk up to its entries, and its end.
PrimaryArea(table) ==
    << Mbr, Header(1, table) >> \o [i \in 1..EntriesSize |-> Entries(table)]
SecondaryArea(table) ==
    [i \in 1..EntriesSize |-> Entries(table)] \o << Header(LastBlock, table) >>

Partitioned(table, b) ==
    PrimaryArea(table) \o [i \in 1..(LastBlock - 2 - 2 * EntriesSize) |-> b]
        \o SecondaryArea(table)

\* A header counts only with the entries it was made for: it has their checksum.
Valid(header, lba, entries) ==
    /\ header.kind = "header" /\ header.MyLBA = lba
    /\ \A i \in 1..Len(entries) : entries[i] = Entries(header.table)

NoTable == << >>

\* The table the firmware finds, the backup standing in for the primary one.
TableOf(blocks) ==
    LET primary == blocks[2]
        backup == blocks[LastBlock + 1]
    IN  IF blocks[1] # Mbr THEN NoTable
        ELSE IF Valid(primary, 1, Slice(blocks, 2, EntriesSize)) THEN primary.table
        ELSE IF Valid(backup, LastBlock, Slice(blocks, LastBlock - EntriesSize, EntriesSize))
             THEN backup.table ELSE NoTable

\* At boot the firmware repairs the copy that is damaged.
Repaired(blocks) ==
    LET table == TableOf(blocks)
    IN  IF table = NoTable THEN blocks
        ELSE Overwrite(Overwrite(blocks, 0, PrimaryArea(table)),
                       LastBlock - EntriesSize, SecondaryArea(table))

\* A handle with block I/O: a whole device (number 0) or a partition of one.
Handle(d, number, first, size, removable, usb) ==
    [device |-> d, number |-> number, first |-> first, size |-> size,
     removable |-> removable, usb |-> usb]

DiskHandles(blocks) ==
    LET table == TableOf(blocks)
    IN  << Handle("disk", 0, 0, LastBlock + 1, FALSE, FALSE) >>
            \o [n \in 1..Len(table) |->
                    Handle("disk", n, table[n].first, table[n].size, FALSE, FALSE)]

\* The stick has one partition, and is removable, on USB, or both.
StickHandles(removable, usb) ==
    << Handle("stick", 0, 0, StickSize, removable, usb),
       Handle("stick", 1, 1, StickSize - 1, removable, usb) >>

\* The handles after a boot come in either order; the disk may not answer.
HandleDatabases(blocks) ==
    UNION { {DiskHandles(blocks) \o StickHandles(s.removable, s.usb),
             StickHandles(s.removable, s.usb) \o DiskHandles(blocks),
             StickHandles(s.removable, s.usb)} :
                s \in {t \in [removable : BOOLEAN, usb : BOOLEAN] : t.removable \/ t.usb} }
=============================================================================
