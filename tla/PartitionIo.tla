----------------------------- MODULE PartitionIo -----------------------------
(***************************************************************************)
(* The partition operations of uefi_avb_ops.c: reading and writing a byte  *)
(* range of a named GPT partition, with the 64-bit arithmetic the code     *)
(* uses.  Word stands for 2^64, so that a small model has wrap-around too. *)
(* The disk is an array of bytes; the two UEFI protocols below the code    *)
(* (BlockIo for the GPT, DiskIo for the data) either transfer or fail.     *)
(***************************************************************************)
EXTENDS Integers, Sequences, TLC

CONSTANTS
  Word,      \* the number of values of a uint64_t
  BlockSize, \* block_io->Media->BlockSize
  DiskSize,  \* bytes of the disk
  Gpt,       \* the GPT: a function from partition names to LBA ranges
  Absent,    \* a name that is not in the table
  ByteValues,  \* that callers write
  ByteOffsets, \* the offsets callers pass, values of an int64_t
  MaxBytes,  \* the most bytes a caller asks for
  MaxWrites  \* bound: the write calls of a behaviour

PartitionNames == DOMAIN Gpt

ASSUME PartitionIoAssumption ==
  /\ Word \in Nat /\ BlockSize \in Nat \ {0} /\ DiskSize \in Nat
  /\ MaxBytes \in Nat /\ MaxWrites \in Nat /\ Word > 2 * (DiskSize + MaxBytes)
  /\ \A p \in PartitionNames :
       /\ Gpt[p].first \in Nat /\ Gpt[p].last \in Nat
       /\ Gpt[p].first <= Gpt[p].last
       /\ (Gpt[p].last + 1) * BlockSize <= DiskSize
  /\ \A p, q \in PartitionNames :
       p # q => \/ Gpt[p].last < Gpt[q].first
                \/ Gpt[q].last < Gpt[p].first
  /\ Absent \notin PartitionNames
  /\ \A o \in ByteOffsets : o \in Int /\ -Word < 2 * o /\ 2 * o < Word

VARIABLES
  disk,   \* the bytes of the disk
  writes, \* the write calls so far
  reply   \* the last call and what it returned

ioVars == <<disk, writes, reply>>

Bytes == 0 .. DiskSize - 1

\* Each byte on the disk is told apart from the others by its place.
IoInit ==
  /\ disk = [i \in Bytes |-> i]
  /\ writes = 0
  /\ reply = [op |-> "none"]

----------------------------------------------------------------------------
(* The arithmetic. *)

\* partition_size in read_from_partition() and get_size_of_partition().
partition_size(p) == ((Gpt[p].last - Gpt[p].first + 1) * BlockSize) % Word

\* partition_size in write_to_partition(): there is no + 1.
partition_size_for_write(p) ==
  ((Gpt[p].last - Gpt[p].first) * BlockSize) % Word

Signed(u) == IF 2 * u < Word THEN u ELSE u - Word

OutsideRange(size, offset) == offset < 0 /\ -offset > Signed(size)

FromStart(size, offset) == IF offset < 0 THEN size + offset ELSE offset

Remaining(size, offset) == (size - FromStart(size, offset)) % Word

Position(p, size, offset) ==
  (Gpt[p].first * BlockSize + FromStart(size, offset)) % Word

\* Slip: the remaining bytes are counted from the start of the partition.
NumRead_NoOffset(size, offset, n) == IF n > size THEN size ELSE n

NumRead(size, offset, n) ==
  IF n > Remaining(size, offset) THEN Remaining(size, offset) ELSE n

\* Slip: the length of the range is compared with the whole partition.
BeyondEnd_Whole(size, offset, n) == n > size

BeyondEnd(size, offset, n) == n > Remaining(size, offset)

Span(at, n) == at .. at + n - 1

Content(d, at, n) == [i \in 1 .. n |-> d[at + i - 1]]

Stored(d, at, data) ==
  [i \in Bytes |-> IF i \in Span(at, Len(data)) THEN data[i - at + 1] ELSE d[i]]

----------------------------------------------------------------------------
(* The operations.  find_partition_entry_by_name() gives one answer for a  *)
(* name that is not in the table and for a table that cannot be read.      *)

Reply(op, p, offset, n, result, data) ==
  [op |-> op, name |-> p, offset |-> offset, n |-> n,
   result |-> result, data |-> data]

NoPartition(op, p, offset, n) ==
  /\ reply' = Reply(op, p, offset, n, "NO_SUCH_PARTITION", << >>)
  /\ UNCHANGED <<disk, writes>>

ReadRejected(p, offset) == OutsideRange(partition_size(p), offset)

ReadPosition(p, offset) == Position(p, partition_size(p), offset)

read_from_partition(p, offset, n) ==
  LET length == NumRead(partition_size(p), offset, n)
      at == ReadPosition(p, offset)
  IN /\ ~ReadRejected(p, offset)
     /\ Span(at, length) \subseteq Bytes
     /\ reply' = Reply("read", p, offset, n, "OK", Content(disk, at, length))
     /\ UNCHANGED <<disk, writes>>

ReadOutsideRange(p, offset, n) ==
  /\ ReadRejected(p, offset)
  /\ reply' = Reply("read", p, offset, n, "RANGE_OUTSIDE_PARTITION", << >>)
  /\ UNCHANGED <<disk, writes>>

\* ReadDisk fails, at least when the range is not on the disk.
ReadFails(p, offset, n) ==
  /\ ~ReadRejected(p, offset)
  /\ reply' = Reply("read", p, offset, n, "IO", << >>)
  /\ UNCHANGED <<disk, writes>>

WriteRejected(p, offset, n) ==
  \/ OutsideRange(partition_size_for_write(p), offset)
  \/ BeyondEnd(partition_size_for_write(p), offset, n)

WritePosition(p, offset) == Position(p, partition_size_for_write(p), offset)

\* Slip: the partition's first block is left out of the position.
DiskIoWrite_FromStart(p, offset, data) ==
  disk' = Stored(disk, FromStart(partition_size_for_write(p), offset), data)

DiskIoWrite(p, offset, data) == disk' = Stored(disk, WritePosition(p, offset), data)

write_to_partition(p, offset, data) ==
  /\ ~WriteRejected(p, offset, Len(data))
  /\ Span(WritePosition(p, offset), Len(data)) \subseteq Bytes
  /\ DiskIoWrite(p, offset, data)
  /\ reply' = Reply("write", p, offset, Len(data), "OK", data)

WriteOutsideRange(p, offset, data) ==
  /\ WriteRejected(p, offset, Len(data))
  /\ reply' = Reply("write", p, offset, Len(data), "RANGE_OUTSIDE_PARTITION", data)
  /\ UNCHANGED disk

\* WriteDisk fails before or after some of the bytes reached the disk.
WriteFails(p, offset, data) ==
  /\ ~WriteRejected(p, offset, Len(data))
  /\ \E k \in 0 .. Len(data) :
       /\ k > 0 => Span(WritePosition(p, offset), Len(data)) \subseteq Bytes
       /\ DiskIoWrite(p, offset, SubSeq(data, 1, k))
  /\ reply' = Reply("write", p, offset, Len(data), "IO", data)

get_size_of_partition(p) ==
  /\ reply' = Reply("size", p, 0, partition_size(p), "OK", << >>)
  /\ UNCHANGED <<disk, writes>>

ByteStrings == UNION {[1 .. n -> ByteValues] : n \in 0 .. MaxBytes}

ReadCall ==
  \E p \in PartitionNames, offset \in ByteOffsets, n \in 0 .. MaxBytes :
    \/ read_from_partition(p, offset, n)
    \/ ReadOutsideRange(p, offset, n)
    \/ ReadFails(p, offset, n)

WriteCall ==
  /\ writes < MaxWrites
  /\ writes' = writes + 1
  /\ \E p \in PartitionNames, offset \in ByteOffsets, data \in ByteStrings :
       \/ write_to_partition(p, offset, data)
       \/ WriteOutsideRange(p, offset, data)
       \/ WriteFails(p, offset, data)

LookupFails ==
  \E op \in {"read", "write", "size"}, p \in PartitionNames \cup {Absent} :
    NoPartition(op, p, 0, 0)

IoNext ==
  \/ ReadCall
  \/ WriteCall
  \/ \E p \in PartitionNames : get_size_of_partition(p)
  \/ LookupFails

IoSpec == IoInit /\ [][IoNext]_ioVars

----------------------------------------------------------------------------
(* Properties. *)

Length(p) == (Gpt[p].last - Gpt[p].first + 1) * BlockSize
PartitionBytes(p) == Span(Gpt[p].first * BlockSize, Length(p))
Contents(p) == Content(disk, Gpt[p].first * BlockSize, Length(p))
Smaller(a, b) == IF a < b THEN a ELSE b
StartInPartition(p, offset) == IF offset < 0 THEN Length(p) + offset ELSE offset

(* The disk holds bytes, and no call returns or stores more bytes than it  *)
(* was asked for.                                                          *)
TypeOK ==
  /\ writes \in 0 .. MaxWrites
  /\ disk \in [Bytes -> Bytes \cup ByteValues]
  /\ reply.op # "none" =>
       /\ reply.op \in {"read", "write", "size"}
       /\ Len(reply.data) <= reply.n

(* A read that starts in the partition, counted from its start or from its *)
(* end, returns exactly the bytes of the partition from there, as many as  *)
(* were asked for or as there are: never a byte of a neighbour, and never  *)
(* fewer than there are.                                                   *)
ReadsAreExact ==
  reply.op = "read" /\ reply.result = "OK" =>
    LET p == reply.name
        start == StartInPartition(p, reply.offset)
    IN start \in 0 .. Length(p) =>
         reply.data = SubSeq(Contents(p), start + 1,
                             Smaller(start + reply.n, Length(p)))

(* A write that starts before the partition's last block changes no byte   *)
(* outside the partition, even when the device fails half way.             *)
WritesStayInPartition ==
  [][reply'.op = "write" /\ reply'.name \in PartitionNames =>
       LET p == reply'.name
       IN \/ StartInPartition(p, reply'.offset) > Length(p) - BlockSize
          \/ \A i \in Bytes \ PartitionBytes(p) : disk'[i] = disk[i]]_ioVars

\* Where a read finds what was written at the offset: a write counts an
\* offset from the end from one block before it.
FoundAt(offset) == IF offset < 0 THEN offset - BlockSize ELSE offset

\* The bytes of it that a read returns: a write that starts in the last block
\* is not bounded (the unsigned difference at 280 wraps), the read is.
FoundLength(p, offset, n) ==
  IF offset \in Length(p) - BlockSize + 1 .. Length(p) THEN Smaller(n, Length(p) - offset) ELSE n

(* How the two functions agree, for every write that returned OK.  At an   *)
(* offset from the start, a read of the same range returns what was        *)
(* written: the A/B metadata is written and read back this way at every    *)
(* boot.  At an offset from the end the data is one block further to the   *)
(* front than avb_ops.h says, and read back whole at that offset only; of  *)
(* a write in the last block a read returns what is inside the partition.  *)
(* WritesHonourContract holds the same writes against avb_ops.h.           *)
WrittenIsFound ==
  reply.op = "write" /\ reply.result = "OK" =>
    LET p == reply.name
        found == FoundAt(reply.offset)
        length == NumRead(partition_size(p), found, reply.n)
    IN /\ ~ReadRejected(p, found)
       /\ length = FoundLength(p, reply.offset, reply.n)
       /\ Content(disk, ReadPosition(p, found), length) = SubSeq(reply.data, 1, length)

(* avb_ops.h on write_to_partition: a negative offset counts from the end  *)
(* of the partition, AVB_IO_RESULT_ERROR_RANGE_OUTSIDE_PARTITION is        *)
(* returned if the byte range goes outside the partition, and all data is  *)
(* transferred or none.                                                    *)
WritesHonourContract ==
  reply.op = "write" /\ reply.result = "OK" /\ reply.n > 0 =>
    LET p == reply.name
        start == StartInPartition(p, reply.offset)
    IN /\ start >= 0 /\ start + reply.n <= Length(p)
       /\ SubSeq(Contents(p), start + 1, start + reply.n) = reply.data
=============================================================================
