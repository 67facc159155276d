----------------------------- MODULE DiskProofs -----------------------------
(***************************************************************************)
(* Proofs about what writes to a partitioned disk.                         *)
(*                                                                         *)
(* PartitionEditor: for every disk with room for two copies of a table,    *)
(* all tables whose partitions lie on it, and all images of data, an erase *)
(* of the table is final and no command writes outside what it was given.  *)
(*                                                                         *)
(* PartitionIo: for every GPT whose partitions are on the disk and apart,  *)
(* every word size that is large enough, and all offsets of an int64_t,    *)
(* the 64-bit arithmetic of uefi_avb_ops.c does not wrap around where the  *)
(* calls transfer anything.                                                *)
(***************************************************************************)
EXTENDS PartitionEditor, PartitionIo, SequenceTheorems, WellFoundedInduction, TLAPS

---------------------------------------------------------------------------
(* The partition editor.  What its state is made of.                       *)

MediaOK(m) ==
  /\ m \in [Devices -> Seq(Blocks)]
  /\ \A d \in Devices : Len(m[d]) = SizeOf(d)

Extents == [device : {"disk"}, first : Nat, size : Nat]
OnDisk(x) == x \in Extents /\ x.first + x.size <= LastBlock + 1

(* A handle of the disk or of one of the partitions that t has.            *)
HandleOK(h, t) ==
  \/ h.device = "stick" /\ (h.removable \/ h.usb)
  \/ h.device = "disk" /\ h.number = 0
  \/ /\ h.device = "disk" /\ h.number \in DOMAIN t
     /\ h.first = t[h.number].first /\ h.size = t[h.number].size

HandlesOK(hs, t) ==
  /\ Len(hs) \in Nat /\ DOMAIN hs = 1 .. Len(hs)
  /\ \A n \in DOMAIN hs : HandleOK(hs[n], t)

(* The extent of the partition of that name, if m has the entries of t.    *)
Opened(m, t, x, name) ==
  /\ OnDisk(x)
  /\ HasEntries(m["disk"], t)
       => \E e \in ToSet(t) : e.name = name /\ e.first = x.first /\ e.size = x.size

FlashRuns ==
  [cmd : {"flash"}, extent : Extents, name : Names, image : Images, Chunk : Nat,
   Image : Nat, aligned : BOOLEAN, Offset : Nat, Left : Nat]
EraseRuns ==
  [cmd : {"erase"}, extent : Extents, name : Names, Offset : Nat, PartitionSize : Nat]
TableRuns ==
  [cmd : {"gpt erase", "gpt save"}, extent : {Whole("disk")}, step : {"primary", "secondary"}]
SaveRuns == [cmd : {"save"}, extent : Extents, Offset : Nat, Size : Nat]
WriteRuns ==
  [cmd : {"write"}, extent : {Whole("disk")}, Offset : Nat, blocks : Seq(Blocks)]

RunOK ==
  \/ run = Idle
  \/ run \in FlashRuns \cup EraseRuns /\ Opened(before, table, run.extent, run.name)
  \/ /\ run \in TableRuns
     /\ run.cmd = "gpt erase" /\ run.step = "secondary" => media["disk"][2].kind # "header"
  \/ run \in SaveRuns /\ OnDisk(run.extent)
  \/ run \in WriteRuns

(* No header is left where the firmware looks for one.                     *)
NoHeaders == media["disk"][2].kind # "header" /\ media["disk"][LastBlock + 1].kind # "header"

FileNames == {"PrimarySave", "SecondarySave", "Data"}

DiskInv ==
  /\ MediaOK(media) /\ MediaOK(before)
  /\ files \in [FileNames -> Seq(Blocks)]
  /\ table \in Tables \cup {NoTable}
  /\ HandlesOK(handles, table)
  /\ RunOK
  /\ erased \in BOOLEAN /\ (erased => NoHeaders)
  /\ boots \in Nat

(* What a step of a command leaves alone.                                  *)
KeepsInside ==
  boots' = boots =>
    /\ media'["stick"] = media["stick"]
    /\ \A b \in 0 .. LastBlock : media'["disk"][b + 1] # media["disk"][b + 1] => Mine(b)

---------------------------------------------------------------------------
(* Blocks.                                                                 *)

(* Overwrite() replaces a range of the blocks and keeps their number.      *)
LEMMA Overwritten ==
  ASSUME NEW B, NEW blocks \in Seq(B), NEW offset \in Nat, NEW new \in Seq(B)
  PROVE  /\ Overwrite(blocks, offset, new) \in Seq(B)
         /\ Len(Overwrite(blocks, offset, new)) = Len(blocks)
         /\ \A i \in 1 .. Len(blocks) :
              Overwrite(blocks, offset, new)[i] =
                IF i \in offset + 1 .. offset + Len(new) THEN new[i - offset] ELSE blocks[i]
<1> DEFINE o == Overwrite(blocks, offset, new)
<1>1. /\ Len(blocks) \in Nat /\ DOMAIN blocks = 1 .. Len(blocks) /\ Len(new) \in Nat
      /\ \A i \in 1 .. Len(blocks) : blocks[i] \in B
      /\ \A i \in 1 .. Len(new) : new[i] \in B
  BY ElementOfSeq, LenProperties
<1>2. o = [i \in 1 .. Len(blocks) |->
            IF i \in offset + 1 .. offset + Len(new) THEN new[i - offset] ELSE blocks[i]]
  BY <1>1 DEF Overwrite
<1>3. \A i \in offset + 1 .. offset + Len(new) : i - offset \in 1 .. Len(new)
  BY <1>1
<1>4. o \in [1 .. Len(blocks) -> B]
  BY <1>1, <1>2, <1>3
<1>5. o \in Seq(B) /\ Len(o) = Len(blocks)
  BY <1>1, <1>4, LenProperties
<1> QED
  BY <1>2, <1>5

(* The first blocks of a sequence.                                         *)
LEMMA FirstBlocks ==
  ASSUME NEW B, NEW blocks \in Seq(B), NEW n \in 0 .. Len(blocks)
  PROVE  /\ SubSeq(blocks, 1, n) \in Seq(B) /\ Len(SubSeq(blocks, 1, n)) = n
         /\ \A i \in 1 .. n : SubSeq(blocks, 1, n)[i] = blocks[i]
<1>1. /\ Len(blocks) \in Nat /\ n \in Nat /\ n \in Int /\ n <= Len(blocks)
      /\ \A i \in 1 .. Len(blocks) : blocks[i] \in B
  BY ElementOfSeq, LenProperties
<1>2. \A i \in 1 .. n : blocks[i] \in B
  BY <1>1
<1>3. /\ SubSeq(blocks, 1, n) \in Seq(B)
      /\ Len(SubSeq(blocks, 1, n)) = IF 1 <= n THEN n - 1 + 1 ELSE 0
      /\ \A i \in 1 .. n - 1 + 1 : SubSeq(blocks, 1, n)[i] = blocks[1 + i - 1]
  BY <1>1, <1>2, SubSeqProperties
<1> QED
  BY <1>1, <1>3

(* A range of the blocks of a device.                                      *)
LEMMA SliceOfBlocks ==
  ASSUME NEW B, NEW blocks \in Seq(B), NEW offset \in Nat, NEW size \in Nat,
         offset + size <= Len(blocks)
  PROVE  /\ Slice(blocks, offset, size) \in Seq(B)
         /\ Len(Slice(blocks, offset, size)) = size
         /\ \A i \in 1 .. size : Slice(blocks, offset, size)[i] = blocks[offset + i]
<1>1. /\ Len(blocks) \in Nat /\ offset + 1 \in Int /\ offset + size \in Int
      /\ \A i \in 1 .. Len(blocks) : blocks[i] \in B
  BY ElementOfSeq, LenProperties
<1>2. \A i \in offset + 1 .. offset + size : blocks[i] \in B
  BY <1>1
<1> DEFINE s == SubSeq(blocks, offset + 1, offset + size)
<1>3. /\ s \in Seq(B)
      /\ Len(s) = IF offset + 1 <= offset + size THEN offset + size - (offset + 1) + 1 ELSE 0
      /\ \A i \in 1 .. offset + size - (offset + 1) + 1 : s[i] = blocks[offset + 1 + i - 1]
  BY <1>1, <1>2, SubSeqProperties
<1>4. /\ offset + size - (offset + 1) + 1 = size
      /\ \A i \in 1 .. size : offset + 1 + i - 1 = offset + i
      /\ offset + 1 <= offset + size <=> size # 0
  OBVIOUS
<1> QED
  BY <1>3, <1>4 DEF Slice

(* One sequence behind the other.                                          *)
LEMMA Joined ==
  ASSUME NEW B, NEW p \in Seq(B), NEW q \in Seq(B)
  PROVE  /\ p \o q \in Seq(B) /\ Len(p \o q) = Len(p) + Len(q)
         /\ Len(p) \in Nat /\ Len(q) \in Nat
         /\ \A i \in 1 .. Len(p) : (p \o q)[i] = p[i]
         /\ \A i \in 1 .. Len(q) : (p \o q)[Len(p) + i] = q[i]
<1>1. Len(p) \in Nat /\ Len(q) \in Nat
  BY LenProperties
<1>2. /\ p \o q \in Seq(B) /\ Len(p \o q) = Len(p) + Len(q)
      /\ \A i \in 1 .. Len(p) + Len(q) :
           (p \o q)[i] = IF i <= Len(p) THEN p[i] ELSE q[i - Len(p)]
  BY ConcatProperties
<1>3. ASSUME NEW i \in 1 .. Len(q) PROVE (p \o q)[Len(p) + i] = q[i]
  <2>1. Len(p) + i \in 1 .. Len(p) + Len(q) /\ ~(Len(p) + i <= Len(p)) /\ Len(p) + i - Len(p) = i
    BY <1>1
  <2>2. (p \o q)[Len(p) + i] = q[Len(p) + i - Len(p)]
    BY <1>2, <2>1
  <2> QED
    BY <2>1, <2>2
<1> QED
  BY <1>1, <1>2, <1>3

(* Blocks of zeros, and repeated blocks.                                   *)
LEMMA Repeated ==
  ASSUME NEW B, NEW b \in B, NEW n \in Nat
  PROVE  [i \in 1 .. n |-> b] \in Seq(B) /\ Len([i \in 1 .. n |-> b]) = n
<1>1. [i \in 1 .. n |-> b] \in [1 .. n -> B]
  OBVIOUS
<1> QED
  BY <1>1, LenProperties

(* Data, zeros and the protective MBR are no table.                        *)
LEMMA BlockKinds ==
  /\ DataBlocks \subseteq Blocks /\ Zero \in Blocks /\ Mbr \in Blocks
  /\ \A b \in DataBlocks \cup {Zero} : b.kind \notin {"header", "entries"}
  /\ Mbr.kind # "header"
  /\ \A l, t : Header(l, t).kind = "header" /\ Entries(t).kind = "entries"
<1>1. DataBlocks \subseteq Blocks /\ Zero \in Blocks /\ Mbr \in Blocks
  BY DEF Blocks
<1>2. \A b \in DataBlocks : b.kind = "data"
  BY DEF DataBlocks, Data
<1>3. Zero.kind = "zero" /\ Mbr.kind = "protective MBR"
  BY DEF Zero, Mbr
<1>4. \A l, t : Header(l, t).kind = "header" /\ Entries(t).kind = "entries"
  BY DEF Header, Entries
<1> QED
  BY <1>1, <1>2, <1>3, <1>4

---------------------------------------------------------------------------
(* A write to the disk.                                                    *)

Written(x, offset, blocks, n) ==
  media' = [media EXCEPT ![x.device] = Overwrite(@, x.first + offset, SubSeq(blocks, 1, n))]

(* The n blocks from block at on are the new ones, and the others the old. *)
Replaces(at, blocks, n) ==
  \A b \in 0 .. LastBlock :
    media'["disk"][b + 1] =
      IF b \in at .. at + n - 1 THEN blocks[b - at + 1] ELSE media["disk"][b + 1]

(* A write of the first n blocks changes these blocks of the disk and no   *)
(* others, and none of the stick.                                          *)
LEMMA WrittenBlocks ==
  ASSUME MediaOK(media), NEW x, OnDisk(x), NEW offset \in Nat,
         NEW blocks \in Seq(Blocks), NEW n \in 0 .. Len(blocks),
         InExtent(x, offset, Len(blocks)) \/ n = 0,
         Written(x, offset, blocks, n)
  PROVE  /\ MediaOK(media') /\ media'["stick"] = media["stick"]
         /\ n > 0 => offset + n <= x.size
         /\ Replaces(x.first + offset, blocks, n)
<1> DEFINE at == x.first + offset
           new == SubSeq(blocks, 1, n)
           old == media["disk"]
<1>1. /\ x.device = "disk" /\ x.first \in Nat /\ x.size \in Nat /\ at \in Nat
      /\ "disk" \in Devices /\ "stick" \in Devices /\ Devices = {"disk", "stick"}
      /\ Len(blocks) \in Nat /\ n \in Nat /\ n <= Len(blocks)
  BY LenProperties DEF OnDisk, Extents, Devices
<1>2. /\ old \in Seq(Blocks) /\ Len(old) = LastBlock + 1 /\ media["stick"] \in Seq(Blocks)
      /\ Len(media["stick"]) = StickSize /\ media \in [Devices -> Seq(Blocks)]
  BY <1>1 DEF MediaOK, SizeOf
<1>3. new \in Seq(Blocks) /\ Len(new) = n /\ \A i \in 1 .. n : new[i] = blocks[i]
  BY FirstBlocks
<1> DEFINE o == Overwrite(old, at, new)
<1> HIDE DEF at, new, old
<1>4. /\ o \in Seq(Blocks) /\ Len(o) = LastBlock + 1
      /\ \A i \in 1 .. LastBlock + 1 :
           o[i] = IF i \in at + 1 .. at + n THEN new[i - at] ELSE old[i]
  <2>1. /\ o \in Seq(Blocks) /\ Len(o) = Len(old)
        /\ \A i \in 1 .. Len(old) :
             o[i] = IF i \in at + 1 .. at + Len(new) THEN new[i - at] ELSE old[i]
    <3>1. at \in Nat /\ old \in Seq(Blocks) /\ new \in Seq(Blocks)
      BY <1>1, <1>2, <1>3
    <3> QED
      BY ONLY <3>1, Overwritten
  <2>2. Len(old) = LastBlock + 1 /\ Len(new) = n
    BY <1>2, <1>3
  <2> HIDE DEF o
  <2> QED
    BY <2>1, <2>2
<1>5. media' = [media EXCEPT !["disk"] = o]
  BY <1>1 DEF Written, at, new, old
<1> HIDE DEF o
<1>6. media' \in [Devices -> Seq(Blocks)] /\ media'["disk"] = o /\ media'["stick"] = media["stick"]
  BY <1>1, <1>2, <1>4, <1>5
<1>7. MediaOK(media')
  BY <1>1, <1>2, <1>4, <1>6 DEF MediaOK, SizeOf
<1>8. n > 0 => offset + n <= x.size
  BY <1>1 DEF InExtent
<1>9. ASSUME NEW b \in 0 .. LastBlock
      PROVE  o[b + 1] = IF b \in at .. at + n - 1 THEN blocks[b - at + 1] ELSE old[b + 1]
  <2>1. b + 1 \in 1 .. LastBlock + 1 /\ b \in Nat
    BY DiskAssumption
  <2>2. b + 1 \in at + 1 .. at + n <=> b \in at .. at + n - 1
    BY <1>1, <2>1
  <2>3. b \in at .. at + n - 1 => b + 1 - at \in 1 .. n /\ b + 1 - at = b - at + 1
    BY <1>1, <2>1
  <2>4. o[b + 1] = IF b + 1 \in at + 1 .. at + n THEN new[b + 1 - at] ELSE old[b + 1]
    BY <1>1, <1>3, <1>4, <2>1
  <2>5. b \in at .. at + n - 1 => new[b + 1 - at] = blocks[b - at + 1]
    BY <1>3, <2>3
  <2> QED
    BY <2>2, <2>4, <2>5
<1>10. Replaces(at, blocks, n)
  BY <1>6, <1>9 DEF Replaces, old
<1> QED
  BY <1>6, <1>7, <1>8, <1>10 DEF at

---------------------------------------------------------------------------
(* The disk and its partitions.                                            *)

(* A set of numbers that is not empty has a smallest one.                  *)
LEMMA SmallestNumber ==
  ASSUME NEW S, S \in SUBSET Nat, S # {}
  PROVE  \E x \in S : \A y \in S : x <= y
<1>1. PICK x \in S : \A y \in S : << y, x >> \notin OpToRel(<, Nat)
  BY NatLessThanWellFounded, WFMin
<1>2. \A y \in S : ~(y < x)
  BY <1>1 DEF OpToRel
<1>3. \A y \in S : x <= y
  BY <1>2
<1> QED
  BY <1>3

(* Only the disk is neither removable nor on USB: the stick is never taken. *)
LEMMA DiskIsFound ==
  ASSUME HandlesOK(handles, table)
  PROVE  InitDevicePath \in {"disk", "none"}
<1> DEFINE I == {i \in 1 .. Len(handles) : Fixed(handles[i])}
<1>1. CASE ~(\E h \in DOMAIN handles : Fixed(handles[h]))
  BY <1>1 DEF InitDevicePath
<1>2. CASE \E h \in DOMAIN handles : Fixed(handles[h])
  <2>1. I # {} /\ I \in SUBSET Nat
    BY <1>2 DEF HandlesOK
  <2>2. PICK x \in I : \A y \in I : x <= y
    <3> HIDE DEF I
    <3> QED
      BY <2>1, SmallestNumber
  <2>3. SelectInSeq(handles, Fixed) = Min(I)
    BY <2>1 DEF SelectInSeq
  <2>4. Min(I) \in I
    BY <2>2 DEF Min
  <2>5. Fixed(handles[Min(I)]) /\ HandleOK(handles[Min(I)], table)
    BY <2>4 DEF HandlesOK
  <2>6. handles[Min(I)].device = "disk"
    BY <2>5 DEF Fixed, IsUsbDevice, HandleOK
  <2> QED
    BY <1>2, <2>3, <2>6 DEF InitDevicePath
<1> QED
  BY <1>1, <1>2

(* The tables that are written are within the disk.                        *)
LEMMA EntriesOfTables ==
  ASSUME NEW t \in Tables \cup {NoTable}
  PROVE  /\ Len(t) \in Nat /\ DOMAIN t = 1 .. Len(t)
         /\ Len(t) <= EntriesSize * EntriesPerBlock
         /\ \A n \in DOMAIN t :
              /\ t[n].first \in Nat /\ t[n].size \in Nat
              /\ t[n].first + t[n].size <= LastBlock + 1
<1>1. CASE t \in Tables
  <2>1. /\ t \in Seq([name : STRING, first : Nat, size : Nat])
        /\ Len(t) <= EntriesSize * EntriesPerBlock
        /\ \A n \in DOMAIN t : t[n].first + t[n].size <= LastBlock + 1
    BY <1>1, TablesAssumption
  <2>2. Len(t) \in Nat /\ DOMAIN t = 1 .. Len(t)
    BY <2>1, LenProperties
  <2>3. \A n \in DOMAIN t : t[n] \in [name : STRING, first : Nat, size : Nat]
    BY <2>1, <2>2, ElementOfSeq
  <2> QED
    BY <2>1, <2>2, <2>3, DiskAssumption
<1>2. CASE t = NoTable
  <2>1. EntriesSize * EntriesPerBlock \in Nat
    BY DiskAssumption
  <2> QED
    BY <1>2, <2>1, EmptySeq DEF NoTable
<1> QED
  BY <1>1, <1>2

(* An entry of a table is in one of the blocks that hold the table.        *)
LEMMA EntryIsInTable ==
  ASSUME NEW n \in 1 .. EntriesSize * EntriesPerBlock
  PROVE  3 + (n - 1) \div EntriesPerBlock \in 3 .. 2 + EntriesSize
<1> DEFINE q == (n - 1) \div EntriesPerBlock
<1>1. EntriesSize \in Nat /\ EntriesPerBlock \in Nat /\ EntriesPerBlock > 0
  BY DiskAssumption
<1>2. EntriesSize * EntriesPerBlock \in Nat
  BY <1>1
<1>3. n - 1 \in Nat /\ n - 1 < EntriesSize * EntriesPerBlock
  BY <1>2
<1>4. q \in Nat /\ q * EntriesPerBlock <= n - 1
  BY <1>1, <1>3
<1> HIDE DEF q
<1>5. ASSUME q >= EntriesSize PROVE FALSE
  <2>1. q * EntriesPerBlock >= EntriesSize * EntriesPerBlock
    BY <1>1, <1>4, <1>5
  <2> QED
    BY <1>1, <1>2, <1>3, <1>4, <2>1
<1>6. q \in 0 .. EntriesSize - 1
  BY <1>1, <1>4, <1>5
<1> QED
  BY <1>1, <1>6 DEF q

(* A partition that is opened by its name is one of the table that the     *)
(* firmware found at the last boot, and the one of that name if the        *)
(* entries on the disk are that table's.                                   *)
LEMMA OpenedPartition ==
  ASSUME HandlesOK(handles, table), table \in Tables \cup {NoTable},
         NEW name, NEW x \in OpenPartition("disk", name)
  PROVE  Opened(media, table, x, name)
<1> DEFINE list == InitDiskPartition("disk")
           places == Named(list, name)
           n == CHOOSE k \in places : \A l \in places : k <= l
           names == ReadPartitionEntries("disk")
           h == handles[n]
<1>1. places # {} /\ x = [device |-> "disk", first |-> h.first, size |-> h.size]
  BY DEF OpenPartition
<1>2. \A k \in places : /\ k \in DOMAIN handles
                        /\ handles[k].device = "disk" /\ handles[k].number # 0
                        /\ names # << >> /\ PartitionName(names, handles[k].number) = name
  BY DEF Named, InitDiskPartition
<1>3. n \in places
  <2>1. places \in SUBSET Nat
    BY <1>2 DEF HandlesOK
  <2>2. \E k \in places : \A l \in places : k <= l
    <3> HIDE DEF places
    <3> QED
      BY <1>1, <2>1, SmallestNumber
  <2> HIDE DEF places
  <2> QED
    BY <2>2
<1> HIDE DEF places, n, list
<1>4. /\ n \in DOMAIN handles /\ h.device = "disk" /\ h.number # 0
      /\ names # << >> /\ PartitionName(names, h.number) = name
  BY <1>2, <1>3
<1>5. /\ h.number \in DOMAIN table
      /\ h.first = table[h.number].first /\ h.size = table[h.number].size
  BY <1>4 DEF HandlesOK, HandleOK
<1>6. OnDisk(x)
  BY <1>1, <1>5, EntriesOfTables DEF OnDisk, Extents
<1>7. ASSUME HasEntries(media["disk"], table)
      PROVE  \E e \in ToSet(table) : e.name = name /\ e.first = x.first /\ e.size = x.size
  <2> DEFINE k == h.number
             block == media["disk"][3 + (k - 1) \div EntriesPerBlock]
  <2>1. k \in 1 .. Len(table) /\ DOMAIN table = 1 .. Len(table)
        /\ k \in 1 .. EntriesSize * EntriesPerBlock
    <3>1. Len(table) \in Nat /\ Len(table) <= EntriesSize * EntriesPerBlock
          /\ DOMAIN table = 1 .. Len(table)
      BY EntriesOfTables
    <3>2. EntriesSize * EntriesPerBlock \in Nat
      BY DiskAssumption
    <3>3. k \in 1 .. Len(table)
      BY <1>5, <3>1
    <3> HIDE DEF k
    <3> QED
      BY <3>1, <3>2, <3>3
  <2>2. block.kind = "entries" /\ block.table = table
    BY <1>7, <2>1, EntryIsInTable DEF HasEntries, Entries
  <2>3. names = [l \in 1 .. EntriesSize * EntriesPerBlock |->
                   NameIn(media["disk"][3 + (l - 1) \div EntriesPerBlock], l)]
    BY <1>4 DEF ReadPartitionEntries
  <2>4. name = NameIn(block, k)
    BY <1>4, <2>1, <2>3 DEF PartitionName
  <2>5. name = table[k].name
    BY <1>5, <2>2, <2>4 DEF NameIn
  <2>6. table[k] \in ToSet(table)
    BY <1>5 DEF ToSet
  <2> QED
    BY <1>1, <1>5, <2>5, <2>6
<1> QED
  BY <1>6, <1>7 DEF Opened

(* What the firmware finds is a table that is written, or none.            *)
LEMMA TableFound ==
  ASSUME NEW blocks \in Seq(Blocks), Len(blocks) = LastBlock + 1
  PROVE  TableOf(blocks) \in Tables \cup {NoTable}
<1>1. \A b \in Blocks : b.kind = "header" => b.table \in Tables
  <2> SUFFICES ASSUME NEW b \in Blocks, b.kind = "header" PROVE b.table \in Tables
    OBVIOUS
  <2>1. b \in {Header(lba, t) : lba \in {1, LastBlock}, t \in Tables}
    BY BlockKinds DEF Blocks
  <2> QED
    BY <2>1 DEF Header
<1>2. blocks[2] \in Blocks /\ blocks[LastBlock + 1] \in Blocks
  <2>1. 2 \in 1 .. Len(blocks) /\ LastBlock + 1 \in 1 .. Len(blocks)
    BY DiskAssumption
  <2> QED
    BY <2>1, ElementOfSeq
<1>3. TableOf(blocks) \in {NoTable} \cup
        {b.table : b \in {c \in {blocks[2], blocks[LastBlock + 1]} : c.kind = "header"}}
  BY DEF TableOf, Valid
<1> QED
  BY <1>1, <1>2, <1>3

(* Handles that are made of a table are the disk's, the stick's, or of the *)
(* partitions of that table.                                               *)
LEMMA HandlesOfTable ==
  ASSUME NEW blocks, TableOf(blocks) \in Tables \cup {NoTable},
         NEW hs \in HandleDatabases(blocks)
  PROVE  HandlesOK(hs, TableOf(blocks))
<1> DEFINE t == TableOf(blocks)
           All == [device : Devices, number : Nat, first : Nat, size : Nat,
                   removable : BOOLEAN, usb : BOOLEAN]
           H == {h \in All : HandleOK(h, t)}
           parts == [n \in 1 .. Len(t) |->
                       Handle("disk", n, t[n].first, t[n].size, FALSE, FALSE)]
           whole == Handle("disk", 0, 0, LastBlock + 1, FALSE, FALSE)
<1>1. Len(t) \in Nat /\ DOMAIN t = 1 .. Len(t)
  BY EntriesOfTables
<1>2. whole \in H
  BY DiskAssumption DEF Handle, HandleOK, Devices
<1>3. parts \in [1 .. Len(t) -> H]
  <2> SUFFICES ASSUME NEW n \in 1 .. Len(t)
               PROVE  Handle("disk", n, t[n].first, t[n].size, FALSE, FALSE) \in H
    OBVIOUS
  <2>1. t[n].first \in Nat /\ t[n].size \in Nat /\ n \in Nat /\ n \in DOMAIN t
    BY <1>1, EntriesOfTables
  <2> HIDE DEF t
  <2> QED
    BY <2>1 DEF Handle, HandleOK, Devices
<1>4. DiskHandles(blocks) \in Seq(H)
  <2>1. DiskHandles(blocks) = << whole >> \o parts
    BY DEF DiskHandles
  <2> HIDE DEF H, whole, parts, t
  <2>2. << whole >> \in Seq(H) /\ parts \in Seq(H)
    BY <1>1, <1>2, <1>3
  <2> QED
    BY <2>1, <2>2, Joined
<1>5. \A r, u \in BOOLEAN : r \/ u => StickHandles(r, u) \in Seq(H)
  <2> SUFFICES ASSUME NEW r \in BOOLEAN, NEW u \in BOOLEAN, r \/ u
               PROVE  StickHandles(r, u) \in Seq(H)
    OBVIOUS
  <2>1. \A n, first, size \in Nat : Handle("stick", n, first, size, r, u) \in H
    BY DEF Handle, HandleOK, Devices
  <2>2. StickSize \in Nat /\ StickSize - 1 \in Nat
    BY DiskAssumption
  <2>3. /\ Handle("stick", 0, 0, StickSize, r, u) \in H
        /\ Handle("stick", 1, 1, StickSize - 1, r, u) \in H
    <3> HIDE DEF H
    <3> QED
      BY <2>1, <2>2
  <2> HIDE DEF H
  <2> QED
    BY <2>3 DEF StickHandles
<1>6. hs \in Seq(H)
  <2>1. PICK s \in [removable : BOOLEAN, usb : BOOLEAN] :
          /\ s.removable \/ s.usb
          /\ hs \in {DiskHandles(blocks) \o StickHandles(s.removable, s.usb),
                     StickHandles(s.removable, s.usb) \o DiskHandles(blocks),
                     StickHandles(s.removable, s.usb)}
    BY DEF HandleDatabases
  <2>2. StickHandles(s.removable, s.usb) \in Seq(H)
    <3> HIDE DEF H
    <3> QED
      BY <1>5, <2>1
  <2> HIDE DEF H
  <2>3. \A p, q \in Seq(H) : p \o q \in Seq(H)
    BY Joined
  <2> QED
    BY <1>4, <2>1, <2>2, <2>3
<1>7. /\ Len(hs) \in Nat /\ DOMAIN hs = 1 .. Len(hs)
      /\ \A n \in 1 .. Len(hs) : hs[n] \in H
  <2> HIDE DEF H
  <2> QED
    BY <1>6, LenProperties, ElementOfSeq
<1> QED
  BY <1>7 DEF HandlesOK

(* The areas of a table.                                                   *)
LEMMA Areas ==
  ASSUME NEW t \in Tables
  PROVE  /\ PrimaryArea(t) \in Seq(Blocks) /\ Len(PrimaryArea(t)) = 2 + EntriesSize
         /\ PrimaryArea(t)[1] = Mbr /\ PrimaryArea(t)[2] = Header(1, t)
         /\ \A i \in 1 .. EntriesSize : PrimaryArea(t)[2 + i] = Entries(t)
         /\ SecondaryArea(t) \in Seq(Blocks) /\ Len(SecondaryArea(t)) = EntriesSize + 1
<1> DEFINE e == [i \in 1 .. EntriesSize |-> Entries(t)]
           f == << Mbr, Header(1, t) >>
           g == << Header(LastBlock, t) >>
<1>1. /\ Mbr \in Blocks /\ Header(1, t) \in Blocks /\ Header(LastBlock, t) \in Blocks
      /\ Entries(t) \in Blocks
  BY DEF Blocks
<1>2. e \in Seq(Blocks) /\ Len(e) = EntriesSize /\ EntriesSize \in Nat
  BY <1>1, DiskAssumption, Repeated
<1>3. f \in Seq(Blocks) /\ Len(f) = 2 /\ f[1] = Mbr /\ f[2] = Header(1, t)
  BY <1>1
<1>4. g \in Seq(Blocks) /\ Len(g) = 1
  BY <1>1
<1>5. \A i \in 1 .. EntriesSize : e[i] = Entries(t)
  OBVIOUS
<1>6. PrimaryArea(t) = f \o e /\ SecondaryArea(t) = e \o g
  BY DEF PrimaryArea, SecondaryArea
<1> HIDE DEF e, f, g
<1>7. /\ f \o e \in Seq(Blocks) /\ Len(f \o e) = Len(f) + Len(e)
      /\ \A i \in 1 .. Len(f) : (f \o e)[i] = f[i]
      /\ \A i \in 1 .. Len(e) : (f \o e)[Len(f) + i] = e[i]
  <2>1. f \in Seq(Blocks) /\ e \in Seq(Blocks)
    BY <1>2, <1>3
  <2> QED
    BY ONLY <2>1, Joined
<1>8. e \o g \in Seq(Blocks) /\ Len(e \o g) = Len(e) + Len(g)
  BY <1>2, <1>4, Joined
<1> QED
  BY <1>2, <1>3, <1>4, <1>5, <1>6, <1>7, <1>8

(* A disk that was partitioned has the table it was given.                 *)
LEMMA PartitionedDisk ==
  ASSUME NEW t \in Tables, NEW b \in DataBlocks
  PROVE  /\ Partitioned(t, b) \in Seq(Blocks) /\ Len(Partitioned(t, b)) = LastBlock + 1
         /\ TableOf(Partitioned(t, b)) = t
<1> DEFINE n == LastBlock - 2 - 2 * EntriesSize
           mid == [i \in 1 .. n |-> b]
           p == PrimaryArea(t)
           s == SecondaryArea(t)
           d == p \o mid \o s
<1>1. /\ n \in Nat /\ EntriesSize \in Nat \ {0} /\ LastBlock \in Nat
      /\ 2 + EntriesSize + n + (EntriesSize + 1) = LastBlock + 1
  BY DiskAssumption
<1>2. mid \in Seq(Blocks) /\ Len(mid) = n
  BY <1>1, BlockKinds, Repeated
<1>3. /\ p \in Seq(Blocks) /\ Len(p) = 2 + EntriesSize /\ p[1] = Mbr /\ p[2] = Header(1, t)
      /\ \A i \in 1 .. EntriesSize : p[2 + i] = Entries(t)
      /\ s \in Seq(Blocks) /\ Len(s) = EntriesSize + 1
  BY Areas
<1>4. Partitioned(t, b) = d
  BY DEF Partitioned
<1> HIDE DEF n, mid, p, s
<1> DEFINE pm == p \o mid
<1>5. /\ pm \in Seq(Blocks) /\ Len(pm) = Len(p) + Len(mid)
      /\ \A i \in 1 .. Len(p) : pm[i] = p[i]
  BY <1>2, <1>3, Joined
<1> HIDE DEF pm
<1>6. /\ d \in Seq(Blocks) /\ Len(d) = LastBlock + 1
      /\ \A i \in 1 .. 2 + EntriesSize : d[i] = p[i]
  <2>1. /\ pm \o s \in Seq(Blocks) /\ Len(pm \o s) = Len(pm) + Len(s)
        /\ \A i \in 1 .. Len(pm) : (pm \o s)[i] = pm[i]
    BY <1>3, <1>5, Joined
  <2>2. \A i \in 1 .. 2 + EntriesSize : i \in 1 .. Len(p) /\ i \in 1 .. Len(pm)
    BY <1>1, <1>2, <1>3, <1>5
  <2>3. d = pm \o s
    BY DEF pm
  <2> HIDE DEF d
  <2> QED
    BY <1>1, <1>2, <1>3, <1>5, <2>1, <2>2, <2>3
<1>7. d[1] = Mbr /\ d[2] = Header(1, t) /\ \A i \in 1 .. EntriesSize : d[2 + i] = Entries(t)
  BY <1>1, <1>3, <1>6
<1> HIDE DEF d
<1>8. Slice(d, 2, EntriesSize) = [i \in 1 .. EntriesSize |-> Entries(t)]
  <2> DEFINE sl == Slice(d, 2, EntriesSize)
  <2>1. /\ sl \in Seq(Blocks) /\ Len(sl) = EntriesSize
        /\ \A i \in 1 .. EntriesSize : sl[i] = d[2 + i]
    <3>1. 2 + EntriesSize <= Len(d) /\ EntriesSize \in Nat /\ 2 \in Nat /\ d \in Seq(Blocks)
      BY <1>1, <1>6
    <3> QED
      BY ONLY <3>1, SliceOfBlocks
  <2> HIDE DEF sl
  <2>2. DOMAIN sl = 1 .. EntriesSize /\ sl = [i \in DOMAIN sl |-> sl[i]]
    BY <2>1, LenProperties
  <2>3. sl = [i \in 1 .. EntriesSize |-> Entries(t)]
    BY <1>7, <2>1, <2>2
  <2> QED
    BY <2>3 DEF sl
<1>9. Valid(d[2], 1, Slice(d, 2, EntriesSize)) /\ d[2].table = t
  <2>1. d[2].kind = "header" /\ d[2].MyLBA = 1 /\ d[2].table = t
    BY <1>7 DEF Header
  <2>2. Len([i \in 1 .. EntriesSize |-> Entries(t)]) = EntriesSize
    BY <1>1, Repeated
  <2> QED
    BY <1>8, <2>1, <2>2 DEF Valid
<1> QED
  BY <1>4, <1>6, <1>7, <1>9 DEF TableOf

---------------------------------------------------------------------------
(* Steps.                                                                  *)

(* A disk that was partitioned and that no command saw.                    *)
LEMMA InitDiskInv == Init => DiskInv
<1> SUFFICES ASSUME Init PROVE DiskInv
  OBVIOUS
<1>1. PICK b \in DataBlocks :
        media = [disk |-> Partitioned(Table, b), stick |-> [i \in 1 .. StickSize |-> b]]
  BY DEF Init
<1>2. Table \in Tables
  BY DEF Tables
<1>3. /\ media["disk"] = Partitioned(Table, b) /\ media["stick"] = [i \in 1 .. StickSize |-> b]
      /\ DOMAIN media = {"disk", "stick"}
  BY <1>1
<1>4. media["disk"] \in Seq(Blocks) /\ Len(media["disk"]) = LastBlock + 1 /\ TableOf(media["disk"]) = Table
  BY <1>2, <1>3, PartitionedDisk
<1>5. media["stick"] \in Seq(Blocks) /\ Len(media["stick"]) = StickSize
  BY <1>3, BlockKinds, Repeated, DiskAssumption
<1>6. MediaOK(media)
  <2>1. media = [d \in {"disk", "stick"} |-> media[d]]
    BY <1>1
  <2> QED
    BY <1>4, <1>5, <2>1 DEF MediaOK, Devices, SizeOf
<1>7. HandlesOK(handles, table)
  <2>1. handles \in HandleDatabases(media["disk"]) /\ table = Table
    BY DEF Init
  <2> QED
    BY <1>2, <1>4, <2>1, HandlesOfTable
<1>8. files \in [FileNames -> Seq(Blocks)] /\ run = Idle /\ erased = FALSE /\ before = media
      /\ table = Table /\ boots = 0
  BY EmptySeq DEF Init, FileNames
<1> QED
  BY <1>2, <1>6, <1>7, <1>8 DEF DiskInv, RunOK

(* A command begins or ends at once.                                       *)
LEMMA CommandStep ==
  ASSUME DiskInv, NEW d, Command(d), RunOK'
  PROVE  DiskInv' /\ KeepsInside
<1>1. /\ media' = media /\ files' = files /\ handles' = handles /\ table' = table
      /\ erased' = erased /\ before' = media /\ boots' = boots
  BY DEF Command
<1>2. NoHeaders' <=> NoHeaders
  BY <1>1 DEF NoHeaders
<1> QED
  BY <1>1, <1>2 DEF DiskInv, KeepsInside

(* The disk that a command finds.                                          *)
LEMMA CommandDisk ==
  ASSUME DiskInv, NEW d \in Devices, Command(d)
  PROVE  d = "disk" /\ before' = media /\ table' = table
BY DiskIsFound DEF DiskInv, Command, Devices

(* A step that neither writes to the disk nor begins a command.            *)
LEMMA QuietStep ==
  ASSUME DiskInv, UNCHANGED << media, erased, World >>,
         files' \in [FileNames -> Seq(Blocks)], RunOK'
  PROVE  DiskInv' /\ KeepsInside
<1>1. /\ media' = media /\ handles' = handles /\ table' = table
      /\ erased' = erased /\ before' = before /\ boots' = boots
  BY DEF World
<1>2. NoHeaders' <=> NoHeaders
  BY <1>1 DEF NoHeaders
<1> QED
  BY <1>1, <1>2 DEF DiskInv, KeepsInside

(* A step of a command that writes blocks to the disk.                     *)
LEMMA WriteStep ==
  ASSUME DiskInv, NEW x, OnDisk(x), NEW offset \in Nat,
         NEW blocks \in Seq(Blocks), NEW n \in 0 .. Len(blocks),
         InExtent(x, offset, Len(blocks)) \/ n = 0,
         Written(x, offset, blocks, n),
         \A b \in x.first + offset .. x.first + offset + n - 1 : Mine(b),
         UNCHANGED << files, World >>,
         RunOK', erased' \in BOOLEAN, erased' => NoHeaders'
  PROVE  DiskInv' /\ KeepsInside
<1>1. MediaOK(media)
  BY DEF DiskInv
<1>2. /\ MediaOK(media') /\ media'["stick"] = media["stick"]
      /\ Replaces(x.first + offset, blocks, n)
  BY <1>1, WrittenBlocks
<1>3. KeepsInside
  BY <1>2 DEF KeepsInside, Replaces
<1>4. /\ files' = files /\ handles' = handles /\ table' = table /\ before' = before
      /\ boots' = boots
  BY DEF World
<1> QED
  BY <1>2, <1>3, <1>4 DEF DiskInv

(* Blocks without a header do not bring one back.                          *)
LEMMA NoHeaderWritten ==
  ASSUME MediaOK(media), NEW x, OnDisk(x), NEW offset \in Nat,
         NEW blocks \in Seq(Blocks), NEW n \in 0 .. Len(blocks),
         InExtent(x, offset, Len(blocks)) \/ n = 0,
         Written(x, offset, blocks, n),
         \A i \in 1 .. Len(blocks) : blocks[i].kind # "header"
  PROVE  /\ NoHeaders => NoHeaders'
         /\ media["disk"][2].kind # "header" => media'["disk"][2].kind # "header"
<1>1. Replaces(x.first + offset, blocks, n)
  BY WrittenBlocks
<1>2. x.first \in Nat /\ n \in Nat /\ Len(blocks) \in Nat /\ n <= Len(blocks)
      /\ LastBlock \in Nat /\ LastBlock >= 2
  BY DiskAssumption, LenProperties DEF OnDisk, Extents
<1>3. ASSUME NEW b \in 0 .. LastBlock, media["disk"][b + 1].kind # "header"
      PROVE  media'["disk"][b + 1].kind # "header"
  <2>1. b \in x.first + offset .. x.first + offset + n - 1
          => b - (x.first + offset) + 1 \in 1 .. Len(blocks)
    BY <1>2
  <2> QED
    BY <1>1, <1>3, <2>1 DEF Replaces
<1>4. 1 \in 0 .. LastBlock /\ LastBlock \in 0 .. LastBlock /\ 1 + 1 = 2
  BY <1>2
<1> QED
  BY <1>3, <1>4 DEF NoHeaders

(* A step of "flash" or "erase" writes data or zeros into its partition.   *)
LEMMA PieceStep ==
  ASSUME DiskInv, run \in FlashRuns \cup EraseRuns, NEW offset \in Nat,
         NEW blocks \in Seq(DataBlocks \cup {Zero}), NEW n \in 0 .. Len(blocks),
         InExtent(run.extent, offset, Len(blocks)) \/ n = 0,
         Written(run.extent, offset, blocks, n),
         UNCHANGED << files, World >>, RunOK',
         erased' \in {erased, erased /\ ~HoldsTable(blocks)}
  PROVE  DiskInv' /\ KeepsInside
<1> DEFINE x == run.extent
<1>1. /\ OnDisk(x) /\ Opened(before, table, x, run.name) /\ run.cmd \in {"flash", "erase"}
      /\ MediaOK(media) /\ erased \in BOOLEAN /\ (erased => NoHeaders)
  <2>1. RunOK
    BY DEF DiskInv
  <2>2. run.cmd \in {"flash", "erase"}
    BY DEF FlashRuns, EraseRuns
  <2>3. Opened(before, table, x, run.name)
    <3>1. /\ Idle.cmd = "none" /\ \A r \in TableRuns : r.cmd \in {"gpt erase", "gpt save"}
          /\ \A r \in SaveRuns : r.cmd = "save"
          /\ \A r \in WriteRuns : r.cmd = "write"
      BY DEF Idle, TableRuns, SaveRuns, WriteRuns
    <3>2. run # Idle /\ run \notin TableRuns /\ run \notin SaveRuns /\ run \notin WriteRuns
      BY <2>2, <3>1
    <3> QED
      BY <2>1, <3>2 DEF RunOK
  <2> QED
    BY <2>2, <2>3 DEF Opened, DiskInv
<1>2. /\ blocks \in Seq(Blocks)
      /\ \A i \in 1 .. Len(blocks) : blocks[i].kind # "header"
  <2>1. \A i \in 1 .. Len(blocks) : blocks[i] \in DataBlocks \cup {Zero}
    BY ElementOfSeq
  <2>2. blocks \in [1 .. Len(blocks) -> Blocks] /\ Len(blocks) \in Nat
    BY <2>1, BlockKinds, LenProperties
  <2> QED
    BY <2>1, <2>2, BlockKinds
<1> HIDE DEF x
<1>3. /\ n > 0 => offset + n <= x.size
      /\ NoHeaders => NoHeaders'
  BY <1>1, <1>2, WrittenBlocks, NoHeaderWritten DEF x
<1>4. ASSUME NEW b \in x.first + offset .. x.first + offset + n - 1
      PROVE  Mine(b)
  <2>1. /\ x.first \in Nat /\ x.size \in Nat /\ Len(blocks) \in Nat /\ n \in Nat
    BY <1>1, LenProperties DEF OnDisk, Extents
  <2>2. b \in x.first .. x.first + x.size - 1
    BY <1>3, <2>1
  <2>3. HasEntries(before["disk"], table)
          => \E e \in ToSet(table) : e.name = run.name /\ b \in e.first .. e.first + e.size - 1
    BY <1>1, <2>2 DEF Opened
  <2> QED
    BY <1>1, <2>3 DEF Mine
<1>5. erased' \in BOOLEAN /\ (erased' => NoHeaders')
  BY <1>1, <1>3
<1> QED
  BY <1>1, <1>2, <1>4, <1>5, WriteStep DEF x

(* What is read at a place of an image.                                    *)
LEMMA WordsRead ==
  ASSUME NEW image \in Images, image.sparse, NEW p \in Nat, NEW aligned \in BOOLEAN
  PROVE  /\ \A header \in HeadersAt(image, p, aligned) : header.ChunkSize \in Nat
         /\ BlocksAt(image, p, "raw", aligned) \subseteq DataBlocks
         /\ BlocksAt(image, p, "fill", aligned) \subseteq DataBlocks
         /\ \A kind : Reads(image.words, p, kind, aligned) \in BOOLEAN
<1>1. \A q \in DOMAIN image.words :
        IF image.words[q].word = "chunk" THEN image.words[q].ChunkSize \in Nat
        ELSE image.words[q].block \in DataBlocks
  BY ImagesAssumption
<1>2. \A header \in GarbageHeaders : header.ChunkSize \in Nat
  BY SizesAssumption DEF GarbageHeaders, ChunkHeader
<1>3. \A header \in HeadersAt(image, p, aligned) : header.ChunkSize \in Nat
  BY <1>1, <1>2 DEF HeadersAt, Reads
<1>4. \A kind \in {"raw", "fill"} : BlocksAt(image, p, kind, aligned) \subseteq DataBlocks
  BY <1>1 DEF BlocksAt, Reads
<1> QED
  BY <1>3, <1>4 DEF Reads

(* A command that only reads, that fails, or that begins.                  *)
LEMMA CommandsBegin ==
  ASSUME DiskInv,
         \/ NoResources \/ NotFound \/ FlashPartition \/ ErasePartition
         \/ SavePartitionData \/ ReadPartition \/ DumpDiskData
         \/ EraseGptTable \/ SaveGptTable \/ SaveDiskData \/ WriteDataToDisk
  PROVE  DiskInv' /\ KeepsInside
<1>0. /\ HandlesOK(handles, table) /\ table \in Tables \cup {NoTable}
      /\ files \in [FileNames -> Seq(Blocks)]
  BY DEF DiskInv
<1>1. CASE NoResources \/ NotFound \/ ReadPartition \/ DumpDiskData
  <2>1. PICK d : Command(d) /\ run' = Idle
    BY <1>1 DEF NoResources, NotFound, ReadPartition, DumpDiskData, Finish
  <2>2. RunOK'
    BY <2>1 DEF RunOK
  <2> QED
    BY <2>1, <2>2, CommandStep
<1>2. CASE FlashPartition
  <2>1. PICK d \in Devices, name \in Names, image \in Images :
          /\ Command(d)
          /\ IF image.sparse /\ image.MajorVersion # 1
             THEN Finish("INVALID_PARAMETER")
             ELSE \E x \in OpenPartition(d, name) :
                      run' = FlashOf(x, name, image) /\ UNCHANGED Status
    BY <1>2 DEF FlashPartition
  <2>2. d = "disk" /\ before' = media /\ table' = table
    BY <2>1, CommandDisk
  <2>3. ASSUME NEW x \in OpenPartition(d, name), run' = FlashOf(x, name, image) PROVE RunOK'
    <3>1. Opened(media, table, x, name)
      BY <1>0, <2>2, <2>3, OpenedPartition
    <3>2. FlashOf(x, name, image) \in FlashRuns
      BY <3>1 DEF FlashOf, FlashRuns, Opened, OnDisk
    <3>3. run'.extent = x /\ run'.name = name
      BY <2>3 DEF FlashOf
    <3> QED
      BY <2>2, <2>3, <3>1, <3>2, <3>3 DEF RunOK
  <2>4. RunOK'
    BY <2>1, <2>3 DEF Finish, RunOK
  <2> QED
    BY <2>1, <2>4, CommandStep
<1>3. CASE ErasePartition
  <2>1. PICK d \in Devices, name \in Names :
          /\ Command(d)
          /\ \E x \in OpenPartition(d, name) :
               run' = [cmd |-> "erase", extent |-> x, name |-> name, Offset |-> 0,
                       PartitionSize |-> x.size]
    BY <1>3 DEF ErasePartition, Go
  <2>2. d = "disk" /\ before' = media /\ table' = table
    BY <2>1, CommandDisk
  <2>3. PICK x \in OpenPartition(d, name) :
          run' = [cmd |-> "erase", extent |-> x, name |-> name, Offset |-> 0,
                  PartitionSize |-> x.size]
    BY <2>1
  <2>4. Opened(media, table, x, name)
    BY <1>0, <2>2, OpenedPartition
  <2>5. run' \in EraseRuns /\ run'.extent = x /\ run'.name = name
    BY <2>3, <2>4 DEF EraseRuns, Opened, OnDisk, Extents
  <2>6. RunOK'
    BY <2>2, <2>4, <2>5 DEF RunOK
  <2> QED
    BY <2>1, <2>6, CommandStep
<1>4. CASE SavePartitionData
  <2>1. PICK d \in Devices, name \in Names :
          /\ Command(d)
          /\ \E x \in OpenPartition(d, name) :
               \/ run' = Idle
               \/ run' = [cmd |-> "save", extent |-> x, Offset |-> 0, Size |-> x.size]
    BY <1>4 DEF SavePartitionData, Go, Finish
  <2>2. d = "disk"
    BY <2>1, CommandDisk
  <2>3. PICK x \in OpenPartition(d, name) :
          \/ run' = Idle
          \/ run' = [cmd |-> "save", extent |-> x, Offset |-> 0, Size |-> x.size]
    BY <2>1
  <2>4. OnDisk(x)
    BY <1>0, <2>2, OpenedPartition DEF Opened
  <2>5. run' = Idle \/ (run' \in SaveRuns /\ run'.extent = x)
    BY <2>3, <2>4 DEF SaveRuns, OnDisk, Extents
  <2>6. RunOK'
    BY <2>4, <2>5 DEF RunOK
  <2> QED
    BY <2>1, <2>6, CommandStep
<1>5. CASE EraseGptTable \/ SaveGptTable
  <2>1. PICK d \in Devices, cmd \in {"gpt erase", "gpt save"} :
          Command(d) /\ run' = [cmd |-> cmd, extent |-> Whole(d), step |-> "primary"]
    BY <1>5 DEF EraseGptTable, SaveGptTable, Go
  <2>2. d = "disk"
    BY <2>1, CommandDisk
  <2>3. run' = [cmd |-> cmd, extent |-> Whole("disk"), step |-> "primary"]
    BY <2>1, <2>2
  <2>4. run' \in TableRuns /\ run'.step = "primary"
    BY <2>3 DEF TableRuns
  <2>5. RunOK'
    BY <2>4 DEF RunOK
  <2> QED
    BY <2>1, <2>5, CommandStep
<1>6. CASE SaveDiskData
  <2>1. PICK d \in Devices, offset \in Offsets, size \in Sizes :
          Command(d) /\ run' = [cmd |-> "save", extent |-> Whole(d), Offset |-> offset, Size |-> size]
    BY <1>6 DEF SaveDiskData, Go
  <2>2. d = "disk"
    BY <2>1, CommandDisk
  <2>3. OnDisk(Whole("disk"))
    BY DiskAssumption DEF OnDisk, Extents, Whole, SizeOf
  <2>4. offset \in Nat /\ size \in Nat
    BY SizesAssumption
  <2>5. RunOK'
    BY <2>1, <2>2, <2>3, <2>4 DEF RunOK, SaveRuns, OnDisk
  <2> QED
    BY <2>1, <2>5, CommandStep
<1>7. CASE WriteDataToDisk
  <2>1. PICK d \in Devices, Buffer \in (UserFiles \cup Range(files)) \ {<< >>},
            Offset \in Offsets, Size \in Sizes :
          /\ Command(d)
          /\ LET TempSize == IF Size = 0 THEN Len(Buffer) ELSE Size
             IN  \E behind \in [Len(Buffer) + 1 .. TempSize -> Blocks] :
                   LET blocks == [i \in 1 .. TempSize |->
                                    IF i <= Len(Buffer) THEN Buffer[i] ELSE behind[i]]
                   IN  Go([cmd |-> "write", extent |-> Whole(d), Offset |-> Offset, blocks |-> blocks])
    BY <1>7 DEF WriteDataToDisk
  <2> DEFINE m == IF Size = 0 THEN Len(Buffer) ELSE Size
  <2> PICK behind \in [Len(Buffer) + 1 .. m -> Blocks] :
        LET blocks == [i \in 1 .. m |-> IF i <= Len(Buffer) THEN Buffer[i] ELSE behind[i]]
        IN  Go([cmd |-> "write", extent |-> Whole(d), Offset |-> Offset, blocks |-> blocks])
    BY <2>1
  <2>2. d = "disk"
    BY <2>1, CommandDisk
  <2>3. Buffer \in Seq(Blocks)
    <3>1. << Mbr >> \in Seq(Blocks) /\ \A c \in DataBlocks : << c >> \in Seq(Blocks)
      BY BlockKinds
    <3>2. PrimaryArea(OtherTable) \in Seq(Blocks)
      BY Areas DEF Tables
    <3>3. Range(files) \subseteq Seq(Blocks)
      BY <1>0 DEF Range
    <3> QED
      BY <3>1, <3>2, <3>3 DEF UserFiles
  <2> DEFINE blocks == [i \in 1 .. m |-> IF i <= Len(Buffer) THEN Buffer[i] ELSE behind[i]]
  <2>4. m \in Nat /\ Len(Buffer) \in Nat /\ Offset \in Nat
    BY <2>3, SizesAssumption, LenProperties
  <2> HIDE DEF m
  <2>5. blocks \in Seq(Blocks)
    <3>1. \A i \in 1 .. Len(Buffer) : Buffer[i] \in Blocks
      BY <2>3, ElementOfSeq
    <3>2. blocks \in [1 .. m -> Blocks]
      BY <2>4, <3>1, BlockKinds
    <3> QED
      BY <2>4, <3>2
  <2> HIDE DEF blocks
  <2>6. run' = [cmd |-> "write", extent |-> Whole("disk"), Offset |-> Offset, blocks |-> blocks]
    BY <2>2 DEF Go, blocks, m
  <2>7. run' \in WriteRuns
    BY <2>4, <2>5, <2>6 DEF WriteRuns
  <2>8. RunOK'
    BY <2>7 DEF RunOK
  <2> QED
    BY <2>1, <2>8, CommandStep
<1> QED
  BY <1>1, <1>2, <1>3, <1>4, <1>5, <1>6, <1>7

(* The running command by its name.                                        *)
LEMMA RunningCommand ==
  ASSUME DiskInv
  PROVE  /\ run.cmd = "flash" => run \in FlashRuns
         /\ run.cmd = "erase" => run \in EraseRuns
         /\ run.cmd \in {"gpt erase", "gpt save"} =>
              /\ run \in TableRuns
              /\ run.cmd = "gpt erase" /\ run.step = "secondary"
                   => media["disk"][2].kind # "header"
         /\ run.cmd = "save" => run \in SaveRuns /\ OnDisk(run.extent)
         /\ run.cmd = "write" => run \in WriteRuns
<1>1. /\ Idle.cmd = "none" /\ \A r \in TableRuns : r.cmd \in {"gpt erase", "gpt save"}
      /\ \A r \in SaveRuns : r.cmd = "save"
      /\ \A r \in WriteRuns : r.cmd = "write"
      /\ \A r \in FlashRuns : r.cmd = "flash"
      /\ \A r \in EraseRuns : r.cmd = "erase"
  BY DEF Idle, TableRuns, SaveRuns, WriteRuns, FlashRuns, EraseRuns
<1>2. RunOK
  BY DEF DiskInv
<1> QED
  BY <1>1, <1>2 DEF RunOK

(* A partition command that goes on keeps its partition.                   *)
LEMMA GoesOn ==
  ASSUME DiskInv, run \in FlashRuns \cup EraseRuns, UNCHANGED World,
         \/ run' = Idle
         \/ /\ run' \in FlashRuns \cup EraseRuns
            /\ run'.extent = run.extent /\ run'.name = run.name
  PROVE  RunOK'
<1>1. before' = before /\ table' = table
  BY DEF World
<1>2. Opened(before, table, run.extent, run.name)
  <2>1. /\ Idle.cmd = "none" /\ \A r \in TableRuns : r.cmd \in {"gpt erase", "gpt save"}
        /\ \A r \in SaveRuns : r.cmd = "save"
        /\ \A r \in WriteRuns : r.cmd = "write"
        /\ run.cmd \in {"flash", "erase"}
    BY DEF Idle, TableRuns, SaveRuns, WriteRuns, FlashRuns, EraseRuns
  <2>2. RunOK
    BY DEF DiskInv
  <2> QED
    BY <2>1, <2>2 DEF RunOK
<1> QED
  BY <1>1, <1>2 DEF RunOK

(* A write of a partition command: all of its blocks and then the rest of  *)
(* the step, or fewer of them and the end of the command.                  *)
LEMMA PartitionWrite ==
  ASSUME DiskInv, run \in FlashRuns \cup EraseRuns, NEW offset \in Nat,
         NEW blocks \in Seq(DataBlocks \cup {Zero}),
         \/ run' = Idle /\ UNCHANGED << media, erased >>
         \/ \E n \in 0 .. Len(blocks) :
              /\ InExtent(run.extent, offset, Len(blocks)) \/ n = 0
              /\ Written(run.extent, offset, blocks, n)
              /\ erased' \in {erased, erased /\ ~HoldsTable(blocks)},
         UNCHANGED << files, World >>,
         \/ run' = Idle
         \/ /\ run' \in FlashRuns \cup EraseRuns
            /\ run'.extent = run.extent /\ run'.name = run.name
  PROVE  DiskInv' /\ KeepsInside
<1>1. RunOK'
  BY GoesOn DEF World
<1>2. CASE run' = Idle /\ UNCHANGED << media, erased >>
  BY <1>1, <1>2, QuietStep DEF DiskInv
<1>3. CASE \E n \in 0 .. Len(blocks) :
              /\ InExtent(run.extent, offset, Len(blocks)) \/ n = 0
              /\ Written(run.extent, offset, blocks, n)
              /\ erased' \in {erased, erased /\ ~HoldsTable(blocks)}
  <2>1. PICK n \in 0 .. Len(blocks) :
              /\ InExtent(run.extent, offset, Len(blocks)) \/ n = 0
              /\ Written(run.extent, offset, blocks, n)
              /\ erased' \in {erased, erased /\ ~HoldsTable(blocks)}
    BY <1>3
  <2> QED
    BY <1>1, <2>1, PieceStep
<1> QED
  BY <1>2, <1>3

(* "flash".                                                                *)
LEMMA FlashStep ==
  ASSUME DiskInv, WritePlain \/ FlashSparseImage
  PROVE  DiskInv' /\ KeepsInside
<1>1. /\ run \in FlashRuns /\ run.image \in Images /\ run.Offset \in Nat /\ run.Left \in Nat
      /\ run.Image \in Nat /\ run.Chunk \in Nat /\ run.aligned \in BOOLEAN
      /\ UNCHANGED << files, World >>
  <2>1. run.cmd = "flash" /\ UNCHANGED << files, World >>
    BY DEF WritePlain, FlashSparseImage, NextChunk, FillPiece, EndOfChunks, AtChunk, Chunks, World
  <2>2. run \in FlashRuns
    BY <2>1, RunningCommand
  <2> QED
    BY <2>1, <2>2 DEF FlashRuns
<1>2. CASE WritePlain
  <2>1. run.image.blocks \in Seq(DataBlocks)
    BY <1>1, <1>2, ImagesAssumption DEF WritePlain
  <2>2. run.image.blocks \in Seq(DataBlocks \cup {Zero})
    BY <2>1
  <2>3. /\ run' = Idle
        /\ \/ UNCHANGED << media, erased >>
           \/ \E n \in 0 .. Len(run.image.blocks) :
                /\ InExtent(run.extent, 0, Len(run.image.blocks)) \/ n = 0
                /\ Written(run.extent, 0, run.image.blocks, n)
                /\ erased' \in {erased, erased /\ ~HoldsTable(run.image.blocks)}
    BY <1>2 DEF WritePlain, WritePartition, WriteDisk, Finish, Written
  <2> QED
    BY <1>1, <2>2, <2>3, PartitionWrite
<1>3. CASE FillPiece
  <2> DEFINE Count == IF run.Left > FILL_BUF_SIZE THEN FILL_BUF_SIZE ELSE run.Left
             rest == [run EXCEPT !.Offset = @ + Count, !.Left = @ - Count]
             al == Reads(run.image.words, run.Image + 1, "fill", run.aligned)
             last == [rest EXCEPT !.Image = @ + 2, !.Chunk = @ + 1, !.aligned = al]
             more == IF rest.Left = 0 THEN last ELSE rest
  <2>1. run.image.sparse
    BY <1>3 DEF FillPiece, Chunks
  <2>2. Count \in Nat /\ run.Left - Count \in Nat /\ run.Offset + Count \in Nat
        /\ run.Image + 1 \in Nat /\ run.Image + 2 \in Nat /\ run.Chunk + 1 \in Nat
    BY <1>1, SizesAssumption
  <2> HIDE DEF Count
  <2>3. al \in BOOLEAN
    BY <1>1 DEF Reads
  <2> HIDE DEF al
  <2>4. /\ rest \in FlashRuns /\ rest.extent = run.extent /\ rest.name = run.name
        /\ last \in FlashRuns /\ last.extent = run.extent /\ last.name = run.name
    BY <1>1, <2>2, <2>3 DEF FlashRuns
  <2>5. PICK b \in BlocksAt(run.image, run.Image + 1, "fill", run.aligned) :
          WritePartition(run.extent, run.Offset, [i \in 1 .. Count |-> b],
                         Go(more) /\ UNCHANGED erased)
    BY <1>3 DEF FillPiece, Count, al
  <2>6. b \in DataBlocks
    BY <1>1, <2>1, <2>2, <2>5, WordsRead
  <2> DEFINE blocks == [i \in 1 .. Count |-> b]
  <2>7. blocks \in Seq(DataBlocks \cup {Zero})
    BY <2>2, <2>6, Repeated
  <2>8. more \in FlashRuns /\ more.extent = run.extent /\ more.name = run.name
    BY <2>4
  <2> HIDE DEF more, blocks
  <2>9. /\ run' = Idle \/ run' = more
        /\ \/ run' = Idle /\ UNCHANGED << media, erased >>
           \/ \E n \in 0 .. Len(blocks) :
                /\ InExtent(run.extent, run.Offset, Len(blocks)) \/ n = 0
                /\ Written(run.extent, run.Offset, blocks, n)
                /\ erased' \in {erased, erased /\ ~HoldsTable(blocks)}
    BY <2>5 DEF WritePartition, WriteDisk, Finish, Go, Written, blocks
  <2> QED
    BY <1>1, <2>7, <2>8, <2>9, PartitionWrite
<1>4. CASE EndOfChunks
  <2>1. run' = Idle /\ UNCHANGED << media, erased >>
    BY <1>4 DEF EndOfChunks, Finish
  <2>2. RunOK'
    BY <2>1 DEF RunOK
  <2>3. files' \in [FileNames -> Seq(Blocks)]
    BY <1>1 DEF DiskInv
  <2> QED
    BY <1>1, <2>1, <2>2, <2>3, QuietStep
<1>5. CASE NextChunk
  <2>1. run.image.sparse
    BY <1>5 DEF NextChunk, AtChunk, Chunks
  <2> DEFINE al == Reads(run.image.words, run.Image, "chunk", run.aligned)
             r == [run EXCEPT !.aligned = al]
  <2>2. al \in BOOLEAN
    BY <1>1 DEF Reads
  <2>3. PICK header \in HeadersAt(run.image, run.Image, run.aligned) :
          CASE header.ChunkType = "RAW" -> RawChunk(r, header)
            [] header.ChunkType = "FILL" -> FillChunk(r, header)
            [] OTHER -> OtherChunk(r, header)
    BY <1>5 DEF NextChunk
  <2> HIDE DEF al
  <2>4. /\ r \in FlashRuns /\ r.extent = run.extent /\ r.name = run.name
        /\ r.image = run.image /\ r.Image = run.Image /\ r.Offset = run.Offset
        /\ r.Chunk = run.Chunk /\ r.aligned = al
    BY <1>1, <2>2 DEF FlashRuns
  <2>5. header.ChunkSize \in Nat
    BY <1>1, <2>1, <2>3, WordsRead
  <2> HIDE DEF r
  <2>6. RawChunk(r, header) \/ FillChunk(r, header) \/ OtherChunk(r, header)
    BY <2>3
  <2>7. CASE FillChunk(r, header) \/ OtherChunk(r, header)
    <3>1. UNCHANGED << media, erased >>
      BY <2>7 DEF FillChunk, OtherChunk
    <3>2. Reads(r.image.words, r.Image + 1, "fill", r.aligned) \in BOOLEAN
      BY <2>2, <2>4 DEF Reads
    <3>3. run' \in FlashRuns /\ run'.extent = r.extent /\ run'.name = r.name
      <4>0. /\ r.Image \in Nat /\ r.Chunk \in Nat /\ r.Offset \in Nat /\ r \in FlashRuns
            /\ header.ChunkSize \in Nat
        BY <1>1, <2>4, <2>5
      <4>1. CASE FillChunk(r, header)
        <5> DEFINE ok == Reads(r.image.words, r.Image + 1, "fill", r.aligned)
        <5>1. \/ run' = [r EXCEPT !.Image = @ + 2, !.Chunk = @ + 1, !.aligned = ok]
              \/ run' = [r EXCEPT !.Left = header.ChunkSize]
          BY <4>1 DEF FillChunk, Go
        <5> HIDE DEF ok
        <5>2. r.Image + 2 \in Nat /\ r.Chunk + 1 \in Nat
          BY <4>0
        <5>3. ok \in BOOLEAN
          BY <3>2 DEF ok
        <5> QED
          BY <4>0, <5>1, <5>2, <5>3 DEF FlashRuns
      <4>2. CASE OtherChunk(r, header)
        <5> DEFINE off == IF header.ChunkType = "DONT_CARE"
                          THEN r.Offset + header.ChunkSize ELSE r.Offset
        <5>1. run' = [r EXCEPT !.Image = @ + 1, !.Chunk = @ + 1, !.Offset = off]
          BY <4>2 DEF OtherChunk, Go
        <5>2. off \in Nat /\ r.Image + 1 \in Nat /\ r.Chunk + 1 \in Nat
          BY <4>0
        <5> HIDE DEF off
        <5> QED
          BY <4>0, <5>1, <5>2 DEF FlashRuns
      <4> QED
        BY <2>7, <4>1, <4>2
    <3>4. RunOK'
      BY <1>1, <2>4, <3>3, GoesOn DEF World
    <3>5. files' \in [FileNames -> Seq(Blocks)]
      BY <1>1 DEF DiskInv
    <3> QED
      BY <1>1, <3>1, <3>4, <3>5, QuietStep
  <2>8. CASE RawChunk(r, header)
    <3> DEFINE n == header.ChunkSize
               w == WriteSize(header)
               ok == \A i \in 1 .. n : Reads(r.image.words, r.Image + i, "raw", r.aligned)
               next == [r EXCEPT !.Image = @ + n + 1, !.Offset = @ + n, !.Chunk = @ + 1,
                                 !.aligned = ok]
    <3>1. w \in Nat
      BY <2>5, SizesAssumption DEF WriteSize
    <3>2. next \in FlashRuns /\ next.extent = run.extent /\ next.name = run.name
      <4>1. ok \in BOOLEAN
        OBVIOUS
      <4>2. /\ n \in Nat /\ r.Image + n + 1 \in Nat /\ r.Offset + n \in Nat /\ r.Chunk + 1 \in Nat
        BY <1>1, <2>4, <2>5
      <4> HIDE DEF ok, n
      <4> QED
        BY <2>4, <4>1, <4>2 DEF FlashRuns
    <3>3. PICK blocks \in [1 .. w -> DataBlocks] :
            WritePartition(r.extent, r.Offset, blocks, Go(next) /\ UNCHANGED erased)
      BY <2>8 DEF RawChunk
    <3>4. blocks \in Seq(DataBlocks \cup {Zero})
      BY <3>1, <3>3
    <3> HIDE DEF next, w
    <3>5. /\ run' = Idle \/ run' = next
          /\ \/ run' = Idle /\ UNCHANGED << media, erased >>
             \/ \E k \in 0 .. Len(blocks) :
                  /\ InExtent(run.extent, run.Offset, Len(blocks)) \/ k = 0
                  /\ Written(run.extent, run.Offset, blocks, k)
                  /\ erased' \in {erased, erased /\ ~HoldsTable(blocks)}
      BY <2>4, <3>3 DEF WritePartition, WriteDisk, Finish, Go, Written
    <3> QED
      BY <1>1, <3>2, <3>4, <3>5, PartitionWrite
  <2> QED
    BY <2>6, <2>7, <2>8
<1> QED
  BY <1>2, <1>3, <1>4, <1>5 DEF FlashSparseImage

(* "erase".                                                                *)
LEMMA EraseStep ==
  ASSUME DiskInv, ErasePiece
  PROVE  DiskInv' /\ KeepsInside
<1>1. /\ run \in EraseRuns /\ run.Offset \in Nat /\ run.PartitionSize \in Nat
      /\ UNCHANGED << files, World >>
  <2>1. run.cmd = "erase" /\ UNCHANGED << files, World >>
    BY DEF ErasePiece, World
  <2>2. run \in EraseRuns
    BY <2>1, RunningCommand
  <2> QED
    BY <2>1, <2>2 DEF EraseRuns
<1> DEFINE Count == IF run.PartitionSize > FILL_BUF_SIZE THEN FILL_BUF_SIZE ELSE run.PartitionSize
           more == [run EXCEPT !.Offset = @ + Count, !.PartitionSize = @ - Count]
           blocks == Zeros(Count)
<1>2. Count \in Nat /\ run.PartitionSize - Count \in Nat /\ run.Offset + Count \in Nat
  BY <1>1, SizesAssumption
<1>3. \/ run' = Idle \/ run' = more
  BY DEF ErasePiece, WriteDisk, Finish, Go
<1>4. \E n \in 0 .. Len(blocks) :
        /\ InExtent(run.extent, run.Offset, Len(blocks)) \/ n = 0
        /\ Written(run.extent, run.Offset, blocks, n)
        /\ erased' \in {erased, erased /\ ~HoldsTable(blocks)}
  <2> HIDE DEF blocks, more
  <2>1. WriteDisk(run.extent, run.Offset, blocks,
                  /\ IF run.PartitionSize = Count THEN Finish("SUCCESS") ELSE Go(more)
                  /\ UNCHANGED erased)
    BY DEF ErasePiece, blocks, more
  <2> HIDE DEF Count
  <2> QED
    BY <2>1 DEF WriteDisk, Written
<1> HIDE DEF Count
<1>5. more \in EraseRuns /\ more.extent = run.extent /\ more.name = run.name
  BY <1>1, <1>2 DEF EraseRuns
<1>6. blocks \in Seq(DataBlocks \cup {Zero})
  BY <1>2, Repeated DEF Zeros
<1> HIDE DEF more, blocks
<1> QED
  BY <1>1, <1>3, <1>4, <1>5, <1>6, PartitionWrite

(* The disk as a whole.                                                    *)
LEMMA WholeDisk ==
  /\ OnDisk(Whole("disk")) /\ Whole("disk").device = "disk"
  /\ Whole("disk").first = 0 /\ Whole("disk").size = LastBlock + 1
BY DiskAssumption DEF OnDisk, Extents, Whole, SizeOf

(* Blocks of zeros.                                                        *)
LEMMA ZerosWritten ==
  ASSUME NEW n \in Nat
  PROVE  /\ Zeros(n) \in Seq(Blocks) /\ Len(Zeros(n)) = n
         /\ \A i \in 1 .. n : Zeros(n)[i] = Zero
BY BlockKinds, Repeated DEF Zeros

(* "gpt erase": the first step leaves no primary header, the second one no *)
(* backup either.                                                          *)
LEMMA TableErased ==
  ASSUME DiskInv, ErasePrimary \/ EraseSecondary
  PROVE  DiskInv' /\ KeepsInside
<1> DEFINE x == Whole("disk")
<1>0. /\ LastBlock \in Nat /\ EntriesSize \in Nat /\ LastBlock - EntriesSize \in Nat
      /\ 2 + EntriesSize \in Nat /\ 1 + EntriesSize \in Nat
  BY DiskAssumption
<1>1. /\ run \in TableRuns /\ run.cmd = "gpt erase" /\ run.extent = x
      /\ UNCHANGED << files, World >> /\ MediaOK(media)
      /\ erased \in BOOLEAN /\ (erased => NoHeaders)
      /\ run.step = "secondary" => media["disk"][2].kind # "header"
  <2>1. run.cmd = "gpt erase" /\ UNCHANGED << files, World >>
    BY DEF ErasePrimary, EraseSecondary, World
  <2>2. run \in TableRuns /\ (run.step = "secondary" => media["disk"][2].kind # "header")
    BY <2>1, RunningCommand
  <2> QED
    BY <2>1, <2>2 DEF TableRuns, DiskInv
<1>2. OnDisk(x) /\ x.first = 0 /\ x.size = LastBlock + 1
  BY WholeDisk
<1> HIDE DEF x
<1>3. CASE ErasePrimary
  <2> DEFINE at == 0
             blocks == Zeros(2 + EntriesSize)
             more == [run EXCEPT !.step = "secondary"]
  <2>1. /\ blocks \in Seq(Blocks) /\ Len(blocks) = 2 + EntriesSize
        /\ \A i \in 1 .. Len(blocks) : blocks[i] = Zero
    BY <1>0, ZerosWritten
  <2> HIDE DEF blocks, at
  <2>0. at \in Nat /\ at = 0
    BY DEF at
  <2>2. PICK n \in 0 .. Len(blocks) :
          /\ InExtent(x, at, Len(blocks)) \/ n = 0
          /\ Written(x, at, blocks, n)
          /\ \/ run' = Idle
             \/ run' = more /\ n = Len(blocks)
          /\ erased' \in {erased, erased /\ ~HoldsTable(blocks)}
    BY <1>1, <1>3 DEF ErasePrimary, WriteDisk, Written, Finish, Go, blocks, at
  <2>3. \A i \in 1 .. Len(blocks) : blocks[i].kind # "header"
    BY <2>1, BlockKinds
  <2>4. NoHeaders => NoHeaders'
    BY <1>1, <1>2, <2>0, <2>1, <2>2, <2>3, NoHeaderWritten
  <2>5. n = Len(blocks) => media'["disk"][2] = Zero
    <3>1. Replaces(x.first + at, blocks, n)
      BY <1>1, <1>2, <2>0, <2>1, <2>2, WrittenBlocks
    <3>2. 1 \in 0 .. LastBlock /\ 1 + 1 = 2 /\ 1 - (x.first + at) + 1 = 2
      BY <1>0, <1>2, <2>0, DiskAssumption
    <3>3. n = Len(blocks) => 1 \in x.first + at .. x.first + at + n - 1
      BY <1>0, <1>2, <2>0, <2>1
    <3>4. n = Len(blocks) => media'["disk"][2] = blocks[2]
      BY <3>1, <3>2, <3>3 DEF Replaces
    <3>5. 2 \in 1 .. Len(blocks)
      BY <1>0, <2>1
    <3> QED
      BY <2>1, <3>4, <3>5
  <2>6. RunOK'
    <3>1. more \in TableRuns /\ more.cmd = "gpt erase"
      BY <1>1 DEF TableRuns
    <3> HIDE DEF more
    <3>2. Zero.kind # "header"
      BY BlockKinds
    <3> QED
      BY <2>2, <2>5, <3>1, <3>2 DEF RunOK
  <2>7. \A b \in x.first + at .. x.first + at + n - 1 : Mine(b)
    <3>1. n \in Nat /\ n <= 2 + EntriesSize
      BY <1>0, <2>1
    <3>2. \A b \in x.first + at .. x.first + at + n - 1 : b \in 0 .. 1 + EntriesSize
      BY <1>0, <1>2, <2>0, <3>1
    <3> QED
      BY <1>1, <3>2 DEF Mine
  <2>8. erased' \in BOOLEAN /\ (erased' => NoHeaders')
    BY <1>1, <2>2, <2>4
  <2> QED
    BY <1>1, <1>2, <2>0, <2>1, <2>2, <2>6, <2>7, <2>8, WriteStep
<1>4. CASE EraseSecondary
  <2> DEFINE blocks == Zeros(1 + EntriesSize)
             at == LastBlock - EntriesSize
  <2>1. /\ blocks \in Seq(Blocks) /\ Len(blocks) = 1 + EntriesSize
        /\ \A i \in 1 .. Len(blocks) : blocks[i] = Zero
    BY <1>0, ZerosWritten
  <2> HIDE DEF blocks
  <2>2. at \in Nat
    BY <1>0
  <2>3. /\ run.step = "secondary"
        /\ WriteDisk(x, at, blocks, Finish("SUCCESS") /\ erased' = TRUE)
    BY <1>1, <1>4 DEF EraseSecondary, SecondaryPartitionEntryLBA, blocks
  <2>4. PICK n \in 0 .. Len(blocks) :
          /\ InExtent(x, at, Len(blocks)) \/ n = 0
          /\ Written(x, at, blocks, n)
          /\ run' = Idle
          /\ \/ n = Len(blocks) /\ erased' = TRUE
             \/ erased' = (erased /\ ~HoldsTable(blocks))
    BY <2>3 DEF WriteDisk, Written, Finish
  <2>5. \A i \in 1 .. Len(blocks) : blocks[i].kind # "header"
    BY <2>1, BlockKinds
  <2> HIDE DEF at
  <2>6. /\ NoHeaders => NoHeaders'
        /\ media'["disk"][2].kind # "header"
    BY <1>1, <1>2, <2>1, <2>2, <2>3, <2>4, <2>5, NoHeaderWritten
  <2>7. n = Len(blocks) => media'["disk"][LastBlock + 1] = Zero
    <3>1. Replaces(x.first + at, blocks, n)
      BY <1>1, <1>2, <2>1, <2>2, <2>4, WrittenBlocks
    <3>2. LastBlock \in 0 .. LastBlock /\ x.first + at = at
      BY <1>0, <1>2, <2>2
    <3>3. n = Len(blocks) => LastBlock \in x.first + at .. x.first + at + n - 1
      BY <1>0, <1>2, <2>1 DEF at
    <3>4. LastBlock - (x.first + at) + 1 = 1 + EntriesSize /\ 1 + EntriesSize \in 1 .. Len(blocks)
      BY <1>0, <1>2, <2>1 DEF at
    <3> QED
      BY <2>1, <3>1, <3>2, <3>3, <3>4 DEF Replaces
  <2>8. erased' \in BOOLEAN /\ (erased' => NoHeaders')
    BY <1>1, <2>4, <2>6, <2>7, BlockKinds DEF NoHeaders
  <2>9. \A b \in x.first + at .. x.first + at + n - 1 : Mine(b)
    <3>1. n \in Nat /\ n <= 1 + EntriesSize
      BY <1>0, <2>1
    <3>2. \A b \in x.first + at .. x.first + at + n - 1 : b \in LastBlock - EntriesSize .. LastBlock
      BY <1>0, <1>2, <3>1 DEF at
    <3> QED
      BY <1>1, <3>2 DEF Mine
  <2>10. RunOK'
    BY <2>4 DEF RunOK
  <2> QED
    BY <1>1, <1>2, <2>1, <2>2, <2>4, <2>8, <2>9, <2>10, WriteStep
<1> QED
  BY <1>3, <1>4

(* "write".                                                                *)
LEMMA DataWritten ==
  ASSUME DiskInv, WriteData
  PROVE  DiskInv' /\ KeepsInside
<1> DEFINE x == Whole("disk")
           blocks == run.blocks
           at == run.Offset
<1>1. /\ run.cmd = "write" /\ run.extent = x /\ at \in Nat /\ blocks \in Seq(Blocks)
      /\ UNCHANGED << files, World >> /\ MediaOK(media)
      /\ erased \in BOOLEAN /\ (erased => NoHeaders)
  <2>1. run.cmd = "write" /\ UNCHANGED << files, World >>
    BY DEF WriteData, World
  <2>2. run \in WriteRuns
    BY <2>1, RunningCommand
  <2> QED
    BY <2>1, <2>2 DEF WriteRuns, DiskInv
<1>2. OnDisk(x) /\ x.first = 0
  BY WholeDisk
<1>3. WriteDisk(x, at, blocks, Finish("SUCCESS") /\ erased' = (erased /\ ~HoldsTable(blocks)))
  BY <1>1 DEF WriteData
<1> HIDE DEF x, blocks, at
<1>4. PICK n \in 0 .. Len(blocks) :
        /\ InExtent(x, at, Len(blocks)) \/ n = 0
        /\ Written(x, at, blocks, n)
        /\ run' = Idle
        /\ erased' = (erased /\ ~HoldsTable(blocks))
  BY <1>3 DEF WriteDisk, Written, Finish
<1>5. erased' \in BOOLEAN /\ (erased' => NoHeaders')
  <2>1. ~HoldsTable(blocks) => \A i \in 1 .. Len(blocks) : blocks[i].kind # "header"
    BY <1>1, LenProperties DEF HoldsTable
  <2>2. ~HoldsTable(blocks) /\ NoHeaders => NoHeaders'
    BY <1>1, <1>2, <1>4, <2>1, NoHeaderWritten
  <2> QED
    BY <1>1, <1>4, <2>2
<1>6. \A b \in x.first + at .. x.first + at + n - 1 : Mine(b)
  <2>1. n \in Nat /\ Len(blocks) \in Nat /\ n <= Len(blocks)
    BY <1>1, LenProperties
  <2>2. \A b \in x.first + at .. x.first + at + n - 1 : b \in at .. at + Len(blocks) - 1
    BY <1>1, <1>2, <2>1
  <2> QED
    BY <1>1, <2>2 DEF Mine, at, blocks
<1>7. RunOK'
  BY <1>4 DEF RunOK
<1> QED
  BY <1>1, <1>2, <1>4, <1>5, <1>6, <1>7, WriteStep

(* A file that is written over holds blocks.                               *)
LEMMA WrittenOver ==
  ASSUME NEW B, NEW old \in Seq(B), NEW new \in Seq(B)
  PROVE  Over(old, new) \in Seq(B)
<1> DEFINE rest == SubSeq(old, Len(new) + 1, Len(old))
<1>1. Len(new) \in Nat /\ Len(old) \in Nat /\ \A i \in 1 .. Len(old) : old[i] \in B
  BY ElementOfSeq, LenProperties
<1>2. Len(new) + 1 \in Int /\ Len(old) \in Int
      /\ \A i \in Len(new) + 1 .. Len(old) : old[i] \in B
  BY <1>1
<1>3. rest \in Seq(B)
  BY <1>2, SubSeqProperties
<1> HIDE DEF rest
<1>4. new \o rest \in Seq(B)
  BY <1>3, Joined
<1> QED
  BY <1>4 DEF Over, rest

(* Blocks of the disk, or the first ones of them, go to a file.            *)
LEMMA SavedStep ==
  ASSUME DiskInv, NEW x, OnDisk(x), NEW offset \in Nat, NEW size \in Nat,
         NEW name \in FileNames, NEW ACTION next,
         ReadAndSave(x, offset, size, name, next)
  PROVE  files' \in [FileNames -> Seq(Blocks)]
<1>1. files \in [FileNames -> Seq(Blocks)] /\ MediaOK(media)
  BY DEF DiskInv
<1> DEFINE blocks == Slice(media[x.device], x.first + offset, size)
<1>2. CASE files' = files
  BY <1>1, <1>2
<1>3. CASE InExtent(x, offset, size) /\ SaveFileToDisk(name, blocks, next)
  <2>1. /\ media[x.device] \in Seq(Blocks) /\ Len(media[x.device]) = LastBlock + 1
        /\ x.first \in Nat /\ x.size \in Nat /\ x.first + offset \in Nat
        /\ x.first + offset + size <= LastBlock + 1
    BY <1>1, <1>3, DiskAssumption DEF MediaOK, OnDisk, Extents, Devices, SizeOf, InExtent
  <2>2. blocks \in Seq(Blocks)
    BY <2>1, SliceOfBlocks
  <2>3. PICK old \in {<< >>, files[name]}, n \in 0 .. Len(blocks) :
          files' = [files EXCEPT ![name] = Over(old, SubSeq(blocks, 1, n))]
    BY <1>3 DEF SaveFileToDisk
  <2> HIDE DEF blocks
  <2>4. SubSeq(blocks, 1, n) \in Seq(Blocks)
    BY <2>2, FirstBlocks
  <2>5. old \in Seq(Blocks)
    BY <1>1, EmptySeq
  <2>6. Over(old, SubSeq(blocks, 1, n)) \in Seq(Blocks)
    BY <2>4, <2>5, WrittenOver
  <2> QED
    BY <1>1, <2>3, <2>6
<1> QED
  BY <1>2, <1>3 DEF ReadAndSave

(* "save", "savepart" and "gpt save".                                      *)
LEMMA SaveStep ==
  ASSUME DiskInv, SavePrimary \/ SaveSecondary \/ SaveData
  PROVE  DiskInv' /\ KeepsInside
<1>0. /\ 2 + EntriesSize \in Nat /\ 1 + EntriesSize \in Nat /\ 0 \in Nat
      /\ SecondaryPartitionEntryLBA \in Nat
      /\ "PrimarySave" \in FileNames /\ "SecondarySave" \in FileNames /\ "Data" \in FileNames
  BY DiskAssumption DEF SecondaryPartitionEntryLBA, FileNames
<1>1. CASE SavePrimary
  <2>1. run \in TableRuns /\ run.cmd = "gpt save" /\ run.extent = Whole("disk")
    BY <1>1, RunningCommand DEF SavePrimary, TableRuns
  <2>2. OnDisk(run.extent)
    BY <2>1, WholeDisk
  <2>3. files' \in [FileNames -> Seq(Blocks)]
    BY <1>0, <1>1, <2>2, SavedStep DEF SavePrimary
  <2>4. UNCHANGED << media, erased, World >> /\ run' \in {Idle, [run EXCEPT !.step = "secondary"]}
    BY <1>1 DEF SavePrimary, ReadAndSave, SaveFileToDisk, Finish, Go
  <2>5. run' = Idle \/ (run' \in TableRuns /\ run'.cmd = "gpt save")
    BY <2>1, <2>4 DEF TableRuns
  <2>6. RunOK'
    BY <2>5 DEF RunOK
  <2> QED
    BY <2>3, <2>4, <2>6, QuietStep
<1>2. CASE SaveSecondary
  <2>1. run.extent = Whole("disk")
    BY <1>2, RunningCommand DEF SaveSecondary, TableRuns
  <2>2. OnDisk(run.extent)
    BY <2>1, WholeDisk
  <2>3. files' \in [FileNames -> Seq(Blocks)]
    BY <1>0, <1>2, <2>2, SavedStep DEF SaveSecondary
  <2>4. UNCHANGED << media, erased, World >> /\ run' = Idle
    BY <1>2 DEF SaveSecondary, ReadAndSave, SaveFileToDisk, Finish
  <2>5. RunOK'
    BY <2>4 DEF RunOK
  <2> QED
    BY <2>3, <2>4, <2>5, QuietStep
<1>3. CASE SaveData
  <2>1. OnDisk(run.extent) /\ run.Offset \in Nat /\ run.Size \in Nat
    BY <1>3, RunningCommand DEF SaveData, SaveRuns
  <2>2. files' \in [FileNames -> Seq(Blocks)]
    BY <1>0, <1>3, <2>1, SavedStep DEF SaveData
  <2>3. UNCHANGED << media, erased, World >> /\ run' = Idle
    BY <1>3 DEF SaveData, ReadAndSave, SaveFileToDisk, Finish
  <2>4. RunOK'
    BY <2>3 DEF RunOK
  <2> QED
    BY <2>2, <2>3, <2>4, QuietStep
<1> QED
  BY <1>1, <1>2, <1>3

(* A disk without headers has no table, whatever its first block is.       *)
LEMMA NoHeadersNoTable ==
  ASSUME NEW blocks, blocks[2].kind # "header", blocks[LastBlock + 1].kind # "header"
  PROVE  TableOf(blocks) = NoTable
BY DEF TableOf, Valid

(* The firmware's repair writes the copies of the table that it found, and *)
(* nothing to a disk without one.                                          *)
LEMMA BootStep ==
  ASSUME DiskInv, Boot
  PROVE  DiskInv' /\ KeepsInside
<1> DEFINE old == media["disk"]
           t == TableOf(old)
           new == Repaired(old)
<1>1. /\ MediaOK(media) /\ boots \in Nat /\ erased \in BOOLEAN /\ (erased => NoHeaders)
      /\ old \in Seq(Blocks) /\ Len(old) = LastBlock + 1
  BY DEF DiskInv, MediaOK, Devices, SizeOf
<1>2. t \in Tables \cup {NoTable}
  BY <1>1, TableFound
<1>3. HandlesOK(handles, table)'
  <2>1. handles' \in HandleDatabases(old) /\ table' = t
    BY DEF Boot
  <2>2. HandlesOK(handles', t)
    BY <1>2, <2>1, HandlesOfTable
  <2> QED
    BY <2>1, <2>2
<1>4. new \in Seq(Blocks) /\ Len(new) = LastBlock + 1
  <2>1. CASE t = NoTable
    BY <1>1, <2>1 DEF Repaired
  <2>2. CASE t # NoTable
    <3> DEFINE mid == Overwrite(old, 0, PrimaryArea(t))
               at == LastBlock - EntriesSize
    <3>1. PrimaryArea(t) \in Seq(Blocks) /\ SecondaryArea(t) \in Seq(Blocks)
      BY <1>2, <2>2, Areas
    <3>2. mid \in Seq(Blocks) /\ Len(mid) = LastBlock + 1
      <4> HIDE DEF t, old
      <4> QED
        BY <1>1, <3>1, Overwritten
    <3>3. new = Overwrite(mid, at, SecondaryArea(t))
      BY <2>2 DEF Repaired
    <3>4. at \in Nat
      BY DiskAssumption
    <3> HIDE DEF mid, at, t, new
    <3> QED
      BY <3>1, <3>2, <3>3, <3>4, Overwritten
  <2> QED
    BY <2>1, <2>2
<1>5. media' = [media EXCEPT !["disk"] = new]
  BY DEF Boot
<1>6. NoHeaders => NoHeaders'
  <2> SUFFICES ASSUME NoHeaders PROVE NoHeaders'
    OBVIOUS
  <2>1. t = NoTable
    BY NoHeadersNoTable DEF NoHeaders
  <2>2. new = old
    BY <2>1 DEF Repaired
  <2>3. media'["disk"] = old
    BY <1>1, <1>5, <2>2 DEF MediaOK, Devices
  <2> QED
    BY <2>3 DEF NoHeaders
<1> HIDE DEF new
<1>7. MediaOK(media')
  BY <1>1, <1>4, <1>5 DEF MediaOK, Devices, SizeOf
<1>8. /\ run' = Idle /\ files' = files /\ before' = before /\ erased' = erased
      /\ boots' = boots + 1 /\ table' = t
  BY DEF Boot
<1>9. KeepsInside
  BY <1>1, <1>8 DEF KeepsInside
<1>10. RunOK'
  BY <1>8 DEF RunOK
<1>11. boots' \in Nat
  BY <1>1, <1>8
<1>12. (table \in Tables \cup {NoTable})'
  BY <1>2, <1>8
<1> QED
  BY <1>1, <1>3, <1>6, <1>7, <1>8, <1>9, <1>10, <1>11, <1>12 DEF DiskInv

(* Every step keeps the invariant, and what it is not told to change.      *)
LEMMA NextDiskInv == DiskInv /\ [Next]_vars => DiskInv' /\ (UNCHANGED vars \/ KeepsInside)
<1> SUFFICES ASSUME DiskInv, [Next]_vars PROVE DiskInv' /\ (UNCHANGED vars \/ KeepsInside)
  OBVIOUS
<1>1. CASE \/ NoResources \/ NotFound \/ FlashPartition \/ ErasePartition
           \/ SavePartitionData \/ ReadPartition \/ DumpDiskData
           \/ EraseGptTable \/ SaveGptTable \/ SaveDiskData \/ WriteDataToDisk
  BY <1>1, CommandsBegin
<1>2. CASE WritePlain \/ FlashSparseImage
  BY <1>2, FlashStep
<1>3. CASE ErasePiece
  BY <1>3, EraseStep
<1>4. CASE ErasePrimary \/ EraseSecondary
  BY <1>4, TableErased
<1>5. CASE SavePrimary \/ SaveSecondary \/ SaveData
  BY <1>5, SaveStep
<1>6. CASE WriteData
  BY <1>6, DataWritten
<1>7. CASE Boot
  BY <1>7, BootStep
<1>8. CASE UNCHANGED vars
  BY <1>8 DEF vars, DiskInv, RunOK, NoHeaders
<1> QED
  BY <1>1, <1>2, <1>3, <1>4, <1>5, <1>6, <1>7, <1>8 DEF Next

(* The invariant holds in every reachable state.                           *)
LEMMA SpecDiskInv == Spec => []DiskInv
  BY InitDiskInv, NextDiskInv, PTL DEF Spec

(* Without headers there is no table, even behind a new protective MBR.    *)
LEMMA NothingToRepair ==
  DiskInv => ErasedStaysErased
<1> SUFFICES ASSUME DiskInv, erased
             PROVE  TableOf(Overwrite(media["disk"], 0, << Mbr >>)) = NoTable
  BY DEF ErasedStaysErased
<1> DEFINE old == media["disk"]
           new == Overwrite(old, 0, << Mbr >>)
<1>1. /\ old \in Seq(Blocks) /\ Len(old) = LastBlock + 1
      /\ old[2].kind # "header" /\ old[LastBlock + 1].kind # "header"
  BY DEF DiskInv, MediaOK, Devices, SizeOf, NoHeaders
<1>2. << Mbr >> \in Seq(Blocks) /\ Len(<< Mbr >>) = 1 /\ 0 \in Nat
  BY BlockKinds
<1>3. 2 \in 1 .. Len(old) /\ LastBlock + 1 \in 1 .. Len(old) /\ LastBlock + 1 > 1
  BY <1>1, DiskAssumption
<1> HIDE DEF old
<1>4. PICK at \in Nat, mbr \in Seq(Blocks) : at = 0 /\ mbr = << Mbr >>
  BY <1>2
<1>5. new[2] = old[2] /\ new[LastBlock + 1] = old[LastBlock + 1]
  <2>1. \A i \in 1 .. Len(old) :
          Overwrite(old, at, mbr)[i] = IF i \in at + 1 .. at + Len(mbr) THEN mbr[i - at] ELSE old[i]
    <3>1. old \in Seq(Blocks) /\ at \in Nat /\ mbr \in Seq(Blocks)
      BY <1>1
    <3> QED
      BY ONLY <3>1, Overwritten
  <2>2. 2 \notin at + 1 .. at + Len(mbr) /\ LastBlock + 1 \notin at + 1 .. at + Len(mbr)
    BY <1>2, <1>3, <1>4, DiskAssumption
  <2> QED
    BY <1>3, <1>4, <2>1, <2>2
<1>6. TableOf(new) = NoTable
  BY <1>1, <1>5, NoHeadersNoTable
<1> QED
  BY <1>6 DEF old

---------------------------------------------------------------------------
(* What the partition editor does, for every disk, table and image.        *)

(* After "gpt erase" passed, no boot, no failing write and no command that *)
(* writes data brings the table back: neither EraseGptTable() nor the      *)
(* firmware's repair leaves a copy to start from.                          *)
THEOREM ErasedStaysErasedAlways == Spec => []ErasedStaysErased
  BY SpecDiskInv, NothingToRepair, PTL

(* A command changes only the blocks that it is told to, and never the     *)
(* stick, wherever a write fails: OpenPartition() joins the names on the   *)
(* disk with the handles of the last boot, and the chunk loop of           *)
(* FlashSparseImage() and the erase loop stay in the partition.            *)
THEOREM CommandsStayInside == Spec => WritesStayInside
<1>1. DiskInv /\ [Next]_vars => [KeepsInside]_vars
  BY NextDiskInv
<1>2. Spec => [][KeepsInside]_vars
  BY <1>1, SpecDiskInv, PTL DEF Spec
<1> QED
  BY <1>2 DEF WritesStayInside, KeepsInside

---------------------------------------------------------------------------
(* Arithmetic. *)

(* A value that fits in a uint64_t is kept. *)
LEMMA NoWrap == \A x \in Nat : x < Word => x % Word = x
  BY PartitionIoAssumption

(* A difference below 0 is taken modulo the word. *)
LEMMA WrapsOnce == \A x \in Int : -Word <= x /\ x < 0 => x % Word = x + Word
<1>1. Word \in Nat \ {0}
  BY PartitionIoAssumption
<1>2. SUFFICES ASSUME NEW x \in Int, -Word <= x, x < 0 PROVE x % Word = x + Word
  OBVIOUS
<1>3. x + Word \in 0 .. Word - 1
  BY <1>1, <1>2
<1> QED
  BY <1>1, <1>2, <1>3

(* The remainder fits in a uint64_t. *)
LEMMA Wraps == \A x \in Int : x % Word \in 0 .. Word - 1
<1>1. Word \in Nat \ {0}
  BY PartitionIoAssumption
<1> QED
  BY <1>1

(* Where the partition begins and ends on the disk, in bytes. *)
Base(p) == Gpt[p].first * BlockSize

(* A partition lies on the disk, and its size is that of its blocks.       *)
LEMMA PartitionLayout ==
  ASSUME NEW p \in PartitionNames
  PROVE  /\ Base(p) \in Nat /\ Length(p) \in Nat
         /\ Length(p) - BlockSize \in Nat
         /\ Base(p) + Length(p) <= DiskSize
         /\ (Gpt[p].last - Gpt[p].first) * BlockSize = Length(p) - BlockSize
<1> DEFINE f == Gpt[p].first
           l == Gpt[p].last
<1>1. f \in Nat /\ l \in Nat /\ f <= l /\ (l + 1) * BlockSize <= DiskSize
      /\ BlockSize \in Nat /\ DiskSize \in Nat
  BY PartitionIoAssumption
<1>2. PICK d \in Nat : l = f + d
  <2>1. l - f \in Nat /\ l = f + (l - f)
    BY <1>1
  <2> QED
    BY <2>1
<1> HIDE DEF f, l
<1>3. f * BlockSize \in Nat /\ d * BlockSize \in Nat
  BY <1>1
<1>4. /\ (l - f + 1) * BlockSize = d * BlockSize + BlockSize
      /\ (l - f) * BlockSize = d * BlockSize
      /\ (l + 1) * BlockSize = f * BlockSize + d * BlockSize + BlockSize
  BY <1>1, <1>2
<1>5. Base(p) = f * BlockSize /\ Length(p) = (l - f + 1) * BlockSize
  BY DEF Base, Length, f, l
<1> QED
  BY <1>1, <1>3, <1>4, <1>5 DEF f, l

(* The two sizes: the one of write_to_partition() is a block too small.    *)
LEMMA PartitionSizes ==
  ASSUME NEW p \in PartitionNames
  PROVE  /\ partition_size(p) = Length(p)
         /\ partition_size_for_write(p) = Length(p) - BlockSize
         /\ Signed(Length(p)) = Length(p)
         /\ Signed(Length(p) - BlockSize) = Length(p) - BlockSize
<1> DEFINE L == Length(p)
           m == Length(p) - BlockSize
<1>1. /\ L \in Nat /\ m \in Nat /\ m <= L /\ L <= DiskSize
      /\ Word \in Nat /\ DiskSize \in Nat /\ MaxBytes \in Nat /\ Word > 2 * (DiskSize + MaxBytes)
  BY PartitionLayout, PartitionIoAssumption
<1>2. /\ partition_size(p) = L % Word
      /\ partition_size_for_write(p) = m % Word
  BY PartitionLayout DEF partition_size, partition_size_for_write, Length
<1> HIDE DEF L, m
<1>3. L < Word /\ m < Word /\ 2 * L < Word /\ 2 * m < Word
  BY <1>1
<1>4. L % Word = L /\ m % Word = m
  BY <1>1, <1>3, NoWrap
<1> QED
  BY <1>2, <1>3, <1>4 DEF Signed, L, m

(* The start of the range, and the bytes from there to the end, for a size *)
(* that is the partition's or a block smaller.                             *)
LEMMA ByteRange ==
  ASSUME NEW p \in PartitionNames, NEW size \in {Length(p), Length(p) - BlockSize},
         NEW offset,
         FromStart(size, offset) \in 0 .. size
  PROVE  /\ Position(p, size, offset) = Base(p) + FromStart(size, offset)
         /\ Remaining(size, offset) = size - FromStart(size, offset)
<1> DEFINE s == FromStart(size, offset)
<1>1. /\ Base(p) \in Nat /\ size \in Nat /\ Base(p) + size <= DiskSize
      /\ Word \in Nat /\ DiskSize \in Nat /\ MaxBytes \in Nat /\ Word > 2 * (DiskSize + MaxBytes)
  <2>1. /\ Base(p) \in Nat /\ Length(p) \in Nat /\ Length(p) - BlockSize \in Nat
        /\ Base(p) + Length(p) <= DiskSize /\ BlockSize \in Nat
    BY PartitionLayout, PartitionIoAssumption
  <2> QED
    BY <2>1, PartitionIoAssumption
<1>2. s \in 0 .. size
  OBVIOUS
<1> HIDE DEF s
<1>3. /\ Base(p) + s \in Nat /\ Base(p) + s < Word
      /\ size - s \in Nat /\ size - s < Word
  BY <1>1, <1>2
<1>4. (Base(p) + s) % Word = Base(p) + s /\ (size - s) % Word = size - s
  BY <1>3, NoWrap
<1> QED
  BY <1>4 DEF Position, Remaining, Base, s

(* Never more bytes are read than were asked for.                          *)
LEMMA NumReadBound ==
  ASSUME NEW p \in PartitionNames, NEW offset \in ByteOffsets, NEW n \in 0 .. MaxBytes
  PROVE  NumRead(partition_size(p), offset, n) \in 0 .. n
<1>1. FromStart(partition_size(p), offset) \in Int /\ partition_size(p) \in Int
  BY PartitionSizes, PartitionLayout, PartitionIoAssumption DEF FromStart
<1>2. Remaining(partition_size(p), offset) \in 0 .. Word - 1
  BY <1>1, Wraps DEF Remaining
<1>3. n \in Nat /\ Word \in Nat
  BY PartitionIoAssumption
<1> QED
  BY <1>2, <1>3 DEF NumRead

(* A write that is not rejected covers bytes between the partition's start *)
(* and the start of its last block.                                        *)
LEMMA WriteRange ==
  ASSUME NEW p \in PartitionNames, NEW offset \in ByteOffsets, NEW n \in 0 .. MaxBytes,
         ~WriteRejected(p, offset, n),
         StartInPartition(p, offset) <= Length(p) - BlockSize
  PROVE  LET size == partition_size_for_write(p)
             s == FromStart(size, offset)
         IN  /\ s \in 0 .. size
             /\ n <= size - s
             /\ WritePosition(p, offset) = Base(p) + s
<1> DEFINE size == Length(p) - BlockSize
           s == FromStart(size, offset)
<1>1. /\ partition_size_for_write(p) = size /\ Signed(size) = size
      /\ size \in Nat /\ Length(p) \in Nat /\ BlockSize \in Nat /\ offset \in Int
      /\ Length(p) = size + BlockSize
  BY PartitionSizes, PartitionLayout, PartitionIoAssumption
<1>2. ~OutsideRange(size, offset) /\ ~BeyondEnd(size, offset, n)
  BY <1>1 DEF WriteRejected
<1> HIDE DEF size
<1>3. s \in 0 .. size
  BY <1>1, <1>2 DEF OutsideRange, FromStart, StartInPartition
<1>4. Position(p, size, offset) = Base(p) + s /\ Remaining(size, offset) = size - s
  BY <1>3, ByteRange DEF size
<1>5. n <= size - s
  BY <1>1, <1>2, <1>3, <1>4, PartitionIoAssumption DEF BeyondEnd
<1> QED
  BY <1>1, <1>3, <1>4, <1>5 DEF WritePosition

(* Where a read finds what a write stored, and how much of it.             *)
LEMMA WriteIsFound ==
  ASSUME NEW p \in PartitionNames, NEW offset \in ByteOffsets, NEW n \in 0 .. MaxBytes,
         ~WriteRejected(p, offset, n)
  PROVE  /\ ~ReadRejected(p, FoundAt(offset))
         /\ NumRead(partition_size(p), FoundAt(offset), n) = FoundLength(p, offset, n)
         /\ FoundLength(p, offset, n) \in 0 .. n
         /\ ReadPosition(p, FoundAt(offset)) = WritePosition(p, offset)
<1> DEFINE L == Length(p)
           W == Length(p) - BlockSize
           found == FoundAt(offset)
           length == FoundLength(p, offset, n)
<1>1. /\ partition_size(p) = L /\ Signed(L) = L
      /\ partition_size_for_write(p) = W /\ Signed(W) = W
      /\ L \in Nat /\ W \in Nat /\ BlockSize \in Nat /\ L = W + BlockSize /\ L <= DiskSize
      /\ offset \in Int /\ n \in Nat /\ n <= MaxBytes /\ 2 * offset < Word
      /\ Word \in Nat /\ DiskSize \in Nat /\ MaxBytes \in Nat /\ Word > 2 * (DiskSize + MaxBytes)
  BY PartitionSizes, PartitionLayout, PartitionIoAssumption
<1>2. ~OutsideRange(W, offset) /\ ~BeyondEnd(W, offset, n)
  BY <1>1 DEF WriteRejected
<1>3. found = IF offset < 0 THEN offset - BlockSize ELSE offset
  BY DEF FoundAt
<1>4. length = IF offset \in W + 1 .. L THEN Smaller(n, L - offset) ELSE n
  BY DEF FoundLength
<1> HIDE DEF L, W, found, length
<1>5. ~OutsideRange(L, found)
  BY <1>1, <1>2, <1>3 DEF OutsideRange
<1>6. CASE offset <= W
  <2> DEFINE s == FromStart(W, offset)
  <2>1. s \in 0 .. W /\ s \in 0 .. L /\ FromStart(L, found) = s
    BY <1>1, <1>2, <1>3, <1>6 DEF OutsideRange, FromStart
  <2>2. /\ Position(p, W, offset) = Base(p) + s /\ Remaining(W, offset) = W - s
        /\ Position(p, L, found) = Base(p) + s /\ Remaining(L, found) = L - s
    BY <2>1, ByteRange DEF L, W
  <2>3. n <= W - s
    BY <1>1, <1>2, <2>1, <2>2 DEF BeyondEnd
  <2>4. NumRead(L, found, n) = n /\ length = n
    BY <1>1, <1>4, <1>6, <2>1, <2>2, <2>3 DEF NumRead
  <2> QED
    BY <1>1, <1>5, <2>2, <2>4 DEF ReadRejected, ReadPosition, WritePosition, found, length
<1>7. CASE offset > W
  <2>1. found = offset /\ FromStart(L, found) = offset /\ FromStart(W, offset) = offset
    BY <1>1, <1>3, <1>7 DEF FromStart
  <2>2. Position(p, L, found) = Position(p, W, offset)
    BY <2>1 DEF Position
  <2>3. NumRead(L, found, n) = length /\ length \in 0 .. n
    <3>1. CASE offset <= L
      <4>1. Remaining(L, found) = L - offset
        BY <1>1, <1>7, <2>1, <3>1, ByteRange DEF L
      <4> QED
        BY <1>1, <1>4, <1>7, <3>1, <4>1 DEF NumRead, Smaller
    <3>2. CASE offset > L
      <4>1. Remaining(L, found) = L - offset + Word
        BY <1>1, <2>1, <3>2, WrapsOnce DEF Remaining
      <4> QED
        BY <1>1, <1>4, <3>2, <4>1 DEF NumRead
    <3> QED
      BY <1>1, <3>1, <3>2
  <2> QED
    BY <1>1, <1>5, <2>2, <2>3 DEF ReadRejected, ReadPosition, WritePosition, found, length
<1> QED
  BY <1>1, <1>6, <1>7

---------------------------------------------------------------------------
(* The bytes of a range. *)

(* What a range holds is a sequence of its length.                         *)
LEMMA ContentIsSeq ==
  ASSUME NEW V, NEW d \in [Bytes -> V], NEW at \in Int, NEW n \in Nat,
         Span(at, n) \subseteq Bytes
  PROVE  Content(d, at, n) \in Seq(V) /\ Len(Content(d, at, n)) = n
<1>1. \A i \in 1 .. n : at + i - 1 \in Span(at, n)
  BY DEF Span
<1>2. Content(d, at, n) \in [1 .. n -> V]
  BY <1>1 DEF Content
<1> QED
  BY <1>2, LenProperties

(* A part of the content of a range is the content of a part of it.        *)
LEMMA ContentOfPart ==
  ASSUME NEW V, NEW d \in [Bytes -> V], NEW at \in Int, NEW n \in Nat,
         Span(at, n) \subseteq Bytes,
         NEW s \in 0 .. n, NEW k \in 0 .. n - s
  PROVE  SubSeq(Content(d, at, n), s + 1, s + k) = Content(d, at + s, k)
<1> DEFINE c == Content(d, at, n)
           u == SubSeq(c, s + 1, s + k)
           v == Content(d, at + s, k)
<1>1. c \in Seq(V) /\ Len(c) = n
  BY ContentIsSeq
<1>2. k \in Nat /\ s \in Nat /\ s + k <= n
  OBVIOUS
<1>3. Span(at + s, k) \subseteq Bytes
  BY <1>2 DEF Span
<1>4. v \in Seq(V) /\ Len(v) = k
  BY <1>2, <1>3, ContentIsSeq
<1>5. \A i \in s + 1 .. s + k : c[i] \in V
  BY <1>1, <1>2, ElementOfSeq
<1>6. /\ u \in Seq(V) /\ Len(u) = IF s + 1 <= s + k THEN s + k - (s + 1) + 1 ELSE 0
      /\ \A i \in 1 .. s + k - (s + 1) + 1 : u[i] = c[s + 1 + i - 1]
  BY <1>2, <1>5, SubSeqProperties
<1>7. Len(u) = k
  BY <1>2, <1>6
<1>8. \A i \in 1 .. k : u[i] = v[i]
  <2> SUFFICES ASSUME NEW i \in 1 .. k PROVE u[i] = v[i]
    OBVIOUS
  <2>1. i \in 1 .. s + k - (s + 1) + 1 /\ s + 1 + i - 1 = s + i /\ s + i \in 1 .. n
    BY <1>2
  <2>2. u[i] = c[s + i]
    BY <1>6, <2>1
  <2>3. c[s + i] = d[at + (s + i) - 1] /\ v[i] = d[at + s + i - 1]
    BY <2>1 DEF Content
  <2>4. at + (s + i) - 1 = at + s + i - 1
    BY <1>2
  <2> QED
    BY <2>2, <2>3, <2>4
<1> QED
  BY <1>4, <1>6, <1>7, <1>8, SeqEqual

(* What was stored is there, and the rest of the disk is as it was.        *)
LEMMA StoredIsThere ==
  ASSUME NEW V, NEW d \in [Bytes -> V], NEW at \in Int, NEW data \in Seq(V)
  PROVE  /\ Stored(d, at, data) \in [Bytes -> V]
         /\ \A i \in Bytes \ Span(at, Len(data)) : Stored(d, at, data)[i] = d[i]
         /\ Span(at, Len(data)) \subseteq Bytes => Content(Stored(d, at, data), at, Len(data)) = data
<1> DEFINE e == Stored(d, at, data)
           n == Len(data)
<1>1. n \in Nat /\ data \in [1 .. n -> V]
  BY LenProperties
<1>2. \A i \in Span(at, n) : i - at + 1 \in 1 .. n
  BY <1>1 DEF Span
<1>3. e \in [Bytes -> V]
  BY <1>1, <1>2 DEF Stored
<1>4. \A i \in Bytes \ Span(at, n) : e[i] = d[i]
  BY DEF Stored
<1>5. ASSUME Span(at, n) \subseteq Bytes
      PROVE  Content(e, at, n) = data
  <2>1. \A i \in 1 .. n : at + i - 1 \in Span(at, n) /\ at + i - 1 - at + 1 = i
    BY <1>1 DEF Span
  <2>2. \A i \in 1 .. n : e[at + i - 1] = data[i]
    BY <1>5, <2>1 DEF Stored
  <2>3. Content(e, at, n) = [i \in 1 .. n |-> data[i]]
    BY <2>2 DEF Content
  <2> QED
    BY <1>1, <2>3
<1> QED
  BY <1>3, <1>4, <1>5

(* What callers write.                                                     *)
LEMMA DataIsSeq ==
  ASSUME NEW data \in ByteStrings
  PROVE  data \in Seq(ByteValues) /\ data \in Seq(Bytes \cup ByteValues) /\ Len(data) \in 0 .. MaxBytes
<1>1. PICK n \in 0 .. MaxBytes : data \in [1 .. n -> ByteValues]
  BY DEF ByteStrings
<1>2. n \in Nat
  BY PartitionIoAssumption
<1>3. data \in Seq(ByteValues) /\ data \in Seq(Bytes \cup ByteValues)
  BY <1>1, <1>2
<1>4. Len(data) = n
  BY <1>1, <1>2, <1>3, LenProperties
<1> QED
  BY <1>3, <1>4

---------------------------------------------------------------------------
(* The calls. *)

(* A call that did not write, and whose reply says what it was asked.      *)
LEMMA ReadCallStep ==
  ASSUME TypeOK, ReadCall
  PROVE  TypeOK' /\ ReadsAreExact' /\ reply'.op = "read"
<1> DEFINE V == Bytes \cup ByteValues
<1>1. PICK p \in PartitionNames, offset \in ByteOffsets, n \in 0 .. MaxBytes :
        \/ read_from_partition(p, offset, n)
        \/ ReadOutsideRange(p, offset, n)
        \/ ReadFails(p, offset, n)
  BY DEF ReadCall
<1>2. n \in Nat /\ disk \in [Bytes -> V] /\ writes \in 0 .. MaxWrites
  BY PartitionIoAssumption DEF TypeOK
<1>3. CASE ReadOutsideRange(p, offset, n) \/ ReadFails(p, offset, n)
  <2>1. /\ disk' = disk /\ writes' = writes
        /\ reply'.op = "read" /\ reply'.result # "OK" /\ reply'.data = << >> /\ reply'.n = n
    BY <1>3 DEF ReadOutsideRange, ReadFails, Reply
  <2>2. Len(reply'.data) = 0
    BY <2>1, EmptySeq
  <2> QED
    BY <1>2, <2>1, <2>2 DEF TypeOK, ReadsAreExact
<1>4. CASE read_from_partition(p, offset, n)
  <2> DEFINE k == NumRead(partition_size(p), offset, n)
             at == ReadPosition(p, offset)
             r == Content(disk, at, k)
  <2>1. /\ Span(at, k) \subseteq Bytes /\ disk' = disk /\ writes' = writes
        /\ reply'.op = "read" /\ reply'.result = "OK" /\ reply'.data = r /\ reply'.n = n
        /\ reply'.name = p /\ reply'.offset = offset
    BY <1>4 DEF read_from_partition, Reply
  <2>2. k \in 0 .. n
    BY NumReadBound
  <2>3. at \in Int
    <3>1. Base(p) + FromStart(partition_size(p), offset) \in Int
      BY PartitionLayout, PartitionSizes, PartitionIoAssumption DEF FromStart
    <3>2. (Base(p) + FromStart(partition_size(p), offset)) % Word \in 0 .. Word - 1
      BY <3>1, Wraps
    <3> QED
      BY <3>2, PartitionIoAssumption DEF ReadPosition, Position, Base
  <2>4. r \in Seq(V) /\ Len(r) = k
    <3>1. k \in Nat
      BY <1>2, <2>2
    <3> HIDE DEF k, at
    <3> QED
      BY <1>2, <2>1, <2>3, <3>1, ContentIsSeq
  <2>5. TypeOK'
    BY <1>2, <2>1, <2>2, <2>4 DEF TypeOK
  <2>6. ASSUME StartInPartition(p, offset) \in 0 .. Length(p)
        PROVE  r = SubSeq(Contents(p), StartInPartition(p, offset) + 1,
                          Smaller(StartInPartition(p, offset) + n, Length(p)))
    <3> DEFINE s == StartInPartition(p, offset)
               L == Length(p)
    <3>1. /\ partition_size(p) = L /\ L \in Nat /\ Base(p) \in Nat /\ Base(p) + L <= DiskSize
          /\ FromStart(L, offset) = s
      BY PartitionLayout, PartitionSizes DEF FromStart, StartInPartition
    <3>2. s \in 0 .. L
      BY <2>6
    <3>3. at = Base(p) + s /\ Remaining(L, offset) = L - s
      BY <3>1, <3>2, ByteRange DEF ReadPosition
    <3>4. k = IF n > L - s THEN L - s ELSE n
      BY <3>1, <3>3 DEF NumRead
    <3> HIDE DEF s, L, k
    <3>5. k \in 0 .. L - s /\ Smaller(s + n, L) = s + k
      BY <1>2, <3>1, <3>2, <3>4 DEF Smaller
    <3>6. Span(Base(p), L) \subseteq Bytes
      BY <3>1, PartitionIoAssumption DEF Span, Bytes
    <3>7. SubSeq(Content(disk, Base(p), L), s + 1, s + k) = Content(disk, Base(p) + s, k)
      <4>1. Base(p) \in Int /\ L \in Nat /\ disk \in [Bytes -> V]
        BY <1>2, <3>1
      <4> HIDE DEF V
      <4> QED
        BY ONLY <4>1, <3>2, <3>5, <3>6, ContentOfPart
    <3> QED
      BY <3>3, <3>5, <3>7 DEF Contents, Base, s, L
  <2>7. ReadsAreExact'
    BY <2>1, <2>6 DEF ReadsAreExact, Contents
  <2> QED
    BY <2>1, <2>5, <2>7
<1> QED
  BY <1>1, <1>3, <1>4

(* What a step that writes leaves alone.                                   *)
KeepsToPartition ==
  reply'.op = "write" /\ reply'.name \in PartitionNames =>
    LET p == reply'.name
    IN \/ StartInPartition(p, reply'.offset) > Length(p) - BlockSize
       \/ \A i \in Bytes \ PartitionBytes(p) : disk'[i] = disk[i]

(* The bytes a write may store are the partition's.                        *)
LEMMA WriteSpan ==
  ASSUME NEW p \in PartitionNames, NEW offset \in ByteOffsets, NEW n \in 0 .. MaxBytes, NEW k \in 0 .. n,
         ~WriteRejected(p, offset, n),
         StartInPartition(p, offset) <= Length(p) - BlockSize
  PROVE  Span(WritePosition(p, offset), k) \subseteq PartitionBytes(p)
<1> DEFINE size == partition_size_for_write(p)
           s == FromStart(size, offset)
<1>1. s \in 0 .. size /\ n <= size - s /\ WritePosition(p, offset) = Base(p) + s
  BY WriteRange
<1>2. /\ size = Length(p) - BlockSize /\ Base(p) \in Nat /\ Length(p) \in Nat /\ size \in Nat
      /\ BlockSize \in Nat /\ n \in Nat /\ k \in Nat /\ k <= n
  BY PartitionSizes, PartitionLayout, PartitionIoAssumption
<1>3. PartitionBytes(p) = Span(Base(p), Length(p))
  BY DEF PartitionBytes, Base
<1> HIDE DEF size, s
<1> QED
  BY <1>1, <1>2, <1>3, SMTT(30) DEF Span

(* The position that write_to_partition() computes, wrapped or not.        *)
LEMMA WritePositionIsInt ==
  ASSUME NEW p \in PartitionNames, NEW offset \in ByteOffsets
  PROVE  WritePosition(p, offset) \in Int
<1>1. Base(p) + FromStart(partition_size_for_write(p), offset) \in Int
  <2>1. /\ Base(p) \in Nat /\ Length(p) - BlockSize \in Nat /\ offset \in Int
        /\ partition_size_for_write(p) = Length(p) - BlockSize
    BY PartitionLayout, PartitionSizes, PartitionIoAssumption
  <2> QED
    BY <2>1 DEF FromStart
<1>2. (Base(p) + FromStart(partition_size_for_write(p), offset)) % Word \in 0 .. Word - 1
  BY <1>1, Wraps
<1> QED
  BY <1>2, PartitionIoAssumption DEF WritePosition, Position, Base

(* A write that starts before the last block changes no byte outside its   *)
(* partition, and a read finds what was written.                           *)
LEMMA WriteCallStep ==
  ASSUME TypeOK, WriteCall
  PROVE  TypeOK' /\ WrittenIsFound' /\ KeepsToPartition /\ reply'.op = "write"
<1> DEFINE V == Bytes \cup ByteValues
<1>1. PICK p \in PartitionNames, offset \in ByteOffsets, data \in ByteStrings :
        \/ write_to_partition(p, offset, data)
        \/ WriteOutsideRange(p, offset, data)
        \/ WriteFails(p, offset, data)
  BY DEF WriteCall
<1> DEFINE n == Len(data)
           at == WritePosition(p, offset)
<1>2. /\ disk \in [Bytes -> V] /\ writes' \in 0 .. MaxWrites
      /\ data \in Seq(ByteValues) /\ data \in Seq(V) /\ n \in 0 .. MaxBytes /\ n \in Nat /\ at \in Int
  <2>1. disk \in [Bytes -> V] /\ writes \in 0 .. MaxWrites
    BY DEF TypeOK
  <2>2. writes' \in 0 .. MaxWrites
    BY <2>1, PartitionIoAssumption DEF WriteCall
  <2>3. data \in Seq(ByteValues) /\ data \in Seq(V) /\ n \in 0 .. MaxBytes
    BY DataIsSeq
  <2>4. n \in Nat
    BY <2>3, PartitionIoAssumption
  <2>5. at \in Int
    BY WritePositionIsInt
  <2> QED
    BY <2>1, <2>2, <2>3, <2>4, <2>5
<1>3. /\ reply'.op = "write" /\ reply'.name = p /\ reply'.offset = offset /\ reply'.n = n
      /\ reply'.data = data
  BY <1>1 DEF write_to_partition, WriteOutsideRange, WriteFails, Reply
<1>4. ASSUME disk' \in [Bytes -> V] PROVE TypeOK'
  BY <1>2, <1>3, <1>4 DEF TypeOK
<1>5. CASE WriteOutsideRange(p, offset, data)
  <2>1. disk' = disk /\ reply'.result # "OK"
    BY <1>5 DEF WriteOutsideRange, Reply
  <2> QED
    BY <1>2, <1>3, <1>4, <2>1 DEF KeepsToPartition, WrittenIsFound
<1>6. CASE WriteFails(p, offset, data)
  <2>1. ~WriteRejected(p, offset, n) /\ reply'.result # "OK"
    BY <1>6 DEF WriteFails, Reply
  <2>2. PICK k \in 0 .. n : DiskIoWrite(p, offset, SubSeq(data, 1, k))
    BY <1>6 DEF WriteFails
  <2> DEFINE part == SubSeq(data, 1, k)
  <2>3. part \in Seq(V) /\ Len(part) = k
    <3>1. \A i \in 1 .. k : data[i] \in V
      BY <1>2, ElementOfSeq
    <3>2. k \in Nat /\ k \in Int /\ 1 \in Int
      BY <1>2
    <3>3. part \in Seq(V) /\ Len(part) = IF 1 <= k THEN k - 1 + 1 ELSE 0
      BY <3>1, <3>2, SubSeqProperties
    <3> QED
      BY <3>2, <3>3
  <2>4. disk' = Stored(disk, at, part)
    BY <2>2 DEF DiskIoWrite
  <2>5. /\ disk' \in [Bytes -> V]
        /\ \A i \in Bytes \ Span(at, k) : disk'[i] = disk[i]
    <3> HIDE DEF part, at, V
    <3> QED
      BY <1>2, <2>3, <2>4, StoredIsThere
  <2>6. StartInPartition(p, offset) <= Length(p) - BlockSize => Span(at, k) \subseteq PartitionBytes(p)
    BY <1>2, <2>1, WriteSpan
  <2>7. \/ StartInPartition(p, offset) > Length(p) - BlockSize
        \/ StartInPartition(p, offset) <= Length(p) - BlockSize
    BY PartitionLayout, PartitionIoAssumption DEF StartInPartition
  <2>8. KeepsToPartition
    BY <1>3, <2>5, <2>6, <2>7 DEF KeepsToPartition
  <2> QED
    BY <1>3, <1>4, <2>1, <2>5, <2>8 DEF WrittenIsFound
<1>7. CASE write_to_partition(p, offset, data)
  <2>1. /\ ~WriteRejected(p, offset, n) /\ reply'.result = "OK"
        /\ Span(at, n) \subseteq Bytes /\ disk' = Stored(disk, at, data)
    BY <1>7 DEF write_to_partition, DiskIoWrite, Reply
  <2>2. /\ disk' \in [Bytes -> V]
        /\ \A i \in Bytes \ Span(at, n) : disk'[i] = disk[i]
        /\ Content(disk', at, n) = data
    <3> HIDE DEF at, V
    <3> QED
      BY <1>2, <2>1, StoredIsThere
  <2>3. StartInPartition(p, offset) <= Length(p) - BlockSize => Span(at, n) \subseteq PartitionBytes(p)
    BY <1>2, <2>1, WriteSpan
  <2>4. \/ StartInPartition(p, offset) > Length(p) - BlockSize
        \/ StartInPartition(p, offset) <= Length(p) - BlockSize
    BY PartitionLayout, PartitionIoAssumption DEF StartInPartition
  <2>5. KeepsToPartition
    BY <1>3, <2>2, <2>3, <2>4 DEF KeepsToPartition
  <2>6. Content(disk', at, FoundLength(p, offset, n)) = SubSeq(data, 1, FoundLength(p, offset, n))
    <3> DEFINE k == FoundLength(p, offset, n)
               d == disk'
    <3>1. k \in 0 .. n
      BY <1>2, <2>1, WriteIsFound
    <3> HIDE DEF k, at, n, V, d
    <3>2. d \in [Bytes -> V] /\ at \in Int /\ n \in Nat /\ Span(at, n) \subseteq Bytes
          /\ Content(d, at, n) = data
      BY <1>2, <2>1, <2>2 DEF d
    <3>3. 0 \in 0 .. n /\ k \in 0 .. n - 0 /\ k \in Int /\ at + 0 = at /\ 0 + 1 = 1 /\ 0 + k = k
      BY <3>1, <3>2
    <3>4. SubSeq(Content(d, at, n), 0 + 1, 0 + k) = Content(d, at + 0, k)
      BY ONLY <3>2, <3>3, ContentOfPart
    <3> QED
      BY <3>2, <3>3, <3>4 DEF k, d
  <2>7. WrittenIsFound'
    BY <1>2, <1>3, <2>1, <2>6, WriteIsFound DEF WrittenIsFound
  <2> QED
    BY <1>3, <1>4, <2>2, <2>5, <2>7
<1> QED
  BY <1>1, <1>5, <1>6, <1>7

(* Every call replies, and only one that writes changes the disk.          *)
LEMMA OtherCallsStep ==
  ASSUME TypeOK, \/ \E p \in PartitionNames : get_size_of_partition(p)
                 \/ LookupFails
  PROVE  TypeOK' /\ ReadsAreExact' /\ WrittenIsFound' /\ disk' = disk
<1>1. disk' = disk /\ writes' = writes
  BY DEF get_size_of_partition, LookupFails, NoPartition
<1>2. CASE \E p \in PartitionNames : get_size_of_partition(p)
  <2>1. PICK p \in PartitionNames : reply' = Reply("size", p, 0, partition_size(p), "OK", << >>)
    BY <1>2 DEF get_size_of_partition
  <2>2. reply'.op = "size" /\ reply'.data = << >> /\ reply'.n = partition_size(p)
    BY <2>1 DEF Reply
  <2>3. Len(reply'.data) = 0 /\ reply'.n \in Nat
    BY <2>2, PartitionSizes, PartitionLayout, EmptySeq
  <2> QED
    BY <1>1, <2>2, <2>3 DEF TypeOK, ReadsAreExact, WrittenIsFound
<1>3. CASE LookupFails
  <2>1. PICK op \in {"read", "write", "size"}, p \in PartitionNames \cup {Absent} :
          reply' = Reply(op, p, 0, 0, "NO_SUCH_PARTITION", << >>)
    BY <1>3 DEF LookupFails, NoPartition
  <2>2. /\ reply'.op = op /\ reply'.data = << >> /\ reply'.n = 0
        /\ reply'.result = "NO_SUCH_PARTITION"
    BY <2>1 DEF Reply
  <2>3. Len(reply'.data) = 0
    BY <2>2, EmptySeq
  <2> QED
    BY <1>1, <2>2, <2>3 DEF TypeOK, ReadsAreExact, WrittenIsFound
<1> QED
  BY <1>2, <1>3

IoInv == TypeOK /\ ReadsAreExact /\ WrittenIsFound

(* Nothing was read or written yet.                                        *)
LEMMA InitIoInv == IoInit => IoInv
<1> SUFFICES ASSUME IoInit PROVE IoInv
  OBVIOUS
<1>1. reply.op = "none" /\ disk \in [Bytes -> Bytes \cup ByteValues] /\ writes \in 0 .. MaxWrites
  BY PartitionIoAssumption DEF IoInit
<1> QED
  BY <1>1 DEF IoInv, TypeOK, ReadsAreExact, WrittenIsFound

(* Every call keeps the invariant, and the other partitions.               *)
LEMMA NextIoInv == IoInv /\ [IoNext]_ioVars => IoInv' /\ (UNCHANGED ioVars \/ KeepsToPartition)
<1> SUFFICES ASSUME IoInv, [IoNext]_ioVars PROVE IoInv' /\ (UNCHANGED ioVars \/ KeepsToPartition)
  OBVIOUS
<1>0. TypeOK
  BY DEF IoInv
<1>1. CASE ReadCall
  BY <1>0, <1>1, ReadCallStep DEF IoInv, WrittenIsFound, KeepsToPartition
<1>2. CASE WriteCall
  BY <1>0, <1>2, WriteCallStep DEF IoInv, ReadsAreExact
<1>3. CASE (\E p \in PartitionNames : get_size_of_partition(p)) \/ LookupFails
  BY <1>0, <1>3, OtherCallsStep DEF IoInv, KeepsToPartition
<1>4. CASE UNCHANGED ioVars
  BY <1>4 DEF ioVars, IoInv, TypeOK, ReadsAreExact, WrittenIsFound, Contents
<1> QED
  BY <1>1, <1>2, <1>3, <1>4 DEF IoNext

(* The invariant holds in every reachable state.                           *)
LEMMA SpecIoInv == IoSpec => []IoInv
  BY InitIoInv, NextIoInv, PTL DEF IoSpec

---------------------------------------------------------------------------
(* What uefi_avb_ops.c does, for every GPT, word size and offset.          *)

(* A read that succeeds returns the bytes of the partition from its start, *)
(* exactly as many as were asked for or as there are: read_from_partition  *)
(* clips to the partition's end and its position does not wrap around.     *)
THEOREM ReadsAreExactAlways == IoSpec => []ReadsAreExact
<1>1. IoInv => ReadsAreExact
  BY DEF IoInv
<1> QED
  BY <1>1, SpecIoInv, PTL

(* What write_to_partition() stored is what read_from_partition() returns, *)
(* for every offset and length that it accepts: at the same offset from    *)
(* the start, a block further to the front for an offset from the end, and *)
(* cut at the partition's end for a write in its last block.               *)
THEOREM WrittenIsFoundAlways == IoSpec => []WrittenIsFound
<1>1. IoInv => WrittenIsFound
  BY DEF IoInv
<1> QED
  BY <1>1, SpecIoInv, PTL

(* No write that starts before the last block of a partition changes a     *)
(* byte of a neighbour, of the GPT or of the rest of the disk, even when   *)
(* the device fails half way.                                              *)
THEOREM WritesKeepToPartition == IoSpec => WritesStayInPartition
<1>1. IoInv /\ [IoNext]_ioVars => [KeepsToPartition]_ioVars
  BY NextIoInv
<1>2. IoSpec => [][KeepsToPartition]_ioVars
  BY <1>1, SpecIoInv, PTL DEF IoSpec
<1> QED
  BY <1>2 DEF WritesStayInPartition, KeepsToPartition
=============================================================================
