--------------------------- MODULE PartitionEditor ---------------------------
(***************************************************************************)
(* PartEdit: one command after the other, each a program run of its own    *)
(* that looks for the disk and its partitions first.  A write may fail     *)
(* after a part of its blocks, and power may be lost between two writes.   *)
(***************************************************************************)
EXTENDS GptDisk, SparseImage

CONSTANTS Table,            \* the partitions of the disk
          OtherTable,       \* a table that the user has in a file
          Images,           \* files to flash
          FILL_BUF_SIZE, SIZE_2GB, UINT32_BLOCKS,   \* blocks in 16 MB, 2 GB and 4 GB
          Offsets, Sizes,   \* that the user types
          MaxCommands, MaxBoots

Tables == {Table, OtherTable}

\* Partitions have names, lie on the disk, and are not more than there is room for.
ASSUME TablesAssumption ==
    \A t \in Tables :
        /\ t \in Seq([name : STRING, first : Nat, size : Nat])
        /\ Len(t) <= EntriesSize * EntriesPerBlock
        /\ \A n \in DOMAIN t : t[n].first + t[n].size <= LastBlock + 1

\* An image holds data; its chunks have any order and size.
ASSUME ImagesAssumption ==
    \A image \in Images :
        IF image.sparse
        THEN \A p \in DOMAIN image.words :
            LET word == image.words[p]
            IN  IF word.word = "chunk" THEN word.ChunkSize \in Nat ELSE word.block \in DataBlocks
        ELSE image.blocks \in Seq(DataBlocks)

ASSUME SizesAssumption ==
    /\ FILL_BUF_SIZE \in Nat \ {0} /\ UINT32_BLOCKS \in Nat \ {0}
    /\ Offsets \subseteq Nat /\ Sizes \subseteq Nat

VARIABLES
    media,      \* the blocks of each device
    handles,    \* the handle database, as of the last boot
    files,      \* what the saving commands left
    run,        \* the running command, with its locals
    Status,     \* of the command that ended
    before,     \* the media when the command began
    table,      \* the table that the firmware found at the last boot
    erased,     \* "gpt erase" passed, and no table was written since
    commands, boots

vars == << media, handles, files, run, Status, before, table, erased, commands, boots >>

Names == {t.name : t \in ToSet(Table) \cup ToSet(OtherTable)} \cup {"absent"}

\* What a block can be, on a device, in a file or in memory.
Blocks ==
    DataBlocks \cup {Zero, Mbr} \cup {Entries(t) : t \in Tables}
        \cup {Header(lba, t) : lba \in {1, LastBlock}, t \in Tables}

Idle == [cmd |-> "none"]
Whole(d) == [device |-> d, first |-> 0, size |-> SizeOf(d)]

Init ==
    /\ \E b \in DataBlocks :
        media = [disk |-> Partitioned(Table, b), stick |-> [i \in 1..StickSize |-> b]]
    /\ handles \in HandleDatabases(media["disk"])
    /\ files = [name \in {"PrimarySave", "SecondarySave", "Data"} |-> << >>]
    /\ run = Idle /\ Status = "none"
    /\ before = media /\ table = Table /\ erased = FALSE
    /\ commands = 0 /\ boots = 0

-----------------------------------------------------------------------------
(* The disk and its partitions.                                            *)

IsUsbDevice(handle) == handle.usb

\* The first handle that is neither a partition nor removable nor on USB.
Fixed(handle) ==
    /\ handle.number = 0
    /\ ~handle.removable
    /\ ~IsUsbDevice(handle)

InitDevicePath ==
    IF \E h \in DOMAIN handles : Fixed(handles[h])
    THEN handles[SelectInSeq(handles, Fixed)].device
    ELSE "none"

\* The name of entry n in the block that holds it; blocks that are no entries, and
\* entries that are not used, have none.
NameIn(block, n) ==
    IF block.kind = "entries" /\ n \in DOMAIN block.table THEN block.table[n].name ELSE ""

\* The names of all entries, from block 2 on, if block 1 is a header that knows
\* where it is.  A read that fails is in NotFound.
ReadPartitionEntries(d) ==
    LET header == media[d][2]
        Entry(n) == media[d][3 + (n - 1) \div EntriesPerBlock]
    IN  IF header.kind # "header" \/ header.MyLBA # 1 THEN << >>
        ELSE [n \in 1..EntriesSize * EntriesPerBlock |-> NameIn(Entry(n), n)]

\* Slip: numbers begin at zero.
PartitionName_FromZero(names, number) ==
    IF number + 1 \in DOMAIN names THEN names[number + 1] ELSE ""

\* A partition number beyond the entries reads a name that is none.
PartitionName(names, number) == IF number \in DOMAIN names THEN names[number] ELSE ""

\* The partitions of the device with their names, each at its place in the handle
\* database, which is the order of the list.
InitDiskPartition(d) ==
    LET names == ReadPartitionEntries(d)
        IsPartition(n) == handles[n].device = d /\ handles[n].number # 0
        Item(n) == [name |-> PartitionName(names, handles[n].number), place |-> n]
    IN  IF names = << >> THEN {} ELSE {Item(n) : n \in {k \in DOMAIN handles : IsPartition(k)}}

\* The extent of the first partition of that name, or none.
Named(list, name) == {item.place : item \in {i \in list : i.name = name}}

OpenPartition(d, name) ==
    LET places == Named(InitDiskPartition(d), name)
        handle == handles[CHOOSE n \in places : \A k \in places : n <= k]
    IN  IF places = {} THEN {}
        ELSE {[device |-> d, first |-> handle.first, size |-> handle.size]}

-----------------------------------------------------------------------------
(* Steps that commands share.                                              *)

Finish(status) ==
    /\ run' = Idle
    /\ Status' = status

World == << handles, before, table, commands, boots >>

\* A command begins; it keeps the disk d that it found.
Command(d) ==
    /\ run = Idle
    /\ commands < MaxCommands /\ commands' = commands + 1
    /\ InitDevicePath = d
    /\ before' = media
    /\ UNCHANGED << media, files, handles, table, erased, boots >>

\* InitDevicePath() finds no disk, or there is no memory for the partition list
\* or the buffers, or the file to write or to flash cannot be read.
NoResources ==
    \E d \in Devices \cup {"none"} :
        /\ Command(d)
        /\ Finish(IF d = "none" THEN "NO_DISK" ELSE "NO_RESOURCES")

\* No partition of that name; or the table could not be read, or there was no memory
\* for it, and the list is empty.  A sparse image without data to write never asks.
WritesNothing(image) ==
    /\ image.sparse /\ image.MajorVersion = 1
    /\ \A c \in 1..image.TotalChunks : image.chunks[c].type = "DONT_CARE"

NotFound ==
    \E d \in Devices :
        /\ Command(d)
        /\ \/ Finish("NOT_FOUND")
           \/ (\E image \in Images : WritesNothing(image)) /\ Finish("SUCCESS")

InExtent(x, offset, size) == offset + size <= x.size

HoldsTable(blocks) == \E i \in DOMAIN blocks : blocks[i].kind \in {"header", "entries"}

\* WriteDisk() or WriteBlocks(): all of the blocks and then what next does, or
\* the first ones and the end of the command.
WriteDisk(x, offset, blocks, next) ==
    \E n \in 0..Len(blocks) :
        /\ InExtent(x, offset, Len(blocks)) \/ n = 0
        /\ media' = [media EXCEPT ![x.device] =
                        Overwrite(@, x.first + offset, SubSeq(blocks, 1, n))]
        /\ \/ n = Len(blocks) /\ InExtent(x, offset, n) /\ next
           \/ Finish("DEVICE_ERROR") /\ erased' = (erased /\ ~HoldsTable(blocks))

\* The size of the partition is compared without the offset.
WritePartition(x, offset, blocks, next) ==
    IF x.size < Len(blocks)
    THEN Finish("VOLUME_FULL") /\ UNCHANGED << media, erased >>
    ELSE WriteDisk(x, offset, blocks, next)

\* A write of new to the start of a file that holds old.
Over(old, new) == new \o SubSeq(old, Len(new) + 1, Len(old))

\* The old file goes first; one that cannot be deleted is written over.  The file
\* may not open, and a write may fail part of the way.
SaveFileToDisk(name, blocks, next) ==
    \E old \in {<< >>, files[name]}, n \in 0..Len(blocks) :
        /\ files' = [files EXCEPT ![name] = Over(old, SubSeq(blocks, 1, n))]
        /\ (n = Len(blocks) /\ next) \/ Finish("DEVICE_ERROR")

\* ReadDisk() of blocks that are saved to a file.
ReadAndSave(x, offset, size, name, next) ==
    /\ \/ Finish("DEVICE_ERROR") /\ UNCHANGED files
       \/ /\ InExtent(x, offset, size)
          /\ SaveFileToDisk(name, Slice(media[x.device], x.first + offset, size), next)
    /\ UNCHANGED << media, erased, World >>

-----------------------------------------------------------------------------
(* flash                                                                   *)

FlashOf(x, name, image) ==
    [cmd |-> "flash", extent |-> x, name |-> name, image |-> image,
     Chunk |-> 0, Image |-> 1, aligned |-> TRUE, Offset |-> 0, Left |-> 0]

FlashPartition ==
    \E d \in Devices, name \in Names, image \in Images :
        /\ Command(d)
        /\ IF image.sparse /\ image.MajorVersion # 1
           THEN Finish("INVALID_PARAMETER")
           ELSE \E x \in OpenPartition(d, name) :
                    run' = FlashOf(x, name, image) /\ UNCHANGED Status

WritePlain ==
    /\ run.cmd = "flash" /\ ~run.image.sparse
    /\ WritePartition(run.extent, 0, run.image.blocks, Finish("SUCCESS") /\ UNCHANGED erased)
    /\ UNCHANGED << files, World >>

\* The chunk loop; Image is where the next word is read.
Chunks == run.cmd = "flash" /\ run.image.sparse
AtChunk == Chunks /\ run.Left = 0 /\ run.Chunk < run.image.TotalChunks

Go(r) == run' = r /\ UNCHANGED Status

\* A chunk header that is read where none is may be any.
GarbageHeaders ==
    {ChunkHeader(type, n) : type \in {"RAW", "FILL", "DONT_CARE", "other"},
                            n \in {0, 1, UINT32_BLOCKS + 1}}

HeadersAt(image, p, aligned) ==
    IF Reads(image.words, p, "chunk", aligned) THEN {image.words[p]} ELSE GarbageHeaders

BlocksAt(image, p, kind, aligned) ==
    IF Reads(image.words, p, kind, aligned) THEN {image.words[p].block} ELSE DataBlocks

\* The bytes of a raw chunk to write are counted in 32 bits, those to pass are not.
WriteSize(header) == header.ChunkSize % UINT32_BLOCKS

RawChunk(r, header) ==
    LET n == header.ChunkSize
        aligned == \A i \in 1..n : Reads(r.image.words, r.Image + i, "raw", r.aligned)
    IN  \E blocks \in [1..WriteSize(header) -> DataBlocks] :
            /\ \A i \in 1..WriteSize(header) :
                blocks[i] \in BlocksAt(r.image, r.Image + i, "raw", r.aligned)
            /\ WritePartition(r.extent, r.Offset, blocks,
                    /\ Go([r EXCEPT !.Image = @ + n + 1, !.Offset = @ + n, !.Chunk = @ + 1,
                                    !.aligned = aligned])
                    /\ UNCHANGED erased)

\* The fill word is read for each piece; Left is what remains of the chunk.
FillChunk(r, header) ==
    /\ IF header.ChunkSize = 0
       THEN Go([r EXCEPT !.Image = @ + 2, !.Chunk = @ + 1,
                         !.aligned = Reads(r.image.words, r.Image + 1, "fill", @)])
       ELSE Go([r EXCEPT !.Left = header.ChunkSize])
    /\ UNCHANGED << media, erased >>

FillPiece ==
    /\ Chunks /\ run.Left > 0
    /\ LET Count == IF run.Left > FILL_BUF_SIZE THEN FILL_BUF_SIZE ELSE run.Left
           rest == [run EXCEPT !.Offset = @ + Count, !.Left = @ - Count]
           last == [rest EXCEPT !.Image = @ + 2, !.Chunk = @ + 1,
                                !.aligned = Reads(run.image.words, run.Image + 1, "fill", @)]
       IN  \E b \in BlocksAt(run.image, run.Image + 1, "fill", run.aligned) :
               WritePartition(run.extent, run.Offset, [i \in 1..Count |-> b],
                   Go(IF rest.Left = 0 THEN last ELSE rest) /\ UNCHANGED erased)
    /\ UNCHANGED << files, World >>

\* Slip: a gap is not passed over in the partition.
OtherChunk_NoGap(r, header) ==
    /\ Go([r EXCEPT !.Image = @ + 1, !.Chunk = @ + 1])
    /\ UNCHANGED << media, erased >>

\* Nothing is written for the other types, and only a gap moves the offset; the
\* data of an unknown chunk is not passed over.
OtherChunk(r, header) ==
    /\ Go([r EXCEPT !.Image = @ + 1, !.Chunk = @ + 1,
                    !.Offset = IF header.ChunkType = "DONT_CARE"
                               THEN @ + header.ChunkSize ELSE @])
    /\ UNCHANGED << media, erased >>

NextChunk ==
    /\ AtChunk
    /\ \E header \in HeadersAt(run.image, run.Image, run.aligned) :
        LET r == [run EXCEPT !.aligned = Reads(run.image.words, run.Image, "chunk", @)]
        IN  CASE header.ChunkType = "RAW" -> RawChunk(r, header)
              [] header.ChunkType = "FILL" -> FillChunk(r, header)
              [] OTHER -> OtherChunk(r, header)
    /\ UNCHANGED << files, World >>

\* The status is the one of the last write.
EndOfChunks ==
    /\ Chunks /\ run.Left = 0 /\ run.Chunk = run.image.TotalChunks
    /\ Finish("SUCCESS")
    /\ UNCHANGED << media, files, erased, World >>

FlashSparseImage == NextChunk \/ FillPiece \/ EndOfChunks

-----------------------------------------------------------------------------
(* erase, savepart and read                                                *)

ErasePartition ==
    \E d \in Devices, name \in Names :
        /\ Command(d)
        /\ \E x \in OpenPartition(d, name) :
            Go([cmd |-> "erase", extent |-> x, name |-> name, Offset |-> 0, PartitionSize |-> x.size])

ErasePiece ==
    /\ run.cmd = "erase"
    /\ LET Count == IF run.PartitionSize > FILL_BUF_SIZE THEN FILL_BUF_SIZE ELSE run.PartitionSize
       IN  WriteDisk(run.extent, run.Offset, Zeros(Count),
               /\ IF run.PartitionSize = Count THEN Finish("SUCCESS")
                  ELSE Go([run EXCEPT !.Offset = @ + Count, !.PartitionSize = @ - Count])
               /\ UNCHANGED erased)
    /\ UNCHANGED << files, World >>

SavePartitionData ==
    \E d \in Devices, name \in Names :
        /\ Command(d)
        /\ \E x \in OpenPartition(d, name) :
            IF x.size > SIZE_2GB THEN Finish("VOLUME_FULL")
            ELSE Go([cmd |-> "save", extent |-> x, Offset |-> 0, Size |-> x.size])

\* Data of a partition, or a block of the disk, goes to the screen.
ReadPartition ==
    \E d \in Devices, name \in Names, Offset \in Offsets, BufferSize \in Sizes :
        /\ Command(d)
        /\ \E x \in OpenPartition(d, name) :
            IF x.size < BufferSize THEN Finish("VOLUME_FULL")
            ELSE \/ Finish("DEVICE_ERROR")
                 \/ InExtent(x, Offset, BufferSize) /\ Finish("SUCCESS")

DumpDiskData ==
    \E d \in Devices, lba \in Offsets :
        /\ Command(d)
        /\ \/ Finish("DEVICE_ERROR")
           \/ InExtent(Whole(d), lba, 1) /\ Finish("SUCCESS")

-----------------------------------------------------------------------------
(* gpt erase, gpt save, save and write                                     *)

SecondaryPartitionEntryLBA == LastBlock - EntriesSize

EraseGptTable ==
    \E d \in Devices : Command(d) /\ Go([cmd |-> "gpt erase", extent |-> Whole(d), step |-> "primary"])

\* Slip: the second copy is forgotten.
ErasePrimary_Only ==
    /\ run.cmd = "gpt erase" /\ run.step = "primary"
    /\ WriteDisk(run.extent, 0, Zeros(2 + EntriesSize), Finish("SUCCESS") /\ erased' = TRUE)
    /\ UNCHANGED << files, World >>

\* Between the two the memory for the second buffer may be missing.
ErasePrimary ==
    /\ run.cmd = "gpt erase" /\ run.step = "primary"
    /\ WriteDisk(run.extent, 0, Zeros(2 + EntriesSize),
           /\ UNCHANGED erased
           /\ \/ Go([run EXCEPT !.step = "secondary"])
              \/ Finish("OUT_OF_RESOURCES"))
    /\ UNCHANGED << files, World >>

EraseSecondary ==
    /\ run.cmd = "gpt erase" /\ run.step = "secondary"
    /\ WriteDisk(run.extent, SecondaryPartitionEntryLBA, Zeros(1 + EntriesSize),
           Finish("SUCCESS") /\ erased' = TRUE)
    /\ UNCHANGED << files, World >>

SaveGptTable ==
    \E d \in Devices : Command(d) /\ Go([cmd |-> "gpt save", extent |-> Whole(d), step |-> "primary"])

SavePrimary ==
    /\ run.cmd = "gpt save" /\ run.step = "primary"
    /\ ReadAndSave(run.extent, 0, 2 + EntriesSize, "PrimarySave",
           Go([run EXCEPT !.step = "secondary"]) \/ Finish("OUT_OF_RESOURCES"))

SaveSecondary ==
    /\ run.cmd = "gpt save" /\ run.step = "secondary"
    /\ ReadAndSave(run.extent, SecondaryPartitionEntryLBA, 1 + EntriesSize, "SecondarySave",
           Finish("SUCCESS"))

SaveDiskData ==
    \E d \in Devices, offset \in Offsets, size \in Sizes :
        Command(d) /\ Go([cmd |-> "save", extent |-> Whole(d), Offset |-> offset, Size |-> size])

SaveData ==
    /\ run.cmd = "save"
    /\ ReadAndSave(run.extent, run.Offset, run.Size, "Data", Finish("SUCCESS"))

\* What is written is a file of a saving command, or one of the user's.
UserFiles == {<< Mbr >>, PrimaryArea(OtherTable)} \cup {<< b >> : b \in DataBlocks}

\* A size behind the end of the file takes what is behind it in memory, which may
\* have been freed by any command; size 0 is the size of the file.
WriteDataToDisk ==
    \E d \in Devices, Buffer \in (UserFiles \cup Range(files)) \ {<< >>},
       Offset \in Offsets, Size \in Sizes :
        /\ Command(d)
        /\ LET TempSize == IF Size = 0 THEN Len(Buffer) ELSE Size
           IN  \E behind \in [Len(Buffer) + 1..TempSize -> Blocks] :
                LET blocks == [i \in 1..TempSize |-> IF i <= Len(Buffer) THEN Buffer[i] ELSE behind[i]]
                IN  Go([cmd |-> "write", extent |-> Whole(d), Offset |-> Offset, blocks |-> blocks])

WriteData ==
    /\ run.cmd = "write"
    /\ WriteDisk(run.extent, run.Offset, run.blocks,
           Finish("SUCCESS") /\ erased' = (erased /\ ~HoldsTable(run.blocks)))
    /\ UNCHANGED << files, World >>

-----------------------------------------------------------------------------
(* Power is lost, or the machine started again.                            *)

Boot ==
    /\ boots < MaxBoots /\ boots' = boots + 1
    /\ media' = [media EXCEPT !["disk"] = Repaired(@)]
    /\ handles' \in HandleDatabases(media["disk"])
    /\ table' = TableOf(media["disk"])
    /\ run' = Idle /\ Status' = "none"
    /\ UNCHANGED << files, before, erased, commands >>

Next ==
    \/ NoResources \/ NotFound
    \/ FlashPartition \/ WritePlain \/ FlashSparseImage
    \/ ErasePartition \/ ErasePiece
    \/ SavePartitionData \/ ReadPartition \/ DumpDiskData
    \/ EraseGptTable \/ ErasePrimary \/ EraseSecondary
    \/ SaveGptTable \/ SavePrimary \/ SaveSecondary
    \/ SaveDiskData \/ SaveData
    \/ WriteDataToDisk \/ WriteData
    \/ Boot

Spec == Init /\ [][Next]_vars

-----------------------------------------------------------------------------
\* A flash that reports success of a proper image left in the partition what the
\* image stands for, gaps untouched: FlashSparseImage() keeps its place in the
\* image and in the partition across chunks and fill pieces.  A proper image is a
\* plain file, or a sparse one of RAW, FILL and DONT_CARE chunks under 4 GB each,
\* with the data their headers announce; after a CRC32 or an unknown chunk, whose
\* data is not passed over (898-904), or a RAW chunk whose size wraps around
\* (865), nothing is said.
ProperImage(image) ==
    image.sparse => \A c \in 1..image.TotalChunks :
                        WellFormed(image.chunks[c]) /\ image.chunks[c].size < UINT32_BLOCKS

FlashedIsImage ==
    [][ /\ run.cmd = "flash" /\ ProperImage(run.image)
        /\ run' = Idle /\ Status' = "SUCCESS"
        => LET x == run.extent
               Content(m) == Slice(m[x.device], x.first, x.size)
           IN  Content(media') = Flashed(run.image, Content(before)) ]_vars

\* Whatever fails, the stick keeps its blocks and a command changes only what it
\* is told to: a partition command the extent that the table has for the name,
\* as long as the table on the disk is the one the handles were made of.
HasEntries(blocks, t) == \A i \in 3..2 + EntriesSize : blocks[i] = Entries(t)

Mine(b) ==
    CASE run.cmd \in {"flash", "erase"} ->
            HasEntries(before["disk"], table)
            => \E e \in ToSet(table) : e.name = run.name /\ b \in e.first..e.first + e.size - 1
      [] run.cmd = "gpt erase" ->
            b \in 0..1 + EntriesSize \/ b \in LastBlock - EntriesSize..LastBlock
      [] run.cmd = "write" -> b \in run.Offset..run.Offset + Len(run.blocks) - 1
      [] OTHER -> FALSE

WritesStayInside ==
    [][ boots' = boots =>
            /\ media'["stick"] = media["stick"]
            /\ \A b \in 0..LastBlock : media'["disk"][b + 1] # media["disk"][b + 1] => Mine(b)
      ]_vars

\* "Read/write NVMe from specific partition name" (Readme.md): a command writes to
\* the partition that the name has in the table on the disk, if the disk has one
\* that the firmware would accept.
NameIsExtent ==
    [][ LET disk == before["disk"]
        IN  /\ run.cmd \in {"flash", "erase"} /\ boots' = boots
            /\ Valid(disk[2], 1, Slice(disk, 2, EntriesSize))
            => \A b \in 0..LastBlock : media'["disk"][b + 1] # media["disk"][b + 1] =>
                    \E e \in ToSet(disk[2].table) :
                        e.name = run.name /\ b \in e.first..e.first + e.size - 1
      ]_vars

\* After "gpt erase" passed no copy of the table is left that a boot could bring
\* back, even if the first block gets a protective MBR again.
ErasedStaysErased ==
    erased => TableOf(Overwrite(media["disk"], 0, << Mbr >>)) = NoTable
=============================================================================
