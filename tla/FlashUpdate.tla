----------------------------- MODULE FlashUpdate -----------------------------
(***************************************************************************)
(* PerformFlashWriteWithProgress() of PlatformFlashAccessLib: the blocks   *)
(* of a range of the SPI flash are compared with the new image and, where  *)
(* they differ, erased, written and compared again.  The flash is written  *)
(* through the SPI controller and read through its memory mapping, which   *)
(* the processor may cache: the code invalidates a block's lines after it  *)
(* wrote the block.  The power may fail at any time, and the caller may    *)
(* try again with the same image or with another one.                      *)
(***************************************************************************)
EXTENDS Integers

CONSTANTS
  NumBlocks,        \* blocks of the flash area
  Data,             \* the contents of a block of an image
  Erased,           \* the content of an erased block
  Lost,             \* the content of a block that was not completely written
  NoLine,           \* the block has no lines in the processor's cache
  StartPercentage,  \* the progress the caller reports before the call
  EndPercentage     \* the progress the caller reports after the call

ASSUME FlashAssumption ==
  /\ NumBlocks \in Nat
  /\ Erased \notin Data /\ Lost \notin Data \cup {Erased}
  /\ NoLine \notin Data \cup {Erased, Lost}
  /\ StartPercentage \in Nat /\ EndPercentage \in Nat
  /\ StartPercentage <= EndPercentage

Blocks == 0 .. NumBlocks - 1
Contents == Data \cup {Erased, Lost}

VARIABLES
  flash,         \* what each block of the flash holds
  cached,        \* what the processor's cache holds of each block
  pc,            \* the step of the update, or "idle"
  tpl,           \* the task priority level
  first,         \* the block at FlashAddress
  CountOfBlocks, \* whole blocks in Buffer
  image,         \* the blocks of Buffer
  Index,         \* blocks dealt with
  progress,      \* the percentage reported last
  Status,        \* what the last call returned, or "none"
  before,        \* history: the flash when the last update started
  failed,        \* history: an update failed since the processor was reset
  tainted        \* history: the value of failed when the last update started

call == <<first, CountOfBlocks, image, before, tainted>>
memory == <<flash, cached>>
vars == <<memory, pc, tpl, call, Index, progress, Status, failed>>

Init ==
  /\ flash \in [Blocks -> Data]
  /\ cached = [b \in Blocks |-> NoLine]
  /\ pc = "idle" /\ tpl = "application"
  /\ first = 0 /\ CountOfBlocks = 0 /\ image = << >> /\ Index = 0
  /\ progress = EndPercentage /\ Status = "none"
  /\ before = flash /\ failed = FALSE /\ tainted = FALSE

Target == first .. first + CountOfBlocks - 1
Address == first + Index
Buf == image[Address]

\* The content that a read through the memory mapping returns.
Seen(b) == IF cached[b] = NoLine THEN flash[b] ELSE cached[b]

FillLine(b) == cached' = [cached EXCEPT ![b] = Seen(b)]

----------------------------------------------------------------------------
(* The caller. *)

\* A call with a buffer of CountOfBlocks blocks, in the flash area.
PerformFlashWrite ==
  /\ pc = "idle"
  /\ first' \in Blocks
  /\ CountOfBlocks' \in 0 .. NumBlocks - first'
  /\ image' \in [first' .. first' + CountOfBlocks' - 1 -> Data]
  /\ Index' = 0 /\ progress' = StartPercentage /\ Status' = "none"
  /\ pc' = "compare" /\ tpl' = "notify"
  /\ before' = flash /\ tainted' = failed
  /\ UNCHANGED <<memory, failed>>

\* Every exit lowers the priority and reports the end of the progress.
Return(status) ==
  /\ Status' = status /\ pc' = "idle" /\ tpl' = "application"
  /\ progress' = EndPercentage
  /\ failed' = (failed \/ status # "SUCCESS")
  /\ UNCHANGED <<call, Index>>

----------------------------------------------------------------------------
(* One block. *)

Percentage == StartPercentage
                + (Index * (EndPercentage - StartPercentage)) \div CountOfBlocks

Report == progress' = Percentage

NextBlock ==
  /\ Index' = Index + 1
  /\ pc' = "compare"
  /\ UNCHANGED <<tpl, call, Status, failed>>

MoreBlocks == pc = "compare" /\ Index < CountOfBlocks

SkipBlock ==
  /\ MoreBlocks
  /\ Seen(Address) = Buf
  /\ Report
  /\ FillLine(Address)
  /\ NextBlock
  /\ UNCHANGED flash

BlockDiffers ==
  /\ MoreBlocks
  /\ Seen(Address) # Buf
  /\ Report
  /\ FillLine(Address)
  /\ pc' = "erase"
  /\ UNCHANGED <<flash, tpl, call, Index, Status, failed>>

\* No memory to compare: the block is taken to differ.
CompareFails ==
  /\ MoreBlocks
  /\ Report
  /\ pc' = "erase"
  /\ UNCHANGED <<memory, tpl, call, Index, Status, failed>>

InternalEraseBlock ==
  /\ pc = "erase"
  /\ flash' = [flash EXCEPT ![Address] = Erased]
  /\ pc' = "write"
  /\ UNCHANGED <<cached, tpl, call, Index, progress, Status, failed>>

EraseFails ==
  /\ pc = "erase"
  /\ \E c \in {flash[Address], Erased, Lost} : flash' = [flash EXCEPT ![Address] = c]
  /\ Return("DEVICE_ERROR")
  /\ UNCHANGED cached

\* Slip: the block after the one that was erased is written.
Programmed_NextBlock(c) ==
  [flash EXCEPT ![IF Address + 1 \in Blocks THEN Address + 1 ELSE Address] = c]

\* The flash after the block was programmed with what ends up as c.
Programmed(c) == [flash EXCEPT ![Address] = c]

\* Slip: the lines of the block stay in the cache.
Invalidate_Nothing == UNCHANGED cached

Invalidate == cached' = [cached EXCEPT ![Address] = NoLine]

\* The controller reports success; the cells may still not hold the data.
WriteBlock ==
  /\ pc = "write"
  /\ \E c \in {Buf, Lost} : flash' = Programmed(c)
  /\ Invalidate
  /\ pc' = "verify"
  /\ UNCHANGED <<tpl, call, Index, progress, Status, failed>>

WriteFails ==
  /\ pc = "write"
  /\ \E c \in {Erased, Buf, Lost} : flash' = Programmed(c)
  /\ Return("DEVICE_ERROR")
  /\ UNCHANGED cached

\* Slip: the comparison after the write does not decide anything.
Verified_Always == TRUE

Verified == Seen(Address) = Buf

VerifyBlock ==
  /\ pc = "verify"
  /\ Verified
  /\ FillLine(Address)
  /\ NextBlock
  /\ UNCHANGED <<flash, progress>>

VerifyFails ==
  /\ pc = "verify"
  /\ Seen(Address) # Buf
  /\ FillLine(Address)
  /\ Return("VOLUME_CORRUPTED")
  /\ UNCHANGED flash

VerifyOutOfResources ==
  /\ pc = "verify"
  /\ Return("OUT_OF_RESOURCES")
  /\ UNCHANGED memory

Finish ==
  /\ pc = "compare" /\ Index = CountOfBlocks
  /\ Return("SUCCESS")
  /\ UNCHANGED memory

----------------------------------------------------------------------------
(* The platform. *)

\* The processor may drop or read the lines of a block at any time.
Evict ==
  /\ \E b \in Blocks : cached[b] # NoLine /\ cached' = [cached EXCEPT ![b] = NoLine]
  /\ UNCHANGED <<flash, pc, tpl, call, Index, progress, Status, failed>>

Prefetch ==
  /\ \E b \in Blocks : cached[b] = NoLine /\ FillLine(b)
  /\ UNCHANGED <<flash, pc, tpl, call, Index, progress, Status, failed>>

\* The power fails; an erase or a write in progress leaves its block lost.
PowerCut ==
  /\ flash' \in IF pc \in {"erase", "write"}
                THEN {flash, [flash EXCEPT ![Address] = Lost]} ELSE {flash}
  /\ cached' = [b \in Blocks |-> NoLine]
  /\ pc' = "idle" /\ tpl' = "application"
  /\ progress' = EndPercentage /\ Status' = "none"
  /\ failed' = FALSE
  /\ UNCHANGED <<call, Index>>

Next ==
  \/ PerformFlashWrite
  \/ SkipBlock \/ BlockDiffers \/ CompareFails
  \/ InternalEraseBlock \/ EraseFails
  \/ WriteBlock \/ WriteFails
  \/ VerifyBlock \/ VerifyFails \/ VerifyOutOfResources
  \/ Finish
  \/ Evict \/ Prefetch \/ PowerCut

Spec == Init /\ [][Next]_vars

----------------------------------------------------------------------------
(* Properties. *)

(* The types of the variables.  An update runs at TPL_NOTIFY, and every    *)
(* exit from it restores the caller's priority.                            *)
TypeOK ==
  /\ flash \in [Blocks -> Contents]
  /\ before \in [Blocks -> Contents]
  /\ cached \in [Blocks -> Contents \cup {NoLine}]
  /\ pc \in {"idle", "compare", "erase", "write", "verify"}
  /\ tpl = IF pc = "idle" THEN "application" ELSE "notify"
  /\ first \in Nat /\ CountOfBlocks \in Nat /\ Target \subseteq Blocks
  /\ image \in [Target -> Data]
  /\ Index \in 0 .. CountOfBlocks
  /\ pc \in {"erase", "write", "verify"} => Index < CountOfBlocks
  /\ progress \in StartPercentage .. EndPercentage
  /\ Status \in {"none", "SUCCESS", "DEVICE_ERROR", "VOLUME_CORRUPTED", "OUT_OF_RESOURCES"}
  /\ failed \in BOOLEAN /\ tainted \in BOOLEAN

Holds(b) == flash[b] = image[b]

(* When an update succeeds every block of the image is in the flash,       *)
(* whether it was skipped, or written and compared - if no earlier update   *)
(* failed since the processor was reset.                                   *)
SuccessMeansProgrammed ==
  Status = "SUCCESS" /\ ~tainted => \A b \in Target : Holds(b)

(* "Skipping block (already programmed)" (439-440): a block that is skipped *)
(* holds its part of the image, also in a retry after an update that failed. *)
SkippedIsProgrammed == MoreBlocks /\ Seen(Address) = Buf => Holds(Address)

(* At any time, and after any failure or loss of power, at most one block  *)
(* is lost: the blocks before it hold the new image and those after it,    *)
(* like the rest of the flash, what they held before - if no earlier       *)
(* update failed since the processor was reset.                            *)
AtMostOneBlockLost ==
  ~tainted =>
    /\ \A b \in Target : b < Address => Holds(b)
    /\ \A b \in Blocks \ Target : flash[b] = before[b]
    /\ \A b \in Target : b > Address => flash[b] = before[b]

(* A block is reported as corrupted only when the flash does not hold it:  *)
(* the comparison after the write reads the flash, not an old cache line.  *)
CorruptedMeansLost ==
  Status = "VOLUME_CORRUPTED" => ~Holds(Address)

(* The progress that an update reports never goes back.                    *)
ProgressMonotone ==
  [][pc # "idle" => progress' >= progress]_vars
=============================================================================
