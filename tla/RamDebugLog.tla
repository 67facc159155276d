----------------------------- MODULE RamDebugLog -----------------------------
(***************************************************************************)
(* RamDebugLib: debug messages in a fixed area of RAM that survives a      *)
(* reset.  The area holds a header, with a signature and the index of the  *)
(* first free byte, and the messages, each ended by a 0 byte.  A message   *)
(* that does not fit pushes the oldest ones out: the rest is moved to the  *)
(* start of the area byte by byte.                                         *)
(*                                                                         *)
(* A reset may end a call at any step.  While old messages are pushed out, *)
(* and before a new header has its index, the code leaves the header and   *)
(* the bytes apart: a reset there tears the area, and what is promised of  *)
(* its content is promised until then.  The check of a message's size      *)
(* admits one as long as the area, whose 0 byte does not fit: the clean-up *)
(* then runs out of records and goes astray, which tears the area too.     *)
(*                                                                         *)
(* A call that finds logging switched off in CMOS returns and changes      *)
(* nothing.  RAM_DEBUG_STOP_LOGGING_WHEN_BUFFER_FULL is FALSE in the code. *)
(***************************************************************************)
EXTENDS Integers, Sequences, SequencesExt

CONSTANTS
  Size,     \* DEBUG_PRINT_BUFFER_SIZE
  Chars,    \* the characters of messages
  Default,  \* DEBUG_PRINT_BUFFER_DFT_VALUE
  EndFlag,  \* DEBUG_STRING_END_FLAG
  MaxLength \* the longest message a caller prints

ASSUME RamDebugAssumption ==
  /\ Size \in Nat \ {0} /\ MaxLength \in 0 .. Size
  /\ Default \notin Chars /\ EndFlag \notin Chars \cup {Default}

VARIABLES
  writable,     \* whether the area is RAM that can be written
  RamDebugSig,  \* whether the signature is in the header
  LatestIdx,    \* the index in the header
  ram,          \* the bytes after the header
  pc,           \* the step of the call, or "idle"
  Buffer,       \* the message of the call
  LatestIndex,  \* the local copy of the index
  RecordOffset, \* bytes of the records that are pushed out
  Index,        \* the counter of the loop that runs
  saved,        \* history: the log when the call started
  torn          \* history: whether a reset tore the area

header == <<RamDebugSig, LatestIdx>>
locals == <<Buffer, LatestIndex, RecordOffset, Index, saved>>
vars == <<writable, header, ram, pc, locals, torn>>

Bytes == 0 .. Size - 1
Messages == SeqOf(Chars, MaxLength)

\* The bytes that a call stores: the message and the byte after it in the
\* memory of the caller, which the comment at 243 calls '\0' and the library
\* does not look at.  No code in src/ prints; callers are taken to end their
\* messages by it.
TempBufferSize == Len(Buffer) + 1
StoredByte(i) == IF i < Len(Buffer) THEN Buffer[i + 1] ELSE EndFlag

(* The messages of the area: its bytes below the index in the header.      *)
Log == IF RamDebugSig /\ LatestIdx <= Size THEN [n \in 1 .. LatestIdx |-> ram[n - 1]]
       ELSE << >>

Init ==
  /\ writable \in BOOLEAN
  /\ RamDebugSig = FALSE /\ LatestIdx = Size + 1
  /\ ram = [i \in Bytes |-> EndFlag]
  /\ pc = "idle" /\ Buffer = << >> /\ LatestIndex = 0 /\ RecordOffset = 0
  /\ Index = 0 /\ saved = << >> /\ torn = FALSE

\* The end of a call; its locals are gone.
Return ==
  /\ pc' = "idle" /\ Buffer' = << >> /\ LatestIndex' = 0 /\ RecordOffset' = 0
  /\ Index' = 0 /\ saved' = << >>

----------------------------------------------------------------------------
(* RamDebugPrint(). *)

RamDebugPrint ==
  /\ pc = "idle"
  /\ Buffer' \in Messages
  /\ Len(Buffer') <= Size
  /\ RecordOffset' = 0 /\ Index' = 0 /\ saved' = Log
  /\ pc' = IF RamDebugSig THEN "start" ELSE "header"
  /\ UNCHANGED <<writable, header, ram, LatestIndex, torn>>

InitSignature ==
  /\ pc = "header" /\ writable
  /\ RamDebugSig' = TRUE
  /\ pc' = "index"
  /\ UNCHANGED <<writable, LatestIdx, ram, locals, torn>>

InitIndex ==
  /\ pc = "index"
  /\ LatestIdx' = 0
  /\ pc' = "default"
  /\ UNCHANGED <<writable, RamDebugSig, ram, locals, torn>>

InitByte ==
  /\ pc = "default" /\ Index < Size
  /\ ram' = [ram EXCEPT ![Index] = Default]
  /\ Index' = Index + 1
  /\ UNCHANGED <<writable, header, pc, Buffer, LatestIndex, RecordOffset, saved, torn>>

InitDone ==
  /\ pc = "default" /\ Index = Size
  /\ Index' = 0
  /\ pc' = "start"
  /\ UNCHANGED <<writable, header, ram, Buffer, LatestIndex, RecordOffset, saved, torn>>

ReadOnlyMemory ==
  /\ pc = "header" /\ ~writable
  /\ Return
  /\ UNCHANGED <<writable, header, ram, torn>>

Exceeds(index) == index + TempBufferSize > Size

ReadLatestIndex ==
  /\ pc = "start"
  /\ LatestIndex' = LatestIdx
  /\ pc' = IF ~Exceeds(LatestIdx) THEN "copy"
           ELSE IF LatestIdx <= Size THEN "walk" ELSE "outside"
  /\ UNCHANGED <<writable, header, ram, Buffer, RecordOffset, Index, saved, torn>>

----------------------------------------------------------------------------
(* RamDebugCleanUp(). *)

RemainedSize == Size - LatestIndex + RecordOffset

\* The ends of records at or after RecordOffset.
EndsAhead == {i \in Bytes : i >= RecordOffset /\ ram[i] = EndFlag}

\* Slip: one more record is pushed out than needed.
WalkOn_OneMore == RemainedSize <= TempBufferSize

WalkOn == RemainedSize < TempBufferSize

\* One turn of the loop: RamDebugGetRecordSize() runs to the next 0 byte.
\* When there is none it reads on behind the area.
RamDebugGetRecordSize ==
  /\ pc = "walk" /\ WalkOn
  /\ IF EndsAhead # {}
     THEN RecordOffset' = Min(EndsAhead) + 1 /\ pc' = pc
     ELSE pc' = "outside" /\ RecordOffset' = RecordOffset
  /\ UNCHANGED <<writable, header, ram, Buffer, LatestIndex, Index, saved, torn>>

WalkDone ==
  /\ pc = "walk" /\ ~WalkOn
  /\ pc' = IF RecordOffset <= LatestIndex THEN "move" ELSE "outside"
  /\ Index' = 0
  /\ UNCHANGED <<writable, header, ram, Buffer, LatestIndex, RecordOffset, saved, torn>>

MoveByte ==
  /\ pc = "move" /\ Index < LatestIndex - RecordOffset
  /\ ram' = [ram EXCEPT ![Index] = ram[RecordOffset + Index]]
  /\ Index' = Index + 1
  /\ UNCHANGED <<writable, header, pc, Buffer, LatestIndex, RecordOffset, saved, torn>>

\* Slip: the index is not lowered by the bytes that were pushed out.
MoveDone_KeepsIndex ==
  /\ pc = "move" /\ Index = LatestIndex - RecordOffset
  /\ Index' = 0
  /\ pc' = "fill"
  /\ UNCHANGED <<writable, header, ram, Buffer, LatestIndex, RecordOffset, saved, torn>>

MoveDone ==
  /\ pc = "move" /\ Index = LatestIndex - RecordOffset
  /\ LatestIndex' = LatestIndex - RecordOffset
  /\ Index' = 0
  /\ pc' = "fill"
  /\ UNCHANGED <<writable, header, ram, Buffer, RecordOffset, saved, torn>>

FillByte ==
  /\ pc = "fill" /\ Index < Size - LatestIndex
  /\ ram' = [ram EXCEPT ![LatestIndex + Index] = Default]
  /\ Index' = Index + 1
  /\ UNCHANGED <<writable, header, pc, Buffer, LatestIndex, RecordOffset, saved, torn>>

FillDone ==
  /\ pc = "fill" /\ Index = Size - LatestIndex
  /\ Index' = 0
  /\ pc' = IF Exceeds(LatestIndex) THEN "idle" ELSE "copy"
  /\ UNCHANGED <<writable, header, ram, Buffer, LatestIndex, RecordOffset, saved, torn>>

----------------------------------------------------------------------------
(* The message. *)

CopyByte ==
  /\ pc = "copy" /\ Index < TempBufferSize
  /\ ram' = [ram EXCEPT ![LatestIndex + Index] = StoredByte(Index)]
  /\ Index' = Index + 1
  /\ UNCHANGED <<writable, header, pc, Buffer, LatestIndex, RecordOffset, saved, torn>>

UpdateLatestIndex ==
  /\ pc = "copy" /\ Index = TempBufferSize
  /\ LatestIdx' = LatestIndex + TempBufferSize
  /\ Return
  /\ UNCHANGED <<writable, RamDebugSig, ram, torn>>

\* A reset that keeps the RAM ends the call where it is.  The area is torn
\* when the bytes no longer are those of the index in the header.
Torn ==
  \/ pc = "index"
  \/ pc = "move" /\ Index > 0
  \/ pc = "fill"
  \/ pc = "copy" /\ LatestIndex # LatestIdx

\* Behind the records: the unsigned difference of the index and the offset
\* wraps, bytes are moved from and to far behind the area, and the index that
\* is stored in the end, if it comes to that, is the wrapped one.  Default
\* stands for every byte but 0: the clean-up tells no others apart.
GoAstray ==
  /\ pc = "outside"
  /\ ram' \in [Bytes -> {Default, EndFlag}]
  /\ LatestIdx' \in 0 .. Size
  /\ torn' = TRUE
  /\ Return
  /\ UNCHANGED <<writable, RamDebugSig>>

Reset ==
  /\ pc \notin {"idle", "outside"}
  /\ torn' = (torn \/ Torn)
  /\ Return
  /\ UNCHANGED <<writable, header, ram>>

\* After a loss of power nothing is known of the RAM.
PowerLoss ==
  /\ RamDebugSig' = FALSE
  /\ LatestIdx' \in {0, Size + 1}
  /\ torn' = FALSE
  /\ Return
  /\ UNCHANGED <<writable, ram>>

CleanUpSteps ==
  \/ RamDebugGetRecordSize \/ WalkDone \/ MoveByte \/ MoveDone \/ FillByte \/ FillDone
  \/ GoAstray

InitSteps == InitSignature \/ InitIndex \/ InitByte \/ InitDone \/ ReadOnlyMemory

Next ==
  \/ RamDebugPrint \/ InitSteps \/ ReadLatestIndex
  \/ CleanUpSteps \/ CopyByte \/ UpdateLatestIndex
  \/ Reset \/ PowerLoss

Spec == Init /\ [][Next]_vars

----------------------------------------------------------------------------
(* Properties. *)

(* The types of the variables.  The index in the header is inside the area *)
(* unless a reset came before it was initialized.                          *)
TypeOK ==
  /\ writable \in BOOLEAN /\ RamDebugSig \in BOOLEAN /\ torn \in BOOLEAN
  /\ RamDebugSig => writable
  /\ LatestIdx \in 0 .. Size + 1 /\ LatestIndex \in 0 .. Size + 1
  /\ RamDebugSig /\ ~torn /\ pc # "index" => LatestIdx <= Size
  /\ ram \in [Bytes -> Chars \cup {Default, EndFlag}]
  /\ pc \in {"idle", "header", "index", "default", "start", "walk", "move", "fill", "copy", "outside"}
  /\ Buffer \in Messages
  /\ RecordOffset \in 0 .. Size /\ Index \in 0 .. Size

StaysInRecords ==
  /\ pc # "outside"
  /\ pc \in {"walk", "move"} => RecordOffset <= LatestIndex

(* RamDebugCleanUp(), for a message that fits the area with its 0 byte:    *)
(* in an area that no reset tore it never takes away more than the records *)
(* there are, and never looks for the end of a record behind them.  The    *)
(* one length that is left out, that of the area, is admitted by the check *)
(* at RamDebugLib.c:234; CleanUpRemovesRecords is about it.                *)
CleanUpStaysInRecords == torn \/ TempBufferSize > Size \/ StaysInRecords

(* RamDebugCleanUp(), "Clean up the Debug Print buffer, remove oldest      *)
(* record, do the relocation": for every message that RamDebugPrint()      *)
(* admits, what it walks over and removes are records.                     *)
CleanUpRemovesRecords == torn \/ StaysInRecords

(* The area is a log that keeps the newest messages: a message is added    *)
(* whole or not at all, the others stay as they are, and none is pushed    *)
(* out without need - until a reset or a clean-up that goes astray tears   *)
(* the area, and not for a reset while a message is copied to bytes that   *)
(* were free.                                                              *)
Recent == INSTANCE RecentLog WITH
  Capacity <- Size, Records <- Messages, End <- EndFlag,
  log <- IF torn \/ pc = "outside" THEN << >> ELSE IF pc = "idle" THEN Log ELSE saved

KeepsRecentMessages == Recent!Spec
==============================================================================
