-------------------------- MODULE RamDebugLogProofs --------------------------
(***************************************************************************)
(* Proofs about RamDebugLog for an area of any size: the types, that the   *)
(* clean-up of an area which no reset tore stays among its records for a   *)
(* message that fits with its 0 byte, and that the area is a log of the    *)
(* newest messages.  The inductive invariant says of each step which index *)
(* the bytes of the area belong to, that there is a 0 byte before that     *)
(* index, and which bytes of the old log are where; and that the clean-up  *)
(* for a message that does not fit never comes to move or to store a byte. *)
(***************************************************************************)
EXTENDS RamDebugLog, SequenceTheorems, WellFoundedInduction, TLAPS

(* Min() of a set of natural numbers is its least element.                 *)
LEMMA MinIsLeast ==
  ASSUME NEW T, T \subseteq Nat, T # {}
  PROVE  Min(T) \in T /\ \A y \in T : Min(T) <= y
<1> DEFINE R == OpToRel(<, Nat)
<1>1. IsWellFoundedOn(R, Nat)
  BY NatLessThanWellFounded
<1>2. \A x, y \in Nat : x < y => <<x, y>> \in R
  BY DEF OpToRel
<1> HIDE DEF R
<1>3. PICK x \in T : \A y \in T : ~ (<<y, x>> \in R)
  BY <1>1, WFMin
<1>4. ASSUME NEW y \in T PROVE x <= y
  <2>1. x \in Nat /\ y \in Nat /\ ~ (y < x)
    BY <1>2, <1>3
  <2> QED BY <2>1
<1> QED BY <1>4 DEF Min

LEMMA MessageLength ==
  ASSUME NEW b \in Messages
  PROVE  Len(b) \in 0 .. MaxLength /\ \A i \in 1 .. Len(b) : b[i] \in Chars
<1>1. PICK m \in 0 .. MaxLength : b \in [1 .. m -> Chars]
  BY DEF Messages, SeqOf
<1>2. Len(b) = m
  BY <1>1, RamDebugAssumption
<1> QED BY <1>1, <1>2

LEMMA NoMessage == << >> \in Messages
<1>1. << >> \in [1 .. 0 -> Chars]
  OBVIOUS
<1>2. 0 \in 0 .. MaxLength
  BY RamDebugAssumption
<1> QED BY <1>1, <1>2 DEF Messages, SeqOf

LEMMA StoredByteType ==
  ASSUME TypeOK, NEW i \in 0 .. Len(Buffer)
  PROVE  StoredByte(i) \in Chars \cup {Default, EndFlag}
<1>1. Len(Buffer) \in Nat /\ \A j \in 1 .. Len(Buffer) : Buffer[j] \in Chars
  BY MessageLength, RamDebugAssumption DEF TypeOK
<1>2. i < Len(Buffer) => i + 1 \in 1 .. Len(Buffer)
  BY <1>1
<1> QED BY <1>1, <1>2 DEF StoredByte

LEMMA EndsAheadType ==
  ASSUME TypeOK, EndsAhead # {}
  PROVE  /\ Min(EndsAhead) \in Bytes /\ Min(EndsAhead) >= RecordOffset
         /\ \A e \in EndsAhead : Min(EndsAhead) <= e
<1>1. EndsAhead \subseteq Nat
  BY RamDebugAssumption DEF EndsAhead, Bytes
<1>2. Min(EndsAhead) \in EndsAhead /\ \A e \in EndsAhead : Min(EndsAhead) <= e
  BY <1>1, MinIsLeast
<1> QED BY <1>2 DEF EndsAhead

(***************************************************************************)
(* The locals of a call stay inside the area.                              *)
(***************************************************************************)
Working == {"walk", "move", "fill", "copy"}

StepInv ==
  /\ pc = "header" => ~RamDebugSig
  /\ pc \in Working \cup {"index", "default", "start"} => RamDebugSig
  /\ pc \in {"header", "index", "start"} => Index = 0
  /\ pc \in {"header", "index", "default", "start"} => RecordOffset = 0
  /\ pc = "default" => LatestIdx = 0
  /\ pc = "walk" => Index = 0
  /\ pc \in Working => LatestIndex <= Size
  /\ pc = "move" =>
       /\ RecordOffset <= LatestIndex /\ Index <= LatestIndex - RecordOffset
       /\ LatestIndex - RecordOffset + TempBufferSize <= Size
  /\ pc = "fill" => Index <= Size - LatestIndex /\ LatestIndex + TempBufferSize <= Size
  /\ pc = "copy" => LatestIndex + TempBufferSize <= Size /\ Index <= TempBufferSize

TypeInv == TypeOK /\ StepInv

LEMMA TypeInit == Init => TypeInv
<1> SUFFICES ASSUME Init PROVE TypeInv
  OBVIOUS
<1>1. TypeOK
  BY RamDebugAssumption, NoMessage DEF Init, TypeOK, Bytes
<1>2. StepInv
  BY DEF Init, StepInv, Working
<1> QED BY <1>1, <1>2 DEF TypeInv

LEMMA TypeStart ==
  ASSUME TypeInv, RamDebugPrint \/ InitSteps
  PROVE  TypeInv'
<1>1. TypeOK /\ StepInv
  BY DEF TypeInv
<1>2. CASE RamDebugPrint
  <2>1. TypeOK'
    BY <1>1, <1>2, RamDebugAssumption DEF RamDebugPrint, TypeOK, header
  <2>2. StepInv'
    BY <1>1, <1>2 DEF RamDebugPrint, StepInv, Working, header
  <2> QED BY <2>1, <2>2 DEF TypeInv
<1>3. CASE InitSignature
  <2>1. TypeOK'
    BY <1>1, <1>3 DEF InitSignature, TypeOK, locals
  <2>2. StepInv'
    BY <1>1, <1>3 DEF InitSignature, StepInv, Working, locals
  <2> QED BY <2>1, <2>2 DEF TypeInv
<1>4. CASE InitIndex
  <2>1. TypeOK'
    BY <1>1, <1>4, RamDebugAssumption DEF InitIndex, TypeOK, locals
  <2>2. StepInv'
    BY <1>1, <1>4 DEF InitIndex, StepInv, Working, locals
  <2> QED BY <2>1, <2>2 DEF TypeInv
<1>5. CASE InitByte
  <2>1. Index + 1 \in 0 .. Size
    BY <1>1, <1>5, RamDebugAssumption DEF InitByte, TypeOK
  <2>2. TypeOK'
    BY <1>1, <1>5, <2>1 DEF InitByte, TypeOK, header
  <2>3. StepInv'
    BY <1>1, <1>5 DEF InitByte, StepInv, Working, header
  <2> QED BY <2>2, <2>3 DEF TypeInv
<1>6. CASE InitDone
  <2>1. TypeOK'
    BY <1>1, <1>6, RamDebugAssumption DEF InitDone, TypeOK, header
  <2>2. StepInv'
    BY <1>1, <1>6 DEF InitDone, StepInv, Working, header
  <2> QED BY <2>1, <2>2 DEF TypeInv
<1>7. CASE ReadOnlyMemory
  <2>1. TypeOK'
    BY <1>1, <1>7, NoMessage, RamDebugAssumption DEF ReadOnlyMemory, Return, TypeOK, header
  <2>2. StepInv'
    BY <1>1, <1>7 DEF ReadOnlyMemory, Return, StepInv, Working, header
  <2> QED BY <2>1, <2>2 DEF TypeInv
<1> QED BY <1>2, <1>3, <1>4, <1>5, <1>6, <1>7 DEF InitSteps

LEMMA BufferLength == TypeOK => Len(Buffer) \in 0 .. MaxLength
  BY MessageLength DEF TypeOK

LEMMA TypeWalk ==
  ASSUME TypeInv, ReadLatestIndex \/ RamDebugGetRecordSize \/ WalkDone
  PROVE  TypeInv'
<1>1. /\ TypeOK /\ StepInv
      /\ Len(Buffer) \in Nat
      /\ Size \in Nat
  BY BufferLength, RamDebugAssumption DEF TypeInv
<1>2. CASE ReadLatestIndex
  <2>1. TypeOK'
    BY <1>1, <1>2 DEF ReadLatestIndex, TypeOK, header
  <2>2. StepInv'
    BY <1>1, <1>2 DEF ReadLatestIndex, Exceeds, TempBufferSize, TypeOK, StepInv, Working, header
  <2> QED BY <2>1, <2>2 DEF TypeInv
<1>3. CASE RamDebugGetRecordSize
  <2>1. RecordOffset' \in 0 .. Size
    BY <1>1, <1>3, EndsAheadType DEF RamDebugGetRecordSize, TypeOK, Bytes
  <2>2. TypeOK'
    BY <1>1, <1>3, <2>1 DEF RamDebugGetRecordSize, TypeOK, header
  <2>3. StepInv'
    BY <1>1, <1>3 DEF RamDebugGetRecordSize, StepInv, Working, header
  <2> QED BY <2>2, <2>3 DEF TypeInv
<1>4. CASE WalkDone
  <2>1. TypeOK'
    BY <1>1, <1>4 DEF WalkDone, TypeOK, header
  <2>2. StepInv'
    BY <1>1, <1>4 DEF WalkDone, WalkOn, RemainedSize, TempBufferSize, TypeOK, StepInv, Working, header
  <2> QED BY <2>1, <2>2 DEF TypeInv
<1> QED BY <1>2, <1>3, <1>4

LEMMA TypeMove ==
  ASSUME TypeInv, MoveByte \/ MoveDone \/ FillByte \/ FillDone
  PROVE  TypeInv'
<1>1. /\ TypeOK /\ StepInv
      /\ Len(Buffer) \in Nat
      /\ Size \in Nat
  BY BufferLength, RamDebugAssumption DEF TypeInv
<1>2. CASE MoveByte
  <2>1. RecordOffset + Index \in Bytes /\ Index + 1 \in 0 .. Size
    BY <1>1, <1>2 DEF MoveByte, TypeOK, StepInv, Working, Bytes
  <2>2. TypeOK'
    BY <1>1, <1>2, <2>1 DEF MoveByte, TypeOK, header
  <2>3. StepInv'
    BY <1>1, <1>2 DEF MoveByte, TempBufferSize, TypeOK, StepInv, Working, header
  <2> QED BY <2>2, <2>3 DEF TypeInv
<1>3. CASE MoveDone
  <2>1. LatestIndex - RecordOffset \in 0 .. Size
    BY <1>1, <1>3 DEF MoveDone, TypeOK, StepInv, Working
  <2>2. TypeOK'
    BY <1>1, <1>3, <2>1 DEF MoveDone, TypeOK, header
  <2>3. StepInv'
    BY <1>1, <1>3, <2>1 DEF MoveDone, TempBufferSize, TypeOK, StepInv, Working, header
  <2> QED BY <2>2, <2>3 DEF TypeInv
<1>4. CASE FillByte
  <2>1. Index + 1 \in 0 .. Size
    BY <1>1, <1>4 DEF FillByte, TypeOK, StepInv, Working
  <2>2. TypeOK'
    BY <1>1, <1>4, <2>1 DEF FillByte, TypeOK, header
  <2>3. StepInv'
    BY <1>1, <1>4 DEF FillByte, TempBufferSize, TypeOK, StepInv, Working, header
  <2> QED BY <2>2, <2>3 DEF TypeInv
<1>5. CASE FillDone
  <2>1. TypeOK'
    BY <1>1, <1>5 DEF FillDone, TypeOK, header
  <2>2. StepInv'
    BY <1>1, <1>5 DEF FillDone, Exceeds, TempBufferSize, TypeOK, StepInv, Working, header
  <2> QED BY <2>1, <2>2 DEF TypeInv
<1> QED BY <1>2, <1>3, <1>4, <1>5

LEMMA TypeCopy ==
  ASSUME TypeInv, CopyByte \/ UpdateLatestIndex \/ GoAstray \/ Reset \/ PowerLoss
  PROVE  TypeInv'
<1>1. /\ TypeOK /\ StepInv
      /\ Len(Buffer) \in Nat
      /\ Size \in Nat
  BY BufferLength, RamDebugAssumption DEF TypeInv
<1>2. CASE CopyByte
  <2>1. /\ Index \in 0 .. Len(Buffer)
        /\ Index + 1 \in 0 .. Size
    BY <1>1, <1>2 DEF CopyByte, TempBufferSize, TypeOK, StepInv, Working
  <2>2. StoredByte(Index) \in Chars \cup {Default, EndFlag}
    BY <1>1, <2>1, StoredByteType
  <2>3. ram' \in [Bytes -> Chars \cup {Default, EndFlag}]
    BY <1>1, <1>2, <2>2 DEF CopyByte, TypeOK
  <2>4. TypeOK'
    BY <1>1, <1>2, <2>1, <2>3 DEF CopyByte, TypeOK, header
  <2>5. StepInv'
    BY <1>1, <1>2 DEF CopyByte, TempBufferSize, TypeOK, StepInv, Working, header
  <2> QED BY <2>4, <2>5 DEF TypeInv
<1>3. CASE UpdateLatestIndex
  <2>1. LatestIdx' \in 0 .. Size
    BY <1>1, <1>3 DEF UpdateLatestIndex, TempBufferSize, TypeOK, StepInv, Working
  <2>2. TypeOK'
    BY <1>1, <1>3, <2>1, NoMessage DEF UpdateLatestIndex, Return, TypeOK
  <2>3. StepInv'
    BY <1>1, <1>3 DEF UpdateLatestIndex, Return, StepInv, Working
  <2> QED BY <2>2, <2>3 DEF TypeInv
<1>4. CASE Reset
  <2>1. torn' \in BOOLEAN
    BY <1>1, <1>4 DEF Reset, Torn, TypeOK
  <2>2. RamDebugSig' /\ ~torn' => LatestIdx' <= Size
    BY <1>1, <1>4 DEF Reset, Torn, TypeOK, header
  <2>3. TypeOK'
    BY <1>1, <1>4, <2>1, <2>2, NoMessage DEF Reset, Return, TypeOK, header
  <2>4. StepInv'
    BY <1>1, <1>4 DEF Reset, Return, StepInv, Working, header
  <2> QED BY <2>3, <2>4 DEF TypeInv
<1>5. CASE PowerLoss
  <2>1. LatestIdx' \in 0 .. Size + 1 /\ RamDebugSig' = FALSE /\ torn' = FALSE
    BY <1>1, <1>5 DEF PowerLoss
  <2>2. TypeOK'
    <3>1. /\ writable' = writable /\ ram' = ram /\ pc' = "idle" /\ Buffer' \in Messages
          /\ LatestIndex' = 0 /\ RecordOffset' = 0 /\ Index' = 0
      BY <1>5, NoMessage DEF PowerLoss, Return
    <3>2. LatestIndex' \in 0 .. Size + 1 /\ RecordOffset' \in 0 .. Size /\ Index' \in 0 .. Size
      BY <1>1, <3>1
    <3>3. writable' \in BOOLEAN /\ torn' \in BOOLEAN /\ RamDebugSig' \in BOOLEAN
      BY <1>1, <2>1, <3>1 DEF TypeOK
    <3>4. ram' \in [Bytes -> Chars \cup {Default, EndFlag}]
      BY <1>1, <3>1 DEF TypeOK
    <3> QED BY <2>1, <3>1, <3>2, <3>3, <3>4 DEF TypeOK
  <2>3. StepInv'
    BY <1>1, <1>5 DEF PowerLoss, Return, StepInv, Working
  <2> QED BY <2>2, <2>3 DEF TypeInv
<1>6. CASE GoAstray
  <2>1. ram' \in [Bytes -> Chars \cup {Default, EndFlag}]
    BY <1>6 DEF GoAstray
  <2>2. LatestIdx' \in 0 .. Size /\ Buffer' \in Messages
    BY <1>6, NoMessage DEF GoAstray, Return
  <2>3. TypeOK'
    BY <1>1, <1>6, <2>1, <2>2 DEF GoAstray, Return, TypeOK
  <2>4. StepInv'
    BY <1>1, <1>6 DEF GoAstray, Return, StepInv, Working
  <2> QED BY <2>3, <2>4 DEF TypeInv
<1> QED BY <1>2, <1>3, <1>4, <1>5, <1>6

LEMMA TypeStep == TypeInv /\ [Next]_vars => TypeInv'
<1> SUFFICES ASSUME TypeInv, [Next]_vars PROVE TypeInv'
  OBVIOUS
<1>1. CASE Next
  BY <1>1, TypeStart, TypeWalk, TypeMove, TypeCopy DEF Next, CleanUpSteps
<1>2. CASE UNCHANGED vars
  BY <1>2 DEF vars, header, locals, TypeInv, TypeOK, StepInv, Working, TempBufferSize
<1> QED BY <1>1, <1>2

LEMMA TypeInvariant == Spec => []TypeInv
  BY TypeInit, TypeStep, PTL DEF Spec

(* RamDebugPrint() keeps its indices inside the area, for an area of any   *)
(* size and whatever resets leave behind.                                  *)
THEOREM TypeCorrect == Spec => []TypeOK
  BY TypeInvariant, PTL DEF TypeInv

(***************************************************************************)
(* The records.  A 0 byte comes before the index that the bytes of the     *)
(* area belong to, so that the clean-up finds the end of every record.     *)
(***************************************************************************)
EndsBefore(i) == i > 0 => ram[i - 1] = EndFlag

\* Outside the steps where a reset tears the area, the bytes are those of
\* the index in the header; the locals of the clean-up agree with it.
AreaInv ==
  ~torn =>
    /\ RamDebugSig /\ ~Torn => EndsBefore(LatestIdx)
    /\ pc \in {"walk", "move"} => LatestIndex = LatestIdx
    /\ pc = "walk" /\ RecordOffset = 0 => Exceeds(LatestIndex)
    /\ pc = "move" => RecordOffset > 0
    /\ pc = "fill" => LatestIndex < LatestIdx
    /\ pc = "copy" => LatestIndex <= LatestIdx

CopyInv ==
  pc = "copy" /\ Index > 0 => ram[LatestIndex + Index - 1] = StoredByte(Index - 1)

RecordsInv == TypeInv /\ AreaInv /\ CopyInv /\ CleanUpStaysInRecords

LEMMA RecordsInit == Init => RecordsInv
<1> SUFFICES ASSUME Init PROVE RecordsInv
  OBVIOUS
<1> QED BY TypeInit DEF Init, RecordsInv, AreaInv, CopyInv, CleanUpStaysInRecords,
     StaysInRecords, TempBufferSize

LEMMA RecordsStart ==
  ASSUME RecordsInv, RamDebugPrint \/ InitSteps
  PROVE  RecordsInv'
<1>1. RecordsInv /\ TypeInv'
  BY TypeStart DEF RecordsInv
<1>2. pc' \notin Working \cup {"outside"} /\ torn' = torn
  BY <1>1 DEF RamDebugPrint, InitSteps, InitSignature, InitIndex, InitByte, InitDone,
     ReadOnlyMemory, Return, Working
<1>3. CASE RamDebugPrint
  BY <1>1, <1>2, <1>3 DEF RamDebugPrint, RecordsInv, AreaInv, CopyInv, Torn,
     EndsBefore, CleanUpStaysInRecords, StaysInRecords, TempBufferSize, Working, header
<1>4. CASE InitSignature
  BY <1>1, <1>2, <1>4 DEF InitSignature, RecordsInv, AreaInv, CopyInv, Torn,
     CleanUpStaysInRecords, StaysInRecords, TempBufferSize, Working
<1>5. CASE InitIndex
  BY <1>1, <1>2, <1>5 DEF InitIndex, RecordsInv, AreaInv, CopyInv, EndsBefore,
     CleanUpStaysInRecords, StaysInRecords, Working
<1>6. CASE InitByte \/ InitDone
  <2>1. pc = "default" /\ LatestIdx = 0 /\ LatestIdx' = 0 /\ ~Torn
    BY <1>1, <1>6 DEF InitByte, InitDone, RecordsInv, TypeInv, StepInv, Torn, header
  <2> QED BY <1>1, <1>2, <2>1 DEF RecordsInv, AreaInv, CopyInv, EndsBefore,
          CleanUpStaysInRecords, StaysInRecords, Working
<1>7. CASE ReadOnlyMemory
  BY <1>1, <1>2, <1>7 DEF ReadOnlyMemory, Return, RecordsInv, TypeInv, StepInv,
     AreaInv, CopyInv, CleanUpStaysInRecords, StaysInRecords, Working, header
<1> QED BY <1>3, <1>4, <1>5, <1>6, <1>7 DEF InitSteps

\* A clean-up that needs more room finds the end of another record.
LEMMA RecordFound ==
  ASSUME TempBufferSize <= Size, RecordsInv, ~torn, pc = "walk", WalkOn
  PROVE  EndsAhead # {} /\ Min(EndsAhead) < LatestIndex
<1>1. TypeOK /\ StepInv /\ AreaInv /\ Len(Buffer) \in 0 .. MaxLength /\ Size \in Nat
      /\ MaxLength \in Nat
  BY BufferLength, RamDebugAssumption DEF RecordsInv, TypeInv
<1>2. LatestIndex = LatestIdx /\ RamDebugSig /\ EndsBefore(LatestIdx) /\ LatestIndex <= Size
      /\ RecordOffset <= LatestIndex
  BY <1>1 DEF AreaInv, StepInv, Working, Torn, RecordsInv, CleanUpStaysInRecords,
     StaysInRecords, TempBufferSize
<1>3. RecordOffset < LatestIndex
  BY <1>1, <1>2 DEF WalkOn, RemainedSize, TempBufferSize, TypeOK
<1>4. LatestIndex - 1 \in EndsAhead
  BY <1>1, <1>2, <1>3 DEF EndsAhead, EndsBefore, Bytes, TypeOK
<1>5. Min(EndsAhead) \in Bytes /\ Min(EndsAhead) <= LatestIndex - 1
  BY <1>1, <1>4, EndsAheadType
<1> QED BY <1>1, <1>4, <1>5 DEF Bytes, TypeOK

LEMMA RecordsWalk ==
  ASSUME RecordsInv, ReadLatestIndex \/ RamDebugGetRecordSize \/ WalkDone
  PROVE  RecordsInv'
<1>1. /\ TypeOK /\ StepInv /\ AreaInv /\ TypeInv'
      /\ Len(Buffer) \in Nat /\ Size \in Nat
  BY BufferLength, TypeWalk, RamDebugAssumption DEF RecordsInv, TypeInv
<1>2. UNCHANGED <<torn, RamDebugSig, LatestIdx, ram, Buffer>>
  BY DEF ReadLatestIndex, RamDebugGetRecordSize, WalkDone, header
<1>3. CASE torn
  <2>1. CopyInv'
    BY <1>1 DEF ReadLatestIndex, RamDebugGetRecordSize, WalkDone, CopyInv, StepInv
  <2> QED BY <1>1, <1>2, <1>3, <2>1 DEF RecordsInv, AreaInv, CleanUpStaysInRecords,
     StaysInRecords, TempBufferSize
<1>4. CASE ~torn /\ ReadLatestIndex
  <2>1. RamDebugSig /\ LatestIdx <= Size /\ EndsBefore(LatestIdx)
    BY <1>1, <1>4 DEF ReadLatestIndex, StepInv, TypeOK, AreaInv, Torn, Working
  <2>2. AreaInv'
    BY <1>1, <1>2, <1>4, <2>1
       DEF ReadLatestIndex, AreaInv, EndsBefore, Exceeds, TempBufferSize, TypeOK
  <2>3. CopyInv' /\ CleanUpStaysInRecords'
    BY <1>1, <1>2, <1>4, <2>1
       DEF ReadLatestIndex, CopyInv, StepInv, CleanUpStaysInRecords, StaysInRecords, TempBufferSize, TypeOK
  <2> QED BY <1>1, <2>2, <2>3 DEF RecordsInv
<1>5. CASE ~torn /\ RamDebugGetRecordSize /\ TempBufferSize <= Size
  <2>1. /\ EndsAhead # {} /\ Min(EndsAhead) < LatestIndex
        /\ Min(EndsAhead) \in Nat
    BY <1>1, <1>5, RecordFound, EndsAheadType
       DEF RamDebugGetRecordSize, Bytes
  <2>2. /\ RecordOffset' = Min(EndsAhead) + 1 /\ RecordOffset' <= LatestIndex
        /\ RecordOffset' # 0
        /\ pc = "walk" /\ pc' = "walk" /\ LatestIndex' = LatestIndex
    BY <1>1, <1>5, <2>1 DEF RamDebugGetRecordSize, TypeOK
  <2>3. AreaInv'
    BY <1>1, <1>2, <1>5, <2>2 DEF AreaInv, EndsBefore, Torn
  <2> QED BY <1>1, <2>2, <2>3 DEF RecordsInv, CopyInv, CleanUpStaysInRecords,
     StaysInRecords, TempBufferSize
<1>6. CASE ~torn /\ WalkDone /\ TempBufferSize <= Size
  <2>1. RecordOffset <= LatestIndex /\ pc = "walk" /\ pc' = "move" /\ Index' = 0
        /\ UNCHANGED <<LatestIndex, RecordOffset>>
    BY <1>1, <1>6 DEF WalkDone, RecordsInv, CleanUpStaysInRecords,
       StaysInRecords, TempBufferSize
  <2>2. RecordOffset > 0
    BY <1>1, <1>6, <2>1
       DEF WalkDone, WalkOn, RemainedSize, TempBufferSize, Exceeds, AreaInv, TypeOK
  <2>3. AreaInv'
    BY <1>1, <1>2, <1>6, <2>1, <2>2 DEF AreaInv, EndsBefore, Torn
  <2> QED BY <1>1, <2>1, <2>3 DEF RecordsInv, CopyInv, CleanUpStaysInRecords,
     StaysInRecords, TempBufferSize
<1>7. CASE ~torn /\ TempBufferSize > Size /\ (RamDebugGetRecordSize \/ WalkDone)
  <2>1. pc = "walk" /\ pc' \in {"walk", "move", "outside"} /\ LatestIndex' = LatestIndex
        /\ (pc' = "walk" => RecordOffset' # 0) /\ (pc' = "move" => RecordOffset' <= LatestIndex)
    BY <1>1, <1>7, EndsAheadType DEF RamDebugGetRecordSize, WalkDone, TypeOK, Bytes
  <2>2. pc' # "move"
    BY <1>1, <1>7, <2>1
       DEF RamDebugGetRecordSize, WalkDone, WalkOn, RemainedSize, TempBufferSize, TypeOK
  <2>3. AreaInv'
    BY <1>1, <1>2, <1>7, <2>1, <2>2 DEF AreaInv, EndsBefore, Torn
  <2> QED BY <1>1, <1>2, <1>7, <2>1, <2>2, <2>3
          DEF RecordsInv, CopyInv, CleanUpStaysInRecords, StaysInRecords, TempBufferSize
<1> QED BY <1>1, <1>3, <1>4, <1>5, <1>6, <1>7 DEF TempBufferSize

LEMMA RecordsMove ==
  ASSUME RecordsInv, MoveByte \/ MoveDone \/ FillByte \/ FillDone
  PROVE  RecordsInv'
<1>1. /\ TypeOK /\ StepInv /\ AreaInv /\ CleanUpStaysInRecords /\ TypeInv'
      /\ Len(Buffer) \in Nat /\ Size \in Nat
  BY TypeMove, BufferLength, RamDebugAssumption DEF RecordsInv, TypeInv
<1>2. UNCHANGED <<torn, RamDebugSig, LatestIdx>>
  BY DEF MoveByte, MoveDone, FillByte, FillDone, header
<1>3. CopyInv'
  BY DEF MoveByte, MoveDone, FillByte, FillDone, CopyInv
<1>4. CleanUpStaysInRecords'
  BY <1>1 DEF MoveByte, MoveDone, FillByte, FillDone, CleanUpStaysInRecords,
     StaysInRecords, TempBufferSize
<1>5. CASE MoveByte
  BY <1>1, <1>2, <1>3, <1>4, <1>5
     DEF MoveByte, RecordsInv, AreaInv, Torn, TypeOK
<1>6. CASE MoveDone
  BY <1>1, <1>2, <1>3, <1>4, <1>6
     DEF MoveDone, RecordsInv, AreaInv, Torn, TypeOK
<1>7. CASE FillByte
  BY <1>1, <1>2, <1>3, <1>4, <1>7
     DEF FillByte, RecordsInv, AreaInv, Torn
<1>8. CASE FillDone
  <2>1. ~torn => pc' \in {"idle", "copy"} /\ LatestIndex' < LatestIdx'
    BY <1>1, <1>2, <1>8 DEF FillDone, AreaInv
  <2>2. pc' = "copy"
    BY <1>1, <1>8 DEF FillDone, Exceeds, TempBufferSize, TypeOK, StepInv
  <2> QED BY <1>1, <1>2, <1>3, <1>4, <1>8, <2>1, <2>2
          DEF FillDone, RecordsInv, AreaInv, Torn, TypeOK
<1> QED BY <1>5, <1>6, <1>7, <1>8

LEMMA RecordsCopy ==
  ASSUME RecordsInv, CopyByte \/ UpdateLatestIndex \/ GoAstray \/ Reset \/ PowerLoss
  PROVE  RecordsInv'
<1>1. /\ TypeOK /\ StepInv /\ AreaInv /\ CopyInv /\ TypeInv'
      /\ Len(Buffer) \in Nat /\ Size \in Nat
  BY TypeCopy, BufferLength, RamDebugAssumption DEF RecordsInv, TypeInv
<1>2. CASE CopyByte
  <2>1. /\ pc = "copy" /\ pc' = "copy" /\ Index' = Index + 1
        /\ LatestIndex + Index \in Bytes
        /\ ram' = [ram EXCEPT ![LatestIndex + Index] = StoredByte(Index)]
        /\ UNCHANGED <<torn, LatestIdx, RamDebugSig, LatestIndex, Buffer>>
    BY <1>1, <1>2 DEF CopyByte, TempBufferSize, TypeOK, StepInv, Working, Bytes, header
  <2>2. CopyInv'
    <3>1. LatestIndex' + Index' - 1 = LatestIndex + Index /\ Index' - 1 = Index
      BY <1>1, <2>1 DEF TypeOK
    <3>2. ram'[LatestIndex + Index] = StoredByte(Index)
      BY <1>1, <2>1 DEF TypeOK
    <3> QED BY <2>1, <3>1, <3>2 DEF CopyInv, StoredByte
  <2>3. EndsBefore(LatestIdx) /\ LatestIndex = LatestIdx => EndsBefore(LatestIdx)'
    BY <1>1, <2>1 DEF EndsBefore, TypeOK
  <2>4. AreaInv'
    BY <1>1, <2>1, <2>3 DEF AreaInv, Torn
  <2>5. CleanUpStaysInRecords'
    BY <2>1 DEF CleanUpStaysInRecords,
       StaysInRecords, TempBufferSize
  <2> QED BY <1>1, <2>2, <2>4, <2>5 DEF RecordsInv
<1>3. CASE UpdateLatestIndex
  <2>1. /\ pc = "copy" /\ Index = Len(Buffer) + 1 /\ LatestIdx' = LatestIndex + Len(Buffer) + 1
        /\ pc' = "idle" /\ ram' = ram
    BY <1>1, <1>3 DEF UpdateLatestIndex, Return, TempBufferSize, TypeOK
  <2>2. StoredByte(Index - 1) = EndFlag
    BY <1>1, <2>1 DEF StoredByte
  <2>3. ram[LatestIndex + Index - 1] = EndFlag
    BY <1>1, <2>1, <2>2 DEF CopyInv
  <2>4. LatestIdx' - 1 = LatestIndex + Index - 1
    BY <1>1, <2>1 DEF TypeOK
  <2>5. EndsBefore(LatestIdx)'
    BY <2>1, <2>3, <2>4 DEF EndsBefore
  <2> QED BY <1>1, <2>1, <2>5 DEF RecordsInv, AreaInv, CopyInv, CleanUpStaysInRecords,
     StaysInRecords, TempBufferSize
<1>4. CASE Reset
  <2>1. pc' = "idle" /\ torn' = (torn \/ Torn) /\ UNCHANGED <<RamDebugSig, LatestIdx, ram>>
    BY <1>4 DEF Reset, Return, header
  <2>2. AreaInv'
    BY <1>1, <2>1 DEF AreaInv, EndsBefore
  <2> QED BY <1>1, <2>1, <2>2 DEF RecordsInv, CopyInv, CleanUpStaysInRecords,
     StaysInRecords, TempBufferSize
<1>5. CASE PowerLoss
  <2>1. pc' = "idle" /\ RamDebugSig' = FALSE
    BY <1>5 DEF PowerLoss, Return
  <2> QED BY <1>1, <2>1 DEF RecordsInv, AreaInv, CopyInv, CleanUpStaysInRecords,
     StaysInRecords, TempBufferSize
<1>6. CASE GoAstray
  BY <1>1, <1>6 DEF GoAstray, Return, RecordsInv, AreaInv, CopyInv, CleanUpStaysInRecords,
     StaysInRecords, TempBufferSize
<1> QED BY <1>2, <1>3, <1>4, <1>5, <1>6

LEMMA RecordsStep == RecordsInv /\ [Next]_vars => RecordsInv'
<1> SUFFICES ASSUME RecordsInv, [Next]_vars PROVE RecordsInv'
  OBVIOUS
<1>1. CASE Next
  BY <1>1, RecordsStart, RecordsWalk, RecordsMove, RecordsCopy DEF Next, CleanUpSteps
<1>2. CASE UNCHANGED vars
  <2>1. TypeInv'
    BY <1>2, TypeStep DEF RecordsInv
  <2> QED BY <1>2, <2>1 DEF RecordsInv, AreaInv, CopyInv, CleanUpStaysInRecords,
          StaysInRecords, TempBufferSize, Torn,
          EndsBefore, Exceeds, StoredByte, vars, header, locals
<1> QED BY <1>1, <1>2

(* RamDebugCleanUp() finds the end of every record that it removes and     *)
(* removes no more than there are, for an area of any size and any message *)
(* that fits it with its 0 byte, whatever other messages callers print:    *)
(* those as long as the area are admitted too, and stay among the records  *)
(* only until they run out (CleanUpRemovesRecords is false for them).      *)
THEOREM CleanUpIsBounded == Spec => []CleanUpStaysInRecords
<1>1. RecordsInv /\ [Next]_vars => RecordsInv'
  BY RecordsStep
<1>2. Init => RecordsInv
  BY RecordsInit
<1>3. RecordsInv => CleanUpStaysInRecords
  BY DEF RecordsInv
<1> QED BY <1>1, <1>2, <1>3, PTL DEF Spec

(***************************************************************************)
(* The text of the area.  A call knows in each step what the area held     *)
(* when it started: `saved' is that log.  The clean-up looks for the first *)
(* cut that leaves room, moves what is behind it to the front, byte by     *)
(* byte and never over a byte that it has yet to move, and the message is  *)
(* copied behind the rest.                                                 *)
(***************************************************************************)
Byte == Chars \cup {Default, EndFlag}

\* A place in the log where it can be cut, and that leaves enough room.
Cut(k) == k = 0 \/ (k \in 1 .. LatestIdx /\ saved[k] = EndFlag)
LeavesRoom(k) == (LatestIdx - k) + Len(Buffer) + 1 <= Size

CutInv ==
  /\ Cut(RecordOffset) /\ RecordOffset <= LatestIdx
  /\ \A j \in 0 .. LatestIdx : Cut(j) /\ j < RecordOffset => ~LeavesRoom(j)

\* Where the byte of the log is that place i of the area holds during the move.
Moved(i) == IF i < Index THEN RecordOffset + i ELSE i

TextInv ==
  ~torn =>
    /\ pc \in {"header", "index", "default"} => saved = << >>
    /\ pc \in {"start", "walk"} => saved = Log
    /\ pc \in Working => saved \in Seq(Byte) /\ Len(saved) = LatestIdx
    /\ pc \in Working /\ TempBufferSize <= Size => CutInv
    /\ pc = "move" => \A i \in 0 .. LatestIdx - 1 : ram[i] = saved[Moved(i) + 1]
    /\ pc \in {"fill", "copy"} =>
         /\ LatestIndex = LatestIdx - RecordOffset
         /\ \A i \in 0 .. LatestIndex - 1 : ram[i] = saved[RecordOffset + i + 1]
    /\ pc = "copy" => \A i \in 0 .. Index - 1 : ram[LatestIndex + i] = StoredByte(i)

LogInv == RecordsInv /\ TextInv

LEMMA LogType ==
  ASSUME TypeOK
  PROVE  /\ Log \in Seq(Byte)
         /\ RamDebugSig /\ LatestIdx <= Size =>
              Len(Log) = LatestIdx /\ \A i \in 0 .. LatestIdx - 1 : Log[i + 1] = ram[i]
<1>1. CASE ~(RamDebugSig /\ LatestIdx <= Size)
  BY <1>1 DEF Log
<1>2. CASE RamDebugSig /\ LatestIdx <= Size
  <2>1. LatestIdx \in Nat /\ Size \in Nat
    BY RamDebugAssumption DEF TypeOK
  <2>2. \A n \in 1 .. LatestIdx : ram[n - 1] \in Byte
    BY <1>2, <2>1 DEF TypeOK, Byte, Bytes
  <2>3. Log = [n \in 1 .. LatestIdx |-> ram[n - 1]]
    BY <1>2 DEF Log
  <2>4. Log \in Seq(Byte) /\ Len(Log) = LatestIdx
    BY <2>1, <2>2, <2>3
  <2>5. \A i \in 0 .. LatestIdx - 1 : Log[i + 1] = ram[i]
    BY <2>1, <2>3
  <2> QED BY <2>4, <2>5
<1> QED BY <1>1, <1>2

\* Only the clean-up for a message that fits comes to its end.
LEMMA FitsBehindWalk ==
  ASSUME TypeOK, StepInv, pc \in {"move", "fill", "copy"}
  PROVE  TempBufferSize <= Size
<1>1. Len(Buffer) \in Nat /\ Size \in Nat /\ LatestIndex \in Nat /\ RecordOffset \in Nat
  BY BufferLength, RamDebugAssumption DEF TypeOK
<1> QED BY <1>1 DEF StepInv, TempBufferSize

LEMMA TextStart ==
  ASSUME LogInv, RamDebugPrint \/ InitSteps
  PROVE  TextInv'
<1>1. TypeOK /\ StepInv /\ TextInv
  BY DEF LogInv, RecordsInv, TypeInv
<1>2. pc' \notin Working /\ torn' = torn
  BY <1>1 DEF RamDebugPrint, InitSteps, InitSignature, InitIndex, InitByte, InitDone,
     ReadOnlyMemory, Return, Working
<1>3. CASE RamDebugPrint
  <2>1. saved' = Log /\ Log' = Log
    BY <1>3 DEF RamDebugPrint, Log, header
  <2>2. pc' = "header" => Log = << >>
    BY <1>3 DEF RamDebugPrint, Log
  <2>3. pc' \in {"header", "start"}
    BY <1>3 DEF RamDebugPrint
  <2> QED BY <1>2, <2>1, <2>2, <2>3 DEF TextInv, Working
<1>4. CASE InitSignature
  <2>1. pc = "header" /\ pc' = "index" /\ saved' = saved
    BY <1>4 DEF InitSignature, locals
  <2> QED BY <1>1, <1>2, <2>1 DEF TextInv, Working
<1>5. CASE InitIndex \/ InitByte \/ InitDone
  <2>1. pc \in {"index", "default"} /\ saved' = saved /\ LatestIdx' = 0
        /\ pc' \in {"default", "start"}
    BY <1>1, <1>5 DEF InitIndex, InitByte, InitDone, StepInv, locals, header
  <2>2. Log' = << >>
    BY <2>1 DEF Log
  <2> QED BY <1>1, <1>2, <2>1, <2>2 DEF TextInv, Working
<1>6. CASE ReadOnlyMemory
  <2>1. pc' = "idle"
    BY <1>6 DEF ReadOnlyMemory, Return
  <2> QED BY <2>1 DEF TextInv, Working
<1> QED BY <1>3, <1>4, <1>5, <1>6 DEF InitSteps

LEMMA TextRead == LogInv /\ ReadLatestIndex => TextInv'
<1> SUFFICES ASSUME LogInv, ReadLatestIndex, ~torn PROVE TextInv'
  BY DEF TextInv, ReadLatestIndex
<1>1. TypeOK /\ StepInv /\ TextInv
  BY DEF LogInv, RecordsInv, TypeInv
<1>2. /\ pc = "start" /\ pc' \in {"walk", "copy", "outside"} /\ LatestIndex' = LatestIdx
      /\ UNCHANGED <<RamDebugSig, LatestIdx, ram, Buffer, RecordOffset, Index, saved, torn>>
  BY DEF ReadLatestIndex, header
<1>3. RamDebugSig /\ LatestIdx <= Size /\ LatestIdx \in Nat /\ RecordOffset = 0 /\ Index = 0
      /\ saved = Log
  BY <1>1, <1>2 DEF TypeOK, StepInv, TextInv
<1>4. Log' = Log
  BY <1>2 DEF Log
<1>5. saved \in Seq(Byte) /\ Len(saved) = LatestIdx
      /\ \A i \in 0 .. LatestIdx - 1 : saved[i + 1] = ram[i]
  BY <1>1, <1>3, LogType
<1>6. CutInv'
  BY <1>2, <1>3 DEF CutInv, Cut
<1>7. pc' = "copy" => /\ LatestIndex' = LatestIdx' - RecordOffset'
                      /\ \A i \in 0 .. LatestIndex' - 1 : ram'[i] = saved'[RecordOffset' + i + 1]
                      /\ \A i \in 0 .. Index' - 1 : ram'[LatestIndex' + i] = StoredByte(i)'
  BY <1>2, <1>3, <1>5
<1> QED BY <1>2, <1>3, <1>4, <1>5, <1>6, <1>7 DEF TextInv

\* The next record that is pushed out ends at the next cut.
LEMMA TextWalk ==
  ASSUME LogInv, RamDebugGetRecordSize, TempBufferSize <= Size
  PROVE  TextInv'
<1> SUFFICES ASSUME ~torn PROVE TextInv'
  BY DEF TextInv, RamDebugGetRecordSize
<1>1. TypeOK /\ StepInv /\ TextInv /\ AreaInv /\ Len(Buffer) \in Nat /\ Size \in Nat
  BY BufferLength, RamDebugAssumption DEF LogInv, RecordsInv, TypeInv
<1>2. /\ pc = "walk" /\ WalkOn
      /\ UNCHANGED <<RamDebugSig, LatestIdx, ram, Buffer, LatestIndex, Index, saved, torn>>
  BY DEF RamDebugGetRecordSize, header
<1>3. EndsAhead # {} /\ Min(EndsAhead) < LatestIndex /\ LatestIndex = LatestIdx
  BY <1>1, <1>2, RecordFound DEF LogInv, AreaInv
<1>4. /\ Min(EndsAhead) \in EndsAhead /\ Min(EndsAhead) \in Nat
      /\ Min(EndsAhead) >= RecordOffset
      /\ \A e \in EndsAhead : Min(EndsAhead) <= e
  <2>1. EndsAhead \subseteq Nat
    BY <1>1 DEF EndsAhead, Bytes
  <2> QED BY <1>1, <1>3, <2>1, MinIsLeast, EndsAheadType
<1>5. RecordOffset' = Min(EndsAhead) + 1 /\ pc' = "walk"
  BY <1>2, <1>3 DEF RamDebugGetRecordSize
<1>6. /\ saved = Log /\ saved \in Seq(Byte) /\ Len(saved) = LatestIdx /\ CutInv
      /\ RamDebugSig /\ LatestIdx <= Size /\ LatestIdx \in Nat /\ RecordOffset \in Nat
  BY <1>1, <1>2, <1>3 DEF TextInv, StepInv, TypeOK, Working
<1>7. \A i \in 0 .. LatestIdx - 1 : saved[i + 1] = ram[i]
  BY <1>1, <1>6, LogType
<1>8. Cut(RecordOffset') /\ RecordOffset' <= LatestIdx
  <2>1. Min(EndsAhead) \in 0 .. LatestIdx - 1 /\ ram[Min(EndsAhead)] = EndFlag
    BY <1>3, <1>4, <1>6 DEF EndsAhead
  <2> QED BY <1>5, <1>6, <1>7, <2>1 DEF Cut
<1>9. ASSUME NEW j \in 0 .. LatestIdx, Cut(j), j < RecordOffset'
      PROVE  ~LeavesRoom(j)
  <2>1. CASE j < RecordOffset
    BY <1>6, <1>9, <2>1 DEF CutInv
  <2>2. CASE j = RecordOffset
    BY <1>1, <1>2, <1>3, <1>6, <2>2 DEF WalkOn, RemainedSize, TempBufferSize, LeavesRoom
  <2>3. CASE j > RecordOffset
    <3>1. j \in 1 .. LatestIdx /\ saved[j] = EndFlag /\ j - 1 \in 0 .. LatestIdx - 1
      BY <1>6, <1>9, <2>3 DEF Cut
    <3>2. ram[j - 1] = EndFlag
      BY <1>7, <3>1
    <3>3. j - 1 \in EndsAhead
      BY <1>1, <1>6, <2>3, <3>1, <3>2 DEF EndsAhead, Bytes
    <3>4. Min(EndsAhead) <= j - 1
      BY <1>4, <3>3
    <3> QED BY <1>4, <1>5, <1>9, <3>1, <3>4
  <2> QED BY <1>6, <2>1, <2>2, <2>3
<1>10. CutInv'
  BY <1>2, <1>8, <1>9 DEF CutInv, Cut, LeavesRoom
<1>11. Log' = Log
  BY <1>2 DEF Log
<1> QED BY <1>2, <1>5, <1>6, <1>10, <1>11 DEF TextInv

\* The walk for a message that does not fit never leaves room.
LEMMA TextWalkLong ==
  ASSUME LogInv, RamDebugGetRecordSize \/ WalkDone, TempBufferSize > Size
  PROVE  TextInv'
<1>1. TypeOK /\ StepInv /\ TextInv /\ Len(Buffer) \in Nat /\ Size \in Nat
  BY BufferLength, RamDebugAssumption DEF LogInv, RecordsInv, TypeInv
<1>2. /\ pc = "walk" /\ pc' \in {"walk", "move", "outside"}
      /\ (pc' = "move" => RecordOffset <= LatestIndex)
      /\ UNCHANGED <<RamDebugSig, LatestIdx, ram, Buffer, LatestIndex, saved, torn>>
  BY DEF RamDebugGetRecordSize, WalkDone, header
<1>3. pc' # "move"
  BY <1>1, <1>2 DEF RamDebugGetRecordSize, WalkDone, WalkOn, RemainedSize, TempBufferSize, TypeOK
<1>4. Log' = Log /\ TempBufferSize' = TempBufferSize
  BY <1>2 DEF Log, TempBufferSize
<1>5. ~ (TempBufferSize' <= Size)
  BY <1>1, <1>4 DEF TempBufferSize
<1> QED BY <1>1, <1>2, <1>3, <1>4, <1>5 DEF TextInv, Working

LEMMA TextWalkDone ==
  ASSUME LogInv, WalkDone, TempBufferSize <= Size
  PROVE  TextInv'
<1> SUFFICES ASSUME ~torn PROVE TextInv'
  BY DEF TextInv, WalkDone
<1>1. TypeOK /\ StepInv /\ TextInv /\ AreaInv
  BY DEF LogInv, RecordsInv, TypeInv
<1>2. /\ pc = "walk" /\ pc' \in {"move", "outside"} /\ Index' = 0
      /\ UNCHANGED <<RamDebugSig, LatestIdx, ram, Buffer, LatestIndex, RecordOffset, saved, torn>>
  BY DEF WalkDone, header
<1>3. /\ saved = Log /\ saved \in Seq(Byte) /\ Len(saved) = LatestIdx /\ CutInv
      /\ RamDebugSig /\ LatestIdx <= Size /\ LatestIdx \in Nat
  BY <1>1, <1>2 DEF TextInv, AreaInv, StepInv, TypeOK, Working
<1>4. \A i \in 0 .. LatestIdx - 1 : saved[i + 1] = ram[i]
  BY <1>1, <1>3, LogType
<1>5. CutInv'
  BY <1>2, <1>3 DEF CutInv, Cut, LeavesRoom
<1>6. \A i \in 0 .. LatestIdx - 1 : Moved(i)' = i
  BY <1>2, <1>3 DEF Moved
<1> QED BY <1>2, <1>3, <1>4, <1>5, <1>6 DEF TextInv

LEMMA TextMove ==
  ASSUME LogInv, MoveByte \/ MoveDone \/ FillByte \/ FillDone
  PROVE  TextInv'
<1> SUFFICES ASSUME ~torn PROVE TextInv'
  BY DEF TextInv, MoveByte, MoveDone, FillByte, FillDone
<1>1. /\ TypeOK /\ StepInv /\ TextInv /\ AreaInv
      /\ Size \in Nat /\ LatestIdx \in Nat /\ LatestIndex \in Nat /\ RecordOffset \in Nat
      /\ Index \in Nat /\ LatestIndex <= Size
      /\ ram \in [0 .. Size - 1 -> Byte]
  BY RamDebugAssumption DEF LogInv, RecordsInv, TypeInv, TypeOK, StepInv, Working, MoveByte,
     MoveDone, FillByte, FillDone, Byte, Bytes
<1>2. UNCHANGED <<RamDebugSig, LatestIdx, Buffer, RecordOffset, saved, torn>>
  BY DEF MoveByte, MoveDone, FillByte, FillDone, header
<1>3. pc \in {"move", "fill"} /\ saved \in Seq(Byte) /\ Len(saved) = LatestIdx /\ CutInv
  BY <1>1, FitsBehindWalk DEF TextInv, Working, MoveByte, MoveDone, FillByte, FillDone
<1>4. CutInv'
  BY <1>2, <1>3 DEF CutInv, Cut, LeavesRoom
<1>5. CASE MoveByte
  <2>1. /\ pc = "move" /\ pc' = "move" /\ Index < LatestIndex - RecordOffset
        /\ ram' = [ram EXCEPT ![Index] = ram[RecordOffset + Index]]
        /\ Index' = Index + 1 /\ LatestIndex' = LatestIndex
    BY <1>5 DEF MoveByte
  <2>2. LatestIndex = LatestIdx /\ RecordOffset > 0
        /\ \A i \in 0 .. LatestIdx - 1 : ram[i] = saved[Moved(i) + 1]
    BY <1>1, <2>1 DEF AreaInv, TextInv
  <2>3. RecordOffset + Index \in 0 .. LatestIdx - 1 /\ Moved(RecordOffset + Index) = RecordOffset + Index
    BY <1>1, <2>1, <2>2 DEF Moved
  <2>4. ASSUME NEW i \in 0 .. LatestIdx - 1
        PROVE  ram'[i] = saved[Moved(i)' + 1]
    <3>1. CASE i = Index
      <4>1. ram'[i] = ram[RecordOffset + Index]
        BY <1>1, <2>1, <2>2, <3>1
      <4>2. Moved(i)' = RecordOffset + Index
        BY <1>1, <1>2, <2>1, <3>1 DEF Moved
      <4> QED BY <2>2, <2>3, <4>1, <4>2
    <3>2. CASE i # Index
      <4>1. ram'[i] = ram[i]
        BY <1>1, <2>1, <2>2, <3>2
      <4>2. Moved(i)' = Moved(i)
        BY <1>1, <1>2, <2>1, <3>2 DEF Moved
      <4> QED BY <2>2, <4>1, <4>2
    <3> QED BY <3>1, <3>2
  <2> QED BY <1>2, <1>3, <1>4, <2>1, <2>4 DEF TextInv
<1>6. CASE MoveDone
  <2>1. /\ pc = "move" /\ pc' = "fill" /\ Index = LatestIndex - RecordOffset
        /\ LatestIndex' = LatestIndex - RecordOffset /\ ram' = ram
    BY <1>6 DEF MoveDone
  <2>2. LatestIndex = LatestIdx
        /\ \A i \in 0 .. LatestIdx - 1 : ram[i] = saved[Moved(i) + 1]
    BY <1>1, <2>1 DEF AreaInv, TextInv
  <2>3. \A i \in 0 .. LatestIndex' - 1 : i \in 0 .. LatestIdx - 1 /\ Moved(i) = RecordOffset + i
    BY <1>1, <2>1, <2>2 DEF Moved
  <2>4. \A i \in 0 .. LatestIndex' - 1 : ram'[i] = saved[RecordOffset + i + 1]
    BY <2>1, <2>2, <2>3
  <2> QED BY <1>2, <1>3, <1>4, <2>1, <2>2, <2>4 DEF TextInv
<1>7. CASE FillByte \/ FillDone
  <2>1. /\ pc = "fill" /\ pc' \in {"fill", "copy", "idle"} /\ LatestIndex' = LatestIndex
        /\ pc' = "copy" => Index' = 0
    BY <1>7 DEF FillByte, FillDone
  <2>2. LatestIndex = LatestIdx - RecordOffset
        /\ \A i \in 0 .. LatestIndex - 1 : ram[i] = saved[RecordOffset + i + 1]
    BY <1>1, <2>1 DEF TextInv
  <2>3. \A i \in 0 .. LatestIndex - 1 : ram'[i] = ram[i]
    BY <1>1, <1>7 DEF FillByte, FillDone
  <2>4. pc' = "copy" => \A i \in 0 .. Index' - 1 : ram'[LatestIndex' + i] = StoredByte(i)'
    BY <2>1
  <2> QED BY <1>2, <1>3, <1>4, <2>1, <2>2, <2>3, <2>4 DEF TextInv
<1> QED BY <1>5, <1>6, <1>7

LEMMA TextCopy ==
  ASSUME LogInv, CopyByte \/ UpdateLatestIndex \/ GoAstray \/ Reset \/ PowerLoss
  PROVE  TextInv'
<1>1. CASE UpdateLatestIndex \/ GoAstray \/ Reset \/ PowerLoss
  <2>1. pc' = "idle"
    BY <1>1 DEF UpdateLatestIndex, GoAstray, Reset, PowerLoss, Return
  <2> QED BY <2>1 DEF TextInv, Working
<1>2. CASE CopyByte /\ ~torn
  <2>1. /\ TypeOK /\ StepInv /\ TextInv
        /\ Size \in Nat /\ LatestIdx \in Nat /\ LatestIndex \in Nat /\ Index \in Nat
        /\ ram \in [0 .. Size - 1 -> Byte] /\ Len(Buffer) \in Nat
    BY RamDebugAssumption, BufferLength
       DEF LogInv, RecordsInv, TypeInv, TypeOK, Byte, Bytes
  <2>2. /\ pc = "copy" /\ pc' = "copy" /\ Index < TempBufferSize /\ Index' = Index + 1
        /\ ram' = [ram EXCEPT ![LatestIndex + Index] = StoredByte(Index)]
        /\ UNCHANGED <<RamDebugSig, LatestIdx, LatestIndex, RecordOffset, Buffer, saved, torn>>
    BY <1>2 DEF CopyByte, header
  <2>3. LatestIndex + Index \in 0 .. Size - 1
    BY <2>1, <2>2 DEF StepInv, TempBufferSize
  <2>4. /\ saved \in Seq(Byte) /\ Len(saved) = LatestIdx /\ CutInv
        /\ LatestIndex = LatestIdx - RecordOffset
        /\ \A i \in 0 .. LatestIndex - 1 : ram[i] = saved[RecordOffset + i + 1]
        /\ \A i \in 0 .. Index - 1 : ram[LatestIndex + i] = StoredByte(i)
    BY <1>2, <2>1, <2>2, FitsBehindWalk DEF TextInv, Working
  <2>5. \A i \in 0 .. LatestIndex - 1 : ram'[i] = ram[i]
    BY <2>1, <2>2, <2>3
  <2>6. \A i \in 0 .. Index' - 1 : ram'[LatestIndex + i] = StoredByte(i)
    BY <2>1, <2>2, <2>3, <2>4
  <2>7. CutInv' /\ \A i \in 0 .. Index' - 1 : StoredByte(i)' = StoredByte(i)
    BY <2>2, <2>4 DEF CutInv, Cut, LeavesRoom, StoredByte
  <2> QED BY <2>2, <2>4, <2>5, <2>6, <2>7 DEF TextInv
<1>3. CASE CopyByte /\ torn
  BY <1>3 DEF CopyByte, TextInv
<1> QED BY <1>1, <1>2, <1>3

LEMMA LogInit == Init => LogInv
  BY RecordsInit DEF Init, LogInv, TextInv, Working

LEMMA LogStep == LogInv /\ [Next]_vars => LogInv'
<1> SUFFICES ASSUME LogInv, [Next]_vars PROVE LogInv'
  OBVIOUS
<1>1. RecordsInv'
  BY RecordsStep DEF LogInv
<1>2. CASE RamDebugGetRecordSize \/ WalkDone
  <2>1. Len(Buffer) \in Nat /\ Size \in Nat
    BY BufferLength, RamDebugAssumption DEF LogInv, RecordsInv, TypeInv
  <2>2. TempBufferSize <= Size \/ TempBufferSize > Size
    BY <2>1 DEF TempBufferSize
  <2> QED BY <1>1, <1>2, <2>2, TextWalk, TextWalkDone, TextWalkLong DEF LogInv
<1>3. CASE Next /\ ~ (RamDebugGetRecordSize \/ WalkDone)
  BY <1>1, <1>3, TextStart, TextRead, TextMove, TextCopy DEF Next, CleanUpSteps, LogInv
<1>4. CASE UNCHANGED vars
  BY <1>1, <1>4 DEF LogInv, TextInv, CutInv, Cut, LeavesRoom, Moved, StoredByte, TempBufferSize,
     Log, vars, header, locals
<1> QED BY <1>2, <1>3, <1>4

(***************************************************************************)
(* The refinement: the step that stores the index adds the message to the  *)
(* log; every other step leaves the log as it is or loses it.              *)
(***************************************************************************)
AbstractLog == IF torn \/ pc = "outside" THEN << >> ELSE IF pc = "idle" THEN Log ELSE saved

\* What the area holds once the index is stored.
LEMMA MessageStored ==
  ASSUME LogInv, ~torn, UpdateLatestIndex
  PROVE  Log' = SubSeq(saved, RecordOffset + 1, Len(saved)) \o Buffer \o <<EndFlag>>
<1>1. /\ TypeOK /\ StepInv /\ TextInv /\ TypeOK'
      /\ Size \in Nat /\ LatestIdx \in Nat /\ LatestIndex \in Nat /\ RecordOffset \in Nat
      /\ Len(Buffer) \in Nat
  BY RamDebugAssumption, BufferLength, TypeCopy DEF LogInv, RecordsInv, TypeInv, TypeOK
<1>2. /\ pc = "copy" /\ Index = Len(Buffer) + 1
      /\ LatestIdx' = LatestIndex + Len(Buffer) + 1 /\ ram' = ram /\ RamDebugSig' = RamDebugSig
  BY <1>1 DEF UpdateLatestIndex, TempBufferSize
<1>3. RamDebugSig /\ LatestIdx' <= Size
  BY <1>1, <1>2 DEF StepInv, Working, TempBufferSize
<1>4. /\ saved \in Seq(Byte) /\ Len(saved) = LatestIdx /\ RecordOffset <= LatestIdx
      /\ LatestIndex = LatestIdx - RecordOffset
      /\ \A i \in 0 .. LatestIndex - 1 : ram[i] = saved[RecordOffset + i + 1]
      /\ \A i \in 0 .. Len(Buffer) : ram[LatestIndex + i] = StoredByte(i)
  BY <1>1, <1>2, FitsBehindWalk DEF TextInv, CutInv, Working
<1> DEFINE rest == SubSeq(saved, RecordOffset + 1, Len(saved))
           text == rest \o Buffer \o <<EndFlag>>
<1>5. Buffer \in Seq(Byte) /\ <<EndFlag>> \in Seq(Byte)
  <2>1. PICK m \in 0 .. MaxLength : Buffer \in [1 .. m -> Chars]
    BY <1>1 DEF TypeOK, Messages, SeqOf
  <2> QED BY <2>1, RamDebugAssumption DEF Byte
<1>6. /\ rest \in Seq(Byte) /\ Len(rest) = LatestIndex
      /\ \A i \in 1 .. LatestIndex : rest[i] = saved[RecordOffset + i]
  <2>1. \A i \in RecordOffset + 1 .. LatestIdx : saved[i] \in Byte
    BY <1>1, <1>4
  <2>2. /\ rest \in Seq(Byte)
        /\ Len(rest) = IF RecordOffset + 1 <= LatestIdx THEN LatestIdx - (RecordOffset + 1) + 1 ELSE 0
        /\ \A i \in 1 .. LatestIdx - (RecordOffset + 1) + 1 : rest[i] = saved[RecordOffset + 1 + i - 1]
    BY <1>1, <1>4, <2>1, SubSeqProperties
  <2> HIDE DEF rest
  <2>3. Len(rest) = LatestIndex
    BY <1>1, <1>4, <2>2
  <2>4. ASSUME NEW i \in 1 .. LatestIndex
        PROVE  rest[i] = saved[RecordOffset + i]
    <3>1. i \in 1 .. LatestIdx - (RecordOffset + 1) + 1 /\ RecordOffset + 1 + i - 1 = RecordOffset + i
      BY <1>1, <1>4
    <3> QED BY <2>2, <3>1
  <2> QED BY <2>2, <2>3, <2>4
<1> HIDE DEF rest
<1>7. /\ rest \o Buffer \in Seq(Byte) /\ Len(rest \o Buffer) = LatestIndex + Len(Buffer)
      /\ \A i \in 1 .. LatestIndex + Len(Buffer) :
           (rest \o Buffer)[i] = IF i <= LatestIndex THEN rest[i] ELSE Buffer[i - LatestIndex]
  BY <1>5, <1>6, ConcatProperties
<1>8. /\ text \in Seq(Byte) /\ Len(text) = LatestIndex + Len(Buffer) + 1
      /\ \A i \in 1 .. LatestIndex + Len(Buffer) + 1 :
           text[i] = IF i <= LatestIndex + Len(Buffer) THEN (rest \o Buffer)[i] ELSE EndFlag
  <2>1. Len(<<EndFlag>>) = 1 /\ <<EndFlag>>[1] = EndFlag
    OBVIOUS
  <2>2. /\ text \in Seq(Byte) /\ Len(text) = LatestIndex + Len(Buffer) + 1
        /\ \A i \in 1 .. LatestIndex + Len(Buffer) + 1 :
             text[i] = IF i <= LatestIndex + Len(Buffer) THEN (rest \o Buffer)[i]
                       ELSE <<EndFlag>>[i - (LatestIndex + Len(Buffer))]
    BY <1>5, <1>7, <2>1, ConcatProperties
  <2> QED BY <1>1, <2>1, <2>2
<1> HIDE DEF text
<1>9. /\ Log' \in Seq(Byte) /\ Len(Log') = LatestIndex + Len(Buffer) + 1
      /\ \A i \in 0 .. LatestIdx' - 1 : Log'[i + 1] = ram'[i]
  <2>1. Log' = [n \in 1 .. LatestIdx' |-> ram'[n - 1]]
    BY <1>2, <1>3 DEF Log
  <2>2. LatestIdx' \in Nat /\ \A n \in 1 .. LatestIdx' : ram'[n - 1] \in Byte
    BY <1>1, <1>2, <1>3 DEF TypeOK, Byte, Bytes
  <2> QED BY <1>2, <2>1, <2>2
<1>10. ASSUME NEW i \in 1 .. LatestIndex + Len(Buffer) + 1
       PROVE  Log'[i] = text[i]
  <2>1. i - 1 \in 0 .. LatestIdx' - 1 /\ (i - 1) + 1 = i
    BY <1>1, <1>2
  <2>2. Log'[i] = ram[i - 1]
    BY <1>2, <1>9, <2>1
  <2>3. CASE i <= LatestIndex
    <3>1. i - 1 \in 0 .. LatestIndex - 1 /\ RecordOffset + (i - 1) + 1 = RecordOffset + i
          /\ i \in 1 .. LatestIndex
      BY <1>1, <2>3
    <3>2. ram[i - 1] = saved[RecordOffset + i]
      BY <1>4, <3>1
    <3>3. text[i] = rest[i]
      BY <1>1, <1>7, <1>8, <2>3
    <3> QED BY <1>6, <2>2, <3>1, <3>2, <3>3
  <2>4. CASE i > LatestIndex
    <3> DEFINE j == i - 1 - LatestIndex
    <3>1. j \in 0 .. Len(Buffer) /\ LatestIndex + j = i - 1 /\ i - LatestIndex = j + 1
      BY <1>1, <2>4
    <3> HIDE DEF j
    <3>2. ram[i - 1] = StoredByte(j)
      BY <1>4, <3>1
    <3>3. text[i] = IF j < Len(Buffer) THEN Buffer[j + 1] ELSE EndFlag
      BY <1>1, <1>7, <1>8, <2>4, <3>1
    <3> QED BY <2>2, <3>2, <3>3 DEF StoredByte
  <2> QED BY <1>1, <2>3, <2>4
<1>11. Log' = text
  BY <1>8, <1>9, <1>10, SeqEqual
<1> QED BY <1>11 DEF text, rest

LEMMA AddsMessage ==
  ASSUME LogInv, ~torn, UpdateLatestIndex
  PROVE  \E r \in Messages : Recent!Add(r)
<1>1. /\ TypeOK /\ StepInv /\ TextInv
      /\ Size \in Nat /\ LatestIdx \in Nat /\ RecordOffset \in Nat /\ LatestIndex \in Nat
      /\ Len(Buffer) \in Nat
  BY RamDebugAssumption, BufferLength DEF LogInv, RecordsInv, TypeInv, TypeOK
<1>2. pc = "copy" /\ pc' = "idle" /\ torn' = FALSE
  BY DEF UpdateLatestIndex, Return
<1>3. AbstractLog = saved /\ AbstractLog' = Log'
  BY <1>2 DEF AbstractLog
<1>4. Len(saved) = LatestIdx /\ CutInv /\ LatestIndex = LatestIdx - RecordOffset
  BY <1>1, <1>2, FitsBehindWalk DEF TextInv, Working
<1>5. LeavesRoom(RecordOffset)
  BY <1>1, <1>2, <1>4 DEF LeavesRoom, StepInv, TempBufferSize
<1>6. \A k \in 0 .. LatestIdx : Cut(k) <=> k \in {0} \cup {i \in 1 .. Len(saved) : saved[i] = EndFlag}
  BY <1>1, <1>4 DEF Cut
<1>7. RecordOffset \in 0 .. Len(saved) /\ Recent!Needed(RecordOffset, Buffer)
  <2>1. RecordOffset \in {0} \cup {i \in 1 .. Len(saved) : saved[i] = EndFlag}
    BY <1>1, <1>4, <1>6 DEF CutInv
  <2>2. \A j \in {0} \cup {i \in 1 .. Len(saved) : saved[i] = EndFlag} :
          j \in 0 .. LatestIdx /\ (j < RecordOffset => ~LeavesRoom(j))
    BY <1>1, <1>4, <1>6 DEF CutInv
  <2> QED BY <1>1, <1>3, <1>4, <1>5, <2>1, <2>2
          DEF Recent!Needed, Recent!Cuts, Recent!Fits, LeavesRoom, AbstractLog
<1>8. Recent!Add(Buffer)
  BY <1>3, <1>7, MessageStored DEF Recent!Add, Recent!Rest, AbstractLog
<1> QED BY <1>1, <1>8 DEF TypeOK

\* A reset leaves the log as it was, or tears it.
LEMMA ResetKeepsLog == LogInv /\ Reset => AbstractLog' = AbstractLog \/ AbstractLog' = << >>
<1> SUFFICES ASSUME LogInv, Reset, ~torn, ~Torn PROVE AbstractLog' = AbstractLog
  BY DEF Reset, AbstractLog
<1>1. TypeOK /\ StepInv /\ TextInv
  BY DEF LogInv, RecordsInv, TypeInv
<1>2. /\ pc \notin {"idle", "outside"} /\ pc' = "idle" /\ torn' = FALSE
      /\ AbstractLog = saved /\ AbstractLog' = Log /\ TRUE
  BY DEF Reset, Return, AbstractLog, Log, header
<1>3. CASE pc = "header"
  BY <1>1, <1>2, <1>3 DEF TextInv, StepInv, Log
<1>4. CASE pc \in {"start", "walk"}
  BY <1>1, <1>2, <1>4 DEF TextInv
<1>5. CASE pc \in {"move", "copy"}
  <2>1. /\ RamDebugSig /\ LatestIdx <= Size /\ LatestIdx \in Nat
        /\ saved \in Seq(Byte) /\ Len(saved) = LatestIdx
    BY <1>1, <1>5 DEF TextInv, StepInv, TypeOK, Working
  <2>2. \A i \in 0 .. LatestIdx - 1 : ram[i] = saved[i + 1]
    <3>1. CASE pc = "move"
      <4>1. Index = 0
        BY <1>1, <3>1 DEF Torn, TypeOK
      <4> QED BY <1>1, <3>1, <4>1 DEF TextInv, Moved
    <3>2. CASE pc = "copy"
      <4>1. LatestIndex = LatestIdx /\ RecordOffset = 0
        BY <1>1, <2>1, <3>2 DEF Torn, TextInv, TypeOK
      <4> QED BY <1>1, <3>2, <4>1 DEF TextInv
    <3> QED BY <1>5, <3>1, <3>2
  <2>3. Log \in Seq(Byte) /\ Len(Log) = LatestIdx
        /\ \A i \in 0 .. LatestIdx - 1 : Log[i + 1] = ram[i]
    BY <1>1, <2>1, LogType
  <2>4. \A i \in 1 .. LatestIdx : Log[i] = saved[i]
    <3> SUFFICES ASSUME NEW i \in 1 .. LatestIdx PROVE Log[i] = saved[i]
      OBVIOUS
    <3>1. i - 1 \in 0 .. LatestIdx - 1 /\ (i - 1) + 1 = i
      BY <2>1
    <3> QED BY <2>2, <2>3, <3>1
  <2> QED BY <1>2, <2>1, <2>3, <2>4, SeqEqual
<1>6. CASE pc = "default"
  <2>1. LatestIdx = 0 /\ saved = << >>
    BY <1>1, <1>6 DEF TextInv, StepInv
  <2> QED BY <1>2, <2>1 DEF Log
<1> QED BY <1>1, <1>2, <1>3, <1>4, <1>5, <1>6 DEF TypeOK, Torn

LEMMA RefinesStep ==
  ASSUME LogInv, LogInv', [Next]_vars
  PROVE  [Recent!Next]_AbstractLog
<1>1. TypeOK /\ StepInv /\ TextInv /\ CleanUpStaysInRecords
  BY DEF LogInv, RecordsInv, TypeInv
<1>2. AbstractLog' = << >> => Recent!Next
  BY DEF Recent!Next, Recent!Lose, AbstractLog
<1>3. CASE UNCHANGED vars
  BY <1>3 DEF AbstractLog, Log, vars, header, locals
<1>4. CASE RamDebugPrint
  BY <1>4 DEF RamDebugPrint, AbstractLog, Log, header
<1>5. CASE ReadOnlyMemory
  BY <1>1, <1>5 DEF ReadOnlyMemory, Return, AbstractLog, Log, TextInv, StepInv, header
<1>6. CASE InitSignature \/ InitIndex \/ InitByte \/ InitDone \/ ReadLatestIndex
           \/ RamDebugGetRecordSize \/ WalkDone
           \/ MoveByte \/ MoveDone \/ FillByte \/ CopyByte
  BY <1>2, <1>6 DEF InitSignature, InitIndex, InitByte, InitDone, ReadLatestIndex, RamDebugGetRecordSize, WalkDone,
     MoveByte, MoveDone, FillByte, CopyByte, AbstractLog, locals
<1>7. CASE FillDone
  <2>1. pc' = "copy"
    BY <1>1, <1>7, RamDebugAssumption, BufferLength
       DEF FillDone, Exceeds, TempBufferSize, TypeOK, StepInv
  <2> QED BY <1>7, <2>1 DEF FillDone, AbstractLog
<1>8. CASE UpdateLatestIndex
  <2>1. CASE torn
    BY <1>8, <2>1 DEF UpdateLatestIndex, AbstractLog
  <2>2. CASE ~torn
    BY <1>8, <2>2, AddsMessage DEF Recent!Next
  <2> QED BY <2>1, <2>2
<1>9. CASE Reset
  BY <1>2, <1>9, ResetKeepsLog
<1>10. CASE PowerLoss \/ GoAstray
  <2>1. AbstractLog' = << >>
    BY <1>10 DEF PowerLoss, GoAstray, Return, AbstractLog, Log
  <2> QED BY <1>2, <2>1
<1> QED BY <1>3, <1>4, <1>5, <1>6, <1>7, <1>8, <1>9, <1>10 DEF Next, InitSteps, CleanUpSteps

(* RamDebugPrint() makes the area a log of the most recent messages, with  *)
(* resets and losses of power in any step, for an area of any size and any *)
(* messages that the code admits: a message is added whole, the oldest     *)
(* ones make room for it and no more of them than needed, and the others   *)
(* stay as they are - until a reset, or the clean-up for a message as long *)
(* as the area, tears the area.                                            *)
THEOREM AreaIsRecentLog == Spec => KeepsRecentMessages
<1>1. LogInv /\ [Next]_vars => LogInv'
  BY LogStep
<1>2. LogInv /\ LogInv' /\ [Next]_vars => [Recent!Next]_AbstractLog
  BY RefinesStep
<1>3. Init => Recent!Init
  BY DEF Init, Recent!Init, Log
<1>4. Init => LogInv
  BY LogInit
<1> QED BY <1>1, <1>2, <1>3, <1>4, PTL DEF Spec, KeepsRecentMessages, Recent!Spec, AbstractLog
==============================================================================
