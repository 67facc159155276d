-------------------------- MODULE FlashUpdateProofs --------------------------
(***************************************************************************)
(* Proofs about FlashUpdate for a flash of any size: the types, that an    *)
(* update which succeeds has programmed every block and one that stops has *)
(* lost at most one, and that its progress never goes back.  The inductive *)
(* invariant adds to these properties what the cache holds at each step.   *)
(***************************************************************************)
EXTENDS FlashUpdate, TLAPS

(* The percentage of a part of the blocks lies within the caller's range.  *)
LEMMA Share ==
  ASSUME NEW a \in Nat, NEW b \in Nat, NEW c \in Nat \ {0}, a <= c
  PROVE  (a * b) \div c \in 0 .. b
<1> DEFINE q == (a * b) \div c
<1>1. a * b \in Nat /\ a * b <= c * b
  OBVIOUS
<1>2. q \in Int /\ c * q <= a * b /\ a * b < c * q + c
  BY <1>1
<1>3. q >= 0
  BY <1>1, <1>2
<1>4. q <= b
  <2>1. SUFFICES ASSUME q >= b + 1 PROVE FALSE
    BY <1>2
  <2>2. c * q >= c * (b + 1)
    BY <1>2, <2>1
  <2>3. c * (b + 1) = c * b + c
    OBVIOUS
  <2> QED BY <1>1, <1>2, <2>2, <2>3
<1> QED BY <1>2, <1>3, <1>4

LEMMA PercentageType ==
  ASSUME TypeOK, Index < CountOfBlocks
  PROVE  Percentage \in StartPercentage .. EndPercentage
<1>1. EndPercentage - StartPercentage \in Nat
  BY FlashAssumption
<1>2. CountOfBlocks \in Nat \ {0} /\ Index \in Nat /\ Index <= CountOfBlocks
  BY DEF TypeOK
<1>3. (Index * (EndPercentage - StartPercentage)) \div CountOfBlocks
        \in 0 .. EndPercentage - StartPercentage
  BY <1>1, <1>2, Share
<1> QED BY <1>3, FlashAssumption DEF Percentage

(* The block that an update works on is a block of the flash and of the    *)
(* image.                                                                  *)
LEMMA AddressType ==
  ASSUME TypeOK, Index < CountOfBlocks
  PROVE  Address \in Target /\ Address \in Blocks /\ Buf \in Data
<1>1. Address \in Target
  BY DEF TypeOK, Address, Target
<1> QED BY <1>1 DEF TypeOK, Buf

(* What a read returns is a content, and so is what the cache holds.       *)
LEMMA FillLineType ==
  ASSUME TypeOK, NEW b \in Blocks, FillLine(b)
  PROVE  /\ Seen(b) \in Contents
         /\ cached' \in [Blocks -> Contents \cup {NoLine}]
<1>1. Seen(b) \in Contents
  BY DEF TypeOK, Seen
<1> QED BY <1>1 DEF TypeOK, FillLine

LEMMA TypeInit == Init => TypeOK
<1> SUFFICES ASSUME Init PROVE TypeOK
  OBVIOUS
<1>1. Target = {}
  BY DEF Init, Target
<1>2. image \in [Target -> Data]
  BY <1>1 DEF Init
<1>3. flash \in [Blocks -> Contents] /\ before \in [Blocks -> Contents]
  BY DEF Init, Contents
<1>4. cached \in [Blocks -> Contents \cup {NoLine}]
  BY DEF Init
<1>5. progress \in StartPercentage .. EndPercentage
  BY FlashAssumption DEF Init
<1>6. Target \subseteq Blocks /\ Index \in 0 .. CountOfBlocks
  BY <1>1 DEF Init
<1> QED BY <1>2, <1>3, <1>4, <1>5, <1>6 DEF Init, TypeOK

LEMMA RangeInFlash ==
  ASSUME NEW n \in Nat, NEW f \in 0 .. n - 1, NEW c \in 0 .. n - f
  PROVE  f \in Nat /\ c \in Nat /\ f .. f + c - 1 \subseteq 0 .. n - 1
  OBVIOUS

LEMMA TypeStart == TypeOK /\ PerformFlashWrite => TypeOK'
<1> SUFFICES ASSUME TypeOK, PerformFlashWrite PROVE TypeOK'
  OBVIOUS
<1>1. first' \in 0 .. NumBlocks - 1 /\ CountOfBlocks' \in 0 .. NumBlocks - first'
  BY DEF PerformFlashWrite, Blocks
<1>2. first' \in Nat /\ CountOfBlocks' \in Nat /\ Target' \subseteq Blocks
  BY <1>1, FlashAssumption, RangeInFlash DEF Target, Blocks
<1>3. image' \in [Target' -> Data]
  BY DEF PerformFlashWrite, Target
<1>4. progress' \in StartPercentage .. EndPercentage
  BY FlashAssumption DEF PerformFlashWrite
<1>5. Index' \in 0 .. CountOfBlocks'
  BY <1>2 DEF PerformFlashWrite
<1> QED BY <1>2, <1>3, <1>4, <1>5 DEF TypeOK, PerformFlashWrite, memory

(* Every exit from an update keeps the types.                              *)
LEMMA TypeReturn ==
  ASSUME TypeOK, NEW status \in {"SUCCESS", "DEVICE_ERROR", "VOLUME_CORRUPTED",
                                 "OUT_OF_RESOURCES"},
         Return(status),
         flash' \in [Blocks -> Contents], cached' \in [Blocks -> Contents \cup {NoLine}]
  PROVE  TypeOK'
<1>1. progress' \in StartPercentage .. EndPercentage
  BY FlashAssumption DEF Return
<1>2. Target' = Target
  BY DEF Return, call, Target
<1> QED BY <1>1, <1>2 DEF TypeOK, Return, call

LEMMA TypeBlock ==
  TypeOK /\ (SkipBlock \/ BlockDiffers \/ CompareFails \/ VerifyBlock) => TypeOK'
<1> SUFFICES ASSUME TypeOK, SkipBlock \/ BlockDiffers \/ CompareFails \/ VerifyBlock
             PROVE  TypeOK'
  OBVIOUS
<1>1. Index < CountOfBlocks
  BY DEF SkipBlock, BlockDiffers, CompareFails, VerifyBlock, MoreBlocks, TypeOK
<1>2. Percentage \in StartPercentage .. EndPercentage
  BY <1>1, PercentageType
<1>3. Target' = Target
  BY DEF SkipBlock, BlockDiffers, CompareFails, VerifyBlock, NextBlock, call, Target
<1>4. Address \in Blocks
  BY <1>1, AddressType
<1>5. cached' \in [Blocks -> Contents \cup {NoLine}]
  <2>1. CASE FillLine(Address)
    BY <1>4, <2>1, FillLineType
  <2>2. CASE CompareFails
    BY <2>2 DEF CompareFails, memory, TypeOK
  <2> QED BY <2>1, <2>2 DEF SkipBlock, BlockDiffers, VerifyBlock
<1>6. Index' \in 0 .. CountOfBlocks
  BY <1>1 DEF SkipBlock, BlockDiffers, CompareFails, VerifyBlock, NextBlock, TypeOK
<1>7. CASE SkipBlock
  BY <1>2, <1>3, <1>5, <1>6, <1>7 DEF TypeOK, SkipBlock, Report, NextBlock, call, MoreBlocks
<1>8. CASE BlockDiffers
  BY <1>1, <1>2, <1>3, <1>5, <1>6, <1>8 DEF TypeOK, BlockDiffers, Report, call, MoreBlocks
<1>9. CASE CompareFails
  BY <1>1, <1>2, <1>3, <1>5, <1>6, <1>9
     DEF TypeOK, CompareFails, Report, call, memory, MoreBlocks
<1>10. CASE VerifyBlock
  BY <1>3, <1>5, <1>6, <1>10 DEF TypeOK, VerifyBlock, NextBlock, call
<1> QED BY <1>7, <1>8, <1>9, <1>10

LEMMA TypeFlash ==
  TypeOK /\ (InternalEraseBlock \/ WriteBlock) => TypeOK'
<1> SUFFICES ASSUME TypeOK, InternalEraseBlock \/ WriteBlock PROVE TypeOK'
  OBVIOUS
<1>1. Index < CountOfBlocks
  BY DEF InternalEraseBlock, WriteBlock, TypeOK
<1>2. Address \in Blocks /\ Buf \in Data
  BY <1>1, AddressType
<1>3. flash' \in [Blocks -> Contents]
  BY <1>2 DEF TypeOK, InternalEraseBlock, WriteBlock, Programmed, Contents
<1>4. cached' \in [Blocks -> Contents \cup {NoLine}]
  BY <1>2 DEF TypeOK, InternalEraseBlock, WriteBlock, Invalidate
<1>5. Target' = Target
  BY DEF InternalEraseBlock, WriteBlock, call, Target
<1> QED BY <1>1, <1>3, <1>4, <1>5 DEF TypeOK, InternalEraseBlock, WriteBlock, call

LEMMA TypeFails ==
  TypeOK /\ (EraseFails \/ WriteFails \/ VerifyFails \/ VerifyOutOfResources \/ Finish)
    => TypeOK'
<1> SUFFICES ASSUME TypeOK,
                    EraseFails \/ WriteFails \/ VerifyFails \/ VerifyOutOfResources \/ Finish
             PROVE  TypeOK'
  OBVIOUS
<1>1. CASE EraseFails \/ WriteFails
  <2>1. Address \in Blocks /\ Buf \in Data
    BY <1>1, AddressType DEF EraseFails, WriteFails, TypeOK
  <2>2. flash' \in [Blocks -> Contents]
    BY <1>1, <2>1 DEF TypeOK, EraseFails, WriteFails, Programmed, Contents
  <2>3. cached' \in [Blocks -> Contents \cup {NoLine}]
    BY <1>1 DEF TypeOK, EraseFails, WriteFails
  <2> QED BY <1>1, <2>2, <2>3, TypeReturn DEF EraseFails, WriteFails
<1>2. CASE VerifyFails
  <2>1. Address \in Blocks
    BY <1>2, AddressType DEF VerifyFails, TypeOK
  <2>2. cached' \in [Blocks -> Contents \cup {NoLine}]
    BY <1>2, <2>1, FillLineType DEF VerifyFails
  <2> QED BY <1>2, <2>2, TypeReturn DEF VerifyFails, TypeOK
<1>3. CASE VerifyOutOfResources
  BY <1>3, TypeReturn DEF VerifyOutOfResources, memory, TypeOK
<1>4. CASE Finish
  BY <1>4, TypeReturn DEF Finish, memory, TypeOK
<1> QED BY <1>1, <1>2, <1>3, <1>4

LEMMA TypePlatform == TypeOK /\ (Evict \/ Prefetch \/ PowerCut) => TypeOK'
<1> SUFFICES ASSUME TypeOK, Evict \/ Prefetch \/ PowerCut PROVE TypeOK'
  OBVIOUS
<1>1. Target' = Target
  BY DEF Evict, Prefetch, PowerCut, call, Target
<1>2. CASE Evict
  <2>1. cached' \in [Blocks -> Contents \cup {NoLine}]
    BY <1>2 DEF Evict, TypeOK
  <2> QED BY <1>1, <1>2, <2>1 DEF TypeOK, Evict, call
<1>3. CASE Prefetch
  <2>1. cached' \in [Blocks -> Contents \cup {NoLine}]
    BY <1>3, FillLineType DEF Prefetch
  <2> QED BY <1>1, <1>3, <2>1 DEF TypeOK, Prefetch, call
<1>4. CASE PowerCut
  <2>1. flash' \in [Blocks -> Contents]
    <3>1. CASE pc \in {"erase", "write"}
      <4>1. Address \in Blocks
        BY <3>1, AddressType DEF TypeOK
      <4> QED BY <1>4, <3>1, <4>1 DEF PowerCut, TypeOK, Contents
    <3> QED BY <1>4, <3>1 DEF PowerCut, TypeOK
  <2>2. progress' \in StartPercentage .. EndPercentage
    BY <1>4, FlashAssumption DEF PowerCut
  <2> QED BY <1>1, <1>4, <2>1, <2>2 DEF TypeOK, PowerCut, call, Contents
<1> QED BY <1>2, <1>3, <1>4

LEMMA TypeStep == TypeOK /\ [Next]_vars => TypeOK'
<1> SUFFICES ASSUME TypeOK, [Next]_vars PROVE TypeOK'
  OBVIOUS
<1>1. CASE Next
  BY <1>1, TypeStart, TypeBlock, TypeFlash, TypeFails, TypePlatform DEF Next
<1>2. CASE UNCHANGED vars
  <2>1. Target' = Target
    BY <1>2 DEF vars, call, Target
  <2> QED BY <1>2, <2>1 DEF TypeOK, vars, call, memory
<1> QED BY <1>1, <1>2

(* The variables of an update keep their types, and every way out of it    *)
(* restores the priority of the caller of PerformFlashWrite().             *)
THEOREM TypeCorrect == Spec => []TypeOK
  BY TypeInit, TypeStep, PTL DEF Spec

----------------------------------------------------------------------------
(* What the cache may hold.  A block is clean when a read returns what the *)
(* flash holds.  While no earlier update failed every block is clean but   *)
(* the one that is being erased and written; a block is clean when it is   *)
(* compared after the write, in any case.                                  *)
Clean(b) == cached[b] = NoLine \/ cached[b] = flash[b]

CacheInv ==
  /\ pc # "idle" => tainted = failed
  /\ pc = "idle" /\ ~failed => \A b \in Blocks : Clean(b)
  /\ pc # "idle" /\ ~tainted =>
       \A b \in Blocks : Clean(b) \/ (b = Address /\ pc \in {"erase", "write"})
  /\ pc = "verify" => Clean(Address)

StatusInv ==
  /\ pc # "idle" => Status = "none"
  /\ pc = "compare" /\ ~tainted /\ Index < CountOfBlocks =>
       flash[Address] = before[Address]

FlashInv ==
  /\ TypeOK
  /\ CacheInv
  /\ StatusInv
  /\ AtMostOneBlockLost
  /\ SuccessMeansProgrammed
  /\ CorruptedMeansLost

LEMMA SeenOfClean ==
  ASSUME NEW b \in Blocks, Clean(b)
  PROVE  Seen(b) = flash[b]
  BY DEF Clean, Seen

(* Reading a clean block leaves every block as clean as it was.            *)
LEMMA FillKeepsClean ==
  ASSUME TypeOK, NEW a \in Blocks, FillLine(a), UNCHANGED flash,
         NEW b \in Blocks, Clean(b)
  PROVE  Clean(b)'
<1>1. cached[b]' = IF b = a THEN Seen(b) ELSE cached[b]
  BY DEF FillLine, TypeOK
<1> QED BY <1>1, SeenOfClean DEF Clean

LEMMA SafetyInit == Init => FlashInv
<1> SUFFICES ASSUME Init PROVE FlashInv
  OBVIOUS
<1>1. TypeOK
  BY TypeInit
<1>2. Target = {}
  BY DEF Init, Target
<1>3. CacheInv
  BY DEF Init, CacheInv, Clean
<1> QED BY <1>1, <1>2, <1>3
        DEF Init, FlashInv, StatusInv, AtMostOneBlockLost, SuccessMeansProgrammed,
            CorruptedMeansLost

LEMMA SafetyStart == FlashInv /\ PerformFlashWrite => FlashInv'
<1> SUFFICES ASSUME FlashInv, PerformFlashWrite PROVE FlashInv'
  OBVIOUS
<1>1. TypeOK'
  BY TypeStart DEF FlashInv
<1>2. /\ pc = "idle" /\ pc' = "compare" /\ Status' = "none" /\ Index' = 0
      /\ before' = flash /\ flash' = flash /\ cached' = cached
      /\ failed' = failed /\ tainted' = failed
  BY DEF PerformFlashWrite, memory
<1>3. CacheInv'
  BY <1>2 DEF FlashInv, CacheInv, Clean
<1>4. Address' = first' /\ first' \in Nat
  <2>1. first' \in Nat
    BY <1>1 DEF TypeOK
  <2>2. Address' = first' + 0
    BY <1>2 DEF Address
  <2>3. \A x \in Nat : x + 0 = x
    OBVIOUS
  <2> QED BY <2>1, <2>2, <2>3
<1>5. AtMostOneBlockLost'
  <2>1. \A b \in Target' : ~(b < Address')
    BY <1>4 DEF Target
  <2> QED BY <1>2, <2>1 DEF AtMostOneBlockLost, Holds
<1>6. SuccessMeansProgrammed' /\ CorruptedMeansLost'
  BY <1>2 DEF SuccessMeansProgrammed, CorruptedMeansLost
<1>7. StatusInv'
  BY <1>2 DEF StatusInv
<1> QED BY <1>1, <1>3, <1>5, <1>6, <1>7 DEF FlashInv

(* Going on to the next block after a clean read showed its content.       *)
LEMMA SafetyNextBlock ==
  FlashInv /\ (SkipBlock \/ VerifyBlock) => FlashInv'
<1> SUFFICES ASSUME FlashInv, SkipBlock \/ VerifyBlock PROVE FlashInv'
  OBVIOUS
<1>1. TypeOK /\ TypeOK'
  BY TypeBlock DEF FlashInv
<1>2. /\ pc \in {"compare", "verify"} /\ pc' = "compare" /\ Index < CountOfBlocks
      /\ Index' = Index + 1 /\ flash' = flash /\ FillLine(Address) /\ Seen(Address) = Buf
      /\ UNCHANGED <<call, Status, failed>>
  BY <1>1 DEF SkipBlock, VerifyBlock, NextBlock, MoreBlocks, Verified, TypeOK
<1>3. /\ first \in Nat /\ Index \in Nat /\ CountOfBlocks \in Nat
      /\ first' = first /\ CountOfBlocks' = CountOfBlocks /\ image' = image
      /\ before' = before /\ tainted' = tainted /\ Target' = Target
  BY <1>1, <1>2 DEF TypeOK, call, Target
<1>4. Address \in Target /\ Address \in Blocks /\ Address' = Address + 1 /\ Address \in Nat
  BY <1>1, <1>2, <1>3, AddressType DEF Address
<1>5. CacheInv'
  <2>1. \A b \in Blocks : Clean(b) => Clean(b)'
    BY <1>1, <1>2, <1>4, FillKeepsClean
  <2> QED BY <1>2, <1>3, <2>1 DEF FlashInv, CacheInv
<1>6. ~tainted => Holds(Address)
  <2>1. ~tainted => Clean(Address)
    BY <1>2, <1>4 DEF FlashInv, CacheInv
  <2> QED BY <1>2, <1>4, <2>1, SeenOfClean DEF Holds, Buf
<1>7. AtMostOneBlockLost'
  <2>1. SUFFICES ASSUME ~tainted
                 PROVE  /\ \A b \in Target : b < Address + 1 => Holds(b)'
                        /\ \A b \in Blocks \ Target : flash[b] = before[b]
                        /\ \A b \in Target : b > Address + 1 => flash[b] = before[b]
    BY <1>2, <1>3, <1>4 DEF AtMostOneBlockLost
  <2>2. \A b \in Target : b \in Nat
    BY <1>3 DEF Target
  <2>3. \A b \in Target : b < Address + 1 => Holds(b)
    BY <1>4, <1>6, <2>1, <2>2 DEF FlashInv, AtMostOneBlockLost
  <2>4. \A b \in Target : b > Address + 1 => flash[b] = before[b]
    BY <1>4, <2>1, <2>2 DEF FlashInv, AtMostOneBlockLost
  <2> QED BY <1>2, <1>3, <2>1, <2>3, <2>4 DEF FlashInv, AtMostOneBlockLost, Holds
<1>8. StatusInv'
  <2>1. ASSUME ~tainted, Index + 1 < CountOfBlocks
        PROVE  flash[Address + 1] = before[Address + 1]
    <3>1. Address + 1 \in Target /\ Address + 1 > Address
      BY <1>3, <1>4, <2>1 DEF Target, Address
    <3> QED BY <2>1, <3>1 DEF FlashInv, AtMostOneBlockLost
  <2> QED BY <1>2, <1>3, <1>4, <2>1 DEF FlashInv, StatusInv
<1>9. SuccessMeansProgrammed' /\ CorruptedMeansLost'
  BY <1>2 DEF FlashInv, StatusInv, SuccessMeansProgrammed, CorruptedMeansLost
<1> QED BY <1>1, <1>5, <1>7, <1>8, <1>9 DEF FlashInv

(* The decision to erase a block: the flash does not change.               *)
LEMMA SafetyCompare == FlashInv /\ (BlockDiffers \/ CompareFails) => FlashInv'
<1> SUFFICES ASSUME FlashInv, BlockDiffers \/ CompareFails PROVE FlashInv'
  OBVIOUS
<1>1. TypeOK /\ TypeOK'
  BY TypeBlock DEF FlashInv
<1>2. /\ pc = "compare" /\ pc' = "erase" /\ Index < CountOfBlocks /\ flash' = flash
      /\ FillLine(Address) \/ cached' = cached
      /\ UNCHANGED <<call, Index, Status, failed>>
  BY DEF BlockDiffers, CompareFails, MoreBlocks, memory
<1>3. /\ image' = image /\ before' = before /\ tainted' = tainted
      /\ Target' = Target /\ Address' = Address
  BY <1>2 DEF call, Target, Address
<1>4. Address \in Blocks
  BY <1>1, <1>2, AddressType
<1>5. CacheInv'
  <2>1. \A b \in Blocks : Clean(b) => Clean(b)'
    <3>1. CASE FillLine(Address)
      BY <1>1, <1>2, <1>4, <3>1, FillKeepsClean
    <3>2. CASE cached' = cached
      BY <1>2, <3>2 DEF Clean
    <3> QED BY <1>2, <3>1, <3>2
  <2> QED BY <1>2, <1>3, <2>1 DEF FlashInv, CacheInv
<1>6. AtMostOneBlockLost'
  BY <1>2, <1>3 DEF FlashInv, AtMostOneBlockLost, Holds
<1>7. StatusInv' /\ SuccessMeansProgrammed' /\ CorruptedMeansLost'
  BY <1>2 DEF FlashInv, StatusInv, SuccessMeansProgrammed, CorruptedMeansLost
<1> QED BY <1>1, <1>5, <1>6, <1>7 DEF FlashInv

(* Only the block that is worked on changes in the flash.                  *)
LEMMA OtherBlocks ==
  ASSUME TypeOK, AtMostOneBlockLost, Index < CountOfBlocks,
         \E c \in Contents : flash' = [flash EXCEPT ![Address] = c],
         UNCHANGED <<call, Index>>
  PROVE  AtMostOneBlockLost'
<1>1. /\ image' = image /\ before' = before /\ tainted' = tainted
      /\ Target' = Target /\ Address' = Address
  BY DEF call, Target, Address
<1>2. Address \in Target /\ Address \in Nat
  BY AddressType DEF Target, Address, TypeOK
<1>3. \A b \in Blocks : b # Address => flash'[b] = flash[b]
  BY DEF TypeOK
<1>4. Target \subseteq Blocks /\ \A b \in Target : b \in Nat
  BY DEF TypeOK, Target
<1>5. \A b \in Target : b < Address \/ b > Address => b # Address
  BY <1>2, <1>4
<1> QED BY <1>1, <1>2, <1>3, <1>4, <1>5 DEF AtMostOneBlockLost, Holds

LEMMA SafetyFlash == FlashInv /\ (InternalEraseBlock \/ WriteBlock) => FlashInv'
<1> SUFFICES ASSUME FlashInv, InternalEraseBlock \/ WriteBlock PROVE FlashInv'
  OBVIOUS
<1>1. TypeOK /\ TypeOK'
  BY TypeFlash DEF FlashInv
<1>2. /\ pc \in {"erase", "write"} /\ Index < CountOfBlocks
      /\ pc' \in {"write", "verify"} /\ (pc' = "verify" <=> WriteBlock)
      /\ UNCHANGED <<call, Index, Status, failed>>
  BY <1>1 DEF InternalEraseBlock, WriteBlock, TypeOK
<1>3. Address \in Blocks /\ Buf \in Data
  BY <1>1, <1>2, AddressType
<1>4. \E c \in Contents : flash' = [flash EXCEPT ![Address] = c]
  BY <1>3 DEF InternalEraseBlock, WriteBlock, Programmed, Contents
<1>5. AtMostOneBlockLost'
  BY <1>1, <1>2, <1>4, OtherBlocks DEF FlashInv
<1>6. tainted' = tainted /\ Address' = Address
  BY <1>2 DEF call, Address
<1>7. CacheInv'
  <2>1. \A b \in Blocks : b # Address => flash'[b] = flash[b] /\ cached'[b] = cached[b]
    BY <1>1, <1>4 DEF TypeOK, InternalEraseBlock, WriteBlock, Invalidate
  <2>2. \A b \in Blocks : b # Address /\ Clean(b) => Clean(b)'
    BY <2>1 DEF Clean
  <2>3. WriteBlock => Clean(Address)'
    BY <1>1, <1>3, <1>6 DEF WriteBlock, Invalidate, Clean, TypeOK
  <2> QED BY <1>2, <1>6, <2>2, <2>3 DEF FlashInv, CacheInv
<1>8. StatusInv' /\ SuccessMeansProgrammed' /\ CorruptedMeansLost'
  BY <1>2 DEF FlashInv, StatusInv, SuccessMeansProgrammed, CorruptedMeansLost
<1> QED BY <1>1, <1>5, <1>7, <1>8 DEF FlashInv

(* Leaving an update with an error.                                        *)
LEMMA SafetyFails ==
  FlashInv /\ (EraseFails \/ WriteFails \/ VerifyFails \/ VerifyOutOfResources)
    => FlashInv'
<1> SUFFICES ASSUME FlashInv,
                    EraseFails \/ WriteFails \/ VerifyFails \/ VerifyOutOfResources
             PROVE  FlashInv'
  OBVIOUS
<1>1. TypeOK /\ TypeOK'
  BY TypeFails DEF FlashInv
<1>2. /\ pc \in {"erase", "write", "verify"} /\ Index < CountOfBlocks
      /\ pc' = "idle" /\ Status' # "SUCCESS" /\ failed' = TRUE
      /\ (Status' = "VOLUME_CORRUPTED" => VerifyFails)
      /\ UNCHANGED <<call, Index>>
  BY <1>1 DEF EraseFails, WriteFails, VerifyFails, VerifyOutOfResources, Return, TypeOK
<1>3. Address \in Blocks /\ Buf \in Data
  BY <1>1, <1>2, AddressType
<1>4. flash' = flash \/ \E c \in Contents : flash' = [flash EXCEPT ![Address] = c]
  BY <1>1, <1>3
     DEF EraseFails, WriteFails, VerifyFails, VerifyOutOfResources, Programmed, Contents,
         memory, TypeOK
<1>5. AtMostOneBlockLost'
  <2>1. CASE flash' = flash
    BY <1>2, <2>1 DEF FlashInv, AtMostOneBlockLost, Holds, call, Target, Address
  <2>2. CASE \E c \in Contents : flash' = [flash EXCEPT ![Address] = c]
    BY <1>1, <1>2, <2>2, OtherBlocks DEF FlashInv
  <2> QED BY <1>4, <2>1, <2>2
<1>6. CacheInv' /\ StatusInv' /\ SuccessMeansProgrammed'
  BY <1>2 DEF CacheInv, StatusInv, SuccessMeansProgrammed
<1>7. CorruptedMeansLost'
  <2>1. VerifyFails => Clean(Address) /\ flash[Address] # Buf /\ flash' = flash
    BY <1>3, SeenOfClean DEF VerifyFails, FlashInv, CacheInv
  <2> QED BY <1>2, <2>1 DEF CorruptedMeansLost, Holds, Buf, call, Address
<1> QED BY <1>1, <1>5, <1>6, <1>7 DEF FlashInv

LEMMA SafetyFinish == FlashInv /\ Finish => FlashInv'
<1> SUFFICES ASSUME FlashInv, Finish PROVE FlashInv'
  OBVIOUS
<1>1. TypeOK /\ TypeOK'
  BY TypeFails DEF FlashInv
<1>2. /\ pc = "compare" /\ Index = CountOfBlocks /\ pc' = "idle" /\ Status' = "SUCCESS"
      /\ flash' = flash /\ cached' = cached /\ UNCHANGED <<call, Index>>
      /\ failed' = failed
  BY <1>1 DEF Finish, Return, memory, TypeOK
<1>3. /\ image' = image /\ before' = before /\ tainted' = tainted
      /\ Target' = Target /\ Address' = Address
  BY <1>2 DEF call, Target, Address
<1>4. CacheInv'
  BY <1>2, <1>3 DEF FlashInv, CacheInv, Clean
<1>5. AtMostOneBlockLost'
  BY <1>2, <1>3 DEF FlashInv, AtMostOneBlockLost, Holds
<1>6. \A b \in Target : b < Address
  BY <1>1, <1>2 DEF TypeOK, Target, Address
<1>7. SuccessMeansProgrammed'
  BY <1>2, <1>3, <1>6 DEF FlashInv, SuccessMeansProgrammed, AtMostOneBlockLost, Holds
<1>8. StatusInv' /\ CorruptedMeansLost'
  BY <1>2 DEF StatusInv, CorruptedMeansLost
<1> QED BY <1>1, <1>4, <1>5, <1>7, <1>8 DEF FlashInv

LEMMA SafetyCache == FlashInv /\ (Evict \/ Prefetch) => FlashInv'
<1> SUFFICES ASSUME FlashInv, Evict \/ Prefetch PROVE FlashInv'
  OBVIOUS
<1>1. TypeOK /\ TypeOK'
  BY TypePlatform DEF FlashInv
<1>2. /\ flash' = flash /\ pc' = pc /\ failed' = failed /\ Status' = Status
      /\ image' = image /\ before' = before /\ tainted' = tainted /\ Index' = Index
      /\ CountOfBlocks' = CountOfBlocks /\ Target' = Target /\ Address' = Address
  BY DEF Evict, Prefetch, call, Target, Address
<1>3. \A b \in Blocks : Clean(b) => Clean(b)'
  <2>1. CASE Evict
    BY <1>1, <1>2, <2>1 DEF Evict, Clean, TypeOK
  <2>2. CASE Prefetch
    BY <1>1, <1>2, <2>2, FillKeepsClean DEF Prefetch
  <2> QED BY <2>1, <2>2
<1>4. pc = "verify" => Address \in Blocks
  BY <1>1, AddressType DEF TypeOK
<1>5. CacheInv'
  BY <1>2, <1>3, <1>4 DEF FlashInv, CacheInv
<1>6. AtMostOneBlockLost' /\ StatusInv' /\ SuccessMeansProgrammed' /\ CorruptedMeansLost'
  BY <1>2 DEF FlashInv, AtMostOneBlockLost, StatusInv, SuccessMeansProgrammed,
              CorruptedMeansLost, Holds
<1> QED BY <1>1, <1>5, <1>6 DEF FlashInv

LEMMA SafetyPowerCut == FlashInv /\ PowerCut => FlashInv'
<1> SUFFICES ASSUME FlashInv, PowerCut PROVE FlashInv'
  OBVIOUS
<1>1. TypeOK /\ TypeOK'
  BY TypePlatform DEF FlashInv
<1>2. /\ pc' = "idle" /\ Status' = "none" /\ failed' = FALSE
      /\ UNCHANGED <<call, Index>>
  BY DEF PowerCut
<1>3. \A b \in Blocks : Clean(b)'
  BY DEF PowerCut, Clean
<1>4. CacheInv' /\ StatusInv' /\ SuccessMeansProgrammed' /\ CorruptedMeansLost'
  BY <1>2, <1>3 DEF CacheInv, StatusInv, SuccessMeansProgrammed, CorruptedMeansLost
<1>5. AtMostOneBlockLost'
  <2>1. CASE flash' = flash
    BY <1>2, <2>1 DEF FlashInv, AtMostOneBlockLost, Holds, call, Target, Address
  <2>2. CASE flash' # flash
    <3>1. Index < CountOfBlocks /\ flash' = [flash EXCEPT ![Address] = Lost]
      BY <1>1, <2>2 DEF PowerCut, TypeOK
    <3> QED BY <1>1, <1>2, <3>1, OtherBlocks DEF FlashInv, Contents
  <2> QED BY <2>1, <2>2
<1> QED BY <1>1, <1>4, <1>5 DEF FlashInv

LEMMA SafetyStep == FlashInv /\ [Next]_vars => FlashInv'
<1> SUFFICES ASSUME FlashInv, [Next]_vars PROVE FlashInv'
  OBVIOUS
<1>1. CASE Next
  BY <1>1, SafetyStart, SafetyNextBlock, SafetyCompare, SafetyFlash, SafetyFails,
     SafetyFinish, SafetyCache, SafetyPowerCut DEF Next
<1>2. CASE UNCHANGED vars
  <2>1. TypeOK'
    BY <1>2, TypeStep DEF FlashInv
  <2>2. Target' = Target /\ Address' = Address
    BY <1>2 DEF vars, call, Target, Address
  <2> QED BY <1>2, <2>1, <2>2
          DEF FlashInv, CacheInv, StatusInv, AtMostOneBlockLost, SuccessMeansProgrammed,
              CorruptedMeansLost, Clean, Holds, vars, call, memory
<1> QED BY <1>1, <1>2

LEMMA SafetyInvariant == Spec => []FlashInv
  BY SafetyInit, SafetyStep, PTL DEF Spec

(* An update of PerformFlashWriteWithProgress() that returns EFI_SUCCESS   *)
(* has every block of its image in the flash, for a flash and an image of  *)
(* any size, unless an earlier update failed since the last reset.         *)
THEOREM UpdatesAreComplete == Spec => []SuccessMeansProgrammed
  BY SafetyInvariant, PTL DEF FlashInv

(* Wherever PerformFlashWriteWithProgress() stops, by an error or by loss  *)
(* of power, at most one block of the flash is neither new nor old.        *)
THEOREM DamageIsBounded == Spec => []AtMostOneBlockLost
  BY SafetyInvariant, PTL DEF FlashInv

(* InternalWriteBlock() returns EFI_VOLUME_CORRUPTED only for a block that *)
(* the flash does not hold: it never compares with a stale cache line.     *)
THEOREM VerificationReadsFlash == Spec => []CorruptedMeansLost
  BY SafetyInvariant, PTL DEF FlashInv

----------------------------------------------------------------------------
(* What is reported before a block is dealt with is at most the percentage *)
(* of the blocks before it.                                                *)
ProgressInv ==
  pc # "idle" /\ Index < CountOfBlocks => progress <= Percentage

(* A share of more blocks is not smaller.                                  *)
LEMMA ShareGrows ==
  ASSUME NEW a \in Nat, NEW b \in Nat, NEW c \in Nat \ {0}
  PROVE  (a * b) \div c <= ((a + 1) * b) \div c
<1> DEFINE q == (a * b) \div c
           r == ((a + 1) * b) \div c
<1>1. a * b \in Nat /\ (a + 1) * b \in Nat /\ (a + 1) * b = a * b + b
  OBVIOUS
<1>2. q \in Int /\ c * q <= a * b
  BY <1>1
<1>3. r \in Int /\ (a + 1) * b < c * r + c
  BY <1>1
<1>4. c * q < c * (r + 1)
  BY <1>1, <1>2, <1>3
<1>5. q < r + 1
  <2>1. SUFFICES ASSUME q >= r + 1 PROVE FALSE
    BY <1>2, <1>3
  <2>2. c * q >= c * (r + 1)
    BY <1>2, <1>3, <2>1
  <2> QED BY <1>2, <1>3, <1>4, <2>2
<1> QED BY <1>2, <1>3, <1>5

LEMMA ProgressNext ==
  ASSUME TypeOK, TypeOK', Index + 1 < CountOfBlocks, Index' = Index + 1, UNCHANGED call
  PROVE  Percentage <= Percentage'
<1>1. Index \in Nat /\ CountOfBlocks \in Nat \ {0} /\ CountOfBlocks' = CountOfBlocks
      /\ EndPercentage - StartPercentage \in Nat
  BY FlashAssumption DEF TypeOK, call
<1>2. (Index * (EndPercentage - StartPercentage)) \div CountOfBlocks
        <= ((Index + 1) * (EndPercentage - StartPercentage)) \div CountOfBlocks
  BY <1>1, ShareGrows
<1>3. /\ Percentage \in Int /\ Percentage' \in Int
      /\ Percentage' = StartPercentage
           + ((Index + 1) * (EndPercentage - StartPercentage)) \div CountOfBlocks
  BY <1>1, FlashAssumption DEF Percentage
<1> QED BY <1>1, <1>2, <1>3, FlashAssumption DEF Percentage

LEMMA ProgressStep == TypeOK /\ ProgressInv /\ [Next]_vars => ProgressInv'
<1> SUFFICES ASSUME TypeOK, ProgressInv, [Next]_vars, pc' # "idle", (Index < CountOfBlocks)'
             PROVE  progress' <= Percentage'
  BY DEF ProgressInv
<1>1. TypeOK'
  BY TypeStep
<1>2. CASE PerformFlashWrite
  <2>1. progress' = StartPercentage
    BY <1>2 DEF PerformFlashWrite
  <2>2. Index' = 0 /\ CountOfBlocks' \in Nat \ {0} /\ EndPercentage - StartPercentage \in Nat
    BY <1>1, <1>2, FlashAssumption DEF PerformFlashWrite, TypeOK
  <2>3. (0 * (EndPercentage - StartPercentage)) \div CountOfBlocks'
          \in 0 .. EndPercentage - StartPercentage
    BY <2>2, Share
  <2>4. Percentage' = StartPercentage
          + (0 * (EndPercentage - StartPercentage)) \div CountOfBlocks'
    BY <2>2 DEF Percentage
  <2> QED BY <2>1, <2>3, <2>4, FlashAssumption
<1>3. CASE SkipBlock \/ VerifyBlock
  <2>1. Index' = Index + 1 /\ UNCHANGED call
    BY <1>3 DEF SkipBlock, VerifyBlock, NextBlock
  <2>2. Index \in Nat /\ CountOfBlocks \in Nat /\ Index + 1 < CountOfBlocks
        /\ Index < CountOfBlocks
    BY <2>1 DEF TypeOK, call
  <2>3. Percentage <= Percentage'
    BY <1>1, <2>1, <2>2, ProgressNext
  <2>4. progress' <= Percentage
    BY <1>3, <2>2, PercentageType
       DEF SkipBlock, VerifyBlock, Report, ProgressInv
  <2>5. Percentage \in Int /\ Percentage' \in Int /\ progress' \in Int
    BY <1>1, <2>2, FlashAssumption DEF TypeOK, Percentage, call
  <2> QED BY <2>3, <2>4, <2>5
<1>4. CASE BlockDiffers \/ CompareFails
  <2>1. progress' = Percentage /\ UNCHANGED <<call, Index>> /\ Index < CountOfBlocks
    BY <1>4 DEF BlockDiffers, CompareFails, Report, MoreBlocks
  <2>2. Percentage' = Percentage
    BY <2>1 DEF Percentage, call
  <2>3. Percentage \in Int
    BY <2>1, PercentageType, FlashAssumption
  <2> QED BY <2>1, <2>2, <2>3
<1>5. CASE InternalEraseBlock \/ WriteBlock \/ Evict \/ Prefetch \/ UNCHANGED vars
  <2>1. progress' = progress /\ UNCHANGED <<call, Index>> /\ pc # "idle"
    BY <1>5 DEF InternalEraseBlock, WriteBlock, Evict, Prefetch, vars
  <2>2. Percentage' = Percentage /\ Index < CountOfBlocks
    BY <2>1 DEF Percentage, call
  <2> QED BY <2>1, <2>2 DEF ProgressInv
<1>6. CASE EraseFails \/ WriteFails \/ VerifyFails \/ VerifyOutOfResources \/ Finish \/ PowerCut
  BY <1>6 DEF EraseFails, WriteFails, VerifyFails, VerifyOutOfResources, Finish, PowerCut, Return
<1> QED BY <1>2, <1>3, <1>4, <1>5, <1>6 DEF Next

(* No step of an update reports less than was reported before it.          *)
LEMMA ProgressRises ==
  ASSUME TypeOK, TypeOK', ProgressInv, [Next]_vars, pc # "idle"
  PROVE  progress' >= progress
<1>1. progress \in Int /\ progress <= EndPercentage
  BY FlashAssumption DEF TypeOK
<1>2. CASE SkipBlock \/ BlockDiffers \/ CompareFails
  <2>1. progress' = Percentage /\ Index < CountOfBlocks
    BY <1>2 DEF SkipBlock, BlockDiffers, CompareFails, Report, MoreBlocks
  <2>2. Percentage \in Int
    BY <2>1, PercentageType, FlashAssumption
  <2> QED BY <1>1, <2>1, <2>2 DEF ProgressInv
<1>3. CASE InternalEraseBlock \/ WriteBlock \/ VerifyBlock \/ Evict \/ Prefetch \/ UNCHANGED vars
  BY <1>1, <1>3 DEF InternalEraseBlock, WriteBlock, VerifyBlock, Evict, Prefetch, vars
<1>4. CASE EraseFails \/ WriteFails \/ VerifyFails \/ VerifyOutOfResources \/ Finish \/ PowerCut
  BY <1>1, <1>4, FlashAssumption
     DEF EraseFails, WriteFails, VerifyFails, VerifyOutOfResources, Finish, PowerCut, Return
<1>5. ~PerformFlashWrite
  BY DEF PerformFlashWrite
<1> QED BY <1>2, <1>3, <1>4, <1>5 DEF Next

(* The percentages that PerformFlashWriteWithProgress() reports never go   *)
(* back, whatever the range the caller gave and the number of blocks.      *)
THEOREM ProgressIsMonotone == Spec => ProgressMonotone
<1>1. Init => ProgressInv
  BY DEF Init, ProgressInv
<1>2. TypeOK /\ TypeOK' /\ ProgressInv /\ [Next]_vars
        => [pc # "idle" => progress' >= progress]_vars
  BY ProgressRises
<1> QED BY <1>1, <1>2, TypeInit, TypeStep, ProgressStep, PTL DEF Spec, ProgressMonotone
==============================================================================
