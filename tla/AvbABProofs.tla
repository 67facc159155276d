---------------------------- MODULE AvbABProofs ----------------------------
(***************************************************************************)
(* Proofs about AvbAB for every value of its constants.  The invariant     *)
(* TriesInv says where the tries of a slot are at each point of the flow:  *)
(* on disk, in avb_ab_flow()'s copy, or charged to the slot that is about  *)
(* to be started.                                                          *)
(***************************************************************************)
EXTENDS AvbAB, TLAPS

(* How far avb_ab_flow() has got, and what holds of its local variables.   *)
FlowInv ==
  /\ pc \in {"verify", "rollback"} => Loaded
  /\ pc \notin {"verify", "rollback", "save"} => ~Loaded /\ ab_data = Uninit
  /\ Loaded => ab_data \in Metadata /\ misc = ab_data_orig
  /\ ~Loaded /\ ab_data # Uninit => misc = Corrupt
  /\ data # NULL => data = slot_index /\ pc \in {"save", "main", "os", "fatal"}
  /\ pc \in {"save", "main"} => (data # NULL <=> ret \in OkResults)
  /\ pc = "rollback" => slot_is_bootable(ab_data[slot_index])

(* One try is due for the unconfirmed slot whose data is being returned.   *)
Due(m, s) == IF data = s /\ ~m[s].successful THEN 1 ELSE 0

TriesInv ==
  /\ \A s \in Slots : attempts[s] <= MaxTries
  /\ misc # Corrupt => \A s \in Slots : attempts[s] + misc[s].tries <= MaxTries
  /\ Loaded => \A s \in Slots : attempts[s] + ab_data[s].tries + Due(ab_data, s) <= MaxTries
  /\ pc = "main" /\ data # NULL =>
       misc # Corrupt /\ \A s \in Slots : attempts[s] + misc[s].tries + Due(misc, s) <= MaxTries

IInv == TypeOK /\ FlowInv /\ TriesInv

---------------------------------------------------------------------------
(* The metadata operations stay within the record type.                    *)

LEMMA SlotDataFacts ==
  /\ UnbootableSlot \in SlotData
  /\ \A p \in 0 .. MaxPriority : FullSlot(p) \in SlotData
BY ConstantsAssumption DEF UnbootableSlot, FullSlot, SlotData

LEMMA InitRecordType == avb_ab_data_init \in Metadata
<1>1. MaxPriority \in 0 .. MaxPriority /\ MaxPriority - 1 \in 0 .. MaxPriority
  BY ConstantsAssumption
<1>2. QED
  BY <1>1, SlotDataFacts DEF avb_ab_data_init, Metadata

LEMMA NormalizeType ==
  ASSUME NEW d \in SlotData
  PROVE  /\ slot_normalize(d) \in SlotData
         /\ slot_normalize(d).tries <= d.tries
<1>1. UnbootableSlot.tries = 0 /\ 0 <= d.tries
  BY DEF UnbootableSlot, SlotData
<1>2. d.tries <= d.tries
  BY ConstantsAssumption DEF SlotData
<1>3. QED
  BY <1>1, <1>2, SlotDataFacts DEF slot_normalize

LEMMA NormalizedType ==
  ASSUME NEW m \in Metadata
  PROVE  /\ Normalized(m) \in Metadata
         /\ \A s \in Slots : Normalized(m)[s].tries <= m[s].tries
BY NormalizeType DEF Normalized, Metadata

LEMMA ChargeTryType ==
  ASSUME NEW d \in SlotData
  PROVE  /\ ChargeTry(d) \in SlotData
         /\ ChargeTry(d).successful = d.successful
         /\ slot_is_bootable(d) /\ ~d.successful => ChargeTry(d).tries + 1 = d.tries
         /\ ChargeTry(d).tries <= d.tries
BY ConstantsAssumption DEF ChargeTry, SlotData, slot_is_bootable

LEMMA MarkedType ==
  ASSUME NEW m \in Metadata, NEW s \in Slots
  PROVE  /\ MarkedActive(m, s) \in Metadata
         /\ MarkedUnbootable(m, s) \in Metadata
         /\ MarkedSuccessful(m, s) \in Metadata
         /\ \A t \in Slots : MarkedUnbootable(m, s)[t].tries <= m[t].tries
         /\ \A t \in Slots : MarkedSuccessful(m, s)[t].tries <= m[t].tries
         /\ \A t \in Slots : t # s => MarkedActive(m, s)[t].tries <= m[t].tries
<1> USE ConstantsAssumption
<1>1. MaxPriority \in 0 .. MaxPriority /\ MaxPriority - 1 \in 0 .. MaxPriority
  OBVIOUS
<1>2. \A t \in Slots : m[t] \in SlotData /\ m[t].tries \in 0 .. MaxTries
  BY DEF Metadata, SlotData
<1>3. /\ MarkedActive(m, s) \in Metadata
      /\ \A t \in Slots : t # s => MarkedActive(m, s)[t].tries <= m[t].tries
  <2>1. \A t \in Slots :
          [m[t] EXCEPT !.priority = MaxPriority - 1] \in SlotData
          /\ [m[t] EXCEPT !.priority = MaxPriority - 1].tries = m[t].tries
    BY <1>1, <1>2 DEF SlotData
  <2>2. ASSUME NEW t \in Slots
        PROVE  /\ MarkedActive(m, s)[t] \in SlotData
               /\ t # s => MarkedActive(m, s)[t].tries <= m[t].tries
    <3>1. CASE t = s
      BY <3>1, <1>1, SlotDataFacts DEF MarkedActive
    <3>2. CASE t # s
      <4>1. m[t].tries <= m[t].tries
        BY <1>2
      <4>2. \/ MarkedActive(m, s)[t] = m[t]
            \/ MarkedActive(m, s)[t] = [m[t] EXCEPT !.priority = MaxPriority - 1]
        BY <3>2 DEF MarkedActive
      <4>3. QED
        BY <1>2, <2>1, <4>1, <4>2
    <3>3. QED
      BY <3>1, <3>2
  <2>3. QED
    BY <2>2 DEF MarkedActive, Metadata
<1>4. /\ MarkedUnbootable(m, s) \in Metadata
      /\ \A t \in Slots : MarkedUnbootable(m, s)[t].tries <= m[t].tries
  BY <1>2, SlotDataFacts DEF MarkedUnbootable, Metadata, UnbootableSlot
<1>5. /\ MarkedSuccessful(m, s) \in Metadata
      /\ \A t \in Slots : MarkedSuccessful(m, s)[t].tries <= m[t].tries
  <2>1. Confirmed(m[s]) \in SlotData /\ Confirmed(m[s]).tries = 0
    BY <1>2 DEF SlotData, Confirmed
  <2>2. QED
    BY <1>2, <2>1 DEF MarkedSuccessful, Metadata
<1>6. QED
  BY <1>3, <1>4, <1>5

---------------------------------------------------------------------------
(* One lemma per part of the invariant that needs one per action.          *)

LEMMA TypeInit == Init => TypeOK
<1> SUFFICES ASSUME Init PROVE TypeOK
  OBVIOUS
<1>1. misc \in Metadata \cup {Corrupt} /\ image \in [Slots -> Images] /\ unlocked \in BOOLEAN
  BY DEF Init
<1>2. stored \in Indexes
  BY ConstantsAssumption DEF Init, Indexes
<1>3. pc \in Phases /\ n \in Nat /\ slot_index \in Slots /\ ret \in Results
  BY DEF Init, Phases, Slots, Results, OkResults
<1>4. /\ ab_data \in Metadata \cup {Uninit}
      /\ ab_data_orig \in Metadata \cup {Uninit}
      /\ slot_data \in [Slots -> Indexes \cup {NULL}]
      /\ saw_allowed \in BOOLEAN
      /\ data \in Slots \cup {NULL}
      /\ attempts \in [Slots -> Nat]
  BY DEF Init
<1>5. QED
  BY <1>1, <1>2, <1>3, <1>4 DEF TypeOK

LEMMA RollbackValueType ==
  ASSUME TypeOK, NEW l \in Locations
  PROVE  RollbackIndexValue(l) \in 0 .. MaxIndex
<1>1. \A s \in Slots : slot_data[s] # NULL => slot_data[s][l] \in 0 .. MaxIndex
  BY DEF TypeOK, Indexes
<1>2. 0 \in 0 .. MaxIndex
  BY ConstantsAssumption
<1>3. QED
  BY <1>1, <1>2 DEF RollbackIndexValue, Slots

LEMMA VerifyOutcomesType ==
  ASSUME NEW img \in Images
  PROVE  VerifyOutcomes(img).data \in Indexes \cup {NULL}
<1>1. img.index \in Indexes
  BY DEF Images
<1>2. [l \in Locations |-> 0] \in Indexes
  BY ConstantsAssumption DEF Indexes
<1>3. QED
  BY <1>1, <1>2 DEF VerifyOutcomes, ReturnedIndex

LEMMA AbortTypes ==
  ASSUME TypeOK, Aborts, UNCHANGED <<disk, attempts>>
  PROVE  TypeOK'
BY DEF TypeOK, Aborts, NoLocals, disk, Phases, Slots, Results, OkResults

(* The type invariant is preserved, given what FlowInv says of ab_data.    *)
LEMMA TypeStep ==
  ASSUME TypeOK, FlowInv, [Next]_vars
  PROVE  TypeOK'
<1> USE ConstantsAssumption
<1>1. CASE PowerOn
  BY <1>1 DEF PowerOn, TypeOK, FlowInv, disk, locals, Phases
<1>2. CASE LoadMetadata
  BY <1>2, NormalizedType DEF LoadMetadata, TypeOK, FlowInv, disk, locals, Phases
<1>3. CASE ResetMetadata
  BY <1>3, NormalizedType, InitRecordType
  DEF ResetMetadata, TypeOK, FlowInv, disk, locals, Phases, AttemptsFollowReset
<1>4. CASE LoadFails
  BY <1>4, InitRecordType DEF LoadFails, TypeOK, FlowInv, disk, locals, Phases, Results
<1>5. CASE VerifySlot
  <2>1. ab_data \in Metadata
    BY <1>5 DEF VerifySlot, FlowInv
  <2>2. [ab_data EXCEPT ![n] = UnbootableSlot] \in Metadata
    BY <2>1, SlotDataFacts DEF Metadata
  <2>3. VerifyOutcomes(image[n]).data \in Indexes \cup {NULL}
    BY <1>5, VerifyOutcomesType DEF VerifySlot, TypeOK
  <2>4. slot_data' \in [Slots -> Indexes \cup {NULL}]
    BY <1>5, <2>3 DEF VerifySlot, TypeOK
  <2>5. saw_allowed' \in BOOLEAN
    BY <1>5 DEF VerifySlot, VerifyOutcomes, TypeOK
  <2>6. ab_data' \in Metadata
    BY <1>5, <2>1, <2>2 DEF VerifySlot
  <2>7. QED
    BY <1>5, <2>4, <2>5, <2>6 DEF VerifySlot, TypeOK, disk
<1>6. CASE SkipUnbootableSlot
  BY <1>6 DEF SkipUnbootableSlot, TypeOK, FlowInv, disk, locals, Slots
<1>7. CASE VerifyFails
  BY <1>7 DEF VerifyFails, TypeOK, FlowInv, disk, locals, Phases, Results
<1>8. CASE SelectSlot
  BY <1>8 DEF SelectSlot, TypeOK, FlowInv, disk, locals, Phases, Slots, Selected
<1>9. CASE NoBootableSlots
  BY <1>9 DEF NoBootableSlots, TypeOK, FlowInv, disk, locals, Phases, Results
<1>10. CASE UpdateRollbackIndex
  <2>1. RollbackIndexValue(n) \in 0 .. MaxIndex
    BY <1>10, RollbackValueType DEF UpdateRollbackIndex
  <2>2. stored' \in Indexes
    BY <1>10, <2>1 DEF UpdateRollbackIndex, Written, TypeOK, Indexes
  <2>3. n' \in Nat
    BY <1>10 DEF UpdateRollbackIndex, TypeOK
  <2>4. QED
    BY <1>10, <2>2, <2>3 DEF UpdateRollbackIndex, TypeOK, locals
<1>11. CASE RollbackFails
  BY <1>11, RollbackValueType
  DEF RollbackFails, Written, TypeOK, FlowInv, disk, locals, Phases, Results, Indexes
<1>12. CASE TakeSlot
  <2>1. CASE SlotAsserted
    BY <1>12, <2>1, ChargeTryType
    DEF TakeSlot, TypeOK, FlowInv, disk, locals, Phases, Results, OkResults, Metadata
  <2>2. CASE ~SlotAsserted
    <3>1. Aborts /\ UNCHANGED <<disk, attempts>>
      BY <1>12, <2>2 DEF TakeSlot
    <3>2. QED
      BY <3>1, AbortTypes
  <2>3. QED
    BY <2>1, <2>2
<1>13. CASE SaveMetadata
  BY <1>13
  DEF SaveMetadata, TypeOK, FlowInv, disk, locals, Phases, FlowReturns,
      AttemptsFollowReset, Loaded
<1>14. CASE SaveUninitialized
  <2>1. PICK e \in IoErrors : FlowReturns(e, NULL)
    BY <1>14 DEF SaveUninitialized
  <2>2. misc' \in Metadata \cup {Corrupt}
    BY <1>14 DEF SaveUninitialized, TypeOK, Loaded
  <2>3. attempts' \in [Slots -> Nat]
    BY <2>1 DEF FlowReturns, AttemptsFollowReset, TypeOK
  <2>4. ret' \in Results
    BY <2>1 DEF FlowReturns, Results
  <2>5. QED
    BY <2>1, <2>2, <2>3, <2>4 DEF FlowReturns, TypeOK, Phases
<1>15. CASE SaveFails
  <2>1. PICK e \in IoErrors : FlowReturns(e, NULL)
    BY <1>15 DEF SaveFails
  <2>2. misc' \in Metadata \cup {Corrupt}
    BY <1>15 DEF SaveFails, TypeOK, FlowInv
  <2>3. attempts' \in [Slots -> Nat]
    BY <2>1 DEF FlowReturns, AttemptsFollowReset, TypeOK
  <2>4. ret' \in Results
    BY <2>1 DEF FlowReturns, Results
  <2>5. QED
    BY <2>1, <2>2, <2>3, <2>4 DEF FlowReturns, TypeOK, Phases
<1>16. CASE BootKernel
  BY <1>16 DEF BootKernel, TypeOK, FlowInv, disk, locals, Phases
<1>17. CASE KernelFails
  BY <1>17 DEF KernelFails, TypeOK, FlowInv, disk, locals, Phases
<1>18. CASE GiveUp
  BY <1>18 DEF GiveUp, TypeOK, FlowInv, disk, locals, Phases
<1>19. CASE Restart
  BY <1>19
  DEF Restart, TypeOK, FlowInv, disk, locals, Phases, NoLocals, Slots, Results, OkResults
<1>20. CASE PowerCut
  BY <1>20
  DEF PowerCut, TypeOK, FlowInv, disk, locals, Phases, NoLocals, Slots, Results, OkResults
<1>21. ASSUME NEW s \in Slots,
              MarkSlotActive(s) \/ MarkSlotUnbootable(s) \/ MarkSlotSuccessful(s)
       PROVE  TypeOK'
  <2>1. LoadedRecord \in Metadata
    BY InitRecordType DEF LoadedRecord, TypeOK
  <2>2. misc' \in Metadata
    BY <1>21, <2>1, NormalizedType, MarkedType
    DEF MarkSlotActive, MarkSlotUnbootable, MarkSlotSuccessful
  <2>3. attempts' \in [Slots -> Nat]
    BY <1>21
    DEF MarkSlotActive, MarkSlotUnbootable, MarkSlotSuccessful, AttemptsFollowReset, TypeOK
  <2>4. QED
    BY <1>21, <2>2, <2>3
    DEF MarkSlotActive, MarkSlotUnbootable, MarkSlotSuccessful, TypeOK, disk, locals
<1>22. CASE MarkFails
  BY <1>22, InitRecordType DEF MarkFails, TypeOK, locals, AttemptsFollowReset
<1>23. CASE InstallImage
  BY <1>23 DEF InstallImage, TypeOK, locals, Slots, Other
<1>24. ASSUME NEW s \in Slots, CorruptImage(s)
       PROVE  TypeOK'
  <2>1. [image[s] EXCEPT !.kind = "modified"] \in Images
    BY DEF TypeOK, Images, Kinds
  <2>2. image' \in [Slots -> Images]
    BY <1>24, <2>1 DEF CorruptImage, TypeOK
  <2>3. QED
    BY <1>24, <2>2 DEF CorruptImage, TypeOK, locals
<1>25. CASE ToggleLock
  BY <1>25 DEF ToggleLock, TypeOK, locals
<1>26. CASE UNCHANGED vars
  BY <1>26 DEF vars, TypeOK, disk, locals
<1>27. CASE PowerOnFails \/ VerifyAborts
  BY <1>27, AbortTypes DEF PowerOnFails, VerifyAborts
<1>28. QED
  BY <1>1, <1>2, <1>3, <1>4, <1>5, <1>6, <1>7, <1>8, <1>9, <1>10, <1>11, <1>12, <1>13,
     <1>14, <1>15, <1>16, <1>17, <1>18, <1>19, <1>20, <1>21, <1>22, <1>23, <1>24, <1>25,
     <1>26, <1>27 DEF Next, Firmware, Faults, System

LEMMA FlowInit == Init => FlowInv
BY DEF Init, FlowInv, Loaded

LEMMA FlowStep ==
  ASSUME TypeOK, FlowInv, [Next]_vars
  PROVE  FlowInv'
<1> USE ConstantsAssumption DEF TypeOK, FlowInv, Loaded, disk, locals
<1>1. CASE PowerOn
  BY <1>1 DEF PowerOn
<1>2. CASE LoadMetadata
  BY <1>2, NormalizedType DEF LoadMetadata
<1>3. CASE ResetMetadata
  BY <1>3, NormalizedType, InitRecordType DEF ResetMetadata
<1>4. CASE LoadFails
  BY <1>4, InitRecordType DEF LoadFails, IoErrors, OkResults
<1>5. CASE VerifySlot
  BY <1>5, SlotDataFacts DEF VerifySlot, Metadata, Slots
<1>6. CASE SkipUnbootableSlot
  BY <1>6 DEF SkipUnbootableSlot
<1>7. CASE VerifyFails
  BY <1>7 DEF VerifyFails, IoErrors, OkResults
<1>8. CASE SelectSlot
  BY <1>8 DEF SelectSlot, Selected, Slots
<1>9. CASE NoBootableSlots
  BY <1>9 DEF NoBootableSlots, OkResults
<1>10. CASE UpdateRollbackIndex
  BY <1>10 DEF UpdateRollbackIndex
<1>11. CASE RollbackFails
  BY <1>11 DEF RollbackFails, IoErrors, OkResults
<1>12. CASE TakeSlot
  <2>1. CASE SlotAsserted
    BY <1>12, <2>1, ChargeTryType DEF TakeSlot, Metadata, OkResults, Slots
  <2>2. CASE ~SlotAsserted
    BY <1>12, <2>2 DEF TakeSlot, Aborts, NoLocals
  <2>3. QED
    BY <2>1, <2>2
<1>13. CASE SaveMetadata
  BY <1>13 DEF SaveMetadata, FlowReturns
<1>14. CASE SaveUninitialized
  BY <1>14 DEF SaveUninitialized, FlowReturns, IoErrors, OkResults
<1>15. CASE SaveFails
  BY <1>15 DEF SaveFails, FlowReturns, IoErrors, OkResults
<1>16. CASE BootKernel
  BY <1>16 DEF BootKernel
<1>17. CASE KernelFails
  BY <1>17 DEF KernelFails
<1>18. CASE GiveUp
  BY <1>18 DEF GiveUp
<1>19. CASE Restart
  BY <1>19 DEF Restart, NoLocals
<1>20. CASE PowerCut
  BY <1>20 DEF PowerCut, NoLocals, FlowPhases
<1>21. ASSUME NEW s \in Slots,
              MarkSlotActive(s) \/ MarkSlotUnbootable(s) \/ MarkSlotSuccessful(s)
       PROVE  FlowInv'
  BY <1>21 DEF MarkSlotActive, MarkSlotUnbootable, MarkSlotSuccessful
<1>22. CASE MarkFails
  BY <1>22 DEF MarkFails
<1>23. CASE InstallImage
  BY <1>23 DEF InstallImage
<1>24. ASSUME NEW s \in Slots, CorruptImage(s)
       PROVE  FlowInv'
  BY <1>24 DEF CorruptImage
<1>25. CASE ToggleLock
  BY <1>25 DEF ToggleLock
<1>26. CASE UNCHANGED vars
  BY <1>26 DEF vars
<1>27. CASE PowerOnFails \/ VerifyAborts
  BY <1>27 DEF PowerOnFails, VerifyAborts, Aborts, NoLocals
<1>28. QED
  BY <1>1, <1>2, <1>3, <1>4, <1>5, <1>6, <1>7, <1>8, <1>9, <1>10, <1>11, <1>12, <1>13,
     <1>14, <1>15, <1>16, <1>17, <1>18, <1>19, <1>20, <1>21, <1>22, <1>23, <1>24, <1>25,
     <1>26, <1>27 DEF Next, Firmware, Faults, System

LEMMA TriesInit == Init => TriesInv
<1> SUFFICES ASSUME Init PROVE TriesInv
  OBVIOUS
<1>1. /\ \A s \in Slots : attempts[s] = 0
      /\ misc # Corrupt => \A s \in Slots : misc[s].tries \in 0 .. MaxTries
  BY DEF Init, Metadata, SlotData
<1>2. ~Loaded /\ pc # "main"
  BY DEF Init, Loaded
<1>3. QED
  BY <1>1, <1>2, ConstantsAssumption DEF TriesInv

(* A record in which no slot has more tries than before keeps its budget.  *)
LEMMA TriesStep ==
  ASSUME TypeOK, TypeOK', FlowInv, FlowInv', TriesInv, [Next]_vars
  PROVE  TriesInv'
<1> USE ConstantsAssumption
<1>a. /\ \A s \in Slots : attempts[s] \in Nat /\ attempts'[s] \in Nat
      /\ misc # Corrupt => misc \in Metadata
      /\ misc' # Corrupt => misc' \in Metadata
      /\ Loaded => ab_data \in Metadata /\ misc = ab_data_orig /\ misc # Corrupt
      /\ data \in Slots => data = slot_index
      /\ NULL \notin Slots
  BY DEF TypeOK, FlowInv, Loaded
<1>b. \A m \in Metadata : \A s \in Slots : m[s] \in SlotData /\ m[s].tries \in 0 .. MaxTries
  BY DEF Metadata, SlotData
<1>1. CASE PowerOn
  BY <1>1, <1>a, <1>b
  DEF PowerOn, TriesInv, FlowInv, Loaded, Due, disk, locals
<1>2. CASE LoadMetadata
  BY <1>2, <1>a, <1>b, NormalizedType
  DEF LoadMetadata, TriesInv, FlowInv, Loaded, Due, disk, locals
<1>3. CASE ResetMetadata
  BY <1>3, <1>a, <1>b, NormalizedType, InitRecordType
  DEF ResetMetadata, TriesInv, FlowInv, Loaded, Due, disk, locals, AttemptsFollowReset
<1>4. CASE LoadFails
  BY <1>4, <1>a, <1>b
  DEF LoadFails, TriesInv, FlowInv, Loaded, Due, disk, locals
<1>5. CASE VerifySlot
  BY <1>5, <1>a, <1>b
  DEF VerifySlot, TriesInv, FlowInv, Loaded, Due, disk, locals, UnbootableSlot, Metadata
<1>6. CASE SkipUnbootableSlot
  BY <1>6, <1>a, <1>b
  DEF SkipUnbootableSlot, TriesInv, FlowInv, Loaded, Due, disk, locals
<1>7. CASE VerifyFails
  BY <1>7, <1>a, <1>b
  DEF VerifyFails, TriesInv, FlowInv, Loaded, Due, disk, locals
<1>8. CASE SelectSlot
  BY <1>8, <1>a, <1>b
  DEF SelectSlot, TriesInv, FlowInv, Loaded, Due, disk, locals
<1>9. CASE NoBootableSlots
  BY <1>9, <1>a, <1>b
  DEF NoBootableSlots, TriesInv, FlowInv, Loaded, Due, disk, locals
<1>10. CASE UpdateRollbackIndex
  BY <1>10, <1>a, <1>b
  DEF UpdateRollbackIndex, TriesInv, FlowInv, Loaded, Due, disk, locals
<1>11. CASE RollbackFails
  BY <1>11, <1>a, <1>b
  DEF RollbackFails, TriesInv, FlowInv, Loaded, Due, disk, locals
<1>12. CASE TakeSlot /\ SlotAsserted
  <2>1. /\ Loaded /\ ab_data \in Metadata /\ slot_index \in Slots /\ data = NULL
        /\ slot_is_bootable(ab_data[slot_index])
    BY <1>12 DEF TakeSlot, FlowInv, TypeOK
  <2>2. ASSUME NEW s \in Slots
        PROVE  attempts[s] + ab_data'[s].tries + Due(ab_data, s)' <= MaxTries
    <3>1. attempts[s] + ab_data[s].tries <= MaxTries /\ ab_data[s].tries \in Nat
      BY <1>a, <1>b, <2>1 DEF TriesInv, Due
    <3>2. CASE s = slot_index
      <4>1. ab_data'[s] = ChargeTry(ab_data[s]) /\ data' = s
        BY <1>12, <2>1, <3>2 DEF TakeSlot, Metadata
      <4>2. /\ ChargeTry(ab_data[s]) \in SlotData
            /\ ChargeTry(ab_data[s]).successful = ab_data[s].successful
            /\ ~ab_data[s].successful => ChargeTry(ab_data[s]).tries + 1 = ab_data[s].tries
            /\ ChargeTry(ab_data[s]).tries <= ab_data[s].tries
        BY <1>b, <2>1, <3>2, ChargeTryType
      <4>3. ChargeTry(ab_data[s]).tries \in Nat
        BY <4>2 DEF SlotData
      <4>4. QED
        BY <1>a, <3>1, <4>1, <4>2, <4>3 DEF Due
    <3>3. CASE s # slot_index
      BY <1>12, <1>a, <2>1, <3>1, <3>3 DEF TakeSlot, Due, Metadata
    <3>4. QED
      BY <3>2, <3>3
  <2>3. QED
    BY <1>12, <2>1, <2>2 DEF TakeSlot, TriesInv, disk
<1>13. CASE SaveMetadata
  BY <1>13, <1>a, <1>b
  DEF SaveMetadata, TriesInv, FlowInv, Loaded, Due, disk, locals, FlowReturns, AttemptsFollowReset
<1>14. CASE SaveUninitialized
  BY <1>14, <1>a, <1>b
  DEF SaveUninitialized, TriesInv, FlowInv, Loaded, Due, disk, locals, FlowReturns, AttemptsFollowReset
<1>15. CASE SaveFails
  BY <1>15, <1>a, <1>b
  DEF SaveFails, TriesInv, FlowInv, Loaded, Due, disk, locals, FlowReturns, AttemptsFollowReset
<1>16. CASE BootKernel
  BY <1>16, <1>a, <1>b
  DEF BootKernel, TriesInv, FlowInv, Loaded, Due, disk, locals, TypeOK
<1>17. CASE KernelFails
  BY <1>17, <1>a, <1>b
  DEF KernelFails, TriesInv, FlowInv, Loaded, Due, disk, locals
<1>18. CASE GiveUp
  BY <1>18, <1>a, <1>b
  DEF GiveUp, TriesInv, FlowInv, Loaded, Due, disk, locals
<1>19. CASE Restart
  BY <1>19, <1>a, <1>b
  DEF Restart, TriesInv, FlowInv, Loaded, Due, disk, locals, NoLocals
<1>20. CASE PowerCut
  BY <1>20, <1>a, <1>b
  DEF PowerCut, TriesInv, FlowInv, Loaded, Due, disk, locals, NoLocals
<1>21. ASSUME NEW s \in Slots,
              MarkSlotActive(s) \/ MarkSlotUnbootable(s) \/ MarkSlotSuccessful(s)
       PROVE  TriesInv'
  <2>1. /\ LoadedRecord \in Metadata
        /\ misc # Corrupt => LoadedRecord = misc
    BY <1>a, InitRecordType DEF LoadedRecord
  <2>2. ~Loaded' /\ pc' = "os"
    BY <1>21
    DEF MarkSlotActive, MarkSlotUnbootable, MarkSlotSuccessful, FlowInv, Loaded, locals
  <2> DEFINE m == Normalized(LoadedRecord)
  <2>3. /\ m \in Metadata
        /\ \A t \in Slots : m[t].tries <= LoadedRecord[t].tries
    BY <2>1, NormalizedType
  <2>4. misc' \in Metadata
    BY <1>21, <2>3, MarkedType DEF MarkSlotActive, MarkSlotUnbootable, MarkSlotSuccessful
  <2>5. ASSUME NEW t \in Slots
        PROVE  attempts'[t] + misc'[t].tries <= MaxTries
    <3>1. misc'[t].tries \in 0 .. MaxTries /\ m[t].tries \in 0 .. MaxTries
      BY <1>b, <2>3, <2>4
    <3>2. CASE attempts'[t] = 0
      BY <3>1, <3>2
    <3>3. CASE attempts'[t] # 0
      <4>1. misc # Corrupt /\ attempts'[t] = attempts[t] /\ (MarkSlotActive(s) => t # s)
        BY <1>21, <2>4, <3>3
        DEF MarkSlotActive, MarkSlotUnbootable, MarkSlotSuccessful, AttemptsFollowReset
      <4>2. misc'[t].tries <= m[t].tries
        BY <1>21, <2>3, <4>1, MarkedType
        DEF MarkSlotActive, MarkSlotUnbootable, MarkSlotSuccessful
      <4>3. m[t].tries <= misc[t].tries /\ misc[t].tries \in Nat
        BY <1>a, <1>b, <2>1, <2>3, <4>1
      <4>4. QED
        BY <1>a, <3>1, <4>1, <4>2, <4>3 DEF TriesInv
    <3>4. QED
      BY <3>2, <3>3
  <2>6. QED
    BY <1>a, <2>2, <2>4, <2>5, <1>b DEF TriesInv
<1>22. CASE MarkFails
  BY <1>22, <1>a, <1>b, InitRecordType
  DEF MarkFails, AttemptsFollowReset, TriesInv, FlowInv, Loaded, locals
<1>23. CASE InstallImage
  BY <1>23 DEF InstallImage, TriesInv, Loaded, Due, locals
<1>24. ASSUME NEW s \in Slots, CorruptImage(s)
       PROVE  TriesInv'
  BY <1>24 DEF CorruptImage, TriesInv, Loaded, Due, locals
<1>25. CASE ToggleLock
  BY <1>25 DEF ToggleLock, TriesInv, Loaded, Due, locals
<1>26. CASE UNCHANGED vars
  BY <1>26 DEF vars, TriesInv, Loaded, Due, disk, locals
<1>27. CASE PowerOnFails \/ VerifyAborts \/ (TakeSlot /\ ~SlotAsserted)
  <2>1. Aborts /\ UNCHANGED <<disk, attempts>>
    BY <1>27 DEF PowerOnFails, VerifyAborts, TakeSlot
  <2>2. QED
    BY <2>1 DEF Aborts, NoLocals, TriesInv, Loaded, Due, disk
<1>28. QED
  BY <1>1, <1>2, <1>3, <1>4, <1>5, <1>6, <1>7, <1>8, <1>9, <1>10, <1>11, <1>12, <1>13,
     <1>14, <1>15, <1>16, <1>17, <1>18, <1>19, <1>20, <1>21, <1>22, <1>23, <1>24, <1>25,
     <1>26, <1>27 DEF Next, Firmware, Faults, System

---------------------------------------------------------------------------
(* The invariant and the properties it implies.                            *)

LEMMA Invariance == Spec => []IInv
<1>1. Init => IInv
  BY TypeInit, FlowInit, TriesInit DEF IInv
<1>2. IInv /\ [Next]_vars => IInv'
  BY TypeStep, FlowStep, TriesStep DEF IInv
<1>3. QED
  BY <1>1, <1>2, PTL DEF Spec

(* Every variable keeps its type, for any number of slots' tries, rollback *)
(* index locations and index values: no priority and no try counter of the *)
(* record leaves its range whatever avb_ab_flow() and the mark functions do.*)
THEOREM TypeCorrect == Spec => []TypeOK
<1>1. IInv => TypeOK
  BY DEF IInv
<1>2. QED
  BY <1>1, Invariance, PTL

(* Tries are charged durably before they are used (avb_ab_flow()).         *)
THEOREM TriesAreAccounted == Spec => []TriesAccounted
<1>1. IInv => TriesAccounted
  BY DEF IInv, TriesInv, TriesAccounted
<1>2. QED
  BY <1>1, Invariance, PTL

(* No unconfirmed slot is started more than MaxTries times.                *)
THEOREM AttemptsAreBounded == Spec => []AttemptsBounded
<1>1. IInv => AttemptsBounded
  BY DEF IInv, TriesInv, AttemptsBounded
<1>2. QED
  BY <1>1, Invariance, PTL

(* UefiMain() gets slot data exactly with the OK results.                  *)
THEOREM DataIsReturnedIffOk == Spec => []DataReturnedIffOk
<1>1. IInv => DataReturnedIffOk
  BY DEF IInv, FlowInv, DataReturnedIffOk
<1>2. QED
  BY <1>1, Invariance, PTL

-----------------------------------------------------------------------------
(***************************************************************************)
(* What AvbAB starts, stores and keeps, on top of that invariant.          *)
(* VerifyInv relates the data of a slot to its image and to the stored     *)
(* rollback indexes, through the loops of avb_ab_flow(); RecordInv relates *)
(* the flow's copy of the record to the record it was loaded from.         *)
(***************************************************************************)

(* A slot that a locked device may start. *)
Good(s) == image[s].kind \in Intact /\ Supported(image[s])

(* Whether the verification loop is done with slot s. *)
Visited(s) == pc = "rollback" \/ (pc = "verify" /\ s < n)

VerifyInv ==
  /\ pc \notin {"verify", "rollback", "save"} =>
       n = 0 /\ ~saw_allowed /\ \A s \in Slots : slot_data[s] = NULL
  /\ saw_allowed => unlocked
  /\ \A s \in Slots : Visited(s) /\ slot_is_bootable(ab_data[s]) => slot_data[s] # NULL
  /\ \A s \in Slots : slot_data[s] # NULL =>
       /\ slot_data[s] = ReturnedIndex(image[s])
       /\ Good(s) \/ (unlocked /\ saw_allowed)
  /\ pc = "save" /\ data # NULL => (saw_allowed => ret = "OK_WITH_VERIFICATION_ERROR")
  /\ pc = "save" /\ data # NULL => \A s \in Slots :
       s = slot_index \/ slot_is_bootable(ab_data[s]) => Good(s) \/ (unlocked /\ saw_allowed)
  /\ pc = "main" /\ ret \in OkResults => \A s \in Slots :
       s = slot_index \/ slot_is_bootable(misc[s]) =>
         Good(s) \/ (unlocked /\ ret = "OK_WITH_VERIFICATION_ERROR")

(* A slot that lost its successful mark to the flow does not verify, and   *)
(* will not when the flow has updated the rollback indexes.                *)
Rejected(s) ==
  \/ image[s].kind \notin Intact
  \/ ~unlocked /\ ~Supported(image[s])

RecordInv ==
  /\ ~Loaded => ab_data \in {Uninit, avb_ab_data_init}
  /\ Loaded => \A s \in Slots :
       /\ ab_data[s] \in {slot_normalize(misc[s]), UnbootableSlot}
            \cup (IF data = s THEN {ChargeTry(slot_normalize(misc[s]))} ELSE {})
       /\ data = s => slot_is_bootable(slot_normalize(misc[s]))
            /\ ab_data[s] = ChargeTry(slot_normalize(misc[s]))
       /\ slot_normalize(misc[s]).successful /\ ~ab_data[s].successful => Rejected(s)
  /\ pc = "main" /\ data # NULL =>
       misc # Corrupt /\ (misc[data].successful => slot_normalize(misc[data]).successful)

SafeInv == IInv /\ VerifyInv /\ RecordInv

---------------------------------------------------------------------------
(* The rollback indexes.                                                   *)

LEMMA ValueBelowData ==
  ASSUME TypeOK, NEW l \in Locations, NEW s \in Slots, slot_data[s] # NULL
  PROVE  RollbackIndexValue(l) <= slot_data[s][l]
<1>1. \A t \in Slots : slot_data[t] # NULL => slot_data[t][l] \in 0 .. MaxIndex
  BY DEF TypeOK, Indexes
<1>2. QED
  BY <1>1, ConstantsAssumption DEF RollbackIndexValue, Slots

LEMMA ValueIsSomeData ==
  ASSUME TypeOK, NEW l \in Locations, RollbackIndexValue(l) # 0
  PROVE  \E s \in Slots : slot_data[s] # NULL /\ RollbackIndexValue(l) = slot_data[s][l]
BY DEF RollbackIndexValue, Slots

(* What a turn of the rollback index loop may leave in storage: at each    *)
(* location the old index, or one that no slot with data is behind.        *)
StoredMoves ==
  \A l \in Locations :
    \/ stored'[l] = stored[l]
    \/ /\ stored'[l] = RollbackIndexValue(l)
       /\ RollbackIndexValue(l) # 0
       /\ pc = "rollback"

LEMMA StoredStep ==
  ASSUME TypeOK, [Next]_vars
  PROVE  StoredMoves
<1>1. ASSUME UNCHANGED stored PROVE StoredMoves
  BY <1>1 DEF StoredMoves
<1>2. ASSUME pc = "rollback", n \in Locations, RollbackIndexValue(n) # 0,
             stored' = Written(n, RollbackIndexValue(n))
      PROVE  StoredMoves
  BY <1>2 DEF StoredMoves, Written, TypeOK, Indexes
<1>3. CASE UpdateRollbackIndex
  BY <1>1, <1>2, <1>3 DEF UpdateRollbackIndex
<1>4. CASE RollbackFails
  BY <1>1, <1>2, <1>4 DEF RollbackFails
<1>5. CASE Firmware /\ ~UpdateRollbackIndex
  BY <1>1, <1>5
  DEF Firmware, PowerOn, LoadMetadata, ResetMetadata, VerifySlot, SkipUnbootableSlot,
      SelectSlot, NoBootableSlots, TakeSlot, SaveMetadata, SaveUninitialized, BootKernel,
      GiveUp, FlowReturns, disk
<1>6. CASE Faults /\ ~RollbackFails
  BY <1>1, <1>6
  DEF Faults, PowerOnFails, VerifyAborts, LoadFails, VerifyFails, SaveFails, KernelFails, PowerCut, MarkFails,
      FlowReturns, disk
<1>7. CASE Restart \/ System \/ UNCHANGED vars
  BY <1>1, <1>7
  DEF Restart, System, MarkSlotActive, MarkSlotUnbootable, MarkSlotSuccessful,
      InstallImage, CorruptImage, ToggleLock, vars, disk
<1>8. QED
  BY <1>3, <1>4, <1>5, <1>6, <1>7 DEF Next

(* A slot with data survives the update, also when its index is 0 because  *)
(* its verification is disabled.                                           *)
LEMMA GoodStays ==
  ASSUME TypeOK, TypeOK', StoredMoves, VerifyInv, UNCHANGED image,
         NEW s \in Slots, slot_data[s] # NULL, Good(s)
  PROVE  Good(s)'
<1>1. ASSUME NEW l \in Locations, l = 0 \/ image[s].kind # "unchecked"
      PROVE  image[s].index[l] >= stored'[l]
  <2>1. image[s].index[l] \in Nat /\ image[s].index[l] >= stored[l]
    BY <1>1 DEF Good, Supported, TypeOK, Images, Indexes
  <2>2. slot_data[s] = ReturnedIndex(image[s])
    BY DEF VerifyInv
  <2>3. ASSUME stored'[l] = RollbackIndexValue(l), RollbackIndexValue(l) # 0
        PROVE  image[s].index[l] >= stored'[l]
    <3>1. RollbackIndexValue(l) \in Nat /\ RollbackIndexValue(l) <= slot_data[s][l]
      BY RollbackValueType, ValueBelowData
    <3>2. image[s].kind # "unchecked"
      BY <2>2, <2>3, <3>1 DEF ReturnedIndex
    <3>3. QED
      BY <2>1, <2>2, <2>3, <3>1, <3>2 DEF ReturnedIndex
  <2>4. QED
    BY <2>1, <2>3 DEF StoredMoves
<1>2. QED
  BY <1>1 DEF Good, Supported

(* Rollback protection.  The index that is written is that of a slot that  *)
(* verified, and so not behind the one that is stored.                     *)
LEMMA LockedStep ==
  ASSUME TypeOK, TypeOK', VerifyInv, [Next]_vars, ~unlocked, NEW l \in Locations
  PROVE  stored'[l] >= stored[l]
<1>1. stored[l] \in Nat
  BY DEF TypeOK, Indexes
<1>2. ASSUME stored'[l] = RollbackIndexValue(l), RollbackIndexValue(l) # 0
      PROVE  stored'[l] >= stored[l]
  <2>1. PICK s \in Slots : slot_data[s] # NULL /\ RollbackIndexValue(l) = slot_data[s][l]
    BY <1>2, ValueIsSomeData
  <2>2. slot_data[s] = ReturnedIndex(image[s]) /\ Supported(image[s])
    BY <2>1 DEF VerifyInv, Good
  <2>3. image[s].kind # "unchecked"
    BY <1>2, <2>1, <2>2 DEF ReturnedIndex
  <2>4. QED
    BY <1>2, <2>1, <2>2, <2>3 DEF ReturnedIndex, Supported
<1>3. QED
  BY <1>1, <1>2, StoredStep DEF StoredMoves

---------------------------------------------------------------------------
(* The verified data.                                                      *)

(* A slot that the verification did not have made unbootable is good, or   *)
(* an error was allowed on an unlocked device.                             *)
LEMMA VerifyOutcome ==
  ASSUME TypeOK, NEW s \in Slots
  PROVE  /\ ~VerifyOutcomes(image[s]).unbootable <=> VerifyOutcomes(image[s]).data # NULL
         /\ VerifyOutcomes(image[s]).data # NULL =>
              /\ VerifyOutcomes(image[s]).data = ReturnedIndex(image[s])
              /\ Good(s) \/ (unlocked /\ VerifyOutcomes(image[s]).allowed)
         /\ VerifyOutcomes(image[s]).unbootable => Rejected(s)
         /\ VerifyOutcomes(image[s]).allowed => unlocked
<1>1. ReturnedIndex(image[s]) # NULL
  <2>1. image[s].index \in Indexes /\ [l \in Locations |-> 0] \in Indexes
    BY ConstantsAssumption DEF TypeOK, Images, Indexes
  <2>2. QED
    BY <2>1, ConstantsAssumption DEF ReturnedIndex
<1>2. VerifyResult(image[s]) \in {"verified", "unverified", "malformed"}
  BY DEF VerifyResult
<1>3. /\ VerifyResult(image[s]) = "verified" <=> Good(s)
      /\ VerifyResult(image[s]) = "malformed" => image[s].kind \notin Intact
  BY DEF VerifyResult, Good, TypeOK, Images, Kinds, Intact
<1>4. QED
  BY <1>1, <1>2, <1>3 DEF VerifyOutcomes, Rejected, Good

(* What is selected has data: the assertions of avb_ab_flow() hold.        *)
LEMMA SelectedHasData ==
  ASSUME TypeOK, FlowInv, VerifyInv, pc = "rollback"
  PROVE  SlotAsserted
BY DEF TypeOK, FlowInv, VerifyInv, Visited, SlotAsserted

LEMMA VerifyInvInit == Init => VerifyInv
BY DEF Init, VerifyInv, Visited

LEMMA VerifyInvStep ==
  ASSUME IInv, IInv', VerifyInv, [Next]_vars
  PROVE  VerifyInv'
<1> USE ConstantsAssumption
<1>a. TypeOK /\ TypeOK' /\ FlowInv /\ FlowInv' /\ StoredMoves
  BY StoredStep DEF IInv
<1>1. CASE PowerOn
  BY <1>1 DEF PowerOn, VerifyInv, Visited, Good, Supported, disk, locals
<1>2. CASE LoadMetadata
  BY <1>2, <1>a DEF LoadMetadata, VerifyInv, Visited, Good, Supported, disk, TypeOK, Slots
<1>3. CASE ResetMetadata
  BY <1>3, <1>a DEF ResetMetadata, VerifyInv, Visited, Good, Supported, disk, TypeOK, Slots
<1>4. CASE LoadFails
  BY <1>4, <1>a DEF LoadFails, VerifyInv, Visited, Good, Supported, disk, FlowInv
<1>5. CASE VerifySlot
  <2> DEFINE v == VerifyOutcomes(image[n])
  <2>1. /\ pc = "verify" /\ pc' = "verify" /\ n \in Slots /\ n' = n + 1
        /\ slot_data' = [slot_data EXCEPT ![n] = v.data]
        /\ ab_data' = IF v.unbootable THEN [ab_data EXCEPT ![n] = UnbootableSlot] ELSE ab_data
        /\ saw_allowed' = (saw_allowed \/ v.allowed)
        /\ UNCHANGED <<image, stored, unlocked>>
    BY <1>5 DEF VerifySlot, disk
  <2>2. /\ ~v.unbootable <=> v.data # NULL
        /\ v.data # NULL => v.data = ReturnedIndex(image[n]) /\ (Good(n) \/ (unlocked /\ v.allowed))
        /\ v.allowed => unlocked
    BY <1>a, <2>1, VerifyOutcome
  <2>3. ab_data \in Metadata /\ slot_data \in [Slots -> Indexes \cup {NULL}]
    BY <1>a, <2>1 DEF FlowInv, TypeOK
  <2>4. ASSUME NEW s \in Slots, slot_data'[s] # NULL
        PROVE  /\ slot_data'[s] = ReturnedIndex(image[s])
               /\ Good(s) \/ (unlocked /\ saw_allowed')
    BY <2>1, <2>2, <2>3, <2>4 DEF VerifyInv
  <2>5. ASSUME NEW s \in Slots, s < n', slot_is_bootable(ab_data'[s])
        PROVE  slot_data'[s] # NULL
    <3>1. CASE s = n
      BY <2>1, <2>2, <2>3, <2>5, <3>1 DEF slot_is_bootable, UnbootableSlot, Metadata
    <3>2. CASE s # n
      <4>1. s < n /\ ab_data'[s] = ab_data[s]
        BY <2>1, <2>3, <2>5, <3>2 DEF Slots, Metadata
      <4>2. QED
        BY <2>1, <2>3, <2>5, <3>2, <4>1 DEF VerifyInv, Visited
    <3>3. QED
      BY <3>1, <3>2
  <2>6. saw_allowed' => unlocked'
    BY <2>1, <2>2 DEF VerifyInv
  <2>7. QED
    BY <2>1, <2>4, <2>5, <2>6 DEF VerifyInv, Visited, Good, Supported
<1>6. CASE SkipUnbootableSlot
  <2>1. /\ pc = "verify" /\ n \in Slots /\ n' = n + 1 /\ ~slot_is_bootable(ab_data[n])
        /\ UNCHANGED <<image, stored, unlocked, pc, locals>>
    BY <1>6 DEF SkipUnbootableSlot, disk
  <2>2. ASSUME NEW s \in Slots, s < n', s # n PROVE s < n
    BY <2>1, <2>2 DEF Slots
  <2>3. QED
    BY <2>1, <2>2 DEF VerifyInv, Visited, Good, Supported, locals
<1>7. CASE VerifyFails
  BY <1>7, <1>a DEF VerifyFails, VerifyInv, Visited, Good, Supported, disk, FlowInv
<1>8. CASE SelectSlot
  <2>1. \A s \in Slots : s < n
    BY <1>8 DEF SelectSlot, Slots
  <2>2. QED
    BY <1>8, <2>1 DEF SelectSlot, VerifyInv, Visited, Good, Supported, disk
<1>9. CASE NoBootableSlots
  BY <1>9, <1>a DEF NoBootableSlots, VerifyInv, Visited, Good, Supported, disk, FlowInv
<1>10. CASE UpdateRollbackIndex
  <2>1. UNCHANGED <<image, unlocked, locals, pc>> /\ pc = "rollback"
    BY <1>10 DEF UpdateRollbackIndex
  <2>2. QED
    BY <1>a, <2>1, GoodStays DEF VerifyInv, Visited, locals
<1>11. CASE RollbackFails
  <2>1. /\ UNCHANGED <<image, unlocked, ab_data, slot_data, saw_allowed, data>>
        /\ pc = "rollback" /\ pc' = "save"
    BY <1>11 DEF RollbackFails
  <2>2. QED
    BY <1>a, <2>1, GoodStays DEF VerifyInv, Visited, FlowInv
<1>12. CASE TakeSlot
  <2>1. /\ pc = "rollback" /\ pc' = "save"
        /\ slot_data' = [slot_data EXCEPT ![slot_index] = NULL]
        /\ ab_data' = [ab_data EXCEPT ![slot_index] = ChargeTry(@)]
        /\ ret' = IF saw_allowed THEN "OK_WITH_VERIFICATION_ERROR" ELSE "OK"
        /\ UNCHANGED <<image, stored, unlocked, saw_allowed, slot_index>>
    BY <1>12, <1>a, SelectedHasData DEF TakeSlot, disk
  <2>2. /\ ab_data \in Metadata /\ slot_index \in Slots /\ slot_is_bootable(ab_data[slot_index])
        /\ slot_data \in [Slots -> Indexes \cup {NULL}]
    BY <1>a, <2>1 DEF FlowInv, TypeOK
  <2>3. ASSUME NEW s \in Slots, slot_is_bootable(ab_data'[s])
        PROVE  slot_is_bootable(ab_data[s])
    BY <2>1, <2>2, <2>3 DEF Metadata
  <2>4. ASSUME NEW s \in Slots, s = slot_index \/ slot_is_bootable(ab_data'[s])
        PROVE  Good(s) \/ (unlocked /\ saw_allowed)
    BY <2>1, <2>2, <2>3, <2>4 DEF VerifyInv, Visited
  <2>5. \A s \in Slots : slot_data'[s] # NULL => slot_data'[s] = slot_data[s]
    BY <2>1, <2>2
  <2>6. (saw_allowed' => unlocked') /\ (saw_allowed' => ret' = "OK_WITH_VERIFICATION_ERROR")
    BY <2>1 DEF VerifyInv
  <2>7. QED
    BY <2>1, <2>4, <2>5, <2>6 DEF VerifyInv, Visited, Good, Supported
<1>13. CASE SaveMetadata
  <2>1. /\ pc = "save" /\ pc' = "main" /\ n' = 0 /\ slot_data' = [s \in Slots |-> NULL]
        /\ misc' = ab_data /\ saw_allowed' = FALSE
        /\ UNCHANGED <<image, stored, unlocked, slot_index, ret>>
    BY <1>13, <1>a DEF SaveMetadata, FlowReturns, FlowInv
  <2>2. ret \in OkResults => data # NULL
    BY <1>a, <2>1 DEF FlowInv
  <2>3. QED
    BY <2>1, <2>2 DEF VerifyInv, Visited, Good, Supported
<1>14. CASE SaveUninitialized
  BY <1>14 DEF SaveUninitialized, FlowReturns, VerifyInv, Visited, IoErrors, OkResults, Slots
<1>15. CASE SaveFails
  BY <1>15 DEF SaveFails, FlowReturns, VerifyInv, Visited, IoErrors, OkResults, Slots
<1>16. CASE BootKernel
  BY <1>16 DEF BootKernel, VerifyInv, Visited, Good, Supported, disk, locals
<1>17. CASE KernelFails
  BY <1>17 DEF KernelFails, VerifyInv, Visited, Good, Supported, disk, locals
<1>18. CASE GiveUp
  BY <1>18 DEF GiveUp, VerifyInv, Visited, Good, Supported, disk, locals
<1>19. CASE Restart
  BY <1>19 DEF Restart, NoLocals, VerifyInv, Visited, Slots
<1>20. CASE PowerCut
  BY <1>20 DEF PowerCut, NoLocals, VerifyInv, Visited, Slots
<1>21. CASE System \/ MarkFails
  <2>1. UNCHANGED <<pc, n, locals>> /\ pc \in {"os", "off"}
    BY <1>21
    DEF System, MarkSlotActive, MarkSlotUnbootable, MarkSlotSuccessful, MarkFails,
        InstallImage, CorruptImage, ToggleLock
  <2>2. QED
    BY <2>1 DEF VerifyInv, Visited, locals
<1>22. CASE UNCHANGED vars
  BY <1>22 DEF vars, VerifyInv, Visited, Good, Supported, disk, locals
<1>23. CASE PowerOnFails \/ VerifyAborts
  BY <1>23 DEF PowerOnFails, VerifyAborts, Aborts, NoLocals, VerifyInv, Visited, Slots
<1>24. QED
  BY <1>1, <1>2, <1>3, <1>4, <1>5, <1>6, <1>7, <1>8, <1>9, <1>10, <1>11, <1>12, <1>13,
     <1>14, <1>15, <1>16, <1>17, <1>18, <1>19, <1>20, <1>21, <1>22, <1>23
  DEF Next, Firmware, Faults

---------------------------------------------------------------------------
(* The flow's copy of the record.                                          *)

LEMMA NormalizeFacts ==
  ASSUME NEW d \in SlotData
  PROVE  /\ slot_normalize(d) \in {d, UnbootableSlot}
         /\ slot_normalize(slot_normalize(d)) = slot_normalize(d)
         /\ slot_normalize(d).successful => d.successful
         /\ slot_is_bootable(slot_normalize(d)) =>
              /\ slot_normalize(d) = d
              /\ d.successful => d.tries = 0
BY ConstantsAssumption DEF slot_normalize, UnbootableSlot, SlotData, slot_is_bootable

LEMMA RecordInvInit == Init => RecordInv
BY DEF Init, RecordInv, Loaded

LEMMA RejectedStays ==
  ASSUME TypeOK, TypeOK', VerifyInv, [Next]_vars, UNCHANGED <<image, unlocked>>,
         NEW s \in Slots, Rejected(s)
  PROVE  Rejected(s)'
<1>1. ASSUME ~unlocked, NEW l \in Locations, image[s].index[l] < stored[l]
      PROVE  image[s].index[l] < stored'[l]
  <2>1. image[s].index[l] \in Nat /\ stored[l] \in Nat /\ stored'[l] \in Nat
    BY DEF TypeOK, Images, Indexes
  <2>2. QED
    BY <1>1, <2>1, LockedStep
<1>2. \A l \in Locations :
        image[s].index[l] \in Nat /\ stored[l] \in Nat /\ stored'[l] \in Nat
  BY DEF TypeOK, Images, Indexes
<1>3. QED
  BY <1>1, <1>2 DEF Rejected, Supported

LEMMA RecordInvStep ==
  ASSUME IInv, IInv', VerifyInv, VerifyInv', RecordInv, [Next]_vars
  PROVE  RecordInv'
<1> USE ConstantsAssumption
<1>a. TypeOK /\ TypeOK' /\ FlowInv /\ FlowInv'
  BY DEF IInv
<1>b. \A m \in Metadata : \A s \in Slots : m[s] \in SlotData
  BY DEF Metadata
<1>1. CASE PowerOn
  BY <1>1 DEF PowerOn, RecordInv, Loaded, Rejected, Supported, disk, locals
<1>2. CASE LoadMetadata \/ ResetMetadata
  <2>1. /\ pc' = "verify" /\ data' = NULL /\ misc' \in Metadata
        /\ ab_data' = Normalized(misc') /\ ab_data_orig' = misc'
    BY <1>2, <1>a, InitRecordType DEF LoadMetadata, ResetMetadata, TypeOK, FlowInv, disk
  <2>2. \A s \in Slots : ab_data'[s] = slot_normalize(misc'[s])
    BY <2>1 DEF Normalized
  <2>3. QED
    BY <2>1, <2>2 DEF RecordInv, Loaded
<1>3. CASE LoadFails
  BY <1>3, <1>a DEF LoadFails, RecordInv, Loaded, FlowInv, disk
<1>4. CASE VerifySlot
  <2>1. /\ n \in Slots /\ pc' = "verify" /\ Loaded /\ Loaded' /\ data = NULL /\ data' = NULL
        /\ slot_is_bootable(ab_data[n]) /\ ab_data \in Metadata
        /\ \/ ab_data' = ab_data
           \/ /\ ab_data' = [ab_data EXCEPT ![n] = UnbootableSlot]
              /\ VerifyOutcomes(image[n]).unbootable
        /\ UNCHANGED <<misc, image, stored, unlocked>>
    BY <1>4, <1>a DEF VerifySlot, FlowInv, Loaded, disk
  <2>2. ASSUME NEW s \in Slots
        PROVE  /\ ab_data'[s] \in {slot_normalize(misc[s]), UnbootableSlot}
               /\ slot_normalize(misc[s]).successful /\ ~ab_data'[s].successful => Rejected(s)
    <3>1. CASE ab_data'[s] = ab_data[s]
      BY <2>1, <3>1 DEF RecordInv
    <3>2. CASE ab_data'[s] # ab_data[s]
      <4>1. s = n /\ ab_data'[s] = UnbootableSlot /\ VerifyOutcomes(image[s]).unbootable
        BY <2>1, <3>2 DEF Metadata
      <4>2. QED
        BY <1>a, <4>1, VerifyOutcome
    <3>3. QED
      BY <3>1, <3>2
  <2>3. QED
    BY <2>1, <2>2 DEF RecordInv, Rejected, Supported
<1>5. CASE SkipUnbootableSlot
  BY <1>5, <1>a
  DEF SkipUnbootableSlot, RecordInv, Loaded, Rejected, Supported, disk, locals, FlowInv
<1>6. CASE VerifyFails
  BY <1>6, <1>a DEF VerifyFails, RecordInv, Loaded, Rejected, Supported, disk, FlowInv
<1>7. CASE SelectSlot
  BY <1>7, <1>a DEF SelectSlot, RecordInv, Loaded, Rejected, Supported, disk, FlowInv
<1>8. CASE NoBootableSlots
  BY <1>8, <1>a DEF NoBootableSlots, RecordInv, Loaded, Rejected, Supported, disk, FlowInv
<1>9. CASE UpdateRollbackIndex \/ RollbackFails
  <2>1. /\ pc = "rollback" /\ pc' # "main"
        /\ UNCHANGED <<misc, image, unlocked, ab_data, ab_data_orig, data>>
    BY <1>9 DEF UpdateRollbackIndex, RollbackFails, locals
  <2>2. QED
    BY <1>a, <2>1, RejectedStays DEF RecordInv, Loaded
<1>10. CASE TakeSlot
  <2>1. /\ pc = "rollback" /\ pc' = "save" /\ data = NULL /\ data' = slot_index /\ Loaded /\ Loaded'
        /\ ab_data' = [ab_data EXCEPT ![slot_index] = ChargeTry(@)]
        /\ ab_data \in Metadata /\ misc \in Metadata /\ slot_index \in Slots
        /\ slot_is_bootable(ab_data[slot_index])
        /\ UNCHANGED <<misc, image, stored, unlocked>>
    BY <1>10, <1>a, SelectedHasData DEF TakeSlot, FlowInv, TypeOK, Loaded, disk
  <2>2. ASSUME NEW s \in Slots
        PROVE  /\ ab_data'[s] \in {slot_normalize(misc[s]), UnbootableSlot}
                    \cup (IF slot_index = s THEN {ChargeTry(slot_normalize(misc[s]))} ELSE {})
               /\ slot_index = s => slot_is_bootable(slot_normalize(misc[s]))
                    /\ ab_data'[s] = ChargeTry(slot_normalize(misc[s]))
               /\ slot_normalize(misc[s]).successful /\ ~ab_data'[s].successful => Rejected(s)
    <3>1. CASE s = slot_index
      <4>1. ab_data[s] = slot_normalize(misc[s])
        BY <2>1, <3>1 DEF RecordInv, slot_is_bootable, UnbootableSlot
      <4>2. ab_data'[s] = ChargeTry(ab_data[s]) /\ ChargeTry(ab_data[s]).successful = ab_data[s].successful
        BY <1>b, <2>1, <3>1, ChargeTryType DEF Metadata
      <4>3. QED
        BY <2>1, <3>1, <4>1, <4>2
    <3>2. CASE s # slot_index
      <4>1. ab_data'[s] = ab_data[s]
        BY <2>1, <3>2 DEF Metadata
      <4>2. QED
        BY <2>1, <3>2, <4>1 DEF RecordInv
    <3>3. QED
      BY <3>1, <3>2
  <2>3. QED
    BY <2>1, <2>2 DEF RecordInv, Rejected, Supported
<1>11. CASE SaveMetadata
  <2>1. /\ pc = "save" /\ Loaded /\ ~Loaded' /\ misc' = ab_data /\ ab_data' = Uninit /\ data' = data
        /\ misc \in Metadata /\ ab_data \in Metadata
    BY <1>11, <1>a DEF SaveMetadata, FlowReturns, FlowInv, Loaded, TypeOK
  <2>2. ASSUME data # NULL
        PROVE  /\ misc' # Corrupt
               /\ misc'[data].successful => slot_normalize(misc'[data]).successful
    <3>1. data \in Slots
      BY <1>a, <2>2 DEF TypeOK
    <3>2. /\ misc'[data] = ChargeTry(slot_normalize(misc[data]))
          /\ slot_is_bootable(slot_normalize(misc[data]))
      BY <2>1, <3>1 DEF RecordInv
    <3>3. misc[data] \in SlotData
      BY <1>b, <2>1, <3>1
    <3>4. QED
      BY <2>1, <3>2, <3>3, NormalizeFacts DEF ChargeTry, slot_normalize, slot_is_bootable, SlotData
  <2>3. QED
    BY <2>1, <2>2 DEF RecordInv
<1>12. CASE SaveUninitialized \/ SaveFails
  <2>1. ab_data' = Uninit /\ data' = NULL /\ ~Loaded'
    BY <1>12 DEF SaveUninitialized, SaveFails, FlowReturns, Loaded
  <2>2. QED
    BY <2>1 DEF RecordInv
<1>13. CASE BootKernel \/ KernelFails \/ GiveUp
  <2>1. pc = "main" /\ pc' # "main" /\ UNCHANGED locals
    BY <1>13 DEF BootKernel, KernelFails, GiveUp
  <2>2. QED
    BY <1>a, <2>1 DEF RecordInv, FlowInv, locals, Loaded
<1>14. CASE Restart \/ PowerCut
  <2>1. ab_data' = Uninit /\ data' = NULL /\ ~Loaded'
    BY <1>14 DEF Restart, PowerCut, NoLocals, Loaded
  <2>2. QED
    BY <2>1 DEF RecordInv
<1>15. CASE System \/ MarkFails
  <2>1. pc \in {"os", "off"} /\ UNCHANGED <<pc, locals>>
    BY <1>15
    DEF System, MarkSlotActive, MarkSlotUnbootable, MarkSlotSuccessful, MarkFails,
        InstallImage, CorruptImage, ToggleLock
  <2>2. QED
    BY <1>a, <2>1 DEF RecordInv, FlowInv, locals, Loaded
<1>16. CASE UNCHANGED vars
  BY <1>16 DEF vars, RecordInv, Loaded, Rejected, Supported, disk, locals
<1>17. CASE PowerOnFails \/ VerifyAborts
  BY <1>17 DEF PowerOnFails, VerifyAborts, Aborts, NoLocals, RecordInv, Loaded
<1>18. QED
  BY <1>1, <1>2, <1>3, <1>4, <1>5, <1>6, <1>7, <1>8, <1>9, <1>10, <1>11, <1>12, <1>13,
     <1>14, <1>15, <1>16, <1>17 DEF Next, Firmware, Faults

---------------------------------------------------------------------------
(* The invariant and the properties it implies.                            *)

LEMMA SafeInvariance == Spec => []SafeInv
<1>1. Init => SafeInv
  BY TypeInit, FlowInit, TriesInit, VerifyInvInit, RecordInvInit DEF IInv, SafeInv
<1>2. SafeInv /\ [Next]_vars => SafeInv'
  <2>1. IInv /\ [Next]_vars => IInv'
    BY TypeStep, FlowStep, TriesStep DEF IInv
  <2>2. QED
    BY <2>1, VerifyInvStep, RecordInvStep DEF SafeInv
<1>3. QED
  BY <1>1, <1>2, PTL DEF Spec

(* avb_ab_flow() of a slot whose data UefiMain() boots: the image is       *)
(* intact and no stored rollback index, those updated for the other slot   *)
(* included, is above its own, unless the unlocked device was told of an   *)
(* error.                                                                  *)
THEOREM StartedImageIsVerified == Spec => []StartedImageVerified
<1>1. SafeInv => StartedImageVerified
  BY DEF SafeInv, IInv, TypeOK, VerifyInv, StartedImageVerified, Good
<1>2. QED
  BY <1>1, SafeInvariance, PTL

(* On a locked device the record saved by avb_ab_flow() calls no slot      *)
(* bootable that it did not find good, rollback indexes included.          *)
THEOREM FallbackSlotsAreUsable == Spec => []FallbackSlotsUsable
<1>1. SafeInv => FallbackSlotsUsable
  BY DEF SafeInv, VerifyInv, FallbackSlotsUsable, Good
<1>2. QED
  BY <1>1, SafeInvariance, PTL

(* The assertions of avb_ab_flow() on the data of the slot that it selected *)
(* by priority hold for every record, image and state of the lock.         *)
THEOREM AssertionsAlwaysHold == Spec => []AssertionsHold
<1>1. SafeInv => AssertionsHold
  BY SelectedHasData DEF SafeInv, IInv, AssertionsHold
<1>2. QED
  BY <1>1, SafeInvariance, PTL

(* A flow that fails before it selects a slot changes the record only by   *)
(* slots that are unbootable.                                              *)
THEOREM FailedFlowRetires == Spec => []FailedFlowOnlyRetires
<1>1. ASSUME SafeInv PROVE FailedFlowOnlyRetires
  <2>1. SUFFICES ASSUME pc = "save", Loaded, data = NULL, NEW s \in Slots
                 PROVE  ab_data[s] \in {ab_data_orig[s], UnbootableSlot}
    BY DEF FailedFlowOnlyRetires
  <2>2. misc = ab_data_orig /\ misc[s] \in SlotData
    BY <1>1, <2>1 DEF SafeInv, IInv, FlowInv, TypeOK, Loaded, Metadata
  <2>3. ab_data[s] \in {slot_normalize(misc[s]), UnbootableSlot}
    BY <1>1, <2>1, ConstantsAssumption DEF SafeInv, RecordInv
  <2>4. QED
    BY <2>2, <2>3, NormalizeFacts
<1>2. QED
  BY <1>1, SafeInvariance, PTL

(* Rollback protection: the loop over the rollback index locations never   *)
(* lowers an index of a locked device.                                     *)
THEOREM LockedIndexesKept == Spec => LockedIndexesNeverDecrease
<1>1. ASSUME SafeInv, SafeInv', [Next]_vars
      PROVE  [~unlocked => \A l \in Locations : stored'[l] >= stored[l]]_vars
  BY <1>1, LockedStep DEF SafeInv, IInv
<1>2. QED
  BY <1>1, SafeInvariance, PTL DEF Spec, LockedIndexesNeverDecrease

LEMMA RejectedFails ==
  ASSUME TypeOK, NEW s \in Slots, Rejected(s)
  PROVE  VerifyResult(image[s]) # "verified"
BY DEF Rejected, VerifyResult, TypeOK, Images, Kinds

LEMMA SuccessStep ==
  ASSUME SafeInv, SafeInv', [Next]_vars, NEW s \in Slots,
         pc \in FlowPhases, misc # Corrupt, misc' # Corrupt,
         slot_normalize(misc[s]).successful, ~misc'[s].successful
  PROVE  VerifyResult(image[s]) # "verified"
<1> USE ConstantsAssumption
<1>a. TypeOK /\ FlowInv /\ RecordInv /\ misc \in Metadata /\ misc[s] \in SlotData
  BY DEF SafeInv, IInv, TypeOK, Metadata
<1>b. misc' # misc
  BY <1>a, NormalizeFacts
<1>1. CASE SaveMetadata \/ (SaveFails /\ misc' = ab_data)
  <2>1. Loaded /\ misc' = ab_data
    BY <1>1, <1>b DEF SaveMetadata, SaveFails
  <2>2. QED
    BY <1>a, <2>1, RejectedFails DEF RecordInv
<1>2. CASE SaveFails /\ misc' # ab_data
  BY <1>2, <1>b DEF SaveFails
<1>3. CASE SaveUninitialized
  BY <1>3, <1>a, <1>b DEF SaveUninitialized, FlowInv
<1>4. CASE Firmware /\ ~SaveMetadata /\ ~SaveUninitialized
  BY <1>4, <1>b
  DEF Firmware, PowerOn, LoadMetadata, ResetMetadata, VerifySlot, SkipUnbootableSlot,
      SelectSlot, NoBootableSlots, UpdateRollbackIndex, TakeSlot, BootKernel, GiveUp, disk
<1>5. CASE Faults /\ ~SaveFails
  BY <1>5, <1>b
  DEF Faults, PowerOnFails, VerifyAborts, LoadFails, VerifyFails, RollbackFails, KernelFails,
      PowerCut, MarkFails,
      FlowPhases, disk
<1>6. CASE Restart \/ System \/ UNCHANGED vars
  BY <1>6, <1>b
  DEF Restart, System, MarkSlotActive, MarkSlotUnbootable, MarkSlotSuccessful,
      InstallImage, CorruptImage, ToggleLock, vars, disk, FlowPhases
<1>7. QED
  BY <1>1, <1>2, <1>3, <1>4, <1>5, <1>6 DEF Next

(* The firmware withdraws a slot's successful mark only when the slot does *)
(* not verify, or when it loses the whole record.                          *)
THEOREM SuccessIsKept == Spec => SuccessKept
<1>1. ASSUME SafeInv, SafeInv', [Next]_vars
      PROVE  [\A s \in Slots :
                /\ pc \in FlowPhases
                /\ misc # Corrupt /\ misc' # Corrupt
                /\ slot_normalize(misc[s]).successful /\ ~misc'[s].successful
                => VerifyResult(image[s]) # "verified"]_vars
  BY <1>1, SuccessStep
<1>2. QED
  BY <1>1, SafeInvariance, PTL DEF Spec, SuccessKept

---------------------------------------------------------------------------
(* The refinement of BootCredit.                                           *)

(* The credit of a slot, its mark and the slot that runs, as the           *)
(* refinement mapping defines them.                                        *)
CreditOf(s) ==
  IF misc = Corrupt THEN MaxTries
  ELSE slot_normalize(misc[s]).tries + (IF Charged(s) THEN 1 ELSE 0)

ConfirmedOf(s) == misc # Corrupt /\ slot_normalize(misc[s]).successful

RunningSlot == IF pc = "os" THEN slot_index ELSE NULL

(* What the mapping makes of each kind of step of BootCredit. *)
Shrinks ==
  /\ pc # "os" /\ pc' # "os"
  /\ \A s \in Slots : CreditOf(s)' <= CreditOf(s) /\ (ConfirmedOf(s)' => ConfirmedOf(s))

Loses ==
  /\ RunningSlot' = RunningSlot
  /\ \A s \in Slots : CreditOf(s)' = MaxTries /\ ~ConfirmedOf(s)'

Manages(s) ==
  /\ pc = "os" /\ pc' = "os" /\ slot_index' = slot_index
  /\ \A t \in Slots \ {s} : CreditOf(t)' = CreditOf(t) /\ ConfirmedOf(t)' = ConfirmedOf(t)
  /\ \/ CreditOf(s)' = MaxTries /\ ConfirmedOf(s)' = FALSE
     \/ CreditOf(s)' = 0 /\ ConfirmedOf(s)' = FALSE
     \/ CreditOf(s)' = 0 /\ ConfirmedOf(s)' = TRUE /\ (ConfirmedOf(s) \/ CreditOf(s) > 0)

Keeps ==
  /\ RunningSlot' = RunningSlot
  /\ \A s \in Slots : CreditOf(s)' = CreditOf(s) /\ ConfirmedOf(s)' = ConfirmedOf(s)

LEMMA MapsShrink ==
  ASSUME Shrinks,
         \A s \in Slots : CreditOf(s) \in 0 .. MaxTries /\ CreditOf(s)' \in 0 .. MaxTries
  PROVE  Credit!Shrink
BY DEF Shrinks, Credit!Shrink, CreditOf, ConfirmedOf

LEMMA MapsLoses == ASSUME Loses PROVE Credit!LoseRecord
BY DEF Loses, Credit!LoseRecord, CreditOf, ConfirmedOf, RunningSlot

LEMMA MapsManages ==
  ASSUME ConstantsAssumption, TypeOK, NEW s \in Slots, Manages(s) PROVE Credit!Manage(s)
<1> DEFINE credit    == [t \in Slots |-> CreditOf(t)]
           confirmed == [t \in Slots |-> ConfirmedOf(t)]
<1>1. /\ \A c : CreditOf(s)' = c => credit' = [credit EXCEPT ![s] = c]
      /\ \A c : ConfirmedOf(s)' = c => confirmed' = [confirmed EXCEPT ![s] = c]
  BY DEF Manages
<1>2. \/ /\ credit' = [credit EXCEPT ![s] = MaxTries]
         /\ confirmed' = [confirmed EXCEPT ![s] = FALSE]
      \/ /\ credit' = [credit EXCEPT ![s] = 0]
         /\ confirmed' = [confirmed EXCEPT ![s] = FALSE]
      \/ /\ confirmed[s] \/ credit[s] > 0
         /\ credit' = [credit EXCEPT ![s] = 0]
         /\ confirmed' = [confirmed EXCEPT ![s] = TRUE]
  BY <1>1 DEF Manages
<1>3. pc = "os" /\ slot_index # NULL /\ pc' = "os" /\ slot_index' = slot_index
  BY DEF Manages, TypeOK
<1>4. QED
  BY <1>2, <1>3 DEF Credit!Manage, CreditOf, ConfirmedOf

LEMMA MapsKeeps == ASSUME Keeps PROVE UNCHANGED Credit!vars
BY DEF Keeps, Credit!vars, CreditOf, ConfirmedOf, RunningSlot

LEMMA CreditRange ==
  ASSUME SafeInv, NEW s \in Slots
  PROVE  CreditOf(s) \in 0 .. MaxTries
<1>1. CASE misc = Corrupt
  BY <1>1, ConstantsAssumption DEF CreditOf
<1>2. CASE misc # Corrupt
  <2>1. misc[s] \in SlotData
    BY <1>2 DEF SafeInv, IInv, TypeOK, Metadata
  <2>2. /\ slot_normalize(misc[s]).tries \in Nat /\ misc[s].tries \in 0 .. MaxTries
        /\ slot_normalize(misc[s]).tries <= misc[s].tries
    BY <2>1, NormalizeType, ConstantsAssumption DEF SlotData
  <2>3. Charged(s) => misc[s].tries + 1 <= MaxTries
    <3>1. SUFFICES ASSUME Charged(s) PROVE misc[s].tries + 1 <= MaxTries
      OBVIOUS
    <3>2. attempts[s] \in Nat /\ attempts[s] + misc[s].tries + Due(misc, s) <= MaxTries
      BY <3>1, ConstantsAssumption DEF SafeInv, IInv, TypeOK, TriesInv, Charged
    <3>3. Due(misc, s) = 1
      BY <3>1 DEF Due, Charged
    <3>4. QED
      BY <2>2, <3>2, <3>3, ConstantsAssumption
  <2>4. QED
    BY <1>2, <2>2, <2>3, ConstantsAssumption DEF CreditOf
<1>3. QED
  BY <1>1, <1>2

LEMMA CreditsInRange == SafeInv => \A s \in Slots : CreditOf(s) \in 0 .. MaxTries
BY CreditRange

(* What a slot has in the copy and what is due for its start is what it    *)
(* has on disk, at most.                                                   *)
LEMMA CopyIsPaid ==
  ASSUME SafeInv, Loaded, NEW s \in Slots
  PROVE  /\ slot_normalize(ab_data[s]).tries + Due(ab_data, s) <= slot_normalize(misc[s]).tries
         /\ slot_normalize(ab_data[s]).successful => slot_normalize(misc[s]).successful
<1> USE ConstantsAssumption
<1> DEFINE d == slot_normalize(misc[s])
<1>1. misc[s] \in SlotData /\ d \in SlotData
  <2>1. misc[s] \in SlotData
    BY DEF SafeInv, IInv, TypeOK, FlowInv, Loaded, Metadata
  <2>2. QED
    BY <2>1, NormalizeType
<1>2. d.tries \in Nat /\ UnbootableSlot \in SlotData /\ slot_normalize(d) = d
  BY <1>1, NormalizeFacts, SlotDataFacts DEF SlotData
<1>3. CASE data = s
  <2>1. slot_is_bootable(d) /\ ab_data[s] = ChargeTry(d)
    BY <1>3 DEF SafeInv, RecordInv
  <2> HIDE DEF d
  <2>2. CASE d.successful
    <3>1. ab_data[s] = d
      BY <2>1, <2>2 DEF ChargeTry
    <3>2. QED
      BY <1>2, <2>2, <3>1 DEF Due, d
  <2>3. CASE ~d.successful
    <3>1. /\ ab_data[s] \in SlotData /\ ~ab_data[s].successful
          /\ ab_data[s].tries + 1 = d.tries
      BY <1>1, <2>1, <2>3, ChargeTryType
    <3>2. /\ slot_normalize(ab_data[s]).tries <= ab_data[s].tries
          /\ slot_normalize(ab_data[s]).tries \in Nat
          /\ ~slot_normalize(ab_data[s]).successful
      BY <3>1, NormalizeType, NormalizeFacts DEF SlotData
    <3>3. ab_data[s].tries \in Nat /\ Due(ab_data, s) = 1
      BY <1>3, <3>1 DEF Due, SlotData
    <3>4. QED
      BY <1>2, <3>1, <3>2, <3>3 DEF d
  <2>4. QED
    BY <2>2, <2>3
<1>4. CASE data # s
  <2>1. ab_data[s] \in {d, UnbootableSlot} /\ Due(ab_data, s) = 0
    BY <1>4 DEF SafeInv, RecordInv, Due
  <2>2. slot_normalize(UnbootableSlot) = UnbootableSlot
    BY DEF slot_normalize, UnbootableSlot
  <2>3. UnbootableSlot.tries = 0 /\ ~UnbootableSlot.successful
    BY DEF UnbootableSlot
  <2> HIDE DEF d
  <2>4. CASE ab_data[s] = d
    BY <1>2, <2>1, <2>4 DEF d
  <2>5. CASE ab_data[s] = UnbootableSlot
    BY <1>2, <2>1, <2>2, <2>3, <2>5 DEF d
  <2>6. QED
    BY <2>1, <2>4, <2>5
<1>5. QED
  BY <1>3, <1>4

(* A reset record grants what a lost one does. *)
LEMMA ResetCredit ==
  ASSUME NEW s \in Slots
  PROVE  /\ slot_normalize(avb_ab_data_init[s]) = avb_ab_data_init[s]
         /\ avb_ab_data_init[s].tries = MaxTries
         /\ avb_ab_data_init[s].successful = FALSE
BY ConstantsAssumption DEF avb_ab_data_init, FullSlot, slot_normalize, Slots

LEMMA MarkedCredit ==
  ASSUME NEW m \in Metadata, \A t \in Slots : slot_normalize(m[t]) = m[t], NEW s \in Slots
  PROVE  /\ \A t \in Slots \ {s} :
              /\ slot_normalize(MarkedActive(m, s)[t]).tries = m[t].tries
              /\ slot_normalize(MarkedActive(m, s)[t]).successful = m[t].successful
              /\ MarkedUnbootable(m, s)[t] = m[t]
              /\ MarkedSuccessful(m, s)[t] = m[t]
         /\ slot_normalize(MarkedActive(m, s)[s]).tries = MaxTries
         /\ slot_normalize(MarkedActive(m, s)[s]).successful = FALSE
         /\ slot_normalize(MarkedUnbootable(m, s)[s]) = UnbootableSlot
         /\ slot_is_bootable(m[s]) =>
              /\ slot_normalize(MarkedSuccessful(m, s)[s]).tries = 0
              /\ slot_normalize(MarkedSuccessful(m, s)[s]).successful = TRUE
              /\ m[s].successful \/ m[s].tries > 0
         /\ ~slot_is_bootable(m[s]) => MarkedSuccessful(m, s) = m
<1> USE ConstantsAssumption
<1>1. \A t \in Slots : m[t] \in SlotData
  BY DEF Metadata
<1>2. ASSUME NEW t \in Slots \ {s}
      PROVE  /\ slot_normalize(MarkedActive(m, s)[t]).tries = m[t].tries
             /\ slot_normalize(MarkedActive(m, s)[t]).successful = m[t].successful
             /\ MarkedUnbootable(m, s)[t] = m[t]
             /\ MarkedSuccessful(m, s)[t] = m[t]
  <2>1. MarkedUnbootable(m, s)[t] = m[t] /\ MarkedSuccessful(m, s)[t] = m[t]
    BY <1>2 DEF MarkedUnbootable, MarkedSuccessful, Metadata
  <2>2. CASE m[t].priority = MaxPriority
    <3>1. MarkedActive(m, s)[t] = [m[t] EXCEPT !.priority = MaxPriority - 1]
      BY <1>2, <2>2 DEF MarkedActive
    <3>2. m[t].successful <=> m[t].tries = 0
      BY <1>1, <2>2 DEF slot_normalize, UnbootableSlot
    <3>3. QED
      BY <1>1, <2>1, <3>1, <3>2 DEF slot_normalize, SlotData
  <2>3. CASE m[t].priority # MaxPriority
    BY <1>2, <2>1, <2>3 DEF MarkedActive
  <2>4. QED
    BY <2>2, <2>3
<1>3. /\ slot_normalize(MarkedActive(m, s)[s]).tries = MaxTries
      /\ slot_normalize(MarkedActive(m, s)[s]).successful = FALSE
  BY DEF MarkedActive, FullSlot, slot_normalize
<1>4. slot_normalize(MarkedUnbootable(m, s)[s]) = UnbootableSlot
  BY DEF MarkedUnbootable, slot_normalize, UnbootableSlot, Metadata
<1>5. slot_is_bootable(m[s]) =>
        /\ slot_normalize(MarkedSuccessful(m, s)[s]).tries = 0
        /\ slot_normalize(MarkedSuccessful(m, s)[s]).successful = TRUE
        /\ m[s].successful \/ m[s].tries > 0
  BY <1>1 DEF MarkedSuccessful, Confirmed, slot_normalize, slot_is_bootable, SlotData, Metadata
<1>6. ~slot_is_bootable(m[s]) => MarkedSuccessful(m, s) = m
  BY DEF MarkedSuccessful
<1>7. QED
  BY <1>2, <1>3, <1>4, <1>5, <1>6

LEMMA InitMaps == ASSUME Init PROVE Credit!Init
<1>1. SafeInv
  BY TypeInit, FlowInit, TriesInit, VerifyInvInit, RecordInvInit DEF IInv, SafeInv
<1>2. \A s \in Slots : CreditOf(s) \in 0 .. MaxTries
  BY <1>1, CreditRange
<1>3. \A s \in Slots : ConfirmedOf(s) \in BOOLEAN
  <2>1. misc # Corrupt => \A s \in Slots : slot_normalize(misc[s]) \in SlotData
    BY <1>1, NormalizeType DEF SafeInv, IInv, TypeOK, Metadata
  <2>2. QED
    BY <2>1 DEF ConfirmedOf, SlotData
<1>4. RunningSlot = NULL
  BY DEF Init, RunningSlot
<1>5. QED
  BY <1>2, <1>3, <1>4 DEF Credit!Init, CreditOf, ConfirmedOf, RunningSlot

(* The steps that neither charge nor store nor start anything.             *)
LEMMA SilentMaps ==
  ASSUME UNCHANGED misc, pc # "main", pc' # "main", UNCHANGED RunningSlot
  PROVE  UNCHANGED Credit!vars
BY MapsKeeps DEF Keeps, CreditOf, ConfirmedOf, Charged

LEMMA ResetMaps ==
  ASSUME SafeInv, SafeInv', misc = Corrupt, misc' = avb_ab_data_init, UNCHANGED RunningSlot,
         ~(pc' = "main" /\ data' # NULL)
  PROVE  UNCHANGED Credit!vars
<1>1. misc' # Corrupt
  BY InitRecordType, ConstantsAssumption
<1>2. \A s \in Slots : s # NULL
  BY ConstantsAssumption
<1>3. ASSUME NEW s \in Slots
      PROVE  CreditOf(s)' = CreditOf(s) /\ ConfirmedOf(s)' = ConfirmedOf(s)
  <2>1. CreditOf(s)' = MaxTries /\ CreditOf(s) = MaxTries
    <3>1. ~Charged(s)'
      BY <1>2 DEF Charged
    <3>2. slot_normalize(misc'[s]).tries = MaxTries
      BY ResetCredit
    <3>3. QED
      BY <1>1, <3>1, <3>2, ConstantsAssumption DEF CreditOf
  <2>2. ~ConfirmedOf(s)' /\ ~ConfirmedOf(s)
    BY <1>1, ResetCredit DEF ConfirmedOf
  <2>3. ConfirmedOf(s)' \in BOOLEAN /\ ConfirmedOf(s) \in BOOLEAN
    BY <1>1, ResetCredit DEF ConfirmedOf
  <2>4. QED
    BY <2>1, <2>2, <2>3
<1>4. QED
  BY <1>3, MapsKeeps DEF Keeps

LEMMA LossMaps ==
  ASSUME misc' = Corrupt, UNCHANGED RunningSlot
  PROVE  Credit!LoseRecord
BY MapsLoses DEF Loses, CreditOf, ConfirmedOf

LEMMA ShrinkMaps ==
  ASSUME SafeInv, SafeInv', pc # "os", pc' # "os",
         \A s \in Slots : CreditOf(s)' <= CreditOf(s) /\ (ConfirmedOf(s)' => ConfirmedOf(s))
  PROVE  Credit!Shrink
<1>1. \A s \in Slots : CreditOf(s) \in 0 .. MaxTries /\ CreditOf(s)' \in 0 .. MaxTries
  <2>1. SafeInv' => (\A s \in Slots : CreditOf(s) \in 0 .. MaxTries)'
    BY CreditsInRange, PTL
  <2>2. QED
    BY <2>1, CreditsInRange
<1>2. QED
  BY <1>1, MapsShrink DEF Shrinks

LEMMA StartMaps ==
  ASSUME SafeInv, SafeInv', BootKernel
  PROVE  Credit!Start(slot_index)
<1> USE ConstantsAssumption
<1>1. /\ pc = "main" /\ pc' = "os" /\ ret \in OkResults
      /\ UNCHANGED <<misc, data, slot_index>>
  BY DEF BootKernel, disk, locals
<1>2. /\ data = slot_index /\ slot_index \in Slots /\ misc # Corrupt
      /\ misc[slot_index].successful => slot_normalize(misc[slot_index]).successful
      /\ misc[slot_index] \in SlotData
  BY <1>1 DEF SafeInv, IInv, FlowInv, RecordInv, TypeOK, Metadata
<1>3. slot_normalize(misc[slot_index]) \in SlotData
  BY <1>2, NormalizeType
<1>4. /\ ConfirmedOf(slot_index) <=> misc[slot_index].successful
      /\ \A s \in Slots : ConfirmedOf(s)' = ConfirmedOf(s)
  BY <1>1, <1>2, NormalizeFacts DEF ConfirmedOf
<1>5. ASSUME NEW s \in Slots
      PROVE  /\ s # slot_index \/ ConfirmedOf(slot_index) => CreditOf(s)' = CreditOf(s)
             /\ s = slot_index /\ ~ConfirmedOf(slot_index) =>
                  CreditOf(s) > 0 /\ CreditOf(s)' = CreditOf(s) - 1
  <2>1. misc[s] \in SlotData
    BY <1>2 DEF SafeInv, IInv, TypeOK, Metadata
  <2>2. slot_normalize(misc[s]).tries \in Nat
    BY <2>1, NormalizeType DEF SlotData
  <2>3. QED
    BY <1>1, <1>2, <1>4, <2>2 DEF CreditOf, Charged
<1> DEFINE credit    == [t \in Slots |-> CreditOf(t)]
           confirmed == [t \in Slots |-> ConfirmedOf(t)]
<1>6. /\ confirmed[slot_index] \/ credit[slot_index] > 0
      /\ credit' = IF confirmed[slot_index] THEN credit
                   ELSE [credit EXCEPT ![slot_index] = @ - 1]
  BY <1>2, <1>5
<1>7. confirmed' = confirmed
  BY <1>4
<1>8. QED
  BY <1>1, <1>6, <1>7 DEF Credit!Start, CreditOf, ConfirmedOf

(* The running OS changes the record of one slot.                          *)
LEMMA ManageMaps ==
  ASSUME SafeInv, SafeInv', NEW s \in Slots,
         MarkSlotActive(s) \/ MarkSlotUnbootable(s) \/ MarkSlotSuccessful(s)
  PROVE  Credit!Manage(s) \/ UNCHANGED Credit!vars
<1> USE ConstantsAssumption
<1> DEFINE m == Normalized(LoadedRecord)
<1>1. /\ pc = "os" /\ pc' = "os" /\ UNCHANGED slot_index
      /\ LoadedRecord \in Metadata /\ m \in Metadata
      /\ \A t \in Slots : LoadedRecord[t] \in SlotData /\ m[t] = slot_normalize(LoadedRecord[t])
  <2>1. LoadedRecord \in Metadata
    BY InitRecordType DEF LoadedRecord, SafeInv, IInv, TypeOK
  <2>2. QED
    BY <2>1, NormalizedType
    DEF MarkSlotActive, MarkSlotUnbootable, MarkSlotSuccessful, locals, Normalized, Metadata
<1>2. \A t \in Slots :
        slot_normalize(m[t]) = m[t] /\ m[t].tries \in Nat /\ m[t].successful \in BOOLEAN
  BY <1>1, NormalizeFacts, NormalizeType DEF SlotData
<1>3. ASSUME NEW t \in Slots
      PROVE  CreditOf(t) = m[t].tries /\ ConfirmedOf(t) = m[t].successful
  <2>1. CASE misc = Corrupt
    <3>1. m[t] = avb_ab_data_init[t]
      BY <1>1, <2>1, ResetCredit DEF LoadedRecord
    <3>2. QED
      BY <2>1, <3>1, ResetCredit DEF CreditOf, ConfirmedOf
  <2>2. CASE misc # Corrupt
    BY <1>1, <1>2, <2>2 DEF LoadedRecord, CreditOf, ConfirmedOf, Charged
  <2>3. QED
    BY <2>1, <2>2
<1>4. /\ MarkedActive(m, s) \in Metadata /\ MarkedUnbootable(m, s) \in Metadata
      /\ MarkedSuccessful(m, s) \in Metadata
  BY <1>1, MarkedType
<1>5. ASSUME NEW t \in Slots, misc' \in Metadata
      PROVE  /\ CreditOf(t)' = slot_normalize(misc'[t]).tries
             /\ ConfirmedOf(t)' = slot_normalize(misc'[t]).successful
  <2>1. /\ slot_normalize(misc'[t]).tries \in Nat
        /\ slot_normalize(misc'[t]).successful \in BOOLEAN
    BY <1>5, NormalizeType DEF Metadata, SlotData
  <2>2. QED
    BY <1>1, <1>5, <2>1 DEF CreditOf, ConfirmedOf, Charged
<1>6. UnbootableSlot.tries = 0 /\ UnbootableSlot.successful = FALSE
  BY DEF UnbootableSlot
<1>7. ASSUME Manages(s) PROVE Credit!Manage(s)
  BY <1>7, MapsManages DEF SafeInv, IInv
<1> HIDE DEF m
<1>d. /\ \A t \in Slots \ {s} :
           /\ slot_normalize(MarkedActive(m, s)[t]).tries = m[t].tries
           /\ slot_normalize(MarkedActive(m, s)[t]).successful = m[t].successful
           /\ MarkedUnbootable(m, s)[t] = m[t]
           /\ MarkedSuccessful(m, s)[t] = m[t]
      /\ slot_normalize(MarkedActive(m, s)[s]).tries = MaxTries
      /\ slot_normalize(MarkedActive(m, s)[s]).successful = FALSE
      /\ slot_normalize(MarkedUnbootable(m, s)[s]) = UnbootableSlot
      /\ slot_is_bootable(m[s]) =>
           /\ slot_normalize(MarkedSuccessful(m, s)[s]).tries = 0
           /\ slot_normalize(MarkedSuccessful(m, s)[s]).successful = TRUE
           /\ m[s].successful \/ m[s].tries > 0
      /\ ~slot_is_bootable(m[s]) => MarkedSuccessful(m, s) = m
  BY <1>1, <1>2, MarkedCredit
<1>8. CASE MarkSlotActive(s)
  <2>1. misc' = MarkedActive(m, s)
    BY <1>8 DEF MarkSlotActive, m
  <2>2. ASSUME NEW t \in Slots \ {s}
        PROVE  CreditOf(t)' = CreditOf(t) /\ ConfirmedOf(t)' = ConfirmedOf(t)
    BY <1>1, <1>2, <1>3, <1>4, <1>5, <2>1, <1>d
  <2>3. CreditOf(s)' = MaxTries /\ ConfirmedOf(s)' = FALSE
    BY <1>1, <1>2, <1>4, <1>5, <2>1, <1>d
  <2>4. QED
    BY <1>1, <1>7, <2>2, <2>3 DEF Manages
<1>9. CASE MarkSlotUnbootable(s)
  <2>1. misc' = MarkedUnbootable(m, s)
    BY <1>9 DEF MarkSlotUnbootable, m
  <2>2. ASSUME NEW t \in Slots \ {s}
        PROVE  CreditOf(t)' = CreditOf(t) /\ ConfirmedOf(t)' = ConfirmedOf(t)
    BY <1>1, <1>2, <1>3, <1>4, <1>5, <2>1, <1>d
  <2>3. CreditOf(s)' = 0 /\ ConfirmedOf(s)' = FALSE
    BY <1>1, <1>2, <1>4, <1>5, <1>6, <2>1, <1>d
  <2>4. QED
    BY <1>1, <1>7, <2>2, <2>3 DEF Manages
<1>10. CASE MarkSlotSuccessful(s)
  <2>1. misc' = MarkedSuccessful(m, s)
    BY <1>10 DEF MarkSlotSuccessful, m
  <2>2. CASE slot_is_bootable(m[s])
    <3>1. ASSUME NEW t \in Slots \ {s}
          PROVE  CreditOf(t)' = CreditOf(t) /\ ConfirmedOf(t)' = ConfirmedOf(t)
      BY <1>1, <1>2, <1>3, <1>4, <1>5, <2>1, <1>d
    <3>2. /\ CreditOf(s)' = 0 /\ ConfirmedOf(s)' = TRUE
          /\ ConfirmedOf(s) \/ CreditOf(s) > 0
      BY <1>1, <1>2, <1>3, <1>4, <1>5, <2>1, <2>2, <1>d
    <3>3. QED
      BY <1>1, <1>7, <3>1, <3>2 DEF Manages
  <2>3. CASE ~slot_is_bootable(m[s])
    <3>1. misc' = m
      BY <1>1, <1>2, <2>1, <2>3, <1>d
    <3>2. \A t \in Slots : CreditOf(t)' = CreditOf(t) /\ ConfirmedOf(t)' = ConfirmedOf(t)
      BY <1>1, <1>2, <1>3, <1>5, <3>1
    <3>3. QED
      BY <1>1, <3>2, MapsKeeps DEF Keeps, RunningSlot
  <2>4. QED
    BY <2>2, <2>3
<1>11. QED
  BY <1>8, <1>9, <1>10

(* The record is saved: what the copy has taken from the slots is lost,    *)
(* one try of the selected slot excepted, which its start will use.        *)
LEMMA SaveMaps ==
  ASSUME SafeInv, SafeInv', SaveMetadata \/ SaveUninitialized \/ SaveFails
  PROVE  [Credit!Next]_(Credit!vars)
<1> USE ConstantsAssumption
<1>1. /\ pc = "save" /\ pc' = "main" /\ UNCHANGED RunningSlot
      /\ data' # NULL => SaveMetadata /\ data' = data
  BY DEF SaveMetadata, SaveUninitialized, SaveFails, FlowReturns, RunningSlot
<1>2. CASE misc' = Corrupt
  BY <1>1, <1>2, LossMaps DEF Credit!Next
<1>3. CASE misc' # Corrupt /\ ~Loaded
  <2>1. SaveUninitialized /\ data' = NULL
    BY <1>1, <1>3 DEF SaveMetadata, SaveFails, SaveUninitialized, FlowReturns
  <2>2. CASE misc' = misc
    <3>1. \A s \in Slots : s # NULL
      OBVIOUS
    <3>2. UNCHANGED Credit!vars
      BY <1>1, <2>1, <2>2, <3>1, MapsKeeps DEF Keeps, CreditOf, ConfirmedOf, Charged
    <3>3. QED
      BY <3>2
  <2>3. CASE misc' # misc
    <3>1. misc = Corrupt /\ misc' = avb_ab_data_init
      BY <1>3, <2>1, <2>3 DEF SaveUninitialized, SafeInv, IInv, FlowInv, RecordInv
    <3>2. UNCHANGED Credit!vars
      BY <1>1, <2>1, <3>1, ResetMaps
    <3>3. QED
      BY <3>2
  <2>4. QED
    BY <2>2, <2>3
<1>4. CASE misc' # Corrupt /\ Loaded
  <2>1. /\ misc' \in {misc, ab_data} /\ misc \in Metadata /\ misc' \in Metadata
        /\ data' # NULL => misc' = ab_data
    BY <1>1, <1>4
    DEF SaveMetadata, SaveUninitialized, SaveFails, FlowReturns, SafeInv, IInv, FlowInv,
        TypeOK, Loaded
  <2>2. ASSUME NEW s \in Slots
        PROVE  CreditOf(s)' <= CreditOf(s) /\ (ConfirmedOf(s)' => ConfirmedOf(s))
    <3>1. CreditOf(s) = slot_normalize(misc[s]).tries
      <4>1. slot_normalize(misc[s]).tries \in Nat
        BY <2>1, NormalizeType DEF Metadata, SlotData
      <4>2. QED
        BY <1>1, <2>1, <4>1 DEF CreditOf, Charged
    <3>2. /\ slot_normalize(misc'[s]).tries \in Nat /\ slot_normalize(misc[s]).tries \in Nat
      BY <2>1, NormalizeType DEF Metadata, SlotData
    <3>3. /\ slot_normalize(ab_data[s]).tries + Due(ab_data, s) <= slot_normalize(misc[s]).tries
          /\ slot_normalize(ab_data[s]).successful => slot_normalize(misc[s]).successful
      BY <1>4, CopyIsPaid
    <3>4. CASE Charged(s)'
      <4>1. misc' = ab_data /\ data = s /\ ~ab_data[s].successful
        BY <1>1, <2>1, <3>4 DEF Charged
      <4>2. Due(ab_data, s) = 1
        BY <4>1 DEF Due
      <4>3. CreditOf(s)' = slot_normalize(ab_data[s]).tries + 1
        BY <1>4, <3>4, <4>1 DEF CreditOf
      <4>4. QED
        BY <1>4, <2>1, <3>1, <3>2, <3>3, <4>1, <4>2, <4>3 DEF ConfirmedOf
    <3>5. CASE ~Charged(s)'
      <4>1. CreditOf(s)' = slot_normalize(misc'[s]).tries
        BY <1>4, <3>2, <3>5 DEF CreditOf
      <4>2. Due(ab_data, s) \in {0, 1}
        BY DEF Due
      <4>3. CASE misc' = misc
        BY <3>1, <3>2, <4>1, <4>3 DEF ConfirmedOf
      <4>4. CASE misc' = ab_data
        BY <1>4, <2>1, <3>1, <3>2, <3>3, <4>1, <4>2, <4>4 DEF ConfirmedOf
      <4>5. QED
        BY <2>1, <4>3, <4>4
    <3>6. QED
      BY <3>4, <3>5
  <2>3. Credit!Shrink
    BY <1>1, <2>2, ShrinkMaps
  <2>4. QED
    BY <2>3 DEF Credit!Next
<1>5. QED
  BY <1>2, <1>3, <1>4

(* The slot's data is not used for a start: its charged try is lost.       *)
LEMMA UnusedMaps ==
  ASSUME SafeInv, SafeInv', pc = "main", pc' \notin {"main", "os"}, UNCHANGED misc
  PROVE  Credit!Shrink
<1>1. ASSUME NEW s \in Slots
      PROVE  CreditOf(s)' <= CreditOf(s) /\ (ConfirmedOf(s)' => ConfirmedOf(s))
  <2>1. misc # Corrupt => slot_normalize(misc[s]).tries \in Nat
    BY NormalizeType DEF SafeInv, IInv, TypeOK, Metadata, SlotData
  <2>2. QED
    BY <2>1, ConstantsAssumption DEF CreditOf, ConfirmedOf, Charged
<1>2. QED
  BY <1>1, ShrinkMaps

LEMMA StepMaps ==
  ASSUME SafeInv, SafeInv', [Next]_vars
  PROVE  [Credit!Next]_(Credit!vars)
<1> USE ConstantsAssumption
<1>a. TypeOK /\ TypeOK' /\ FlowInv /\ FlowInv'
  BY DEF SafeInv, IInv
<1>1. CASE \/ PowerOn \/ LoadMetadata \/ LoadFails \/ VerifySlot \/ SkipUnbootableSlot
           \/ VerifyFails \/ SelectSlot \/ NoBootableSlots \/ UpdateRollbackIndex
           \/ RollbackFails \/ TakeSlot \/ PowerOnFails \/ VerifyAborts
  <2>1. UNCHANGED misc /\ pc \notin {"main", "os"} /\ pc' \notin {"main", "os"}
    BY <1>1
    DEF PowerOn, LoadMetadata, LoadFails, VerifySlot, SkipUnbootableSlot, VerifyFails,
        SelectSlot, NoBootableSlots, UpdateRollbackIndex, RollbackFails, TakeSlot,
        PowerOnFails, VerifyAborts, Aborts, disk
  <2>2. UNCHANGED Credit!vars
    BY <2>1, SilentMaps DEF RunningSlot
  <2>3. QED
    BY <2>2
<1>2. CASE ResetMetadata
  <2>1. /\ misc = Corrupt /\ misc' = avb_ab_data_init /\ UNCHANGED RunningSlot /\ pc' # "main"
    BY <1>2 DEF ResetMetadata, RunningSlot
  <2>2. UNCHANGED Credit!vars
    BY <2>1, ResetMaps
  <2>3. QED
    BY <2>2
<1>3. CASE SaveMetadata \/ SaveUninitialized \/ SaveFails
  BY <1>3, SaveMaps
<1>4. CASE BootKernel
  <2>1. slot_index \in Slots /\ Credit!Start(slot_index)
    BY <1>4, <1>a, StartMaps DEF TypeOK
  <2>2. QED
    BY <2>1 DEF Credit!Next
<1>5. CASE KernelFails \/ GiveUp
  <2>1. pc = "main" /\ pc' \notin {"main", "os"} /\ UNCHANGED misc
    BY <1>5 DEF KernelFails, GiveUp, disk
  <2>2. QED
    BY <2>1, UnusedMaps DEF Credit!Next
<1>6. CASE Restart /\ pc = "os"
  <2>1. pc' = "off" /\ UNCHANGED misc /\ slot_index # NULL
    BY <1>6, <1>a DEF Restart, disk, TypeOK
  <2>2. \A s \in Slots : CreditOf(s)' = CreditOf(s) /\ ConfirmedOf(s)' = ConfirmedOf(s)
    BY <1>6, <2>1 DEF CreditOf, ConfirmedOf, Charged
  <2>3. Credit!Stop
    BY <1>6, <2>1, <2>2 DEF Credit!Stop, CreditOf, ConfirmedOf
  <2>4. QED
    BY <2>3 DEF Credit!Next
<1>7. CASE Restart /\ pc # "os"
  <2>1. UNCHANGED misc /\ pc \notin {"main", "os"} /\ pc' \notin {"main", "os"}
    BY <1>7 DEF Restart, disk
  <2>2. UNCHANGED Credit!vars
    BY <2>1, SilentMaps DEF RunningSlot
  <2>3. QED
    BY <2>2
<1>8. CASE PowerCut
  <2>1. pc' = "off" /\ pc \in FlowPhases \cup {"main"} /\ misc' \in {misc, Corrupt}
        /\ (misc' # misc => misc' = Corrupt)
    BY <1>8 DEF PowerCut
  <2>2. CASE misc' = Corrupt
    BY <2>1, <2>2, LossMaps DEF Credit!Next, RunningSlot, FlowPhases
  <2>3. CASE UNCHANGED misc /\ pc = "main"
    BY <2>1, <2>3, UnusedMaps DEF Credit!Next
  <2>4. CASE UNCHANGED misc /\ pc # "main"
    <3>1. UNCHANGED Credit!vars
      BY <2>1, <2>4, SilentMaps DEF RunningSlot, FlowPhases
    <3>2. QED
      BY <3>1
  <2>5. QED
    BY <2>1, <2>2, <2>3, <2>4
<1>9. ASSUME NEW s \in Slots,
             MarkSlotActive(s) \/ MarkSlotUnbootable(s) \/ MarkSlotSuccessful(s)
      PROVE  [Credit!Next]_(Credit!vars)
  BY <1>9, ManageMaps DEF Credit!Next
<1>10. CASE MarkFails
  <2>1. /\ pc = "os" /\ pc' = "os" /\ UNCHANGED RunningSlot
        /\ misc' = IF misc = Corrupt THEN avb_ab_data_init ELSE Corrupt
    BY <1>10 DEF MarkFails, locals, RunningSlot
  <2>2. CASE misc = Corrupt
    <3>1. UNCHANGED Credit!vars
      BY <2>1, <2>2, ResetMaps
    <3>2. QED
      BY <3>1
  <2>3. CASE misc # Corrupt
    BY <2>1, <2>3, LossMaps DEF Credit!Next
  <2>4. QED
    BY <2>2, <2>3
<1>11. CASE InstallImage \/ (\E s \in Slots : CorruptImage(s)) \/ ToggleLock
  <2>1. UNCHANGED <<misc, pc, slot_index>> /\ pc \in {"os", "off"}
    BY <1>11 DEF InstallImage, CorruptImage, ToggleLock, locals
  <2>2. UNCHANGED Credit!vars
    BY <2>1, SilentMaps DEF RunningSlot
  <2>3. QED
    BY <2>2
<1>12. CASE UNCHANGED vars
  <2>1. UNCHANGED <<misc, pc, slot_index, data>>
    BY <1>12 DEF vars, disk, locals
  <2>2. UNCHANGED Credit!vars
    BY <2>1, MapsKeeps DEF Keeps, CreditOf, ConfirmedOf, Charged, RunningSlot
  <2>3. QED
    BY <2>2
<1>13. QED
  BY <1>1, <1>2, <1>3, <1>4, <1>5, <1>6, <1>7, <1>8, <1>9, <1>10, <1>11, <1>12
  DEF Next, Firmware, Faults, System

(* The flow implements BootCredit, for every record, failure and power     *)
(* cut: a kernel the OS has not confirmed is started only for a try that   *)
(* was on disk, charged there before the start and charged once.           *)
THEOREM StartsCostTries == Spec => StartsArePaid
<1>1. Init => Credit!Init
  BY InitMaps
<1>2. SafeInv /\ SafeInv' /\ [Next]_vars => [Credit!Next]_(Credit!vars)
  BY StepMaps
<1>3. QED
  BY <1>1, <1>2, SafeInvariance, PTL DEF Spec, StartsArePaid, Credit!Spec
=============================================================================
