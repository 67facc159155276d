------------------------------- MODULE AvbAB -------------------------------
(***************************************************************************)
(* The A/B boot flow of the UEFI AVB bootloader: UefiMain() of             *)
(* src/Application/UefiAvb/main.c calls avb_ab_flow() of libavb_ab, which  *)
(* loads the A/B metadata record from the 'misc' partition, verifies the   *)
(* bootable slots, updates the stored rollback indexes, charges one try to *)
(* the slot it selects and saves the record; UefiMain() then starts the    *)
(* kernel of that slot or gives up.  The operating system that runs        *)
(* afterwards changes the record with the avb_ab_mark_slot_*() functions   *)
(* and writes new images into the slots.                                   *)
(*                                                                         *)
(* One firmware step is one action, so that a power cut, an I/O error or   *)
(* an allocation failure can come between any two accesses to persistent   *)
(* storage.  avb_slot_verify() appears here by its contract (see           *)
(* VerifyOutcomes).                                                        *)
(***************************************************************************)
EXTENDS Naturals

CONSTANTS
  MaxPriority,   \* AVB_AB_MAX_PRIORITY, 15 in the code
  MaxTries,      \* AVB_AB_MAX_TRIES_REMAINING, 7 in the code
  NumLocations,  \* AVB_MAX_NUMBER_OF_ROLLBACK_INDEX_LOCATIONS, 32 in the code
  MaxIndex,      \* bound on rollback index values, 2^64 - 1 in the code
  StubOps,       \* TRUE: the port's AvbOps, which are stubs; FALSE: what avb_ops.h asks for
  Corrupt,       \* a misc record with a wrong magic, version or CRC
  Uninit,        \* an AvbABData on the stack that nothing was stored into
  NULL

Slots      == {0, 1}
Other(s)   == 1 - s
Locations  == 0 .. NumLocations - 1
Indexes    == [Locations -> 0 .. MaxIndex]
SlotData   == [priority : 0 .. MaxPriority, tries : 0 .. MaxTries, successful : BOOLEAN]
Metadata   == [Slots -> SlotData]

(* What a slot's partitions hold, as far as avb_slot_verify() can tell.    *)
(* "unchecked" is properly signed with VERIFICATION_DISABLED set.          *)
Intact     == {"genuine", "unchecked"}
Kinds      == Intact \cup {"modified", "malformed"}
Images     == [kind : Kinds, index : Indexes]

OkResults  == {"OK", "OK_WITH_VERIFICATION_ERROR"}
IoErrors   == {"ERROR_OOM", "ERROR_IO"}
Results    == OkResults \cup IoErrors \cup {"ERROR_NO_BOOTABLE_SLOTS"}

ASSUME ConstantsAssumption ==
  /\ MaxPriority \in Nat /\ MaxPriority >= 2
  /\ MaxTries \in Nat \ {0}
  /\ NumLocations \in Nat
  /\ MaxIndex \in Nat
  /\ StubOps \in BOOLEAN
  /\ Corrupt \notin Metadata
  /\ Uninit \notin Metadata
  /\ Uninit # Corrupt
  /\ NULL \notin Indexes
  /\ NULL \notin Slots
  /\ NULL \notin Results

VARIABLES
  misc,         \* the record in the 'misc' partition
  stored,       \* the stored rollback indexes, by location
  image,        \* what each slot's partitions hold
  unlocked,     \* what read_is_device_unlocked() answers
  pc,           \* where the firmware is
  n,            \* the loop counter of avb_ab_flow()
  ab_data,      \* avb_ab_flow()'s copy of the metadata
  ab_data_orig, \* the metadata as it was loaded
  slot_data,    \* the verified data of each slot, or NULL
  saw_allowed,  \* saw_and_allowed_verification_error
  slot_index,   \* slot_index_to_boot
  data,         \* the slot whose data is returned in *out_data, or NULL
  ret,          \* avb_ab_flow()'s result
  attempts      \* history: kernel starts of a slot since it last got all its tries

disk    == <<misc, stored, image, unlocked>>
locals  == <<ab_data, ab_data_orig, slot_data, saw_allowed, slot_index, data, ret>>
vars    == <<disk, pc, n, locals, attempts>>

Phases == {"off", "load", "verify", "rollback", "save", "main", "os", "fatal"}
(* The phases in which avb_ab_flow() is on the stack. *)
FlowPhases == {"load", "verify", "rollback", "save"}

---------------------------------------------------------------------------
(* The metadata operations.                                                *)

UnbootableSlot == [priority |-> 0, tries |-> 0, successful |-> FALSE]
FullSlot(p)    == [priority |-> p, tries |-> MaxTries, successful |-> FALSE]

avb_ab_data_init ==
  [s \in Slots |-> FullSlot(IF s = 0 THEN MaxPriority ELSE MaxPriority - 1)]

slot_is_bootable(d) == d.priority > 0 /\ (d.successful \/ d.tries > 0)

(* A slot is left alone iff exactly one of the two reasons to boot holds.  *)
slot_normalize(d) ==
  IF d.priority > 0 /\ (d.successful <=> d.tries = 0) THEN d ELSE UnbootableSlot

Normalized(m) == [s \in Slots |-> slot_normalize(m[s])]

(* The slot to boot: slot 1 only when it has the strictly higher priority. *)
Selected(m) ==
  IF /\ slot_is_bootable(m[1])
     /\ slot_is_bootable(m[0]) => m[1].priority > m[0].priority
  THEN 1 ELSE 0

(* Slip: the last try would not be charged. *)
ChargeTry_KeepsLast(d) ==
  IF ~d.successful /\ d.tries > 1 THEN [d EXCEPT !.tries = @ - 1] ELSE d

ChargeTry(d) ==
  IF ~d.successful /\ d.tries > 0 THEN [d EXCEPT !.tries = @ - 1] ELSE d

---------------------------------------------------------------------------
(* avb_slot_verify() by its contract.  A result and whether slot data is   *)
(* returned: always with OK, and with an error only when errors of that    *)
(* class are allowed.                                                      *)

(* With VERIFICATION_DISABLED only the top-level vbmeta struct, which uses  *)
(* location 0, is looked at, and no rollback index is returned.            *)
Supported(img) ==
  \A l \in Locations : l = 0 \/ img.kind # "unchecked" => img.index[l] >= stored[l]

ReturnedIndex(img) == IF img.kind = "unchecked" THEN [l \in Locations |-> 0] ELSE img.index

(* Slip: the rollback index of an image would not be compared. *)
VerifyResult_RolledBack(img) ==
  CASE img.kind = "malformed" -> "malformed"
    [] img.kind = "modified"  -> "unverified"
    [] OTHER                  -> "verified"

VerifyResult(img) ==
  CASE img.kind = "malformed" -> "malformed"
    [] img.kind = "modified"  -> "unverified"
    [] OTHER                  -> IF Supported(img) THEN "verified" ELSE "unverified"

(* Slip: a slot that was rejected would stay bootable, without data. *)
VerifyOutcomes_StaysBootable(img) ==
  LET result == VerifyResult(img)
      usable == result = "verified" \/ (unlocked /\ result = "unverified")
  IN  [ data       |-> IF usable THEN ReturnedIndex(img) ELSE NULL,
        unbootable |-> FALSE,
        allowed    |-> usable /\ result # "verified" ]

VerifyOutcomes(img) ==
  LET result == VerifyResult(img)
      usable == result = "verified" \/ (unlocked /\ result = "unverified")
  IN  [ data       |-> IF usable THEN ReturnedIndex(img) ELSE NULL,
        unbootable |-> ~usable,
        allowed    |-> usable /\ result # "verified" ]

(* Slip: the larger of the two indexes would be stored. *)
RollbackIndexValue_Larger(l) ==
  CASE slot_data[0] # NULL /\ slot_data[1] # NULL ->
         IF slot_data[0][l] < slot_data[1][l] THEN slot_data[1][l] ELSE slot_data[0][l]
    [] slot_data[0] # NULL /\ slot_data[1] = NULL -> slot_data[0][l]
    [] slot_data[0] = NULL /\ slot_data[1] # NULL -> slot_data[1][l]
    [] OTHER -> 0

(* write_rollback_index().  The port's stub stores nothing, and its         *)
(* read_rollback_index() always answers 0.                                 *)
Written(l, value) == IF StubOps THEN stored ELSE [stored EXCEPT ![l] = value]

(* The smallest rollback index of the slots that have data; 0 stands for   *)
(* "no slot" exactly as in the code.                                       *)
RollbackIndexValue(l) ==
  CASE slot_data[0] # NULL /\ slot_data[1] # NULL ->
         IF slot_data[0][l] < slot_data[1][l] THEN slot_data[0][l] ELSE slot_data[1][l]
    [] slot_data[0] # NULL /\ slot_data[1] = NULL -> slot_data[0][l]
    [] slot_data[0] = NULL /\ slot_data[1] # NULL -> slot_data[1][l]
    [] OTHER -> 0

---------------------------------------------------------------------------
(* The history variable: a record that is reset gives every slot all its   *)
(* tries again.                                                            *)
AttemptsFollowReset ==
  attempts' = IF misc = Corrupt /\ misc' # Corrupt THEN [s \in Slots |-> 0] ELSE attempts

(* Volatile state when no flow runs. *)
NoLocals ==
  /\ n' = 0
  /\ ab_data' = Uninit
  /\ ab_data_orig' = Uninit
  /\ slot_data' = [s \in Slots |-> NULL]
  /\ saw_allowed' = FALSE
  /\ slot_index' = 0
  /\ data' = NULL
  /\ ret' = "OK"

(* A device that was provisioned with any valid record, or with none.  The *)
(* port's read_is_device_unlocked() always answers TRUE.                   *)
Init ==
  /\ misc \in Metadata \cup {Corrupt}
  /\ stored = [l \in Locations |-> 0]
  /\ image \in [Slots -> Images]
  /\ unlocked \in IF StubOps THEN {TRUE} ELSE BOOLEAN
  /\ pc = "off"
  /\ n = 0
  /\ ab_data = Uninit
  /\ ab_data_orig = Uninit
  /\ slot_data = [s \in Slots |-> NULL]
  /\ saw_allowed = FALSE
  /\ slot_index = 0
  /\ data = NULL
  /\ ret = "OK"
  /\ attempts = [s \in Slots |-> 0]

PowerOn ==
  /\ pc = "off"
  /\ pc' = "load"
  /\ UNCHANGED <<disk, n, locals, attempts>>

(* avb_fatal() and a failed avb_assert() stop the machine in avb_abort().  *)
Aborts == pc' = "fatal" /\ NoLocals

(* No memory for the AvbOps, or the state of the lock cannot be read.      *)
PowerOnFails ==
  /\ pc = "off"
  /\ Aborts
  /\ UNCHANGED <<disk, attempts>>

(* load_metadata() when misc holds a valid record. *)
LoadMetadata ==
  /\ pc = "load"
  /\ misc # Corrupt
  /\ ab_data' = Normalized(misc)
  /\ ab_data_orig' = misc
  /\ pc' = "verify"
  /\ UNCHANGED <<disk, n, slot_data, saw_allowed, slot_index, data, ret, attempts>>

(* avb_ab_data_read() rejects the record, resets it and writes it back:    *)
(* both slots have all their tries again.                                  *)
ResetMetadata ==
  /\ pc = "load"
  /\ misc = Corrupt
  /\ misc' = avb_ab_data_init
  /\ ab_data' = Normalized(avb_ab_data_init)
  /\ ab_data_orig' = avb_ab_data_init
  /\ AttemptsFollowReset
  /\ pc' = "verify"
  /\ UNCHANGED <<stored, image, unlocked, n, slot_data, saw_allowed, slot_index, data, ret>>

(* The read fails, or the write of the reset record does: `goto out' with  *)
(* ab_data_orig, and after a failed read ab_data too, never assigned.  The *)
(* failed write is taken not to have reached the disk: the one that did is *)
(* ResetMetadata followed by a failure.                                    *)
LoadFails ==
  /\ pc = "load"
  /\ ab_data' \in {Uninit} \cup (IF misc = Corrupt THEN {avb_ab_data_init} ELSE {})
  /\ ret' \in IoErrors
  /\ pc' = "save"
  /\ UNCHANGED <<disk, n, ab_data_orig, slot_data, saw_allowed, slot_index, data, attempts>>

(* One turn of the verification loop. *)
VerifySlot ==
  /\ pc = "verify"
  /\ n \in Slots
  /\ slot_is_bootable(ab_data[n])
  /\ LET v == VerifyOutcomes(image[n]) IN
       /\ slot_data' = [slot_data EXCEPT ![n] = v.data]
       /\ ab_data' = IF v.unbootable THEN [ab_data EXCEPT ![n] = UnbootableSlot] ELSE ab_data
       /\ saw_allowed' = (saw_allowed \/ v.allowed)
  /\ n' = n + 1
  /\ UNCHANGED <<disk, pc, ab_data_orig, slot_index, data, ret, attempts>>

SkipUnbootableSlot ==
  /\ pc = "verify"
  /\ n \in Slots
  /\ ~slot_is_bootable(ab_data[n])
  /\ n' = n + 1
  /\ UNCHANGED <<disk, pc, locals, attempts>>

(* Slip: a slot that could not be verified would be made unbootable. *)
VerifyFails_Retires ==
  /\ pc = "verify"
  /\ n \in Slots
  /\ slot_is_bootable(ab_data[n])
  /\ ret' \in IoErrors
  /\ pc' = "save"
  /\ ab_data' = [ab_data EXCEPT ![n] = UnbootableSlot]
  /\ UNCHANGED <<disk, n, ab_data_orig, slot_data, saw_allowed, slot_index, data, attempts>>

(* avb_slot_verify() runs out of memory or hits an I/O error: `goto out'   *)
(* with what the earlier slot's verification changed.                      *)
VerifyFails ==
  /\ pc = "verify"
  /\ n \in Slots
  /\ slot_is_bootable(ab_data[n])
  /\ ret' \in IoErrors
  /\ pc' = "save"
  /\ UNCHANGED <<disk, n, ab_data, ab_data_orig, slot_data, saw_allowed, slot_index, data,
                 attempts>>

(* avb_slot_verify() runs out of memory for the name of the first image    *)
(* and stops at its own assertion.                                         *)
VerifyAborts ==
  /\ pc = "verify"
  /\ n \in Slots
  /\ slot_is_bootable(ab_data[n])
  /\ Aborts
  /\ UNCHANGED <<disk, attempts>>

(* Slip: the try would be charged when the slot is selected. *)
SelectSlot_Charges ==
  /\ pc = "verify"
  /\ n = 2
  /\ \E s \in Slots : slot_is_bootable(ab_data[s])
  /\ slot_index' = Selected(ab_data)
  /\ ab_data' = [ab_data EXCEPT ![Selected(ab_data)] = ChargeTry(@)]
  /\ pc' = "rollback"
  /\ n' = 0
  /\ UNCHANGED <<disk, ab_data_orig, slot_data, saw_allowed, data, ret, attempts>>

SelectSlot ==
  /\ pc = "verify"
  /\ n = 2
  /\ \E s \in Slots : slot_is_bootable(ab_data[s])
  /\ slot_index' = Selected(ab_data)
  /\ pc' = "rollback"
  /\ n' = 0
  /\ UNCHANGED <<disk, ab_data, ab_data_orig, slot_data, saw_allowed, data, ret, attempts>>

(* Slip: the lack of a slot would be reported as an I/O error. *)
NoBootableSlots_AsIoError ==
  /\ pc = "verify"
  /\ n = 2
  /\ \A s \in Slots : ~slot_is_bootable(ab_data[s])
  /\ ret' = "ERROR_IO"
  /\ pc' = "save"
  /\ UNCHANGED <<disk, n, ab_data, ab_data_orig, slot_data, saw_allowed, slot_index, data,
                 attempts>>

(* Slip: one slot that does not boot would be enough to give up. *)
NoBootableSlots_AnySlot ==
  /\ pc = "verify"
  /\ n = 2
  /\ \E s \in Slots : ~slot_is_bootable(ab_data[s])
  /\ ret' = "ERROR_NO_BOOTABLE_SLOTS"
  /\ pc' = "save"
  /\ UNCHANGED <<disk, n, ab_data, ab_data_orig, slot_data, saw_allowed, slot_index, data,
                 attempts>>

NoBootableSlots ==
  /\ pc = "verify"
  /\ n = 2
  /\ \A s \in Slots : ~slot_is_bootable(ab_data[s])
  /\ ret' = "ERROR_NO_BOOTABLE_SLOTS"
  /\ pc' = "save"
  /\ UNCHANGED <<disk, n, ab_data, ab_data_orig, slot_data, saw_allowed, slot_index, data,
                 attempts>>

(* Slip: index 0, which a slot without verification returns, would be      *)
(* stored like any other.                                                  *)
UpdateRollbackIndex_ZeroToo ==
  /\ pc = "rollback"
  /\ n \in Locations
  /\ stored' = Written(n, RollbackIndexValue(n))
  /\ n' = n + 1
  /\ UNCHANGED <<misc, image, unlocked, pc, locals, attempts>>

(* One turn of the rollback index loop: the stored index is rewritten when *)
(* the slots' smallest index is neither 0 nor already stored.              *)
UpdateRollbackIndex ==
  /\ pc = "rollback"
  /\ n \in Locations
  /\ LET value == RollbackIndexValue(n) IN
       stored' = IF value # 0 THEN Written(n, value) ELSE stored
  /\ n' = n + 1
  /\ UNCHANGED <<misc, image, unlocked, pc, locals, attempts>>

(* read_rollback_index() or write_rollback_index() fails; a write that     *)
(* reports a failure may still have reached the storage.                   *)
RollbackFails ==
  /\ pc = "rollback"
  /\ ~StubOps
  /\ n \in Locations
  /\ RollbackIndexValue(n) # 0
  /\ stored' \in {stored, Written(n, RollbackIndexValue(n))}
  /\ ret' \in IoErrors
  /\ pc' = "save"
  /\ UNCHANGED <<misc, image, unlocked, n, ab_data, ab_data_orig, slot_data, saw_allowed,
                 slot_index, data, attempts>>

(* The two assertions: the selected slot has data, and an error that was   *)
(* allowed was one on an unlocked device.                                  *)
SlotAsserted == slot_data[slot_index] # NULL /\ (saw_allowed => unlocked)

(* The selected slot's data becomes the result and a try is charged.       *)
TakeSlot ==
  /\ pc = "rollback"
  /\ n = NumLocations
  /\ IF SlotAsserted
     THEN /\ data' = slot_index
          /\ slot_data' = [slot_data EXCEPT ![slot_index] = NULL]
          /\ ret' = IF saw_allowed THEN "OK_WITH_VERIFICATION_ERROR" ELSE "OK"
          /\ ab_data' = [ab_data EXCEPT ![slot_index] = ChargeTry(@)]
          /\ pc' = "save"
          /\ UNCHANGED <<n, ab_data_orig, saw_allowed, slot_index>>
     ELSE Aborts
  /\ UNCHANGED <<disk, attempts>>

---------------------------------------------------------------------------
(* The code after the label `out'.                                         *)

Loaded == ab_data_orig # Uninit

(* What is left of the flow when it has returned. *)
FlowReturns(result, out) ==
  /\ ret' = result
  /\ data' = out
  /\ pc' = "main"
  /\ n' = 0
  /\ ab_data' = Uninit
  /\ ab_data_orig' = Uninit
  /\ slot_data' = [s \in Slots |-> NULL]
  /\ saw_allowed' = FALSE
  /\ AttemptsFollowReset
  /\ UNCHANGED <<stored, image, unlocked, slot_index>>

(* save_metadata_if_changed() succeeds. *)
SaveMetadata ==
  /\ pc = "save"
  /\ Loaded
  /\ misc' = IF ab_data # ab_data_orig THEN ab_data ELSE misc
  /\ FlowReturns(ret, data)

(* After a failed load the comparison reads bytes nobody wrote.  Equal     *)
(* bytes write nothing, others are written with a fresh CRC over a wrong   *)
(* magic; a reset record that could not be written is written again, and   *)
(* the write may fail again.                                               *)
SaveUninitialized ==
  /\ pc = "save"
  /\ ~Loaded
  /\ misc' \in (IF ab_data = Uninit THEN {misc, Corrupt} ELSE {misc, ab_data})
  /\ \E e \in IoErrors : FlowReturns(e, NULL)

(* Slip: a failed save would not change the result. *)
SaveFails_KeepsResult ==
  /\ pc = "save"
  /\ Loaded
  /\ ab_data # ab_data_orig
  /\ misc' \in {misc, ab_data, Corrupt}
  /\ FlowReturns(ret, data)

(* Slip: the data would be returned with the error. *)
SaveFails_KeepsData ==
  /\ pc = "save"
  /\ Loaded
  /\ ab_data # ab_data_orig
  /\ misc' \in {misc, ab_data, Corrupt}
  /\ \E e \in IoErrors : FlowReturns(e, data)

(* The write fails: the record is the old one, the new one or torn.  The   *)
(* selected data is freed and the error takes the place of the result.     *)
SaveFails ==
  /\ pc = "save"
  /\ Loaded
  /\ ab_data # ab_data_orig
  /\ misc' \in {misc, ab_data, Corrupt}
  /\ \E e \in IoErrors : FlowReturns(e, NULL)

---------------------------------------------------------------------------
(* UefiMain() after the flow, and the machine around it.                   *)

(* uefi_avb_boot_kernel() jumps to the kernel of the returned slot.        *)
BootKernel ==
  /\ pc = "main"
  /\ ret \in OkResults
  /\ pc' = "os"
  /\ attempts' = IF misc[slot_index].successful
                 THEN attempts
                 ELSE [attempts EXCEPT ![slot_index] = @ + 1]
  /\ UNCHANGED <<disk, n, locals>>

(* uefi_avb_boot_kernel() returns an error, which is fatal like every      *)
(* result of the flow that is not OK.                                      *)
KernelFails ==
  /\ pc = "main"
  /\ ret \in OkResults
  /\ pc' = "fatal"
  /\ UNCHANGED <<disk, n, locals, attempts>>

GiveUp ==
  /\ pc = "main"
  /\ ret \notin OkResults
  /\ pc' = "fatal"
  /\ UNCHANGED <<disk, n, locals, attempts>>

(* The machine is restarted by the OS, or by the user after avb_abort().   *)
Restart ==
  /\ pc \in {"os", "fatal"}
  /\ pc' = "off"
  /\ NoLocals
  /\ UNCHANGED <<disk, attempts>>

(* Power is lost while the firmware runs, possibly during the write of the *)
(* record.                                                                 *)
PowerCut ==
  /\ pc \in FlowPhases \cup {"main"}
  /\ misc' \in {misc} \cup (IF pc = "save" /\ ab_data # ab_data_orig THEN {Corrupt} ELSE {})
  /\ pc' = "off"
  /\ NoLocals
  /\ UNCHANGED <<stored, image, unlocked, attempts>>

---------------------------------------------------------------------------
(* The avb_ab_mark_slot_*() functions, called by the running OS.           *)

MarkedActive(m, s) ==
  [t \in Slots |->
     IF t = s THEN FullSlot(MaxPriority)
     ELSE IF m[t].priority = MaxPriority THEN [m[t] EXCEPT !.priority = MaxPriority - 1]
     ELSE m[t]]

MarkedUnbootable(m, s) == [m EXCEPT ![s] = UnbootableSlot]

Confirmed(d) == [priority |-> d.priority, tries |-> 0, successful |-> TRUE]

MarkedSuccessful(m, s) ==
  IF slot_is_bootable(m[s]) THEN [m EXCEPT ![s] = Confirmed(@)] ELSE m

(* What load_metadata() works on: the record, or the one it was reset to.  *)
LoadedRecord == IF misc = Corrupt THEN avb_ab_data_init ELSE misc

(* The record is loaded, normalised, changed and saved. *)
MarkSlotActive(s) ==
  /\ pc = "os"
  /\ misc' = MarkedActive(Normalized(LoadedRecord), s)
  /\ attempts' = [t \in Slots |-> IF t = s \/ misc = Corrupt THEN 0 ELSE attempts[t]]
  /\ UNCHANGED <<stored, image, unlocked, pc, n, locals>>

MarkSlotUnbootable(s) ==
  /\ pc = "os"
  /\ misc' = MarkedUnbootable(Normalized(LoadedRecord), s)
  /\ AttemptsFollowReset
  /\ UNCHANGED <<stored, image, unlocked, pc, n, locals>>

MarkSlotSuccessful(s) ==
  /\ pc = "os"
  /\ misc' = MarkedSuccessful(Normalized(LoadedRecord), s)
  /\ AttemptsFollowReset
  /\ UNCHANGED <<stored, image, unlocked, pc, n, locals>>

(* One of these calls stops half way: the reset record was written but the *)
(* change was not, or the write of the change left a torn record.          *)
MarkFails ==
  /\ pc = "os"
  /\ misc' = IF misc = Corrupt THEN avb_ab_data_init ELSE Corrupt
  /\ AttemptsFollowReset
  /\ UNCHANGED <<stored, image, unlocked, pc, n, locals>>

(* The updater writes the slot that is not running, which it marked        *)
(* unbootable first.                                                       *)
InstallImage ==
  /\ pc = "os"
  /\ misc # Corrupt
  /\ ~slot_is_bootable(misc[Other(slot_index)])
  /\ \E i \in Images : image' = [image EXCEPT ![Other(slot_index)] = i]
  /\ UNCHANGED <<misc, stored, unlocked, pc, n, locals, attempts>>

(* The image on a slot decays or is modified behind the bootloader's back  *)
(* while the machine is off.                                               *)
CorruptImage(s) ==
  /\ pc = "off"
  /\ image' = [image EXCEPT ![s].kind = "modified"]
  /\ UNCHANGED <<misc, stored, unlocked, pc, n, locals, attempts>>

ToggleLock ==
  /\ pc = "off"
  /\ ~StubOps
  /\ unlocked' = ~unlocked
  /\ UNCHANGED <<misc, stored, image, pc, n, locals, attempts>>

---------------------------------------------------------------------------
(* The steps of the firmware that need no failure and nobody's decision.   *)
Firmware ==
  \/ PowerOn \/ LoadMetadata \/ ResetMetadata \/ VerifySlot \/ SkipUnbootableSlot
  \/ SelectSlot \/ NoBootableSlots \/ UpdateRollbackIndex \/ TakeSlot
  \/ SaveMetadata \/ SaveUninitialized \/ BootKernel \/ GiveUp

Faults ==
  \/ PowerOnFails \/ LoadFails \/ VerifyFails \/ VerifyAborts \/ RollbackFails
  \/ SaveFails \/ KernelFails \/ PowerCut \/ MarkFails

System ==
  \/ \E s \in Slots : MarkSlotActive(s) \/ MarkSlotUnbootable(s) \/ MarkSlotSuccessful(s)
  \/ InstallImage
  \/ \E s \in Slots : CorruptImage(s)
  \/ ToggleLock

Next == Firmware \/ Restart \/ Faults \/ System

Spec == Init /\ [][Next]_vars

---------------------------------------------------------------------------
(* Properties.                                                             *)

TypeOK ==
  /\ misc \in Metadata \cup {Corrupt}
  /\ stored \in Indexes
  /\ image \in [Slots -> Images]
  /\ unlocked \in BOOLEAN
  /\ pc \in Phases
  /\ n \in Nat
  /\ ab_data \in Metadata \cup {Uninit}
  /\ ab_data_orig \in Metadata \cup {Uninit}
  /\ slot_data \in [Slots -> Indexes \cup {NULL}]
  /\ saw_allowed \in BOOLEAN
  /\ slot_index \in Slots
  /\ data \in Slots \cup {NULL}
  /\ ret \in Results
  /\ attempts \in [Slots -> Nat]

(* The tries of a slot that has not been confirmed are charged before they *)
(* are used: the kernel starts it had since its tries were last refilled   *)
(* and the tries the record still grants never exceed MaxTries, whatever   *)
(* was interrupted (avb_ab_flow() decrements and saves before it returns). *)
TriesAccounted ==
  misc # Corrupt => \A s \in Slots : attempts[s] + misc[s].tries <= MaxTries

(* No slot is started more than MaxTries times without being confirmed or  *)
(* getting its tries back.                                                 *)
AttemptsBounded == \A s \in Slots : attempts[s] <= MaxTries

(* UefiMain() starts a kernel of an intact image that the stored rollback   *)
(* indexes support even after the update for the other slot, unless the    *)
(* device is unlocked and the result says that an error was allowed.       *)
StartedImageVerified ==
  pc = "main" /\ ret \in OkResults =>
    \/ image[slot_index].kind \in Intact /\ Supported(image[slot_index])
    \/ unlocked /\ ret = "OK_WITH_VERIFICATION_ERROR"

(* When a locked device starts a kernel, every slot the record on disk     *)
(* still calls bootable has been found intact and is not locked out by     *)
(* the rollback indexes just stored: there is something to fall back to.   *)
FallbackSlotsUsable ==
  pc = "main" /\ ret \in OkResults /\ ~unlocked =>
    \A s \in Slots : slot_is_bootable(misc[s]) =>
      image[s].kind \in Intact /\ Supported(image[s])

(* The caller of avb_ab_flow() gets slot data exactly when the result is   *)
(* one of the two OK results: UefiMain() dereferences it on those.         *)
DataReturnedIffOk == pc = "main" => (data # NULL <=> ret \in OkResults)

(* The slot to boot is selected from the record alone.  From then on it has *)
(* verified data, and no error was allowed on a locked device: the two     *)
(* assertions of avb_ab_flow() before it hands out the data (362, 366)     *)
(* never stop the boot.                                                    *)
AssertionsHold == pc = "rollback" => SlotAsserted

(* The record on disk never loses a try or a slot to a flow that returned  *)
(* an error before selecting: what it saves then differs from what it      *)
(* loaded only by slots that are unbootable.                               *)
FailedFlowOnlyRetires ==
  pc = "save" /\ Loaded /\ data = NULL =>
    \A s \in Slots : ab_data[s] \in {ab_data_orig[s], UnbootableSlot}

(* Rollback protection: while the device is locked no stored rollback      *)
(* index ever decreases.                                                   *)
LockedIndexesNeverDecrease ==
  [][~unlocked => \A l \in Locations : stored'[l] >= stored[l]]_vars

(* The firmware takes the successful mark from a slot that verifies only   *)
(* together with the whole record, or when the record combined the mark    *)
(* with remaining tries or priority 0.                                     *)
SuccessKept ==
  [][\A s \in Slots :
       /\ pc \in FlowPhases
       /\ misc # Corrupt /\ misc' # Corrupt
       /\ slot_normalize(misc[s]).successful /\ ~misc'[s].successful
       => VerifyResult(image[s]) # "verified"]_vars

(* Refinement: a start costs a credit that was durably charged before.  A  *)
(* try that was saved but not used yet still counts.                       *)
Charged(s) == pc = "main" /\ data = s /\ ~misc[s].successful

Credit == INSTANCE BootCredit WITH
  NoSlot    <- NULL,
  credit    <- [s \in Slots |->
                 IF misc = Corrupt THEN MaxTries
                 ELSE slot_normalize(misc[s]).tries + (IF Charged(s) THEN 1 ELSE 0)],
  confirmed <- [s \in Slots |-> misc # Corrupt /\ slot_normalize(misc[s]).successful],
  running   <- IF pc = "os" THEN slot_index ELSE NULL

StartsArePaid == Credit!Spec

---------------------------------------------------------------------------
(* What documentation says and the code does not do.                       *)

(* avb_ab_flow.c: save_metadata_if_changed() writes the metadata only if   *)
(* it has changed, so a flow that never loaded it writes nothing.          *)
NothingLoadedNothingSaved ==
  [][pc = "save" /\ ~Loaded /\ ab_data = Uninit => misc' = misc]_vars

---------------------------------------------------------------------------
(* Liveness.  The firmware runs as long as it has power, and a stopped     *)
(* machine is restarted by the user or a watchdog.  The OS, the updater    *)
(* and failures are not fair.                                              *)
FairSpec == Spec /\ WF_vars(Firmware) /\ WF_vars(Restart)

(* No more failures and no more changes from outside, from some time on. *)
Quiet == <>[][~Faults /\ ~System]_vars

(* Once things are quiet, a slot that is confirmed and verifies guarantees *)
(* that the device keeps starting a confirmed slot: whatever was activated *)
(* and never confirmed runs out of tries.                                  *)
FallsBack ==
  Quiet =>
    \A s \in Slots :
      (<>[](misc # Corrupt /\ misc[s].successful /\ VerifyResult(image[s]) = "verified"))
        => []<>(pc = "os" /\ misc # Corrupt /\ misc[slot_index].successful)

(* Once things are quiet, the device either keeps reaching the OS or keeps *)
(* reporting that no slot is bootable; it does not stop for another        *)
(* reason.                                                                 *)
BootsOrReports ==
  Quiet => []<>(pc = "os") \/ []<>(pc = "fatal" /\ ret = "ERROR_NO_BOOTABLE_SLOTS")
============================================================================
