--------------------------- MODULE AvbSlotVerify ---------------------------
(***************************************************************************)
(* avb_slot_verify() of libavb: load_and_verify_vbmeta() walks the vbmeta  *)
(* struct of a slot, by recursion those it chains to, loads and checks the *)
(* requested partitions, and builds the AvbSlotVerifyData that the caller  *)
(* boots from.  What the partitions hold is revealed when it is read: the  *)
(* outcome of a signature, key, rollback or hash check is a choice, as are *)
(* I/O errors and allocation failures.                                     *)
(*                                                                         *)
(* Memory is counted, not addressed: `heap' is the number of live          *)
(* allocations of the call, of which slot_data owns some.  An image or     *)
(* partition in slot_data and its name count as one: the name may be NULL, *)
(* because two of the three avb_strdup() that make one are not checked.    *)
(***************************************************************************)
EXTENDS Integers, Sequences

CONSTANTS
  MaxImages,        \* MAX_NUMBER_OF_VBMETA_IMAGES, 32 in the code
  MaxLoaded,        \* MAX_NUMBER_OF_LOADED_PARTITIONS, 32 in the code
  NumLocations,     \* AVB_MAX_NUMBER_OF_ROLLBACK_INDEX_LOCATIONS, 32 in the code
  MaxDescriptors,   \* bound on the descriptors of one vbmeta struct
  Requested         \* the number of requested partitions

ASSUME SlotVerifyAssumption ==
  /\ MaxImages \in Nat \ {0}
  /\ MaxLoaded \in Nat
  /\ NumLocations \in Nat \ {0}
  /\ MaxDescriptors \in Nat
  /\ Requested \in Nat

Rejections == {"ERROR_VERIFICATION", "ERROR_ROLLBACK_INDEX", "ERROR_PUBLIC_KEY_REJECTED"}
IoErrors   == {"ERROR_OOM", "ERROR_IO"}
Fatal      == IoErrors \cup {"ERROR_INVALID_METADATA", "ERROR_UNSUPPORTED_VERSION",
                             "ERROR_INVALID_ARGUMENT"}
Results    == {"OK"} \cup Rejections \cup Fatal

(* Every location stores index 1: an image's index is below, equal or above. *)
StoredIndex == 1
Indexes     == 0 .. 2

VARIABLES
  allow,      \* allow_verification_error
  logging,    \* hashtree_error_mode is AVB_HASHTREE_ERROR_MODE_LOGGING
  pc,         \* where the innermost call of load_and_verify_vbmeta() is
  stack,      \* the calls of load_and_verify_vbmeta(), the innermost last
  images,     \* slot_data->vbmeta_images
  loaded,     \* slot_data->loaded_partitions: whether its hash matched, and has it a name
  indexes,    \* slot_data->rollback_indexes
  cmdline,    \* slot_data->cmdline is allocated
  heap,       \* the number of live allocations
  ret,        \* avb_slot_verify()'s ret
  out,        \* whether *out_data is set
  seen,       \* history: the errors the checks reported
  lost        \* history: avb_descriptor_get_all() failed to allocate

slot_data == <<images, loaded, indexes, cmdline>>
inputs    == <<allow, logging>>
vars      == <<inputs, pc, stack, slot_data, heap, ret, out, seen, lost>>

Locations == 0 .. NumLocations - 1
Top       == stack[Len(stack)]

Phases == {"start", "load", "verify", "key", "rollback", "adopt", "requested", "descriptors",
           "store", "out", "finish", "done", "crashed"}

(* One call of load_and_verify_vbmeta() and its locals.  The main vbmeta   *)
(* struct is the one of location 0.                                        *)
Call(part, location) ==
  [ part     |-> part,  location |-> location,
    ret      |-> "OK",  sig      |-> FALSE,    key   |-> FALSE,
    disabled |-> FALSE, index    |-> 0,        left  |-> 0,
    buf      |-> FALSE, adopted  |-> FALSE,    descs |-> FALSE ]

IsMain(f) == f.location = 0

(* Slip: invalid metadata would count as a verification error. *)
result_should_continue_Invalid(r) == r \in {"OK", "ERROR_INVALID_METADATA"} \cup Rejections

result_should_continue(r) == r \in {"OK"} \cup Rejections

---------------------------------------------------------------------------
(* Steps of the innermost call.                                            *)

SetTop(f)  == stack' = [stack EXCEPT ![Len(stack)] = f]
Report(r)  == seen' = IF r = "OK" THEN seen ELSE seen \cup {r}
Goto(l)    == pc' = l

(* `ret = r; goto out' *)
Bail(f, r) == SetTop([f EXCEPT !.ret = r]) /\ Report(r) /\ Goto("out")

(* A check that reported r, after which only an allowed rejection goes on. *)
Proceed(f, r, next) ==
  /\ SetTop(IF r = "OK" THEN f ELSE [f EXCEPT !.ret = r])
  /\ Report(r)
  /\ Goto(IF r = "OK" \/ (allow /\ r \in Rejections) THEN next ELSE "out")

Init ==
  /\ allow \in BOOLEAN
  /\ logging \in BOOLEAN
  /\ pc = "start"
  /\ stack = <<>>
  /\ images = <<>>
  /\ loaded = <<>>
  /\ indexes = [l \in Locations |-> 0]
  /\ cmdline = FALSE
  /\ heap = 0
  /\ ret = "OK"
  /\ out = FALSE
  /\ seen = {}
  /\ lost = FALSE

(* avb_slot_verify() up to its call of load_and_verify_vbmeta(): slot_data *)
(* with its arrays and the substitution list are allocated.                *)
Start ==
  /\ pc = "start"
  /\ ~(logging /\ ~allow)
  /\ heap' = heap + 2
  /\ stack' = <<Call("vbmeta", 0)>>
  /\ Goto("load")
  /\ UNCHANGED <<inputs, slot_data, ret, out, seen, lost>>

StartFails ==
  /\ pc = "start"
  /\ ret' = IF logging /\ ~allow THEN "ERROR_INVALID_ARGUMENT" ELSE "ERROR_OOM"
  /\ Report(ret')
  /\ Goto("done")
  /\ UNCHANGED <<inputs, stack, slot_data, heap, out, lost>>

(* The footer, for a struct that is not in 'vbmeta', and the buffer: no    *)
(* memory, and only with a footer also an I/O error or bad metadata.       *)
LocateFails ==
  /\ pc = "load"
  /\ \E e \in {"ERROR_OOM"} \cup
              (IF Top.part = "vbmeta" THEN {} ELSE {"ERROR_IO", "ERROR_INVALID_METADATA"}) :
       Bail(Top, e)
  /\ UNCHANGED <<inputs, slot_data, heap, ret, out, lost>>

ReadFails ==
  /\ pc = "load"
  /\ \E e \in IoErrors : Bail([Top EXCEPT !.buf = TRUE], e)
  /\ heap' = heap + 1
  /\ UNCHANGED <<inputs, slot_data, ret, out, lost>>

(* There is no 'vbmeta' partition: the struct is looked for in 'boot'.     *)
FallBackToBoot ==
  /\ pc = "load"
  /\ IsMain(Top)
  /\ Top.part = "vbmeta"
  /\ stack' = Append([stack EXCEPT ![Len(stack)].buf = TRUE], Call("boot", 0))
  /\ heap' = heap + 1
  /\ UNCHANGED <<inputs, pc, slot_data, ret, out, seen, lost>>

ReadVBMeta ==
  /\ pc = "load"
  /\ SetTop([Top EXCEPT !.buf = TRUE])
  /\ heap' = heap + 1
  /\ Goto("verify")
  /\ UNCHANGED <<inputs, slot_data, ret, out, seen, lost>>

(* avb_vbmeta_image_verify().  A struct that is not signed, or not by the  *)
(* key it names, leaves no public key to look at.  Only the main struct    *)
(* may have flags, of which VERIFICATION_DISABLED matters here.            *)
VerifyImage ==
  /\ pc = "verify"
  /\ \E r \in {"OK", "ERROR_VERIFICATION"}, index \in Indexes, disabled \in BOOLEAN :
       LET f == [Top EXCEPT !.sig = (r = "OK"), !.index = index, !.disabled = disabled]
       IN  IF ~IsMain(f) /\ disabled /\ (r = "OK" \/ allow)
           THEN Bail(f, "ERROR_INVALID_METADATA")
           ELSE Proceed(f, r, IF r = "OK" THEN "key" ELSE "rollback")
  /\ UNCHANGED <<inputs, slot_data, heap, ret, out, lost>>

VerifyImageFails ==
  /\ pc = "verify"
  /\ \E r \in {"ERROR_INVALID_METADATA", "ERROR_UNSUPPORTED_VERSION"} : Bail(Top, r)
  /\ UNCHANGED <<inputs, slot_data, heap, ret, out, lost>>

(* A chained struct's key is compared with the descriptor's, the main one  *)
(* is put to validate_vbmeta_public_key().                                 *)
CheckKey ==
  /\ pc = "key"
  /\ \E r \in {"OK", "ERROR_PUBLIC_KEY_REJECTED"} :
       Proceed([Top EXCEPT !.key = (r = "OK")], r, "rollback")
  /\ UNCHANGED <<inputs, slot_data, heap, ret, out, lost>>

CheckKeyFails ==
  /\ pc = "key"
  /\ IsMain(Top)
  /\ \E e \in IoErrors : Bail(Top, e)
  /\ UNCHANGED <<inputs, slot_data, heap, ret, out, lost>>

(* Slip: an index equal to the stored one would be taken for a rollback,   *)
(* and one below it would not.                                             *)
CheckRollbackIndex_Inverted ==
  /\ pc = "rollback"
  /\ Proceed(Top, IF Top.index > StoredIndex THEN "ERROR_ROLLBACK_INDEX" ELSE "OK", "adopt")
  /\ UNCHANGED <<inputs, slot_data, heap, ret, out, lost>>

CheckRollbackIndex ==
  /\ pc = "rollback"
  /\ Proceed(Top, IF Top.index < StoredIndex THEN "ERROR_ROLLBACK_INDEX" ELSE "OK", "adopt")
  /\ UNCHANGED <<inputs, slot_data, heap, ret, out, lost>>

ReadRollbackIndexFails ==
  /\ pc = "rollback"
  /\ \E e \in IoErrors : Bail(Top, e)
  /\ UNCHANGED <<inputs, slot_data, heap, ret, out, lost>>

(* slot_data becomes the owner of vbmeta_buf.  Nobody looks whether        *)
(* avb_strdup() had memory for the partition name: without, it is NULL.    *)
AdoptImage ==
  /\ pc = "adopt"
  /\ Len(images) # MaxImages
  /\ \E part \in {Top.part, "none"} :
       images' = Append(images, [part |-> part, location |-> Top.location,
                                 index |-> Top.index, disabled |-> Top.disabled,
                                 verified |-> Top.sig /\ Top.key])
  /\ SetTop([Top EXCEPT !.adopted = TRUE, !.left = IF Top.disabled THEN Requested ELSE 0])
  /\ Goto(IF Top.disabled THEN "requested" ELSE "descriptors")
  /\ UNCHANGED <<inputs, loaded, indexes, cmdline, heap, ret, out, seen, lost>>

TooManyImages ==
  /\ pc = "adopt"
  /\ Len(images) = MaxImages
  /\ Bail(Top, "ERROR_OOM")
  /\ UNCHANGED <<inputs, slot_data, heap, ret, out, lost>>

---------------------------------------------------------------------------
(* load_requested_partitions(), one turn of its loop at a time.            *)

LoadRequested ==
  /\ pc = "requested"
  /\ Top.left > 0
  /\ Len(loaded) # MaxLoaded
  /\ loaded' = Append(loaded, [matched |-> FALSE, named |-> TRUE])
  /\ heap' = heap + 1
  /\ SetTop([Top EXCEPT !.left = @ - 1])
  /\ UNCHANGED <<inputs, pc, images, indexes, cmdline, ret, out, seen, lost>>

(* The name with its suffix may be too long, the size too large.  Here the *)
(* name's avb_strdup() is checked: the entry is left without a name and    *)
(* without data, which counts for nothing.                                 *)
LoadRequestedFails ==
  /\ pc = "requested"
  /\ Top.left > 0
  /\ \E e \in IoErrors \cup {"ERROR_INVALID_METADATA", "ERROR_INVALID_ARGUMENT"} : Bail(Top, e)
  /\ UNCHANGED <<inputs, slot_data, heap, ret, out, lost>>

AllRequestedLoaded ==
  /\ pc = "requested"
  /\ Top.left = 0
  /\ Goto("out")
  /\ UNCHANGED <<inputs, stack, slot_data, heap, ret, out, seen, lost>>

---------------------------------------------------------------------------
(* The descriptors.                                                        *)

Listed == pc = "descriptors" /\ Top.descs

ReadDescriptors ==
  /\ pc = "descriptors"
  /\ ~Top.descs
  /\ heap' = heap + 1
  /\ \E k \in 0 .. MaxDescriptors : SetTop([Top EXCEPT !.descs = TRUE, !.left = k])
  /\ UNCHANGED <<inputs, pc, slot_data, ret, out, seen, lost>>

(* avb_descriptor_get_all() returns NULL without setting num_descriptors,  *)
(* which nobody initialised: with 0 there the loop ends at once, with      *)
(* anything else it reads through NULL.                                    *)
DescriptorsLost ==
  /\ pc = "descriptors"
  /\ ~Top.descs
  /\ lost' = TRUE
  /\ pc' \in {"store", "crashed"}
  /\ UNCHANGED <<inputs, stack, slot_data, heap, ret, out, seen>>

NextDescriptor == [Top EXCEPT !.left = @ - 1]

(* Any of the checks of a descriptor's fields fails. *)
MalformedDescriptor ==
  /\ Listed
  /\ Top.left > 0
  /\ Bail(Top, "ERROR_INVALID_METADATA")
  /\ UNCHANGED <<inputs, slot_data, heap, ret, out, lost>>

(* A property descriptor, a hashtree descriptor with its digest, a hash    *)
(* descriptor of a partition that was not requested, or a command line     *)
(* that does not apply.                                                    *)
IdleDescriptor ==
  /\ Listed
  /\ Top.left > 0
  /\ SetTop(NextDescriptor)
  /\ UNCHANGED <<inputs, pc, slot_data, heap, ret, out, seen, lost>>

(* Slip: the result of a hash descriptor would replace an earlier error. *)
HashDescriptor_Forgets ==
  /\ Listed
  /\ Top.left > 0
  /\ Len(loaded) # MaxLoaded
  /\ \E r \in {"OK", "ERROR_VERIFICATION"}, named \in BOOLEAN :
       /\ loaded' = Append(loaded, [matched |-> r = "OK", named |-> named])
       /\ Proceed([NextDescriptor EXCEPT !.ret = r], r, "descriptors")
  /\ heap' = heap + 1
  /\ UNCHANGED <<inputs, images, indexes, cmdline, ret, out, lost>>

(* load_and_verify_hash_partition() loads a requested partition: slot_data *)
(* owns the buffer even if the digest does not match.  Nobody looks        *)
(* whether there was memory for its name.                                  *)
HashDescriptor ==
  /\ Listed
  /\ Top.left > 0
  /\ Len(loaded) # MaxLoaded
  /\ \E r \in {"OK", "ERROR_VERIFICATION"}, named \in BOOLEAN :
       /\ loaded' = Append(loaded, [matched |-> r = "OK", named |-> named])
       /\ Proceed(NextDescriptor, r, "descriptors")
  /\ heap' = heap + 1
  /\ UNCHANGED <<inputs, images, indexes, cmdline, ret, out, lost>>

(* It fails, or finds the array full, and frees its own buffer. *)
HashDescriptorFails ==
  /\ Listed
  /\ Top.left > 0
  /\ \E e \in IoErrors : Bail(Top, e)
  /\ UNCHANGED <<inputs, slot_data, heap, ret, out, lost>>

(* A chained vbmeta struct is loaded by recursion.  A chain out of a       *)
(* chained struct, or to location 0, is a MalformedDescriptor.  Location   *)
(* NumLocations stands for all that are too large.                         *)
ChainDescriptor ==
  /\ Listed
  /\ Top.left > 0
  /\ IsMain(Top)
  /\ \E location \in 1 .. NumLocations :
       stack' = Append([stack EXCEPT ![Len(stack)] = NextDescriptor], Call("chained", location))
  /\ Goto("load")
  /\ UNCHANGED <<inputs, slot_data, heap, ret, out, seen, lost>>

(* The command line grows: the old one is freed. *)
CmdlineDescriptor ==
  /\ Listed
  /\ Top.left > 0
  /\ cmdline' = TRUE
  /\ heap' = IF cmdline THEN heap ELSE heap + 1
  /\ SetTop(NextDescriptor)
  /\ UNCHANGED <<inputs, pc, images, loaded, indexes, ret, out, seen, lost>>

CmdlineDescriptorFails ==
  /\ Listed
  /\ Top.left > 0
  /\ Bail(Top, "ERROR_OOM")
  /\ UNCHANGED <<inputs, slot_data, heap, ret, out, lost>>

AllDescriptorsDone ==
  /\ Listed
  /\ Top.left = 0
  /\ Goto("store")
  /\ UNCHANGED <<inputs, stack, slot_data, heap, ret, out, seen, lost>>

StoreRollbackIndex ==
  /\ pc = "store"
  /\ Top.location < NumLocations
  /\ indexes' = [indexes EXCEPT ![Top.location] = Top.index]
  /\ Goto("out")
  /\ UNCHANGED <<inputs, stack, images, loaded, cmdline, heap, ret, out, seen, lost>>

LocationTooLarge ==
  /\ pc = "store"
  /\ Top.location >= NumLocations
  /\ Bail(Top, "ERROR_INVALID_METADATA")
  /\ UNCHANGED <<inputs, slot_data, heap, ret, out, lost>>

---------------------------------------------------------------------------
(* What one call frees when it returns. *)

(* Slip: the buffer would be freed although slot_data owns it. *)
FreedBy_Adopted(f) == (IF f.buf THEN 1 ELSE 0) + (IF f.descs THEN 1 ELSE 0)

FreedBy(f) == (IF f.buf /\ ~f.adopted THEN 1 ELSE 0) + (IF f.descs THEN 1 ELSE 0)

Callers == SubSeq(stack, 1, Len(stack) - 1)
Caller  == stack[Len(stack) - 1]

(* The outermost call returns to avb_slot_verify(). *)
ReturnToSlotVerify ==
  /\ pc = "out"
  /\ Len(stack) = 1
  /\ heap' = heap - FreedBy(Top)
  /\ stack' = <<>>
  /\ ret' = Top.ret
  /\ Goto("finish")
  /\ UNCHANGED <<inputs, slot_data, out, seen, lost>>

(* The call for 'boot' returns to the one that missed 'vbmeta', which      *)
(* returns the same result.                                                *)
ReturnFromBoot ==
  /\ pc = "out"
  /\ Len(stack) > 1
  /\ IsMain(Top)
  /\ heap' = heap - FreedBy(Top)
  /\ stack' = [Callers EXCEPT ![Len(Callers)].ret = Top.ret]
  /\ UNCHANGED <<inputs, pc, slot_data, ret, out, seen, lost>>

(* A chained struct returns to the descriptors of the main one.  Unlike a  *)
(* hash mismatch, a rejected chained struct does not stop a locked device  *)
(* from looking at the rest.                                               *)
ReturnFromChain ==
  /\ pc = "out"
  /\ Len(stack) > 1
  /\ ~IsMain(Top)
  /\ heap' = heap - FreedBy(Top)
  /\ stack' = IF Top.ret = "OK" THEN Callers ELSE [Callers EXCEPT ![Len(Callers)].ret = Top.ret]
  /\ Goto(IF result_should_continue(Top.ret) THEN "descriptors" ELSE "out")
  /\ UNCHANGED <<inputs, slot_data, ret, out, seen, lost>>

---------------------------------------------------------------------------
(* The rest of avb_slot_verify().                                          *)

(* slot_data with its arrays and suffix counts as one, and owns what the   *)
(* arrays point to and the command line.                                   *)
Owned == 1 + Len(images) + Len(loaded) + (IF cmdline THEN 1 ELSE 0)

(* Slip: a locked device would go on with an allowed rejection. *)
Usable_Locked == result_should_continue(ret)

Usable == result_should_continue(ret) /\ (ret = "OK" \/ allow)

(* The array is zeroed when it is allocated. *)
TopLevelName == IF images = <<>> THEN "none" ELSE images[1].part

(* The first image's name is compared with "vbmeta" and "boot".  If it is  *)
(* NULL the comparison reads through it, and whatever that finds, the      *)
(* assertion, which every build of UefiAvb.inf has, stops.                 *)
NamelessTopLevel ==
  /\ pc = "finish"
  /\ Usable
  /\ TopLevelName = "none"
  /\ Goto("crashed")
  /\ UNCHANGED <<inputs, stack, slot_data, heap, ret, out, seen, lost>>

(* ab_suffix, the options and the substitutions: the command line is set   *)
(* unless it already was, and slot_data goes to the caller.                *)
Complete ==
  /\ pc = "finish"
  /\ Usable
  /\ TopLevelName # "none"
  /\ cmdline' = TRUE
  /\ heap' = heap - 1 + (IF cmdline THEN 0 ELSE 1)
  /\ out' = TRUE
  /\ Goto("done")
  /\ UNCHANGED <<inputs, stack, images, loaded, indexes, ret, seen, lost>>

(* `fail': everything is freed. *)
CompleteFails ==
  /\ pc = "finish"
  /\ Usable
  /\ TopLevelName # "none"
  /\ \E e \in IoErrors : ret' = e /\ Report(e)
  /\ heap' = heap - 1 - Owned
  /\ Goto("done")
  /\ UNCHANGED <<inputs, stack, slot_data, out, lost>>

(* A locked device frees slot_data.  With errors allowed it is neither     *)
(* freed nor returned: only the substitution list is freed.                *)
Reject ==
  /\ pc = "finish"
  /\ ~Usable
  /\ heap' = IF allow THEN heap - 1 ELSE heap - 1 - Owned
  /\ Goto("done")
  /\ UNCHANGED <<inputs, stack, slot_data, ret, out, seen, lost>>

(* The caller frees the data and verifies the next slot. *)
VerifyAgain ==
  /\ pc = "done"
  /\ allow' \in BOOLEAN
  /\ logging' \in BOOLEAN
  /\ pc' = "start"
  /\ stack' = <<>>
  /\ images' = <<>>
  /\ loaded' = <<>>
  /\ indexes' = [l \in Locations |-> 0]
  /\ cmdline' = FALSE
  /\ heap' = 0
  /\ ret' = "OK"
  /\ out' = FALSE
  /\ seen' = {}
  /\ lost' = FALSE

Load        == LocateFails \/ ReadFails \/ FallBackToBoot \/ ReadVBMeta
Check       == VerifyImage \/ VerifyImageFails \/ CheckKey \/ CheckKeyFails
               \/ CheckRollbackIndex \/ ReadRollbackIndexFails
Adopt       == AdoptImage \/ TooManyImages \/ LoadRequested \/ LoadRequestedFails
               \/ AllRequestedLoaded
Descriptors == ReadDescriptors \/ DescriptorsLost \/ MalformedDescriptor \/ IdleDescriptor
               \/ HashDescriptor \/ HashDescriptorFails \/ ChainDescriptor
               \/ CmdlineDescriptor \/ CmdlineDescriptorFails \/ AllDescriptorsDone
               \/ StoreRollbackIndex \/ LocationTooLarge
Return      == ReturnToSlotVerify \/ ReturnFromBoot \/ ReturnFromChain

(* A crash is the end: the machine hangs or resets. *)
Crashed == pc = "crashed" /\ UNCHANGED vars

Next == Start \/ StartFails \/ Load \/ Check \/ Adopt \/ Descriptors \/ Return
        \/ NamelessTopLevel \/ Complete \/ CompleteFails \/ Reject \/ VerifyAgain \/ Crashed

Spec == Init /\ [][Next]_vars

---------------------------------------------------------------------------
(* Properties.                                                             *)

Frames == [part : {"vbmeta", "boot", "chained"}, location : 0 .. NumLocations,
           ret : Results, sig : BOOLEAN, key : BOOLEAN, disabled : BOOLEAN, index : Indexes,
           left : Nat, buf : BOOLEAN, adopted : BOOLEAN, descs : BOOLEAN]

VBMetaData == [part : {"vbmeta", "boot", "chained", "none"}, location : 0 .. NumLocations,
               index : Indexes, disabled : BOOLEAN, verified : BOOLEAN]

PartitionData == [matched : BOOLEAN, named : BOOLEAN]

TypeOK ==
  /\ allow \in BOOLEAN /\ logging \in BOOLEAN
  /\ pc \in Phases
  /\ stack \in Seq(Frames)
  /\ images \in Seq(VBMetaData) /\ Len(images) <= MaxImages
  /\ loaded \in Seq(PartitionData) /\ Len(loaded) <= MaxLoaded
  /\ indexes \in [Locations -> Indexes]
  /\ cmdline \in BOOLEAN
  /\ heap \in Nat
  /\ ret \in Results
  /\ out \in BOOLEAN
  /\ seen \in SUBSET Results
  /\ lost \in BOOLEAN

(* avb_slot_verify.h: OK is returned if, and only if, there are no errors, *)
(* however many descriptors and chained structs were looked at between an  *)
(* allowed error and the end.  An allocation failure that                  *)
(* avb_descriptor_get_all() swallows (lost) is not among the errors.       *)
OkIffNoErrors == pc = "done" => (ret = "OK" <=> seen = {})

(* avb_slot_verify.h: *out_data is set with OK and, if errors are allowed, *)
(* with the three rejections, never with any other error.                  *)
DataOnlyWhenAllowed ==
  pc = "done" => (out <=> ret = "OK" \/ (allow /\ ret \in Rejections))

(* What a locked device gets to boot: every vbmeta struct was signed by an *)
(* accepted key and is no rollback, and the digest of every partition that *)
(* was loaded matched, unless the signed top-level struct disables that.   *)
LockedDataVerified ==
  out /\ ~allow =>
    /\ \A i \in 1 .. Len(images) : images[i].verified /\ images[i].index >= StoredIndex
    /\ images[1].disabled \/ \A i \in 1 .. Len(loaded) : loaded[i].matched

(* avb_slot_verify.h guarantees that vbmeta_images[0] is the top-level     *)
(* struct, and the code relies on it: it asserts that the array is empty   *)
(* exactly before the main struct, and once the struct tree is walked it   *)
(* takes the first for the main one, from 'vbmeta' or 'boot', and, when    *)
(* that disables verification, expects no command line yet.  A first image *)
(* whose name ran out of memory is the main one all the same, but its name *)
(* is not one of the two: that is TopLevelIsNamed.                         *)
TopLevelStructFirst ==
  /\ pc = "adopt" => (IsMain(Top) <=> images = <<>>)
  /\ pc = "finish" /\ result_should_continue(ret) /\ (ret = "OK" \/ allow) =>
       /\ images # <<>>
       /\ images[1].location = 0
       /\ images[1].part \in {"vbmeta", "boot", "none"}
       /\ images[1].disabled => ~cmdline

(* The assertion of avb_slot_verify.c:1178, in front of everything done    *)
(* with an accepted result: the first image is named 'vbmeta' or 'boot'.   *)
(* It fails when avb_strdup() had no memory for the name at line 765.      *)
TopLevelIsNamed ==
  pc = "finish" /\ Usable => TopLevelName \in {"vbmeta", "boot"}

(* avb_slot_verify.h:115 of every loaded partition that is returned: "The  *)
(* |partition_name| field contains the name of the partition", which       *)
(* uefi_avb_boot.c:155 compares.  It fails when avb_strdup() had no memory *)
(* for it at line 363.                                                     *)
LoadedAreNamed == out => \A i \in 1 .. Len(loaded) : loaded[i].named

(* When avb_slot_verify() returns, what is still allocated is exactly the  *)
(* data it returned, on every path but one: with errors allowed and a      *)
(* fatal result slot_data is neither freed nor returned.                   *)
HeapBalanced ==
  pc = "done" => \/ heap = IF out THEN Owned ELSE 0
                 \/ allow /\ ret \in Fatal /\ heap = Owned
============================================================================
