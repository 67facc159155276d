------------------------- MODULE AvbSlotVerifyProofs -------------------------
(***************************************************************************)
(* Proofs about AvbSlotVerify for every number of descriptors, partitions, *)
(* structs and locations.  The calls of load_and_verify_vbmeta() that are  *)
(* active at one time are at most three (StackInv); the other parts of the *)
(* invariant say what each of them has reported, checked, adopted and      *)
(* allocated.                                                              *)
(***************************************************************************)
EXTENDS AvbSlotVerify, SequenceTheorems, TLAPS

Early   == {"load", "verify", "key", "rollback", "adopt"}
Late    == {"requested", "descriptors", "store"}
Running == Early \cup Late \cup {"out"}

(* The result of a call after which avb_slot_verify() returns slot_data.   *)
Accepted(r) == r = "OK" \/ (allow /\ r \in Rejections)

(* 'vbmeta', below it 'boot', below either a chained struct.               *)
StackInv ==
  /\ pc \in {"start", "finish", "done"} => stack = <<>>
  /\ pc \in Running => stack # <<>>
  /\ Len(stack) <= 3
  /\ \A i \in 1 .. Len(stack) : IsMain(stack[i]) <=> stack[i].part # "chained"
  /\ Len(stack) >= 1 => stack[1].part = "vbmeta"
  /\ Len(stack) >= 2 => stack[2].part # "vbmeta"
  /\ Len(stack) = 3 => stack[2].part = "boot" /\ stack[3].part = "chained"

(* An error is in seen as long as some call, or the result, carries it.    *)
ErrorInv ==
  /\ pc = "start" => ret = "OK" /\ seen = {}
  /\ pc \in Running => (seen = {} <=> \A i \in 1 .. Len(stack) : stack[i].ret = "OK")
  /\ pc \in {"finish", "done"} => (seen = {} <=> ret = "OK")
  /\ pc = "load" => Top.ret = "OK"
  /\ pc \in Running /\ Len(stack) >= 2 /\ stack[2].part = "boot" => stack[1].ret = "OK"

DataInv ==
  /\ pc # "done" => ~out
  /\ pc = "done" => (out <=> Accepted(ret))

(* The top-level struct is the first image, and if it disables             *)
(* verification nothing but the requested partitions is loaded after it.   *)
OrderInv ==
  /\ pc = "start" => images = <<>>
  /\ pc \in Early => (IsMain(Top) <=> images = <<>>)
  /\ pc \in Late => images # <<>>
  /\ pc \in Running /\ images = <<>> => \A i \in 1 .. Len(stack) : IsMain(stack[i])
  /\ pc = "out" /\ images = <<>> => ~Accepted(Top.ret)
  /\ pc = "finish" /\ images = <<>> => ~Accepted(ret)
  /\ pc # "done" /\ images = <<>> => ~cmdline
  /\ pc = "requested" => images[1].disabled
  /\ images # <<>> =>
       /\ images[1].part \in {"vbmeta", "boot", "none"} /\ images[1].location = 0
       /\ images[1].disabled =>
            /\ pc \in {"requested", "out", "finish", "done", "crashed"}
            /\ \A i \in 1 .. Len(stack) : IsMain(stack[i])
            /\ pc # "done" => ~cmdline

(* The struct of the innermost call up to its adoption: its buffer is the  *)
(* call's own, and what no reported error says of its checks.              *)
LocalInv ==
  /\ pc = "load" => ~Top.buf
  /\ pc \in Early => ~Top.adopted /\ ~Top.descs
  /\ pc \in Early \ {"load"} => Top.buf
  /\ pc \in {"key", "rollback", "adopt"} /\ Top.disabled => IsMain(Top)
  /\ seen = {} =>
       /\ pc \in {"key", "rollback", "adopt"} => Top.sig
       /\ pc \in {"rollback", "adopt"} => Top.key
       /\ pc = "adopt" => Top.index >= StoredIndex

(* What no reported error says of what was adopted and loaded.             *)
CheckInv ==
  seen = {} =>
    /\ \A i \in 1 .. Len(images) : images[i].verified /\ images[i].index >= StoredIndex
    /\ (\E i \in 1 .. Len(loaded) : ~loaded[i].matched) => images # <<>> /\ images[1].disabled

(* What a call will free.                                                  *)
Held(i) == IF i <= Len(stack) THEN FreedBy(stack[i]) ELSE 0

HeapInv ==
  /\ pc = "start" => heap = 0 /\ images = <<>> /\ loaded = <<>> /\ ~cmdline
  /\ pc \in Running => heap = 1 + Owned + Held(1) + Held(2) + Held(3)
  /\ pc = "finish" => heap = 1 + Owned

IInv == /\ TypeOK /\ StackInv /\ LocalInv /\ ErrorInv /\ DataInv /\ OrderInv /\ CheckInv
        /\ HeapInv /\ HeapBalanced

---------------------------------------------------------------------------
(* What a step does to the stack of calls. *)

(* The last element of a sequence is replaced. *)
LEMMA LastReplaced ==
  ASSUME NEW S, NEW s \in Seq(S), s # <<>>, NEW e \in S
  PROVE  LET t == [s EXCEPT ![Len(s)] = e]
         IN  /\ Len(s) \in Nat \ {0}
             /\ t \in Seq(S)
             /\ Len(t) = Len(s)
             /\ t[Len(s)] = e
             /\ \A i \in 1 .. Len(s) : i # Len(s) => t[i] = s[i]
  BY ExceptSeq

(* A sequence loses its last element. *)
LEMMA LastRemoved ==
  ASSUME NEW S, NEW s \in Seq(S), s # <<>>
  PROVE  LET t == SubSeq(s, 1, Len(s) - 1)
         IN  /\ Len(s) \in Nat \ {0}
             /\ t \in Seq(S)
             /\ Len(t) = Len(s) - 1
             /\ \A i \in 1 .. Len(t) : t[i] = s[i]
<1> DEFINE n == Len(s) - 1
           t == SubSeq(s, 1, n)
<1>1. Len(s) \in Nat \ {0}
  BY EmptySeq
<1>2. /\ n \in Nat
      /\ \A i \in 1 .. n : s[i] \in S
  BY <1>1, ElementOfSeq
<1>3. /\ t \in Seq(S)
      /\ Len(t) = IF 1 <= n THEN n - 1 + 1 ELSE 0
      /\ \A i \in 1 .. n - 1 + 1 : t[i] = s[1 + i - 1]
  BY <1>2, SubSeqProperties
<1> HIDE DEF n, t
<1>4. n - 1 + 1 = n /\ (IF 1 <= n THEN n - 1 + 1 ELSE 0) = n /\ \A i \in 1 .. n : 1 + i - 1 = i
  BY <1>2
<1>5. Len(t) = n /\ \A i \in 1 .. n : t[i] = s[i]
  BY <1>3, <1>4
<1> QED
  BY <1>1, <1>3, <1>5 DEF n, t

(* The last element of a sequence is replaced and another one appended.    *)
LEMMA LastReplacedAndPushed ==
  ASSUME NEW S, NEW s \in Seq(S), s # <<>>, NEW e \in S, NEW c \in S
  PROVE  LET t == Append([s EXCEPT ![Len(s)] = e], c)
         IN  /\ Len(s) \in Nat \ {0}
             /\ t \in Seq(S)
             /\ Len(t) = Len(s) + 1
             /\ t[Len(s) + 1] = c
             /\ t[Len(s)] = e
             /\ \A i \in 1 .. Len(s) : i # Len(s) => t[i] = s[i]
<1> DEFINE u == [s EXCEPT ![Len(s)] = e]
           n == Len(s)
<1>1. /\ n \in Nat \ {0} /\ u \in Seq(S) /\ Len(u) = n /\ u[n] = e
      /\ \A i \in 1 .. n : i # n => u[i] = s[i]
  BY LastReplaced
<1> HIDE DEF u, n
<1>2. /\ Append(u, c) \in Seq(S) /\ Len(Append(u, c)) = n + 1
      /\ \A i \in 1 .. n : Append(u, c)[i] = u[i]
      /\ Append(u, c)[n + 1] = c
  BY <1>1, AppendProperties
<1> DEFINE t == Append(u, c)
<1>3. /\ n \in Nat \ {0} /\ t \in Seq(S) /\ Len(t) = n + 1 /\ t[n + 1] = c /\ t[n] = e
      /\ \A i \in 1 .. n : i # n => t[i] = s[i]
  BY <1>1, <1>2
<1> HIDE DEF t
<1> QED
  BY <1>3 DEF u, n, t

(* The innermost call goes on, those that wait for it do not. *)
TopStep ==
  /\ Len(stack) \in 1 .. 3
  /\ Top \in Frames
  /\ stack' \in Seq(Frames)
  /\ Len(stack') = Len(stack)
  /\ Top' \in Frames
  /\ Top'.part = Top.part
  /\ Top'.location = Top.location
  /\ \A i \in 1 .. Len(stack) : i # Len(stack) => stack'[i] = stack[i]

(* No error is reported and none forgotten, or one is reported and kept. *)
Reported ==
  \/ Top'.ret = Top.ret /\ seen' = seen
  \/ Top'.ret # "OK" /\ seen' # {}

(* In a running call there is a top of the stack. *)
LEMMA RunningTop ==
  ASSUME TypeOK, StackInv, pc \in Running
  PROVE  /\ Len(stack) \in 1 .. 3
         /\ stack # <<>>
         /\ Top \in Frames
<1>1. stack # <<>>
  BY DEF StackInv, Running, Early, Late
<1>2. stack \in Seq(Frames) /\ Len(stack) <= 3
  BY DEF TypeOK, StackInv
<1>3. Len(stack) \in 1 .. 3
  <2>1. Len(stack) \in Nat \ {0}
    BY <1>1, <1>2, EmptySeq
  <2>2. \A n \in Nat \ {0} : n <= 3 => n \in 1 .. 3
    OBVIOUS
  <2> QED
    BY <1>2, <2>1, <2>2
<1> QED
  BY <1>1, <1>2, <1>3, ElementOfSeq DEF Top

(* Replacing the innermost call leaves the callers alone.                  *)
LEMMA SetTopStep ==
  ASSUME TypeOK, StackInv, pc \in Running,
         NEW f \in Frames, f.part = Top.part, f.location = Top.location, SetTop(f)
  PROVE  TopStep /\ Top' = f
<1>1. Len(stack) \in 1 .. 3 /\ stack # <<>> /\ Top \in Frames
  BY RunningTop
<1>2. stack \in Seq(Frames)
  BY DEF TypeOK
<1>3. /\ stack' \in Seq(Frames)
      /\ Len(stack') = Len(stack)
      /\ stack'[Len(stack)] = f
      /\ \A i \in 1 .. Len(stack) : i # Len(stack) => stack'[i] = stack[i]
  BY <1>1, <1>2, LastReplaced DEF SetTop
<1>4. Top' = f
  BY <1>3 DEF Top
<1> QED
  BY <1>1, <1>3, <1>4 DEF TopStep

(* `ret = r; goto out' reports r and keeps it. *)
LEMMA BailStep ==
  ASSUME TypeOK, StackInv, pc \in Running,
         NEW f \in Frames, f.part = Top.part, f.location = Top.location,
         NEW r \in Results \ {"OK"}, Bail(f, r)
  PROVE  TopStep /\ Reported /\ pc' = "out" /\ Top' = [f EXCEPT !.ret = r] /\ seen' # {}
<1> DEFINE g == [f EXCEPT !.ret = r]
<1>1. g \in Frames /\ g.part = f.part /\ g.location = f.location /\ g.ret = r
  BY DEF Frames
<1>2. SetTop(g)
  BY DEF Bail
<1>3. TopStep /\ Top' = g
  BY <1>1, <1>2, SetTopStep
<1>4. pc' = "out" /\ seen' = seen \cup {r}
  BY DEF Bail, Goto, Report
<1> QED
  BY <1>1, <1>3, <1>4 DEF Reported

(* So does a check, unless it found nothing. *)
LEMMA ProceedStep ==
  ASSUME TypeOK, StackInv, pc \in Running,
         NEW f \in Frames, f.part = Top.part, f.location = Top.location, f.ret = Top.ret,
         NEW r \in {"OK"} \cup Rejections, NEW next, Proceed(f, r, next)
  PROVE  /\ TopStep /\ Reported
         /\ pc' = IF Accepted(r) THEN next ELSE "out"
         /\ Top' = IF r = "OK" THEN f ELSE [f EXCEPT !.ret = r]
         /\ IF r = "OK" THEN seen' = seen ELSE seen' # {}
<1> DEFINE g == IF r = "OK" THEN f ELSE [f EXCEPT !.ret = r]
<1>0. r \in Results
  BY DEF Results
<1>1. /\ g \in Frames /\ g.part = f.part /\ g.location = f.location
      /\ g.ret = IF r = "OK" THEN f.ret ELSE r
  BY <1>0 DEF Frames
<1>2. SetTop(g)
  BY DEF Proceed
<1>3. TopStep /\ Top' = g
  BY <1>1, <1>2, SetTopStep
<1>4. /\ pc' = IF Accepted(r) THEN next ELSE "out"
      /\ seen' = IF r = "OK" THEN seen ELSE seen \cup {r}
  BY DEF Proceed, Goto, Report, Accepted
<1> QED
  BY <1>1, <1>3, <1>4 DEF Reported

(* What a step allocates is owned by slot_data or freed by the call.       *)
Balanced == heap' - Owned' - FreedBy(Top') = heap - Owned - FreedBy(Top)

(* Going to the next descriptor changes nothing else of the call.          *)
LEMMA NextDescriptorIsFrame ==
  ASSUME Top \in Frames, Top.left > 0
  PROVE  /\ NextDescriptor \in Frames /\ NextDescriptor.part = Top.part
         /\ NextDescriptor.location = Top.location /\ NextDescriptor.ret = Top.ret
         /\ FreedBy(NextDescriptor) = FreedBy(Top)
         /\ FreedBy(Top) \in Nat
<1>1. Top.left \in Nat /\ Top.left > 0
  BY DEF Frames
<1> QED
  BY <1>1 DEF NextDescriptor, FreedBy, Frames

(* The actions of the innermost call alone.                                *)
TopActions ==
  \/ LocateFails \/ ReadFails \/ ReadVBMeta
  \/ VerifyImage \/ VerifyImageFails \/ CheckKey \/ CheckKeyFails
  \/ CheckRollbackIndex \/ ReadRollbackIndexFails
  \/ AdoptImage \/ TooManyImages \/ LoadRequested \/ LoadRequestedFails
  \/ ReadDescriptors \/ MalformedDescriptor \/ IdleDescriptor
  \/ HashDescriptor \/ HashDescriptorFails
  \/ CmdlineDescriptor \/ CmdlineDescriptorFails \/ LocationTooLarge

(* slot_data always owns something that can be counted.                    *)
LEMMA OwnedIsNat == TypeOK => Owned \in Nat
<1> SUFFICES ASSUME TypeOK PROVE Owned \in Nat
  OBVIOUS
<1>1. Len(images) \in Nat /\ Len(loaded) \in Nat
  BY LenProperties DEF TypeOK
<1> QED
  BY <1>1 DEF Owned

(* One more image, partition or command line is one more to free.          *)
LEMMA OwnedGrows ==
  ASSUME TypeOK
  PROVE  /\ UNCHANGED slot_data => Owned' = Owned
         /\ \A x \in VBMetaData :
              images' = Append(images, x) /\ UNCHANGED <<loaded, cmdline>> => Owned' = Owned + 1
         /\ \A b \in PartitionData :
              loaded' = Append(loaded, b) /\ UNCHANGED <<images, cmdline>> => Owned' = Owned + 1
         /\ cmdline' = TRUE /\ UNCHANGED <<images, loaded>> =>
              Owned' = IF cmdline THEN Owned ELSE Owned + 1
<1>1. Len(images) \in Nat /\ Len(loaded) \in Nat /\ cmdline \in BOOLEAN
  BY LenProperties DEF TypeOK
<1>2. /\ \A x \in VBMetaData : Len(Append(images, x)) = Len(images) + 1
      /\ \A b \in PartitionData : Len(Append(loaded, b)) = Len(loaded) + 1
  BY AppendProperties DEF TypeOK
<1>3. UNCHANGED slot_data => Owned' = Owned
  BY DEF slot_data, Owned
<1>4. ASSUME NEW x \in VBMetaData, images' = Append(images, x), UNCHANGED <<loaded, cmdline>>
      PROVE  Owned' = Owned + 1
  <2>1. Len(images') = Len(images) + 1 /\ Len(loaded') = Len(loaded) /\ cmdline' = cmdline
    BY <1>2, <1>4
  <2> QED
    BY <1>1, <2>1 DEF Owned
<1>5. ASSUME NEW b \in PartitionData, loaded' = Append(loaded, b), UNCHANGED <<images, cmdline>>
      PROVE  Owned' = Owned + 1
  <2>1. Len(loaded') = Len(loaded) + 1 /\ Len(images') = Len(images) /\ cmdline' = cmdline
    BY <1>2, <1>5
  <2> QED
    BY <1>1, <2>1 DEF Owned
<1>6. ASSUME cmdline' = TRUE, UNCHANGED <<images, loaded>>
      PROVE  Owned' = IF cmdline THEN Owned ELSE Owned + 1
  BY <1>1, <1>6 DEF Owned
<1> QED
  BY <1>3, <1>4, <1>5, <1>6

(* All actions of the innermost call leave the callers alone, keep every   *)
(* error, account for their memory and check before they adopt.            *)
LEMMA TopActionsStep ==
  ASSUME TypeOK, StackInv, LocalInv, TopActions
  PROVE  TopStep /\ Reported /\ Balanced /\ LocalInv'
<1> USE DEF Results, IoErrors, Fatal, Rejections
<1>0. pc \in Running
  BY DEF TopActions, LocateFails, ReadFails, ReadVBMeta, VerifyImage, VerifyImageFails, CheckKey,
         CheckKeyFails, CheckRollbackIndex, ReadRollbackIndexFails, AdoptImage, TooManyImages,
         LoadRequested, LoadRequestedFails, ReadDescriptors, MalformedDescriptor,
         IdleDescriptor, HashDescriptor, HashDescriptorFails, CmdlineDescriptor,
         CmdlineDescriptorFails, LocationTooLarge, Listed, Running, Early, Late
<1>01. pc' \notin Early => LocalInv'
  BY DEF LocalInv, Early
<1>1. Top \in Frames
  BY <1>0, RunningTop
<1>2. heap \in Nat /\ Owned \in Nat
  BY OwnedIsNat DEF TypeOK
<1>3. ASSUME NEW r \in Results \ {"OK"}, Bail(Top, r), UNCHANGED <<slot_data, heap>>
      PROVE  TopStep /\ Reported /\ Balanced /\ LocalInv'
  <2>1. TopStep /\ Reported /\ Top' = [Top EXCEPT !.ret = r] /\ pc' = "out"
    BY <1>0, <1>1, <1>3, BailStep
  <2>2. FreedBy(Top') = FreedBy(Top) /\ Owned' = Owned
    BY <1>1, <1>3, <2>1, OwnedGrows DEF FreedBy, Frames
  <2> QED
    BY <1>3, <2>1, <2>2, <1>01 DEF Balanced, Early
<1>4. ASSUME NEW f \in Frames, f.part = Top.part, f.location = Top.location, f.ret = Top.ret,
             SetTop(f), UNCHANGED seen
      PROVE  TopStep /\ Reported /\ Top' = f
  BY <1>0, <1>4, SetTopStep DEF Reported
<1>5. CASE \/ LocateFails \/ VerifyImageFails \/ CheckKeyFails \/ ReadRollbackIndexFails
           \/ TooManyImages \/ LoadRequestedFails \/ MalformedDescriptor
           \/ HashDescriptorFails \/ CmdlineDescriptorFails \/ LocationTooLarge
  BY <1>3, <1>5 DEF LocateFails, VerifyImageFails, CheckKeyFails, ReadRollbackIndexFails,
         TooManyImages, LoadRequestedFails, MalformedDescriptor, HashDescriptorFails,
         CmdlineDescriptorFails, LocationTooLarge
<1>6. CASE ReadFails
  <2>1. PICK e \in IoErrors : Bail([Top EXCEPT !.buf = TRUE], e)
    BY <1>6 DEF ReadFails
  <2> DEFINE f == [Top EXCEPT !.buf = TRUE]
  <2>2. f \in Frames /\ f.part = Top.part /\ f.location = Top.location
    BY <1>1 DEF Frames
  <2>3. TopStep /\ Reported /\ Top' = [f EXCEPT !.ret = e] /\ pc' = "out"
    BY <1>0, <1>1, <2>1, <2>2, BailStep
  <2>4. ~Top.buf /\ ~Top.adopted
    BY <1>6 DEF ReadFails, LocalInv, Early
  <2>5. FreedBy(Top') = FreedBy(Top) + 1
    BY <1>1, <2>3, <2>4 DEF FreedBy, Frames
  <2>6. Owned' = Owned /\ heap' = heap + 1
    BY <1>6, OwnedGrows DEF ReadFails
  <2> QED
    BY <1>1, <1>2, <2>3, <2>5, <2>6, <1>01 DEF Balanced, Early, FreedBy
<1>7. CASE ReadVBMeta
  <2> DEFINE f == [Top EXCEPT !.buf = TRUE]
  <2>1. f \in Frames /\ f.part = Top.part /\ f.location = Top.location /\ f.ret = Top.ret
    BY <1>1 DEF Frames
  <2>2. TopStep /\ Reported /\ Top' = f
    BY <1>4, <1>7, <2>1 DEF ReadVBMeta
  <2>3. ~Top.buf /\ ~Top.adopted /\ ~Top.descs /\ pc' = "verify"
    BY <1>7 DEF ReadVBMeta, LocalInv, Early, Goto
  <2>4. FreedBy(Top') = FreedBy(Top) + 1
    BY <1>1, <2>2, <2>3 DEF FreedBy, Frames
  <2>5. Owned' = Owned /\ heap' = heap + 1
    BY <1>7, OwnedGrows DEF ReadVBMeta
  <2>6. Balanced
    BY <1>2, <2>4, <2>5 DEF Balanced, FreedBy
  <2>7. LocalInv'
    BY <1>1, <2>2, <2>3 DEF LocalInv, Early, Frames
  <2> QED
    BY <2>2, <2>6, <2>7
<1>8. CASE VerifyImage
  <2>1. pc = "verify" /\ Top.buf /\ ~Top.adopted /\ ~Top.descs /\ UNCHANGED <<slot_data, heap>>
    BY <1>8 DEF VerifyImage, LocalInv, Early
  <2>2. PICK r \in {"OK", "ERROR_VERIFICATION"}, index \in Indexes, disabled \in BOOLEAN :
          LET f == [Top EXCEPT !.sig = (r = "OK"), !.index = index, !.disabled = disabled]
          IN  IF ~IsMain(f) /\ disabled /\ (r = "OK" \/ allow)
              THEN Bail(f, "ERROR_INVALID_METADATA")
              ELSE Proceed(f, r, IF r = "OK" THEN "key" ELSE "rollback")
    BY <1>8 DEF VerifyImage
  <2> DEFINE f == [Top EXCEPT !.sig = (r = "OK"), !.index = index, !.disabled = disabled]
  <2>3. /\ f \in Frames /\ f.part = Top.part /\ f.location = Top.location /\ f.ret = Top.ret
        /\ f.sig = (r = "OK") /\ f.buf = Top.buf /\ f.adopted = Top.adopted
        /\ f.descs = Top.descs /\ f.disabled = disabled
    BY <1>1 DEF Frames
  <2> HIDE DEF f
  <2>4. CASE ~IsMain(f) /\ disabled /\ (r = "OK" \/ allow)
    <3>1. Bail(f, "ERROR_INVALID_METADATA")
      BY <2>2, <2>4 DEF f
    <3>2. /\ TopStep /\ Reported /\ pc' = "out"
          /\ Top' = [f EXCEPT !.ret = "ERROR_INVALID_METADATA"]
      BY <1>0, <2>3, <3>1, BailStep
    <3>3. FreedBy(Top') = FreedBy(Top) /\ Owned' = Owned
      BY <2>1, <2>3, <3>2, OwnedGrows DEF FreedBy, Frames
    <3> QED
      BY <2>1, <3>2, <3>3, <1>01 DEF Balanced, Early
  <2>5. CASE ~(~IsMain(f) /\ disabled /\ (r = "OK" \/ allow))
    <3> DEFINE next == IF r = "OK" THEN "key" ELSE "rollback"
    <3>1. Proceed(f, r, next)
      BY <2>2, <2>5 DEF f
    <3>2. /\ TopStep /\ Reported
          /\ pc' = IF Accepted(r) THEN next ELSE "out"
          /\ Top' = IF r = "OK" THEN f ELSE [f EXCEPT !.ret = r]
          /\ IF r = "OK" THEN seen' = seen ELSE seen' # {}
      BY <1>0, <2>3, <3>1, ProceedStep
    <3>3. /\ Top'.buf = Top.buf /\ Top'.adopted = Top.adopted /\ Top'.descs = Top.descs
          /\ Top'.disabled = disabled /\ Top'.sig = (r = "OK") /\ (IsMain(Top') <=> IsMain(f))
      BY <2>3, <3>2 DEF Frames, IsMain
    <3>4. FreedBy(Top') = FreedBy(Top) /\ Owned' = Owned
      BY <2>1, <3>3, OwnedGrows DEF FreedBy
    <3>5. LocalInv'
      BY <2>1, <2>5, <3>2, <3>3 DEF LocalInv, Early, Accepted
    <3> QED
      BY <2>1, <3>2, <3>4, <3>5 DEF Balanced
  <2> QED
    BY <2>4, <2>5
<1>9. CASE CheckKey
  <2>1. pc = "key" /\ UNCHANGED <<slot_data, heap>>
    BY <1>9 DEF CheckKey
  <2>2. PICK r \in {"OK", "ERROR_PUBLIC_KEY_REJECTED"} :
          Proceed([Top EXCEPT !.key = (r = "OK")], r, "rollback")
    BY <1>9 DEF CheckKey
  <2> DEFINE f == [Top EXCEPT !.key = (r = "OK")]
  <2>3. /\ f \in Frames /\ f.part = Top.part /\ f.location = Top.location /\ f.ret = Top.ret
        /\ f.sig = Top.sig /\ f.buf = Top.buf /\ f.adopted = Top.adopted
        /\ f.descs = Top.descs /\ f.disabled = Top.disabled /\ f.key = (r = "OK")
    BY <1>1 DEF Frames
  <2> HIDE DEF f
  <2>4. /\ TopStep /\ Reported
        /\ pc' = IF Accepted(r) THEN "rollback" ELSE "out"
        /\ Top' = IF r = "OK" THEN f ELSE [f EXCEPT !.ret = r]
        /\ IF r = "OK" THEN seen' = seen ELSE seen' # {}
    BY <1>0, <2>2, <2>3, ProceedStep DEF f
  <2>5. /\ Top'.buf = Top.buf /\ Top'.adopted = Top.adopted /\ Top'.descs = Top.descs
        /\ Top'.disabled = Top.disabled /\ Top'.sig = Top.sig /\ Top'.key = (r = "OK")
        /\ (IsMain(Top') <=> IsMain(Top))
    BY <2>3, <2>4 DEF Frames, IsMain
  <2>6. FreedBy(Top') = FreedBy(Top) /\ Owned' = Owned
    BY <2>1, <2>5, OwnedGrows DEF FreedBy
  <2>7. LocalInv'
    BY <2>1, <2>4, <2>5 DEF LocalInv, Early, Accepted
  <2> QED
    BY <2>1, <2>4, <2>6, <2>7 DEF Balanced
<1>10. CASE CheckRollbackIndex
  <2> DEFINE r == IF Top.index < StoredIndex THEN "ERROR_ROLLBACK_INDEX" ELSE "OK"
  <2>1. pc = "rollback" /\ UNCHANGED <<slot_data, heap>> /\ Proceed(Top, r, "adopt")
    BY <1>10 DEF CheckRollbackIndex
  <2>2. r \in {"OK"} \cup Rejections /\ (r = "OK" => Top.index >= StoredIndex)
    BY <1>1 DEF StoredIndex, Frames, Indexes
  <2> HIDE DEF r
  <2>3. /\ TopStep /\ Reported
        /\ pc' = IF Accepted(r) THEN "adopt" ELSE "out"
        /\ Top' = IF r = "OK" THEN Top ELSE [Top EXCEPT !.ret = r]
        /\ IF r = "OK" THEN seen' = seen ELSE seen' # {}
    BY <1>0, <1>1, <2>1, <2>2, ProceedStep
  <2>4. /\ Top'.buf = Top.buf /\ Top'.adopted = Top.adopted /\ Top'.descs = Top.descs
        /\ Top'.disabled = Top.disabled /\ Top'.sig = Top.sig /\ Top'.key = Top.key
        /\ Top'.index = Top.index /\ (IsMain(Top') <=> IsMain(Top))
    BY <1>1, <2>3 DEF Frames, IsMain
  <2>5. FreedBy(Top') = FreedBy(Top) /\ Owned' = Owned
    BY <2>1, <2>4, OwnedGrows DEF FreedBy
  <2>6. LocalInv'
    BY <2>1, <2>2, <2>3, <2>4 DEF LocalInv, Early
  <2> QED
    BY <2>1, <2>3, <2>5, <2>6 DEF Balanced
<1>11. CASE AdoptImage
  <2>0. PICK part \in {Top.part, "none"} :
          images' = Append(images, [part |-> part, location |-> Top.location,
                                    index |-> Top.index, disabled |-> Top.disabled,
                                    verified |-> Top.sig /\ Top.key])
    BY <1>11 DEF AdoptImage
  <2> DEFINE x == [part |-> part, location |-> Top.location, index |-> Top.index,
                   disabled |-> Top.disabled, verified |-> Top.sig /\ Top.key]
             f == [Top EXCEPT !.adopted = TRUE, !.left = IF Top.disabled THEN Requested ELSE 0]
  <2>1. Top.buf /\ ~Top.adopted /\ ~Top.descs
    BY <1>11 DEF AdoptImage, LocalInv, Early
  <2>2. /\ SetTop(f) /\ seen' = seen /\ images' = Append(images, x)
        /\ UNCHANGED <<loaded, cmdline>> /\ heap' = heap /\ pc' \in {"requested", "descriptors"}
    BY <1>11, <2>0 DEF AdoptImage, Goto
  <2>3. x \in VBMetaData /\ f \in Frames
    BY <1>1, SlotVerifyAssumption DEF VBMetaData, Frames
  <2>4. TopStep /\ Reported /\ Top' = f
    BY <1>1, <1>4, <2>2, <2>3 DEF Frames
  <2>5. Owned' = Owned + 1
    BY <2>2, <2>3, OwnedGrows
  <2>6. FreedBy(Top') = FreedBy(Top) - 1
    BY <1>1, <2>1, <2>4 DEF FreedBy, Frames
  <2> QED
    BY <1>2, <2>1, <2>2, <2>4, <2>5, <2>6, <1>01 DEF Balanced, Early, FreedBy
<1>12. CASE LoadRequested
  <2> DEFINE f == [Top EXCEPT !.left = @ - 1]
  <2>1. /\ SetTop(f) /\ seen' = seen /\ heap' = heap + 1
        /\ loaded' = Append(loaded, [matched |-> FALSE, named |-> TRUE])
        /\ UNCHANGED <<images, cmdline>> /\ pc = "requested" /\ pc' = pc /\ Top.left > 0
    BY <1>12 DEF LoadRequested
  <2>2. f \in Frames
    BY <1>1, <2>1 DEF Frames
  <2>3. TopStep /\ Reported /\ Top' = f
    BY <1>1, <1>4, <2>1, <2>2 DEF Frames
  <2>4. Owned' = Owned + 1
    <3>1. [matched |-> FALSE, named |-> TRUE] \in PartitionData
      BY DEF PartitionData
    <3> QED
      BY <2>1, <3>1, OwnedGrows
  <2>5. FreedBy(Top') = FreedBy(Top)
    BY <1>1, <2>3 DEF FreedBy, Frames
  <2> QED
    BY <1>2, <2>1, <2>3, <2>4, <2>5, <1>01 DEF Balanced, Early, FreedBy
<1>13. CASE ReadDescriptors
  <2>1. PICK k \in 0 .. MaxDescriptors : SetTop([Top EXCEPT !.descs = TRUE, !.left = k])
    BY <1>13 DEF ReadDescriptors
  <2> DEFINE f == [Top EXCEPT !.descs = TRUE, !.left = k]
  <2>2. /\ ~Top.descs /\ seen' = seen /\ heap' = heap + 1 /\ UNCHANGED slot_data
        /\ pc = "descriptors" /\ pc' = pc
    BY <1>13 DEF ReadDescriptors
  <2>3. k \in Nat
    BY SlotVerifyAssumption
  <2>4. f \in Frames
    BY <1>1, <2>3 DEF Frames
  <2>5. TopStep /\ Reported /\ Top' = f
    BY <1>1, <1>4, <2>1, <2>2, <2>4 DEF Frames
  <2>6. FreedBy(Top') = FreedBy(Top) + 1
    BY <1>1, <2>2, <2>5 DEF FreedBy, Frames
  <2>7. Owned' = Owned
    BY <2>2, OwnedGrows
  <2> QED
    BY <1>2, <2>2, <2>5, <2>6, <2>7, <1>01 DEF Balanced, Early, FreedBy
<1>14. CASE IdleDescriptor \/ HashDescriptor \/ CmdlineDescriptor
  <2>1. /\ NextDescriptor \in Frames /\ NextDescriptor.part = Top.part
        /\ NextDescriptor.location = Top.location /\ NextDescriptor.ret = Top.ret
        /\ FreedBy(NextDescriptor) = FreedBy(Top)
        /\ FreedBy(Top) \in Nat
    BY <1>1, <1>14, NextDescriptorIsFrame DEF IdleDescriptor, HashDescriptor, CmdlineDescriptor
  <2>2. pc = "descriptors"
    BY <1>14 DEF IdleDescriptor, HashDescriptor, CmdlineDescriptor, Listed
  <2>3. CASE IdleDescriptor
    <3>1. /\ SetTop(NextDescriptor) /\ seen' = seen /\ heap' = heap /\ UNCHANGED slot_data
          /\ pc' = pc
      BY <2>3 DEF IdleDescriptor
    <3>2. TopStep /\ Reported /\ Top' = NextDescriptor
      BY <1>4, <2>1, <3>1
    <3>3. Owned' = Owned
      BY <3>1, OwnedGrows
    <3> QED
      BY <2>1, <2>2, <3>1, <3>2, <3>3, <1>01 DEF Balanced, Early
  <2>4. CASE HashDescriptor
    <3>1. PICK r \in {"OK", "ERROR_VERIFICATION"}, named \in BOOLEAN :
            /\ loaded' = Append(loaded, [matched |-> r = "OK", named |-> named])
            /\ Proceed(NextDescriptor, r, "descriptors")
      BY <2>4 DEF HashDescriptor
    <3>2. heap' = heap + 1 /\ UNCHANGED <<images, cmdline>>
      BY <2>4 DEF HashDescriptor
    <3>3. /\ TopStep /\ Reported
          /\ pc' = IF Accepted(r) THEN "descriptors" ELSE "out"
          /\ Top' = IF r = "OK" THEN NextDescriptor ELSE [NextDescriptor EXCEPT !.ret = r]
      BY <1>0, <2>1, <3>1, ProceedStep
    <3>4. FreedBy(Top') = FreedBy(Top)
      BY <2>1, <3>3 DEF FreedBy, Frames
    <3>5. Owned' = Owned + 1
      <4>1. [matched |-> r = "OK", named |-> named] \in PartitionData
        BY DEF PartitionData
      <4> QED
        BY <3>1, <3>2, <4>1, OwnedGrows
    <3> QED
      BY <1>2, <2>1, <3>2, <3>3, <3>4, <3>5, <1>01 DEF Balanced, Early
  <2>5. CASE CmdlineDescriptor
    <3>1. /\ SetTop(NextDescriptor) /\ seen' = seen /\ cmdline' = TRUE
          /\ heap' = (IF cmdline THEN heap ELSE heap + 1)
          /\ UNCHANGED <<images, loaded>> /\ pc' = pc
      BY <2>5 DEF CmdlineDescriptor
    <3>2. TopStep /\ Reported /\ Top' = NextDescriptor
      BY <1>4, <2>1, <3>1
    <3>3. Owned' = IF cmdline THEN Owned ELSE Owned + 1
      BY <3>1, OwnedGrows
    <3> QED
      BY <1>2, <2>1, <2>2, <3>1, <3>2, <3>3, <1>01 DEF Balanced, Early
  <2> QED
    BY <1>14, <2>3, <2>4, <2>5
<1> QED
  BY <1>5, <1>6, <1>7, <1>8, <1>9, <1>10, <1>11, <1>12, <1>13, <1>14 DEF TopActions

(* The innermost call has not returned yet, and does not start again.      *)
LEMMA TopActionsGoOn ==
  ASSUME TopActions
  PROVE  pc \in Running \ {"out"} /\ pc' \in Running \ {"load"}
<1> USE DEF Running, Early, Late
<1>1. CASE LocateFails \/ ReadFails \/ ReadVBMeta \/ TooManyImages \/ AdoptImage
  BY <1>1 DEF LocateFails, ReadFails, ReadVBMeta, TooManyImages, AdoptImage, Bail, Goto
<1>2. CASE VerifyImage
  BY <1>2 DEF VerifyImage, Bail, Proceed, Goto
<1>3. CASE \/ VerifyImageFails \/ CheckKey \/ CheckKeyFails \/ CheckRollbackIndex
           \/ ReadRollbackIndexFails
  BY <1>3 DEF VerifyImageFails, CheckKey, CheckKeyFails, CheckRollbackIndex,
              ReadRollbackIndexFails, Bail, Proceed, Goto
<1>4. CASE LoadRequested \/ LoadRequestedFails \/ ReadDescriptors \/ LocationTooLarge
  BY <1>4 DEF LoadRequested, LoadRequestedFails, ReadDescriptors, LocationTooLarge, Bail, Goto
<1>5. CASE \/ MalformedDescriptor \/ IdleDescriptor \/ HashDescriptor \/ HashDescriptorFails
           \/ CmdlineDescriptor \/ CmdlineDescriptorFails
  BY <1>5 DEF MalformedDescriptor, IdleDescriptor, HashDescriptor, HashDescriptorFails,
              CmdlineDescriptor, CmdlineDescriptorFails, Listed, Bail, Proceed, Goto
<1> QED
  BY <1>1, <1>2, <1>3, <1>4, <1>5 DEF TopActions

(* The innermost call makes a call: it keeps its result.                   *)
Pushes ==
  /\ Len(stack) \in 1 .. 2
  /\ pc \in Running /\ pc' = "load"
  /\ Top \in Frames
  /\ stack' \in Seq(Frames)
  /\ Len(stack') = Len(stack) + 1
  /\ \A i \in 1 .. Len(stack) : i # Len(stack) => stack'[i] = stack[i]
  /\ LET f == stack'[Len(stack)]
     IN  f.part = Top.part /\ f.location = Top.location /\ f.ret = Top.ret
  /\ \E location \in 0 .. NumLocations :
       Top' = Call(IF location = 0 THEN "boot" ELSE "chained", location)

(* A call starts without an error, a buffer or descriptors.                *)
LEMMA CallIsFrame ==
  ASSUME NEW p \in {"vbmeta", "boot", "chained"}, NEW l \in 0 .. NumLocations
  PROVE  /\ Call(p, l) \in Frames /\ Call(p, l).part = p /\ Call(p, l).location = l
         /\ Call(p, l).ret = "OK" /\ FreedBy(Call(p, l)) = 0
         /\ ~Call(p, l).buf /\ ~Call(p, l).adopted /\ ~Call(p, l).descs
  BY DEF Call, Frames, Results, Indexes, FreedBy

(* The call for 'boot' is the second one, and the buffer of the call for   *)
(* 'vbmeta' is still to be freed.                                          *)
LEMMA FallBackPushes ==
  ASSUME TypeOK, StackInv, LocalInv, FallBackToBoot
  PROVE  /\ Pushes
         /\ Len(stack) = 1 /\ Top'.part = "boot" /\ FreedBy(Top') = 0
         /\ heap' - FreedBy(stack'[Len(stack)]) = heap - FreedBy(Top)
<1>0. pc = "load" /\ pc \in Running /\ pc' = pc
  BY DEF FallBackToBoot, Running, Early
<1>1. Len(stack) \in 1 .. 3 /\ stack # <<>> /\ Top \in Frames /\ stack \in Seq(Frames)
  BY <1>0, RunningTop DEF TypeOK
<1>2. Len(stack) = 1
  BY <1>1 DEF FallBackToBoot, StackInv, Top
<1> DEFINE f == [Top EXCEPT !.buf = TRUE]
           c == Call("boot", 0)
<1>3. /\ f \in Frames /\ f.part = Top.part /\ f.location = Top.location /\ f.ret = Top.ret
      /\ FreedBy(f) = FreedBy(Top) + 1
  <2>1. /\ f \in Frames /\ f.part = Top.part /\ f.location = Top.location /\ f.ret = Top.ret
        /\ f.buf /\ f.adopted = Top.adopted /\ f.descs = Top.descs
    BY <1>1 DEF Frames
  <2>2. ~Top.buf /\ ~Top.adopted /\ ~Top.descs
    BY <1>0 DEF LocalInv, Early
  <2> HIDE DEF f
  <2> QED
    BY <2>1, <2>2 DEF FreedBy
<1>4. 0 \in 0 .. NumLocations
  BY SlotVerifyAssumption
<1>5. c \in Frames /\ c.part = "boot" /\ FreedBy(c) = 0
  BY <1>4, CallIsFrame
<1>6. stack' = Append([stack EXCEPT ![Len(stack)] = f], c)
  BY <1>1 DEF FallBackToBoot, Top
<1> HIDE DEF f, c
<1>7. /\ stack' \in Seq(Frames) /\ Len(stack') = Len(stack) + 1
      /\ stack'[Len(stack) + 1] = c /\ stack'[Len(stack)] = f
      /\ \A i \in 1 .. Len(stack) : i # Len(stack) => stack'[i] = stack[i]
  BY <1>1, <1>3, <1>5, <1>6, LastReplacedAndPushed
<1>8. Top' = c
  BY <1>7 DEF Top
<1>9. \E location \in 0 .. NumLocations :
        Top' = Call(IF location = 0 THEN "boot" ELSE "chained", location)
  BY <1>4, <1>8 DEF c
<1>10. heap' = heap + 1 /\ heap \in Nat
  BY DEF FallBackToBoot, TypeOK
<1>11. FreedBy(Top) \in Nat
  BY DEF FreedBy
<1> QED
  BY <1>0, <1>1, <1>2, <1>3, <1>5, <1>7, <1>8, <1>9, <1>10, <1>11 DEF Pushes

(* A chained struct is one of the main struct: the third call at most.     *)
LEMMA ChainPushes ==
  ASSUME TypeOK, StackInv, ChainDescriptor
  PROVE  /\ Pushes
         /\ Top'.part = "chained" /\ FreedBy(Top') = 0
         /\ heap' - FreedBy(stack'[Len(stack)]) = heap - FreedBy(Top)
<1>0. pc \in Running /\ pc' = "load"
  BY DEF ChainDescriptor, Listed, Running, Late, Goto
<1>1. Len(stack) \in 1 .. 3 /\ stack # <<>> /\ Top \in Frames /\ stack \in Seq(Frames)
  BY <1>0, RunningTop DEF TypeOK
<1>2. Len(stack) \in 1 .. 2
  <2>1. Len(stack) = 3 => ~IsMain(Top)
    BY <1>1 DEF StackInv, Top
  <2> QED
    BY <1>1, <2>1 DEF ChainDescriptor
<1>3. PICK location \in 1 .. NumLocations :
        stack' = Append([stack EXCEPT ![Len(stack)] = NextDescriptor], Call("chained", location))
  BY DEF ChainDescriptor
<1> DEFINE f == NextDescriptor
           c == Call("chained", location)
<1>4. /\ f \in Frames /\ f.part = Top.part /\ f.location = Top.location /\ f.ret = Top.ret
      /\ FreedBy(f) = FreedBy(Top)
  BY <1>1, NextDescriptorIsFrame DEF ChainDescriptor
<1>5. location \in 0 .. NumLocations /\ location # 0
  BY SlotVerifyAssumption
<1>6. c \in Frames /\ c.part = "chained" /\ FreedBy(c) = 0
  BY <1>5, CallIsFrame
<1>61. stack' = Append([stack EXCEPT ![Len(stack)] = f], c)
  BY <1>3
<1> HIDE DEF f, c
<1>7. /\ stack' \in Seq(Frames) /\ Len(stack') = Len(stack) + 1
      /\ stack'[Len(stack) + 1] = c /\ stack'[Len(stack)] = f
      /\ \A i \in 1 .. Len(stack) : i # Len(stack) => stack'[i] = stack[i]
  BY <1>1, <1>4, <1>6, <1>61, LastReplacedAndPushed
<1>8. Top' = c
  BY <1>7 DEF Top
<1>9. \E l \in 0 .. NumLocations :
        Top' = Call(IF l = 0 THEN "boot" ELSE "chained", l)
  BY <1>5, <1>8 DEF c
<1>10. heap' = heap
  BY DEF ChainDescriptor
<1> QED
  BY <1>0, <1>1, <1>2, <1>4, <1>6, <1>7, <1>8, <1>9, <1>10 DEF Pushes

(* The innermost call returns to the one below, which takes its error over. *)
Pops ==
  /\ Len(stack) \in 2 .. 3
  /\ pc = "out"
  /\ Top \in Frames
  /\ stack' \in Seq(Frames)
  /\ Len(stack') = Len(stack) - 1
  /\ \A i \in 1 .. Len(stack') : i # Len(stack') => stack'[i] = stack[i]
  /\ LET f == stack[Len(stack')]
     IN  /\ Top'.part = f.part /\ Top'.location = f.location
         /\ FreedBy(Top') = FreedBy(f)
         /\ Top'.ret = IF Top.ret = "OK" THEN f.ret ELSE Top.ret
  /\ heap' = heap - FreedBy(Top)

(* The numbers of active calls when one of them returns to another.        *)
LEMMA TwoOrThree ==
  \A n \in 1 .. 3 : n > 1 => n \in 2 .. 3 /\ n - 1 \in 1 .. 2 /\ n - 1 \in 1 .. n
  OBVIOUS

(* A call that returns its error, if it has one, to its caller.            *)
LEMMA CallersStep ==
  ASSUME TypeOK, StackInv, pc = "out", Len(stack) > 1,
         NEW f \in Frames,
         LET c == stack[Len(stack) - 1]
         IN  /\ f.part = c.part /\ f.location = c.location /\ FreedBy(f) = FreedBy(c)
             /\ f.ret = IF Top.ret = "OK" THEN c.ret ELSE Top.ret,
         stack' = [Callers EXCEPT ![Len(Callers)] = f],
         heap' = heap - FreedBy(Top)
  PROVE  Pops
<1>0. pc \in Running
  BY DEF Running
<1>1. Len(stack) \in 1 .. 3 /\ stack # <<>> /\ Top \in Frames /\ stack \in Seq(Frames)
  BY <1>0, RunningTop DEF TypeOK
<1> DEFINE n == Len(stack) - 1
<1>2. Len(stack) \in 2 .. 3 /\ n \in 1 .. 2
  BY <1>1, TwoOrThree
<1>3. /\ Callers \in Seq(Frames) /\ Len(Callers) = n
      /\ \A i \in 1 .. n : Callers[i] = stack[i]
  BY <1>1, LastRemoved DEF Callers
<1>4. Callers # <<>>
  BY <1>2, <1>3, EmptySeq
<1>5. /\ stack' \in Seq(Frames) /\ Len(stack') = Len(Callers)
      /\ stack'[Len(Callers)] = f
      /\ \A i \in 1 .. Len(Callers) : i # Len(Callers) => stack'[i] = Callers[i]
  BY <1>3, <1>4, LastReplaced
<1>6. Len(stack') = n /\ Top' = f
  BY <1>3, <1>5 DEF Top
<1>7. \A i \in 1 .. Len(stack') : i # Len(stack') => stack'[i] = stack[i]
  BY <1>3, <1>5, <1>6
<1>8. LET g == stack[Len(stack')]
      IN  /\ Top'.part = g.part /\ Top'.location = g.location
          /\ FreedBy(Top') = FreedBy(g)
          /\ Top'.ret = IF Top.ret = "OK" THEN g.ret ELSE Top.ret
  BY <1>6
<1> QED
  BY <1>1, <1>2, <1>5, <1>6, <1>7, <1>8 DEF Pops

(* The caller of the innermost call is the last of the others.             *)
LEMMA CallerIsFrame ==
  ASSUME TypeOK, StackInv, pc = "out", Len(stack) > 1
  PROVE  /\ Len(stack) \in 2 .. 3
         /\ Len(Callers) = Len(stack) - 1 /\ Callers # <<>>
         /\ Callers \in Seq(Frames)
         /\ Callers[Len(Callers)] = stack[Len(stack) - 1]
         /\ stack[Len(stack) - 1] \in Frames
<1>0. pc \in Running
  BY DEF Running
<1>1. Len(stack) \in 1 .. 3 /\ stack # <<>> /\ stack \in Seq(Frames)
  BY <1>0, RunningTop DEF TypeOK
<1>2. Len(stack) \in 2 .. 3 /\ Len(stack) - 1 \in 1 .. Len(stack)
  BY <1>1, TwoOrThree
<1>3. /\ Callers \in Seq(Frames) /\ Len(Callers) = Len(stack) - 1
      /\ \A i \in 1 .. Len(Callers) : Callers[i] = stack[i]
  BY <1>1, LastRemoved DEF Callers
<1>4. Len(Callers) \in 1 .. Len(Callers)
  BY <1>2, <1>3
<1> QED
  BY <1>1, <1>2, <1>3, <1>4, EmptySeq, ElementOfSeq

(* Only the call for 'vbmeta' calls the one for 'boot', and has no error   *)
(* that the one of 'boot' could replace.                                   *)
LEMMA ReturnFromBootPops ==
  ASSUME TypeOK, StackInv, ErrorInv, ReturnFromBoot
  PROVE  Pops /\ pc' = "out" /\ Len(stack) = 2 /\ stack[2].part = "boot"
<1>0. pc = "out" /\ pc' = pc /\ pc \in Running /\ Len(stack) > 1 /\ heap' = heap - FreedBy(Top)
  BY DEF ReturnFromBoot, Running
<1>1. Len(stack) \in 1 .. 3 /\ Top \in Frames
  BY <1>0, RunningTop
<1>2. Len(stack) = 2 /\ Top.part = "boot" /\ stack[2] = Top
  <2>1. IsMain(Top)
    BY DEF ReturnFromBoot
  <2>2. Len(stack) = 2
    BY <1>0, <1>1, <2>1 DEF StackInv, Top
  <2>3. stack[2] = Top
    BY <2>2 DEF Top
  <2>4. Top.part # "vbmeta" /\ Top.part # "chained"
    BY <2>1, <2>2, <2>3 DEF StackInv
  <2> QED
    BY <1>1, <2>2, <2>3, <2>4 DEF Frames
<1>3. stack[1].ret = "OK"
  BY <1>0, <1>2 DEF ErrorInv
<1>4. /\ Callers \in Seq(Frames) /\ Callers[Len(Callers)] = stack[Len(stack) - 1]
      /\ stack[Len(stack) - 1] \in Frames
  BY <1>0, CallerIsFrame
<1> DEFINE c == stack[Len(stack) - 1]
           f == [c EXCEPT !.ret = Top.ret]
<1>5. stack' = [Callers EXCEPT ![Len(Callers)] = f]
  BY <1>4 DEF ReturnFromBoot
<1>6. c = stack[1]
  BY <1>2
<1>7. /\ f \in Frames /\ f.part = c.part /\ f.location = c.location
      /\ f.buf = c.buf /\ f.adopted = c.adopted /\ f.descs = c.descs /\ f.ret = Top.ret
  BY <1>1, <1>4 DEF Frames
<1> HIDE DEF f
<1>8. FreedBy(f) = FreedBy(c) /\ f.ret = IF Top.ret = "OK" THEN c.ret ELSE Top.ret
  BY <1>3, <1>6, <1>7 DEF FreedBy
<1>9. Pops
  BY <1>0, <1>5, <1>7, <1>8, CallersStep
<1> QED
  BY <1>0, <1>2, <1>9

(* A chained struct's error replaces one of the main struct, its success   *)
(* does not.                                                               *)
LEMMA ReturnFromChainPops ==
  ASSUME TypeOK, StackInv, ReturnFromChain
  PROVE  /\ Pops /\ ~IsMain(Top)
         /\ pc' = IF result_should_continue(Top.ret) THEN "descriptors" ELSE "out"
<1>0. /\ pc = "out" /\ pc \in Running /\ Len(stack) > 1 /\ heap' = heap - FreedBy(Top)
      /\ ~IsMain(Top)
      /\ pc' = IF result_should_continue(Top.ret) THEN "descriptors" ELSE "out"
  BY DEF ReturnFromChain, Running, Goto
<1>1. Len(stack) \in 1 .. 3 /\ Top \in Frames
  BY <1>0, RunningTop
<1>4. /\ Callers \in Seq(Frames) /\ Callers[Len(Callers)] = stack[Len(stack) - 1]
      /\ stack[Len(stack) - 1] \in Frames /\ Callers # <<>>
  BY <1>0, CallerIsFrame
<1> DEFINE c == stack[Len(stack) - 1]
           f == IF Top.ret = "OK" THEN c ELSE [c EXCEPT !.ret = Top.ret]
<1>5. stack' = [Callers EXCEPT ![Len(Callers)] = f]
  <2>1. CASE Top.ret = "OK"
    <3>1. Callers = [Callers EXCEPT ![Len(Callers)] = Callers[Len(Callers)]]
      BY <1>4
    <3> QED
      BY <1>4, <2>1, <3>1 DEF ReturnFromChain
  <2>2. CASE Top.ret # "OK"
    BY <1>4, <2>2 DEF ReturnFromChain
  <2> QED
    BY <2>1, <2>2
<1>7. /\ f \in Frames /\ f.part = c.part /\ f.location = c.location
      /\ f.buf = c.buf /\ f.adopted = c.adopted /\ f.descs = c.descs
      /\ f.ret = IF Top.ret = "OK" THEN c.ret ELSE Top.ret
  BY <1>1, <1>4 DEF Frames
<1> HIDE DEF f
<1>8. FreedBy(f) = FreedBy(c)
  BY <1>7 DEF FreedBy
<1>9. Pops
  BY <1>0, <1>5, <1>7, <1>8, CallersStep
<1> QED
  BY <1>0, <1>9

(* The steps that leave the calls and the memory as they are.              *)
QuietActions == AllRequestedLoaded \/ DescriptorsLost \/ AllDescriptorsDone \/ StoreRollbackIndex

(* They only go on to the end of the call, or to a crash.                  *)
LEMMA QuietStep ==
  ASSUME QuietActions
  PROVE  /\ pc \in Late /\ pc' \in {"out", "store", "crashed"}
         /\ pc' = "store" => pc = "descriptors"
         /\ UNCHANGED <<allow, stack, images, loaded, cmdline, heap, seen, ret, out>>
  BY DEF QuietActions, AllRequestedLoaded, DescriptorsLost, AllDescriptorsDone,
         StoreRollbackIndex, Listed, Late, Goto, slot_data, inputs

(* The last call's result is avb_slot_verify()'s.                          *)
LEMMA ReturnToSlotVerifyStep ==
  ASSUME TypeOK, StackInv, ReturnToSlotVerify
  PROVE  /\ pc = "out" /\ pc' = "finish" /\ Len(stack) = 1 /\ Top = stack[1] /\ Top \in Frames
         /\ stack' = <<>> /\ ret' = Top.ret /\ heap' = heap - FreedBy(Top)
         /\ UNCHANGED <<allow, images, loaded, cmdline, seen, out>>
<1>1. pc \in Running
  BY DEF ReturnToSlotVerify, Running
<1> QED
  BY <1>1, RunningTop DEF ReturnToSlotVerify, Top, Goto, slot_data, inputs

(* Every step is one of the innermost call, a call, a return, or one of    *)
(* avb_slot_verify() outside of load_and_verify_vbmeta().                  *)
LEMMA NextCases ==
  ASSUME [Next]_vars
  PROVE  \/ TopActions \/ FallBackToBoot \/ ChainDescriptor \/ ReturnFromBoot \/ ReturnFromChain
         \/ QuietActions \/ ReturnToSlotVerify \/ Start \/ StartFails
         \/ NamelessTopLevel \/ Complete \/ CompleteFails \/ Reject \/ VerifyAgain
         \/ UNCHANGED vars
  BY DEF Next, Load, Check, Adopt, Descriptors, Return, Crashed, TopActions, QuietActions

---------------------------------------------------------------------------
(* One lemma for each part of the invariant.                               *)

(* At most three calls are active, of the kinds StackInv names.            *)
LEMMA StackInvStep ==
  ASSUME TypeOK, StackInv, LocalInv, ErrorInv, [Next]_vars
  PROVE  StackInv'
<1>0. pc \in Running => pc \notin {"start", "finish", "done"}
  BY DEF Running, Early, Late
<1>00. pc' \in Running => pc' \notin {"start", "finish", "done"}
  BY DEF Running, Early, Late
<1>1. CASE TopActions
  <2>1. TopStep /\ pc \in Running /\ pc' \in Running
    BY <1>1, TopActionsStep, TopActionsGoOn
  <2>2. stack' # <<>>
    BY <2>1, EmptySeq DEF TopStep
  <2>3. \A i \in 1 .. Len(stack) : stack'[i].part = stack[i].part /\ stack'[i].location = stack[i].location
    BY <2>1 DEF TopStep, Top
  <2>4. Len(stack') = Len(stack) /\ Len(stack) \in 1 .. 3
    BY <2>1 DEF TopStep
  <2> QED
    BY <1>00, <2>1, <2>2, <2>3, <2>4 DEF StackInv, IsMain
<1>2. CASE FallBackToBoot
  <2>1. Pushes /\ Len(stack) = 1 /\ Top'.part = "boot"
    BY <1>2, FallBackPushes
  <2>2. /\ Len(stack') = 2 /\ stack' # <<>> /\ pc' = "load"
        /\ stack'[1].part = stack[1].part /\ stack'[1].location = stack[1].location
        /\ stack'[2] = Top'
    <3>1. Len(stack') = 2 /\ pc' = "load"
      BY <2>1 DEF Pushes
    <3>2. stack' # <<>> /\ stack'[2] = Top' /\ stack[1] = Top
      BY <2>1, <3>1, EmptySeq DEF Top
    <3>3. stack'[1].part = Top.part /\ stack'[1].location = Top.location
      BY <2>1 DEF Pushes
    <3> QED
      BY <3>1, <3>2, <3>3
  <2>3. IsMain(Top') <=> Top'.part # "chained"
    <3>1. PICK l \in 0 .. NumLocations : Top' = Call(IF l = 0 THEN "boot" ELSE "chained", l)
      BY <2>1 DEF Pushes
    <3> QED
      BY <3>1, CallIsFrame DEF IsMain
  <2> QED
    BY <2>1, <2>2, <2>3 DEF StackInv, IsMain
<1>3. CASE ChainDescriptor
  <2>1. Pushes /\ Top'.part = "chained"
    BY <1>3, ChainPushes
  <2> DEFINE n == Len(stack)
  <2>2. /\ Len(stack') = n + 1 /\ n \in 1 .. 2 /\ stack' # <<>> /\ pc' = "load"
        /\ \A i \in 1 .. n : stack'[i].part = stack[i].part /\ stack'[i].location = stack[i].location
        /\ stack'[n + 1] = Top'
    BY <2>1, EmptySeq DEF Pushes, Top
  <2>3. ~IsMain(Top')
    <3>1. PICK l \in 0 .. NumLocations : Top' = Call(IF l = 0 THEN "boot" ELSE "chained", l)
      BY <2>1 DEF Pushes
    <3> QED
      BY <2>1, <3>1, CallIsFrame DEF IsMain
  <2>4. n = 2 => stack[2].part = "boot"
    <3>1. n = 2 => stack[2] = Top /\ stack[2].part # "vbmeta"
      BY DEF StackInv, Top
    <3>2. IsMain(Top) /\ Top \in Frames
      BY <1>3, <2>1 DEF ChainDescriptor, Pushes
    <3>3. n = 2 => stack[2].part # "chained"
      BY <3>1, <3>2 DEF StackInv
    <3> QED
      BY <3>1, <3>2, <3>3 DEF Frames
  <2> HIDE DEF n
  <2> QED
    BY <2>1, <2>2, <2>3, <2>4 DEF StackInv, IsMain, n
<1>4. CASE ReturnFromBoot \/ ReturnFromChain
  <2>1. Pops /\ pc' \in {"out", "descriptors"}
    BY <1>4, ReturnFromBootPops, ReturnFromChainPops
  <2> DEFINE n == Len(stack')
  <2>2. /\ n \in 1 .. 2 /\ n \in 1 .. Len(stack) /\ Len(stack) = n + 1
    BY <2>1, TwoOrThree DEF Pops
  <2>3. stack' # <<>>
    BY <2>1, <2>2, EmptySeq
  <2>4. \A i \in 1 .. n : stack'[i].part = stack[i].part /\ stack'[i].location = stack[i].location
    BY <2>1, <2>2 DEF Pops, Top
  <2> HIDE DEF n
  <2> QED
    BY <2>1, <2>2, <2>3, <2>4 DEF StackInv, IsMain, n
<1>5. CASE QuietActions
  BY <1>0, <1>5, QuietStep DEF StackInv, Running, Late
<1>6. CASE ReturnToSlotVerify
  <2>1. Len(stack') = 0
    BY <1>6, ReturnToSlotVerifyStep, EmptySeq
  <2> QED
    BY <1>6, <2>1, ReturnToSlotVerifyStep DEF StackInv, Running, Early, Late
<1>7. CASE Start
  <2>1. 0 \in 0 .. NumLocations
    BY SlotVerifyAssumption
  <2>2. Call("vbmeta", 0).part = "vbmeta" /\ Call("vbmeta", 0).location = 0
    BY <2>1, CallIsFrame
  <2>3. stack' = <<Call("vbmeta", 0)>> /\ pc' = "load"
    BY <1>7 DEF Start, Goto
  <2>4. Len(stack') = 1 /\ stack'[1] = Call("vbmeta", 0) /\ stack' # <<>>
    BY <2>3
  <2> QED
    BY <2>2, <2>3, <2>4 DEF StackInv, IsMain
<1>8. CASE StartFails \/ NamelessTopLevel \/ Complete \/ CompleteFails \/ Reject
  BY <1>8 DEF StartFails, NamelessTopLevel, Complete, CompleteFails, Reject, Goto, StackInv,
              Running, Early, Late
<1>9. CASE VerifyAgain
  BY <1>9, EmptySeq DEF VerifyAgain, StackInv, Running, Early, Late
<1>10. CASE UNCHANGED vars
  BY <1>10 DEF vars, StackInv
<1> QED
  BY <1>1, <1>2, <1>3, <1>4, <1>5, <1>6, <1>7, <1>8, <1>9, <1>10, NextCases

(* A call owns its buffer until it adopts the struct, and checks it before. *)
LEMMA LocalInvStep ==
  ASSUME TypeOK, StackInv, LocalInv, ErrorInv, [Next]_vars
  PROVE  LocalInv'
<1>0. pc' \notin Early => LocalInv'
  BY DEF LocalInv, Early
<1>1. CASE TopActions
  BY <1>1, TopActionsStep
<1>2. CASE FallBackToBoot \/ ChainDescriptor
  <2>1. Pushes
    BY <1>2, FallBackPushes, ChainPushes
  <2>2. PICK l \in 0 .. NumLocations : Top' = Call(IF l = 0 THEN "boot" ELSE "chained", l)
    BY <2>1 DEF Pushes
  <2>3. ~Top'.buf /\ ~Top'.adopted /\ ~Top'.descs /\ pc' = "load"
    BY <2>1, <2>2, CallIsFrame DEF Pushes
  <2> QED
    BY <2>3 DEF LocalInv
<1>3. CASE ReturnFromBoot \/ ReturnFromChain
  BY <1>0, <1>3, ReturnFromBootPops, ReturnFromChainPops DEF Early
<1>4. CASE QuietActions
  BY <1>0, <1>4, QuietStep DEF Early
<1>5. CASE Start
  <2>1. 0 \in 0 .. NumLocations
    BY SlotVerifyAssumption
  <2>2. Top' = Call("vbmeta", 0) /\ pc' = "load"
    BY <1>5 DEF Start, Goto, Top
  <2> QED
    BY <2>1, <2>2, CallIsFrame DEF LocalInv
<1>6. CASE \/ ReturnToSlotVerify \/ StartFails \/ NamelessTopLevel \/ Complete \/ CompleteFails
           \/ Reject \/ VerifyAgain
  BY <1>0, <1>6 DEF ReturnToSlotVerify, StartFails, NamelessTopLevel, Complete, CompleteFails,
     Reject, VerifyAgain,
                    Goto, Early
<1>7. CASE UNCHANGED vars
  BY <1>7 DEF vars, LocalInv, Top
<1> QED
  BY <1>1, <1>2, <1>3, <1>4, <1>5, <1>6, <1>7, NextCases

(* No error is lost on the way back to avb_slot_verify().                  *)
LEMMA ErrorInvStep ==
  ASSUME TypeOK, StackInv, LocalInv, ErrorInv, [Next]_vars
  PROVE  ErrorInv'
<1>0. /\ pc \in Running => pc \notin {"start", "finish", "done"}
      /\ pc' \in Running => pc' \notin {"start", "finish", "done"}
  BY DEF Running, Early, Late
<1>1. CASE TopActions
  <2>1. TopStep /\ Reported /\ pc \in Running /\ pc' \in Running \ {"load"}
    BY <1>1, TopActionsStep, TopActionsGoOn
  <2> DEFINE n == Len(stack)
  <2>2. /\ n \in 1 .. 3 /\ Len(stack') = n /\ stack[n] = Top /\ stack'[n] = Top'
        /\ \A i \in 1 .. n : i # n => stack'[i] = stack[i]
        /\ Top'.part = Top.part
    BY <2>1 DEF TopStep, Top
  <2> HIDE DEF n
  <2>3. seen = {} <=> \A i \in 1 .. n : stack[i].ret = "OK"
    BY <2>1 DEF ErrorInv, n
  <2>4. seen' = {} <=> \A i \in 1 .. n : stack'[i].ret = "OK"
    BY <2>1, <2>2, <2>3 DEF Reported
  <2>5. n >= 2 /\ stack'[2].part = "boot" => stack'[1].ret = "OK"
    <3>1. n >= 2 /\ stack[2].part = "boot" => stack[1].ret = "OK"
      BY <2>1 DEF ErrorInv, n
    <3> QED
      BY <2>2, <3>1
  <2> QED
    BY <1>0, <2>1, <2>2, <2>4, <2>5 DEF ErrorInv
<1>2. CASE FallBackToBoot \/ ChainDescriptor
  <2>1. Pushes /\ seen' = seen
    BY <1>2, FallBackPushes, ChainPushes DEF FallBackToBoot, ChainDescriptor
  <2>2. PICK l \in 0 .. NumLocations : Top' = Call(IF l = 0 THEN "boot" ELSE "chained", l)
    BY <2>1 DEF Pushes
  <2>3. Top'.ret = "OK"
    BY <2>2, CallIsFrame
  <2> DEFINE n == Len(stack)
  <2>4. /\ n \in 1 .. 2 /\ Len(stack') = n + 1 /\ stack'[n + 1] = Top'
        /\ \A i \in 1 .. n : stack'[i].ret = stack[i].ret /\ stack'[i].part = stack[i].part
        /\ pc \in Running /\ pc' = "load" /\ pc' \in Running
    <3>1. Len(stack') = n + 1 /\ n \in 1 .. 2
      BY <2>1 DEF Pushes
    <3>2. stack'[n + 1] = Top'
      BY <3>1 DEF Top
    <3>3. \A i \in 1 .. n : stack'[i].ret = stack[i].ret /\ stack'[i].part = stack[i].part
      <4> SUFFICES ASSUME NEW i \in 1 .. n
                   PROVE  stack'[i].ret = stack[i].ret /\ stack'[i].part = stack[i].part
        OBVIOUS
      <4>1. CASE i = n
        BY <2>1, <4>1 DEF Pushes, Top
      <4>2. CASE i # n
        BY <2>1, <4>2 DEF Pushes
      <4> QED
        BY <4>1, <4>2
    <3> QED
      BY <2>1, <3>1, <3>2, <3>3 DEF Pushes, Running, Early
  <2>5. seen = {} <=> \A i \in 1 .. n : stack[i].ret = "OK"
    BY <2>4 DEF ErrorInv
  <2>6. stack'[2].part = "boot" => stack'[1].ret = "OK"
    <3>1. CASE FallBackToBoot
      <4>1. Len(stack) = 1
        BY <3>1, FallBackPushes
      <4>2. stack[1].ret = "OK"
        BY <3>1, <4>1 DEF FallBackToBoot, ErrorInv, Top
      <4> QED
        BY <2>4, <4>1, <4>2
    <3>2. CASE ChainDescriptor
      <4>1. Top'.part = "chained"
        BY <3>2, ChainPushes
      <4>2. n = 2 /\ stack[2].part = "boot" => stack[1].ret = "OK"
        BY <2>4 DEF ErrorInv
      <4> QED
        BY <2>4, <4>1, <4>2
    <3> QED
      BY <1>2, <3>1, <3>2
  <2> HIDE DEF n
  <2>7. seen' = {} <=> \A i \in 1 .. n + 1 : stack'[i].ret = "OK"
    BY <2>1, <2>3, <2>4, <2>5
  <2> QED
    BY <1>0, <2>3, <2>4, <2>6, <2>7 DEF ErrorInv
<1>3. CASE ReturnFromBoot \/ ReturnFromChain
  <2>1. Pops /\ pc' \in {"out", "descriptors"} /\ seen' = seen
    BY <1>3, ReturnFromBootPops, ReturnFromChainPops DEF ReturnFromBoot, ReturnFromChain
  <2> DEFINE n == Len(stack')
  <2>2. n \in 1 .. 2 /\ Len(stack) = n + 1
    BY <2>1, TwoOrThree DEF Pops
  <2>3. /\ stack[n + 1] = Top /\ stack'[n] = Top'
        /\ \A i \in 1 .. n : i # n => stack'[i] = stack[i]
        /\ Top'.part = stack[n].part
        /\ Top'.ret = IF Top.ret = "OK" THEN stack[n].ret ELSE Top.ret
    BY <2>1, <2>2 DEF Pops, Top
  <2>4. pc = "out" /\ pc \in Running /\ pc' \in Running
    BY <2>1 DEF Pops, Running, Late
  <2>5. seen = {} <=> \A i \in 1 .. n + 1 : stack[i].ret = "OK"
    BY <2>2, <2>4 DEF ErrorInv
  <2>6. n = 2 /\ stack[2].part = "boot" => stack[1].ret = "OK"
    BY <2>2, <2>4 DEF ErrorInv
  <2> HIDE DEF n
  <2>7. seen' = {} <=> \A i \in 1 .. n : stack'[i].ret = "OK"
    BY <2>1, <2>2, <2>3, <2>5
  <2>8. n >= 2 /\ stack'[2].part = "boot" => stack'[1].ret = "OK"
    BY <2>2, <2>3, <2>6
  <2> QED
    BY <1>0, <2>1, <2>4, <2>7, <2>8 DEF ErrorInv, n
<1>4. CASE QuietActions
  <2>1. /\ pc \in Running /\ UNCHANGED <<stack, seen>>
        /\ pc' \notin {"start", "load", "finish", "done"}
    BY <1>4, QuietStep DEF Running
  <2> QED
    BY <2>1 DEF ErrorInv
<1>5. CASE ReturnToSlotVerify
  <2>1. /\ pc = "out" /\ pc' = "finish" /\ Len(stack) = 1 /\ Top = stack[1]
        /\ ret' = Top.ret /\ seen' = seen
    BY <1>5, ReturnToSlotVerifyStep
  <2>2. pc \in Running /\ pc' \notin Running
    BY <2>1 DEF Running, Early, Late
  <2>3. seen = {} <=> stack[1].ret = "OK"
    BY <2>1, <2>2 DEF ErrorInv
  <2> QED
    BY <2>1, <2>2, <2>3 DEF ErrorInv
<1>6. CASE Start
  <2>1. 0 \in 0 .. NumLocations
    BY SlotVerifyAssumption
  <2>2. stack' = <<Call("vbmeta", 0)>> /\ pc' = "load" /\ seen' = {}
    BY <1>6 DEF Start, Goto, ErrorInv
  <2>3. Len(stack') = 1 /\ stack'[1].ret = "OK" /\ Top'.ret = "OK"
    BY <2>1, <2>2, CallIsFrame DEF Top
  <2> QED
    BY <2>2, <2>3 DEF ErrorInv
<1>7. CASE StartFails \/ NamelessTopLevel \/ Complete \/ CompleteFails \/ Reject
  BY <1>7 DEF StartFails, NamelessTopLevel, Complete, CompleteFails, Reject, Goto,
     Report, IoErrors, ErrorInv,
              Running, Early, Late
<1>8. CASE VerifyAgain
  BY <1>8 DEF VerifyAgain, ErrorInv, Running, Early, Late
<1>9. CASE UNCHANGED vars
  BY <1>9 DEF vars, ErrorInv, Top
<1> QED
  BY <1>1, <1>2, <1>3, <1>4, <1>5, <1>6, <1>7, <1>8, <1>9, NextCases

(* *out_data is set at the end or not at all.                              *)
LEMMA DataInvStep ==
  ASSUME ErrorInv, DataInv, [Next]_vars
  PROVE  DataInv'
<1>1. CASE TopActions
  <2>1. out' = out /\ pc # "done" /\ pc' # "done"
    <3>1. pc \in Running /\ pc' \in Running
      BY <1>1, TopActionsGoOn
    <3>2. out' = out
      BY <1>1 DEF TopActions, LocateFails, ReadFails, ReadVBMeta, VerifyImage, VerifyImageFails,
         CheckKey, CheckKeyFails, CheckRollbackIndex, ReadRollbackIndexFails, AdoptImage,
         TooManyImages, LoadRequested, LoadRequestedFails, ReadDescriptors, MalformedDescriptor,
         IdleDescriptor, HashDescriptor, HashDescriptorFails, CmdlineDescriptor,
         CmdlineDescriptorFails, LocationTooLarge
    <3> QED
      BY <3>1, <3>2 DEF Running, Early, Late
  <2> QED
    BY <2>1 DEF DataInv
<1>2. CASE FallBackToBoot \/ ChainDescriptor \/ ReturnFromBoot \/ ReturnFromChain
  BY <1>2 DEF FallBackToBoot, ChainDescriptor, ReturnFromBoot, ReturnFromChain, Listed, Goto, DataInv
<1>3. CASE QuietActions
  BY <1>3, QuietStep DEF Late, DataInv
<1>4. CASE ReturnToSlotVerify \/ Start \/ StartFails \/ VerifyAgain
  BY <1>4 DEF ReturnToSlotVerify, Start, StartFails, VerifyAgain, Goto, DataInv, Accepted, Rejections
<1>5. CASE NamelessTopLevel \/ Complete \/ CompleteFails \/ Reject
  BY <1>5 DEF NamelessTopLevel, Complete, CompleteFails, Reject, Goto, DataInv,
              Accepted, Rejections, IoErrors, Usable,
              result_should_continue, inputs
<1>6. CASE UNCHANGED vars
  BY <1>6 DEF vars, inputs, DataInv, Accepted
<1> QED
  BY <1>1, <1>2, <1>3, <1>4, <1>5, <1>6, NextCases

(* A struct that was not adopted stops the caller or is a fatal error.     *)
LEMMA EarlyStep ==
  ASSUME TypeOK, StackInv, pc \in Early, TopActions, ~AdoptImage
  PROVE  /\ UNCHANGED <<allow, images, loaded, cmdline>>
         /\ pc' \in Early \/ (pc' = "out" /\ ~Accepted(Top'.ret))
<1> USE DEF Results, IoErrors, Fatal, Rejections
<1>0. pc \in Running
  BY DEF Running
<1>1. Top \in Frames
  BY <1>0, RunningTop
<1>2. \A f : f.part = Top.part /\ f.location = Top.location /\ f \in Frames =>
        \A r \in Fatal : Bail(f, r) => pc' = "out" /\ ~Accepted(Top'.ret)
  <2> SUFFICES ASSUME NEW f, f \in Frames, f.part = Top.part, f.location = Top.location,
                      NEW r \in Fatal, Bail(f, r)
               PROVE  pc' = "out" /\ ~Accepted(Top'.ret)
    OBVIOUS
  <2>1. pc' = "out" /\ Top' = [f EXCEPT !.ret = r]
    BY <1>0, BailStep
  <2> QED
    BY <2>1 DEF Frames, Accepted
<1>3. \A f : f.part = Top.part /\ f.location = Top.location /\ f.ret = Top.ret /\ f \in Frames =>
        \A r \in {"OK"} \cup Rejections : \A next \in Early : Proceed(f, r, next) =>
          pc' \in Early \/ (pc' = "out" /\ ~Accepted(Top'.ret))
  <2> SUFFICES ASSUME NEW f, f \in Frames, f.part = Top.part, f.location = Top.location,
                      f.ret = Top.ret, NEW r \in {"OK"} \cup Rejections, NEW next \in Early,
                      Proceed(f, r, next)
               PROVE  pc' \in Early \/ (pc' = "out" /\ ~Accepted(Top'.ret))
    OBVIOUS
  <2>1. /\ pc' = IF Accepted(r) THEN next ELSE "out"
        /\ Top' = IF r = "OK" THEN f ELSE [f EXCEPT !.ret = r]
    BY <1>0, ProceedStep
  <2>2. r # "OK" => Top'.ret = r
    BY <2>1 DEF Frames
  <2> QED
    BY <2>1, <2>2 DEF Accepted
<1>4. CASE LocateFails \/ VerifyImageFails \/ CheckKeyFails \/ ReadRollbackIndexFails \/ TooManyImages
  <2>1. \E r \in Fatal : Bail(Top, r)
    BY <1>4 DEF LocateFails, VerifyImageFails, CheckKeyFails, ReadRollbackIndexFails, TooManyImages
  <2>2. UNCHANGED <<allow, images, loaded, cmdline>>
    BY <1>4 DEF LocateFails, VerifyImageFails, CheckKeyFails, ReadRollbackIndexFails, TooManyImages,
                inputs, slot_data
  <2> QED
    BY <1>1, <1>2, <2>1, <2>2
<1>5. CASE ReadFails
  <2> DEFINE f == [Top EXCEPT !.buf = TRUE]
  <2>1. f \in Frames /\ f.part = Top.part /\ f.location = Top.location
    BY <1>1 DEF Frames
  <2>2. (\E r \in Fatal : Bail(f, r)) /\ UNCHANGED <<allow, images, loaded, cmdline>>
    BY <1>5 DEF ReadFails, inputs, slot_data
  <2> HIDE DEF f
  <2> QED
    BY <1>2, <2>1, <2>2
<1>6. CASE ReadVBMeta
  BY <1>6 DEF ReadVBMeta, Goto, Early, inputs, slot_data
<1>7. CASE VerifyImage
  <2>1. PICK r \in {"OK", "ERROR_VERIFICATION"}, index \in Indexes, disabled \in BOOLEAN :
          LET f == [Top EXCEPT !.sig = (r = "OK"), !.index = index, !.disabled = disabled]
          IN  IF ~IsMain(f) /\ disabled /\ (r = "OK" \/ allow)
              THEN Bail(f, "ERROR_INVALID_METADATA")
              ELSE Proceed(f, r, IF r = "OK" THEN "key" ELSE "rollback")
    BY <1>7 DEF VerifyImage
  <2> DEFINE f == [Top EXCEPT !.sig = (r = "OK"), !.index = index, !.disabled = disabled]
  <2>2. f \in Frames /\ f.part = Top.part /\ f.location = Top.location /\ f.ret = Top.ret
    BY <1>1 DEF Frames
  <2>3. \/ Bail(f, "ERROR_INVALID_METADATA")
        \/ Proceed(f, r, IF r = "OK" THEN "key" ELSE "rollback")
    BY <2>1
  <2> HIDE DEF f
  <2>4. pc' \in Early \/ (pc' = "out" /\ ~Accepted(Top'.ret))
    <3>1. CASE Bail(f, "ERROR_INVALID_METADATA")
      BY <1>2, <2>2, <3>1
    <3>2. CASE Proceed(f, r, IF r = "OK" THEN "key" ELSE "rollback")
      <4>1. (IF r = "OK" THEN "key" ELSE "rollback") \in Early
        BY DEF Early
      <4> QED
        BY <1>3, <2>2, <3>2, <4>1
    <3> QED
      BY <2>3, <3>1, <3>2
  <2> QED
    BY <1>7, <2>4 DEF VerifyImage, inputs, slot_data
<1>8. CASE CheckKey
  <2>1. PICK r \in {"OK", "ERROR_PUBLIC_KEY_REJECTED"} :
          Proceed([Top EXCEPT !.key = (r = "OK")], r, "rollback")
    BY <1>8 DEF CheckKey
  <2> DEFINE f == [Top EXCEPT !.key = (r = "OK")]
  <2>2. f \in Frames /\ f.part = Top.part /\ f.location = Top.location /\ f.ret = Top.ret
    BY <1>1 DEF Frames
  <2>3. Proceed(f, r, "rollback") /\ "rollback" \in Early
    BY <2>1 DEF Early
  <2> HIDE DEF f
  <2> QED
    BY <1>3, <1>8, <2>2, <2>3 DEF CheckKey, inputs, slot_data
<1>9. CASE CheckRollbackIndex
  <2>1. "adopt" \in Early
    BY DEF Early
  <2> QED
    BY <1>1, <1>3, <1>9, <2>1 DEF CheckRollbackIndex, inputs, slot_data
<1> QED
  BY <1>4, <1>5, <1>6, <1>7, <1>8, <1>9 DEF TopActions, Early, LoadRequested, LoadRequestedFails,
     ReadDescriptors, MalformedDescriptor, IdleDescriptor, HashDescriptor, HashDescriptorFails,
     CmdlineDescriptor, CmdlineDescriptorFails, LocationTooLarge, Listed

(* A sequence that grows keeps what it has.                                *)
LEMMA Appended ==
  ASSUME NEW S, NEW s \in Seq(S), NEW x \in S
  PROVE  LET t == Append(s, x)
         IN  /\ Len(s) \in Nat
             /\ t \in Seq(S)
             /\ t # <<>>
             /\ Len(t) = Len(s) + 1
             /\ t[Len(s) + 1] = x
             /\ \A i \in 1 .. Len(s) : t[i] = s[i]
             /\ t[1] = IF s = <<>> THEN x ELSE s[1]
<1> DEFINE t == Append(s, x)
           n == Len(s)
<1>1. /\ n \in Nat /\ t \in Seq(S) /\ t # <<>> /\ Len(t) = n + 1 /\ t[n + 1] = x
      /\ \A i \in 1 .. n : t[i] = s[i]
  BY AppendProperties, LenProperties
<1>2. /\ s = <<>> => n = 0
      /\ s # <<>> => n \in Nat \ {0}
  BY EmptySeq
<1> HIDE DEF t, n
<1>3. t[1] = IF s = <<>> THEN x ELSE s[1]
  BY <1>1, <1>2
<1> QED
  BY <1>1, <1>3 DEF t, n

(* What AdoptImage adds to the images, and where it goes on.               *)
LEMMA AdoptImageStep ==
  ASSUME TypeOK, StackInv, LocalInv, AdoptImage
  PROVE  /\ pc = "adopt" /\ Len(images) < MaxImages
         /\ UNCHANGED <<allow, loaded, indexes, cmdline, seen>>
         /\ pc' = IF Top.disabled THEN "requested" ELSE "descriptors"
         /\ \E x \in VBMetaData :
              /\ images' = Append(images, x)
              /\ x.part \in {Top.part, "none"} /\ x.location = Top.location
              /\ x.disabled = Top.disabled /\ x.index = Top.index
              /\ x.verified = (Top.sig /\ Top.key)
<1>1. pc \in Running
  BY DEF AdoptImage, Running, Early
<1>2. Top \in Frames
  BY <1>1, RunningTop
<1>0. PICK part \in {Top.part, "none"} :
        images' = Append(images, [part |-> part, location |-> Top.location,
                                  index |-> Top.index, disabled |-> Top.disabled,
                                  verified |-> Top.sig /\ Top.key])
  BY DEF AdoptImage
<1> DEFINE x == [part |-> part, location |-> Top.location, index |-> Top.index,
                 disabled |-> Top.disabled, verified |-> Top.sig /\ Top.key]
<1>3. x \in VBMetaData
  BY <1>2 DEF VBMetaData, Frames
<1>4. images' = Append(images, x)
  BY <1>0
<1>5. Len(images) < MaxImages
  <2>1. Len(images) \in Nat /\ Len(images) <= MaxImages /\ Len(images) # MaxImages
    BY LenProperties DEF AdoptImage, TypeOK
  <2>2. \A n \in Nat : n <= MaxImages /\ n # MaxImages => n < MaxImages
    BY SlotVerifyAssumption
  <2> QED
    BY <2>1, <2>2
<1>6. /\ x.part \in {Top.part, "none"} /\ x.location = Top.location
      /\ x.disabled = Top.disabled /\ x.index = Top.index
      /\ x.verified = (Top.sig /\ Top.key)
  OBVIOUS
<1> HIDE DEF x
<1> QED
  BY <1>3, <1>4, <1>5, <1>6 DEF AdoptImage, Goto, inputs

(* What the innermost call does after the adoption leaves the images alone. *)
LEMMA LateStep ==
  ASSUME TopActions, pc \in Late
  PROVE  /\ UNCHANGED <<allow, images>> /\ pc' \in {pc, "out"}
         /\ cmdline' = cmdline \/ pc = "descriptors"
<1> USE DEF inputs, slot_data, Late
<1>1. CASE LoadRequested \/ LoadRequestedFails \/ ReadDescriptors \/ LocationTooLarge
  BY <1>1 DEF LoadRequested, LoadRequestedFails, ReadDescriptors, LocationTooLarge, Bail, Goto
<1>2. CASE \/ MalformedDescriptor \/ IdleDescriptor \/ HashDescriptor \/ HashDescriptorFails
           \/ CmdlineDescriptor \/ CmdlineDescriptorFails
  BY <1>2 DEF MalformedDescriptor, IdleDescriptor, HashDescriptor, HashDescriptorFails,
              CmdlineDescriptor, CmdlineDescriptorFails, Listed, Bail, Proceed, Goto
<1> QED
  BY <1>1, <1>2 DEF TopActions, LocateFails, ReadFails, ReadVBMeta, VerifyImage, VerifyImageFails,
     CheckKey, CheckKeyFails, CheckRollbackIndex, ReadRollbackIndexFails, AdoptImage, TooManyImages

(* The top-level struct is adopted before all others.                      *)
LEMMA OrderInvStep ==
  ASSUME TypeOK, StackInv, LocalInv, ErrorInv, OrderInv, [Next]_vars
  PROVE  OrderInv'
<1> USE DEF Running, Early, Late
<1>1. CASE TopActions
  <2>1. TopStep /\ pc \in Running \ {"out"} /\ pc' \in Running \ {"load"}
    BY <1>1, TopActionsStep, TopActionsGoOn
  <2>2. /\ Len(stack') = Len(stack) /\ (IsMain(Top') <=> IsMain(Top)) /\ Top \in Frames
        /\ \A i \in 1 .. Len(stack) : IsMain(stack'[i]) <=> IsMain(stack[i])
    BY <2>1 DEF TopStep, IsMain, Top
  <2>3. CASE pc \in Early /\ ~AdoptImage
    <3>1. /\ UNCHANGED <<allow, images, cmdline>>
          /\ pc' \in Early \/ (pc' = "out" /\ ~Accepted(Top'.ret))
      BY <1>1, <2>3, EarlyStep
    <3>2. images # <<>> => /\ images[1].part \in {"vbmeta", "boot", "none"}
                           /\ images[1].location = 0 /\ ~images[1].disabled
      BY <2>3 DEF OrderInv
    <3>3. ~Accepted(Top'.ret) => ~Accepted(Top.ret)'
      BY <3>1 DEF Accepted
    <3> QED
      BY <2>1, <2>2, <2>3, <3>1, <3>2, <3>3 DEF OrderInv
  <2>4. CASE AdoptImage
    <3>1. /\ pc = "adopt" /\ UNCHANGED <<allow, cmdline>>
          /\ pc' = IF Top.disabled THEN "requested" ELSE "descriptors"
      BY <2>4, AdoptImageStep
    <3>2. PICK x \in VBMetaData :
            /\ images' = Append(images, x) /\ x.part \in {Top.part, "none"}
            /\ x.location = Top.location /\ x.disabled = Top.disabled
      BY <2>4, AdoptImageStep
    <3>3. images' # <<>> /\ images'[1] = IF images = <<>> THEN x ELSE images[1]
      BY <3>2, Appended DEF TypeOK
    <3>4. CASE images = <<>>
      <4>1. IsMain(Top) /\ \A i \in 1 .. Len(stack) : IsMain(stack[i])
        BY <3>1, <3>4 DEF OrderInv
      <4>2. Top.part \in {"vbmeta", "boot"} /\ Top.location = 0
        <5>1. Top.part # "chained"
          BY <2>1, <4>1 DEF StackInv, TopStep, Top
        <5> QED
          BY <2>2, <4>1, <5>1 DEF Frames, IsMain
      <4>3. ~cmdline
        BY <3>1, <3>4 DEF OrderInv
      <4> QED
        BY <2>2, <3>1, <3>2, <3>3, <3>4, <4>1, <4>2, <4>3 DEF OrderInv
    <3>5. CASE images # <<>>
      <4>1. ~IsMain(Top) /\ ~Top.disabled
        BY <3>1, <3>5 DEF OrderInv, LocalInv
      <4>2. /\ images[1].part \in {"vbmeta", "boot", "none"} /\ images[1].location = 0
            /\ ~images[1].disabled
        BY <3>1, <3>5 DEF OrderInv
      <4> QED
        BY <3>1, <3>3, <3>5, <4>1, <4>2 DEF OrderInv
    <3> QED
      BY <3>4, <3>5
  <2>5. CASE pc \in Late
    <3>1. /\ UNCHANGED <<allow, images>> /\ pc' \in {pc, "out"}
          /\ cmdline' = cmdline \/ pc = "descriptors"
      BY <1>1, <2>5, LateStep
    <3>2. images # <<>>
      BY <2>5 DEF OrderInv
    <3> QED
      BY <2>2, <2>5, <3>1, <3>2 DEF OrderInv
  <2> QED
    BY <2>1, <2>3, <2>4, <2>5 DEF AdoptImage
<1>2. CASE FallBackToBoot
  <2>1. Pushes /\ Len(stack) = 1 /\ Top'.part = "boot" /\ pc = "load" /\ IsMain(Top)
        /\ UNCHANGED <<images, cmdline>>
    BY <1>2, FallBackPushes DEF FallBackToBoot, slot_data
  <2>2. images = <<>> /\ ~cmdline
    BY <2>1 DEF OrderInv
  <2>3. Len(stack') = 2 /\ IsMain(Top') /\ stack'[2] = Top' /\ IsMain(stack'[1]) /\ pc' = "load"
    <3>1. PICK l \in 0 .. NumLocations : Top' = Call(IF l = 0 THEN "boot" ELSE "chained", l)
      BY <2>1 DEF Pushes
    <3>2. IsMain(Top')
      BY <2>1, <3>1, CallIsFrame DEF IsMain
    <3>3. Len(stack') = 2 /\ stack'[1].location = Top.location /\ pc' = "load"
      BY <2>1 DEF Pushes
    <3> QED
      BY <2>1, <3>2, <3>3 DEF IsMain, Top
  <2> QED
    BY <2>1, <2>2, <2>3 DEF OrderInv
<1>3. CASE ChainDescriptor
  <2>1. Pushes /\ Top'.part = "chained" /\ pc = "descriptors" /\ UNCHANGED <<images, cmdline>>
    BY <1>3, ChainPushes DEF ChainDescriptor, Listed, slot_data
  <2>2. /\ images # <<>> /\ ~images[1].disabled /\ images[1].location = 0
        /\ images[1].part \in {"vbmeta", "boot", "none"}
    BY <2>1 DEF OrderInv
  <2>3. ~IsMain(Top') /\ pc' = "load"
    <3>1. PICK l \in 0 .. NumLocations : Top' = Call(IF l = 0 THEN "boot" ELSE "chained", l)
      BY <2>1 DEF Pushes
    <3> QED
      BY <2>1, <3>1, CallIsFrame DEF IsMain, Pushes
  <2> QED
    BY <2>1, <2>2, <2>3 DEF OrderInv
<1>4. CASE ReturnFromBoot \/ ReturnFromChain
  <2>1. Pops /\ pc' \in {"out", "descriptors"} /\ UNCHANGED <<allow, images, cmdline>>
    BY <1>4, ReturnFromBootPops, ReturnFromChainPops
       DEF ReturnFromBoot, ReturnFromChain, inputs, slot_data
  <2> DEFINE n == Len(stack')
  <2>2. n \in 1 .. 2 /\ Len(stack) = n + 1 /\ pc = "out"
    BY <2>1, TwoOrThree DEF Pops
  <2>3. \A i \in 1 .. n : IsMain(stack'[i]) <=> IsMain(stack[i])
    BY <2>1, <2>2 DEF Pops, Top, IsMain
  <2>4. images = <<>> => /\ \A i \in 1 .. n + 1 : IsMain(stack[i])
                         /\ ~Accepted(Top.ret) /\ ~cmdline /\ IsMain(Top)
    BY <2>2 DEF OrderInv, Top
  <2>5. images = <<>> => pc' = "out"
    <3>1. CASE ReturnFromBoot
      BY <3>1, ReturnFromBootPops
    <3>2. CASE ReturnFromChain
      BY <2>4, <3>2, ReturnFromChainPops
    <3> QED
      BY <1>4, <3>1, <3>2
  <2>6. images # <<>> => /\ images[1].part \in {"vbmeta", "boot", "none"}
                         /\ images[1].location = 0
                         /\ images[1].disabled => /\ \A i \in 1 .. n + 1 : IsMain(stack[i])
                                                 /\ ~cmdline /\ IsMain(Top)
    BY <2>2 DEF OrderInv, Top
  <2>7. images # <<>> /\ images[1].disabled => pc' = "out"
    <3>1. CASE ReturnFromBoot
      BY <3>1, ReturnFromBootPops
    <3>2. CASE ReturnFromChain
      BY <2>6, <3>2, ReturnFromChainPops
    <3> QED
      BY <1>4, <3>1, <3>2
  <2>8. ~Accepted(Top.ret) => ~Accepted(Top.ret)'
    <3>1. Top.ret # "OK" => Top'.ret = Top.ret
      BY <2>1 DEF Pops
    <3> QED
      BY <2>1, <3>1 DEF Accepted
  <2> HIDE DEF n
  <2>9. /\ images = <<>> => \A i \in 1 .. n : IsMain(stack'[i])
        /\ images # <<>> /\ images[1].disabled => \A i \in 1 .. n : IsMain(stack'[i])
    BY <2>2, <2>3, <2>4, <2>6
  <2> QED
    BY <2>1, <2>4, <2>5, <2>6, <2>7, <2>8, <2>9 DEF OrderInv, n
<1>5. CASE QuietActions
  <2>1. /\ pc \in Late /\ pc' \in {"out", "store", "crashed"}
        /\ UNCHANGED <<stack, images, cmdline>>
        /\ pc' = "store" => pc = "descriptors"
    BY <1>5, QuietStep
  <2>2. pc' = "out" \/ pc # "requested"
    BY <1>5 DEF QuietActions, AllRequestedLoaded, DescriptorsLost, AllDescriptorsDone,
                StoreRollbackIndex, Goto, Listed
  <2> QED
    BY <2>1, <2>2 DEF OrderInv
<1>6. CASE ReturnToSlotVerify
  <2>1. /\ pc = "out" /\ pc' = "finish" /\ Len(stack) = 1 /\ Top = stack[1]
        /\ stack' = <<>> /\ ret' = Top.ret /\ UNCHANGED <<allow, images, cmdline>>
    BY <1>6, ReturnToSlotVerifyStep
  <2>2. Len(stack') = 0
    BY <2>1, EmptySeq
  <2>3. images = <<>> => ~Accepted(ret)'
    BY <2>1 DEF OrderInv, Accepted
  <2> QED
    BY <2>1, <2>2, <2>3 DEF OrderInv
<1>7. CASE Start
  <2>1. 0 \in 0 .. NumLocations
    BY SlotVerifyAssumption
  <2>2. /\ stack' = <<Call("vbmeta", 0)>> /\ pc = "start" /\ pc' = "load"
        /\ UNCHANGED <<images, cmdline>>
    BY <1>7 DEF Start, Goto, slot_data
  <2>3. Len(stack') = 1 /\ IsMain(stack'[1]) /\ IsMain(Top')
    BY <2>1, <2>2, CallIsFrame DEF Top, IsMain
  <2> QED
    BY <2>2, <2>3 DEF OrderInv
<1>8. CASE StartFails \/ NamelessTopLevel \/ Complete \/ CompleteFails \/ Reject
  BY <1>8 DEF StartFails, NamelessTopLevel, Complete, CompleteFails, Reject, Goto,
     OrderInv, slot_data
<1>9. CASE VerifyAgain
  BY <1>9, EmptySeq DEF VerifyAgain, OrderInv
<1>10. CASE UNCHANGED vars
  BY <1>10 DEF vars, inputs, slot_data, OrderInv, Top, Accepted
<1> QED
  BY <1>1, <1>2, <1>3, <1>4, <1>5, <1>6, <1>7, <1>8, <1>9, <1>10, NextCases

(* Of the steps of the innermost call only these add to what was loaded.   *)
LEMMA LoadedStep ==
  ASSUME TopActions
  PROVE  \/ UNCHANGED <<images, loaded>>
         \/ AdoptImage \/ LoadRequested \/ HashDescriptor
  BY DEF TopActions, LocateFails, ReadFails, ReadVBMeta, VerifyImage, VerifyImageFails,
         CheckKey, CheckKeyFails, CheckRollbackIndex, ReadRollbackIndexFails,
         TooManyImages, LoadRequestedFails, ReadDescriptors, MalformedDescriptor,
         IdleDescriptor, HashDescriptorFails, CmdlineDescriptor,
         CmdlineDescriptorFails, LocationTooLarge, slot_data

(* Without an error everything that was adopted and loaded has passed.     *)
LEMMA CheckInvStep ==
  ASSUME TypeOK, StackInv, LocalInv, ErrorInv, OrderInv, CheckInv, [Next]_vars
  PROVE  CheckInv'
<1>1. ASSUME seen' = {} => seen = {}, UNCHANGED <<images, loaded>>
      PROVE  CheckInv'
  BY <1>1 DEF CheckInv
<1>2. CASE TopActions
  <2>1. Reported
    BY <1>2, TopActionsStep
  <2>2. seen' = {} => seen = {}
    BY <2>1 DEF Reported
  <2>3. CASE UNCHANGED <<images, loaded>>
    BY <1>1, <2>2, <2>3
  <2>4. CASE AdoptImage
    <3>1. pc = "adopt" /\ UNCHANGED <<loaded, seen>>
      BY <2>4, AdoptImageStep
    <3>2. PICK x \in VBMetaData :
            /\ images' = Append(images, x) /\ x.index = Top.index
            /\ x.verified = (Top.sig /\ Top.key)
      BY <2>4, AdoptImageStep
    <3> DEFINE n == Len(images)
    <3>3. /\ n \in Nat /\ Len(images') = n + 1 /\ images' # <<>> /\ images'[n + 1] = x
          /\ \A i \in 1 .. n : images'[i] = images[i]
          /\ images'[1] = IF images = <<>> THEN x ELSE images[1]
      BY <3>2, Appended DEF TypeOK
    <3>4. seen = {} => x.verified /\ x.index >= StoredIndex
      BY <3>1, <3>2 DEF LocalInv
    <3>5. seen = {} => \A i \in 1 .. n : images[i].verified /\ images[i].index >= StoredIndex
      BY DEF CheckInv
    <3> HIDE DEF n
    <3>6. seen = {} => \A i \in 1 .. n + 1 : images'[i].verified /\ images'[i].index >= StoredIndex
      BY <3>3, <3>4, <3>5
    <3> QED
      BY <3>1, <3>3, <3>6 DEF CheckInv
  <2>5. CASE LoadRequested
    <3>1. pc = "requested" /\ UNCHANGED <<images, seen>>
      BY <2>5 DEF LoadRequested
    <3>2. images # <<>> /\ images[1].disabled
      BY <3>1 DEF OrderInv, Late
    <3> QED
      BY <3>1, <3>2 DEF CheckInv
  <2>6. CASE HashDescriptor
    <3>1. PICK r \in {"OK", "ERROR_VERIFICATION"}, named \in BOOLEAN :
            /\ loaded' = Append(loaded, [matched |-> r = "OK", named |-> named])
            /\ Proceed(NextDescriptor, r, "descriptors")
      BY <2>6 DEF HashDescriptor
    <3>2. images' = images /\ (seen' = {} => r = "OK")
      BY <2>6, <3>1 DEF HashDescriptor, Proceed, Report
    <3> DEFINE n == Len(loaded)
               b == [matched |-> r = "OK", named |-> named]
    <3>3. b \in PartitionData /\ b.matched = (r = "OK") /\ loaded \in Seq(PartitionData)
      BY DEF TypeOK, PartitionData
    <3>4. /\ n \in Nat /\ Len(loaded') = n + 1 /\ loaded'[n + 1] = b
          /\ \A i \in 1 .. n : loaded'[i] = loaded[i]
      BY <3>1, <3>3, Appended
    <3>5. seen = {} =>
            ((\E i \in 1 .. n : ~loaded[i].matched) => images # <<>> /\ images[1].disabled)
      BY DEF CheckInv
    <3>6. seen = {} =>
            \A i \in 1 .. Len(images) : images[i].verified /\ images[i].index >= StoredIndex
      BY DEF CheckInv
    <3>7. seen' = {} => loaded'[n + 1].matched
      BY <3>2, <3>3, <3>4
    <3> HIDE DEF n, b
    <3>8. seen' = {} =>
            ((\E i \in 1 .. n + 1 : ~loaded'[i].matched) => images # <<>> /\ images[1].disabled)
      <4> SUFFICES ASSUME seen' = {}, NEW i \in 1 .. n + 1, ~loaded'[i].matched
                   PROVE  images # <<>> /\ images[1].disabled
        OBVIOUS
      <4>1. i # n + 1
        BY <3>7
      <4>2. i \in 1 .. n
        BY <3>4, <4>1
      <4>3. ~loaded[i].matched
        BY <3>4, <4>2
      <4> QED
        BY <2>2, <3>5, <4>2, <4>3
    <3> QED
      BY <2>2, <3>2, <3>4, <3>6, <3>8 DEF CheckInv
  <2> QED
    BY <1>2, <2>3, <2>4, <2>5, <2>6, LoadedStep
<1>3. CASE FallBackToBoot \/ ChainDescriptor \/ ReturnFromBoot \/ ReturnFromChain
  BY <1>1, <1>3 DEF FallBackToBoot, ChainDescriptor, ReturnFromBoot, ReturnFromChain, slot_data
<1>4. CASE QuietActions
  BY <1>1, <1>4, QuietStep
<1>5. CASE \/ ReturnToSlotVerify \/ Start \/ StartFails \/ NamelessTopLevel \/ Complete
           \/ CompleteFails \/ Reject
  BY <1>1, <1>5 DEF ReturnToSlotVerify, Start, StartFails, NamelessTopLevel, Complete,
                    CompleteFails, Reject, Report,
                    slot_data
<1>6. CASE VerifyAgain
  <2>1. Len(images') = 0 /\ Len(loaded') = 0
    BY <1>6, EmptySeq DEF VerifyAgain
  <2> QED
    BY <2>1 DEF CheckInv
<1>7. CASE UNCHANGED vars
  BY <1>1, <1>7 DEF vars, slot_data
<1> QED
  BY <1>2, <1>3, <1>4, <1>5, <1>6, <1>7, NextCases

(* slot_data grows within its arrays.                                      *)
LEMMA SlotDataStep ==
  ASSUME TypeOK, StackInv, LocalInv, ErrorInv, [Next]_vars
  PROVE  /\ images' \in Seq(VBMetaData) /\ Len(images') <= MaxImages
         /\ loaded' \in Seq(PartitionData) /\ Len(loaded') <= MaxLoaded
         /\ indexes' \in [Locations -> Indexes]
         /\ cmdline' \in BOOLEAN
<1> DEFINE Bounded == /\ images' \in Seq(VBMetaData) /\ Len(images') <= MaxImages
                      /\ loaded' \in Seq(PartitionData) /\ Len(loaded') <= MaxLoaded
                      /\ indexes' \in [Locations -> Indexes]
                      /\ cmdline' \in BOOLEAN
<1>0. /\ images \in Seq(VBMetaData) /\ Len(images) \in Nat /\ Len(images) <= MaxImages
      /\ loaded \in Seq(PartitionData) /\ Len(loaded) \in Nat /\ Len(loaded) <= MaxLoaded
      /\ indexes \in [Locations -> Indexes]
      /\ cmdline \in BOOLEAN
  BY LenProperties DEF TypeOK
<1>1. UNCHANGED slot_data => Bounded
  BY <1>0 DEF slot_data
<1>2. CASE \/ LocateFails \/ ReadFails \/ ReadVBMeta \/ VerifyImage \/ VerifyImageFails
           \/ CheckKey \/ CheckKeyFails \/ CheckRollbackIndex \/ ReadRollbackIndexFails
           \/ TooManyImages \/ LoadRequestedFails \/ ReadDescriptors \/ MalformedDescriptor
           \/ IdleDescriptor \/ HashDescriptorFails \/ CmdlineDescriptorFails
           \/ LocationTooLarge \/ AllRequestedLoaded \/ DescriptorsLost
           \/ AllDescriptorsDone
  BY <1>1, <1>2 DEF LocateFails, ReadFails, ReadVBMeta, VerifyImage, VerifyImageFails, CheckKey,
     CheckKeyFails, CheckRollbackIndex, ReadRollbackIndexFails, TooManyImages,
     LoadRequestedFails, ReadDescriptors, MalformedDescriptor, IdleDescriptor,
     HashDescriptorFails, CmdlineDescriptorFails, LocationTooLarge, AllRequestedLoaded,
     DescriptorsLost, AllDescriptorsDone
<1>3. CASE AdoptImage
  <2>1. Len(images) < MaxImages /\ UNCHANGED <<loaded, indexes, cmdline>>
    BY <1>3, AdoptImageStep
  <2>2. images' \in Seq(VBMetaData) /\ Len(images') = Len(images) + 1
    BY <1>0, <1>3, AdoptImageStep, AppendProperties
  <2>3. \A m \in Nat : m < MaxImages => m + 1 <= MaxImages
    BY SlotVerifyAssumption
  <2> QED
    BY <1>0, <2>1, <2>2, <2>3
<1>4. CASE LoadRequested \/ HashDescriptor
  <2>1. PICK b \in PartitionData : loaded' = Append(loaded, b)
    <3>1. CASE LoadRequested
      BY <3>1 DEF LoadRequested, PartitionData
    <3>2. CASE HashDescriptor
      <4>1. PICK r \in {"OK", "ERROR_VERIFICATION"}, named \in BOOLEAN :
              loaded' = Append(loaded, [matched |-> r = "OK", named |-> named])
        BY <3>2 DEF HashDescriptor
      <4>2. [matched |-> r = "OK", named |-> named] \in PartitionData
        BY DEF PartitionData
      <4> QED
        BY <4>1, <4>2
    <3> QED
      BY <1>4, <3>1, <3>2
  <2>2. Len(loaded) # MaxLoaded /\ UNCHANGED <<images, indexes, cmdline>>
    BY <1>4 DEF LoadRequested, HashDescriptor
  <2>3. loaded' \in Seq(PartitionData) /\ Len(loaded') = Len(loaded) + 1
    BY <1>0, <2>1, AppendProperties
  <2>4. \A m \in Nat : m <= MaxLoaded /\ m # MaxLoaded => m + 1 <= MaxLoaded
    BY SlotVerifyAssumption
  <2> QED
    BY <1>0, <2>2, <2>3, <2>4
<1>5. CASE CmdlineDescriptor \/ Complete
  BY <1>0, <1>5 DEF CmdlineDescriptor, Complete
<1>6. CASE StoreRollbackIndex
  <2>1. pc \in Running
    BY <1>6 DEF StoreRollbackIndex, Running, Late
  <2>2. Top.index \in Indexes
    BY <2>1, RunningTop DEF Frames
  <2> QED
    BY <1>0, <1>6, <2>2 DEF StoreRollbackIndex
<1>7. CASE FallBackToBoot \/ ChainDescriptor \/ ReturnFromBoot \/ ReturnFromChain
  BY <1>1, <1>7 DEF FallBackToBoot, ChainDescriptor, ReturnFromBoot, ReturnFromChain
<1>8. CASE ReturnToSlotVerify \/ Start \/ StartFails \/ NamelessTopLevel \/ CompleteFails \/ Reject
  BY <1>1, <1>8 DEF ReturnToSlotVerify, Start, StartFails, NamelessTopLevel, CompleteFails, Reject
<1>9. CASE VerifyAgain
  <2>1. images' = <<>> /\ loaded' = <<>> /\ cmdline' = FALSE /\ indexes' = [l \in Locations |-> 0]
    BY <1>9 DEF VerifyAgain
  <2>2. indexes' \in [Locations -> Indexes]
    BY <2>1 DEF Indexes
  <2>3. 0 <= MaxImages /\ 0 <= MaxLoaded
    BY SlotVerifyAssumption
  <2>4. Len(images') = 0 /\ Len(loaded') = 0
    BY <2>1, EmptySeq
  <2>5. images' \in Seq(VBMetaData) /\ loaded' \in Seq(PartitionData)
    BY <2>1, EmptySeq
  <2> QED
    BY <2>1, <2>2, <2>3, <2>4, <2>5
<1>10. CASE UNCHANGED vars
  BY <1>1, <1>10 DEF vars
<1> QED
  BY <1>2, <1>3, <1>4, <1>5, <1>6, <1>7, <1>8, <1>9, <1>10, NextCases DEF TopActions, QuietActions

(* What the calls hold together, whichever of them is the innermost.       *)
LEMMA HeldIsNat ==
  \A i \in 1 .. 3 : Held(i) \in Nat
  BY DEF Held, FreedBy

(* Every allocation stays accounted for, and the ends of avb_slot_verify() *)
(* leave what HeapBalanced says.                                           *)
LEMMA HeapInvStep ==
  ASSUME TypeOK, StackInv, LocalInv, ErrorInv, DataInv, HeapInv, HeapBalanced, [Next]_vars
  PROVE  HeapInv' /\ HeapBalanced' /\ heap' \in Nat
<1>0. /\ pc \in Running => pc \notin {"start", "finish", "done"}
      /\ pc' \in Running => pc' \notin {"start", "finish", "done"}
      /\ heap \in Nat /\ Owned \in Nat
  BY OwnedIsNat DEF Running, Early, Late, TypeOK
<1>00. Held(1) \in Nat /\ Held(2) \in Nat /\ Held(3) \in Nat
  BY HeldIsNat
<1>01. Held(1)' \in Nat /\ Held(2)' \in Nat /\ Held(3)' \in Nat
  BY DEF Held, FreedBy
<1>02. /\ pc \in Running => heap = 1 + Owned + Held(1) + Held(2) + Held(3)
       /\ UNCHANGED slot_data => Owned' = Owned
  BY OwnedGrows DEF HeapInv
<1>03. Owned' \in Nat
  <2>1. Len(images') \in Nat /\ Len(loaded') \in Nat
    BY SlotDataStep, LenProperties
  <2> QED
    BY <2>1 DEF Owned
<1>04. ASSUME pc' \in Running, heap' = 1 + Owned' + Held(1)' + Held(2)' + Held(3)'
       PROVE  HeapInv' /\ HeapBalanced' /\ heap' \in Nat
  BY <1>0, <1>01, <1>03, <1>04 DEF HeapInv, HeapBalanced
<1>1. CASE TopActions
  <2>1. TopStep /\ Balanced /\ pc \in Running /\ pc' \in Running
    BY <1>1, TopActionsStep, TopActionsGoOn
  <2>2. /\ Len(stack) \in 1 .. 3
        /\ \A k \in 1 .. 3 :
             /\ k = Len(stack) => Held(k) = FreedBy(Top) /\ Held(k)' = FreedBy(Top')
             /\ k # Len(stack) => Held(k)' = Held(k)
    <3>1. Len(stack) \in 1 .. 3 /\ Len(stack') = Len(stack)
      BY <2>1 DEF TopStep
    <3>2. \A i \in 1 .. Len(stack) : i # Len(stack) => stack'[i] = stack[i]
      BY <2>1 DEF TopStep
    <3> SUFFICES ASSUME NEW k \in 1 .. 3
                 PROVE  /\ k = Len(stack) => Held(k) = FreedBy(Top) /\ Held(k)' = FreedBy(Top')
                        /\ k # Len(stack) => Held(k)' = Held(k)
      BY <3>1
    <3>3. CASE k = Len(stack)
      BY <3>1, <3>3 DEF Held, Top
    <3>4. CASE k # Len(stack)
      BY <3>1, <3>2, <3>4 DEF Held
    <3> QED
      BY <3>3, <3>4
  <2>3. heap' = heap \/ heap' = heap + 1
    BY <1>1 DEF TopActions, LocateFails, ReadFails, ReadVBMeta, VerifyImage, VerifyImageFails,
         CheckKey, CheckKeyFails, CheckRollbackIndex, ReadRollbackIndexFails, AdoptImage,
         TooManyImages, LoadRequested, LoadRequestedFails, ReadDescriptors, MalformedDescriptor,
         IdleDescriptor, HashDescriptor, HashDescriptorFails, CmdlineDescriptor,
         CmdlineDescriptorFails, LocationTooLarge
  <2>4. heap' \in Int /\ FreedBy(Top) \in Nat /\ FreedBy(Top') \in Nat
    BY <1>0, <2>3 DEF FreedBy
  <2>5. /\ heap' - Owned' - FreedBy(Top') = heap - Owned - FreedBy(Top)
        /\ heap = 1 + Owned + Held(1) + Held(2) + Held(3)
    BY <1>02, <2>1 DEF Balanced
  <2>6. heap' = 1 + Owned' + Held(1)' + Held(2)' + Held(3)'
    <3>1. CASE Len(stack) = 1
      <4>1. /\ Held(1) = FreedBy(Top) /\ Held(1)' = FreedBy(Top')
            /\ Held(2)' = Held(2) /\ Held(3)' = Held(3)
        BY <2>2, <3>1
      <4> QED
        BY <1>0, <1>00, <1>03, <2>4, <2>5, <4>1
    <3>2. CASE Len(stack) = 2
      <4>1. /\ Held(2) = FreedBy(Top) /\ Held(2)' = FreedBy(Top')
            /\ Held(1)' = Held(1) /\ Held(3)' = Held(3)
        BY <2>2, <3>2
      <4> QED
        BY <1>0, <1>00, <1>03, <2>4, <2>5, <4>1
    <3>3. CASE Len(stack) = 3
      <4>1. /\ Held(3) = FreedBy(Top) /\ Held(3)' = FreedBy(Top')
            /\ Held(1)' = Held(1) /\ Held(2)' = Held(2)
        BY <2>2, <3>3
      <4> QED
        BY <1>0, <1>00, <1>03, <2>4, <2>5, <4>1
    <3> QED
      BY <2>2, <3>1, <3>2, <3>3
  <2> QED
    BY <1>04, <2>1, <2>6
<1>2. CASE FallBackToBoot \/ ChainDescriptor
  <2>1. /\ Pushes /\ FreedBy(Top') = 0 /\ UNCHANGED slot_data
        /\ heap' - FreedBy(stack'[Len(stack)]) = heap - FreedBy(Top)
        /\ heap' = heap \/ heap' = heap + 1
    BY <1>2, FallBackPushes, ChainPushes DEF FallBackToBoot, ChainDescriptor
  <2>2. /\ Len(stack) \in 1 .. 2
        /\ \A k \in 1 .. 3 :
             /\ k = Len(stack) => Held(k) = FreedBy(Top) /\ Held(k)' = FreedBy(stack'[Len(stack)])
             /\ k # Len(stack) => Held(k)' = Held(k)
    <3>1. Len(stack) \in 1 .. 2 /\ Len(stack') = Len(stack) + 1
      BY <2>1 DEF Pushes
    <3>2. \A i \in 1 .. Len(stack) : i # Len(stack) => stack'[i] = stack[i]
      BY <2>1 DEF Pushes
    <3> SUFFICES ASSUME NEW k \in 1 .. 3
                 PROVE  /\ k = Len(stack) => /\ Held(k) = FreedBy(Top)
                                            /\ Held(k)' = FreedBy(stack'[Len(stack)])
                        /\ k # Len(stack) => Held(k)' = Held(k)
      BY <3>1
    <3>3. CASE k = Len(stack)
      BY <3>1, <3>3 DEF Held, Top
    <3>4. CASE k = Len(stack) + 1
      BY <2>1, <3>1, <3>4 DEF Held, Top
    <3>5. CASE k # Len(stack) /\ k # Len(stack) + 1
      BY <3>1, <3>2, <3>5 DEF Held
    <3> QED
      BY <3>3, <3>4, <3>5
  <2>3. /\ heap' \in Int /\ FreedBy(Top) \in Nat /\ FreedBy(stack'[Len(stack)]) \in Nat
    BY <1>0, <2>1 DEF FreedBy
  <2>31. heap' = heap - FreedBy(Top) + FreedBy(stack'[Len(stack)])
    BY <1>0, <2>1, <2>3
  <2>4. /\ heap = 1 + Owned + Held(1) + Held(2) + Held(3) /\ Owned' = Owned
        /\ pc' \in Running
    BY <1>02, <2>1 DEF Pushes, Running, Early
  <2>5. heap' = 1 + Owned' + Held(1)' + Held(2)' + Held(3)'
    <3>1. CASE Len(stack) = 1
      <4>1. /\ heap' = heap - Held(1) + Held(1)'
            /\ Held(2)' = Held(2) /\ Held(3)' = Held(3)
        BY <2>2, <2>31, <3>1
      <4> QED
        BY <1>0, <1>00, <1>01, <2>4, <4>1
    <3>2. CASE Len(stack) = 2
      <4>1. /\ heap' = heap - Held(2) + Held(2)'
            /\ Held(1)' = Held(1) /\ Held(3)' = Held(3)
        BY <2>2, <2>31, <3>2
      <4> QED
        BY <1>0, <1>00, <1>01, <2>4, <4>1
    <3> QED
      BY <2>2, <3>1, <3>2
  <2> QED
    BY <1>04, <2>4, <2>5
<1>3. CASE ReturnFromBoot \/ ReturnFromChain
  <2>1. Pops /\ pc' \in {"out", "descriptors"} /\ UNCHANGED slot_data
    BY <1>3, ReturnFromBootPops, ReturnFromChainPops DEF ReturnFromBoot, ReturnFromChain
  <2>2. /\ Len(stack) \in 2 .. 3
        /\ \A k \in 1 .. 3 :
             /\ k = Len(stack) => Held(k) = FreedBy(Top) /\ Held(k)' = 0
             /\ k # Len(stack) => Held(k)' = Held(k)
    <3>1. Len(stack) \in 2 .. 3 /\ Len(stack') = Len(stack) - 1
      BY <2>1 DEF Pops
    <3>2. \A i \in 1 .. Len(stack') : i # Len(stack') => stack'[i] = stack[i]
      BY <2>1 DEF Pops
    <3>3. FreedBy(stack'[Len(stack')]) = FreedBy(stack[Len(stack')])
      BY <2>1 DEF Pops, Top
    <3> SUFFICES ASSUME NEW k \in 1 .. 3
                 PROVE  /\ k = Len(stack) => Held(k) = FreedBy(Top) /\ Held(k)' = 0
                        /\ k # Len(stack) => Held(k)' = Held(k)
      BY <3>1
    <3>4. CASE k = Len(stack)
      BY <3>1, <3>4 DEF Held, Top
    <3>5. CASE k = Len(stack')
      BY <3>1, <3>3, <3>5 DEF Held
    <3>6. CASE k # Len(stack) /\ k # Len(stack')
      BY <3>1, <3>2, <3>6 DEF Held
    <3> QED
      BY <3>4, <3>5, <3>6
  <2>3. FreedBy(Top) \in Nat /\ heap' = heap - FreedBy(Top)
    BY <2>1 DEF Pops, FreedBy
  <2>4. /\ heap = 1 + Owned + Held(1) + Held(2) + Held(3) /\ Owned' = Owned
        /\ pc' \in Running
    BY <1>02, <2>1 DEF Pops, Running, Late
  <2>5. heap' = 1 + Owned' + Held(1)' + Held(2)' + Held(3)'
    <3>1. CASE Len(stack) = 2
      <4>1. /\ Held(2) = FreedBy(Top) /\ Held(2)' = 0
            /\ Held(1)' = Held(1) /\ Held(3)' = Held(3)
        BY <2>2, <3>1
      <4> QED
        BY <1>0, <1>00, <2>3, <2>4, <4>1
    <3>2. CASE Len(stack) = 3
      <4>1. /\ Held(3) = FreedBy(Top) /\ Held(3)' = 0
            /\ Held(1)' = Held(1) /\ Held(2)' = Held(2)
        BY <2>2, <3>2
      <4> QED
        BY <1>0, <1>00, <2>3, <2>4, <4>1
    <3> QED
      BY <2>2, <3>1, <3>2
  <2> QED
    BY <1>04, <2>4, <2>5
<1>4. CASE QuietActions
  <2>1. /\ pc \in Running /\ pc' \in Running \cup {"crashed"}
        /\ UNCHANGED <<stack, images, loaded, cmdline, heap>>
    BY <1>4, QuietStep DEF Running, Late
  <2>2. CASE pc' \in Running
    <3>1. /\ Owned' = Owned /\ Held(1)' = Held(1) /\ Held(2)' = Held(2) /\ Held(3)' = Held(3)
          /\ heap' = heap
      BY <2>1 DEF Owned, Held
    <3> QED
      BY <1>02, <1>04, <2>1, <2>2, <3>1
  <2>3. CASE pc' = "crashed"
    BY <1>0, <2>1, <2>3 DEF HeapInv, HeapBalanced, Running, Early, Late
  <2> QED
    BY <2>1, <2>2, <2>3
<1>5. CASE ReturnToSlotVerify
  <2>1. /\ pc = "out" /\ pc' = "finish" /\ Len(stack) = 1 /\ Top = stack[1]
        /\ heap' = heap - FreedBy(Top) /\ UNCHANGED <<images, loaded, cmdline>>
    BY <1>5, ReturnToSlotVerifyStep
  <2>2. Held(1) = FreedBy(Top) /\ Held(2) = 0 /\ Held(3) = 0
    BY <2>1 DEF Held
  <2>3. pc \in Running /\ Owned' = Owned
    BY <2>1 DEF Running, Owned
  <2>4. heap' = 1 + Owned
    BY <1>0, <1>00, <1>02, <2>1, <2>2, <2>3
  <2> QED
    BY <1>0, <2>1, <2>3, <2>4 DEF HeapInv, HeapBalanced, Running, Early, Late
<1>6. CASE Start
  <2>1. 0 \in 0 .. NumLocations
    BY SlotVerifyAssumption
  <2>2. /\ stack' = <<Call("vbmeta", 0)>> /\ pc = "start" /\ pc' = "load" /\ heap' = heap + 2
        /\ UNCHANGED slot_data
    BY <1>6 DEF Start, Goto
  <2>3. Len(stack') = 1 /\ FreedBy(stack'[1]) = 0
    BY <2>1, <2>2, CallIsFrame
  <2>4. Held(1)' = 0 /\ Held(2)' = 0 /\ Held(3)' = 0
    BY <2>3 DEF Held
  <2>5. heap = 0 /\ images = <<>> /\ loaded = <<>> /\ ~cmdline
    BY <2>2 DEF HeapInv
  <2>6. Owned = 1 /\ Owned' = Owned
    BY <1>02, <2>2, <2>5, EmptySeq DEF Owned
  <2>7. heap' = 1 + Owned' + Held(1)' + Held(2)' + Held(3)' /\ pc' \in Running
    BY <2>2, <2>4, <2>5, <2>6 DEF Running, Early
  <2> QED
    BY <1>04, <2>7
<1>7. CASE StartFails
  BY <1>7 DEF StartFails, Goto, HeapInv, DataInv, HeapBalanced, Running, Early, Late
<1>8. CASE Complete
  <2>1. /\ pc = "finish" /\ pc' = "done" /\ out' = TRUE /\ cmdline' = TRUE
        /\ heap' = heap - 1 + (IF cmdline THEN 0 ELSE 1)
        /\ UNCHANGED <<images, loaded>>
    BY <1>8 DEF Complete, Goto
  <2>2. heap = 1 + Owned
    BY <2>1 DEF HeapInv
  <2>3. Owned' = IF cmdline THEN Owned ELSE Owned + 1
    BY <2>1, OwnedGrows
  <2>4. heap' = Owned'
    BY <1>0, <2>1, <2>2, <2>3
  <2> QED
    BY <1>03, <2>1, <2>4 DEF HeapInv, HeapBalanced, Running, Early, Late
<1>9. CASE CompleteFails
  <2>1. /\ pc = "finish" /\ pc' = "done" /\ out' = out /\ heap' = heap - 1 - Owned
    BY <1>9 DEF CompleteFails, Goto
  <2>2. heap = 1 + Owned /\ out' = FALSE
    BY <2>1 DEF HeapInv, DataInv, TypeOK
  <2>3. heap' = 0
    BY <1>0, <2>1, <2>2
  <2> QED
    BY <2>1, <2>2, <2>3 DEF HeapInv, HeapBalanced, Running, Early, Late
<1>10. CASE Reject
  <2>1. /\ pc = "finish" /\ pc' = "done" /\ out' = out /\ ~Usable /\ allow' = allow /\ ret' = ret
        /\ heap' = (IF allow THEN heap - 1 ELSE heap - 1 - Owned) /\ UNCHANGED slot_data
    BY <1>10 DEF Reject, Goto, inputs
  <2>2. heap = 1 + Owned /\ out' = FALSE /\ Owned' = Owned
    BY <1>02, <2>1 DEF HeapInv, DataInv, TypeOK
  <2>3. CASE ~allow
    <3>1. heap' = 0
      BY <1>0, <2>1, <2>2, <2>3
    <3> QED
      BY <2>1, <2>2, <3>1 DEF HeapInv, HeapBalanced, Running, Early, Late
  <2>4. CASE allow
    <3>1. heap' = Owned'
      BY <1>0, <2>1, <2>2, <2>4
    <3>2. ret \in Fatal
      BY <2>1, <2>4 DEF Usable, result_should_continue, TypeOK, Results
    <3> QED
      BY <1>03, <2>1, <2>4, <3>1, <3>2 DEF HeapInv, HeapBalanced, Running, Early, Late
  <2> QED
    BY <2>3, <2>4
<1>11. CASE VerifyAgain
  <2>1. /\ pc' = "start" /\ heap' = 0 /\ images' = <<>> /\ loaded' = <<>> /\ ~cmdline'
    BY <1>11 DEF VerifyAgain
  <2> QED
    BY <2>1 DEF HeapInv, HeapBalanced, Running, Early, Late
<1>12. CASE UNCHANGED vars
  <2>1. UNCHANGED <<allow, pc, stack, images, loaded, cmdline, heap, ret, out>>
    BY <1>12 DEF vars, inputs, slot_data
  <2>2. /\ Owned' = Owned /\ Held(1)' = Held(1) /\ Held(2)' = Held(2) /\ Held(3)' = Held(3)
    BY <2>1 DEF Owned, Held
  <2> QED
    BY <1>0, <2>1, <2>2 DEF HeapInv, HeapBalanced
<1>13. CASE NamelessTopLevel
  <2>1. pc' = "crashed" /\ heap' = heap
    BY <1>13 DEF NamelessTopLevel, Goto
  <2> QED
    BY <1>0, <2>1 DEF HeapInv, HeapBalanced, Running, Early, Late
<1> QED
  BY <1>1, <1>2, <1>3, <1>4, <1>5, <1>6, <1>7, <1>8, <1>9, <1>10, <1>11, <1>12, <1>13, NextCases

(* Only results are reported and returned.                                 *)
LEMMA ResultStep ==
  ASSUME TypeOK, StackInv, LocalInv, ErrorInv, [Next]_vars
  PROVE  ret' \in Results /\ seen' \in SUBSET Results
<1> USE DEF Results, IoErrors, Fatal, Rejections
<1>0. ret \in Results /\ seen \in SUBSET Results
  BY DEF TypeOK
<1>1. \A r \in Results : Report(r) => seen' \in SUBSET Results
  BY <1>0 DEF Report
<1>2. /\ \A f : \A r \in Results : Bail(f, r) => seen' \in SUBSET Results
      /\ \A f, next : \A r \in Results : Proceed(f, r, next) => seen' \in SUBSET Results
  BY <1>1 DEF Bail, Proceed
<1>3. CASE \/ LocateFails \/ ReadFails \/ VerifyImageFails \/ CheckKeyFails
           \/ ReadRollbackIndexFails \/ TooManyImages \/ LoadRequestedFails
           \/ MalformedDescriptor \/ HashDescriptorFails \/ CmdlineDescriptorFails
           \/ LocationTooLarge
  <2>1. (\E f : \E r \in Results : Bail(f, r)) /\ UNCHANGED ret
    BY <1>3 DEF LocateFails, ReadFails, VerifyImageFails, CheckKeyFails, ReadRollbackIndexFails,
         TooManyImages, LoadRequestedFails, MalformedDescriptor, HashDescriptorFails,
         CmdlineDescriptorFails, LocationTooLarge
  <2> QED
    BY <1>0, <1>2, <2>1
<1>4. CASE CheckKey \/ CheckRollbackIndex \/ HashDescriptor
  <2>1. (\E f, next : \E r \in Results : Proceed(f, r, next)) /\ UNCHANGED ret
    BY <1>4 DEF CheckKey, CheckRollbackIndex, HashDescriptor
  <2> QED
    BY <1>0, <1>2, <2>1
<1>5. CASE VerifyImage
  <2>1. /\ UNCHANGED ret
        /\ \/ \E f : \E r \in Results : Bail(f, r)
           \/ \E f, next : \E r \in Results : Proceed(f, r, next)
    BY <1>5 DEF VerifyImage
  <2> QED
    BY <1>0, <1>2, <2>1
<1>6. CASE \/ ReadVBMeta \/ AdoptImage \/ LoadRequested \/ ReadDescriptors \/ IdleDescriptor
           \/ CmdlineDescriptor \/ FallBackToBoot \/ ChainDescriptor \/ ReturnFromBoot
           \/ ReturnFromChain \/ Start \/ Complete \/ Reject
  BY <1>0, <1>6 DEF ReadVBMeta, AdoptImage, LoadRequested, ReadDescriptors, IdleDescriptor,
     CmdlineDescriptor, FallBackToBoot, ChainDescriptor, ReturnFromBoot, ReturnFromChain, Start,
     Complete, Reject
<1>7. CASE QuietActions
  BY <1>0, <1>7, QuietStep
<1>8. CASE ReturnToSlotVerify
  <2>1. Top \in Frames /\ ret' = Top.ret /\ seen' = seen
    BY <1>8, ReturnToSlotVerifyStep
  <2>2. Top.ret \in Results
    BY <2>1 DEF Frames
  <2> QED
    BY <1>0, <2>1, <2>2
<1>9. CASE StartFails \/ NamelessTopLevel \/ CompleteFails
  BY <1>0, <1>1, <1>9 DEF StartFails, NamelessTopLevel, CompleteFails
<1>10. CASE VerifyAgain
  BY <1>10 DEF VerifyAgain
<1>11. CASE UNCHANGED vars
  BY <1>0, <1>11 DEF vars
<1> QED
  BY <1>3, <1>4, <1>5, <1>6, <1>7, <1>8, <1>9, <1>10, <1>11, NextCases DEF TopActions

(* The caller's arguments, and the flag of a lost allocation, stay flags.  *)
LEMMA FlagsStep ==
  ASSUME TypeOK, [Next]_vars
  PROVE  allow' \in BOOLEAN /\ logging' \in BOOLEAN /\ out' \in BOOLEAN /\ lost' \in BOOLEAN
<1> USE DEF inputs
<1>0. allow \in BOOLEAN /\ logging \in BOOLEAN /\ out \in BOOLEAN /\ lost \in BOOLEAN
  BY DEF TypeOK
<1>1. CASE TopActions
  BY <1>0, <1>1 DEF TopActions, LocateFails, ReadFails, ReadVBMeta, VerifyImage, VerifyImageFails,
     CheckKey, CheckKeyFails, CheckRollbackIndex, ReadRollbackIndexFails, AdoptImage,
     TooManyImages, LoadRequested, LoadRequestedFails, ReadDescriptors, MalformedDescriptor,
     IdleDescriptor, HashDescriptor, HashDescriptorFails, CmdlineDescriptor,
     CmdlineDescriptorFails, LocationTooLarge
<1>2. CASE \/ FallBackToBoot \/ ChainDescriptor \/ ReturnFromBoot \/ ReturnFromChain
           \/ QuietActions \/ ReturnToSlotVerify
  BY <1>0, <1>2 DEF FallBackToBoot, ChainDescriptor, ReturnFromBoot, ReturnFromChain,
     QuietActions, AllRequestedLoaded, DescriptorsLost, AllDescriptorsDone, StoreRollbackIndex,
     ReturnToSlotVerify
<1>3. CASE \/ Start \/ StartFails \/ NamelessTopLevel \/ Complete \/ CompleteFails \/ Reject
           \/ VerifyAgain
  BY <1>0, <1>3 DEF Start, StartFails, NamelessTopLevel, Complete, CompleteFails, Reject,
                    VerifyAgain
<1>4. CASE UNCHANGED vars
  BY <1>0, <1>4 DEF vars
<1> QED
  BY <1>1, <1>2, <1>3, <1>4, NextCases

(* Every step keeps the types, given that the heap is not freed twice.     *)
LEMMA TypeStep ==
  ASSUME TypeOK, StackInv, LocalInv, ErrorInv, [Next]_vars, heap' \in Nat
  PROVE  TypeOK'
<1>1. pc' \in Phases /\ stack' \in Seq(Frames)
  <2>0. pc \in Phases /\ stack \in Seq(Frames) /\ Running \subseteq Phases
    BY DEF TypeOK, Running, Early, Late, Phases
  <2>1. CASE TopActions
    BY <2>0, <2>1, TopActionsStep, TopActionsGoOn DEF TopStep
  <2>2. CASE FallBackToBoot \/ ChainDescriptor
    BY <2>2, FallBackPushes, ChainPushes DEF Pushes, Phases
  <2>3. CASE ReturnFromBoot \/ ReturnFromChain
    BY <2>3, ReturnFromBootPops, ReturnFromChainPops DEF Pops, Phases
  <2>4. CASE QuietActions
    BY <2>0, <2>4, QuietStep DEF Phases
  <2>5. CASE ReturnToSlotVerify
    BY <2>5, ReturnToSlotVerifyStep, EmptySeq DEF Phases
  <2>6. CASE Start
    <3>1. 0 \in 0 .. NumLocations
      BY SlotVerifyAssumption
    <3>2. Call("vbmeta", 0) \in Frames
      BY <3>1, CallIsFrame
    <3>3. <<Call("vbmeta", 0)>> \in Seq(Frames)
      BY <3>2
    <3> QED
      BY <2>6, <3>3 DEF Start, Goto, Phases
  <2>7. CASE StartFails \/ NamelessTopLevel \/ Complete \/ CompleteFails \/ Reject
    BY <2>0, <2>7 DEF StartFails, NamelessTopLevel, Complete, CompleteFails, Reject, Goto, Phases
  <2>8. CASE VerifyAgain
    BY <2>8, EmptySeq DEF VerifyAgain, Phases
  <2>9. CASE UNCHANGED vars
    BY <2>0, <2>9 DEF vars
  <2> QED
    BY <2>1, <2>2, <2>3, <2>4, <2>5, <2>6, <2>7, <2>8, <2>9, NextCases
<1> QED
  BY <1>1, SlotDataStep, ResultStep, FlagsStep DEF TypeOK

---------------------------------------------------------------------------
(* The invariant, and what it says of avb_slot_verify().                   *)

(* The invariant holds at the start, every step keeps it, so it always     *)
(* holds.                                                                  *)
LEMMA InitIInv == Init => IInv
<1> SUFFICES ASSUME Init PROVE IInv
  OBVIOUS
<1>1. /\ stack = <<>> /\ images = <<>> /\ loaded = <<>> /\ pc = "start" /\ heap = 0
      /\ cmdline = FALSE /\ ret = "OK" /\ out = FALSE /\ seen = {}
  BY DEF Init
<1>2. Len(stack) = 0 /\ Len(images) = 0 /\ Len(loaded) = 0
  BY <1>1, EmptySeq
<1>3. TypeOK
  <2>1. stack \in Seq(Frames) /\ images \in Seq(VBMetaData) /\ loaded \in Seq(PartitionData)
    BY <1>1, EmptySeq
  <2>2. 0 <= MaxImages /\ 0 <= MaxLoaded
    BY SlotVerifyAssumption
  <2>3. indexes \in [Locations -> Indexes]
    BY DEF Init, Indexes
  <2>4. Len(images) <= MaxImages /\ Len(loaded) <= MaxLoaded
    BY <1>2, <2>2
  <2>5. /\ allow \in BOOLEAN /\ logging \in BOOLEAN /\ lost \in BOOLEAN /\ cmdline \in BOOLEAN
        /\ out \in BOOLEAN
    BY <1>1 DEF Init
  <2>6. pc \in Phases /\ ret \in Results /\ seen \in SUBSET Results
    BY <1>1 DEF Phases, Results
  <2>7. heap \in Nat
    BY <1>1
  <2> QED
    BY <2>1, <2>3, <2>4, <2>5, <2>6, <2>7 DEF TypeOK
<1>4. StackInv
  BY <1>1, <1>2 DEF StackInv, Running, Early, Late
<1>5. LocalInv /\ ErrorInv /\ DataInv
  BY <1>1 DEF LocalInv, ErrorInv, DataInv, Running, Early, Late
<1>6. OrderInv /\ CheckInv
  BY <1>1, <1>2 DEF OrderInv, CheckInv, Running, Early, Late
<1>7. HeapInv /\ HeapBalanced
  BY <1>1 DEF HeapInv, HeapBalanced, Running, Early, Late
<1> QED
  BY <1>3, <1>4, <1>5, <1>6, <1>7 DEF IInv

LEMMA NextIInv == IInv /\ [Next]_vars => IInv'
<1> SUFFICES ASSUME IInv, [Next]_vars PROVE IInv'
  OBVIOUS
<1>0. /\ TypeOK /\ StackInv /\ LocalInv /\ ErrorInv /\ DataInv /\ OrderInv /\ CheckInv
      /\ HeapInv /\ HeapBalanced
  BY DEF IInv
<1>1. StackInv' /\ LocalInv' /\ ErrorInv' /\ DataInv' /\ OrderInv' /\ CheckInv'
  BY <1>0, StackInvStep, LocalInvStep, ErrorInvStep, DataInvStep, OrderInvStep, CheckInvStep
<1>2. HeapInv' /\ HeapBalanced' /\ heap' \in Nat
  BY <1>0, HeapInvStep
<1>3. TypeOK'
  BY <1>0, <1>2, TypeStep
<1> QED
  BY <1>1, <1>2, <1>3 DEF IInv

LEMMA SpecIInv == Spec => []IInv
  BY InitIInv, NextIInv, PTL DEF Spec

(* Every state of avb_slot_verify() and of the calls of                    *)
(* load_and_verify_vbmeta() it has made is of the declared types: the      *)
(* arrays of slot_data never hold more than the code allocated.            *)
THEOREM TypeCorrect == Spec => []TypeOK
<1>1. IInv => TypeOK
  BY DEF IInv
<1> QED
  BY <1>1, SpecIInv, PTL

(* avb_slot_verify() returns OK if and only if none of its checks, reads   *)
(* and allocations reported an error: an error that load_and_verify_vbmeta *)
(* goes on after, at any depth, is never lost on the way back (ErrorInv).  *)
THEOREM OkMeansNoErrors == Spec => []OkIffNoErrors
<1>1. IInv => OkIffNoErrors
  BY DEF IInv, ErrorInv, OkIffNoErrors
<1> QED
  BY <1>1, SpecIInv, PTL

(* *out_data is set exactly with OK and, if errors are allowed, with a     *)
(* rejection.                                                              *)
THEOREM DataIsForAccepted == Spec => []DataOnlyWhenAllowed
<1>1. IInv => DataOnlyWhenAllowed
  BY DEF IInv, DataInv, Accepted, DataOnlyWhenAllowed
<1> QED
  BY <1>1, SpecIInv, PTL

(* What a locked device gets is verified: without an error every check     *)
(* passed (CheckInv), and a locked device gets data only with OK, which is *)
(* to say without an error (ErrorInv).                                     *)
THEOREM LockedDataIsVerified == Spec => []LockedDataVerified
<1>1. IInv => LockedDataVerified
  <2> SUFFICES ASSUME IInv, out, ~allow
               PROVE  /\ \A i \in 1 .. Len(images) :
                           images[i].verified /\ images[i].index >= StoredIndex
                      /\ images[1].disabled \/ \A i \in 1 .. Len(loaded) : loaded[i].matched
    BY DEF LockedDataVerified
  <2>1. pc = "done" /\ ret = "OK"
    BY DEF IInv, DataInv, Accepted
  <2>2. seen = {}
    BY <2>1 DEF IInv, ErrorInv
  <2> QED
    BY <2>2 DEF IInv, CheckInv
<1> QED
  BY <1>1, SpecIInv, PTL

(* vbmeta_images[0] is the top-level struct, as the code asserts when it   *)
(* adopts a struct and when it is about to return.                         *)
THEOREM TopLevelIsFirst == Spec => []TopLevelStructFirst
<1>1. IInv => TopLevelStructFirst
  <2> SUFFICES ASSUME IInv PROVE TopLevelStructFirst
    OBVIOUS
  <2>1. pc = "adopt" => (IsMain(Top) <=> images = <<>>)
    BY DEF IInv, OrderInv, Early
  <2>2. ASSUME pc = "finish", result_should_continue(ret), ret = "OK" \/ allow
        PROVE  images # <<>> /\ images[1].location = 0
               /\ images[1].part \in {"vbmeta", "boot", "none"}
               /\ (images[1].disabled => ~cmdline)
    <3>1. Accepted(ret)
      BY <2>2 DEF result_should_continue, Accepted
    <3> QED
      BY <2>2, <3>1 DEF IInv, OrderInv
  <2> QED
    BY <2>1, <2>2 DEF TopLevelStructFirst
<1> QED
  BY <1>1, SpecIInv, PTL

(* When avb_slot_verify() returns, what is allocated is what it returned,  *)
(* or, with errors allowed and a fatal result, the slot_data that it       *)
(* neither frees nor returns.  While it runs, slot_data and what each of   *)
(* the active calls will free account for everything (HeapInv).            *)
THEOREM HeapIsBalanced == Spec => []HeapBalanced
<1>1. IInv => HeapBalanced
  BY DEF IInv
<1> QED
  BY <1>1, SpecIInv, PTL
=============================================================================
