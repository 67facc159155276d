------------------------- MODULE PrintScreenLogger -------------------------
(***************************************************************************)
(* The print screen driver: two hot keys, a hold-off timer, and a callback *)
(* that finds a volume for its captures, a free file name on it, and       *)
(* writes the screen there.  The entry point always returns success.       *)
(***************************************************************************)
EXTENDS HoldOffTimer, Naturals, Sequences, SequencesExt

CONSTANTS MaxCalls,                 \* notifications that run inside each other
          MAX_PRINT_SCREEN_FILES

VARIABLES
    calls,              \* notifications running, the innermost last
    wild,               \* freed memory or an uninitialised pointer was used
    image,              \* absent, starting, loaded, or stopping
    operational,        \* the start succeeded
    NotifyHandle,       \* of the two keys: NULL, registered, or stale
    gTimerEvent,
    files,              \* PrtScreen0001.bmp and so on, on the enabled stick
    Index               \* of the file that is being written, 0 for none

vars == << calls, wild, image, operational, NotifyHandle, gTimerEvent, files, Index >>

Keys == {0, 1}
Names == 1..MAX_PRINT_SCREEN_FILES

\* What the search tells apart: no device path, a device that is not on USB or
\* has no block I/O, a stick that cannot be opened or has no
\* PrintScreenEnable.txt, and one that has.
VolumeKinds == {"no device path", "other device", "other stick", "enabled stick"}
HandleBuffers == UNION {[1..n -> VolumeKinds] : n \in 0..2}

Init ==
    /\ calls = << >> /\ wild = FALSE
    /\ image = "absent" /\ operational = FALSE
    /\ NotifyHandle = [k \in Keys |-> "NULL"]
    /\ gTimerEvent = "NULL"
    /\ files = [n \in Names |-> "absent"]
    /\ Index = 0

Waiting == calls = << >>

-----------------------------------------------------------------------------
(* Start and unload.                                                        *)

\* Without a console input handle nothing else happens.
PrintScreenLoggerEntry ==
    /\ Waiting /\ image = "absent"
    /\ image' \in {"starting", "loaded"}
    /\ NotifyHandle' = [k \in Keys |-> "NULL"]
    /\ gTimerEvent' = "NULL"
    /\ operational' = FALSE
    /\ UNCHANGED << calls, wild, files, Index >>

RegisterKeyNotify ==
    /\ Waiting /\ image = "starting"
    /\ \E k \in Keys :
         /\ NotifyHandle[k] = "NULL" /\ \A l \in Keys : NotifyHandle[l] = "NULL" => k <= l
         /\ NotifyHandle' = [NotifyHandle EXCEPT ![k] = "registered"]
    /\ UNCHANGED << calls, wild, image, operational, gTimerEvent, files, Index >>

AllRegistered == \A k \in Keys : NotifyHandle[k] = "registered"

CreateEvent ==
    /\ Waiting /\ image = "starting"
    /\ AllRegistered /\ gTimerEvent = "NULL"
    /\ gTimerEvent' = "clear"
    /\ UNCHANGED << calls, wild, image, operational, NotifyHandle, files, Index >>

SignalEvent ==
    /\ Waiting /\ image = "starting"
    /\ gTimerEvent = "clear"
    /\ gTimerEvent' = "signalled"
    /\ image' = "loaded" /\ operational' = TRUE
    /\ UNCHANGED << calls, wild, NotifyHandle, files, Index >>

\* Unregisters every handle that is not NULL, and closes a timer that is not
\* NULL; neither variable is reset.
UnRegisterNotifications ==
    /\ NotifyHandle' = [k \in Keys |-> IF NotifyHandle[k] = "NULL" THEN "NULL" ELSE "stale"]
    /\ gTimerEvent' = CloseEvent(gTimerEvent)

\* A registration or the event fails.
StartFails ==
    /\ Waiting /\ image = "starting"
    /\ gTimerEvent = "NULL"
    /\ UnRegisterNotifications
    /\ image' = "loaded"
    /\ UNCHANGED << calls, wild, operational, files, Index >>

\* A handle that was unregistered at the failed start is used again.
PrintScreenLoggerUnload ==
    /\ Waiting /\ image = "loaded"
    /\ UnRegisterNotifications
    /\ wild' = (\E k \in Keys : NotifyHandle[k] = "stale")
    /\ image' = "absent" /\ operational' = FALSE
    /\ UNCHANGED << calls, files, Index >>

-----------------------------------------------------------------------------
(* A capture.                                                               *)

\* [Status, VolumeHandle]: Status is the one of the last call, VolumeHandle 0 if
\* it was not set.  A handle without a device path leaves Status as it is.
FindUsbDriveForPrintScreen(handles) ==
    LET look(found, i) ==
            IF found.VolumeHandle # 0 \/ handles[i] = "no device path" THEN found
            ELSE IF handles[i] = "enabled stick" THEN [Status |-> "SUCCESS", VolumeHandle |-> i]
            ELSE [found EXCEPT !.Status = "error"]
        start == [Status |-> IF handles = << >> THEN "error" ELSE "SUCCESS", VolumeHandle |-> 0]
    IN  FoldLeft(look, start, [i \in DOMAIN handles |-> i])

FreeName_AnyError(errors) ==
    LET free == {n \in Names : files[n] = "absent" \/ n \in errors}
    IN  IF free = {} THEN 0 ELSE CHOOSE n \in free : \A k \in free : n <= k

\* The first name whose file cannot be opened because there is none.  Other
\* errors count as an existing file.
FreeName(errors) ==
    LET free == {n \in Names : files[n] = "absent" /\ n \notin errors}
    IN  IF free = {} THEN 0 ELSE CHOOSE n \in free : \A k \in free : n <= k

CanNotify ==
    /\ Len(calls) < MaxCalls
    /\ calls # << >> => Last(calls) = "console"
    /\ \E k \in Keys : NotifyHandle[k] = "registered"
    /\ CheckEvent(gTimerEvent) # "NOT_READY"

HoldOff_NotArmed(stack, event) ==
    /\ calls' = stack
    /\ gTimerEvent' = event

\* The end of the callback, which every path but the ignored press reaches.
HoldOff(stack, event) ==
    /\ calls' = stack
    /\ gTimerEvent' = SetTimer(event)

\* Finds the volume and the name and creates the file.  created is FALSE when
\* the creation fails; a name is missing when all are taken.
PrintScreenCallback(handles, errors, created) ==
    LET drive == FindUsbDriveForPrintScreen(handles)
        name == FreeName(errors)
        found == drive.Status = "SUCCESS" /\ drive.VolumeHandle # 0
    IN  /\ CanNotify
        /\ ~(drive.Status = "SUCCESS" /\ drive.VolumeHandle = 0)
        /\ created => found /\ name # 0
        /\ IF created
           THEN /\ files' = [files EXCEPT ![name] = "empty"]
                /\ Index' = name
                /\ calls' = Append(calls, "capture")
                /\ gTimerEvent' = Checked(gTimerEvent)
           ELSE HoldOff(calls, Checked(gTimerEvent)) /\ UNCHANGED << files, Index >>
        /\ UNCHANGED << wild, image, operational, NotifyHandle >>

\* Every handle lacks a device path: success without a volume.
VolumeNeverSet(handles) ==
    /\ CanNotify
    /\ FindUsbDriveForPrintScreen(handles) = [Status |-> "SUCCESS", VolumeHandle |-> 0]
    /\ wild' = TRUE
    /\ UNCHANGED << calls, image, operational, NotifyHandle, gTimerEvent, files, Index >>

\* WriteBmpToFile() fails before, within or not at all; the file is closed and
\* stays in each case.
WriteBmpToFile(content) ==
    /\ calls # << >> /\ Last(calls) = "capture"
    /\ files' = [files EXCEPT ![Index] = content]
    /\ Index' = 0
    /\ HoldOff(Front(calls), gTimerEvent)
    /\ UNCHANGED << wild, image, operational, NotifyHandle >>

TimerFires ==
    /\ gTimerEvent = "armed"
    /\ gTimerEvent' = "signalled"
    /\ UNCHANGED << calls, wild, image, operational, NotifyHandle, files, Index >>

\* The user deletes a capture from the stick.
DeleteFile(n) ==
    /\ Index = 0
    /\ files' = [files EXCEPT ![n] = "absent"]
    /\ UNCHANGED << calls, wild, image, operational, NotifyHandle, gTimerEvent, Index >>

Start == PrintScreenLoggerEntry \/ RegisterKeyNotify \/ CreateEvent \/ SignalEvent \/ StartFails

Next ==
    \/ Start
    \/ PrintScreenLoggerUnload
    \/ \E handles \in HandleBuffers, errors \in SUBSET Names, created \in BOOLEAN :
         PrintScreenCallback(handles, errors, created)
    \/ \E handles \in HandleBuffers : VolumeNeverSet(handles)
    \/ \E content \in {"empty", "cut", "screen"} : WriteBmpToFile(content)
    \/ TimerFires
    \/ \E n \in Names : DeleteFile(n)

=============================================================================
