--------------------------- MODULE ConsoleSession ---------------------------
(***************************************************************************)
(* The console driver around its command lines: the entry point registers  *)
(* four hot keys and makes the hold-off timer, and the notification        *)
(* function runs the whole session inside the key's notification.  Key     *)
(* presses come between any two calls of the entry point, which waits for  *)
(* a notification that has started.  UefiConsole.inf names no unload       *)
(* function, so the driver stays once its entry point returned success.    *)
(***************************************************************************)
EXTENDS HoldOffTimer, Naturals, Sequences, SequencesExt, FiniteSets

CONSTANT MaxCalls       \* notifications that run inside each other

VARIABLES
    calls,              \* notifications running, the innermost last
    wild,               \* code of a removed image was called
    image,              \* absent, starting or loaded
    registered,         \* NotifyHandle0..3 that are registered
    mTimerEvent,
    exitCommand,        \* exit is in the list of commands
    mExitRequested

vars == << calls, wild, image, registered, mTimerEvent, exitCommand, mExitRequested >>

Keys == 0..3

Init ==
    /\ calls = << >> /\ wild = FALSE
    /\ image = "absent"
    /\ registered = {}
    /\ mTimerEvent = "NULL"
    /\ exitCommand = FALSE /\ mExitRequested = FALSE

Waiting == calls = << >>        \* no notification runs

\* The constructor of the commands can fail, wholly or for one command, and
\* that is ignored.  Without memory for NewShellParametersProtocol the entry
\* point returns at once.
UefiConsoleEntry ==
    /\ Waiting /\ image = "absent" /\ registered = {}
    /\ image' = "starting"
    /\ exitCommand' \in BOOLEAN
    /\ mExitRequested' = FALSE
    /\ UNCHANGED << calls, wild, registered, mTimerEvent >>

\* UefiConsoleStartMonitor(), one call at a time; the key is the lowest that is
\* not registered.
RegisterKeyNotify ==
    /\ Waiting /\ image = "starting"
    /\ registered # Keys
    /\ registered' = registered \union {Cardinality(registered)}
    /\ UNCHANGED << calls, wild, image, mTimerEvent, exitCommand, mExitRequested >>

CreateEvent ==
    /\ Waiting /\ image = "starting"
    /\ registered = Keys /\ mTimerEvent = "NULL"
    /\ mTimerEvent' = "clear"
    /\ UNCHANGED << calls, wild, image, registered, exitCommand, mExitRequested >>

SignalEvent ==
    /\ Waiting /\ image = "starting"
    /\ mTimerEvent = "clear"
    /\ mTimerEvent' = "signalled"
    /\ image' = "loaded"
    /\ UNCHANGED << calls, wild, registered, exitCommand, mExitRequested >>

\* OpenProtocol(), RegisterKeyNotify() or CreateEvent() fails: the entry point
\* returns the error, and the loader removes the image.  What it registered
\* stays registered.
StartFails ==
    /\ Waiting /\ image = "starting"
    /\ mTimerEvent = "NULL"
    /\ image' = "absent"
    /\ UNCHANGED << calls, wild, registered, mTimerEvent, exitCommand, mExitRequested >>

-----------------------------------------------------------------------------
(* The session.                                                             *)

\* A key driver may call notifications from ReadKeyStroke(), which the session
\* calls.
CanNotify ==
    /\ Len(calls) < MaxCalls
    /\ calls # << >> => Last(calls) = "console"

NotificationFunction_ArmedFirst ==
    /\ CanNotify
    /\ registered # {} /\ image # "absent"
    /\ CheckEvent(mTimerEvent) # "NOT_READY"
    /\ mTimerEvent' = SetTimer(mTimerEvent)
    /\ mExitRequested' = FALSE
    /\ calls' = Append(calls, "console")
    /\ UNCHANGED << wild, image, registered, exitCommand >>

\* A press that is not ready is ignored.
NotificationFunction ==
    /\ CanNotify
    /\ registered # {} /\ image # "absent"
    /\ CheckEvent(mTimerEvent) # "NOT_READY"
    /\ mTimerEvent' = Checked(mTimerEvent)
    /\ mExitRequested' = FALSE
    /\ calls' = Append(calls, "console")
    /\ UNCHANGED << wild, image, registered, exitCommand >>

NotificationOfRemovedImage ==
    /\ CanNotify
    /\ registered # {} /\ image = "absent"
    /\ wild' = TRUE
    /\ UNCHANGED << calls, image, registered, mTimerEvent, exitCommand, mExitRequested >>

InSession == calls # << >> /\ Last(calls) = "console"

\* DoConsolePrompt() and the test of the loop; exits says that the line was an
\* exit command that its handler accepted.
DoConsolePrompt(exits) ==
    /\ InSession
    /\ exits => exitCommand
    /\ mExitRequested' = (mExitRequested # exits)
    /\ IF mExitRequested'
       THEN calls' = Front(calls) /\ mTimerEvent' = SetTimer(mTimerEvent)
       ELSE UNCHANGED << calls, mTimerEvent >>
    /\ UNCHANGED << wild, image, registered, exitCommand >>

TimerFires ==
    /\ mTimerEvent = "armed"
    /\ mTimerEvent' = "signalled"
    /\ UNCHANGED << calls, wild, image, registered, exitCommand, mExitRequested >>

Start == UefiConsoleEntry \/ RegisterKeyNotify \/ CreateEvent \/ SignalEvent \/ StartFails

Next ==
    \/ Start
    \/ NotificationFunction
    \/ NotificationOfRemovedImage
    \/ \E exits \in BOOLEAN : DoConsolePrompt(exits)
    \/ TimerFires

=============================================================================
