------------------------------ MODULE HotKeys ------------------------------
(***************************************************************************)
(* The console and the print screen logger on one console input.  Their    *)
(* notifications preempt what either image does outside of one, and each   *)
(* other while the console's session reads keys.  The driver of the        *)
(* keyboard, the timer and the image loader are the environment.           *)
(***************************************************************************)
EXTENDS Naturals, Sequences

CONSTANTS MaxCalls, MAX_PRINT_SCREEN_FILES

ASSUME BoundsAssumption == MaxCalls \in Nat \ {0} /\ MAX_PRINT_SCREEN_FILES \in Nat \ {0}

VARIABLES
    calls, wild,
    consoleImage, consoleKeys, mTimerEvent, exitCommand, consoleExit,
    loggerImage, operational, NotifyHandle, gTimerEvent, files, Index

consoleVars == << consoleImage, consoleKeys, mTimerEvent, exitCommand, consoleExit >>
loggerVars == << loggerImage, operational, NotifyHandle, gTimerEvent, files, Index >>
keysVars == << calls, wild, consoleVars, loggerVars >>

Console == INSTANCE ConsoleSession WITH
    image <- consoleImage, registered <- consoleKeys, mExitRequested <- consoleExit
Logger == INSTANCE PrintScreenLogger WITH image <- loggerImage

KeysInit == Console!Init /\ Logger!Init

\* Nothing can be said of a machine that ran the code of a removed image or
\* followed a pointer to nothing.
KeysNext ==
    /\ ~wild
    /\ \/ Console!Next /\ UNCHANGED loggerVars
       \/ Logger!Next /\ UNCHANGED consoleVars

\* The timers run, entry points return, and a capture ends.  Nothing makes the
\* user leave the console, press a key or unload the logger.
Fairness ==
    /\ WF_keysVars(~wild /\ Console!TimerFires /\ UNCHANGED loggerVars)
    /\ WF_keysVars(~wild /\ Logger!TimerFires /\ UNCHANGED consoleVars)
    /\ SF_keysVars(~wild /\ (Console!RegisterKeyNotify \/ Console!CreateEvent \/ Console!SignalEvent) /\ UNCHANGED loggerVars)
    /\ SF_keysVars(~wild /\ (Logger!RegisterKeyNotify \/ Logger!CreateEvent \/ Logger!SignalEvent) /\ UNCHANGED consoleVars)
    /\ WF_keysVars(~wild /\ (\E content \in {"empty", "cut", "screen"} : Logger!WriteBmpToFile(content)) /\ UNCHANGED consoleVars)

KeysSpec == KeysInit /\ [][KeysNext]_keysVars
FairSpec == KeysSpec /\ Fairness

-----------------------------------------------------------------------------
(* Properties.                                                              *)

Sessions == {i \in DOMAIN calls : calls[i] = "console"}

\* The hot key, pressed again while the console runs inside the notification of
\* the first press, does not start a second console in it, whatever was pressed
\* before and however the holds-off overlap.  The check that finds the timer
\* clear is all that prevents it: before CreateEvent(), while there is no timer,
\* it does not.
OneConsole ==
    Console!IsEvent(mTimerEvent) => \A i, j \in Sessions : i = j

\* A press that the hold-off ignores is not the end: as long as sessions end,
\* each hot key works again and again until its image is unloaded or could not
\* be started, on every path through a session and a capture.
ConsoleReady == Console!CheckEvent(mTimerEvent) # "NOT_READY"
LoggerReady == Logger!CheckEvent(gTimerEvent) # "NOT_READY"
KeysComeBack ==
    []<>(calls = << >>) =>
        /\ []<>(ConsoleReady \/ consoleImage = "absent" \/ wild)
        /\ []<>(LoggerReady \/ loggerImage = "absent" \/ wild)

\* A capture goes to a name of its own: a file that is on the stick is changed
\* by nothing but the capture that created it, or deleted by the user, whatever
\* errors the search for a free name and the earlier captures met.
CapturesKept ==
    [][\A n \in DOMAIN files :
         files[n] # "absent" => files'[n] \in {files[n], "absent"} \/ Index = n]_keysVars

=============================================================================
