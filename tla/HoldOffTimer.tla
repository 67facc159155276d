---------------------------- MODULE HoldOffTimer ----------------------------
(***************************************************************************)
(* The hold-off timer that the console and the print screen logger use the *)
(* same way: a timer event without a notification function, signalled once *)
(* at the start, cleared by the check that finds it signalled, and armed   *)
(* when the work of a key press is done.                                   *)
(***************************************************************************)

\* An event pointer, and the event behind it when there is one.
Pointers == {"NULL", "clear", "armed", "signalled", "closed"}

\* CheckEvent() clears a signalled event.  A pointer to no event is an invalid
\* parameter, which the callers do not tell from success.
CheckEvent(event) ==
    CASE event = "signalled" -> "SUCCESS"
      [] event \in {"clear", "armed"} -> "NOT_READY"
      [] event \in {"NULL", "closed"} -> "INVALID_PARAMETER"

Checked(event) == IF event = "signalled" THEN "clear" ELSE event

\* SetTimer(TimerRelative) on no event does nothing.
SetTimer(event) == IF event \in {"NULL", "closed"} THEN event ELSE "armed"

\* CloseEvent() leaves the pointer as it is.
CloseEvent(event) == IF event = "NULL" THEN event ELSE "closed"

IsEvent(event) == event \notin {"NULL", "closed"}

=============================================================================
