----------------------------- MODULE EditedLine -----------------------------
(***************************************************************************)
(* A line of text that is edited in overwrite mode, and the lines entered  *)
(* before, of which the most recent ones can be recalled.                  *)
(***************************************************************************)
EXTENDS Naturals, Sequences, SequencesExt

CONSTANTS Chars, MaxText, MaxHistory

VARIABLES text, cursor, history

vars == <<text, cursor, history>>

Init == text = << >> /\ cursor = 0 /\ history = << >>

Edit(t, c) == text' = t /\ cursor' = c /\ UNCHANGED history

\* A character replaces the one under the cursor, or extends the line.
Type(c) ==
  /\ cursor < MaxText
  /\ Edit(IF cursor < Len(text) THEN ReplaceAt(text, cursor + 1, c)
                                ELSE Append(text, c),
          cursor + 1)

Backspace == cursor > 0 /\ Edit(RemoveAt(text, cursor), cursor - 1)
Delete == cursor < Len(text) /\ Edit(RemoveAt(text, cursor + 1), cursor)
Move(c) == c \in 0 .. Len(text) /\ Edit(text, c)
Clear == Edit(<< >>, 0)
Recall(i) == i \in DOMAIN history /\ Edit(history[i], Len(history[i]))

\* The line is done; it may be remembered, and then pushes out the oldest.
Enter ==
  /\ text' = << >> /\ cursor' = 0
  /\ \/ UNCHANGED history
     \/ /\ text # << >>
        /\ history' = Append(IF Len(history) < MaxHistory
                             THEN history ELSE Tail(history), text)

Next ==
  \/ Backspace \/ Delete \/ Clear \/ Enter
  \/ \E c \in Chars : Type(c)
  \/ \E c \in 0 .. MaxText : Move(c)
  \/ \E i \in 1 .. MaxHistory : Recall(i)

Spec == Init /\ [][Next]_vars
=============================================================================
