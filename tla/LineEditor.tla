----------------------------- MODULE LineEditor -----------------------------
(***************************************************************************)
(* UefiConsoleInRead() of the UEFI console: reads a line, key by key, into *)
(* a zeroed buffer, in overwrite mode, and keeps the screen and its own    *)
(* idea of the cursor's row and column in step with it.  The lines of      *)
(* earlier calls can be recalled with the arrow keys.                      *)
(*                                                                         *)
(* One action is one key: the switch, the recall, the output and the       *)
(* cursor.  A key that the code drops (a control character, a character    *)
(* behind the last place, an arrow with nowhere to go) changes nothing and *)
(* is no action; the update that the first key of a line causes whatever   *)
(* it is prints an empty string.                                           *)
(*                                                                         *)
(* The screen belongs to the firmware.  It is modelled by the cells from   *)
(* the one after the prompt on, and by the row that the prompt has; a      *)
(* character in the last cell of the last row scrolls it up.               *)
(***************************************************************************)
EXTENDS Integers, Sequences, SequencesExt, FiniteSetsExt

CONSTANTS
  Chars,        \* the printable characters
  NUL,          \* CHAR_NULL
  Blank, Junk,  \* what a cell shows besides characters
  TotalColumn, TotalRow,  \* of the screen
  StartColumn,  \* the column after the prompt
  BufferChars,  \* the characters that the caller's buffer has room for
  MaxHistory    \* MaxHistoryCmdCount

ASSUME LineEditorAssumption ==
  /\ TotalColumn \in Nat \ {0} /\ TotalRow \in Nat \ {0, 1}
  /\ StartColumn \in 0 .. TotalColumn - 1
  /\ BufferChars \in Nat \ {0, 1} /\ MaxHistory \in Nat \ {0}
  /\ NUL \notin Chars /\ Blank \notin Chars /\ Junk \notin Chars

VARIABLES
  reading,       \* whether a call is in progress
  CurrentString, \* its buffer
  StringLen, StringCurPos,
  Column, Row,   \* where it believes the cursor to be
  LinePos,       \* the recalled line, 0 for the head of the list
  CommandHistory,\* the lines of earlier calls, the oldest first
  top,           \* the true row of the prompt, below 0 when scrolled out
  shown,         \* what its cells show after the prompt
  misplaced      \* history: whether DELETE scrolled the screen; what it
                 \* shows is not followed further then

line == <<CurrentString, StringLen, StringCurPos>>
screen == <<top, shown, misplaced>>
vars == <<reading, line, Column, Row, LinePos, CommandHistory, screen>>

\* The smaller of what the screen and the buffer hold.
MaxStr ==
  Min({TotalColumn * (TotalRow - 1) - StartColumn, BufferChars})
Places == 0 .. MaxStr - 1
StrLen(s) == Min({i \in Places : s[i] = NUL} \cup {MaxStr})
Text == [i \in 1 .. StrLen(CurrentString) |-> CurrentString[i - 1]]

Empty == [i \in Places |-> NUL]

Init ==
  /\ reading = FALSE /\ CurrentString = Empty
  /\ StringLen = 0 /\ StringCurPos = 0 /\ Column = StartColumn /\ Row = 0
  /\ LinePos = 0 /\ CommandHistory = << >>
  /\ top = 0 /\ shown = [i \in Places |-> Blank] /\ misplaced = FALSE

\* The prompt is in any row; the rows below it are clear.
Begin(row) ==
  /\ ~reading /\ reading' = TRUE
  /\ Row' = row /\ top' = row
  /\ UNCHANGED <<line, Column, LinePos, CommandHistory, shown, misplaced>>

\* The end of the call: its locals are gone, and so is the prompt.
Return ==
  /\ reading' = FALSE /\ CurrentString' = Empty
  /\ StringLen' = 0 /\ StringCurPos' = 0 /\ Column' = StartColumn /\ Row' = 0
  /\ LinePos' = 0
  /\ top' = 0 /\ shown' = [i \in Places |-> Blank] /\ misplaced' = FALSE

----------------------------------------------------------------------------
(* Rows and columns. *)

\* The rows that an offset from the start of a line lies below it.
RowsTo(offset) == (offset + StartColumn) \div TotalColumn
\* Mutant of HomeRow: the prompt's width is left out.
HomeRow_NoPrompt == Row - StringCurPos \div TotalColumn

HomeRow == Row - RowsTo(StringCurPos)

MoveCursorBackward ==
  IF Column = 0
  THEN /\ Column' = TotalColumn - 1
       /\ Row' = IF Row > 0 THEN Row - 1 ELSE Row
  ELSE Column' = Column - 1 /\ UNCHANGED Row

MoveCursorForward ==
  IF Column + 1 >= TotalColumn
  THEN /\ Column' = 0
       /\ Row' = IF Row < TotalRow - 1 THEN Row + 1 ELSE Row
  ELSE Column' = Column + 1 /\ UNCHANGED Row

\* The cursor after output characters from a column and row on, when tail
\* more follow; the screen has rolled up when they reach its end.
CursorAfter(col, row, output, tail) ==
  LET end == tail + col + output
      TailRow == row + end \div TotalColumn
      rolled == end % TotalColumn = 0 /\ TailRow >= TotalRow /\ row # TailRow
      from == IF rolled THEN row - 1 ELSE row
      SkipLength == output - (TotalColumn - col)
  IN IF col + output >= TotalColumn
     THEN /\ Column' = SkipLength % TotalColumn
          /\ Row' = Min({from + SkipLength \div TotalColumn + 1, TotalRow - 1})
     ELSE Column' = col + output /\ Row' = from

----------------------------------------------------------------------------
(* Output. *)

\* The string from update on and then delete cells, at a column and row.
\* The format names a string for those cells that the call does not pass.
Output(s, update, delete, col, row) ==
  LET at == (row - top) * TotalColumn + col - StartColumn
      n == StrLen(s) - update
      end == row * TotalColumn + col + n + delete
      up == Max({0, end \div TotalColumn - (TotalRow - 1)})
  IN IF misplaced THEN UNCHANGED <<top, shown>>
     ELSE /\ \E tail \in {Blank, Junk} :
               shown' = [i \in Places |->
                          CASE i \in at .. at + n - 1 -> s[update + i - at]
                            [] i \in at + n .. at + n + delete - 1 -> tail
                            [] OTHER -> shown[i]]
          /\ top' = top - up

\* Mutant of Redraw: the places behind the string are not cleared.
Redraw_NoClear(s, pos, update, delete, col, row) ==
  /\ Output(s, update, delete, col, row)
  /\ StringLen' = StrLen(s)
  /\ CurrentString' = s
  /\ StringCurPos' = Min({pos, StrLen(s)})
  /\ UNCHANGED <<reading, CommandHistory>>

\* The end of a key that changed the string: s is the new string, pos the
\* cursor's place in it, and the output starts at place update.
Redraw(s, pos, update, delete, col, row) ==
  /\ Output(s, update, delete, col, row)
  /\ StringLen' = StrLen(s)
  /\ CurrentString' =
       [i \in Places |->
          IF i \in StrLen(s) .. StrLen(s) + delete - 1 THEN NUL ELSE s[i]]
  /\ StringCurPos' = Min({pos, StrLen(s)})
  /\ UNCHANGED <<reading, CommandHistory>>

----------------------------------------------------------------------------
(* The keys. *)

\* The string without the character at a place.
Without(pos) ==
  [i \in Places |-> IF i \in pos .. StringLen - 1 THEN CurrentString[i + 1]
                    ELSE CurrentString[i]]

Character(c) ==
  /\ reading
  /\ ~(StringLen = MaxStr - 1 /\ StringCurPos = StringLen)
  /\ LET s == [CurrentString EXCEPT ![StringCurPos] = c]
     IN /\ Redraw(s, StringCurPos + 1, StringCurPos, 0, Column, Row)
        /\ CursorAfter(Column, Row, 1, StrLen(s) - (StringCurPos + 1))
  /\ UNCHANGED <<LinePos, misplaced>>

\* Mutant of BackspaceKey: prints from where the cursor was.
BackspaceKey_OldColumn ==
  /\ reading /\ StringCurPos # 0
  /\ MoveCursorBackward
  /\ Redraw(Without(StringCurPos - 1), StringCurPos - 1, StringCurPos - 1, 1,
            Column, Row)
  /\ UNCHANGED <<LinePos, misplaced>>

\* Moves back first and prints from there.
BackspaceKey ==
  /\ reading /\ StringCurPos # 0
  /\ MoveCursorBackward
  /\ Redraw(Without(StringCurPos - 1), StringCurPos - 1, StringCurPos - 1, 1,
            Column', Row')
  /\ UNCHANGED <<LinePos, misplaced>>

\* The cell of a character is printed even behind the last one.
DeleteKey ==
  /\ reading /\ StringLen # 0
  /\ Redraw(Without(StringCurPos), StringCurPos, StringCurPos, 1, Column, Row)
  /\ misplaced' = (misplaced \/ top' # top)
  /\ UNCHANGED <<Column, Row, LinePos>>

LeftKey ==
  /\ reading /\ StringCurPos # 0
  /\ StringCurPos' = StringCurPos - 1
  /\ MoveCursorBackward
  /\ UNCHANGED <<reading, CurrentString, StringLen, LinePos, CommandHistory,
                 screen>>

RightKey ==
  /\ reading /\ StringCurPos < StringLen
  /\ StringCurPos' = StringCurPos + 1
  /\ MoveCursorForward
  /\ UNCHANGED <<reading, CurrentString, StringLen, LinePos, CommandHistory,
                 screen>>

HomeKey ==
  /\ reading
  /\ Row' = HomeRow /\ Column' = StartColumn
  /\ StringCurPos' = 0
  /\ UNCHANGED <<reading, CurrentString, StringLen, LinePos, CommandHistory,
                 screen>>

EndKey ==
  /\ reading
  /\ LET offset == StringLen - StringCurPos + Column
     IN Row' = Row + offset \div TotalColumn /\ Column' = offset % TotalColumn
  /\ StringCurPos' = StringLen
  /\ UNCHANGED <<reading, CurrentString, StringLen, LinePos, CommandHistory,
                 screen>>

EscapeKey ==
  /\ reading
  /\ Redraw([CurrentString EXCEPT ![0] = NUL], StringCurPos, 0, StringLen,
            StartColumn, HomeRow)
  /\ CursorAfter(StartColumn, HomeRow, 0, 0)
  /\ UNCHANGED <<LinePos, misplaced>>

----------------------------------------------------------------------------
(* The history. *)

\* Mutant of Recall: the recalled line gets no end.
Recall_NoEnd(p) ==
  /\ reading /\ p # 0
  /\ LinePos' = p
  /\ LET recalled == CommandHistory[p]
         OutputLength == Min({Len(recalled), MaxStr - 1})
         s == [i \in Places |-> IF i < OutputLength THEN recalled[i + 1]
                                ELSE CurrentString[i]]
     IN /\ Redraw(s, OutputLength, 0, Max({0, StringLen - OutputLength}),
                  StartColumn, HomeRow)
        /\ CursorAfter(StartColumn, HomeRow, OutputLength, 0)
  /\ UNCHANGED misplaced

\* Puts a line of the history in the place of the string.
Recall(p) ==
  /\ reading /\ p # 0
  /\ LinePos' = p
  /\ LET recalled == CommandHistory[p]
         OutputLength == Min({Len(recalled), MaxStr - 1})
         s == [i \in Places |-> CASE i < OutputLength -> recalled[i + 1]
                                  [] i = OutputLength -> NUL
                                  [] OTHER -> CurrentString[i]]
     IN /\ Redraw(s, OutputLength, 0, Max({0, StringLen - OutputLength}),
                  StartColumn, HomeRow)
        /\ CursorAfter(StartColumn, HomeRow, OutputLength, 0)
  /\ UNCHANGED misplaced

UpKey == Recall(IF LinePos = 0 THEN Len(CommandHistory) ELSE LinePos - 1)
DownKey == Recall(IF LinePos = Len(CommandHistory) THEN 0 ELSE LinePos + 1)

\* Without memory the line is not remembered.
AddLineToCommandHistory ==
  \/ UNCHANGED CommandHistory
  \/ CommandHistory' =
       Append(IF Len(CommandHistory) < MaxHistory THEN CommandHistory
              ELSE Tail(CommandHistory), Text)

EnterKey ==
  /\ reading
  /\ IF StrLen(CurrentString) > 0 THEN AddLineToCommandHistory
     ELSE UNCHANGED CommandHistory
  /\ Return

\* An input device that fails empties the line.
ReadError == reading /\ Return /\ UNCHANGED CommandHistory

Next ==
  \/ \E row \in 0 .. TotalRow - 1 : Begin(row)
  \/ \E c \in Chars : Character(c)
  \/ BackspaceKey \/ DeleteKey \/ LeftKey \/ RightKey \/ HomeKey \/ EndKey
  \/ EscapeKey \/ UpKey \/ DownKey \/ EnterKey \/ ReadError

Spec == Init /\ [][Next]_vars

----------------------------------------------------------------------------
(* Properties *)

\* The state has its shape; the tracked cursor is on the screen.
TypeOK ==
  /\ reading \in BOOLEAN /\ misplaced \in BOOLEAN
  /\ CurrentString \in [Places -> Chars \cup {NUL}]
  /\ StringLen \in Places /\ StringCurPos \in 0 .. StringLen
  /\ Column \in 0 .. TotalColumn - 1 /\ Row \in 0 .. TotalRow - 1
  /\ LinePos \in 0 .. Len(CommandHistory)
  /\ Len(CommandHistory) <= MaxHistory
  /\ \A i \in DOMAIN CommandHistory :
       /\ Len(CommandHistory[i]) \in 1 .. MaxStr - 1
       /\ Range(CommandHistory[i]) \subseteq Chars
  /\ top \in Int /\ shown \in [Places -> Chars \cup {Blank, Junk}]

\* Nothing but 0 follows the line in its buffer, so a character typed at its
\* end, which the code stores without a terminator, ends the new line
\* (UefiConsole.c:280), and StringLen is the length of the line.
LineIsTerminated ==
  /\ StringLen = StrLen(CurrentString)
  /\ \A i \in Places : i >= StringLen => CurrentString[i] = NUL

\* The row and column that the code keeps are those of the character under
\* the cursor, however often lines wrap and the screen scrolls
\* (UefiConsole.c:167), unless DELETE has scrolled it.
CursorIsOnCharacter ==
  reading /\ ~misplaced =>
    (Row - top) * TotalColumn + Column - StartColumn = StringCurPos

\* The screen shows the characters of the line in their places, whatever was
\* typed, deleted or recalled before (UefiConsole.c:413).
ScreenShowsLine ==
  ~misplaced => \A i \in 0 .. StringLen - 1 : shown[i] = CurrentString[i]

Editor == INSTANCE EditedLine WITH
            text <- Text, cursor <- StringCurPos, history <- CommandHistory,
            MaxText <- MaxStr - 1

\* The buffer, its two counters and the list behave as a line of text that is
\* edited character by character and a history that can be recalled
\* (UefiConsoleInRead, UefiConsole.c:160).
EditsLine == Editor!Spec
=============================================================================
