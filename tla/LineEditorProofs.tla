-------------------------- MODULE LineEditorProofs --------------------------
(***************************************************************************)
(* The buffer of UefiConsoleInRead(), its counters and the row and column  *)
(* that it keeps are right for every screen, every prompt and every buffer:*)
(* the line is terminated, the screen shows it, the cursor is on its       *)
(* character, and the keys do what EditedLine says.                        *)
(***************************************************************************)
EXTENDS LineEditor, SequenceTheorems, WellFoundedInduction, TLAPS

-----------------------------------------------------------------------------
(* The inductive invariant.                                                 *)

\* s holds a line of n characters, and nothing behind it.
IsLine(s, n) ==
  /\ s \in [Places -> Chars \cup {NUL}]
  /\ n \in Places
  /\ \A i \in Places : i < n => s[i] # NUL
  /\ \A i \in Places : i >= n => s[i] = NUL

LineInv ==
  /\ reading \in BOOLEAN
  /\ IsLine(CurrentString, StringLen)
  /\ StringCurPos \in 0 .. StringLen

HistoryInv ==
  /\ CommandHistory \in Seq(Seq(Chars)) /\ Len(CommandHistory) <= MaxHistory
  /\ \A i \in 1 .. Len(CommandHistory) : Len(CommandHistory[i]) \in 1 .. MaxStr - 1
  /\ LinePos \in 0 .. Len(CommandHistory)

\* Between two calls there is no line and no prompt.
IdleInv ==
  ~reading => StringLen = 0 /\ Row = 0 /\ top = 0 /\ LinePos = 0 /\ ~misplaced

\* Row and column agree with the place in the string, and the prompt to which
\* they lead back is on the screen and so is the end of the line, also when
\* DELETE has scrolled the screen and the prompt is elsewhere.
TrackInv ==
  /\ Row \in Int
  /\ Column = (StringCurPos + StartColumn) % TotalColumn
  /\ HomeRow \in 0 .. TotalRow - 1
  /\ HomeRow * TotalColumn + StartColumn + StringLen < TotalRow * TotalColumn

ScreenInv ==
  /\ misplaced \in BOOLEAN
  /\ ~misplaced => top = HomeRow
  /\ ~misplaced => \A i \in 0 .. StringLen - 1 : shown[i] = CurrentString[i]

IInv == LineInv /\ HistoryInv /\ IdleInv /\ TrackInv /\ ScreenInv

-----------------------------------------------------------------------------
(* Numbers.                                                                 *)

\* Min() and Max() of a set of numbers that has a least one, or of two.
LEMMA MinOf ==
  ASSUME NEW T, NEW m \in T, T \subseteq Int, \A y \in T : m <= y
  PROVE  Min(T) = m
<1>1. Min(T) \in T /\ \A y \in T : Min(T) <= y
  BY DEF Min
<1>2. Min(T) \in Int /\ m \in Int /\ m <= Min(T) /\ Min(T) <= m
  BY <1>1
<1>3. QED BY <1>2

LEMMA MinOfTwo ==
  ASSUME NEW a \in Int, NEW b \in Int
  PROVE  Min({a, b}) = IF a <= b THEN a ELSE b
<1>1. CASE a <= b
  BY <1>1, MinOf
<1>2. CASE ~(a <= b)
  BY <1>2, MinOf
<1>3. QED BY <1>1, <1>2

LEMMA MaxOfTwo ==
  ASSUME NEW a \in Int, NEW b \in Int
  PROVE  Max({a, b}) = IF a <= b THEN b ELSE a
<1> DEFINE T == {a, b}
           m == IF a <= b THEN b ELSE a
<1>1. m \in T /\ T \subseteq Int /\ \A y \in T : y <= m
  OBVIOUS
<1>2. Max(T) \in T /\ \A y \in T : y <= Max(T)
  BY <1>1 DEF Max
<1>3. QED BY <1>1, <1>2

\* Rows are quotients by the width of the screen, columns remainders.
LEMMA DivMod ==
  ASSUME NEW C \in Nat \ {0}, NEW a \in Int
  PROVE  /\ a \div C \in Int /\ a % C \in 0 .. C - 1
         /\ a = C * (a \div C) + (a % C)
  OBVIOUS

LEMMA DivModUnique ==
  ASSUME NEW C \in Nat \ {0}, NEW a \in Int, NEW q \in Int, NEW r \in 0 .. C - 1, a = C * q + r
  PROVE  a \div C = q /\ a % C = r
  OBVIOUS

\* Passing whole rows.
LEMMA DivModShift ==
  ASSUME NEW C \in Nat \ {0}, NEW a \in Int, NEW k \in Int
  PROVE  (a + C * k) \div C = a \div C + k /\ (a + C * k) % C = a % C
<1> DEFINE q == a \div C
           r == a % C
           b == a + C * k
<1>1. q \in Int /\ r \in 0 .. C - 1 /\ a = C * q + r
  BY DivMod
<1> HIDE DEF q, r
<1>2. C * (q + k) = C * q + C * k
  BY <1>1
<1>3. b \in Int /\ q + k \in Int /\ b = C * (q + k) + r
  BY <1>1, <1>2
<1> HIDE DEF b
<1>4. b \div C = q + k /\ b % C = r
  BY <1>1, <1>3, DivModUnique
<1>5. QED BY <1>4 DEF b, q, r

\* Products by the width of the screen.
LEMMA Products ==
  ASSUME NEW C \in Nat \ {0}, NEW a \in Int, NEW k \in Int
  PROVE  /\ C * a \in Int /\ C * k \in Int /\ a * C = C * a
         /\ C * (a + k) = C * a + C * k /\ C * (a - k) = C * a - C * k
         /\ a <= k => C * a <= C * k
         /\ a < k => C * a + C <= C * k
<1>1. /\ C * a \in Int /\ C * k \in Int /\ a * C = C * a
      /\ C * (a + k) = C * a + C * k /\ C * (a - k) = C * a - C * k /\ C * (a + 1) = C * a + C
  OBVIOUS
<1>2. a <= k => C * a <= C * k
  OBVIOUS
<1>3. a + 1 <= k => C * (a + 1) <= C * k
  OBVIOUS
<1>4. QED BY <1>1, <1>2, <1>3

\* A place lies above the end of a screen of m rows if its row does.
LEMMA DivBelow ==
  ASSUME NEW C \in Nat \ {0}, NEW a \in Int, NEW m \in Int
  PROVE  a < C * m <=> a \div C <= m - 1
<1> DEFINE q == a \div C
           r == a % C
<1>1. q \in Int /\ r \in 0 .. C - 1 /\ a = C * q + r
  BY DivMod
<1> HIDE DEF q, r
<1>2. C * (q + 1) = C * q + C
  BY <1>1
<1>3. q + 1 <= m => C * (q + 1) <= C * m
  BY <1>1
<1>4. m <= q => C * m <= C * q
  BY <1>1
<1>5. C * q \in Int /\ C * m \in Int
  BY <1>1
<1>6. a < C * m <=> q <= m - 1
  BY <1>1, <1>2, <1>3, <1>4, <1>5
<1>7. QED BY <1>6 DEF q

\* The line with its prompt leaves a row of the screen free.
LEMMA MaxStrBound ==
  /\ TotalColumn \in Nat \ {0} /\ TotalRow \in Nat \ {0, 1} /\ StartColumn \in 0 .. TotalColumn - 1
  /\ MaxStr \in Nat \ {0}
  /\ MaxStr + StartColumn <= TotalColumn * (TotalRow - 1)
<1> DEFINE room == TotalColumn * (TotalRow - 1)
<1>1. /\ TotalColumn \in Nat \ {0} /\ TotalRow \in Nat \ {0, 1} /\ StartColumn \in 0 .. TotalColumn - 1
      /\ BufferChars \in Nat \ {0, 1}
  BY LineEditorAssumption
<1>2. room \in Nat /\ room >= TotalColumn
  <2>1. TotalRow - 1 \in Nat \ {0}
    BY <1>1
  <2>2. \A m \in Nat \ {0} : TotalColumn * m \in Nat /\ TotalColumn * m >= TotalColumn
    BY <1>1
  <2>3. QED BY <2>1, <2>2
<1>3. MaxStr = Min({room - StartColumn, BufferChars})
  BY DEF MaxStr
<1> HIDE DEF room
<1>4. MaxStr = IF room - StartColumn <= BufferChars THEN room - StartColumn ELSE BufferChars
  BY <1>1, <1>2, <1>3, MinOfTwo
<1>5. QED BY <1>1, <1>2, <1>4 DEF room

-----------------------------------------------------------------------------
(* Strings.                                                                 *)

\* StrLen() of a string that ends.
LEMMA StrLenIs ==
  ASSUME NEW s, NEW n \in 0 .. MaxStr,
         \A i \in Places : i < n => s[i] # NUL,
         n \in Places => s[n] = NUL
  PROVE  StrLen(s) = n
<1> DEFINE T == {i \in Places : s[i] = NUL} \cup {MaxStr}
<1>1. MaxStr \in Nat \ {0}
  BY MaxStrBound
<1>2. n \in T /\ T \subseteq Int /\ \A y \in T : n <= y
  BY <1>1 DEF Places
<1>3. Min(T) = n
  BY <1>2, MinOf
<1>4. QED BY <1>3 DEF StrLen

\* StrLen() of a line is its length.
LEMMA LineLength ==
  ASSUME NEW s, NEW n, IsLine(s, n)
  PROVE  StrLen(s) = n
<1>1. n \in 0 .. MaxStr
  BY MaxStrBound DEF IsLine, Places
<1>2. n \in Places => s[n] = NUL
  BY <1>1 DEF IsLine
<1>3. QED BY <1>1, <1>2, StrLenIs DEF IsLine

\* The line becomes the first n characters of s, with the cursor at place c.
Edited(s, n, c) ==
  /\ StringLen' = n /\ StringCurPos' = c /\ c \in 0 .. n
  /\ IsLine(CurrentString', n)
  /\ \A i \in 0 .. n - 1 : CurrentString'[i] = s[i]
  /\ UNCHANGED <<reading, CommandHistory>>

\* The end of a key that changed the string: it is enough that nothing but what
\* is deleted stands behind the new line (Redraw).
LEMMA RedrawEdits ==
  ASSUME NEW s \in [Places -> Chars \cup {NUL}], NEW n \in Places, NEW pos \in Nat, NEW update,
         NEW delete \in Nat, NEW col, NEW row,
         \A i \in Places : i < n => s[i] # NUL,
         s[n] = NUL,
         \A i \in Places : i >= n + delete => s[i] = NUL,
         Redraw(s, pos, update, delete, col, row)
  PROVE  /\ Edited(s, n, IF pos <= n THEN pos ELSE n)
         /\ Output(s, update, delete, col, row)
         /\ StrLen(s) = n
<1>1. n \in 0 .. MaxStr /\ n \in Nat
  BY MaxStrBound DEF Places
<1>2. StrLen(s) = n
  BY <1>1, StrLenIs
<1>3. /\ StringLen' = n
      /\ CurrentString' = [i \in Places |-> IF i \in n .. n + delete - 1 THEN NUL ELSE s[i]]
      /\ StringCurPos' = Min({pos, n})
      /\ UNCHANGED <<reading, CommandHistory>>
      /\ Output(s, update, delete, col, row)
  BY <1>2 DEF Redraw
<1>4. StringCurPos' = (IF pos <= n THEN pos ELSE n) /\ StringCurPos' \in 0 .. n
  BY <1>1, <1>3, MinOfTwo
<1>5. CurrentString' \in [Places -> Chars \cup {NUL}]
  BY <1>3
<1>6. ASSUME NEW i \in Places
      PROVE  /\ i < n => CurrentString'[i] = s[i]
             /\ i >= n => CurrentString'[i] = NUL
  <2>1. i \in Nat
    BY MaxStrBound DEF Places
  <2>2. CurrentString'[i] = IF i \in n .. n + delete - 1 THEN NUL ELSE s[i]
    BY <1>3
  <2>3. QED BY <1>1, <2>1, <2>2
<1>7. IsLine(CurrentString', n)
  BY <1>5, <1>6 DEF IsLine
<1>8. 0 .. n - 1 \subseteq Places /\ \A i \in 0 .. n - 1 : i < n
  BY <1>1, MaxStrBound DEF Places
<1>9. QED BY <1>2, <1>3, <1>4, <1>6, <1>7, <1>8 DEF Edited

\* The places of the line, and what is there.
LEMMA LineFacts ==
  ASSUME LineInv
  PROVE  /\ MaxStr \in Nat \ {0} /\ Places = 0 .. MaxStr - 1
         /\ StringLen \in Nat /\ StringLen <= MaxStr - 1
         /\ StringCurPos \in Nat /\ StringCurPos <= StringLen
         /\ StringCurPos \in Places /\ StringLen \in Places
         /\ CurrentString \in [Places -> Chars \cup {NUL}]
         /\ \A i \in Places : i < StringLen => CurrentString[i] # NUL
         /\ \A i \in Places : i >= StringLen => CurrentString[i] = NUL
         /\ StrLen(CurrentString) = StringLen
<1>1. MaxStr \in Nat \ {0} /\ Places = 0 .. MaxStr - 1
  BY MaxStrBound DEF Places
<1>2. IsLine(CurrentString, StringLen) /\ StringCurPos \in 0 .. StringLen
  BY DEF LineInv
<1>3. QED BY <1>1, <1>2, LineLength DEF IsLine

\* A character is put in its place, which may be the one behind the line.
LEMMA CharacterEdits ==
  ASSUME LineInv, NEW c \in Chars, Character(c)
  PROVE  LET s == [CurrentString EXCEPT ![StringCurPos] = c]
             n == IF StringCurPos < StringLen THEN StringLen ELSE StringLen + 1
         IN  /\ Edited(s, n, StringCurPos + 1)
             /\ Output(s, StringCurPos, 0, Column, Row)
             /\ StrLen(s) = n /\ n \in Places
             /\ StringCurPos < MaxStr - 1
<1> DEFINE s == [CurrentString EXCEPT ![StringCurPos] = c]
           n == IF StringCurPos < StringLen THEN StringLen ELSE StringLen + 1
<1>1. ~(StringLen = MaxStr - 1 /\ StringCurPos = StringLen) /\ Redraw(s, StringCurPos + 1, StringCurPos, 0, Column, Row)
  BY DEF Character
<1>2. /\ n \in Places /\ n \in Nat /\ StringCurPos + 1 \in Nat /\ StringCurPos + 1 <= n
      /\ StringCurPos < MaxStr - 1
  BY <1>1, LineFacts
<1>3. s \in [Places -> Chars \cup {NUL}] /\ s[StringCurPos] = c /\ c # NUL
      /\ \A i \in Places : i # StringCurPos => s[i] = CurrentString[i]
  BY LineFacts, LineEditorAssumption
<1> HIDE DEF s
<1>4. \A i \in Places : (i < n => s[i] # NUL) /\ (i >= n => s[i] = NUL)
  BY <1>3, LineFacts
<1>5. s[n] = NUL /\ \A i \in Places : i >= n + 0 => s[i] = NUL
  BY <1>2, <1>4
<1> HIDE DEF n
<1>6. Edited(s, n, IF StringCurPos + 1 <= n THEN StringCurPos + 1 ELSE n)
      /\ Output(s, StringCurPos, 0, Column, Row) /\ StrLen(s) = n
  BY <1>1, <1>2, <1>3, <1>4, <1>5, RedrawEdits
<1>7. QED BY <1>2, <1>6 DEF s, n

\* The characters behind the one that is removed move up by one.
LEMMA WithoutPlace ==
  ASSUME LineInv, NEW pos \in 0 .. StringLen
  PROVE  LET s == Without(pos)
             n == IF pos < StringLen THEN StringLen - 1 ELSE StringLen
         IN  /\ s \in [Places -> Chars \cup {NUL}] /\ n \in Places
             /\ \A i \in Places : i < n => s[i] # NUL
             /\ \A i \in Places : i >= n => s[i] = NUL
             /\ \A i \in 0 .. n - 1 : s[i] = CurrentString[IF i < pos THEN i ELSE i + 1]
<1> DEFINE s == Without(pos)
           n == IF pos < StringLen THEN StringLen - 1 ELSE StringLen
<1>1. /\ pos \in Nat /\ pos <= StringLen
      /\ s = [i \in Places |-> IF i \in pos .. StringLen - 1 THEN CurrentString[i + 1] ELSE CurrentString[i]]
  BY LineFacts DEF Without
<1>2. \A i \in Places : i \in pos .. StringLen - 1 => i + 1 \in Places
  BY <1>1, LineFacts
<1>3. s \in [Places -> Chars \cup {NUL}]
  BY <1>1, <1>2, LineFacts
<1>4. ASSUME NEW i \in Places
      PROVE  s[i] = CurrentString[IF i \in pos .. StringLen - 1 THEN i + 1 ELSE i]
  BY <1>1
<1> HIDE DEF s
<1>5. n \in Places /\ n \in Nat
  BY <1>1, LineFacts
<1>6. ASSUME NEW i \in Places
      PROVE  (i < n => s[i] # NUL) /\ (i >= n => s[i] = NUL)
  <2>1. CASE i \in pos .. StringLen - 1
    <3>1. s[i] = CurrentString[i + 1] /\ i + 1 \in Places /\ n = StringLen - 1
      BY <1>1, <1>2, <1>4, <2>1, LineFacts
    <3>2. (i < n <=> i + 1 < StringLen) /\ (i >= n <=> i + 1 >= StringLen)
      BY <3>1, LineFacts
    <3>3. QED BY <3>1, <3>2, LineFacts
  <2>2. CASE i \notin pos .. StringLen - 1
    <3>1. s[i] = CurrentString[i]
      BY <1>4, <2>2
    <3>2. (i < n => i < StringLen) /\ (i >= n => i >= StringLen)
      BY <1>1, <2>2, LineFacts
    <3>3. QED BY <3>1, <3>2, LineFacts
  <2>3. QED BY <2>1, <2>2
<1>7. ASSUME NEW i \in 0 .. n - 1
      PROVE  s[i] = CurrentString[IF i < pos THEN i ELSE i + 1]
  <2>1. i \in Places /\ (i < pos <=> i \notin pos .. StringLen - 1)
    BY <1>1, LineFacts
  <2>2. QED BY <1>4, <2>1
<1>8. QED BY <1>3, <1>5, <1>6, <1>7 DEF s

\* BACKSPACE removes the character before the cursor.
LEMMA BackspaceEdits ==
  ASSUME LineInv, BackspaceKey
  PROVE  LET s == Without(StringCurPos - 1)
         IN  /\ Edited(s, StringLen - 1, StringCurPos - 1)
             /\ Output(s, StringCurPos - 1, 1, Column', Row')
             /\ StrLen(s) = StringLen - 1 /\ StringLen - 1 \in Places
             /\ \A i \in 0 .. StringLen - 2 :
                  s[i] = CurrentString[IF i < StringCurPos - 1 THEN i ELSE i + 1]
<1> DEFINE pos == StringCurPos - 1
           s == Without(pos)
           n == StringLen - 1
<1>1. StringCurPos # 0 /\ Redraw(s, pos, pos, 1, Column', Row')
  BY DEF BackspaceKey
<1>2. pos \in Nat /\ pos \in 0 .. StringLen /\ pos < StringLen /\ pos <= n /\ n \in Nat
  BY <1>1, LineFacts
<1> HIDE DEF pos
<1>3. /\ s \in [Places -> Chars \cup {NUL}] /\ n \in Places
      /\ \A i \in Places : i < n => s[i] # NUL
      /\ \A i \in Places : i >= n => s[i] = NUL
      /\ \A i \in 0 .. n - 1 : s[i] = CurrentString[IF i < pos THEN i ELSE i + 1]
  BY <1>2, WithoutPlace
<1> HIDE DEF s, n
<1>4. s[n] = NUL /\ \A i \in Places : i >= n + 1 => s[i] = NUL
  BY <1>2, <1>3, LineFacts
<1>5. Edited(s, n, IF pos <= n THEN pos ELSE n) /\ Output(s, pos, 1, Column', Row') /\ StrLen(s) = n
  BY <1>1, <1>2, <1>3, <1>4, RedrawEdits
<1>6. n - 1 = StringLen - 2
  BY LineFacts DEF n
<1>7. QED BY <1>2, <1>3, <1>5, <1>6 DEF s, n, pos

\* DELETE removes the character under the cursor, if there is one.
LEMMA DeleteEdits ==
  ASSUME LineInv, DeleteKey
  PROVE  LET s == Without(StringCurPos)
             n == IF StringCurPos < StringLen THEN StringLen - 1 ELSE StringLen
         IN  /\ Edited(s, n, StringCurPos)
             /\ Output(s, StringCurPos, 1, Column, Row)
             /\ StrLen(s) = n /\ n \in Places
             /\ \A i \in 0 .. n - 1 : s[i] = CurrentString[IF i < StringCurPos THEN i ELSE i + 1]
<1> DEFINE s == Without(StringCurPos)
           n == IF StringCurPos < StringLen THEN StringLen - 1 ELSE StringLen
<1>1. Redraw(s, StringCurPos, StringCurPos, 1, Column, Row)
  BY DEF DeleteKey
<1>2. StringCurPos \in 0 .. StringLen /\ StringCurPos \in Nat /\ StringCurPos <= n
  BY LineFacts
<1>3. /\ s \in [Places -> Chars \cup {NUL}] /\ n \in Places
      /\ \A i \in Places : i < n => s[i] # NUL
      /\ \A i \in Places : i >= n => s[i] = NUL
      /\ \A i \in 0 .. n - 1 : s[i] = CurrentString[IF i < StringCurPos THEN i ELSE i + 1]
  BY <1>2, WithoutPlace
<1> HIDE DEF s, n
<1>4. n \in Nat /\ s[n] = NUL /\ \A i \in Places : i >= n + 1 => s[i] = NUL
  BY <1>3, LineFacts
<1>5. Edited(s, n, IF StringCurPos <= n THEN StringCurPos ELSE n) /\ Output(s, StringCurPos, 1, Column, Row)
      /\ StrLen(s) = n
  BY <1>1, <1>2, <1>3, <1>4, RedrawEdits
<1>6. QED BY <1>2, <1>3, <1>5 DEF s, n

\* ESC clears as many places as the line has.
LEMMA EscapeEdits ==
  ASSUME LineInv, EscapeKey
  PROVE  LET s == [CurrentString EXCEPT ![0] = NUL]
         IN  /\ Edited(s, 0, 0)
             /\ Output(s, 0, StringLen, StartColumn, HomeRow)
             /\ StrLen(s) = 0
<1> DEFINE s == [CurrentString EXCEPT ![0] = NUL]
<1>1. Redraw(s, StringCurPos, 0, StringLen, StartColumn, HomeRow)
  BY DEF EscapeKey
<1>2. 0 \in Places /\ s \in [Places -> Chars \cup {NUL}] /\ s[0] = NUL
      /\ \A i \in Places : i # 0 => s[i] = CurrentString[i]
  BY LineFacts
<1> HIDE DEF s
<1>3. /\ \A i \in Places : i < 0 => s[i] # NUL
      /\ \A i \in Places : i >= 0 + StringLen => s[i] = NUL
  BY <1>2, LineFacts
<1>4. StringCurPos \in Nat /\ StringLen \in Nat
  BY LineFacts
<1>5. Edited(s, 0, IF StringCurPos <= 0 THEN StringCurPos ELSE 0)
      /\ Output(s, 0, StringLen, StartColumn, HomeRow) /\ StrLen(s) = 0
  BY <1>1, <1>2, <1>3, <1>4, RedrawEdits
<1>6. (IF StringCurPos <= 0 THEN StringCurPos ELSE 0) = 0
  BY <1>4
<1>7. QED BY <1>5, <1>6 DEF s

\* A line of the history replaces the line; what it leaves of a longer one is
\* cleared.
LEMMA RecallEdits ==
  ASSUME LineInv, HistoryInv, NEW p \in 1 .. Len(CommandHistory), Recall(p)
  PROVE  LET recalled == CommandHistory[p]
             n == Len(recalled)
             s == [i \in Places |-> CASE i < n -> recalled[i + 1]
                                      [] i = n -> NUL
                                      [] OTHER -> CurrentString[i]]
             delete == IF n <= StringLen THEN StringLen - n ELSE 0
         IN  /\ Edited(s, n, n)
             /\ Output(s, 0, delete, StartColumn, HomeRow)
             /\ StrLen(s) = n /\ n \in Places
             /\ \A i \in 0 .. n - 1 : s[i] = recalled[i + 1]
             /\ CursorAfter(StartColumn, HomeRow, n, 0)
<1> DEFINE recalled == CommandHistory[p]
           n == Len(recalled)
           s == [i \in Places |-> CASE i < n -> recalled[i + 1]
                                    [] i = n -> NUL
                                    [] OTHER -> CurrentString[i]]
           delete == IF n <= StringLen THEN StringLen - n ELSE 0
<1>1. /\ recalled \in Seq(Chars) /\ n \in Nat /\ n <= MaxStr - 1 /\ n \in Places
      /\ \A i \in 1 .. n : recalled[i] \in Chars
  BY LineFacts DEF HistoryInv
<1> HIDE DEF recalled
<1>2. Min({n, MaxStr - 1}) = n
  BY <1>1, LineFacts, MinOfTwo
<1>3. Max({0, StringLen - n}) = delete
  <2>1. StringLen - n \in Int
    BY <1>1, LineFacts
  <2>2. Max({0, StringLen - n}) = IF 0 <= StringLen - n THEN StringLen - n ELSE 0
    BY <2>1, MaxOfTwo
  <2>3. QED BY <1>1, <2>2, LineFacts
<1>4. Redraw(s, n, 0, delete, StartColumn, HomeRow) /\ CursorAfter(StartColumn, HomeRow, n, 0)
  <2> DEFINE len == Min({Len(CommandHistory[p]), MaxStr - 1})
             string(m) == [i \in Places |-> CASE i < m -> CommandHistory[p][i + 1]
                                              [] i = m -> NUL
                                              [] OTHER -> CurrentString[i]]
  <2>1. /\ Redraw(string(len), len, 0, Max({0, StringLen - len}), StartColumn, HomeRow)
        /\ CursorAfter(StartColumn, HomeRow, len, 0)
    BY DEF Recall
  <2>2. len = n
    BY <1>2 DEF recalled
  <2>3. s = string(n)
    BY DEF recalled
  <2> HIDE DEF string, len, s, n, delete
  <2>4. QED BY <1>3, <2>1, <2>2, <2>3
<1>5. delete \in Nat
  BY <1>1, LineFacts
<1>6. ASSUME NEW i \in Places
      PROVE  /\ i < n => s[i] = recalled[i + 1] /\ s[i] \in Chars
             /\ i = n => s[i] = NUL
             /\ i > n => s[i] = CurrentString[i]
  <2>1. i \in Nat /\ i + 1 \in Nat /\ (i < n => i + 1 \in 1 .. n)
    BY <1>1, LineFacts
  <2>2. s[i] = CASE i < n -> recalled[i + 1] [] i = n -> NUL [] OTHER -> CurrentString[i]
    OBVIOUS
  <2> HIDE DEF s, n
  <2>3. CASE i < n
    BY <1>1, <2>1, <2>2, <2>3
  <2>4. CASE i = n
    BY <1>1, <2>2, <2>4
  <2>5. CASE i > n
    BY <1>1, <2>1, <2>2, <2>5
  <2>6. QED BY <1>1, <2>1, <2>3, <2>4, <2>5
<1>7. s \in [Places -> Chars \cup {NUL}]
  <2>1. s = [i \in Places |-> s[i]]
    OBVIOUS
  <2> HIDE DEF s, n
  <2>2. \A i \in Places : s[i] \in Chars \cup {NUL}
    BY <1>1, <1>6, LineFacts
  <2>3. QED BY <2>1, <2>2
<1> HIDE DEF s, n
<1>8. (\A i \in Places : i < n => s[i] # NUL) /\ s[n] = NUL
  BY <1>1, <1>6, LineEditorAssumption
<1>9. ASSUME NEW i \in Places, i >= n + delete PROVE s[i] = NUL
  <2>1. i \in Nat /\ i >= n /\ i >= StringLen
    BY <1>1, <1>9, LineFacts
  <2>2. CASE i = n
    BY <1>8, <2>2
  <2>3. CASE i > n
    BY <1>6, <2>1, <2>3, LineFacts
  <2>4. QED BY <1>1, <2>1, <2>2, <2>3
<1> HIDE DEF delete
<1>10. Edited(s, n, IF n <= n THEN n ELSE n) /\ Output(s, 0, delete, StartColumn, HomeRow) /\ StrLen(s) = n
  BY <1>1, <1>4, <1>5, <1>7, <1>8, <1>9, RedrawEdits
<1>11. \A i \in 0 .. n - 1 : s[i] = recalled[i + 1]
  BY <1>1, <1>6, LineFacts
<1>12. QED BY <1>1, <1>4, <1>10, <1>11 DEF s, n, recalled, delete

-----------------------------------------------------------------------------
(* Rows and columns.                                                        *)

\* A row and a column are those of a place of a line whose prompt is in row home.
Placed(row, col, home, cur) ==
  /\ row \in 0 .. TotalRow - 1 /\ col \in 0 .. TotalColumn - 1
  /\ TotalColumn * row + col = TotalColumn * home + StartColumn + cur

\* The end of a line that starts in row home is on the screen.
Fits(home, len) == TotalColumn * home + StartColumn + len < TotalColumn * TotalRow

\* What RowsTo() computes, and which column goes with it.
LEMMA PlacedRow ==
  ASSUME NEW row, NEW col, NEW home \in Int, NEW cur \in Nat, Placed(row, col, home, cur)
  PROVE  col = (cur + StartColumn) % TotalColumn /\ row - RowsTo(cur) = home
<1>1. TotalColumn \in Nat \ {0} /\ StartColumn \in Nat /\ row \in Int /\ col \in 0 .. TotalColumn - 1
  BY MaxStrBound DEF Placed
<1>2. TotalColumn * (row - home) = TotalColumn * row - TotalColumn * home
  BY <1>1
<1>3. cur + StartColumn = TotalColumn * (row - home) + col
  <2>1. TotalColumn * row \in Int /\ TotalColumn * home \in Int
    BY <1>1
  <2>2. QED BY <1>1, <1>2, <2>1 DEF Placed
<1>4. (cur + StartColumn) \div TotalColumn = row - home /\ (cur + StartColumn) % TotalColumn = col
  <2>1. cur + StartColumn \in Int /\ row - home \in Int
    BY <1>1
  <2>2. QED BY <1>1, <1>3, <2>1, DivModUnique
<1>5. QED BY <1>1, <1>4 DEF RowsTo

\* The row and the column that the code keeps are those of the cursor's place.
LEMMA TrackIs ==
  ASSUME LineInv, TrackInv
  PROVE  /\ HomeRow \in 0 .. TotalRow - 1
         /\ Placed(Row, Column, HomeRow, StringCurPos)
         /\ Fits(HomeRow, StringLen)
<1> DEFINE a == StringCurPos + StartColumn
           q == RowsTo(StringCurPos)
<1>1. TotalColumn \in Nat \ {0} /\ TotalRow \in Nat \ {0, 1} /\ StartColumn \in Nat
  BY MaxStrBound
<1>2. StringCurPos \in Nat /\ StringLen \in Nat /\ StringCurPos <= StringLen /\ a \in Int
  BY <1>1, LineFacts
<1>3. q = a \div TotalColumn /\ Column = a % TotalColumn /\ HomeRow = Row - q
  BY DEF TrackInv, RowsTo, HomeRow
<1>4. q \in Int /\ Column \in 0 .. TotalColumn - 1 /\ a = TotalColumn * q + Column
  BY <1>1, <1>2, <1>3, DivMod
<1>5. Row \in Int /\ HomeRow \in 0 .. TotalRow - 1
      /\ HomeRow * TotalColumn + StartColumn + StringLen < TotalRow * TotalColumn
  BY DEF TrackInv
<1> HIDE DEF q
<1>6. /\ HomeRow \in Int /\ Row = HomeRow + q
      /\ TotalColumn * (HomeRow + q) = TotalColumn * HomeRow + TotalColumn * q
      /\ HomeRow * TotalColumn = TotalColumn * HomeRow /\ TotalRow * TotalColumn = TotalColumn * TotalRow
      /\ TotalColumn * HomeRow \in Int /\ TotalColumn * q \in Int /\ TotalColumn * TotalRow \in Int
      /\ TotalColumn * Row \in Int
  <2>1. HomeRow \in Int /\ Row \in Int /\ TotalColumn \in Int /\ TotalRow \in Int
    BY <1>1, <1>5
  <2>2. Row = HomeRow + q
    BY <1>3, <1>4, <2>1
  <2>3. QED BY <1>1, <1>4, <2>1, <2>2, Products
<1>7. TotalColumn * Row + Column = TotalColumn * HomeRow + StartColumn + StringCurPos
  BY <1>1, <1>2, <1>4, <1>6
<1>8. Fits(HomeRow, StringLen)
  BY <1>1, <1>2, <1>5, <1>6 DEF Fits
<1>9. Row \in 0 .. TotalRow - 1
  <2>1. 0 <= q
    BY <1>1, <1>2, <1>4
  <2>2. TotalColumn * Row < TotalColumn * TotalRow
    BY <1>1, <1>2, <1>4, <1>6, <1>7, <1>8 DEF Fits
  <2>3. TotalRow <= Row => TotalColumn * TotalRow <= TotalColumn * Row
    BY <1>1, <1>5, Products
  <2>4. HomeRow \in Nat /\ Row \in Int /\ TotalRow \in Int
    BY <1>1, <1>5
  <2>5. Row >= 0 /\ ~(TotalRow <= Row)
    BY <1>4, <1>6, <2>1, <2>2, <2>3, <2>4
  <2>6. QED BY <2>4, <2>5
<1>10. QED BY <1>4, <1>5, <1>7, <1>8, <1>9 DEF Placed

\* A key whose row and column are those of the cursor's new place keeps track.
LEMMA TrackFrom ==
  ASSUME NEW home \in 0 .. TotalRow - 1, StringCurPos' \in Nat, StringLen' \in Nat,
         Placed(Row', Column', home, StringCurPos'), Fits(home, StringLen')
  PROVE  TrackInv' /\ HomeRow' = home
<1>1. TotalColumn \in Nat \ {0} /\ TotalRow \in Nat \ {0, 1} /\ StartColumn \in Nat /\ home \in Int
  BY MaxStrBound
<1>2. Column' = (StringCurPos' + StartColumn) % TotalColumn /\ Row' - RowsTo(StringCurPos') = home
  BY <1>1, PlacedRow
<1>3. HomeRow' = home
  BY <1>2 DEF HomeRow, RowsTo
<1>4. home * TotalColumn = TotalColumn * home /\ TotalRow * TotalColumn = TotalColumn * TotalRow
  BY <1>1
<1>5. home * TotalColumn + StartColumn + StringLen' < TotalRow * TotalColumn
  BY <1>4 DEF Fits
<1>6. Row' \in Int
  BY <1>1 DEF Placed
<1>7. QED BY <1>2, <1>3, <1>5, <1>6 DEF TrackInv

\* The rows by which an output that ends before cell e scrolls the screen up.
Up(e) == IF e < TotalColumn * TotalRow THEN 0 ELSE e \div TotalColumn - (TotalRow - 1)

\* What Output() computes.
LEMMA UpIs ==
  ASSUME NEW e \in Int
  PROVE  Max({0, e \div TotalColumn - (TotalRow - 1)}) = Up(e) /\ Up(e) \in Nat
<1>1. TotalColumn \in Nat \ {0} /\ TotalRow \in Nat \ {0, 1}
  BY MaxStrBound
<1> DEFINE q == e \div TotalColumn
<1>2. q \in Int
  BY <1>1, DivMod
<1>3. e < TotalColumn * TotalRow <=> q <= TotalRow - 1
  <2>1. TotalRow \in Int
    BY <1>1
  <2>2. QED BY <1>1, <2>1, DivBelow
<1>4. Up(e) = IF e < TotalColumn * TotalRow THEN 0 ELSE q - (TotalRow - 1)
  BY DEF Up
<1> HIDE DEF q
<1>5. q - (TotalRow - 1) \in Int
  BY <1>1, <1>2
<1>6. Max({0, q - (TotalRow - 1)}) = IF 0 <= q - (TotalRow - 1) THEN q - (TotalRow - 1) ELSE 0
  BY <1>5, MaxOfTwo
<1>7. Max({0, q - (TotalRow - 1)}) = Up(e) /\ Up(e) \in Nat
  BY <1>1, <1>2, <1>3, <1>4, <1>6
<1>8. QED BY <1>7 DEF q

\* The cursor goes behind the output, and up with it when that scrolls the
\* screen; characters that follow the output do not (CursorAfter).
LEMMA CursorGoes ==
  ASSUME NEW row \in 0 .. TotalRow - 1, NEW col \in 0 .. TotalColumn - 1, NEW k \in Nat, NEW t \in Nat,
         CursorAfter(col, row, k, t),
         t = 0 \/ TotalColumn * row + col + k + t < TotalColumn * TotalRow
  PROVE  LET e == TotalColumn * row + col + k
         IN  /\ Row' \in 0 .. TotalRow - 1 /\ Column' \in 0 .. TotalColumn - 1
             /\ TotalColumn * Row' + Column' = e - TotalColumn * Up(e)
<1> DEFINE e == TotalColumn * row + col + k
           q == (col + k) \div TotalColumn
           r == (col + k) % TotalColumn
           end == t + col + k
           endRow == end \div TotalColumn
           rolled == end % TotalColumn = 0 /\ row + endRow >= TotalRow /\ row # row + endRow
           from == IF rolled THEN row - 1 ELSE row
           skip == k - (TotalColumn - col)
<1>1. /\ TotalColumn \in Nat \ {0} /\ TotalRow \in Nat \ {0, 1}
      /\ row \in Nat /\ row <= TotalRow - 1 /\ col \in Nat /\ col <= TotalColumn - 1
      /\ TotalColumn * row \in Int /\ TotalColumn * TotalRow \in Int /\ e \in Int /\ col + k \in Int
  <2>1. TotalColumn \in Nat \ {0} /\ TotalRow \in Nat \ {0, 1} /\ row \in Int /\ TotalRow \in Int
    BY MaxStrBound
  <2>2. QED BY <2>1, Products
<1>2. IF col + k >= TotalColumn
      THEN /\ Column' = skip % TotalColumn
           /\ Row' = Min({from + skip \div TotalColumn + 1, TotalRow - 1})
      ELSE Column' = col + k /\ Row' = from
  BY DEF CursorAfter
<1>3. q \in Int /\ r \in 0 .. TotalColumn - 1 /\ col + k = TotalColumn * q + r
  BY <1>1, DivMod
<1>4. end \in Int /\ endRow \in Int
  BY <1>1, DivMod
<1>5. e \div TotalColumn = row + q /\ e = TotalColumn * (row + q) + r
  <2>1. e = (col + k) + TotalColumn * row
    BY <1>1
  <2>2. e \div TotalColumn = q + row
    BY <1>1, <2>1, DivModShift
  <2> HIDE DEF e, q, r
  <2>3. TotalColumn * (row + q) = TotalColumn * row + TotalColumn * q
    BY <1>1, <1>3, Products
  <2>4. TotalColumn * q \in Int
    BY <1>1, <1>3, Products
  <2>5. QED BY <1>1, <1>3, <2>1, <2>2, <2>3, <2>4
<1>6. e < TotalColumn * TotalRow <=> row + q <= TotalRow - 1
  <2>1. TotalRow \in Int /\ e \in Int
    BY <1>1
  <2> HIDE DEF e
  <2>2. e < TotalColumn * TotalRow <=> e \div TotalColumn <= TotalRow - 1
    BY <1>1, <2>1, DivBelow
  <2>3. QED BY <1>5, <2>2
<1>7. CASE e + t < TotalColumn * TotalRow
  <2>1. (e + t) \div TotalColumn = endRow + row
    <3>1. e + t = end + TotalColumn * row
      BY <1>1
    <3>2. QED BY <1>1, <1>4, <3>1, DivModShift
  <2>2. e + t \in Int /\ row + endRow <= TotalRow - 1
    <3> DEFINE a == e + t
    <3>1. a \in Int /\ TotalRow \in Int
      BY <1>1
    <3> HIDE DEF a
    <3>2. a < TotalColumn * TotalRow <=> a \div TotalColumn <= TotalRow - 1
      BY <1>1, <3>1, DivBelow
    <3>4. endRow + row <= TotalRow - 1
      BY <1>7, <2>1, <3>2 DEF a
    <3>5. QED BY <1>1, <1>4, <3>1, <3>4 DEF a
  <2>3. ~rolled /\ from = row
    BY <1>1, <1>4, <2>2
  <2>4. e < TotalColumn * TotalRow /\ row + q <= TotalRow - 1
    <3>1. e < TotalColumn * TotalRow
      BY <1>1, <1>7
    <3>2. QED BY <1>6, <3>1
  <2> HIDE DEF from, rolled, e, q, r, endRow
  <2>5. Row' = row + q /\ Column' = r
    <3>1. CASE col + k >= TotalColumn
      <4>1. skip = TotalColumn * (q - 1) + r
        BY <1>1, <1>3, Products
      <4>2. skip \div TotalColumn = q - 1 /\ skip % TotalColumn = r
        <5> DEFINE above == q - 1
        <5>1. skip \in Int /\ above \in Int
          BY <1>1, <1>3
        <5>2. skip = TotalColumn * above + r
          BY <4>1
        <5> HIDE DEF skip, above
        <5>3. skip \div TotalColumn = above /\ skip % TotalColumn = r
          <6>1. TotalColumn \in Nat \ {0} /\ r \in 0 .. TotalColumn - 1
            BY <1>1, <1>3
          <6>2. QED BY <6>1, <5>1, <5>2, DivModUnique
        <5>4. QED BY <5>3 DEF above
      <4> HIDE DEF skip
      <4>3. from + skip \div TotalColumn + 1 = row + q
        BY <1>1, <1>3, <2>3, <4>2
      <4>4. row + q \in Int /\ TotalRow - 1 \in Int
        BY <1>1, <1>3
      <4>5. Min({row + q, TotalRow - 1}) = row + q
        BY <2>4, <4>4, MinOfTwo
      <4>6. QED BY <1>2, <3>1, <4>2, <4>3, <4>5
    <3>2. CASE ~(col + k >= TotalColumn)
      <4>1. col + k \in 0 .. TotalColumn - 1 /\ col + k = TotalColumn * 0 + (col + k)
        BY <1>1, <3>2
      <4>2. q = 0 /\ r = col + k
        BY <1>1, <4>1, DivModUnique DEF q, r
      <4>3. QED BY <1>1, <1>2, <2>3, <3>2, <4>2
    <3>3. QED BY <3>1, <3>2
  <2>6. row + q >= 0
    <3>1. q >= 0
      <4>1. (col + k) >= 0
        BY <1>1
      <4>2. ~(q <= -1)
        <5>1. q <= -1 => TotalColumn * q <= TotalColumn * (-1)
          BY <1>1, <1>3, Products
        <5>2. TotalColumn * (-1) = -TotalColumn /\ TotalColumn * q \in Int
          BY <1>1, <1>3, Products
        <5>3. QED BY <1>1, <1>3, <4>1, <5>1, <5>2
      <4>3. QED BY <1>3, <4>2
    <3>2. QED BY <1>1, <1>3, <3>1
  <2>7. Up(e) = 0 /\ TotalColumn * 0 = 0
    BY <1>1, <2>4 DEF Up
  <2>8. TotalColumn * Row' + Column' = e - TotalColumn * Up(e)
    BY <1>1, <1>5, <2>5, <2>7
  <2>9. Row' \in 0 .. TotalRow - 1 /\ Column' \in 0 .. TotalColumn - 1
    BY <1>1, <1>3, <2>4, <2>5, <2>6
  <2>10. QED BY <2>8, <2>9 DEF e
<1>8. CASE t = 0 /\ ~(e < TotalColumn * TotalRow)
  <2>1. row + q >= TotalRow
    BY <1>1, <1>3, <1>6, <1>8
  <2>2. from \in Int /\ from >= row - 1
    BY <1>1
  <2>3. col + k >= TotalColumn
    <3>1. SUFFICES ASSUME ~(col + k >= TotalColumn) PROVE FALSE
      OBVIOUS
    <3> DEFINE a == col + k
    <3>2. a \in Int /\ a \in 0 .. TotalColumn - 1 /\ a = TotalColumn * 0 + a
      BY <1>1, <3>1
    <3> HIDE DEF a
    <3>5. a \div TotalColumn = 0
      BY <1>1, <3>2, DivModUnique
    <3>3. q = 0
      BY <3>5 DEF a
    <3>4. QED BY <1>1, <2>1, <3>3
  <2> HIDE DEF from, rolled, e, q, r, endRow
  <2>4. skip = TotalColumn * (q - 1) + r
    BY <1>1, <1>3, Products
  <2>5. skip \div TotalColumn = q - 1 /\ skip % TotalColumn = r
    <3> DEFINE above == q - 1
    <3>1. skip \in Int /\ above \in Int
      BY <1>1, <1>3
    <3>2. skip = TotalColumn * above + r
      BY <2>4
    <3> HIDE DEF skip, above
    <3>3. skip \div TotalColumn = above /\ skip % TotalColumn = r
      <4>1. TotalColumn \in Nat \ {0} /\ r \in 0 .. TotalColumn - 1
        BY <1>1, <1>3
      <4>2. QED BY <4>1, <3>1, <3>2, DivModUnique
    <3>4. QED BY <3>3 DEF above
  <2> HIDE DEF skip
  <2>6. from + skip \div TotalColumn + 1 = from + q
    BY <1>3, <2>2, <2>5
  <2>7. from + q \in Int /\ TotalRow - 1 \in Int /\ TotalRow - 1 <= from + q
    BY <1>1, <1>3, <2>1, <2>2
  <2>8. Min({from + q, TotalRow - 1}) = TotalRow - 1
    BY <2>7, MinOfTwo
  <2>9. Row' = TotalRow - 1 /\ Column' = r
    BY <1>2, <2>3, <2>5, <2>6, <2>8
  <2>10. Up(e) = row + q - (TotalRow - 1)
    BY <1>1, <1>3, <1>5, <1>8 DEF Up
  <2>11. TotalColumn * (row + q - (TotalRow - 1)) = TotalColumn * (row + q) - TotalColumn * (TotalRow - 1)
    <3> DEFINE a == row + q
               b == TotalRow - 1
    <3>1. a \in Int /\ b \in Int
      BY <1>1, <1>3
    <3>2. a = row + q /\ b = TotalRow - 1
      OBVIOUS
    <3> HIDE DEF a, b
    <3>3. TotalColumn * (a - b) = TotalColumn * a - TotalColumn * b
      BY <1>1, <3>1, Products
    <3>4. row + q - (TotalRow - 1) = a - b
      BY <1>1, <1>3, <3>2
    <3>5. TotalColumn * (row + q) = TotalColumn * a /\ TotalColumn * (TotalRow - 1) = TotalColumn * b
      BY <3>2
    <3>6. QED BY <3>3, <3>4, <3>5, Zenon
  <2>12. TotalColumn * (row + q) \in Int /\ TotalColumn * (TotalRow - 1) \in Int
    <3>1. row + q \in Int /\ TotalRow - 1 \in Int
      BY <1>1, <1>3
    <3>2. QED BY <1>1, <3>1, Products
  <2>13. TotalColumn * Row' + Column' = e - TotalColumn * Up(e)
    BY <1>3, <1>5, <2>9, <2>10, <2>11, <2>12
  <2>14. Row' \in 0 .. TotalRow - 1 /\ Column' \in 0 .. TotalColumn - 1
    BY <1>1, <1>3, <2>9
  <2>15. QED BY <2>13, <2>14 DEF e
<1>9. e + t < TotalColumn * TotalRow \/ (t = 0 /\ ~(e < TotalColumn * TotalRow))
  BY <1>1
<1>10. QED BY <1>7, <1>8, <1>9

\* One cell back, over the edge of a row (UefiConsole.c, MoveCursorBackward).
LEMMA BackwardGoes ==
  ASSUME NEW home \in 0 .. TotalRow - 1, NEW cur \in Nat \ {0},
         Placed(Row, Column, home, cur), MoveCursorBackward
  PROVE  Placed(Row', Column', home, cur - 1)
<1>1. /\ TotalColumn \in Nat \ {0} /\ TotalRow \in Nat \ {0, 1} /\ StartColumn \in Nat
      /\ home \in Int /\ home >= 0 /\ cur \in Nat /\ cur > 0
  BY MaxStrBound
<1>2. /\ Row \in Nat /\ Row <= TotalRow - 1 /\ Column \in Nat /\ Column <= TotalColumn - 1
      /\ TotalColumn * Row + Column = TotalColumn * home + StartColumn + cur
  BY <1>1 DEF Placed
<1>3. TotalColumn * Row \in Int /\ TotalColumn * home \in Int
  BY <1>1, <1>2, Products
<1>4. CASE Column = 0
  <2>1. Row > 0
    <3>1. Row <= home => TotalColumn * Row <= TotalColumn * home
      BY <1>1, <1>2, Products
    <3>2. QED BY <1>1, <1>2, <1>3, <1>4, <3>1
  <2>2. Row' = Row - 1 /\ Column' = TotalColumn - 1
    BY <1>4, <2>1 DEF MoveCursorBackward
  <2>3. TotalColumn * (Row - 1) = TotalColumn * Row - TotalColumn
    BY <1>1, <1>2
  <2>4. QED BY <1>1, <1>2, <1>3, <1>4, <2>1, <2>2, <2>3 DEF Placed
<1>5. CASE Column # 0
  <2>1. Row' = Row /\ Column' = Column - 1
    BY <1>5 DEF MoveCursorBackward
  <2>2. QED BY <1>1, <1>2, <1>3, <1>5, <2>1 DEF Placed
<1>6. QED BY <1>4, <1>5

\* One cell on, over the edge of a row: there is a row below, because the line
\* ends on the screen (MoveCursorForward).
LEMMA ForwardGoes ==
  ASSUME NEW home \in 0 .. TotalRow - 1, NEW cur \in Nat, NEW len \in Nat, cur < len,
         Placed(Row, Column, home, cur), Fits(home, len), MoveCursorForward
  PROVE  Placed(Row', Column', home, cur + 1)
<1>1. TotalColumn \in Nat \ {0} /\ TotalRow \in Nat \ {0, 1} /\ StartColumn \in Nat /\ home \in Int
  BY MaxStrBound
<1>2. /\ Row \in Nat /\ Row <= TotalRow - 1 /\ Column \in Nat /\ Column <= TotalColumn - 1
      /\ TotalColumn * Row + Column = TotalColumn * home + StartColumn + cur
  BY <1>1 DEF Placed
<1>3. TotalColumn * Row \in Int /\ TotalColumn * home \in Int
  BY <1>1, <1>2, Products
<1>4. CASE Column + 1 >= TotalColumn
  <2>1. TotalColumn * (Row + 1) = TotalColumn * Row + TotalColumn
    BY <1>1, <1>2
  <2>2. TotalColumn * (Row + 1) < TotalColumn * TotalRow
    <3>1. TotalColumn * (Row + 1) <= TotalColumn * home + StartColumn + len
      BY <1>1, <1>2, <1>3, <1>4, <2>1
    <3>2. TotalColumn * (Row + 1) \in Int /\ TotalColumn * TotalRow \in Int
      <4>1. Row + 1 \in Int /\ TotalRow \in Int
        BY <1>1, <1>2
      <4>2. QED BY <1>1, <4>1, Products
    <3>3. QED BY <1>1, <1>3, <3>1, <3>2 DEF Fits
  <2>3. Row < TotalRow - 1
    <3>1. Row + 1 \in Int /\ TotalRow \in Int
      BY <1>1, <1>2
    <3>2. TotalRow <= Row + 1 => TotalColumn * TotalRow <= TotalColumn * (Row + 1)
      BY <1>1, <3>1, Products
    <3>3. TotalColumn * (Row + 1) \in Int /\ TotalColumn * TotalRow \in Int
      BY <1>1, <3>1, Products
    <3>4. QED BY <1>2, <2>2, <3>1, <3>2, <3>3
  <2>4. Row' = Row + 1 /\ Column' = 0
    BY <1>4, <2>3 DEF MoveCursorForward
  <2>5. QED BY <1>1, <1>2, <1>3, <1>4, <2>1, <2>3, <2>4 DEF Placed
<1>5. CASE ~(Column + 1 >= TotalColumn)
  <2>1. Row' = Row /\ Column' = Column + 1
    BY <1>5 DEF MoveCursorForward
  <2>2. QED BY <1>1, <1>2, <1>3, <1>5, <2>1 DEF Placed
<1>6. QED BY <1>4, <1>5

-----------------------------------------------------------------------------
(* The screen.                                                              *)

\* Before the place at which the output starts, the screen shows what it did,
\* and from there on the new string; it scrolls by what does not fit (Output).
LEMMA OutputShows ==
  ASSUME NEW s, NEW n \in Places, StrLen(s) = n, NEW update \in 0 .. n, NEW delete \in Nat,
         NEW col \in Int, NEW row \in Int, NEW home \in Int, ~misplaced, top = home,
         TotalColumn * row + col = TotalColumn * home + StartColumn + update,
         Output(s, update, delete, col, row)
  PROVE  /\ top' = home - Up(TotalColumn * home + StartColumn + n + delete)
         /\ \A i \in 0 .. n - 1 : shown'[i] = IF i < update THEN shown[i] ELSE s[i]
<1> DEFINE at == (row - top) * TotalColumn + col - StartColumn
           end == row * TotalColumn + col + (StrLen(s) - update) + delete
           last == TotalColumn * home + StartColumn + n + delete
<1>1. /\ TotalColumn \in Nat \ {0} /\ StartColumn \in Nat /\ Places = 0 .. MaxStr - 1 /\ MaxStr \in Nat
      /\ n \in Nat /\ n <= MaxStr - 1 /\ update \in Nat /\ update <= n
  BY MaxStrBound DEF Places
<1>2. PICK tail \in {Blank, Junk} :
        /\ shown' = [i \in Places |->
                       CASE i \in at .. at + (StrLen(s) - update) - 1 -> s[update + i - at]
                         [] i \in at + (StrLen(s) - update) .. at + (StrLen(s) - update) + delete - 1 -> tail
                         [] OTHER -> shown[i]]
        /\ top' = top - Max({0, end \div TotalColumn - (TotalRow - 1)})
  BY DEF Output
<1>3. /\ TotalColumn * row \in Int /\ TotalColumn * home \in Int /\ row * TotalColumn = TotalColumn * row
      /\ TotalColumn * (row - home) = TotalColumn * row - TotalColumn * home
  BY <1>1, Products
<1>4. (row - home) * TotalColumn = TotalColumn * (row - home)
  <2>1. row - home \in Int
    OBVIOUS
  <2>2. QED BY <1>1, <2>1, Products
<1>5. at = update
  BY <1>1, <1>3, <1>4
<1>6. end = last /\ last \in Int
  BY <1>1, <1>3
<1> HIDE DEF at, end, last
<1>7. top' = home - Up(last)
  BY <1>2, <1>6, UpIs
<1>8. ASSUME NEW i \in 0 .. n - 1
      PROVE  shown'[i] = IF i < update THEN shown[i] ELSE s[i]
  <2>1. i \in Places /\ i \in Nat /\ i <= n - 1
    BY <1>1
  <2>2. shown'[i] = CASE i \in update .. update + (n - update) - 1 -> s[update + i - update]
                      [] i \in update + (n - update) .. update + (n - update) + delete - 1 -> tail
                      [] OTHER -> shown[i]
    BY <1>2, <1>5, <2>1
  <2>3. update + (n - update) = n /\ update + i - update = i
    BY <1>1, <2>1
  <2>4. CASE i < update
    <3>1. /\ i \notin update .. update + (n - update) - 1
          /\ i \notin update + (n - update) .. update + (n - update) + delete - 1
      BY <1>1, <2>1, <2>4
    <3>2. QED BY <2>2, <2>4, <3>1
  <2>5. CASE ~(i < update)
    <3>1. i \in update .. update + (n - update) - 1
      BY <1>1, <2>1, <2>5
    <3>2. i \notin update + (n - update) .. update + (n - update) + delete - 1
      BY <1>1, <2>1
    <3>3. shown'[i] = s[update + i - update]
      BY <2>2, <3>1, <3>2
    <3>4. QED BY <2>3, <2>5, <3>3
  <2>6. QED BY <2>4, <2>5
<1>9. QED BY <1>7, <1>8 DEF last

\* A key that changes the string from place update on and prints it from there
\* leaves the screen and the prompt's row right.
LEMMA ScreenFollows ==
  ASSUME LineInv, ScreenInv, NEW s, NEW n \in Places, NEW c, NEW update \in 0 .. n, NEW delete \in Nat,
         NEW col \in Int, NEW row \in Int, NEW home \in Int, home = HomeRow,
         Edited(s, n, c), StrLen(s) = n, Output(s, update, delete, col, row),
         TotalColumn * row + col = TotalColumn * home + StartColumn + update,
         update <= StringLen, \A i \in 0 .. update - 1 : s[i] = CurrentString[i],
         misplaced' \in BOOLEAN, ~misplaced' => ~misplaced,
         ~misplaced' => HomeRow' = home - Up(TotalColumn * home + StartColumn + n + delete)
  PROVE  ScreenInv'
<1> SUFFICES ASSUME ~misplaced'
             PROVE  top' = HomeRow' /\ \A i \in 0 .. StringLen' - 1 : shown'[i] = CurrentString'[i]
  BY DEF ScreenInv
<1>1. ~misplaced /\ top = home /\ \A i \in 0 .. StringLen - 1 : shown[i] = CurrentString[i]
  BY DEF ScreenInv
<1>2. /\ top' = home - Up(TotalColumn * home + StartColumn + n + delete)
      /\ \A i \in 0 .. n - 1 : shown'[i] = IF i < update THEN shown[i] ELSE s[i]
  BY <1>1, OutputShows
<1>3. StringLen' = n /\ \A i \in 0 .. n - 1 : CurrentString'[i] = s[i]
  BY DEF Edited
<1>4. ASSUME NEW i \in 0 .. n - 1
      PROVE  shown'[i] = CurrentString'[i]
  <2>1. n \in Nat /\ update \in Nat /\ StringLen \in Nat /\ i \in Nat
    BY LineFacts
  <2>2. i < update => i \in 0 .. update - 1 /\ i \in 0 .. StringLen - 1
    BY <2>1
  <2>3. QED BY <1>1, <1>2, <1>3, <2>2
<1>5. QED BY <1>2, <1>3, <1>4

-----------------------------------------------------------------------------
(* The keys.                                                                *)

\* What every key that edits the line leaves as it was.
LEMMA EditKeeps ==
  ASSUME LineInv, HistoryInv, reading, NEW s, NEW n, NEW c, Edited(s, n, c),
         LinePos' \in 0 .. Len(CommandHistory)
  PROVE  LineInv' /\ HistoryInv' /\ IdleInv' /\ StringLen' \in Nat /\ StringCurPos' \in Nat
<1>1. /\ StringLen' = n /\ StringCurPos' = c /\ c \in 0 .. n /\ IsLine(CurrentString', n)
      /\ reading' = reading /\ CommandHistory' = CommandHistory
  BY DEF Edited
<1>2. LineInv'
  BY <1>1 DEF LineInv, IsLine, Places, MaxStr
<1>3. HistoryInv'
  BY <1>1 DEF HistoryInv, MaxStr
<1>4. IdleInv'
  BY <1>1 DEF IdleInv
<1>5. n \in Nat /\ c \in Nat
  <2>1. n \in Places
    BY <1>1 DEF IsLine
  <2>2. QED BY <1>1, <2>1, LineFacts
<1>6. QED BY <1>1, <1>2, <1>3, <1>4, <1>5

\* Where the prompt is after an output that ends where the new line does: on
\* the screen, because the line leaves a row free (MaxStrLength).
LEMMA ScrolledHome ==
  ASSUME NEW home \in 0 .. TotalRow - 1, NEW n \in Places
  PROVE  LET up == Up(TotalColumn * home + StartColumn + n)
         IN  /\ home - up \in 0 .. TotalRow - 1
             /\ Fits(home - up, n)
             /\ TotalColumn * (home - up) = TotalColumn * home - TotalColumn * up
             /\ TotalColumn * up \in Int
<1> DEFINE last == TotalColumn * home + StartColumn + n
           up == Up(last)
           q == last \div TotalColumn
           r == last % TotalColumn
<1>1. /\ TotalColumn \in Nat \ {0} /\ TotalRow \in Nat \ {0, 1} /\ StartColumn \in Nat
      /\ MaxStr + StartColumn <= TotalColumn * (TotalRow - 1) /\ MaxStr \in Nat
      /\ n \in Nat /\ n <= MaxStr - 1 /\ home \in Int /\ TotalRow - 1 \in Int /\ TotalRow \in Int
  BY MaxStrBound DEF Places
<1>2. /\ TotalColumn * home \in Int /\ TotalColumn * TotalRow \in Int
      /\ TotalColumn * (TotalRow - 1) = TotalColumn * TotalRow - TotalColumn
  BY <1>1, Products
<1>3. last \in Int
  BY <1>1, <1>2
<1>4. up \in Nat /\ up = IF last < TotalColumn * TotalRow THEN 0 ELSE q - (TotalRow - 1)
  BY <1>3, UpIs DEF Up
<1>5. TotalColumn * (home - up) = TotalColumn * home - TotalColumn * up /\ TotalColumn * up \in Int
  BY <1>1, <1>4, Products
<1>6. q \in Int /\ r \in 0 .. TotalColumn - 1 /\ last = TotalColumn * q + r
  BY <1>1, <1>3, DivMod
<1>7. CASE last < TotalColumn * TotalRow
  <2> HIDE DEF up, q, r, last
  <2>1. up = 0 /\ home - up = home
    BY <1>1, <1>4, <1>7
  <2>2. Fits(home, n)
    BY <1>7 DEF Fits, last
  <2>3. QED BY <1>5, <2>1, <2>2 DEF up, last
<1>8. CASE ~(last < TotalColumn * TotalRow)
  <2> HIDE DEF up, q, r
  <2>1. up = q - (TotalRow - 1)
    BY <1>4, <1>8
  <2>2. TotalColumn * up = TotalColumn * q - TotalColumn * (TotalRow - 1)
    BY <1>1, <1>6, <2>1, Products
  <2>3. TotalColumn * q \in Int
    BY <1>1, <1>6, Products
  <2>4. TotalColumn * (home - up) + StartColumn + n = TotalColumn * (TotalRow - 1) + r
    BY <1>1, <1>2, <1>5, <1>6, <2>2, <2>3
  <2>5. Fits(home - up, n)
    BY <1>1, <1>2, <1>6, <2>4 DEF Fits
  <2>6. TotalColumn * (home - up) > 0
    BY <1>1, <1>2, <1>5, <1>6, <2>4
  <2>7. home - up > 0
    <3> DEFINE a == home - up
    <3>1. a \in Int
      BY <1>1, <1>4
    <3>2. TotalColumn * a > 0
      BY <2>6
    <3> HIDE DEF a
    <3>3. a <= 0 => TotalColumn * a <= TotalColumn * 0
      BY <1>1, <3>1, Products
    <3>4. TotalColumn * a \in Int /\ TotalColumn * 0 = 0
      BY <1>1, <3>1, Products
    <3>5. a > 0
      BY <3>1, <3>2, <3>3, <3>4
    <3>6. QED BY <3>5 DEF a
  <2>8. home - up \in 0 .. TotalRow - 1
    BY <1>1, <1>4, <2>7
  <2>9. QED BY <1>5, <2>5, <2>8 DEF up, last
<1>9. QED BY <1>7, <1>8

\* An output behind which a line that fits ends does not scroll.
LEMMA UpOfFitting ==
  ASSUME NEW e \in Int, e < TotalColumn * TotalRow
  PROVE  Up(e) = 0
BY DEF Up

\* What the steps below need of the state before them.
LEMMA KeyFacts ==
  ASSUME IInv
  PROVE  /\ LineInv /\ HistoryInv /\ TrackInv /\ ScreenInv
         /\ HomeRow \in 0 .. TotalRow - 1 /\ Placed(Row, Column, HomeRow, StringCurPos)
         /\ Fits(HomeRow, StringLen)
         /\ TotalColumn \in Nat \ {0} /\ TotalRow \in Nat \ {0, 1} /\ StartColumn \in Nat /\ TotalRow \in Int
         /\ StringCurPos \in Nat /\ StringLen \in Nat /\ StringCurPos <= StringLen
         /\ HomeRow \in Int /\ Row \in Int /\ Column \in Int
         /\ TotalColumn * Row \in Int /\ TotalColumn * HomeRow \in Int /\ TotalColumn * TotalRow \in Int
<1>1. LineInv /\ HistoryInv /\ TrackInv /\ ScreenInv
  BY DEF IInv
<1>2. /\ HomeRow \in 0 .. TotalRow - 1 /\ Placed(Row, Column, HomeRow, StringCurPos)
      /\ Fits(HomeRow, StringLen)
  BY <1>1, TrackIs
<1>3. TotalColumn \in Nat \ {0} /\ TotalRow \in Nat \ {0, 1} /\ StartColumn \in Nat /\ TotalRow \in Int
  BY MaxStrBound
<1>4. StringCurPos \in Nat /\ StringLen \in Nat /\ StringCurPos <= StringLen
  BY <1>1, LineFacts
<1>5. HomeRow \in Int /\ Row \in Int /\ Column \in Int
  BY <1>2, <1>3 DEF Placed
<1>6. QED BY <1>1, <1>2, <1>3, <1>4, <1>5, Products

\* The prompt stays where it is when the line keeps its length or gets shorter.
LEMMA FitsShorter ==
  ASSUME NEW home \in Int, NEW n \in Nat, NEW len \in Nat, n <= len, Fits(home, len)
  PROVE  Fits(home, n)
<1>1. TotalColumn * home \in Int /\ TotalColumn * TotalRow \in Int /\ StartColumn \in Nat
  <2>1. TotalColumn \in Nat \ {0} /\ TotalRow \in Int /\ StartColumn \in Nat
    BY MaxStrBound
  <2>2. QED BY <2>1, Products
<1>2. QED BY <1>1 DEF Fits

\* A character at the end of the screen rolls it up, and the prompt with it.
LEMMA CharacterStep ==
  ASSUME IInv, NEW c \in Chars, Character(c)
  PROVE  IInv'
<1> DEFINE s == [CurrentString EXCEPT ![StringCurPos] = c]
           n == IF StringCurPos < StringLen THEN StringLen ELSE StringLen + 1
           cur == StringCurPos
           home == HomeRow
           e == TotalColumn * Row + Column + 1
           last == TotalColumn * home + StartColumn + n
<1>1. LineInv /\ HistoryInv /\ TrackInv /\ ScreenInv /\ reading
      /\ LinePos' = LinePos /\ misplaced' = misplaced /\ CursorAfter(Column, Row, 1, StrLen(s) - (cur + 1))
  BY DEF IInv, Character
<1>2. /\ Edited(s, n, cur + 1) /\ Output(s, cur, 0, Column, Row)
      /\ StrLen(s) = n /\ n \in Places /\ cur < MaxStr - 1
  BY <1>1, CharacterEdits
<1>3. /\ home \in 0 .. TotalRow - 1 /\ Placed(Row, Column, home, cur) /\ Fits(home, StringLen)
  BY <1>1, TrackIs
<1>4. /\ TotalColumn \in Nat \ {0} /\ TotalRow \in Nat \ {0, 1} /\ StartColumn \in Nat /\ TotalRow \in Int
      /\ cur \in Nat /\ StringLen \in Nat /\ cur <= StringLen /\ n \in Nat
      /\ home \in Int /\ Row \in Int /\ Column \in Int
      /\ TotalColumn * Row \in Int /\ TotalColumn * home \in Int /\ TotalColumn * TotalRow \in Int
  <2>1. TotalColumn \in Nat \ {0} /\ TotalRow \in Nat \ {0, 1} /\ StartColumn \in Nat /\ TotalRow \in Int
    BY MaxStrBound
  <2>2. cur \in Nat /\ StringLen \in Nat /\ cur <= StringLen /\ n \in Nat
    BY <1>1, LineFacts
  <2>3. home \in Int /\ Row \in Int /\ Column \in Int
    BY <1>3, <2>1 DEF Placed
  <2>4. QED BY <2>1, <2>2, <2>3, Products
<1>5. e = TotalColumn * home + StartColumn + cur + 1 /\ e \in Int /\ last \in Int
  BY <1>3, <1>4 DEF Placed
<1>6. n - (cur + 1) \in Nat /\ (n - (cur + 1) = 0 => last = e)
      /\ (n - (cur + 1) = 0 \/ (last < TotalColumn * TotalRow /\ e + (n - (cur + 1)) = last /\ e <= last))
  BY <1>3, <1>4, <1>5 DEF Fits
<1>7. Up(last) = Up(e)
  <2> HIDE DEF last, e
  <2>1. CASE last = e
    BY <2>1
  <2>2. CASE last # e
    <3>1. last < TotalColumn * TotalRow /\ e < TotalColumn * TotalRow
      BY <1>4, <1>5, <1>6, <2>2
    <3>2. QED BY <1>5, <3>1, UpOfFitting
  <2>3. QED BY <2>1, <2>2
<1>8. /\ Row' \in 0 .. TotalRow - 1 /\ Column' \in 0 .. TotalColumn - 1
      /\ TotalColumn * Row' + Column' = e - TotalColumn * Up(e)
  <2> DEFINE t == n - (cur + 1)
  <2>1. t \in Nat /\ (t = 0 \/ TotalColumn * Row + Column + 1 + t < TotalColumn * TotalRow)
    BY <1>4, <1>5, <1>6
  <2>2. CursorAfter(Column, Row, 1, t)
    BY <1>1, <1>2
  <2>3. Row \in 0 .. TotalRow - 1 /\ Column \in 0 .. TotalColumn - 1 /\ 1 \in Nat
    BY <1>3 DEF Placed
  <2> HIDE DEF t
  <2>4. QED BY <2>1, <2>2, <2>3, CursorGoes
<1> HIDE DEF s, n
<1> DEFINE up == Up(last)
<1>9. /\ home - up \in 0 .. TotalRow - 1 /\ Fits(home - up, n)
      /\ TotalColumn * (home - up) = TotalColumn * home - TotalColumn * up /\ TotalColumn * up \in Int
  BY <1>2, <1>3, ScrolledHome
<1> HIDE DEF up
<1>10. Placed(Row', Column', home - up, cur + 1)
  <2>1. TotalColumn * Row' + Column' = TotalColumn * (home - up) + StartColumn + (cur + 1)
    BY <1>4, <1>5, <1>7, <1>8, <1>9 DEF up
  <2>2. QED BY <1>8, <2>1 DEF Placed
<1>11. LineInv' /\ HistoryInv' /\ IdleInv' /\ StringLen' \in Nat /\ StringCurPos' \in Nat
  <2>1. LinePos' \in 0 .. Len(CommandHistory)
    BY <1>1 DEF HistoryInv
  <2>2. QED BY <1>1, <1>2, <2>1, EditKeeps
<1>12. StringLen' = n /\ StringCurPos' = cur + 1
  BY <1>2 DEF Edited
<1>13. TrackInv' /\ HomeRow' = home - up
  BY <1>9, <1>10, <1>11, <1>12, TrackFrom
<1>14. ScreenInv'
  <2>1. cur \in 0 .. n /\ cur <= StringLen /\ \A i \in 0 .. cur - 1 : s[i] = CurrentString[i]
    <3>1. cur \in 0 .. n
      BY <1>4, <1>6
    <3>2. \A i \in Places : i # cur => s[i] = CurrentString[i]
      BY <1>1, LineFacts DEF s
    <3>3. 0 .. cur - 1 \subseteq Places
      BY <1>1, LineFacts
    <3>4. QED BY <1>4, <3>1, <3>2, <3>3
  <2>2. TotalColumn * Row + Column = TotalColumn * home + StartColumn + cur
    BY <1>3 DEF Placed
  <2>3. misplaced' \in BOOLEAN /\ (~misplaced' => ~misplaced)
    BY <1>1 DEF ScreenInv
  <2>4. HomeRow' = home - Up(TotalColumn * home + StartColumn + n + 0)
    <3>1. last = last + 0
      BY <1>5
    <3>2. QED BY <1>13, <3>1 DEF up, last
  <2>5. QED BY <1>1, <1>2, <1>4, <2>1, <2>2, <2>3, <2>4, ScreenFollows
<1>15. QED BY <1>11, <1>13, <1>14 DEF IInv

\* The code goes back over the edge of a row before it prints.
LEMMA BackspaceStep ==
  ASSUME IInv, BackspaceKey
  PROVE  IInv'
<1> DEFINE cur == StringCurPos
           len == StringLen
           home == HomeRow
           s == Without(cur - 1)
           last == TotalColumn * home + StartColumn + (len - 1) + 1
<1>1. reading /\ cur # 0 /\ MoveCursorBackward /\ LinePos' = LinePos /\ misplaced' = misplaced
  BY DEF BackspaceKey
<1>2. /\ Edited(s, len - 1, cur - 1) /\ Output(s, cur - 1, 1, Column', Row')
      /\ StrLen(s) = len - 1 /\ len - 1 \in Places
      /\ \A i \in 0 .. len - 2 : s[i] = CurrentString[IF i < cur - 1 THEN i ELSE i + 1]
  BY KeyFacts, BackspaceEdits
<1>3. cur \in Nat \ {0} /\ len \in Nat /\ cur <= len /\ cur - 1 \in Nat /\ len - 1 \in Nat
  BY <1>1, KeyFacts
<1>4. Placed(Row', Column', home, cur - 1)
  BY <1>1, <1>3, KeyFacts, BackwardGoes
<1>5. Fits(home, len - 1)
  BY <1>3, KeyFacts, FitsShorter
<1>6. LineInv' /\ HistoryInv' /\ IdleInv' /\ StringLen' \in Nat /\ StringCurPos' \in Nat
  <2>1. LinePos' \in 0 .. Len(CommandHistory)
    BY <1>1, KeyFacts DEF HistoryInv
  <2>2. QED BY <1>1, <1>2, <2>1, KeyFacts, EditKeeps
<1>7. StringLen' = len - 1 /\ StringCurPos' = cur - 1
  BY <1>2 DEF Edited
<1>8. TrackInv' /\ HomeRow' = home
  BY <1>4, <1>5, <1>6, <1>7, KeyFacts, TrackFrom
<1> HIDE DEF s
<1>9. ScreenInv'
  <2>1. last \in Int /\ last < TotalColumn * TotalRow
    BY <1>3, KeyFacts DEF Fits
  <2>2. HomeRow' = home - Up(last)
    <3>1. Up(last) = 0
      BY <2>1, UpOfFitting
    <3> HIDE DEF last
    <3>2. home - 0 = home
      BY KeyFacts
    <3>3. QED BY <1>8, <3>1, <3>2
  <2>3. cur - 1 \in 0 .. len - 1 /\ cur - 1 <= len /\ \A i \in 0 .. (cur - 1) - 1 : s[i] = CurrentString[i]
    <3>1. cur - 1 \in 0 .. len - 1 /\ cur - 1 <= len
      BY <1>3
    <3>2. ASSUME NEW i \in 0 .. (cur - 1) - 1
          PROVE  s[i] = CurrentString[i]
      <4>1. i \in 0 .. len - 2 /\ i < cur - 1
        BY <1>3
      <4>2. QED BY <1>2, <4>1
    <3>3. QED BY <3>1, <3>2
  <2>4. /\ TotalColumn * Row' + Column' = TotalColumn * home + StartColumn + (cur - 1)
        /\ Row' \in Int /\ Column' \in Int
    BY <1>4, KeyFacts DEF Placed
  <2>5. misplaced' \in BOOLEAN /\ (~misplaced' => ~misplaced)
    BY <1>1, KeyFacts DEF ScreenInv
  <2> DEFINE n == len - 1
             update == cur - 1
  <2> HIDE DEF n, update
  <2>6. QED BY <1>2, <2>2, <2>3, <2>4, <2>5, KeyFacts, ScreenFollows
<1>10. QED BY <1>6, <1>8, <1>9 DEF IInv

\* The cell behind the line is printed too; when that scrolls the screen, the
\* code's row and column stay, and are right for the prompt's old row only.
LEMMA DeleteStep ==
  ASSUME IInv, DeleteKey
  PROVE  IInv'
<1> DEFINE cur == StringCurPos
           len == StringLen
           home == HomeRow
           s == Without(cur)
           n == IF cur < len THEN len - 1 ELSE len
           last == TotalColumn * home + StartColumn + n + 1
<1>1. reading /\ UNCHANGED <<Column, Row, LinePos>> /\ misplaced' = (misplaced \/ top' # top)
  BY DEF DeleteKey
<1>2. /\ Edited(s, n, cur) /\ Output(s, cur, 1, Column, Row)
      /\ StrLen(s) = n /\ n \in Places
      /\ \A i \in 0 .. n - 1 : s[i] = CurrentString[IF i < cur THEN i ELSE i + 1]
  BY KeyFacts, DeleteEdits
<1>3. cur \in Nat /\ len \in Nat /\ cur <= len /\ n \in Nat /\ n <= len /\ cur <= n
  BY KeyFacts
<1> HIDE DEF s, n
<1>4. Fits(home, n)
  BY <1>3, KeyFacts, FitsShorter
<1>5. LineInv' /\ HistoryInv' /\ IdleInv' /\ StringLen' \in Nat /\ StringCurPos' \in Nat
  <2>1. LinePos' \in 0 .. Len(CommandHistory)
    BY <1>1, KeyFacts DEF HistoryInv
  <2>2. QED BY <1>1, <1>2, <2>1, KeyFacts, EditKeeps
<1>6. StringLen' = n /\ StringCurPos' = cur
  BY <1>2 DEF Edited
<1>7. Placed(Row', Column', home, StringCurPos')
  BY <1>1, <1>6, KeyFacts DEF Placed
<1>8. TrackInv' /\ HomeRow' = home
  BY <1>4, <1>5, <1>6, <1>7, KeyFacts, TrackFrom
<1>9. ScreenInv'
  <2>1. last \in Int
    BY <1>3, KeyFacts
  <2>2. cur \in 0 .. n /\ cur <= len /\ \A i \in 0 .. cur - 1 : s[i] = CurrentString[i]
    <3>1. cur \in 0 .. n /\ cur <= len
      BY <1>3
    <3>2. ASSUME NEW i \in 0 .. cur - 1
          PROVE  s[i] = CurrentString[i]
      <4>1. i \in 0 .. n - 1 /\ i < cur
        BY <1>3
      <4>2. QED BY <1>2, <4>1
    <3>3. QED BY <3>1, <3>2
  <2>3. TotalColumn * Row + Column = TotalColumn * home + StartColumn + cur
    BY KeyFacts DEF Placed
  <2>4. misplaced' \in BOOLEAN /\ (~misplaced' => ~misplaced /\ top' = top)
    BY <1>1, KeyFacts DEF ScreenInv
  <2>5. ~misplaced' => HomeRow' = home - Up(last)
    <3> SUFFICES ASSUME ~misplaced' PROVE HomeRow' = home - Up(last)
      OBVIOUS
    <3>1. ~misplaced /\ top = home
      BY <2>4, KeyFacts DEF ScreenInv
    <3>2. top' = home - Up(last)
      BY <1>2, <2>2, <2>3, <3>1, KeyFacts, OutputShows
    <3>3. QED BY <1>8, <2>4, <3>1, <3>2
  <2>6. QED BY <1>2, <2>2, <2>3, <2>4, <2>5, KeyFacts, ScreenFollows
<1>10. QED BY <1>5, <1>8, <1>9 DEF IInv

\* A key that moves the cursor only has to keep row and column at its place.
LEMMA MoveKeeps ==
  ASSUME IInv, UNCHANGED <<reading, CurrentString, StringLen, LinePos, CommandHistory, screen>>,
         reading, StringCurPos' \in 0 .. StringLen, Placed(Row', Column', HomeRow, StringCurPos')
  PROVE  IInv'
<1>1. /\ reading' /\ CurrentString' = CurrentString /\ StringLen' = StringLen /\ LinePos' = LinePos
      /\ CommandHistory' = CommandHistory /\ top' = top /\ shown' = shown /\ misplaced' = misplaced
  BY DEF screen
<1>2. LineInv' /\ HistoryInv' /\ IdleInv'
  <2>1. LineInv'
    BY <1>1, KeyFacts DEF LineInv, IsLine, Places, MaxStr
  <2>2. HistoryInv'
    BY <1>1, KeyFacts DEF HistoryInv, MaxStr
  <2>3. IdleInv'
    BY <1>1 DEF IdleInv
  <2>4. QED BY <2>1, <2>2, <2>3
<1>3. TrackInv' /\ HomeRow' = HomeRow
  <2>1. StringCurPos' \in Nat /\ StringLen' \in Nat /\ Fits(HomeRow, StringLen')
    BY <1>1, KeyFacts
  <2>2. QED BY <2>1, KeyFacts, TrackFrom
<1>4. ScreenInv'
  BY <1>1, <1>3, KeyFacts DEF ScreenInv
<1>5. QED BY <1>2, <1>3, <1>4 DEF IInv

\* LEFT and RIGHT go one cell over the edges of the rows.
LEMMA LeftStep ==
  ASSUME IInv, LeftKey
  PROVE  IInv'
<1>1. /\ reading /\ StringCurPos # 0 /\ StringCurPos' = StringCurPos - 1 /\ MoveCursorBackward
      /\ UNCHANGED <<reading, CurrentString, StringLen, LinePos, CommandHistory, screen>>
  BY DEF LeftKey
<1>2. StringCurPos \in Nat \ {0} /\ StringCurPos' \in 0 .. StringLen
  BY <1>1, KeyFacts
<1>3. Placed(Row', Column', HomeRow, StringCurPos - 1)
  BY <1>1, <1>2, KeyFacts, BackwardGoes
<1>4. QED BY <1>1, <1>2, <1>3, MoveKeeps

LEMMA RightStep ==
  ASSUME IInv, RightKey
  PROVE  IInv'
<1>1. /\ reading /\ StringCurPos < StringLen /\ StringCurPos' = StringCurPos + 1 /\ MoveCursorForward
      /\ UNCHANGED <<reading, CurrentString, StringLen, LinePos, CommandHistory, screen>>
  BY DEF RightKey
<1>2. StringCurPos' \in 0 .. StringLen
  BY <1>1, KeyFacts
<1>3. Placed(Row', Column', HomeRow, StringCurPos + 1)
  BY <1>1, KeyFacts, ForwardGoes
<1>4. QED BY <1>1, <1>2, <1>3, MoveKeeps

\* HOME goes to the prompt's row, END to the row of the end of the line.
LEMMA HomeStep ==
  ASSUME IInv, HomeKey
  PROVE  IInv'
<1>1. /\ reading /\ StringCurPos' = 0 /\ Row' = HomeRow /\ Column' = StartColumn
      /\ UNCHANGED <<reading, CurrentString, StringLen, LinePos, CommandHistory, screen>>
  BY DEF HomeKey
<1>2. StringCurPos' \in 0 .. StringLen
  BY <1>1, KeyFacts
<1>3. Placed(Row', Column', HomeRow, 0)
  <2>1. StartColumn \in 0 .. TotalColumn - 1
    BY MaxStrBound
  <2>2. TotalColumn * HomeRow + StartColumn = TotalColumn * HomeRow + StartColumn + 0
    BY KeyFacts
  <2>3. QED BY <1>1, <2>1, <2>2, KeyFacts DEF Placed
<1>4. QED BY <1>1, <1>2, <1>3, MoveKeeps

LEMMA EndStep ==
  ASSUME IInv, EndKey
  PROVE  IInv'
<1> DEFINE offset == StringLen - StringCurPos + Column
           q == offset \div TotalColumn
           r == offset % TotalColumn
<1>1. /\ reading /\ StringCurPos' = StringLen /\ Row' = Row + q /\ Column' = r
      /\ UNCHANGED <<reading, CurrentString, StringLen, LinePos, CommandHistory, screen>>
  BY DEF EndKey
<1>2. StringCurPos' \in 0 .. StringLen
  BY <1>1, KeyFacts
<1>3. Row \in 0 .. TotalRow - 1 /\ Column \in 0 .. TotalColumn - 1
      /\ TotalColumn * Row + Column = TotalColumn * HomeRow + StartColumn + StringCurPos
  BY KeyFacts DEF Placed
<1>4. offset \in Int /\ offset >= 0
  BY <1>3, KeyFacts
<1>5. q \in Int /\ r \in 0 .. TotalColumn - 1 /\ offset = TotalColumn * q + r
  BY <1>4, KeyFacts, DivMod
<1> HIDE DEF q, r
<1>6. TotalColumn * (Row + q) = TotalColumn * Row + TotalColumn * q /\ TotalColumn * q \in Int
  BY <1>5, KeyFacts, Products
<1>7. TotalColumn * (Row + q) + r = TotalColumn * HomeRow + StartColumn + StringLen
  <2> DEFINE x == TotalColumn * Row
             y == TotalColumn * HomeRow
             z == TotalColumn * q
  <2>1. /\ x \in Int /\ y \in Int /\ z \in Int /\ r \in Int /\ Column \in Int
        /\ StartColumn \in Int /\ StringCurPos \in Int /\ StringLen \in Int
    BY <1>5, <1>6, KeyFacts
  <2>2. x + Column = y + StartColumn + StringCurPos /\ StringLen - StringCurPos + Column = z + r
    BY <1>3, <1>5
  <2>3. TotalColumn * (Row + q) = x + z
    BY <1>6
  <2> HIDE DEF x, y, z
  <2>4. x + z + r = y + StartColumn + StringLen
    BY <2>1, <2>2
  <2>5. QED BY <2>3, <2>4 DEF y
<1>8. q >= 0
  <2>1. q <= -1 => TotalColumn * q <= TotalColumn * (-1)
    BY <1>5, KeyFacts, Products
  <2>2. TotalColumn * (-1) = -TotalColumn
    BY KeyFacts
  <2>3. ~(q <= -1)
    BY <1>4, <1>5, <1>6, <2>1, <2>2, KeyFacts
  <2>4. QED BY <1>5, <2>3
<1>9. Row + q <= TotalRow - 1
  <2> DEFINE a == Row + q
  <2>1. a \in Int
    BY <1>5, KeyFacts
  <2>2. TotalColumn * a < TotalColumn * TotalRow
    BY <1>5, <1>6, <1>7, KeyFacts DEF Fits
  <2> HIDE DEF a
  <2>3. TotalRow <= a => TotalColumn * TotalRow <= TotalColumn * a
    BY <2>1, KeyFacts, Products
  <2>4. TotalColumn * a \in Int
    BY <2>1, KeyFacts, Products
  <2>5. a <= TotalRow - 1
    BY <2>1, <2>2, <2>3, <2>4, KeyFacts
  <2>6. QED BY <2>5 DEF a
<1>10. Placed(Row', Column', HomeRow, StringCurPos')
  <2>1. Row + q \in 0 .. TotalRow - 1
    BY <1>3, <1>5, <1>8, <1>9, KeyFacts
  <2>2. QED BY <1>1, <1>5, <1>7, <2>1 DEF Placed
<1>11. QED BY <1>1, <1>2, <1>10, MoveKeeps

\* ESC prints blanks over the line, which was on the screen.
LEMMA EscapeStep ==
  ASSUME IInv, EscapeKey
  PROVE  IInv'
<1> DEFINE s == [CurrentString EXCEPT ![0] = NUL]
           home == HomeRow
           e == TotalColumn * home + StartColumn + 0
           last == TotalColumn * home + StartColumn + 0 + StringLen
<1>1. reading /\ LinePos' = LinePos /\ misplaced' = misplaced /\ CursorAfter(StartColumn, home, 0, 0)
  BY DEF EscapeKey
<1>2. Edited(s, 0, 0) /\ Output(s, 0, StringLen, StartColumn, home) /\ StrLen(s) = 0
  BY KeyFacts, EscapeEdits
<1>3. StartColumn \in 0 .. TotalColumn - 1
  BY MaxStrBound
<1>4. /\ Row' \in 0 .. TotalRow - 1 /\ Column' \in 0 .. TotalColumn - 1
      /\ TotalColumn * Row' + Column' = e - TotalColumn * Up(e)
  BY <1>1, <1>3, KeyFacts, CursorGoes
<1>5. e \in Int /\ last \in Int /\ e < TotalColumn * TotalRow /\ last < TotalColumn * TotalRow
  BY KeyFacts DEF Fits
<1>6. Up(e) = 0 /\ Up(last) = 0 /\ TotalColumn * 0 = 0
  BY <1>5, KeyFacts, UpOfFitting
<1>7. Placed(Row', Column', home, 0)
  BY <1>4, <1>5, <1>6, KeyFacts DEF Placed
<1>8. LineInv' /\ HistoryInv' /\ IdleInv' /\ StringLen' \in Nat /\ StringCurPos' \in Nat
  <2>1. LinePos' \in 0 .. Len(CommandHistory)
    BY <1>1, KeyFacts DEF HistoryInv
  <2>2. QED BY <1>1, <1>2, <2>1, KeyFacts, EditKeeps
<1>9. StringLen' = 0 /\ StringCurPos' = 0
  BY <1>2 DEF Edited
<1>10. TrackInv' /\ HomeRow' = home
  <2>1. Fits(home, 0)
    BY KeyFacts, FitsShorter
  <2>2. QED BY <1>7, <1>8, <1>9, <2>1, KeyFacts, TrackFrom
<1> HIDE DEF s
<1>11. ScreenInv'
  <2>1. HomeRow' = home - Up(last)
    BY <1>6, <1>10, KeyFacts
  <2>2. TotalColumn * home + StartColumn = TotalColumn * home + StartColumn + 0
    BY KeyFacts
  <2>3. misplaced' \in BOOLEAN /\ (~misplaced' => ~misplaced)
    BY <1>1, KeyFacts DEF ScreenInv
  <2>4. 0 \in Places /\ 0 \in 0 .. 0 /\ 0 <= StringLen /\ \A i \in 0 .. 0 - 1 : s[i] = CurrentString[i]
    BY KeyFacts, LineFacts
  <2>5. StartColumn \in Int
    BY KeyFacts
  <2>6. QED BY <1>2, <2>1, <2>2, <2>3, <2>4, <2>5, KeyFacts, ScreenFollows
<1>12. QED BY <1>8, <1>10, <1>11 DEF IInv

\* A recalled line may end below the screen, which then scrolls; blanks over a
\* longer line do not.
LEMMA RecallStep ==
  ASSUME IInv, NEW p \in 1 .. Len(CommandHistory), Recall(p)
  PROVE  IInv'
<1> DEFINE recalled == CommandHistory[p]
           n == Len(recalled)
           s == [i \in Places |-> CASE i < n -> recalled[i + 1]
                                    [] i = n -> NUL
                                    [] OTHER -> CurrentString[i]]
           delete == IF n <= StringLen THEN StringLen - n ELSE 0
           home == HomeRow
           e == TotalColumn * home + StartColumn + n
           last == TotalColumn * home + StartColumn + n + delete
           up == Up(e)
<1>1. reading /\ LinePos' = p /\ misplaced' = misplaced
  BY DEF Recall
<1>2. /\ Edited(s, n, n) /\ Output(s, 0, delete, StartColumn, home)
      /\ StrLen(s) = n /\ n \in Places /\ CursorAfter(StartColumn, home, n, 0)
  BY KeyFacts, RecallEdits
<1> HIDE DEF s, recalled
<1> HIDE DEF n
<1>3. n \in Nat /\ delete \in Nat
  <2>1. n \in Nat
    BY <1>2, KeyFacts, LineFacts
  <2>2. QED BY <2>1, KeyFacts
<1>4. StartColumn \in 0 .. TotalColumn - 1
  BY MaxStrBound
<1>5. /\ Row' \in 0 .. TotalRow - 1 /\ Column' \in 0 .. TotalColumn - 1
      /\ TotalColumn * Row' + Column' = e - TotalColumn * up
  BY <1>2, <1>3, <1>4, KeyFacts, CursorGoes
<1> HIDE DEF delete
<1>6. e \in Int /\ last \in Int /\ last = e + delete
  <2> DEFINE x == TotalColumn * home
  <2>1. x \in Int /\ StartColumn \in Int
    BY KeyFacts
  <2> HIDE DEF x
  <2>2. x + StartColumn + n \in Int /\ x + StartColumn + n + delete \in Int
    BY <1>3, <2>1
  <2>3. QED BY <2>2 DEF x
<1>7. Up(last) = up
  <2>1. CASE n <= StringLen
    <3>1. e < TotalColumn * TotalRow /\ last < TotalColumn * TotalRow
      <4>1. delete = StringLen - n
        BY <2>1 DEF delete
      <4>2. StringLen \in Nat /\ n <= StringLen /\ TotalColumn * TotalRow \in Int
        BY <2>1, KeyFacts
      <4>3. TotalColumn * home + StartColumn + StringLen < TotalColumn * TotalRow
        BY KeyFacts DEF Fits
      <4>4. TotalColumn * home + StartColumn + StringLen = last
        <5> DEFINE x == TotalColumn * home
        <5>1. x \in Int /\ StartColumn \in Int
          BY KeyFacts
        <5> HIDE DEF x
        <5>2. x + StartColumn + StringLen = x + StartColumn + n + delete
          BY <1>3, <4>1, <4>2, <5>1
        <5>3. QED BY <5>2 DEF x
      <4>5. last < TotalColumn * TotalRow
        BY <4>3, <4>4, Zenon
      <4> HIDE DEF e, last
      <4>6. QED BY <1>3, <1>6, <4>2, <4>5
    <3> HIDE DEF e, last
    <3>2. QED BY <1>6, <3>1, UpOfFitting
  <2>2. CASE ~(n <= StringLen)
    <3>1. delete = 0
      BY <2>2 DEF delete
    <3>2. last = e
      BY <1>6, <3>1
    <3>3. QED BY <3>2
  <2>3. QED BY <2>1, <2>2
<1>8. /\ home - up \in 0 .. TotalRow - 1 /\ Fits(home - up, n)
      /\ TotalColumn * (home - up) = TotalColumn * home - TotalColumn * up /\ TotalColumn * up \in Int
  BY <1>2, KeyFacts, ScrolledHome
<1> HIDE DEF up
<1>9. Placed(Row', Column', home - up, n)
  <2>1. TotalColumn * Row' + Column' = TotalColumn * (home - up) + StartColumn + n
    <3> DEFINE x == TotalColumn * home
               y == TotalColumn * up
               z == TotalColumn * Row' + Column'
    <3>1. x \in Int /\ y \in Int /\ StartColumn \in Int
      BY <1>8, KeyFacts
    <3>2. z = (x + StartColumn + n) - y
      BY <1>5
    <3>3. TotalColumn * (home - up) = x - y
      BY <1>8
    <3> HIDE DEF x, y, z
    <3>4. z = (x - y) + StartColumn + n
      BY <1>3, <3>1, <3>2
    <3>5. QED BY <3>3, <3>4 DEF z
  <2>2. QED BY <1>5, <2>1 DEF Placed
<1>10. LineInv' /\ HistoryInv' /\ IdleInv' /\ StringLen' \in Nat /\ StringCurPos' \in Nat
  <2>1. LinePos' \in 0 .. Len(CommandHistory)
    BY <1>1
  <2>2. QED BY <1>1, <1>2, <2>1, KeyFacts, EditKeeps
<1>11. StringLen' = n /\ StringCurPos' = n
  BY <1>2 DEF Edited
<1>12. TrackInv' /\ HomeRow' = home - up
  BY <1>8, <1>9, <1>10, <1>11, TrackFrom
<1>13. ScreenInv'
  <2>1. HomeRow' = home - Up(last)
    BY <1>7, <1>12
  <2>2. TotalColumn * home + StartColumn = TotalColumn * home + StartColumn + 0
    BY KeyFacts
  <2>3. misplaced' \in BOOLEAN /\ (~misplaced' => ~misplaced)
    BY <1>1, KeyFacts DEF ScreenInv
  <2>4. 0 \in 0 .. n /\ 0 <= StringLen /\ \A i \in 0 .. 0 - 1 : s[i] = CurrentString[i]
    BY <1>3, KeyFacts
  <2>5. StartColumn \in Int
    BY KeyFacts
  <2>6. QED BY <1>2, <1>3, <2>1, <2>2, <2>3, <2>4, <2>5, KeyFacts, ScreenFollows
<1>14. QED BY <1>10, <1>12, <1>13 DEF IInv

\* An empty line behind a prompt in any row of the screen.
LEMMA EmptyLine ==
  ASSUME NEW row \in 0 .. TotalRow - 1
  PROVE  /\ Placed(row, StartColumn, row, 0) /\ Fits(row, 0)
         /\ IsLine(Empty, 0)
<1>1. /\ TotalColumn \in Nat \ {0} /\ TotalRow \in Int /\ StartColumn \in 0 .. TotalColumn - 1 /\ MaxStr \in Nat \ {0}
      /\ StartColumn \in Nat /\ row \in Int /\ row < TotalRow
  BY MaxStrBound
<1>2. TotalColumn * row + TotalColumn <= TotalColumn * TotalRow
      /\ TotalColumn * row \in Int /\ TotalColumn * TotalRow \in Int
  BY <1>1, Products
<1>3. Placed(row, StartColumn, row, 0)
  BY <1>1, <1>2 DEF Placed
<1>4. Fits(row, 0)
  BY <1>1, <1>2 DEF Fits
<1>5. 0 \in Places /\ Places \subseteq Nat
  BY <1>1 DEF Places
<1>6. IsLine(Empty, 0)
  BY <1>5 DEF IsLine, Empty
<1>7. QED BY <1>3, <1>4, <1>6

\* A call begins with the empty line that Init and Return leave.
LEMMA BeginStep ==
  ASSUME IInv, NEW row \in 0 .. TotalRow - 1, Begin(row)
  PROVE  IInv'
<1>1. /\ ~reading /\ reading' = TRUE /\ Row' = row /\ top' = row
      /\ CurrentString' = CurrentString /\ StringLen' = StringLen /\ StringCurPos' = StringCurPos
      /\ Column' = Column /\ LinePos' = LinePos /\ CommandHistory' = CommandHistory
      /\ shown' = shown /\ misplaced' = misplaced
  BY DEF Begin, line
<1>2. StringLen = 0 /\ Row = 0 /\ StringCurPos = 0
  BY <1>1, KeyFacts DEF IInv, IdleInv
<1>3. Column = StartColumn
  <2>1. StartColumn \in 0 .. TotalColumn - 1
    BY MaxStrBound
  <2>2. 0 + StartColumn \in Int /\ 0 + StartColumn = TotalColumn * 0 + StartColumn
    BY <2>1, KeyFacts
  <2>3. (0 + StartColumn) % TotalColumn = StartColumn
    BY <2>1, <2>2, KeyFacts, DivModUnique
  <2>4. QED BY <1>2, <2>3, KeyFacts DEF TrackInv
<1>4. LineInv' /\ HistoryInv' /\ IdleInv'
  <2>1. LineInv'
    BY <1>1, KeyFacts DEF LineInv, IsLine, Places, MaxStr
  <2>2. HistoryInv'
    BY <1>1, KeyFacts DEF HistoryInv, MaxStr
  <2>3. IdleInv'
    BY <1>1 DEF IdleInv
  <2>4. QED BY <2>1, <2>2, <2>3
<1>5. TrackInv' /\ HomeRow' = row
  <2>1. StringCurPos' = 0 /\ StringLen' = 0 /\ 0 \in Nat
    BY <1>1, <1>2
  <2>2. Placed(Row', Column', row, 0) /\ Fits(row, 0)
    BY <1>1, <1>3, EmptyLine
  <2>3. QED BY <2>1, <2>2, TrackFrom
<1>6. ScreenInv'
  BY <1>1, <1>5, KeyFacts DEF ScreenInv
<1>7. QED BY <1>4, <1>5, <1>6 DEF IInv

\* The call is over, and the list of lines is still one.
LEMMA ReturnStep ==
  ASSUME Return, /\ CommandHistory' \in Seq(Seq(Chars)) /\ Len(CommandHistory') <= MaxHistory
                 /\ \A i \in 1 .. Len(CommandHistory') : Len(CommandHistory'[i]) \in 1 .. MaxStr - 1
  PROVE  IInv'
<1>1. /\ reading' = FALSE /\ CurrentString' = Empty
      /\ StringLen' = 0 /\ StringCurPos' = 0 /\ Column' = StartColumn /\ Row' = 0
      /\ LinePos' = 0 /\ top' = 0 /\ misplaced' = FALSE
  BY DEF Return
<1>2. 0 \in 0 .. TotalRow - 1 /\ 0 \in Nat /\ 0 \in 0 .. 0
  BY MaxStrBound
<1>3. Placed(0, StartColumn, 0, 0) /\ Fits(0, 0) /\ IsLine(Empty, 0)
  BY <1>2, EmptyLine
<1>4. LineInv'
  BY <1>1, <1>2, <1>3 DEF LineInv, IsLine, Places, MaxStr
<1>5. HistoryInv'
  <2>1. Len(CommandHistory') \in Nat
    BY LenProperties
  <2>2. MaxStr' = MaxStr
    BY DEF MaxStr
  <2>3. LinePos' \in 0 .. Len(CommandHistory')
    BY <1>1, <2>1
  <2>4. QED BY <2>2, <2>3 DEF HistoryInv
<1>6. IdleInv'
  BY <1>1 DEF IdleInv
<1>7. TrackInv' /\ HomeRow' = 0
  BY <1>1, <1>2, <1>3, TrackFrom
<1>8. ScreenInv'
  <2>1. misplaced' \in BOOLEAN /\ top' = HomeRow'
    BY <1>1, <1>7
  <2>2. \A i \in 0 .. StringLen' - 1 : shown'[i] = CurrentString'[i]
    BY <1>1
  <2>3. QED BY <2>1, <2>2 DEF ScreenInv
<1>9. QED BY <1>4, <1>5, <1>6, <1>7, <1>8 DEF IInv

\* The text of a line, as a sequence.
LEMMA SequenceOf ==
  ASSUME NEW s, NEW n, IsLine(s, n)
  PROVE  LET t == [i \in 1 .. StrLen(s) |-> s[i - 1]]
         IN  /\ t \in Seq(Chars) /\ Len(t) = n /\ n \in Nat
             /\ \A i \in 1 .. n : t[i] = s[i - 1]
<1>1. StrLen(s) = n
  BY LineLength
<1>2. n \in Nat /\ n <= MaxStr - 1 /\ Places = 0 .. MaxStr - 1 /\ MaxStr \in Nat
  BY MaxStrBound DEF IsLine, Places
<1>3. ASSUME NEW i \in 1 .. n
      PROVE  s[i - 1] \in Chars
  <2>1. i - 1 \in Places /\ i - 1 < n
    BY <1>2
  <2>2. QED BY <2>1 DEF IsLine
<1>4. QED BY <1>1, <1>2, <1>3

LEMMA TextIs ==
  ASSUME LineInv
  PROVE  /\ Text \in Seq(Chars) /\ Len(Text) = StringLen
         /\ \A i \in 1 .. StringLen : Text[i] = CurrentString[i - 1]
BY SequenceOf DEF LineInv, Text

\* The list keeps its bound: the oldest line goes when it is full
\* (AddLineToCommandHistory).
LEMMA HistoryAfterEnter ==
  ASSUME LineInv, HistoryInv, EnterKey
  PROVE  /\ CommandHistory' \in Seq(Seq(Chars)) /\ Len(CommandHistory') <= MaxHistory
         /\ \A i \in 1 .. Len(CommandHistory') : Len(CommandHistory'[i]) \in 1 .. MaxStr - 1
<1> DEFINE H == CommandHistory
           kept == IF Len(H) < MaxHistory THEN H ELSE Tail(H)
<1>1. /\ H \in Seq(Seq(Chars)) /\ Len(H) <= MaxHistory /\ Len(H) \in Nat
      /\ \A i \in 1 .. Len(H) : Len(H[i]) \in 1 .. MaxStr - 1
      /\ MaxHistory \in Nat \ {0}
  BY LineEditorAssumption DEF HistoryInv
<1>2. CASE CommandHistory' = CommandHistory
  BY <1>1, <1>2
<1>3. CASE StringLen > 0 /\ CommandHistory' = Append(kept, Text)
  <2>1. Text \in Seq(Chars) /\ Len(Text) \in 1 .. MaxStr - 1
    BY <1>3, TextIs, LineFacts
  <2>2. /\ kept \in Seq(Seq(Chars)) /\ Len(kept) \in Nat /\ Len(kept) < MaxHistory
        /\ \A i \in 1 .. Len(kept) : Len(kept[i]) \in 1 .. MaxStr - 1
    <3>1. CASE Len(H) < MaxHistory
      BY <1>1, <3>1
    <3>2. CASE ~(Len(H) < MaxHistory)
      <4>1. H # << >> /\ kept = Tail(H)
        BY <1>1, <3>2
      <4>2. /\ Tail(H) \in Seq(Seq(Chars)) /\ Len(Tail(H)) = Len(H) - 1
            /\ \A i \in 1 .. Len(Tail(H)) : Tail(H)[i] = H[i + 1]
        BY <1>1, <4>1, HeadTailProperties
      <4> HIDE DEF H
      <4>3. ASSUME NEW i \in 1 .. Len(Tail(H))
            PROVE  Len(Tail(H)[i]) \in 1 .. MaxStr - 1
        <5>1. i + 1 \in 1 .. Len(H)
          BY <1>1, <4>2
        <5>2. QED BY <1>1, <4>2, <5>1
      <4>4. Len(kept) = Len(H) - 1 /\ kept \in Seq(Seq(Chars))
        BY <4>1, <4>2
      <4>5. \A i \in 1 .. Len(kept) : Len(kept[i]) \in 1 .. MaxStr - 1
        BY <4>1, <4>3
      <4>6. Len(H) >= 1
        BY <1>1, <3>2
      <4> HIDE DEF kept
      <4>7. Len(kept) \in Nat /\ Len(kept) < MaxHistory
        BY <1>1, <4>4, <4>6
      <4>8. QED BY <4>4, <4>5, <4>7
    <3>3. QED BY <3>1, <3>2
  <2> HIDE DEF kept
  <2>3. /\ Append(kept, Text) \in Seq(Seq(Chars)) /\ Len(Append(kept, Text)) = Len(kept) + 1
        /\ \A i \in 1 .. Len(kept) : Append(kept, Text)[i] = kept[i]
        /\ Append(kept, Text)[Len(kept) + 1] = Text
    BY <2>1, <2>2, AppendProperties
  <2>4. ASSUME NEW i \in 1 .. Len(CommandHistory')
        PROVE  Len(CommandHistory'[i]) \in 1 .. MaxStr - 1
    <3>1. i \in 1 .. Len(kept) \/ i = Len(kept) + 1
      BY <1>3, <2>2, <2>3
    <3>2. QED BY <1>3, <2>1, <2>2, <2>3, <3>1
  <2>5. QED BY <1>1, <1>3, <2>2, <2>3, <2>4
<1>4. CommandHistory' = CommandHistory \/ (StringLen > 0 /\ CommandHistory' = Append(kept, Text))
  <2>1. StrLen(CurrentString) = StringLen
    BY LineFacts
  <2>2. QED BY <2>1 DEF EnterKey, AddLineToCommandHistory
<1>5. QED BY <1>2, <1>3, <1>4

\* ENTER and an input error end the call.
LEMMA EnterStep ==
  ASSUME IInv, EnterKey \/ ReadError
  PROVE  IInv'
<1>1. CASE EnterKey
  <2>1. Return
    BY <1>1 DEF EnterKey
  <2>2. QED BY <1>1, <2>1, KeyFacts, HistoryAfterEnter, ReturnStep
<1>2. CASE ReadError
  <2>1. Return /\ CommandHistory' = CommandHistory
    BY <1>2 DEF ReadError
  <2>2. QED BY <2>1, KeyFacts, ReturnStep DEF HistoryInv
<1>3. QED BY <1>1, <1>2

-----------------------------------------------------------------------------
(* The invariant holds always.                                              *)

\* The first call has not begun.
LEMMA InitIInv == Init => IInv
<1> SUFFICES ASSUME Init PROVE IInv
  OBVIOUS
<1>1. /\ reading = FALSE /\ CurrentString = Empty
      /\ StringLen = 0 /\ StringCurPos = 0 /\ Column = StartColumn /\ Row = 0
      /\ LinePos = 0 /\ CommandHistory = << >> /\ top = 0 /\ misplaced = FALSE
  BY DEF Init
<1>2. /\ TotalColumn \in Nat \ {0} /\ TotalRow \in Nat \ {0, 1} /\ StartColumn \in 0 .. TotalColumn - 1
      /\ 0 \in 0 .. TotalRow - 1 /\ MaxHistory \in Nat
  BY MaxStrBound, LineEditorAssumption
<1>3. Placed(0, StartColumn, 0, 0) /\ Fits(0, 0) /\ IsLine(Empty, 0)
  BY <1>2, EmptyLine
<1>4. LineInv
  <2>1. IsLine(CurrentString, StringLen)
    BY <1>1, <1>3
  <2>2. reading \in BOOLEAN
    BY <1>1, Zenon
  <2>3. StringCurPos = 0 /\ StringLen = 0 /\ 0 \in 0 .. 0
    BY <1>1
  <2>4. QED BY <2>1, <2>2, <2>3 DEF LineInv
<1>5. HistoryInv
  <2>1. << >> \in Seq(Seq(Chars)) /\ Len(<< >>) = 0
    BY EmptySeq
  <2>2. QED BY <1>1, <1>2, <2>1 DEF HistoryInv
<1>6. IdleInv
  BY <1>1 DEF IdleInv
<1>7. TrackInv /\ HomeRow = 0
  <2>1. StartColumn = (0 + StartColumn) % TotalColumn /\ 0 - RowsTo(0) = 0
    BY <1>2, <1>3, PlacedRow
  <2>2. HomeRow = 0
    BY <1>1, <2>1 DEF HomeRow
  <2>3. 0 * TotalColumn + StartColumn + 0 < TotalRow * TotalColumn
    <3>1. 0 \in Int /\ TotalRow \in Int
      BY <1>2
    <3>2. 0 * TotalColumn = TotalColumn * 0 /\ TotalRow * TotalColumn = TotalColumn * TotalRow
      BY <1>2, <3>1, Products
    <3>3. QED BY <1>3, <3>2 DEF Fits
  <2>4. QED BY <1>1, <1>2, <2>1, <2>2, <2>3 DEF TrackInv
<1>8. ScreenInv
  <2>1. misplaced \in BOOLEAN /\ top = HomeRow
    BY <1>1, <1>7
  <2>2. \A i \in 0 .. StringLen - 1 : shown[i] = CurrentString[i]
    BY <1>1
  <2>3. QED BY <2>1, <2>2 DEF ScreenInv
<1>9. QED BY <1>4, <1>5, <1>6, <1>7, <1>8 DEF IInv

\* An arrow key recalls a line that the list has.
LEMMA ArrowRecalls ==
  ASSUME HistoryInv, UpKey \/ DownKey
  PROVE  \E p \in 1 .. Len(CommandHistory) : Recall(p)
<1>1. LinePos \in 0 .. Len(CommandHistory) /\ Len(CommandHistory) \in Nat
  BY DEF HistoryInv
<1>2. CASE UpKey
  <2> DEFINE p == IF LinePos = 0 THEN Len(CommandHistory) ELSE LinePos - 1
  <2>1. Recall(p) /\ p # 0
    BY <1>2 DEF UpKey, Recall
  <2>2. p \in 1 .. Len(CommandHistory)
    BY <1>1, <2>1
  <2>3. QED BY <2>1, <2>2
<1>3. CASE DownKey
  <2> DEFINE p == IF LinePos = Len(CommandHistory) THEN 0 ELSE LinePos + 1
  <2>1. Recall(p) /\ p # 0
    BY <1>3 DEF DownKey, Recall
  <2>2. p \in 1 .. Len(CommandHistory)
    BY <1>1, <2>1
  <2>3. QED BY <2>1, <2>2
<1>4. QED BY <1>2, <1>3

\* Nothing happens.
LEMMA StutterIInv == IInv /\ UNCHANGED vars => IInv'
<1> SUFFICES ASSUME IInv, UNCHANGED vars PROVE IInv'
  OBVIOUS
<1>1. /\ reading' = reading /\ CurrentString' = CurrentString /\ StringLen' = StringLen
      /\ StringCurPos' = StringCurPos /\ Column' = Column /\ Row' = Row /\ LinePos' = LinePos
      /\ CommandHistory' = CommandHistory /\ top' = top /\ shown' = shown /\ misplaced' = misplaced
  BY DEF vars, line, screen
<1>2. HomeRow' = HomeRow
  BY <1>1 DEF HomeRow, RowsTo
<1>3. LineInv' /\ HistoryInv'
  BY <1>1, KeyFacts DEF LineInv, HistoryInv, IsLine, Places, MaxStr
<1>4. IdleInv'
  BY <1>1 DEF IInv, IdleInv
<1>5. TrackInv' /\ ScreenInv'
  BY <1>1, <1>2, KeyFacts DEF TrackInv, ScreenInv
<1>6. QED BY <1>3, <1>4, <1>5 DEF IInv

\* Every key keeps the invariant.
LEMMA NextIInv == IInv /\ [Next]_vars => IInv'
<1> SUFFICES ASSUME IInv, [Next]_vars PROVE IInv'
  OBVIOUS
<1>1. CASE \E row \in 0 .. TotalRow - 1 : Begin(row)
  BY <1>1, BeginStep
<1>2. CASE \E c \in Chars : Character(c)
  BY <1>2, CharacterStep
<1>3. CASE BackspaceKey
  BY <1>3, BackspaceStep
<1>4. CASE DeleteKey
  BY <1>4, DeleteStep
<1>5. CASE LeftKey \/ RightKey
  BY <1>5, LeftStep, RightStep
<1>6. CASE HomeKey \/ EndKey
  BY <1>6, HomeStep, EndStep
<1>7. CASE EscapeKey
  BY <1>7, EscapeStep
<1>8. CASE UpKey \/ DownKey
  <2>1. \E p \in 1 .. Len(CommandHistory) : Recall(p)
    BY <1>8, KeyFacts, ArrowRecalls
  <2>2. QED BY <2>1, RecallStep
<1>9. CASE EnterKey \/ ReadError
  BY <1>9, EnterStep
<1>10. CASE UNCHANGED vars
  BY <1>10, StutterIInv
<1>11. QED BY <1>1, <1>2, <1>3, <1>4, <1>5, <1>6, <1>7, <1>8, <1>9, <1>10 DEF Next

\* The invariant holds in every reachable state.
LEMMA SpecIInv == Spec => []IInv
BY InitIInv, NextIInv, PTL DEF Spec

\* Nothing but 0 follows the line in its buffer, after every key, so that a
\* character that is stored at its end without a terminator ends the new line
\* (UefiConsole.c, UefiConsoleInRead).
THEOREM LineEndsAlways == Spec => []LineIsTerminated
<1>1. IInv => LineIsTerminated
  BY KeyFacts, LineFacts DEF LineIsTerminated
<1>2. QED BY SpecIInv, <1>1, PTL

\* The row and column that the code keeps are those of the character under the
\* cursor, on every screen and behind every prompt, unless DELETE has scrolled
\* the screen (UefiConsole.c, UefiConsoleInRead).
THEOREM CursorIsTracked == Spec => []CursorIsOnCharacter
<1>1. IInv => CursorIsOnCharacter
  <2> SUFFICES ASSUME IInv, ~misplaced
               PROVE  (Row - top) * TotalColumn + Column - StartColumn = StringCurPos
    BY DEF CursorIsOnCharacter
  <2> DEFINE x == TotalColumn * Row
             y == TotalColumn * HomeRow
  <2>1. top = HomeRow
    BY KeyFacts DEF ScreenInv
  <2>2. (Row - HomeRow) * TotalColumn = x - y
    <3>1. Row - HomeRow \in Int
      BY KeyFacts
    <3>2. QED BY <3>1, KeyFacts, Products
  <2>3. x + Column = y + StartColumn + StringCurPos
    BY KeyFacts DEF Placed
  <2>4. x \in Int /\ y \in Int /\ Column \in Int /\ StartColumn \in Int /\ StringCurPos \in Int
    BY KeyFacts
  <2> HIDE DEF x, y
  <2>5. QED BY <2>1, <2>2, <2>3, <2>4
<1>2. QED BY SpecIInv, <1>1, PTL

\* The screen shows the characters of the line in their places, whatever was
\* typed, deleted or recalled before (UefiConsole.c, UefiConsoleInRead).
THEOREM LineIsShown == Spec => []ScreenShowsLine
<1>1. IInv => ScreenShowsLine
  BY KeyFacts DEF ScreenInv, ScreenShowsLine
<1>2. QED BY SpecIInv, <1>1, PTL

-----------------------------------------------------------------------------
(* The keys do what EditedLine says.                                        *)

\* A sequence without its element p.
LEMMA RemoveAtIs ==
  ASSUME NEW S, NEW s \in Seq(S), NEW p \in 1 .. Len(s)
  PROVE  /\ RemoveAt(s, p) \in Seq(S) /\ Len(RemoveAt(s, p)) = Len(s) - 1
         /\ \A i \in 1 .. Len(s) - 1 : RemoveAt(s, p)[i] = IF i < p THEN s[i] ELSE s[i + 1]
<1> DEFINE n == Len(s)
           before == SubSeq(s, 1, p - 1)
           after == SubSeq(s, p + 1, n)
<1>1. n \in Nat /\ p \in Nat /\ 1 <= p /\ p <= n /\ \A i \in 1 .. n : s[i] \in S
  BY LenProperties, ElementOfSeq
<1>2. RemoveAt(s, p) = before \o after
  BY DEF RemoveAt
<1> HIDE DEF n
<1>3. /\ before \in Seq(S) /\ Len(before) = p - 1
      /\ \A i \in 1 .. p - 1 : before[i] = s[i]
  <2>1. 1 \in Int /\ p - 1 \in Int /\ \A i \in 1 .. p - 1 : s[i] \in S
    BY <1>1
  <2>2. /\ before \in Seq(S) /\ Len(before) = IF 1 <= p - 1 THEN (p - 1) - 1 + 1 ELSE 0
        /\ \A i \in 1 .. (p - 1) - 1 + 1 : before[i] = s[1 + i - 1]
    BY <2>1, SubSeqProperties
  <2> HIDE DEF before
  <2>3. Len(before) = p - 1
    BY <1>1, <2>2
  <2>4. ASSUME NEW i \in 1 .. p - 1
        PROVE  before[i] = s[i]
    <3>1. i \in 1 .. (p - 1) - 1 + 1 /\ 1 + i - 1 = i
      BY <1>1
    <3>2. QED BY <2>2, <3>1
  <2>5. QED BY <2>2, <2>3, <2>4
<1>4. /\ after \in Seq(S) /\ Len(after) = n - p
      /\ \A i \in 1 .. n - p : after[i] = s[p + i]
  <2>1. p + 1 \in Int /\ n \in Int /\ \A i \in p + 1 .. n : s[i] \in S
    BY <1>1
  <2>2. /\ after \in Seq(S) /\ Len(after) = IF p + 1 <= n THEN n - (p + 1) + 1 ELSE 0
        /\ \A i \in 1 .. n - (p + 1) + 1 : after[i] = s[(p + 1) + i - 1]
    BY <2>1, SubSeqProperties
  <2> HIDE DEF after
  <2>3. Len(after) = n - p
    BY <1>1, <2>2
  <2>4. ASSUME NEW i \in 1 .. n - p
        PROVE  after[i] = s[p + i]
    <3>1. i \in 1 .. n - (p + 1) + 1 /\ (p + 1) + i - 1 = p + i
      BY <1>1
    <3>2. QED BY <2>2, <3>1
  <2>5. QED BY <2>2, <2>3, <2>4
<1> HIDE DEF before, after
<1>5. /\ before \o after \in Seq(S) /\ Len(before \o after) = Len(before) + Len(after)
      /\ \A i \in 1 .. Len(before) + Len(after) :
           (before \o after)[i] = IF i <= Len(before) THEN before[i] ELSE after[i - Len(before)]
  BY <1>3, <1>4, ConcatProperties, Zenon
<1>6. Len(before) + Len(after) = n - 1
  BY <1>1, <1>3, <1>4
<1>7. ASSUME NEW i \in 1 .. n - 1
      PROVE  (before \o after)[i] = IF i < p THEN s[i] ELSE s[i + 1]
  <2>1. (before \o after)[i] = IF i <= p - 1 THEN before[i] ELSE after[i - (p - 1)]
    BY <1>3, <1>5, <1>6
  <2>2. CASE i < p
    <3>1. i \in 1 .. p - 1 /\ i <= p - 1
      BY <1>1, <2>2
    <3>2. QED BY <1>3, <2>1, <2>2, <3>1
  <2>3. CASE ~(i < p)
    <3>1. ~(i <= p - 1) /\ i - (p - 1) \in 1 .. n - p /\ p + (i - (p - 1)) = i + 1
      BY <1>1, <2>3
    <3>2. QED BY <1>4, <2>1, <2>3, <3>1
  <2>4. QED BY <2>2, <2>3
<1>8. QED BY <1>2, <1>5, <1>6, <1>7 DEF n

\* The text after a key that edits the line.
LEMMA TextAfter ==
  ASSUME NEW s, NEW n, NEW c, Edited(s, n, c)
  PROVE  /\ Text' \in Seq(Chars) /\ Len(Text') = n /\ n \in Nat
         /\ \A i \in 1 .. n : Text'[i] = s[i - 1]
         /\ StringCurPos' = c /\ CommandHistory' = CommandHistory
<1>1. /\ StringCurPos' = c /\ CommandHistory' = CommandHistory /\ IsLine(CurrentString', n)
      /\ \A i \in 0 .. n - 1 : CurrentString'[i] = s[i]
  BY DEF Edited
<1>2. Text' = [i \in 1 .. StrLen(CurrentString') |-> CurrentString'[i - 1]]
  BY DEF Text, StrLen, Places, MaxStr
<1>3. /\ Text' \in Seq(Chars) /\ Len(Text') = n /\ n \in Nat
      /\ \A i \in 1 .. n : Text'[i] = CurrentString'[i - 1]
  BY <1>1, <1>2, SequenceOf
<1>4. ASSUME NEW i \in 1 .. n
      PROVE  Text'[i] = s[i - 1]
  <2>1. i - 1 \in 0 .. n - 1
    BY <1>3
  <2>2. QED BY <1>1, <1>3, <2>1
<1>5. QED BY <1>1, <1>3, <1>4

\* A character replaces the one under the cursor or extends the line.
LEMMA CharacterTypes ==
  ASSUME IInv, NEW c \in Chars, Character(c)
  PROVE  Editor!Type(c)
<1> DEFINE s == [CurrentString EXCEPT ![StringCurPos] = c]
           cur == StringCurPos
           len == StringLen
           n == IF cur < len THEN len ELSE len + 1
           t == IF cur < Len(Text) THEN ReplaceAt(Text, cur + 1, c) ELSE Append(Text, c)
<1>1. Edited(s, n, cur + 1) /\ cur < MaxStr - 1 /\ n \in Places
  BY KeyFacts, CharacterEdits
<1> HIDE DEF s, n, t
<1>2. /\ Text' \in Seq(Chars) /\ Len(Text') = n /\ \A i \in 1 .. n : Text'[i] = s[i - 1]
      /\ StringCurPos' = cur + 1 /\ CommandHistory' = CommandHistory
  BY <1>1, TextAfter
<1>3. /\ Text \in Seq(Chars) /\ Len(Text) = len /\ \A i \in 1 .. len : Text[i] = CurrentString[i - 1]
      /\ cur \in Nat /\ len \in Nat /\ cur <= len
  BY KeyFacts, TextIs
<1>4. \A i \in 1 .. n : s[i - 1] = IF i - 1 = cur THEN c ELSE CurrentString[i - 1]
  <2> SUFFICES ASSUME NEW i \in 1 .. n
               PROVE  s[i - 1] = IF i - 1 = cur THEN c ELSE CurrentString[i - 1]
    OBVIOUS
  <2>1. i - 1 \in Places
    BY <1>1, KeyFacts, LineFacts
  <2>2. QED BY <2>1, KeyFacts, LineFacts DEF s
<1>5. ASSUME cur < len
      PROVE  Text' = t
  <2> DEFINE r == [Text EXCEPT ![cur + 1] = c]
  <2>1. t = r /\ n = len
    BY <1>3, <1>5 DEF ReplaceAt, t, n
  <2>2. cur + 1 \in 1 .. Len(Text)
    BY <1>3, <1>5
  <2>3. /\ r \in Seq(Chars) /\ Len(r) = len
        /\ \A i \in 1 .. len : r[i] = IF i = cur + 1 THEN c ELSE Text[i]
    BY <1>3, <2>2, ExceptSeq
  <2> HIDE DEF r
  <2>4. ASSUME NEW i \in 1 .. Len(Text')
        PROVE  Text'[i] = r[i]
    <3>1. i \in 1 .. len /\ i \in 1 .. n /\ (i - 1 = cur <=> i = cur + 1)
      BY <1>2, <1>3, <2>1
    <3>2. Text'[i] = IF i - 1 = cur THEN c ELSE CurrentString[i - 1]
      BY <1>2, <1>4, <3>1
    <3>3. QED BY <1>3, <2>3, <3>1, <3>2
  <2>5. Text' = r
    BY <1>2, <2>1, <2>3, <2>4, SeqEqual
  <2>6. QED BY <2>1, <2>5
<1>6. ASSUME ~(cur < len)
      PROVE  Text' = t
  <2> DEFINE r == Append(Text, c)
  <2>1. t = r /\ n = len + 1 /\ cur = len
    BY <1>3, <1>6 DEF t, n
  <2>2. /\ r \in Seq(Chars) /\ Len(r) = len + 1
        /\ \A i \in 1 .. len : r[i] = Text[i]
        /\ r[len + 1] = c
    BY <1>3, AppendProperties
  <2> HIDE DEF r
  <2>3. ASSUME NEW i \in 1 .. Len(Text')
        PROVE  Text'[i] = r[i]
    <3>1. i \in 1 .. n /\ Text'[i] = IF i - 1 = cur THEN c ELSE CurrentString[i - 1]
      BY <1>2, <1>4
    <3>2. CASE i = len + 1
      BY <1>3, <2>1, <2>2, <3>1, <3>2
    <3>3. CASE i # len + 1
      <4>1. i \in 1 .. len /\ i - 1 # cur
        BY <1>3, <2>1, <3>1, <3>3
      <4>2. QED BY <1>3, <2>2, <3>1, <4>1
    <3>4. QED BY <3>2, <3>3
  <2>4. Text' = r
    BY <1>2, <2>1, <2>2, <2>3, SeqEqual
  <2>5. QED BY <2>1, <2>4
<1>7. Text' = t
  BY <1>5, <1>6
<1>8. QED BY <1>1, <1>2, <1>7 DEF Editor!Type, Editor!Edit, Editor!ReplaceAt, ReplaceAt, t

\* The text without the character at a place of the string (Without).
LEMMA TextWithout ==
  ASSUME IInv, NEW s, NEW pos \in 0 .. StringLen - 1, Edited(s, StringLen - 1, pos),
         \A i \in 0 .. StringLen - 2 : s[i] = CurrentString[IF i < pos THEN i ELSE i + 1]
  PROVE  Text' = RemoveAt(Text, pos + 1) /\ StringCurPos' = pos /\ CommandHistory' = CommandHistory
<1> DEFINE len == StringLen
           n == len - 1
           r == RemoveAt(Text, pos + 1)
<1>1. /\ Text \in Seq(Chars) /\ Len(Text) = len /\ \A i \in 1 .. len : Text[i] = CurrentString[i - 1]
      /\ len \in Nat /\ pos \in Nat /\ pos < len /\ n \in Nat
  BY KeyFacts, TextIs
<1>2. /\ Text' \in Seq(Chars) /\ Len(Text') = n /\ \A i \in 1 .. n : Text'[i] = s[i - 1]
      /\ StringCurPos' = pos /\ CommandHistory' = CommandHistory
  BY TextAfter
<1>3. pos + 1 \in 1 .. Len(Text)
  BY <1>1
<1>4. /\ r \in Seq(Chars) /\ Len(r) = len - 1
      /\ \A i \in 1 .. len - 1 : r[i] = IF i < pos + 1 THEN Text[i] ELSE Text[i + 1]
  BY <1>1, <1>3, RemoveAtIs
<1> HIDE DEF r
<1>5. ASSUME NEW i \in 1 .. Len(Text')
      PROVE  Text'[i] = r[i]
  <2>1. i \in 1 .. n /\ i \in 1 .. len /\ i + 1 \in 1 .. len /\ i - 1 \in 0 .. len - 2
        /\ (i - 1 < pos <=> i < pos + 1) /\ (i + 1) - 1 = i /\ (i - 1) + 1 = i
    BY <1>1, <1>2
  <2>2. Text'[i] = CurrentString[IF i - 1 < pos THEN i - 1 ELSE (i - 1) + 1]
    BY <1>2, <2>1
  <2>3. CASE i < pos + 1
    BY <1>1, <1>4, <2>1, <2>2, <2>3
  <2>4. CASE ~(i < pos + 1)
    BY <1>1, <1>4, <2>1, <2>2, <2>4
  <2>5. QED BY <2>3, <2>4
<1>6. Text' = r
  BY <1>2, <1>4, <1>5, SeqEqual
<1>7. QED BY <1>2, <1>6 DEF r

\* Two lines of the same characters are one text.
LEMMA SameText ==
  ASSUME NEW t \in Seq(Chars), NEW s, NEW c, Edited(s, Len(t), c),
         \A i \in 0 .. Len(t) - 1 : s[i] = t[i + 1]
  PROVE  Text' = t /\ StringCurPos' = c /\ CommandHistory' = CommandHistory
<1>1. /\ Text' \in Seq(Chars) /\ Len(Text') = Len(t) /\ \A i \in 1 .. Len(t) : Text'[i] = s[i - 1]
      /\ StringCurPos' = c /\ CommandHistory' = CommandHistory /\ Len(t) \in Nat
  BY TextAfter
<1>2. ASSUME NEW i \in 1 .. Len(Text')
      PROVE  Text'[i] = t[i]
  <2>1. i - 1 \in 0 .. Len(t) - 1 /\ (i - 1) + 1 = i
    BY <1>1
  <2>2. QED BY <1>1, <2>1
<1>3. Text' = t
  BY <1>1, <1>2, SeqEqual
<1>4. QED BY <1>1, <1>3

\* BACKSPACE, ESC and the arrows do to the text what their names say.
LEMMA BackspaceErases ==
  ASSUME IInv, BackspaceKey
  PROVE  Editor!Backspace
<1> DEFINE s == Without(StringCurPos - 1)
           pos == StringCurPos - 1
<1>1. /\ Edited(s, StringLen - 1, pos)
      /\ \A i \in 0 .. StringLen - 2 : s[i] = CurrentString[IF i < pos THEN i ELSE i + 1]
  BY KeyFacts, BackspaceEdits
<1>2. StringCurPos # 0
  BY DEF BackspaceKey
<1>3. pos \in 0 .. StringLen - 1 /\ pos + 1 = StringCurPos /\ StringCurPos > 0
  BY <1>2, KeyFacts
<1> HIDE DEF s, pos
<1>4. Text' = RemoveAt(Text, StringCurPos) /\ StringCurPos' = pos /\ CommandHistory' = CommandHistory
  BY <1>1, <1>3, TextWithout
<1>5. QED BY <1>3, <1>4 DEF Editor!Backspace, Editor!Edit, Editor!RemoveAt, RemoveAt, pos

\* Behind the last character DELETE changes nothing of the line.
LEMMA DeleteErases ==
  ASSUME IInv, DeleteKey
  PROVE  Editor!Delete \/ UNCHANGED <<Text, StringCurPos, CommandHistory>>
<1> DEFINE s == Without(StringCurPos)
           cur == StringCurPos
           n == IF cur < StringLen THEN StringLen - 1 ELSE StringLen
<1>1. /\ Edited(s, n, cur)
      /\ \A i \in 0 .. n - 1 : s[i] = CurrentString[IF i < cur THEN i ELSE i + 1]
  BY KeyFacts, DeleteEdits
<1>2. /\ Text \in Seq(Chars) /\ Len(Text) = StringLen
      /\ \A i \in 1 .. StringLen : Text[i] = CurrentString[i - 1]
      /\ cur \in Nat /\ StringLen \in Nat /\ cur <= StringLen
  BY KeyFacts, TextIs
<1> HIDE DEF s
<1>3. CASE cur < StringLen
  <2>1. n = StringLen - 1 /\ cur \in 0 .. StringLen - 1 /\ StringLen - 2 = n - 1
    BY <1>2, <1>3
  <2> HIDE DEF n
  <2>2. /\ Edited(s, StringLen - 1, cur)
        /\ \A i \in 0 .. StringLen - 2 : s[i] = CurrentString[IF i < cur THEN i ELSE i + 1]
    BY <1>1, <2>1
  <2>3. Text' = RemoveAt(Text, cur + 1) /\ StringCurPos' = cur /\ CommandHistory' = CommandHistory
    BY <2>1, <2>2, TextWithout
  <2>4. QED BY <1>2, <1>3, <2>3 DEF Editor!Delete, Editor!Edit, Editor!RemoveAt, RemoveAt
<1>4. CASE ~(cur < StringLen)
  <2>1. n = StringLen /\ cur = StringLen
    BY <1>2, <1>4
  <2> HIDE DEF n
  <2>2. ASSUME NEW i \in 0 .. Len(Text) - 1
        PROVE  s[i] = Text[i + 1]
    <3>1. i \in 0 .. n - 1 /\ i < cur /\ i + 1 \in 1 .. StringLen /\ (i + 1) - 1 = i
      BY <1>2, <2>1
    <3>2. QED BY <1>1, <1>2, <3>1
  <2>3. Edited(s, Len(Text), cur)
    BY <1>1, <1>2, <2>1
  <2>4. Text' = Text /\ StringCurPos' = cur /\ CommandHistory' = CommandHistory
    BY <1>2, <2>2, <2>3, SameText
  <2>5. QED BY <2>4
<1>5. QED BY <1>3, <1>4

LEMMA EscapeClears ==
  ASSUME IInv, EscapeKey
  PROVE  Editor!Clear
<1> DEFINE s == [CurrentString EXCEPT ![0] = NUL]
<1>1. Edited(s, 0, 0)
  BY KeyFacts, EscapeEdits
<1> HIDE DEF s
<1>2. Text' \in Seq(Chars) /\ Len(Text') = 0 /\ StringCurPos' = 0 /\ CommandHistory' = CommandHistory
  BY <1>1, TextAfter
<1>3. Text' = << >>
  BY <1>2, EmptySeq, SeqEqual
<1>4. QED BY <1>2, <1>3 DEF Editor!Clear, Editor!Edit

LEMMA RecallRecalls ==
  ASSUME IInv, NEW p \in 1 .. Len(CommandHistory), Recall(p)
  PROVE  Editor!Recall(p) /\ p \in 1 .. MaxHistory
<1> DEFINE recalled == CommandHistory[p]
           n == Len(recalled)
           s == [i \in Places |-> CASE i < n -> recalled[i + 1]
                                    [] i = n -> NUL
                                    [] OTHER -> CurrentString[i]]
<1>1. Edited(s, n, n) /\ \A i \in 0 .. n - 1 : s[i] = recalled[i + 1]
  BY KeyFacts, RecallEdits
<1>2. /\ recalled \in Seq(Chars) /\ p \in DOMAIN CommandHistory /\ p \in Nat /\ p >= 1
      /\ Len(CommandHistory) <= MaxHistory /\ Len(CommandHistory) \in Nat /\ MaxHistory \in Nat
  BY KeyFacts, LineEditorAssumption DEF HistoryInv
<1> HIDE DEF s, recalled
<1>3. Text' = recalled /\ StringCurPos' = n /\ CommandHistory' = CommandHistory
  BY <1>1, <1>2, SameText
<1>4. p \in 1 .. MaxHistory
  BY <1>2
<1>5. QED BY <1>2, <1>3, <1>4 DEF Editor!Recall, Editor!Edit, recalled

\* A key that moves the cursor leaves the text alone.
LEMMA MoveMoves ==
  ASSUME IInv, LeftKey \/ RightKey \/ HomeKey \/ EndKey
  PROVE  \E c \in 0 .. MaxStr - 1 : Editor!Move(c)
<1>1. CurrentString' = CurrentString /\ CommandHistory' = CommandHistory
  BY DEF LeftKey, RightKey, HomeKey, EndKey
<1>2. Text' = Text
  BY <1>1 DEF Text, StrLen, Places, MaxStr
<1>3. StringCurPos' \in 0 .. StringLen
  <2>1. CASE LeftKey
    BY <2>1, KeyFacts DEF LeftKey
  <2>2. CASE RightKey
    BY <2>2, KeyFacts DEF RightKey
  <2>3. CASE HomeKey
    BY <2>3, KeyFacts DEF HomeKey
  <2>4. CASE EndKey
    BY <2>4, KeyFacts DEF EndKey
  <2>5. QED BY <2>1, <2>2, <2>3, <2>4
<1>4. StringLen = Len(Text) /\ StringLen \in Nat /\ StringLen <= MaxStr - 1 /\ MaxStr \in Nat
  BY KeyFacts, TextIs, LineFacts
<1>5. StringCurPos' \in 0 .. MaxStr - 1 /\ StringCurPos' \in 0 .. Len(Text)
  BY <1>3, <1>4
<1>6. Editor!Move(StringCurPos')
  BY <1>1, <1>2, <1>5 DEF Editor!Move, Editor!Edit
<1>7. QED BY <1>5, <1>6

\* The end of a call enters the line; the list is changed for a line that has
\* characters only.
LEMMA EnterEnters ==
  ASSUME IInv, EnterKey \/ ReadError
  PROVE  Editor!Enter
<1>1. Return
  BY DEF EnterKey, ReadError
<1>2. Text' = << >> /\ StringCurPos' = 0
  <2>1. CurrentString' = Empty /\ StringCurPos' = 0 /\ 0 \in 0 .. TotalRow - 1
    BY <1>1, KeyFacts DEF Return
  <2>2. IsLine(Empty, 0)
    BY <2>1, EmptyLine
  <2>3. Text' = [i \in 1 .. StrLen(CurrentString') |-> CurrentString'[i - 1]]
    BY DEF Text, StrLen, Places, MaxStr
  <2>4. Text' \in Seq(Chars) /\ Len(Text') = 0
    BY <2>1, <2>2, <2>3, SequenceOf
  <2>5. QED BY <2>1, <2>4, EmptySeq, SeqEqual
<1>3. \/ UNCHANGED CommandHistory
      \/ /\ Text # << >>
         /\ CommandHistory' = Append(IF Len(CommandHistory) < MaxHistory
                                     THEN CommandHistory ELSE Tail(CommandHistory), Text)
  <2>1. CASE StrLen(CurrentString) > 0 /\ AddLineToCommandHistory
    <3>1. Text # << >>
      <4>1. Len(Text) > 0
        BY <2>1, KeyFacts, LineFacts, TextIs
      <4>2. QED BY <4>1
    <3>2. QED BY <2>1, <3>1 DEF AddLineToCommandHistory
  <2>2. CASE UNCHANGED CommandHistory
    BY <2>2
  <2>3. QED BY <2>1, <2>2 DEF EnterKey, ReadError
<1>4. QED BY <1>2, <1>3 DEF Editor!Enter

\* Every step is one of EditedLine, or none: the begin of a call, and DELETE
\* behind the last character.
LEMMA StepEdits ==
  ASSUME IInv, [Next]_vars
  PROVE  [Editor!Next]_(Editor!vars)
<1>1. CASE \E row \in 0 .. TotalRow - 1 : Begin(row)
  <2>1. CurrentString' = CurrentString /\ StringCurPos' = StringCurPos /\ CommandHistory' = CommandHistory
    BY <1>1 DEF Begin, line
  <2>2. Text' = Text
    BY <2>1 DEF Text, StrLen, Places, MaxStr
  <2>3. QED BY <2>1, <2>2 DEF Editor!vars
<1>2. CASE \E c \in Chars : Character(c)
  <2>1. \E c \in Chars : Editor!Type(c)
    BY <1>2, CharacterTypes
  <2>2. QED BY <2>1 DEF Editor!Next
<1>3. CASE BackspaceKey
  BY <1>3, BackspaceErases DEF Editor!Next
<1>4. CASE DeleteKey
  BY <1>4, DeleteErases DEF Editor!Next, Editor!vars
<1>5. CASE LeftKey \/ RightKey \/ HomeKey \/ EndKey
  <2>1. \E c \in 0 .. MaxStr - 1 : Editor!Move(c)
    BY <1>5, MoveMoves
  <2>2. QED BY <2>1 DEF Editor!Next
<1>6. CASE EscapeKey
  BY <1>6, EscapeClears DEF Editor!Next
<1>7. CASE UpKey \/ DownKey
  <2>1. PICK p \in 1 .. Len(CommandHistory) : Recall(p)
    BY <1>7, KeyFacts, ArrowRecalls
  <2>2. Editor!Recall(p) /\ p \in 1 .. MaxHistory
    BY <2>1, RecallRecalls
  <2>3. QED BY <2>2 DEF Editor!Next
<1>8. CASE EnterKey \/ ReadError
  BY <1>8, EnterEnters DEF Editor!Next
<1>9. CASE UNCHANGED vars
  <2>1. CurrentString' = CurrentString /\ StringCurPos' = StringCurPos /\ CommandHistory' = CommandHistory
    BY <1>9 DEF vars, line
  <2>2. Text' = Text
    BY <2>1 DEF Text, StrLen, Places, MaxStr
  <2>3. QED BY <2>1, <2>2 DEF Editor!vars
<1>10. QED BY <1>1, <1>2, <1>3, <1>4, <1>5, <1>6, <1>7, <1>8, <1>9 DEF Next

\* The buffer, its counters and the list behave as a line of text that is edited
\* character by character, and as a history that can be recalled, for every
\* size of the screen, the buffer and the history (UefiConsole.c,
\* UefiConsoleInRead).
THEOREM EditorImplementsLine == Spec => EditsLine
<1>1. Init => Editor!Init
  <2> SUFFICES ASSUME Init PROVE Editor!Init
    OBVIOUS
  <2>1. IInv /\ StringLen = 0 /\ StringCurPos = 0 /\ CommandHistory = << >>
    BY InitIInv DEF Init
  <2>2. Text \in Seq(Chars) /\ Len(Text) = 0
    BY <2>1, KeyFacts, TextIs
  <2>3. Text = << >>
    BY <2>2, EmptySeq, SeqEqual
  <2>4. QED BY <2>1, <2>3 DEF Editor!Init
<1>2. IInv /\ [Next]_vars => [Editor!Next]_(Editor!vars)
  BY StepEdits
<1>3. QED BY SpecIInv, <1>1, <1>2, PTL DEF Spec, EditsLine, Editor!Spec

=============================================================================
