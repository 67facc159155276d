---------------------------- MODULE CommandText ----------------------------
(***************************************************************************)
(* The text functions under the console: how a typed line is trimmed, cut  *)
(* at a comment, split into parameters with quotes and the escape ^, and   *)
(* how a parameter is read as a number.  A CHAR16 string is a sequence of  *)
(* one-character strings, a pointer into it an index, its terminating zero *)
(* the index behind the last character, and a NULL pointer the index 0.    *)
(***************************************************************************)
EXTENDS Integers, Sequences, SequencesExt

CONSTANT MaxUint64      \* the largest value of a UINT64

ASSUME MaxUint64Assumption == MaxUint64 \in Nat /\ MaxUint64 > 15

Blank == {" ", "\t"}
Decimal == << "0", "1", "2", "3", "4", "5", "6", "7", "8", "9" >>
Hexadecimal == Decimal \o << "A", "B", "C", "D", "E", "F" >>

\* Characters that differ from their upper case, as far as the console's
\* commands, flags and numbers use them.
UpperCase ==
    [c \in {"a", "b", "c", "d", "e", "f", "w", "s", "p", "x", "m", "i", "t", "r", "o"} |->
        CASE c = "a" -> "A" [] c = "b" -> "B" [] c = "c" -> "C" [] c = "d" -> "D"
          [] c = "e" -> "E" [] c = "f" -> "F" [] c = "w" -> "W" [] c = "s" -> "S"
          [] c = "p" -> "P" [] c = "x" -> "X" [] c = "m" -> "M" [] c = "i" -> "I"
          [] c = "t" -> "T" [] c = "r" -> "R" [] c = "o" -> "O"]

InternalConsoleCharToUpper(c) == IF c \in DOMAIN UpperCase THEN UpperCase[c] ELSE c

Upper(s) == [i \in DOMAIN s |-> InternalConsoleCharToUpper(s[i])]

\* gUnicodeCollation->StriColl and StringNoCaseCompare say equal.
SameNoCase(s, t) == Upper(s) = Upper(t)

StartsWith(s, prefix) == IsPrefix(prefix, s)

-----------------------------------------------------------------------------
(* Trimming and comments.                                                   *)

Inked(s) == {i \in DOMAIN s : s[i] \notin Blank}

TrimSpaces(s) ==
    IF Inked(s) = {} THEN << >>
    ELSE SubSeq(s, CHOOSE i \in Inked(s) : \A j \in Inked(s) : i <= j,
                   CHOOSE i \in Inked(s) : \A j \in Inked(s) : j <= i)

\* RunShellCommand() walks the line and stops at the first # that it does not
\* take for the second half of ^#.
CommentStarts(s) == {i \in DOMAIN s : s[i] = "#" /\ ~(i > 1 /\ s[i - 1] = "^")}

NullOutComment(s) ==
    IF CommentStarts(s) = {} THEN s
    ELSE SubSeq(s, 1, (CHOOSE i \in CommentStarts(s) : \A j \in CommentStarts(s) : i <= j) - 1)

\* RunInternalCommand() turns ^# into #.
UnescapeComment(s) ==
    LET escape(i) == s[i] = "^" /\ i < Len(s) /\ s[i + 1] = "#"
        kept[i \in 1..Len(s) + 1] ==
            IF i > Len(s) THEN << >>
            ELSE (IF escape(i) THEN << >> ELSE << s[i] >>) \o kept[i + 1]
    IN  kept[1]

-----------------------------------------------------------------------------
(* Splitting into parameters.                                               *)

\* A character behind the escape character is passed over together with it.
FindFirstCharacter(s, from, list, escape) ==
    LET walk[i \in from..Len(s) + 2] ==
            IF i > Len(s) THEN Len(s) + 1
            ELSE IF s[i] = escape THEN walk[i + 2]
            ELSE IF s[i] \in list THEN i
            ELSE walk[i + 1]
    IN  walk[from]

NoEscape == "none"

FindEndOfParameter_NoEscape(s, from) ==
    LET ends == {i \in from..Len(s) : s[i] = " "}
    IN  IF ends = {} THEN Len(s) + 1 ELSE CHOOSE i \in ends : \A j \in ends : i <= j

FindEndOfParameter(s, from) ==
    LET end[i \in from..Len(s) + 1] ==
            LET First == FindFirstCharacter(s, i, {" ", "\""}, "^")
                CloseQuote == FindFirstCharacter(s, First + 1, {"\""}, "^")
            IN  IF First > Len(s) \/ s[First] = " " THEN First
                ELSE IF CloseQuote > Len(s) THEN 0
                ELSE end[CloseQuote + 1]
    IN  end[from]

\* The loop that removes quotes and escapes of one parameter in place.
Unquoted(p, StripQuotation) ==
    LET rest[i \in 1..Len(p) + 2] ==
            LET next == FindFirstCharacter(p, i, {"\"", "^"}, NoEscape)
                before == SubSeq(p, i, next - 1)
            IN  IF next > Len(p) THEN before
                ELSE IF p[next] = "^"
                THEN before \o (IF next < Len(p) THEN << p[next + 1] >> ELSE << >>) \o rest[next + 2]
                ELSE before \o (IF StripQuotation THEN << >> ELSE << "\"" >>) \o rest[next + 1]
    IN  IF p = << >> THEN p ELSE rest[1]

\* [status, Walker, TempParameter]; on an error the caller uses only the status.
GetNextParameter(s, Walker, StripQuotation) ==
    LET begins == {i \in Walker..Len(s) : s[i] # " "}
        start == CHOOSE i \in begins : \A j \in begins : i <= j
        NextDelim == FindEndOfParameter(s, start)
    IN  IF begins = {} THEN [status |-> "INVALID_PARAMETER", Walker |-> Len(s) + 1, param |-> << >>]
        ELSE IF NextDelim = 0 THEN [status |-> "NOT_FOUND", Walker |-> start, param |-> << >>]
        ELSE [status |-> "SUCCESS", Walker |-> NextDelim,
              param |-> Unquoted(SubSeq(s, start, NextDelim - 1), StripQuotation)]

\* The parameters until the line ends or one cannot be taken: the two loops
\* of ParseCommandLineToArgs() see the same ones.
Parameters(s, StripQuotation) ==
    LET from[Walker \in 1..Len(s) + 1] ==
            LET next == GetNextParameter(s, Walker, StripQuotation)
            IN  IF Walker > Len(s) THEN [status |-> "SUCCESS", args |-> << >>]
                ELSE IF next.status # "SUCCESS" THEN [status |-> "INVALID_PARAMETER", args |-> << >>]
                ELSE [from[next.Walker] EXCEPT !.args = << next.param >> \o @]
    IN  from[1]

-----------------------------------------------------------------------------
(* Numbers.                                                                 *)

DecimalDigits == ToSet(Decimal)
HexadecimalDigits == ToSet(Hexadecimal) \cup {"a", "b", "c", "d", "e", "f"}

ConsoleIsDecimalDigitCharacter(c) == c \in DecimalDigits
ConsoleIsHexaDecimalDigitCharacter(c) == c \in HexadecimalDigits
InternalConsoleHexCharToUintn(c) ==
    (CHOOSE i \in DOMAIN Hexadecimal : Hexadecimal[i] = InternalConsoleCharToUpper(c)) - 1

\* s without its leading characters that are in chars.
SkipAll(s, chars) ==
    LET others == {i \in DOMAIN s : s[i] \notin chars}
    IN  IF others = {} THEN << >>
        ELSE SubSeq(s, CHOOSE i \in others : \A j \in others : i <= j, Len(s))

First(s, chars) == s # << >> /\ s[1] \in chars

InternalConsoleIsHexOrDecimalNumber(String, ForceHex, StopAtSpace, TimeNumbers) ==
    LET number == IF First(String, {"-"}) THEN Tail(String) ELSE String
        rest == SkipAll(number, {"0"})
        LeadingZero == First(number, {"0"})
        X == First(rest, {"x", "X"})
        Hex == X \/ ForceHex
        digits == IF X THEN Tail(rest) ELSE rest
        stops == {i \in DOMAIN digits : StopAtSpace /\ digits[i] = " "}
        looked == {i \in DOMAIN digits : \A j \in stops : i < j}
    IN  /\ number # << >>
        /\ X => LeadingZero
        /\ \A i \in looked :
             \/ TimeNumbers /\ digits[i] = ":"
             \/ IF Hex THEN ConsoleIsHexaDecimalDigitCharacter(digits[i])
                       ELSE ConsoleIsDecimalDigitCharacter(digits[i])

\* ConsoleParameters.c holds this function twice, word for word.
ConsoleInternalShellIsHexOrDecimalNumber(String, ForceHex, StopAtSpace, TimeNumbers) ==
    InternalConsoleIsHexOrDecimalNumber(String, ForceHex, StopAtSpace, TimeNumbers)

\* The digits at the start of s accumulated in a UINT64, or an overflow: digit
\* d may be added while Result <= (MaxUint64 - d) / base.
Accumulate(s, base, digits) ==
    LET sum[i \in 0..Len(s)] ==
            IF i = 0 THEN [status |-> "SUCCESS", value |-> 0, stop |-> FALSE]
            ELSE LET r == sum[i - 1]
                     d == InternalConsoleHexCharToUintn(s[i])
                 IN  IF r.stop \/ s[i] \notin digits THEN [r EXCEPT !.stop = TRUE]
                     ELSE IF r.value > (MaxUint64 - d) \div base
                     THEN [status |-> "DEVICE_ERROR", value |-> 0, stop |-> TRUE]
                     ELSE [r EXCEPT !.value = base * @ + d]
    IN  [status |-> sum[Len(s)].status, value |-> sum[Len(s)].value]

\* The digit loops end at a space whether StopAtSpace asks for it or not.  An x
\* without a zero before it returns success with no value; callers test the
\* text first.
InternalConsoleStrHexToUint64(String) ==
    LET text == SkipAll(String, Blank)
        rest == SkipAll(text, {"0"})
        digits == IF First(rest, {"x", "X"}) THEN Tail(rest) ELSE rest
    IN  IF First(digits, {" "}) THEN [status |-> "INVALID_PARAMETER", value |-> 0]
        ELSE Accumulate(digits, 16, HexadecimalDigits)

InternalConsoleStrDecimalToUint64_Wraps(String) ==
    LET text == SkipAll(SkipAll(String, Blank), {"0"})
        stop == SelectInSeq(text, LAMBDA c : c \notin DecimalDigits)
        digits == IF stop = 0 THEN text ELSE SubSeq(text, 1, stop - 1)
    IN  [status |-> "SUCCESS",
         value |-> FoldLeft(LAMBDA sum, c : (10 * sum + InternalConsoleHexCharToUintn(c)) % (MaxUint64 + 1),
                            0, digits)]

InternalConsoleStrDecimalToUint64(String) ==
    Accumulate(SkipAll(SkipAll(String, Blank), {"0"}), 10, DecimalDigits)

ConsoleConvertStringToUint64(String, ForceHex, StopAtSpace) ==
    LET IsNumber(s, hex) == InternalConsoleIsHexOrDecimalNumber(s, hex, StopAtSpace, FALSE)
        Hex == ForceHex \/ ~IsNumber(String, FALSE)
        Walker == SkipAll(String, {" "})
    IN  IF \/ ~IsNumber(String, Hex)
           \/ Walker = << >>
           \/ ~IsNumber(Walker, Hex)
        THEN [status |-> "INVALID_PARAMETER", value |-> 0]
        ELSE IF \/ Hex
                \/ StartsWith(Walker, << "0", "x" >>)
                \/ StartsWith(Walker, << "0", "X" >>)
        THEN InternalConsoleStrHexToUint64(Walker)
        ELSE InternalConsoleStrDecimalToUint64(Walker)

\* EFI_NOT_FOUND is the answer for a number when no value is asked for.
ConsoleIsHexOrDecimalNumber(String, ForceHex, StopAtSpace) ==
    ConsoleConvertStringToUint64(String, ForceHex, StopAtSpace).status = "SUCCESS"

=============================================================================
