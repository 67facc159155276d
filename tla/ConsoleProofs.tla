---------------------------- MODULE ConsoleProofs ----------------------------
(***************************************************************************)
(* The console's two sides.  Its hot key never starts a second console in  *)
(* the first one once there is a timer, and a capture writes to no file    *)
(* but the one that it created and that was not there before: for any      *)
(* depth of notifications and any number of file names.  And its command   *)
(* line frees what it allocated: for every line, every list of commands    *)
(* and whichever allocation fails.                                         *)
(***************************************************************************)
EXTENDS HotKeys, CommandLine, SequenceTheorems, WellFoundedInduction, TLAPS

Kinds == {"console", "capture"}
Contents == {"absent", "empty", "cut", "screen"}

-----------------------------------------------------------------------------
(* The inductive invariant.                                                 *)

TypeOK ==
    /\ calls \in Seq(Kinds)
    /\ mTimerEvent \in {"NULL", "clear", "armed", "signalled"}
    /\ files \in [1..MAX_PRINT_SCREEN_FILES -> Contents]
    /\ Index \in 0..MAX_PRINT_SCREEN_FILES

\* A capture calls no notification.
NestInv == \A i \in 1..Len(calls) : calls[i] = "capture" => i = Len(calls)

\* While a session runs its timer stays cleared, from the check that found it
\* signalled to the end of the session, which arms it.
SessionInv ==
    Console!IsEvent(mTimerEvent) =>
        /\ \A i, j \in 1..Len(calls) : calls[i] = "console" /\ calls[j] = "console" => i = j
        /\ \A i \in 1..Len(calls) : calls[i] = "console" => mTimerEvent = "clear"

\* The capture that runs has a file, and only it has.
CaptureInv == Index # 0 <=> Len(calls) # 0 /\ calls[Len(calls)] = "capture"

IInv == TypeOK /\ NestInv /\ SessionInv /\ CaptureInv

-----------------------------------------------------------------------------
(* Sequences and minima.                                                    *)

\* The stack of calls after a call and after a return.
LEMMA Stacks ==
    ASSUME NEW s \in Seq(Kinds)
    PROVE  /\ \A e \in Kinds :
                /\ Append(s, e) \in Seq(Kinds) /\ Len(Append(s, e)) = Len(s) + 1
                /\ \A i \in 1..Len(s) : Append(s, e)[i] = s[i]
                /\ Append(s, e)[Len(s) + 1] = e
           /\ s # << >> <=> Len(s) # 0
           /\ s # << >> =>
                /\ Console!Front(s) \in Seq(Kinds) /\ Len(Console!Front(s)) = Len(s) - 1
                /\ \A i \in 1..Len(s) - 1 : Console!Front(s)[i] = s[i]
                /\ Logger!Front(s) = Console!Front(s)
           /\ Console!Last(s) = s[Len(s)] /\ Logger!Last(s) = s[Len(s)]
<1>1. \A e \in Kinds :
        /\ Append(s, e) \in Seq(Kinds) /\ Len(Append(s, e)) = Len(s) + 1
        /\ \A i \in 1..Len(s) : Append(s, e)[i] = s[i]
        /\ Append(s, e)[Len(s) + 1] = e
  OBVIOUS
<1>2. s # << >> <=> Len(s) # 0
  BY EmptySeq
<1>3. ASSUME s # << >>
      PROVE  /\ Console!Front(s) \in Seq(Kinds) /\ Len(Console!Front(s)) = Len(s) - 1
             /\ \A i \in 1..Len(s) - 1 : Console!Front(s)[i] = s[i]
             /\ Logger!Front(s) = Console!Front(s)
  <2> DEFINE n == Len(s)
  <2>1. n \in Nat \ {0} /\ \A i \in 1..n : s[i] \in Kinds
    BY <1>2, <1>3
  <2> HIDE DEF n
  <2>2. n - 1 \in Nat /\ \A i \in 1..n - 1 : s[i] \in Kinds
    BY <2>1
  <2>3. /\ SubSeq(s, 1, n - 1) \in Seq(Kinds) /\ Len(SubSeq(s, 1, n - 1)) = n - 1
        /\ \A i \in 1..n - 1 : SubSeq(s, 1, n - 1)[i] = s[i]
    BY <2>2
  <2>4. QED BY <2>3 DEF n, Console!Front, Logger!Front
<1>4. Console!Last(s) = s[Len(s)] /\ Logger!Last(s) = s[Len(s)]
  BY DEF Console!Last, Logger!Last
<1>5. QED BY <1>1, <1>2, <1>3, <1>4

\* A set of natural numbers has a least one.
LEMMA LeastExists ==
    ASSUME NEW T, T \subseteq Nat, T # {}
    PROVE  \E n \in T : \A k \in T : n <= k
<1> DEFINE R == OpToRel(<, Nat)
<1>1. IsWellFoundedOn(R, Nat)
  BY NatLessThanWellFounded
<1>2. \A x, y \in Nat : x < y => << x, y >> \in R
  BY DEF OpToRel
<1> HIDE DEF R
<1>3. PICK n \in T : \A k \in T : << k, n >> \notin R
  BY <1>1, WFMin
<1>4. ASSUME NEW k \in T PROVE n <= k
  <2>1. n \in Nat /\ k \in Nat /\ ~(k < n)
    BY <1>2, <1>3
  <2>2. QED BY <2>1
<1>5. QED BY <1>4

\* The name that the search finds is one whose file is not there (FreeName).
LEMMA FreeNameIsAbsent ==
    ASSUME NEW errors, Logger!FreeName(errors) # 0
    PROVE  Logger!FreeName(errors) \in 1..MAX_PRINT_SCREEN_FILES /\ files[Logger!FreeName(errors)] = "absent"
<1> DEFINE free == {n \in Logger!Names : files[n] = "absent" /\ n \notin errors}
<1>1. free \subseteq Nat /\ free \subseteq 1..MAX_PRINT_SCREEN_FILES
  BY DEF Logger!Names
<1>2. Logger!FreeName(errors) = IF free = {} THEN 0 ELSE CHOOSE n \in free : \A k \in free : n <= k
  BY DEF Logger!FreeName
<1>3. free # {}
  BY <1>2
<1>4. \E n \in free : \A k \in free : n <= k
  BY <1>1, <1>3, LeastExists
<1>5. Logger!FreeName(errors) \in free
  BY <1>2, <1>3, <1>4
<1>6. QED BY <1>1, <1>5

-----------------------------------------------------------------------------
(* Steps.                                                                   *)

\* Nothing runs and no timer is there.
LEMMA InitIInv == KeysInit => IInv
<1> SUFFICES ASSUME KeysInit PROVE IInv
  OBVIOUS
<1>1. /\ calls = << >> /\ mTimerEvent = "NULL" /\ Index = 0
      /\ files = [n \in 1..MAX_PRINT_SCREEN_FILES |-> "absent"]
  BY DEF KeysInit, Console!Init, Logger!Init, Logger!Names
<1>2. calls \in Seq(Kinds) /\ Len(calls) = 0
  BY <1>1, EmptySeq
<1>3. files \in [1..MAX_PRINT_SCREEN_FILES -> Contents]
  BY <1>1 DEF Contents
<1>4. Index \in 0..MAX_PRINT_SCREEN_FILES
  BY <1>1, BoundsAssumption
<1>5. TypeOK
  BY <1>1, <1>2, <1>3, <1>4 DEF TypeOK
<1>6. NestInv /\ SessionInv /\ CaptureInv
  BY <1>1, <1>2 DEF NestInv, SessionInv, CaptureInv
<1>7. QED BY <1>5, <1>6 DEF IInv

\* A notification begins on top of nothing or of a session, never of a capture.
LEMMA CallBegins ==
    ASSUME IInv, NEW kind \in Kinds, calls # << >> => Console!Last(calls) = "console",
           calls' = Append(calls, kind)
    PROVE  /\ calls' \in Seq(Kinds) /\ Len(calls') = Len(calls) + 1
           /\ \A i \in 1..Len(calls) : calls[i] = "console" /\ calls'[i] = "console"
           /\ calls'[Len(calls')] = kind
           /\ NestInv'
           /\ Index = 0
<1> DEFINE n == Len(calls)
<1>1. /\ calls \in Seq(Kinds) /\ n \in Nat
      /\ \A i \in 1..n : calls[i] \in Kinds
  BY DEF IInv, TypeOK
<1>2. n # 0 => calls[n] = "console"
  BY <1>1, Stacks
<1>3. \A i \in 1..n : calls[i] = "capture" => i = n
  BY DEF IInv, NestInv
<1>4. calls' \in Seq(Kinds) /\ Len(calls') = n + 1 /\ calls'[n + 1] = kind
      /\ \A i \in 1..n : calls'[i] = calls[i]
  BY <1>1, Stacks
<1> HIDE DEF n
<1>5. \A i \in 1..n : calls[i] = "console"
  BY <1>1, <1>2, <1>3 DEF Kinds
<1>6. \A i \in 1..n + 1 : calls'[i] = "capture" => i = n + 1
  BY <1>1, <1>4, <1>5
<1>7. Index = 0
  BY <1>2 DEF IInv, CaptureInv, n
<1>8. QED BY <1>4, <1>5, <1>6, <1>7 DEF NestInv, n

\* A press that finds the timer signalled starts a session, and clears it.
LEMMA SessionBegins ==
    ASSUME IInv, Console!NotificationFunction, UNCHANGED loggerVars
    PROVE  IInv'
<1>1. calls # << >> => Console!Last(calls) = "console"
  BY DEF Console!NotificationFunction, Console!CanNotify
<1>2. calls' = Append(calls, "console") /\ mTimerEvent' = Console!Checked(mTimerEvent)
      /\ Console!CheckEvent(mTimerEvent) # "NOT_READY" /\ UNCHANGED << files, Index >>
  BY DEF Console!NotificationFunction, loggerVars
<1> DEFINE n == Len(calls)
<1>3. /\ calls' \in Seq(Kinds) /\ Len(calls') = n + 1
      /\ \A i \in 1..n : calls[i] = "console" /\ calls'[i] = "console"
      /\ calls'[n + 1] = "console"
      /\ NestInv' /\ Index = 0
  BY <1>1, <1>2, CallBegins DEF Kinds
<1>4. TypeOK'
  BY <1>2, <1>3 DEF IInv, TypeOK, Console!Checked
<1>5. CaptureInv'
  BY <1>2, <1>3 DEF CaptureInv
<1>6. SessionInv'
  <2> SUFFICES ASSUME Console!IsEvent(mTimerEvent')
               PROVE  n = 0 /\ mTimerEvent' = "clear"
    BY <1>3 DEF SessionInv
  <2>1. mTimerEvent = "signalled" /\ mTimerEvent' = "clear"
    BY <1>2 DEF IInv, TypeOK, Console!IsEvent, Console!Checked, Console!CheckEvent
  <2>2. \A i \in 1..n : calls[i] # "console"
    BY <2>1 DEF IInv, SessionInv, Console!IsEvent
  <2>3. n \in Nat
    BY DEF IInv, TypeOK
  <2> HIDE DEF n
  <2>4. n = 0
    BY <1>3, <2>2, <2>3
  <2>5. QED BY <2>1, <2>4
<1>7. QED BY <1>3, <1>4, <1>5, <1>6 DEF IInv

\* A call returns: what is left of the stack are sessions.
LEMMA CallEnds ==
    ASSUME IInv, calls # << >>, calls' = Console!Front(calls)
    PROVE  /\ calls' \in Seq(Kinds) /\ Len(calls) \in Nat \ {0} /\ Len(calls') = Len(calls) - 1
           /\ \A i \in 1..Len(calls') : calls[i] = "console" /\ calls'[i] = "console"
           /\ NestInv'
<1> DEFINE n == Len(calls)
<1>1. /\ calls \in Seq(Kinds) /\ n \in Nat
      /\ \A i \in 1..n : calls[i] \in Kinds
  BY DEF IInv, TypeOK
<1>2. n # 0 /\ calls' \in Seq(Kinds) /\ Len(calls') = n - 1 /\ \A i \in 1..n - 1 : calls'[i] = calls[i]
  BY <1>1, Stacks
<1>3. \A i \in 1..n : calls[i] = "capture" => i = n
  BY DEF IInv, NestInv
<1> HIDE DEF n
<1>4. \A i \in 1..n - 1 : calls[i] = "console"
  BY <1>1, <1>2, <1>3 DEF Kinds
<1>5. QED BY <1>1, <1>2, <1>4 DEF NestInv, n

\* A session goes on, or ends and arms the timer.
LEMMA SessionStep ==
    ASSUME IInv, NEW exits \in BOOLEAN, Console!DoConsolePrompt(exits), UNCHANGED loggerVars
    PROVE  IInv'
<1>1. UNCHANGED << files, Index >> /\ calls # << >> /\ Console!Last(calls) = "console"
  BY DEF Console!DoConsolePrompt, Console!InSession, loggerVars
<1>2. CASE UNCHANGED << calls, mTimerEvent >>
  BY <1>1, <1>2 DEF IInv, TypeOK, NestInv, SessionInv, CaptureInv, Console!IsEvent
<1>3. CASE calls' = Console!Front(calls) /\ mTimerEvent' = Console!SetTimer(mTimerEvent)
  <2> DEFINE n == Len(calls)
  <2>1. /\ calls' \in Seq(Kinds) /\ n \in Nat \ {0} /\ Len(calls') = n - 1
        /\ \A i \in 1..n - 1 : calls[i] = "console" /\ calls'[i] = "console"
        /\ NestInv'
    BY <1>1, <1>3, CallEnds
  <2>2. calls[n] = "console"
    BY <1>1, Stacks DEF IInv, TypeOK
  <2>3. TypeOK'
    BY <1>1, <1>3, <2>1 DEF IInv, TypeOK, Console!SetTimer
  <2>4. Index = 0
    BY <2>2 DEF IInv, CaptureInv
  <2>5. Console!IsEvent(mTimerEvent') =>
          \A i, j \in 1..n : calls[i] = "console" /\ calls[j] = "console" => i = j
    BY <1>3 DEF IInv, SessionInv, TypeOK, Console!IsEvent, Console!SetTimer
  <2> HIDE DEF n
  <2>6. Console!IsEvent(mTimerEvent') => n = 1
    <3>1. ASSUME Console!IsEvent(mTimerEvent'), n > 1 PROVE FALSE
      <4>1. 1 \in 1..n - 1 /\ 1 \in 1..n /\ n \in 1..n
        BY <2>1, <3>1
      <4>2. 1 = n
        BY <2>1, <2>2, <2>5, <3>1, <4>1
      <4>3. QED BY <3>1, <4>2
    <3>2. QED BY <2>1, <3>1
  <2>7. SessionInv'
    <3> SUFFICES ASSUME Console!IsEvent(mTimerEvent') PROVE Len(calls') = 0
      BY DEF SessionInv
    <3>1. QED BY <2>1, <2>6
  <2>8. CaptureInv'
    <3>1. \A m \in Nat : m # 0 /\ m = n - 1 => m \in 1..n - 1
      BY <2>1
    <3>2. Len(calls') # 0 => calls'[Len(calls')] = "console"
      BY <2>1, <3>1
    <3>3. QED BY <1>1, <2>4, <3>2 DEF CaptureInv
  <2>9. QED BY <2>1, <2>3, <2>7, <2>8 DEF IInv
<1>4. QED BY <1>2, <1>3 DEF Console!DoConsolePrompt

\* The steps of the console.
LEMMA ConsoleStep ==
    ASSUME IInv, Console!Next, UNCHANGED loggerVars
    PROVE  IInv'
<1>1. UNCHANGED << files, Index >>
  BY DEF loggerVars
<1>2. CASE UNCHANGED << calls, mTimerEvent >>
  BY <1>1, <1>2 DEF IInv, TypeOK, NestInv, SessionInv, CaptureInv, Console!IsEvent
<1>3. CASE Console!UefiConsoleEntry \/ Console!RegisterKeyNotify \/ Console!StartFails \/ Console!NotificationOfRemovedImage
  BY <1>2, <1>3 DEF Console!UefiConsoleEntry, Console!RegisterKeyNotify, Console!StartFails, Console!NotificationOfRemovedImage
<1>4. CASE Console!CreateEvent \/ Console!SignalEvent
  <2>1. UNCHANGED calls /\ calls = << >> /\ mTimerEvent' \in {"clear", "signalled"}
    BY <1>4 DEF Console!CreateEvent, Console!SignalEvent, Console!Waiting
  <2>2. Len(calls) = 0
    BY <2>1
  <2>3. QED BY <1>1, <2>1, <2>2 DEF IInv, TypeOK, NestInv, SessionInv, CaptureInv
<1>5. CASE Console!TimerFires
  <2>1. UNCHANGED calls /\ mTimerEvent = "armed" /\ mTimerEvent' = "signalled"
    BY <1>5 DEF Console!TimerFires
  <2>2. \A i \in 1..Len(calls) : calls[i] # "console"
    BY <2>1 DEF IInv, SessionInv, Console!IsEvent
  <2>3. QED BY <1>1, <2>1, <2>2 DEF IInv, TypeOK, NestInv, SessionInv, CaptureInv
<1>6. CASE Console!NotificationFunction
  BY <1>6, SessionBegins
<1>7. CASE \E exits \in BOOLEAN : Console!DoConsolePrompt(exits)
  BY <1>7, SessionStep
<1>8. QED BY <1>3, <1>4, <1>5, <1>6, <1>7 DEF Console!Next, Console!Start

\* Captures change one file: the one that was not there, or the one of the
\* capture that runs, or one that the user deletes.
FilesChange ==
    \A n \in DOMAIN files :
        files[n] # "absent" => files'[n] \in {files[n], "absent"} \/ Index = n

\* A capture begins: it creates the file of a name that was free.
LEMMA CaptureBegins ==
    ASSUME IInv, NEW handles, NEW errors, Logger!PrintScreenCallback(handles, errors, TRUE),
           UNCHANGED consoleVars
    PROVE  IInv' /\ FilesChange
<1> DEFINE name == Logger!FreeName(errors)
           n == Len(calls)
<1>1. /\ calls # << >> => Console!Last(calls) = "console"
      /\ name # 0
      /\ files' = [files EXCEPT ![name] = "empty"] /\ Index' = name
      /\ calls' = Append(calls, "capture")
      /\ UNCHANGED mTimerEvent
  BY DEF Logger!PrintScreenCallback, Logger!CanNotify, Logger!Last, Console!Last, consoleVars
<1>2. name \in 1..MAX_PRINT_SCREEN_FILES /\ files[name] = "absent"
  BY <1>1, FreeNameIsAbsent
<1>3. /\ calls' \in Seq(Kinds) /\ n \in Nat /\ Len(calls') = n + 1
      /\ \A i \in 1..n : calls[i] = "console" /\ calls'[i] = "console"
      /\ calls'[n + 1] = "capture"
      /\ NestInv'
  BY <1>1, CallBegins DEF Kinds, IInv, TypeOK
<1> HIDE DEF name
<1>4. TypeOK'
  BY <1>1, <1>2, <1>3, BoundsAssumption DEF IInv, TypeOK, Contents
<1>5. FilesChange
  BY <1>1, <1>2 DEF FilesChange, IInv, TypeOK
<1>6. SessionInv'
  <2>1. Console!IsEvent(mTimerEvent) =>
          /\ \A i, j \in 1..n : calls[i] = "console" /\ calls[j] = "console" => i = j
          /\ \A i \in 1..n : calls[i] = "console" => mTimerEvent = "clear"
    BY DEF IInv, SessionInv
  <2> HIDE DEF n
  <2>2. \A i \in 1..n + 1 : calls'[i] = "console" => i \in 1..n /\ calls[i] = "console"
    BY <1>3
  <2>3. QED BY <1>1, <1>3, <2>1, <2>2 DEF SessionInv, Console!IsEvent
<1>7. CaptureInv'
  <2> HIDE DEF n
  <2>1. Index' # 0 /\ n + 1 # 0
    BY <1>1, <1>2, <1>3, BoundsAssumption
  <2>2. QED BY <1>3, <2>1 DEF CaptureInv
<1>8. QED BY <1>3, <1>4, <1>5, <1>6, <1>7 DEF IInv

\* A capture ends: what it wrote is in its file, whatever became of the write.
LEMMA CaptureEnds ==
    ASSUME IInv, NEW content \in {"empty", "cut", "screen"}, Logger!WriteBmpToFile(content),
           UNCHANGED consoleVars
    PROVE  IInv' /\ FilesChange
<1> DEFINE n == Len(calls)
<1>1. /\ calls # << >>
      /\ files' = [files EXCEPT ![Index] = content] /\ Index' = 0
      /\ calls' = Logger!Front(calls)
      /\ UNCHANGED mTimerEvent
  BY DEF Logger!WriteBmpToFile, Logger!HoldOff, consoleVars
<1>2. calls' = Console!Front(calls)
  BY <1>1, Stacks DEF IInv, TypeOK
<1>3. /\ calls' \in Seq(Kinds) /\ n \in Nat \ {0} /\ Len(calls') = n - 1
      /\ \A i \in 1..n - 1 : calls[i] = "console" /\ calls'[i] = "console"
      /\ NestInv'
  BY <1>1, <1>2, CallEnds
<1>4. TypeOK'
  <2>1. files' \in [1..MAX_PRINT_SCREEN_FILES -> Contents]
    BY <1>1 DEF IInv, TypeOK, Contents
  <2>2. Index' \in 0..MAX_PRINT_SCREEN_FILES
    BY <1>1, BoundsAssumption
  <2>3. QED BY <1>1, <1>3, <2>1, <2>2 DEF IInv, TypeOK
<1>5. FilesChange
  BY <1>1 DEF FilesChange, IInv, TypeOK
<1>6. SessionInv'
  <2>1. Console!IsEvent(mTimerEvent) =>
          /\ \A i, j \in 1..n : calls[i] = "console" /\ calls[j] = "console" => i = j
          /\ \A i \in 1..n : calls[i] = "console" => mTimerEvent = "clear"
    BY DEF IInv, SessionInv
  <2> HIDE DEF n
  <2>2. \A i \in 1..n - 1 : i \in 1..n /\ calls[i] = "console"
    BY <1>3
  <2>3. QED BY <1>1, <1>3, <2>1, <2>2 DEF SessionInv, Console!IsEvent
<1>7. CaptureInv'
  <2> HIDE DEF n
  <2>1. \A m \in Nat : m # 0 /\ m = n - 1 => m \in 1..n - 1
    BY <1>3
  <2>2. Len(calls') # 0 => calls'[Len(calls')] = "console"
    BY <1>3, <2>1
  <2>3. QED BY <1>1, <2>2 DEF CaptureInv
<1>8. QED BY <1>3, <1>4, <1>5, <1>6, <1>7 DEF IInv

\* The steps of the logger.
LEMMA LoggerStep ==
    ASSUME IInv, Logger!Next, UNCHANGED consoleVars
    PROVE  IInv' /\ FilesChange
<1>1. UNCHANGED mTimerEvent
  BY DEF consoleVars
<1>2. ASSUME UNCHANGED << calls, Index >>, files' \in [1..MAX_PRINT_SCREEN_FILES -> Contents],
             \A n \in 1..MAX_PRINT_SCREEN_FILES : files'[n] \in {files[n], "absent"}
      PROVE  IInv' /\ FilesChange
  BY <1>1, <1>2 DEF IInv, TypeOK, NestInv, SessionInv, CaptureInv, Console!IsEvent, FilesChange
<1>3. ASSUME UNCHANGED << calls, Index, files >> PROVE IInv' /\ FilesChange
  BY <1>2, <1>3 DEF IInv, TypeOK
<1>4. CASE Logger!Start \/ Logger!PrintScreenLoggerUnload \/ Logger!TimerFires
  BY <1>3, <1>4 DEF Logger!Start, Logger!PrintScreenLoggerEntry, Logger!RegisterKeyNotify, Logger!CreateEvent,
     Logger!SignalEvent, Logger!StartFails, Logger!PrintScreenLoggerUnload, Logger!TimerFires
<1>5. ASSUME NEW handles \in Logger!HandleBuffers, Logger!VolumeNeverSet(handles)
      PROVE  IInv' /\ FilesChange
  BY <1>3, <1>5 DEF Logger!VolumeNeverSet
<1>6. ASSUME NEW handles \in Logger!HandleBuffers, NEW errors \in SUBSET Logger!Names, NEW created \in BOOLEAN,
             Logger!PrintScreenCallback(handles, errors, created)
      PROVE  IInv' /\ FilesChange
  <2>1. CASE created = TRUE
    BY <1>6, <2>1, CaptureBegins
  <2>2. CASE created = FALSE
    <3>1. UNCHANGED << calls, Index, files >>
      BY <1>6, <2>2 DEF Logger!PrintScreenCallback, Logger!HoldOff
    <3>2. QED BY <1>3, <3>1
  <2>3. QED BY <1>6, <2>1, <2>2
<1>7. ASSUME NEW content \in {"empty", "cut", "screen"}, Logger!WriteBmpToFile(content)
      PROVE  IInv' /\ FilesChange
  BY <1>7, CaptureEnds
<1>8. ASSUME NEW n \in Logger!Names, Logger!DeleteFile(n)
      PROVE  IInv' /\ FilesChange
  <2>1. UNCHANGED << calls, Index >> /\ files' = [files EXCEPT ![n] = "absent"]
    BY <1>8 DEF Logger!DeleteFile
  <2>2. QED BY <1>2, <2>1 DEF IInv, TypeOK, Contents
<1>9. QED BY <1>4, <1>5, <1>6, <1>7, <1>8 DEF Logger!Next

\* Every step keeps the invariant, and the captures that it does not own.
LEMMA NextIInv == IInv /\ [KeysNext]_keysVars => IInv' /\ [FilesChange]_keysVars
<1> SUFFICES ASSUME IInv, [KeysNext]_keysVars PROVE IInv' /\ [FilesChange]_keysVars
  OBVIOUS
<1>1. CASE Console!Next /\ UNCHANGED loggerVars
  <2>1. FilesChange
    BY <1>1 DEF FilesChange, loggerVars
  <2>2. QED BY <1>1, <2>1, ConsoleStep
<1>2. CASE Logger!Next /\ UNCHANGED consoleVars
  BY <1>2, LoggerStep
<1>3. CASE UNCHANGED keysVars
  <2>1. UNCHANGED << calls, mTimerEvent, Index, files >>
    BY <1>3 DEF keysVars, consoleVars, loggerVars
  <2>2. IInv'
    BY <2>1 DEF IInv, TypeOK, NestInv, SessionInv, CaptureInv, Console!IsEvent
  <2>3. QED BY <1>3, <2>2
<1>4. QED BY <1>1, <1>2, <1>3 DEF KeysNext

-----------------------------------------------------------------------------
(* Theorems.                                                                *)

\* The invariant holds in every reachable state.
LEMMA SpecIInv == KeysSpec => []IInv
<1>1. QED BY InitIInv, NextIInv, PTL DEF KeysSpec

\* OneConsole: once UefiConsoleEntry() has made the timer, no press starts a
\* console inside the session of another one.
THEOREM OneConsoleAlways == KeysSpec => []OneConsole
<1>1. IInv => OneConsole
  <2> SUFFICES ASSUME IInv PROVE OneConsole
    OBVIOUS
  <2>1. DOMAIN calls = 1..Len(calls)
    BY DEF IInv, TypeOK
  <2>2. ASSUME Console!IsEvent(mTimerEvent), NEW i \in Sessions, NEW j \in Sessions
        PROVE  i = j
    <3>1. i \in 1..Len(calls) /\ j \in 1..Len(calls) /\ calls[i] = "console" /\ calls[j] = "console"
      BY <2>1 DEF Sessions
    <3>2. QED BY <2>2, <3>1 DEF IInv, SessionInv
  <2>3. QED BY <2>2 DEF OneConsole
<1>2. QED BY <1>1, SpecIInv, PTL

\* CapturesKept: PrintScreenCallback() and WriteBmpToFile() change no file that
\* is on the stick but the one of the capture that runs.
THEOREM CapturesAreKept == KeysSpec => CapturesKept
<1>1. IInv /\ [KeysNext]_keysVars => [FilesChange]_keysVars
  BY NextIInv
<1>2. QED BY <1>1, SpecIInv, PTL DEF KeysSpec, CapturesKept, FilesChange

-----------------------------------------------------------------------------
(* Functions of the positions of a text.                                    *)

\* A set of positions has a last one.
LEMMA Greatest ==
    ASSUME NEW n \in Nat, NEW S \in SUBSET (0..n), S # {}
    PROVE  \E x \in S : \A y \in S : y <= x
<1> DEFINE T == {n - x : x \in S}
<1>1. T \subseteq Nat /\ T # {}
  <2>1. \A x \in S : n - x \in Nat
    OBVIOUS
  <2> QED
    BY <2>1
<1> HIDE DEF T
<1>2. PICK t \in T : \A u \in T : t <= u
  BY <1>1, LeastExists
<1>3. PICK x \in S : t = n - x
  BY <1>2 DEF T
<1>4. ASSUME NEW y \in S PROVE y <= x
  <2>1. n - y \in T
    BY DEF T
  <2> QED
    BY <2>1, <1>2, <1>3
<1> QED
  BY <1>4

\* What holds at each position behind which it holds everywhere holds everywhere.
LEMMA InductionFromTheEnd ==
    ASSUME NEW a \in Nat, NEW M \in Nat, NEW S,
           \A i \in a..M : (\A j \in i + 1..M : j \in S) => i \in S
    PROVE  \A i \in a..M : i \in S
<1> DEFINE T == {i \in a..M : i \notin S}
<1> SUFFICES ASSUME T # {} PROVE FALSE
  OBVIOUS
<1>1. T \in SUBSET (0..M)
  OBVIOUS
<1> HIDE DEF T
<1>2. PICK x \in T : \A y \in T : y <= x
  BY <1>1, Greatest
<1>3. x \in a..M /\ x \notin S
  BY <1>2 DEF T
<1>4. \A j \in x + 1..M : j \in a..M /\ ~(j <= x)
  BY <1>3
<1>5. \A j \in x + 1..M : j \in S
  BY <1>2, <1>4 DEF T
<1> QED
  BY <1>3, <1>5

\* A function of the positions a to M that is defined from the end: at each one
\* by a value, or from its value at a later one.
FromTheEnd(a, M, V, Stop, base, next, step) ==
    /\ a \in Nat /\ M \in Nat
    /\ base \in [a..M -> V] /\ next \in [a..M -> Int] /\ step \in [a..M -> [V -> V]]
    /\ \A i \in a..M : i \notin Stop => next[i] > i /\ next[i] <= M

Follows(f, b, M, Stop, base, next, step) ==
    \A i \in b..M : f[i] = IF i \in Stop THEN base[i] ELSE step[i][f[next[i]]]

LEMMA FromTheEndDefines ==
    ASSUME NEW a, NEW M, NEW V, NEW Stop, NEW base, NEW next, NEW step,
           FromTheEnd(a, M, V, Stop, base, next, step)
    PROVE  \E f \in [a..M -> V] : Follows(f, a, M, Stop, base, next, step)
<1> a \in Nat /\ M \in Nat
  BY DEF FromTheEnd
<1> DEFINE Is(b, f) == f \in [b..M -> V] /\ Follows(f, b, M, Stop, base, next, step)
           S == {b \in a..M : \E f : Is(b, f)}
<1>1. CASE a > M
  <2>1. a..M = {}
    BY <1>1
  <2>2. [i \in a..M |-> base[i]] \in [a..M -> V]
    BY <2>1
  <2> QED
    BY <2>1, <2>2 DEF Follows
<1>2. CASE a <= M
  <2>1. ASSUME NEW b \in a..M, \A j \in b + 1..M : j \in S
        PROVE  b \in S
    <3>1. PICK f : f \in [b + 1..M -> V] /\ Follows(f, b + 1, M, Stop, base, next, step)
      <4>1. CASE b = M
        <5>1. b + 1..M = {}
          BY <4>1
        <5>2. [i \in b + 1..M |-> base[i]] \in [b + 1..M -> V]
          BY <5>1
        <5> QED
          BY <5>1, <5>2 DEF Follows
      <4>2. CASE b # M
        <5>1. b + 1 \in S
          BY <2>1, <4>2
        <5> QED
          BY <5>1
      <4> QED
        BY <4>1, <4>2
    <3> DEFINE here == IF b \in Stop THEN base[b] ELSE step[b][f[next[b]]]
               g == [i \in b..M |-> IF i = b THEN here ELSE f[i]]
    <3>2. b \notin Stop => next[b] \in b + 1..M
      BY DEF FromTheEnd
    <3>3. here \in V
      BY <3>1, <3>2 DEF FromTheEnd
    <3> HIDE DEF here
    <3>4. g \in [b..M -> V]
      BY <3>1, <3>3
    <3>5. \A i \in b + 1..M : g[i] = f[i] /\ i # b
      OBVIOUS
    <3>6. g[b] = here
      OBVIOUS
    <3> HIDE DEF g
    <3>7. g[b] = IF b \in Stop THEN base[b] ELSE step[b][g[next[b]]]
      BY <3>2, <3>5, <3>6 DEF here
    <3>8. ASSUME NEW i \in b + 1..M
          PROVE  g[i] = IF i \in Stop THEN base[i] ELSE step[i][g[next[i]]]
      <4>1. i \in a..M
        OBVIOUS
      <4>2. i \notin Stop => next[i] \in b + 1..M
        <5>1. i \notin Stop => next[i] > i /\ next[i] <= M /\ next[i] \in Int
          BY <4>1 DEF FromTheEnd
        <5> QED
          BY <5>1
      <4>3. f[i] = IF i \in Stop THEN base[i] ELSE step[i][f[next[i]]]
        BY <3>1 DEF Follows
      <4> QED
        BY <3>5, <4>2, <4>3
    <3>9. \A i \in b..M : i = b \/ i \in b + 1..M
      OBVIOUS
    <3>10. Is(b, g)
      BY <3>4, <3>7, <3>8, <3>9 DEF Follows
    <3> QED
      BY <3>10
  <2> HIDE DEF S
  <2>2. a \in a..M
    BY <1>2
  <2>3. a \in S
    BY <2>1, <2>2, InductionFromTheEnd
  <2> QED
    BY <2>3 DEF S
<1> QED
  BY <1>1, <1>2

-----------------------------------------------------------------------------
(* What becomes of a typed line is a text.                                  *)

Text == Seq(STRING)

\* What the scans choose: the first and the last of some positions.
LEMMA FirstOf ==
    ASSUME NEW n \in Nat, NEW S, S \subseteq 1..n, S # {}
    PROVE  LET x == CHOOSE i \in S : \A j \in S : i <= j
           IN  x \in S /\ x \in 1..n /\ \A j \in S : x <= j
<1>1. S \subseteq Nat
  OBVIOUS
<1>2. \E i \in S : \A j \in S : i <= j
  BY <1>1, LeastExists
<1> QED
  BY <1>2

LEMMA LastOf ==
    ASSUME NEW n \in Nat, NEW S, S \subseteq 1..n, S # {}
    PROVE  LET x == CHOOSE i \in S : \A j \in S : j <= i
           IN  x \in S /\ x \in 1..n /\ \A j \in S : j <= x
<1>1. S \in SUBSET (0..n)
  OBVIOUS
<1>2. \E i \in S : \A j \in S : j <= i
  BY <1>1, Greatest
<1> QED
  BY <1>2

\* A piece of a text is a text.
LEMMA PieceIsText ==
    ASSUME NEW s \in Text, NEW i \in 1..Len(s), NEW j \in 0..Len(s)
    PROVE  SubSeq(s, i, j) \in Text
  BY SubSeqProperties DEF Text

LEMMA TrimSpacesIsText ==
    ASSUME NEW s \in Text
    PROVE  TrimSpaces(s) \in Text
<1>1. CASE Inked(s) = {}
  BY <1>1 DEF TrimSpaces, Text
<1>2. CASE Inked(s) # {}
  <2>1. Inked(s) \subseteq 1..Len(s) /\ Len(s) \in Nat
    BY DEF Inked, Text
  <2> DEFINE i == CHOOSE k \in Inked(s) : \A l \in Inked(s) : k <= l
             j == CHOOSE k \in Inked(s) : \A l \in Inked(s) : l <= k
  <2>2. i \in 1..Len(s) /\ j \in 1..Len(s)
    BY <1>2, <2>1, FirstOf, LastOf
  <2>3. TrimSpaces(s) = SubSeq(s, i, j)
    BY <1>2 DEF TrimSpaces
  <2> HIDE DEF i, j
  <2>4. j \in 0..Len(s)
    BY <2>1, <2>2
  <2> QED
    BY <2>2, <2>3, <2>4, PieceIsText
<1> QED
  BY <1>1, <1>2

LEMMA NullOutCommentIsText ==
    ASSUME NEW s \in Text
    PROVE  NullOutComment(s) \in Text
<1>1. CASE CommentStarts(s) = {}
  BY <1>1 DEF NullOutComment
<1>2. CASE CommentStarts(s) # {}
  <2>1. CommentStarts(s) \subseteq 1..Len(s) /\ Len(s) \in Nat
    BY DEF CommentStarts, Text
  <2> DEFINE i == CHOOSE k \in CommentStarts(s) : \A l \in CommentStarts(s) : k <= l
  <2>2. i \in 1..Len(s)
    BY <1>2, <2>1, FirstOf
  <2>3. NullOutComment(s) = SubSeq(s, 1, i - 1)
    BY <1>2 DEF NullOutComment
  <2> HIDE DEF i
  <2>4. i - 1 \in 0..Len(s) /\ 1 \in 1..Len(s)
    BY <2>1, <2>2
  <2> QED
    BY <2>3, <2>4, PieceIsText
<1> QED
  BY <1>1, <1>2

LEMMA OneElement ==
    ASSUME NEW A, NEW x \in A
    PROVE  << x >> \in Seq(A)
  OBVIOUS

LEMMA UnescapeCommentIsText ==
    ASSUME NEW s \in Text
    PROVE  /\ UnescapeComment(s) \in Text
           /\ s # << >> => UnescapeComment(s) # << >>
<1> DEFINE n == Len(s)
           escape(i) == s[i] = "^" /\ i < n /\ s[i + 1] = "#"
           own(i) == IF escape(i) THEN << >> ELSE << s[i] >>
           M == n + 1
           Stop == {M}
           base == [i \in 1..M |-> << >>]
           next == [i \in 1..M |-> i + 1]
           step == [i \in 1..M |-> [v \in Text |-> IF i = M THEN v ELSE own(i) \o v]]
           body(f) == [i \in 1..M |-> IF i > n THEN << >> ELSE own(i) \o f[i + 1]]
<1>1. n \in Nat /\ M \in Nat /\ M = n + 1 /\ 1 \in 1..M /\ \A i \in 1..M : i \notin Stop => i \in 1..n
  BY DEF Text
<1>2. \A i \in 1..n : s[i] \in STRING
  BY DEF Text
<1> DEFINE Kept == {i \in 1..n : ~escape(i)}
<1>20. \A i \in Kept : own(i) # << >>
  BY Zenon
<1>21. n > 0 => 1 \in Kept \/ (2 \in Kept /\ 2 \in 1..n)
  <2> SUFFICES ASSUME n > 0, 1 \notin Kept PROVE 2 \in Kept /\ 2 \in 1..n
    OBVIOUS
  <2>1. 1 \in 1..n /\ 1 + 1 = 2
    BY <1>1
  <2>2. escape(1)
    BY <2>1
  <2>3. 1 < n /\ s[2] = "#"
    BY <2>1, <2>2
  <2>4. 2 \in 1..n /\ ~escape(2)
    <3>1. "#" # "^"
      OBVIOUS
    <3>2. s[2] # "^"
      BY <2>3, <3>1
    <3>3. 2 \in 1..n
      BY <1>1, <2>3
    <3> QED
      BY <3>2, <3>3
  <2> QED
    BY <2>4
<1> HIDE DEF Kept
<1>3. \A i \in 1..n : own(i) \in Text
  <2>1. << >> \in Text /\ \A x \in STRING : << x >> \in Text
    BY EmptySeq, OneElement DEF Text
  <2> SUFFICES ASSUME NEW i \in 1..n PROVE own(i) \in Text
    OBVIOUS
  <2>2. << s[i] >> \in Text
    BY <1>2, <2>1
  <2> QED
    BY <2>1, <2>2
<1> HIDE DEF own
<1>4. << >> \in Text /\ \A u, v \in Text : u \o v \in Text
  BY ConcatProperties DEF Text
<1>5. base \in [1..M -> Text] /\ next \in [1..M -> Int]
  BY <1>1, <1>4
<1>6. step \in [1..M -> [Text -> Text]]
  <2>1. \A i \in 1..M, v \in Text : (IF i = M THEN v ELSE own(i) \o v) \in Text
    BY <1>1, <1>3, <1>4
  <2> QED
    BY <2>1
<1>7. \A i \in 1..M : i \notin Stop => next[i] > i /\ next[i] <= M
  BY <1>1
<1>8. FromTheEnd(1, M, Text, Stop, base, next, step)
  BY <1>1, <1>5, <1>6, <1>7 DEF FromTheEnd
<1>9. PICK f \in [1..M -> Text] : Follows(f, 1, M, Stop, base, next, step)
  BY <1>8, FromTheEndDefines
<1>10. \A i \in 1..M : f[i] = body(f)[i]
  <2> SUFFICES ASSUME NEW i \in 1..M
               PROVE  f[i] = IF i > n THEN << >> ELSE own(i) \o f[i + 1]
    OBVIOUS
  <2>1. f[i] = IF i \in Stop THEN base[i] ELSE step[i][f[next[i]]]
    BY <1>9 DEF Follows
  <2>2. CASE i = M
    BY <1>1, <2>1, <2>2
  <2>3. CASE i # M
    <3>1. i \in 1..n /\ ~(i > n) /\ i + 1 \in 1..M /\ next[i] = i + 1
      BY <1>1, <2>3
    <3>2. f[i + 1] \in Text
      BY <1>9, <3>1
    <3> QED
      BY <2>1, <2>3, <3>1, <3>2
  <2> QED
    BY <2>2, <2>3
<1>11. f = body(f)
  BY <1>9, <1>10
<1> DEFINE kept == CHOOSE g : g = body(g)
<1>12. kept = body(kept)
  BY <1>11
<1>13. UnescapeComment(s) = kept[1]
  BY DEF UnescapeComment, own
<1> HIDE DEF kept
<1> DEFINE S == {i \in 1..M : kept[i] \in Text}
<1>14. ASSUME NEW i \in 1..M, \A j \in i + 1..M : j \in S
       PROVE  i \in S
  <2>1. kept[i] = IF i > n THEN << >> ELSE own(i) \o kept[i + 1]
    BY <1>12
  <2>2. CASE i > n
    BY <1>4, <2>1, <2>2
  <2>3. CASE ~(i > n)
    <3>1. i \in 1..n /\ i + 1 \in i + 1..M
      BY <1>1, <2>3
    <3>2. kept[i + 1] \in Text
      BY <1>14, <3>1
    <3> QED
      BY <1>3, <1>4, <2>1, <2>3, <3>1, <3>2
  <2> QED
    BY <2>2, <2>3
<1> HIDE DEF S
<1>15. 1 \in S
  BY <1>1, <1>14, InductionFromTheEnd
<1>16. \A i \in 1..M : kept[i] \in Text
  <2>1. \A i \in 1..M : i \in S
    BY <1>1, <1>14, InductionFromTheEnd
  <2> QED
    BY <2>1 DEF S
<1>17. ASSUME s # << >> PROVE kept[1] # << >>
  <2>1. n > 0
    BY <1>17, EmptySeq DEF Text
  <2>2. \A i \in 1..n : kept[i] = own(i) \o kept[i + 1] /\ i \in 1..M /\ i + 1 \in 1..M
    <3> SUFFICES ASSUME NEW i \in 1..n
                 PROVE  kept[i] = own(i) \o kept[i + 1] /\ i \in 1..M /\ i + 1 \in 1..M
      OBVIOUS
    <3>1. i \in 1..M /\ i + 1 \in 1..M /\ ~(i > n)
      BY <1>1
    <3>2. kept[i] = IF i > n THEN << >> ELSE own(i) \o kept[i + 1]
      BY <1>12, <3>1
    <3> QED
      BY <3>1, <3>2
  <2>3. \A i \in 1..n : kept[i] = << >> <=> own(i) = << >> /\ kept[i + 1] = << >>
    <3> SUFFICES ASSUME NEW i \in 1..n
                 PROVE  kept[i] = << >> <=> own(i) = << >> /\ kept[i + 1] = << >>
      OBVIOUS
    <3>1. own(i) \in Seq(STRING) /\ kept[i + 1] \in Seq(STRING)
      BY <1>3, <1>16, <2>2 DEF Text
    <3> QED
      BY <2>2, <3>1, ConcatEqualIffEmpty
  <2>4. 1 \in 1..n /\ 1 + 1 = 2
    BY <1>1, <2>1
  <2> QED
    BY <1>20, <1>21, <2>1, <2>3, <2>4
<1> QED
  BY <1>13, <1>15, <1>17 DEF S

-----------------------------------------------------------------------------
(* The scans go on in the text.                                             *)

\* The search ends at one of the characters or behind the text.
LEMMA FindFirstCharacterFinds ==
    ASSUME NEW s \in Text, NEW from \in 1..Len(s) + 1, NEW list, NEW escape
    PROVE  /\ FindFirstCharacter(s, from, list, escape) \in from..Len(s) + 1
           /\ FindFirstCharacter(s, from, list, escape) <= Len(s)
                => s[FindFirstCharacter(s, from, list, escape)] \in list
<1> DEFINE n == Len(s)
           M == n + 2
           Escapes == {i \in 1..n : s[i] = escape}
           Found == {i \in 1..n : s[i] \in list}
           Stop == {i \in from..M : i > n \/ (i \notin Escapes /\ i \in Found)}
           base == [i \in from..M |-> IF i > n THEN n + 1 ELSE i]
           next == [i \in from..M |-> IF i \in Escapes THEN i + 2 ELSE i + 1]
           step == [i \in from..M |-> [v \in Int |-> v]]
           body(f) == [i \in from..M |-> IF i > n THEN n + 1
                                         ELSE IF i \in Escapes THEN f[i + 2]
                                         ELSE IF i \in Found THEN i ELSE f[i + 1]]
           walk == CHOOSE g : g = body(g)
<1>2. n \in Nat
  BY DEF Text
<1>1. FindFirstCharacter(s, from, list, escape) = walk[from]
  <2> DEFINE text(f) == [i \in from..M |-> IF i > n THEN n + 1
                                           ELSE IF s[i] = escape THEN f[i + 2]
                                           ELSE IF s[i] \in list THEN i ELSE f[i + 1]]
  <2>1. \A f : text(f) = body(f)
    <3> SUFFICES ASSUME NEW f, NEW i \in from..M, ~(i > n)
                 PROVE  (i \in Escapes <=> s[i] = escape) /\ (i \in Found <=> s[i] \in list)
      OBVIOUS
    <3> QED
      BY <1>2
  <2>2. FindFirstCharacter(s, from, list, escape) = (CHOOSE g : g = text(g))[from]
    BY DEF FindFirstCharacter
  <2> HIDE DEF text, body
  <2> QED
    BY <2>1, <2>2
<1>3. \A i \in from..M : i \in Found => s[i] \in list
  OBVIOUS
<1> HIDE DEF Escapes, Found, n
<1>4. from \in 1..n + 1
  BY DEF n
<1>5. from \in Nat /\ M \in Nat /\ \A i \in from..M : i \in Int /\ (~(i > n) => i + 1 \in i + 1..M /\ i + 2 \in i + 1..M)
  BY <1>2, <1>4
<1>6. base \in [from..M -> Int] /\ next \in [from..M -> Int] /\ step \in [from..M -> [Int -> Int]]
  BY <1>2, <1>5
<1>7. \A i \in from..M : i \notin Stop => next[i] > i /\ next[i] <= M
  <2> SUFFICES ASSUME NEW i \in from..M, i \notin Stop PROVE next[i] > i /\ next[i] <= M
    OBVIOUS
  <2>1. ~(i > n)
    OBVIOUS
  <2>2. next[i] \in {i + 1, i + 2}
    OBVIOUS
  <2> HIDE DEF next
  <2> QED
    BY <1>5, <2>1, <2>2
<1>8. FromTheEnd(from, M, Int, Stop, base, next, step)
  BY <1>5, <1>6, <1>7 DEF FromTheEnd
<1>9. PICK f \in [from..M -> Int] : Follows(f, from, M, Stop, base, next, step)
  BY <1>8, FromTheEndDefines
<1>10. \A i \in from..M : f[i] = body(f)[i]
  <2> SUFFICES ASSUME NEW i \in from..M
               PROVE  f[i] = IF i > n THEN n + 1
                             ELSE IF i \in Escapes THEN f[i + 2]
                             ELSE IF i \in Found THEN i ELSE f[i + 1]
    OBVIOUS
  <2>1. f[i] = IF i \in Stop THEN base[i] ELSE step[i][f[next[i]]]
    BY <1>9 DEF Follows
  <2>2. ~(i > n) => f[i + 1] \in Int /\ f[i + 2] \in Int
    <3>1. ~(i > n) => i + 1 \in from..M /\ i + 2 \in from..M
      BY <1>2, <1>4
    <3> QED
      BY <1>9, <3>1
  <2>3. CASE i \in Stop
    BY <2>1, <2>3
  <2>4. CASE i \notin Stop
    <3>1. ~(i > n) /\ ~(i \notin Escapes /\ i \in Found)
      BY <2>4
    <3>2. next[i] = IF i \in Escapes THEN i + 2 ELSE i + 1
      OBVIOUS
    <3>3. f[next[i]] \in Int
      BY <2>2, <3>1, <3>2
    <3>4. step[i][f[next[i]]] = f[next[i]]
      BY <3>3
    <3> QED
      BY <2>1, <2>4, <3>1, <3>2, <3>4
  <2> QED
    BY <2>3, <2>4
<1>11. walk = body(walk)
  <2>1. f = body(f)
    BY <1>9, <1>10
  <2> QED
    BY <2>1
<1> HIDE DEF walk
<1> DEFINE good(i, v) == v \in i..n + 1 /\ (v <= n => v \in Found)
           S == {i \in from..M : i > n + 1 \/ good(i, walk[i])}
<1>12. ASSUME NEW i \in from..M, \A j \in i + 1..M : j \in S
       PROVE  i \in S
  <2>1. walk[i] = IF i > n THEN n + 1
                  ELSE IF i \in Escapes THEN walk[i + 2]
                  ELSE IF i \in Found THEN i ELSE walk[i + 1]
    BY <1>11
  <2>2. CASE i > n
    <3>1. i > n + 1 \/ good(i, n + 1)
      BY <1>2, <1>5, <2>2
    <3> QED
      BY <2>1, <2>2, <3>1
  <2>3. CASE ~(i > n)
    <3>1. i + 1 \in S /\ i + 2 \in S /\ i \in Int
      BY <1>5, <1>12, <2>3
    <3>2. good(i + 1, walk[i + 1]) /\ (good(i + 2, walk[i + 2]) \/ i + 2 > n + 1)
      BY <1>2, <2>3, <3>1
    <3>3. i + 2 > n + 1 => walk[i + 2] = n + 1
      <4>1. i + 2 \in from..M /\ i + 2 > n + 1 => i + 2 > n
        BY <1>2, <3>1
      <4> QED
        BY <1>11, <4>1, <3>1
    <3>4. good(i, walk[i + 1]) /\ good(i, walk[i + 2])
      <4>1. i \in Int /\ n \in Nat /\ ~(i > n)
        BY <1>2, <2>3, <3>1
      <4>2. \A v : v \in i + 1..n + 1 \/ v \in i + 2..n + 1 => v \in i..n + 1
        BY <4>1
      <4>3. n + 1 \in i..n + 1 /\ ~(n + 1 <= n)
        BY <4>1
      <4> QED
        BY <3>2, <3>3, <4>2, <4>3
    <3>5. i \in Found => good(i, i)
      BY <1>2, <2>3, <3>1
    <3> HIDE DEF good
    <3> QED
      BY <2>1, <2>3, <3>4, <3>5
  <2> QED
    BY <2>2, <2>3
<1> HIDE DEF S
<1>13. from \in from..M
  BY <1>2, <1>4
<1>14. from \in S
  BY <1>5, <1>12, <1>13, InductionFromTheEnd
<1>15. good(from, walk[from])
  BY <1>2, <1>4, <1>14 DEF S
<1>16. walk[from] \in from..n + 1 /\ (walk[from] <= n => walk[from] \in from..M /\ walk[from] \in Found)
  BY <1>2, <1>4, <1>15
<1> QED
  BY <1>1, <1>3, <1>16 DEF n

\* A parameter ends in the line or is not closed, and one that begins with
\* another character than a space is not empty.
LEMMA FindEndOfParameterAdvances ==
    ASSUME NEW s \in Text, NEW from \in 1..Len(s)
    PROVE  \/ FindEndOfParameter(s, from) = 0
           \/ /\ FindEndOfParameter(s, from) \in from..Len(s) + 1
              /\ s[from] # " " => FindEndOfParameter(s, from) # from
<1> DEFINE n == Len(s)
           M == n + 1
           FirstAt(i) == FindFirstCharacter(s, i, {" ", "\""}, "^")
           first == [i \in from..M |-> FirstAt(i)]
           close == [i \in from..M |-> FindFirstCharacter(s, FirstAt(i) + 1, {"\""}, "^")]
           Spaces == {i \in 1..n : s[i] = " "}
           Ends == {i \in from..M : first[i] > n \/ first[i] \in Spaces}
           Stop == {i \in from..M : i \in Ends \/ close[i] > n}
           base == [i \in from..M |-> IF i \in Ends THEN first[i] ELSE 0]
           next == [i \in from..M |-> IF i \in Stop THEN 0 ELSE close[i] + 1]
           step == [i \in from..M |-> [v \in Int |-> v]]
           body(f) == [i \in from..M |-> IF i \in Ends THEN first[i]
                                         ELSE IF close[i] > n THEN 0
                                         ELSE f[close[i] + 1]]
           end == CHOOSE g : g = body(g)
<1>1. n \in Nat /\ from \in Nat /\ from \in 1..n /\ M \in Nat /\ M = n + 1 /\ from \in from..M
  BY DEF Text
<1>2. \A i \in from..M : first[i] \in i..M /\ i \in 1..M
  <2> SUFFICES ASSUME NEW i \in from..M PROVE first[i] \in i..M /\ i \in 1..M
    OBVIOUS
  <2>1. i \in 1..n + 1
    BY <1>1
  <2> HIDE DEF FirstAt
  <2>2. FirstAt(i) \in i..n + 1
    BY <2>1, FindFirstCharacterFinds DEF FirstAt
  <2> QED
    BY <2>1, <2>2
<1>3. \A i \in from..M : i \notin Ends => first[i] <= n /\ close[i] \in first[i] + 1..M
  <2> SUFFICES ASSUME NEW i \in from..M, i \notin Ends PROVE first[i] <= n /\ close[i] \in first[i] + 1..M
    OBVIOUS
  <2>1. ~(first[i] > n) /\ first[i] \in i..M /\ i \in 1..M
    BY <1>2
  <2> HIDE DEF first, close, Ends
  <2>2. first[i] <= n /\ first[i] + 1 \in 1..n + 1
    BY <1>1, <2>1
  <2>3. first[i] = FirstAt(i)
    BY DEF first
  <2>4. close[i] = FindFirstCharacter(s, first[i] + 1, {"\""}, "^")
    BY <2>3 DEF close
  <2>5. close[i] \in first[i] + 1..n + 1
    BY <2>2, <2>4, FindFirstCharacterFinds
  <2> QED
    BY <2>2, <2>5
<1>4. FindEndOfParameter(s, from) = end[from]
  <2> DEFINE text(f) ==
               [i \in from..M |->
                   LET char == FindFirstCharacter(s, i, {" ", "\""}, "^")
                       quote == FindFirstCharacter(s, char + 1, {"\""}, "^")
                   IN  IF char > n \/ s[char] = " " THEN char
                       ELSE IF quote > n THEN 0
                       ELSE f[quote + 1]]
  <2>1. \A f : text(f) = body(f)
    <3> SUFFICES ASSUME NEW f PROVE text(f) = body(f)
      OBVIOUS
    <3> SUFFICES ASSUME NEW i \in from..M PROVE text(f)[i] = body(f)[i]
      BY Zenon
    <3>1. FirstAt(i) \in i..M /\ i \in 1..M
      BY <1>2
    <3>2. FirstAt(i) > n \/ s[FirstAt(i)] = " " <=> i \in Ends
      <4>1. FirstAt(i) > n \/ FirstAt(i) \in 1..n
        <5> HIDE DEF FirstAt, n
        <5> QED
          BY <1>1, <3>1
      <4> DEFINE p == FirstAt(i)
      <4>2. first[i] = p
        OBVIOUS
      <4> HIDE DEF p, first
      <4>3. p \in 1..n => (p \in Spaces <=> s[p] = " ")
        OBVIOUS
      <4> HIDE DEF Spaces
      <4>4. i \in Ends <=> p > n \/ p \in Spaces
        BY <4>2
      <4>5. p \in Spaces => p \in 1..n
        BY DEF Spaces
      <4> QED
        BY <4>1, <4>3, <4>4, <4>5 DEF p
    <3>3. text(f)[i] = IF FirstAt(i) > n \/ s[FirstAt(i)] = " " THEN FirstAt(i)
                       ELSE IF close[i] > n THEN 0 ELSE f[close[i] + 1]
      OBVIOUS
    <3>4. body(f)[i] = IF i \in Ends THEN FirstAt(i) ELSE IF close[i] > n THEN 0 ELSE f[close[i] + 1]
      OBVIOUS
    <3> HIDE DEF text, body
    <3> QED
      BY <3>2, <3>3, <3>4
  <2>2. FindEndOfParameter(s, from) = (CHOOSE g : g = text(g))[from]
    BY DEF FindEndOfParameter
  <2> HIDE DEF text, body
  <2> QED
    BY <2>1, <2>2
<1>5. \A i \in from..M : i \in Ends => first[i] > n \/ first[i] \in Spaces
  OBVIOUS
<1>6. \A i \in Spaces : s[i] = " "
  OBVIOUS
<1> HIDE DEF first, close, Spaces, Ends, n
<1>7. \A i \in from..M : i \notin Stop => i \notin Ends /\ close[i] \in i + 1..n /\ close[i] + 1 \in i + 1..M
  BY <1>1, <1>2, <1>3
<1>8. base \in [from..M -> Int] /\ next \in [from..M -> Int] /\ step \in [from..M -> [Int -> Int]]
  <2>1. \A i \in from..M : first[i] \in Int
    BY <1>2
  <2>2. \A i \in from..M : i \notin Stop => close[i] + 1 \in Int
    BY <1>7
  <2> HIDE DEF Stop
  <2> QED
    BY <2>1, <2>2
<1>9. \A i \in from..M : i \notin Stop => next[i] = close[i] + 1 /\ next[i] > i /\ next[i] <= M
  BY <1>1, <1>7
<1>10. PICK f \in [from..M -> Int] : Follows(f, from, M, Stop, base, next, step)
  <2>1. FromTheEnd(from, M, Int, Stop, base, next, step)
    BY <1>1, <1>8, <1>9 DEF FromTheEnd
  <2> QED
    BY <2>1, FromTheEndDefines
<1>11. \A i \in from..M : f[i] = body(f)[i]
  <2> SUFFICES ASSUME NEW i \in from..M
               PROVE  f[i] = IF i \in Ends THEN first[i] ELSE IF close[i] > n THEN 0 ELSE f[close[i] + 1]
    OBVIOUS
  <2>1. f[i] = IF i \in Stop THEN base[i] ELSE step[i][f[next[i]]]
    BY <1>10 DEF Follows
  <2>2. i \in Stop <=> i \in Ends \/ close[i] > n
    OBVIOUS
  <2>3. base[i] = IF i \in Ends THEN first[i] ELSE 0
    OBVIOUS
  <2>4. i \notin Stop => next[i] = close[i] + 1 /\ f[close[i] + 1] \in Int
    <3>1. i \notin Stop => close[i] + 1 \in from..M
      BY <1>1, <1>7
    <3> QED
      BY <1>9, <1>10, <3>1
  <2>5. i \notin Stop => step[i][f[next[i]]] = f[close[i] + 1]
    BY <2>4
  <2> HIDE DEF Stop, base, next, step
  <2> QED
    BY <2>1, <2>2, <2>3, <2>5
<1>12. end = body(end)
  <2>1. f = body(f)
    BY <1>10, <1>11
  <2> QED
    BY <2>1
<1>13. \A i \in from..M : end[i] = IF i \in Ends THEN first[i] ELSE IF close[i] > n THEN 0 ELSE end[close[i] + 1]
  BY <1>12
<1> HIDE DEF end
<1> DEFINE S == {i \in from..M : end[i] = 0 \/ end[i] \in i..M}
<1>14. ASSUME NEW i \in from..M, \A j \in i + 1..M : j \in S
       PROVE  i \in S
  <2>1. CASE i \in Ends
    BY <1>2, <1>13, <2>1
  <2>2. CASE i \notin Ends /\ close[i] > n
    BY <1>13, <2>2
  <2>3. CASE i \notin Stop
    <3>1. close[i] + 1 \in S /\ close[i] + 1 \in i + 1..M
      BY <1>7, <1>14, <2>3
    <3>2. end[i] = end[close[i] + 1]
      BY <1>13, <2>3
    <3>3. end[i] = 0 \/ end[i] \in close[i] + 1..M
      BY <3>1, <3>2
    <3>4. \A v \in close[i] + 1..M : v \in i..M
      BY <3>1
    <3> QED
      BY <3>3, <3>4
  <2> QED
    BY <2>1, <2>2, <2>3
<1> HIDE DEF S
<1>15. \A i \in from..M : i \in S
  BY <1>1, <1>14, InductionFromTheEnd
<1>16. end[from] = 0 \/ end[from] \in from..M
  BY <1>1, <1>15 DEF S
<1>17. end[from] = from => from \in Spaces
  <2> SUFFICES ASSUME end[from] = from PROVE from \in Spaces
    OBVIOUS
  <2>1. CASE from \in Ends
    BY <1>1, <1>5, <1>13, <2>1
  <2>2. CASE from \notin Ends /\ close[from] > n
    BY <1>1, <1>13, <2>2
  <2>3. CASE from \notin Stop
    <3>1. close[from] + 1 \in from + 1..M
      BY <1>1, <1>7, <2>3
    <3>2. close[from] + 1 \in S
      BY <1>1, <1>15, <3>1
    <3>3. end[from] = 0 \/ end[from] \in close[from] + 1..M
      BY <1>1, <1>13, <2>3, <3>2 DEF S
    <3> QED
      BY <1>1, <3>1, <3>3
  <2> QED
    BY <1>1, <2>1, <2>2, <2>3
<1> QED
  BY <1>4, <1>6, <1>16, <1>17 DEF n

\* A parameter that is found takes the walker on, at most to the end of the line.
LEMMA GetNextParameterAdvances ==
    ASSUME NEW s \in Text, NEW w \in 1..Len(s), NEW q,
           GetNextParameter(s, w, q).status = "SUCCESS"
    PROVE  GetNextParameter(s, w, q).Walker \in w + 1..Len(s) + 1
<1> DEFINE n == Len(s)
           begins == {i \in w..n : s[i] # " "}
           start == CHOOSE i \in begins : \A j \in begins : i <= j
           delim == FindEndOfParameter(s, start)
           ok == [status |-> "SUCCESS", Walker |-> delim, param |-> Unquoted(SubSeq(s, start, delim - 1), q)]
<1>1. n \in Nat /\ w \in 1..n
  BY DEF Text
<1>2. begins \subseteq 1..n /\ begins \subseteq w..n
  <2>1. begins \subseteq w..n
    BY Zenon
  <2>2. w..n \subseteq 1..n
    BY <1>1
  <2> QED
    BY <2>1, <2>2
<1>3. begins # {} => start \in begins
  BY <1>1, <1>2, FirstOf
<1>4. \A i \in begins : s[i] # " "
  OBVIOUS
<1>5. GetNextParameter(s, w, q) =
        IF begins = {} THEN [status |-> "INVALID_PARAMETER", Walker |-> n + 1, param |-> << >>]
        ELSE IF delim = 0 THEN [status |-> "NOT_FOUND", Walker |-> start, param |-> << >>]
        ELSE ok
  BY DEF GetNextParameter
<1> HIDE DEF begins, start
<1>6. begins # {} /\ delim # 0 /\ GetNextParameter(s, w, q) = ok
  <2>1. "INVALID_PARAMETER" # "SUCCESS" /\ "NOT_FOUND" # "SUCCESS"
    OBVIOUS
  <2> HIDE DEF ok, delim, n
  <2> QED
    BY <1>5, <2>1
<1>7. start \in w..n /\ start \in 1..n /\ s[start] # " "
  BY <1>2, <1>3, <1>4, <1>6
<1>8. delim \in start..n + 1 /\ delim # start
  <2>1. delim = 0 \/ (delim \in start..Len(s) + 1 /\ (s[start] # " " => delim # start))
    BY <1>7, FindEndOfParameterAdvances
  <2> QED
    BY <1>6, <1>7, <2>1
<1>9. delim \in w + 1..n + 1
  <2> HIDE DEF delim, n
  <2>1. start \in w..n /\ n \in Nat /\ w \in 1..n
    BY <1>1, <1>7
  <2> QED
    BY <1>8, <2>1
<1> QED
  BY <1>6, <1>9

\* So there is a finite list of parameters.
LEMMA ParametersAreCounted ==
    ASSUME NEW s \in Text, NEW q
    PROVE  Len(Parameters(s, q).args) \in Nat
<1> DEFINE n == Len(s)
           M == n + 1
           next(w) == GetNextParameter(s, w, q)
           Found == {w \in 1..n : next(w).status = "SUCCESS"}
           Params == {next(w).param : w \in 1..n}
           V == [status : {"SUCCESS", "INVALID_PARAMETER"}, args : Seq(Params)]
           Stop == {w \in 1..M : w \notin Found}
           all == [status |-> "SUCCESS", args |-> << >>]
           bad == [status |-> "INVALID_PARAMETER", args |-> << >>]
           base == [w \in 1..M |-> IF w > n THEN all ELSE bad]
           walker == [w \in 1..M |-> IF w \in Found THEN next(w).Walker ELSE 0]
           with(w, v) == [v EXCEPT !.args = << next(w).param >> \o @]
           step == [w \in 1..M |-> [v \in V |-> IF w \in Found THEN with(w, v) ELSE v]]
           body(f) == [w \in 1..M |-> IF w > n THEN all
                                      ELSE IF next(w).status # "SUCCESS" THEN bad
                                      ELSE with(w, f[next(w).Walker])]
           from == CHOOSE g : g = body(g)
<1>1. n \in Nat /\ M \in Nat /\ M = n + 1 /\ 1 \in Nat /\ 1 \in 1..M
  BY DEF Text
<1>2. Parameters(s, q) = from[1]
  BY DEF Parameters
<1>3. \A w \in Found : w \in 1..n /\ next(w).Walker \in w + 1..M
  BY GetNextParameterAdvances
<1>4. \A w \in 1..n : next(w).param \in Params
  OBVIOUS
<1>5. \A w \in 1..n : w \in Found <=> next(w).status = "SUCCESS"
  OBVIOUS
<1> HIDE DEF next, Found, Params, n
<1>6. all \in V /\ bad \in V
  <2>1. << >> \in Seq(Params)
    BY EmptySeq
  <2> DEFINE Lists == Seq(Params)
             none == << >>
  <2>2. none \in Lists
    BY <2>1
  <2> HIDE DEF Lists, none
  <2>3. /\ [status |-> "SUCCESS", args |-> none] \in [status : {"SUCCESS", "INVALID_PARAMETER"}, args : Lists]
        /\ [status |-> "INVALID_PARAMETER", args |-> none] \in [status : {"SUCCESS", "INVALID_PARAMETER"}, args : Lists]
    BY <2>2
  <2> QED
    BY <2>3 DEF Lists, none
<1>7. ASSUME NEW w \in 1..n, NEW v \in V PROVE with(w, v) \in V
  <2>1. << next(w).param >> \in Seq(Params)
    BY <1>4, OneElement
  <2>2. << next(w).param >> \o v.args \in Seq(Params)
    BY <2>1, ConcatProperties
  <2> QED
    BY <2>2
<1> HIDE DEF with, V, all, bad
<1>8. base \in [1..M -> V] /\ walker \in [1..M -> Int] /\ step \in [1..M -> [V -> V]]
  <2>1. base \in [1..M -> V]
    BY <1>6
  <2>2. walker \in [1..M -> Int]
    BY <1>1, <1>3
  <2>3. step \in [1..M -> [V -> V]]
    <3>1. \A w \in 1..M, v \in V : (IF w \in Found THEN with(w, v) ELSE v) \in V
      BY <1>3, <1>7
    <3> QED
      BY <3>1
  <2> QED
    BY <2>1, <2>2, <2>3
<1>9. \A w \in 1..M : w \notin Stop => w \in Found /\ walker[w] = next(w).Walker /\ walker[w] > w /\ walker[w] <= M
  BY <1>1, <1>3
<1>10. PICK f \in [1..M -> V] : Follows(f, 1, M, Stop, base, walker, step)
  <2>1. FromTheEnd(1, M, V, Stop, base, walker, step)
    BY <1>1, <1>8, <1>9 DEF FromTheEnd
  <2> QED
    BY <2>1, FromTheEndDefines
<1>11. ASSUME NEW g, NEW w \in 1..M
       PROVE  body(g)[w] = IF w \in Found THEN with(w, g[next(w).Walker]) ELSE base[w]
  <2>1. body(g)[w] = IF w > n THEN all
                     ELSE IF next(w).status # "SUCCESS" THEN bad
                     ELSE with(w, g[next(w).Walker])
    OBVIOUS
  <2>2. base[w] = IF w > n THEN all ELSE bad
    OBVIOUS
  <2>3. w \in Found <=> ~(w > n) /\ next(w).status = "SUCCESS"
    <3>1. w > n \/ w \in 1..n
      BY <1>1
    <3>2. w \in Found => ~(w > n)
      BY <1>1, <1>3
    <3> QED
      BY <1>3, <1>5, <3>1, <3>2
  <2> HIDE DEF body, base
  <2> QED
    BY <2>1, <2>2, <2>3
<1>12. \A w \in 1..M : f[w] = body(f)[w]
  <2> SUFFICES ASSUME NEW w \in 1..M PROVE f[w] = body(f)[w]
    OBVIOUS
  <2>1. f[w] = IF w \in Stop THEN base[w] ELSE step[w][f[walker[w]]]
    BY <1>10 DEF Follows
  <2>2. w \notin Stop => f[walker[w]] \in V
    BY <1>1, <1>3, <1>9, <1>10
  <2>3. w \notin Stop => step[w][f[walker[w]]] = with(w, f[next(w).Walker])
    BY <1>9, <2>2
  <2>4. w \in Stop <=> w \notin Found
    OBVIOUS
  <2> HIDE DEF body, Stop, step, base
  <2> QED
    BY <1>11, <2>1, <2>3, <2>4
<1>13. from = body(from)
  <2>1. body(f) = f
    <3>1. DOMAIN f = 1..M /\ f = [w \in 1..M |-> f[w]]
      BY <1>10
    <3>2. body(f) = [w \in 1..M |-> body(f)[w]]
      OBVIOUS
    <3> HIDE DEF body
    <3> QED
      BY <1>12, <3>1, <3>2
  <2> HIDE DEF body
  <2> QED
    BY <2>1
<1> HIDE DEF from
<1> DEFINE S == {w \in 1..M : from[w] \in V}
<1>14. ASSUME NEW w \in 1..M, \A j \in w + 1..M : j \in S
       PROVE  w \in S
  <2>1. from[w] = IF w \in Found THEN with(w, from[next(w).Walker]) ELSE base[w]
    <3>1. from[w] = body(from)[w]
      BY <1>13
    <3> HIDE DEF body, base
    <3> QED
      BY <1>11, <3>1
  <2>2. CASE w \in Found
    <3>1. from[next(w).Walker] \in V
      BY <1>3, <1>14, <2>2
    <3> QED
      BY <1>3, <1>7, <2>1, <2>2, <3>1
  <2>3. CASE w \notin Found
    BY <1>8, <2>1, <2>3
  <2> QED
    BY <2>2, <2>3
<1> HIDE DEF S
<1>15. 1 \in S
  BY <1>1, <1>14, InductionFromTheEnd
<1>16. from[1] \in V
  BY <1>15 DEF S
<1>17. from[1].args \in Seq(Params)
  BY <1>16 DEF V
<1> QED
  BY <1>2, <1>17, LenProperties

-----------------------------------------------------------------------------
(* The package: what the parser allocated and who frees it.                 *)

ItemKinds == {"item", "name", "value"}
ProblemParam == << "ProblemParam", 0 >>

ItemFields == {"id", "Name", "Type", "Value", "OriginalPosition"}
LoopFields == {"list", "current", "GetItemValue", "Count", "allocations", "status", "live"}

IsList(list) == \E A : list \in Seq(A)

\* The blocks of the flag that waits for a value.
WaitingBlocks(st) == IF st.GetItemValue = 0 THEN {} ELSE ItemBlocks(st.current[1])

\* What a parser that fails leaves: parts of one item, and only when it ran out
\* of memory or a flag waited for its value.
Remains(st) ==
    \A block \in st.live \ {ProblemParam} :
        /\ block[1] \in ItemKinds
        /\ \/ st.status = "OUT_OF_RESOURCES"
           \/ st.status = "VOLUME_CORRUPTED" /\ st.GetItemValue # 0

\* Held(st) holds of a state of the loop whatever its status and blocks are.
Held(st) ==
    /\ DOMAIN st = LoopFields
    /\ IsList(st.list)
    /\ st.GetItemValue \in Int
    /\ st.GetItemValue # 0 => \E item : DOMAIN item = ItemFields /\ st.current = << item >>

\* Until the parser fails, each block is one of the package or of the flag that
\* waits.
LoopInv(st) ==
    /\ Held(st)
    /\ IF st.status = "SUCCESS" THEN st.live = PackageBlocks(st.list) \cup WaitingBlocks(st)
       ELSE Remains(st)

LEMMA ItemBlocksKinds ==
    ASSUME NEW item, NEW block \in ItemBlocks(item)
    PROVE  block[1] \in ItemKinds
  BY DEF ItemBlocks, ItemKinds

\* An item is put in front of the list.
LEMMA ListWithItem ==
    ASSUME NEW list, IsList(list), NEW item
    PROVE  /\ IsList(<< item >> \o list)
           /\ PackageBlocks(<< item >> \o list) = PackageBlocks(list) \cup ItemBlocks(item)
<1>1. PICK A : list \in Seq(A)
  BY DEF IsList
<1> DEFINE B == A \cup {item}
           one == << item >>
           n == Len(list)
<1>2. list \in Seq(B)
  BY <1>1, SeqMonotonic
<1>3. one \in Seq(B) /\ Len(one) = 1 /\ one[1] = item
  BY OneElement
<1> HIDE DEF one
<1>4. /\ one \o list \in Seq(B) /\ Len(one \o list) = 1 + n
      /\ \A i \in 1..1 + n : (one \o list)[i] = IF i <= 1 THEN one[i] ELSE list[i - 1]
  <2>1. /\ one \o list \in Seq(B) /\ Len(one \o list) = Len(one) + Len(list)
        /\ \A i \in 1..Len(one) + Len(list) :
             (one \o list)[i] = IF i <= Len(one) THEN one[i] ELSE list[i - Len(one)]
    BY ONLY <1>2, <1>3, ConcatProperties
  <2> QED
    BY <1>3, <2>1
<1>5. n \in Nat /\ DOMAIN list = 1..n /\ DOMAIN (one \o list) = 1..1 + n
  BY <1>2, <1>4, LenProperties
<1> HIDE DEF n
<1>6. ToSet(one \o list) = {item} \cup ToSet(list)
  <2>1. (one \o list)[1] = item /\ 1 \in 1..1 + n
    BY <1>3, <1>4, <1>5
  <2>2. \A i \in 1..n : i + 1 \in 1..1 + n /\ (one \o list)[i + 1] = list[i]
    BY <1>4, <1>5
  <2>3. \A i \in 1..1 + n : i = 1 \/ (i - 1 \in 1..n /\ (one \o list)[i] = list[i - 1])
    BY <1>4, <1>5
  <2> DEFINE both == one \o list
  <2> HIDE DEF both
  <2>4. ToSet(both) = {both[i] : i \in 1..1 + n} /\ ToSet(list) = {list[i] : i \in 1..n}
    BY <1>5 DEF ToSet, both
  <2>5. \A x \in ToSet(both) : x = item \/ x \in ToSet(list)
    BY <2>1, <2>3, <2>4 DEF both
  <2>6. item \in ToSet(both) /\ \A x \in ToSet(list) : x \in ToSet(both)
    BY <2>1, <2>2, <2>4 DEF both
  <2> QED
    BY <2>5, <2>6 DEF both
<1>7. PackageBlocks(one \o list) = PackageBlocks(list) \cup ItemBlocks(item)
  BY <1>6 DEF PackageBlocks
<1> QED
  BY <1>4, <1>7 DEF one, IsList

LEMMA LoopStartInv ==
    ASSUME NEW fail
    PROVE  LoopInv(LoopStart(fail))
<1> DEFINE st == LoopStart(fail)
<1>1. DOMAIN st = LoopFields /\ st.list = << >> /\ st.GetItemValue = 0
  BY DEF LoopStart, LoopFields
<1>2. IF fail = 1 THEN st.status = "OUT_OF_RESOURCES" /\ st.live = {}
      ELSE st.status = "SUCCESS" /\ st.live = {<< "Package", 0 >>}
  BY DEF LoopStart
<1> HIDE DEF st
<1>3. Held(st)
  <2>1. IsList(<< >>)
    BY EmptySeq DEF IsList
  <2> QED
    BY <1>1, <2>1 DEF Held
<1>4. PackageBlocks(<< >>) = {<< "Package", 0 >>}
  <2>1. ToSet(<< >>) = {}
    BY DEF ToSet
  <2> QED
    BY <2>1 DEF PackageBlocks
<1>5. st.status = "SUCCESS" => st.live = PackageBlocks(st.list) \cup WaitingBlocks(st)
  BY <1>1, <1>2, <1>4 DEF WaitingBlocks
<1>6. st.status # "SUCCESS" => Remains(st)
  BY <1>2 DEF Remains
<1> QED
  BY <1>3, <1>5, <1>6 DEF LoopInv, st

\* A flag that got no value is put into the list as it is.
LEMMA LeftoverInv ==
    ASSUME NEW st, LoopInv(st), st.status = "SUCCESS"
    PROVE  /\ LoopInv(Leftover(st))
           /\ Leftover(st).status = "SUCCESS" /\ Leftover(st).GetItemValue = 0
           /\ Leftover(st).allocations = st.allocations
<1>1. CASE st.GetItemValue = 0
  BY <1>1 DEF Leftover
<1>2. CASE st.GetItemValue # 0
  <2> DEFINE s == Leftover(st)
  <2>1. s = [st EXCEPT !.list = st.current \o @, !.GetItemValue = 0]
    BY <1>2 DEF Leftover
  <2>2. Held(st) /\ st.live = PackageBlocks(st.list) \cup WaitingBlocks(st) /\ DOMAIN st = LoopFields
    BY DEF LoopInv, Held
  <2>3. PICK item : DOMAIN item = ItemFields /\ st.current = << item >>
    BY <1>2, <2>2 DEF Held
  <2>4. IsList(st.list)
    BY <2>2 DEF Held
  <2>5. /\ DOMAIN s = LoopFields /\ s.list = st.current \o st.list /\ s.GetItemValue = 0
        /\ s.live = st.live /\ s.status = st.status /\ s.allocations = st.allocations
    BY <2>1, <2>2 DEF LoopFields
  <2> HIDE DEF s
  <2>6. IsList(s.list) /\ PackageBlocks(s.list) = PackageBlocks(st.list) \cup ItemBlocks(item)
    BY <2>3, <2>4, <2>5, ListWithItem
  <2>7. WaitingBlocks(st) = ItemBlocks(item) /\ WaitingBlocks(s) = {}
    BY <1>2, <2>3, <2>5 DEF WaitingBlocks
  <2>8. Held(s)
    BY <2>5, <2>6 DEF Held
  <2>9. LoopInv(s)
    BY <2>2, <2>5, <2>6, <2>7, <2>8 DEF LoopInv
  <2> QED
    BY <2>5, <2>9 DEF s
<1> QED
  BY <1>1, <1>2

\* The error returns free the package, and then what they allocated for the item.
LEMMA FailedInv ==
    ASSUME NEW st, Held(st), NEW status, status # "SUCCESS", NEW freed,
           \A block \in st.live \ {ProblemParam} :
              \/ block \in PackageBlocks(st.list)
              \/ /\ block[1] \in ItemKinds
                 /\ status = "OUT_OF_RESOURCES" \/ (status = "VOLUME_CORRUPTED" /\ st.GetItemValue # 0)
    PROVE  LoopInv(Failed(st, status, freed))
<1> DEFINE u == Failed(st, status, freed)
<1>1. DOMAIN st = LoopFields
  BY DEF Held
<1>2. u = [st EXCEPT !.status = status, !.live = st.live \ (PackageBlocks(st.list) \cup freed)]
  BY <1>1 DEF Failed, LoopFields
<1>3. /\ DOMAIN u = LoopFields
      /\ u.list = st.list /\ u.current = st.current /\ u.GetItemValue = st.GetItemValue
      /\ u.status = status
      /\ u.live = st.live \ (PackageBlocks(st.list) \cup freed)
  BY <1>1, <1>2 DEF LoopFields
<1> HIDE DEF u
<1>4. Held(u)
  BY <1>3 DEF Held
<1>5. Remains(u)
  BY <1>3 DEF Remains
<1> QED
  BY <1>3, <1>4, <1>5 DEF LoopInv, u

\* A step of the loop that does not fail: item is the one it made or changed,
\* and it is put into the list or waits.
Made(st, u, item, wanted) ==
    /\ DOMAIN u = LoopFields /\ u.status = "SUCCESS"
    /\ DOMAIN item = ItemFields /\ u.current = << item >>
    /\ wanted \in Int /\ u.GetItemValue = wanted
    /\ u.list = IF wanted = 0 THEN << item >> \o st.list ELSE st.list
    /\ u.live = PackageBlocks(st.list) \cup ItemBlocks(item)

LEMMA MadeInv ==
    ASSUME NEW st, Held(st), NEW u, NEW item, NEW wanted, Made(st, u, item, wanted)
    PROVE  LoopInv(u)
<1>1. IsList(st.list)
  BY DEF Held
<1>2. u.current[1] = item
  BY DEF Made
<1>3. CASE wanted = 0
  <2>1. IsList(u.list) /\ PackageBlocks(u.list) = PackageBlocks(st.list) \cup ItemBlocks(item)
    BY <1>1, <1>3, ListWithItem DEF Made
  <2>2. Held(u) /\ WaitingBlocks(u) = {}
    BY <1>3, <2>1 DEF Made, Held, WaitingBlocks
  <2> QED
    BY <2>1, <2>2 DEF Made, LoopInv
<1>4. CASE wanted # 0
  <2>1. Held(u) /\ u.list = st.list /\ WaitingBlocks(u) = ItemBlocks(item)
    BY <1>1, <1>2, <1>4 DEF Made, Held, WaitingBlocks
  <2> QED
    BY <2>1 DEF Made, LoopInv
<1> QED
  BY <1>3, <1>4

\* An item that is allocated but not its name or value.
LEMMA HalfMadeInv ==
    ASSUME NEW st, LoopInv(st), st.status = "SUCCESS", NEW i
    PROVE  /\ LoopInv(Failed(st, "OUT_OF_RESOURCES", {}))
           /\ LoopInv(Failed([st EXCEPT !.live = @ \cup {<< "item", i >>}], "OUT_OF_RESOURCES", {}))
<1>1. Held(st) /\ DOMAIN st = LoopFields /\ st.live = PackageBlocks(st.list) \cup WaitingBlocks(st)
  BY DEF LoopInv, Held
<1>2. \A block \in st.live : block \in PackageBlocks(st.list) \/ block[1] \in ItemKinds
  <2>1. \A block \in WaitingBlocks(st) : block[1] \in ItemKinds
    BY ItemBlocksKinds DEF WaitingBlocks
  <2> QED
    BY <1>1, <2>1
<1>3. LoopInv(Failed(st, "OUT_OF_RESOURCES", {}))
  BY <1>1, <1>2, FailedInv
<1> DEFINE u == [st EXCEPT !.live = @ \cup {<< "item", i >>}]
<1>4. /\ DOMAIN u = LoopFields /\ u.live = st.live \cup {<< "item", i >>} /\ u.list = st.list
      /\ u.current = st.current /\ u.GetItemValue = st.GetItemValue
  BY <1>1 DEF LoopFields
<1> HIDE DEF u
<1>5. Held(u)
  BY <1>1, <1>4 DEF Held
<1>6. \A block \in u.live : block \in PackageBlocks(u.list) \/ block[1] \in ItemKinds
  <2>1. << "item", i >>[1] \in ItemKinds
    BY DEF ItemKinds
  <2> QED
    BY <1>2, <1>4, <2>1
<1>7. LoopInv(Failed(u, "OUT_OF_RESOURCES", {}))
  BY <1>5, <1>6, FailedInv
<1> QED
  BY <1>3, <1>7 DEF u

LEMMA TakeFlagInv ==
    ASSUME NEW st, LoopInv(st), st.status = "SUCCESS", NEW i, NEW argv, Len(argv) \in Nat, NEW Type, NEW fail
    PROVE  LoopInv(TakeFlag(st, i, argv, Type, fail))
<1> DEFINE s == Leftover(st)
           item == [id |-> i, Name |-> << argv[i] >>, Type |-> Type, Value |-> None, OriginalPosition |-> -1]
           wanted == ValuesWanted(Type, Len(argv))
           u == [s EXCEPT !.current = << item >>, !.GetItemValue = wanted,
                          !.list = IF wanted = 0 THEN << item >> \o @ ELSE @,
                          !.live = @ \cup ItemBlocks(item), !.allocations = @ + 2]
<1>1. TakeFlag(st, i, argv, Type, fail) =
        IF fail = s.allocations + 1 THEN Failed(s, "OUT_OF_RESOURCES", {})
        ELSE IF fail = s.allocations + 2
        THEN Failed([s EXCEPT !.live = @ \cup {<< "item", i >>}], "OUT_OF_RESOURCES", {})
        ELSE u
  BY DEF TakeFlag
<1>2. LoopInv(s) /\ s.status = "SUCCESS" /\ s.GetItemValue = 0
  BY LeftoverInv
<1>3. wanted \in Int
  BY DEF ValuesWanted
<1>4. DOMAIN item = ItemFields
  BY DEF ItemFields
<1> HIDE DEF s, item, wanted
<1>5. DOMAIN s = LoopFields /\ Held(s) /\ s.live = PackageBlocks(s.list)
  BY <1>2 DEF LoopInv, Held, WaitingBlocks
<1>6. DOMAIN u = LoopFields /\ u.status = s.status /\ u.current = << item >> /\ u.GetItemValue = wanted
  BY <1>5 DEF LoopFields
<1>7. u.list = IF wanted = 0 THEN << item >> \o s.list ELSE s.list
  BY <1>5 DEF LoopFields
<1>8. u.live = s.live \cup ItemBlocks(item)
  BY <1>5 DEF LoopFields
<1> HIDE DEF u
<1>9. Made(s, u, item, wanted)
  BY <1>2, <1>3, <1>4, <1>5, <1>6, <1>7, <1>8 DEF Made
<1>10. LoopInv(u)
  BY <1>5, <1>9, MadeInv
<1>11. /\ LoopInv(Failed(s, "OUT_OF_RESOURCES", {}))
       /\ LoopInv(Failed([s EXCEPT !.live = @ \cup {<< "item", i >>}], "OUT_OF_RESOURCES", {}))
  BY <1>2, HalfMadeInv
<1> QED
  BY <1>1, <1>10, <1>11

LEMMA TakePositionInv ==
    ASSUME NEW st, LoopInv(st), st.status = "SUCCESS", st.GetItemValue = 0, NEW i, NEW argv, NEW fail
    PROVE  LoopInv(TakePosition(st, i, argv, fail))
<1> DEFINE escaped == Len(argv[i]) > 1 /\ argv[i][1] = "^" /\ argv[i][2] \in {"-", "/", "+"}
           item == [id |-> i, Name |-> None, Type |-> "TypePosition",
                    Value |-> << IF escaped THEN Tail(argv[i]) ELSE argv[i] >>,
                    OriginalPosition |-> st.Count]
           u == [st EXCEPT !.current = << item >>, !.list = << item >> \o @, !.Count = @ + 1,
                           !.live = @ \cup ItemBlocks(item), !.allocations = @ + 2]
<1>1. TakePosition(st, i, argv, fail) =
        IF fail = st.allocations + 1 THEN Failed(st, "OUT_OF_RESOURCES", {})
        ELSE IF fail = st.allocations + 2
        THEN Failed([st EXCEPT !.live = @ \cup {<< "item", i >>}], "OUT_OF_RESOURCES", {})
        ELSE u
  BY DEF TakePosition
<1>2. DOMAIN item = ItemFields
  BY DEF ItemFields
<1> HIDE DEF item
<1>3. DOMAIN st = LoopFields /\ Held(st) /\ st.live = PackageBlocks(st.list)
  BY DEF LoopInv, Held, WaitingBlocks
<1>4. DOMAIN u = LoopFields /\ u.status = st.status /\ u.current = << item >> /\ u.GetItemValue = st.GetItemValue
  BY <1>3 DEF LoopFields
<1>5. u.list = << item >> \o st.list /\ u.live = st.live \cup ItemBlocks(item)
  BY <1>3 DEF LoopFields
<1> HIDE DEF u
<1>6. Made(st, u, item, 0)
  BY <1>2, <1>3, <1>4, <1>5 DEF Made
<1>7. LoopInv(u)
  BY <1>3, <1>6, MadeInv
<1> QED
  BY <1>1, <1>7, HalfMadeInv

LEMMA TakeValueInv ==
    ASSUME NEW st, LoopInv(st), st.status = "SUCCESS", st.GetItemValue # 0, NEW i, NEW argv, NEW fail
    PROVE  LoopInv(TakeValue(st, i, argv, fail))
<1> DEFINE flag == st.current[1]
           value == IF flag.Value = None THEN argv[i] ELSE flag.Value[1] \o << " " >> \o argv[i]
           item == [flag EXCEPT !.Value = << value >>]
           left == st.GetItemValue - 1
           u == [st EXCEPT !.current = << item >>, !.GetItemValue = @ - 1,
                           !.list = IF st.GetItemValue = 1 THEN << item >> \o @ ELSE @,
                           !.live = @ \cup ItemBlocks(item), !.allocations = @ + 1]
<1>1. TakeValue(st, i, argv, fail) =
        IF fail = st.allocations + 1
        THEN Failed(st, "OUT_OF_RESOURCES", {<< "item", flag.id >>, << "value", flag.id >>})
        ELSE u
  BY DEF TakeValue
<1>2. /\ DOMAIN st = LoopFields /\ Held(st) /\ st.live = PackageBlocks(st.list) \cup ItemBlocks(flag)
      /\ st.GetItemValue \in Int
  BY DEF LoopInv, Held, WaitingBlocks
<1>3. DOMAIN flag = ItemFields
  <2>1. PICK waiting : DOMAIN waiting = ItemFields /\ st.current = << waiting >>
    BY <1>2 DEF Held
  <2>2. flag = waiting
    BY <2>1
  <2> QED
    BY <2>1, <2>2
<1> HIDE DEF flag, value
<1>4. DOMAIN item = ItemFields /\ item.id = flag.id /\ item.Name = flag.Name /\ item.Value = << value >>
  BY <1>3 DEF ItemFields
<1> HIDE DEF item
<1>5. ItemBlocks(flag) \subseteq ItemBlocks(item)
  <2>1. \A x \in ToSet(flag.Value) : << "value", flag.id >> \in {<< "value", item.id >> : y \in ToSet(item.Value)}
    <3>1. value \in ToSet(item.Value)
      BY <1>4 DEF ToSet
    <3> QED
      BY <1>4, <3>1
  <2> QED
    BY <1>4, <2>1 DEF ItemBlocks
<1>6. DOMAIN u = LoopFields /\ u.status = st.status /\ u.current = << item >> /\ u.GetItemValue = left
  BY <1>2 DEF LoopFields
<1>7. u.list = IF st.GetItemValue = 1 THEN << item >> \o st.list ELSE st.list
  BY <1>2 DEF LoopFields
<1>8. u.live = st.live \cup ItemBlocks(item)
  BY <1>2 DEF LoopFields
<1> HIDE DEF u
<1>9. left \in Int /\ (st.GetItemValue = 1 <=> left = 0)
  BY <1>2
<1> HIDE DEF left
<1>10. Made(st, u, item, left)
  <2>1. u.live = PackageBlocks(st.list) \cup ItemBlocks(item)
    BY <1>2, <1>5, <1>8
  <2> QED
    BY <1>4, <1>6, <1>7, <1>9, <2>1 DEF Made
<1>11. LoopInv(u)
  BY <1>2, <1>10, MadeInv
<1>12. LoopInv(Failed(st, "OUT_OF_RESOURCES", {<< "item", flag.id >>, << "value", flag.id >>}))
  <2>1. \A block \in st.live \ {ProblemParam} : block \in PackageBlocks(st.list) \/ block[1] \in ItemKinds
    BY <1>2, ItemBlocksKinds
  <2> QED
    BY <1>2, <2>1, FailedInv
<1> QED
  BY <1>1, <1>11, <1>12

LEMMA RejectFlagInv ==
    ASSUME NEW st, LoopInv(st), st.status = "SUCCESS", NEW fail
    PROVE  LoopInv(RejectFlag(st, fail))
<1> DEFINE s == Failed(st, "VOLUME_CORRUPTED", {})
           u == [s EXCEPT !.live = @ \cup {ProblemParam}]
<1>1. RejectFlag(st, fail) = IF fail = st.allocations + 1 THEN s ELSE u
  BY DEF RejectFlag, ProblemParam
<1>2. LoopInv(s)
  <2>1. Held(st) /\ st.live = PackageBlocks(st.list) \cup WaitingBlocks(st)
    BY DEF LoopInv
  <2>2. \A block \in WaitingBlocks(st) : block[1] \in ItemKinds /\ st.GetItemValue # 0
    BY ItemBlocksKinds DEF WaitingBlocks
  <2> QED
    BY <2>1, <2>2, FailedInv
<1>3. s.status = "VOLUME_CORRUPTED"
  BY DEF Failed, LoopInv, Held, LoopFields
<1> HIDE DEF s
<1>4. DOMAIN s = LoopFields /\ Held(s) /\ Remains(s)
  BY <1>2, <1>3 DEF LoopInv, Held
<1>5. /\ DOMAIN u = LoopFields /\ u.live = s.live \cup {ProblemParam} /\ u.status = s.status
      /\ u.list = s.list /\ u.current = s.current /\ u.GetItemValue = s.GetItemValue
  BY <1>4 DEF LoopFields
<1> HIDE DEF u
<1>6. Held(u) /\ Remains(u)
  BY <1>4, <1>5 DEF Held, Remains
<1>7. LoopInv(u)
  BY <1>3, <1>5, <1>6 DEF LoopInv
<1> QED
  BY <1>1, <1>2, <1>7

LEMMA TakeWordInv ==
    ASSUME NEW st, LoopInv(st), NEW i, NEW argv, Len(argv) \in Nat, NEW list, NEW fail
    PROVE  LoopInv(TakeWord(st, i, argv, list, fail))
<1> DEFINE known == OnCheckList(argv[i], list)
           isFlag == ConsoleInternalIsFlag(argv[i], FALSE, FALSE)
           Type == (CHOOSE k \in known : TRUE).Type
           new == TakeWord(st, i, argv, list, fail)
<1>1. CASE st.status # "SUCCESS"
  BY <1>1 DEF TakeWord
<1>2. CASE st.status = "SUCCESS" /\ known # {}
  <2>1. new = TakeFlag(st, i, argv, Type, fail)
    BY <1>2 DEF TakeWord
  <2> QED
    BY <1>2, <2>1, TakeFlagInv
<1>3. CASE st.status = "SUCCESS" /\ known = {} /\ st.GetItemValue # 0 /\ ~isFlag
  <2>1. new = TakeValue(st, i, argv, fail)
    BY <1>3 DEF TakeWord
  <2> QED
    BY <1>3, <2>1, TakeValueInv
<1>4. CASE st.status = "SUCCESS" /\ known = {} /\ st.GetItemValue = 0 /\ ~isFlag
  <2>1. new = TakePosition(st, i, argv, fail)
    BY <1>4 DEF TakeWord
  <2> QED
    BY <1>4, <2>1, TakePositionInv
<1>5. CASE st.status = "SUCCESS" /\ known = {} /\ isFlag
  <2>1. new = RejectFlag(st, fail)
    BY <1>5 DEF TakeWord
  <2> QED
    BY <1>5, <2>1, RejectFlagInv
<1> QED
  BY <1>1, <1>2, <1>3, <1>4, <1>5

\* The loop over Argv: there is a state after each word, and each one keeps
\* account of the blocks.
LEMMA ParserInv ==
    ASSUME NEW list, NEW argv, Len(argv) \in Nat, NEW fail
    PROVE  LET end == ConsoleInternalCommandLineParse(list, argv, fail)
           IN  IF end.status = "SUCCESS" THEN end.live = PackageBlocks(end.list) ELSE Remains(end)
<1> DEFINE n == Len(argv)
           word(st, i) == TakeWord(st, i, argv, list, fail)
           start == LoopStart(fail)
           body(f) == [i \in 0..n |-> IF i = 0 THEN start ELSE word(f[i - 1], i)]
           after == CHOOSE g : g = body(g)
           last == after[n]
<1>1. ConsoleInternalCommandLineParse(list, argv, fail) =
        IF last.status = "SUCCESS" THEN Leftover(last) ELSE last
  BY DEF ConsoleInternalCommandLineParse
<1>2. n \in Nat
  OBVIOUS
<1>3. LoopInv(start)
  BY LoopStartInv
<1>4. \A st, i : LoopInv(st) => LoopInv(word(st, i))
  BY TakeWordInv
<1> HIDE DEF n, word, start
\* A state after the first k words.
<1> DEFINE Is(f, k) == f = [i \in 0..k |-> IF i = 0 THEN start ELSE word(f[i - 1], i)]
           T == {k \in 0..n : \A f : ~Is(f, k)}
<1>5. T = {}
  <2> SUFFICES ASSUME T # {} PROVE FALSE
    OBVIOUS
  <2>1. T \subseteq Nat
    BY <1>2
  <2> HIDE DEF T, Is
  <2>2. PICK k \in T : \A l \in T : k <= l
    BY <2>1, LeastExists
  <2>3. k \in 0..n /\ \A f : ~Is(f, k)
    BY <2>2 DEF T
  <2>4. CASE k = 0
    <3> DEFINE f == [i \in 0..0 |-> start]
    <3>1. f = [i \in 0..0 |-> IF i = 0 THEN start ELSE word(f[i - 1], i)]
      OBVIOUS
    <3>2. Is(f, 0)
      BY <3>1 DEF Is
    <3> QED
      BY <2>3, <2>4, <3>2
  <2>5. CASE k # 0
    <3>1. k - 1 \in 0..n /\ ~(k <= k - 1) /\ k \in Nat /\ 0..k - 1 \subseteq 0..k
      BY <1>2, <2>3, <2>5
    <3>2. PICK f : Is(f, k - 1)
      BY <2>2, <3>1 DEF T
    <3> DEFINE g == [i \in 0..k |-> IF i = k THEN word(f[k - 1], k) ELSE f[i]]
    <3>3. \A i \in 0..k - 1 : g[i] = f[i] /\ i # k
      BY <3>1
    <3>4. ASSUME NEW i \in 0..k
          PROVE  g[i] = IF i = 0 THEN start ELSE word(g[i - 1], i)
      <4>1. CASE i = k
        <5>1. g[i] = word(f[k - 1], k) /\ k - 1 \in 0..k - 1
          BY <3>1, <4>1
        <5>2. g[k - 1] = f[k - 1]
          BY <3>3, <5>1
        <5> HIDE DEF g
        <5> QED
          BY <2>5, <4>1, <5>1, <5>2
      <4>2. CASE i # k
        <5>1. i \in 0..k - 1
          BY <3>1, <4>2
        <5>2. f[i] = IF i = 0 THEN start ELSE word(f[i - 1], i)
          BY <3>2, <5>1 DEF Is
        <5>3. i # 0 => i - 1 \in 0..k - 1
          BY <3>1, <5>1
        <5> HIDE DEF g
        <5> QED
          BY <3>3, <5>1, <5>2, <5>3
      <4> QED
        BY <4>1, <4>2
    <3>5. g = [i \in 0..k |-> g[i]]
      OBVIOUS
    <3> HIDE DEF g
    <3>6. Is(g, k)
      BY <3>4, <3>5 DEF Is
    <3> QED
      BY <2>3, <3>6
  <2> QED
    BY <2>4, <2>5
<1>6. after = body(after)
  <2>1. n \in 0..n
    BY <1>2
  <2>2. \E f : Is(f, n)
    BY <1>5, <2>1
  <2> QED
    BY <2>2
<1> HIDE DEF after
<1> DEFINE B == {i \in 0..n : ~LoopInv(after[i])}
<1>7. B = {}
  <2> SUFFICES ASSUME B # {} PROVE FALSE
    OBVIOUS
  <2>1. B \subseteq Nat
    BY <1>2
  <2>2. PICK k \in B : \A l \in B : k <= l
    BY <2>1, LeastExists
  <2>3. k \in 0..n /\ ~LoopInv(after[k])
    BY <2>2
  <2>4. after[k] = IF k = 0 THEN start ELSE word(after[k - 1], k)
    BY <1>6, <2>3
  <2>5. k # 0
    BY <1>3, <2>3, <2>4
  <2>6. k - 1 \in 0..n /\ ~(k <= k - 1)
    BY <1>2, <2>3, <2>5
  <2>7. LoopInv(after[k - 1])
    BY <2>2, <2>6
  <2> QED
    BY <1>4, <2>3, <2>4, <2>5, <2>7
<1>8. LoopInv(last)
  <2>1. n \in 0..n
    BY <1>2
  <2> QED
    BY <1>7, <2>1
<1> HIDE DEF last
<1>9. CASE last.status = "SUCCESS"
  <2> DEFINE end == Leftover(last)
  <2>1. LoopInv(end) /\ end.status = "SUCCESS" /\ end.GetItemValue = 0
    BY <1>8, <1>9, LeftoverInv
  <2> HIDE DEF end
  <2>2. end.live = PackageBlocks(end.list)
    BY <2>1 DEF LoopInv, WaitingBlocks
  <2> QED
    BY <1>1, <1>9, <2>1, <2>2 DEF end
<1>10. CASE last.status # "SUCCESS"
  <2>1. Remains(last)
    BY <1>8, <1>10 DEF LoopInv
  <2> QED
    BY <1>1, <1>10, <2>1
<1> QED
  BY <1>9, <1>10

-----------------------------------------------------------------------------
(* Argc and Argv.                                                           *)

\* What ParseCommandLineToArgs() makes of a line without an error has a length.
LEMMA ParsedArguments ==
    ASSUME NEW text \in Text, text # << >>, NEW q, NEW before, NEW fail \in Nat,
           ParseCommandLineToArgs(text, q, before, fail).status = "SUCCESS"
    PROVE  \E argv : /\ ParseCommandLineToArgs(text, q, before, fail).params.Argv = << argv >>
                     /\ Len(argv) \in Nat
<1> DEFINE trimmed == TrimSpaces(text)
           second == Parameters(trimmed, q)
           n == Len(second.args)
           Count == Len(Parameters(trimmed, TRUE).args)
           filled(k) == [Argc |-> k, Argv |-> << SubSeq(second.args, 1, k) >>]
           parsed == ParseCommandLineToArgs(text, q, before, fail)
           empty == text = << >>
           noCopy == fail \in {1, 2}
           noArgv == fail = 3
           noString == fail \in 4..3 + Count
<1>1. parsed = CASE empty -> [status |-> "SUCCESS", params |-> NoParams]
                 [] ~empty /\ noCopy -> [status |-> "OUT_OF_RESOURCES", params |-> before]
                 [] ~empty /\ noArgv -> [status |-> "OUT_OF_RESOURCES", params |-> [before EXCEPT !.Argv = None]]
                 [] ~empty /\ noString -> [status |-> "OUT_OF_RESOURCES", params |-> filled(fail - 4)]
                 [] OTHER -> [status |-> second.status, params |-> filled(n)]
  BY DEF ParseCommandLineToArgs
<1>2. n \in Nat
  BY TrimSpacesIsText, ParametersAreCounted
<1>3. ~empty
  OBVIOUS
<1>4. ~noCopy /\ ~noArgv /\ ~noString
  <2>1. "OUT_OF_RESOURCES" # "SUCCESS" /\ parsed.status = "SUCCESS"
    OBVIOUS
  <2>2. /\ noCopy => ~noArgv /\ ~noString
        /\ noArgv => ~noString
    <3>1. Count \in Nat
      BY TrimSpacesIsText, ParametersAreCounted
    <3> HIDE DEF Count
    <3> QED
      BY <3>1
  <2> HIDE DEF parsed, empty, noCopy, noArgv, noString, filled, second, n, Count, trimmed
  <2>3. CASE noCopy
    <3>1. parsed = [status |-> "OUT_OF_RESOURCES", params |-> before]
      BY <1>1, <1>3, <2>2, <2>3
    <3> QED
      BY <2>1, <3>1
  <2>4. CASE noArgv
    <3>1. parsed = [status |-> "OUT_OF_RESOURCES", params |-> [before EXCEPT !.Argv = None]]
      BY <1>1, <1>3, <2>2, <2>4
    <3> QED
      BY <2>1, <3>1
  <2>5. CASE noString
    <3>1. parsed = [status |-> "OUT_OF_RESOURCES", params |-> filled(fail - 4)]
      BY <1>1, <1>3, <2>2, <2>5
    <3> QED
      BY <2>1, <3>1
  <2> QED
    BY <2>3, <2>4, <2>5
<1>5. parsed = [status |-> second.status, params |-> filled(n)]
  <2> HIDE DEF parsed, empty, noCopy, noArgv, noString, filled, second, n, Count, trimmed
  <2> QED
    BY <1>1, <1>3, <1>4
<1>6. parsed.params.Argv = << SubSeq(second.args, 1, n) >>
  BY <1>5
<1> HIDE DEF parsed, second
<1>7. SubSeq(second.args, 1, n) = [i \in 1..n |-> second.args[i]]
  BY <1>2 DEF SubSeq
<1>8. Len(SubSeq(second.args, 1, n)) = n
  BY <1>2, <1>7
<1> QED
  BY <1>2, <1>6, <1>8 DEF parsed

-----------------------------------------------------------------------------
(* The inductive invariant: which blocks are allocated where.               *)

LineBlocks == {<< "CleanOriginal", 0 >>, << "FirstParameter", 0 >>}
Parsed == LineBlocks \cup {<< "NewCmdLine", 0 >>} \cup ArgvBlocks(params)

Untouched == old = NoParams /\ package = None

AtPrompt ==
    /\ pc \in {"load", "prompt"}
    /\ Untouched /\ params = NoParams
    /\ heap = {} /\ excused = FALSE

InShellCommand ==
    /\ pc = "internal"
    /\ Untouched /\ params = NoParams
    /\ heap = LineBlocks /\ excused = FALSE
    /\ CleanOriginal \in Text /\ CleanOriginal # << >>

InCommandLookup ==
    /\ pc = "handler"
    /\ Untouched
    /\ heap = Parsed /\ excused = FALSE
    /\ \E argv : params.Argv = << argv >> /\ Len(argv) \in Nat

InHandler ==
    /\ pc \in {"mem", "exit", "reset", "off"}
    /\ old = NoParams
    /\ \E list : package = << list >> /\ heap = Parsed \cup PackageBlocks(list)

\* What the parser may have left.
Lost(blocks) == \A block \in blocks : excused /\ block[1] \in ItemKinds

AtRestore ==
    /\ pc = "restore"
    /\ Untouched
    /\ \E rest : Lost(rest) /\ heap = Parsed \cup rest

AtEnd ==
    /\ pc = "end"
    /\ Untouched /\ params = NoParams
    /\ Lost(heap)

LineInv ==
    \/ AtPrompt
    \/ InShellCommand
    \/ InCommandLookup
    \/ InHandler
    \/ AtRestore
    \/ AtEnd

LEMMA StartInv ==
    ASSUME ConsoleCommandsConstructor \/ DoConsolePrompt \/ Reboot, LineInv
    PROVE  LineInv'
<1>1. CASE ConsoleCommandsConstructor
  <2>1. AtPrompt
    BY <1>1 DEF LineInv, ConsoleCommandsConstructor, AtPrompt, InShellCommand, InCommandLookup, InHandler, AtRestore, AtEnd
  <2>2. AtPrompt'
    BY <1>1, <2>1 DEF ConsoleCommandsConstructor, AtPrompt, Untouched, locals
  <2> QED
    BY <2>2 DEF LineInv
<1>2. CASE DoConsolePrompt
  <2>1. AtEnd
    BY <1>2 DEF LineInv, DoConsolePrompt, AtPrompt, InShellCommand, InCommandLookup, InHandler, AtRestore, AtEnd
  <2>2. AtPrompt'
    BY <1>2, <2>1 DEF DoConsolePrompt, AtPrompt, AtEnd, Untouched
  <2> QED
    BY <2>2 DEF LineInv
<1>3. CASE Reboot
  <2>1. AtPrompt'
    BY <1>3 DEF Reboot, AtPrompt, Untouched
  <2> QED
    BY <2>1 DEF LineInv
<1> QED
  BY <1>1, <1>2, <1>3

LEMMA RunShellCommandInv ==
    ASSUME LineInv, NEW CmdLine \in Lines, NEW fail, RunShellCommand(CmdLine, fail)
    PROVE  LineInv'
<1> DEFINE clean == TrimSpaces(NullOutComment(TrimSpaces(CmdLine)))
           first == GetNextParameter(clean, 1, TRUE)
           ends == CmdLine = << >> \/ fail = 1 \/ clean = << >> \/ fail = 2 \/ first.status # "SUCCESS"
<1>1. AtPrompt
  BY DEF LineInv, RunShellCommand, AtPrompt, InShellCommand, InCommandLookup, InHandler, AtRestore, AtEnd
<1>2. clean \in Text
  <2>1. CmdLine \in Text
    BY LinesAssumption DEF Text
  <2> QED
    BY <2>1, TrimSpacesIsText, NullOutCommentIsText
<1>3. /\ CleanOriginal' = clean
      /\ IF ends THEN pc' = "end" /\ heap' = heap ELSE heap' = LineBlocks /\ pc' = "internal"
      /\ old' = old /\ package' = package /\ params' = params /\ excused' = excused
  BY DEF RunShellCommand, LineBlocks
<1>4. ~ends => clean # << >>
  OBVIOUS
<1> HIDE DEF clean, ends
<1>5. CASE ends
  <2>1. AtEnd'
    BY <1>1, <1>3, <1>5 DEF AtPrompt, AtEnd, Untouched, Lost
  <2> QED
    BY <2>1 DEF LineInv
<1>6. CASE ~ends
  <2>1. InShellCommand'
    BY <1>1, <1>2, <1>3, <1>4, <1>6 DEF AtPrompt, InShellCommand, Untouched, LineBlocks
  <2> QED
    BY <2>1 DEF LineInv
<1> QED
  BY <1>5, <1>6

LEMMA RunInternalCommandFailsInv ==
    ASSUME LineInv, RunInternalCommandFails
    PROVE  LineInv'
<1>1. InShellCommand
  BY DEF LineInv, RunInternalCommandFails, AtPrompt, InShellCommand, InCommandLookup, InHandler, AtRestore, AtEnd
<1>2. /\ pc' = "end" /\ heap' = heap \ LineBlocks
      /\ old' = old /\ package' = package /\ params' = params
  BY DEF RunInternalCommandFails, EndOfLine, LineBlocks, locals
<1>3. AtEnd'
  BY <1>1, <1>2 DEF InShellCommand, AtEnd, Untouched, Lost
<1> QED
  BY <1>3 DEF LineInv

LEMMA UpdateArgcArgvInv ==
    ASSUME LineInv, NEW fail \in 0..MaxFails, UpdateArgcArgv(fail)
    PROVE  LineInv'
<1> DEFINE text == UnescapeComment(CleanOriginal)
           parsed == ParseCommandLineToArgs(text, TRUE, params, fail)
<1>1. InShellCommand
  BY DEF LineInv, UpdateArgcArgv, AtPrompt, InShellCommand, InCommandLookup, InHandler, AtRestore, AtEnd
<1>2. text \in Text /\ text # << >>
  BY <1>1, UnescapeCommentIsText DEF InShellCommand
<1>3. parsed.status = "SUCCESS" => \E argv : parsed.params.Argv = << argv >> /\ Len(argv) \in Nat
  <2>1. fail \in Nat
    OBVIOUS
  <2> HIDE DEF text
  <2> QED
    BY <1>2, <2>1, ParsedArguments
<1>4. /\ old' = params /\ params' = parsed.params
      /\ heap' = heap \cup {<< "NewCmdLine", 0 >>} \cup ArgvBlocks(parsed.params)
      /\ pc' = IF parsed.status = "SUCCESS" THEN "handler" ELSE "restore"
      /\ package' = package /\ excused' = excused
  BY DEF UpdateArgcArgv
<1> HIDE DEF parsed, text
<1>5. ArgvBlocks(params)' = ArgvBlocks(parsed.params)
  BY <1>4 DEF ArgvBlocks
<1>6. heap' = Parsed' /\ Untouched' /\ excused' = FALSE
  BY <1>1, <1>4, <1>5 DEF InShellCommand, Untouched, Parsed, LineBlocks
<1>7. CASE parsed.status = "SUCCESS"
  <2>1. InCommandLookup'
    BY <1>3, <1>4, <1>6, <1>7 DEF InCommandLookup
  <2> QED
    BY <2>1 DEF LineInv
<1>8. CASE parsed.status # "SUCCESS"
  <2>1. Lost({})' /\ heap' = Parsed' \cup {}
    BY <1>6 DEF Lost
  <2>2. AtRestore'
    BY <1>4, <1>6, <1>8, <2>1 DEF AtRestore
  <2> QED
    BY <2>2 DEF LineInv
<1> QED
  BY <1>7, <1>8

LEMMA CommandNotFoundInv ==
    ASSUME LineInv, CommandNotFound
    PROVE  LineInv'
<1>1. InCommandLookup
  BY DEF LineInv, CommandNotFound, AtPrompt, InShellCommand, InCommandLookup, InHandler, AtRestore, AtEnd
<1>2. pc' = "restore" /\ old' = old /\ package' = package /\ params' = params /\ heap' = heap
  BY DEF CommandNotFound, locals
<1>3. Parsed' = Parsed /\ Untouched'
  BY <1>1, <1>2 DEF Parsed, ArgvBlocks, InCommandLookup, Untouched
<1>4. Lost({})' /\ heap' = Parsed' \cup {}
  BY <1>1, <1>2, <1>3 DEF Lost, InCommandLookup
<1>5. AtRestore'
  BY <1>2, <1>3, <1>4 DEF AtRestore
<1> QED
  BY <1>5 DEF LineInv

LEMMA ConsoleCommandLineParseInv ==
    ASSUME LineInv, NEW command, NEW fail, ConsoleCommandLineParse(command, fail)
    PROVE  LineInv'
<1> DEFINE end == ConsoleInternalCommandLineParse(CheckList(command), params.Argv[1], fail)
<1>1. InCommandLookup
  BY DEF LineInv, ConsoleCommandLineParse, AtPrompt, InShellCommand, InCommandLookup, InHandler, AtRestore, AtEnd
<1>2. Len(params.Argv[1]) \in Nat
  <2>1. PICK argv : params.Argv = << argv >> /\ Len(argv) \in Nat
    BY <1>1 DEF InCommandLookup
  <2>2. params.Argv[1] = argv
    BY <2>1
  <2> QED
    BY <2>1, <2>2
<1>3. IF end.status = "SUCCESS" THEN end.live = PackageBlocks(end.list) ELSE Remains(end)
  BY <1>2, ParserInv
<1>4. /\ package' = IF end.status = "SUCCESS" THEN << end.list >> ELSE None
      /\ heap' = heap \cup (end.live \ {ProblemParam})
      /\ old' = old /\ params' = params
  BY DEF ConsoleCommandLineParse, ProblemParam
<1>5. excused' = (\/ end.status = "OUT_OF_RESOURCES"
                  \/ end.status = "VOLUME_CORRUPTED" /\ end.GetItemValue # 0)
  BY DEF ConsoleCommandLineParse
<1>6. IF end.status # "SUCCESS" THEN pc' = "restore" ELSE pc' \in {"mem", "exit", "reset"}
  <2>1. pc' = IF end.status # "SUCCESS" THEN "restore"
              ELSE CASE command = Mem -> "mem" [] command = Exit -> "exit" [] OTHER -> "reset"
    BY DEF ConsoleCommandLineParse
  <2>2. (CASE command = Mem -> "mem" [] command = Exit -> "exit" [] OTHER -> "reset") \in {"mem", "exit", "reset"}
    <3> DEFINE isMem == command = Mem
               isExit == command = Exit
    <3> HIDE DEF isMem, isExit
    <3>1. (CASE isMem -> "mem" [] isExit -> "exit" [] OTHER -> "reset") \in {"mem", "exit", "reset"}
      OBVIOUS
    <3> QED
      BY <3>1 DEF isMem, isExit
  <2> QED
    BY ONLY <2>1, <2>2
<1> HIDE DEF end
<1>7. old' = NoParams /\ Parsed' = Parsed /\ heap = Parsed
  BY <1>1, <1>4 DEF InCommandLookup, Untouched, Parsed, ArgvBlocks
<1>8. CASE end.status = "SUCCESS"
  <2>1. ProblemParam \notin PackageBlocks(end.list)
    <3>1. \A block \in PackageBlocks(end.list) : block[1] \in ItemKinds \cup {"Package"}
      BY ItemBlocksKinds DEF PackageBlocks
    <3> QED
      BY <3>1 DEF ItemKinds, ProblemParam
  <2>2. package' = << end.list >> /\ heap' = Parsed' \cup PackageBlocks(end.list)
    BY <1>3, <1>4, <1>7, <1>8, <2>1
  <2>3. InHandler'
    BY <1>6, <1>7, <1>8, <2>2 DEF InHandler
  <2> QED
    BY <2>3 DEF LineInv
<1>9. CASE end.status # "SUCCESS"
  <2> DEFINE rest == end.live \ {ProblemParam}
  <2>1. Remains(end)
    BY <1>3, <1>9
  <2>2. \A block \in rest : excused' /\ block[1] \in ItemKinds
    BY <1>5, <2>1 DEF Remains
  <2>3. heap' = Parsed' \cup rest /\ pc' = "restore" /\ package' = None
    BY <1>4, <1>6, <1>7, <1>9
  <2> HIDE DEF rest
  <2>4. AtRestore'
    BY <1>7, <2>2, <2>3 DEF AtRestore, Untouched, Lost
  <2> QED
    BY <2>4 DEF LineInv
<1> QED
  BY <1>8, <1>9

\* A handler that returns has freed what its package owned and nothing else.
LEMMA ReturnInv ==
    ASSUME InHandler, NEW result, Return(result)
    PROVE  LineInv'
<1>1. PICK list : package = << list >> /\ heap = Parsed \cup PackageBlocks(list)
  BY DEF InHandler
<1>2. package[1] = list
  BY <1>1
<1>3. /\ package' = None /\ heap' = heap \ PackageBlocks(list) /\ pc' = "restore"
      /\ old' = old /\ params' = params
  BY <1>2 DEF Return
<1>4. Parsed' = Parsed
  BY <1>3 DEF Parsed, ArgvBlocks
<1>5. \A block \in Parsed : block \notin PackageBlocks(list)
  <2>1. \A block \in PackageBlocks(list) : block[1] \in {"item", "name", "value", "Package"}
    <3>1. \A block \in PackageBlocks(list) : block = << "Package", 0 >> \/ block[1] \in ItemKinds
      BY ItemBlocksKinds DEF PackageBlocks
    <3> QED
      BY <3>1 DEF ItemKinds
  <2>2. \A block \in Parsed : block[1] \in {"CleanOriginal", "FirstParameter", "NewCmdLine", "Argv"}
    BY DEF Parsed, LineBlocks, ArgvBlocks
  <2>3. {"item", "name", "value", "Package"} \cap {"CleanOriginal", "FirstParameter", "NewCmdLine", "Argv"} = {}
    OBVIOUS
  <2> QED
    BY <2>1, <2>2, <2>3
<1>6. Lost({})' /\ heap' = Parsed' \cup {}
  BY <1>1, <1>3, <1>4, <1>5 DEF Lost
<1>7. AtRestore'
  BY <1>3, <1>6 DEF AtRestore, Untouched, InHandler
<1> QED
  BY <1>7 DEF LineInv

LEMMA HandlerInv ==
    ASSUME LineInv, ShellCommandRunMem \/ ShellCommandRunExit \/ ShellCommandRunReset
    PROVE  LineInv'
<1>1. InHandler
  BY DEF LineInv, ShellCommandRunMem, ShellCommandRunExit, ShellCommandRunReset,
         AtPrompt, InShellCommand, InCommandLookup, InHandler, AtRestore, AtEnd
<1>2. CASE ShellCommandRunMem
  <2>1. \E result : Return(result)
    BY <1>2 DEF ShellCommandRunMem
  <2> QED
    BY <1>1, <2>1, ReturnInv
<1>3. CASE ShellCommandRunExit
  <2>1. \E result : Return(result)
    BY <1>3 DEF ShellCommandRunExit
  <2> QED
    BY <1>1, <2>1, ReturnInv
<1>4. CASE ShellCommandRunReset
  <2>1. CASE ResetWanted(package[1]).what = "reset"
    <3>1. /\ pc' = "off" /\ old' = old /\ package' = package
          /\ params' = params /\ heap' = heap
      BY <1>4, <2>1 DEF ShellCommandRunReset, locals
    <3>2. Parsed' = Parsed
      BY <3>1 DEF Parsed, ArgvBlocks
    <3>3. InHandler'
      BY <1>1, <3>1, <3>2 DEF InHandler
    <3> QED
      BY <3>3 DEF LineInv
  <2>2. CASE ResetWanted(package[1]).what # "reset"
    <3>1. Return(ResetWanted(package[1]))
      BY <1>4, <2>2 DEF ShellCommandRunReset
    <3> QED
      BY <1>1, <3>1, ReturnInv
  <2> QED
    BY <2>1, <2>2
<1> QED
  BY <1>2, <1>3, <1>4

LEMMA RestoreArgcArgvInv ==
    ASSUME LineInv, RestoreArgcArgv
    PROVE  LineInv'
<1>1. AtRestore
  BY DEF LineInv, RestoreArgcArgv, AtPrompt, InShellCommand, InCommandLookup, InHandler, AtRestore, AtEnd
<1>2. PICK rest : Lost(rest) /\ heap = Parsed \cup rest
  BY <1>1 DEF AtRestore
<1>3. /\ pc' = "end" /\ params' = old /\ old' = NoParams /\ package' = package /\ excused' = excused
      /\ heap' = heap \ Parsed
  BY DEF RestoreArgcArgv, EndOfLine, Parsed, LineBlocks
<1>4. \A block \in heap' : block \in rest
  BY <1>2, <1>3
<1>5. Lost(heap)'
  BY <1>2, <1>3, <1>4 DEF Lost
<1>6. AtEnd'
  BY <1>1, <1>3, <1>5 DEF AtEnd, AtRestore, Untouched
<1> QED
  BY <1>6 DEF LineInv

LEMMA NextLineInv == LineInv /\ [Next]_vars => LineInv'
<1> SUFFICES ASSUME LineInv, [Next]_vars PROVE LineInv'
  OBVIOUS
<1>1. CASE ConsoleCommandsConstructor \/ DoConsolePrompt \/ Reboot
  BY <1>1, StartInv
<1>2. CASE \E CmdLine \in Lines, fail \in 0..2 : RunShellCommand(CmdLine, fail)
  BY <1>2, RunShellCommandInv
<1>3. CASE RunInternalCommandFails
  BY <1>3, RunInternalCommandFailsInv
<1>4. CASE \E fail \in 0..MaxFails : UpdateArgcArgv(fail)
  BY <1>4, UpdateArgcArgvInv
<1>5. CASE CommandNotFound
  BY <1>5, CommandNotFoundInv
<1>6. CASE \E command \in {Mem, Exit, Reset}, fail \in 0..MaxFails : ConsoleCommandLineParse(command, fail)
  BY <1>6, ConsoleCommandLineParseInv
<1>7. CASE ShellCommandRunMem \/ ShellCommandRunExit \/ ShellCommandRunReset
  BY <1>7, HandlerInv
<1>8. CASE RestoreArgcArgv
  BY <1>8, RestoreArgcArgvInv
<1>9. CASE UNCHANGED vars
  <2>1. Parsed' = Parsed /\ ArgvBlocks(params)' = ArgvBlocks(params)
    BY <1>9 DEF Parsed, ArgvBlocks, vars
  <2> QED
    BY <1>9, <2>1 DEF LineInv, AtPrompt, InShellCommand, InCommandLookup, InHandler, AtRestore, AtEnd,
                      Untouched, Lost, vars, locals
<1> QED
  BY <1>1, <1>2, <1>3, <1>4, <1>5, <1>6, <1>7, <1>8, <1>9 DEF Next

\* What a handler reads is allocated, and at the end of a line nothing is but
\* what the parser lost (RunShellCommand() to RestoreArgcArgv()).
THEOREM NothingIsLeftBehind == Spec => []NothingLeftBehind
<1>1. Init => LineInv
  BY DEF Init, LineInv, AtPrompt, Untouched
<1>2. LineInv => NothingLeftBehind
  <2> SUFFICES ASSUME LineInv PROVE NothingLeftBehind
    OBVIOUS
  <2>1. ArgvBlocks(NoParams) = {}
    BY DEF ArgvBlocks, NoParams
  <2>2. ArgvBlocks(params) \subseteq heap
    BY <2>1 DEF LineInv, AtPrompt, InShellCommand, InCommandLookup, InHandler, AtRestore, AtEnd, Parsed
  <2>3. \A list \in ToSet(package) : PackageBlocks(list) \subseteq heap
    <3>1. CASE package = None
      BY <3>1 DEF None, ToSet
    <3>2. CASE InHandler
      <4>1. PICK held : package = << held >> /\ heap = Parsed \cup PackageBlocks(held)
        BY <3>2 DEF InHandler
      <4>2. ToSet(package) = {held}
        BY <4>1 DEF ToSet
      <4> QED
        BY <4>1, <4>2
    <3> QED
      BY <3>1, <3>2 DEF LineInv, AtPrompt, InShellCommand, InCommandLookup, AtRestore, AtEnd, Untouched
  <2>4. pc = "end" => AtEnd
    BY DEF LineInv, AtPrompt, InShellCommand, InCommandLookup, InHandler, AtRestore, AtEnd
  <2> QED
    BY <2>2, <2>3, <2>4 DEF NothingLeftBehind, AtEnd, Untouched, Lost, ItemKinds
<1> QED
  BY <1>1, <1>2, NextLineInv, PTL DEF Spec

=============================================================================
