---------------------------- MODULE CommandLine ----------------------------
(***************************************************************************)
(* One line of the console from Enter to the next prompt: RunShellCommand()*)
(* cleans it, RunInternalCommand() makes it the parameters of the shell    *)
(* protocol and runs the command's handler, the handler checks its         *)
(* parameters into a package, acts, and everything is freed and restored.  *)
(* Each allocation on the way can fail.                                    *)
(*                                                                         *)
(* A pointer that can be NULL is a sequence of at most one element.        *)
(***************************************************************************)
EXTENDS CommandText, FiniteSets

CONSTANTS Lines,        \* the lines that are typed
          MaxFails      \* the number of the last allocation of a step that may fail

ASSUME LinesAssumption == \A l \in Lines : l \in Seq(STRING)

VARIABLES
    commands,           \* names in mCommandList, first to last
    pc,                 \* the function that runs next
    CleanOriginal,      \* the line without comment, spaces and tabs at the ends
    FirstParameter,
    NewCmdLine,         \* the line with ^# replaced
    params,             \* NewShellParametersProtocol: [Argc, Argv]
    old,                \* the Argc and Argv saved by RunInternalCommand
    package,            \* <<list of items>> of the running command, or NULL
    heap,               \* allocations of the line that are not freed
    excused,            \* the parser ran out of memory, or met an unknown flag behind one that
                        \* waits for its value
    mExitRequested,
    done                \* what the command did: [what, ...]

locals == << CleanOriginal, FirstParameter, NewCmdLine, old, package >>
vars == << commands, pc, locals, params, heap, excused, mExitRequested, done >>

None == << >>
Mem == << "m", "e", "m" >>
Exit == << "e", "x", "i", "t" >>
Reset == << "r", "e", "s", "e", "t" >>
Flag(c) == << "-", c >>
Mmio == << "-", "m", "m", "i", "o" >>

-----------------------------------------------------------------------------
(* Argc and Argv.                                                           *)

NoParams == [Argc |-> 0, Argv |-> None]

\* Allocations 1 and 2 are the copy of the line and TempParameter, 3 is Argv and
\* the rest are the strings in it.  The first loop, which counts, strips quotes.
ParseCommandLineToArgs(CommandLine, StripQuotation, before, fail) ==
    LET text == TrimSpaces(CommandLine)
        second == Parameters(text, StripQuotation)
        Count == Len(Parameters(text, TRUE).args)
        filled(n) == [Argc |-> n, Argv |-> << SubSeq(second.args, 1, n) >>]
    IN  CASE CommandLine = << >> -> [status |-> "SUCCESS", params |-> NoParams]
          [] CommandLine # << >> /\ fail \in {1, 2} ->
               [status |-> "OUT_OF_RESOURCES", params |-> before]
          [] CommandLine # << >> /\ fail = 3 ->
               [status |-> "OUT_OF_RESOURCES", params |-> [before EXCEPT !.Argv = None]]
          [] CommandLine # << >> /\ fail \in 4..3 + Count ->
               [status |-> "OUT_OF_RESOURCES", params |-> filled(fail - 4)]
          [] OTHER -> [status |-> second.status, params |-> filled(Len(second.args))]

\* Blocks that a pair of Argc and Argv owns.
ArgvBlocks(p) == IF p.Argv = None THEN {} ELSE {<< "Argv", i >> : i \in 0..p.Argc}

-----------------------------------------------------------------------------
(* The package of checked parameters.                                       *)

CheckList(command) ==
    CASE command = Mem -> {[Name |-> Mmio, Type |-> "TypeFlag"]}
      [] command = Exit -> {}
      [] command = Reset -> {[Name |-> Flag(c), Type |-> "TypeValue"] : c \in {"w", "s", "c", "p"}}

\* -? and -b are flags of every command.
OnCheckList(name, list) ==
    {[Name |-> name, Type |-> "TypeFlag"] : x \in {name} \cap {Flag("?"), Flag("b")}}
    \union {item \in list : IF item.Type = "TypeStart"
                            THEN StartsWith(Upper(name), Upper(item.Name))
                            ELSE SameNoCase(name, item.Name)}

ConsoleInternalIsFlag(name, AlwaysAllowNumbers, TimeNumbers) ==
    /\ ~(/\ First(name, {"-", "+"})
         /\ ConsoleInternalShellIsHexOrDecimalNumber(Tail(name), FALSE, FALSE, TimeNumbers)
         /\ AlwaysAllowNumbers)
    /\ First(name, {"/", "-", "+"})

\* The number of words behind a flag that are its value.
ValuesWanted(Type, Argc) ==
    CASE Type \in {"TypeValue", "TypeTimeValue"} -> 1
      [] Type = "TypeDoubleValue" -> 2
      [] Type = "TypeMaxValue" -> Argc
      [] OTHER -> 0

ItemBlocks(item) ==
    {<< "item", item.id >>}
    \union {<< "name", item.id >> : x \in ToSet(item.Name)}
    \union {<< "value", item.id >> : x \in ToSet(item.Value)}

\* ConsoleCommandLineFreeVarList: the blocks of a package.
PackageBlocks(list) == {<< "Package", 0 >>} \union UNION {ItemBlocks(item) : item \in ToSet(list)}

\* State of the loop over Argv.  current is the flag that waits for GetItemValue
\* more values; it is not in the list yet.
LoopStart(fail) ==
    [list |-> << >>, current |-> None, GetItemValue |-> 0, Count |-> 0, allocations |-> 1,
     status |-> IF fail = 1 THEN "OUT_OF_RESOURCES" ELSE "SUCCESS",
     live |-> IF fail = 1 THEN {} ELSE {<< "Package", 0 >>}]

\* An error return frees the package, and freed beside it.
Failed(st, status, freed) ==
    [st EXCEPT !.status = status, !.live = @ \ (PackageBlocks(st.list) \union freed)]

\* A flag whose optional value did not come is inserted when the next one starts.
Leftover(st) ==
    IF st.GetItemValue = 0 THEN st ELSE [st EXCEPT !.list = st.current \o @, !.GetItemValue = 0]

TakeFlag_NoLeftover(st, i, argv, Type, fail) ==
    LET item == [id |-> i, Name |-> << argv[i] >>, Type |-> Type, Value |-> None, OriginalPosition |-> -1]
        wanted == ValuesWanted(Type, Len(argv))
    IN  [st EXCEPT !.current = << item >>, !.GetItemValue = wanted,
                   !.list = IF wanted = 0 THEN << item >> \o @ ELSE @,
                   !.live = @ \union ItemBlocks(item), !.allocations = @ + 2]

TakeFlag(st, i, argv, Type, fail) ==
    LET s == Leftover(st)
        item == [id |-> i, Name |-> << argv[i] >>, Type |-> Type, Value |-> None, OriginalPosition |-> -1]
        wanted == ValuesWanted(Type, Len(argv))
    IN  IF fail = s.allocations + 1 THEN Failed(s, "OUT_OF_RESOURCES", {})
        ELSE IF fail = s.allocations + 2
        THEN Failed([s EXCEPT !.live = @ \union {<< "item", i >>}], "OUT_OF_RESOURCES", {})
        ELSE [s EXCEPT !.current = << item >>, !.GetItemValue = wanted,
                       !.list = IF wanted = 0 THEN << item >> \o @ ELSE @,
                       !.live = @ \union ItemBlocks(item), !.allocations = @ + 2]

\* A second value of the same flag is appended behind a space.
TakeValue(st, i, argv, fail) ==
    LET flag == st.current[1]
        value == IF flag.Value = None THEN argv[i] ELSE flag.Value[1] \o << " " >> \o argv[i]
        item == [flag EXCEPT !.Value = << value >>]
    IN  IF fail = st.allocations + 1
        THEN Failed(st, "OUT_OF_RESOURCES", {<< "item", flag.id >>, << "value", flag.id >>})
        ELSE [st EXCEPT !.current = << item >>, !.GetItemValue = @ - 1,
                        !.list = IF st.GetItemValue = 1 THEN << item >> \o @ ELSE @,
                        !.live = @ \union ItemBlocks(item), !.allocations = @ + 1]

\* ^- ^/ and ^+ at the start of a word lose the ^.
TakePosition(st, i, argv, fail) ==
    LET escaped == Len(argv[i]) > 1 /\ argv[i][1] = "^" /\ argv[i][2] \in {"-", "/", "+"}
        item == [id |-> i, Name |-> None, Type |-> "TypePosition",
                 Value |-> << IF escaped THEN Tail(argv[i]) ELSE argv[i] >>,
                 OriginalPosition |-> st.Count]
    IN  IF fail = st.allocations + 1 THEN Failed(st, "OUT_OF_RESOURCES", {})
        ELSE IF fail = st.allocations + 2
        THEN Failed([st EXCEPT !.live = @ \union {<< "item", i >>}], "OUT_OF_RESOURCES", {})
        ELSE [st EXCEPT !.current = << item >>, !.list = << item >> \o @, !.Count = @ + 1,
                        !.live = @ \union ItemBlocks(item), !.allocations = @ + 2]

\* Unknown flag: its name is returned in ProblemParam when that can be allocated.
RejectFlag(st, fail) ==
    LET s == Failed(st, "VOLUME_CORRUPTED", {})
    IN  IF fail = st.allocations + 1 THEN s
        ELSE [s EXCEPT !.live = @ \union {<< "ProblemParam", 0 >>}]

TakeWord(st, i, argv, list, fail) ==
    LET known == OnCheckList(argv[i], list)
    IN  IF st.status # "SUCCESS" THEN st
        ELSE IF known # {} THEN TakeFlag(st, i, argv, (CHOOSE k \in known : TRUE).Type, fail)
        ELSE IF st.GetItemValue # 0 /\ ~ConsoleInternalIsFlag(argv[i], FALSE, FALSE)
        THEN TakeValue(st, i, argv, fail)
        ELSE IF ~ConsoleInternalIsFlag(argv[i], FALSE, FALSE) THEN TakePosition(st, i, argv, fail)
        ELSE RejectFlag(st, fail)

\* [status, list, live] of a command line whose allocation number fail fails.
ConsoleInternalCommandLineParse(list, argv, fail) ==
    LET after[i \in 0..Len(argv)] ==
            IF i = 0 THEN LoopStart(fail) ELSE TakeWord(after[i - 1], i, argv, list, fail)
        end == after[Len(argv)]
    IN  IF end.status = "SUCCESS" THEN Leftover(end) ELSE end

Named(list, key) ==
    {i \in DOMAIN list : \E name \in ToSet(list[i].Name) :
        \/ SameNoCase(key, name)
        \/ list[i].Type = "TypeStart" /\ StartsWith(name, key)}

ConsoleCommandLineGetFlag(list, key) == Named(list, key) # {}

\* The first item of the list, which is the one given last.
ConsoleCommandLineGetValue(list, key) ==
    IF Named(list, key) = {} THEN None
    ELSE list[CHOOSE i \in Named(list, key) : \A j \in Named(list, key) : i <= j].Value

ConsoleCommandLineGetRawValue(list, Position) ==
    LET at == {i \in DOMAIN list : list[i].OriginalPosition = Position}
    IN  IF at = {} THEN None ELSE list[CHOOSE i \in at : TRUE].Value

ConsoleCommandLineGetCount(list) == Cardinality({i \in DOMAIN list : list[i].Name = None})

-----------------------------------------------------------------------------
(* The list of commands.                                                    *)

Before(s, t) == s # t /\ << s, t >> \in {<< Exit, Mem >>, << Exit, Reset >>, << Mem, Reset >>}

\* ConsoleCommandRegisterCommandName: a new entry is put on top and moved down
\* past every entry that comes before it.
RegisteredIn(list, name) ==
    LET passed == {j \in DOMAIN list : \A i \in 1..j : Before(list[i], name)}
    IN  IF name \in ToSet(list) THEN list ELSE InsertAt(list, Cardinality(passed) + 1, name)

Init ==
    /\ commands = << >>
    /\ pc = "load"
    /\ CleanOriginal = << >> /\ FirstParameter = << >> /\ NewCmdLine = << >>
    /\ params = NoParams /\ old = NoParams
    /\ package = None
    /\ heap = {} /\ excused = FALSE
    /\ mExitRequested = FALSE
    /\ done = [what |-> "nothing"]

\* Without a collation protocol for the platform's language no command is
\* registered; UefiConsoleEntry ignores that.  A registration that runs out of
\* memory is ignored by the constructor itself.
ConsoleCommandsConstructor ==
    /\ pc = "load"
    /\ \E collation \in BOOLEAN, registered \in SUBSET {Mem, Exit, Reset} :
         LET order == SelectSeq(<< Mem, Exit, Reset >>, LAMBDA name : name \in registered)
         IN  commands' = IF collation THEN FoldLeft(RegisteredIn, << >>, order) ELSE << >>
    /\ pc' = "prompt"
    /\ UNCHANGED << locals, params, heap, excused, mExitRequested, done >>

\* DoConsolePrompt() again, in this session or, after an exit, in a later one.
\* What the last line did not free is lost.
DoConsolePrompt ==
    /\ pc = "end"
    /\ pc' = "prompt"
    /\ mExitRequested' = FALSE
    /\ CleanOriginal' = << >> /\ FirstParameter' = << >> /\ NewCmdLine' = << >>
    /\ heap' = {} /\ excused' = FALSE
    /\ done' = [what |-> "nothing"]
    /\ UNCHANGED << commands, params, old, package >>

\* The start of RunShellCommand().  It returns success at once for an empty line
\* and for one that only holds blanks or a comment.
RunShellCommand(CmdLine, fail) ==
    LET clean == TrimSpaces(NullOutComment(TrimSpaces(CmdLine)))
        first == GetNextParameter(clean, 1, TRUE)
    IN  /\ pc = "prompt"
        /\ CleanOriginal' = clean
        /\ IF CmdLine = << >> \/ fail = 1 \/ clean = << >> \/ fail = 2 \/ first.status # "SUCCESS"
           THEN pc' = "end" /\ UNCHANGED << heap, FirstParameter >>
           ELSE /\ heap' = {<< "CleanOriginal", 0 >>, << "FirstParameter", 0 >>}
                /\ FirstParameter' = first.param
                /\ pc' = "internal"
        /\ UNCHANGED << commands, NewCmdLine, old, package, params, excused, mExitRequested, done >>

EndOfLine(blocks) ==
    /\ pc' = "end"
    /\ heap' = heap \ (blocks \union {<< "CleanOriginal", 0 >>, << "FirstParameter", 0 >>})

\* The line cannot be copied.
RunInternalCommandFails ==
    /\ pc = "internal"
    /\ EndOfLine({})
    /\ UNCHANGED << commands, locals, params, excused, mExitRequested, done >>

UpdateArgcArgv_NoRestore(fail) ==
    LET text == UnescapeComment(CleanOriginal)
        parsed == ParseCommandLineToArgs(text, TRUE, params, fail)
    IN  /\ pc = "internal"
        /\ parsed.status # "SUCCESS"
        /\ NewCmdLine' = text
        /\ old' = params
        /\ params' = parsed.params
        /\ EndOfLine({})
        /\ UNCHANGED << commands, CleanOriginal, FirstParameter, package, excused, mExitRequested, done >>

\* RunInternalCommand() up to the handler: UpdateArgcArgv() saves and replaces
\* the parameters.
UpdateArgcArgv(fail) ==
    LET text == UnescapeComment(CleanOriginal)
        parsed == ParseCommandLineToArgs(text, TRUE, params, fail)
    IN  /\ pc = "internal"
        /\ NewCmdLine' = text
        /\ old' = params
        /\ params' = parsed.params
        /\ heap' = heap \union {<< "NewCmdLine", 0 >>} \union ArgvBlocks(parsed.params)
        /\ pc' = IF parsed.status = "SUCCESS" THEN "handler" ELSE "restore"
        /\ UNCHANGED << commands, CleanOriginal, FirstParameter, package, excused, mExitRequested, done >>

\* ConsoleCommandRunCommandHandler() looks for the first parameter.
CommandNotFound ==
    /\ pc = "handler"
    /\ \A i \in DOMAIN commands : ~SameNoCase(FirstParameter, commands[i])
    /\ pc' = "restore"
    /\ done' = [what |-> "not found"]
    /\ UNCHANGED << commands, locals, params, heap, excused, mExitRequested >>

ConsoleCommandLineParse(command, fail) ==
    LET end == ConsoleInternalCommandLineParse(CheckList(command), params.Argv[1], fail)
    IN  /\ pc = "handler"
        /\ command \in ToSet(commands)
        /\ SameNoCase(FirstParameter, command)
        /\ package' = IF end.status = "SUCCESS" THEN << end.list >> ELSE None
        /\ heap' = heap \union (end.live \ {<< "ProblemParam", 0 >>})
        /\ excused' = \/ end.status = "OUT_OF_RESOURCES"
                      \/ end.status = "VOLUME_CORRUPTED" /\ end.GetItemValue # 0
        /\ pc' = IF end.status # "SUCCESS" THEN "restore"
                 ELSE CASE command = Mem -> "mem" [] command = Exit -> "exit" [] OTHER -> "reset"
        /\ done' = IF end.status = "SUCCESS" THEN done ELSE [what |-> end.status]
        /\ UNCHANGED << commands, CleanOriginal, FirstParameter, NewCmdLine, old, params, mExitRequested >>

\* A handler frees its package and returns.
Return(result) ==
    /\ done' = result
    /\ package' = None
    /\ heap' = heap \ PackageBlocks(package[1])
    /\ pc' = "restore"
    /\ UNCHANGED << commands, CleanOriginal, FirstParameter, NewCmdLine, old, params, excused >>

Invalid == [what |-> "invalid parameter"]

\* [status, value] of the raw parameter at a position, default if it is missing.
Number(list, Position, Test, default) ==
    LET raw == ConsoleCommandLineGetRawValue(list, Position)
    IN  IF raw = None THEN [status |-> "SUCCESS", value |-> default]
        ELSE IF ~Test THEN [status |-> "INVALID_PARAMETER", value |-> 0]
        ELSE ConsoleConvertStringToUint64(raw[1], TRUE, FALSE)

SystemTable == "gST"
DefaultSize == 512

\* The address is looked at first; a size without an address cannot be given.
ShellCommandRunMem ==
    LET list == package[1]
        raw(p) == ConsoleCommandLineGetRawValue(list, p)
        isNumber(p, force) == raw(p) # None => ConsoleIsHexOrDecimalNumber(raw(p)[1], force, FALSE)
        Address == Number(list, 1, isNumber(1, TRUE), 0)
        Size == Number(list, 2, isNumber(2, FALSE), DefaultSize)
        shown == [what |-> "memory", default |-> raw(1) = None, Address |-> Address.value,
                  Size |-> Size.value]
    IN  /\ pc = "mem"
        /\ UNCHANGED mExitRequested
        /\ IF \/ ConsoleCommandLineGetCount(list) > 3
              \/ Address.status # "SUCCESS"
              \/ Size.status # "SUCCESS"
           THEN Return(Invalid)
           ELSE IF ConsoleCommandLineGetFlag(list, Mmio)
           THEN \/ Return([shown EXCEPT !.what = "mmio"])
                \/ Return([what |-> "mmio fails"])
           ELSE Return(shown)

\* mExitCode is stored for ShellCommandGetExitCode(), which nothing calls.
ConsoleCommandRegisterExit == mExitRequested' = ~mExitRequested

ShellCommandRunExit ==
    LET raw == ConsoleCommandLineGetRawValue(package[1], 1)
        code == IF raw = None THEN [status |-> "SUCCESS", value |-> 0]
                ELSE ConsoleConvertStringToUint64(raw[1], FALSE, FALSE)
    IN  /\ pc = "exit"
        /\ IF code.status # "SUCCESS"
           THEN Return(Invalid) /\ UNCHANGED mExitRequested
           ELSE Return([what |-> "exit", ErrorCode |-> code.value]) /\ ConsoleCommandRegisterExit

\* -w comes before -s, -s before -c; -p is known and does nothing.  ASSERT is
\* empty in a release build, so -? returns.
ResetWanted(list) ==
    LET has(c) == ConsoleCommandLineGetFlag(list, Flag(c))
        kind(type, c) == [what |-> "reset", type |-> type,
                          data |-> ConsoleCommandLineGetValue(list, Flag(c))]
    IN  CASE has("?") -> [what |-> "nothing"]
          [] ~has("?") /\ ConsoleCommandLineGetRawValue(list, 1) # None -> Invalid
          [] OTHER ->
               IF has("w") THEN IF has("s") \/ has("c") \/ has("p") THEN Invalid ELSE kind("warm", "w")
               ELSE IF has("s") THEN IF has("c") \/ has("p") THEN Invalid ELSE kind("shutdown", "s")
               ELSE kind("cold", "c")

ShellCommandRunReset ==
    /\ pc = "reset"
    /\ UNCHANGED mExitRequested
    /\ IF ResetWanted(package[1]).what = "reset"
       THEN /\ done' = ResetWanted(package[1])
            /\ pc' = "off"
            /\ UNCHANGED << commands, locals, params, heap, excused >>
       ELSE Return(ResetWanted(package[1]))

\* RestoreArgcArgv() and the end of RunInternalCommand() and RunShellCommand().
RestoreArgcArgv ==
    /\ pc = "restore"
    /\ params' = old
    /\ old' = NoParams
    /\ EndOfLine(ArgvBlocks(params) \union {<< "NewCmdLine", 0 >>})
    /\ UNCHANGED << commands, CleanOriginal, FirstParameter, NewCmdLine, package, excused, mExitRequested, done >>

\* The firmware starts again and loads the driver.
Reboot ==
    /\ pc = "off"
    /\ pc' = "load"
    /\ CleanOriginal' = << >> /\ FirstParameter' = << >> /\ NewCmdLine' = << >>
    /\ params' = NoParams /\ old' = NoParams
    /\ package' = None /\ heap' = {} /\ excused' = FALSE
    /\ mExitRequested' = FALSE
    /\ commands' = << >>
    /\ done' = [what |-> "nothing"]

Next ==
    \/ ConsoleCommandsConstructor
    \/ DoConsolePrompt
    \/ \E CmdLine \in Lines, fail \in 0..2 : RunShellCommand(CmdLine, fail)
    \/ RunInternalCommandFails
    \/ \E fail \in 0..MaxFails : UpdateArgcArgv(fail)
    \/ CommandNotFound
    \/ \E command \in {Mem, Exit, Reset}, fail \in 0..MaxFails : ConsoleCommandLineParse(command, fail)
    \/ ShellCommandRunMem
    \/ ShellCommandRunExit
    \/ ShellCommandRunReset
    \/ RestoreArgcArgv
    \/ Reboot

Spec == Init /\ [][Next]_vars

-----------------------------------------------------------------------------
(* Properties.                                                              *)

\* The words of a line in one pass over its characters: blanks outside quotes
\* separate words, quotes are dropped, and ^ takes the next character as it is.
Words(text) ==
    LET put(st, c) == IF st.mode = "gap" THEN [st EXCEPT !.words = Append(@, << c >>), !.mode = "word"]
                      ELSE [st EXCEPT !.words[Len(st.words)] = Append(@, c)]
        begin(st) == IF st.mode = "gap" THEN [st EXCEPT !.words = Append(@, << >>), !.mode = "word"] ELSE st
        step(st, c) ==
            IF st.escaped THEN [put(st, c) EXCEPT !.escaped = FALSE]
            ELSE CASE c = "^" -> [begin(st) EXCEPT !.escaped = TRUE]
                   [] c = "\"" -> [begin(st) EXCEPT !.mode = IF st.mode = "quote" THEN "word" ELSE "quote"]
                   [] c = " " /\ st.mode # "quote" -> [st EXCEPT !.mode = "gap"]
                   [] OTHER -> put(st, c)
    IN  FoldLeft(step, [mode |-> "gap", escaped |-> FALSE, words |-> << >>], text)

DoubleEscape(text) ==
    \E i \in DOMAIN text : i + 2 <= Len(text) /\ SubSeq(text, i, i + 2) = << "^", "^", "#" >>

\* The parameters that a handler sees are the words of the line, each quote is
\* closed, and the command that is looked up is the first of them.  The code
\* looks for the end of a parameter with its quotes and escapes in place, and
\* removes them afterwards, once for the command and once for each of the two
\* loops of ParseCommandLineToArgs().  ^^# is one character shorter in the
\* parameters than in the command, which is taken before ^# is replaced; then
\* neither of the two names a command.
ArgumentsAreWords ==
    pc = "handler" =>
        LET read == Words(NewCmdLine)
        IN  /\ params.Argv = << read.words >>
            /\ params.Argc = Len(read.words)
            /\ read.mode # "quote"
            /\ FirstParameter # read.words[1] =>
                 /\ DoubleEscape(CleanOriginal)
                 /\ \A name \in {Mem, Exit, Reset} :
                      ~SameNoCase(FirstParameter, name) /\ ~SameNoCase(read.words[1], name)

\* What a handler reads is still allocated, and a line leaves nothing behind:
\* the parameters of the protocol are the ones before it, and its memory is
\* freed on every path through RunShellCommand(), RunInternalCommand(), the
\* parser and the handler.  What the parser can leave when it fails is the item
\* of the package that is not in the list yet.
NothingLeftBehind ==
    /\ ArgvBlocks(params) \subseteq heap
    /\ \A list \in ToSet(package) : PackageBlocks(list) \subseteq heap
    /\ pc = "end" =>
         /\ params = NoParams /\ old = NoParams /\ package = None
         /\ \A block \in heap : excused /\ block[1] \in {"item", "name", "value"}

\* Which words are flags, values of flags and positions, each said of the word
\* and its neighbour alone.
KnownFlag(command, word) == OnCheckList(word, CheckList(command)) # {}
TakesValue(command, word) == \E k \in OnCheckList(word, CheckList(command)) : k.Type = "TypeValue"
FlagValues(command, argv) ==
    {i \in DOMAIN argv : /\ i > 1 /\ ~KnownFlag(command, argv[i])
                         /\ TakesValue(command, argv[i - 1])}
Positions(command, argv) ==
    SelectSeq([i \in DOMAIN argv |-> i],
              LAMBDA i : ~KnownFlag(command, argv[i]) /\ i \notin FlagValues(command, argv))

\* An escaped minus is a minus that starts no flag.
Plain(word) == IF Len(word) > 1 /\ word[1] = "^" /\ word[2] = "-" THEN Tail(word) ELSE word

\* The package that a handler asks for flags, values and positions answers as
\* the command line does: a flag has the word behind its last occurrence as its
\* value, or none if that is a flag, and every other word is a position, in
\* order.  The parser knows that a value is missing only when it meets the next
\* flag or the end.
PackageAnswersTheLine ==
    pc \in {"mem", "exit", "reset"} =>
        LET command == CHOOSE c \in {Mem, Exit, Reset} : SameNoCase(c, FirstParameter)
            argv == params.Argv[1]
            list == package[1]
            at == Positions(command, argv)
            given(name) == {i \in DOMAIN argv : SameNoCase(argv[i], name)}
            last(name) == CHOOSE i \in given(name) : \A j \in given(name) : j <= i
            value(i) == IF i + 1 \in FlagValues(command, argv) THEN << argv[i + 1] >> ELSE None
        IN  /\ ConsoleCommandLineGetCount(list) = Len(at)
            /\ \A k \in 1..Len(at) + 1 :
                 ConsoleCommandLineGetRawValue(list, k - 1) =
                     IF k > Len(at) THEN None ELSE << Plain(argv[at[k]]) >>
            /\ \A i \in DOMAIN argv : KnownFlag(command, argv[i]) =>
                 /\ ConsoleCommandLineGetFlag(list, argv[i])
                 /\ ConsoleCommandLineGetValue(list, argv[i]) = value(last(argv[i]))

\* The number that a text of digits denotes.
Denoted(digits, base) ==
    FoldLeft(LAMBDA sum, c : base * sum + InternalConsoleHexCharToUintn(c), 0, digits)

IsDecimalText(s) == \A i \in DOMAIN s : ConsoleIsDecimalDigitCharacter(s[i])
HasMinus(s) == First(s, {"-"})

\* The form of ConsoleParameters.c:1327, [zeros][x][hexadecimal digits], its zeros
\* in front of the x, and its digits.
HasX(s) == First(SkipAll(s, {"0"}), {"x", "X"})
ZerosBeforeX(s) == IF HasX(s) THEN Len(s) - Len(SkipAll(s, {"0"})) ELSE 0
HexDigits(s) == IF HasX(s) THEN Tail(SkipAll(s, {"0"})) ELSE s

\* n is the number that text denotes in this base, and a UINT64.
InRange(n, text, base) ==
    LET digits == IF base = 16 THEN HexDigits(text) ELSE text
    IN  n = Denoted(digits, base) /\ n <= MaxUint64

\* The k-th word of a command that is a position, as its handler gets it.
HasPosition(command, k) == Len(Positions(command, params.Argv[1])) >= k
PositionWord(command, k) == Plain(params.Argv[1][Positions(command, params.Argv[1])[k]])

\* A command acts on the number that its parameter denotes: the address and
\* the size of mem in hexadecimal, the code of exit in decimal or, behind 0x or
\* with a letter in it, in hexadecimal.  A number above 2^64 - 1 is refused and
\* never wraps around; the test and the conversion read the text separately.
\* They disagree on two forms that the test lets pass and the conversion reads
\* as 0: a word with a minus, which only an escape brings this far, and for exit
\* one with several zeros before the x (NumbersAsDocumented).
NumbersAreExact ==
    pc = "restore" =>
        /\ done.what \in {"memory", "mmio"} =>
             \A k \in {2, 3} : HasPosition(Mem, k) =>
                 LET n == IF k = 2 THEN done.Address ELSE done.Size
                     text == PositionWord(Mem, k)
                 IN  IF HasMinus(text) THEN n = 0 ELSE InRange(n, text, 16)
        /\ done.what = "exit" /\ HasPosition(Exit, 2) =>
             LET n == done.ErrorCode
                 text == PositionWord(Exit, 2)
             IN  IF HasMinus(text) \/ ZerosBeforeX(text) > 1 THEN n = 0
                 ELSE InRange(n, text, IF IsDecimalText(text) THEN 10 ELSE 16)

\* ConsoleParameters.c:1327-1333 of a hexadecimal number: its form is
\* [spaces][zeros][x][hexadecimal digits], "it must be prefixed with at least one
\* 0", and "the running zero before [x] ... will be ignored".  The test at
\* 1529-1599 accepts that form; exit gives it to the decimal conversion unless
\* the x is the second character (1657), which stops at the x.
NumbersAsDocumented ==
    (/\ pc = "restore" /\ done.what = "exit" /\ HasPosition(Exit, 2)
     /\ ZerosBeforeX(PositionWord(Exit, 2)) > 0)
    => InRange(done.ErrorCode, PositionWord(Exit, 2), 16)

=============================================================================
