# UefiToolkitPkg: a verification project

UefiToolkitPkg is a set of UEFI programs: an Android Verified Boot loader with A/B slots, a flash
update library, a RAM log, a console driver and small tools. This directory holds TLA+ models of
its parts, the TLC configurations that check them on small instances, and proofs that TLAPS checks
for every value of the constants. Paths below are relative to the repository's `src/`.

## 1. The system

| Part | State it keeps | Operations | What makes it hard | What makes it correct |
|---|---|---|---|---|
| A/B boot flow (`UefiAvb/main.c`, `libavb_ab/avb_ab_flow.c`) | the A/B record in `misc`, stored rollback indexes, one flow's copies of the record and the slots' data | `avb_ab_flow`, `avb_ab_mark_slot_*`, `load_metadata`, `save_metadata_if_changed` | power cuts and I/O errors between any two writes; two slots verified before one is chosen | tries are charged durably before use, a locked device starts only verified images and keeps a slot to fall back to |
| Slot verification (`libavb/avb_slot_verify.c`) | the growing `AvbSlotVerifyData`, a recursion over chained vbmeta structs | `avb_slot_verify`, `load_and_verify_vbmeta`, the hash descriptors | allowed errors continue, fatal ones unwind; many allocations, each freed on some paths | the result is OK exactly without errors, data is returned only when allowed, no memory is lost |
| Partition I/O (`uefi_avb_ops.c`) | the disk | `read_from_partition`, `write_to_partition`, `get_size_of_partition` | signed offsets in unsigned 64-bit arithmetic, partial transfers | reads and writes stay inside the partition and agree with each other |
| Flash update (`PlatformFlashAccessLib`) | the flash, the processor's cache of it, the task priority | `PerformFlashWriteWithProgress` | power cuts and errors between erase and write, stale cache lines, retries | success means programmed; at most one block is lost |
| RAM debug log (`RamDebugLib`) | header and messages in RAM that survives a reset | `RamDebugPrint` with initialisation and clean-up | resets at every byte, a full area | the newest messages are kept whole |
| Console line editor (`UefiConsole.c`, `UefiConsoleInRead`) | the line's buffer, the cursor, the history list, the screen | one for each key | wrapping lines, a scrolling screen, lines recalled over longer ones | the buffer is the line; screen and cursor follow it |
| Console command line (`UefiConsole.c`, `ConsoleParameters.c`, `ConsoleCommand.c`) | the command list, Argc and Argv of the shell protocol, the package of a command's parameters | `RunShellCommand`, `RunInternalCommand`, `ParseCommandLineToArgs`, `InternalCommandLineParse`, the commands | one line read several times by different functions, an allocation failure in any of them | the parameters are the words of the line, nothing is left behind, numbers are exact |
| Console session (`UefiConsole.c`) | four registered keys, the hold-off timer, the exit flag | entry point, key notification, prompt loop | a notification that runs for minutes and is entered again, a start that fails half way | one console at a time; the keys keep working |
| Print screen logger (`PrintScreenLogger.c`) | two registered keys, the hold-off timer, the captures on the stick | start, unload, key notification, search for a volume and a name | as the console; any file error in the search | a capture never replaces another; the keys keep working |
| TCP transport (`TcpTransport.c`) | tokens and events, the data buffer, the file | configure, accept, receive, save | fragments of any size, a loop inside a notification, a peer that closes or resets at any time | the file is what the peer sent; a closed connection ends |
| Partition editor (`PartEdit.c`) | the disk and its GPT, the partition list, saved files | flash, erase, read, save, write, backup and erase of the GPT | writes that fail in the middle, power loss between two writes, handles older than the table | a flash that passes leaves the image; commands write where they are told to |
| Boot image loader, command line, crypto, vbmeta parsers | none between calls | pure computation | sizes from disk | not modelled; the models take their outcomes as inputs |
| Debug shell library, Intel HEX converter, register and information tools, host scripts | none, or a line buffer | commands | — | not modelled |

How the parts interact: `UefiMain` calls `avb_ab_flow`, which calls `avb_slot_verify` for each
bootable slot; both reach the disk only through the `AvbOps` functions of `uefi_avb_ops.c`.
FlashTool calls the flash update library. RamDebugLib is linked into other modules and called from
anywhere. The console and the screen logger run inside key notifications on one console input, and
one can interrupt the other. The TCP transport's receive loop runs inside the notification of its
accept token. The partition editor meets the disk through handles that the firmware made at boot. Nothing runs in parallel:
concurrency is notifications at a higher task priority level, the firmware's own cache, and resets
and losses of power between any two accesses to something that survives them.

PROJECT.json lists every part with its status, and, under "hazards", what is hard to test, each at
its line and with the properties that cover it.

## 2. Modules

| Module | Models | Extended or used by |
|---|---|---|
| `BootCredit` | abstract: starts of unconfirmed slots cost credits that are charged first | refined by `AvbAB` |
| `AvbAB` | the A/B flow, one storage access per action, and the operating system that marks slots and installs images | `AvbABProofs`, `MCAvbAB` |
| `AvbSlotVerify` | `avb_slot_verify`: the checks, the recursion and the ownership of memory | `AvbSlotVerifyProofs`, `MCAvbSlotVerify` |
| `PartitionIo` | the partition operations with the arithmetic the code uses | `DiskProofs`, `MCPartitionIo` |
| `FlashUpdate` | the flash update, block by block, with the processor's cache | `FlashUpdateProofs`, `MCFlashUpdate` |
| `RecentLog` | abstract: a bounded text of the newest records, each with an end mark | refined by `RamDebugLog` |
| `RamDebugLog` | `RamDebugPrint`, byte by byte | `RamDebugLogProofs`, `MCRamDebugLog` |
| `EditedLine` | abstract: a line of text in overwrite mode, and a history | refined by `LineEditor` |
| `LineEditor` | `UefiConsoleInRead`, key by key, on a screen that scrolls | `LineEditorProofs`, `MCLineEditor` |
| `CommandText` | the text functions under the console: trimming, comments, splitting, numbers | extended by `CommandLine` |
| `CommandLine` | one line from Enter to the next prompt, with the parser and the commands `mem`, `exit` and `reset` | `ConsoleProofs`, `MCCommandLine` |
| `HoldOffTimer` | the timer event that both hot key drivers use | extended by the next two |
| `ConsoleSession` | the console's entry point, its four keys and its sessions | composed by `HotKeys` |
| `PrintScreenLogger` | the print screen driver | composed by `HotKeys` |
| `HotKeys` | both drivers on one console input, each an INSTANCE with its own variables and the running notifications in common | `ConsoleProofs`, `MCHotKeys` |
| `TcpTransport` | the TCP application, its receive notification and the peer | `TcpTransportProofs`, `MCTcpTransport` |
| `GptDisk` | blocks, tables and handles of a disk and a stick, as the firmware makes them | extended by `PartitionEditor` |
| `SparseImage` | sparse images: what a reader of the words meets, and what the format says of them | extended by `PartitionEditor` |
| `PartitionEditor` | every command of PartEdit, one write per step | `DiskProofs`, `MCPartitionEditor` |

Definitions have the names of the functions and variables they translate; the "map" of
PROJECT.json gives the lines. A definition named `X_Something` placed before a definition `X` is a
mutant of it: a plausible bug, with which the property it is paired with must fail.

### AvbAB

`pc` is the place in `avb_ab_flow` and `UefiMain`: `off`, the load, the loop over the slots
(counter `n`), the rollback index writes, the save, `main`, `os` and `fatal`. `misc`, `stored`,
`image` and `unlocked` survive a loss of power; `ab_data`, `ab_data_orig`, `slot_data` and the rest
are locals. Each access to storage succeeds, fails (`LoadFails`, `VerifyFails`, `RollbackFails`,
`SaveFails`) or is cut (`PowerCut`); a failed or interrupted write of the record can leave it
`Corrupt`. `avb_slot_verify` appears by its contract, `VerifyOutcomes`; `AvbSlotVerify` checks that
contract against the code. The operating system's calls of `avb_ab_mark_slot_active`,
`_unbootable` and `_successful` are actions, and `MarkFails` is one that stops half way.
`avb_fatal` and a failed assertion end the boot in `Aborts`: in `main.c` before the flow
(`PowerOnFails`), in `avb_slot_verify` (`VerifyAborts`, section 5) and where `TakeSlot` hands out the data
of a slot that has none; `AssertionsHold` says that the last never happens.
`InstallImage` and `CorruptImage` change what the slots hold.

The constant `StubOps` chooses what stands behind `AvbOps`. FALSE is what `avb_ops.h` asks of an
implementation. TRUE is the port: `uefi_avb_ops.c:647-686` trusts every key, returns rollback index
0, ignores index writes and says that the device is unlocked. The properties of rollback protection
only say something about an implementation that keeps indexes, so the passing runs use FALSE.

### AvbSlotVerify

`stack` holds the activations of `load_and_verify_vbmeta`; `images`, `loaded`, `indexes` and
`cmdline` are what `slot_data` has so far; `heap` counts the live allocations. What partitions hold
is revealed when it is read: each check has every outcome the code distinguishes. The port leaves
`read_persistent_value` NULL, so a descriptor with a persistent digest is invalid metadata, and has
no preloaded partitions. `lost` marks a run in which the descriptor array could not be allocated.
Two of the three `avb_strdup` that name what is loaded are not checked: an image may have the name
`"none"` (NULL) and a partition may not be `named`. A nameless first image ends the verification in
`NamelessTopLevel`, the assertion that every build of `UefiAvb.inf` contains.

### PartitionIo

`Word` stands for 2^64; unsigned results are taken modulo `Word`, and `Signed` is the conversion to
`int64_t`. The two functions that compute a partition's size differently are two definitions. A
device error after a part of a write is an outcome. Its definitions and those of `PartitionEditor` share no
names (`IoInit`, `IoNext`, `IoSpec`), so that `DiskProofs` extends both; so do `HotKeys` (`KeysInit`, `KeysNext`,
`KeysSpec`) and `CommandLine` for `ConsoleProofs`.

### FlashUpdate

`flash` is what the chip holds, `cached` what the processor's cache holds of its mapping. `Evict`
and `Prefetch` are the cache's own steps; the code invalidates a block's lines only after a write
that succeeded. Compare, erase, write and verify of one block are separate steps, each with its
failure, and `PowerCut` may come in any of them. `tainted` says that an earlier update failed since
the last reset: then old lines may be left, and section 5 says what comes of it.

### RamDebugLog

`ram` is the area after the header, byte by byte; moving, filling and copying one byte are steps,
and `Reset` may come before each. The area keeps a promise about its content until a reset tears it:
`torn` is set exactly when a reset comes while the header and the bytes disagree, which the code
does nothing about. A message in progress is absent from the abstract log (`saved`) until its index
is stored. A message as long as the area is admitted, and the clean-up for it leaves the records
(`outside`); what its wrapped indices do then is `GoAstray`, which leaves anything in the area and in
the stored index. The byte behind a message in its caller's memory is taken to be the 0 that the
comment at 243 calls it (`StoredByte`): no code in `src/` prints. A call with logging off in CMOS changes nothing and is no action;
`RAM_DEBUG_STOP_LOGGING_WHEN_BUFFER_FULL` is FALSE in the code.

### LineEditor

One action is one key with all it causes: the change of the string, the output, the new row and
column. `CurrentString`, `StringLen`, `StringCurPos`, `Column`, `Row` and `LinePos` are the code's;
`top` and `shown` are the true screen: the row of the prompt, and what the cells after it show. A
character in the last cell of the last row scrolls the screen at once, as the code assumes in the
comment at 439. The output call passes one argument fewer than its format names (413): the cells of
deleted characters show blanks or something else (`Blank`, `Junk`). What an arbitrary address could
do beyond that, a fault or control characters, is left out. DELETE behind the last character prints
one cell too many; in the last cell of the screen that scrolls it while `Row` stays. `misplaced`
records that, and the properties of the screen are stated until then.

### CommandText and CommandLine

`CommandText` has pure operators: a string is a sequence of characters, a pointer into it an index.
Each loop of the code over a string is the set of places it passes or a fold. `CommandLine` runs one
line: `RunShellCommand` cleans it, `GetFirstCommand` and `UpdateArgcArgv` split it, each on its own
copy, the handler parses `Argv` into a package of items, and everything is freed on the way back.
`heap` holds the blocks that are allocated, by what they are for; each action says at which of its
allocations it fails. `excused` marks the leaks that the parser has: an item waiting for a value
when memory runs out, or when an unknown flag follows. The commands are modelled to the point where
they touch the machine: the address and the size of `mem`, the result of `exit`, the kind of `reset`.

### HoldOffTimer, ConsoleSession, PrintScreenLogger, HotKeys

A key press arrives between any two calls of an entry point and, when the console waits for input,
inside a session. `calls` is the stack of notifications that run; a session ends when its prompt
loop sees the exit flag. An event pointer tells NULL, a closed event, and a clear, armed or
signalled one apart, since `CheckEvent` on no event returns an error that the callers take for
permission. `wild` says that code of a removed image ran or a stale pointer was followed; nothing is
said of what comes after. The search for a volume sees handles of four kinds, in any order and
number up to two; the search for a free name meets any file error.

UefiConsole.inf names no unload function: `UefiConsoleUnload`, `StopMonitor` and the destructor of
the commands never run, and are no actions. A driver that failed to start is not loaded again.

### TcpTransport

The i-th byte of the peer's stream is the number i, so `DataBuffer` shows order and loss. A receive
token is completed by `CommonNotify` with any number of the bytes in flight, with a FIN or with a
reset, and `Receive()` may fail at any time: the loop then ends with a part of the stream, which is saved
as any other. The steps of the notification are its loop: receive, poll, append (with a larger buffer when
needed), save. A buffer that could not grow was freed; `Buffer.memory` says so. `file` keeps what an
undeletable older file has behind the new bytes.

### GptDisk, SparseImage, PartitionEditor

The unit is the block. A block is zero, a protective MBR, a header, entries or data; the firmware
accepts a header with the entries it was made for, repairs one copy of a table from the other at
boot, and makes a handle of each partition (`TableOf`, `Repaired`, `HandleDatabases`; all external).
Each command looks for the disk, reads names from the entries on the disk and extents from the handles; when
the entries cannot be read the list is empty, and every name `NotFound`. A file that is saved keeps what an
undeletable older one has behind the new blocks; a `write` longer than its file takes any blocks.
`run` holds its locals; every `WriteDisk` is a step that can stop after any part of its blocks, and
`Boot` may come between two steps. An image is a sequence of words; a reader that takes a word for
something else is out of step from there on (`aligned`), and what it reads may be anything. `before`,
`table` and `erased` are history. Screens (`-d`, dump, read) are left out, their statuses are not.

## 3. Runs

| Run | Expected | What it shows |
|---|---|---|
| `avb_ab` | pass | The A/B flow with every failure and power cut keeps the safety properties and refines `BootCredit`; when failures stop, an unconfirmed slot runs out of tries, a confirmed one is started again, and a device that cannot boot says so. |
| `avb_ab_unloaded` | violation | With a record that cannot be loaded the flow compares, and may save, memory it never assigned. |
| `slot_verify` | pass | Result, returned data and memory of `avb_slot_verify` agree over every outcome of its checks and allocations; the first image is the main struct, with or without a name. |
| `partition_io` | pass | Reads return exactly the bytes asked for; writes that start before the last block stay inside the partition; a read at the same offset from the start returns what was written, and for offsets from the end and in the last block the property says where a read finds it, and how much. |
| `partition_write` | violation | Against `avb_ops.h`, writes at offsets from the end go one block too far to the front, and one in the last block is not bounded. |
| `flash_update` | pass | Success means programmed, at most one block is lost, and what is called corrupted is. |
| `ram_debug` | pass | The area refines a log of the newest messages, with resets at every step, and the clean-up for a message that fits stays among the records. |
| `line_editor` | pass | The buffer refines a line of text, and screen and cursor follow it. |
| `command_line` | pass | The parameters a handler reads are the words of the line, the package answers for them, a number that is acted on is the one that was typed, with two stated exceptions, and every path frees what it took. |
| `hot_keys` | pass | The hold-off keeps consoles from nesting once it exists, every key comes back after a session or a capture, and captures are kept. |
| `tcp_transport` | pass | A completed save holds the bytes that were taken, the whole stream if the peer's close ended the loop; a connection that the peer ends is brought to an end. |
| `partition_editor` | pass | A flash that passes leaves what the image says, no command writes elsewhere, and an erased table stays erased. |

Every property of a passing run has a mutant in PROJECT.json that breaks it.

Bounds, and why they suffice:

- `avb_ab`: priorities to 2 (inactive, lower and active are told apart; lowering the other slot
  needs 2), two tries, so that a slot loses them in several boots, one location, and indexes 0 and 1,
  so that one slot can be behind the other, and a slot that is not verified, which returns 0, can
  follow one that stored 1.
- `slot_verify`: arrays of two images and two partitions, so both overflow; two descriptors per
  struct, one requested partition, two locations.
- `partition_io`: blocks of 2 bytes, 12 bytes of disk with two partitions, `Word` = 64, offsets
  around zero and both ends of each partition; reads and writes of up to 3 bytes, longer than a block,
  so that a range can cross an end that it starts before; one write, and reads after it. Each byte of
  the disk differs from the others at the start, so one write shows where its bytes went.
- `flash_update`: three blocks, so that a block has one before and one after it; two contents.
  SYMMETRY permutes the contents, which nothing orders.
- `ram_debug`: an area of 5 bytes holds up to five messages, one of 4 characters pushes out
  everything, and one of 5 is the longest that the code admits; two characters tell messages apart.
- `line_editor`: two columns and four rows, a prompt of one column and a buffer of four: lines
  cover three rows, the prompt starts in any row, and a history of two is filled and overwritten.
  SYMMETRY permutes the two characters.

- `command_line`: every line of up to four of the characters `a`, blank, `"`, `^` and `#`, where any
  two of them meet in any order; `mem`, `exit` and `reset` with up to three parameters from words that
  are numbers (also with several zeros before the x, or an escaped minus), flags, escaped flags,
  quoted or none of these; the largest number is 255, so that
  words of three digits overflow. Any allocation of a function may fail; the ninth and later fail as
  earlier ones do.
- `hot_keys`: up to three notifications inside each other (two are enough to nest), two names, so
  that they run out; one start of each driver.
- `tcp_transport`: fragments of up to three bytes, a buffer that grows by four and nine bytes, so that
  it grows twice and fragments fall on both sides of its end; an older file of four bytes, which is
  shorter or longer than the new one.
- `partition_editor`: eleven blocks, two of them for the entries of each copy of the table, so that a
  table can be replaced in part, with partitions of three and one, a fill buffer of one block, so
  that fills take several pieces, raw sizes that wrap at three blocks, and a limit of one block for
  files; eight images: plain, too large, of another version, with gaps, fills, a checksum chunk, and
  chunks that run past the end. Two commands and a boot: what a property relates is a command and
  the state an earlier command or a boot left.

CHECK_DEADLOCK is off in `hot_keys`, `tcp_transport` and `partition_editor`, whose drivers are loaded
once, whose program ends, and whose commands are counted. The others never stop for good.

Fairness (`FairSpec` of `AvbAB`): the firmware's own steps are weakly fair, since nothing but a
failure stops it, and so is `Restart`, since a stopped machine is turned on again. Failures, power
cuts, the operating system and the updater are not fair. The liveness properties assume that these
stop at some time (`Quiet`); without that, power cuts alone can keep a device from booting.

`HotKeys`: timers run (weakly fair), a capture that writes ends (weakly), and the entry points go on;
the latter strongly, since each press interrupts them and they continue when its notification has
returned. Nothing makes a user press a key, leave the console or unload a driver, so `KeysComeBack`
assumes that time and again no notification runs. `TcpTransport`: the notification goes on, a token
that can be completed is, and the wait sees the key when no notification runs (all weakly). The peer
owes nothing: `ClosedIsSaved` is about connections that it closed or reset.

## 4. Proofs

| Theorems | Establish, for every value of the constants |
|---|---|
| `AvbABProofs`: `TypeCorrect`, `TriesAreAccounted`, `AttemptsAreBounded`, `DataIsReturnedIffOk`, `AssertionsAlwaysHold` | the types; no slot is started more often than it has tries; data goes with an OK result; the selected slot has data |
| `StartedImageIsVerified`, `FallbackSlotsAreUsable`, `FailedFlowRetires` | a locked device starts only intact, current images and keeps usable slots; a flow that finds none only retires slots |
| `LockedIndexesKept`, `SuccessIsKept` | steps: stored indexes never fall on a locked device; a successful mark is lost only to a failed verification |
| `StartsCostTries` | the flow implements `BootCredit` |
| `AvbSlotVerifyProofs`: `TypeCorrect`, `OkMeansNoErrors`, `DataIsForAccepted`, `LockedDataIsVerified`, `TopLevelIsFirst`, `HeapIsBalanced` | result, data and memory of `avb_slot_verify`, for any array sizes and numbers of descriptors |
| `DiskProofs`: `ReadsAreExactAlways`, `WrittenIsFoundAlways`, `WritesKeepToPartition` | `PartitionIo`, for any block size, disk, partitions and a word that holds the disk |
| `ErasedStaysErasedAlways`, `CommandsStayInside` | `PartitionEditor`, for any disk with room for two copies of a table, any tables whose partitions lie on it, any image of data, and any number of commands, boots and failing writes |
| `FlashUpdateProofs`: `TypeCorrect`, `UpdatesAreComplete`, `DamageIsBounded`, `VerificationReadsFlash`, `ProgressIsMonotone` | for any number of blocks, set of contents and range of percentages |
| `RamDebugLogProofs`: `TypeCorrect`, `CleanUpIsBounded`, `AreaIsRecentLog` | for an area of any size and any messages; the area implements `RecentLog` |
| `LineEditorProofs`: `LineEndsAlways`, `CursorIsTracked`, `LineIsShown`, `EditorImplementsLine` | for any screen, prompt, buffer and history; the keys implement `EditedLine` |
| `ConsoleProofs`: `OneConsoleAlways`, `CapturesAreKept` | `HotKeys`, for any depth of nested notifications and number of names |
| `NothingIsLeftBehind` | `CommandLine`, for every set of lines, any registered commands and whichever allocation fails |
| `TcpTransportProofs`: `SavedIsSentAlways` | for any stream, fragment and buffer sizes and older file |

The assumptions are the named ASSUMEs of the modules, which TLC evaluates in the runs. Hardly any
property is inductive alone; what each needs:

- `AvbAB`: `IInv` is `TypeOK`, `FlowInv` (which locals are set at which `pc`, and that data goes with
  an OK result) and `TriesInv` (the kernel starts so far, the tries on disk and the one that is charged
  but unused stay within `MaxTries`, in the record on disk and in the flow's copies). A charge is in
  the copy before it is on disk, so the accounting needs the flow's place. `SafeInv` adds `VerifyInv`
  (what the data of a slot says of its image and its indexes while the flow holds it, and that an allowed
  error means an unlocked device) and `RecordInv`
  (how the copies differ from the record on disk). For `StartsCostTries` every action is mapped to a
  step of `BootCredit` or to none.
- `AvbSlotVerify`: `StackInv` bounds the recursion (at most three activations: `vbmeta`, `boot` in its
  place, a chained struct), and `ErrorInv` follows the errors on the way back: an error that a callee
  saw is in its result, and a caller keeps it. `LocalInv` and `CheckInv` say what the absence of an
  error means for the struct in hand and for those adopted, `OrderInv` which struct is the first:
  the main one, named or not, so that `TopLevelIsFirst` does not claim a name
  that may be missing.
  `HeapInv` accounts for each live block: it is in `slot_data` or a local of an activation; one path
  of the code loses blocks, and the property says so.
- `PartitionIo`: where `uint64_t` arithmetic wraps is the whole difficulty. The lemmas show which of
  the code's differences and sums wrap under the conditions it tests, and that `%` and the truncation
  then give the first block and the length that the reference definition wants. `WriteIsFound` does so
  for every write that is accepted, also where the two sizes of the partition make it land elsewhere
  than `avb_ops.h` says (`partition_write`): the theorem says where, and does not call it right.
- `PartitionEditor`: a command finds its blocks by the name of the partition in the table on the disk, or by
  a handle that the firmware made at the last boot, and the two differ after a new table. `DiskInv` says what
  each medium holds, that the handles are the disk's, the stick's and the partitions of the table of the last
  boot, that the extent of the command that runs is that of its name whenever the entries on the disk are
  those of that table, that the second write of `gpt erase` comes only when no primary header is left, and
  that after it both header blocks hold none. `WordsRead` says what a reader of a sparse
  image can meet at a place, and `PieceStep` what one piece written from there changes.
- `FlashUpdate`: the safety properties say what the flash holds; the code acts on what it reads
  through the cache. `FlashInv` is `TypeOK`, `CacheInv` (while no earlier update failed, every block but
  the one that is erased or written reads as the flash is, and the block that is compared after its
  write does so in any case), `StatusInv` (a call in progress has no result, and the block it comes
  to still holds what it held before) and the safety properties themselves. `ProgressInv` bounds what
  was reported by the share of the blocks done; shares grow with the blocks although each is rounded.
- `RamDebugLog`: `RecordsInv` is the type invariant, `AreaInv` (in an untorn area the byte below the
  stored index is an end flag, so that a walk ends there; what the locals of the clean-up know),
  `CopyInv` (the byte copied last is in its place) and the property. For the refinement `TextInv` adds
  which byte of the old log each place of the area holds in each step: the walk stops at the first
  cut that leaves room, and the move goes forward, so it never reads a byte that it has overwritten.
  `CleanUpIsBounded` is about the messages that fit with their 0 byte; `AreaIsRecentLog` about all that
  the code admits: for one as long as the area `StepInv` shows that the walk never comes to an end that
  moves or stores a byte, and the log is lost where it leaves the records.
- `LineEditor`: the tracked row and column lead back to the row where the line begins. `TrackInv` says
  that this row and the end of the line are on the screen, `ScreenInv` that it is the true row of the
  prompt unless DELETE scrolled the screen. The bound of the line's length leaves a row free, so scrolling
  never takes the prompt off the top. `LineInv` (zeros from the end of the line on) makes the buffer and
  the text of `EditedLine` the same; `HistoryInv` bounds what is recalled.
- `HotKeys`: a capture never calls back, so it is on top of the notifications (`NestInv`) and owns
  `Index` (`CaptureInv`); the timer stays clear while a session runs (`SessionInv`). A capture's name
  is one that the search found absent.
- `CommandLine`: `LineInv` says for each `pc` which blocks are allocated. In the parser's loop (`LoopInv`) they are
  those of the package and of the flag that waits for its value; a failure frees the package, so what it
  leaves are parts of one item (`Remains`). That there is a finite `Argv` to loop over needs lemmas about the
  text: a search for a character ends in the text, a parameter that begins with something other than a space is
  not empty, so the walker advances with every parameter, and ^# becoming # empties no line. The recursive
  functions of `CommandText` run to the end of the text; `FromTheEndDefines` shows once that such a function
  exists, and `InductionFromTheEnd` what it keeps.
- `TcpTransport`: what came is the saved file, the data buffer and the fragment in hand, in this
  order (`StreamInv`); a loop that a token ended, not a failed `Receive()`, has taken all that the peer
  sent (`EndInv`).

`CleanUpIsBounded`, `LockedDataIsVerified` and `LineIsShown` hold under the conditions that their
properties state; no theorem has a hypothesis of its own. The type theorems,
`AttemptsAreBounded` and `ProgressIsMonotone` have no run: they follow from the invariants that the
runs check, are steps to them, or are proved only.

Only model-checked: liveness (`FallsBack`, `BootsOrReports`, `KeysComeBack`, `ClosedIsSaved`), which is
outside what the prover does; `FlashedIsImage` of `PartitionEditor`, and `ArgumentsAreWords`,
`PackageAnswersTheLine` and `NumbersAreExact` of `CommandLine`: they compare two readings of an image or a line,
each a fold over it, and need an induction over the data for each.

## 5. Where the code departs from its text

The two runs with "violation" each have an entry under "findings". Seven more statements of comments,
documents and assertions are formulas of the modules that the code breaks. None is among the properties
of a run; TLC finds the counterexample when the formula is the only property of the module's .cfg:

| Formula | The text | The code |
|---|---|---|
| `AvbSlotVerify!TopLevelIsNamed` | `avb_slot_verify.c:1178` asserts that a first image not named `vbmeta` is named `boot`. | The `avb_strdup` of the name (765) is not checked: without memory for it the comparison reads through NULL and the assertion stops, instead of ERROR_OOM. |
| `AvbSlotVerify!LoadedAreNamed` | `avb_slot_verify.h:115`: "The \|partition_name\| field contains the name of the partition". | The `avb_strdup` at 363 is not checked: a partition is returned with OK and a NULL name, which `uefi_avb_boot.c:155` compares. |
| `FlashUpdate!SkippedIsProgrammed` | `PlatformFlashAccessLib.c:440`: "Skipping block at 0x%lx (already programmed)". | Cache lines are invalidated only after a write that succeeded (345-350): after a device error, a retry with the old image compares equal with old lines, skips a block that is erased or damaged, and returns success. |
| `RamDebugLog!CleanUpRemovesRecords` | `RamDebugLib.c:156`: "remove oldest record, do the relocation". | The check at 234 leaves out the 0 byte of 243-246: for a message as long as the area all records do not make the room, and the walk goes on behind the area. |
| `CommandLine!NumbersAsDocumented` | `ConsoleParameters.c:1327-1334`: "[spaces][zeros][x][hexadecimal digits]", the zeros "will be ignored". | `exit 00x1f` passes the test and leaves with code 0: the conversion (1657) wants the x in second place. |
| `TcpTransport!KeyQuits` | `TcpTransport.c:444`: "Press any key to quit." | The receive loop polls inside the notification (125-127): while a connected peer is silent no key ends the program. `mFinishedEvent` (446) is never signalled. |
| `PartitionEditor!NameIsExtent` | `Readme.md:6` of PartEdit: "Read/write NVMe from specific partition name." | Names come from the table on the disk, extents from the handles of the last boot, joined by number (`PartEdit.c:495`): after `write` changed the table, `flash` and `erase` of a name go to another extent. |

Seen while modelling, without a formula:

- `avb_descriptor_get_all` that fails to allocate leaves the count of descriptors uninitialised; with
  0 the verification ends OK with nothing loaded (`avb_slot_verify.c:813`). `uefi_avb_boot_kernel`
  refuses such data.
- A verified slot is reported with `OK_WITH_VERIFICATION_ERROR` because of an allowed error in the
  other slot (`avb_ab_flow.c:275`, against `avb_ab_flow.h:201`).
- Rollback indexes of a struct with VERIFICATION_DISABLED are not returned (`avb_slot_verify.c:778`).
- A rollback index of 0 is never stored, against `avb_ab_flow.h:171`.
- `avb_ab_mark_slot_successful` clears the tries, which its comment does not say.
- `read_from_partition` with an offset behind the end returns OK (the unsigned difference wraps);
  an I/O error in the GPT becomes NO_SUCH_PARTITION.
- The comment at `UefiConsole.c:402` blanks the tail of a line that became shorter; the output at 413
  passes one argument fewer than its format names.
- `PerformFlashWriteWithProgress` drops the bytes after the last whole block.
- A reset in the middle of `RamDebugCleanUp` leaves the stored index with moved bytes.
- DELETE behind the last character in the last cell of the screen scrolls it and leaves the tracked
  row one off (`UefiConsole.c:296`).
- Console commands: `exit ^^-5` and `mem ^^-5` take the number for 0, which `NumbersAreExact` states as
  it is; `ParseCommandLineToArgs` returns
  INVALID_PARAMETER, which its comment does not list; the documented EFI_NOT_FOUND of the parameter
  parser and its VOLUME_CORRUPTED for a doubled flag are never returned; an item that waits for its
  value is lost when an unknown flag follows; `reset` prints "%s" without an argument (`Reset.c:54`).
- Console session: the result of the commands' constructor is ignored, so there may be no `exit`, and
  the session cannot be left; a start that fails late leaves keys registered for an image that is
  removed (`UefiConsole.c:956`); a press before `CreateEvent` starts a session without hold-off.
- Print screen logger: names start at 0001, not at 0000 as its Readme says; a start that failed keeps
  handles it has unregistered and returns success (569); `FindUsbDrive` returns success with an
  unset volume when no handle has a device path.
- TCP transport: when the buffer cannot grow, freed memory is saved; without a fragment buffer an
  empty file is; the status of the second `Configure` is not looked at; a key press leaves the accept
  token and its event behind. A stream whose receipt `Receive()` breaks off is reported as completed
  (`SavedIsSent` says what the file holds then).
- Partition editor: an image with a CRC32 or unknown chunk is flashed on from the middle of that
  chunk's data, and may pass; a raw chunk's size is multiplied in 32 bits for the write and in 64
  for the advance (`PartEdit.c:865`); neither chunk sizes nor `write`'s size are held against the
  file's length, `ChunkHeaderSize` is not used; a sparse image of gaps alone passes for any partition
  name; a handle without disk I/O before the disk ends every command; `ReadPartitionEntries` frees the address of the
  caller's variable on a read error (358) and trusts that entries begin at LBA 2.

## 6. Not modelled

- Bytes of vbmeta structs and their descriptors, hashes and signatures, kernel command lines and the
  kernel's start: pure computation whose outcomes the models take as inputs.
- Console: the help texts and the output of the commands; the dead unload path. Print screen logger:
  the conversion of the screen to a bitmap. Both leave no state behind.
- Partition editor: what is printed; more than 255 handles (the index is a UINT8); flash caches of the
  disk between a write and `FlushBlocks`: a write that returned is durable in the model.
- The debug shell library, the Intel HEX converter, register, flash and RAM disk tools, and the raw data
  initialisation: small sequential programs, next in the plan.
- Information tools and host scripts read and print; they keep no state.

## 7. Plan

Done: the modules of section 2 and the proofs of section 4.

1. Proofs of the properties of `CommandLine` and `PartitionEditor` that are about a line's or an image's
   content (section 4).
2. `BootImage`: the page arithmetic of the loader; `HexToBin` and `DebugShellLib` as small modules.
