# A TLA+ model of gef-extras

gef-extras is a collection of plug-ins for GEF, itself a plug-in of GDB: command
scripts (`scripts/`), target architectures (`archs/`), file formats (`os/`) and
structure layouts (`structs/`). Each plug-in is Python loaded into GDB.

GDB runs one command at a time, so there are no threads in this code. What makes
it hard is everything that happens *between* two commands, and between two calls
to another process: event hooks fire on every stop, the inferior may stop
anywhere or exit, remote tools (IDA, a probe, OpenOCD) come and go, the user
reruns the program at another address or on another architecture, and module
globals, class attributes and `lru_cache`s outlive all of it.

## Inventory

| Component | State it keeps | Operations | What makes it correct |
|---|---|---|---|
| IDA session, `scripts/ida_interact.py` | RPyC connection, event hooks, saved colours, last cursor | connect on demand, `highlight add/del`, `synchronize`, `jump`, comments | hooks registered once; a line's colour can be restored; the cursor leaves no trail |
| Remote sessions, `archs/arm-blackmagicprobe.py`, `archs/arm-openocd.py` | new_objfile hooks, `remote_initializing`, target power | connect, scan, attach, close | one handler at a time and GEF's own after a session; power is on only for a named reason |
| `assemble`, `set-permission`, `scripts/assemble.py` | cached Keystone engine, bytes under the stub, restore breakpoint | assemble, overwrite, inject | code is assembled for the architecture asked for; the program's code and registers come back, wherever the stub is interrupted |
| WinDbg aliases, `scripts/windbg.py` | load breakpoints, `context.enable` | `sxe ld/ud`, `tc`, `pc`, `tt`, `pt`, `ptc`, `g`, `r` | a breakpoint can be removed; settings come back |
| `ftrace`, `scripts/ftrace.py` | breakpoints, trace file | start, enter, return, exit | every return of a traced call writes its own arguments; what the command set is deleted at exit |
| Disassembly, `scripts/capstone.py` | `context`'s instruction iterator | disassemble, switch | the window is the one asked for; switching back restores GDB's |
| `got-audit`, `scripts/got_audit.py` | symbol and path caches | load, audit | an entry that is wrong is reported, and of the others as few as the caches allow |
| Argument panes, `scripts/libc_function_args`, `scripts/syscall_args` | tables per architecture, cached path | load, show | the table of the running architecture is the one shown |
| `vereference`, `scripts/v8-dereference.py` | isolate root | dereference, repeat | the root is the running program's; the page and chain are memory's |
| Heap view, `scripts/visualize_heap.py` | none across calls | group, colour | no word is left out in silence |
| `bytearray`, `bincompare`, `scripts/byte*.py`, `bincompare.py` | files | generate, compare | bad bytes are excluded, the comparison finds every difference |
| `unicorn-emulate`, `scripts/emulate` | none | snapshot, run | the emulated run is the one asked for |
| m68k branches, `archs/m68k.py` | none | conditions | a branch is taken iff the CPU takes it |
| PE/Mach-O, `os/` | parsed header | parse, override | the file format of the inferior is recognised |

The components call each other in three places only: `assemble` and
`set-permission` share one Keystone engine, the trace commands of `windbg.py`
switch GEF's context display off and on, and the disassembler and the argument
panes are called by that display. Everything else interacts through GDB: the
program, its memory, its breakpoints and its events.

## The modules

A module has one component, its state as variables, and one action per command,
hook or external event; `PROJECT.json` maps every definition to the lines it
models. `MCX` gives constants that a cfg cannot write down; `XProofs` holds the
theorems about `X`. `TracingProofs` holds those of Windbg and Ftrace, `ViewProofs`
those of HeapView, V8Dereference and Disassembly: the specification, its parts and
the type invariant of these five have the component in their names (`FtraceInit`,
`HeapSpec`, `V8TypeOK`), so that one module can extend several of them.

### IdaSession (`ida_interact.py`)

`sock`, `stopHooks`, `contHooks` are the RPyC connection and how often
`ida_rpyc_resync` is connected to GDB's two events; `oldColors` is
`sess.old_colors`, `lastHl` the cursor line, `color` what IDA shows. A command is
several steps, because each RPC is one: `cmd` is the RPC that is next. `AddSave`
then `AddPaint` are `highlight add`; `DelPop` then `DelRestore` are
`highlight del`. `Stop` runs the hook: delete the old cursor line, jump, add the
new one, as nested commands. IDA quits, restarts and drops the link between any
two steps (`IdaQuit`, `IdaStart`, `LinkDrop`), and `Start` runs the program at
another base. The constant `Pie` chooses how an address becomes a line (`EaOf`).
`PlainCommand` is every other command: it connects, makes one RPC that writes
IDA's own state (its cursor, a comment), and reads nothing back.

### RemoteSession (`arm-blackmagicprobe.py`, `arm-openocd.py`)

A connection is a walk through `stage`, the GDB command that is next: target,
monitor power, scan, disconnect, attach, setup. Any of them may fail; `GiveUp`
is the command that returns or raises, which leaves its handler connected.
`mine`, `defaults`, `orphans` count the new_objfile handlers: this session's,
GEF's, and those of connections that were given up. `power` is that of the target
and `leftBy` why it may be on with no session to own it; `PowerAfterClose` has the
close that keeps it, cuts it, or cannot reach the probe.

### Mprotect, SetPermission, KeystoneEngine and AssembleSession (`assemble.py`)

`Mprotect` is the abstract promise: the command is given (`CommandA`), the permission
changes, once (`GrantA`), and nothing else in the program does. Its `pcA` is moved only
by the program that runs (`RunA`), not by a stop (`StopA`) nor by the grant, and its
`codeA` only by the user's writes (`PatchA`). `ForfeitA` turns the promise off until the
program is gone.

`SetPermission` is the code: save the code under the stub, set a breakpoint behind it,
write the stub and continue (`SetPermissionCmd`, which may raise when the breakpoint
is set and only the first `n` instructions are written); run the stub (`StubStep`) or the
program's own code (`OwnStep`), enter a signal handler out of the stub and return
(`Signal`, `sig`); stop anywhere (`Interrupt`), and put code and `$pc` back at the
breakpoint (`Restore`). Wherever the program stops, the user may type the command
again or `assemble` over any address (`Overwrite`): a list of instructions is written
as a whole or, if one of them does not assemble, not at all. `Dies` and `Starts`
replace the program; GDB keeps its breakpoints, so one of a dead program (`live` FALSE)
may fire in the next.

Five things make the program `astray`, that is, forfeit the promise: a command typed
over a pending stub, a write into one, a stub that was written in part or assembled
for another processor, a signal handler that runs into the stub or its breakpoint, and a
breakpoint of a dead program. Each is a step of the model, goes on from there
(`AstrayStep`), and is set where the code does nothing against it; until one of them
happens the properties promise everything, and `CodeComesBack` promises some of it
afterwards. `KeepsPromise` is the refinement: until the restore, the abstract `$pc` is where
the command was typed and the abstract code is that without the stub.

`KeystoneEngine` has the module variable `__ks` and the operators on it: the target
asked for is options over the session's over the default (`Asked`), `Valid` looks it
up in `VALID_ARCH_MODES`, and `Engine` is what assembles it.

`AssembleSession` composes the two: `Assemble` and `ChangePermission` are the two
commands over one engine, the latter assembling its stub for the session; the
program runs, switches the processor's mode, ends and starts again while the
engine stays. A stub the wrong engine accepts (`Accepts` but not `Fits`) goes
astray. Its actions are conjunctions with the actions of `SetPermission`, so it
implements that module's specification.

### GotAudit (`got_audit.py`)

`paths` and `symbols` are the class's `_paths_` and `_symbols_`. `Audit` scans the files
with an executable mapping that are in no cache yet and reports; looking up a path
for an entry makes it a key (`Touched`). `AuditFails` is `nm` failing after some of the
files. Files are mapped to be read (`Map`) or run (`Load`) and unmapped (`Unload`), an
entry is bound to any mapping there is (`Bind`: a file, mapped executable or not, or one of
`Ranges`, which are no files), the program restarts with GDB (and the caches)
alive, a file is rebuilt. `early` has the files that were looked up before they were
mapped executable, which are never listed afterwards.

### Windbg (`windbg.py`)

`breakpoints` and `gone` are the list of `sxe` breakpoints and those that were deleted from
GDB (they stay in the list). A trace command is its loop: `TraceStep` is one
iteration and `TraceRaises`, `TraceEnds` its two ends; `context` is GEF's setting
and `offBy` who turned it off. No step of the loop is fair: a `nexti` over a call that
does not return, or a `stepi` that blocks in a system call, is the loop standing still.

### Ftrace (`ftrace.py`)

`entry` and `set` are the entry breakpoints made and those GDB still has, `bkps`
the command's list, `finish` the finish breakpoints, `hooks` the connections of the
exit handler. `calls` and `stack` are the program: calls nest, return, or are
unwound by longjmp. Every finish breakpoint of a call that returns opens the output,
formats its arguments and writes: its record is in `records`, or in `lost` if any of that
raised. `file` is what a file has of them: it is opened with `"w"` for each. `Exit` is the end of the program and the handler, which may
raise at a breakpoint that GDB has deleted.

### HeapView (`visualize_heap.py`)

One chunk at a time (`Chunk`, `ChunkEnd`), one word at a time (`Word`): `Show` or
`Hide`, by the counter `aggregate_nuls`. A chunk's size and a word's nullness are
chosen when they are read, which happens once. The heap's mapping ends anywhere
(`mapped`): a size that leads behind it ends the view at the header (`NoHeader`) or at
the first word that cannot be read (`WordUnmapped`). `line` is the last line printed
and what it says of the one above. `Walk` is the loops, on which the fairness is.

### Disassembly (`capstone.py`)

`Window` is `cs_disassemble` over the bytes of a page (`insn_size` is the length of the
instruction that decodes at an address, 0 if none does). `Disassemble` and
`Repeat` are the command and its repetition by an empty line, `Context` the window
GEF's display gets.

### V8Dereference (`v8-dereference.py`)

`isolate_root` is the script's global; `Root` is `get_isolate_root`, the kept root or
that of the selected thread. `Row` is a line of the page: two compressed pointers
(`Compressed`, `Resolved`), or a chain, which `Chain` follows one turn of
`dereference_from`'s loop at a time (`Follow`). `Invoke` is `do_invoke`: it removes the
tag, numbers the rows by GEF's `repeat_count` and direction, and stops at the first
row that raises. The program runs in other memory, its threads enter isolates, the
user selects threads, and `Exits` is the exit hook. `moved` tells whether the kept root
may be another thread's.

### Emulate (`emulate/__init__.py`)

Several GDBs on one `/tmp`, whose programs may have one file name and so one set of
dumps. A command is `Start`, which empties its script; for every section, in the order of
the map, a `Skip` or a `DumpOpen`, which empties the dump, and a `DumpWrite`; `Write`,
whole or short; then `Run` or `SkipEmulation`. `DumpFails` and `WriteFails` are the calls
that raise. `raw` is the dump files, by name, `script` the scripts, and `Emulated` what a
script has in memory when it runs. A file that is not whole is `Torn`. A snapshot is a GDB
and the number of its stop; what instructions do is left out. `overtaken` has, of the
files of a command, those that another GDB wrote since. `Reuse` runs a named script
outside GDB.

### ArgPanes (`libc_function_args`, `syscall_args`)

`argument_table` and `path` are the two caches. `LibcPane` is the pane with the
load it may need and the generator the load may call (`Generates`,
`GeneratorRaises`); `SyscallArgs` is the command and pane. The program stops
(`Stop`), makes a system call (`MakeCall`) and is replaced (`Load`); files, the
manual, directories and the setting change. `X86` ... `SPARC64` are the registers of
the parameters in each table; every entry of each table was compared with them.

## Runs

Every run explores all states within its bounds. Deadlock is checked everywhere
but in `remote`, where `MaxOrphans` ends a behaviour in which connections keep
failing.

| Run | States | Bounds | Shows |
|---|---|---|---|
| `ida` | 2.49M | 2 lines of the binary, 2 load addresses, 3 colours of which the user types one | the hooks match the session, a line's own colour is accounted for, following `$pc` leaves no trail |
| `remote` | 1110 | 3 connections given up | handlers are exclusive and the default one comes back, power is on for a named reason |
| `assemble` | 584k | 5 code addresses, stub of 3, 2 commands, programs of 2 instructions, 2 patches, 3 targets of which 2 are one processor's modes | code and registers come back to a program that is not astray, stubs are covered whatever happens, memory is written whole or not at all; refines `Mprotect` |
| `assemble_arch` | violated | the same | `ForAskedTarget` is false, see below |
| `got_audit` | 2.01M | 3 files, 2 ranges, 2 symbols, one of which may be duplicated | wrong entries are accused, right ones only for a named reason, duplicates are found |
| `windbg` | 202k | 2 modules, 3 paths, 3 breakpoints, counts -1, 0, 1, 3 | `sxe` holds and stops what it should, traces end where asked, the display comes back |
| `ftrace` | 3.11M | 2 functions, 2 argument registers, 2 breakpoints, 3 calls, 2 handlers, records that raise at 1 return | records are true, each is written once or raised once; what a command that succeeds set stays in the handler's reach |
| `heap_view` | 130k | heap of 12 words, chunks of up to 7, mapped up to anywhere | no data is hidden, gaps are announced, chunks meet, the walk ends, also by raising |
| `disassembly` | 99k | pages of 4 bytes of which 4 addresses span two, instructions of 1 or 2 bytes, 2 repetitions | the window is that of the page, the context shows `$pc`, repetitions tile |
| `emulate` | 652k | 2 GDBs on one program, 4 sections, 1 named script, 2 stops each | a run replays its stop but for what the other GDB overtook, named scripts are complete or cannot be run |
| `arg_panes` | 1.68M | 3 architectures, 2 directories, 3 changes | panes answer for this architecture, the number is the right one |
| `v8` | 8450 | halves below 16, 2 memory images, 2 threads, 2 isolates, pages of 0, 1 and 3 rows, 2 repetitions, recursion 3 | the root is the program's and the thread's, pages and repeats show memory, each row once |

Why these bounds are enough. Each leaves room for the smallest case with every
interaction the property is about, and one more. Two lines and two bases are
needed for one run's address to be another run's line. Three orphans are one
more than the two that could register the default handler twice. A stub of three
has a first, a middle and a last instruction, and five addresses let it start in
two places and overlap a patch; two commands are one of a dead program and
one of a live one, or one inside the other. The engine's third target is another processor's, so
that a stub may fit, be accepted without fitting, and be refused. Counts -1, 0,
1 and 3 are below, at, and above the loop's test. Three calls allow recursion
with another function in between. Seven words allow a run of nulls, data, and
another run in one chunk, and twelve put a second chunk behind it. Two GDBs on
one program are all that one file needs for a conflict. A file that is mapped to be
read, a range that is no file and a second library are the mappings an entry may be
bound to. Chains of `v8` are shorter than the
limit, longer, loop at once and after a step; of the halves of a word one or the
other or none is a pointer. Where a theorem covers a property, the bounds only
matter as a test of the theorem's statement.

In `ftrace`, `emulate` and `got_audit` the functions, the GDBs and the libraries are
symmetric: nothing in the next-state relation or the properties tells them apart. `arg_panes` bounds changes of
files by `MaxChanges`, not the stops of the program.

Each property of a passing run has a mutant: a definition marked `Mutant` beside
the one it replaces, a plausible bug under which TLC finds the property violated.

### Fairness

One specification states fairness, weak and on a loop the code runs by itself, with
no prompt, callback or other process in between. `HeapView`: `WF_heapVars(Walk)`. Once
typed, the view reads and prints until it is done. `WalkEnds` says it does end,
whatever sizes the program left in the chunk headers: each chunk that is not
corrupted advances, and a read behind the mapping raises.

Nothing else is fair, and `WalkEnds` is the only liveness property. The loops of
`windbg.py` execute `stepi` and `nexti`, which the program may never return from: what
is said of them is that no step passes a stop or exceeds the count (`EndsWhereAsked`).
Every other step is a command the user types, a stop of the program, or an act of
another process; nothing in the code schedules any of them. What else could be
said of progress (an emulation ends, the restore breakpoint is reached) depends
on the program that is debugged.

## Where the code does not do what is said

`assemble_arch` finds `ForAskedTarget` violated. docs/commands/assemble.md, line 15:
"By setting the `--arch ARCH` and `--mode MODE` the target platform for the assembly
can be changed." `ks_assemble` (scripts/assemble.py, line 216) opens an engine only
when there is none; the second target is assembled by the first one's.

The modules state more such sentences, without a run of their own. To see one
fail, put it into a copy of the module's cfg in place of the properties there.

| Property | What is said | What happens |
|---|---|---|
| `IdaSession!DeleteRemovesHighlight` | ida_interact.py:200, the highlighting is removed | a line highlighted twice has had its own colour replaced by the highlight's (line 193) |
| `RemoteSession!FailureDeletesHook` | arm-blackmagicprobe.py:171 and 181, arm-openocd.py:158, False cleans up the session and deletes the hook | nobody calls `close()` then, and GEF's default handler is not registered again |
| `RemoteSession!ScanCutsPower` | docs/commands/gef-bmp-remote.md:33, the power is kept between scan and attach with `--keep-power` | it is kept without as well: a scan turns nothing off |
| `RemoteSession!KeepPowerKeeps` | docs/commands/gef-bmp-remote.md:33, `--keep-power` keeps the power on | it is parsed but not passed on (arm-blackmagicprobe.py:74) |
| `SetPermission!CodeBackWithoutBreakpoints` | docs/commands/set-permission.md:22, the original context is restored | inside a pending stub, stub code is saved as the original (assemble.py:281); a patch of the stub's code is undone with the stub; a breakpoint of a dead program writes that program's code into the next (line 285) |
| `GotAudit!OnlyForeignAccused` | docs/commands/got-audit.md:11, an error if the file does not export the symbol | the lookup inserts its key (got_audit.py:153), after which the file is never listed |
| `Windbg!UdUndoes` | windbg.py:61 to 67, `ud` deletes what `ld` set | after two `ld` the second `ud` finds the deleted one and raises |
| `Ftrace!TrackedIsRecorded` | ftrace.py:95, added to the tracking list | a function with 0 arguments gets no finish breakpoint (line 34) |
| `Ftrace!FileHasRecords` | ftrace.py:74, tracks a function's arguments and return code | the output is opened with `"w"` for each record (line 56): a file has the last one |
| `Ftrace!AllReachable` | ftrace.py:100, `cleanup` deletes the breakpoints | a bad item raises (lines 93 to 97) with breakpoints set and no handler connected; a later command forgets the list |
| `HeapView!CorruptionIsTold` | visualize_heap.py:175, "Corrupted heap, cannot continue." | a size that leads behind the mapping raises before the check |
| `Emulate!NothingIsOvertaken` | emulate/__init__.py, the command emulates this program | a GDB on a program of the same name writes the same dumps (emulate/__init__.py:296) |
| `Emulate!WrittenIsWhole` | the script is written | what `os.write` returns is not looked at (line 333) |
| `Emulate!ScriptReplaysContext` | docs/commands/unicorn-emulate.md:39, the script embeds the context | it names dumps in /tmp that a later command overwrites |
| `ArgPanes!ArgumentsDetermined` | docs/commands/syscall-args.md:4, the arguments are determined | the table of ARM has registers `$rr0` to `$rr5`, which GDB has not (ARM.py:10) |
| `ArgPanes!EveryArchIsLoaded` | libc_function_args/__init__.py:53 to 55, a table that is loaded is left alone, so several may be | line 88 loads the first only; another architecture's calls raise |
| `ArgPanes!SettingIsUsed` | syscall_args/__init__.py:49, the path the tables are loaded from | it is read once |

Smaller ones met on the way: the heap view may leave out a single null word
without saying so (`GapsAnnounced` allows just that); near the end of a page the
context window of the disassembler ends before `$pc`, and the last byte of a page
is never read; a trace command does not look why GDB stopped; an exit handler of ftrace that
raises stays connected;
`vereference` has a setting `max_recursion` of its own (v8-dereference.py:73) and reads
that of `dereference` (line 186), and without V8's symbols it raises at the first
word it can read.

Some properties hold because they name what the code does not promise. These are
the excuses, and what is not caught behind them:

- `CodeComesBack`, `OwnCodeOwnRegisters`, `KeepsPromise`: a program that is `astray`, see
  SetPermission above. A patch that the restore undoes is excused, not caught.
- `PowerHasAnOwner`: `leftBy`, that is, the power of a scan or of a connection that was
  given up, and of a close that could not reach the probe.
- `DefaultBackAfterSession`: while the last connection was given up. It neither asks for
  nor forbids the default handler then; its being missing is `FailureDeletesHook`.
- The ledger of `IdaSession`: addresses that are absolute where IDA's are not.
- `ForeignExact`, `DuplicatesFound`: files rebuilt since they were listed, and those that are
  `early`. A duplicate may be of a file that only an earlier program mapped.
- `ContextComesBack`: a step that raised leaves the display off.
- `SxeHolds` is the `ld` direction; for `ud`, `StopsAreWanted` excuses a module that was
  given to `ld` more than once.
- `NothingStray`: a command that failed at an item, one that was followed by another, and a
  handler that raised may leave breakpoints that nothing deletes.
- `RunReplaysContext`: what the other GDB wrote between this command's writing of it and
  its run. `ScriptsComplete`: what a dump holds, and scripts that were cut.
- `LibcPaneAnswers`: an architecture that was not the first to be loaded.
- The root of `v8`: `moved` excuses another thread's cage, so what is caught is the reuse
  of the root of a program that is gone.

## Proofs

Each invariant below is proved for every value of the constants that meets the
module's named assumption, from an inductive invariant: `Init` implies it, every
action preserves it, it implies the property. Bounds like `MaxCommands` are
arbitrary naturals there.

- **IdaSessionProofs**: `TypeCorrect`; `HooksMatch`; `LedgerCorrect`; `NoTrail`. The ledger
  needs `LedgerInv`: a line that is about to be painted has been saved, and a
  colour on its way back is the line's own. Without these, a link that drops
  between the two RPCs of a command is not covered. The trail needs `TrailInv`: a
  synchronisation deletes the line of the last stop first, and from there on the
  only cursor line is the one it is going to.
- **RemoteSessionProofs**: `TypeCorrect`, `HandlersStayInOrder` from `HandlersInv` (one
  handler at a time and the default back afterwards, that no command runs inside a
  session, and that a connection given up left a handler), and `PowerIsOwned`.
- **SetPermissionProofs**, for the composition and with every write, signal, failure and
  nested command in it: `AssembleImplements` (each step of `AssembleSession` is one of
  `SetPermission` or none), and from it `TypeCorrect`, `CodeAlwaysComesBack`, `OwnRegisters`,
  and `ImplementsMprotect`, the refinement. The invariant `IInv`: unless the program is
  astray, at most one stub is live and it is `Pending` (in memory as written, everything else
  as wanted, the program or the return address of its handler inside it with its
  registers saved); and, astray or not, as long as no command was nested, what a
  breakpoint saved is no stub's code and each instruction of a stub in memory is a live
  one's. The refinement has one case per action: `TrackStep` maps a step on the track,
  `ForfeitStep` one that leaves it, `BackOnTrack` the death that ends it.
- **GotAuditProofs**: `TypeCorrect`, `CachesAlwaysAgree` (the two caches are one relation),
  `ForeignIsExact`, `DuplicatesAreFound`. It needs `PathsCurrent`: what is recorded of a
  path is what it exports, nothing for a range, unless the file was rebuilt since or
  looked up `early`, when nothing is recorded.
- **TracingProofs**, of Windbg: `WindbgTypeCorrect`, `ContextAlwaysBack`,
  `SxeAlwaysHolds`, `StopsWereWanted`, `TracesEndWhereAsked`. The count left and the steps made add up to
  the count asked for (`CountAddsUp`), and a module that is wanted has a breakpoint
  that is not `gone` (`WantedHeld`), one that is not wanted has none unless it was given
  twice (`LeftWanted`). `TraceCountsDown`: each turn of the loop ends a
  trace with a COUNT or leaves fewer steps to make.
- **TracingProofs**, of Ftrace: `FtraceTypeCorrect`, `RecordsAreTrue`,
  `RecordedOncePerArgument`, `NothingGoesStray`. The invariant `FtraceIInv` says what
  the breakpoints and records *are*, not only what they are not: the stack holds
  the open calls in order (`FramesAreOpen`), GDB's finish breakpoints are exactly
  those due to the open calls, and the records written or lost exactly those due to the calls that
  returned (`AllDuesPaid`); a call hits breakpoints of its own function (`HitsTrue`).
  That a record is written or raises once per argument is then a bijection between the
  arguments and the dues (`FinishesCount`), and a step that returns or unwinds calls
  moves their dues from one set to the other.
- **ViewProofs**, of HeapView: `HeapTypeCorrect`, `DataIsShown`, `GapsAreAnnounced`,
  `ChunksAlwaysMeet`, and `ColorsFollowChunks`, for heaps of any size. `CounterTells`
  bounds the words left out by the counter that decides over them. `WalkShrinks`:
  each step of the walk ends it or makes `Left`, a natural number, smaller.
- **ViewProofs**, of V8Dereference: `V8TypeCorrect`, `RootAlwaysCurrent`,
  `PagesAreMemory`. `IsChain` is the invariant of `dereference_from`'s loop: memory links
  the addresses, those gone through are remembered and differ. `FollowKeeps` shows
  that a turn keeps it, `ChainTurns` that the loop therefore ends with it. Over steps,
  `Covers` says which rows the repetitions have printed, and `PageShows` that each
  row has its word's chain; that a row never shows an odd address needs an even
  word size (`V8Assumption`).
- **ViewProofs**, of Disassembly: `DisassemblyTypeCorrect`, `WindowsKeepToPage`,
  `ContextHasPc`, and the action property `RepetitionsTile`. `IsRun` says what the loop
  of `cs_disassemble` gives: instructions that follow each other, up to one that does
  not decode or does not fit (`DecodedIsRun`). A window is a slice of a run
  (`WindowIs`), so the next one starts where it ended; the instructions before `$pc`
  are a prefix of every run that is read further (`RunGoesOn`). Over steps, `ShownIsWindow`
  and `ContextIsWindow` say that the window shown is the one of the program as it is.
- **EmulateProofs**: `TypeCorrect`, `ScriptsAreComplete` and `RunsReplay`, whatever names the
  programs have. Of each GDB, `Progress` says how its command's variables fit where it is,
  `Holds` that each dump it opened or wrote is still its own or is `overtaken`, and
  `Wrote` the same of its script. `OthersStay` is the lemma on the GDBs that are not at work
  in a step: what a step writes, it takes from them, and the rest stays.
- **ArgPanesProofs**: `TypeCorrect`, `LibcPaneCorrect`, `SyscallArgsCorrect`. An
  empty table is one that could not be loaded, and the number the kernel saved is
  that of the last system call.

The loops of V8Dereference and Disassembly are recursive functions. That such a
function exists, and what it is for every input, is proved by induction over the
number of turns or the distance to the end. `InductiveSet` is that induction with a
set of numbers in place of a predicate, since the provers cannot instantiate a
theorem that takes an operator; it follows from `LeastNatural`, which follows from
the well-foundedness of the subsets of an interval (`FS_StrictSubsetOrderingWellFounded`
and `WFMin`). `Repetition` and `DecodingExists` are the existence of the two functions.

Only model-checked: `WalkEnds`, since fairness is stated with ENABLED, which is out
of the prover's reach. The half of it that does not need it is proved: `WalkShrinks` says
that every step of the walk makes a natural number smaller or ends it. Every other
property of a passing run has its theorem.

What the assumptions on constants are for. They give the constants their types, and
say of the rest only what the code or its surroundings guarantee: a word has an even
number of bytes and a root is not 0 (V8Dereference), `--length` is not 0 and code is at
addresses (Disassembly), the argument registers are `Params` many (Ftrace), there is a
largest COUNT that is typed (Windbg).

## What is assumed of GDB, GEF and others

- GEF's `GenericCommand.invoke` prints an exception, so a nested `gdb.execute` of a
  GEF command never raises; one of a GDB command does.
- `gdb.events.X.connect` registers a second time, and disconnect of what is not
  registered raises (arm-openocd.py, lines 141 to 145, guards against it).
- The restore breakpoint of a stub is temporary, and a stop exactly at its address
  is its own.
- GDB keeps breakpoints over a restart, the program is loaded at the same addresses
  again, and its memory is then that of its file. What an astray program does to its
  registers is not followed. It has one thread while a stub is pending.
- `gdb.events.exited` fires whenever the program ends.
- A finish breakpoint fires for its own frame and is gone afterwards, and GDB
  deletes it when the frame is unwound; touching a deleted breakpoint raises.
- Keystone opens the targets it has (`Keystone`), and not all of
  `VALID_ARCH_MODES`.
- `gef.heap.chunks` is a walk by the chunks' size fields; where a header cannot be read
  it stops, raises, or hands on a size that is corrupted.
- `gdb_get_nth_previous_instruction_address` finds an address from which that many
  instructions decode up to `$pc`, if there is one.
- Only x86 has a register for the number the kernel saved; it is meaningful
  during a system call and -1 otherwise.

## What is not modelled

The read-only searches (`peekpointers`, `xref-telescope`, `stack`, `ksymaddr`),
wrappers of other tools (`ropper`, `retdec`, `error`), `remote.py`, the template, the
stateless half of `windbg.py`, `bytearray` and `bincompare`, the m68k and Cortex-M
descriptions, the layouts in `structs/`, the headers in `os/`, and the tests: they
keep no state between steps, or their state is someone else's. Of the heap view,
the names of mapped ranges are left out; of the syscall tables, all but the
registers, since numbers, names and types are data no control depends on. What
Unicorn, Keystone, Capstone, IDA and the debugged program compute is nondeterminism.

## Plan

The order so far was by how much can go wrong between two steps: sessions with
other processes (IdaSession, RemoteSession), changes to the program that must be
undone (SetPermission and its composition with the engine, AssembleSession),
caches that outlive what they describe (KeystoneEngine, GotAudit, ArgPanes,
V8Dereference), stepping and tracing (Windbg, Ftrace), then views (HeapView,
Disassembly) and files (Emulate).

What would add most next:

1. **ByteTools**, `bytearray.py` and `bincompare.py`: pure operators against reference
   definitions, over bounded files.
2. The ranges that the heap view keeps for ever, over programs that map and unmap.
3. m68k's branch conditions against the condition codes they stand for.
4. Abstract specifications, in the manner of `Mprotect`, of what the tracer and the
   emulator promise, and proofs that Ftrace and Emulate implement them.
