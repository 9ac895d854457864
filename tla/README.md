# A TLA+ model of AmiForensics

AmiForensics is a set of small, bounded, read-only collectors for AmigaOS (C,
`src/*.c`), an ARexx script that strings two of them together
(`rexx/AFReport.rexx`), and a workstation on the host that prepares, runs and
documents analysis sessions (`workstation/*.py`). This directory holds TLA+
modules of the parts whose correctness depends on order, interleaving, failure
or limits, the TLC configurations that check them, and proofs.

`PROJECT.json` is the index: components, runs, mutants (a plausible bug for each
property, which that property must catch), the map from definitions to source
lines, findings, hazards and theorems.

## 1. Inventory

| part | state it keeps | operations | what is hard |
|---|---|---|---|
| DiskWatch `src/diskwatch.c` | event table, counters, device request | open, poll, close, print | disk changes between polls; six acquisitions that may each fail |
| TraceExec `src/traceexec.c` | two task sets that exchange roles, event log | walk two Exec lists, compare, log | interrupts relink nodes under the walk; bounded tables; three modes |
| TaskView, ProcessView | one snapshot table | walk, filter, print | the same walk, with a promise of completeness (RC 0) |
| ResidentView `src/residentview.c` | snapshot; for `--serve` a public port | list, filter, ARexx service | clients and CTRL-C against the service loop; two copies with one name |
| PatchView, PortView | snapshot table | read vectors, walk the port list | `SetFunction` between two reads of one vector |
| MemScan, SampleDump | candidate tables, byte budgets | scan, dump a range | budgets that interact; other tasks writing; 32 bit ranges; a write failing half way |
| HunkInfo, FileInfo, BootInfo, Strings | parser position, digest, sum, run of characters | parse, hash, add up, scan a file | lengths from the file; truncation; block and word boundaries; carries |
| Compare, Report, AFReport | records of the inputs | diff, merge, return code | three sets of limits, one return code |
| workstation | run directory, `manifest.json` | prepare, profile, launch, snapshot, compare, collect, Ghidra | separate processes that read, change and rewrite one file |
| workstation batch | results, run directories of the run root | prepare one sample after the other | a second batch in the same second; samples that are missing, written to or removed; a failure before and after the directory is made |
| workstation report, qualification, tools, CI | none of their own | readers, test drivers | little |

Interactions: collectors share nothing but the machine they look at; Exec's
lists are the shared state, Forbid() the only lock, and interrupts do not
respect it. Collector outputs are files that Compare and Report read. The
workstation programs communicate only through the run directory.

Correctness, per part:

- DiskWatch: the log is the history of the counter; everything is released.
- TraceExec: the log is the differences of the snapshots; a snapshot that was
  not disturbed is exact; how a disturbed one can be wrong is bounded.
- TaskView, ProcessView: RC 0 and RC 5 mean what they say, at least when no
  interrupt came.
- ARexx service: each message is answered once; a success is a whole answer;
  shut-down drains and releases; the port name is used by one copy.
- Compare, Report, AFReport: an unflagged comparison is the comparison of the
  files' meaning; a limit or failure in any stage reaches the exit code.
- workstation: what a program records stays recorded; a record points at something
  that was written, but for a launcher's log that could not be, or was not yet,
  opened; a damaged manifest is not written over; the emulator starts what was
  reviewed.
- PortView, ResidentView, MemScan, SampleDump, PatchView: RC 0 says that what
  was asked for is all there, RC 5 that something really was left out, refused or
  does not exist; a failure leaves no file and nothing open behind.
- HunkInfo, FileInfo, BootInfo, Strings: what is printed with RC 0 is true of the
  file as a whole, by another way of reading or counting it.
- collect_artifacts.py, snapshot.py, compare_snapshots.py, batch_prepare.py: later
  collections keep earlier ones; a difference is right of every file that nobody
  wrote to meanwhile; a sample called prepared has a directory of its own, and one
  that failed has none that looks like a run.

## 2. Modules

```
BoundedRecords, Selection ──── the table and the loop that all of these use
   ├──── DiskWatch
   ├──── TaskWatch ── MCTaskWatch
   │     │   └── implements ── TaskObserver (abstract)
   │   ExecTasks (Exec, the environment) ── NodeLists (its lists)
   ├──── ListSnapshot (on ExecTasks)
   │       └── FileReaders ─────────────────── Collectors ── MCCollectors
   │             │ INSTANCE                      │ INSTANCE
   │             ├── HunkInfo  ┐                 ├── MemScan       ┐
   │             ├── Strings   │ one             ├── SampleDump    │ machine
   │             ├── FileInfo  │ file            ├── PatchView     ┘
   │             └── BootInfo  ┘                 ├── ArtifactStore ┐
   │                                             ├── SnapshotDiff  │ host
   │                                             └── BatchPrepare  ┘
   └──── EvidencePipeline
RexxServer
RunManifest ── MCRunManifest

DataProofs (tables, lists, loops)
   ├── DiskWatchProofs, TaskWatchProofs, EvidencePipelineProofs
   └── FileReadersProofs ── CollectorsProofs
RexxServerProofs, RunManifestProofs
```

Each module has the code's operations as actions, in the order of the code. An
operator whose name is that of another one with a suffix (`PollStale`,
`AddRecordSilent`) is the mutant named in `PROJECT.json` and is used by nothing.

**BoundedRecords** — the table with a capacity and a `truncated` flag that the
collectors share: `add_event`, `add_record` and `add_task_record` refuse a record when full and
set the flag, once and for ever.

**Selection** — the loop that goes over a list and keeps the elements of one kind
(`Selected`), written as what it has kept after each number of turns, which is a
recursive function: proofs go by its turns. `Updated` is a dictionary with one
key set.

**DiskWatch** — `main` of `diskwatch.c` with `pc` for the place between two
calls that can fail or wait. `held` is the set of resources not yet released;
`drive` is the device's counter, which the environment may move at any moment
(`DiskChange`). `Poll` is one turn of the loop: `Delay`, query, `add_event`.

**NodeLists** — Exec's `Remove` and `Enqueue` on a list as the sequence of the nodes
in it.

**ExecTasks** — Exec as the task collectors see it: `TaskReady` and `TaskWait` as
sequences, `Signal`, `Block`, `AddTask`, `RemTask`. Forbid() rules out all but
`Signal` from an interrupt, which takes a node out of `TaskWait` and enqueues it
at any place of `TaskReady`. The walk holds a node, not an index, so after its
node was moved it goes on in the other list.

**TaskWatch** — `traceexec.c`, all three modes (`--capture-tasks` is a watch of
two samples). A snapshot is `BeginSample` (clear, Forbid, own task), `Visit` per
node, `NextList`, `EndSample` (Permit, compare, exchange the buffers). Variables
`signalled`, `wasReady`, `history` are for the properties only.

**TaskObserver** — what TraceExec promises, without walking: look at the machine
a number of times, each time recording a set of tasks that live at that moment,
and log the differences to the previous look. `TaskWatch` implements it
(`ImplementsObserver`, a refinement in which a whole walk is one look).

**ListSnapshot** — `taskview.c`, `processview.c`, `portview.c` and the listing of
`residentview.c` in one module, `program` says which. They differ in the nodes
they pass over (`Inspected`, the `NT_PROCESS` test), in the lists that only tasks
can change, which are one sequence (`FixedRecords`) and recorded in one step
because Forbid() keeps them still (of `ResModules` its nodes are the entries that
the loop of 256 reaches and that have match word and tag), and in what a full table does: TaskView and
ProcessView stop the walk, ResidentView walks on and records its own task last.
The filter is applied when printing, after the capacity was used up.

**MemScan** — `take_snapshot` is one step under Forbid(); the scan is one step per
place looked at (`ScanWord`), per region entered or passed over (`NextRegion`) or
left (`EndRegion`), because other tasks write to memory meanwhile. Memory is what
it holds at words that equal `RTC_MATCHWORD`. `print_heuristics` is `Score` and
`RiskLevel` per region, `Shown` what the mode and the filters let through.

**SampleDump** — `find_region` in the arithmetic of the machine word (`% Word`),
then read, write and checksum per chunk. A byte carries whether it was read
before or after another task wrote to the range, and the checksum is the sequence
of bytes it was made of, so it is that of the file only if both came from one
reading.

**PatchView** — memory, then the library, or port, request, device and the device's
base one after the other, each of which may fail; an open device may have no
`io_Device`, and that exit has to close it. Every exit has the list of releases
its code spells out (`WithoutRequest`, `WithoutDevice`, `WithoutBase`,
`AfterInspection`), which `Release` goes through one by one; what is held is a
variable of its own, and `NothingLeaks` compares the two. Then three readings per
vector (opcode, target in two halves, checksum), between any two of which another
task may call `SetFunction`.

**HunkInfo** — the whole parser. The file is chosen while it is read: where the
code reads a word, the file has any type, any number of a small set, or its end.
`stream` is what was read, and the totals are counted again from it by a second
reading without parser state: `Reading` is the least set of places, each with
what is expected there, that has the first place and with each place the one
`After` it; `Counted` counts and adds over these places (`TotalsAreTrue`).

**Strings** — the scanner byte by byte, `MAX_STRING_LEN`, the classes in the order
of the tests, the filters. What is printed is compared with the maximal runs of
the file, cut into lines.

**FileInfo** — one pass over the file in buffers, the CRC as the sequence of what
was done to the register (two inversions in a row cancel out), SHA-256 as the
sequence of blocks fed to the transform: padding, length, the block more when it
does not fit. The arithmetic inside a block is left out.

**BootInfo** — the sum with end-around carry, in a type that may be wider than the
word, as `Truncated` and `CarryIn`. `true_sum` and `carries` are for the
properties.

**ArtifactStore** — `collect_artifacts.py` called again and again under one label:
the plain name, the name with the digest's prefix, read-only copies, the index;
by a privileged user or not; any copy may fail.

**SnapshotDiff** — `snapshot.py pre`, `snapshot.py post`, `compare_snapshots.py`
one after the other over one tree: an inventory lists the names, then asks each
file for its size and its contents, while others write, make and remove files. A
file that is gone ends the program.

**BatchPrepare** — `batch_prepare.py` with the `prepare_run.py` it waits for, twice
at the same time over one run root: digest, time and look-up, `mkdir`, copy,
manifest, with a clock of seconds and others who write to the samples, remove
them or bring one that was not there. A sample that is missing is refused before
there is a directory (`Digest`, as `qualify_m6_5.py:71-78` tests); one that is
removed later ends the program with the directory made (`Gone`); the host may
fail the reading, `mkdir`, the copy or the manifest (`Fault`). Each entry keeps its
cause, for the property only.

**FileReaders** — HunkInfo, Strings, FileInfo and BootInfo, each with the variables
only it has; they share `pc` and `rc`, main's place and return code.

**Collectors** — any one of all these programs is started, on any machine or file.
The properties are stated once for all of them, as
`docs/M2_6_SNAPSHOT_CONTRACT.md` gives them one contract, with one part per program.
**MCCollectors** has the small machines and files for TLC.

A module that is instanced here extends only standard modules, BoundedRecords
and Selection, because an instance copies every definition its module has.

**RexxServer** — `serve_arexx`: any number of copies of the program (`Server`), a
public port list, messages that clients reuse once they are answered. One action
per call that another task can come between: malloc, OpenLibrary, FindPort
(inside Forbid), CreateMsgPort, AddPort, Wait, GetMsg, dispatch with ReplyMsg,
RemPort with the rest of the shut-down. A command is one of ping, quit, list,
other; a list is whole, truncated (192 records) or overflowing (4096 bytes).

**EvidencePipeline** — `AFReport.rexx`, `compare.c`, `report.c`. A line of a file
is what the readers tell apart: fits, field too wide, line too long, no
key=value. The script's stages are actions; `Load`, `Differences`, `LoadAll` are
the loops over the lines, as recursive functions of the number of turns. A modified key is one line of output here and three in
the code, and the header and totals lines are left out: the table of Report is
smaller in proportion (`MaxReport`). Report returns 20 for a file or the memory, 10
for a path that is too long; the script passes on either. A program whose output does not reach the
disk does not notice (`Printed`).

**RunManifest** — the run directory. Each invocation of a program is a process:
`Load` (read, guard), `Produce` (write its output), `Truncate` and `Write` (the
two halves of `write_text`), and for the emulator and Ghidra `Reload` after the
subprocess. The two launchers name their log in the manifest first and open it
afterwards (`OpenLog`, which may fail). `Crash` kills an invocation anywhere. The manifest is its `state` and
the set of keys and return codes it has. An invocation overlaps another when it
reads while the other is between its read and the end of its write (`overlap`);
the time a subprocess runs is not in such an exchange.

## 3. Runs

| run | what is explored | what it shows |
|---|---|---|
| `diskwatch` | up to 4 polls, 4 disk changes, every failure | unbroken chain of events, no overflow, no leak, half watches are not printed, termination |
| `taskwatch` | 3 other tasks, 3 snapshots, tables of 3, log of 4 | no phantom record, ready tasks never missed, a full table is really too small, the log is the differences, refinement of TaskObserver |
| `taskwatch_torn` | 3 tasks, 2 snapshots | **violated**: `StableTaskIsSilent` |
| `collectors` | the programs that look once; 3 other tasks, two of them processes, 2 fixed nodes and tables of 2; 8 memory lists, up to 2 match words, every range of up to 5 bytes in 32, every count up to 2, and one too many, of tables of up to 3 vectors, every call failing; files word by word or byte by byte; two collections; two snapshots with 2 writes; two batches, a sample that is missing or changed, a failing call | RC 0 exact and RC 5 earned; what is read from a file is true of it; ready tasks never missed; failures clean up; what was collected stays; all end |
| `sampledump_top` | the same | **violated**: `DumpIsInRegion` |
| `hunk_truncated` | the same | **violated**: `TruncationIsTold` |
| `rexx` | 2 copies, 2 messages reused for ever of which one asks for a result, CTRL-C, failures | one holder per message, no lost wake-up, no dead port in public, no leak, success is whole, QUIT drains; answers come, and a copy told to stop stops unless kept busy |
| `rexx_port_name` | 2 copies | **violated**: `NameIsUnique` |
| `pipeline` | two files of up to 2 lines and a flag, 2 keys, 2 values, tables of 2 and 7 | `CleanCompareIsExact`, `PassKeepsEvidence`, `OutcomeIsTold` |
| `run_session` | every program, two profile invocations, two groups of which one is started, any order, one kill | nothing lost without overlap, records have files but for the logs of launchers that did not get to open them, torn manifests are refused, the reviewed profile stays, the state is true |
| `run_lost_update` | prepare and two collections | **violated**: `EachCollectionIsRecorded` |
| `run_index` | the same | **violated**: `CollectedIsDescribed`, without any overlap |

Bounds, and why they are enough.

The values are in the `.cfg` files; `MCCollectors` defines those that a `.cfg` cannot
say.

- `MaxSamples` 3 or 4: the third sample is the first one to reuse a buffer of
  TraceExec; four polls give a chain with an inner link on both sides.
- `MaxChange` 4 lets the counter move before, between, twice between and after
  the polls. It bounds the environment only; the proofs do without it.
- `Task` of 3: a walk is misled by moving the node under the cursor, one before
  it or one behind it; three nodes have all of these. Tables of 3 with 4 nodes,
  and a log of 4 for up to 8 differences, are exactly full and overflow; a node
  met twice would fill the table of 3 with fewer tasks alive.
- MemScan: `RegionLimit` 8, `TotalLimit` 12 and `MinSize` 4 against lists of
  regions (`Headers`) that are odd, empty, reversed, too small, overlapping, that
  use up the budget to the byte, exceed it by one region, or exceed the table of 3;
  match words at up to two of four places with an end that is wrong, near or far.
  What other tasks write (`Written`) is an image with at most one match word.
- SampleDump: a word of 32 addresses, chunks of 2 and at most 5 bytes: one, two
  and three chunks, the last one full or not, and ranges at, before and beyond
  every end of a region and of the address space.
- PatchView: `NegSizes` with no vector, whole vectors, and a rest of 4 bytes; tables
  of 0, 1 and 3 vectors, counts below, at and above them and the limits 1 and 2.
- HunkInfo: words of 64 with the two highest bits as flags, up to 6 words behind the
  header: two hunks, or one with relocations or symbols, cut at every word. The heads are empty, reversed, too small,
  of one and two hunks, and the range whose length wraps to 0.
- Strings: lines of at most 3 characters and files of up to 5 bytes: a run that is
  cut once, ends with the file or with a byte, is too short, of every class.
- FileInfo: files of up to 20 bytes, blocks of 6 of which the length takes the
  last two, buffers of 5: every remainder, and up to four blocks.
- BootInfo: 4 words below 32, among them the greatest.
- ArtifactStore: two collections of up to 3 files of two names, one of them
  `index.json`, and two contents.
- SnapshotDiff: 2 paths, 3 contents two of which have the same size, 2 writes: a
  file is written and removed, or two files change, before, in or between.
- BatchPrepare: one batch of 2 samples (3 are refused) beside one of a single
  sample that the first one has too, 2 seconds; each sample may be missing from the
  start, one is written to, removed or brought (`MaxChange`), one call of the host
  fails (`MaxFault`). A failed entry before, behind and beside a good one needs no
  more.
- Two messages and two copies: a message behind QUIT, one that arrives while the
  queue is drained, a message at each of two ports of the same name. Clients
  send again after each answer, so the run has no end and no bound on commands.
- `MaxLines` 2 and the flag line: up to three keys against a table of two, a key
  twice, each malformed form before and after a good one. `MaxReport` 7 is met
  by some pairs of files exactly and exceeded by others.
- `MaxCrash` 1 and `MaxOpen` 2 (two exchanges of the manifest at one time): a
  lost update and an interleaved write need two programs; a torn file needs one
  kill. `OneGroup` keeps the two groups of later programs apart: their effects on
  the manifest are of the same form. `CHECK_DEADLOCK FALSE` is said everywhere: all these programs stop.

What the modules assume of their constants, and why the code justifies it:

- `CapacityAssumption`, `SizeAssumption`, `LimitsAssumption`, `LimitAssumption`: limits are
  numbers; those of tables, chunks and vectors are not 0; there are two samples at
  least, as `main` demands of `--watch`; DiskWatch's table has a slot for each poll
  after the first (128 and 32);
- `MachineAssumption`: regions begin and end at addresses of the machine; what is
  in memory has a tag and an end;
- `WordAssumption`, `HunkAssumption`: the word of a sum has one bit at least, words of
  a file are below the word, and the file is shorter than a word can say (4 GB; a
  size beyond is not in the model);
- `StringAssumption`: NUL is not printable, lines and files have room for a byte;
- `DigestAssumption`: a block has room for the end mark and the length (64 bytes), a
  buffer of at least 4 bytes is kept of the head, the bits of a block fit the low
  word and those of the file both words;
- `TreeAssumption`: an inventory names each file once, and a content has a size;
- `ContentAssumption`, `NoneAssumption`, `ToolAssumption`, `BatchAssumption`,
  `BoundAssumption`: names the model uses for nothing, for a torn file and so on
  are not names of something else, and the bounds of the runs are numbers.

Symmetry is used for the tasks of `taskwatch` only.

Fairness. The tool itself is weakly fair (`WF_vars(Tool)` in DiskWatch and
Collectors, per copy of the ARexx service): its calls return and the scheduler
runs it. Nothing is assumed of other tasks, interrupts, clients, CTRL-C or the
operator. Interrupts can only signal waiting tasks and nobody waits under Forbid,
so a walk is disturbed a finite number of times; this is a fact of the model, not
an assumption of fairness. Memory may be written to without end and the scan still
gets on. For the programs that look once, `Tool` includes being started: the
three scripts of SnapshotDiff are called in turn, both batches get their turn.
TraceExec walks its lists by the same loop as TaskView, and its
termination has no property of its own. The workstation has no liveness property.

## 4. What the runs found

1. An interrupt under the walk makes TraceExec report the removal and the return
   of a task that never left, with RC 0 (`StableTaskIsSilent`). Forbid() does not
   stop interrupts. The same walk in TaskView and ProcessView can leave a task
   out with RC 0.
2. Two copies of `ResidentView --serve` started together publish the same port
   name: the look-up and `AddPort` are not one critical section.
3. A workstation program that overlaps another loses the other's record.
4. SampleDump accepts a range that ends with the last address of the address
   space for any region that starts at or below it: the end is computed as 0 and
   lies below every region's end (`DumpIsInRegion`, `find_region`).
5. A second collection under the same label, `manual` by default, replaces the
   first one's `index.json`.
6. HunkInfo reports a file that ends behind its header, between two hunks or in
   the middle of a word with RC 0 (`TruncationIsTold`): the loop ends at the first
   word it cannot read, and only `ferror` is asked.

Noted while modelling, with no run of their own: the return code of a MemScan
scan looks at the candidates and the budgets only, not at the tables of regions
and residents it works from, so `QuietScanIsExact` has to assume that these
sufficed; it is 5 without cause when the budget is spent to the byte and a region
is empty (`MemWarningIsEarned` names the case); PatchView can show a target of two
halves, or a checksum of another vector than the record, for a vector that
`SetFunction` changes under it, and for no other (`QuietViewIsExact`); messages
put between the last GetMsg and RemPort are freed with the port and never replied
to (`QuitDrains` says exactly which), and so are those still queued at CTRL-C, of
which no property says anything: nothing in the repository promises them an
answer; Report and Compare treat an
input's `truncated=true` as one more record, so AFReport ends in PASS over
evidence that was incomplete when it was collected; neither sees whether its
output reached the disk (`diskFull` is assumed away by name).

Also noted: Strings can never print the class `system`, which
`docs/M1_2_STRINGS.md:26` lists, because what it looks for is a path before; an
unprivileged user who collects a file called `index.json` makes every later write
of the index fail, since the copy is read-only, and a collection retried after a
failure stores the same files once more under the prefix, and a third one fails
(`CollisionIsEarned` says that nothing else makes one fail); `run_fsuae.py` does
not refuse to start a second emulator, and `StateTellsRunning` holds for one;
a launcher that is killed before it opens its log, or cannot open it, leaves a
record of a log that is not there (`RecordsHaveFiles` names both);
the sample's size in the manifest is asked of the sample after it was copied, so
it is that of the digest only if nobody wrote to the sample (`PreparedIsTrue`);
snapshot.py ends with an exception if a file goes away under it.

## 5. Proofs

Every invariant of every passing run is also a theorem, for all values of the
constants that the assumptions allow, and so is the refinement of `TaskObserver`.

**DataProofs** holds what the others share: what `AddRecord` keeps of a table, what
`Remove` and `Enqueue` do to the members and the order of two lists, and induction.
The library's induction theorems cannot be used (they take an operator); here
induction is stated of sets: a set that has 0 and with n also n + 1 has all of
Nat, since otherwise there is a least number outside (`NatSetInduction`, from the
library's `WFMin`), and the same for the turns of a loop (`TurnInduction`). A
recursive function is a CHOOSE: `LoopExists` gives it its first turn and its
next, for any body, and `SelectedElements` says by them what a selecting loop keeps.

**DiskWatch** (`DiskWatchProofs`), for every `MaxEvents`, `MaxSamples` with
`MaxEvents >= MaxSamples - 1` (`SizeAssumption`; 128 and 32 in the code) and
every history of the drive: `TypeCorrect`, `ChainUnbroken`, `TableSuffices`,
`AllReleased`, `OnlyWholeWatchesPrinted`. None of these invariants is inductive
alone. `IInv` adds `Phase` (what is held, known and counted at each place of
`main`) and `Chain` with `previous <= drive`: the chain can only be extended
because the counter never runs backwards, and `NeverTruncated` needs that the log
is shorter than the number of polls.

**RunManifest** (`RunManifestProofs`), for any set of invocations and any number
of kills and overlaps: `TypeCorrect`; `RecordsAreBacked`, a manifest that can be
read names only files that were written, or the log of a launcher that is about
to open it, was killed before it could, or failed to; `NothingIsLost` and `TornStays`,
what programs that do not overlap may rely on. The invariant:

- `Preparation`: one `prepare_run.py` at most gets past `mkdir`, and until it has
  written the manifest every other program is idle or has failed;
- `FilesAreThere`: what the file names, and every copy of it that a process
  holds, exists or has such a launcher for an excuse (`Backed`, `Safe`); files never
  disappear, and a launcher gives up its excuse only by making the log, so every
  step keeps it;
- `Exclusion`: while nothing overlapped, at most one exchange is open, it holds
  what is in the file or has emptied it, and after a kill between the two nobody
  opens another;
- `RecordsStay`: while nothing overlapped, the records of all that wrote one are
  in the file or in the copy about to be written to it. Without the second half
  the step that empties the file loses what the next one needs.

`ProfileStays` and `StateIsTrue` go on from there with `StateInv`: what is, or is
about to be, in the file (`InForce`) never goes back to `prepared` once an
emulator was started, and names the emulator that runs or is about to, between the
record and the log.

**RexxServer** (`RexxServerProofs`), for any number of copies, messages and any
length of the queues: `TypeCorrect`, `NoDeadPort`, `WakeupKept`, `AllReleased`,
`SuccessMeansWhole`, `QuitAnswersAll`, `OneHolderEach`. `IInv` says where a copy is
from what it holds (`HoldsByPlace`), that its port is in the list exactly while it
serves, once, and of a message that it is in one queue at one place, or in the
hands of one copy, or answered (`Messages`). `NoLostWakeup` and `QuitDrains` are
parts of it; without `QuitDoesNotWait` the second is not inductive.

**EvidencePipeline** (`EvidencePipelineProofs`), for files of any length and tables
of any size: `AlwaysTyped`, `CleanCompare`, `OutcomeTold`, `PassKeeps`. Most of it is about
the loops: what `Load` has after each line against what the line means, that a
comparison without a flag prints each difference and nothing else, that the
table of Report is full exactly if the lines of the three files together do not
fit. The inductive invariant (`IInv`) is simple then: what each stage has left
behind is what its program makes of the files (`CompareTold`, `ReportTold`), nothing
is there before its stage (`NotYet`), and the exit code is the worst of two.

**TaskWatch** (`TaskWatchProofs`), for any number of tasks, table size and number
of snapshots, and any interrupts under the walk: `NothingInvented` (no snapshot has
a task that is not alive), `FlagIsEarned` (a flag means more tasks than the
table holds), `ReadyIsSeen` (a task that was ready when the walk began is recorded
unless the table was full). The last one needs `BeforeCursor`: under Forbid a node
of `TaskReady` cannot leave it, so those that were ready and stand before the
cursor are recorded, although others are put in anywhere; it holds of the first
list only, and that is why nothing of the kind is true of waiting tasks.

A second invariant on top of it, `WInv`, is about the tables and the log:
`Undisturbed` (while no interrupt came, all the cursor has passed is recorded),
`Untorn` (so a snapshot that is neither torn nor full is what lives) and
`Remembered` (the older table is the last snapshot, and a log that did not
overflow tells all of them). From it follow `AlwaysTyped`, `LogIsExact` — each
appearance and each departure of a task has one event, in a watch of any
length — and `CleanWatch`. `WatchIsObserver` proves the refinement: `Init` maps to
the observer's, the end of a walk is one look with a set that lives, the order of
the table is a witness for the order it logs in, every other step stutters.

**FileReaders** (`FileReadersProofs`), one invariant per program:

- `BootInv`: the sum with carries and the plain sum differ by the carries taken,
  each worth one less than the modulus, after any number of words of any width;
- `StringInv`: what was printed are the runs that ended in the bytes so far, in
  order, cut as said, and the buffer is the part kept of the run that has not
  ended; the end of the file ends that one;
- `DigestInv`: head, register and blocks together are the file so far, in order,
  however the reads cut it; at the end the padding follows and the two words of
  the bit count are the count, although the low one wrapped;
- `HunkInv`: at each place of the parser the words so far fall into whole hunks,
  groups and symbols, the totals are the count by the second reading, and what is
  expected next is what the place expects. `After` reads two words at most and
  never goes back, so a longer file does not change the reading of the part that
  was there; a refused word stands where a type was expected.

**Collectors** (`CollectorsProofs`), for every machine and limit. `CollectorInv` is one
invariant per program, as only the one that was started moves:

- the lists: `ListInv` under any interrupts, by the argument of TaskWatch, with
  nodes that Forbid keeps still recorded at once; `QuietInv` says of a walk that
  was not disturbed that what it passed is recorded, each node once;
- `MemInv`: the residents are all that the array of modules names, unless their
  table was cut; the candidates are the right places among those behind the scan; if
  the table was cut there is a place it lost; the budget charged never exceeds the
  sizes of the regions behind, and is below them from when the scan was limited,
  so RC 5 has a reason;
- `DumpInv`: what was written is the range up to `done`, byte by byte, and what was
  read is the next of it; every failure removes the file;
- `PatchInv`: what is held at each place (`HeldRight`), which on the way out is what the
  rest of the exit's list names and main's memory (`OnTheWay`), so a list that leaves
  something out, or names it twice or too late, breaks it; the records of the
  vectors so far, and of a record half read that a wrong half means `SetFunction`;
- `StoreInv`: what is read-only was collected and is as it was, unless the user may
  write to it all the same;
- `TreeInv`: what an inventory has of a file nobody touched since is the file;
- `BatchInv`: a directory has one owner, who holds it through one sample
  (`WorkRight`, `RunRight`); an entry that failed has its cause, and a directory
  only if it failed behind `mkdir` (`EntryRight`); a sample that was missing is so
  still unless others changed it.

`CleanRunsAreExact`, `WarningsAreEarned`, `FilesAreReadRight`, `CollectorsAreTyped`,
`FailureIsClean`, `CollectionIsKept` and `ListsMissOnlyWaiting` are the properties of the run;
one theorem for each program (`MemScanIsRight`, `StringsAreComplete`, `DigestsAreRight`,
`HunksAreCounted`, …) says what it contributes.

Exceptions in these statements are what the code does and cannot be proved away: the
BSS total is right below the word only, a scan whose budget is spent to the byte
is flagged for an empty region behind it, the widest range of hunks counts as
none.

Only model-checked: liveness (`Terminates` of `diskwatch` and `collectors`,
`AnsweredOrClosed`, `StopsUnlessBusy`), because the prover has neither ENABLED nor
fairness. The six properties that are violated are counterexamples and need no
proof.

## 6. Not modelled, and what could follow

Not modelled:

- the text layout of outputs, names of tasks, console handling: no state, and no
  property is about them;
- the digests themselves (arithmetic on 32 bit words that neither tool is good
  at), FileInfo's histogram, BootInfo's indicators and hexdump, which search a
  block that does not change;
- names and attributes of memory regions, and the stubs in `memscan.c` for builds
  on other systems;
- what is written into the emulator's profile, and the command lines of the
  emulator and of Ghidra: formatting, without a choice that matters to the
  manifest;
- `workstation/report.py`: it reads the manifest and the evidence once for their
  contents and once for their digests and changes nothing but its own output;
- the qualification scripts, `tools/`, CI and workflows, which test and package
  the above; they were read for what they promise.

What could follow: exactly which waiting tasks a torn walk misses or meets twice
(`ReadyIsSeen` is silent about them); termination by a variant that each step of a
program lowers, as a safety property with a proof; `workstation/report.py`, if it
comes to write into the run directory; a second program beside the ARexx service
that walks the port list while copies come and go.
