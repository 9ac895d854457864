----------------------------- MODULE Collectors -----------------------------
(***************************************************************************)
(* The programs that look once and are done: any of them is started, on    *)
(* any machine or any file.  docs/M2_6_SNAPSHOT_CONTRACT.md gives them one *)
(* set of return codes, and the properties here say for all of them what   *)
(* RC 0, RC 5 and a failure are worth.                                     *)
(***************************************************************************)
EXTENDS FileReaders

CONSTANTS
  MaxRegions, MaxResidents, MaxCandidates, MaxModules, RegionLimit, TotalLimit, MinSize,
  Headers, Modules, Images, Written,                          (* of MemScan      *)
  Chunk,                                                      (* of SampleDump   *)
  VectorSize, MaxCount, NegSizes,                             (* of PatchView    *)
  FileName, FileContent, MaxSources, MaxCalls,                (* of ArtifactStore*)
  TreePaths, TreeContent, SizeOf, MaxWrites,                  (* of SnapshotDiff *)
  Batch, Sample, SampleLists, MAX_SAMPLES, MaxSecond, MaxChange, MaxFault (* of BatchPrepare*)

ASSUME LimitAssumption ==
  /\ {MaxRegions, MaxResidents, MaxCandidates, MaxModules, RegionLimit, MinSize,
      Chunk, VectorSize, MaxCount} \subseteq Nat \ {0}
  /\ TotalLimit \in Nat /\ NegSizes \subseteq Nat
  /\ {MaxSources, MaxCalls} \subseteq Nat

(* Exec's lists and a memory, as far as MemScan and SampleDump look.       *)
ASSUME MachineAssumption ==
  /\ \A hs \in Headers :
       hs \in Seq([lower : 0 .. Word - 1, upper : 0 .. Word - 1, free : Nat, named : BOOLEAN])
  /\ \A ms \in Modules : ms \in Seq(Nat)
  /\ \A mem \in Images \union Written :
       DOMAIN mem \subseteq Nat /\ \A a \in DOMAIN mem : mem[a] \in [tag : Nat, end : Nat]

(* The contents of collected files are not what the model calls the rest,  *)
(* and a digest is one of a content.                                       *)
ASSUME ContentAssumption == FileContent \intersect {"", "torn", "index", "missing"} = {}

(* A tree is listed in order, each file once.                              *)
ASSUME TreeAssumption ==
  /\ TreePaths \in Seq(ToSet(TreePaths)) /\ IsInjective(TreePaths)
  /\ DOMAIN SizeOf = TreeContent /\ \A c \in TreeContent : SizeOf[c] \in Nat
  /\ MaxWrites \in Nat

ASSUME BatchAssumption ==
  /\ \A b \in Batch : \A samples \in SampleLists[b] : samples \in Seq(Sample)
  /\ {MAX_SAMPLES, MaxSecond, MaxChange, MaxFault} \subseteq Nat

VARIABLES
  headers,
  modules, memory, mode, regions, residents, candidates,
  region, off, total_left, scan_regions, scan_limited, shown, image, disturbed,
  rewritten, address, length, buf, done, crc, file,
  neg_size, vectors, kind, count, held, release, records, sum, opcode, target, patched,
  privileged, calls, sources, used_names, dest, kept, fault,
  tree, phase, names, st_size, result, snapshots, diff, began, touched, writes,
  clock, holds, runs, job, changes
-----------------------------------------------------------------------------
Memory == INSTANCE MemScan
Dump == INSTANCE SampleDump
Patch == INSTANCE PatchView
Store == INSTANCE ArtifactStore WITH Name <- FileName, Content <- FileContent
Trees == INSTANCE SnapshotDiff WITH Paths <- TreePaths, Content <- TreeContent
Batches == INSTANCE BatchPrepare WITH Content <- FileContent

(* What only one of the programs knows; idle while another one runs.       *)
ListVars == <<execVars, nodes, wanted, snapshot, cursor, out, signalled, truth>>
MemVars == <<modules, memory, mode, regions, residents, candidates, region, off,
             total_left, scan_regions, scan_limited, shown, image, disturbed>>
DumpVars == <<rewritten, address, length, buf, done, crc, file>>
PatchVars == <<neg_size, vectors, kind, count, held, release, records, sum, opcode, target, patched>>
StoreVars == <<privileged, calls, sources, used_names, dest, kept, fault>>
TreeVars == <<tree, phase, names, st_size, result, snapshots, diff, began, touched, writes>>
BatchVars == <<clock, holds, runs, job, changes>>
HostVars == <<StoreVars, TreeVars, BatchVars>>
MachineVars == <<headers, ListVars, MemVars, DumpVars, PatchVars>>
FileVars == <<HunkVars, StringVars, DigestVars, BootVars, HostVars>>
vars == <<program, pc, rc, MachineVars, FileVars>>

NoLists ==
  /\ ready = << >> /\ wait = << >> /\ nodes = << >> /\ wanted = "all"
  /\ snapshot = EmptyTable /\ cursor = Sentinel /\ out = << >>
  /\ signalled = FALSE /\ truth = {}

NoScan ==
  /\ modules = << >> /\ memory = << >> /\ mode = "regions"
  /\ regions = EmptyTable /\ residents = EmptyTable /\ candidates = EmptyTable
  /\ region = 1 /\ off = 0 /\ total_left = 0 /\ scan_regions = 0 /\ scan_limited = FALSE
  /\ shown = {} /\ image = << >> /\ disturbed = FALSE

NoDump ==
  /\ rewritten = FALSE /\ address = 0 /\ length = 0
  /\ buf = << >> /\ done = 0 /\ crc = << >> /\ file = Dump!NoFile

NoVectors ==
  /\ neg_size = 0 /\ vectors = << >> /\ kind = "exec" /\ count = 0
  /\ held = {} /\ release = << >> /\ records = << >> /\ sum = << >>
  /\ opcode = "JMP" /\ target = Patch!Nowhere /\ patched = {}

NoStore ==
  /\ privileged = FALSE /\ calls = 0 /\ sources = << >> /\ used_names = {}
  /\ dest = << >> /\ kept = << >> /\ fault = FALSE

NoTree ==
  /\ tree = << >> /\ phase = "none" /\ names = << >> /\ st_size = 0 /\ result = << >>
  /\ snapshots = << >> /\ diff = << >> /\ began = << >> /\ touched = {} /\ writes = 0

NoBatch == clock = 0 /\ holds = << >> /\ runs = << >> /\ job = << >> /\ changes = {}

Init ==
  /\ \/ ListInit
     \/ program = "MemScan" /\ Memory!MemInit
     \/ program = "SampleDump" /\ Dump!DumpInit
     \/ program = "PatchView" /\ Patch!PatchInit
     \/ program = "HunkInfo" /\ Hunks!HunkInit
     \/ program = "Strings" /\ Strs!StringsInit
     \/ program = "FileInfo" /\ Digest!FileInit
     \/ program = "BootInfo" /\ Boot!BootInit
     \/ program = "collect_artifacts" /\ Store!StoreInit
     \/ program = "snapshot" /\ Trees!DiffInit
     \/ program = "batch_prepare" /\ rc = 0 /\ Batches!BatchInit
  /\ IF program \in Programs THEN TRUE ELSE NoLists
  /\ IF program \in {"MemScan", "SampleDump"} THEN TRUE ELSE headers = << >>
  /\ IF program = "MemScan" THEN TRUE ELSE NoScan
  /\ IF program = "SampleDump" THEN TRUE ELSE NoDump
  /\ IF program = "PatchView" THEN TRUE ELSE NoVectors
  /\ IF program = "HunkInfo" THEN TRUE ELSE NoHunks
  /\ IF program = "Strings" THEN TRUE ELSE NoStrings
  /\ IF program = "FileInfo" THEN TRUE ELSE NoDigest
  /\ IF program = "BootInfo" THEN TRUE ELSE NoBoot
  /\ IF program = "collect_artifacts" THEN TRUE ELSE NoStore
  /\ IF program = "snapshot" THEN TRUE ELSE NoTree
  /\ IF program = "batch_prepare" THEN TRUE ELSE NoBatch

Listing == program \in Programs /\ UNCHANGED <<program, headers, MemVars, DumpVars, PatchVars, FileVars>>
Scanning == program = "MemScan" /\ UNCHANGED <<program, ListVars, DumpVars, PatchVars, FileVars>>
Dumping == program = "SampleDump" /\ UNCHANGED <<program, ListVars, MemVars, PatchVars, FileVars>>
Patching == program = "PatchView" /\ UNCHANGED <<program, headers, ListVars, MemVars, DumpVars, FileVars>>
Parsing ==
  program = "HunkInfo" /\ UNCHANGED <<program, MachineVars, StringVars, DigestVars, BootVars, HostVars>>
Extracting ==
  program = "Strings" /\ UNCHANGED <<program, MachineVars, HunkVars, DigestVars, BootVars, HostVars>>
Digesting ==
  program = "FileInfo" /\ UNCHANGED <<program, MachineVars, HunkVars, StringVars, BootVars, HostVars>>
Adding ==
  program = "BootInfo" /\ UNCHANGED <<program, MachineVars, HunkVars, StringVars, DigestVars, HostVars>>
OnHost == UNCHANGED <<program, MachineVars, HunkVars, StringVars, DigestVars, BootVars>>
Collecting == program = "collect_artifacts" /\ OnHost /\ UNCHANGED <<TreeVars, BatchVars>>
Comparing == program = "snapshot" /\ OnHost /\ UNCHANGED <<StoreVars, BatchVars>>
Preparing == program = "batch_prepare" /\ OnHost /\ UNCHANGED <<rc, StoreVars, TreeVars>>

FileTool ==
  \/ Parsing /\ Hunks!HunkNext
  \/ Extracting /\ Strs!StringsNext
  \/ Digesting /\ Digest!FileNext
  \/ Adding /\ Boot!BootNext
  \/ Collecting /\ Store!StoreNext

Next ==
  \/ Listing /\ ListNext
  \/ Scanning /\ Memory!MemNext
  \/ Dumping /\ Dump!DumpNext
  \/ Patching /\ Patch!PatchNext
  \/ FileTool
  \/ Comparing /\ Trees!DiffNext
  \/ Preparing /\ Batches!BatchNext

Tool ==
  \/ Listing /\ ListTool
  \/ Scanning /\ Memory!MemTool
  \/ Dumping /\ Dump!DumpTool
  \/ Patching /\ Patch!PatchTool
  \/ FileTool
  \/ Comparing /\ Trees!DiffTool
  \/ Preparing /\ Batches!BatchTool

(* A program that is running gets on; nothing is asked of other tasks,     *)
(* interrupts and the operator.                                            *)
Spec == Init /\ [][Next]_vars /\ WF_vars(Tool)
-----------------------------------------------------------------------------
(* What the variables of the program that runs may hold. *)
TypeOK ==
  CASE program = "MemScan" -> Memory!MemTypeOK
    [] program = "SampleDump" -> Dump!DumpTypeOK
    [] program = "PatchView" -> Patch!PatchTypeOK
    [] program = "HunkInfo" -> Hunks!HunkTypeOK
    [] program = "Strings" -> Strs!StringsTypeOK
    [] program = "FileInfo" -> Digest!FileTypeOK
    [] program = "BootInfo" -> Boot!BootTypeOK
    [] program = "collect_artifacts" -> Store!StoreTypeOK
    [] program = "snapshot" -> Trees!DiffTypeOK
    [] program = "batch_prepare" -> Batches!BatchTypeOK
    [] OTHER -> ListTypeOK

(* RC 0 of a program that looks at the machine, or at files of the host:   *)
(* what it was asked for is there, all of it, once, save for what          *)
(* interrupts, tasks or programs changed under its hands.                  *)
CleanIsExact ==
  CASE program = "MemScan" -> Memory!QuietScanIsExact /\ Memory!ListingIsExact
    [] program = "SampleDump" -> Dump!DumpIsWhole
    [] program = "PatchView" -> Patch!QuietViewIsExact
    [] program = "snapshot" -> Trees!DiffIsExact
    [] program = "batch_prepare" -> Batches!PreparedIsTrue
    [] program \in Programs -> QuietListIsExact
    [] OTHER -> TRUE

(* RC 5 is earned: something really was left out, is not supported or does *)
(* not exist.                                                              *)
WarningIsEarned ==
  CASE program = "MemScan" -> Memory!MemWarningIsEarned
    [] program = "SampleDump" -> Dump!RefusalIsEarned
    [] program = "PatchView" -> Patch!ClipIsEarned
    [] program = "HunkInfo" -> Hunks!RefusalIsEarned
    [] program = "batch_prepare" -> Batches!FailureIsEarned
    [] program \in Programs -> ListWarningIsEarned
    [] OTHER -> TRUE

(* A failure leaves nothing behind: no part of a file, nothing open; and   *)
(* vectors are only read while their library or device is open, which is   *)
(* closed before what it needs is deleted.                                 *)
FailureCleansUp ==
  CASE program = "SampleDump" -> Dump!NoPartialFile
    [] program = "PatchView" -> Patch!NothingLeaks
    [] OTHER -> TRUE

(* Later collections under a label leave what was collected as it is; one  *)
(* that fails without a fault of the host met a name that was taken.       *)
CollectedIsKept ==
  program = "collect_artifacts" => Store!CollectedStays /\ Store!CollisionIsEarned

(* docs/M3_4_QUALIFICATION.md:17: the range of a dump lies wholly within   *)
(* one known region.                                                       *)
DumpIsInRegion == program = "SampleDump" => Dump!DumpIsInRegion

(* docs/M1_3_HUNKINFO.md:21: a truncated executable is an explicit failure.*)
TruncationIsTold == program = "HunkInfo" => Hunks!TruncationIsTold

(* The program ends although lists and memory change while it looks.       *)
Terminates == <>(pc = "exit")
=============================================================================
