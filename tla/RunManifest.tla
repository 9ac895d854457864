----------------------------- MODULE RunManifest -----------------------------
(***************************************************************************)
(* One run directory of the workstation and the programs of workstation/   *)
(* that share its manifest.json: each is a process of its own that the     *)
(* operator starts, reads the manifest, writes its output, and writes the  *)
(* manifest back.  No lock is taken.  write_text opens the file, which     *)
(* empties it, and writes the text when it closes it: two steps.           *)
(* run_fsuae.py and ghidra_import.py run a long subprocess between two     *)
(* such exchanges, and open its log after the first of them.               *)
(***************************************************************************)
EXTENDS FiniteSets, Naturals

CONSTANTS
  Tool,        (* invocations of the programs                               *)
  Kind,        (* Kind[p] is the program that p invokes                     *)
  MaxCrash,    (* bound of the model: invocations that are killed           *)
  MaxOpen      (* bound of the model: exchanges of the manifest at one time *)

Launchers == {"emulator", "ghidra"}
Kinds == Launchers \union {"prepare", "profile", "pre", "post", "compare", "collect"}

ASSUME ToolAssumption == Kind \in [Tool -> Kinds] /\ Tool \intersect Kinds = {}
ASSUME BoundAssumption == MaxCrash \in Nat /\ MaxOpen \in Nat \ {0}

VARIABLES
  manifest,    (* manifest.json: absent, torn (not JSON) or whole           *)
  files,       (* what each program leaves there; of a launcher, its log    *)
  index,       (* the collections artifacts/manual/index.json describes     *)
  pc, local,   (* of each invocation: where it is, the manifest it holds    *)
  overlap      (* history: one read the manifest before another wrote it    *)

vars == <<manifest, files, index, pc, local, overlap>>

(* What the manifest says: the run's state, its keys (one per collection   *)
(* in artifact_collections), and the return codes it records.              *)
Keys == (Kinds \union Tool) \X {"key"} \union Launchers \X {"returncode"}
Data == [state : {"prepared", "emulator_started", "emulator_exited"}, has : SUBSET Keys]
Fresh == [state |-> "prepared", has |-> {}]
Absent == [status |-> "absent", data |-> Fresh]
Torn == [status |-> "torn", data |-> Fresh]
Whole(d) == [status |-> "whole", data |-> d]

Key(p) == <<IF Kind[p] = "collect" THEN p ELSE Kind[p], "key">>

(* Between reading the manifest and having written it.                     *)
Window == {"loaded", "produced", "writing", "reloaded", "rewriting"}
Crashed == {"crashed", "crashed writing", "crashed before log"}
Places == Window \union Crashed
            \union {"idle", "noted", "running", "done", "failed", "keyerror", "no log"}
Open == {p \in Tool : pc[p] \in Window}
MayOpen == Cardinality(Open) < MaxOpen
Goto(p, place) == pc' = [pc EXCEPT ![p] = place]
End(p, place) == Goto(p, place) /\ local' = [local EXCEPT ![p] = Fresh]
-----------------------------------------------------------------------------
Init ==
  /\ manifest = Absent
  /\ files = [f \in Kinds |-> "none"]
  /\ index = {}
  /\ pc = [p \in Tool |-> "idle"]
  /\ local = [p \in Tool |-> Fresh]
  /\ overlap = FALSE

(* prepare_run.py: the directory must be new, and making it is atomic; the *)
(* sample is then copied into it (Produce), before there is a manifest.    *)
Prepare(p) ==
  /\ pc[p] = "idle" /\ Kind[p] = "prepare" /\ MayOpen
  /\ IF files["prepare"] # "none"
       THEN Goto(p, "failed") /\ UNCHANGED files
       ELSE Goto(p, "loaded") /\ files' = [files EXCEPT !["prepare"] = "torn"]
  /\ UNCHANGED <<manifest, index, local, overlap>>

UnreviewedAlways(d) == TRUE
Unreviewed(d) == d.state = "prepared"

(* The tests each program makes before it goes on.  A launcher that finds  *)
(* no executable, or is asked for a dry run, changes nothing: left out.    *)
Admits(kind, d) ==
  CASE kind = "profile" -> Unreviewed(d)
    [] kind = "emulator" -> files["profile"] # "none"
    [] kind = "compare" -> files["pre"] = "whole" /\ files["post"] = "whole"
    [] OTHER -> TRUE

ReadableTolerant == manifest.status # "absent"
Readable == manifest.status = "whole"

Load(p) ==
  /\ pc[p] = "idle" /\ Kind[p] # "prepare" /\ MayOpen
  /\ IF Readable /\ Admits(Kind[p], manifest.data)
       THEN /\ Goto(p, IF Kind[p] \in Launchers THEN "produced" ELSE "loaded")
            /\ local' = [local EXCEPT ![p] = manifest.data]
            /\ overlap' = (overlap \/ Open # {})
       ELSE Goto(p, "failed") /\ UNCHANGED <<local, overlap>>
  /\ UNCHANGED <<manifest, files, index>>

FailSwallowed(p) == Goto(p, "produced") /\ UNCHANGED local
Fail(p) == End(p, "failed")

(* The output of the program; collect_artifacts.py writes the index of its *)
(* own collection over the one that is there.  Reading a source, copying   *)
(* or hashing it may fail, which ends the program.                         *)
Produce(p) ==
  /\ pc[p] = "loaded"
  /\ \/ /\ Goto(p, "produced") /\ UNCHANGED local
        /\ files' = [files EXCEPT ![Kind[p]] = "whole"]
        /\ index' = IF Kind[p] = "collect" THEN {p} ELSE index
     \/ Fail(p) /\ UNCHANGED <<files, index>>
  /\ UNCHANGED <<manifest, overlap>>

(* write_text opens manifest.json.                                         *)
Truncate(p) ==
  /\ \/ pc[p] = "produced" /\ Goto(p, "writing")
     \/ pc[p] = "reloaded" /\ Goto(p, "rewriting")
  /\ manifest' = Torn
  /\ UNCHANGED <<files, index, local, overlap>>

NotedAfresh(p, d) ==
  [state |-> IF Kind[p] = "emulator" THEN "emulator_started" ELSE d.state,
   has |-> IF Kind[p] = "prepare" THEN {} ELSE {Key(p)}]

(* What a program adds to the manifest it holds, before the subprocess of  *)
(* a launcher and after it.                                                *)
Noted(p, d) ==
  [state |-> IF Kind[p] = "emulator" THEN "emulator_started" ELSE d.state,
   has |-> IF Kind[p] = "prepare" THEN {}
           ELSE (d.has \ {<<Kind[p], "returncode">>}) \union {Key(p)}]

EndedOnRun(p, d) ==
  [state |-> IF Kind[p] = "emulator" THEN "emulator_exited" ELSE "completed",
   has |-> d.has \union {<<Kind[p], "returncode">>}]

Ended(p, d) ==
  [state |-> IF Kind[p] = "emulator" THEN "emulator_exited" ELSE d.state,
   has |-> d.has \union {<<Kind[p], "returncode">>}]

(* The text reaches the file when it is closed.  Another invocation may    *)
(* have written since this one opened it: a shorter text then leaves the   *)
(* end of the longer one behind it, which is not JSON.                     *)
Put(d) ==
  \/ manifest' = Whole(d)
  \/ manifest.status = "whole" /\ manifest' = Torn

Write(p) ==
  /\ \/ /\ pc[p] = "writing" /\ Put(Noted(p, local[p]))
        /\ IF Kind[p] \in Launchers THEN Goto(p, "noted") /\ UNCHANGED local
                                     ELSE End(p, "done")
     \/ /\ pc[p] = "rewriting" /\ Put(Ended(p, local[p]))
        /\ End(p, "done")
  /\ UNCHANGED <<files, index, overlap>>

OpenLogIgnored(p) ==
  /\ pc[p] = "noted"
  /\ files' \in {files, [files EXCEPT ![Kind[p]] = "whole"]}
  /\ Goto(p, "running")
  /\ UNCHANGED <<manifest, index, local, overlap>>

(* The log the manifest names by now is opened, and the subprocess started;*)
(* either may fail.                                                        *)
OpenLog(p) ==
  /\ pc[p] = "noted"
  /\ \/ /\ files' = [files EXCEPT ![Kind[p]] = "whole"]
        /\ \/ Goto(p, "running") /\ UNCHANGED local
           \/ Fail(p)
     \/ End(p, "no log") /\ UNCHANGED files
  /\ UNCHANGED <<manifest, index, overlap>>

ReloadedKept(p) == Noted(p, local[p])
Reloaded(p) == manifest.data

(* The subprocess has ended: the manifest is read again, and must still    *)
(* have the program's key (manifest["emulator"], manifest["ghidra"]).      *)
Reload(p) ==
  /\ pc[p] = "running" /\ MayOpen
  /\ IF manifest.status = "whole" /\ Key(p) \in manifest.data.has
       THEN /\ Goto(p, "reloaded")
            /\ local' = [local EXCEPT ![p] = Reloaded(p)]
            /\ overlap' = (overlap \/ Open # {})
       ELSE /\ End(p, IF manifest.status = "whole" THEN "keyerror" ELSE "failed")
            /\ UNCHANGED overlap
  /\ UNCHANGED <<manifest, files, index>>

(* The operator or the host kills an invocation.                           *)
Crash(p) ==
  /\ pc[p] \in Window \union {"noted", "running"}
  /\ Cardinality({q \in Tool : pc[q] \in Crashed}) < MaxCrash
  /\ End(p, CASE pc[p] \in {"writing", "rewriting"} -> "crashed writing"
              [] pc[p] = "noted" -> "crashed before log"
              [] OTHER -> "crashed")
  /\ \/ UNCHANGED <<files, index>>
     \/ /\ pc[p] = "loaded" /\ files' = [files EXCEPT ![Kind[p]] = "torn"]
        /\ index' = IF Kind[p] = "collect" THEN {} ELSE index
  /\ UNCHANGED <<manifest, overlap>>

Step(p) == Prepare(p) \/ Load(p) \/ Produce(p) \/ Truncate(p) \/ Write(p) \/ OpenLog(p) \/ Reload(p)
Next == \E p \in Tool : Step(p) \/ Crash(p)
Spec == Init /\ [][Next]_vars
-----------------------------------------------------------------------------
TypeOK ==
  /\ manifest \in [status : {"absent", "torn", "whole"}, data : Data]
  /\ files \in [Kinds -> {"none", "torn", "whole"}]
  /\ index \subseteq Tool
  /\ pc \in [Tool -> Places]
  /\ local \in [Tool -> Data]
  /\ overlap \in BOOLEAN

(* As long as no program reads the manifest inside another's exchange, a   *)
(* manifest that can be read has the record of every program that ended    *)
(* well, also of those that ran while the emulator or Ghidra was running,  *)
(* and no launcher finds its own record gone.                              *)
SerialRunsLoseNothing ==
  ~ overlap =>
    \A p \in Tool :
      /\ pc[p] # "keyerror"
      /\ pc[p] = "done" /\ manifest.status = "whole" /\ Kind[p] # "prepare" =>
           /\ Key(p) \in manifest.data.has
           /\ Kind[p] \in Launchers =>
                \/ <<Kind[p], "returncode">> \in manifest.data.has
                \/ \E q \in Tool \ {p} : Kind[q] = Kind[p]

(* A launcher names its log in the manifest before there is one            *)
(* (run_fsuae.py:54-64, ghidra_import.py:101-115), and only a launcher.    *)
WithoutLog(kind) ==
  \E q \in Tool : Kind[q] = kind /\ pc[q] \in {"noted", "crashed before log", "no log"}

(* Whatever overlaps and whatever is killed: what the manifest records has *)
(* been written, save the log of a launcher that is about to open it, was  *)
(* killed there, or could not.                                             *)
RecordsHaveFiles ==
  manifest.status = "whole" =>
    /\ files["prepare"] = "whole"
    /\ \A p \in Tool : Key(p) \in manifest.data.has =>
         files[Kind[p]] # "none" \/ WithoutLog(Kind[p])

(* A manifest that was half written when its writer was killed is never    *)
(* taken for an empty one and written over: every later program refuses.   *)
TornIsRefused ==
  ~ overlap /\ (\E p \in Tool : pc[p] = "crashed writing") => manifest = Torn

(* run_fsuae.py starts what prepare_profile.py rendered and the operator   *)
(* reviewed: once the emulator has started, no profile is written again.   *)
ReviewedProfileStays ==
  ~ overlap =>
    \A p, e \in Tool :
      Kind[p] = "profile" /\ pc[p] \in {"loaded", "produced"} /\ Kind[e] = "emulator" =>
        pc[e] \notin {"noted", "running", "reloaded", "rewriting", "done"}

(* run_fsuae.py may be started again, also while it still runs.            *)
OneEmulator == \A e, f \in Tool : Kind[e] = "emulator" /\ Kind[f] = "emulator" => e = f

(* If the emulator is started once, the run's state says emulator_started  *)
(* exactly while it runs or is about to; only a launcher that was killed,  *)
(* could not start it, or could not write back, leaves it so.              *)
StateTellsRunning ==
  ~ overlap /\ OneEmulator /\ manifest.status = "whole" =>
    /\ (\E e \in Tool : Kind[e] = "emulator" /\ pc[e] \in {"noted", "running"}) =>
         manifest.data.state = "emulator_started"
    /\ manifest.data.state = "emulator_started" =>
         \E e \in Tool : /\ Kind[e] = "emulator"
                         /\ pc[e] \in {"noted", "running", "reloaded", "failed", "no log",
                                       "crashed", "crashed before log"}

(* workstation/README.md:94, "The run manifest records each collection":   *)
(* whoever else wrote the manifest meanwhile.                              *)
EachCollectionIsRecorded ==
  \A p \in Tool : Kind[p] = "collect" /\ pc[p] = "done" /\ manifest.status = "whole" =>
    Key(p) \in manifest.data.has

(* workstation/README.md:94, collected files are "described by an          *)
(* index.json": those of every collection under the label, also when one  *)
(* collection ends before the next begins.                                 *)
CollectedIsDescribed ==
  ~ overlap => \A p \in Tool : Kind[p] = "collect" /\ pc[p] = "done" => p \in index
=============================================================================
