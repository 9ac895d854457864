---------------------------- MODULE BatchPrepare ----------------------------
(***************************************************************************)
(* workstation/batch_prepare.py: prepare_run.py is called for one sample   *)
(* after the other, and makes a run directory for each, under a name of    *)
(* the second and the sample's digest.  Several batches may work in one    *)
(* run root at the same time, and the samples are not locked: others may   *)
(* write to them, remove them, or bring one that was not there.            *)
(***************************************************************************)
EXTENDS Naturals, Sequences, FiniteSets, Selection

CONSTANTS
  Batch,        (* invocations of batch_prepare.py                          *)
  Sample,       (* files                                                    *)
  SampleLists,  (* batch |-> the lists of samples it may be called with     *)
  Content,      (* contents, by their SHA-256; no two have one size         *)
  MAX_SAMPLES,
  MaxSecond,    (* bound of the model: ticks of the clock                   *)
  MaxChange,    (* bound of the model: samples that others change           *)
  MaxFault      (* bound of the model: calls that fail of themselves        *)

VARIABLES
  pc,           (* "exit" when all batches have ended                       *)
  clock,        (* seconds                                                  *)
  holds,        (* what each sample holds, Missing if it is not there       *)
  runs,         (* run directories: run_id |-> what is in it, who made it   *)
  job,          (* each batch, with the prepare_run.py that it waits for    *)
  changes       (* the samples that others have changed                     *)

batchVars == <<pc, clock, holds, runs, job, changes>>

Missing == "missing"
(* Of a copy or a manifest, a part of it counts as Missing too. *)
Unwritten == [sha256 |-> Missing, size |-> Missing]
Idle == [at |-> "start", todo |-> << >>, run_id |-> << >>, digest |-> Missing,
         disturbed |-> FALSE, results |-> << >>, rc |-> 0]
Fits(samples) == Len(samples) <= MAX_SAMPLES

BatchInit ==
  /\ pc = "start" /\ clock = 0 /\ runs = << >> /\ changes = {}
  /\ holds \in [Sample -> Content \union {Missing}] /\ job = [b \in Batch |-> Idle]
-----------------------------------------------------------------------------
Sampled(b) == Head(job[b].todo)
Maker(b) == <<b, Len(job[b].results) + 1>>
Goto(b, place) == job' = [job EXCEPT ![b].at = place]

(* One entry of the summary, and on to the next sample. *)
Entry(b, id, why) ==
  job' = [job EXCEPT
    ![b] = [@ EXCEPT !.at = "next", !.todo = Tail(job[b].todo), !.run_id = << >>,
                     !.digest = Missing, !.disturbed = FALSE,
                     !.results = Append(job[b].results,
                       [sample |-> Sampled(b), run_id |-> id, why |-> why, digest |-> job[b].digest,
                        disturbed |-> job[b].disturbed])]]

Exit(b, code) ==
  /\ job' = [job EXCEPT ![b].at = "exit", ![b].rc = code]
  /\ pc' = IF \A c \in Batch \ {b} : job[c].at = "exit" THEN "exit" ELSE pc

Begin(b) ==
  /\ job[b].at = "start"
  /\ \E samples \in SampleLists[b] :
       IF Fits(samples)
         THEN job' = [job EXCEPT ![b].at = "next", ![b].todo = samples] /\ UNCHANGED pc
         ELSE Exit(b, 10)
  /\ UNCHANGED <<clock, holds, runs, changes>>

(* prepare_run.py: a sample that is not there is refused; of any other the *)
(* digest is taken, and then the time.                                     *)
Digest(b) ==
  /\ job[b].at = "next" /\ job[b].todo # << >>
  /\ LET found == holds[Sampled(b)]
     IN  IF found = Missing
           THEN Entry(b, << >>, "missing")
           ELSE job' = [job EXCEPT ![b].at = "now", ![b].digest = found]
  /\ UNCHANGED <<pc, clock, holds, runs, changes>>

RunIdOfSecond(digest) == <<clock, "run">>
RunId(digest) == <<clock, digest>>

(* A directory that is there is not used. *)
Exists(b) ==
  /\ job[b].at = "now"
  /\ LET id == RunId(job[b].digest)
     IN  IF id \in DOMAIN runs
           THEN Entry(b, id, "exists")
           ELSE job' = [job EXCEPT ![b].at = "mkdir", ![b].run_id = id]
  /\ UNCHANGED <<pc, clock, holds, runs, changes>>

OccupiedNever(id) == FALSE
Occupied(id) == id \in DOMAIN runs

(* Another one may have made it since, and mkdir refuses.                  *)
MkDir(b) ==
  /\ job[b].at = "mkdir"
  /\ IF Occupied(job[b].run_id)
       THEN Entry(b, job[b].run_id, "exists") /\ UNCHANGED runs
       ELSE /\ runs' = Updated(runs, job[b].run_id,
                               [input |-> Missing, manifest |-> Unwritten,
                                of |-> job[b].digest, by |-> Maker(b)])
            /\ Goto(b, "copy")
  /\ UNCHANGED <<pc, clock, holds, changes>>

(* A sample that is gone by now cannot be copied, nor asked for its size.  *)
Gone(b) == Entry(b, job[b].run_id, "gone") /\ UNCHANGED runs

Copy(b) ==
  /\ job[b].at = "copy"
  /\ LET found == holds[Sampled(b)]
     IN  IF found = Missing
           THEN Gone(b)
           ELSE runs' = [runs EXCEPT ![job[b].run_id].input = found] /\ Goto(b, "manifest")
  /\ UNCHANGED <<pc, clock, holds, changes>>

(* The size is asked of the sample, not of the copy. *)
WriteManifest(b) ==
  /\ job[b].at = "manifest"
  /\ LET found == holds[Sampled(b)]
     IN  IF found = Missing
           THEN Gone(b)
           ELSE /\ runs' = [runs EXCEPT ![job[b].run_id].manifest =
                              [sha256 |-> job[b].digest, size |-> found]]
                /\ Entry(b, job[b].run_id, "prepared")
  /\ UNCHANGED <<pc, clock, holds, changes>>

Faults ==
  {e \in Batch \X (1 .. MAX_SAMPLES) :
     e[2] \in DOMAIN job[e[1]].results /\ job[e[1]].results[e[2]].why = "fault"}

(* The host fails a call: the reading of the sample, the making of the     *)
(* directory, the copy or the manifest.  What was made by then stays.      *)
Fault(b) ==
  /\ Cardinality(Faults) < MaxFault
  /\ \/ job[b].at = "next" /\ job[b].todo # << >>
     \/ job[b].at \in {"mkdir", "copy", "manifest"}
  /\ Entry(b, job[b].run_id, "fault")
  /\ UNCHANGED <<pc, clock, holds, runs, changes>>

Failed(b) == {i \in DOMAIN job[b].results : job[b].results[i].why # "prepared"}

(* The summary is written when all samples were tried. *)
Summarize(b) ==
  /\ job[b].at = "next" /\ job[b].todo = << >>
  /\ Exit(b, IF Failed(b) # {} THEN 5 ELSE 0)
  /\ UNCHANGED <<clock, holds, runs, changes>>

BatchTool ==
  \E b \in Batch : \/ Begin(b) \/ Digest(b) \/ Exists(b) \/ MkDir(b)
                   \/ Copy(b) \/ WriteManifest(b) \/ Fault(b) \/ Summarize(b)

Tick ==
  /\ pc # "exit" /\ clock < MaxSecond /\ clock' = clock + 1
  /\ UNCHANGED <<pc, holds, runs, job, changes>>

ChangeSample ==
  /\ pc # "exit" /\ Cardinality(changes) < MaxChange
  /\ \E s \in Sample \ changes : \E c \in (Content \union {Missing}) \ {holds[s]} :
       /\ changes' = changes \union {s}
       /\ holds' = [holds EXCEPT ![s] = c]
       /\ job' = [b \in Batch |->
            IF job[b].at \in {"now", "mkdir", "copy", "manifest"} /\ Sampled(b) = s
              THEN [job[b] EXCEPT !.disturbed = TRUE] ELSE job[b]]
  /\ UNCHANGED <<pc, clock, runs>>

BatchNext == BatchTool \/ Tick \/ ChangeSample
-----------------------------------------------------------------------------
BatchTypeOK ==
  /\ pc \in {"start", "exit"} /\ clock \in 0 .. MaxSecond /\ changes \subseteq Sample
  /\ holds \in [Sample -> Content \union {Missing}]
  /\ \A id \in DOMAIN runs : runs[id].input \in Content \union {Missing}
  /\ \A b \in Batch : /\ job[b].at \in {"start", "next", "now", "mkdir", "copy", "manifest", "exit"}
                      /\ job[b].rc \in {0, 5, 10}

(* A sample that was prepared has a run directory that nobody else wrote   *)
(* to, in which input and manifest are of the sample, unless the sample    *)
(* was written to meanwhile; and RC 0 says so of all samples of a batch.   *)
PreparedIsTrue ==
  \A b \in Batch :
    /\ \A i \in DOMAIN job[b].results \ Failed(b) :
         LET entry == job[b].results[i]
             run == runs[entry.run_id]
         IN  /\ entry.run_id \in DOMAIN runs /\ run.by = <<b, i>>
             /\ run.manifest.sha256 = entry.digest
             /\ ~ entry.disturbed => run.input = entry.digest /\ run.manifest.size = entry.digest
    /\ job[b].at = "exit" /\ job[b].rc = 0 => Failed(b) = {}

MadeFor(b, i) == {id \in DOMAIN runs : runs[id].by = <<b, i>>}

(* An entry that failed is told by its cause: the sample was not there     *)
(* (prepare_run.py:42-43: no directory is made, as                         *)
(* qualify_m6_5.py:71-78 has it), the name was taken, for another entry    *)
(* and the same content (no directory of its own), others removed the      *)
(* sample after its digest was taken (the directory stays), or the host    *)
(* failed.  No directory of such an entry has a whole manifest, by which   *)
(* the other programs would take it for a run; and RC 5 has such an entry. *)
FailureIsEarned ==
  \A b \in Batch :
    /\ \A i \in Failed(b) :
         LET entry == job[b].results[i]
             made == MadeFor(b, i)
         IN  /\ \A id \in made : id = entry.run_id /\ runs[id].manifest = Unwritten
             /\ entry.why \in {"missing", "exists"} => made = {}
             /\ entry.why = "missing" /\ entry.sample \notin changes => holds[entry.sample] = Missing
             /\ entry.why = "exists" =>
                  entry.run_id \in DOMAIN runs /\ runs[entry.run_id].of = entry.digest
             /\ entry.why = "gone" =>
                  entry.disturbed /\ entry.sample \in changes /\ made = {entry.run_id}
    /\ job[b].at = "exit" /\ job[b].rc = 5 => Failed(b) # {}
=============================================================================
