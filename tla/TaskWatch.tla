----------------------------- MODULE TaskWatch ------------------------------
(***************************************************************************)
(* TraceExec (src/traceexec.c): take a bounded number of task snapshots    *)
(* with a pause between them, and log which task addresses appeared and    *)
(* disappeared from one snapshot to the next.                              *)
(*                                                                         *)
(* A snapshot is a walk over TaskReady and then TaskWait under Forbid(),   *)
(* one node per step.  Interrupts move nodes under the walk.               *)
(***************************************************************************)
EXTENDS BoundedRecords, ExecTasks, Selection

CONSTANTS
  MaxEvents,   (* TE_MAX_EVENTS                                             *)
  MaxTasks,    (* TE_MAX_TASKS                                              *)
  MaxSamples   (* TE_MAX_WATCH_SAMPLES                                      *)

ASSUME CapacityAssumption ==
  /\ MaxEvents \in Nat \ {0} /\ MaxTasks \in Nat \ {0}
  /\ MaxSamples \in Nat /\ MaxSamples >= 2

VARIABLES
  pc,         (* where the tool is                                          *)
  samples,    (* snapshots to take; 0 is the mode without a watch           *)
  sample,     (* snapshots taken                                            *)
  before,     (* TETaskSet of the previous snapshot                         *)
  after,      (* TETaskSet being filled                                     *)
  cursor,     (* the node the walk has reached                              *)
  taskset_truncated,
  events,     (* the TESnapshot: bounded event log                          *)
  rc,         (* return code of main                                        *)
  signalled,  (* history: an interrupt moved a node under this walk         *)
  wasReady,   (* history: TaskReady when this walk began                    *)
  history     (* history: per snapshot what was live and what was recorded  *)

toolVars == <<samples, sample, before, after, cursor, taskset_truncated, events, rc>>
ghostVars == <<signalled, wasReady, history>>
vars == <<execVars, pc, toolVars, ghostVars>>

Places == {"start", "single", "delay", "ready", "wait", "report", "exit"}
Walking == pc \in {"ready", "wait"}
Node == Task \union {Self}
Event == [event : {"task-added", "task-removed", "snapshot-task"}, address : Node]

Init ==
  /\ ExecInit
  /\ pc = "start"
  /\ samples = 0 /\ sample = 0
  /\ before = EmptyTable /\ after = EmptyTable
  /\ cursor = Sentinel
  /\ taskset_truncated = FALSE
  /\ events = EmptyTable
  /\ rc = 0
  /\ signalled = FALSE /\ wasReady = {} /\ history = << >>
-----------------------------------------------------------------------------
AddTaskRecordBlind(set, t) == AddRecord(set, t, MaxTasks)

(* add_task_record: an address is recorded once. *)
AddTaskRecord(set, t) ==
  IF t \in ToSet(set.recs) THEN set ELSE AddRecord(set, t, MaxTasks)

EventsFor(kind, recs) == [i \in DOMAIN recs |-> [event |-> kind, address |-> recs[i]]]

NotIn(recs, set) == Selected(recs, ToSet(recs) \ ToSet(set.recs))

CompareTaskSetsOneWay(ev, b, a) ==
  AddRecords(ev, EventsFor("task-added", NotIn(a.recs, b)), MaxEvents)

(* compare_task_sets: additions in the order of the new set, then removals *)
(* in the order of the old one, into the same bounded log.                 *)
CompareTaskSets(ev, b, a) ==
  AddRecords(ev, EventsFor("task-added", NotIn(a.recs, b))
                   \o EventsFor("task-removed", NotIn(b.recs, a)), MaxEvents)
-----------------------------------------------------------------------------
(* main: bad arguments, no memory, a watch (--capture-tasks is a watch of  *)
(* two snapshots), or the single observation of the tool's own task.       *)
Start ==
  /\ pc = "start"
  /\ \/ pc' = "exit" /\ rc' = 10 /\ UNCHANGED samples
     \/ pc' = "exit" /\ rc' = 20 /\ UNCHANGED samples
     \/ pc' = "delay" /\ samples' \in 2 .. MaxSamples /\ UNCHANGED rc
     \/ pc' = "single" /\ UNCHANGED <<samples, rc>>
  /\ UNCHANGED <<execVars, sample, before, after, cursor, taskset_truncated, events, ghostVars>>

TakeSnapshot ==
  /\ pc = "single"
  /\ events' = AddRecord(events, [event |-> "snapshot-task", address |-> Self], MaxEvents)
  /\ pc' = "report"
  /\ UNCHANGED <<execVars, samples, sample, before, after, cursor, taskset_truncated, rc,
                 ghostVars>>

ClearedNot == after
Cleared == EmptyTable

(* take_task_set up to the first list: clear, Forbid, record the own task. *)
BeginSample ==
  /\ pc = "delay"
  /\ after' = AddTaskRecord(Cleared, Self)
  /\ cursor' = HeadOf(ready)
  /\ pc' = "ready"
  /\ signalled' = FALSE
  /\ wasReady' = ToSet(ready)
  /\ UNCHANGED <<execVars, samples, sample, before, taskset_truncated, events, rc, history>>

(* One turn of snapshot_task_list: record the node, follow its ln_Succ.    *)
Visit ==
  /\ Walking /\ cursor # Sentinel
  /\ after' = AddTaskRecord(after, cursor)
  /\ cursor' = SuccOf(cursor)
  /\ UNCHANGED <<execVars, pc, samples, sample, before, taskset_truncated, events, rc,
                 ghostVars>>

NextList ==
  /\ pc = "ready" /\ cursor = Sentinel
  /\ cursor' = HeadOf(wait)
  /\ pc' = "wait"
  /\ UNCHANGED <<execVars, samples, sample, before, after, taskset_truncated, events, rc,
                 ghostVars>>

Sampled == [live |-> Live, seen |-> ToSet(after.recs), full |-> after.truncated,
            torn |-> signalled]

ExchangedOnce == IF sample = 0 THEN <<after, before>> ELSE <<before, after>>
Exchanged == <<after, before>>

AnyFullLast == after.truncated
AnyFull == taskset_truncated \/ after.truncated

(* Permit; compare with the previous snapshot if there is one; the new set *)
(* becomes the old one and its buffer the next to be filled.               *)
EndSample ==
  /\ pc = "wait" /\ cursor = Sentinel
  /\ taskset_truncated' = AnyFull
  /\ events' = IF sample = 0 THEN events ELSE CompareTaskSets(events, before, after)
  /\ before' = Exchanged[1] /\ after' = Exchanged[2]
  /\ sample' = sample + 1
  /\ pc' = IF sample' < samples THEN "delay" ELSE "report"
  /\ signalled' = FALSE /\ wasReady' = {}
  /\ history' = Append(history, Sampled)
  /\ UNCHANGED <<execVars, samples, cursor, rc>>

Report ==
  /\ pc = "report"
  /\ rc' = IF events.truncated \/ taskset_truncated THEN 5 ELSE 0
  /\ pc' = "exit"
  /\ UNCHANGED <<execVars, samples, sample, before, after, cursor, taskset_truncated, events,
                 ghostVars>>

Tool == Start \/ TakeSnapshot \/ BeginSample \/ Visit \/ NextList \/ EndSample \/ Report

(* Forbid and Permit around the walk keep the other tasks off the lists.   *)
(* What they do before the watch or after it is of no consequence.         *)
Multitasking == pc = "delay"

Environment ==
  /\ \/ Multitasking /\ OtherTasks /\ UNCHANGED signalled
     \/ (pc = "delay" \/ Walking) /\ Interrupt /\ signalled' = Walking
  /\ UNCHANGED <<pc, toolVars, wasReady, history>>

Next == Tool \/ Environment

Spec == Init /\ [][Next]_vars
-----------------------------------------------------------------------------
TaskSets == Tables(Node, MaxTasks)

TypeOK ==
  /\ ExecTypeOK
  /\ pc \in Places
  /\ samples \in 0 .. MaxSamples /\ sample \in 0 .. MaxSamples
  /\ before \in TaskSets /\ after \in TaskSets
  /\ cursor \in Task \union {Sentinel}
  /\ taskset_truncated \in BOOLEAN
  /\ events \in Tables(Event, MaxEvents)
  /\ rc \in {0, 5, 10, 20}

(* However the lists are torn under the walk, RC 5 for a full table is     *)
(* earned: nodes met twice take no room, and a snapshot is flagged only    *)
(* when more tasks live than it has room for.                              *)
FullMeansMoreTasks ==
  \A k \in DOMAIN history : history[k].full => Cardinality(history[k].live) > MaxTasks

(* A snapshot records nothing that was not alive at that moment. *)
NoPhantoms ==
  /\ Walking => ToSet(after.recs) \subseteq Live
  /\ \A k \in DOMAIN history : history[k].seen \subseteq history[k].live

(* What interrupts can cost a snapshot is bounded: a task that was ready   *)
(* when the walk began is in it.  Only waiting tasks can be missed.        *)
ReadyNeverMissed ==
  pc = "wait" /\ cursor = Sentinel /\ ~ after.truncated => wasReady \subseteq ToSet(after.recs)

(* How often t should be logged as appearing in, and leaving, the sets s.  *)
Appearances(t, s) == {k \in 2 .. Len(s) : t \notin s[k - 1] /\ t \in s[k]}
Departures(t, s) == {k \in 2 .. Len(s) : t \in s[k - 1] /\ t \notin s[k]}
Logged(kind, t) == {i \in DOMAIN events.recs : events.recs[i] = [event |-> kind, address |-> t]}

LogTells(s) ==
  \A t \in Node :
    /\ Cardinality(Logged("task-added", t)) = Cardinality(Appearances(t, s))
    /\ Cardinality(Logged("task-removed", t)) = Cardinality(Departures(t, s))

(* Unless it overflowed, the log is the differences of the snapshots as    *)
(* they were recorded, no more and no less, over the whole watch.          *)
LogIsTheDifferences ==
  ~ events.truncated => LogTells([k \in DOMAIN history |-> history[k].seen])

(* RC 0 of a watch that no interrupt disturbed: the log is what happened   *)
(* to the tasks of the machine from snapshot to snapshot.                  *)
CleanWatchIsTrue ==
  (pc = "exit" /\ rc = 0 /\ \A k \in DOMAIN history : ~ history[k].torn) =>
    LogTells([k \in DOMAIN history |-> history[k].live])

(* The watch is an observer of single instants: a snapshot, taken in many  *)
(* steps, acts as one look made when the walk ends, torn or not.           *)
Observer == INSTANCE TaskObserver WITH
  Capacity <- MaxEvents, Looks <- MaxSamples,
  live <- Live, known <- ToSet(before.recs), taken <- sample, log <- events.recs

ImplementsObserver == Observer!Spec

(* docs/M4_2_QUALIFICATION.md:56: a task disappearing is evidence.  A task *)
(* alive in every snapshot of a watch that returns RC 0 is not in its log. *)
StableTaskIsSilent ==
  pc = "exit" /\ rc = 0 =>
    \A t \in Node :
      (\A k \in DOMAIN history : t \in history[k].live) =>
        Logged("task-added", t) = {} /\ Logged("task-removed", t) = {}
=============================================================================
