---------------------------- MODULE ListSnapshot ----------------------------
(***************************************************************************)
(* The collectors that record the nodes of Exec's lists in one table under *)
(* Forbid() and print it through a filter: src/taskview.c, processview.c,  *)
(* portview.c and residentview.c.                                          *)
(*                                                                         *)
(* TaskView and ProcessView record the current task, then TaskReady and    *)
(* TaskWait, and stop at the first record that does not fit.  ProcessView  *)
(* passes over nodes that are not NT_PROCESS.  PortView records the public *)
(* ports.  ResidentView records residents, libraries, devices, ports and   *)
(* resources, then TaskReady and TaskWait, and the current task last; it   *)
(* walks on when the table is full.                                        *)
(***************************************************************************)
EXTENDS BoundedRecords, Selection, ExecTasks

CONSTANTS
  MaxRecords,  (* TV_, PRV_, POV_ and RV_MAX_RECORDS                        *)
  Process,     (* the tasks of type NT_PROCESS                              *)
  Fixed,       (* addresses of nodes only tasks can move: ports, libraries  *)
  Named        (* those of them whose name holds the text of --name         *)

ASSUME SnapshotAssumption ==
  /\ MaxRecords \in Nat \ {0}
  /\ Process \subseteq Task \union {Self}
  /\ Named \subseteq Fixed /\ Fixed \intersect (Task \union {Self}) = {}
  /\ IsFiniteSet(Fixed)

VARIABLES
  program,   (* which of the four is run                                    *)
  nodes,     (* what the loops over the lists that Forbid keeps still accept*)
  pc,        (* where the tool is                                           *)
  wanted,    (* --state, --kind or --name                                   *)
  snapshot,  (* the TVSnapshot, PRVSnapshot, POVSnapshot or RVSnapshot      *)
  cursor,    (* the node the walk has reached                               *)
  out,       (* the records printed                                         *)
  rc,        (* return code of main                                         *)
  signalled, (* history: an interrupt moved a node under the walk           *)
  truth      (* history: every record there was when the walk began         *)

TaskPrograms == {"TaskView", "ProcessView"}
Programs == TaskPrograms \union {"PortView", "ResidentView"}
TaskStates == {"current", "ready", "wait"}

Record == [address : Task \union {Self} \union Fixed, state : TaskStates \union {"fixed"}]
Filters == [TaskView |-> TaskStates, ProcessView |-> TaskStates, PortView |-> {"named"},
            ResidentView |-> TaskStates \union {"tasks", "fixed"}]

Walking == pc \in {"ready", "wait"}

ListInit ==
  /\ ExecInit
  /\ program \in Programs /\ nodes \in SetToAllKPermutations(Fixed)
  /\ pc = "start" /\ wanted = "all"
  /\ snapshot = EmptyTable /\ cursor = Sentinel
  /\ out = << >> /\ rc = 0
  /\ signalled = FALSE /\ truth = {}
-----------------------------------------------------------------------------
(* What each program is about. *)
Inspected ==
  CASE program = "ProcessView" -> Process
    [] program = "PortView" -> {}
    [] OTHER -> Task \union {Self}

(* The nodes of the lists that only tasks can change, one list after the   *)
(* other.  Of ResModules, a node is an entry that the loop reaches, one of *)
(* the first 256, and that has the match word and a tag to itself; other   *)
(* entries of that array are nothing to ResidentView, and no nodes here.   *)
FixedRecords ==
  IF program \in TaskPrograms THEN << >>
  ELSE [i \in DOMAIN nodes |-> [address |-> nodes[i], state |-> "fixed"]]

Matches(r) ==
  \/ wanted \in {"all", r.state}
  \/ wanted = "tasks" /\ r.state \in TaskStates
  \/ wanted = "named" /\ r.address \in Named

Seen(t, where) == [address |-> t, state |-> where]

AddSeen(t, where) ==
  IF t \in Inspected THEN AddRecord(snapshot, Seen(t, where), MaxRecords) ELSE snapshot

TrueRecords ==
  ToSet(FixedRecords)
    \union {Seen(t, "current") : t \in Inspected \intersect {Self}}
    \union {Seen(t, "ready") : t \in Inspected \intersect ToSet(ready)}
    \union {Seen(t, "wait") : t \in Inspected \intersect ToSet(wait)}
-----------------------------------------------------------------------------
(* Wrong arguments, no memory, or a filter and on. *)
Start ==
  /\ pc = "start"
  /\ \/ pc' = "exit" /\ rc' \in {10, 20} /\ UNCHANGED wanted
     \/ pc' = "forbid" /\ wanted' \in Filters[program] \union {"all"} /\ UNCHANGED rc
  /\ UNCHANGED <<execVars, program, nodes, snapshot, cursor, out, signalled, truth>>

(* Forbid, and what is recorded before TaskReady.                          *)
Forbid ==
  /\ pc = "forbid"
  /\ snapshot' = IF program \in TaskPrograms THEN AddSeen(Self, "current")
                 ELSE AddRecords(snapshot, FixedRecords, MaxRecords)
  /\ pc' = IF program = "PortView" THEN "print" ELSE "ready"
  /\ cursor' = IF program = "PortView" THEN Sentinel ELSE HeadOf(ready)
  /\ truth' = TrueRecords
  /\ UNCHANGED <<execVars, program, nodes, wanted, out, rc, signalled>>

StopsHere == program \in TaskPrograms /\ snapshot'.truncated

VisitSkipsInPlace ==
  /\ Walking /\ cursor # Sentinel
  /\ snapshot' = AddSeen(cursor, pc)
  /\ cursor' = IF StopsHere THEN Sentinel
               ELSE IF cursor \in Inspected THEN SuccOf(cursor) ELSE cursor
  /\ UNCHANGED <<execVars, program, nodes, pc, wanted, out, rc, signalled, truth>>

(* One turn of the loop over a task list: record the node if it is of the  *)
(* right type, follow its ln_Succ.                                         *)
Visit ==
  /\ Walking /\ cursor # Sentinel
  /\ snapshot' = AddSeen(cursor, pc)
  /\ cursor' = IF StopsHere THEN Sentinel ELSE SuccOf(cursor)
  /\ UNCHANGED <<execVars, program, nodes, pc, wanted, out, rc, signalled, truth>>

EndOfListReadyOnly ==
  /\ Walking /\ cursor = Sentinel
  /\ pc' = "print"
  /\ UNCHANGED <<execVars, program, nodes, wanted, snapshot, cursor, out, rc, signalled, truth>>

(* TaskWait comes next, unless the program stops at a full table; then     *)
(* Permit, before which ResidentView records the current task.             *)
EndOfList ==
  /\ Walking /\ cursor = Sentinel
  /\ LET stops == program \in TaskPrograms /\ snapshot.truncated IN
     \/ /\ pc = "ready" /\ ~ stops
        /\ pc' = "wait" /\ cursor' = HeadOf(wait) /\ UNCHANGED snapshot
     \/ /\ pc = "wait" \/ stops
        /\ pc' = "print" /\ UNCHANGED cursor
        /\ snapshot' = IF program = "ResidentView" THEN AddSeen(Self, "current") ELSE snapshot
  /\ UNCHANGED <<execVars, program, nodes, wanted, out, rc, signalled, truth>>

Report ==
  /\ pc = "print"
  /\ out' = Selected(snapshot.recs, {r \in Record : Matches(r)})
  /\ rc' = IF snapshot.truncated THEN 5 ELSE 0
  /\ pc' = "exit"
  /\ UNCHANGED <<execVars, program, nodes, wanted, snapshot, cursor, signalled, truth>>

ListTool == Start \/ Forbid \/ Visit \/ EndOfList \/ Report

(* Until Forbid the other tasks run; interrupts come also under it.        *)
Environment ==
  /\ \/ pc = "forbid" /\ OtherTasks /\ UNCHANGED signalled
     \/ (pc = "forbid" \/ Walking) /\ Interrupt /\ signalled' = Walking
  /\ UNCHANGED <<program, nodes, pc, wanted, snapshot, cursor, out, rc, truth>>

ListNext == ListTool \/ Environment
-----------------------------------------------------------------------------
ListTypeOK ==
  /\ ExecTypeOK
  /\ pc \in {"start", "forbid", "ready", "wait", "print", "exit"}
  /\ wanted \in Filters[program] \union {"all"}
  /\ snapshot \in Tables(Record, MaxRecords)
  /\ cursor \in Task \union {Sentinel}
  /\ out \in Seq(Record)
  /\ rc \in {0, 5, 10, 20}

(* RC 0 when no interrupt came: what is printed is each inspected node as  *)
(* the filter asks for it, once, and nothing else.                         *)
QuietListIsExact ==
  pc = "exit" /\ rc = 0 /\ ~ signalled =>
    ToSet(out) = {r \in truth : Matches(r)} /\ IsInjective(out)

(* RC 5 is not raised for nothing: when no interrupt came, some inspected  *)
(* node really has no record.                                              *)
ListWarningIsEarned ==
  pc = "exit" /\ rc = 5 /\ ~ signalled => truth \ ToSet(snapshot.recs) # {}

(* Interrupts or not, a task that was ready, or current, and every node of *)
(* the other lists is in a snapshot that is not flagged: only waiting      *)
(* tasks get lost.                                                         *)
ReadyNeverMissed ==
  pc \in {"print", "exit"} /\ ~ snapshot.truncated =>
    {r \in truth : r.state # "wait"} \subseteq ToSet(snapshot.recs)
=============================================================================
