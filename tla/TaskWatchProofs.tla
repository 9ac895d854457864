--------------------------- MODULE TaskWatchProofs ---------------------------
(***************************************************************************)
(* What a snapshot of TraceExec is worth though interrupts tear the lists  *)
(* under the walk: for any number of tasks and any sizes of the tables.    *)
(***************************************************************************)
EXTENDS TaskWatch, DataProofs

(* An interrupt takes nobody out of the machine and lets no ready task     *)
(* overtake another.                                                       *)
LEMMA SignalKeeps ==
  ASSUME ExecTypeOK, NEW t \in Task, Signal(t)
  PROVE  /\ ExecTypeOK' /\ Live' = Live
         /\ ToSet(ready') = ToSet(ready) \union {t} /\ ToSet(wait') = ToSet(wait) \ {t}
         /\ t \notin ToSet(ready)
         /\ \A a, b \in DOMAIN ready' : a < b /\ ready'[a] # t /\ ready'[b] # t =>
              \E x, y \in DOMAIN ready : x < y /\ ready[x] = ready'[a] /\ ready[y] = ready'[b]
<1>1. TwoLists(Task, ready, wait)
  BY DEF ExecTypeOK, TwoLists
<1>2. t \in ToSet(wait) /\ wait' = Unlinked(wait, t) /\ ready' \in Enqueued(ready, t)
  BY DEF Signal
<1>3. /\ TwoLists(Task, ready', wait') /\ t \notin ToSet(ready)
      /\ ToSet(ready') = ToSet(ready) \union {t} /\ ToSet(wait') = ToSet(wait) \ {t}
      /\ \A a, b \in DOMAIN ready' : a < b /\ ready'[a] # t /\ ready'[b] # t =>
           \E x, y \in DOMAIN ready : x < y /\ ready[x] = ready'[a] /\ ready[y] = ready'[b]
  BY <1>1, <1>2, NodeMoves
<1>4. Live' = Live
  BY <1>2, <1>3 DEF Live
<1> QED BY <1>3, <1>4 DEF ExecTypeOK, TwoLists

(* Whatever the other tasks do, the lists stay lists without a node twice. *)
LEMMA OtherTasksKeep ==
  ASSUME ExecTypeOK, OtherTasks
  PROVE  ExecTypeOK'
<1>1. TwoLists(Task, ready, wait)
  BY DEF ExecTypeOK, TwoLists
<1>2. PICK t \in Task : Block(t) \/ AddTask(t) \/ RemTask(t)
  BY DEF OtherTasks
<1>3. Block(t) => TwoLists(Task, ready', wait')
  BY <1>1, NodeAppended DEF Block
<1>4. AddTask(t) => TwoLists(Task, ready', wait')
  BY <1>1, NodeAdded DEF AddTask, Live
<1>5. RemTask(t) => TwoLists(Task, ready', wait')
  BY <1>1, NodeRemoved DEF RemTask
<1>6. TwoLists(Task, ready', wait')
  BY <1>2, <1>3, <1>4, <1>5
<1> QED BY <1>6 DEF ExecTypeOK, TwoLists

(* The head of a list and the successor of a node in it. *)
LEMMA HeadIsFirst ==
  ASSUME NEW list \in Seq(Task)
  PROVE  \/ list = << >> /\ HeadOf(list) = Sentinel
         \/ 1 \in DOMAIN list /\ HeadOf(list) = list[1] /\ list[1] \in ToSet(list)
  BY DEF HeadOf, ToSet

LEMMA SuccIsNext ==
  ASSUME NEW list \in Seq(Task), IsInjective(list), NEW k \in 1 .. Len(list)
  PROVE  SuccIn(list, list[k]) = IF k = Len(list) THEN Sentinel ELSE list[k + 1]
BY NodeAt DEF SuccIn
-----------------------------------------------------------------------------

(* A live task is recorded, unless the table is full of other ones; nothing*)
(* recorded goes.                                                          *)
LEMMA TaskRecorded ==
  ASSUME NEW a \in TaskSets, IsInjective(a.recs), NEW t \in Node, NEW r,
         r = AddTaskRecord(a, t)
  PROVE  /\ r \in TaskSets /\ IsInjective(r.recs)
         /\ \/ /\ r.truncated = a.truncated
               /\ ToSet(r.recs) = ToSet(a.recs) \union {t}
               /\ a.truncated /\ Len(a.recs) = MaxTasks => r.recs = a.recs
            \/ /\ r.truncated /\ r.recs = a.recs
               /\ Len(a.recs) = MaxTasks /\ t \notin ToSet(a.recs)
<1>1. a.recs \in Seq(Node) /\ Len(a.recs) <= MaxTasks /\ a.truncated \in BOOLEAN /\ MaxTasks \in Nat
  BY CapacityAssumption DEF TaskSets, Tables
<1>2. CASE t \in ToSet(a.recs)
  <2>1. r = a
    BY <1>2 DEF AddTaskRecord
  <2> QED BY <1>2, <2>1
<1>3. CASE t \notin ToSet(a.recs)
  <2>1. r = AddRecord(a, t, MaxTasks)
    BY <1>3 DEF AddTaskRecord
  <2>2. r \in TaskSets
    BY <1>1, <2>1, AddRecordType DEF TaskSets
  <2>3. CASE Len(a.recs) >= MaxTasks
    <3>1. r.truncated /\ r.recs = a.recs
      BY <2>1, <2>3 DEF AddRecord, TaskSets, Tables
    <3>2. Len(a.recs) = MaxTasks
      BY <1>1, <2>3
    <3>3. IsInjective(r.recs)
      BY <3>1
    <3> QED BY <1>3, <2>2, <3>1, <3>2, <3>3
  <2>4. CASE ~ (Len(a.recs) >= MaxTasks)
    <3>1. r.recs = Append(a.recs, t) /\ r.truncated = a.truncated
      <4>1. r = [a EXCEPT !.recs = Append(@, t)]
        BY <2>1, <2>4 DEF AddRecord
      <4>2. a \in [recs : Seq(Node), truncated : BOOLEAN]
        BY Zenon DEF TaskSets, Tables
      <4> QED BY <4>1, <4>2
    <3>2. IsInjective(r.recs) /\ ToSet(r.recs) = ToSet(a.recs) \union {t}
      <4>1. a.recs \in Seq(Node) /\ t \in Node
        BY <1>1
      <4>2. /\ IsInjective(Append(a.recs, t))
            /\ ToSet(Append(a.recs, t)) = ToSet(a.recs) \union {t}
        <5> DEFINE s == a.recs
        <5>1. s \in Seq(Node) /\ IsInjective(s) /\ t \notin ToSet(s)
          BY <1>3, <4>1
        <5> HIDE DEF s
        <5>2. IsInjective(Append(s, t)) /\ ToSet(Append(s, t)) = ToSet(s) \union {t}
          BY <4>1, <5>1, AppendedIsWith, ZenonT(30)
        <5> QED BY <5>2 DEF s
      <4> QED BY <3>1, <4>2
    <3> QED BY <1>1, <2>2, <2>4, <3>1, <3>2
  <2> QED BY <2>3, <2>4
<1> QED BY <1>2, <1>3

(* A full table of live tasks and a live task outside it are more than it  *)
(* has room for.                                                           *)
LEMMA FullIsEarned ==
  ASSUME ExecTypeOK, NEW recs \in Seq(Node), IsInjective(recs), Len(recs) = MaxTasks,
         ToSet(recs) \subseteq Live, NEW x \in Live, x \notin ToSet(recs)
  PROVE  Cardinality(Live) > MaxTasks
<1>1. IsFiniteSet(Live)
  <2>1. IsFiniteSet(ToSet(ready)) /\ IsFiniteSet(ToSet(wait))
    <3>1. ready \in Seq(Task) /\ wait \in Seq(Task)
      BY DEF ExecTypeOK
    <3> QED BY <3>1, NodesAreFinite, Zenon
  <2>2. IsFiniteSet(ToSet(ready) \union ToSet(wait))
    BY <2>1, FS_Union, Zenon
  <2>3. IsFiniteSet((ToSet(ready) \union ToSet(wait)) \union {Self})
    BY <2>2, FS_AddElement, Zenon
  <2> QED BY <2>3 DEF Live
<1>2. IsFiniteSet(ToSet(recs)) /\ Cardinality(ToSet(recs)) = MaxTasks
  BY NodesAreFinite
<1>3. IsFiniteSet(ToSet(recs) \union {x}) /\ Cardinality(ToSet(recs) \union {x}) = MaxTasks + 1
  BY <1>2, FS_AddElement
<1>4. ToSet(recs) \union {x} \in SUBSET Live
  OBVIOUS
<1>5. Cardinality(ToSet(recs) \union {x}) <= Cardinality(Live)
  BY <1>1, <1>4, FS_Subset, Zenon
<1>6. Cardinality(Live) \in Nat /\ MaxTasks \in Nat
  BY <1>1, FS_CardinalityType, CapacityAssumption
<1> QED BY <1>3, <1>5, <1>6
-----------------------------------------------------------------------------
Samples == [live : SUBSET Node, seen : SUBSET Node, full : BOOLEAN, torn : BOOLEAN]

Lists == ExecTypeOK /\ pc \in Places /\ signalled \in BOOLEAN /\ history \in Seq(Samples)

(* What the walk has recorded is alive, each task once, and what did not   *)
(* fit is alive too.                                                       *)
Walk ==
  Walking =>
    /\ after \in TaskSets /\ IsInjective(after.recs) /\ ToSet(after.recs) \subseteq Live
    /\ cursor # Sentinel => cursor \in ToSet(ready) \union ToSet(wait)
    /\ after.truncated =>
         Len(after.recs) = MaxTasks /\ \E x \in Live : x \notin ToSet(after.recs)

(* While TaskReady is walked the cursor cannot be moved, only passed by    *)
(* tasks that were not there: of those that were, all that stand before the*)
(* cursor are recorded, however the list has grown.                        *)
BeforeCursor ==
  pc = "ready" =>
    /\ wasReady \subseteq ToSet(ready)
    /\ cursor # Sentinel => cursor \in ToSet(ready)
    /\ ~ after.truncated /\ cursor # Sentinel =>
         \A i, j \in DOMAIN ready :
           ready[j] = cursor /\ i < j /\ ready[i] \in wasReady => ready[i] \in ToSet(after.recs)
    /\ ~ after.truncated /\ cursor = Sentinel => wasReady \subseteq ToSet(after.recs)

AfterReady == pc = "wait" /\ ~ after.truncated => wasReady \subseteq ToSet(after.recs)

Told ==
  \A k \in DOMAIN history :
    /\ history[k].seen \subseteq history[k].live
    /\ history[k].full => Cardinality(history[k].live) > MaxTasks

IInv == Lists /\ Walk /\ BeforeCursor /\ AfterReady /\ Told

LEMMA InitIInv == Init => IInv
<1> SUFFICES ASSUME Init PROVE IInv OBVIOUS
<1>1. ready = << >> /\ wait = << >> /\ pc = "start" /\ history = << >> /\ signalled = FALSE
  BY DEF Init, ExecInit
<1>2. signalled \in BOOLEAN
  BY <1>1
<1>3. ExecTypeOK
  BY <1>1 DEF ExecTypeOK, IsInjective, ToSet
<1> QED BY <1>1, <1>2, <1>3 DEF IInv, Lists, Walk, Walking, BeforeCursor, AfterReady, Told, Places

(* Steps that touch neither lists nor history and are not part of a walk.  *)
LEMMA IdleStep ==
  ASSUME IInv, UNCHANGED <<execVars, ghostVars>>, ~ Walking', pc' \in Places
  PROVE  IInv'
<1>1. /\ ready' = ready /\ wait' = wait /\ signalled' = signalled /\ history' = history
      /\ pc' # "ready" /\ pc' # "wait"
  BY DEF execVars, ghostVars, Walking
<1>2. Lists'
  BY <1>1 DEF IInv, Lists, ExecTypeOK
<1>3. Told'
  BY <1>1 DEF IInv, Told
<1> QED BY <1>1, <1>2, <1>3 DEF IInv, Walk, Walking, BeforeCursor, AfterReady

(* The own task is the first record and the cursor stands before all.      *)
LEMMA BeginSampleStep ==
  ASSUME IInv, BeginSample
  PROVE  IInv'
<1>1. /\ after' = AddTaskRecord(EmptyTable, Self) /\ cursor' = HeadOf(ready) /\ pc' = "ready"
      /\ signalled' = FALSE /\ wasReady' = ToSet(ready)
      /\ ready' = ready /\ wait' = wait /\ history' = history
  BY DEF BeginSample, execVars, Cleared
<1>2. ready \in Seq(Task) /\ wait \in Seq(Task) /\ IsInjective(ready)
  BY DEF IInv, Lists, ExecTypeOK
<1>3. Lists'
  <2>1. signalled' \in BOOLEAN
    BY <1>1
  <2> QED BY <1>1, <2>1 DEF IInv, Lists, ExecTypeOK, Places
<1>4. /\ after' \in TaskSets /\ IsInjective(after'.recs)
      /\ ToSet(after'.recs) = {Self} /\ ~ after'.truncated
  <2>1. EmptyTable \in TaskSets /\ EmptyTable.recs = << >> /\ EmptyTable.truncated = FALSE
    BY CapacityAssumption, EmptyTableType DEF TaskSets, EmptyTable
  <2>2. IsInjective(EmptyTable.recs) /\ ToSet(EmptyTable.recs) = {} /\ Len(EmptyTable.recs) = 0
    BY <2>1 DEF IsInjective, ToSet
  <2>3. Self \in Node /\ MaxTasks # 0
    BY CapacityAssumption DEF Node
  <2>4. /\ after' \in TaskSets /\ IsInjective(after'.recs)
        /\ \/ /\ after'.truncated = EmptyTable.truncated
              /\ ToSet(after'.recs) = ToSet(EmptyTable.recs) \union {Self}
           \/ Len(EmptyTable.recs) = MaxTasks
    BY <1>1, <2>1, <2>2, <2>3, TaskRecorded, Zenon
  <2> QED BY <2>1, <2>2, <2>3, <2>4
<1>5. Walk'
  <2>1. cursor' # Sentinel => cursor' \in ToSet(ready)
    BY <1>1, <1>2, HeadIsFirst
  <2>2. Self \in Live' /\ Live' = Live
    BY <1>1 DEF Live
  <2> QED BY <1>1, <1>4, <2>1, <2>2 DEF Walk
<1>6. BeforeCursor'
  <2>1. CASE ready = << >>
    <3>1. cursor' = Sentinel /\ wasReady' = {}
      BY <1>1, <2>1 DEF HeadOf, ToSet
    <3> QED BY <1>1, <3>1 DEF BeforeCursor
  <2>2. CASE ready # << >>
    <3>1. 1 \in DOMAIN ready /\ cursor' = ready[1] /\ ready[1] \in ToSet(ready)
      BY <1>1, <1>2, <2>2, HeadIsFirst
    <3>2. cursor' # Sentinel
      BY <1>2, <3>1, NodeAssumption
    <3>3. ASSUME NEW i \in DOMAIN ready, NEW j \in DOMAIN ready, ready[j] = cursor', i < j
          PROVE  FALSE
      <4>1. j = 1
        BY <1>2, <3>1, <3>3 DEF IsInjective
      <4> QED BY <1>2, <3>3, <4>1
    <3> QED BY <1>1, <3>1, <3>2, <3>3 DEF BeforeCursor
  <2> QED BY <2>1, <2>2
<1>7. AfterReady' /\ Told'
  BY <1>1 DEF IInv, AfterReady, Told
<1> QED BY <1>3, <1>5, <1>6, <1>7 DEF IInv

(* One node is recorded and passed. *)
LEMMA VisitStep ==
  ASSUME IInv, Visit
  PROVE  IInv'
<1>1. /\ Walking /\ cursor # Sentinel /\ after' = AddTaskRecord(after, cursor)
      /\ cursor' = SuccOf(cursor) /\ pc' = pc /\ ready' = ready /\ wait' = wait
      /\ signalled' = signalled /\ wasReady' = wasReady /\ history' = history
  BY DEF Visit, execVars, ghostVars
<1>2. /\ ready \in Seq(Task) /\ IsInjective(ready) /\ wait \in Seq(Task) /\ IsInjective(wait)
      /\ after \in TaskSets /\ IsInjective(after.recs) /\ ToSet(after.recs) \subseteq Live
      /\ cursor \in ToSet(ready) \union ToSet(wait)
      /\ after.truncated => Len(after.recs) = MaxTasks /\ \E x \in Live : x \notin ToSet(after.recs)
  BY <1>1 DEF IInv, Lists, Walk, ExecTypeOK
<1>3. Lists' /\ Told'
  BY <1>1 DEF IInv, Lists, ExecTypeOK, Told
<1>4. cursor \in Node /\ cursor \in Live
  BY <1>2 DEF Node, Live, ToSet
<1>5. /\ after' \in TaskSets /\ IsInjective(after'.recs)
      /\ \/ /\ after'.truncated = after.truncated
            /\ ToSet(after'.recs) = ToSet(after.recs) \union {cursor}
            /\ after.truncated /\ Len(after.recs) = MaxTasks => after'.recs = after.recs
         \/ /\ after'.truncated /\ after'.recs = after.recs
            /\ Len(after.recs) = MaxTasks /\ cursor \notin ToSet(after.recs)
  BY <1>1, <1>2, <1>4, TaskRecorded, Zenon
<1> DEFINE list == IF cursor \in ToSet(ready) THEN ready ELSE wait
<1>6. list \in Seq(Task) /\ IsInjective(list) /\ cursor \in ToSet(list)
  BY <1>2
<1>7. cursor' = SuccIn(list, cursor)
  BY <1>1 DEF SuccOf
<1>8. list = ready \/ list = wait
  OBVIOUS
<1>9. cursor \in ToSet(ready) => list = ready
  OBVIOUS
<1> HIDE DEF list
<1>10. PICK k \in 1 .. Len(list) : list[k] = cursor
  BY <1>6 DEF ToSet
<1>11. cursor' = IF k = Len(list) THEN Sentinel ELSE list[k + 1]
  BY <1>6, <1>7, <1>10, SuccIsNext
<1>12. k = Len(list) \/ (k # Len(list) /\ k + 1 \in DOMAIN list /\ list[k + 1] \in ToSet(list)
                          /\ list[k + 1] # Sentinel)
  BY <1>6, NodeAssumption DEF ToSet
<1>13. Walk'
  <2>1. Live' = Live
    BY <1>1 DEF Live
  <2>2. ToSet(after'.recs) \subseteq Live
    BY <1>2, <1>4, <1>5
  <2>3. cursor' # Sentinel => cursor' \in ToSet(ready) \union ToSet(wait)
    BY <1>8, <1>11, <1>12
  <2>4. after'.truncated =>
          Len(after'.recs) = MaxTasks /\ \E x \in Live : x \notin ToSet(after'.recs)
    BY <1>2, <1>4, <1>5
  <2> QED BY <1>1, <1>5, <2>1, <2>2, <2>3, <2>4 DEF Walk
<1>14. ~ after'.truncated =>
         ~ after.truncated /\ ToSet(after'.recs) = ToSet(after.recs) \union {cursor}
  BY <1>5
<1>15. BeforeCursor'
  <2> SUFFICES ASSUME pc = "ready" PROVE BeforeCursor'
    BY <1>1 DEF BeforeCursor
  <2>1. /\ wasReady \subseteq ToSet(ready) /\ cursor \in ToSet(ready)
        /\ ~ after.truncated =>
             \A i, j \in DOMAIN ready :
               ready[j] = cursor /\ i < j /\ ready[i] \in wasReady => ready[i] \in ToSet(after.recs)
    BY <1>1 DEF IInv, BeforeCursor
  <2>2. list = ready /\ k \in DOMAIN ready /\ ready[k] = cursor /\ DOMAIN ready = 1 .. Len(ready)
    BY <1>2, <1>9, <1>10, <2>1
  <2>3. ASSUME ~ after'.truncated, NEW i \in DOMAIN ready, i <= k, ready[i] \in wasReady
        PROVE  ready[i] \in ToSet(after'.recs)
    <3>1. CASE i = k
      BY <1>14, <2>2, <2>3, <3>1
    <3>2. CASE i < k
      BY <1>14, <2>1, <2>2, <2>3, <3>2
    <3> QED BY <2>2, <2>3, <3>1, <3>2
  <2>4. CASE k = Len(list)
    <3>1. cursor' = Sentinel
      BY <1>11, <2>4
    <3>2. ASSUME ~ after'.truncated, NEW x \in wasReady PROVE x \in ToSet(after'.recs)
      <4>1. PICK i \in DOMAIN ready : ready[i] = x
        BY <2>1 DEF ToSet
      <4>2. i <= k
        BY <2>2, <2>4, <4>1
      <4> QED BY <2>3, <3>2, <4>1, <4>2
    <3> QED BY <1>1, <2>1, <3>1, <3>2 DEF BeforeCursor
  <2>5. CASE k # Len(list)
    <3>1. cursor' = ready[k + 1] /\ k + 1 \in DOMAIN ready /\ cursor' # Sentinel /\ cursor' \in ToSet(ready)
      BY <1>11, <1>12, <2>2, <2>5
    <3>2. ASSUME ~ after'.truncated, NEW i \in DOMAIN ready, NEW j \in DOMAIN ready,
                 ready[j] = cursor', i < j, ready[i] \in wasReady
          PROVE  ready[i] \in ToSet(after'.recs)
      <4>1. j = k + 1
        BY <1>2, <3>1, <3>2 DEF IsInjective
      <4>2. i <= k
        BY <2>2, <3>2, <4>1
      <4> QED BY <2>3, <3>2, <4>2
    <3> QED BY <1>1, <2>1, <3>1, <3>2 DEF BeforeCursor
  <2> QED BY <2>4, <2>5
<1>16. AfterReady'
  BY <1>1, <1>14 DEF IInv, AfterReady
<1> QED BY <1>3, <1>13, <1>15, <1>16 DEF IInv

(* The end of TaskReady: what was ready is recorded, and stays so.         *)
LEMMA NextListStep ==
  ASSUME IInv, NextList
  PROVE  IInv'
<1>1. /\ pc = "ready" /\ cursor = Sentinel /\ cursor' = HeadOf(wait) /\ pc' = "wait"
      /\ after' = after /\ ready' = ready /\ wait' = wait /\ signalled' = signalled
      /\ wasReady' = wasReady /\ history' = history
  BY DEF NextList, execVars, ghostVars
<1>2. Lists' /\ Told'
  BY <1>1 DEF IInv, Lists, ExecTypeOK, Told, Places
<1>3. Walk'
  <2>1. wait \in Seq(Task)
    BY DEF IInv, Lists, ExecTypeOK
  <2>2. cursor' # Sentinel => cursor' \in ToSet(wait)
    BY <1>1, <2>1, HeadIsFirst
  <2>3. Live' = Live
    BY <1>1 DEF Live
  <2> QED BY <1>1, <2>2, <2>3 DEF IInv, Walk, Walking
<1>4. BeforeCursor' /\ AfterReady'
  BY <1>1 DEF IInv, BeforeCursor, AfterReady
<1> QED BY <1>2, <1>3, <1>4 DEF IInv

(* The snapshot is entered into the history as the walk has left it.       *)
LEMMA EndSampleStep ==
  ASSUME IInv, EndSample
  PROVE  IInv'
<1>1. /\ pc = "wait" /\ pc' \in {"delay", "report"} /\ signalled' = FALSE
      /\ ready' = ready /\ wait' = wait /\ history' = Append(history, Sampled)
  BY DEF EndSample, execVars
<1>2. /\ ExecTypeOK /\ history \in Seq(Samples) /\ signalled \in BOOLEAN
      /\ after \in TaskSets /\ IsInjective(after.recs) /\ ToSet(after.recs) \subseteq Live
      /\ after.truncated => Len(after.recs) = MaxTasks /\ \E x \in Live : x \notin ToSet(after.recs)
  BY <1>1 DEF IInv, Lists, Walk, Walking
<1>3. after.recs \in Seq(Node) /\ after.truncated \in BOOLEAN
  BY <1>2 DEF TaskSets, Tables
<1>4. Live \subseteq Node
  BY <1>2 DEF Live, Node, ExecTypeOK, ToSet
<1>5. /\ Sampled \in Samples /\ Sampled.live = Live /\ Sampled.seen = ToSet(after.recs)
      /\ Sampled.full = after.truncated
  BY <1>2, <1>3, <1>4, Zenon DEF Sampled, Samples
<1>6. after.truncated => Cardinality(Live) > MaxTasks
  BY <1>2, <1>3, FullIsEarned
<1>7. Told'
  <2>1. /\ DOMAIN history = 1 .. Len(history) /\ Len(history) \in Nat
        /\ DOMAIN history' = 1 .. Len(history) + 1
        /\ \A i \in 1 .. Len(history) : history'[i] = history[i]
        /\ history'[Len(history) + 1] = Sampled
    BY <1>1, <1>2, <1>5
  <2> SUFFICES ASSUME NEW i \in 1 .. Len(history) + 1
               PROVE  /\ history'[i].seen \subseteq history'[i].live
                      /\ history'[i].full => Cardinality(history'[i].live) > MaxTasks
    BY <2>1 DEF Told
  <2>2. CASE i \in 1 .. Len(history)
    BY <2>1, <2>2 DEF IInv, Told
  <2>3. CASE i = Len(history) + 1
    BY <1>2, <1>5, <1>6, <2>1, <2>3
  <2> QED BY <2>1, <2>2, <2>3
<1>8. Lists'
  <2>1. signalled' \in BOOLEAN
    BY <1>1
  <2>2. history' \in Seq(Samples)
    BY <1>1, <1>2, <1>5
  <2> QED BY <1>1, <1>2, <2>1, <2>2 DEF Lists, ExecTypeOK, Places
<1> QED BY <1>1, <1>7, <1>8 DEF IInv, Walk, Walking, BeforeCursor, AfterReady

(* An interrupt under the walk: the cursor's node may be moved, but nobody *)
(* who was ready is moved to a place behind it.                            *)
LEMMA InterruptStep ==
  ASSUME IInv, Interrupt, signalled' = Walking, UNCHANGED <<pc, toolVars, wasReady, history>>
  PROVE  IInv'
<1>1. /\ pc' = pc /\ after' = after /\ cursor' = cursor /\ wasReady' = wasReady
      /\ history' = history
  BY DEF toolVars
<1>2. PICK t \in Task : Signal(t)
  BY DEF Interrupt
<1>3. ExecTypeOK /\ ready \in Seq(Task) /\ IsInjective(ready)
  BY DEF IInv, Lists, ExecTypeOK
<1>4. /\ ExecTypeOK' /\ Live' = Live
      /\ ToSet(ready') = ToSet(ready) \union {t} /\ ToSet(wait') = ToSet(wait) \ {t}
      /\ t \notin ToSet(ready)
      /\ \A a, b \in DOMAIN ready' : a < b /\ ready'[a] # t /\ ready'[b] # t =>
           \E x, y \in DOMAIN ready : x < y /\ ready[x] = ready'[a] /\ ready[y] = ready'[b]
  BY <1>2, <1>3, SignalKeeps, Zenon
<1>5. Lists'
  <2>1. signalled' \in BOOLEAN
    <3>1. CASE Walking
      <4>1. signalled' = TRUE
        BY <3>1
      <4> QED BY <4>1
    <3>2. CASE ~ Walking
      <4>1. signalled' = FALSE
        BY <3>2
      <4> QED BY <4>1
    <3> QED BY <3>1, <3>2
  <2> QED BY <1>1, <1>4, <2>1 DEF IInv, Lists
<1>6. Walk'
  BY <1>1, <1>4 DEF IInv, Walk, Walking
<1>7. BeforeCursor'
  <2> SUFFICES ASSUME pc = "ready" PROVE BeforeCursor'
    BY <1>1 DEF BeforeCursor
  <2>1. /\ wasReady \subseteq ToSet(ready) /\ (cursor # Sentinel => cursor \in ToSet(ready))
        /\ ~ after.truncated /\ cursor # Sentinel =>
             \A i, j \in DOMAIN ready :
               ready[j] = cursor /\ i < j /\ ready[i] \in wasReady => ready[i] \in ToSet(after.recs)
        /\ ~ after.truncated /\ cursor = Sentinel => wasReady \subseteq ToSet(after.recs)
    BY DEF IInv, BeforeCursor
  <2>2. ASSUME ~ after.truncated, cursor # Sentinel,
               NEW a \in DOMAIN ready', NEW b \in DOMAIN ready',
               ready'[b] = cursor, a < b, ready'[a] \in wasReady
        PROVE  ready'[a] \in ToSet(after.recs)
    <3>1. ready'[a] # t /\ ready'[b] # t
      BY <1>4, <2>1, <2>2
    <3>2. PICK x, y \in DOMAIN ready : x < y /\ ready[x] = ready'[a] /\ ready[y] = ready'[b]
      BY <1>4, <2>2, <3>1
    <3> QED BY <2>1, <2>2, <3>2
  <2> QED BY <1>1, <1>4, <2>1, <2>2 DEF BeforeCursor
<1>8. AfterReady' /\ Told'
  BY <1>1 DEF IInv, AfterReady, Told
<1> QED BY <1>5, <1>6, <1>7, <1>8 DEF IInv

LEMMA StepIInv == IInv /\ [Next]_vars => IInv'
<1> SUFFICES ASSUME IInv, [Next]_vars PROVE IInv' OBVIOUS
<1>1. CASE Start
  <2>1. pc' \in Places /\ ~ Walking' /\ UNCHANGED <<execVars, ghostVars>>
    BY <1>1 DEF Start, Places, Walking
  <2> QED BY <2>1, IdleStep
<1>2. CASE TakeSnapshot
  <2>1. pc' \in Places /\ ~ Walking' /\ UNCHANGED <<execVars, ghostVars>>
    BY <1>2 DEF TakeSnapshot, Places, Walking
  <2> QED BY <2>1, IdleStep
<1>3. CASE BeginSample
  BY <1>3, BeginSampleStep
<1>4. CASE Visit
  BY <1>4, VisitStep
<1>5. CASE NextList
  BY <1>5, NextListStep
<1>6. CASE EndSample
  BY <1>6, EndSampleStep
<1>7. CASE Report
  <2>1. pc' \in Places /\ ~ Walking' /\ UNCHANGED <<execVars, ghostVars>>
    BY <1>7 DEF Report, Places, Walking
  <2> QED BY <2>1, IdleStep
<1>8. CASE Environment
  <2>1. CASE Interrupt /\ signalled' = Walking
    BY <1>8, <2>1, InterruptStep DEF Environment
  <2>2. CASE Multitasking /\ OtherTasks /\ UNCHANGED signalled
    <3>1. /\ pc' = pc /\ pc # "ready" /\ pc # "wait" /\ history' = history /\ signalled' = signalled
      BY <1>8, <2>2 DEF Environment, Multitasking
    <3>2. ExecTypeOK'
      BY <2>2, OtherTasksKeep DEF IInv, Lists
    <3> QED BY <3>1, <3>2 DEF IInv, Lists, Walk, Walking, BeforeCursor, AfterReady, Told
  <2> QED BY <1>8, <2>1, <2>2 DEF Environment
<1>9. CASE UNCHANGED vars
  <2>1. /\ ready' = ready /\ wait' = wait /\ pc' = pc /\ after' = after /\ cursor' = cursor
        /\ signalled' = signalled /\ wasReady' = wasReady /\ history' = history
    BY <1>9 DEF vars, execVars, toolVars, ghostVars
  <2>2. Live' = Live
    BY <2>1 DEF Live
  <2> QED BY <2>1, <2>2 DEF IInv, Lists, ExecTypeOK, Walk, Walking, BeforeCursor, AfterReady, Told
<1> QED BY <1>1, <1>2, <1>3, <1>4, <1>5, <1>6, <1>7, <1>8, <1>9 DEF Next, Tool

THEOREM Invariance == Spec => []IInv
BY InitIInv, StepIInv, PTL DEF Spec

(* Whatever interrupts do to the lists, no snapshot holds a task that is   *)
(* not alive when the walk has ended.                                      *)
THEOREM NothingInvented == Spec => []NoPhantoms
<1>1. IInv => NoPhantoms
  BY DEF IInv, Walk, Told, NoPhantoms
<1> QED BY <1>1, Invariance, PTL

(* A snapshot is flagged only if more tasks live than the table can hold,  *)
(* for every number of tasks and every size of the table.                  *)
THEOREM FlagIsEarned == Spec => []FullMeansMoreTasks
<1>1. IInv => FullMeansMoreTasks
  BY DEF IInv, Told, FullMeansMoreTasks
<1> QED BY <1>1, Invariance, PTL

(* A task that was ready when the walk began is never missed for an        *)
(* interrupt, for every number of tasks and interrupts.                    *)
THEOREM ReadyIsSeen == Spec => []ReadyNeverMissed
<1>1. IInv => ReadyNeverMissed
  BY DEF IInv, AfterReady, ReadyNeverMissed
<1> QED BY <1>1, Invariance, PTL
-----------------------------------------------------------------------------
(* The log: where in a sequence of events those of a kind are. *)
LoggedIn(recs, kind, t) == {i \in DOMAIN recs : recs[i] = [event |-> kind, address |-> t]}

Kinds == {"task-added", "task-removed"}

LEMMA LoggedIsFinite ==
  ASSUME NEW recs \in Seq(Event), NEW kind, NEW t
  PROVE  /\ IsFiniteSet(LoggedIn(recs, kind, t)) /\ Cardinality(LoggedIn(recs, kind, t)) \in Nat
         /\ LoggedIn(recs, kind, t) \subseteq 1 .. Len(recs)
<1>1. LoggedIn(recs, kind, t) \subseteq 1 .. Len(recs) /\ Len(recs) \in Nat
  BY DEF LoggedIn
<1>2. IsFiniteSet(1 .. Len(recs))
  BY <1>1, FS_Interval, SMTT(30)
<1>3. IsFiniteSet(LoggedIn(recs, kind, t))
  BY <1>1, <1>2, FS_Subset, Zenon
<1>4. Cardinality(LoggedIn(recs, kind, t)) \in Nat
  BY <1>3, FS_CardinalityType, Zenon
<1> QED BY <1>1, <1>3, <1>4

(* The events made of an order of tasks. *)
LEMMA EventsMade ==
  ASSUME NEW kind \in Kinds, NEW order \in Seq(Node)
  PROVE  /\ EventsFor(kind, order) \in Seq(Event) /\ Len(EventsFor(kind, order)) = Len(order)
         /\ \A i \in 1 .. Len(order) :
              EventsFor(kind, order)[i] = [event |-> kind, address |-> order[i]]
<1>1. DOMAIN order = 1 .. Len(order) /\ Len(order) \in Nat /\ \A i \in 1 .. Len(order) : order[i] \in Node
  OBVIOUS
<1>2. \A i \in 1 .. Len(order) : [event |-> kind, address |-> order[i]] \in Event
  BY <1>1 DEF Event, Kinds
<1>3. EventsFor(kind, order) = [i \in 1 .. Len(order) |-> [event |-> kind, address |-> order[i]]]
  BY <1>1 DEF EventsFor
<1>4. EventsFor(kind, order) \in [1 .. Len(order) -> Event]
  BY <1>2, <1>3
<1>5. /\ EventsFor(kind, order) \in Seq(Event)
      /\ Len(EventsFor(kind, order)) = Len(order)
  <2> DEFINE e == EventsFor(kind, order)
  <2>1. e \in [1 .. Len(order) -> Event]
    BY <1>4
  <2> HIDE DEF e
  <2>2. e \in Seq(Event) /\ Len(e) = Len(order)
    BY <1>1, <2>1
  <2> QED BY <2>2 DEF e
<1> QED BY <1>3, <1>5

(* Logging an order of tasks logs each of them once more, and of no other  *)
(* kind.                                                                   *)
LEMMA LoggedOnceMore ==
  ASSUME NEW recs \in Seq(Event), NEW kind \in Kinds, NEW order \in Seq(Node),
         IsInjective(order), NEW k \in Kinds, NEW t \in Node
  PROVE  /\ recs \o EventsFor(kind, order) \in Seq(Event)
         /\ Cardinality(LoggedIn(recs \o EventsFor(kind, order), k, t)) =
              IF k = kind /\ t \in ToSet(order) THEN Cardinality(LoggedIn(recs, k, t)) + 1
              ELSE Cardinality(LoggedIn(recs, k, t))
<1> DEFINE new == EventsFor(kind, order)
           all == recs \o new
           L == LoggedIn(recs, k, t)
<1>1. /\ new \in Seq(Event) /\ Len(new) = Len(order)
      /\ \A i \in 1 .. Len(order) : new[i] = [event |-> kind, address |-> order[i]]
  BY EventsMade
<1> HIDE DEF new
<1>2. /\ all \in Seq(Event) /\ Len(all) = Len(recs) + Len(new)
      /\ \A i \in 1 .. Len(recs) : all[i] = recs[i]
      /\ \A i \in 1 .. Len(new) : all[Len(recs) + i] = new[i]
  <2>1. new \in Seq(Event)
    BY <1>1
  <2>2. all \in Seq(Event) /\ Len(all) = Len(recs) + Len(new)
    BY <2>1
  <2>3. /\ \A i \in 1 .. Len(recs) : all[i] = recs[i]
        /\ \A i \in 1 .. Len(new) : all[Len(recs) + i] = new[i]
    BY <2>1
  <2> QED BY <2>2, <2>3
<1>3. /\ Len(recs) \in Nat /\ Len(new) \in Nat /\ DOMAIN order = 1 .. Len(new)
      /\ DOMAIN all = 1 .. Len(recs) + Len(new) /\ DOMAIN recs = 1 .. Len(recs)
  BY <1>1, <1>2
<1> HIDE DEF all
<1>4. /\ IsFiniteSet(L) /\ Cardinality(L) \in Nat /\ L \subseteq 1 .. Len(recs)
  BY LoggedIsFinite
<1>5. ASSUME NEW i \in 1 .. Len(recs)
      PROVE  i \in LoggedIn(all, k, t) <=> i \in L
  <2>1. all[i] = recs[i] /\ i \in DOMAIN all /\ i \in DOMAIN recs
    BY <1>2, <1>3
  <2> QED BY <2>1, Zenon DEF LoggedIn
<1>6. ASSUME NEW i \in 1 .. Len(new)
      PROVE  Len(recs) + i \in LoggedIn(all, k, t) <=> k = kind /\ order[i] = t
  <2>1. Len(recs) + i \in DOMAIN all /\ all[Len(recs) + i] = [event |-> kind, address |-> order[i]]
    BY <1>1, <1>2, <1>3
  <2> QED BY <2>1 DEF LoggedIn
<1>7. \A j \in DOMAIN all : j \in 1 .. Len(recs) \/ \E i \in 1 .. Len(new) : j = Len(recs) + i
  <2> SUFFICES ASSUME NEW j \in DOMAIN all, j \notin 1 .. Len(recs)
               PROVE  \E i \in 1 .. Len(new) : j = Len(recs) + i
    OBVIOUS
  <2>1. j - Len(recs) \in 1 .. Len(new) /\ j = Len(recs) + (j - Len(recs))
    BY <1>3
  <2> QED BY <2>1
<1>8. \A j \in LoggedIn(all, k, t) : j \in DOMAIN all
  BY DEF LoggedIn
<1>9. CASE k = kind /\ t \in ToSet(order)
  <2>1. PICK i \in 1 .. Len(new) : order[i] = t
    BY <1>3, <1>9 DEF ToSet
  <2>2. \A h \in 1 .. Len(new) : order[h] = t => h = i
    BY <1>3, <2>1 DEF IsInjective
  <2>3. LoggedIn(all, k, t) = L \union {Len(recs) + i}
    <3>1. LoggedIn(all, k, t) \subseteq L \union {Len(recs) + i}
      <4> SUFFICES ASSUME NEW j \in LoggedIn(all, k, t), j \notin L PROVE j = Len(recs) + i
        OBVIOUS
      <4>1. PICK h \in 1 .. Len(new) : j = Len(recs) + h
        BY <1>5, <1>7, <1>8
      <4>2. order[h] = t
        BY <1>6, <4>1
      <4> QED BY <2>2, <4>1, <4>2
    <3>2. L \subseteq LoggedIn(all, k, t)
      BY <1>4, <1>5
    <3>3. Len(recs) + i \in LoggedIn(all, k, t)
      BY <1>6, <1>9, <2>1
    <3> QED BY <3>1, <3>2, <3>3
  <2>4. Len(recs) + i \notin L
    BY <1>3, <1>4
  <2>5. Cardinality(L \union {Len(recs) + i}) = Cardinality(L) + 1
    BY <1>4, <2>4, FS_AddElement
  <2> QED BY <1>2, <1>9, <2>3, <2>5 DEF all, new
<1>10. CASE ~ (k = kind /\ t \in ToSet(order))
  <2>1. \A i \in 1 .. Len(new) : Len(recs) + i \notin LoggedIn(all, k, t)
    BY <1>3, <1>6, <1>10 DEF ToSet
  <2>2. LoggedIn(all, k, t) = L
    <3>1. \A j \in LoggedIn(all, k, t) : j \in L
      BY <1>5, <1>7, <1>8, <2>1
    <3>2. \A j \in L : j \in LoggedIn(all, k, t)
      BY <1>4, <1>5
    <3> QED BY <3>1, <3>2, Zenon
  <2> QED BY <1>2, <1>10, <2>2 DEF all, new
<1> QED BY <1>9, <1>10

(* One look more at the tasks: when a task appears or leaves with it, the  *)
(* changes are one more.                                                   *)
ChangesGrow(t, r, s, x) ==
  /\ Cardinality(Appearances(t, r)) =
       IF Len(s) # 0 /\ t \notin s[Len(s)] /\ t \in x
         THEN Cardinality(Appearances(t, s)) + 1 ELSE Cardinality(Appearances(t, s))
  /\ Cardinality(Departures(t, r)) =
       IF Len(s) # 0 /\ t \in s[Len(s)] /\ t \notin x
         THEN Cardinality(Departures(t, s)) + 1 ELSE Cardinality(Departures(t, s))

LEMMA OneLookMore ==
  ASSUME NEW s \in Seq(SUBSET Node), NEW x \in SUBSET Node, NEW r, r = Append(s, x), NEW t
  PROVE  ChangesGrow(t, r, s, x)
<1> DEFINE N == Len(s)
           A == Appearances(t, s)
           D == Departures(t, s)
<1>1. /\ N \in Nat /\ Len(r) = N + 1 /\ r[N + 1] = x
      /\ \A i \in 1 .. N : r[i] = s[i]
  OBVIOUS
<1>2. IsFiniteSet(2 .. N)
  <2>1. 2 \in Int /\ N \in Int
    BY <1>1
  <2> HIDE DEF N
  <2> QED BY <2>1, FS_Interval, Zenon
<1>3. /\ A \subseteq 2 .. N /\ D \subseteq 2 .. N
  BY DEF Appearances, Departures
<1>4. IsFiniteSet(A) /\ IsFiniteSet(D)
  BY <1>2, <1>3, FS_Subset, Zenon
<1>5. N + 1 \notin A /\ N + 1 \notin D
  <2> HIDE DEF A, D, N
  <2> QED BY <1>1, <1>3
<1>6. \A k \in 2 .. N : /\ k \in Appearances(t, r) <=> k \in A
                        /\ k \in Departures(t, r) <=> k \in D
  <2> SUFFICES ASSUME NEW k \in 2 .. N
               PROVE  /\ k \in Appearances(t, r) <=> k \in A
                      /\ k \in Departures(t, r) <=> k \in D
    OBVIOUS
  <2>1. k \in 2 .. Len(r) /\ k \in 1 .. N /\ k - 1 \in 1 .. N
    BY <1>1
  <2>2. r[k] = s[k] /\ r[k - 1] = s[k - 1]
    BY <1>1, <2>1
  <2> QED BY <2>1, <2>2 DEF Appearances, Departures
<1>7. /\ N + 1 \in Appearances(t, r) <=> N # 0 /\ t \notin s[N] /\ t \in x
      /\ N + 1 \in Departures(t, r) <=> N # 0 /\ t \in s[N] /\ t \notin x
  <2>1. CASE N = 0
    <3>1. N + 1 \notin 2 .. Len(r)
      BY <1>1, <2>1
    <3> QED BY <2>1, <3>1 DEF Appearances, Departures
  <2>2. CASE N # 0
    <3>1. N + 1 \in 2 .. Len(r) /\ (N + 1) - 1 = N /\ r[N] = s[N]
      BY <1>1, <2>2
    <3> QED BY <1>1, <2>2, <3>1 DEF Appearances, Departures
  <2> QED BY <2>1, <2>2
<1>8. \A k \in 2 .. Len(r) : k \in 2 .. N \/ k = N + 1
  BY <1>1
<1>9. /\ \A k \in Appearances(t, r) : k \in 2 .. Len(r)
      /\ \A k \in Departures(t, r) : k \in 2 .. Len(r)
  BY DEF Appearances, Departures
<1> HIDE DEF A, D
<1>10. /\ N + 1 \in Appearances(t, r) => Appearances(t, r) = A \union {N + 1}
       /\ N + 1 \notin Appearances(t, r) => Appearances(t, r) = A
  <2>1. \A k \in Appearances(t, r) : k \in A \/ k = N + 1
    BY <1>6, <1>8, <1>9
  <2>2. \A k \in A : k \in Appearances(t, r)
    BY <1>3, <1>6
  <2> HIDE DEF N
  <2> QED BY <2>1, <2>2
<1>11. /\ N + 1 \in Departures(t, r) => Departures(t, r) = D \union {N + 1}
       /\ N + 1 \notin Departures(t, r) => Departures(t, r) = D
  <2>1. \A k \in Departures(t, r) : k \in D \/ k = N + 1
    BY <1>6, <1>8, <1>9
  <2>2. \A k \in D : k \in Departures(t, r)
    BY <1>3, <1>6
  <2> HIDE DEF N
  <2> QED BY <2>1, <2>2
<1>12. /\ Cardinality(A \union {N + 1}) = Cardinality(A) + 1
       /\ Cardinality(D \union {N + 1}) = Cardinality(D) + 1
  BY <1>4, <1>5, FS_AddElement
<1> HIDE DEF N
<1> QED BY <1>7, <1>10, <1>11, <1>12 DEF A, D, N, ChangesGrow
-----------------------------------------------------------------------------
(* Some order of the nodes of a set, each of them once. *)
Orders(S) == {order \in Seq(Node) : IsInjective(order) /\ ToSet(order) = S}

LEMMA NotInIsOrder ==
  ASSUME NEW recs \in Seq(Node), IsInjective(recs), NEW set
  PROVE  NotIn(recs, set) \in Orders(ToSet(recs) \ ToSet(set.recs))
<1> DEFINE T == ToSet(recs) \ ToSet(set.recs)
           o == Selected(recs, T)
<1>1. /\ o \in Seq(Node) /\ ToSet(o) = ToSet(recs) \intersect T
      /\ IsInjective(recs) => IsInjective(o)
  <2> HIDE DEF T
  <2> QED BY SelectedElements
<1>2. ToSet(recs) \intersect T = T
  OBVIOUS
<1>3. NotIn(recs, set) = o
  BY DEF NotIn
<1> HIDE DEF o, T
<1>4. o \in Orders(T)
  BY <1>1, <1>2 DEF Orders
<1> QED BY <1>3, <1>4 DEF T

(* What compare_task_sets adds to the log, and what is left of it. *)
Additions(b, a) == EventsFor("task-added", NotIn(a.recs, b))
Removals(b, a) == EventsFor("task-removed", NotIn(b.recs, a))
Whole(log, b, a) == (log \o Additions(b, a)) \o Removals(b, a)

Grown(r, ev, w) ==
  /\ w \in Seq(Event) /\ r \in Tables(Event, MaxEvents)
  /\ r.recs = IF Len(w) <= MaxEvents THEN w ELSE SubSeq(w, 1, MaxEvents)
  /\ ~ r.truncated => ~ ev.truncated /\ r.recs = w

LEMMA LogGrows ==
  ASSUME NEW ev \in Tables(Event, MaxEvents), NEW b \in TaskSets, NEW a \in TaskSets,
         IsInjective(b.recs), IsInjective(a.recs), NEW r, r = CompareTaskSets(ev, b, a)
  PROVE  Grown(r, ev, Whole(ev.recs, b, a))
<1> DEFINE x == ev.recs
           y == Additions(b, a)
           z == Removals(b, a)
           w == (x \o y) \o z
<1>1. x \in Seq(Event) /\ Len(x) <= MaxEvents /\ ev.truncated \in BOOLEAN /\ MaxEvents \in Nat
  BY CapacityAssumption DEF Tables
<1>2. a.recs \in Seq(Node) /\ b.recs \in Seq(Node)
  BY DEF TaskSets, Tables
<1>3. y \in Seq(Event)
  <2>1. NotIn(a.recs, b) \in Seq(Node) /\ "task-added" \in Kinds
    BY <1>2, NotInIsOrder DEF Orders, Kinds
  <2> QED BY <2>1, EventsMade DEF Additions
<1>4. z \in Seq(Event)
  <2>1. NotIn(b.recs, a) \in Seq(Node) /\ "task-removed" \in Kinds
    BY <1>2, NotInIsOrder DEF Orders, Kinds
  <2> QED BY <2>1, EventsMade DEF Removals
<1>5. r = AddRecords(ev, y \o z, MaxEvents)
  BY DEF CompareTaskSets, Additions, Removals
<1>6. ev = [recs |-> ev.recs, truncated |-> ev.truncated]
  BY DEF Tables
<1>11. Whole(ev.recs, b, a) = w
  BY DEF Whole
<1> HIDE DEF x, y, z
<1>7. w \in Seq(Event) /\ Len(w) \in Nat /\ x \o (y \o z) = w
  <2>1. x \o (y \o z) \in Seq(Event) /\ w \in Seq(Event)
    BY <1>1, <1>3, <1>4
  <2>2. x \o (y \o z) = w
    BY <1>1, <1>3, <1>4, <2>1, SMTT(60)
  <2> QED BY <2>1, <2>2
<1>8. r = IF Len(w) <= MaxEvents THEN [ev EXCEPT !.recs = w]
          ELSE [recs |-> SubSeq(w, 1, MaxEvents), truncated |-> TRUE]
  <2> DEFINE rs == y \o z
             v == ev.recs \o rs
  <2>1. v = w
    BY <1>7 DEF x
  <2>2. r = IF Len(v) <= MaxEvents THEN [ev EXCEPT !.recs = v]
            ELSE [recs |-> SubSeq(v, 1, MaxEvents), truncated |-> TRUE]
    <3>1. r = AddRecords(ev, rs, MaxEvents)
      BY <1>5
    <3> HIDE DEF rs
    <3> QED BY <3>1 DEF AddRecords
  <2> HIDE DEF v, w
  <2> QED BY <2>1, <2>2
<1> HIDE DEF w
<1>9. CASE Len(w) <= MaxEvents
  <2>1. r = [recs |-> w, truncated |-> ev.truncated]
    BY <1>6, <1>8, <1>9
  <2>2. r \in Tables(Event, MaxEvents)
    BY <1>1, <1>7, <1>9, <2>1 DEF Tables
  <2> QED BY <1>7, <1>9, <1>11, <2>1, <2>2 DEF Grown
<1>10. CASE ~ (Len(w) <= MaxEvents)
  <2> DEFINE cut == SubSeq(w, 1, MaxEvents)
  <2>1. r = [recs |-> cut, truncated |-> TRUE]
    BY <1>8, <1>10
  <2>2. cut \in Seq(Event) /\ Len(cut) = MaxEvents
    BY <1>1, <1>7, <1>10
  <2>3. r \in Tables(Event, MaxEvents)
    <3> HIDE DEF cut
    <3> QED BY <1>1, <2>1, <2>2 DEF Tables
  <2>4. r.recs = SubSeq(w, 1, MaxEvents) /\ r.truncated
    <3> HIDE DEF cut
    <3>1. r.recs = cut /\ r.truncated
      BY <2>1
    <3> QED BY <3>1 DEF cut
  <2> QED BY <1>7, <1>10, <1>11, <2>3, <2>4 DEF Grown
<1> QED BY <1>9, <1>10
-----------------------------------------------------------------------------
(* What the rest of the state is, between and during the walks. *)
Counted ==
  /\ samples \in 0 .. MaxSamples /\ sample \in 0 .. MaxSamples /\ Len(history) = sample
  /\ pc \in {"delay", "ready", "wait"} => sample < samples
  /\ pc \in {"start", "single"} => sample = 0 /\ events = EmptyTable

TablesKept ==
  /\ before \in TaskSets /\ IsInjective(before.recs) /\ after \in TaskSets
  /\ events \in Tables(Event, MaxEvents) /\ taskset_truncated \in BOOLEAN
  /\ cursor \in Task \union {Sentinel} /\ rc \in {0, 5, 10, 20}

(* The old set is the last snapshot, the flag remembers every full one, and*)
(* the log tells all of them.                                              *)
Seens == [k \in DOMAIN history |-> history[k].seen]

Remembered ==
  /\ ToSet(before.recs) = IF sample = 0 THEN {} ELSE history[sample].seen
  /\ \A k \in DOMAIN history : history[k].full => taskset_truncated
  /\ ~ events.truncated => LogTells(Seens)
  /\ pc = "exit" /\ rc = 0 => ~ events.truncated /\ ~ taskset_truncated

(* As long as no interrupt has signalled, all the walk has passed is       *)
(* recorded.                                                               *)
Passed(list, k) == cursor = Sentinel \/ \E j \in DOMAIN list : list[j] = cursor /\ k < j
PassedKept(list) ==
  \A k \in DOMAIN list : Passed(list, k) => list[k] \in ToSet(after.recs)

Undisturbed ==
  Walking /\ ~ signalled /\ ~ after.truncated =>
    /\ Self \in ToSet(after.recs)
    /\ pc = "ready" => PassedKept(ready)
    /\ pc = "wait" => ToSet(ready) \subseteq ToSet(after.recs) /\ PassedKept(wait)

Untorn ==
  /\ pc = "wait" /\ ~ signalled /\ cursor # Sentinel => cursor \in ToSet(wait)
  /\ \A k \in DOMAIN history :
       ~ history[k].torn /\ ~ history[k].full => history[k].seen = history[k].live

WInv == Counted /\ TablesKept /\ Remembered /\ Undisturbed /\ Untorn

LEMMA InitWInv == Init => WInv
<1> SUFFICES ASSUME Init PROVE WInv
  OBVIOUS
<1>1. /\ pc = "start" /\ samples = 0 /\ sample = 0 /\ before = EmptyTable /\ after = EmptyTable
      /\ cursor = Sentinel /\ taskset_truncated = FALSE /\ events = EmptyTable /\ rc = 0
      /\ history = << >> /\ Len(history) = 0 /\ DOMAIN history = {}
  BY DEF Init
<1>2. EmptyTable \in TaskSets /\ EmptyTable \in Tables(Event, MaxEvents)
  BY CapacityAssumption, EmptyTableType DEF TaskSets
<1>3. EmptyTable.recs = << >> /\ ToSet(EmptyTable.recs) = {} /\ IsInjective(EmptyTable.recs)
  BY DEF EmptyTable, ToSet, IsInjective
<1>4. Counted
  BY <1>1, CapacityAssumption DEF Counted
<1>5. TablesKept
  BY <1>1, <1>2, <1>3 DEF TablesKept
<1>6. LogTells(Seens)
  <2>1. \A kind, t : Logged(kind, t) = {}
    BY <1>1, <1>3 DEF Logged
  <2>2. Seens = << >> /\ Len(Seens) = 0
    BY <1>1 DEF Seens
  <2>3. \A t : Appearances(t, Seens) = {} /\ Departures(t, Seens) = {}
    BY <2>2 DEF Appearances, Departures
  <2> QED BY <2>1, <2>3 DEF LogTells
<1>7. Remembered
  BY <1>1, <1>3, <1>6 DEF Remembered
<1>8. Undisturbed /\ Untorn
  BY <1>1 DEF Undisturbed, Untorn, Walking
<1> QED BY <1>4, <1>5, <1>7, <1>8 DEF WInv

(* At the head of a list nothing is passed. *)
LEMMA NothingPassed ==
  ASSUME NEW list \in Seq(Task), IsInjective(list), NEW c, c = HeadOf(list), NEW k \in DOMAIN list
  PROVE  ~ (c = Sentinel \/ \E j \in DOMAIN list : list[j] = c /\ k < j)
<1>1. list # << >> /\ DOMAIN list = 1 .. Len(list) /\ Len(list) \in Nat
  OBVIOUS
<1>2. 1 \in DOMAIN list /\ c = list[1]
  BY <1>1, HeadIsFirst
<1>3. c # Sentinel
  BY <1>1, <1>2, NodeAssumption
<1>4. \A j \in DOMAIN list : list[j] = c => j = 1
  BY <1>2 DEF IsInjective
<1> QED BY <1>1, <1>3, <1>4

(* With the cursor's node recorded, all that its successor has behind it   *)
(* is recorded.                                                            *)
LEMMA OneMorePassed ==
  ASSUME NEW list \in Seq(Task), IsInjective(list), cursor \in ToSet(list), PassedKept(list),
         NEW c, c = SuccIn(list, cursor), NEW kept, kept = ToSet(after.recs) \union {cursor},
         NEW k \in DOMAIN list, c = Sentinel \/ \E j \in DOMAIN list : list[j] = c /\ k < j
  PROVE  list[k] \in kept
<1>1. PICK p \in 1 .. Len(list) : list[p] = cursor
  BY DEF ToSet
<1>2. c = IF p = Len(list) THEN Sentinel ELSE list[p + 1]
  BY <1>1, SuccIsNext
<1>3. DOMAIN list = 1 .. Len(list) /\ Len(list) \in Nat /\ p \in DOMAIN list /\ cursor # Sentinel
  BY <1>1, NodeAssumption
<1>4. k <= p
  <2>1. CASE p = Len(list)
    BY <1>3, <2>1
  <2>2. CASE p # Len(list)
    <3>1. p + 1 \in DOMAIN list /\ c = list[p + 1] /\ c # Sentinel
      BY <1>2, <1>3, <2>2, NodeAssumption
    <3>2. PICK j \in DOMAIN list : list[j] = c /\ k < j
      BY <3>1
    <3>3. j = p + 1
      BY <3>1, <3>2 DEF IsInjective
    <3> QED BY <1>3, <3>2, <3>3
  <2> QED BY <2>1, <2>2
<1>5. CASE k = p
  BY <1>1, <1>5
<1>6. CASE k < p
  BY <1>1, <1>3, <1>6 DEF PassedKept, Passed
<1> QED BY <1>3, <1>4, <1>5, <1>6

(* The log tells as much before as after a step that leaves it alone.      *)
LEMMA TellsTheSame ==
  ASSUME events' = events, history' = history
  PROVE  LogTells(Seens)' <=> LogTells(Seens)
BY DEF LogTells, Seens, Logged

(* Start, and the single observation instead of a watch. *)
LEMMA WStart ==
  ASSUME WInv, Start
  PROVE  WInv'
<1>1. /\ pc = "start" /\ sample' = sample /\ before' = before /\ after' = after
      /\ cursor' = cursor /\ taskset_truncated' = taskset_truncated
      /\ events' = events /\ history' = history
      /\ \/ pc' = "exit" /\ rc' \in {10, 20} /\ samples' = samples
         \/ pc' = "delay" /\ samples' \in 2 .. MaxSamples /\ rc' = rc
         \/ pc' = "single" /\ samples' = samples /\ rc' = rc
  BY DEF Start, ghostVars
<1>2. Counted'
  <2>1. sample = 0 /\ events = EmptyTable /\ MaxSamples \in Nat
    BY <1>1, CapacityAssumption DEF WInv, Counted
  <2> QED BY <1>1, <2>1 DEF WInv, Counted
<1>3. TablesKept'
  BY <1>1 DEF WInv, TablesKept
<1>4. Remembered'
  BY <1>1, TellsTheSame DEF WInv, Remembered
<1>5. Undisturbed' /\ Untorn'
  BY <1>1 DEF WInv, Undisturbed, Untorn, Walking
<1> QED BY <1>2, <1>3, <1>4, <1>5 DEF WInv

LEMMA WTakeSnapshot ==
  ASSUME WInv, TakeSnapshot
  PROVE  /\ WInv'
         /\ events'.recs = << [event |-> "snapshot-task", address |-> Self] >>
<1> DEFINE e == [event |-> "snapshot-task", address |-> Self]
<1>1. /\ pc = "single" /\ pc' = "report" /\ samples' = samples /\ sample' = sample
      /\ before' = before /\ after' = after /\ cursor' = cursor /\ rc' = rc
      /\ taskset_truncated' = taskset_truncated /\ history' = history
      /\ events' = AddRecord(EmptyTable, e, MaxEvents) /\ sample = 0
  BY DEF TakeSnapshot, ghostVars, WInv, Counted
<1>2. /\ EmptyTable \in Tables(Event, MaxEvents) /\ e \in Event
      /\ EmptyTable.recs = << >> /\ Len(EmptyTable.recs) < MaxEvents
      /\ MaxEvents \in Nat
  <2>1. EmptyTable.recs = << >> /\ Len(EmptyTable.recs) = 0
    BY DEF EmptyTable
  <2> QED BY <2>1, CapacityAssumption, EmptyTableType DEF Event, Node
<1> HIDE DEF e
<1>3. events' \in Tables(Event, MaxEvents)
  BY <1>1, <1>2, AddRecordType
<1>4. events'.recs = << e >>
  <2>1. events'.recs = Append(EmptyTable.recs, e)
    BY <1>1, <1>2, AddRecordFits
  <2> QED BY <1>2, <2>1
<1>5. LogTells(Seens)'
  <2>1. /\ Len(Seens') = 0 /\ \A t : Appearances(t, Seens') = {} /\ Departures(t, Seens') = {}
    <3>1. Len(history) = 0
      BY <1>1 DEF WInv, Counted
    <3>2. DOMAIN history = {}
      <4>1. Len(history) = 0 => 1 .. Len(history) = {}
        OBVIOUS
      <4> QED BY <3>1
    <3>3. Seens' = << >>
      BY <1>1, <3>2 DEF Seens
    <3>4. Len(Seens') = 0
      BY <3>3
    <3> QED BY <3>4 DEF Appearances, Departures
  <2>2. \A t : Logged("task-added", t)' = {} /\ Logged("task-removed", t)' = {}
    <3>1. DOMAIN events'.recs = {1} /\ events'.recs[1].event = "snapshot-task"
      BY <1>4 DEF e
    <3> QED BY <3>1 DEF Logged
  <2> QED BY <2>1, <2>2 DEF LogTells
<1>6. Counted'
  BY <1>1 DEF WInv, Counted
<1>7. TablesKept'
  BY <1>1, <1>3 DEF WInv, TablesKept
<1>8. Remembered'
  BY <1>1, <1>5 DEF WInv, Remembered
<1>9. Undisturbed' /\ Untorn'
  BY <1>1 DEF WInv, Undisturbed, Untorn, Walking
<1> QED BY <1>4, <1>6, <1>7, <1>8, <1>9 DEF WInv, e

LEMMA WBeginSample ==
  ASSUME IInv, IInv', WInv, BeginSample
  PROVE  WInv'
<1>1. /\ pc = "delay" /\ pc' = "ready" /\ samples' = samples /\ sample' = sample
      /\ before' = before /\ after' = AddTaskRecord(EmptyTable, Self) /\ cursor' = HeadOf(ready)
      /\ taskset_truncated' = taskset_truncated /\ events' = events /\ rc' = rc
      /\ history' = history /\ signalled' = FALSE /\ ready' = ready
  BY DEF BeginSample, Cleared, execVars
<1>2. ready \in Seq(Task) /\ IsInjective(ready) /\ after' \in TaskSets
  <2>1. after' \in TaskSets
    BY <1>1 DEF IInv, Walk, Walking
  <2> QED BY <2>1 DEF IInv, Lists, ExecTypeOK
<1>3. cursor' \in Task \union {Sentinel}
  BY <1>1, <1>2, HeadIsFirst DEF ToSet
<1>4. ~ after'.truncated => Self \in ToSet(after'.recs)
  <2>1. EmptyTable \in TaskSets /\ IsInjective(EmptyTable.recs) /\ Self \in Node
    BY CapacityAssumption, EmptyTableType DEF TaskSets, EmptyTable, IsInjective, Node
  <2>2. \/ ToSet(after'.recs) = ToSet(EmptyTable.recs) \union {Self}
        \/ after'.truncated
    BY <1>1, <2>1, TaskRecorded, Zenon
  <2> QED BY <2>2
<1>5. PassedKept(ready)'
  <2>1. \A k \in DOMAIN ready :
          ~ (cursor' = Sentinel \/ \E j \in DOMAIN ready : ready[j] = cursor' /\ k < j)
    BY <1>1, <1>2, NothingPassed
  <2> QED BY <1>1, <2>1 DEF PassedKept, Passed
<1>6. Counted'
  BY <1>1 DEF WInv, Counted
<1>7. TablesKept'
  BY <1>1, <1>2, <1>3 DEF WInv, TablesKept
<1>8. Remembered'
  BY <1>1, TellsTheSame DEF WInv, Remembered
<1>9. Undisturbed'
  BY <1>1, <1>4, <1>5 DEF Undisturbed
<1>10. Untorn'
  BY <1>1 DEF WInv, Untorn
<1> QED BY <1>6, <1>7, <1>8, <1>9, <1>10 DEF WInv

LEMMA WVisit ==
  ASSUME IInv, IInv', WInv, Visit
  PROVE  WInv'
<1>1. /\ Walking /\ cursor # Sentinel /\ after' = AddTaskRecord(after, cursor)
      /\ cursor' = SuccOf(cursor) /\ pc' = pc /\ samples' = samples /\ sample' = sample
      /\ before' = before /\ taskset_truncated' = taskset_truncated /\ events' = events
      /\ rc' = rc /\ history' = history /\ signalled' = signalled
      /\ ready' = ready /\ wait' = wait
  BY DEF Visit, execVars, ghostVars
<1>2. /\ ready \in Seq(Task) /\ IsInjective(ready) /\ wait \in Seq(Task) /\ IsInjective(wait)
      /\ ToSet(ready) \intersect ToSet(wait) = {}
      /\ after \in TaskSets /\ IsInjective(after.recs)
      /\ cursor \in ToSet(ready) \union ToSet(wait)
  BY <1>1 DEF IInv, Lists, Walk, ExecTypeOK
<1>3. cursor \in Task
  BY <1>2 DEF ToSet
<1>4. ~ after'.truncated =>
        ~ after.truncated /\ ToSet(after'.recs) = ToSet(after.recs) \union {cursor}
  <2>1. cursor \in Node
    BY <1>3 DEF Node
  <2>2. \/ /\ after'.truncated = after.truncated
           /\ ToSet(after'.recs) = ToSet(after.recs) \union {cursor}
        \/ after'.truncated
    BY <1>1, <1>2, <2>1, TaskRecorded, Zenon
  <2> QED BY <2>2
<1>5. ASSUME NEW list \in Seq(Task), IsInjective(list), cursor \in ToSet(list),
             cursor' = SuccIn(list, cursor)
      PROVE  cursor' = Sentinel \/ cursor' \in ToSet(list)
  <2>1. PICK k \in 1 .. Len(list) : list[k] = cursor
    BY <1>5 DEF ToSet
  <2>2. cursor' = IF k = Len(list) THEN Sentinel ELSE list[k + 1]
    BY <1>5, <2>1, SuccIsNext
  <2>3. k # Len(list) => k + 1 \in DOMAIN list
    BY <2>1
  <2> QED BY <2>2, <2>3 DEF ToSet
<1> DEFINE list == IF cursor \in ToSet(ready) THEN ready ELSE wait
<1>6. /\ list \in Seq(Task) /\ IsInjective(list) /\ cursor \in ToSet(list)
      /\ cursor' = SuccIn(list, cursor)
  BY <1>1, <1>2 DEF SuccOf
<1>7. cursor' \in Task \union {Sentinel}
  <2> HIDE DEF list
  <2>1. cursor' = Sentinel \/ cursor' \in ToSet(list)
    BY <1>5, <1>6
  <2> QED BY <1>6, <2>1 DEF ToSet
<1>8. Undisturbed'
  <2> SUFFICES ASSUME ~ signalled, ~ after'.truncated
               PROVE  /\ Self \in ToSet(after'.recs)
                      /\ pc = "ready" => PassedKept(ready)'
                      /\ pc = "wait" => ToSet(ready) \subseteq ToSet(after'.recs) /\ PassedKept(wait)'
    BY <1>1 DEF Undisturbed
  <2>1. /\ Self \in ToSet(after.recs)
        /\ pc = "ready" => PassedKept(ready)
        /\ pc = "wait" => ToSet(ready) \subseteq ToSet(after.recs) /\ PassedKept(wait)
    BY <1>1, <1>4 DEF WInv, Undisturbed
  <2>2. ToSet(after'.recs) = ToSet(after.recs) \union {cursor}
    BY <1>4
  <2>3. ASSUME pc = "ready" PROVE PassedKept(ready)'
    <3>1. cursor \in ToSet(ready) /\ cursor' = SuccIn(ready, cursor)
      BY <1>1, <1>6, <2>3 DEF IInv, BeforeCursor
    <3>2. \A k \in DOMAIN ready :
            cursor' = Sentinel \/ (\E j \in DOMAIN ready : ready[j] = cursor' /\ k < j) =>
              ready[k] \in ToSet(after'.recs)
      BY <1>2, <2>1, <2>2, <2>3, <3>1, OneMorePassed
    <3> QED BY <1>1, <3>2 DEF PassedKept, Passed
  <2>4. ASSUME pc = "wait" PROVE PassedKept(wait)'
    <3>1. cursor \in ToSet(wait)
      BY <1>1, <2>4 DEF WInv, Untorn
    <3>2. cursor' = SuccIn(wait, cursor)
      BY <1>2, <1>6, <3>1
    <3>3. \A k \in DOMAIN wait :
            cursor' = Sentinel \/ (\E j \in DOMAIN wait : wait[j] = cursor' /\ k < j) =>
              wait[k] \in ToSet(after'.recs)
      BY <1>2, <2>1, <2>2, <2>4, <3>1, <3>2, OneMorePassed
    <3> QED BY <1>1, <3>3 DEF PassedKept, Passed
  <2> QED BY <2>1, <2>2, <2>3, <2>4
<1>9. Untorn'
  <2>1. ASSUME pc = "wait", ~ signalled, cursor' # Sentinel PROVE cursor' \in ToSet(wait)
    <3>1. cursor \in ToSet(wait)
      BY <1>1, <2>1 DEF WInv, Untorn
    <3>2. cursor' = SuccIn(wait, cursor)
      BY <1>2, <1>6, <3>1
    <3> QED BY <1>2, <1>5, <2>1, <3>1, <3>2
  <2> QED BY <1>1, <2>1 DEF WInv, Untorn
<1>10. Counted' /\ Remembered'
  BY <1>1, TellsTheSame DEF WInv, Counted, Remembered
<1>11. TablesKept'
  <2>1. after' \in TaskSets
    BY <1>1 DEF IInv, Walk, Walking
  <2> QED BY <1>1, <1>7, <2>1 DEF WInv, TablesKept
<1> QED BY <1>8, <1>9, <1>10, <1>11 DEF WInv

LEMMA WNextList ==
  ASSUME IInv, WInv, NextList
  PROVE  WInv'
<1>1. /\ pc = "ready" /\ cursor = Sentinel /\ cursor' = HeadOf(wait) /\ pc' = "wait"
      /\ samples' = samples /\ sample' = sample /\ before' = before /\ after' = after
      /\ taskset_truncated' = taskset_truncated /\ events' = events /\ rc' = rc
      /\ history' = history /\ signalled' = signalled /\ ready' = ready /\ wait' = wait
  BY DEF NextList, execVars, ghostVars
<1>2. ready \in Seq(Task) /\ wait \in Seq(Task) /\ IsInjective(wait)
  BY DEF IInv, Lists, ExecTypeOK
<1>3. cursor' = Sentinel \/ cursor' \in ToSet(wait)
  BY <1>1, <1>2, HeadIsFirst
<1>4. cursor' \in Task \union {Sentinel}
  BY <1>2, <1>3 DEF ToSet
<1>5. PassedKept(wait)'
  <2>1. \A k \in DOMAIN wait :
          ~ (cursor' = Sentinel \/ \E j \in DOMAIN wait : wait[j] = cursor' /\ k < j)
    BY <1>1, <1>2, NothingPassed
  <2> QED BY <1>1, <2>1 DEF PassedKept, Passed
<1>6. Undisturbed'
  <2>1. ~ signalled /\ ~ after.truncated =>
          Self \in ToSet(after.recs) /\ ToSet(ready) \subseteq ToSet(after.recs)
    <3>1. ~ signalled /\ ~ after.truncated => Self \in ToSet(after.recs) /\ PassedKept(ready)
      BY <1>1 DEF WInv, Undisturbed, Walking
    <3>2. PassedKept(ready) => ToSet(ready) \subseteq ToSet(after.recs)
      BY <1>1 DEF PassedKept, Passed, ToSet
    <3> QED BY <3>1, <3>2
  <2> QED BY <1>1, <1>5, <2>1 DEF Undisturbed
<1>7. Untorn'
  BY <1>1, <1>3 DEF WInv, Untorn
<1>8. Counted' /\ Remembered'
  BY <1>1, TellsTheSame DEF WInv, Counted, Remembered
<1>9. TablesKept'
  BY <1>1, <1>4 DEF WInv, TablesKept
<1> QED BY <1>6, <1>7, <1>8, <1>9 DEF WInv

LEMMA WReport ==
  ASSUME WInv, Report
  PROVE  WInv'
<1>1. /\ pc = "report" /\ pc' = "exit" /\ samples' = samples /\ sample' = sample
      /\ before' = before /\ after' = after /\ cursor' = cursor
      /\ taskset_truncated' = taskset_truncated /\ events' = events /\ history' = history
      /\ rc' = IF events.truncated \/ taskset_truncated THEN 5 ELSE 0
  BY DEF Report, ghostVars
<1>2. Counted' /\ TablesKept'
  BY <1>1 DEF WInv, Counted, TablesKept
<1>3. Remembered'
  BY <1>1, TellsTheSame DEF WInv, Remembered
<1>4. Undisturbed' /\ Untorn'
  BY <1>1 DEF WInv, Undisturbed, Untorn, Walking
<1> QED BY <1>2, <1>3, <1>4 DEF WInv

LEMMA WEnvironment ==
  ASSUME WInv, Environment
  PROVE  WInv'
<1>1. /\ pc' = pc /\ samples' = samples /\ sample' = sample /\ before' = before
      /\ after' = after /\ cursor' = cursor /\ taskset_truncated' = taskset_truncated
      /\ events' = events /\ rc' = rc /\ history' = history
      /\ ~ Walking \/ signalled' = TRUE
  BY DEF Environment, Multitasking, Walking, toolVars
<1>2. Counted' /\ TablesKept'
  BY <1>1 DEF WInv, Counted, TablesKept
<1>3. Remembered'
  BY <1>1, TellsTheSame DEF WInv, Remembered
<1>4. Undisturbed' /\ Untorn'
  BY <1>1 DEF WInv, Undisturbed, Untorn, Walking
<1> QED BY <1>2, <1>3, <1>4 DEF WInv

(* A comparison tells what the new snapshot adds to the ones before it.    *)
Tells(recs, s, t) ==
  /\ Cardinality(LoggedIn(recs, "task-added", t)) = Cardinality(Appearances(t, s))
  /\ Cardinality(LoggedIn(recs, "task-removed", t)) = Cardinality(Departures(t, s))

LEMMA TellsTheNew ==
  ASSUME NEW s \in Seq(SUBSET Node), NEW x \in SUBSET Node, NEW b, NEW a,
         NEW recs \in Seq(Event), b.recs \in Seq(Node), a.recs \in Seq(Node),
         IsInjective(b.recs), IsInjective(a.recs),
         Len(s) # 0, ToSet(b.recs) = s[Len(s)], ToSet(a.recs) = x, NEW t \in Node,
         Tells(recs, s, t),
         NEW all, all = Whole(recs, b, a), NEW r, r = Append(s, x)
  PROVE  Tells(all, r, t)
<1> DEFINE A == NotIn(a.recs, b)
           R == NotIn(b.recs, a)
           mid == recs \o EventsFor("task-added", A)
<1>1. A \in Seq(Node) /\ IsInjective(A) /\ ToSet(A) = x \ s[Len(s)]
  BY NotInIsOrder DEF Orders
<1>2. R \in Seq(Node) /\ IsInjective(R) /\ ToSet(R) = s[Len(s)] \ x
  BY NotInIsOrder DEF Orders
<1>3. all = mid \o EventsFor("task-removed", R)
  BY DEF Whole, Additions, Removals
<1> HIDE DEF A, R
<1>4. "task-added" \in Kinds /\ "task-removed" \in Kinds /\ "task-added" # "task-removed"
  BY DEF Kinds
<1>5. ASSUME NEW k \in Kinds
      PROVE  /\ mid \in Seq(Event)
             /\ Cardinality(LoggedIn(mid, k, t)) =
                  IF k = "task-added" /\ t \in ToSet(A) THEN Cardinality(LoggedIn(recs, k, t)) + 1
                  ELSE Cardinality(LoggedIn(recs, k, t))
  BY <1>1, <1>4, LoggedOnceMore
<1> HIDE DEF mid
<1>6. ASSUME NEW k \in Kinds
      PROVE  Cardinality(LoggedIn(all, k, t)) =
               IF k = "task-removed" /\ t \in ToSet(R) THEN Cardinality(LoggedIn(mid, k, t)) + 1
               ELSE Cardinality(LoggedIn(mid, k, t))
  BY <1>2, <1>3, <1>4, <1>5, LoggedOnceMore
<1>7. /\ Cardinality(Appearances(t, r)) =
           IF t \in ToSet(A) THEN Cardinality(Appearances(t, s)) + 1 ELSE Cardinality(Appearances(t, s))
      /\ Cardinality(Departures(t, r)) =
           IF t \in ToSet(R) THEN Cardinality(Departures(t, s)) + 1 ELSE Cardinality(Departures(t, s))
  <2>1. ChangesGrow(t, r, s, x)
    BY OneLookMore
  <2> QED BY <1>1, <1>2, <2>1 DEF ChangesGrow
<1> QED BY <1>4, <1>5, <1>6, <1>7 DEF Tells

LEMMA WEndSample ==
  ASSUME IInv, WInv, EndSample
  PROVE  /\ WInv'
         /\ sample < MaxSamples /\ ToSet(after.recs) \subseteq Live
         /\ sample' = sample + 1 /\ before'.recs = after.recs
         /\ sample = 0 => events' = events
         /\ sample # 0 => events' = CompareTaskSets(events, before, after)
<1>1. /\ pc = "wait" /\ cursor = Sentinel /\ sample' = sample + 1
      /\ taskset_truncated' = (taskset_truncated \/ after.truncated)
      /\ events' = IF sample = 0 THEN events ELSE CompareTaskSets(events, before, after)
      /\ samples' = samples /\ cursor' = cursor /\ rc' = rc
      /\ pc' = IF sample + 1 < samples THEN "delay" ELSE "report"
      /\ history' = Append(history, Sampled) /\ ready' = ready /\ wait' = wait
      /\ signalled' = FALSE
  BY DEF EndSample, AnyFull, execVars
<1>2. before' = after /\ (after' = before \/ after' = after)
  BY DEF EndSample, Exchanged
<1>3. /\ samples \in 0 .. MaxSamples /\ sample \in 0 .. MaxSamples /\ Len(history) = sample
      /\ sample < samples /\ MaxSamples \in Nat /\ sample \in Nat
  BY <1>1, CapacityAssumption DEF WInv, Counted
<1>4. /\ before \in TaskSets /\ IsInjective(before.recs) /\ after \in TaskSets
      /\ events \in Tables(Event, MaxEvents) /\ taskset_truncated \in BOOLEAN
      /\ IsInjective(after.recs) /\ ToSet(after.recs) \subseteq Live
      /\ history \in Seq(Samples)
  BY <1>1 DEF WInv, TablesKept, IInv, Walk, Walking, Lists
<1>5. /\ before.recs \in Seq(Node) /\ after.recs \in Seq(Node) /\ events.recs \in Seq(Event)
      /\ after.truncated \in BOOLEAN /\ events.truncated \in BOOLEAN
  BY <1>4 DEF TaskSets, Tables
<1>6. Live \subseteq Node /\ Live' = Live
  BY <1>1 DEF Live, Node, IInv, Lists, ExecTypeOK, ToSet
<1>7. /\ Sampled.live = Live /\ Sampled.seen = ToSet(after.recs)
      /\ Sampled.full = after.truncated /\ Sampled.torn = signalled
  BY DEF Sampled
<1>8. /\ Len(history') = sample + 1 /\ DOMAIN history' = 1 .. sample + 1
      /\ \A k \in 1 .. sample : history'[k] = history[k]
      /\ history'[sample + 1] = Sampled /\ DOMAIN history = 1 .. sample
  BY <1>1, <1>3, <1>4
<1>9. Counted'
  <2>1. sample + 1 \in 0 .. MaxSamples
    BY <1>3
  <2>2. pc' \in {"delay", "ready", "wait"} => sample + 1 < samples
    BY <1>1
  <2>3. pc' \notin {"start", "single"}
    BY <1>1
  <2> QED BY <1>1, <1>3, <1>8, <2>1, <2>2, <2>3 DEF Counted
<1>10. sample # 0 =>
         /\ Whole(events.recs, before, after) \in Seq(Event)
         /\ events' \in Tables(Event, MaxEvents)
         /\ ~ events'.truncated =>
              ~ events.truncated /\ events'.recs = Whole(events.recs, before, after)
  <2>1. sample # 0 => Grown(events', events, Whole(events.recs, before, after))
    BY <1>1, <1>4, LogGrows
  <2> QED BY <2>1 DEF Grown
<1>11. TablesKept'
  <2>1. events' \in Tables(Event, MaxEvents)
    BY <1>1, <1>4, <1>10
  <2>2. taskset_truncated' \in BOOLEAN
    BY <1>1, <1>4, <1>5
  <2>3. cursor' \in Task \union {Sentinel} /\ rc' \in {0, 5, 10, 20}
    BY <1>1 DEF WInv, TablesKept
  <2> QED BY <1>2, <1>4, <2>1, <2>2, <2>3 DEF TablesKept
<1>12. Seens \in Seq(SUBSET Node) /\ Len(Seens) = sample
  <2>1. ASSUME NEW k \in 1 .. sample PROVE history[k].seen \in SUBSET Node
    <3>1. history[k] \in Samples
      BY <1>3, <1>4, <1>8
    <3> QED BY <3>1 DEF Samples
  <2>2. Seens = [k \in 1 .. sample |-> history[k].seen]
    BY <1>8 DEF Seens
  <2>3. Seens \in [1 .. sample -> SUBSET Node]
    BY <2>1, <2>2
  <2> QED BY <1>3, <2>3
<1> DEFINE x == ToSet(after.recs)
<1>13. Seens' = Append(Seens, x) /\ x \in SUBSET Node
  <2>1. Seens' = [k \in 1 .. sample + 1 |-> history'[k].seen]
    BY <1>8 DEF Seens
  <2>2. \A k \in 1 .. sample : Seens'[k] = Seens[k]
    <3> SUFFICES ASSUME NEW k \in 1 .. sample PROVE Seens'[k] = Seens[k]
      OBVIOUS
    <3>1. k \in 1 .. sample + 1 /\ history'[k] = history[k]
      BY <1>3, <1>8
    <3> QED BY <1>8, <2>1, <3>1 DEF Seens
  <2>3. Seens'[sample + 1] = x
    BY <1>3, <1>7, <1>8, <2>1
  <2>4. x \in SUBSET Node
    BY <1>4, <1>6
  <2> HIDE DEF x
  <2>5. \A k \in 1 .. sample + 1 : Seens'[k] \in SUBSET Node
    BY <1>3, <1>12, <2>2, <2>3, <2>4
  <2>6. Seens' \in Seq(SUBSET Node) /\ Len(Seens') = sample + 1
    BY <1>3, <2>1, <2>5
  <2>7. Append(Seens, x) \in Seq(SUBSET Node) /\ Len(Append(Seens, x)) = sample + 1
    BY <1>12, <2>4
  <2>8. \A k \in 1 .. sample + 1 : Append(Seens, x)[k] = Seens'[k]
    BY <1>3, <1>12, <2>2, <2>3, <2>4
  <2>9. Seens' = Append(Seens, x)
    BY <2>6, <2>7, <2>8, SameSequence
  <2> QED BY <2>4, <2>9
<1>14. ToSet(before.recs) = IF sample = 0 THEN {} ELSE history[sample].seen
  BY DEF WInv, Remembered
<1>15. ASSUME ~ events'.truncated PROVE LogTells(Seens)'
  <2>1. CASE sample = 0
    <3>1. events' = events /\ ~ events.truncated /\ LogTells(Seens)
      BY <1>1, <1>15, <2>1 DEF WInv, Remembered
    <3> HIDE DEF x
    <3>2. ASSUME NEW t \in Node
          PROVE  /\ Cardinality(Appearances(t, Seens')) = Cardinality(Appearances(t, Seens))
                 /\ Cardinality(Departures(t, Seens')) = Cardinality(Departures(t, Seens))
      <4>1. ChangesGrow(t, Seens', Seens, x)
        BY <1>12, <1>13, OneLookMore
      <4> QED BY <1>12, <2>1, <4>1 DEF ChangesGrow
    <3> QED BY <3>1, <3>2 DEF LogTells, Logged
  <2>2. CASE sample # 0
    <3>1. ~ events.truncated /\ events'.recs = Whole(events.recs, before, after)
      BY <1>10, <1>15, <2>2
    <3>2. LogTells(Seens)
      BY <3>1 DEF WInv, Remembered
    <3>3. Seens[Len(Seens)] = ToSet(before.recs)
      <4>1. sample \in DOMAIN history
        BY <1>3, <1>8, <2>2
      <4> QED BY <1>12, <1>14, <2>2, <4>1 DEF Seens
    <3>4. ASSUME NEW t \in Node PROVE Tells(events'.recs, Seens', t)
      <4>1. Tells(events.recs, Seens, t)
        BY <3>2 DEF LogTells, Logged, LoggedIn, Tells
      <4>2. Len(Seens) # 0 /\ ToSet(after.recs) = x
        BY <1>3, <1>12, <2>2
      <4> HIDE DEF x
      <4> QED BY <1>4, <1>5, <1>12, <1>13, <3>1, <3>3, <4>1, <4>2, TellsTheNew
    <3> QED BY <3>4 DEF LogTells, Logged, LoggedIn, Tells
  <2> QED BY <2>1, <2>2
<1>16. Remembered'
  <2>1. ToSet(before'.recs) = history'[sample + 1].seen
    BY <1>2, <1>7, <1>8
  <2>2. ASSUME NEW k \in DOMAIN history', history'[k].full PROVE taskset_truncated'
    <3>1. CASE k = sample + 1
      BY <1>1, <1>7, <1>8, <2>2, <3>1
    <3>2. CASE k # sample + 1
      <4>1. k \in 1 .. sample
        BY <1>3, <1>8, <3>2
      <4> QED BY <1>1, <1>8, <2>2, <4>1 DEF WInv, Remembered
    <3> QED BY <3>1, <3>2
  <2>3. pc' # "exit"
    BY <1>1
  <2> QED BY <1>1, <1>3, <1>15, <2>1, <2>2, <2>3 DEF Remembered
<1>17. Undisturbed'
  BY <1>1 DEF Undisturbed, Walking
<1>18. Untorn'
  <2>1. ASSUME ~ signalled, ~ after.truncated PROVE ToSet(after.recs) = Live
    <3>1. /\ Self \in ToSet(after.recs) /\ ToSet(ready) \subseteq ToSet(after.recs)
          /\ PassedKept(wait)
      BY <1>1, <2>1 DEF WInv, Undisturbed, Walking
    <3>2. ToSet(wait) \subseteq ToSet(after.recs)
      BY <1>1, <3>1 DEF PassedKept, Passed, ToSet
    <3> QED BY <1>4, <3>1, <3>2 DEF Live
  <2>2. ASSUME NEW k \in DOMAIN history', ~ history'[k].torn, ~ history'[k].full
        PROVE  history'[k].seen = history'[k].live
    <3>1. CASE k = sample + 1
      BY <1>7, <1>8, <2>1, <2>2, <3>1
    <3>2. CASE k # sample + 1
      <4>1. k \in 1 .. sample
        BY <1>3, <1>8, <3>2
      <4> QED BY <1>8, <2>2, <4>1 DEF WInv, Untorn
    <3> QED BY <3>1, <3>2
  <2> QED BY <1>1, <2>2 DEF Untorn
<1>19. sample < MaxSamples
  BY <1>3
<1> QED BY <1>1, <1>2, <1>4, <1>9, <1>11, <1>16, <1>17, <1>18, <1>19 DEF WInv

LEMMA StepWInv == IInv /\ WInv /\ [Next]_vars => WInv'
<1> SUFFICES ASSUME IInv, WInv, [Next]_vars PROVE WInv' OBVIOUS
<1>1. IInv'
  BY StepIInv
<1>2. CASE Start
  BY <1>2, WStart
<1>3. CASE TakeSnapshot
  BY <1>3, WTakeSnapshot
<1>4. CASE BeginSample
  BY <1>1, <1>4, WBeginSample
<1>5. CASE Visit
  BY <1>1, <1>5, WVisit
<1>6. CASE NextList
  BY <1>6, WNextList
<1>7. CASE EndSample
  BY <1>7, WEndSample
<1>8. CASE Report
  BY <1>8, WReport
<1>9. CASE Environment
  BY <1>9, WEnvironment
<1>10. CASE UNCHANGED vars
  <2>1. /\ pc' = pc /\ samples' = samples /\ sample' = sample /\ before' = before
        /\ after' = after /\ cursor' = cursor /\ taskset_truncated' = taskset_truncated
        /\ events' = events /\ rc' = rc /\ history' = history /\ signalled' = signalled
        /\ ready' = ready /\ wait' = wait
    BY <1>10 DEF vars, execVars, toolVars, ghostVars
  <2>2. Remembered'
    BY <2>1, TellsTheSame DEF WInv, Remembered
  <2>3. Counted' /\ TablesKept'
    BY <2>1 DEF WInv, Counted, TablesKept
  <2>4. Undisturbed' /\ Untorn'
    BY <2>1 DEF WInv, Undisturbed, Untorn, Walking, PassedKept, Passed
  <2> QED BY <2>2, <2>3, <2>4 DEF WInv
<1> QED BY <1>2, <1>3, <1>4, <1>5, <1>6, <1>7, <1>8, <1>9, <1>10 DEF Next, Tool

THEOREM WatchInvariance == Spec => [](IInv /\ WInv)
<1>1. Init => IInv /\ WInv
  BY InitIInv, InitWInv
<1>2. IInv /\ WInv /\ [Next]_vars => (IInv /\ WInv)'
  BY StepIInv, StepWInv
<1> QED BY <1>1, <1>2, PTL DEF Spec

(* Every variable of the watch keeps its type: the tables are never larger *)
(* than their arrays and the cursor never leaves the lists' nodes.         *)
THEOREM AlwaysTyped == Spec => []TypeOK
<1>1. IInv /\ WInv => TypeOK
  BY DEF IInv, Lists, WInv, Counted, TablesKept, TypeOK
<1> QED BY <1>1, WatchInvariance, PTL

(* Unless it overflowed, the log holds exactly the differences between the *)
(* snapshots compare_task_sets was given, over a watch of any length.      *)
THEOREM LogIsExact == Spec => []LogIsTheDifferences
<1>1. WInv => LogIsTheDifferences
  BY DEF WInv, Remembered, Seens, LogIsTheDifferences
<1> QED BY <1>1, WatchInvariance, PTL

(* RC 0 from a watch no interrupt has disturbed: the log is what happened  *)
(* to the live tasks, for every number of tasks and snapshots.             *)
THEOREM CleanWatch == Spec => []CleanWatchIsTrue
<1>1. WInv => CleanWatchIsTrue
  <2> SUFFICES ASSUME WInv, pc = "exit", rc = 0, \A k \in DOMAIN history : ~ history[k].torn
               PROVE  LogTells([k \in DOMAIN history |-> history[k].live])
    BY DEF CleanWatchIsTrue
  <2>1. ~ events.truncated /\ ~ taskset_truncated
    BY DEF WInv, Remembered
  <2>2. LogTells(Seens)
    BY <2>1 DEF WInv, Remembered
  <2>3. \A k \in DOMAIN history : ~ history[k].full
    BY <2>1 DEF WInv, Remembered
  <2>4. \A k \in DOMAIN history : history[k].seen = history[k].live
    BY <2>3 DEF WInv, Untorn
  <2>5. Seens = [k \in DOMAIN history |-> history[k].live]
    BY <2>4 DEF Seens
  <2> QED BY <2>2, <2>5
<1> QED BY <1>1, WatchInvariance, PTL
-----------------------------------------------------------------------------
(* The order in which a comparison logs is one the observer may choose.    *)
LEMMA OrderIsChosen ==
  ASSUME NEW S, NEW order \in Orders(S)
  PROVE  order \in SetToSeqs(S)
<1>1. order \in Seq(Node) /\ IsInjective(order) /\ ToSet(order) = S
  BY DEF Orders
<1>2. Cardinality(S) = Len(order)
  BY <1>1, NodesAreFinite
<1>3. order \in [1 .. Len(order) -> S]
  BY <1>1 DEF ToSet
<1>4. \A i, j \in 1 .. Len(order) : i # j => order[i] # order[j]
  BY <1>1 DEF IsInjective
<1> QED BY <1>2, <1>3, <1>4 DEF SetToSeqs

LEMMA LookIsLook ==
  ASSUME IInv, WInv, EndSample
  PROVE  Observer!Look
<1>1. /\ sample < MaxSamples /\ ToSet(after.recs) \subseteq Live
      /\ sample' = sample + 1 /\ before'.recs = after.recs
      /\ sample = 0 => events' = events
      /\ sample # 0 => events' = CompareTaskSets(events, before, after)
  BY WEndSample
<1>2. Live' = Live
  BY DEF EndSample, execVars, Live
<1>3. /\ events \in Tables(Event, MaxEvents) /\ before \in TaskSets /\ after \in TaskSets
      /\ IsInjective(before.recs) /\ IsInjective(after.recs)
  BY DEF WInv, TablesKept, EndSample, IInv, Walk, Walking
<1>4. before.recs \in Seq(Node) /\ after.recs \in Seq(Node)
  BY <1>3 DEF TaskSets, Tables
<1> DEFINE a == NotIn(after.recs, before)
           r == NotIn(before.recs, after)
           w == Whole(events.recs, before, after)
<1>5. /\ a \in SetToSeqs(ToSet(after.recs) \ ToSet(before.recs))
      /\ r \in SetToSeqs(ToSet(before.recs) \ ToSet(after.recs))
  BY <1>3, <1>4, NotInIsOrder, OrderIsChosen
<1>6. sample # 0 => events'.recs = Observer!Cut(w)
  <2> HIDE DEF w
  <2>1. sample # 0 => Grown(events', events, w)
    BY <1>1, <1>3, LogGrows DEF w
  <2>2. w \in Seq(Event) => SubSeq(w, 1, Len(w)) = w
    OBVIOUS
  <2> QED BY <2>1, <2>2 DEF Grown, Observer!Cut
<1>7. w = events.recs \o Observer!Told("task-added", a) \o Observer!Told("task-removed", r)
  BY DEF Whole, Additions, Removals, EventsFor, Observer!Told
<1> HIDE DEF a, r, w
<1>8. \A S : Observer!SetToSeqs(S) = SetToSeqs(S)
  BY Zenon DEF SetToSeqs, Observer!SetToSeqs, Cardinality, Observer!Cardinality
<1> DEFINE S == ToSet(after.recs)
<1>9. sample # 0 =>
        \E x \in Observer!SetToSeqs(S \ ToSet(before.recs)),
           y \in Observer!SetToSeqs(ToSet(before.recs) \ S) :
          events.recs' =
            Observer!Cut(events.recs \o Observer!Told("task-added", x)
                                     \o Observer!Told("task-removed", y))
  <2> HIDE DEF S
  <2>1. /\ a \in Observer!SetToSeqs(S \ ToSet(before.recs))
        /\ r \in Observer!SetToSeqs(ToSet(before.recs) \ S)
    BY <1>5, <1>8 DEF S
  <2>2. sample # 0 =>
          events.recs' =
            Observer!Cut(events.recs \o Observer!Told("task-added", a)
                                     \o Observer!Told("task-removed", r))
    BY <1>6, <1>7, Zenon
  <2> QED BY <2>1, <2>2, Zenon
<1>10. S \in SUBSET Live /\ ToSet(before.recs)' = S /\ (sample = 0 => events.recs' = events.recs)
  BY <1>1
<1> HIDE DEF S
<1> QED BY <1>1, <1>2, <1>9, <1>10, Zenon DEF Observer!Look

LEMMA SingleIsSingle ==
  ASSUME WInv, TakeSnapshot
  PROVE  Observer!Single
<1>1. sample = 0 /\ events.recs = << >>
  BY DEF TakeSnapshot, WInv, Counted, EmptyTable
<1>2. events'.recs = << [event |-> "snapshot-task", address |-> Self] >>
  BY WTakeSnapshot
<1>3. Live' = Live /\ sample' = sample /\ before' = before /\ Self \in Live
  BY DEF TakeSnapshot, execVars, Live
<1> QED BY <1>1, <1>2, <1>3 DEF Observer!Single

LEMMA ChurnIsChurn ==
  ASSUME IInv', Environment
  PROVE  Observer!Churn
<1>1. Live' \subseteq Node
  BY DEF IInv, Lists, ExecTypeOK, Live, ToSet, Node
<1>2. before' = before /\ sample' = sample /\ events' = events
  BY DEF Environment, toolVars
<1> QED BY <1>1, <1>2 DEF Observer!Churn

LEMMA OthersAreHidden ==
  ASSUME Start \/ BeginSample \/ Visit \/ NextList \/ Report \/ UNCHANGED vars
  PROVE  UNCHANGED <<Live, ToSet(before.recs), sample, events.recs>>
<1>1. ready' = ready /\ wait' = wait /\ before' = before /\ sample' = sample /\ events' = events
  BY DEF Start, BeginSample, Visit, NextList, Report, vars, execVars, toolVars
<1> QED BY <1>1 DEF Live

(* The watch implements the observer of single instants: whatever          *)
(* interrupts do to the walk, a snapshot of any number of tasks acts as    *)
(* one look made when it ends, and every other step as none.               *)
THEOREM WatchIsObserver == Spec => ImplementsObserver
<1>1. Init => Observer!Init
  BY DEF Init, ExecInit, Observer!Init, EmptyTable, ToSet, Live, Node
<1>2. (IInv /\ WInv) /\ (IInv /\ WInv)' /\ [Next]_vars
        => [Observer!Next]_<<Live, ToSet(before.recs), sample, events.recs>>
  <2> SUFFICES ASSUME IInv, WInv, IInv', [Next]_vars
               PROVE  [Observer!Next]_<<Live, ToSet(before.recs), sample, events.recs>>
    OBVIOUS
  <2>1. CASE EndSample
    BY <2>1, LookIsLook DEF Observer!Next
  <2>2. CASE TakeSnapshot
    BY <2>2, SingleIsSingle DEF Observer!Next
  <2>3. CASE Environment
    BY <2>3, ChurnIsChurn DEF Observer!Next
  <2>4. CASE Start \/ BeginSample \/ Visit \/ NextList \/ Report \/ UNCHANGED vars
    BY <2>4, OthersAreHidden
  <2> QED BY <2>1, <2>2, <2>3, <2>4 DEF Next, Tool
<1> QED BY <1>1, <1>2, WatchInvariance, PTL DEF Spec, ImplementsObserver, Observer!Spec
=============================================================================
