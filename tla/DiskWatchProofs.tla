-------------------------- MODULE DiskWatchProofs --------------------------
(***************************************************************************)
(* Safety of DiskWatch for every table size, every number of samples and   *)
(* every history of the drive.                                             *)
(***************************************************************************)
EXTENDS DiskWatch, DataProofs

Opening == {"start", "port", "request", "device", "first"}

(* What is held, known and counted at each place of main. *)
Phase ==
  /\ pc = "start" => held = {}
  /\ pc = "port" => held = {"snapshot"}
  /\ pc = "request" => held = {"snapshot", "port"}
  /\ pc = "device" => held = {"snapshot", "port", "request"}
  /\ pc \in Opening => sample = 0 /\ rc = 0 /\ ~ printed
  /\ pc \in {"poll", "final"} => sample >= 1 /\ ~ printed
  /\ pc \in Opening \ {"start"} => samples >= 2
  /\ pc = "poll" => rc = 0 /\ sample <= samples
  /\ pc = "final" /\ rc = 0 => sample = samples
  /\ printed => pc = "exit" /\ sample >= 1

(* The chain of EventChain, and the polls being behind the drive: a longer *)
(* chain stays a chain only because the counter never runs backwards.      *)
Chain ==
  /\ sample = 0 => log = << >>
  /\ sample > 0 =>
       /\ log = << >> => previous = snapshot.initial
       /\ log # << >> => log[1].from = snapshot.initial /\ log[Len(log)].to = previous
  /\ \A i \in 1 .. Len(log) : log[i].from < log[i].to
  /\ \A i \in 1 .. Len(log) - 1 : log[i].to = log[i + 1].from
  /\ previous <= drive

IInv == TypeOK /\ Phase /\ Chain /\ NeverTruncated /\ NothingLeaks /\ PrintedIsWhole
-----------------------------------------------------------------------------
(* The type invariant and its strengthening hold when main is entered.     *)
LEMMA InitIInv == Init => IInv
<1> SUFFICES ASSUME Init PROVE IInv OBVIOUS
<1> USE SizeAssumption DEF Init
<1>1. EmptyTable \in Tables(Events, MaxEvents)
  BY EmptyTableType
<1>2. TypeOK
  <2>1. snapshot \in [events : Tables(Events, MaxEvents), initial : Nat, final : Nat]
    BY <1>1
  <2>2. printed \in BOOLEAN
    OBVIOUS
  <2> QED BY <2>1, <2>2 DEF TypeOK, Places, Resources
<1>3. Chain /\ NeverTruncated
  BY DEF Chain, NeverTruncated, log, EmptyTable
<1>4. Phase /\ NothingLeaks /\ PrintedIsWhole
  BY DEF Phase, NothingLeaks, PrintedIsWhole, Opening
<1> QED BY <1>2, <1>3, <1>4 DEF IInv

(* A turn of the loop that sees a new counter value logs it at the end of  *)
(* the chain, and there is room for it.                                    *)
LEMMA AddEventFits ==
  ASSUME IInv, pc = "poll", sample < samples
  PROVE  LET s == AddEvent(snapshot, previous, drive)
         IN  /\ s \in [events : Tables(Events, MaxEvents), initial : Nat, final : Nat]
             /\ s.events.recs = Append(log, [from |-> previous, to |-> drive])
             /\ s.events.truncated = snapshot.events.truncated
             /\ s.initial = snapshot.initial
<1> DEFINE e == [from |-> previous, to |-> drive]
<1>1. e \in Events
  BY DEF IInv, TypeOK, Events
<1>2. /\ snapshot \in [events : Tables(Events, MaxEvents), initial : Nat, final : Nat]
      /\ snapshot.events \in Tables(Events, MaxEvents)
  BY DEF IInv, TypeOK
<1>3. Len(snapshot.events.recs) < MaxEvents
  <2>1. Len(log) \in Nat
    BY <1>2 DEF log, Tables
  <2> QED BY <2>1, SizeAssumption DEF IInv, TypeOK, NeverTruncated, Phase, log
<1>4. /\ AddRecord(snapshot.events, e, MaxEvents).recs = Append(snapshot.events.recs, e)
      /\ AddRecord(snapshot.events, e, MaxEvents).truncated = snapshot.events.truncated
      /\ AddRecord(snapshot.events, e, MaxEvents) \in Tables(Events, MaxEvents)
  BY <1>1, <1>2, <1>3, AddRecordFits, AddRecordType, SizeAssumption
<1>5. AddEvent(snapshot, previous, drive)
        = [events |-> AddRecord(snapshot.events, e, MaxEvents),
           initial |-> snapshot.initial, final |-> snapshot.final]
  BY <1>2 DEF AddEvent
<1> QED BY <1>2, <1>4, <1>5 DEF log

(* A successful poll keeps the chain unbroken. *)
LEMMA PollChain ==
  ASSUME IInv, Poll, sample' = sample + 1, previous' = drive
  PROVE  /\ snapshot' \in [events : Tables(Events, MaxEvents), initial : Nat, final : Nat]
         /\ Chain' /\ NeverTruncated'
<1>1. CASE drive # previous
  <2> DEFINE e == [from |-> previous, to |-> drive]
  <2>1. snapshot' = AddEvent(snapshot, previous, drive)
    BY <1>1, SizeAssumption DEF Poll, More, Known, Counted, IInv, TypeOK
  <2>2. /\ log' = Append(log, e)
        /\ snapshot'.events.truncated = snapshot.events.truncated
        /\ snapshot'.initial = snapshot.initial
        /\ snapshot' \in [events : Tables(Events, MaxEvents), initial : Nat, final : Nat]
    BY <2>1, AddEventFits DEF Poll, More, Known, Counted, log
  <2>3. log \in Seq(Events) /\ Len(log) \in Nat /\ sample \in Nat
    BY DEF IInv, TypeOK, Tables, log
  <2>4. /\ Len(log') = Len(log) + 1
        /\ log' # << >>
        /\ \A i \in 1 .. Len(log) : log'[i] = log[i]
        /\ log'[Len(log) + 1] = e
    BY <2>2, <2>3
  <2>5. previous < drive /\ drive' = drive
    BY <1>1 DEF IInv, TypeOK, Chain, Poll, More, Known, Counted
  <2>6. sample >= 1
    BY DEF IInv, Phase, Poll, More, Known, Counted
  <2>7. log'[1].from = snapshot'.initial /\ log'[Len(log')].to = previous'
    <3>1. CASE log = << >>
      BY <3>1, <2>2, <2>3, <2>4, <2>6 DEF IInv, Chain
    <3>2. CASE log # << >>
      BY <3>2, <2>2, <2>3, <2>4, <2>6 DEF IInv, Chain
    <3> QED BY <3>1, <3>2
  <2>8. \A i \in 1 .. Len(log') : log'[i].from < log'[i].to
    BY <2>3, <2>4, <2>5 DEF IInv, Chain
  <2>9. \A i \in 1 .. Len(log') - 1 : log'[i].to = log'[i + 1].from
    <3> SUFFICES ASSUME NEW i \in 1 .. Len(log)
                 PROVE  log'[i].to = log'[i + 1].from
      BY <2>3, <2>4
    <3>1. CASE i < Len(log)
      <4>1. log'[i] = log[i] /\ log'[i + 1] = log[i + 1] /\ i \in 1 .. Len(log) - 1
        BY <3>1, <2>3, <2>4
      <4> QED BY <4>1 DEF IInv, Chain
    <3>2. CASE i = Len(log)
      <4>1. log # << >> /\ log'[i] = log[Len(log)] /\ log'[i + 1] = e
        BY <3>2, <2>3, <2>4
      <4>2. log[Len(log)].to = previous
        BY <4>1, <2>6, <2>3 DEF IInv, Chain
      <4> QED BY <4>1, <4>2
    <3> QED BY <3>1, <3>2, <2>3
  <2>10. NeverTruncated'
    BY <2>2, <2>3, <2>4, <2>6 DEF IInv, NeverTruncated
  <2> QED BY <2>2, <2>3, <2>4, <2>5, <2>7, <2>8, <2>9, <2>10 DEF Chain, IInv, TypeOK
<1>2. CASE drive = previous
  <2>1. snapshot' = snapshot /\ drive' = drive /\ sample \in Nat /\ sample >= 1
    BY <1>2, SizeAssumption DEF Poll, More, Known, Counted, IInv, TypeOK, Phase
  <2>2. log' = log
    BY <2>1 DEF log
  <2>3. log \in Seq(Events) /\ Len(log) \in Nat
    BY DEF IInv, TypeOK, Tables, log
  <2> QED BY <1>2, <2>1, <2>2, <2>3 DEF IInv, TypeOK, Chain, NeverTruncated
<1> QED BY <1>1, <1>2

(* The chain, and the room left, only depend on the log and the counters.  *)
LEMMA ChainUnchanged ==
  ASSUME IInv, UNCHANGED <<snapshot, previous, sample>>, drive <= drive', drive' \in Nat
  PROVE  Chain' /\ NeverTruncated'
<1>1. UNCHANGED log
  BY DEF log
<1>2. previous \in Nat /\ drive \in Nat
  BY DEF IInv, TypeOK
<1> QED BY <1>1, <1>2 DEF IInv, Chain, NeverTruncated

(* Every step of the tool and every disk change keeps the invariant.       *)
LEMMA StepIInv == IInv /\ [Next]_vars => IInv'
<1> SUFFICES ASSUME IInv, [Next]_vars PROVE IInv' OBVIOUS
<1> USE SizeAssumption
<1>1. CASE Start
  <2>1. Chain' /\ NeverTruncated'
    BY <1>1, ChainUnchanged DEF Start, IInv, TypeOK
  <2>2. CASE Goto("port", held \union {"snapshot"}) /\ samples' \in 2 .. MaxSamples
    <3>1. samples' \in 0 .. MaxSamples /\ samples' >= 2
      BY <2>2
    <3>2. TypeOK'
      BY <1>1, <2>2, <3>1 DEF Start, Goto, IInv, TypeOK, Places, Resources
    <3>3. Phase' /\ NothingLeaks' /\ PrintedIsWhole'
      BY <1>1, <2>2, <3>1 DEF Start, Goto, IInv, Phase, Opening, NothingLeaks,
         PrintedIsWhole, Resources
    <3> QED BY <2>1, <3>2, <3>3 DEF IInv
  <2>3. CASE (Leave(10, held) \/ Leave(20, held)) /\ UNCHANGED samples
    <3>1. TypeOK' /\ Phase' /\ NothingLeaks' /\ PrintedIsWhole'
      BY <1>1, <2>3 DEF Start, Leave, IInv, TypeOK, Phase, Opening, NothingLeaks,
         PrintedIsWhole, Places, Resources
    <3> QED BY <2>1, <3>1 DEF IInv
  <2> QED BY <1>1, <2>2, <2>3 DEF Start
<1>2. CASE CreatePort
  <2>1. Chain' /\ NeverTruncated'
    BY <1>2, ChainUnchanged DEF CreatePort, IInv, TypeOK
  <2>2. TypeOK' /\ Phase' /\ NothingLeaks' /\ PrintedIsWhole'
    BY <1>2 DEF CreatePort, Leave, Goto, IInv, TypeOK, Phase, Opening, NothingLeaks,
                PrintedIsWhole, Places, Resources
  <2> QED BY <2>1, <2>2 DEF IInv
<1>3. CASE CreateRequest
  <2>1. Chain' /\ NeverTruncated'
    BY <1>3, ChainUnchanged DEF CreateRequest, WithoutRequest, IInv, TypeOK
  <2>2. TypeOK' /\ Phase' /\ NothingLeaks' /\ PrintedIsWhole'
    BY <1>3 DEF CreateRequest, WithoutRequest, Leave, Goto, IInv, TypeOK, Phase, Opening, NothingLeaks,
                PrintedIsWhole, Places, Resources
  <2> QED BY <2>1, <2>2 DEF IInv
<1>4. CASE OpenDevice
  <2>1. Chain' /\ NeverTruncated'
    BY <1>4, ChainUnchanged DEF OpenDevice, IInv, TypeOK
  <2>2. TypeOK' /\ Phase' /\ NothingLeaks' /\ PrintedIsWhole'
    BY <1>4 DEF OpenDevice, Leave, Goto, IInv, TypeOK, Phase, Opening, NothingLeaks,
                PrintedIsWhole, Places, Resources
  <2> QED BY <2>1, <2>2 DEF IInv
<1>5. CASE FirstQuery
  <2>1. CASE Goto("poll", held)
    <3>1. snapshot' = [snapshot EXCEPT !.initial = drive] /\ previous' = drive /\ sample' = 1
          /\ drive' = drive
      BY <1>5, <2>1 DEF FirstQuery, Goto, Leave
    <3>2. log = << >> /\ UNCHANGED log
      BY <1>5, <3>1 DEF FirstQuery, IInv, TypeOK, Phase, Opening, Chain, log
    <3>3. Chain' /\ NeverTruncated'
      BY <3>1, <3>2 DEF IInv, TypeOK, Chain, NeverTruncated
    <3>4. snapshot' \in [events : Tables(Events, MaxEvents), initial : Nat, final : Nat]
      BY <3>1 DEF IInv, TypeOK
    <3>5. TypeOK'
      BY <1>5, <2>1, <3>1, <3>4 DEF FirstQuery, Goto, IInv, TypeOK, Places
    <3>6. samples >= 1
      BY <1>5 DEF FirstQuery, IInv, TypeOK, Phase, Opening
    <3>7. Phase' /\ NothingLeaks' /\ PrintedIsWhole'
      BY <1>5, <2>1, <3>1, <3>6 DEF FirstQuery, Goto, IInv, TypeOK, Phase, Opening,
         NothingLeaks, PrintedIsWhole, Places, Resources
    <3> QED BY <3>3, <3>5, <3>7 DEF IInv
  <2>2. CASE Leave(20, CloseDevice \ {"snapshot"}) /\ UNCHANGED <<previous, snapshot, sample>>
    <3>1. Chain' /\ NeverTruncated'
      BY <1>5, <2>2, ChainUnchanged DEF FirstQuery, IInv, TypeOK
    <3>2. TypeOK' /\ Phase' /\ NothingLeaks' /\ PrintedIsWhole'
      BY <1>5, <2>2 DEF FirstQuery, Leave, CloseDevice, IInv, TypeOK, Phase, Opening,
         NothingLeaks, PrintedIsWhole, Places, Resources
    <3> QED BY <3>1, <3>2 DEF IInv
  <2> QED BY <1>5, <2>1, <2>2 DEF FirstQuery
<1>6. CASE Poll
  <2>1. CASE previous' = drive /\ sample' = sample + 1 /\ UNCHANGED <<pc, rc>>
    <3>1. /\ snapshot' \in [events : Tables(Events, MaxEvents), initial : Nat, final : Nat]
          /\ Chain' /\ NeverTruncated'
      BY <1>6, <2>1, PollChain
    <3>2. TypeOK' /\ Phase' /\ NothingLeaks' /\ PrintedIsWhole'
      BY <1>6, <2>1, <3>1 DEF Poll, More, Known, Counted, IInv, TypeOK, Phase, Opening, NothingLeaks,
         PrintedIsWhole, Places, Resources
    <3> QED BY <3>1, <3>2 DEF IInv
  <2>2. CASE pc' = "final" /\ rc' = 20 /\ UNCHANGED <<snapshot, previous, sample>>
    <3>1. Chain' /\ NeverTruncated'
      BY <1>6, <2>2, ChainUnchanged DEF Poll, More, Known, Counted, IInv, TypeOK
    <3>2. TypeOK' /\ Phase' /\ NothingLeaks' /\ PrintedIsWhole'
      BY <1>6, <2>2 DEF Poll, More, Known, Counted, IInv, TypeOK, Phase, Opening, NothingLeaks,
         PrintedIsWhole, Places, Resources
    <3> QED BY <3>1, <3>2 DEF IInv
  <2> QED BY <1>6, <2>1, <2>2 DEF Poll, More, Known, Counted
<1>7. CASE LastPoll
  <2>1. Chain' /\ NeverTruncated'
    BY <1>7, ChainUnchanged DEF LastPoll, IInv, TypeOK
  <2>2. TypeOK' /\ Phase' /\ NothingLeaks' /\ PrintedIsWhole'
    BY <1>7 DEF LastPoll, IInv, TypeOK, Phase, Opening, NothingLeaks,
                PrintedIsWhole, Places, Resources
  <2> QED BY <2>1, <2>2 DEF IInv
<1>8. CASE Finish
  <2>1. /\ snapshot' \in [events : Tables(Events, MaxEvents), initial : Nat, final : Nat]
        /\ snapshot'.events = snapshot.events
        /\ snapshot'.initial = snapshot.initial
        /\ snapshot'.final = previous
        /\ UNCHANGED log
    BY <1>8 DEF Finish, Prints, IInv, TypeOK, log
  <2>2. Chain' /\ NeverTruncated'
    BY <1>8, <2>1 DEF Finish, Prints, IInv, TypeOK, Chain, NeverTruncated
  <2>3. TypeOK'
    BY <1>8, <2>1 DEF Finish, Prints, Leave, CloseDevice, IInv, TypeOK, Places, Resources
  <2>4. Phase' /\ NothingLeaks' /\ PrintedIsWhole'
    BY <1>8, <2>1 DEF Finish, Prints, Leave, CloseDevice, IInv, TypeOK, Phase, Opening,
                NeverTruncated, NothingLeaks, PrintedIsWhole, Places, Resources
  <2> QED BY <2>2, <2>3, <2>4 DEF IInv
<1>9. CASE DiskChange
  <2>1. Chain' /\ NeverTruncated'
    BY <1>9, ChainUnchanged DEF DiskChange, IInv, TypeOK
  <2>2. TypeOK' /\ Phase' /\ NothingLeaks' /\ PrintedIsWhole'
    BY <1>9 DEF DiskChange, IInv, TypeOK, Phase, Opening, NothingLeaks,
                PrintedIsWhole, Places, Resources
  <2> QED BY <2>1, <2>2 DEF IInv
<1>10. CASE UNCHANGED vars
  <2>1. Chain' /\ NeverTruncated'
    BY <1>10, ChainUnchanged DEF vars, IInv, TypeOK
  <2>2. TypeOK' /\ Phase' /\ NothingLeaks' /\ PrintedIsWhole'
    BY <1>10 DEF vars, IInv, TypeOK, Phase, Opening, NothingLeaks, PrintedIsWhole
  <2> QED BY <2>1, <2>2 DEF IInv
<1> QED BY <1>1, <1>2, <1>3, <1>4, <1>5, <1>6, <1>7, <1>8, <1>9, <1>10
        DEF Next, Tool, LoopTurn

(* The strengthened invariant holds of every run.                          *)
THEOREM Invariance == Spec => []IInv
  BY InitIInv, StepIInv, PTL DEF Spec

(* DiskWatch never indexes its event table beyond its end and its state    *)
(* stays well typed, whatever MaxEvents and MaxSamples are.                *)
THEOREM TypeCorrect == Spec => []TypeOK
<1>1. IInv => TypeOK
  BY DEF IInv
<1> QED BY <1>1, Invariance, PTL

(* No change between the first and the last poll is lost or told twice.    *)
THEOREM ChainUnbroken == Spec => []EventChain
<1>1. IInv => EventChain
  BY DEF IInv, Chain, EventChain, Watching, Phase, TypeOK
<1> QED BY <1>1, Invariance, PTL

(* The event table cannot overflow as long as it has a slot for each poll  *)
(* after the first: with 128 slots and 32 samples RC 5 is unreachable.     *)
THEOREM TableSuffices == Spec => []NeverTruncated
<1>1. IInv => NeverTruncated
  BY DEF IInv
<1> QED BY <1>1, Invariance, PTL

(* Every exit of main has released port, request, device and memory.       *)
THEOREM AllReleased == Spec => []NothingLeaks
<1>1. IInv => NothingLeaks
  BY DEF IInv
<1> QED BY <1>1, Invariance, PTL

(* Only a watch whose every poll succeeded is printed.                     *)
THEOREM OnlyWholeWatchesPrinted == Spec => []PrintedIsWhole
<1>1. IInv => PrintedIsWhole
  BY DEF IInv
<1> QED BY <1>1, Invariance, PTL
=============================================================================
