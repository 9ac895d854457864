------------------------------ MODULE DiskWatch ------------------------------
(***************************************************************************)
(* DiskWatch (src/diskwatch.c): open a trackdisk-like device, poll its     *)
(* change counter a bounded number of times, log every difference between  *)
(* two polls, close the device, and print the log when no poll failed.     *)
(*                                                                         *)
(* The drive is the environment: its counter may move any number of times  *)
(* between two polls, and any allocation, open or DoIO may fail.           *)
(***************************************************************************)
EXTENDS BoundedRecords

CONSTANTS
  MaxEvents,   (* DW_MAX_EVENTS, the capacity of the event table            *)
  MaxSamples,  (* DW_MAX_SAMPLES, the largest --samples                     *)
  MaxChange    (* bound of the model: disk changes while the tool runs      *)

(* 128 events are room enough for 32 samples. *)
ASSUME SizeAssumption ==
  /\ MaxSamples \in Nat /\ MaxSamples >= 2
  /\ MaxEvents \in Nat /\ MaxEvents >= MaxSamples - 1
  /\ MaxChange \in Nat

VARIABLES
  drive,     (* the change counter inside the device                        *)
  pc,        (* where main is                                               *)
  held,      (* what the tool has allocated or opened and not yet released  *)
  samples,   (* --samples                                                   *)
  sample,    (* polls made so far                                           *)
  previous,  (* the counter as the last successful poll returned it         *)
  snapshot,  (* the DWSnapshot: event table, initial and final counter      *)
  rc,        (* return code, of the last call and in the end of main        *)
  printed    (* the snapshot was written to standard output                 *)

vars == <<drive, pc, held, samples, sample, previous, snapshot, rc, printed>>

Places == {"start", "port", "request", "device", "first", "poll", "final", "exit"}
Resources == {"snapshot", "port", "request", "device"}
Events == [from : Nat, to : Nat]

Init ==
  /\ drive = 0
  /\ pc = "start"
  /\ held = {}
  /\ samples = 0
  /\ sample = 0
  /\ previous = 0
  /\ snapshot = [events |-> EmptyTable, initial |-> 0, final |-> 0]
  /\ rc = 0
  /\ printed = FALSE
-----------------------------------------------------------------------------
(* main stops here with this return code, still holding what is kept. *)
Leave(code, kept) ==
  /\ pc' = "exit"
  /\ rc' = code
  /\ held' = kept

Goto(place, kept) ==
  /\ pc' = place
  /\ held' = kept
  /\ UNCHANGED rc

(* Arguments are rejected, or memory for the snapshot is missing, or the   *)
(* watch begins with a number of samples the parser lets through.          *)
Start ==
  /\ pc = "start"
  /\ \/ Leave(10, held) /\ UNCHANGED samples
     \/ Leave(20, held) /\ UNCHANGED samples
     \/ Goto("port", held \union {"snapshot"}) /\ samples' \in 2 .. MaxSamples
  /\ UNCHANGED <<drive, sample, previous, snapshot, printed>>

(* open_device: each step that fails releases what the earlier ones made,  *)
(* and main frees the snapshot.                                            *)
CreatePort ==
  /\ pc = "port"
  /\ \/ Goto("request", held \union {"port"})
     \/ Leave(20, held \ {"snapshot"})
  /\ UNCHANGED <<drive, samples, sample, previous, snapshot, printed>>

WithoutRequestLeak == held \ {"snapshot"}
WithoutRequest == held \ {"port", "snapshot"}

CreateRequest ==
  /\ pc = "request"
  /\ \/ Goto("device", held \union {"request"})
     \/ Leave(20, WithoutRequest)
  /\ UNCHANGED <<drive, samples, sample, previous, snapshot, printed>>

OpenDevice ==
  /\ pc = "device"
  /\ \/ Goto("first", held \union {"device"})
     \/ Leave(20, held \ {"request", "port", "snapshot"})
  /\ UNCHANGED <<drive, samples, sample, previous, snapshot, printed>>

CloseDevice == held \ {"device", "request", "port"}

(* The query before the loop: the value every later one is compared with.  *)
FirstQuery ==
  /\ pc = "first"
  /\ \/ /\ previous' = drive
        /\ snapshot' = [snapshot EXCEPT !.initial = drive]
        /\ sample' = 1
        /\ Goto("poll", held)
     \/ /\ Leave(20, CloseDevice \ {"snapshot"})
        /\ UNCHANGED <<previous, snapshot, sample>>
  /\ UNCHANGED <<drive, samples, printed>>

AddEvent(s, old, new) ==
  [s EXCEPT !.events = AddRecord(@, [from |-> old, to |-> new], MaxEvents)]

MoreOnce == sample <= samples
More == sample < samples

KnownStale == previous
Known == drive

CountedOver == IF sample + 1 = samples THEN 1 ELSE sample + 1
Counted == sample + 1

(* One turn of the sampling loop: Delay is over, DoIO answers or fails.    *)
Poll ==
  /\ pc = "poll" /\ More
  /\ \/ /\ snapshot' = IF drive # previous
                         THEN AddEvent(snapshot, previous, drive) ELSE snapshot
        /\ previous' = Known
        /\ sample' = Counted
        /\ UNCHANGED <<pc, rc>>
     \/ /\ pc' = "final" /\ rc' = 20
        /\ UNCHANGED <<snapshot, previous, sample>>
  /\ UNCHANGED <<drive, held, samples, printed>>

LastPoll ==
  /\ pc = "poll" /\ sample = samples
  /\ pc' = "final"
  /\ UNCHANGED <<drive, held, samples, sample, previous, snapshot, rc, printed>>

PrintsAnyway == TRUE
Prints == rc = 0

(* After the loop, whether it ran out or broke off: record the final       *)
(* counter, close the device, print if every poll succeeded, free.         *)
Finish ==
  /\ pc = "final"
  /\ snapshot' = [snapshot EXCEPT !.final = previous]
  /\ printed' = Prints
  /\ Leave(IF rc = 0 /\ snapshot.events.truncated THEN 5 ELSE rc,
           CloseDevice \ {"snapshot"})
  /\ UNCHANGED <<drive, samples, sample, previous>>

(* Environment: a disk is inserted or removed.                             *)
DiskChange ==
  /\ drive < MaxChange
  /\ drive' = drive + 1
  /\ UNCHANGED <<pc, held, samples, sample, previous, snapshot, rc, printed>>

LoopTurn == Poll \/ LastPoll
Tool ==
  Start \/ CreatePort \/ CreateRequest \/ OpenDevice \/ FirstQuery \/ LoopTurn \/ Finish

Next == Tool \/ DiskChange

(* Every call of the tool returns: allocations, DoIO and Delay do.         *)
Spec == Init /\ [][Next]_vars /\ WF_vars(Tool)
-----------------------------------------------------------------------------
log == snapshot.events.recs
Watching == pc \in {"poll", "final"} \/ printed

TypeOK ==
  /\ drive \in Nat
  /\ pc \in Places
  /\ held \subseteq Resources
  /\ samples \in 0 .. MaxSamples
  /\ sample \in 0 .. MaxSamples
  /\ previous \in Nat
  /\ snapshot \in [events : Tables(Events, MaxEvents), initial : Nat, final : Nat]
  /\ rc \in {0, 5, 10, 20}
  /\ printed \in BOOLEAN

(* The log is one unbroken chain of counter values from the first poll to  *)
(* the last: no change between two polls is left out, none is told twice,  *)
(* however the drive and the polls interleave.                             *)
EventChain ==
  Watching =>
    /\ log = << >> => previous = snapshot.initial
    /\ log # << >> => /\ log[1].from = snapshot.initial
                      /\ log[Len(log)].to = previous
    /\ \A i \in 1 .. Len(log) : log[i].from < log[i].to
    /\ \A i \in 1 .. Len(log) - 1 : log[i].to = log[i + 1].from

(* The event table can never overflow, so RC 5 is dead code: 32 samples    *)
(* make at most 31 events.                                                 *)
NeverTruncated ==
  /\ ~ snapshot.events.truncated
  /\ sample > 0 => Len(log) < sample

(* Every way out of main gives back the port, the request, the device and  *)
(* the memory, and no query is made without an open device.                *)
NothingLeaks ==
  /\ pc = "exit" => held = {}
  /\ pc \in {"first", "poll", "final"} => held = Resources

(* What is printed is a whole watch: every sample was taken and the final  *)
(* counter is the one the chain of events leads to.                        *)
PrintedIsWhole ==
  printed => /\ pc = "exit" /\ rc = 0
             /\ sample = samples
             /\ snapshot.final = previous

(* The watch is bounded: whatever the drive does, main returns.            *)
Terminates == <>(pc = "exit")
=============================================================================
