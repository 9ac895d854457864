----------------------------- MODULE PatchView ------------------------------
(***************************************************************************)
(* src/patchview.c: list the jump vectors in front of a library or device  *)
(* base.  Each vector is read three times without Forbid(): its opcode,    *)
(* its target if the opcode is a JMP, and its bytes for the checksum;      *)
(* SetFunction by another task may come between.                           *)
(*                                                                         *)
(* A vector is one of: an original jump, a patched one, other code.        *)
(***************************************************************************)
EXTENDS Naturals, Sequences, FiniteSets

CONSTANTS
  VectorSize,  (* PV_VECTOR_SIZE                                            *)
  MaxCount,    (* PV_MAX_COUNT                                              *)
  NegSizes     (* what lib_NegSize may be                                   *)

VARIABLES
  neg_size, vectors,  (* the library in memory                              *)
  pc, rc,             (* where main is, what it returns                     *)
  kind, count,        (* "exec", "library" or "device", and --count         *)
  held,               (* what main and the inspection have acquired         *)
  release,            (* what is still to be given back on this way out     *)
  records, sum,       (* the records so far, the bytes in the checksum      *)
  opcode, target,     (* of the record in work                              *)
  patched             (* history: vectors set during the inspection          *)

Code == {"jump", "patch", "other"}
Jumps == {"jump", "patch"}
Nowhere == "none"

PatchInit ==
  /\ neg_size \in NegSizes /\ vectors \in [1 .. neg_size \div VectorSize -> Code]
  /\ pc = "start" /\ rc = 0 /\ kind = "exec" /\ count = 0
  /\ held = {} /\ release = << >> /\ records = << >> /\ sum = << >>
  /\ opcode = "JMP" /\ target = Nowhere /\ patched = {}
-----------------------------------------------------------------------------
library == <<neg_size, vectors>>
inspection == <<records, sum, opcode, target, patched>>

Arguments ==
  /\ pc = "start"
  /\ kind' \in {"exec", "library", "device"} /\ count' \in 0 .. MaxCount + 1
  /\ IF count' \in 1 .. MaxCount
       THEN pc' = "alloc" /\ UNCHANGED rc
       ELSE pc' = "exit" /\ rc' = 10
  /\ UNCHANGED <<library, held, release, inspection>>

(* A call at one place succeeds and the next comes, or it fails, and the   *)
(* function gives back what its own exit names, one after the other.       *)
Succeeds(next, what) ==
  pc' = next /\ held' = held \union what /\ UNCHANGED <<rc, release>>
Fails(exit) ==
  pc' = "release" /\ rc' = 20 /\ release' = exit /\ UNCHANGED held
Otherwise == UNCHANGED <<library, kind, count, inspection>>

(* main: without the memory it returns at once.                            *)
AllocRecords ==
  /\ pc = "alloc"
  /\ \/ Succeeds(CASE kind = "exec" -> "opcode"
                   [] kind = "library" -> "library"
                   [] OTHER -> "port", {"records"})
     \/ pc' = "exit" /\ rc' = 20 /\ UNCHANGED <<held, release>>
  /\ Otherwise

(* inspect_library; exec.library is not opened.                            *)
OpenLibrary ==
  /\ pc = "library"
  /\ Succeeds("opcode", {"library"}) \/ Fails(<< >>)
  /\ Otherwise

(* inspect_device, with the four exits it has.                             *)
CreatePort ==
  /\ pc = "port"
  /\ Succeeds("request", {"port"}) \/ Fails(<< >>)
  /\ Otherwise

WithoutRequest == <<"port">>

CreateRequest ==
  /\ pc = "request"
  /\ Succeeds("device", {"request"}) \/ Fails(WithoutRequest)
  /\ Otherwise

WithoutDeviceReversed == <<"port", "request">>
WithoutDevice == <<"request", "port">>

OpenDevice ==
  /\ pc = "device"
  /\ Succeeds("base", {"device"}) \/ Fails(WithoutDevice)
  /\ Otherwise

WithoutBaseLeftOpen == <<"request", "port">>
WithoutBase == <<"device", "request", "port">>

(* The device is open, and yet io_Device may be NULL.                      *)
TakeBase ==
  /\ pc = "base"
  /\ Succeeds("opcode", {}) \/ Fails(WithoutBase)
  /\ Otherwise

Available == neg_size \div VectorSize
Inspected == IF count > Available THEN Available ELSE count
Clipped == Inspected # count

This == vectors[Len(records) + 1]

ReadOpcode ==
  /\ pc = "opcode" /\ Len(records) < Inspected
  /\ opcode' = IF This \in Jumps THEN "JMP" ELSE "other"
  /\ pc' = "target"
  /\ UNCHANGED <<library, rc, kind, count, held, release, records, sum, target, patched>>

(* read_be32 reads byte by byte: two halves may be of two targets.         *)
ReadTarget ==
  /\ pc = "target"
  /\ target' = IF opcode = "JMP" THEN This ELSE Nowhere
  /\ pc' = IF opcode = "JMP" THEN "rest" ELSE "sum"
  /\ UNCHANGED <<library, rc, kind, count, held, release, records, sum, opcode, patched>>

ReadRest ==
  /\ pc = "rest"
  /\ target' = IF target = This THEN This ELSE "mixture"
  /\ pc' = "sum"
  /\ UNCHANGED <<library, rc, kind, count, held, release, records, sum, opcode, patched>>

AddToSum ==
  /\ pc = "sum"
  /\ sum' = Append(sum, This)
  /\ records' = Append(records, [opcode |-> opcode, target |-> target])
  /\ pc' = "opcode"
  /\ UNCHANGED <<library, rc, kind, count, held, release, opcode, target, patched>>

AfterInspection ==
  CASE kind = "exec" -> << >>
    [] kind = "library" -> <<"library">>
    [] OTHER -> <<"device", "request", "port">>

EndInspection ==
  /\ pc = "opcode" /\ Len(records) = Inspected
  /\ pc' = "release" /\ release' = AfterInspection
  /\ UNCHANGED <<library, rc, kind, count, held, inspection>>

Release ==
  /\ pc = "release" /\ release # << >>
  /\ held' = held \ {Head(release)} /\ release' = Tail(release)
  /\ UNCHANGED <<library, pc, rc, kind, count, inspection>>

(* Back in main: a listing is printed, and the memory is freed either way. *)
Return ==
  /\ pc = "release" /\ release = << >>
  /\ pc' = IF rc = 0 THEN "print" ELSE "free"
  /\ UNCHANGED <<library, rc, kind, count, held, release, inspection>>

Report ==
  /\ pc = "print"
  /\ pc' = "free" /\ rc' = IF Clipped THEN 5 ELSE 0
  /\ UNCHANGED <<library, kind, count, held, release, inspection>>

Free ==
  /\ pc = "free"
  /\ pc' = "exit" /\ held' = held \ {"records"}
  /\ UNCHANGED <<library, rc, kind, count, release, inspection>>

PatchTool ==
  \/ Arguments \/ AllocRecords \/ OpenLibrary
  \/ CreatePort \/ CreateRequest \/ OpenDevice \/ TakeBase
  \/ ReadOpcode \/ ReadTarget \/ ReadRest \/ AddToSum
  \/ EndInspection \/ Release \/ Return \/ Report \/ Free

(* Another task patches a vector or restores it.                           *)
SetFunction ==
  /\ pc \in {"opcode", "target", "rest", "sum"}
  /\ \E v \in DOMAIN vectors : \E c \in Jumps \ {vectors[v]} :
       vectors' = [vectors EXCEPT ![v] = c] /\ patched' = patched \union {v}
  /\ UNCHANGED <<neg_size, pc, rc, kind, count, held, release, records, sum, opcode, target>>

PatchNext == PatchTool \/ SetFunction
-----------------------------------------------------------------------------
PatchTypeOK ==
  /\ pc \in {"start", "alloc", "library", "port", "request", "device", "base",
            "opcode", "target", "rest", "sum", "release", "print", "free", "exit"}
  /\ rc \in {0, 5, 10, 20}
  /\ count \in 0 .. MaxCount + 1 /\ Len(records) <= MaxCount
  /\ held \subseteq {"records", "library", "port", "request", "device"}
  /\ opcode \in {"JMP", "other"} /\ target \in Code \union {Nowhere, "mixture"}

RecordOf(c) ==
  [opcode |-> IF c \in Jumps THEN "JMP" ELSE "other", target |-> IF c \in Jumps THEN c ELSE Nowhere]

(* What is printed: the first vectors, as many as were asked for if RC is  *)
(* 0; a vector nobody set meanwhile has its true record, and its bytes are *)
(* what the checksum is made of.                                           *)
QuietViewIsExact ==
  pc = "exit" /\ rc \in {0, 5} =>
    /\ \A i \in DOMAIN records \ patched : records[i] = RecordOf(vectors[i]) /\ sum[i] = vectors[i]
    /\ Len(sum) = Len(records) /\ Len(records) <= Available
    /\ rc = 0 => Len(records) = count

(* RC 5 is not raised for nothing: the table ends before the last vector.  *)
ClipIsEarned == pc = "exit" /\ rc = 5 => count > Available

(* Each exit gives back what was acquired by then, all of it, nothing      *)
(* twice, and nothing that another thing held still needs: a device its    *)
(* request, a request its port.  What is read is open; the function leaves *)
(* nothing to main but main's own memory, and main leaves nothing.         *)
NothingLeaks ==
  /\ pc \in {"opcode", "target", "rest", "sum"} =>
       {"records"} \union (CASE kind = "exec" -> {} [] kind = "library" -> {"library"}
                             [] OTHER -> {"device"}) \subseteq held
  /\ "device" \in held => "request" \in held
  /\ "request" \in held => "port" \in held
  /\ pc = "release" =>
       /\ \A i \in DOMAIN release : release[i] \in held
       /\ \A i, j \in DOMAIN release : release[i] = release[j] => i = j
  /\ pc \in {"print", "free"} => held = {"records"}
  /\ pc = "exit" => held = {}
=============================================================================
