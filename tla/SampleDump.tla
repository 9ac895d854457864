----------------------------- MODULE SampleDump -----------------------------
(***************************************************************************)
(* src/sampledump.c: copy a range of memory that lies in one region into a *)
(* file, chunk by chunk, with a checksum.  Addresses are unsigned numbers  *)
(* of the machine word; other tasks write to the memory meanwhile.         *)
(*                                                                         *)
(* A byte is its address and whether it was read before or after such a    *)
(* write.  The checksum is the sequence of bytes it was made of.           *)
(***************************************************************************)
EXTENDS Naturals, Sequences

CONSTANTS
  Word,      (* 2^32                                                        *)
  MaxBytes,  (* SD_MAX_BYTES                                                *)
  Chunk,     (* SD_CHUNK                                                    *)
  Headers    (* the lists of memory headers the machine may have            *)

VARIABLES
  headers,          (* Exec's memory list                                   *)
  rewritten,        (* another task has written to the range                *)
  pc, rc,           (* where main is, what it returns                       *)
  address, length,  (* the arguments                                        *)
  buf, done, crc,   (* locals of dump_range                                 *)
  file              (* the file called output: absent, an older one, or ours*)

NoFile == [is |-> "absent", bytes |-> << >>]
OldFile == [is |-> "older", bytes |-> << >>]
OurFile(bytes) == [is |-> "ours", bytes |-> bytes]

DumpInit ==
  /\ headers \in Headers /\ rewritten = FALSE
  /\ pc = "start" /\ rc = 0 /\ address = 0 /\ length = 0
  /\ buf = << >> /\ done = 0 /\ crc = << >>
  /\ file \in {NoFile, OldFile}
-----------------------------------------------------------------------------
Exit(code) == pc' = "exit" /\ rc' = code
Continue(place) == pc' = place /\ UNCHANGED rc

Arguments ==
  /\ pc = "start"
  /\ address' \in 0 .. Word - 1 /\ length' \in 0 .. MaxBytes + 1
  /\ IF length' \in 1 .. MaxBytes THEN Continue("find") ELSE Exit(10)
  /\ UNCHANGED <<headers, rewritten, buf, done, crc, file>>

EndOfRange == (address + length) % Word

Covers(r) == r.upper > r.lower /\ address >= r.lower /\ EndOfRange <= r.upper

InRegionUnguarded == \E i \in DOMAIN headers : Covers(headers[i])

(* find_region: the range may end at the last address, where its end is 0. *)
InRegion ==
  /\ address <= (Word - 1) - (length - 1)
  /\ \E i \in DOMAIN headers : Covers(headers[i])

FindRegion ==
  /\ pc = "find"
  /\ IF InRegion THEN Continue("open") ELSE Exit(5)
  /\ UNCHANGED <<headers, rewritten, address, length, buf, done, crc, file>>

(* fopen empties an older file of that name. *)
OpenOutput ==
  /\ pc = "open"
  /\ \/ Exit(20) /\ UNCHANGED file
     \/ Continue("read") /\ file' = OurFile(<< >>)
  /\ UNCHANGED <<headers, rewritten, address, length, buf, done, crc>>

Bytes(n) == [i \in 1 .. n |-> [at |-> (address + done + i - 1) % Word, late |-> rewritten]]

ReadBytes ==
  /\ pc = "read" /\ done < length
  /\ buf' = Bytes(IF length - done > Chunk THEN Chunk ELSE length - done)
  /\ Continue("write")
  /\ UNCHANGED <<headers, rewritten, address, length, done, crc, file>>

RemoveForgotten == file
Remove == NoFile

HashedAgain == Bytes(Len(buf))
Hashed == buf

(* A write that fails, wholly or in part, takes the file with it. *)
WriteChunk ==
  /\ pc = "write"
  /\ \/ Exit(20) /\ file' = Remove /\ UNCHANGED <<done, crc>>
     \/ /\ file' = OurFile(file.bytes \o buf)
        /\ crc' = crc \o Hashed /\ done' = done + Len(buf)
        /\ Continue("read")
  /\ UNCHANGED <<headers, rewritten, address, length, buf>>

CloseOutput ==
  /\ pc = "read" /\ done >= length
  /\ \/ Exit(20) /\ file' = Remove
     \/ Exit(0) /\ UNCHANGED file
  /\ UNCHANGED <<headers, rewritten, address, length, buf, done, crc>>

DumpTool ==
  Arguments \/ FindRegion \/ OpenOutput \/ ReadBytes \/ WriteChunk \/ CloseOutput

MemoryChanges ==
  /\ pc \in {"read", "write"} /\ ~ rewritten /\ rewritten' = TRUE
  /\ UNCHANGED <<headers, pc, rc, address, length, buf, done, crc, file>>

DumpNext == DumpTool \/ MemoryChanges
-----------------------------------------------------------------------------
DumpTypeOK ==
  /\ pc \in {"start", "find", "open", "read", "write", "exit"}
  /\ rc \in {0, 5, 10, 20}
  /\ address \in 0 .. Word - 1 /\ length \in 0 .. MaxBytes + 1
  /\ Len(buf) <= Chunk /\ done \in 0 .. MaxBytes
  /\ file.is \in {"absent", "older", "ours"}

RangeInRegion ==
  \E i \in DOMAIN headers : headers[i].lower <= address /\ address + length <= headers[i].upper

(* RC 0: the file is the range, byte by byte, and the checksum is that of  *)
(* the file although memory changed; the range is in one region unless it  *)
(* ends at the top of the address space.                                   *)
DumpIsWhole ==
  pc = "exit" /\ rc = 0 =>
    /\ file.is = "ours" /\ crc = file.bytes
    /\ [i \in DOMAIN file.bytes |-> file.bytes[i].at] = [i \in 1 .. length |-> address + i - 1]
    /\ RangeInRegion \/ address + length = Word

(* A refusal is earned: there is no region that holds the range. *)
RefusalIsEarned == pc = "exit" /\ rc = 5 => ~ RangeInRegion

(* docs/M3_4_QUALIFICATION.md:23: no part of a dump outlives a failure.    *)
NoPartialFile == pc = "exit" /\ rc # 0 => file.is # "ours"

(* docs/M3_4_QUALIFICATION.md:17: what is dumped lies wholly within one    *)
(* known region.                                                           *)
DumpIsInRegion == pc = "exit" /\ rc = 0 => RangeInRegion
=============================================================================
