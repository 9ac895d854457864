--------------------------- MODULE CollectorsProofs ---------------------------
(***************************************************************************)
(* What the programs that look once promise, for any sizes of tables,      *)
(* chunks and words: each has an invariant of its own, and a step of one   *)
(* leaves it the program that runs.                                        *)
(***************************************************************************)
EXTENDS Collectors, FileReadersProofs

(* The sizes of tables, chunks and words. *)
LEMMA Limits ==
  /\ {MaxRegions, MaxResidents, MaxCandidates, MaxModules, RegionLimit, MinSize,
      Word, MaxBytes, Chunk, VectorSize, MaxCount} \subseteq Nat \ {0}
  /\ TotalLimit \in Nat /\ NegSizes \subseteq Nat
  /\ Word # 1 /\ {MaxSources, MaxCalls} \subseteq Nat
BY LimitAssumption, WordAssumption, StringAssumption

(* SampleDump: the file holds the bytes the checksum was made of, which are*)
(* those of the range so far; it is ours only while it grows, and once it  *)
(* is whole.                                                               *)
DumpByte == [at : Nat, late : BOOLEAN]

Consecutive(s, from) ==
  s \in Seq(DumpByte) /\ \A i \in 1 .. Len(s) : s[i].at = from + i - 1

Copied ==
  /\ file = Dump!OurFile(crc) /\ Consecutive(crc, address)
  /\ done = Len(crc) /\ done <= length

DumpInv ==
  /\ rewritten \in BOOLEAN
  /\ pc \in {"start", "find", "open", "read", "write", "exit"}
  /\ address \in 0 .. Word - 1 /\ length \in 0 .. MaxBytes + 1
  /\ pc # "exit" => rc = 0
  /\ pc \in {"find", "open", "read", "write"} => length \in 1 .. MaxBytes
  /\ pc \in {"start", "find", "open"} => file.is # "ours" /\ done = 0 /\ crc = << >>
  /\ pc \in {"open", "read", "write"} => Dump!InRegion
  /\ pc \in {"read", "write"} => Copied
  /\ pc = "write" => Consecutive(buf, address + done) /\ Len(buf) <= length - done
  /\ pc = "exit" /\ rc = 0 => Copied /\ done = length /\ length \in 1 .. MaxBytes /\ Dump!InRegion
  /\ pc = "exit" /\ rc # 0 => file.is # "ours"

LEMMA InitDump == ASSUME Dump!DumpInit PROVE DumpInv
<1>1. /\ rewritten = FALSE /\ pc = "start" /\ rc = 0 /\ address = 0 /\ length = 0 /\ done = 0
      /\ crc = << >> /\ (file = Dump!NoFile \/ file = Dump!OldFile)
  BY DEF Dump!DumpInit
<1>2. file.is # "ours"
  BY <1>1 DEF Dump!NoFile, Dump!OldFile
<1>3. 0 \in 0 .. Word - 1 /\ 0 \in 0 .. MaxBytes + 1
  BY Limits
<1>4. rewritten \in BOOLEAN
  BY <1>1
<1> QED BY <1>1, <1>2, <1>3, <1>4 DEF DumpInv

LEMMA DumpFactsStay ==
  ASSUME headers' = headers, address' = address, length' = length
  PROVE  Dump!InRegion' = Dump!InRegion
BY DEF Dump!InRegion, Dump!Covers, Dump!EndOfRange

LEMMA StepDump ==
  ASSUME DumpInv, Dump!DumpNext
  PROVE  DumpInv'
<1>0. Word \in Nat \ {0} /\ MaxBytes \in Nat \ {0} /\ Chunk \in Nat \ {0}
  BY Limits
<1>1. CASE Dump!Arguments
  BY <1>1 DEF DumpInv, Dump!Arguments, Dump!Exit, Dump!Continue
<1>2. CASE Dump!FindRegion
  <2>1. /\ pc = "find" /\ headers' = headers /\ rewritten' = rewritten /\ address' = address
        /\ length' = length /\ done' = done /\ crc' = crc /\ file' = file
        /\ IF Dump!InRegion THEN pc' = "open" /\ rc' = rc ELSE pc' = "exit" /\ rc' = 5
    BY <1>2 DEF Dump!FindRegion, Dump!Exit, Dump!Continue
  <2> QED BY <2>1, DumpFactsStay DEF DumpInv
<1>3. CASE Dump!OpenOutput
  <2>1. /\ pc = "open" /\ headers' = headers /\ rewritten' = rewritten /\ address' = address
        /\ length' = length /\ done' = done /\ crc' = crc
        /\ \/ pc' = "exit" /\ rc' = 20 /\ file' = file
           \/ pc' = "read" /\ rc' = rc /\ file' = Dump!OurFile(<< >>)
    BY <1>3 DEF Dump!OpenOutput, Dump!Exit, Dump!Continue
  <2>2. crc = << >> /\ Len(crc) = 0 /\ crc \in Seq(DumpByte)
    BY <2>1 DEF DumpInv
  <2>3. pc' = "read" => Copied'
    BY <2>1, <2>2 DEF Copied, Consecutive, DumpInv
  <2> QED BY <2>1, <2>3, DumpFactsStay DEF DumpInv
<1>4. CASE Dump!ReadBytes
  <2> DEFINE n == IF length - done > Chunk THEN Chunk ELSE length - done
  <2>1. /\ pc = "read" /\ done < length /\ headers' = headers /\ rewritten' = rewritten
        /\ address' = address /\ length' = length /\ done' = done /\ crc' = crc /\ file' = file
        /\ pc' = "write" /\ rc' = rc /\ buf' = Dump!Bytes(n)
    BY <1>4 DEF Dump!ReadBytes, Dump!Continue
  <2>2. Dump!InRegion /\ Copied /\ length \in 1 .. MaxBytes /\ done \in Nat
    BY <2>1 DEF DumpInv, Copied, Consecutive
  <2>3. n \in Nat /\ n <= length - done
    BY <1>0, <2>1, <2>2
  <2> HIDE DEF n
  <2>4. address \in 0 .. Word - 1 /\ address <= (Word - 1) - (length - 1)
    BY <2>2 DEF DumpInv, Dump!InRegion
  <2>5. ASSUME NEW i \in 1 .. n
        PROVE  (address + done + i - 1) % Word = address + done + i - 1
    <3>1. address + done + i - 1 \in 0 .. Word - 1
      BY <1>0, <2>2, <2>3, <2>4
    <3> DEFINE a == address + done + i - 1
    <3> HIDE DEF a
    <3>2. a \in 0 .. Word - 1
      BY <3>1 DEF a
    <3>3. a % Word = a
      BY <1>0, <3>2
    <3> QED BY <3>3 DEF a
  <2>6. buf' = [i \in 1 .. n |-> [at |-> (address + done + i - 1) % Word, late |-> rewritten]]
    BY <2>1 DEF Dump!Bytes
  <2>7. \A i \in 1 .. n : buf'[i] = [at |-> address + done + i - 1, late |-> rewritten]
    BY <2>5, <2>6
  <2>8. Len(buf') = n /\ buf' \in Seq(DumpByte)
    <3>1. ASSUME NEW i \in 1 .. n PROVE buf'[i] \in DumpByte
      <4> DEFINE a == address + done + i - 1
      <4>1. a \in Nat
        BY <2>2, <2>3, <2>4
      <4>2. buf'[i] = [at |-> a, late |-> rewritten]
        BY <2>7
      <4>3. rewritten \in BOOLEAN
        BY Zenon DEF DumpInv
      <4> HIDE DEF a
      <4>4. ASSUME NEW c \in Nat, NEW b \in BOOLEAN PROVE [at |-> c, late |-> b] \in DumpByte
        BY DEF DumpByte
      <4> QED BY <4>1, <4>2, <4>3, <4>4, Zenon
    <3>2. DOMAIN buf' = 1 .. n
      BY <2>6
    <3>3. buf' \in [1 .. n -> DumpByte]
      BY <2>6, <3>1
    <3> QED BY <2>3, <3>3
  <2>9. Consecutive(buf, address + done)'
    BY <2>1, <2>7, <2>8 DEF Consecutive
  <2>10. Copied'
    BY <2>1, <2>2 DEF Copied
  <2> QED BY <2>1, <2>2, <2>3, <2>8, <2>9, <2>10, DumpFactsStay DEF DumpInv
<1>5. CASE Dump!WriteChunk
  <2>1. /\ pc = "write" /\ headers' = headers /\ rewritten' = rewritten
        /\ address' = address /\ length' = length
        /\ \/ pc' = "exit" /\ rc' = 20 /\ file' = Dump!NoFile
           \/ /\ file' = Dump!OurFile(file.bytes \o buf) /\ crc' = crc \o buf
              /\ done' = done + Len(buf) /\ pc' = "read" /\ rc' = rc
    BY <1>5 DEF Dump!WriteChunk, Dump!Exit, Dump!Continue, Dump!Remove, Dump!Hashed
  <2>2. CASE pc' = "exit"
    <3>1. file'.is # "ours" /\ rc' = 20
      BY <2>1, <2>2 DEF Dump!NoFile
    <3> QED BY <2>1, <2>2, <3>1 DEF DumpInv
  <2>3. CASE pc' = "read"
    <3>1. /\ Copied /\ Consecutive(buf, address + done) /\ Len(buf) <= length - done
          /\ length \in 1 .. MaxBytes /\ address \in 0 .. Word - 1
      BY <2>1 DEF DumpInv
    <3>2. file.bytes = crc /\ crc \in Seq(DumpByte) /\ buf \in Seq(DumpByte) /\ done = Len(crc)
      BY <3>1 DEF Copied, Dump!OurFile, Consecutive
    <3>3. /\ crc' \in Seq(DumpByte) /\ Len(crc') = Len(crc) + Len(buf)
          /\ \A i \in 1 .. Len(crc) : crc'[i] = crc[i]
          /\ \A i \in 1 .. Len(buf) : crc'[Len(crc) + i] = buf[i]
      <4>1. crc' = crc \o buf
        BY <2>1, <2>3, <3>2
      <4> QED BY <3>2, <4>1, Joined
    <3>4. ASSUME NEW i \in 1 .. Len(crc') PROVE crc'[i].at = address + i - 1
      <4>1. CASE i <= Len(crc)
        BY <3>1, <3>2, <3>3, <4>1 DEF Copied, Consecutive
      <4>2. CASE i > Len(crc)
        <5>1. i - Len(crc) \in 1 .. Len(buf) /\ Len(crc) + (i - Len(crc)) = i
          BY <3>2, <3>3, <4>2
        <5>2. crc'[i] = buf[i - Len(crc)]
          BY <3>3, <5>1
        <5>3. buf[i - Len(crc)].at = address + done + (i - Len(crc)) - 1
          BY <3>1, <5>1 DEF Consecutive
        <5> QED BY <1>0, <3>1, <3>2, <5>2, <5>3
      <4> QED BY <3>2, <3>3, <4>1, <4>2
    <3>5. Consecutive(crc, address)'
      BY <2>1, <3>3, <3>4 DEF Consecutive
    <3>6. file' = Dump!OurFile(crc') /\ done' = Len(crc') /\ done' <= length'
      <4>1. file' = Dump!OurFile(crc \o buf) /\ crc' = crc \o buf /\ done' = done + Len(buf)
        BY <2>1, <2>3, <3>2
      <4>2. Len(buf) \in Nat
        BY <3>2
      <4>3. done' = Len(crc') /\ done' <= length'
        BY <2>1, <3>1, <3>2, <3>3, <4>1, <4>2
      <4> QED BY <4>1, <4>3, Zenon
    <3>7. Copied'
      BY <3>5, <3>6 DEF Copied, Dump!OurFile
    <3> QED BY <2>1, <2>3, <3>1, <3>7, DumpFactsStay DEF DumpInv
  <2> QED BY <2>1, <2>2, <2>3
<1>6. CASE Dump!CloseOutput
  <2>1. /\ pc = "read" /\ done >= length /\ headers' = headers /\ rewritten' = rewritten
        /\ address' = address /\ length' = length /\ crc' = crc /\ done' = done
        /\ \/ pc' = "exit" /\ rc' = 20 /\ file' = Dump!NoFile
           \/ pc' = "exit" /\ rc' = 0 /\ file' = file
    BY <1>6 DEF Dump!CloseOutput, Dump!Exit, Dump!Remove
  <2>2. Copied /\ length \in 1 .. MaxBytes /\ Dump!InRegion /\ done \in Nat
    BY <2>1 DEF DumpInv, Copied, Consecutive
  <2>3. done = length
    BY <2>1, <2>2 DEF Copied
  <2>4. rc' = 20 => file'.is # "ours"
    BY <2>1 DEF Dump!NoFile
  <2>5. rc' = 0 => Copied'
    BY <2>1, <2>2 DEF Copied
  <2> QED BY <2>1, <2>2, <2>3, <2>4, <2>5, DumpFactsStay DEF DumpInv
<1>7. CASE Dump!MemoryChanges
  <2>1. /\ pc \in {"read", "write"} /\ pc' = pc /\ rc' = rc /\ headers' = headers
        /\ rewritten' = TRUE /\ address' = address /\ length' = length /\ crc' = crc
        /\ done' = done /\ file' = file /\ buf' = buf
    BY <1>7 DEF Dump!MemoryChanges
  <2>2. Copied' /\ rewritten' \in BOOLEAN
    BY <2>1 DEF DumpInv, Copied
  <2> QED BY <2>1, <2>2, DumpFactsStay DEF DumpInv
<1> QED BY <1>1, <1>2, <1>3, <1>4, <1>5, <1>6, <1>7 DEF Dump!DumpNext, Dump!DumpTool
-----------------------------------------------------------------------------
(* PatchView: the records made are those of the vectors as they are, but   *)
(* for vectors set meanwhile; so is what has been read of the next one;    *)
(* what is held is known at each place; and a way out that has begun names *)
(* what is held, latest first, but for main's own memory.                  *)
Acquiring == {"start", "alloc", "library", "port", "request", "device", "base"}
Reading == pc \in {"opcode", "target", "rest", "sum"}
MidVector == pc \in {"target", "rest", "sum"}
PatchRecord == [opcode : {"JMP", "other"}, target : Patch!Code \union {Patch!Nowhere, "mixture"}]

PatchTypes ==
  /\ neg_size \in NegSizes /\ vectors \in [1 .. Patch!Available -> Patch!Code]
  /\ pc \in {"start", "alloc", "library", "port", "request", "device", "base",
            "opcode", "target", "rest", "sum", "release", "print", "free", "exit"}
  /\ kind \in {"exec", "library", "device"} /\ count \in 0 .. MaxCount + 1
  /\ pc \notin {"start", "exit"} => count \in 1 .. MaxCount
  /\ pc \notin {"release", "free", "exit"} => rc = 0
  /\ pc = "release" => rc \in {0, 20}
  /\ opcode \in {"JMP", "other"} /\ target \in Patch!Code \union {Patch!Nowhere, "mixture"}
  /\ records \in Seq(PatchRecord) /\ sum \in Seq(Patch!Code) /\ Len(sum) = Len(records)

Opened ==
  CASE kind = "exec" -> {"records"}
    [] kind = "library" -> {"records", "library"}
    [] OTHER -> {"records", "port", "request", "device"}

OnTheWay(way, what) == release = way /\ held = what
WayOut ==
  \/ OnTheWay(<< >>, {"records"})
  \/ OnTheWay(<<"library">>, {"records", "library"})
  \/ OnTheWay(<<"port">>, {"records", "port"})
  \/ OnTheWay(<<"request", "port">>, {"records", "port", "request"})
  \/ OnTheWay(<<"device", "request", "port">>, {"records", "port", "request", "device"})

HeldRight ==
  /\ pc \in {"start", "alloc", "exit"} => held = {}
  /\ pc \in {"library", "port", "print", "free"} => held = {"records"}
  /\ pc = "request" => held = {"records", "port"}
  /\ pc = "device" => held = {"records", "port", "request"}
  /\ pc = "base" => held = {"records", "port", "request", "device"}
  /\ pc = "library" => kind = "library"
  /\ pc \in {"port", "request", "device", "base"} => kind = "device"
  /\ Reading => held = Opened
  /\ pc = "release" => WayOut

RecordsRight ==
  \A i \in 1 .. Len(records) :
    i \notin patched => records[i] = Patch!RecordOf(vectors[i]) /\ sum[i] = vectors[i]

NextRight ==
  /\ MidVector => Len(records) < Patch!Inspected
  /\ pc = "rest" => opcode = "JMP"
  /\ MidVector /\ Len(records) + 1 \notin patched =>
       /\ opcode = Patch!RecordOf(Patch!This).opcode
       /\ pc = "rest" => target = Patch!This
       /\ pc = "sum" => target = Patch!RecordOf(Patch!This).target

CountRight ==
  /\ pc \in Acquiring => Len(records) = 0
  /\ Reading => Len(records) <= Patch!Inspected
  /\ pc = "print" \/ (pc = "release" /\ rc = 0) => Len(records) = Patch!Inspected
  /\ pc \in {"free", "exit"} /\ rc \in {0, 5} => Len(records) = Patch!Inspected /\ (rc = 5 <=> Patch!Clipped)

PatchInv == PatchTypes /\ HeldRight /\ RecordsRight /\ NextRight /\ CountRight

(* How many vectors there are, and how many are looked at. *)
LEMMA Bounds ==
  ASSUME neg_size \in NegSizes, count \in 0 .. MaxCount + 1
  PROVE  /\ Patch!Available \in Nat /\ Patch!Inspected \in Nat
         /\ Patch!Inspected <= Patch!Available /\ Patch!Inspected <= count
         /\ Patch!Clipped <=> count > Patch!Available
<1>1. neg_size \in Nat /\ VectorSize \in Nat \ {0} /\ MaxCount \in Nat \ {0}
  BY Limits
<1>2. neg_size \div VectorSize \in Nat
  BY <1>1
<1>3. Patch!Available \in Nat
  BY <1>2 DEF Patch!Available
<1> QED BY <1>1, <1>3 DEF Patch!Inspected, Patch!Clipped

LEMMA InitPatch == ASSUME Patch!PatchInit PROVE PatchInv
<1>1. /\ neg_size \in NegSizes /\ vectors \in [1 .. Patch!Available -> Patch!Code]
      /\ pc = "start" /\ rc = 0 /\ kind = "exec" /\ count = 0 /\ held = {} /\ records = << >> /\ sum = << >>
      /\ opcode = "JMP" /\ target = Patch!Nowhere /\ patched = {}
  BY DEF Patch!PatchInit, Patch!Available
<1>2. Len(records) = 0 /\ Len(sum) = 0 /\ records \in Seq(PatchRecord) /\ sum \in Seq(Patch!Code)
  BY <1>1
<1>3. count \in 0 .. MaxCount + 1
  BY <1>1, Limits
<1>4. PatchTypes
  <2>1. Patch!Nowhere \in Patch!Code \union {Patch!Nowhere, "mixture"}
    OBVIOUS
  <2> QED BY <1>1, <1>2, <1>3, <2>1 DEF PatchTypes, Acquiring
<1> QED BY <1>1, <1>2, <1>4
        DEF PatchInv, Acquiring, HeldRight, RecordsRight, NextRight, CountRight, Reading, MidVector

(* What the inspection is about stays when the arguments and the library   *)
(* do.                                                                     *)
LEMMA PatchFactsStay ==
  ASSUME neg_size' = neg_size, count' = count, kind' = kind
  PROVE  /\ Patch!Available' = Patch!Available /\ Patch!Inspected' = Patch!Inspected
         /\ Patch!Clipped' = Patch!Clipped /\ Opened' = Opened
BY DEF Patch!Available, Patch!Inspected, Patch!Clipped, Opened

(* What main and the inspection acquire, each call or its own exit.        *)
LEMMA AcquireKeepsHeld ==
  ASSUME HeldRight, PatchTypes,
         \/ Patch!AllocRecords \/ Patch!OpenLibrary \/ Patch!CreatePort
         \/ Patch!CreateRequest \/ Patch!OpenDevice \/ Patch!TakeBase
  PROVE  /\ HeldRight'
         /\ pc \in Acquiring \ {"start"}
         /\ \/ pc' \in (Acquiring \ {"start"}) \union {"opcode"} /\ rc' = rc
            \/ pc' \in {"release", "exit"} /\ rc' = 20
<1>1. CASE Patch!AllocRecords
  <2>1. /\ pc = "alloc" /\ kind' = kind /\ held = {}
        /\ \/ /\ pc' = CASE kind = "exec" -> "opcode" [] kind = "library" -> "library" [] OTHER -> "port"
              /\ held' = held \union {"records"} /\ rc' = rc
           \/ pc' = "exit" /\ rc' = 20 /\ held' = held
    BY <1>1 DEF Patch!AllocRecords, Patch!Succeeds, Patch!Otherwise, HeldRight
  <2> QED BY <2>1 DEF HeldRight, PatchTypes, Reading, Opened, Acquiring
<1>2. CASE Patch!OpenLibrary
  <2>1. /\ pc = "library" /\ kind' = kind /\ kind = "library" /\ held = {"records"}
        /\ \/ pc' = "opcode" /\ held' = held \union {"library"} /\ rc' = rc
           \/ pc' = "release" /\ rc' = 20 /\ release' = << >> /\ held' = held
    BY <1>2 DEF Patch!OpenLibrary, Patch!Succeeds, Patch!Fails, Patch!Otherwise, HeldRight
  <2> QED BY <2>1 DEF HeldRight, Reading, Opened, Acquiring, WayOut, OnTheWay
<1>3. CASE Patch!CreatePort
  <2>1. /\ pc = "port" /\ kind' = kind /\ kind = "device" /\ held = {"records"}
        /\ \/ pc' = "request" /\ held' = held \union {"port"} /\ rc' = rc
           \/ pc' = "release" /\ rc' = 20 /\ release' = << >> /\ held' = held
    BY <1>3 DEF Patch!CreatePort, Patch!Succeeds, Patch!Fails, Patch!Otherwise, HeldRight
  <2> QED BY <2>1 DEF HeldRight, Reading, Acquiring, WayOut, OnTheWay
<1>4. CASE Patch!CreateRequest
  <2>1. /\ pc = "request" /\ kind' = kind /\ kind = "device" /\ held = {"records", "port"}
        /\ \/ pc' = "device" /\ held' = held \union {"request"} /\ rc' = rc
           \/ pc' = "release" /\ rc' = 20 /\ release' = <<"port">> /\ held' = held
    BY <1>4 DEF Patch!CreateRequest, Patch!WithoutRequest, Patch!Succeeds, Patch!Fails, Patch!Otherwise, HeldRight
  <2> QED BY <2>1 DEF HeldRight, Reading, Acquiring, WayOut, OnTheWay
<1>5. CASE Patch!OpenDevice
  <2>1. /\ pc = "device" /\ kind' = kind /\ kind = "device" /\ held = {"records", "port", "request"}
        /\ \/ pc' = "base" /\ held' = held \union {"device"} /\ rc' = rc
           \/ pc' = "release" /\ rc' = 20 /\ release' = <<"request", "port">> /\ held' = held
    BY <1>5 DEF Patch!OpenDevice, Patch!WithoutDevice, Patch!Succeeds, Patch!Fails, Patch!Otherwise, HeldRight
  <2> QED BY <2>1 DEF HeldRight, Reading, Acquiring, WayOut, OnTheWay
<1>6. CASE Patch!TakeBase
  <2>1. /\ pc = "base" /\ kind' = kind /\ kind = "device"
        /\ held = {"records", "port", "request", "device"}
        /\ \/ pc' = "opcode" /\ held' = held \union {} /\ rc' = rc
           \/ pc' = "release" /\ rc' = 20 /\ release' = <<"device", "request", "port">> /\ held' = held
    BY <1>6 DEF Patch!TakeBase, Patch!WithoutBase, Patch!Succeeds, Patch!Fails, Patch!Otherwise, HeldRight
  <2> QED BY <2>1 DEF HeldRight, Reading, Opened, Acquiring, WayOut, OnTheWay
<1> QED BY <1>1, <1>2, <1>3, <1>4, <1>5, <1>6

(* One thing is given back, and the rest of the way out is known too.      *)
LEMMA ReleaseKeepsHeld ==
  ASSUME WayOut, release # << >>, held' = held \ {Head(release)}, release' = Tail(release)
  PROVE  WayOut'
<1>1. CASE OnTheWay(<<"library">>, {"records", "library"})
  <2>1. Head(<<"library">>) = "library" /\ Tail(<<"library">>) = << >>
    OBVIOUS
  <2>2. release' = << >> /\ held' = {"records"}
    BY <1>1, <2>1 DEF OnTheWay
  <2> QED BY <2>2 DEF WayOut, OnTheWay
<1>2. CASE OnTheWay(<<"port">>, {"records", "port"})
  <2>1. Head(<<"port">>) = "port" /\ Tail(<<"port">>) = << >>
    OBVIOUS
  <2>2. release' = << >> /\ held' = {"records"}
    BY <1>2, <2>1 DEF OnTheWay
  <2> QED BY <2>2 DEF WayOut, OnTheWay
<1>3. CASE OnTheWay(<<"request", "port">>, {"records", "port", "request"})
  <2>1. Head(<<"request", "port">>) = "request" /\ Tail(<<"request", "port">>) = <<"port">>
    OBVIOUS
  <2>2. release' = <<"port">> /\ held' = {"records", "port"}
    BY <1>3, <2>1 DEF OnTheWay
  <2> QED BY <2>2 DEF WayOut, OnTheWay
<1>4. CASE OnTheWay(<<"device", "request", "port">>, {"records", "port", "request", "device"})
  <2>1. /\ Head(<<"device", "request", "port">>) = "device"
        /\ Tail(<<"device", "request", "port">>) = <<"request", "port">>
    OBVIOUS
  <2>2. release' = <<"request", "port">> /\ held' = {"records", "port", "request"}
    BY <1>4, <2>1 DEF OnTheWay
  <2> QED BY <2>2 DEF WayOut, OnTheWay
<1> QED BY <1>1, <1>2, <1>3, <1>4 DEF WayOut, OnTheWay

LEMMA StepPatch ==
  ASSUME PatchInv, Patch!PatchNext
  PROVE  PatchInv'
<1>0. /\ Patch!Available \in Nat /\ Patch!Inspected \in Nat
      /\ Patch!Inspected <= Patch!Available /\ Patch!Inspected <= count
      /\ Len(records) \in Nat
  <2>1. /\ neg_size \in NegSizes /\ count \in 0 .. MaxCount + 1
        /\ records \in Seq(PatchRecord)
    BY DEF PatchInv, PatchTypes
  <2>2. Len(records) \in Nat
    BY <2>1
  <2> QED BY <2>1, <2>2, Bounds
<1>1. CASE Patch!Arguments
  <2>1. /\ pc = "start" /\ neg_size' = neg_size /\ vectors' = vectors /\ held' = held
        /\ records' = records /\ sum' = sum /\ opcode' = opcode /\ target' = target
        /\ patched' = patched /\ count' \in 0 .. MaxCount + 1
        /\ kind' \in {"exec", "library", "device"}
        /\ IF count' \in 1 .. MaxCount THEN pc' = "alloc" /\ rc' = rc ELSE pc' = "exit" /\ rc' = 10
    BY <1>1 DEF Patch!Arguments, Patch!library, Patch!inspection
  <2>2. PatchTypes'
    BY <2>1 DEF PatchInv, PatchTypes, Patch!Available, Acquiring
  <2>3. HeldRight'
    BY <2>1 DEF PatchInv, HeldRight, Reading
  <2>4. RecordsRight' /\ NextRight'
    BY <2>1 DEF PatchInv, RecordsRight, NextRight, MidVector
  <2>5. CountRight'
    BY <2>1 DEF PatchInv, CountRight, Reading, Acquiring
  <2> QED BY <2>2, <2>3, <2>4, <2>5 DEF PatchInv
<1>2. CASE \/ Patch!AllocRecords \/ Patch!OpenLibrary \/ Patch!CreatePort
           \/ Patch!CreateRequest \/ Patch!OpenDevice \/ Patch!TakeBase
  <2>1. /\ neg_size' = neg_size /\ vectors' = vectors /\ count' = count
        /\ kind' = kind /\ records' = records /\ sum' = sum /\ opcode' = opcode
        /\ target' = target /\ patched' = patched
    BY <1>2 DEF Patch!AllocRecords, Patch!OpenLibrary, Patch!CreatePort, Patch!CreateRequest,
       Patch!OpenDevice, Patch!TakeBase, Patch!Otherwise, Patch!library, Patch!inspection
  <2>2. /\ HeldRight' /\ pc \in Acquiring \ {"start"}
        /\ \/ pc' \in (Acquiring \ {"start"}) \union {"opcode"} /\ rc' = rc
           \/ pc' \in {"release", "exit"} /\ rc' = 20
    BY <1>2, AcquireKeepsHeld DEF PatchInv
  <2>3. PatchTypes'
    BY <2>1, <2>2, PatchFactsStay DEF PatchInv, PatchTypes, Acquiring
  <2>4. RecordsRight' /\ NextRight'
    BY <2>1, <2>2 DEF PatchInv, RecordsRight, NextRight, MidVector, Acquiring
  <2>5. CountRight'
    BY <1>0, <2>1, <2>2, PatchFactsStay DEF PatchInv, CountRight, Reading, Acquiring
  <2> QED BY <2>2, <2>3, <2>4, <2>5 DEF PatchInv
<1>3. CASE Patch!ReadOpcode \/ Patch!ReadTarget \/ Patch!ReadRest
  <2>1. /\ Reading /\ Reading' /\ neg_size' = neg_size /\ vectors' = vectors /\ count' = count
        /\ kind' = kind /\ rc' = rc /\ held' = held /\ records' = records /\ sum' = sum
        /\ patched' = patched /\ Patch!This' = Patch!This
    BY <1>3 DEF Patch!ReadOpcode, Patch!ReadTarget, Patch!ReadRest, Patch!library, Patch!This, Reading
  <2>2. Patch!This \in Patch!Code
    <3>1. Len(records) < Patch!Inspected
      BY <1>3 DEF PatchInv, NextRight, MidVector, Patch!ReadOpcode, Patch!ReadTarget, Patch!ReadRest
    <3>2. Len(records) + 1 \in 1 .. Patch!Available
      BY <1>0, <3>1
    <3> QED BY <3>2 DEF PatchInv, PatchTypes, Patch!This
  <2>3. PatchTypes'
    <3>1. opcode' \in {"JMP", "other"} /\ target' \in Patch!Code \union {Patch!Nowhere, "mixture"}
      BY <1>3, <2>2 DEF PatchInv, PatchTypes, Patch!ReadOpcode, Patch!ReadTarget, Patch!ReadRest
    <3> QED BY <2>1, <3>1, PatchFactsStay DEF PatchInv, PatchTypes, Reading, Acquiring
  <2>4. HeldRight'
    BY <2>1, PatchFactsStay DEF PatchInv, HeldRight, Reading
  <2>5. RecordsRight'
    BY <2>1 DEF PatchInv, RecordsRight
  <2>6. CountRight'
    BY <2>1, PatchFactsStay DEF PatchInv, CountRight, Reading, Acquiring
  <2>7. NextRight'
    <3>1. CASE Patch!ReadOpcode
      BY <2>1, <3>1, PatchFactsStay
      DEF PatchInv, NextRight, MidVector, Patch!ReadOpcode, Patch!RecordOf
    <3>2. CASE Patch!ReadTarget
      BY <2>1, <2>2, <3>2, PatchFactsStay
      DEF PatchInv, NextRight, MidVector, Patch!ReadTarget, Patch!RecordOf, PatchTypes
    <3>3. CASE Patch!ReadRest
      BY <2>1, <2>2, <3>3, PatchFactsStay
      DEF PatchInv, NextRight, MidVector, Patch!ReadRest, Patch!RecordOf
    <3> QED BY <1>3, <3>1, <3>2, <3>3
  <2> QED BY <2>3, <2>4, <2>5, <2>6, <2>7 DEF PatchInv
<1>4. CASE Patch!AddToSum
  <2> DEFINE r == [opcode |-> opcode, target |-> target]
             this == Patch!This
             N == Len(records)
  <2>1. /\ pc = "sum" /\ pc' = "opcode" /\ neg_size' = neg_size /\ vectors' = vectors
        /\ count' = count /\ kind' = kind /\ rc' = rc /\ held' = held /\ opcode' = opcode
        /\ target' = target /\ patched' = patched
        /\ sum' = Append(sum, this) /\ records' = Append(records, r)
    BY <1>4 DEF Patch!AddToSum, Patch!library
  <2>2. N < Patch!Inspected /\ N + 1 \in 1 .. Patch!Available
    BY <1>0, <2>1 DEF PatchInv, NextRight, MidVector
  <2>3. this \in Patch!Code /\ this = vectors[N + 1]
    BY <2>2 DEF PatchInv, PatchTypes, Patch!This
  <2>4. r \in PatchRecord
    BY DEF PatchInv, PatchTypes, PatchRecord
  <2>5. /\ records \in Seq(PatchRecord) /\ sum \in Seq(Patch!Code) /\ Len(sum) = N
    BY DEF PatchInv, PatchTypes
  <2>6. N + 1 \notin patched => r = Patch!RecordOf(this)
    <3>1. ASSUME N + 1 \notin patched
          PROVE  opcode = Patch!RecordOf(this).opcode /\ target = Patch!RecordOf(this).target
      BY <2>1, <3>1 DEF PatchInv, NextRight, MidVector
    <3> QED BY <3>1 DEF Patch!RecordOf
  <2> HIDE DEF r, this
  <2>7. /\ records' \in Seq(PatchRecord) /\ sum' \in Seq(Patch!Code)
        /\ Len(records') = N + 1 /\ Len(sum') = N + 1
        /\ records'[N + 1] = r /\ sum'[N + 1] = this
        /\ \A i \in 1 .. N : records'[i] = records[i] /\ sum'[i] = sum[i]
    BY <2>1, <2>3, <2>4, <2>5
  <2>8. PatchTypes'
    BY <2>1, <2>7, PatchFactsStay DEF PatchInv, PatchTypes, Acquiring
  <2>9. HeldRight'
    BY <2>1, PatchFactsStay DEF PatchInv, HeldRight, Reading
  <2>10. RecordsRight'
    <3> SUFFICES ASSUME NEW i \in 1 .. N + 1, i \notin patched
                 PROVE  records'[i] = Patch!RecordOf(vectors[i]) /\ sum'[i] = vectors[i]
      BY <2>1, <2>7 DEF RecordsRight, Patch!RecordOf
    <3>1. CASE i = N + 1
      BY <2>3, <2>6, <2>7, <3>1
    <3>2. CASE i # N + 1
      <4>1. i \in 1 .. N
        BY <1>0, <3>2
      <4> QED BY <2>7, <4>1 DEF PatchInv, RecordsRight
    <3> QED BY <3>1, <3>2
  <2>11. NextRight'
    BY <2>1 DEF NextRight, MidVector
  <2>12. CountRight'
    BY <1>0, <2>1, <2>2, <2>7, PatchFactsStay DEF CountRight, Reading, Acquiring
  <2> QED BY <2>8, <2>9, <2>10, <2>11, <2>12 DEF PatchInv
<1>5. CASE \/ Patch!EndInspection \/ Patch!Release \/ Patch!Return
           \/ Patch!Report \/ Patch!Free
  <2>1. /\ neg_size' = neg_size /\ vectors' = vectors /\ count' = count /\ kind' = kind
        /\ records' = records /\ sum' = sum /\ opcode' = opcode /\ target' = target
        /\ patched' = patched
        /\ \/ /\ pc = "opcode" /\ Len(records) = Patch!Inspected /\ pc' = "release"
              /\ release' = Patch!AfterInspection /\ held' = held /\ rc' = rc
           \/ /\ pc = "release" /\ release # << >> /\ pc' = pc /\ rc' = rc
              /\ held' = held \ {Head(release)} /\ release' = Tail(release)
           \/ /\ pc = "release" /\ release = << >> /\ pc' = IF rc = 0 THEN "print" ELSE "free"
              /\ rc' = rc /\ held' = held
           \/ /\ pc = "print" /\ pc' = "free" /\ held' = held
              /\ rc' = IF Patch!Clipped THEN 5 ELSE 0
           \/ pc = "free" /\ pc' = "exit" /\ held' = held \ {"records"} /\ rc' = rc
    BY <1>5 DEF Patch!EndInspection, Patch!Release, Patch!Return, Patch!Report, Patch!Free,
       Patch!library, Patch!inspection
  <2>2. PatchTypes'
    <3>1. pc \notin {"start", "exit"} /\ pc' \in {"release", "print", "free", "exit"}
      BY <2>1
    <3>2. (pc' = "print" => rc' = 0) /\ (pc' = "release" => rc' \in {0, 20})
      BY <2>1 DEF PatchInv, PatchTypes
    <3>3. PatchTypes /\ Patch!Available' = Patch!Available
      BY <2>1, PatchFactsStay DEF PatchInv
    <3>4. /\ neg_size' \in NegSizes /\ vectors' \in [1 .. Patch!Available' -> Patch!Code]
          /\ records' \in Seq(PatchRecord) /\ sum' \in Seq(Patch!Code) /\ Len(sum') = Len(records')
      BY <2>1, <3>3 DEF PatchTypes
    <3>5. /\ kind' \in {"exec", "library", "device"} /\ count' \in 1 .. MaxCount
          /\ count' \in 0 .. MaxCount + 1
          /\ opcode' \in {"JMP", "other"} /\ target' \in Patch!Code \union {Patch!Nowhere, "mixture"}
      BY <2>1, <3>1, <3>3 DEF PatchTypes
    <3> QED BY <3>1, <3>2, <3>4, <3>5 DEF PatchTypes
  <2>3. HeldRight'
    <3>1. CASE pc = "opcode"
      <4>1. pc' = "release" /\ release' = Patch!AfterInspection /\ held' = Opened
        BY <2>1, <3>1 DEF PatchInv, HeldRight, Reading
      <4>2. WayOut'
        BY <4>1 DEF WayOut, OnTheWay, Opened, Patch!AfterInspection
      <4> QED BY <4>1, <4>2 DEF HeldRight, Reading
    <3>2. CASE pc = "release" /\ release # << >>
      <4>1. WayOut' /\ pc' = "release"
        BY <2>1, <3>2, ReleaseKeepsHeld DEF PatchInv, HeldRight
      <4> QED BY <4>1 DEF HeldRight, Reading
    <3>3. CASE pc = "release" /\ release = << >>
      <4>1. held = {"records"}
        BY <3>3 DEF PatchInv, HeldRight, WayOut, OnTheWay
      <4> QED BY <2>1, <3>3, <4>1 DEF HeldRight, Reading
    <3>4. CASE pc \in {"print", "free"}
      BY <2>1, <3>4 DEF PatchInv, HeldRight, Reading
    <3> QED BY <2>1, <3>1, <3>2, <3>3, <3>4
  <2>4. RecordsRight' /\ NextRight'
    BY <2>1 DEF PatchInv, RecordsRight, NextRight, MidVector
  <2>5. CountRight'
    BY <2>1, PatchFactsStay DEF PatchInv, PatchTypes, CountRight, Reading, Acquiring
  <2> QED BY <2>2, <2>3, <2>4, <2>5 DEF PatchInv
<1>6. CASE Patch!SetFunction
  <2>1. PICK v \in DOMAIN vectors : \E c \in Patch!Jumps \ {vectors[v]} :
          vectors' = [vectors EXCEPT ![v] = c] /\ patched' = patched \union {v}
    BY <1>6 DEF Patch!SetFunction
  <2>2. PICK c \in Patch!Jumps : vectors' = [vectors EXCEPT ![v] = c]
    BY <2>1
  <2>3. /\ neg_size' = neg_size /\ count' = count /\ kind' = kind /\ pc' = pc /\ rc' = rc
        /\ held' = held /\ records' = records /\ sum' = sum /\ opcode' = opcode
        /\ target' = target /\ patched' = patched \union {v} /\ Reading
    BY <1>6, <2>1 DEF Patch!SetFunction, Reading
  <2>4. /\ vectors' \in [1 .. Patch!Available -> Patch!Code]
        /\ \A i \in 1 .. Patch!Available : i # v => vectors'[i] = vectors[i]
    BY <2>2 DEF PatchInv, PatchTypes, Patch!Code, Patch!Jumps
  <2>5. PatchTypes'
    BY <2>3, <2>4, PatchFactsStay DEF PatchInv, PatchTypes, Acquiring
  <2>6. HeldRight' /\ CountRight'
    BY <2>3, PatchFactsStay DEF PatchInv, HeldRight, CountRight, Reading, Acquiring
  <2>7. Len(records) <= Patch!Inspected /\ (MidVector => Len(records) < Patch!Inspected)
    BY <2>3 DEF PatchInv, CountRight, NextRight
  <2>8. RecordsRight'
    <3> SUFFICES ASSUME NEW i \in 1 .. Len(records), i \notin patched, i # v
                 PROVE  records[i] = Patch!RecordOf(vectors'[i]) /\ sum[i] = vectors'[i]
      BY <2>3 DEF RecordsRight, Patch!RecordOf
    <3>1. i \in 1 .. Patch!Available
      BY <1>0, <2>7
    <3> QED BY <2>4, <3>1 DEF PatchInv, RecordsRight
  <2>9. NextRight'
    <3> SUFFICES ASSUME MidVector, Len(records) + 1 \notin patched', NextRight
                 PROVE  Patch!This' = Patch!This
      BY <2>3, PatchFactsStay DEF PatchInv, NextRight, MidVector, Patch!RecordOf
    <3>1. Len(records) + 1 \in 1 .. Patch!Available /\ Len(records) + 1 # v
      BY <1>0, <2>3, <2>7
    <3> QED BY <2>3, <2>4, <3>1 DEF Patch!This
  <2> QED BY <2>5, <2>6, <2>8, <2>9 DEF PatchInv
<1> QED BY <1>1, <1>2, <1>3, <1>4, <1>5, <1>6 DEF Patch!PatchNext, Patch!PatchTool
-----------------------------------------------------------------------------
(* collect_artifacts: what is read-only in the directory was collected, and*)
(* is as it was unless the user may write to it all the same.              *)
StoreInv ==
  /\ privileged \in BOOLEAN
  /\ sources \in Seq(Store!Sources)
  /\ DOMAIN kept \subseteq DOMAIN dest
  /\ \A n \in DOMAIN kept : kept[n] \in FileContent
  /\ \A n \in DOMAIN dest : dest[n] \in FileContent => n \in DOMAIN kept
  /\ Store!CollectedStays
  /\ Store!CollisionIsEarned

LEMMA InitStore == ASSUME Store!StoreInit PROVE StoreInv
<1>1. /\ pc = "start" /\ privileged \in BOOLEAN /\ sources = << >> /\ dest = << >> /\ kept = << >>
  BY DEF Store!StoreInit
<1>2. DOMAIN kept = {} /\ DOMAIN dest = {} /\ sources \in Seq(Store!Sources)
  BY <1>1
<1> QED BY <1>1, <1>2 DEF StoreInv, Store!CollectedStays, Store!CollisionIsEarned

(* A plain name is given to what is not there; a name with a prefix is not *)
(* a plain one.                                                            *)
LEMMA NameIsRight ==
  ASSUME NEW s \in Store!Sources
  PROVE  \/ Store!StoredName(s) \notin DOMAIN dest
         \/ /\ Store!StoredName(s) = Store!Prefixed(s[1], s[2])
            /\ Store!StoredName(s)[1] # Store!NoPrefix
<1>1. s[2] \in FileContent /\ s[2] # Store!NoPrefix
  BY ContentAssumption DEF Store!Sources, Store!NoPrefix
<1> QED BY <1>1 DEF Store!StoredName, Store!Prefixed, Store!Plain

LEMMA ListIsSequence ==
  ASSUME NEW S, NEW m \in Nat, NEW s \in [1 .. m -> S] PROVE s \in Seq(S)
BY SMTT(30)

LEMMA StepStore ==
  ASSUME StoreInv, Store!StoreNext
  PROVE  StoreInv'
<1>0. /\ sources \in Seq(Store!Sources) /\ privileged \in BOOLEAN /\ DOMAIN kept \subseteq DOMAIN dest
      /\ \A n \in DOMAIN kept : kept[n] \in FileContent
      /\ \A n \in DOMAIN dest : dest[n] \in FileContent => n \in DOMAIN kept
      /\ \A n \in DOMAIN kept :
           \/ dest[n] = kept[n]
           \/ privileged /\ (n = Store!Index \/ (n[1] # Store!NoPrefix /\ dest[n] = "torn"))
      /\ "torn" \notin FileContent /\ "index" \notin FileContent
  BY ContentAssumption DEF StoreInv, Store!CollectedStays
<1>1. CASE Store!Begin
  <2>1. pc' = "copy" /\ privileged' = privileged /\ dest' = dest /\ kept' = kept
    BY <1>1 DEF Store!Begin
  <2>2. MaxSources \in Nat
    BY Limits
  <2>3. PICK m \in 1 .. MaxSources : sources' \in [1 .. m -> Store!Sources]
    BY <1>1, Zenon DEF Store!Begin
  <2>4. sources' \in Seq(Store!Sources)
    <3>1. m \in Nat
      BY <2>2
    <3> QED BY <2>3, <3>1, ListIsSequence, Zenon
  <2> QED BY <1>0, <2>1, <2>4 DEF StoreInv, Store!CollectedStays, Store!CollisionIsEarned
<1>2. CASE Store!Copy
  <2> DEFINE s == Head(sources)
             name == Store!StoredName(s)
             content == s[2]
  <2>1. /\ pc = "copy" /\ sources # << >> /\ privileged' = privileged
        /\ \/ /\ pc' = "exit" /\ rc' = 2 /\ sources' = sources /\ dest' = dest /\ kept' = kept
           \/ /\ Store!ReadOnly(name) /\ ~ privileged /\ pc' = "exit" /\ rc' = 1
              /\ sources' = sources /\ dest' = dest /\ kept' = kept
           \/ /\ ~ Store!ReadOnly(name) \/ privileged
              /\ pc' = "exit" /\ rc' = 1 /\ fault' = TRUE /\ dest' = Updated(dest, name, "torn")
              /\ sources' = sources /\ kept' = kept
           \/ /\ dest' = Updated(dest, name, content) /\ kept' = Updated(kept, name, content)
              /\ sources' = Tail(sources) /\ pc' = pc
    BY <1>2 DEF Store!Copy, Store!Exit, Store!Put, Store!Updated, Updated
  <2>2. s \in Store!Sources /\ Tail(sources) \in Seq(Store!Sources)
    BY <1>0, <2>1
  <2>3. content \in FileContent
    BY <2>2 DEF Store!Sources
  <2>4. \/ name \notin DOMAIN dest
        \/ name = Store!Prefixed(s[1], s[2]) /\ name[1] # Store!NoPrefix
    BY <2>2, NameIsRight
  <2>5. Store!ReadOnly(name) => name \in DOMAIN dest /\ name \in DOMAIN kept
    BY <1>0 DEF Store!ReadOnly
  <2>6. name \in DOMAIN dest /\ dest[name] \in FileContent => Store!ReadOnly(name)
    BY DEF Store!ReadOnly
  <2>7. CASE pc' = "exit" /\ rc' = 2 /\ sources' = sources /\ dest' = dest /\ kept' = kept
    BY <1>0, <2>1, <2>7 DEF StoreInv, Store!CollectedStays, Store!CollisionIsEarned
  <2>8. CASE /\ Store!ReadOnly(name) /\ ~ privileged /\ pc' = "exit" /\ rc' = 1
             /\ sources' = sources /\ dest' = dest /\ kept' = kept
    <3>1. name \in DOMAIN kept /\ name = Store!Prefixed(s[1], s[2])
      BY <2>4, <2>5, <2>8
    <3>2. Store!CollisionIsEarned'
      BY <2>1, <2>8, <3>1 DEF Store!CollisionIsEarned
    <3> QED BY <1>0, <2>1, <2>8, <3>2 DEF StoreInv, Store!CollectedStays
  <2> HIDE DEF name, content
  <2>9. CASE /\ ~ Store!ReadOnly(name) \/ privileged
             /\ pc' = "exit" /\ rc' = 1 /\ fault' = TRUE /\ dest' = Updated(dest, name, "torn")
             /\ sources' = sources /\ kept' = kept
    <3>1. /\ DOMAIN dest' = DOMAIN dest \union {name} /\ dest'[name] = "torn"
          /\ \A n \in DOMAIN dest : n # name => dest'[n] = dest[n]
      BY <2>9 DEF Updated
    <3>2. name \in DOMAIN kept => privileged /\ name[1] # Store!NoPrefix
      BY <1>0, <2>4, <2>6, <2>9
    <3>3. Store!CollectedStays'
      BY <1>0, <2>1, <2>9, <3>1, <3>2 DEF Store!CollectedStays
    <3>4. Store!CollisionIsEarned'
      BY <2>9 DEF Store!CollisionIsEarned
    <3> QED BY <1>0, <2>1, <2>9, <3>1, <3>3, <3>4 DEF StoreInv
  <2>10. CASE /\ dest' = Updated(dest, name, content) /\ kept' = Updated(kept, name, content)
              /\ sources' = Tail(sources) /\ pc' = pc
    <3>1. /\ DOMAIN dest' = DOMAIN dest \union {name} /\ dest'[name] = content
          /\ \A n \in DOMAIN dest : n # name => dest'[n] = dest[n]
      BY <2>10 DEF Updated
    <3>2. /\ DOMAIN kept' = DOMAIN kept \union {name} /\ kept'[name] = content
          /\ \A n \in DOMAIN kept : n # name => kept'[n] = kept[n]
      BY <2>10 DEF Updated
    <3>3. Store!CollectedStays'
      BY <1>0, <2>1, <3>1, <3>2 DEF Store!CollectedStays
    <3>4. Store!CollisionIsEarned'
      BY <2>1, <2>10 DEF Store!CollisionIsEarned
    <3> QED BY <1>0, <2>1, <2>2, <2>3, <2>10, <3>1, <3>2, <3>3, <3>4 DEF StoreInv
  <2> QED BY <2>1, <2>7, <2>8, <2>9, <2>10 DEF name, content
<1>3. CASE Store!WriteIndex
  <2>1. /\ privileged' = privileged /\ sources' = sources /\ kept' = kept
        /\ \/ /\ Store!ReadOnly(Store!Index) /\ ~ privileged /\ pc' = "exit" /\ rc' = 1
              /\ dest' = dest
           \/ /\ ~ Store!ReadOnly(Store!Index) \/ privileged
              /\ pc' = "exit" /\ rc' = 0 /\ dest' = Updated(dest, Store!Index, "index")
    BY <1>3 DEF Store!WriteIndex, Store!Exit, Store!Put, Store!Updated, Updated
  <2>2. CASE rc' = 1
    <3>1. dest' = dest /\ ~ privileged /\ Store!Index \in DOMAIN kept
      BY <1>0, <2>1, <2>2 DEF Store!ReadOnly
    <3> QED BY <1>0, <2>1, <3>1 DEF StoreInv, Store!CollectedStays, Store!CollisionIsEarned
  <2>3. CASE rc' = 0
    <3>1. /\ DOMAIN dest' = DOMAIN dest \union {Store!Index} /\ dest'[Store!Index] = "index"
          /\ \A n \in DOMAIN dest : n # Store!Index => dest'[n] = dest[n]
      BY <2>1, <2>3 DEF Updated
    <3>2. Store!Index \in DOMAIN kept => privileged
      BY <1>0, <2>1, <2>3 DEF Store!ReadOnly
    <3>3. Store!CollectedStays'
      BY <1>0, <2>1, <3>1, <3>2 DEF Store!CollectedStays
    <3>4. Store!CollisionIsEarned'
      BY <2>3 DEF Store!CollisionIsEarned
    <3> QED BY <1>0, <2>1, <3>1, <3>3, <3>4 DEF StoreInv
  <2> QED BY <2>1, <2>2, <2>3
<1> QED BY <1>1, <1>2, <1>3 DEF Store!StoreNext
-----------------------------------------------------------------------------
(* An interrupt takes nobody out of the machine and lets no ready task     *)
(* overtake another.                                                       *)
LEMMA SignalKeeps ==
  ASSUME ExecTypeOK, NEW t \in Task, Signal(t)
  PROVE  /\ ExecTypeOK' /\ Live' = Live
         /\ ToSet(ready') = ToSet(ready) \union {t} /\ ToSet(wait') = ToSet(wait) \ {t}
         /\ t \notin ToSet(ready)
         /\ \A a, b \in DOMAIN ready' : a < b /\ ready'[a] # t /\ ready'[b] # t =>
              \E x, y \in DOMAIN ready : x < y /\ ready[x] = ready'[a] /\ ready[y] = ready'[b]
<1>1. TwoLists(Task, ready, wait)
  BY DEF ExecTypeOK, TwoLists
<1>2. t \in ToSet(wait) /\ wait' = Unlinked(wait, t) /\ ready' \in Enqueued(ready, t)
  BY DEF Signal
<1>3. /\ TwoLists(Task, ready', wait') /\ t \notin ToSet(ready)
      /\ ToSet(ready') = ToSet(ready) \union {t} /\ ToSet(wait') = ToSet(wait) \ {t}
      /\ \A a, b \in DOMAIN ready' : a < b /\ ready'[a] # t /\ ready'[b] # t =>
           \E x, y \in DOMAIN ready : x < y /\ ready[x] = ready'[a] /\ ready[y] = ready'[b]
  BY <1>1, <1>2, NodeMoves
<1>4. Live' = Live
  BY <1>2, <1>3 DEF Live
<1> QED BY <1>3, <1>4 DEF ExecTypeOK, TwoLists

(* Whatever the other tasks do, the lists stay lists without a node twice. *)
LEMMA OtherTasksKeep ==
  ASSUME ExecTypeOK, OtherTasks
  PROVE  ExecTypeOK'
<1>1. TwoLists(Task, ready, wait)
  BY DEF ExecTypeOK, TwoLists
<1>2. PICK t \in Task : Block(t) \/ AddTask(t) \/ RemTask(t)
  BY DEF OtherTasks
<1>3. Block(t) => TwoLists(Task, ready', wait')
  BY <1>1, NodeAppended DEF Block
<1>4. AddTask(t) => TwoLists(Task, ready', wait')
  BY <1>1, NodeAdded DEF AddTask, Live
<1>5. RemTask(t) => TwoLists(Task, ready', wait')
  BY <1>1, NodeRemoved DEF RemTask
<1>6. TwoLists(Task, ready', wait')
  BY <1>2, <1>3, <1>4, <1>5
<1> QED BY <1>6 DEF ExecTypeOK, TwoLists

(* The head of a list and the successor of a node in it. *)
LEMMA HeadIsFirst ==
  ASSUME NEW list \in Seq(Task)
  PROVE  \/ list = << >> /\ HeadOf(list) = Sentinel
         \/ 1 \in DOMAIN list /\ HeadOf(list) = list[1] /\ list[1] \in ToSet(list)
  BY DEF HeadOf, ToSet

LEMMA SuccIsNext ==
  ASSUME NEW list \in Seq(Task), IsInjective(list), NEW k \in 1 .. Len(list)
  PROVE  SuccIn(list, list[k]) = IF k = Len(list) THEN Sentinel ELSE list[k + 1]
BY NodeAt DEF SuccIn

(* The lists of Exec: what is recorded of them, before the own program's   *)
(* filter.                                                                 *)
Recorded == ToSet(snapshot.recs)
Taken == Walking \/ pc = "print" \/ (pc = "exit" /\ rc \in {0, 5})

ListTypes ==
  /\ ListTypeOK /\ program \in Programs
  /\ nodes \in Seq(Fixed) /\ IsInjective(nodes)
  /\ truth \subseteq Record /\ signalled \in BOOLEAN
  /\ Walking /\ cursor # Sentinel => cursor \in ToSet(ready) \union ToSet(wait)
  /\ snapshot.truncated => Len(snapshot.recs) = MaxRecords
  /\ ~ Taken => snapshot = EmptyTable /\ truth = {}
  /\ pc \in {"start", "forbid"} => rc = 0
  /\ program = "PortView" => ~ Walking
  /\ \A r \in truth :
       \/ r.state = "fixed"
       \/ r.address \in Inspected /\ (r.state = "current" => r = Seen(Self, "current"))

(* What Forbid keeps still is recorded, and the own task.                  *)
FixedRecorded ==
  Taken /\ ~ snapshot.truncated =>
    \A r \in truth :
      \/ r.state = "fixed"
      \/ r.state = "current" /\ (program \in TaskPrograms \/ ~ Walking)
      => r \in Recorded

(* While TaskReady is walked, what was ready stays ready, and what of it   *)
(* stands before the cursor is recorded.                                   *)
ReadyBefore ==
  pc = "ready" =>
    /\ \A r \in truth : r.state = "ready" => r.address \in ToSet(ready)
    /\ cursor # Sentinel => cursor \in ToSet(ready)
    /\ ~ snapshot.truncated /\ cursor # Sentinel =>
         \A i, j \in DOMAIN ready :
           ready[j] = cursor /\ i < j /\ Seen(ready[i], "ready") \in truth =>
             Seen(ready[i], "ready") \in Recorded

ReadyRecorded ==
  Taken /\ ~ snapshot.truncated /\ (pc = "ready" => cursor = Sentinel) =>
    \A r \in truth : r.state = "ready" => r \in Recorded

ListInv == ListTypes /\ FixedRecorded /\ ReadyBefore /\ ReadyRecorded

(* What the loop over the other lists leaves of an empty table. *)
FirstOf(r, rs, max) ==
  \/ r.recs = rs /\ ~ r.truncated
  \/ /\ r.truncated /\ Len(r.recs) = max /\ Len(rs) > max
     /\ \A i \in 1 .. max : r.recs[i] = rs[i]

LEMMA FirstRecords ==
  ASSUME NEW R, NEW max \in Nat, NEW rs \in Seq(R), NEW r, r = AddRecords(EmptyTable, rs, max)
  PROVE  r \in Tables(R, max) /\ FirstOf(r, rs, max)
<1>1. EmptyTable.recs \o rs = rs /\ EmptyTable = [recs |-> << >>, truncated |-> FALSE]
  BY DEF EmptyTable
<1>2. Len(rs) \in Nat
  OBVIOUS
<1>3. CASE Len(rs) <= max
  <2>1. r = [EmptyTable EXCEPT !.recs = rs]
    BY <1>1, <1>3 DEF AddRecords
  <2>2. r = [recs |-> rs, truncated |-> FALSE]
    BY <1>1, <2>1
  <2> QED BY <1>3, <2>2 DEF Tables, FirstOf
<1>4. CASE ~ (Len(rs) <= max)
  <2> DEFINE some == SubSeq(rs, 1, max)
  <2>1. r = [recs |-> some, truncated |-> TRUE]
    BY <1>1, <1>4 DEF AddRecords
  <2>2. some \in Seq(R) /\ Len(some) = max /\ \A i \in 1 .. max : some[i] = rs[i]
    BY <1>2, <1>4
  <2> HIDE DEF some
  <2>3. r \in Tables(R, max) /\ r.recs = some /\ r.truncated
    BY <2>1, <2>2 DEF Tables
  <2> QED BY <1>2, <1>4, <2>2, <2>3 DEF FirstOf
<1> QED BY <1>3, <1>4

LEMMA FixedAre ==
  ASSUME nodes \in Seq(Fixed), IsInjective(nodes)
  PROVE  /\ FixedRecords \in Seq(Record) /\ IsInjective(FixedRecords)
         /\ \A r \in ToSet(FixedRecords) : r.state = "fixed"
<1>1. CASE program \in TaskPrograms
  BY <1>1 DEF FixedRecords, IsInjective, ToSet
<1>2. CASE program \notin TaskPrograms
  <2>1. FixedRecords = [i \in DOMAIN nodes |-> [address |-> nodes[i], state |-> "fixed"]]
    BY <1>2 DEF FixedRecords
  <2>2. DOMAIN nodes = 1 .. Len(nodes) /\ Len(nodes) \in Nat /\ \A i \in 1 .. Len(nodes) : nodes[i] \in Fixed
    OBVIOUS
  <2>3. \A i \in 1 .. Len(nodes) : /\ FixedRecords[i] \in Record /\ FixedRecords[i].address = nodes[i]
                                   /\ FixedRecords[i].state = "fixed"
    BY <2>1, <2>2 DEF Record
  <2>4. DOMAIN FixedRecords = 1 .. Len(nodes) /\ FixedRecords \in [1 .. Len(nodes) -> Record]
    BY <2>1, <2>2, <2>3
  <2>5. FixedRecords \in Seq(Record)
    BY <2>2, <2>4
  <2>6. IsInjective(FixedRecords)
    BY <2>2, <2>3, <2>4 DEF IsInjective
  <2>7. \A r \in ToSet(FixedRecords) : r.state = "fixed"
    BY <2>3, <2>4 DEF ToSet
  <2> QED BY <2>5, <2>6, <2>7
<1> QED BY <1>1, <1>2

LEMMA SeenIs ==
  ASSUME NEW t, NEW where
  PROVE  /\ Seen(t, where).address = t /\ Seen(t, where).state = where
         /\ t \in Task \union {Self} /\ where \in TaskStates => Seen(t, where) \in Record
         /\ \A r \in Record : r.address = t /\ r.state = where => r = Seen(t, where)
BY DEF Seen, Record

LEMMA OneMoreSeen ==
  ASSUME snapshot \in Tables(Record, MaxRecords),
         snapshot.truncated => Len(snapshot.recs) = MaxRecords,
         NEW t \in Task \union {Self}, NEW where \in TaskStates, NEW r, r = AddSeen(t, where)
  PROVE  /\ r \in Tables(Record, MaxRecords) /\ (r.truncated => Len(r.recs) = MaxRecords)
         /\ \/ t \notin Inspected /\ r = snapshot
            \/ /\ t \in Inspected /\ ~ snapshot.truncated /\ ~ r.truncated
               /\ ToSet(r.recs) = Recorded \union {Seen(t, where)}
               /\ IsInjective(snapshot.recs) /\ Seen(t, where) \notin Recorded => IsInjective(r.recs)
            \/ t \in Inspected /\ r.truncated /\ r.recs = snapshot.recs
<1> DEFINE x == Seen(t, where)
           recs == snapshot.recs
<1>1. /\ recs \in Seq(Record) /\ Len(recs) \in Nat /\ Len(recs) <= MaxRecords
      /\ snapshot.truncated \in BOOLEAN /\ MaxRecords \in Nat
  BY SnapshotAssumption DEF Tables
<1>2. x \in Record
  BY SeenIs
<1>3. CASE t \notin Inspected
  BY <1>3 DEF AddSeen
<1>4. CASE t \in Inspected
  <2>1. r = AddRecord(snapshot, x, MaxRecords)
    BY <1>4 DEF AddSeen
  <2> HIDE DEF x
  <2>2. r \in Tables(Record, MaxRecords)
    BY <1>1, <1>2, <2>1, AddRecordType
  <2>3. CASE Len(recs) >= MaxRecords
    <3>1. r.truncated /\ r.recs = recs
      BY <1>1, <2>1, <2>3 DEF AddRecord, Tables
    <3>2. Len(recs) = MaxRecords
      BY <1>1, <2>3
    <3> QED BY <1>4, <2>2, <3>1, <3>2
  <2>4. CASE ~ (Len(recs) >= MaxRecords)
    <3>1. r.recs = Append(recs, x) /\ r.truncated = snapshot.truncated
      <4>1. Len(snapshot.recs) < MaxRecords
        BY <1>1, <2>4
      <4> QED BY <1>1, <1>2, <2>1, <4>1, AddRecordFits
    <3>2. ~ snapshot.truncated /\ ~ r.truncated
      BY <1>1, <2>4, <3>1
    <3> DEFINE more == Append(recs, x)
    <3> HIDE DEF recs
    <3>3. ToSet(more) = ToSet(recs) \union {x}
      BY <1>1, <1>2, AppendedSet
    <3>4. IsInjective(recs) /\ x \notin ToSet(recs) => IsInjective(more)
      BY <1>1, <1>2, AppendedIsWith
    <3> HIDE DEF more
    <3>5. ToSet(r.recs) = ToSet(recs) \union {x} /\ (IsInjective(recs) /\ x \notin ToSet(recs) => IsInjective(r.recs))
      BY <3>1, <3>3, <3>4 DEF more
    <3> QED BY <1>4, <2>2, <3>2, <3>5 DEF x, recs, Recorded
  <2> QED BY <2>3, <2>4
<1> QED BY <1>3, <1>4

LEMMA InitList == ASSUME ListInit PROVE ListInv
<1>1. /\ ready = << >> /\ wait = << >> /\ program \in Programs /\ pc = "start" /\ wanted = "all"
      /\ snapshot = EmptyTable /\ cursor = Sentinel /\ out = << >> /\ rc = 0 /\ truth = {}
      /\ signalled = FALSE
  BY Zenon DEF ListInit, ExecInit
<1>2. nodes \in Seq(Fixed) /\ IsInjective(nodes)
  <2>1. PICK S \in SUBSET Fixed : nodes \in SetToSeqs(S)
    BY DEF ListInit, SetToAllKPermutations
  <2>2. Cardinality(S) \in Nat
    <3>1. IsFiniteSet(S)
      BY SnapshotAssumption, FS_Subset, Zenon
    <3> QED BY <3>1, FS_CardinalityType, Zenon
  <2>3. /\ nodes \in [1 .. Cardinality(S) -> S]
        /\ \A a, b \in 1 .. Cardinality(S) : a # b => nodes[a] # nodes[b]
    BY <2>1 DEF SetToSeqs
  <2> QED BY <2>2, <2>3 DEF IsInjective
<1>3. ExecTypeOK
  BY <1>1 DEF ExecTypeOK, IsInjective, ToSet
<1>4. EmptyTable \in Tables(Record, MaxRecords) /\ EmptyTable.truncated = FALSE
  BY SnapshotAssumption, EmptyTableType DEF EmptyTable
<1>5. ListTypeOK
  BY <1>1, <1>3, <1>4 DEF ListTypeOK
<1>6. signalled \in BOOLEAN
  BY <1>1
<1>7. ListTypes
  BY <1>1, <1>2, <1>4, <1>5, <1>6 DEF ListTypes, Taken, Walking
<1> QED BY <1>1, <1>7 DEF ListInv, FixedRecorded, ReadyBefore, ReadyRecorded, Taken, Walking

LEMMA TruthIs ==
  ASSUME ExecTypeOK, nodes \in Seq(Fixed), IsInjective(nodes)
  PROVE  /\ TrueRecords \subseteq Record
         /\ \A r \in TrueRecords :
              \/ r \in ToSet(FixedRecords) /\ r.state = "fixed"
              \/ r.state = "current" /\ r = Seen(Self, "current") /\ Self \in Inspected
              \/ r.state = "ready" /\ \E t \in Inspected \intersect ToSet(ready) : r = Seen(t, "ready")
              \/ r.state = "wait" /\ \E t \in Inspected \intersect ToSet(wait) : r = Seen(t, "wait")
<1>1. ready \in Seq(Task) /\ wait \in Seq(Task)
  BY DEF ExecTypeOK
<1>2. ToSet(ready) \subseteq Task /\ ToSet(wait) \subseteq Task
  BY <1>1 DEF ToSet
<1> SUFFICES ASSUME NEW r \in TrueRecords
             PROVE  /\ r \in Record
                    /\ \/ r \in ToSet(FixedRecords) /\ r.state = "fixed"
                       \/ r.state = "current" /\ r = Seen(Self, "current") /\ Self \in Inspected
                       \/ r.state = "ready" /\ \E t \in Inspected \intersect ToSet(ready) : r = Seen(t, "ready")
                       \/ r.state = "wait" /\ \E t \in Inspected \intersect ToSet(wait) : r = Seen(t, "wait")
  OBVIOUS
<1>3. CASE r \in ToSet(FixedRecords)
  <2>1. FixedRecords \in Seq(Record)
    BY FixedAre
  <2>2. ToSet(FixedRecords) \subseteq Record
    BY <2>1 DEF ToSet
  <2> QED BY <1>3, <2>2, FixedAre
<1>4. CASE r \in {Seen(t, "current") : t \in Inspected \intersect {Self}}
  <2>1. r = Seen(Self, "current") /\ Self \in Inspected
    BY <1>4
  <2> QED BY <2>1, SeenIs DEF TaskStates
<1>5. CASE r \in {Seen(t, "ready") : t \in Inspected \intersect ToSet(ready)}
  <2>1. PICK t \in Inspected \intersect ToSet(ready) : r = Seen(t, "ready")
    BY <1>5
  <2>2. t \in Task \union {Self} /\ "ready" \in TaskStates
    BY <1>2 DEF TaskStates
  <2>3. r \in Record /\ r.state = "ready"
    BY <2>1, <2>2, SeenIs
  <2> QED BY <2>1, <2>3
<1>6. CASE r \in {Seen(t, "wait") : t \in Inspected \intersect ToSet(wait)}
  <2>1. PICK t \in Inspected \intersect ToSet(wait) : r = Seen(t, "wait")
    BY <1>6
  <2>2. t \in Task \union {Self} /\ "wait" \in TaskStates
    BY <1>2 DEF TaskStates
  <2>3. r \in Record /\ r.state = "wait"
    BY <2>1, <2>2, SeenIs
  <2> QED BY <2>1, <2>3
<1> QED BY <1>3, <1>4, <1>5, <1>6 DEF TrueRecords

LEMMA ListStart ==
  ASSUME ListInv, Start
  PROVE  ListInv'
<1>1. /\ pc = "start" /\ ready' = ready /\ wait' = wait /\ program' = program /\ nodes' = nodes
      /\ snapshot' = snapshot /\ cursor' = cursor /\ out' = out /\ signalled' = signalled /\ truth' = truth
      /\ \/ pc' = "exit" /\ rc' \in {10, 20} /\ wanted' = wanted
         \/ pc' = "forbid" /\ wanted' \in Filters[program] \union {"all"} /\ rc' = rc
  BY DEF Start, execVars
<1>2. snapshot = EmptyTable /\ truth = {} /\ ~ Walking' /\ ~ Taken'
  BY <1>1 DEF ListInv, ListTypes, Taken, Walking
<1>3. ListTypeOK'
  BY <1>1 DEF ListInv, ListTypes, ListTypeOK, ExecTypeOK, Record
<1>4. ListTypes'
  BY <1>1, <1>2, <1>3 DEF ListInv, ListTypes, Record
<1> QED BY <1>1, <1>2, <1>4 DEF ListInv, FixedRecorded, ReadyBefore, ReadyRecorded, Walking

LEMMA ListForbid ==
  ASSUME ListInv, Forbid
  PROVE  ListInv'
<1>1. /\ pc = "forbid" /\ ready' = ready /\ wait' = wait /\ program' = program /\ nodes' = nodes
      /\ out' = out /\ signalled' = signalled /\ rc' = rc /\ wanted' = wanted
      /\ snapshot' = IF program \in TaskPrograms THEN AddSeen(Self, "current")
                     ELSE AddRecords(snapshot, FixedRecords, MaxRecords)
      /\ pc' = IF program = "PortView" THEN "print" ELSE "ready"
      /\ cursor' = IF program = "PortView" THEN Sentinel ELSE HeadOf(ready)
      /\ truth' = TrueRecords
  BY DEF Forbid, execVars
<1>2. /\ ListTypeOK /\ ExecTypeOK /\ program \in Programs /\ nodes \in Seq(Fixed) /\ IsInjective(nodes)
      /\ snapshot = EmptyTable /\ rc = 0 /\ signalled \in BOOLEAN /\ ready \in Seq(Task)
      /\ IsInjective(ready)
  BY <1>1 DEF ListInv, ListTypes, ListTypeOK, ExecTypeOK, Taken, Walking
<1>3. snapshot \in Tables(Record, MaxRecords) /\ ~ snapshot.truncated /\ Recorded = {} /\ snapshot.recs = << >>
  BY <1>2, SnapshotAssumption, EmptyTableType DEF EmptyTable, Recorded, ToSet
<1>4. Taken' /\ (Walking' <=> program # "PortView")
  BY <1>1, <1>2 DEF Taken, Walking
<1>5. /\ truth' \subseteq Record
      /\ \A r \in truth' :
           \/ r \in ToSet(FixedRecords) /\ r.state = "fixed"
           \/ r.state = "current" /\ r = Seen(Self, "current") /\ Self \in Inspected
           \/ r.state = "ready" /\ \E t \in Inspected \intersect ToSet(ready) : r = Seen(t, "ready")
           \/ r.state = "wait" /\ \E t \in Inspected \intersect ToSet(wait) : r = Seen(t, "wait")
  BY <1>1, <1>2, TruthIs
<1>6. /\ snapshot' \in Tables(Record, MaxRecords) /\ (snapshot'.truncated => Len(snapshot'.recs) = MaxRecords)
      /\ ~ snapshot'.truncated =>
           \A r \in truth' : \/ r.state = "fixed"
                             \/ r.state = "current" /\ program \in TaskPrograms
                             => r \in ToSet(snapshot'.recs)
  <2>1. CASE program \in TaskPrograms
    <3>1. snapshot' = AddSeen(Self, "current") /\ "current" \in TaskStates /\ Self \in Task \union {Self}
      BY <1>1, <2>1 DEF TaskStates
    <3>2. /\ snapshot' \in Tables(Record, MaxRecords) /\ (snapshot'.truncated => Len(snapshot'.recs) = MaxRecords)
          /\ \/ Self \notin Inspected
             \/ ToSet(snapshot'.recs) = Recorded \union {Seen(Self, "current")}
             \/ snapshot'.truncated
      BY <1>3, <3>1, OneMoreSeen
    <3>3. ToSet(FixedRecords) = {}
      BY <2>1 DEF FixedRecords, ToSet
    <3> QED BY <1>5, <3>2, <3>3
  <2>2. CASE program \notin TaskPrograms
    <3>1. FixedRecords \in Seq(Record)
      BY <1>2, FixedAre
    <3>2. snapshot' = AddRecords(EmptyTable, FixedRecords, MaxRecords) /\ MaxRecords \in Nat
      BY <1>1, <1>2, <2>2, SnapshotAssumption
    <3>4. snapshot' \in Tables(Record, MaxRecords) /\ FirstOf(snapshot', FixedRecords, MaxRecords)
      BY <3>1, <3>2, FirstRecords
    <3>3. \/ snapshot'.recs = FixedRecords /\ ~ snapshot'.truncated
          \/ snapshot'.truncated /\ Len(snapshot'.recs) = MaxRecords
      BY <3>4 DEF FirstOf
    <3> QED BY <1>5, <2>2, <3>3, <3>4
  <2> QED BY <2>1, <2>2
<1>7. cursor' \in Task \union {Sentinel} /\ (Walking' /\ cursor' # Sentinel => cursor' \in ToSet(ready))
  <2>1. ToSet(ready) \subseteq Task
    BY <1>2 DEF ToSet
  <2> QED BY <1>1, <1>2, <1>4, <2>1, HeadIsFirst
<1>8. ListTypeOK'
  BY <1>1, <1>2, <1>6, <1>7 DEF ListTypeOK, ExecTypeOK, Record
<1>9. ListTypes'
  <2>1. /\ Inspected' = Inspected
        /\ \A r \in truth' :
             \/ r.state = "fixed"
             \/ r.address \in Inspected /\ (r.state = "current" => r = Seen(Self, "current"))
    <3>1. Inspected' = Inspected
      BY <1>1 DEF Inspected
    <3> QED BY <1>5, <3>1, SeenIs
  <2>2. /\ (nodes \in Seq(Fixed) /\ IsInjective(nodes))' /\ (signalled \in BOOLEAN)'
        /\ truth' \subseteq Record
    BY <1>1, <1>2, <1>5
  <2>3. (Walking /\ cursor # Sentinel => cursor \in ToSet(ready) \union ToSet(wait))'
    BY <1>1, <1>7
  <2>4. (snapshot.truncated => Len(snapshot.recs) = MaxRecords)' /\ Taken' /\ pc' \notin {"start", "forbid"}
    BY <1>1, <1>4, <1>6
  <2>5. /\ (program = "PortView" => ~ Walking)'
        /\ \A r \in truth' :
             \/ r.state = "fixed"
             \/ r.address \in Inspected' /\ (r.state = "current" => r = Seen(Self, "current"))
    BY <1>1, <1>4, <2>1
  <2>6. (truth \subseteq Record)' /\ (program \in Programs)'
    BY <1>1, <1>2, <2>2 DEF Record
  <2> QED BY <1>8, <2>2, <2>3, <2>4, <2>5, <2>6 DEF ListTypes
<1>9a. program = "PortView" => \A r \in truth' : r.state = "fixed"
  BY <1>1, <1>9 DEF ListTypes, Inspected
<1>10. FixedRecorded'
  <2>2. program' = program /\ Recorded' = ToSet(snapshot'.recs)
    BY <1>1, Zenon DEF Recorded
  <2>3. ~ snapshot'.truncated =>
          \A r \in truth' :
            \/ r \in Recorded'
            \/ r.state # "fixed" /\ r.state # "current"
            \/ r.state # "fixed" /\ program' \notin TaskPrograms
    BY <1>6, <2>2
  <2>4. ~ Walking' => \A r \in truth' : program' \in TaskPrograms \/ r.state = "fixed"
    BY <1>1, <1>4, <1>9a
  <2>5. ~ snapshot'.truncated =>
          \A r \in truth' :
            \/ r \in Recorded'
            \/ r.state # "fixed" /\ r.state # "current"
            \/ r.state # "fixed" /\ Walking' /\ program' \notin TaskPrograms
    BY <2>3, <2>4
  <2> QED BY <2>5 DEF FixedRecorded
<1>11. ReadyBefore' /\ ReadyRecorded'
  <2>1. CASE program = "PortView"
    BY <1>1, <1>4, <1>9a, <2>1 DEF ReadyBefore, ReadyRecorded, Walking
  <2>2. CASE program # "PortView"
    <3>1. pc' = "ready" /\ cursor' = HeadOf(ready)
      BY <1>1, <2>2
    <3>2. \A r \in truth' : r.state = "ready" => r.address \in ToSet(ready)
      BY <1>5, SeenIs
    <3>3. CASE ready = << >>
      <4>1. cursor' = Sentinel /\ ToSet(ready) = {}
        BY <1>1, <3>1, <3>3 DEF HeadOf, ToSet
      <4> QED BY <1>1, <3>1, <3>2, <4>1 DEF ReadyBefore, ReadyRecorded
    <3>4. CASE ready # << >>
      <4>1. 1 \in DOMAIN ready /\ cursor' = ready[1] /\ ready[1] \in ToSet(ready) /\ ready[1] \in Task
        BY <1>2, <3>1, <3>4, HeadIsFirst
      <4>2. cursor' # Sentinel
        BY <4>1, NodeAssumption
      <4>3. ASSUME NEW i \in DOMAIN ready, NEW j \in DOMAIN ready, ready[j] = cursor', i < j PROVE FALSE
        <5>1. j = 1
          BY <1>2, <4>1, <4>3 DEF IsInjective
        <5> QED BY <1>2, <4>3, <5>1
      <4> QED BY <1>1, <3>1, <3>2, <4>1, <4>2, <4>3 DEF ReadyBefore, ReadyRecorded
    <3> QED BY <3>3, <3>4
  <2> QED BY <2>1, <2>2
<1> QED BY <1>9, <1>10, <1>11 DEF ListInv

(* What every turn of a walk does. *)
Turned ==
  /\ snapshot' \in Tables(Record, MaxRecords) /\ (snapshot'.truncated => Len(snapshot'.recs) = MaxRecords)
  /\ cursor \in Task \union {Self} /\ Seen(cursor, pc) \in Record
  /\ \/ cursor \notin Inspected /\ snapshot' = snapshot
     \/ /\ cursor \in Inspected /\ ~ snapshot.truncated /\ ~ snapshot'.truncated
        /\ ToSet(snapshot'.recs) = Recorded \union {Seen(cursor, pc)}
        /\ IsInjective(snapshot.recs) /\ Seen(cursor, pc) \notin Recorded => IsInjective(snapshot'.recs)
     \/ cursor \in Inspected /\ snapshot'.truncated /\ snapshot'.recs = snapshot.recs
  /\ \/ cursor' = Sentinel /\ snapshot'.truncated /\ program \in TaskPrograms
     \/ \E list \in {ready, wait} :
          /\ list \in Seq(Task) /\ IsInjective(list)
          /\ \E k \in 1 .. Len(list) :
               /\ list[k] = cursor /\ (cursor \in ToSet(ready) => list = ready)
               /\ \/ k = Len(list) /\ cursor' = Sentinel
                  \/ /\ k # Len(list) /\ k + 1 \in DOMAIN list /\ cursor' = list[k + 1]
                     /\ cursor' \in ToSet(list) /\ cursor' # Sentinel /\ cursor' \in Task
                     /\ (program \in TaskPrograms => ~ snapshot'.truncated)

LEMMA VisitTurns ==
  ASSUME ListTypes, Visit
  PROVE  Turned
<1>1. /\ Walking /\ cursor # Sentinel /\ snapshot' = AddSeen(cursor, pc)
      /\ cursor' = IF StopsHere THEN Sentinel ELSE SuccOf(cursor)
  BY DEF Visit
<1>2. /\ ready \in Seq(Task) /\ IsInjective(ready) /\ wait \in Seq(Task) /\ IsInjective(wait)
      /\ cursor \in ToSet(ready) \union ToSet(wait) /\ cursor \in Task \union {Self}
      /\ snapshot \in Tables(Record, MaxRecords) /\ (snapshot.truncated => Len(snapshot.recs) = MaxRecords)
      /\ pc \in TaskStates
  BY <1>1 DEF ListTypes, ListTypeOK, ExecTypeOK, Walking, TaskStates
<1>3. Seen(cursor, pc) \in Record
  BY <1>2, SeenIs
<1>4. /\ snapshot' \in Tables(Record, MaxRecords) /\ (snapshot'.truncated => Len(snapshot'.recs) = MaxRecords)
      /\ \/ cursor \notin Inspected /\ snapshot' = snapshot
         \/ /\ cursor \in Inspected /\ ~ snapshot.truncated /\ ~ snapshot'.truncated
            /\ ToSet(snapshot'.recs) = Recorded \union {Seen(cursor, pc)}
            /\ IsInjective(snapshot.recs) /\ Seen(cursor, pc) \notin Recorded => IsInjective(snapshot'.recs)
         \/ cursor \in Inspected /\ snapshot'.truncated /\ snapshot'.recs = snapshot.recs
  BY <1>1, <1>2, OneMoreSeen
<1> DEFINE list == IF cursor \in ToSet(ready) THEN ready ELSE wait
<1>5. list \in Seq(Task) /\ IsInjective(list) /\ cursor \in ToSet(list)
      /\ (cursor \in ToSet(ready) => list = ready) /\ list \in {ready, wait}
  BY <1>2
<1>6. SuccOf(cursor) = SuccIn(list, cursor)
  BY DEF SuccOf
<1> HIDE DEF list
<1>7. PICK k \in 1 .. Len(list) : list[k] = cursor
  BY <1>5 DEF ToSet
<1>8. SuccOf(cursor) = IF k = Len(list) THEN Sentinel ELSE list[k + 1]
  BY <1>5, <1>6, <1>7, SuccIsNext
<1>9. k = Len(list) \/ (k # Len(list) /\ k + 1 \in DOMAIN list /\ list[k + 1] \in ToSet(list)
                         /\ list[k + 1] # Sentinel /\ list[k + 1] \in Task)
  BY <1>5, NodeAssumption DEF ToSet
<1>10. \/ cursor' = Sentinel /\ snapshot'.truncated /\ program \in TaskPrograms
       \/ k = Len(list) /\ cursor' = Sentinel
       \/ /\ k # Len(list) /\ k + 1 \in DOMAIN list /\ cursor' = list[k + 1]
          /\ cursor' \in ToSet(list) /\ cursor' # Sentinel /\ cursor' \in Task
          /\ (program \in TaskPrograms => ~ snapshot'.truncated)
  BY <1>1, <1>8, <1>9 DEF StopsHere
<1> QED BY <1>2, <1>3, <1>4, <1>5, <1>7, <1>10, Zenon DEF Turned

LEMMA ListVisit ==
  ASSUME ListInv, Visit
  PROVE  ListInv'
<1>1. /\ Walking /\ cursor # Sentinel
      /\ pc' = pc /\ ready' = ready /\ wait' = wait /\ program' = program /\ nodes' = nodes
      /\ out' = out /\ signalled' = signalled /\ rc' = rc /\ wanted' = wanted /\ truth' = truth
  BY DEF Visit, execVars
<1>2. ListTypes /\ Turned
  BY VisitTurns DEF ListInv
<1>3. /\ snapshot' \in Tables(Record, MaxRecords) /\ (snapshot'.truncated => Len(snapshot'.recs) = MaxRecords)
      /\ cursor' \in Task \union {Sentinel} /\ (cursor' # Sentinel => cursor' \in ToSet(ready) \union ToSet(wait))
  BY <1>2, Zenon DEF Turned
<1>4. Inspected' = Inspected /\ Walking' /\ Taken' /\ Taken
  BY <1>1 DEF Inspected, Walking, Taken
<1>5. ListTypes'
  <2>1. ListTypeOK'
    BY <1>1, <1>2, <1>3 DEF ListTypes, ListTypeOK, ExecTypeOK, Record
  <2> QED BY <1>1, <1>2, <1>3, <1>4, <2>1 DEF ListTypes, Record
<1>6. ~ snapshot'.truncated =>
        /\ ~ snapshot.truncated /\ Recorded \subseteq ToSet(snapshot'.recs)
        /\ cursor \in Inspected => Seen(cursor, pc) \in ToSet(snapshot'.recs)
  BY <1>2 DEF Turned, Recorded
<1>7. FixedRecorded'
  BY <1>1, <1>4, <1>6 DEF ListInv, FixedRecorded, Recorded, TaskPrograms
<1>8. CASE pc = "ready"
  <2>1. /\ \A r \in truth : r.state = "ready" => r.address \in ToSet(ready)
        /\ cursor \in ToSet(ready)
        /\ ~ snapshot.truncated =>
             \A i, j \in DOMAIN ready :
               ready[j] = cursor /\ i < j /\ Seen(ready[i], "ready") \in truth => Seen(ready[i], "ready") \in Recorded
    BY <1>1, <1>8 DEF ListInv, ReadyBefore
  <2>2. CASE cursor' = Sentinel /\ snapshot'.truncated
    <3>1. ReadyBefore'
      <4>1. (pc = "ready" => \A r \in truth : r.state = "ready" => r.address \in ToSet(ready))'
        BY <1>1, <2>1
      <4> QED BY <2>2, <4>1 DEF ReadyBefore
    <3>2. ReadyRecorded'
      BY <2>2 DEF ReadyRecorded
    <3> QED BY <1>5, <1>7, <3>1, <3>2 DEF ListInv
  <2>3. CASE ~ (cursor' = Sentinel /\ snapshot'.truncated)
    <3>1. /\ ready \in Seq(Task) /\ IsInjective(ready) /\ DOMAIN ready = 1 .. Len(ready) /\ Len(ready) \in Nat
      BY <1>2 DEF ListTypes, ListTypeOK, ExecTypeOK
    <3>2. PICK k \in 1 .. Len(ready) :
            /\ ready[k] = cursor
            /\ \/ k = Len(ready) /\ cursor' = Sentinel
               \/ /\ k # Len(ready) /\ k + 1 \in DOMAIN ready /\ cursor' = ready[k + 1]
                  /\ cursor' \in ToSet(ready) /\ cursor' # Sentinel
      BY <1>2, <2>1, <2>3, Zenon DEF Turned
    <3>3. ASSUME ~ snapshot'.truncated, NEW i \in DOMAIN ready, i <= k, Seen(ready[i], "ready") \in truth
          PROVE  Seen(ready[i], "ready") \in ToSet(snapshot'.recs)
      <4>1. CASE i = k
        <5>1. Seen(cursor, "ready").state = "ready" /\ Seen(cursor, "ready").address = cursor
          BY SeenIs, Zenon
        <5>2. cursor \in Inspected
          BY <1>2, <3>2, <3>3, <4>1, <5>1 DEF ListTypes
        <5> QED BY <1>6, <1>8, <3>2, <3>3, <4>1, <5>2
      <4>2. CASE i < k
        BY <1>6, <2>1, <3>1, <3>2, <3>3, <4>2
      <4> QED BY <3>1, <3>2, <3>3, <4>1, <4>2
    <3>4. ReadyBefore'
      <4>1. ASSUME ~ snapshot'.truncated, NEW i \in DOMAIN ready, NEW j \in DOMAIN ready, cursor' # Sentinel,
                   ready[j] = cursor', i < j, Seen(ready[i], "ready") \in truth
            PROVE  Seen(ready[i], "ready") \in ToSet(snapshot'.recs)
        <5>1. j = k + 1
          BY <3>1, <3>2, <4>1 DEF IsInjective
        <5>2. i \in 1 .. Len(ready) /\ k \in 1 .. Len(ready) /\ i < j
          BY <3>1, <3>2, <4>1
        <5>3. i <= k
          BY <3>1, <5>1, <5>2
        <5> QED BY <3>3, <4>1, <5>3
      <4>2. (pc = "ready" => \A r \in truth : r.state = "ready" => r.address \in ToSet(ready))'
        BY <1>1, <2>1
      <4>3. (pc = "ready" => (cursor # Sentinel => cursor \in ToSet(ready)))'
        BY <1>1, <3>2
      <4>4. Seen(ready[1], "ready")' = Seen(ready'[1], "ready") /\ Recorded' = ToSet(snapshot'.recs)
        BY Zenon DEF Seen, Recorded
      <4> QED BY <1>1, <4>1, <4>2, <4>3, <4>4 DEF ReadyBefore
    <3>5. ReadyRecorded'
      <4>1. ASSUME ~ snapshot'.truncated, NEW r \in truth, r.state = "ready", cursor' = Sentinel
            PROVE  r \in ToSet(snapshot'.recs)
        <5>1. PICK i \in DOMAIN ready : ready[i] = r.address
          BY <2>1, <4>1 DEF ToSet
        <5>2. i <= k /\ r \in Record
          BY <1>2, <3>1, <3>2, <4>1, <5>1 DEF ListTypes
        <5>3. r = Seen(ready[i], "ready")
          BY <4>1, <5>1, <5>2, SeenIs
        <5> QED BY <3>3, <4>1, <5>2, <5>3
      <4>2. Recorded' = ToSet(snapshot'.recs)
        BY Zenon DEF Recorded
      <4>3. ~ snapshot'.truncated /\ cursor' = Sentinel =>
              \A r \in truth' : r.state = "ready" => r \in Recorded'
        BY <1>1, <4>1, <4>2
      <4>4. pc' = "ready"
        BY <1>1, <1>8
      <4> QED BY <4>3, <4>4 DEF ReadyRecorded
    <3> QED BY <1>5, <1>7, <3>4, <3>5 DEF ListInv
  <2> QED BY <1>5, <1>7, <2>2, <2>3 DEF ListInv
<1>9. CASE pc # "ready"
  <2>1. ReadyBefore'
    BY <1>1, <1>9 DEF ReadyBefore
  <2>2. ReadyRecorded'
    BY <1>1, <1>4, <1>6, <1>9 DEF ListInv, ReadyRecorded, Recorded
  <2> QED BY <1>5, <1>7, <2>1, <2>2 DEF ListInv
<1> QED BY <1>8, <1>9

LEMMA ListEndOfList ==
  ASSUME ListInv, EndOfList
  PROVE  ListInv'
<1>1. /\ Walking /\ cursor = Sentinel
      /\ ready' = ready /\ wait' = wait /\ program' = program /\ nodes' = nodes
      /\ out' = out /\ signalled' = signalled /\ rc' = rc /\ wanted' = wanted /\ truth' = truth
      /\ \/ pc = "ready" /\ pc' = "wait" /\ cursor' = HeadOf(wait) /\ snapshot' = snapshot
            /\ ~ (program \in TaskPrograms /\ snapshot.truncated)
         \/ pc' = "print" /\ cursor' = cursor
            /\ (pc = "wait" \/ (program \in TaskPrograms /\ snapshot.truncated))
            /\ snapshot' = IF program = "ResidentView" THEN AddSeen(Self, "current") ELSE snapshot
  <2>1. /\ Walking /\ cursor = Sentinel
        /\ ready' = ready /\ wait' = wait /\ program' = program /\ nodes' = nodes
        /\ out' = out /\ signalled' = signalled /\ rc' = rc /\ wanted' = wanted /\ truth' = truth
    BY DEF EndOfList, execVars
  <2>2. \/ /\ pc = "ready" /\ ~ (program \in TaskPrograms /\ snapshot.truncated)
           /\ pc' = "wait" /\ cursor' = HeadOf(wait) /\ snapshot' = snapshot
        \/ /\ pc = "wait" \/ (program \in TaskPrograms /\ snapshot.truncated)
           /\ pc' = "print" /\ cursor' = cursor
           /\ snapshot' = IF program = "ResidentView" THEN AddSeen(Self, "current") ELSE snapshot
    BY Zenon DEF EndOfList
  <2> QED BY <2>1, <2>2, Zenon
<1>2. /\ ListTypeOK /\ ExecTypeOK /\ program \in Programs /\ Taken /\ Taken'
      /\ snapshot \in Tables(Record, MaxRecords) /\ (snapshot.truncated => Len(snapshot.recs) = MaxRecords)
      /\ wait \in Seq(Task) /\ program # "PortView" /\ Inspected' = Inspected
  BY <1>1 DEF ListInv, ListTypes, ListTypeOK, ExecTypeOK, Taken, Walking, Inspected
<1>3. /\ snapshot' \in Tables(Record, MaxRecords) /\ (snapshot'.truncated => Len(snapshot'.recs) = MaxRecords)
      /\ ~ snapshot'.truncated =>
           /\ ~ snapshot.truncated /\ Recorded \subseteq ToSet(snapshot'.recs)
           /\ pc' = "print" /\ program = "ResidentView" => Seen(Self, "current") \in ToSet(snapshot'.recs)
  <2>1. CASE snapshot' = snapshot /\ ~ (pc' = "print" /\ program = "ResidentView")
    BY <1>2, <2>1 DEF Recorded
  <2>2. CASE pc' = "print" /\ program = "ResidentView"
    <3>1. /\ snapshot' = AddSeen(Self, "current") /\ "current" \in TaskStates /\ Self \in Task \union {Self}
          /\ Self \in Inspected
      BY <1>1, <2>2 DEF TaskStates, Inspected
    <3>2. /\ snapshot' \in Tables(Record, MaxRecords) /\ (snapshot'.truncated => Len(snapshot'.recs) = MaxRecords)
          /\ \/ ~ snapshot.truncated /\ ToSet(snapshot'.recs) = Recorded \union {Seen(Self, "current")}
             \/ snapshot'.truncated
      BY <1>2, <3>1, OneMoreSeen
    <3> QED BY <3>2
  <2> QED BY <1>1, <2>1, <2>2
<1>4. /\ cursor' \in Task \union {Sentinel}
      /\ pc' = "wait" /\ cursor' # Sentinel => cursor' \in ToSet(wait)
  <2>1. ToSet(wait) \subseteq Task
    BY <1>2 DEF ToSet
  <2> QED BY <1>1, <1>2, <2>1, HeadIsFirst
<1>5. ListTypeOK'
  BY <1>1, <1>2, <1>3, <1>4 DEF ListTypeOK, ExecTypeOK, Record
<1>6. ListTypes'
  BY <1>1, <1>2, <1>3, <1>4, <1>5 DEF ListInv, ListTypes, Record, Walking
<1>7. FixedRecorded'
  <2>1. \A r \in truth : r.state = "current" => r = Seen(Self, "current")
    BY DEF ListInv, ListTypes
  <2>2. ~ snapshot.truncated =>
          \A r \in truth : \/ r \in Recorded
                           \/ r.state # "fixed" /\ (r.state # "current" \/ program \notin TaskPrograms)
    BY <1>2 DEF ListInv, FixedRecorded
  <2>5. program \in TaskPrograms \/ program = "ResidentView"
    BY <1>2 DEF Programs
  <2>3. ~ snapshot'.truncated =>
          \A r \in truth' : \/ r \in ToSet(snapshot'.recs)
                            \/ r.state # "fixed" /\ r.state # "current"
                            \/ r.state # "fixed" /\ Walking' /\ program' \notin TaskPrograms
    <3>1. Walking' \/ pc' = "print"
      BY <1>1 DEF Walking
    <3>2. ~ snapshot'.truncated =>
            \A r \in truth : \/ r \in ToSet(snapshot'.recs)
                             \/ r.state # "fixed" /\ (r.state # "current" \/ program \notin TaskPrograms)
      BY <1>3, <2>2
    <3>3. ~ snapshot'.truncated /\ pc' = "print" /\ program = "ResidentView" =>
            \A r \in truth : r.state = "current" => r \in ToSet(snapshot'.recs)
      BY <1>3, <2>1
    <3> QED BY <1>1, <2>5, <3>1, <3>2, <3>3
  <2>4. Recorded' = ToSet(snapshot'.recs)
    BY Zenon DEF Recorded
  <2> QED BY <2>3, <2>4 DEF FixedRecorded
<1>8. ReadyBefore'
  BY <1>1 DEF ReadyBefore
<1>9. ReadyRecorded'
  <2>1. ~ snapshot'.truncated => \A r \in truth' : r.state = "ready" => r \in ToSet(snapshot'.recs)
    BY <1>1, <1>2, <1>3 DEF ListInv, ReadyRecorded
  <2>2. Recorded' = ToSet(snapshot'.recs)
    BY Zenon DEF Recorded
  <2> QED BY <2>1, <2>2 DEF ReadyRecorded
<1> QED BY <1>6, <1>7, <1>8, <1>9 DEF ListInv

LEMMA ListReport ==
  ASSUME ListInv, Report
  PROVE  ListInv'
<1> DEFINE asked == {r \in Record : Matches(r)}
<1>1. /\ pc = "print" /\ pc' = "exit" /\ out' = Selected(snapshot.recs, asked)
      /\ rc' = IF snapshot.truncated THEN 5 ELSE 0
      /\ ready' = ready /\ wait' = wait /\ program' = program /\ nodes' = nodes
      /\ cursor' = cursor /\ snapshot' = snapshot /\ signalled' = signalled /\ wanted' = wanted /\ truth' = truth
  BY DEF Report, execVars
<1>2. snapshot.recs \in Seq(Record)
  BY DEF ListInv, ListTypes, ListTypeOK, Tables
<1> HIDE DEF asked
<1>3. out' \in Seq(Record)
  BY <1>1, <1>2, SelectedElements, ZenonT(60)
<1>4. ListTypeOK'
  BY <1>1, <1>3 DEF ListInv, ListTypes, ListTypeOK, ExecTypeOK, Record
<1>5. Taken /\ Taken' /\ ~ Walking' /\ ~ Walking /\ Inspected' = Inspected
  BY <1>1 DEF Taken, Walking, Inspected
<1>6. ListTypes'
  BY <1>1, <1>4, <1>5 DEF ListInv, ListTypes, Record
<1>7. FixedRecorded' /\ ReadyBefore' /\ ReadyRecorded'
  BY <1>1, <1>5 DEF ListInv, FixedRecorded, ReadyBefore, ReadyRecorded, Recorded
<1> QED BY <1>6, <1>7 DEF ListInv

(* An interrupt under the walk: the cursor's node may be moved, but nobody *)
(* who was ready is moved to a place behind it.                            *)
LEMMA ListInterrupt ==
  ASSUME ListInv, Interrupt, signalled' = Walking,
         UNCHANGED <<program, nodes, pc, wanted, snapshot, cursor, out, rc, truth>>
  PROVE  ListInv'
<1>1. /\ pc' = pc /\ program' = program /\ nodes' = nodes /\ wanted' = wanted /\ snapshot' = snapshot
      /\ cursor' = cursor /\ out' = out /\ rc' = rc /\ truth' = truth
  OBVIOUS
<1>2. PICK t \in Task : Signal(t)
  BY DEF Interrupt
<1>3. ListTypes /\ ListTypeOK /\ ExecTypeOK /\ ready \in Seq(Task) /\ IsInjective(ready)
  BY DEF ListInv, ListTypes, ListTypeOK, ExecTypeOK
<1>4. /\ ExecTypeOK'
      /\ ToSet(ready') = ToSet(ready) \union {t} /\ ToSet(wait') = ToSet(wait) \ {t}
      /\ t \notin ToSet(ready)
      /\ \A a, b \in DOMAIN ready' : a < b /\ ready'[a] # t /\ ready'[b] # t =>
           \E x, y \in DOMAIN ready : x < y /\ ready[x] = ready'[a] /\ ready[y] = ready'[b]
  BY <1>2, <1>3, SignalKeeps, Zenon
<1>5. signalled' \in BOOLEAN
  BY DEF Walking
<1>6. ListTypeOK'
  BY <1>1, <1>3, <1>4 DEF ListTypeOK, Record
<1>7. Taken' = Taken /\ Walking' = Walking /\ Inspected' = Inspected
  BY <1>1 DEF Taken, Walking, Inspected
<1>8. (Walking /\ cursor # Sentinel => cursor \in ToSet(ready) \union ToSet(wait))'
  BY <1>1, <1>3, <1>4, <1>7 DEF ListTypes
<1>9. ListTypes'
  BY <1>1, <1>3, <1>5, <1>6, <1>7, <1>8 DEF ListTypes, Record
<1>10. FixedRecorded' /\ ReadyRecorded'
  BY <1>1, <1>7 DEF ListInv, FixedRecorded, ReadyRecorded, Recorded
<1>11. ReadyBefore'
  <2> SUFFICES ASSUME pc = "ready" PROVE ReadyBefore'
    BY <1>1 DEF ReadyBefore
  <2>1. /\ \A r \in truth : r.state = "ready" => r.address \in ToSet(ready)
        /\ cursor # Sentinel => cursor \in ToSet(ready)
        /\ ~ snapshot.truncated /\ cursor # Sentinel =>
             \A i, j \in DOMAIN ready :
               ready[j] = cursor /\ i < j /\ Seen(ready[i], "ready") \in truth => Seen(ready[i], "ready") \in Recorded
    BY DEF ListInv, ReadyBefore
  <2>2. ASSUME ~ snapshot.truncated, cursor # Sentinel,
               NEW a \in DOMAIN ready', NEW b \in DOMAIN ready',
               ready'[b] = cursor, a < b, Seen(ready'[a], "ready") \in truth
        PROVE  Seen(ready'[a], "ready") \in Recorded
    <3>1. ready'[a] \in ToSet(ready)
      <4>1. Seen(ready'[a], "ready").state = "ready" /\ Seen(ready'[a], "ready").address = ready'[a]
        BY SeenIs, Zenon
      <4> QED BY <2>1, <2>2, <4>1
    <3>2. ready'[a] # t /\ ready'[b] # t
      BY <1>4, <2>1, <2>2, <3>1
    <3>3. PICK x, y \in DOMAIN ready : x < y /\ ready[x] = ready'[a] /\ ready[y] = ready'[b]
      BY <1>4, <2>2, <3>2
    <3> QED BY <2>1, <2>2, <3>3
  <2>3. Recorded' = Recorded
    BY <1>1 DEF Recorded
  <2> QED BY <1>1, <1>4, <2>1, <2>2, <2>3 DEF ReadyBefore
<1> QED BY <1>9, <1>10, <1>11 DEF ListInv

LEMMA ListIdle ==
  ASSUME ListInv, ExecTypeOK', pc' = pc, pc = "forbid" \/ UNCHANGED execVars, signalled' = signalled,
         UNCHANGED <<program, nodes, wanted, snapshot, cursor, out, rc, truth>>
  PROVE  ListInv'
<1>1. /\ pc' = pc /\ program' = program /\ nodes' = nodes /\ wanted' = wanted /\ snapshot' = snapshot
      /\ cursor' = cursor /\ out' = out /\ rc' = rc /\ truth' = truth
      /\ pc = "forbid" \/ (ready' = ready /\ wait' = wait)
  BY DEF execVars
<1>2. ListTypeOK'
  BY <1>1 DEF ListInv, ListTypes, ListTypeOK, Record
<1>3. Taken' = Taken /\ Walking' = Walking /\ Inspected' = Inspected /\ Recorded' = Recorded
  BY <1>1 DEF Taken, Walking, Inspected, Recorded
<1>4. (Walking /\ cursor # Sentinel => cursor \in ToSet(ready) \union ToSet(wait))'
  BY <1>1, <1>3 DEF ListInv, ListTypes, Walking
<1>5. ListTypes'
  BY <1>1, <1>2, <1>3, <1>4 DEF ListInv, ListTypes, Record
<1>6. FixedRecorded' /\ ReadyRecorded'
  BY <1>1, <1>3 DEF ListInv, FixedRecorded, ReadyRecorded
<1>7. ReadyBefore'
  BY <1>1, <1>3 DEF ListInv, ReadyBefore
<1> QED BY <1>5, <1>6, <1>7 DEF ListInv

LEMMA StepList ==
  ASSUME ListInv, ListNext \/ UNCHANGED <<program, pc, rc, ListVars>>
  PROVE  ListInv'
<1>1. CASE Start
  BY <1>1, ListStart
<1>2. CASE Forbid
  BY <1>2, ListForbid
<1>3. CASE Visit
  BY <1>3, ListVisit
<1>4. CASE EndOfList
  BY <1>4, ListEndOfList
<1>5. CASE Report
  BY <1>5, ListReport
<1>6. CASE Environment
  <2>1. CASE pc = "forbid" /\ OtherTasks /\ signalled' = signalled
    <3>1. ExecTypeOK'
      BY <2>1, OtherTasksKeep DEF ListInv, ListTypes, ListTypeOK
    <3> QED BY <1>6, <2>1, <3>1, ListIdle DEF Environment
  <2>2. CASE Interrupt /\ signalled' = Walking
    BY <1>6, <2>2, ListInterrupt DEF Environment
  <2> QED BY <1>6, <2>1, <2>2 DEF Environment
<1>7. CASE UNCHANGED <<program, pc, rc, ListVars>>
  <2>1. ExecTypeOK'
    BY <1>7 DEF ListVars, execVars, ListInv, ListTypes, ListTypeOK, ExecTypeOK
  <2> QED BY <1>7, <2>1, ListIdle DEF ListVars
<1> QED BY <1>1, <1>2, <1>3, <1>4, <1>5, <1>6, <1>7 DEF ListNext, ListTool

(* While no interrupt comes the lists are as they were: what is recorded   *)
(* of the list that is walked stands before the cursor, all of it.         *)
WalkedList == IF pc = "ready" THEN ready ELSE wait

QuietWalk ==
  Walking /\ ~ signalled =>
    /\ truth = TrueRecords
    /\ cursor # Sentinel => cursor \in ToSet(WalkedList)
    /\ \A r \in Recorded : (pc = "ready" => r.state # "wait") /\ (program = "ResidentView" => r.state # "current")
    /\ \A i, j \in DOMAIN WalkedList :
         WalkedList[j] = cursor /\ Seen(WalkedList[i], pc) \in Recorded => i < j

WaitBefore ==
  pc = "wait" /\ ~ signalled /\ ~ snapshot.truncated =>
    /\ cursor = Sentinel => \A i \in DOMAIN wait : Seen(wait[i], "wait") \in truth => Seen(wait[i], "wait") \in Recorded
    /\ \A i, j \in DOMAIN wait :
         wait[j] = cursor /\ i < j /\ Seen(wait[i], "wait") \in truth => Seen(wait[i], "wait") \in Recorded

QuietTable ==
  Taken /\ ~ signalled =>
    /\ Recorded \subseteq truth /\ IsInjective(snapshot.recs)
    /\ snapshot.truncated => truth \ Recorded # {}
    /\ ~ Walking /\ ~ snapshot.truncated => truth \subseteq Recorded

ListPrinted ==
  pc = "exit" /\ rc \in {0, 5} =>
    /\ rc = 5 <=> snapshot.truncated
    /\ ToSet(out) = Recorded \intersect {r \in Record : Matches(r)}
    /\ IsInjective(snapshot.recs) => IsInjective(out)

QuietInv == QuietWalk /\ WaitBefore /\ QuietTable /\ ListPrinted

LEMMA InTruth ==
  ASSUME NEW t \in Inspected
  PROVE  /\ t \in ToSet(ready) => Seen(t, "ready") \in TrueRecords
         /\ t \in ToSet(wait) => Seen(t, "wait") \in TrueRecords
         /\ t = Self => Seen(t, "current") \in TrueRecords
         /\ ToSet(FixedRecords) \subseteq TrueRecords
BY DEF TrueRecords

LEMMA InitQuiet == ASSUME ListInit PROVE QuietInv
<1>1. pc = "start" /\ rc = 0
  BY DEF ListInit
<1> QED BY <1>1 DEF QuietInv, QuietWalk, WaitBefore, QuietTable, ListPrinted, Taken, Walking

LEMMA QuietStart ==
  ASSUME ListInv, QuietInv, Start
  PROVE  QuietInv'
<1>1. (pc' = "exit" /\ rc' \in {10, 20}) \/ pc' = "forbid"
  BY DEF Start
<1> QED BY <1>1 DEF QuietInv, QuietWalk, WaitBefore, QuietTable, ListPrinted, Taken, Walking

(* Nothing is recorded yet but what Forbid keeps still and the own task,   *)
(* and the cursor stands before all.                                       *)
LEMMA QuietForbid ==
  ASSUME ListInv, QuietInv, Forbid, ListInv'
  PROVE  QuietInv'
<1>1. /\ pc = "forbid" /\ ready' = ready /\ wait' = wait /\ program' = program /\ nodes' = nodes
      /\ snapshot' = IF program \in TaskPrograms THEN AddSeen(Self, "current")
                     ELSE AddRecords(snapshot, FixedRecords, MaxRecords)
      /\ pc' = IF program = "PortView" THEN "print" ELSE "ready"
      /\ cursor' = IF program = "PortView" THEN Sentinel ELSE HeadOf(ready)
      /\ truth' = TrueRecords
  BY DEF Forbid, execVars
<1>2. /\ ListTypeOK /\ ExecTypeOK /\ program \in Programs /\ nodes \in Seq(Fixed) /\ IsInjective(nodes)
      /\ snapshot = EmptyTable /\ ready \in Seq(Task) /\ IsInjective(ready)
  BY <1>1 DEF ListInv, ListTypes, ListTypeOK, ExecTypeOK, Taken, Walking
<1>3. /\ snapshot \in Tables(Record, MaxRecords) /\ ~ snapshot.truncated /\ Recorded = {} /\ snapshot.recs = << >>
      /\ IsInjective(snapshot.recs) /\ MaxRecords \in Nat \ {0} /\ Len(snapshot.recs) = 0
  BY <1>2, SnapshotAssumption, EmptyTableType DEF EmptyTable, Recorded, ToSet, IsInjective
<1>4. /\ IsInjective(snapshot'.recs) /\ ToSet(snapshot'.recs) \subseteq TrueRecords
      /\ snapshot'.truncated => TrueRecords \ ToSet(snapshot'.recs) # {}
      /\ \A r \in ToSet(snapshot'.recs) : r.state = "fixed" \/ (r.state = "current" /\ program \in TaskPrograms)
  <2>1. CASE program \in TaskPrograms
    <3>1. snapshot' = AddSeen(Self, "current") /\ "current" \in TaskStates /\ Self \in Task \union {Self}
      BY <1>1, <2>1 DEF TaskStates
    <3>2. CASE Self \notin Inspected
      <4>1. snapshot' = snapshot
        BY <3>1, <3>2 DEF AddSeen
      <4> QED BY <1>3, <4>1 DEF Recorded
    <3>3. CASE Self \in Inspected
      <4>1. \/ /\ ~ snapshot'.truncated /\ ToSet(snapshot'.recs) = Recorded \union {Seen(Self, "current")}
               /\ IsInjective(snapshot.recs) /\ Seen(Self, "current") \notin Recorded => IsInjective(snapshot'.recs)
            \/ snapshot'.truncated /\ snapshot'.recs = snapshot.recs /\ Len(snapshot'.recs) = MaxRecords
        BY <1>3, <3>1, <3>3, OneMoreSeen
      <4>2. /\ ~ snapshot'.truncated /\ ToSet(snapshot'.recs) = {Seen(Self, "current")}
            /\ IsInjective(snapshot'.recs)
        BY <1>3, <4>1
      <4>3. Seen(Self, "current") \in TrueRecords /\ Seen(Self, "current").state = "current"
        BY <3>3, InTruth, SeenIs
      <4> QED BY <2>1, <4>2, <4>3
    <3> QED BY <3>2, <3>3
  <2>2. CASE program \notin TaskPrograms
    <3>1. /\ FixedRecords \in Seq(Record) /\ IsInjective(FixedRecords)
          /\ \A r \in ToSet(FixedRecords) : r.state = "fixed"
          /\ ToSet(FixedRecords) \subseteq TrueRecords
      BY <1>2, FixedAre DEF TrueRecords
    <3> DEFINE fixed == FixedRecords
    <3>2. snapshot' = AddRecords(EmptyTable, fixed, MaxRecords) /\ MaxRecords \in Nat
      BY <1>1, <1>2, <1>3, <2>2
    <3>3. fixed \in Seq(Record) /\ IsInjective(fixed) /\ (\A r \in ToSet(fixed) : r.state = "fixed")
          /\ ToSet(fixed) \subseteq TrueRecords
      BY <3>1
    <3> HIDE DEF fixed
    <3>4. \/ snapshot'.recs = fixed /\ ~ snapshot'.truncated
          \/ /\ snapshot'.truncated /\ Len(snapshot'.recs) = MaxRecords /\ Len(fixed) > MaxRecords
             /\ \A i \in 1 .. MaxRecords : snapshot'.recs[i] = fixed[i]
      <4>1. fixed \in Seq(Record) /\ MaxRecords \in Nat
        BY <3>2, <3>3
      <4>2. FirstOf(snapshot', fixed, MaxRecords)
        BY <3>2, <4>1, FirstRecords
      <4> QED BY <4>2 DEF FirstOf
    <3>6. CASE snapshot'.recs = fixed /\ ~ snapshot'.truncated
      BY <3>3, <3>6
    <3>7. CASE /\ snapshot'.truncated /\ Len(snapshot'.recs) = MaxRecords /\ Len(fixed) > MaxRecords
               /\ \A i \in 1 .. MaxRecords : snapshot'.recs[i] = fixed[i]
      <4>1. snapshot'.recs \in Seq(Record) /\ DOMAIN snapshot'.recs = 1 .. MaxRecords
        <5>1. snapshot'.recs \in Seq(Record)
          BY DEF ListInv, ListTypes, ListTypeOK, Tables, Record
        <5> QED BY <3>7, <5>1
      <4>2. DOMAIN fixed = 1 .. Len(fixed) /\ Len(fixed) \in Nat /\ MaxRecords + 1 \in DOMAIN fixed
        BY <1>3, <3>3, <3>7
      <4>3. 1 .. MaxRecords \subseteq DOMAIN fixed
        BY <1>3, <3>7, <4>2
      <4>4. IsInjective(snapshot'.recs)
        BY <3>3, <3>7, <4>1, <4>3 DEF IsInjective
      <4>5. ToSet(snapshot'.recs) \subseteq ToSet(fixed)
        BY <3>7, <4>1, <4>3 DEF ToSet
      <4>6. fixed[MaxRecords + 1] \in ToSet(fixed) /\ fixed[MaxRecords + 1] \notin ToSet(snapshot'.recs)
        <5>1. ASSUME NEW i \in 1 .. MaxRecords PROVE fixed[i] # fixed[MaxRecords + 1]
          BY <1>3, <3>3, <4>2, <4>3 DEF IsInjective
        <5> QED BY <3>7, <4>1, <4>2, <5>1 DEF ToSet
      <4> QED BY <3>3, <4>4, <4>5, <4>6
    <3> QED BY <3>4, <3>6, <3>7
  <2> QED BY <2>1, <2>2
<1>5. ~ Walking /\ Taken' /\ truth' = TrueRecords /\ (Walking' <=> program # "PortView")
  BY <1>1, <1>2 DEF Walking, Taken
<1>6. TrueRecords' = TrueRecords /\ Recorded' = ToSet(snapshot'.recs)
  <2>1. Inspected' = Inspected /\ FixedRecords' = FixedRecords
    BY <1>1 DEF Inspected, FixedRecords
  <2> QED BY <1>1, <2>1, Zenon DEF TrueRecords, Recorded
<1>7. QuietWalk'
  <2> SUFFICES ASSUME Walking' PROVE QuietWalk'
    BY DEF QuietWalk
  <2>1. pc' = "ready" /\ cursor' = HeadOf(ready) /\ WalkedList' = ready /\ program # "PortView"
    BY <1>1, <1>5 DEF WalkedList
  <2>2. cursor' # Sentinel => cursor' \in ToSet(WalkedList')
    BY <1>2, <2>1, HeadIsFirst
  <2>3. \A r \in Recorded' : r.state # "wait" /\ r.state # "ready" /\ (program = "ResidentView" => r.state # "current")
    BY <1>4, <1>6 DEF TaskPrograms
  <2>4. \A i \in DOMAIN ready : Seen(ready[i], "ready") \notin Recorded'
    BY <2>3, SeenIs
  <2>5. (\A i, j \in DOMAIN WalkedList : WalkedList[j] = cursor /\ Seen(WalkedList[i], pc) \in Recorded => i < j)'
    BY <2>1, <2>4
  <2> QED BY <1>1, <1>5, <1>6, <2>1, <2>2, <2>3, <2>5 DEF QuietWalk
<1>8. QuietTable'
  <2>1. ~ Walking' /\ ~ snapshot'.truncated => TrueRecords \subseteq ToSet(snapshot'.recs)
    <3>1. ASSUME program = "PortView" PROVE \A r \in truth' : r.state = "fixed"
      BY <1>1, <3>1 DEF ListInv, ListTypes, Inspected
    <3> QED BY <1>5, <1>6, <3>1 DEF ListInv, FixedRecorded
  <2> QED BY <1>4, <1>5, <1>6, <2>1 DEF QuietTable
<1>9. WaitBefore' /\ ListPrinted'
  BY <1>1 DEF WaitBefore, ListPrinted
<1> QED BY <1>7, <1>8, <1>9 DEF QuietInv

(* The node the cursor is on has no record yet, and all before it have.    *)
LEMMA QuietVisit ==
  ASSUME ListInv, QuietInv, Visit
  PROVE  QuietInv'
<1>1. /\ Walking /\ cursor # Sentinel
      /\ pc' = pc /\ ready' = ready /\ wait' = wait /\ program' = program /\ nodes' = nodes
      /\ signalled' = signalled /\ truth' = truth
  BY DEF Visit, execVars
<1>2. ListTypes /\ Turned
  BY VisitTurns DEF ListInv
<1>3. Walking' /\ Taken' /\ Taken /\ pc \in {"ready", "wait"} /\ ListPrinted'
  BY <1>1 DEF Walking, Taken, ListPrinted
<1>4. CASE signalled
  BY <1>1, <1>3, <1>4 DEF QuietInv, QuietWalk, WaitBefore, QuietTable
<1>5. CASE ~ signalled
  <2> DEFINE list == WalkedList
             x == Seen(cursor, pc)
  <2>1. /\ truth = TrueRecords /\ cursor \in ToSet(list)
        /\ \A r \in Recorded : (pc = "ready" => r.state # "wait") /\ (program = "ResidentView" => r.state # "current")
        /\ \A i, j \in DOMAIN list : list[j] = cursor /\ Seen(list[i], pc) \in Recorded => i < j
        /\ Recorded \subseteq truth /\ IsInjective(snapshot.recs)
        /\ snapshot.truncated => truth \ Recorded # {}
    BY <1>1, <1>3, <1>5 DEF QuietInv, QuietWalk, QuietTable
  <2>2. TrueRecords' = TrueRecords /\ Recorded' = ToSet(snapshot'.recs) /\ WalkedList' = WalkedList
    <3>1. Inspected' = Inspected /\ FixedRecords' = FixedRecords
      BY <1>1 DEF Inspected, FixedRecords
    <3>2. WalkedList' = WalkedList
      BY <1>1 DEF WalkedList
    <3> QED BY <1>1, <3>1, <3>2, Zenon DEF TrueRecords, Recorded
  <2>3. /\ ready \in Seq(Task) /\ wait \in Seq(Task) /\ ToSet(ready) \intersect ToSet(wait) = {}
        /\ IsInjective(ready) /\ IsInjective(wait)
    BY <1>2 DEF ListTypes, ListTypeOK, ExecTypeOK
  <2>4. list \in Seq(Task) /\ IsInjective(list) /\ DOMAIN list = 1 .. Len(list) /\ Len(list) \in Nat
    BY <2>3 DEF WalkedList
  <2>5. \/ cursor \notin Inspected /\ snapshot' = snapshot
        \/ /\ cursor \in Inspected /\ ~ snapshot.truncated /\ ~ snapshot'.truncated
           /\ ToSet(snapshot'.recs) = Recorded \union {Seen(cursor, pc)}
           /\ IsInjective(snapshot.recs) /\ Seen(cursor, pc) \notin Recorded => IsInjective(snapshot'.recs)
        \/ cursor \in Inspected /\ snapshot'.truncated /\ snapshot'.recs = snapshot.recs
    BY <1>2 DEF Turned
  <2>6. \/ cursor' = Sentinel /\ snapshot'.truncated
        \/ \E k \in 1 .. Len(list) :
             /\ list[k] = cursor
             /\ \/ k = Len(list) /\ cursor' = Sentinel
                \/ k # Len(list) /\ k + 1 \in DOMAIN list /\ cursor' = list[k + 1] /\ cursor' \in ToSet(list)
    <3>1. CASE cursor' = Sentinel /\ snapshot'.truncated
      BY <3>1
    <3>2. CASE ~ (cursor' = Sentinel /\ snapshot'.truncated)
      <4>1. PICK l \in {ready, wait} :
              /\ l \in Seq(Task)
              /\ \E k \in 1 .. Len(l) :
                   /\ l[k] = cursor /\ (cursor \in ToSet(ready) => l = ready)
                   /\ \/ k = Len(l) /\ cursor' = Sentinel
                      \/ /\ k # Len(l) /\ k + 1 \in DOMAIN l /\ cursor' = l[k + 1] /\ cursor' \in ToSet(l)
        BY <1>2, <3>2, Zenon DEF Turned
      <4>2. cursor \in ToSet(l) /\ (cursor \in ToSet(ready) => l = ready)
        BY <4>1 DEF ToSet
      <4>3. l = list
        <5>1. CASE pc = "ready"
          BY <2>1, <4>2, <5>1 DEF WalkedList
        <5>2. CASE pc = "wait"
          BY <2>1, <2>3, <4>1, <4>2, <5>2 DEF WalkedList
        <5> QED BY <1>3, <5>1, <5>2
      <4> QED BY <4>1, <4>3
    <3> QED BY <3>1, <3>2
  <2>7. x.state = pc /\ x.address = cursor /\ x \notin Recorded /\ (cursor \in Inspected => x \in truth)
    <3>1. x.state = pc /\ x.address = cursor
      BY SeenIs
    <3>2. PICK k \in DOMAIN list : list[k] = cursor
      BY <2>1 DEF ToSet
    <3>3. x \notin Recorded
      BY <2>1, <2>4, <3>2
    <3>4. cursor \in Inspected => x \in truth
      BY <1>3, <2>1, InTruth DEF WalkedList
    <3> QED BY <3>1, <3>3, <3>4
  <2>8. /\ Recorded' \subseteq Recorded \union {x} /\ (cursor \notin Inspected => Recorded' = Recorded)
        /\ ~ snapshot'.truncated =>
             /\ ~ snapshot.truncated /\ Recorded \subseteq Recorded'
             /\ cursor \in Inspected => x \in Recorded'
    BY <2>2, <2>5 DEF Recorded
  <2>9. x = Seen(cursor, pc) /\ WalkedList = list
    OBVIOUS
  <2> HIDE DEF list, x
  <2>10. QuietTable'
    <3>1. Recorded' \subseteq truth
      BY <2>1, <2>7, <2>8
    <3>2. IsInjective(snapshot'.recs)
      BY <2>1, <2>5, <2>7, <2>9
    <3>3. snapshot'.truncated => truth \ Recorded' # {}
      BY <2>1, <2>2, <2>5, <2>7 DEF Recorded
    <3> QED BY <1>1, <1>3, <3>1, <3>2, <3>3 DEF QuietTable
  <2>11. ASSUME NEW i \in DOMAIN list, NEW j \in DOMAIN list, list[j] = cursor', Seen(list[i], pc) \in Recorded'
         PROVE  i < j
    <3>1. cursor' # Sentinel
      BY <2>4, <2>11, NodeAssumption
    <3>2. PICK k \in 1 .. Len(list) : list[k] = cursor /\ k + 1 \in DOMAIN list /\ cursor' = list[k + 1]
      BY <2>6, <3>1
    <3>3. j = k + 1 /\ i \in 1 .. Len(list)
      BY <2>4, <2>11, <3>2 DEF IsInjective
    <3>4. CASE Seen(list[i], pc) \in Recorded
      <4>1. i < k
        BY <2>1, <2>4, <2>9, <3>2, <3>4
      <4> QED BY <2>4, <3>2, <3>3, <4>1
    <3>5. CASE Seen(list[i], pc) = x
      <4>1. list[i] = cursor
        <5>1. Seen(list[i], pc).address = list[i]
          BY SeenIs, Zenon
        <5> QED BY <2>7, <3>5, <5>1
      <4>2. i = k
        BY <2>4, <3>2, <3>3, <4>1 DEF IsInjective
      <4> QED BY <2>4, <3>2, <3>3, <4>2
    <3> QED BY <2>8, <2>11, <3>4, <3>5
  <2>12. QuietWalk'
    <3>1. cursor' # Sentinel => cursor' \in ToSet(list)
      BY <1>2, <2>6 DEF Turned
    <3>2. \A r \in Recorded' : (pc = "ready" => r.state # "wait") /\ (program = "ResidentView" => r.state # "current")
      BY <1>3, <2>1, <2>7, <2>8
    <3>3. (\A i, j \in DOMAIN WalkedList : WalkedList[j] = cursor /\ Seen(WalkedList[i], pc) \in Recorded => i < j)'
      BY <1>1, <2>2, <2>9, <2>11
    <3> QED BY <1>1, <2>1, <2>2, <2>9, <3>1, <3>2, <3>3 DEF QuietWalk
  <2>13. WaitBefore'
    <3> SUFFICES ASSUME pc = "wait", ~ snapshot'.truncated PROVE WaitBefore'
      BY <1>1 DEF WaitBefore
    <3>1. list = wait
      BY <2>9 DEF WalkedList
    <3>2. \A i, j \in DOMAIN wait :
            wait[j] = cursor /\ i < j /\ Seen(wait[i], "wait") \in truth => Seen(wait[i], "wait") \in Recorded
      BY <1>1, <1>5, <2>8 DEF QuietInv, WaitBefore
    <3>3. PICK k \in 1 .. Len(list) :
            /\ list[k] = cursor
            /\ \/ k = Len(list) /\ cursor' = Sentinel
               \/ k # Len(list) /\ k + 1 \in DOMAIN list /\ cursor' = list[k + 1]
      BY <2>6
    <3>4. ASSUME NEW i \in DOMAIN wait, i <= k, Seen(wait[i], "wait") \in truth
          PROVE  Seen(wait[i], "wait") \in Recorded'
      <4>1. CASE i < k
        BY <2>4, <2>8, <3>1, <3>2, <3>3, <3>4, <4>1
      <4>2. CASE i = k
        <5>1. Seen(wait[i], "wait") = x
          BY <2>9, <3>1, <3>3, <4>2
        <5>2. cursor \in Inspected
          BY <1>2, <2>7, <3>4, <5>1 DEF ListTypes
        <5> QED BY <2>8, <5>1, <5>2
      <4>3. k \in 1 .. Len(wait) /\ i \in 1 .. Len(wait) /\ i <= k
        BY <2>4, <3>1, <3>3, <3>4
      <4>4. i < k \/ i = k
        BY <2>4, <3>1, <4>3
      <4> QED BY <4>1, <4>2, <4>4
    <3>5. cursor' = Sentinel => \A i \in DOMAIN wait : i <= k
      BY <2>4, <3>1, <3>3, NodeAssumption
    <3>6. \A i, j \in DOMAIN wait : wait[j] = cursor' /\ i < j => i <= k
      <4> SUFFICES ASSUME NEW i \in DOMAIN wait, NEW j \in DOMAIN wait, wait[j] = cursor', i < j PROVE i <= k
        OBVIOUS
      <4>1. cursor' # Sentinel
        BY <2>4, <3>1, NodeAssumption
      <4>2. j = k + 1
        BY <2>4, <3>1, <3>3, <4>1 DEF IsInjective
      <4>3. k \in 1 .. Len(wait) /\ i \in 1 .. Len(wait) /\ i < j
        BY <2>4, <3>1, <3>3
      <4> QED BY <2>4, <3>1, <4>2, <4>3
    <3> QED BY <1>1, <3>4, <3>5, <3>6 DEF WaitBefore
  <2> QED BY <1>3, <2>10, <2>12, <2>13 DEF QuietInv
<1> QED BY <1>4, <1>5

LEMMA QuietEndOfList ==
  ASSUME ListInv, QuietInv, EndOfList, ListInv'
  PROVE  QuietInv'
<1>1. /\ Walking /\ cursor = Sentinel /\ Taken /\ Taken' /\ pc \in {"ready", "wait"} /\ pc' \in {"wait", "print"}
      /\ ready' = ready /\ wait' = wait /\ program' = program /\ nodes' = nodes
      /\ signalled' = signalled /\ truth' = truth
  BY DEF EndOfList, execVars, Walking, Taken
<1>2. \/ /\ pc = "ready" /\ ~ (program \in TaskPrograms /\ snapshot.truncated)
         /\ pc' = "wait" /\ cursor' = HeadOf(wait) /\ snapshot' = snapshot
      \/ /\ pc = "wait" \/ (program \in TaskPrograms /\ snapshot.truncated)
         /\ pc' = "print" /\ cursor' = cursor
         /\ snapshot' = IF program = "ResidentView" THEN AddSeen(Self, "current") ELSE snapshot
  BY Zenon DEF EndOfList
<1>3. ListPrinted'
  BY <1>1 DEF ListPrinted
<1>4. CASE signalled
  BY <1>1, <1>3, <1>4 DEF QuietInv, QuietWalk, WaitBefore, QuietTable
<1>5. CASE ~ signalled
  <2>1. /\ truth = TrueRecords /\ Recorded \subseteq truth /\ IsInjective(snapshot.recs)
        /\ snapshot.truncated => truth \ Recorded # {}
        /\ \A r \in Recorded : (pc = "ready" => r.state # "wait") /\ (program = "ResidentView" => r.state # "current")
        /\ pc = "wait" /\ ~ snapshot.truncated =>
             \A i \in DOMAIN wait : Seen(wait[i], "wait") \in truth => Seen(wait[i], "wait") \in Recorded
    BY <1>1, <1>5 DEF QuietInv, QuietWalk, QuietTable, WaitBefore
  <2>2. TrueRecords' = TrueRecords /\ Recorded' = ToSet(snapshot'.recs)
    <3>1. Inspected' = Inspected /\ FixedRecords' = FixedRecords
      BY <1>1 DEF Inspected, FixedRecords
    <3> QED BY <1>1, <3>1, Zenon DEF TrueRecords, Recorded
  <2>3. /\ ListTypes /\ ListTypeOK /\ ExecTypeOK /\ wait \in Seq(Task) /\ DOMAIN wait = 1 .. Len(wait)
        /\ snapshot \in Tables(Record, MaxRecords) /\ (snapshot.truncated => Len(snapshot.recs) = MaxRecords)
        /\ nodes \in Seq(Fixed) /\ IsInjective(nodes)
    BY DEF ListInv, ListTypes, ListTypeOK, ExecTypeOK
  <2>4. CASE pc' = "wait" /\ cursor' = HeadOf(wait) /\ snapshot' = snapshot /\ pc = "ready"
    <3>1. Recorded' = Recorded /\ WalkedList' = wait
      BY <1>1, <2>2, <2>4 DEF WalkedList, Recorded
    <3>2. \A i \in DOMAIN wait : Seen(wait[i], "wait") \notin Recorded
      BY <2>1, <2>4, SeenIs
    <3>3. cursor' # Sentinel => cursor' \in ToSet(wait)
      BY <2>3, <2>4, HeadIsFirst
    <3>4. QuietTable'
      BY <1>1, <2>1, <2>4, <3>1 DEF QuietTable, Walking
    <3>5. QuietWalk'
      <4>1. (\A i, j \in DOMAIN WalkedList : WalkedList[j] = cursor /\ Seen(WalkedList[i], pc) \in Recorded => i < j)'
        BY <2>4, <3>1, <3>2
      <4> QED BY <1>1, <2>1, <2>2, <2>4, <3>1, <3>3, <4>1 DEF QuietWalk
    <3>6. WaitBefore'
      <4>1. CASE wait = << >>
        BY <1>1, <4>1 DEF WaitBefore
      <4>2. CASE wait # << >>
        <5>1. cursor' = wait[1] /\ 1 \in DOMAIN wait /\ cursor' # Sentinel
          BY <2>3, <2>4, <4>2, HeadIsFirst, NodeAssumption
        <5>2. \A i, j \in DOMAIN wait : wait[j] = cursor' /\ i < j => FALSE
          BY <2>3, <5>1 DEF ExecTypeOK, IsInjective
        <5> QED BY <1>1, <5>1, <5>2 DEF WaitBefore
      <4> QED BY <4>1, <4>2
    <3> QED BY <1>3, <3>4, <3>5, <3>6 DEF QuietInv
  <2>5. CASE pc' = "print" /\ (pc = "wait" \/ (program \in TaskPrograms /\ snapshot.truncated))
    <3>1. ~ Walking' /\ pc' # "wait"
      BY <2>5 DEF Walking
    <3>2. /\ IsInjective(snapshot'.recs) /\ ToSet(snapshot'.recs) \subseteq truth
          /\ snapshot'.truncated => truth \ ToSet(snapshot'.recs) # {}
          /\ ~ snapshot'.truncated => ~ snapshot.truncated /\ Recorded \subseteq ToSet(snapshot'.recs)
      <4>1. CASE program # "ResidentView"
        BY <1>2, <2>1, <2>5, <4>1 DEF Recorded
      <4>2. CASE program = "ResidentView"
        <5>1. /\ snapshot' = AddSeen(Self, "current") /\ "current" \in TaskStates /\ Self \in Task \union {Self}
              /\ Self \in Inspected
          BY <1>2, <2>5, <4>2 DEF TaskStates, Inspected
        <5>2. \/ /\ ~ snapshot.truncated /\ ~ snapshot'.truncated
                 /\ ToSet(snapshot'.recs) = Recorded \union {Seen(Self, "current")}
                 /\ IsInjective(snapshot.recs) /\ Seen(Self, "current") \notin Recorded => IsInjective(snapshot'.recs)
              \/ snapshot'.truncated /\ snapshot'.recs = snapshot.recs
          BY <2>3, <5>1, OneMoreSeen
        <5>3. Seen(Self, "current") \in truth /\ Seen(Self, "current") \notin Recorded
          <6>1. Seen(Self, "current").state = "current"
            BY SeenIs, Zenon
          <6> QED BY <2>1, <4>2, <5>1, <6>1, InTruth
        <5> QED BY <2>1, <5>2, <5>3 DEF Recorded
      <4> QED BY <4>1, <4>2
    <3>3. ASSUME ~ snapshot'.truncated, NEW r \in truth PROVE r \in ToSet(snapshot'.recs)
      <4>1. \/ r.state = "fixed"
            \/ r.state = "current"
            \/ r.state = "ready"
            \/ r.state = "wait" /\ \E t \in ToSet(wait) : r = Seen(t, "wait")
        BY <2>1, <2>3, <3>3, TruthIs
      <4>2. CASE r.state \in {"fixed", "current"}
        <5>1. r \in Recorded'
          BY <1>1, <3>1, <3>3, <4>2 DEF ListInv, FixedRecorded
        <5> QED BY <2>2, <5>1
      <4>3. CASE r.state = "ready"
        <5>1. r \in Recorded'
          BY <1>1, <2>5, <3>3, <4>3 DEF ListInv, ReadyRecorded
        <5> QED BY <2>2, <5>1
      <4>4. CASE r.state = "wait" /\ \E t \in ToSet(wait) : r = Seen(t, "wait")
        <5>1. PICK i \in DOMAIN wait : r = Seen(wait[i], "wait")
          BY <4>4 DEF ToSet
        <5>2. pc = "wait" /\ ~ snapshot.truncated
          BY <2>5, <3>2, <3>3
        <5> QED BY <2>1, <3>2, <3>3, <5>1, <5>2
      <4> QED BY <4>1, <4>2, <4>3, <4>4
    <3>4. QuietTable'
      BY <1>1, <2>2, <3>1, <3>2, <3>3 DEF QuietTable
    <3> QED BY <1>3, <3>1, <3>4 DEF QuietInv, QuietWalk, WaitBefore
  <2> QED BY <1>2, <2>4, <2>5
<1> QED BY <1>4, <1>5

LEMMA QuietReport ==
  ASSUME ListInv, QuietInv, Report
  PROVE  QuietInv'
<1> DEFINE asked == {r \in Record : Matches(r)}
<1>1. /\ pc = "print" /\ pc' = "exit" /\ out' = Selected(snapshot.recs, asked)
      /\ rc' = IF snapshot.truncated THEN 5 ELSE 0
      /\ program' = program /\ snapshot' = snapshot /\ signalled' = signalled /\ wanted' = wanted /\ truth' = truth
  BY DEF Report, execVars
<1>2. snapshot.recs \in Seq(Record)
  BY DEF ListInv, ListTypes, ListTypeOK, Tables
<1>3. {r \in Record : Matches(r)}' = asked
  BY <1>1 DEF Matches, Record
<1> HIDE DEF asked
<1>4. /\ ToSet(out') = ToSet(snapshot.recs) \intersect asked
      /\ IsInjective(snapshot.recs) => IsInjective(out')
  BY <1>1, <1>2, SelectedElements, ZenonT(60)
<1>5. Taken /\ Taken' /\ ~ Walking' /\ ~ Walking /\ Recorded' = Recorded
  BY <1>1 DEF Taken, Walking, Recorded
<1>6. QuietWalk' /\ WaitBefore' /\ QuietTable'
  BY <1>1, <1>5 DEF QuietInv, QuietWalk, WaitBefore, QuietTable
<1>7. ListPrinted'
  BY <1>1, <1>3, <1>4, <1>5 DEF ListPrinted, Recorded
<1> QED BY <1>6, <1>7 DEF QuietInv

LEMMA StepQuiet ==
  ASSUME ListInv, QuietInv, ListNext \/ UNCHANGED <<program, pc, rc, ListVars>>
  PROVE  QuietInv'
<1>1. CASE Start
  BY <1>1, QuietStart
<1>2. CASE Forbid
  BY <1>2, QuietForbid, ListForbid
<1>3. CASE Visit
  BY <1>3, QuietVisit
<1>4. CASE EndOfList
  BY <1>4, QuietEndOfList, ListEndOfList
<1>5. CASE Report
  BY <1>5, QuietReport
<1>6. CASE Environment
  <2>1. /\ pc' = pc /\ (pc = "forbid" \/ (Walking /\ signalled' = Walking))
    BY <1>6 DEF Environment
  <2>2. CASE pc = "forbid"
    BY <2>1, <2>2 DEF QuietInv, QuietWalk, WaitBefore, QuietTable, ListPrinted, Taken, Walking
  <2>3. CASE Walking /\ signalled' = Walking
    <3>1. signalled' /\ pc' # "exit"
      BY <2>1, <2>3 DEF Walking
    <3> QED BY <3>1 DEF QuietInv, QuietWalk, WaitBefore, QuietTable, ListPrinted
  <2> QED BY <2>1, <2>2, <2>3
<1>7. CASE UNCHANGED <<program, pc, rc, ListVars>>
  <2>1. /\ pc' = pc /\ program' = program /\ ready' = ready /\ wait' = wait /\ nodes' = nodes /\ wanted' = wanted
        /\ snapshot' = snapshot /\ cursor' = cursor /\ out' = out /\ rc' = rc /\ signalled' = signalled
        /\ truth' = truth
    BY <1>7 DEF ListVars, execVars
  <2>2. /\ Taken' = Taken /\ Walking' = Walking /\ Inspected' = Inspected /\ FixedRecords' = FixedRecords
        /\ Recorded' = Recorded /\ WalkedList' = WalkedList
    BY <2>1 DEF Taken, Walking, Inspected, FixedRecords, Recorded, WalkedList
  <2>3. TrueRecords' = TrueRecords
    BY <2>1, <2>2, Zenon DEF TrueRecords
  <2>4. {r \in Record : Matches(r)}' = {r \in Record : Matches(r)}
    BY <2>1 DEF Matches, Record
  <2>5. QuietWalk' /\ WaitBefore'
    BY <2>1, <2>2, <2>3 DEF QuietInv, QuietWalk, WaitBefore
  <2>6. QuietTable'
    BY <2>1, <2>2 DEF QuietInv, QuietTable
  <2>7. ListPrinted'
    BY <2>1, <2>2, <2>4 DEF QuietInv, ListPrinted
  <2> QED BY <2>5, <2>6, <2>7 DEF QuietInv
<1> QED BY <1>1, <1>2, <1>3, <1>4, <1>5, <1>6, <1>7 DEF ListNext, ListTool

(* What the properties say of a program that reads the lists.              *)
LEMMA ListsAreRight ==
  ASSUME ListInv, QuietInv
  PROVE  ListTypeOK /\ QuietListIsExact /\ ListWarningIsEarned /\ ReadyNeverMissed
<1>1. ListTypeOK
  BY DEF ListInv, ListTypes
<1>2. QuietListIsExact
  <2> SUFFICES ASSUME pc = "exit", rc = 0, ~ signalled
               PROVE  ToSet(out) = {r \in truth : Matches(r)} /\ IsInjective(out)
    BY DEF QuietListIsExact
  <2>1. Taken /\ ~ Walking
    BY DEF Taken, Walking
  <2>2. /\ ~ snapshot.truncated /\ ToSet(out) = Recorded \intersect {r \in Record : Matches(r)}
        /\ IsInjective(snapshot.recs) => IsInjective(out)
    BY DEF QuietInv, ListPrinted
  <2>3. Recorded = truth /\ truth \subseteq Record /\ IsInjective(snapshot.recs)
    BY <2>1, <2>2 DEF QuietInv, QuietTable, ListInv, ListTypes
  <2> QED BY <2>2, <2>3
<1>3. ListWarningIsEarned
  <2> SUFFICES ASSUME pc = "exit", rc = 5, ~ signalled PROVE truth \ ToSet(snapshot.recs) # {}
    BY DEF ListWarningIsEarned
  <2>1. Taken /\ snapshot.truncated
    BY DEF Taken, QuietInv, ListPrinted
  <2> QED BY <2>1 DEF QuietInv, QuietTable, Recorded
<1>4. ReadyNeverMissed
  <2> SUFFICES ASSUME pc \in {"print", "exit"}, ~ snapshot.truncated, NEW r \in truth, r.state # "wait"
               PROVE  r \in Recorded
    BY DEF ReadyNeverMissed, Recorded
  <2>1. Taken /\ ~ Walking
    BY DEF ListInv, ListTypes, Taken, Walking
  <2>2. r.state \in {"fixed", "current", "ready"}
    BY DEF ListInv, ListTypes, Record, TaskStates
  <2> QED BY <2>1, <2>2 DEF ListInv, FixedRecorded, ReadyRecorded
<1> QED BY <1>1, <1>2, <1>3, <1>4
-----------------------------------------------------------------------------
(* snapshot and compare: of a file nobody wrote to while an inventory was  *)
(* taken, the inventory has, or will have, what the tree held when it was  *)
(* begun.                                                                  *)
Path == ToSet(TreePaths)
Recd(c) == [size |-> SizeOf[c], sha256 |-> c]
Looking == pc \in {"stat", "hash"}

Agree(f, g, p) == (p \in DOMAIN f <=> p \in DOMAIN g) /\ (p \in DOMAIN f => f[p] = g[p])

TreeTypes ==
  /\ pc \in {"start", "stat", "hash", "exit"} /\ rc \in {0, 1} /\ (pc # "exit" => rc = 0)
  /\ phase \in {"pre", "post", "compare"} /\ (Looking => phase # "compare")
  /\ tree \in Trees!Trees /\ touched \subseteq Path /\ writes \in 0 .. MaxWrites
  /\ names \in Seq(Path) /\ DOMAIN result \subseteq Path
  /\ DOMAIN began = {"pre", "post"} /\ DOMAIN snapshots = {"pre", "post"}
  /\ \A ph \in {"pre", "post"} : began[ph] \in Trees!Trees

LookedRight ==
  Looking =>
    /\ ToSet(names) \union DOMAIN result = DOMAIN began[phase]
    /\ \A p \in Path \ touched : Agree(tree, began[phase], p)
    /\ \A p \in DOMAIN result \ touched : result[p] = Recd(began[phase][p])
    /\ pc = "hash" => names # << >>
    /\ pc = "hash" /\ Head(names) \notin touched => st_size = SizeOf[began[phase][Head(names)]]

SavedRight(ph) ==
  /\ DOMAIN snapshots[ph] = DOMAIN began[ph]
  /\ \A p \in DOMAIN began[ph] \ touched : snapshots[ph][p] = Recd(began[ph][p])

ComparedRight ==
  /\ pc = "exit" /\ rc = 0 => phase = "compare" /\ diff = Trees!CompareTree(snapshots.pre, snapshots.post)
  /\ pc = "exit" /\ rc = 1 => touched # {}

TreeInv ==
  /\ TreeTypes /\ LookedRight /\ ComparedRight
  /\ phase # "pre" => SavedRight("pre")
  /\ phase = "compare" => SavedRight("post")

LEMMA TreesAre ==
  /\ Trees!Path = Path
  /\ \A f : f \in Trees!Trees <=> /\ DOMAIN f \subseteq Path /\ f = [p \in DOMAIN f |-> f[p]]
                                  /\ \A p \in DOMAIN f : f[p] \in TreeContent
<1>1. Trees!Path = Path
  BY DEF Trees!Path, Path, ToSet
<1>2. ASSUME NEW f, f \in Trees!Trees
      PROVE  /\ DOMAIN f \subseteq Path /\ f = [p \in DOMAIN f |-> f[p]]
             /\ \A p \in DOMAIN f : f[p] \in TreeContent
  BY <1>1, <1>2 DEF Trees!Trees
<1>3. ASSUME NEW f, DOMAIN f \subseteq Path, f = [p \in DOMAIN f |-> f[p]],
             \A p \in DOMAIN f : f[p] \in TreeContent
      PROVE  f \in Trees!Trees
  <2>1. f \in [DOMAIN f -> TreeContent]
    BY <1>3
  <2>2. DOMAIN f \in SUBSET Trees!Path
    BY <1>1, <1>3
  <2> QED BY <2>1, <2>2 DEF Trees!Trees
<1> QED BY <1>1, <1>2, <1>3

LEMMA InitTree == ASSUME Trees!DiffInit PROVE TreeInv
<1>1. /\ pc = "start" /\ rc = 0 /\ tree \in Trees!Trees /\ phase = "pre" /\ names = << >>
      /\ result = << >> /\ snapshots = [pre |-> << >>, post |-> << >>]
      /\ began = [pre |-> << >>, post |-> << >>] /\ touched = {} /\ writes = 0
  BY DEF Trees!DiffInit, Trees!Nothing
<1>2. << >> \in Trees!Trees
  <2>1. DOMAIN << >> = {} /\ << >> = [p \in {} |-> p]
    OBVIOUS
  <2> QED BY <2>1, TreesAre
<1>3. DOMAIN began = {"pre", "post"} /\ began["pre"] = << >> /\ began["post"] = << >>
  BY <1>1
<1>4. DOMAIN snapshots = {"pre", "post"} /\ names \in Seq(Path) /\ DOMAIN result = {}
  BY <1>1
<1>5. writes \in 0 .. MaxWrites
  BY <1>1, TreeAssumption
<1>6. TreeTypes
  BY <1>1, <1>2, <1>3, <1>4, <1>5 DEF TreeTypes, Looking
<1> QED BY <1>1, <1>6 DEF TreeInv, LookedRight, ComparedRight, Looking

(* What was kept of an inventory stays right while nothing of it changes.  *)
LEMMA SavedStays ==
  ASSUME NEW ph, SavedRight(ph), snapshots'[ph] = snapshots[ph], began'[ph] = began[ph],
         touched \subseteq touched'
  PROVE  SavedRight(ph)'
BY DEF SavedRight, Recd

LEMMA TreeListed ==
  ASSUME TreeInv, Trees!ListTree
  PROVE  TreeInv'
<1>1. /\ pc = "start" /\ phase # "compare" /\ names' = Trees!Selected(TreePaths, DOMAIN tree)
      /\ began' = [began EXCEPT ![phase] = tree] /\ result' = << >> /\ pc' = "stat"
      /\ rc' = rc /\ tree' = tree /\ phase' = phase /\ snapshots' = snapshots /\ diff' = diff
      /\ touched' = touched /\ writes' = writes
  BY DEF Trees!ListTree, Trees!Nothing
<1>2. phase \in {"pre", "post"} /\ TreeTypes /\ DOMAIN tree \subseteq Path /\ tree \in Trees!Trees
  BY <1>1, TreesAre DEF TreeInv, TreeTypes
<1>3. /\ DOMAIN began' = {"pre", "post"} /\ began'[phase] = tree
      /\ \A ph \in {"pre", "post"} : ph # phase => began'[ph] = began[ph]
  BY <1>1, <1>2 DEF TreeTypes
<1>4. names' \in Seq(Path) /\ ToSet(names') = DOMAIN tree
  <2>1. names' = Selected(TreePaths, DOMAIN tree)
    BY <1>1 DEF Trees!Selected, Trees!Selections, Selected, Selections
  <2>2. TreePaths \in Seq(Path)
    BY TreeAssumption DEF Path
  <2>3. names' \in Seq(Path) /\ ToSet(names') = ToSet(TreePaths) \intersect DOMAIN tree
    BY <2>1, <2>2, SelectedElements, Zenon
  <2> QED BY <1>2, <2>3 DEF Path
<1>5. DOMAIN result' = {}
  BY <1>1
<1>6. TreeTypes'
  <2>1. \A ph \in {"pre", "post"} : began'[ph] \in Trees!Trees
    BY <1>2, <1>3 DEF TreeTypes
  <2>2. Trees!Trees' = Trees!Trees /\ Path' = Path
    BY DEF Trees!Trees, Trees!Path, Path
  <2> QED BY <1>1, <1>2, <1>3, <1>4, <1>5, <2>1, <2>2 DEF TreeTypes, Looking
<1>7. LookedRight'
  <2>1. \A p \in Path \ touched' : Agree(tree', began'[phase'], p)
    BY <1>1, <1>3 DEF Agree
  <2>2. ToSet(names') \union DOMAIN result' = DOMAIN began'[phase']
    BY <1>1, <1>3, <1>4, <1>5
  <2> QED BY <1>1, <1>5, <2>1, <2>2 DEF LookedRight
<1>8. phase' # "pre" => SavedRight("pre")'
  BY <1>1, <1>2, <1>3, SavedStays DEF TreeInv
<1>9. ComparedRight'
  BY <1>1 DEF ComparedRight
<1> QED BY <1>1, <1>6, <1>7, <1>8, <1>9 DEF TreeInv

LEMMA TreeLooked ==
  ASSUME TreeInv, Trees!Stat \/ Trees!Hash
  PROVE  TreeInv'
<1> DEFINE h == Head(names)
<1>1. /\ Looking /\ names # << >> /\ phase \in {"pre", "post"}
      /\ tree' = tree /\ phase' = phase /\ snapshots' = snapshots /\ diff' = diff
      /\ touched' = touched /\ writes' = writes /\ began' = began
  BY DEF Trees!Stat, Trees!Hash, TreeInv, TreeTypes, LookedRight, Looking
<1>2. /\ TreeTypes /\ DOMAIN began[phase] \subseteq Path
      /\ h \in ToSet(names) /\ h \in Path /\ h \in DOMAIN began[phase]
      /\ Tail(names) \in Seq(Path) /\ ToSet(names) = {h} \union ToSet(Tail(names))
  <2>1. TreeTypes /\ names \in Seq(Path) /\ began[phase] \in Trees!Trees
    BY <1>1 DEF TreeInv, TreeTypes
  <2>2. /\ h \in Path /\ Tail(names) \in Seq(Path) /\ h = names[1] /\ Len(names) \in Nat /\ Len(names) >= 1
        /\ DOMAIN names = 1 .. Len(names) /\ DOMAIN Tail(names) = 1 .. Len(names) - 1
        /\ \A i \in 1 .. Len(names) - 1 : Tail(names)[i] = names[i + 1]
    BY <1>1, <2>1
  <2>3. h \in ToSet(names)
    BY <2>2 DEF ToSet
  <2>4. ToSet(names) = {h} \union ToSet(Tail(names))
    <3>1. ASSUME NEW i \in DOMAIN names, i # 1 PROVE names[i] \in ToSet(Tail(names))
      <4>1. i - 1 \in DOMAIN Tail(names) /\ Tail(names)[i - 1] = names[i]
        BY <2>2, <3>1
      <4> QED BY <4>1 DEF ToSet
    <3>2. ASSUME NEW i \in DOMAIN Tail(names) PROVE Tail(names)[i] \in ToSet(names)
      <4>1. i + 1 \in DOMAIN names /\ Tail(names)[i] = names[i + 1]
        BY <2>2
      <4> QED BY <4>1 DEF ToSet
    <3>3. \A x \in ToSet(names) : x = h \/ x \in ToSet(Tail(names))
      BY <2>2, <3>1 DEF ToSet
    <3>4. \A x \in ToSet(Tail(names)) : x \in ToSet(names)
      BY <3>2 DEF ToSet
    <3> QED BY <2>3, <3>3, <3>4
  <2>5. h \in DOMAIN began[phase]
    BY <1>1, <2>3 DEF TreeInv, LookedRight
  <2> QED BY <2>1, <2>2, <2>3, <2>4, <2>5, TreesAre
<1>3. h \notin touched => h \in DOMAIN tree /\ tree[h] = began[phase][h]
  BY <1>1, <1>2 DEF TreeInv, LookedRight, Agree
<1> HIDE DEF h
<1>4. (phase # "pre" => SavedRight("pre")') /\ (phase = "compare" => SavedRight("post")')
  BY <1>1, SavedStays DEF TreeInv
<1>5. Trees!Trees' = Trees!Trees /\ Path' = Path
  BY DEF Trees!Trees, Trees!Path, Path
<1>6. CASE pc' = "exit" /\ rc' = 1 /\ h \notin DOMAIN tree /\ names' = names /\ result' = result
  <2>1. ~ Looking' /\ h \in touched
    BY <1>3, <1>6 DEF Looking
  <2>2. TreeTypes'
    BY <1>1, <1>2, <1>5, <1>6 DEF TreeTypes, Looking
  <2> QED BY <1>1, <1>4, <1>6, <2>1, <2>2 DEF TreeInv, LookedRight, ComparedRight
<1>7. CASE Trees!Stat /\ h \in DOMAIN tree
  <2>1. /\ pc' = "hash" /\ rc' = rc /\ st_size' = SizeOf[tree[h]] /\ names' = names /\ result' = result
        /\ pc = "stat"
    BY <1>7 DEF Trees!Stat, h
  <2>2. TreeTypes'
    BY <1>1, <1>2, <1>5, <2>1 DEF TreeTypes, Looking
  <2>3. LookedRight'
    <3>1. h \notin touched => st_size' = SizeOf[began[phase][h]]
      BY <1>3, <2>1
    <3> QED BY <1>1, <1>5, <2>1, <3>1 DEF TreeInv, LookedRight, Agree, Recd, Looking, h
  <2> QED BY <1>1, <1>4, <2>1, <2>2, <2>3 DEF TreeInv, ComparedRight
<1>8. CASE Trees!Hash /\ h \in DOMAIN tree
  <2> DEFINE r == [size |-> st_size, sha256 |-> tree[h]]
  <2>1. /\ pc' = "stat" /\ rc' = rc /\ names' = Tail(names) /\ pc = "hash"
        /\ result' = Trees!Updated(result, h, r)
    BY <1>8 DEF Trees!Hash, h
  <2>2. h \notin touched => r = Recd(began[phase][h])
    <3>1. h \notin touched => st_size = SizeOf[began[phase][h]]
      BY <1>1, <2>1 DEF TreeInv, LookedRight, h
    <3> QED BY <1>3, <3>1 DEF Recd
  <2> HIDE DEF r
  <2>3. /\ DOMAIN result' = DOMAIN result \union {h} /\ result'[h] = r
        /\ \A p \in DOMAIN result : p # h => result'[p] = result[p]
    BY <2>1 DEF Trees!Updated
  <2>4. TreeTypes'
    BY <1>1, <1>2, <1>5, <2>1, <2>3 DEF TreeTypes, Looking
  <2>5. LookedRight'
    <3>1. ToSet(names') \union DOMAIN result' = DOMAIN began[phase]
      BY <1>1, <1>2, <2>1, <2>3 DEF TreeInv, LookedRight
    <3>2. \A p \in DOMAIN result' \ touched : result'[p] = Recd(began[phase][p])
      BY <1>1, <2>2, <2>3 DEF TreeInv, LookedRight
    <3>3. \A p \in Path \ touched : Agree(tree, began[phase], p)
      BY <1>1 DEF TreeInv, LookedRight
    <3>4. Recd(began[phase][h])' = Recd(began[phase][h])' /\ pc' # "hash"
      BY <2>1
    <3> QED BY <1>1, <1>5, <3>1, <3>2, <3>3, <3>4 DEF LookedRight, Agree, Recd
  <2> QED BY <1>1, <1>4, <2>1, <2>4, <2>5 DEF TreeInv, ComparedRight
<1> QED BY <1>6, <1>7, <1>8 DEF Trees!Stat, Trees!Hash, Trees!Vanished, h

LEMMA TreeSaved ==
  ASSUME TreeInv, Trees!Save
  PROVE  TreeInv'
<1>1. /\ pc = "stat" /\ names = << >> /\ snapshots' = [snapshots EXCEPT ![phase] = result]
      /\ phase' = IF phase = "pre" THEN "post" ELSE "compare"
      /\ pc' = "start" /\ rc' = rc /\ tree' = tree /\ names' = names /\ result' = result
      /\ began' = began /\ touched' = touched /\ writes' = writes
  BY DEF Trees!Save
<1>2. /\ phase \in {"pre", "post"} /\ TreeTypes /\ rc = 0
      /\ DOMAIN snapshots = {"pre", "post"}
  BY <1>1 DEF TreeInv, TreeTypes, Looking
<1>3. /\ DOMAIN snapshots' = {"pre", "post"} /\ snapshots'[phase] = result
      /\ \A ph \in {"pre", "post"} : ph # phase => snapshots'[ph] = snapshots[ph]
  BY <1>1, <1>2
<1>4. ToSet(names) = {}
  BY <1>1 DEF ToSet
<1>5. SavedRight(phase)' <=> /\ DOMAIN snapshots'[phase'] = DOMAIN began'[phase']
                             /\ \A p \in DOMAIN began'[phase'] \ touched' : snapshots'[phase'][p] = Recd(began'[phase'][p])
  BY DEF SavedRight, Recd
<1>6. /\ DOMAIN result = DOMAIN began[phase]
      /\ \A p \in DOMAIN result \ touched : result[p] = Recd(began[phase][p])
  BY <1>1, <1>4 DEF TreeInv, LookedRight, Looking
<1>7. Trees!Trees' = Trees!Trees /\ Path' = Path
  BY DEF Trees!Trees, Trees!Path, Path
<1>8. TreeTypes'
  BY <1>1, <1>2, <1>3, <1>7 DEF TreeTypes, Looking
<1>9. phase' # "pre" => SavedRight("pre")'
  <2>1. CASE phase = "pre"
    BY <1>1, <1>3, <1>6, <2>1 DEF SavedRight, Recd
  <2>2. CASE phase = "post"
    BY <1>1, <1>3, <2>2, SavedStays DEF TreeInv
  <2> QED BY <1>2, <2>1, <2>2
<1>10. phase' = "compare" => SavedRight("post")'
  BY <1>1, <1>2, <1>3, <1>6 DEF SavedRight, Recd
<1>11. LookedRight' /\ ComparedRight'
  BY <1>1 DEF LookedRight, ComparedRight, Looking
<1> QED BY <1>8, <1>9, <1>10, <1>11 DEF TreeInv

LEMMA TreeCompared ==
  ASSUME TreeInv, Trees!Compare
  PROVE  TreeInv'
<1>1. /\ pc = "start" /\ phase = "compare" /\ diff' = Trees!CompareTree(snapshots.pre, snapshots.post)
      /\ pc' = "exit" /\ rc' = rc /\ tree' = tree /\ phase' = phase /\ names' = names /\ result' = result
      /\ snapshots' = snapshots /\ began' = began /\ touched' = touched /\ writes' = writes
  BY DEF Trees!Compare
<1>2. Trees!Trees' = Trees!Trees /\ Path' = Path
  BY DEF Trees!Trees, Trees!Path, Path
<1>3. TreeTypes /\ rc = 0
  BY <1>1 DEF TreeInv, TreeTypes
<1>4. TreeTypes'
  BY <1>1, <1>2, <1>3 DEF TreeTypes, Looking
<1>5. LookedRight'
  BY <1>1 DEF LookedRight, Looking
<1>6. ComparedRight'
  <2>1. diff' = Trees!CompareTree(snapshots.pre, snapshots.post)'
    BY <1>1 DEF Trees!CompareTree, Trees!Same
  <2>2. rc' = 0
    BY <1>1, <1>3
  <2> QED BY <1>1, <2>1, <2>2 DEF ComparedRight
<1>7. SavedRight("pre")' /\ SavedRight("post")'
  BY <1>1, SavedStays DEF TreeInv
<1> QED BY <1>4, <1>5, <1>6, <1>7 DEF TreeInv

LEMMA TreeWritten ==
  ASSUME TreeInv, Trees!OthersWrite
  PROVE  TreeInv'
<1>1. /\ pc # "exit" /\ writes < MaxWrites /\ writes' = writes + 1
      /\ pc' = pc /\ rc' = rc /\ phase' = phase /\ names' = names /\ st_size' = st_size /\ result' = result
      /\ snapshots' = snapshots /\ diff' = diff /\ began' = began
  BY DEF Trees!OthersWrite
<1>2. PICK p \in Path :
        /\ \/ \E c \in TreeContent : tree' = Trees!Updated(tree, p, c)
           \/ p \in DOMAIN tree /\ tree' = [q \in DOMAIN tree \ {p} |-> tree[q]]
        /\ touched' = IF pc \in {"stat", "hash"} THEN touched \union {p} ELSE touched
  BY TreesAre DEF Trees!OthersWrite
<1>3. TreeTypes
  BY DEF TreeInv
<1>4. tree' \in Trees!Trees /\ \A q \in Path : q # p => Agree(tree', tree, q)
  <2>1. /\ DOMAIN tree \subseteq Path /\ tree = [q \in DOMAIN tree |-> tree[q]]
        /\ \A q \in DOMAIN tree : tree[q] \in TreeContent
    BY <1>3, TreesAre DEF TreeTypes
  <2>2. CASE \E c \in TreeContent : tree' = Trees!Updated(tree, p, c)
    <3>1. PICK c \in TreeContent : tree' = Trees!Updated(tree, p, c)
      BY <2>2
    <3>2. /\ DOMAIN tree' = DOMAIN tree \union {p} /\ tree'[p] = c
          /\ \A q \in DOMAIN tree : q # p => tree'[q] = tree[q]
          /\ tree' = [q \in DOMAIN tree' |-> tree'[q]]
      BY <3>1 DEF Trees!Updated
    <3>3. tree' \in Trees!Trees
      BY <2>1, <3>1, <3>2, TreesAre
    <3> QED BY <3>2, <3>3 DEF Agree
  <2>3. CASE p \in DOMAIN tree /\ tree' = [q \in DOMAIN tree \ {p} |-> tree[q]]
    <3>1. /\ DOMAIN tree' = DOMAIN tree \ {p} /\ \A q \in DOMAIN tree' : tree'[q] = tree[q]
          /\ tree' = [q \in DOMAIN tree' |-> tree'[q]]
      BY <2>3
    <3>2. tree' \in Trees!Trees
      BY <2>1, <3>1, TreesAre
    <3> QED BY <3>1, <3>2 DEF Agree
  <2> QED BY <1>2, <2>2, <2>3
<1>5. /\ touched' \subseteq Path /\ touched \subseteq touched' /\ writes' \in 0 .. MaxWrites
      /\ Looking => p \in touched'
  BY <1>1, <1>2, <1>3, TreeAssumption DEF TreeTypes, Looking
<1>6. Trees!Trees' = Trees!Trees /\ Path' = Path
  BY DEF Trees!Trees, Trees!Path, Path
<1>7. TreeTypes'
  BY <1>1, <1>3, <1>4, <1>5, <1>6 DEF TreeTypes, Looking
<1>8. LookedRight'
  <2>1. SUFFICES ASSUME Looking PROVE LookedRight'
    BY <1>1 DEF LookedRight, Looking
  <2>2. \A q \in Path \ touched' : Agree(tree, began[phase], q) /\ q # p
    BY <1>5, <2>1 DEF TreeInv, LookedRight
  <2>3. \A q \in Path \ touched' : Agree(tree', began'[phase'], q)
    BY <1>1, <1>4, <2>2 DEF Agree
  <2> QED BY <1>1, <1>5, <1>6, <2>1, <2>3 DEF TreeInv, LookedRight, Looking, Recd
<1>9. (phase # "pre" => SavedRight("pre")') /\ (phase = "compare" => SavedRight("post")')
  BY <1>1, <1>5, SavedStays DEF TreeInv
<1>10. ComparedRight'
  BY <1>1 DEF ComparedRight
<1> QED BY <1>1, <1>7, <1>8, <1>9, <1>10 DEF TreeInv

LEMMA StepTree ==
  ASSUME TreeInv, Trees!DiffNext \/ UNCHANGED <<pc, rc, TreeVars>>
  PROVE  TreeInv'
<1>1. CASE UNCHANGED <<pc, rc, TreeVars>>
  <2>1. /\ pc' = pc /\ rc' = rc /\ tree' = tree /\ phase' = phase /\ names' = names /\ st_size' = st_size
        /\ result' = result /\ snapshots' = snapshots /\ diff' = diff /\ began' = began
        /\ touched' = touched /\ writes' = writes
    BY <1>1 DEF TreeVars
  <2>2. Trees!Trees' = Trees!Trees /\ Path' = Path
    BY DEF Trees!Trees, Trees!Path, Path
  <2>3. TreeTypes'
    BY <2>1, <2>2 DEF TreeInv, TreeTypes, Looking
  <2>4. LookedRight'
    BY <2>1, <2>2 DEF TreeInv, LookedRight, Agree, Looking, Recd
  <2>5. (phase # "pre" => SavedRight("pre")') /\ (phase = "compare" => SavedRight("post")')
    BY <2>1, SavedStays DEF TreeInv
  <2>6. ComparedRight'
    BY <2>1 DEF TreeInv, ComparedRight, Trees!CompareTree, Trees!Same
  <2> QED BY <2>1, <2>3, <2>4, <2>5, <2>6 DEF TreeInv
<1> QED BY <1>1, TreeListed, TreeLooked, TreeSaved, TreeCompared, TreeWritten DEF Trees!DiffNext, Trees!DiffTool

LEMMA TreeIsRight ==
  ASSUME TreeInv
  PROVE  Trees!DiffTypeOK /\ Trees!DiffIsExact
<1>1. Trees!DiffTypeOK
  BY TreesAre DEF TreeInv, TreeTypes, Trees!DiffTypeOK
<1>2. pc = "exit" /\ rc = 1 => touched # {}
  BY DEF TreeInv, ComparedRight
<1>3. ASSUME pc = "exit", rc = 0, NEW p \in Path, p \notin touched
      PROVE  /\ p \in diff.added <=> p \notin DOMAIN began.pre /\ p \in DOMAIN began.post
             /\ p \in diff.removed <=> p \in DOMAIN began.pre /\ p \notin DOMAIN began.post
             /\ p \in diff.modified <=>
                  p \in DOMAIN began.pre /\ p \in DOMAIN began.post /\ began.pre[p] # began.post[p]
  <2> DEFINE pre == snapshots.pre
             post == snapshots.post
             both == DOMAIN pre \intersect DOMAIN post
             unchanged == {q \in both : Trees!Same(pre[q], post[q])}
  <2>1. /\ phase = "compare" /\ diff = Trees!CompareTree(pre, post)
        /\ SavedRight("pre") /\ SavedRight("post")
    BY <1>3 DEF TreeInv, ComparedRight
  <2>2. /\ diff.added = DOMAIN post \ DOMAIN pre /\ diff.removed = DOMAIN pre \ DOMAIN post
        /\ diff.modified = both \ unchanged
    BY <2>1 DEF Trees!CompareTree
  <2>3. DOMAIN pre = DOMAIN began.pre /\ DOMAIN post = DOMAIN began.post
    BY <2>1 DEF SavedRight
  <2>4. ASSUME p \in both PROVE Trees!Same(pre[p], post[p]) <=> began.pre[p] = began.post[p]
    <3>1. pre[p] = Recd(began.pre[p]) /\ post[p] = Recd(began.post[p])
      BY <1>3, <2>1, <2>3, <2>4 DEF SavedRight
    <3> QED BY <3>1 DEF Recd, Trees!Same
  <2>5. p \in diff.modified <=> p \in both /\ ~ Trees!Same(pre[p], post[p])
    BY <2>2
  <2> QED BY <2>2, <2>3, <2>4, <2>5
<1> QED BY <1>2, <1>1, <1>3, TreesAre DEF Trees!DiffIsExact
-----------------------------------------------------------------------------
(* batch_prepare: a run directory belongs to the entry it was made for,    *)
(* which is one its batch has listed, or is at; it has no manifest until   *)
(* that entry is prepared.  A sample that is not as it was when its digest *)
(* was taken, or when it was missed, is one that others have changed.      *)
JobFields == {"at", "todo", "run_id", "digest", "disturbed", "results", "rc"}
AtWork(b) == job[b].at \in {"now", "mkdir", "copy", "manifest"}
OwnsRun(b) == job[b].at \in {"copy", "manifest"}
Listed(b) == Len(job[b].results)

JobTypes(b) ==
  /\ DOMAIN job[b] = JobFields
  /\ job[b].at \in {"start", "next", "now", "mkdir", "copy", "manifest", "exit"}
  /\ job[b].rc \in {0, 5, 10} /\ job[b].todo \in Seq(Sample)
  /\ job[b].results \in Seq(ToSet(job[b].results))

WorkRight(b) ==
  /\ job[b].disturbed => AtWork(b)
  /\ AtWork(b) => /\ job[b].todo # << >> /\ job[b].digest \in FileContent
                  /\ IF job[b].disturbed
                       THEN Head(job[b].todo) \in changes
                       ELSE holds[Head(job[b].todo)] = job[b].digest
  /\ AtWork(b) /\ job[b].at # "now" => job[b].run_id[2] = job[b].digest
  /\ OwnsRun(b) => /\ job[b].run_id \in DOMAIN runs /\ runs[job[b].run_id].by = <<b, Listed(b) + 1>>
                   /\ \A id \in DOMAIN runs : runs[id].by = <<b, Listed(b) + 1>> =>
                        id = job[b].run_id /\ runs[id].manifest = Batches!Unwritten
  /\ job[b].at = "manifest" /\ ~ job[b].disturbed => runs[job[b].run_id].input = job[b].digest

EntryRight(b, i) ==
  LET entry == job[b].results[i]
      run == runs[entry.run_id]
  IN  /\ entry.why = "prepared" =>
           /\ entry.run_id \in DOMAIN runs /\ run.by = <<b, i>> /\ run.manifest.sha256 = entry.digest
           /\ ~ entry.disturbed => run.input = entry.digest /\ run.manifest.size = entry.digest
      /\ entry.why = "exists" => entry.run_id \in DOMAIN runs /\ run.of = entry.digest
      /\ entry.why = "missing" =>
           /\ entry.sample \in Sample
           /\ entry.sample \notin changes => holds[entry.sample] = Batches!Missing
      /\ entry.why = "gone" =>
           /\ entry.disturbed /\ entry.sample \in changes
           /\ entry.run_id \in DOMAIN runs /\ run.by = <<b, i>>
      /\ entry.why # "prepared" =>
           \A id \in DOMAIN runs : runs[id].by = <<b, i>> =>
             /\ id = entry.run_id /\ runs[id].manifest = Batches!Unwritten
             /\ entry.why \notin {"missing", "exists"}

EndRight(b) ==
  /\ job[b].at = "exit" /\ job[b].rc = 0 => \A i \in 1 .. Listed(b) : job[b].results[i].why = "prepared"
  /\ job[b].at = "exit" /\ job[b].rc = 5 => \E i \in 1 .. Listed(b) : job[b].results[i].why # "prepared"

EntriesRight(b) == \A i \in 1 .. Listed(b) : EntryRight(b, i)
JobRight(b) == JobTypes(b) /\ WorkRight(b) /\ EntriesRight(b) /\ EndRight(b)

RunRight(id) ==
  /\ DOMAIN runs[id] = {"input", "manifest", "of", "by"}
  /\ runs[id].input \in FileContent \union {"missing"} /\ runs[id].of = id[2]
  /\ \E b \in Batch, j \in Nat :
       /\ runs[id].by = <<b, j>>
       /\ j <= Listed(b) \/ (j = Listed(b) + 1 /\ OwnsRun(b))

BatchInv ==
  /\ pc \in {"start", "exit"} /\ clock \in 0 .. MaxSecond /\ changes \subseteq Sample
  /\ holds \in [Sample -> FileContent \union {Batches!Missing}]
  /\ job = [b \in Batch |-> job[b]] /\ runs = [id \in DOMAIN runs |-> runs[id]]
  /\ \A b \in Batch : JobRight(b)
  /\ \A id \in DOMAIN runs : RunRight(id)

(* What a step of b may do to its job and to the directories.              *)
StepOf(b) ==
  /\ holds' = holds /\ clock' = clock /\ changes' = changes /\ pc' \in {"start", "exit"}
  /\ job' = [c \in Batch |-> job'[c]] /\ \A c \in Batch \ {b} : job'[c] = job[c]
  /\ JobTypes(b)'
  /\ \A i \in 1 .. Listed(b) : job'[b].results[i] = job[b].results[i]
  /\ Len(job'[b].results) >= Listed(b)
  /\ OwnsRun(b) => \/ Len(job'[b].results) = Listed(b) + 1
                   \/ Len(job'[b].results) = Listed(b) /\ job'[b].at \in {"copy", "manifest"}
  /\ runs' = [id \in DOMAIN runs' |-> runs'[id]]
  /\ \A id \in DOMAIN runs :
       /\ id \in DOMAIN runs' /\ runs'[id].by = runs[id].by /\ runs'[id].of = runs[id].of
       /\ runs[id].by = <<b, Listed(b) + 1>> \/ runs'[id] = runs[id]
  /\ \A id \in DOMAIN runs' :
       /\ DOMAIN runs'[id] = {"input", "manifest", "of", "by"}
       /\ runs'[id].input \in FileContent \union {"missing"}
       /\ id \notin DOMAIN runs => /\ runs'[id].of = id[2] /\ runs'[id].by = <<b, Listed(b) + 1>>
                                   /\ Len(job'[b].results) = Listed(b) /\ job'[b].at = "copy"

LEMMA ListedIs ==
  ASSUME NEW b, JobTypes(b)
  PROVE  /\ Listed(b) \in Nat /\ DOMAIN job[b].results = 1 .. Listed(b)
         /\ \A i \in 1 .. Listed(b) : job[b].results[i] \in ToSet(job[b].results)
BY DEF JobTypes, Listed, ToSet

(* The own entries lie under the run of the next one.                      *)
LEMMA OthersStay ==
  ASSUME BatchInv, NEW b \in Batch, StepOf(b)
  PROVE  /\ \A c \in Batch \ {b} : JobRight(c)'
         /\ \A i \in 1 .. Listed(b) : EntryRight(b, i)'
         /\ \A id \in DOMAIN runs' : RunRight(id)'
<1>1. \A c \in Batch : JobRight(c) /\ Listed(c) \in Nat
  BY ListedIs DEF BatchInv, JobRight
<1>2. ASSUME NEW c \in Batch, c # b PROVE job'[c] = job[c]
  BY <1>2 DEF StepOf
<1>3. ASSUME NEW id \in DOMAIN runs
      PROVE  /\ id \in DOMAIN runs' /\ runs'[id].by = runs[id].by /\ runs'[id].of = runs[id].of
             /\ runs[id].by = <<b, Listed(b) + 1>> \/ runs'[id] = runs[id]
  BY <1>3 DEF StepOf
<1>4. ASSUME NEW c \in Batch, NEW i \in 1 .. Listed(c), job'[c].results[i] = job[c].results[i]
      PROVE  EntryRight(c, i)'
  <2> DEFINE entry == job[c].results[i]
  <2>1. EntryRight(c, i) /\ i \in Nat /\ i <= Listed(c)
    BY <1>1 DEF JobRight, EntriesRight
  <2>2. <<c, i>> # <<b, Listed(b) + 1>>
    <3>1. CASE c = b
      <4>1. i # Listed(b) + 1
        BY <1>1, <2>1, <3>1
      <4> QED BY <4>1
    <3> QED BY <3>1
  <2>3. ASSUME entry.run_id \in DOMAIN runs, runs[entry.run_id].by = <<c, i>>
        PROVE  runs'[entry.run_id] = runs[entry.run_id]
    BY <1>3, <2>2, <2>3
  <2>4. entry.run_id \in DOMAIN runs =>
          /\ entry.run_id \in DOMAIN runs' /\ runs'[entry.run_id].by = runs[entry.run_id].by
          /\ runs'[entry.run_id].of = runs[entry.run_id].of
    BY <1>3
  <2>5. ASSUME NEW id \in DOMAIN runs', runs'[id].by = <<c, i>>
        PROVE  id \in DOMAIN runs /\ runs'[id] = runs[id]
    <3>1. id \in DOMAIN runs
      BY <2>2, <2>5 DEF StepOf
    <3> QED BY <1>3, <2>2, <2>5, <3>1
  <2>6. holds' = holds /\ changes' = changes
    BY DEF StepOf
  <2> QED BY <1>4, <2>1, <2>3, <2>4, <2>5, <2>6 DEF EntryRight
<1>5. ASSUME NEW c \in Batch, c # b PROVE JobRight(c)'
  <2>1. job'[c] = job[c] /\ holds' = holds
    BY <1>2, <1>5 DEF StepOf
  <2>2. JobTypes(c)' /\ EndRight(c)' /\ Listed(c)' = Listed(c)
    BY <1>1, <2>1 DEF JobRight, JobTypes, EndRight, Listed
  <2>3. \A i \in 1 .. Listed(c) : EntryRight(c, i)'
    BY <1>4, <2>1
  <2>4. ASSUME OwnsRun(c)
        PROVE  /\ job[c].run_id \in DOMAIN runs' /\ runs'[job[c].run_id] = runs[job[c].run_id]
    <3>1. job[c].run_id \in DOMAIN runs /\ runs[job[c].run_id].by = <<c, Listed(c) + 1>>
      BY <1>1, <2>4 DEF JobRight, WorkRight
    <3>2. <<c, Listed(c) + 1>> # <<b, Listed(b) + 1>>
      BY <1>5
    <3> QED BY <1>3, <3>1, <3>2
  <2>5. ASSUME NEW id \in DOMAIN runs', runs'[id].by = <<c, Listed(c) + 1>>
        PROVE  id \in DOMAIN runs /\ runs'[id] = runs[id]
    <3>1. <<c, Listed(c) + 1>> # <<b, Listed(b) + 1>>
      BY <1>5
    <3>2. id \in DOMAIN runs
      BY <2>5, <3>1 DEF StepOf
    <3> QED BY <1>3, <2>5, <3>1, <3>2
  <2>6. changes' = changes
    BY DEF StepOf
  <2>7. WorkRight(c)'
    BY <1>1, <2>1, <2>2, <2>4, <2>5, <2>6 DEF JobRight, WorkRight, AtWork, OwnsRun
  <2>8. EntriesRight(c)'
    BY <2>2, <2>3 DEF EntriesRight
  <2> QED BY <2>2, <2>7, <2>8 DEF JobRight
<1>6. ASSUME NEW id \in DOMAIN runs' PROVE RunRight(id)'
  <2>1. /\ DOMAIN runs'[id] = {"input", "manifest", "of", "by"}
        /\ runs'[id].input \in FileContent \union {"missing"}
    BY <1>6 DEF StepOf
  <2>2. CASE id \in DOMAIN runs
    <3>1. RunRight(id) /\ runs'[id].by = runs[id].by /\ runs'[id].of = runs[id].of
      BY <1>3, <2>2 DEF BatchInv
    <3>2. PICK c \in Batch, j \in Nat :
             /\ runs[id].by = <<c, j>>
             /\ j <= Listed(c) \/ (j = Listed(c) + 1 /\ OwnsRun(c))
      BY <3>1 DEF RunRight
    <3>3. j <= Listed(c)' \/ (j = Listed(c)' + 1 /\ OwnsRun(c)')
      <4>1. CASE c # b
        BY <1>2, <3>2, <4>1 DEF Listed, OwnsRun
      <4>2. CASE c = b
        <5>1. /\ Listed(b)' >= Listed(b)
              /\ OwnsRun(b) => Listed(b)' = Listed(b) + 1 \/ (Listed(b)' = Listed(b) /\ OwnsRun(b)')
          BY DEF StepOf, Listed, OwnsRun
        <5>2. Listed(b)' \in Nat
          BY ListedIs DEF StepOf, JobTypes, Listed
        <5> QED BY <1>1, <3>2, <4>2, <5>1, <5>2
      <4> QED BY <4>1, <4>2
    <3> QED BY <2>1, <3>1, <3>2, <3>3 DEF RunRight
  <2>3. CASE id \notin DOMAIN runs
    <3>1. /\ runs'[id].of = id[2] /\ runs'[id].by = <<b, Listed(b) + 1>>
          /\ Listed(b)' = Listed(b) /\ OwnsRun(b)'
      BY <1>6, <2>3 DEF StepOf, Listed, OwnsRun
    <3>2. Listed(b) + 1 \in Nat
      BY <1>1
    <3> QED BY <2>1, <3>1, <3>2 DEF RunRight
  <2> QED BY <2>2, <2>3
<1>7. \A i \in 1 .. Listed(b) : EntryRight(b, i)'
  BY <1>4 DEF StepOf
<1> QED BY <1>5, <1>6, <1>7

LEMMA OwnStep ==
  ASSUME BatchInv, NEW b \in Batch, StepOf(b), WorkRight(b)', EndRight(b)',
         Listed(b)' = Listed(b) \/ (Listed(b)' = Listed(b) + 1 /\ EntryRight(b, Listed(b))')
  PROVE  BatchInv'
<1>1. Listed(b) \in Nat /\ Listed(b)' \in Nat /\ JobTypes(b)'
  BY ListedIs DEF BatchInv, JobRight, StepOf, JobTypes, Listed
<1>2. EntriesRight(b)'
  <2>1. ASSUME NEW i \in 1 .. Listed(b)' PROVE EntryRight(b, i)'
    <3>1. CASE i \in 1 .. Listed(b)
      BY <3>1, OthersStay
    <3>2. CASE i \notin 1 .. Listed(b)
      <4>1. i = Listed(b)' /\ EntryRight(b, Listed(b))'
        BY <1>1, <3>2
      <4> QED BY <4>1 DEF EntryRight
    <3> QED BY <3>1, <3>2
  <2> QED BY <2>1 DEF EntriesRight
<1>3. \A c \in Batch : JobRight(c)'
  BY <1>1, <1>2, OthersStay DEF JobRight
<1>4. \A id \in DOMAIN runs' : RunRight(id)'
  BY OthersStay
<1>5. /\ pc' \in {"start", "exit"} /\ clock' \in 0 .. MaxSecond /\ changes' \subseteq Sample
      /\ holds' \in [Sample -> FileContent \union {Batches!Missing}]
      /\ job' = [c \in Batch |-> job'[c]] /\ runs' = [id \in DOMAIN runs' |-> runs'[id]]
  BY DEF BatchInv, StepOf
<1> QED BY <1>3, <1>4, <1>5 DEF BatchInv

LEMMA InitBatch == ASSUME Batches!BatchInit PROVE BatchInv
<1>1. /\ pc = "start" /\ clock = 0 /\ runs = << >> /\ changes = {}
      /\ holds \in [Sample -> FileContent \union {Batches!Missing}] /\ job = [b \in Batch |-> Batches!Idle]
  BY DEF Batches!BatchInit
<1>2. DOMAIN runs = {} /\ runs = [id \in DOMAIN runs |-> runs[id]] /\ job = [b \in Batch |-> job[b]]
  BY <1>1
<1>3. clock \in 0 .. MaxSecond /\ changes \subseteq Sample
  BY <1>1, BatchAssumption
<1>4. ASSUME NEW b \in Batch PROVE JobRight(b)
  <2>1. /\ DOMAIN job[b] = JobFields /\ job[b].at = "start" /\ job[b].todo = << >>
        /\ job[b].results = << >> /\ job[b].rc = 0 /\ ~ job[b].disturbed
    BY <1>1 DEF Batches!Idle, JobFields
  <2>2. JobTypes(b)
    BY <2>1 DEF JobTypes
  <2>3. Listed(b) = 0
    BY <2>1 DEF Listed
  <2> QED BY <2>1, <2>2, <2>3 DEF JobRight, WorkRight, AtWork, OwnsRun, EntriesRight, EndRight
<1> QED BY <1>1, <1>2, <1>3, <1>4 DEF BatchInv

LEMMA Entered ==
  ASSUME BatchInv, NEW b \in Batch, job[b].todo # << >>, NEW id, NEW why, Batches!Entry(b, id, why)
  PROVE  /\ job' = [c \in Batch |-> job'[c]] /\ \A c \in Batch \ {b} : job'[c] = job[c]
         /\ JobTypes(b)' /\ job'[b].at = "next" /\ ~ job'[b].disturbed /\ Listed(b)' = Listed(b) + 1
         /\ \A i \in 1 .. Listed(b) : job'[b].results[i] = job[b].results[i]
         /\ job'[b].results[Listed(b) + 1] =
              [sample |-> Head(job[b].todo), run_id |-> id, why |-> why, digest |-> job[b].digest,
               disturbed |-> job[b].disturbed]
<1> DEFINE e == [sample |-> Head(job[b].todo), run_id |-> id, why |-> why, digest |-> job[b].digest,
                 disturbed |-> job[b].disturbed]
           old == job[b].results
           j == [job[b] EXCEPT !.at = "next", !.todo = Tail(job[b].todo), !.run_id = << >>,
                               !.digest = Batches!Missing, !.disturbed = FALSE,
                               !.results = Append(job[b].results, e)]
<1>1. job = [c \in Batch |-> job[c]] /\ JobTypes(b) /\ job[b].todo # << >>
  BY DEF BatchInv, JobRight
<1>2. Listed(b) \in Nat /\ DOMAIN old = 1 .. Listed(b) /\ old \in Seq(ToSet(old)) /\ Len(old) = Listed(b)
  BY <1>1, ListedIs DEF JobTypes, Listed
<1>3. job' = [job EXCEPT ![b] = j]
  BY DEF Batches!Entry, Batches!Sampled
<1>4. /\ DOMAIN j = JobFields /\ j.at = "next" /\ j.todo = Tail(job[b].todo) /\ j.rc = job[b].rc
      /\ ~ j.disturbed
      /\ j.results = Append(old, e)
  BY <1>1 DEF JobTypes, JobFields
<1> HIDE DEF e, old, j
<1>5. /\ job' = [c \in Batch |-> job'[c]] /\ \A c \in Batch \ {b} : job'[c] = job[c]
      /\ job'[b] = j
  BY <1>1, <1>3
<1>6. /\ DOMAIN job'[b] = JobFields /\ job'[b].at = "next" /\ job'[b].todo = Tail(job[b].todo)
      /\ job'[b].rc = job[b].rc /\ ~ job'[b].disturbed /\ job'[b].results = Append(old, e)
  BY <1>4, <1>5
<1>7. /\ Append(old, e) \in Seq(ToSet(old) \union {e}) /\ Len(Append(old, e)) = Listed(b) + 1
      /\ \A i \in 1 .. Listed(b) : Append(old, e)[i] = old[i]
      /\ Append(old, e)[Listed(b) + 1] = e
  <2>1. old \in Seq(ToSet(old) \union {e})
    BY <1>2
  <2> QED BY <1>2, <2>1
<1>8. Append(old, e) \in Seq(ToSet(Append(old, e)))
  BY <1>7, OwnSet
<1>9. JobTypes(b)'
  <2>1. job'[b].todo \in Seq(Sample)
    BY <1>1, <1>6 DEF JobTypes
  <2>2. job'[b].results \in Seq(ToSet(job'[b].results))
    BY <1>6, <1>8
  <2> QED BY <1>1, <1>6, <2>1, <2>2 DEF JobTypes
<1> QED BY <1>5, <1>6, <1>7, <1>9 DEF Listed, e, old

(* A step that only moves b on: no entry and no directory.                 *)
LEMMA MovedOn ==
  ASSUME BatchInv, NEW b \in Batch, job' = [c \in Batch |-> job'[c]],
         \A c \in Batch \ {b} : job'[c] = job[c], JobTypes(b)',
         job'[b].results = job[b].results, OwnsRun(b) => job'[b].at \in {"copy", "manifest"},
         pc' \in {"start", "exit"}, clock' = clock, holds' = holds, changes' = changes, runs' = runs
  PROVE  StepOf(b) /\ Listed(b)' = Listed(b)
<1>1. /\ Listed(b)' = Listed(b) /\ Listed(b) \in Nat /\ Len(job'[b].results) = Listed(b)
  BY ListedIs DEF Listed, BatchInv, JobRight
<1>2. \A id \in DOMAIN runs : RunRight(id) /\ runs = [x \in DOMAIN runs |-> runs[x]]
  BY DEF BatchInv
<1>3. Len(job'[b].results) >= Listed(b)
  BY <1>1
<1> QED BY <1>1, <1>2, <1>3 DEF StepOf, RunRight, BatchInv

(* The entry of a step that leaves the directories alone, or is made in    *)
(* the one that b owns.                                                    *)
LEMMA EnteredRight ==
  ASSUME BatchInv, NEW b \in Batch, job[b].todo # << >>, NEW id, NEW why, Batches!Entry(b, id, why),
         pc' = pc, clock' = clock, holds' = holds, changes' = changes, runs' = runs,
         why \in {"missing", "exists", "gone", "fault"},
         OwnsRun(b) => id = job[b].run_id /\ why \in {"gone", "fault"},
         why = "exists" => id \in DOMAIN runs /\ id[2] = job[b].digest,
         why = "missing" => holds[Head(job[b].todo)] = Batches!Missing,
         why = "gone" => OwnsRun(b) /\ job[b].disturbed
  PROVE  BatchInv'
<1> DEFINE sample == Head(job[b].todo)
<1>1. /\ job' = [c \in Batch |-> job'[c]] /\ \A c \in Batch \ {b} : job'[c] = job[c]
      /\ JobTypes(b)' /\ job'[b].at = "next" /\ ~ job'[b].disturbed /\ Listed(b)' = Listed(b) + 1
      /\ \A i \in 1 .. Listed(b) : job'[b].results[i] = job[b].results[i]
      /\ job'[b].results[Listed(b) + 1] =
           [sample |-> sample, run_id |-> id, why |-> why, digest |-> job[b].digest,
            disturbed |-> job[b].disturbed]
  BY Entered
<1>2. Listed(b) \in Nat /\ Listed(b)' = Len(job'[b].results)
  BY ListedIs DEF BatchInv, JobRight, Listed
<1>3. \A x \in DOMAIN runs : RunRight(x) /\ runs = [y \in DOMAIN runs |-> runs[y]]
  BY DEF BatchInv
<1>4. Len(job'[b].results) >= Listed(b) /\ Len(job'[b].results) = Listed(b) + 1
  BY <1>1, <1>2
<1>5. StepOf(b)
  BY <1>1, <1>3, <1>4 DEF StepOf, RunRight, BatchInv
<1>6. WorkRight(b)' /\ EndRight(b)'
  BY <1>1 DEF WorkRight, EndRight, AtWork, OwnsRun
<1>7. WorkRight(b) /\ sample \in Sample
  BY DEF BatchInv, JobRight, JobTypes
<1> HIDE DEF sample
<1>8. ASSUME NEW n, n = Listed(b) + 1 PROVE EntryRight(b, n)'
  <2>1. ASSUME NEW x \in DOMAIN runs, runs[x].by = <<b, n>>
        PROVE  OwnsRun(b) /\ x = id /\ runs[x].manifest = Batches!Unwritten
    <3>1. PICK c \in Batch, j \in Nat :
             /\ runs[x].by = <<c, j>>
             /\ j <= Listed(c) \/ (j = Listed(c) + 1 /\ OwnsRun(c))
      BY <1>3 DEF RunRight
    <3>2. c = b /\ j = n
      BY <2>1, <3>1
    <3>3. OwnsRun(b)
      BY <1>2, <1>8, <3>1, <3>2
    <3> QED BY <1>7, <1>8, <2>1, <3>3 DEF WorkRight
  <2>2. why = "exists" => runs[id].of = job[b].digest
    BY <1>3 DEF RunRight
  <2>3. why = "gone" => sample \in changes /\ id \in DOMAIN runs /\ runs[id].by = <<b, n>>
    BY <1>7, <1>8 DEF WorkRight, OwnsRun, AtWork, sample
  <2>4. why = "missing" => holds[sample] = Batches!Missing
    BY DEF sample
  <2>5. /\ job'[b].results[n].run_id = id /\ job'[b].results[n].why = why
        /\ job'[b].results[n].digest = job[b].digest /\ why # "prepared"
        /\ job'[b].results[n].sample = sample /\ job'[b].results[n].disturbed = job[b].disturbed
    BY <1>1, <1>8
  <2> QED BY <1>7, <2>1, <2>2, <2>3, <2>4, <2>5 DEF EntryRight
<1>9. EntryRight(b, Listed(b))'
  BY <1>1, <1>8 DEF EntryRight
<1> QED BY <1>1, <1>5, <1>6, <1>9, OwnStep

LEMMA Begun ==
  ASSUME BatchInv, NEW b \in Batch, Batches!Begin(b)
  PROVE  BatchInv'
<1>1. /\ job[b].at = "start" /\ clock' = clock /\ holds' = holds /\ runs' = runs /\ changes' = changes
      /\ JobTypes(b) /\ job = [c \in Batch |-> job[c]] /\ pc \in {"start", "exit"}
  BY DEF Batches!Begin, BatchInv, JobRight
<1>2. PICK samples \in SampleLists[b] :
        \/ job' = [job EXCEPT ![b].at = "next", ![b].todo = samples] /\ pc' = pc
        \/ Batches!Exit(b, 10)
  BY DEF Batches!Begin
<1>3. samples \in Seq(Sample)
  BY BatchAssumption
<1>4. /\ job' = [c \in Batch |-> job'[c]] /\ \A c \in Batch \ {b} : job'[c] = job[c]
      /\ DOMAIN job'[b] = JobFields /\ job'[b].results = job[b].results
      /\ pc' \in {"start", "exit"} /\ job'[b].disturbed = job[b].disturbed
      /\ \/ job'[b].at = "next" /\ job'[b].todo = samples /\ job'[b].rc = job[b].rc
         \/ job'[b].at = "exit" /\ job'[b].todo = job[b].todo /\ job'[b].rc = 10
  <2>1. CASE job' = [job EXCEPT ![b].at = "next", ![b].todo = samples] /\ pc' = pc
    BY <1>1, <2>1 DEF JobTypes, JobFields
  <2>2. CASE Batches!Exit(b, 10)
    BY <1>1, <2>2 DEF Batches!Exit, JobTypes, JobFields
  <2> QED BY <1>2, <2>1, <2>2
<1>5. JobTypes(b)' /\ ~ OwnsRun(b)
  BY <1>1, <1>3, <1>4 DEF JobTypes, OwnsRun
<1>6. ~ job[b].disturbed
  BY <1>1 DEF BatchInv, JobRight, WorkRight, AtWork
<1>8. WorkRight(b)' /\ EndRight(b)'
  BY <1>4, <1>6 DEF WorkRight, EndRight, AtWork, OwnsRun
<1>7. StepOf(b) /\ Listed(b)' = Listed(b)
  BY <1>1, <1>4, <1>5, MovedOn
<1> QED BY <1>7, <1>8, OwnStep

LEMMA Digested ==
  ASSUME BatchInv, NEW b \in Batch, Batches!Digest(b)
  PROVE  BatchInv'
<1> DEFINE found == holds[Head(job[b].todo)]
<1>1. /\ job[b].at = "next" /\ job[b].todo # << >> /\ pc' = pc
      /\ clock' = clock /\ holds' = holds /\ runs' = runs /\ changes' = changes
      /\ JobTypes(b) /\ job = [c \in Batch |-> job[c]] /\ pc \in {"start", "exit"}
      /\ IF found = Batches!Missing THEN Batches!Entry(b, << >>, "missing")
         ELSE job' = [job EXCEPT ![b].at = "now", ![b].digest = found]
  BY DEF Batches!Digest, Batches!Sampled, BatchInv, JobRight
<1>2. ~ OwnsRun(b)
  BY <1>1 DEF OwnsRun
<1>3. CASE found = Batches!Missing
  BY <1>1, <1>2, <1>3, EnteredRight
<1>4. CASE found # Batches!Missing
  <2>1. job' = [job EXCEPT ![b].at = "now", ![b].digest = found]
    BY <1>1, <1>4
  <2>2. /\ job' = [c \in Batch |-> job'[c]] /\ \A c \in Batch \ {b} : job'[c] = job[c]
        /\ DOMAIN job'[b] = JobFields /\ job'[b].results = job[b].results
        /\ job'[b].at = "now" /\ job'[b].todo = job[b].todo /\ job'[b].rc = job[b].rc
        /\ job'[b].digest = found /\ job'[b].disturbed = job[b].disturbed
    BY <1>1, <2>1 DEF JobTypes, JobFields
  <2>3. JobTypes(b)'
    BY <1>1, <2>2 DEF JobTypes
  <2>4. Head(job[b].todo) \in Sample /\ found \in FileContent
    BY <1>1, <1>4 DEF JobTypes, BatchInv
  <2>5. ~ job[b].disturbed
    BY <1>1 DEF BatchInv, JobRight, WorkRight, AtWork
  <2>6. WorkRight(b)' /\ EndRight(b)'
    BY <1>1, <2>2, <2>4, <2>5 DEF WorkRight, EndRight, AtWork, OwnsRun
  <2>7. StepOf(b) /\ Listed(b)' = Listed(b)
    BY <1>1, <1>2, <2>2, <2>3, MovedOn
  <2> QED BY <2>6, <2>7, OwnStep
<1> QED BY <1>3, <1>4

LEMMA ExistenceTested ==
  ASSUME BatchInv, NEW b \in Batch, Batches!Exists(b)
  PROVE  BatchInv'
<1> DEFINE id == Batches!RunId(job[b].digest)
<1>1. /\ job[b].at = "now" /\ pc' = pc /\ id[2] = job[b].digest
      /\ clock' = clock /\ holds' = holds /\ runs' = runs /\ changes' = changes
      /\ JobTypes(b) /\ WorkRight(b) /\ job = [c \in Batch |-> job[c]] /\ pc \in {"start", "exit"}
  BY DEF Batches!Exists, Batches!RunId, BatchInv, JobRight
<1>2. IF id \in DOMAIN runs THEN Batches!Entry(b, id, "exists")
      ELSE job' = [job EXCEPT ![b].at = "mkdir", ![b].run_id = id]
  BY DEF Batches!Exists
<1>3. AtWork(b) /\ ~ OwnsRun(b)
  BY <1>1 DEF AtWork, OwnsRun
<1> HIDE DEF id
<1>4. CASE id \in DOMAIN runs
  <2>1. job[b].todo # << >>
    BY <1>1, <1>3 DEF WorkRight
  <2> QED BY <1>1, <1>2, <1>3, <1>4, <2>1, EnteredRight
<1>5. CASE id \notin DOMAIN runs
  <2>0. job' = [job EXCEPT ![b].at = "mkdir", ![b].run_id = id]
    BY <1>2, <1>5
  <2>1. /\ job' = [c \in Batch |-> job'[c]] /\ \A c \in Batch \ {b} : job'[c] = job[c]
        /\ DOMAIN job'[b] = JobFields /\ job'[b].results = job[b].results
        /\ job'[b].at = "mkdir" /\ job'[b].todo = job[b].todo /\ job'[b].rc = job[b].rc
        /\ job'[b].digest = job[b].digest /\ job'[b].disturbed = job[b].disturbed /\ job'[b].run_id = id
    BY <1>1, <2>0 DEF JobTypes, JobFields
  <2>2. JobTypes(b)'
    BY <1>1, <2>1 DEF JobTypes
  <2>3. WorkRight(b)' /\ EndRight(b)'
    BY <1>1, <2>1 DEF WorkRight, EndRight, AtWork, OwnsRun
  <2>4. StepOf(b) /\ Listed(b)' = Listed(b)
    BY <1>1, <1>3, <2>1, <2>2, MovedOn
  <2> QED BY <2>3, <2>4, OwnStep
<1> QED BY <1>4, <1>5

LEMMA Faulted ==
  ASSUME BatchInv, NEW b \in Batch, Batches!Fault(b)
  PROVE  BatchInv'
<1>1. /\ Batches!Entry(b, job[b].run_id, "fault") /\ pc' = pc
      /\ clock' = clock /\ holds' = holds /\ runs' = runs /\ changes' = changes
  BY DEF Batches!Fault
<1>2. job[b].todo # << >>
  BY DEF Batches!Fault, BatchInv, JobRight, WorkRight, AtWork
<1> QED BY <1>1, <1>2, EnteredRight

(* A sample that is missed after its digest was taken. *)
LEMMA Missed ==
  ASSUME BatchInv, NEW b \in Batch, OwnsRun(b), holds[Head(job[b].todo)] = Batches!Missing,
         Batches!Gone(b), pc' = pc, clock' = clock, holds' = holds, changes' = changes
  PROVE  BatchInv'
<1>1. WorkRight(b) /\ AtWork(b)
  BY DEF BatchInv, JobRight, OwnsRun, AtWork
<1>2. Batches!Missing \notin FileContent
  BY ContentAssumption DEF Batches!Missing
<1>3. job[b].todo # << >> /\ job[b].disturbed
  BY <1>1, <1>2 DEF WorkRight
<1> QED BY <1>3, EnteredRight DEF Batches!Gone

LEMMA DirectoryMade ==
  ASSUME BatchInv, NEW b \in Batch, Batches!MkDir(b)
  PROVE  BatchInv'
<1> DEFINE id == job[b].run_id
           new == [input |-> Batches!Missing, manifest |-> Batches!Unwritten,
                   of |-> job[b].digest, by |-> Batches!Maker(b)]
<1>1. /\ job[b].at = "mkdir" /\ AtWork(b) /\ ~ OwnsRun(b) /\ pc' = pc
      /\ clock' = clock /\ holds' = holds /\ changes' = changes
      /\ JobTypes(b) /\ WorkRight(b) /\ job = [c \in Batch |-> job[c]] /\ pc \in {"start", "exit"}
  BY DEF Batches!MkDir, BatchInv, JobRight, AtWork, OwnsRun
<1>2. id[2] = job[b].digest
  BY <1>1 DEF WorkRight
<1>3. \/ id \in DOMAIN runs /\ Batches!Entry(b, id, "exists") /\ runs' = runs
      \/ id \notin DOMAIN runs /\ runs' = Batches!Updated(runs, id, new) /\ Batches!Goto(b, "copy")
  BY DEF Batches!MkDir, Batches!Occupied
<1>4. /\ DOMAIN new = {"input", "manifest", "of", "by"} /\ new.input = "missing"
      /\ new.manifest = Batches!Unwritten /\ new.of = job[b].digest /\ new.by = <<b, Listed(b) + 1>>
  BY DEF Batches!Missing, Batches!Maker, Listed
<1> HIDE DEF id, new
<1>5. CASE id \in DOMAIN runs /\ Batches!Entry(b, id, "exists") /\ runs' = runs
  <2>1. job[b].todo # << >>
    BY <1>1 DEF WorkRight
  <2> QED BY <1>1, <1>2, <1>5, <2>1, EnteredRight
<1>6. CASE id \notin DOMAIN runs /\ runs' = Batches!Updated(runs, id, new) /\ Batches!Goto(b, "copy")
  <2>1. job' = [job EXCEPT ![b].at = "copy"]
    BY <1>6 DEF Batches!Goto
  <2>2. /\ job' = [c \in Batch |-> job'[c]] /\ \A c \in Batch \ {b} : job'[c] = job[c]
        /\ DOMAIN job'[b] = JobFields /\ job'[b].results = job[b].results
        /\ job'[b].at = "copy" /\ job'[b].todo = job[b].todo /\ job'[b].rc = job[b].rc
        /\ job'[b].digest = job[b].digest /\ job'[b].disturbed = job[b].disturbed
        /\ job'[b].run_id = job[b].run_id
    BY <1>1, <2>1 DEF JobTypes, JobFields
  <2>3. JobTypes(b)' /\ Listed(b)' = Listed(b) /\ Listed(b) \in Nat
    BY <1>1, <2>2, ListedIs DEF JobTypes, Listed
  <2>4. /\ DOMAIN runs' = DOMAIN runs \union {id} /\ runs'[id] = new
        /\ \A x \in DOMAIN runs : runs'[x] = runs[x]
        /\ runs' = [x \in DOMAIN runs' |-> runs'[x]]
    BY <1>6 DEF Batches!Updated
  <2>5. \A x \in DOMAIN runs : RunRight(x)
    BY DEF BatchInv
  <2>6. \A x \in DOMAIN runs' :
          /\ DOMAIN runs'[x] = {"input", "manifest", "of", "by"}
          /\ runs'[x].input \in FileContent \union {"missing"}
          /\ x \notin DOMAIN runs => /\ runs'[x].of = x[2] /\ runs'[x].by = <<b, Listed(b) + 1>>
    BY <1>2, <1>4, <2>4, <2>5 DEF RunRight
  <2>7. Len(job'[b].results) = Listed(b) /\ Len(job'[b].results) >= Listed(b)
    BY <2>2, <2>3 DEF Listed
  <2>8. StepOf(b)
    BY <1>1, <2>2, <2>3, <2>4, <2>6, <2>7 DEF StepOf
  <2>9. WorkRight(b)'
    <3>1. job[b].run_id \in DOMAIN runs' /\ runs'[job[b].run_id].by = <<b, Listed(b) + 1>>
      BY <1>4, <2>4 DEF id
    <3>2. ASSUME NEW x \in DOMAIN runs', runs'[x].by = <<b, Listed(b) + 1>>
          PROVE  x = id /\ runs'[x].manifest = Batches!Unwritten
      <4>1. ASSUME x \in DOMAIN runs PROVE FALSE
        <5>1. PICK c \in Batch, j \in Nat :
                 /\ runs[x].by = <<c, j>>
                 /\ j <= Listed(c) \/ (j = Listed(c) + 1 /\ OwnsRun(c))
          BY <2>5, <4>1 DEF RunRight
        <5>2. c = b /\ j = Listed(b) + 1
          BY <2>4, <3>2, <4>1, <5>1
        <5> QED BY <1>1, <2>3, <5>1, <5>2
      <4> QED BY <1>4, <2>4, <4>1
    <3>3. /\ job[b].todo # << >> /\ job[b].digest \in FileContent /\ job[b].run_id[2] = job[b].digest
          /\ IF job[b].disturbed THEN Head(job[b].todo) \in changes
             ELSE holds[Head(job[b].todo)] = job[b].digest
      BY <1>1 DEF WorkRight
    <3> QED BY <1>1, <2>2, <2>3, <3>1, <3>2, <3>3 DEF WorkRight, AtWork, OwnsRun, id
  <2>10. EndRight(b)'
    BY <2>2 DEF EndRight
  <2> QED BY <2>3, <2>8, <2>9, <2>10, OwnStep
<1> QED BY <1>3, <1>5, <1>6

LEMMA SampleCopied ==
  ASSUME BatchInv, NEW b \in Batch, Batches!Copy(b)
  PROVE  BatchInv'
<1> DEFINE id == job[b].run_id
           what == holds[Head(job[b].todo)]
<1>1. /\ job[b].at = "copy" /\ AtWork(b) /\ OwnsRun(b) /\ pc' = pc
      /\ clock' = clock /\ holds' = holds /\ changes' = changes
      /\ \/ what = Batches!Missing /\ Batches!Gone(b)
         \/ /\ what # Batches!Missing
            /\ job' = [job EXCEPT ![b].at = "manifest"] /\ runs' = [runs EXCEPT ![id].input = what]
      /\ JobTypes(b) /\ WorkRight(b) /\ job = [c \in Batch |-> job[c]] /\ pc \in {"start", "exit"}
      /\ runs = [x \in DOMAIN runs |-> runs[x]]
  BY DEF Batches!Copy, Batches!Goto, Batches!Sampled, BatchInv, JobRight, AtWork, OwnsRun
<1>2. /\ job[b].todo # << >> /\ job[b].digest \in FileContent /\ job[b].run_id[2] = job[b].digest
      /\ IF job[b].disturbed THEN Head(job[b].todo) \in changes
         ELSE holds[Head(job[b].todo)] = job[b].digest
      /\ id \in DOMAIN runs /\ runs[id].by = <<b, Listed(b) + 1>>
      /\ \A x \in DOMAIN runs : runs[x].by = <<b, Listed(b) + 1>> =>
           x = id /\ runs[x].manifest = Batches!Unwritten
  BY <1>1 DEF WorkRight
<1>0. CASE what = Batches!Missing
  BY <1>0, <1>1, Missed
<1> SUFFICES ASSUME what # Batches!Missing PROVE BatchInv'
  BY <1>0
<1>15. job' = [job EXCEPT ![b].at = "manifest"] /\ runs' = [runs EXCEPT ![id].input = what]
  BY <1>1
<1>3. what \in FileContent
  <2>1. Head(job[b].todo) \in Sample
    BY <1>1, <1>2 DEF JobTypes
  <2> QED BY <2>1 DEF BatchInv
<1>4. /\ job' = [c \in Batch |-> job'[c]] /\ \A c \in Batch \ {b} : job'[c] = job[c]
      /\ DOMAIN job'[b] = JobFields /\ job'[b].results = job[b].results
      /\ job'[b].at = "manifest" /\ job'[b].todo = job[b].todo /\ job'[b].rc = job[b].rc
      /\ job'[b].digest = job[b].digest /\ job'[b].disturbed = job[b].disturbed
      /\ job'[b].run_id = job[b].run_id
  BY <1>1, <1>15 DEF JobTypes, JobFields
<1>5. JobTypes(b)' /\ Listed(b)' = Listed(b) /\ Listed(b) \in Nat
  BY <1>1, <1>4, ListedIs DEF JobTypes, Listed
<1>6. \A x \in DOMAIN runs : RunRight(x)
  BY DEF BatchInv
<1>7. DOMAIN runs[id] = {"input", "manifest", "of", "by"}
  BY <1>2, <1>6 DEF RunRight
<1>8. /\ DOMAIN runs' = DOMAIN runs /\ runs' = [x \in DOMAIN runs' |-> runs'[x]]
      /\ runs'[id].input = what /\ runs'[id].by = runs[id].by /\ runs'[id].of = runs[id].of
      /\ DOMAIN runs'[id] = DOMAIN runs[id] /\ runs'[id].manifest = runs[id].manifest
      /\ \A x \in DOMAIN runs : x # id => runs'[x] = runs[x]
  BY <1>1, <1>2, <1>7, <1>15
<1>9. \A x \in DOMAIN runs' : /\ DOMAIN runs'[x] = {"input", "manifest", "of", "by"}
                              /\ runs'[x].input \in FileContent \union {"missing"}
  BY <1>3, <1>6, <1>7, <1>8 DEF RunRight
<1>10. Len(job'[b].results) = Listed(b) /\ Len(job'[b].results) >= Listed(b)
  BY <1>4, <1>5 DEF Listed
<1>11. \A x \in DOMAIN runs :
         /\ x \in DOMAIN runs' /\ runs'[x].by = runs[x].by /\ runs'[x].of = runs[x].of
         /\ runs[x].by = <<b, Listed(b) + 1>> \/ runs'[x] = runs[x]
  BY <1>2, <1>8
<1>12. StepOf(b)
  BY <1>1, <1>4, <1>5, <1>8, <1>9, <1>10, <1>11 DEF StepOf
<1>13. WorkRight(b)'
  BY <1>1, <1>2, <1>4, <1>5, <1>8 DEF WorkRight, AtWork, OwnsRun
<1>14. EndRight(b)'
  BY <1>4 DEF EndRight
<1> QED BY <1>5, <1>12, <1>13, <1>14, OwnStep

LEMMA ManifestWritten ==
  ASSUME BatchInv, NEW b \in Batch, Batches!WriteManifest(b)
  PROVE  BatchInv'
<1> DEFINE id == job[b].run_id
           m == [sha256 |-> job[b].digest, size |-> holds[Head(job[b].todo)]]
<1>1. /\ job[b].at = "manifest" /\ AtWork(b) /\ OwnsRun(b) /\ pc' = pc
      /\ clock' = clock /\ holds' = holds /\ changes' = changes
      /\ \/ holds[Head(job[b].todo)] = Batches!Missing /\ Batches!Gone(b)
         \/ /\ holds[Head(job[b].todo)] # Batches!Missing
            /\ Batches!Entry(b, id, "prepared") /\ runs' = [runs EXCEPT ![id].manifest = m]
      /\ JobTypes(b) /\ WorkRight(b) /\ job = [c \in Batch |-> job[c]] /\ pc \in {"start", "exit"}
      /\ runs = [x \in DOMAIN runs |-> runs[x]]
  BY DEF Batches!WriteManifest, Batches!Sampled, BatchInv, JobRight, AtWork, OwnsRun
<1>2. /\ ~ job[b].disturbed => /\ holds[Head(job[b].todo)] = job[b].digest
                               /\ runs[id].input = job[b].digest
      /\ id \in DOMAIN runs /\ runs[id].by = <<b, Listed(b) + 1>> /\ job[b].todo # << >>
  BY <1>1 DEF WorkRight
<1>0. CASE holds[Head(job[b].todo)] = Batches!Missing
  BY <1>0, <1>1, Missed
<1> SUFFICES ASSUME holds[Head(job[b].todo)] # Batches!Missing PROVE BatchInv'
  BY <1>0
<1>16. Batches!Entry(b, id, "prepared") /\ runs' = [runs EXCEPT ![id].manifest = m]
  BY <1>1
<1>3. /\ m.sha256 = job[b].digest
      /\ ~ job[b].disturbed => m.size = job[b].digest
  BY <1>2
<1> HIDE DEF m
<1>4. /\ job' = [c \in Batch |-> job'[c]] /\ \A c \in Batch \ {b} : job'[c] = job[c]
      /\ JobTypes(b)' /\ job'[b].at = "next" /\ ~ job'[b].disturbed /\ Listed(b)' = Listed(b) + 1
      /\ \A i \in 1 .. Listed(b) : job'[b].results[i] = job[b].results[i]
      /\ job'[b].results[Listed(b) + 1] =
           [sample |-> Head(job[b].todo), run_id |-> id, why |-> "prepared", digest |-> job[b].digest,
            disturbed |-> job[b].disturbed]
  BY <1>2, <1>16, Entered
<1>5. Listed(b) \in Nat /\ Listed(b)' = Len(job'[b].results)
  BY <1>1, ListedIs DEF Listed
<1>6. \A x \in DOMAIN runs : RunRight(x)
  BY DEF BatchInv
<1>7. DOMAIN runs[id] = {"input", "manifest", "of", "by"}
  BY <1>2, <1>6 DEF RunRight
<1>8. /\ DOMAIN runs' = DOMAIN runs /\ runs' = [x \in DOMAIN runs' |-> runs'[x]]
      /\ runs'[id].manifest = m /\ runs'[id].by = runs[id].by /\ runs'[id].of = runs[id].of
      /\ runs'[id].input = runs[id].input /\ DOMAIN runs'[id] = DOMAIN runs[id]
      /\ \A x \in DOMAIN runs : x # id => runs'[x] = runs[x]
  BY <1>1, <1>2, <1>7, <1>16
<1>9. \A x \in DOMAIN runs' : /\ DOMAIN runs'[x] = {"input", "manifest", "of", "by"}
                              /\ runs'[x].input \in FileContent \union {"missing"}
  BY <1>2, <1>6, <1>7, <1>8 DEF RunRight
<1>10. \A x \in DOMAIN runs :
         /\ x \in DOMAIN runs' /\ runs'[x].by = runs[x].by /\ runs'[x].of = runs[x].of
         /\ runs[x].by = <<b, Listed(b) + 1>> \/ runs'[x] = runs[x]
  BY <1>2, <1>8
<1>11. Len(job'[b].results) = Listed(b) + 1 /\ Len(job'[b].results) >= Listed(b)
  BY <1>4, <1>5
<1>12. StepOf(b)
  BY <1>1, <1>4, <1>8, <1>9, <1>10, <1>11 DEF StepOf
<1>13. WorkRight(b)' /\ EndRight(b)'
  BY <1>4 DEF WorkRight, EndRight, AtWork, OwnsRun
<1>14. ASSUME NEW n, n = Listed(b) + 1 PROVE EntryRight(b, n)'
  <2>1. /\ job'[b].results[n].run_id = id /\ job'[b].results[n].why = "prepared"
        /\ job'[b].results[n].digest = job[b].digest
        /\ job'[b].results[n].disturbed = job[b].disturbed
    BY <1>4, <1>14
  <2>2. id \in DOMAIN runs' /\ runs'[id].by = <<b, n>> /\ runs'[id].manifest.sha256 = job[b].digest
    BY <1>2, <1>3, <1>8, <1>14
  <2>3. ~ job[b].disturbed => runs'[id].input = job[b].digest /\ runs'[id].manifest.size = job[b].digest
    BY <1>2, <1>3, <1>8
  <2> HIDE DEF id
  <2> QED BY <2>1, <2>2, <2>3 DEF EntryRight
<1>15. EntryRight(b, Listed(b))'
  BY <1>4, <1>14 DEF EntryRight
<1> QED BY <1>4, <1>12, <1>13, <1>15, OwnStep

LEMMA Summarized ==
  ASSUME BatchInv, NEW b \in Batch, Batches!Summarize(b)
  PROVE  BatchInv'
<1> DEFINE failed == Batches!Failed(b)
           code == IF failed # {} THEN 5 ELSE 0
<1>1. /\ job[b].at = "next" /\ Batches!Exit(b, code)
      /\ clock' = clock /\ holds' = holds /\ runs' = runs /\ changes' = changes
      /\ JobTypes(b) /\ job = [c \in Batch |-> job[c]] /\ pc \in {"start", "exit"}
  BY DEF Batches!Summarize, BatchInv, JobRight
<1>2. /\ Listed(b) \in Nat /\ failed = {i \in 1 .. Listed(b) : job[b].results[i].why # "prepared"}
      /\ code \in {0, 5}
  BY <1>1, ListedIs DEF Batches!Failed
<1> HIDE DEF code
<1>3. /\ job' = [c \in Batch |-> job'[c]] /\ \A c \in Batch \ {b} : job'[c] = job[c]
      /\ DOMAIN job'[b] = JobFields /\ job'[b].results = job[b].results
      /\ job'[b].at = "exit" /\ job'[b].todo = job[b].todo /\ job'[b].rc = code
      /\ pc' \in {"start", "exit"} /\ job'[b].disturbed = job[b].disturbed
  BY <1>1 DEF Batches!Exit, JobTypes, JobFields
<1>4. JobTypes(b)' /\ ~ OwnsRun(b)
  BY <1>1, <1>2, <1>3 DEF JobTypes, OwnsRun
<1>5. StepOf(b) /\ Listed(b)' = Listed(b)
  BY <1>1, <1>3, <1>4, MovedOn
<1>8. ~ job[b].disturbed
  BY <1>1 DEF BatchInv, JobRight, WorkRight, AtWork
<1>6. WorkRight(b)'
  BY <1>3, <1>8 DEF WorkRight, AtWork, OwnsRun
<1>7. EndRight(b)'
  BY <1>2, <1>3, <1>5 DEF EndRight, code
<1> QED BY <1>5, <1>6, <1>7, OwnStep

(* Of a sample that is written to, those who have taken its digest know.   *)
LEMMA SampleChanged ==
  ASSUME BatchInv, Batches!ChangeSample
  PROVE  BatchInv'
<1>1. PICK s \in Sample, what \in FileContent \union {Batches!Missing} :
        /\ changes' = changes \union {s}
        /\ holds' = [holds EXCEPT ![s] = what]
        /\ job' = [b \in Batch |->
             IF AtWork(b) /\ Head(job[b].todo) = s THEN [job[b] EXCEPT !.disturbed = TRUE] ELSE job[b]]
  BY DEF Batches!ChangeSample, Batches!Sampled, AtWork
<1>2. /\ pc' = pc /\ clock' = clock /\ runs' = runs
  BY DEF Batches!ChangeSample
<1>3. changes' \subseteq Sample /\ changes \subseteq changes' /\ s \in changes'
  BY <1>1 DEF BatchInv
<1>4. /\ holds' \in [Sample -> FileContent \union {Batches!Missing}] /\ \A x \in Sample : x # s => holds'[x] = holds[x]
  BY <1>1 DEF BatchInv
<1>5. job' = [b \in Batch |-> job'[b]]
  BY <1>1
<1>6. ASSUME NEW b \in Batch
      PROVE  /\ JobRight(b)' /\ Listed(b)' = Listed(b) /\ (OwnsRun(b) <=> OwnsRun(b)')
  <2>1. JobTypes(b) /\ WorkRight(b) /\ EntriesRight(b) /\ EndRight(b)
    BY DEF BatchInv, JobRight
  <2>2. /\ DOMAIN job'[b] = JobFields /\ job'[b].at = job[b].at /\ job'[b].todo = job[b].todo
        /\ job'[b].run_id = job[b].run_id /\ job'[b].digest = job[b].digest
        /\ job'[b].results = job[b].results /\ job'[b].rc = job[b].rc
        /\ IF AtWork(b) /\ Head(job[b].todo) = s THEN job'[b].disturbed ELSE job'[b] = job[b]
        /\ job[b].disturbed => job'[b].disturbed
    BY <1>1, <2>1 DEF JobTypes, JobFields
  <2>3. JobTypes(b)' /\ Listed(b)' = Listed(b) /\ (OwnsRun(b) <=> OwnsRun(b)') /\ EndRight(b)'
    BY <2>1, <2>2 DEF JobTypes, Listed, OwnsRun, EndRight
  <2>4. ASSUME AtWork(b), ~ job'[b].disturbed
        PROVE  holds'[Head(job[b].todo)] = job[b].digest /\ ~ job[b].disturbed
    <3>1. Head(job[b].todo) \in Sample /\ Head(job[b].todo) # s /\ ~ job[b].disturbed
      BY <2>1, <2>2, <2>4 DEF JobTypes, WorkRight
    <3> QED BY <1>4, <2>1, <2>4, <3>1 DEF WorkRight
  <2>7. ASSUME AtWork(b), job'[b].disturbed PROVE Head(job[b].todo) \in changes'
    BY <1>3, <2>1, <2>2, <2>7 DEF WorkRight
  <2>8. job'[b].disturbed => AtWork(b)
    BY <2>1, <2>2 DEF WorkRight
  <2>9. AtWork(b)' <=> AtWork(b)
    BY <2>2 DEF AtWork
  <2>10. ASSUME AtWork(b)
         PROVE  /\ job'[b].todo # << >> /\ job'[b].digest \in FileContent
                /\ IF job'[b].disturbed
                     THEN Head(job'[b].todo) \in changes'
                     ELSE holds'[Head(job'[b].todo)] = job'[b].digest
    BY <2>1, <2>2, <2>4, <2>7, <2>10 DEF WorkRight
  <2>11. job'[b].at = "manifest" /\ ~ job'[b].disturbed => ~ job[b].disturbed
    BY <2>2
  <2>12. OwnsRun(b) =>
           /\ job'[b].run_id \in DOMAIN runs' /\ runs'[job'[b].run_id].by = <<b, Listed(b)' + 1>>
           /\ \A id \in DOMAIN runs' : runs'[id].by = <<b, Listed(b)' + 1>> =>
                id = job'[b].run_id /\ runs'[id].manifest = Batches!Unwritten
    BY <1>2, <2>1, <2>2, <2>3 DEF WorkRight
  <2>13. /\ AtWork(b) /\ job'[b].at # "now" => job'[b].run_id[2] = job'[b].digest
         /\ job'[b].at = "manifest" /\ ~ job'[b].disturbed => runs'[job'[b].run_id].input = job'[b].digest
    BY <1>2, <2>1, <2>2, <2>11 DEF WorkRight
  <2>5. WorkRight(b)'
    BY <2>3, <2>8, <2>9, <2>10, <2>12, <2>13 DEF WorkRight
  <2>6. ASSUME NEW i \in 1 .. Listed(b) PROVE EntryRight(b, i)'
    <3>1. EntryRight(b, i)
      BY <2>1 DEF EntriesRight
    <3>2. ASSUME NEW x \in Sample, x \notin changes'
          PROVE  x \notin changes /\ holds'[x] = holds[x]
      BY <1>3, <1>4, <3>2
    <3> DEFINE entry == job[b].results[i]
    <3>3. entry.why = "missing" =>
            /\ entry.sample \in Sample
            /\ entry.sample \notin changes' => holds'[entry.sample] = Batches!Missing
      BY <3>1, <3>2 DEF EntryRight
    <3>4. entry.why = "gone" => entry.sample \in changes'
      BY <1>3, <3>1 DEF EntryRight
    <3>5. job'[b].results[i] = entry /\ runs' = runs
      BY <1>2, <2>2
    <3> QED BY <3>1, <3>3, <3>4, <3>5 DEF EntryRight
  <2> QED BY <2>3, <2>5, <2>6 DEF JobRight, EntriesRight
<1>7. ASSUME NEW id \in DOMAIN runs' PROVE RunRight(id)'
  BY <1>2, <1>6 DEF RunRight, BatchInv
<1> QED BY <1>2, <1>3, <1>4, <1>5, <1>6, <1>7 DEF BatchInv

LEMMA BatchIdle ==
  ASSUME BatchInv, pc' = pc, holds' = holds, runs' = runs, job' = job, changes' = changes,
         clock' \in 0 .. MaxSecond
  PROVE  BatchInv'
<1>1. ASSUME NEW b \in Batch PROVE JobRight(b)'
  <2>1. JobTypes(b) /\ WorkRight(b) /\ EntriesRight(b) /\ EndRight(b)
    BY DEF BatchInv, JobRight
  <2>2. JobTypes(b)' /\ WorkRight(b)' /\ EndRight(b)'
    BY <2>1 DEF JobTypes, WorkRight, EndRight, AtWork, OwnsRun, Listed
  <2>3. EntriesRight(b)'
    BY <2>1 DEF EntriesRight, EntryRight, Listed
  <2> QED BY <2>2, <2>3 DEF JobRight
<1>2. \A id \in DOMAIN runs' : RunRight(id)'
  BY DEF BatchInv, RunRight, Listed, OwnsRun
<1> QED BY <1>1, <1>2 DEF BatchInv

LEMMA StepBatch ==
  ASSUME BatchInv, Batches!BatchNext \/ UNCHANGED <<pc, BatchVars>>
  PROVE  BatchInv'
<1>1. CASE Batches!BatchTool
  <2>1. PICK b \in Batch :
          \/ Batches!Begin(b) \/ Batches!Digest(b) \/ Batches!Exists(b) \/ Batches!MkDir(b)
          \/ Batches!Copy(b) \/ Batches!WriteManifest(b) \/ Batches!Fault(b) \/ Batches!Summarize(b)
    BY <1>1 DEF Batches!BatchTool
  <2> QED BY <2>1, Begun, Digested, ExistenceTested, DirectoryMade, SampleCopied, ManifestWritten,
             Faulted, Summarized
<1>2. CASE Batches!Tick
  <2>1. clock' \in 0 .. MaxSecond
    BY <1>2, BatchAssumption DEF Batches!Tick, BatchInv
  <2> QED BY <1>2, <2>1, BatchIdle DEF Batches!Tick
<1>3. CASE UNCHANGED <<pc, BatchVars>>
  BY <1>3, BatchIdle DEF BatchVars, BatchInv
<1> QED BY <1>1, <1>2, <1>3, SampleChanged DEF Batches!BatchNext

LEMMA BatchIsRight ==
  ASSUME BatchInv
  PROVE  Batches!BatchTypeOK /\ Batches!PreparedIsTrue /\ Batches!FailureIsEarned
<1>1. ASSUME NEW b \in Batch
      PROVE  /\ JobTypes(b) /\ EntriesRight(b) /\ EndRight(b)
             /\ DOMAIN job[b].results = 1 .. Listed(b)
             /\ Batches!Failed(b) = {i \in 1 .. Listed(b) : job[b].results[i].why # "prepared"}
  <2>1. JobTypes(b) /\ EntriesRight(b) /\ EndRight(b)
    BY DEF BatchInv, JobRight
  <2> QED BY <2>1, ListedIs DEF Batches!Failed
<1>2. Batches!BatchTypeOK
  <2>1. \A id \in DOMAIN runs : runs[id].input \in FileContent \union {Batches!Missing}
    BY DEF BatchInv, RunRight, Batches!Missing
  <2> QED BY <1>1, <2>1 DEF Batches!BatchTypeOK, BatchInv, JobTypes
<1>3. ASSUME NEW b \in Batch, NEW i \in DOMAIN job[b].results \ Batches!Failed(b)
      PROVE  /\ job[b].results[i].run_id \in DOMAIN runs
             /\ runs[job[b].results[i].run_id].by = <<b, i>>
             /\ runs[job[b].results[i].run_id].manifest.sha256 = job[b].results[i].digest
             /\ ~ job[b].results[i].disturbed =>
                  /\ runs[job[b].results[i].run_id].input = job[b].results[i].digest
                  /\ runs[job[b].results[i].run_id].manifest.size = job[b].results[i].digest
  <2>1. EntryRight(b, i) /\ job[b].results[i].why = "prepared"
    BY <1>1, <1>3 DEF EntriesRight
  <2> QED BY <2>1 DEF EntryRight
<1>4. ASSUME NEW b \in Batch, NEW i \in Batches!Failed(b)
      PROVE  LET entry == job[b].results[i]
                 made == Batches!MadeFor(b, i)
             IN  /\ \A id \in made : id = entry.run_id /\ runs[id].manifest = Batches!Unwritten
                 /\ entry.why \in {"missing", "exists"} => made = {}
                 /\ entry.why = "missing" /\ entry.sample \notin changes =>
                      holds[entry.sample] = Batches!Missing
                 /\ entry.why = "exists" =>
                      entry.run_id \in DOMAIN runs /\ runs[entry.run_id].of = entry.digest
                 /\ entry.why = "gone" =>
                      entry.disturbed /\ entry.sample \in changes /\ made = {entry.run_id}
  <2>1. EntryRight(b, i) /\ job[b].results[i].why # "prepared"
    BY <1>1, <1>4 DEF EntriesRight
  <2> QED BY <2>1 DEF EntryRight, Batches!MadeFor
<1>5. ASSUME NEW b \in Batch
      PROVE  /\ job[b].at = "exit" /\ job[b].rc = 0 => Batches!Failed(b) = {}
             /\ job[b].at = "exit" /\ job[b].rc = 5 => Batches!Failed(b) # {}
  BY <1>1 DEF EndRight
<1>6. Batches!PreparedIsTrue
  BY <1>3, <1>5 DEF Batches!PreparedIsTrue
<1>7. Batches!FailureIsEarned
  BY <1>4, <1>5 DEF Batches!FailureIsEarned
<1> QED BY <1>2, <1>6, <1>7
-----------------------------------------------------------------------------
(* What SampleDump, PatchView and the collection hold stays within their   *)
(* sizes, and what was refused a dump is no range of a region.             *)
DumpSizes ==
  /\ rc \in {0, 5, 10, 20} /\ headers \in Headers
  /\ Len(buf) <= Chunk /\ done \in 0 .. MaxBytes
  /\ file.is \in {"absent", "older", "ours"}
  /\ pc = "exit" /\ rc = 5 => ~ Dump!RangeInRegion

LEMMA InitDumpSizes == ASSUME Dump!DumpInit PROVE DumpSizes
<1>1. file.is \in {"absent", "older", "ours"}
  BY DEF Dump!DumpInit, Dump!NoFile, Dump!OldFile
<1> QED BY <1>1, Limits DEF DumpSizes, Dump!DumpInit

LEMMA RegionFound ==
  ASSUME headers \in Headers, address \in 0 .. Word - 1, length \in 1 .. MaxBytes, Dump!RangeInRegion
  PROVE  Dump!InRegion
<1>0. Word \in Nat \ {0} /\ MaxBytes \in Nat \ {0}
  BY Limits
<1>1. PICK i \in DOMAIN headers : headers[i].lower <= address /\ address + length <= headers[i].upper
  BY DEF Dump!RangeInRegion
<1>2. headers[i] \in [lower : 0 .. Word - 1, upper : 0 .. Word - 1, free : Nat, named : BOOLEAN]
  <2> DEFINE D == [lower : 0 .. Word - 1, upper : 0 .. Word - 1, free : Nat, named : BOOLEAN]
  <2>1. headers \in Seq(D)
    BY MachineAssumption, Zenon
  <2> HIDE DEF D
  <2>2. headers[i] \in D
    BY <1>1, <2>1
  <2> QED BY <2>2 DEF D
<1> DEFINE lo == headers[i].lower
           hi == headers[i].upper
           e == address + length
<1>3. lo \in 0 .. Word - 1 /\ hi \in 0 .. Word - 1
  BY <1>2, Zenon
<1>4. lo <= address /\ e <= hi
  BY <1>1
<1> HIDE DEF lo, hi
<1>5. e \in 0 .. Word - 1 /\ hi > lo /\ address <= (Word - 1) - (length - 1)
  BY <1>0, <1>3, <1>4
<1> HIDE DEF e
<1>6. e % Word = e
  BY <1>0, <1>5
<1>7. Dump!EndOfRange <= hi /\ address >= lo
  BY <1>0, <1>3, <1>4, <1>6 DEF e, Dump!EndOfRange
<1> QED BY <1>1, <1>5, <1>7 DEF lo, hi, Dump!InRegion, Dump!Covers

LEMMA RangeStays ==
  ASSUME headers' = headers, address' = address, length' = length
  PROVE  Dump!RangeInRegion' = Dump!RangeInRegion
BY DEF Dump!RangeInRegion

LEMMA StepDumpSizes ==
  ASSUME DumpInv, DumpSizes, Dump!DumpNext \/ UNCHANGED <<pc, rc, headers, DumpVars>>
  PROVE  DumpSizes'
<1>0. Word \in Nat \ {0} /\ MaxBytes \in Nat \ {0} /\ Chunk \in Nat \ {0}
  BY Limits
<1>1. CASE Dump!Arguments
  BY <1>1 DEF DumpInv, DumpSizes, Dump!Arguments, Dump!Exit, Dump!Continue
<1>2. CASE Dump!FindRegion
  <2>1. /\ pc = "find" /\ headers' = headers /\ address' = address /\ buf' = buf
        /\ length' = length /\ done' = done /\ file' = file
        /\ IF Dump!InRegion THEN pc' = "open" /\ rc' = rc ELSE pc' = "exit" /\ rc' = 5
    BY <1>2 DEF Dump!FindRegion, Dump!Exit, Dump!Continue
  <2>2. ~ Dump!InRegion => ~ Dump!RangeInRegion
    BY <2>1, RegionFound DEF DumpInv, DumpSizes
  <2> QED BY <2>1, <2>2, RangeStays DEF DumpInv, DumpSizes
<1>3. CASE Dump!OpenOutput
  <2>1. /\ pc = "open" /\ headers' = headers /\ buf' = buf /\ done' = done
        /\ \/ pc' = "exit" /\ rc' = 20 /\ file' = file
           \/ pc' = "read" /\ rc' = rc /\ file'.is = "ours"
    BY <1>3 DEF Dump!OpenOutput, Dump!Exit, Dump!Continue, Dump!OurFile
  <2> QED BY <2>1 DEF DumpSizes
<1>4. CASE Dump!ReadBytes
  <2> DEFINE n == IF length - done > Chunk THEN Chunk ELSE length - done
  <2>1. /\ pc = "read" /\ done < length /\ headers' = headers /\ done' = done /\ file' = file
        /\ pc' = "write" /\ rc' = rc /\ buf' = Dump!Bytes(n)
    BY <1>4 DEF Dump!ReadBytes, Dump!Continue
  <2>2. n \in Nat /\ n <= Chunk
    BY <1>0, <2>1 DEF DumpInv, DumpSizes
  <2> HIDE DEF n
  <2>3. Len(buf') = n
    BY <2>1, <2>2 DEF Dump!Bytes
  <2> QED BY <2>1, <2>2, <2>3 DEF DumpSizes
<1>5. CASE Dump!WriteChunk
  <2>1. /\ pc = "write" /\ headers' = headers /\ buf' = buf
        /\ \/ pc' = "exit" /\ rc' = 20 /\ file'.is = "absent" /\ done' = done
           \/ file'.is = "ours" /\ done' = done + Len(buf) /\ pc' = "read" /\ rc' = rc
    BY <1>5 DEF Dump!WriteChunk, Dump!Exit, Dump!Continue, Dump!Remove, Dump!NoFile, Dump!OurFile
  <2>2. /\ length \in 1 .. MaxBytes /\ Len(buf) <= length - done /\ buf \in Seq(DumpByte)
    BY <2>1 DEF DumpInv, Consecutive
  <2>3. done + Len(buf) \in 0 .. MaxBytes
    BY <1>0, <2>2 DEF DumpSizes
  <2> QED BY <2>1, <2>3 DEF DumpSizes
<1>6. CASE Dump!CloseOutput
  BY <1>6 DEF Dump!CloseOutput, Dump!Exit, Dump!Remove, Dump!NoFile, DumpSizes
<1>7. CASE Dump!MemoryChanges
  BY <1>7 DEF Dump!MemoryChanges, DumpSizes
<1>8. CASE UNCHANGED <<pc, rc, headers, DumpVars>>
  BY <1>8, RangeStays DEF DumpVars, DumpSizes
<1> QED BY <1>1, <1>2, <1>3, <1>4, <1>5, <1>6, <1>7, <1>8 DEF Dump!DumpNext, Dump!DumpTool

Kept == {"records", "library", "port", "request", "device"}
PatchSizes == rc \in {0, 5, 10, 20} /\ held \subseteq Kept /\ Len(records) <= MaxCount

LEMMA InitPatchSizes == ASSUME Patch!PatchInit PROVE PatchSizes
BY Limits DEF Patch!PatchInit, PatchSizes

LEMMA StepPatchSizes ==
  ASSUME PatchInv, PatchSizes, Patch!PatchNext \/ UNCHANGED <<pc, rc, PatchVars>>
  PROVE  PatchSizes'
<1>1. CASE \/ Patch!AllocRecords \/ Patch!OpenLibrary \/ Patch!CreatePort
           \/ Patch!CreateRequest \/ Patch!OpenDevice \/ Patch!TakeBase
  <2>1. rc' \in {rc, 20} /\ records' = records
    BY <1>1 DEF Patch!AllocRecords, Patch!OpenLibrary, Patch!CreatePort, Patch!CreateRequest,
       Patch!OpenDevice, Patch!TakeBase, Patch!Succeeds, Patch!Fails, Patch!Otherwise, Patch!inspection
  <2>2. held' \subseteq Kept
    BY <1>1 DEF PatchSizes, Kept, Patch!AllocRecords, Patch!OpenLibrary, Patch!CreatePort,
       Patch!CreateRequest, Patch!OpenDevice, Patch!TakeBase, Patch!Succeeds, Patch!Fails
  <2> QED BY <2>1, <2>2 DEF PatchSizes
<1>2. CASE UNCHANGED <<pc, rc, PatchVars>>
  BY <1>2 DEF PatchVars, PatchSizes
<1>3. CASE Patch!Arguments
  BY <1>3 DEF PatchSizes, Patch!Arguments, Patch!inspection
<1>4. CASE Patch!ReadOpcode \/ Patch!ReadTarget \/ Patch!ReadRest
  BY <1>4 DEF PatchSizes, Patch!ReadOpcode, Patch!ReadTarget, Patch!ReadRest
<1>6. CASE Patch!AddToSum
  <2>1. pc = "sum" /\ rc' = rc /\ held' = held /\ records' = Append(records, [opcode |-> opcode, target |-> target])
    BY <1>6 DEF Patch!AddToSum
  <2>2. /\ records \in Seq(PatchRecord) /\ neg_size \in NegSizes /\ count \in 1 .. MaxCount
        /\ count \in 0 .. MaxCount + 1
    BY <2>1 DEF PatchInv, PatchTypes
  <2>3. Len(records) < Patch!Inspected /\ Patch!Inspected \in Nat /\ Patch!Inspected <= count
    BY <2>1, <2>2, Bounds DEF PatchInv, NextRight, MidVector
  <2>4. Len(records') = Len(records) + 1 /\ Len(records) \in Nat
    BY <2>1, <2>2
  <2>5. MaxCount \in Nat
    BY Limits
  <2>6. Len(records') <= MaxCount
    BY <2>2, <2>3, <2>4, <2>5
  <2> QED BY <2>1, <2>6 DEF PatchSizes
<1>5. CASE \/ Patch!EndInspection \/ Patch!Release \/ Patch!Return
           \/ Patch!Report \/ Patch!Free \/ Patch!SetFunction
  BY <1>5 DEF PatchSizes, Kept, Patch!EndInspection, Patch!Release, Patch!Return, Patch!Report,
     Patch!Free, Patch!SetFunction, Patch!inspection
<1> QED BY <1>1, <1>2, <1>3, <1>4, <1>5, <1>6 DEF Patch!PatchNext, Patch!PatchTool

StoreSizes ==
  /\ pc \in {"start", "copy", "exit"} /\ rc \in {0, 1, 2}
  /\ calls \in 0 .. MaxCalls /\ sources \in Seq(Store!Sources) /\ Len(sources) <= MaxSources
  /\ \A n \in DOMAIN dest : dest[n] \in FileContent \union {"torn", "index"}

LEMMA InitStoreSizes == ASSUME Store!StoreInit PROVE StoreSizes
<1>1. /\ pc = "start" /\ rc = 0 /\ calls = 0 /\ sources = << >> /\ dest = << >>
  BY DEF Store!StoreInit
<1>2. sources \in Seq(Store!Sources) /\ Len(sources) = 0 /\ DOMAIN dest = {}
  BY <1>1
<1> QED BY <1>1, <1>2, Limits DEF StoreSizes

LEMMA StepStoreSizes ==
  ASSUME StoreSizes, Store!StoreNext \/ UNCHANGED <<pc, rc, StoreVars>>
  PROVE  StoreSizes'
<1>1. CASE Store!Begin
  <2>1. calls < MaxCalls /\ calls' = calls + 1 /\ pc' = "copy" /\ rc' = 0 /\ dest' = dest
    BY <1>1 DEF Store!Begin
  <2>2. sources' \in Seq(Store!Sources) /\ Len(sources') <= MaxSources
    <3> DEFINE S == Store!Sources
    <3>1. MaxSources \in Nat
      BY Limits
    <3>2. PICK m \in 1 .. MaxSources : sources' \in [1 .. m -> S]
      BY <1>1, Zenon DEF Store!Begin
    <3> HIDE DEF S
    <3>3. sources' \in Seq(S) /\ Len(sources') <= MaxSources
      BY <3>1, <3>2
    <3> QED BY <3>3 DEF S
  <2> QED BY <2>1, <2>2, Limits DEF StoreSizes
<1>2. CASE Store!Copy
  <2> DEFINE name == Store!StoredName(Head(sources))
  <2>1. /\ calls' = calls /\ sources # << >> /\ pc' \in {pc, "exit"} /\ rc' \in {rc, 1, 2}
        /\ sources' = sources \/ sources' = Tail(sources)
        /\ \/ dest' = dest
           \/ \E c \in {"torn", Head(sources)[2]} : dest' = Updated(dest, name, c)
    BY <1>2 DEF Store!Copy, Store!Exit, Store!Put, Store!Updated, Updated
  <2>2. Head(sources)[2] \in FileContent
    BY <2>1 DEF StoreSizes, Store!Sources
  <2>3. sources' \in Seq(Store!Sources) /\ Len(sources') <= MaxSources
    <3> DEFINE S == Store!Sources
    <3>1. sources \in Seq(S) /\ Len(sources) <= MaxSources /\ MaxSources \in Nat
      BY Limits DEF StoreSizes
    <3> HIDE DEF S
    <3>2. /\ Len(sources) \in Nat /\ Tail(sources) \in Seq(S)
          /\ Len(Tail(sources)) = Len(sources) - 1
      BY <2>1, <3>1
    <3>3. sources' \in Seq(S) /\ Len(sources') <= MaxSources
      BY <2>1, <3>1, <3>2
    <3> QED BY <3>3 DEF S
  <2>4. \A n \in DOMAIN dest' : dest'[n] \in FileContent \union {"torn", "index"}
    BY <2>1, <2>2 DEF StoreSizes, Updated
  <2> QED BY <2>1, <2>3, <2>4 DEF StoreSizes
<1>3. CASE Store!WriteIndex
  <2>1. /\ calls' = calls /\ sources' = sources /\ pc' = "exit" /\ rc' \in {0, 1}
        /\ dest' = dest \/ dest' = Updated(dest, Store!Index, "index")
    BY <1>3 DEF Store!WriteIndex, Store!Exit, Store!Put, Store!Updated, Updated
  <2>2. \A n \in DOMAIN dest' : dest'[n] \in FileContent \union {"torn", "index"}
    BY <2>1 DEF StoreSizes, Updated
  <2> QED BY <2>1, <2>2 DEF StoreSizes
<1>4. CASE UNCHANGED <<pc, rc, StoreVars>>
  BY <1>4 DEF StoreVars, StoreSizes
<1> QED BY <1>1, <1>2, <1>3, <1>4 DEF Store!StoreNext
-----------------------------------------------------------------------------
(* MemScan: the tables hold what Exec's lists hold, as far as they reach;  *)
(* the candidates found are those of the part of memory that is behind the *)
(* scan; and what the scan is charged is less than what the regions hold   *)
(* whenever something of them was not read.                                *)
Header == [lower : 0 .. Word - 1, upper : 0 .. Word - 1, free : Nat, named : BOOLEAN]
Candidate == [address : Nat, region : Nat \ {0}, registered : BOOLEAN]
MemoryIsRight(mem) ==
  DOMAIN mem \subseteq Nat /\ \A a \in DOMAIN mem : mem[a].tag \in Nat /\ mem[a].end \in Nat

Lo(i) == regions.recs[i].lower
Hi(i) == regions.recs[i].upper
Before == pc \in {"start", "snapshot"}
Looked == pc \in {"regions", "words", "scanned", "print"} \/ (pc = "exit" /\ rc \in {0, 5})

MemTypes ==
  /\ pc \in {"start", "snapshot", "regions", "words", "scanned", "print", "exit"}
  /\ rc \in {0, 5, 10, 20} /\ mode \in Memory!Modes
  /\ pc # "exit" => rc = 0
  /\ headers \in Seq(Header) /\ modules \in Seq(Nat) /\ MemoryIsRight(memory)
  /\ disturbed \in BOOLEAN /\ scan_limited \in BOOLEAN
  /\ ~ disturbed /\ Looked => image = memory
  /\ disturbed => image = << >>
  /\ off \in Nat /\ region \in Nat \ {0} /\ total_left \in 0 .. TotalLimit
  /\ scan_regions \in Nat

(* The table of the headers, and that of the residents. *)
RegionsRight ==
  /\ regions.recs \in Seq(Header) /\ Len(regions.recs) <= MaxRegions
  /\ \A i \in 1 .. Len(regions.recs) : i \in 1 .. Len(headers) /\ regions.recs[i] = headers[i]
  /\ regions.truncated \in BOOLEAN
  /\ Before => regions = EmptyTable
  /\ Looked => (regions.truncated <=> Len(headers) > MaxRegions)
  /\ Looked /\ ~ regions.truncated => regions.recs = headers

ResidentsRight ==
  /\ residents.recs \in Seq(Nat) /\ Len(residents.recs) <= MaxResidents
  /\ residents.truncated \in BOOLEAN
  /\ Before => residents = EmptyTable
  /\ residents.truncated => Len(modules) > MaxResidents
  /\ Looked /\ ~ disturbed /\ ~ residents.truncated /\ Len(modules) <= MaxModules =>
       ToSet(residents.recs) = ToSet(modules) \intersect Memory!Residents(image)

(* A candidate at the address a of region i, and whether the scan has      *)
(* passed that place.                                                      *)
TrueAt(a, i) ==
  /\ a \in DOMAIN image /\ a >= Lo(i) /\ (a - Lo(i)) % 2 = 0 /\ a + MinSize <= Hi(i)
  /\ image[a].tag = a /\ image[a].end > a /\ image[a].end <= Hi(i)

Behind(a, i) ==
  \/ i < region
  \/ i = region /\ pc = "words" /\ a < Lo(i) + off

IsFound(a, i) ==
  \E k \in 1 .. Len(candidates.recs) : candidates.recs[k].address = a /\ candidates.recs[k].region = i

FoundRight ==
  /\ candidates.recs \in Seq(Candidate) /\ Len(candidates.recs) <= MaxCandidates
  /\ candidates.truncated \in BOOLEAN
  /\ candidates = [recs |-> candidates.recs, truncated |-> candidates.truncated]
  /\ \A k \in 1 .. Len(candidates.recs) :
       LET c == candidates.recs[k] IN
       /\ c.region \in 1 .. Len(regions.recs) /\ Behind(c.address, c.region)
       /\ c.registered <=> Memory!Registered(c.address)
       /\ ~ disturbed => TrueAt(c.address, c.region)
  /\ \A k, l \in 1 .. Len(candidates.recs) :
       /\ candidates.recs[k].address = candidates.recs[l].address
       /\ candidates.recs[k].region = candidates.recs[l].region
       => k = l

FoundAll ==
  /\ ~ disturbed /\ ~ scan_limited /\ ~ candidates.truncated =>
       \A i \in 1 .. Len(regions.recs) : \A a \in DOMAIN image : TrueAt(a, i) /\ Behind(a, i) => IsFound(a, i)
  /\ ~ disturbed /\ candidates.truncated =>
       \E i \in 1 .. Len(regions.recs) : \E a \in DOMAIN image : TrueAt(a, i) /\ ~ IsFound(a, i)

(* Where the scan is. *)
Cut(i) == Memory!Window(regions.recs[i]) < Hi(i) - Lo(i)

PlaceRight ==
  /\ Before =>
       /\ candidates = EmptyTable /\ region = 1 /\ total_left = TotalLimit /\ scan_regions = 0
       /\ ~ scan_limited /\ ~ disturbed
  /\ mode # "scan" => pc \in {"start", "snapshot", "print", "exit"} /\ ~ scan_limited /\ ~ disturbed
  /\ region <= Len(regions.recs) + 1
  /\ pc = "words" =>
       /\ region <= Len(regions.recs) /\ Hi(region) > Lo(region) /\ off % 2 = 0
       /\ Cut(region) => scan_limited
  /\ pc = "scanned" => candidates.truncated \/ region > Len(regions.recs) \/ total_left = 0
  /\ Looked /\ mode = "scan" /\ pc \in {"print", "exit"} /\ ~ candidates.truncated /\ ~ scan_limited =>
       region = Len(regions.recs) + 1

(* What the scan was charged, against what the regions behind it hold. *)
Charged == TotalLimit - total_left
ZeroBefore(n) == \E i \in 1 .. n : Memory!Size(regions.recs[i]) = 0
TotalSize(n) == Memory!Sizes(regions.recs)[n]

BudgetRight ==
  /\ Charged <= TotalSize(region - 1)
  /\ scan_limited /\ pc \in {"regions", "scanned"} => Charged < TotalSize(region - 1)
  /\ scan_limited /\ pc = "words" => Charged < TotalSize(region - 1) \/ Cut(region)
  /\ scan_regions <= region - 1
  /\ scan_regions < region - 1 => Charged < TotalSize(region - 1) \/ ZeroBefore(region - 1)
  /\ scan_limited /\ pc \in {"print", "exit"} =>
       \/ Charged < TotalSize(Len(regions.recs))
       \/ total_left = 0 /\ ZeroBefore(Len(regions.recs))

ReportRight ==
  pc = "exit" /\ rc \in {0, 5} =>
    CASE mode = "scan" -> rc = 5 <=> candidates.truncated \/ scan_limited
      [] mode = "residents" -> (rc = 5 <=> residents.truncated) /\ shown = Memory!ShownResidents
      [] OTHER -> (rc = 5 <=> regions.truncated) /\ shown = Memory!ShownRegions

MemInv ==
  /\ MemTypes /\ RegionsRight /\ ResidentsRight /\ FoundRight /\ FoundAll
  /\ PlaceRight /\ BudgetRight /\ ReportRight

LEMMA ScanLimits ==
  /\ {MaxRegions, MaxResidents, MaxCandidates, MaxModules, RegionLimit, MinSize, Word} \subseteq Nat \ {0}
  /\ TotalLimit \in Nat
BY Limits

(* The copy a module has of an operator is that operator. *)
LEMMA MemoryOperators ==
  /\ Memory!EmptyTable = EmptyTable
  /\ \A t, rs, max : Memory!AddRecords(t, rs, max) = AddRecords(t, rs, max)
  /\ \A t, r, max : Memory!AddRecord(t, r, max) = AddRecord(t, r, max)
  /\ \A s, T : Memory!Selected(s, T) = Selected(s, T)
BY DEF Memory!EmptyTable, EmptyTable, Memory!AddRecords, AddRecords, Memory!AddRecord, AddRecord,
       Memory!Selected, Memory!Selections, Selected, Selections

LEMMA SizeIsNumber == ASSUME NEW r \in Header PROVE Memory!Size(r) \in Nat
<1>1. Word \in Nat
  BY ScanLimits
<1>2. r.lower \in 0 .. Word - 1 /\ r.upper \in 0 .. Word - 1
  BY DEF Header
<1> QED BY <1>1, <1>2 DEF Memory!Size

(* A loop that adds up numbers, after each turn. *)
SizeOfFirst(rs, n) == Memory!Sizes(rs)[n]

LEMMA SizesTurn ==
  ASSUME NEW rs \in Seq(Header)
  PROVE  /\ Memory!Sizes(rs) \in [0 .. Len(rs) -> Nat] /\ SizeOfFirst(rs, 0) = 0
         /\ \A n \in 1 .. Len(rs) :
              SizeOfFirst(rs, n) = SizeOfFirst(rs, n - 1) + Memory!Size(rs[n])
<1> DEFINE s == [n \in 1 .. Len(rs) |-> Memory!Size(rs[n])]
           D == Nat
           f == [p \in D \X Nat |-> p[1] + p[2]]
           Loop(h) == [n \in 0 .. Len(rs) |-> IF n = 0 THEN 0
                                                        ELSE h[n - 1] + Memory!Size(rs[n])]
           u == CHOOSE h : h = Loop(h)
<1>1. Len(rs) \in Nat
  OBVIOUS
<1>2. \A n \in 1 .. Len(rs) : Memory!Size(rs[n]) \in Nat
  BY SizeIsNumber
<1>3. s \in Seq(Nat) /\ Len(s) = Len(rs)
      /\ \A n \in 1 .. Len(rs) : s[n] = Memory!Size(rs[n])
  BY <1>1, <1>2
<1>4. f \in [D \X Nat -> D] /\ 0 \in D
  OBVIOUS
<1>5. Memory!Sizes(rs) = u
  BY DEF Memory!Sizes
<1> HIDE DEF s
<1>6. PICK g \in [0 .. Len(s) -> D] : g[0] = 0 /\ \A n \in 1 .. Len(s) : g[n] = f[<<g[n - 1], s[n]>>]
  <2>1. IsBody(f, D, Nat)
    BY <1>4 DEF IsBody
  <2>2. \E g \in [0 .. Len(s) -> D] : RunsOver(g, f, 0, s)
    <3> HIDE DEF f, D
    <3> QED BY <1>3, <1>4, <2>1, LoopExists, Zenon
  <2> QED BY <2>2 DEF RunsOver
<1>7. \A n \in 0 .. Len(s) : g[n] \in Nat
  BY <1>6
<1>8. ASSUME NEW n \in 1 .. Len(rs) PROVE g[n] = g[n - 1] + Memory!Size(rs[n])
  <2>0. n \in 1 .. Len(s) /\ n - 1 \in 0 .. Len(s)
    BY <1>1, <1>3
  <2>1. g[n - 1] \in Nat /\ s[n] \in Nat /\ s[n] = Memory!Size(rs[n])
    BY <1>2, <1>3, <1>7, <2>0
  <2> QED BY <1>3, <1>6, <2>1
<1>9. g = Loop(g)
  <2>1. ASSUME NEW n \in 0 .. Len(rs) PROVE g[n] = Loop(g)[n]
    <3>1. CASE n = 0
      BY <1>6, <3>1
    <3>2. CASE n # 0
      <4>1. n \in 1 .. Len(rs)
        BY <1>1, <3>2
      <4> QED BY <1>8, <3>2, <4>1
    <3> QED BY <3>1, <3>2
  <2>2. g = [n \in 0 .. Len(rs) |-> g[n]]
    BY <1>3, <1>6
  <2> QED BY <2>1, <2>2
<1>10. u = Loop(u)
  <2> HIDE DEF Loop
  <2> QED BY <1>9
<1> HIDE DEF u
<1>11. DOMAIN u = 0 .. Len(rs) /\ u = [n \in 0 .. Len(rs) |-> u[n]]
  <2>1. DOMAIN Loop(u) = 0 .. Len(rs) /\ Loop(u) = [n \in 0 .. Len(rs) |-> Loop(u)[n]]
    OBVIOUS
  <2> HIDE DEF Loop
  <2> QED BY <1>10, <2>1
<1>12. u[0] = 0 /\ \A n \in 1 .. Len(rs) : u[n] = u[n - 1] + Memory!Size(rs[n])
  <2>1. \A n \in 0 .. Len(rs) : u[n] = Loop(u)[n]
    <3> HIDE DEF Loop
    <3> QED BY <1>10
  <2>2. u[0] = 0
    <3>1. 0 \in 0 .. Len(rs)
      BY <1>1
    <3>2. u[0] = Loop(u)[0]
      <4> HIDE DEF Loop
      <4> QED BY <2>1, <3>1
    <3> QED BY <3>1, <3>2
  <2>3. ASSUME NEW n \in 1 .. Len(rs) PROVE u[n] = u[n - 1] + Memory!Size(rs[n])
    <3>1. n \in 0 .. Len(rs) /\ n # 0
      BY <1>1
    <3> QED BY <2>1, <3>1
  <2> QED BY <2>2, <2>3
<1> HIDE DEF Loop
<1> DEFINE Typed == {n \in 0 .. Len(rs) : u[n] \in Nat}
<1>13. 0 \in Typed
  BY <1>1, <1>12
<1>14. ASSUME NEW n \in 1 .. Len(rs), n - 1 \in Typed PROVE n \in Typed
  BY <1>1, <1>2, <1>12, <1>14
<1>15. 0 .. Len(rs) \subseteq Typed
  <2> HIDE DEF Typed
  <2> QED BY <1>1, <1>13, <1>14, TurnInduction
<1>16. u \in [0 .. Len(rs) -> Nat]
  BY <1>11, <1>15
<1> QED BY <1>5, <1>12, <1>16 DEF SizeOfFirst

(* It never gets less, and more when there is something to add. *)
LEMMA SizesGrow ==
  ASSUME NEW rs \in Seq(Header), NEW i \in 0 .. Len(rs)
  PROVE  \A n \in i .. Len(rs) :
           /\ SizeOfFirst(rs, n) \in Nat /\ SizeOfFirst(rs, i) <= SizeOfFirst(rs, n)
           /\ \A k \in i + 1 .. n : Memory!Size(rs[k]) # 0 => SizeOfFirst(rs, i) < SizeOfFirst(rs, n)
<1> DEFINE N == Len(rs)
           S(n) == Memory!Size(rs[n])
           T == {n \in 0 .. N :
                   n >= i =>
                     /\ SizeOfFirst(rs, i) <= SizeOfFirst(rs, n)
                     /\ \A k \in i + 1 .. n : S(k) # 0 => SizeOfFirst(rs, i) < SizeOfFirst(rs, n)}
<1>1. N \in Nat /\ i \in Nat /\ i <= N
  OBVIOUS
<1>2. /\ \A n \in 0 .. N : SizeOfFirst(rs, n) \in Nat
      /\ \A n \in 1 .. N : SizeOfFirst(rs, n) = SizeOfFirst(rs, n - 1) + S(n)
  BY SizesTurn DEF SizeOfFirst
<1>3. \A n \in 1 .. N : S(n) \in Nat
  BY SizeIsNumber
<1> HIDE DEF N, S
<1>4. 0 \in T
  BY <1>1, <1>2
<1>5. ASSUME NEW n \in 1 .. N, n - 1 \in T PROVE n \in T
  <2>1. n \in Nat /\ n - 1 \in 0 .. N /\ n \in 0 .. N /\ SizeOfFirst(rs, n) = SizeOfFirst(rs, n - 1) + S(n) /\ S(n) \in Nat
        /\ SizeOfFirst(rs, n - 1) \in Nat /\ SizeOfFirst(rs, n) \in Nat /\ SizeOfFirst(rs, i) \in Nat
    BY <1>1, <1>2, <1>3
  <2>2. CASE n = i
    BY <1>1, <2>1, <2>2
  <2>3. CASE n < i
    BY <1>1, <2>1, <2>3
  <2>4. CASE n > i
    <3>1. /\ SizeOfFirst(rs, i) <= SizeOfFirst(rs, n - 1)
          /\ \A k \in i + 1 .. n - 1 : S(k) # 0 => SizeOfFirst(rs, i) < SizeOfFirst(rs, n - 1)
      BY <1>1, <1>5, <2>1, <2>4
    <3>2. SizeOfFirst(rs, i) <= SizeOfFirst(rs, n)
      BY <2>1, <3>1
    <3>3. ASSUME NEW k \in i + 1 .. n, S(k) # 0 PROVE SizeOfFirst(rs, i) < SizeOfFirst(rs, n)
      <4>1. CASE k = n
        BY <2>1, <3>1, <3>3, <4>1
      <4>2. CASE k # n
        <5>1. k \in i + 1 .. n - 1
          BY <1>1, <2>1, <4>2
        <5> QED BY <2>1, <3>1, <3>3, <5>1
      <4> QED BY <4>1, <4>2
    <3> QED BY <2>1, <3>2, <3>3
  <2> QED BY <1>1, <2>1, <2>2, <2>3, <2>4
<1>6. 0 .. N \subseteq T
  <2> HIDE DEF T
  <2> QED BY <1>1, <1>4, <1>5, TurnInduction
<1>7. ASSUME NEW n \in i .. N
      PROVE  /\ SizeOfFirst(rs, n) \in Nat /\ SizeOfFirst(rs, i) <= SizeOfFirst(rs, n)
             /\ \A k \in i + 1 .. n : S(k) # 0 => SizeOfFirst(rs, i) < SizeOfFirst(rs, n)
  <2>1. n \in T /\ n >= i /\ n \in 0 .. N
    BY <1>1, <1>6
  <2> QED BY <1>2, <2>1
<1> QED BY <1>7 DEF N, S

(* The window of a region is no longer than the region and the budget.     *)
LEMMA WindowIs ==
  ASSUME MemTypes, RegionsRight, NEW i \in 1 .. Len(regions.recs)
  PROVE  /\ Lo(i) \in Nat /\ Hi(i) \in Nat
         /\ Hi(i) > Lo(i) =>
              /\ Memory!Size(regions.recs[i]) = Hi(i) - Lo(i)
              /\ Memory!Window(regions.recs[i]) \in 0 .. Hi(i) - Lo(i)
              /\ Memory!Window(regions.recs[i]) <= total_left
         /\ Hi(i) <= Lo(i) => Memory!Size(regions.recs[i]) = 0
<1>1. regions.recs[i] \in Header /\ Word \in Nat /\ RegionLimit \in Nat /\ total_left \in Nat
  BY ScanLimits DEF MemTypes, RegionsRight
<1>2. Lo(i) \in Nat /\ Hi(i) \in Nat
  BY <1>1 DEF Header, Lo, Hi
<1>3. /\ Memory!Size(regions.recs[i]) = IF Hi(i) >= Lo(i) THEN Hi(i) - Lo(i) ELSE 0
      /\ Memory!Window(regions.recs[i]) = Memory!Smaller(Memory!Smaller(Hi(i) - Lo(i), RegionLimit), total_left)
  BY DEF Lo, Hi, Memory!Size, Memory!Window
<1> QED BY <1>1, <1>2, <1>3 DEF Memory!Smaller

LEMMA InitMem == ASSUME Memory!MemInit PROVE MemInv
<1>1. /\ headers \in Headers /\ modules \in Modules /\ memory \in Images /\ pc = "start" /\ rc = 0
      /\ mode = "regions" /\ regions = EmptyTable /\ residents = EmptyTable /\ candidates = EmptyTable
      /\ region = 1 /\ off = 0 /\ total_left = TotalLimit /\ scan_regions = 0 /\ scan_limited = FALSE
      /\ disturbed = FALSE
  BY MemoryOperators DEF Memory!MemInit
<1>2. headers \in Seq(Header) /\ modules \in Seq(Nat) /\ MemoryIsRight(memory)
  BY <1>1, MachineAssumption DEF Header, MemoryIsRight
<1>3. EmptyTable.recs = << >> /\ EmptyTable.truncated = FALSE /\ EmptyTable = [recs |-> << >>, truncated |-> FALSE]
  BY DEF EmptyTable
<1>4. MemTypes
  <2>1. TotalLimit \in 0 .. TotalLimit /\ 0 \in Nat /\ 1 \in Nat \ {0}
    BY ScanLimits
  <2>2. mode \in Memory!Modes /\ ~ Looked
    BY <1>1 DEF Memory!Modes, Looked
  <2> QED BY <1>1, <1>2, <2>1, <2>2 DEF MemTypes
<1>5. regions.recs \in Seq(Header) /\ Len(regions.recs) = 0 /\ 1 .. Len(regions.recs) = {}
  BY <1>1, <1>3
<1>6. RegionsRight
  BY <1>1, <1>3, <1>5, ScanLimits DEF RegionsRight, Before, Looked
<1>7. residents.recs \in Seq(Nat) /\ Len(residents.recs) = 0
  BY <1>1, <1>3
<1>8. ResidentsRight
  BY <1>1, <1>3, <1>7, ScanLimits DEF ResidentsRight, Before, Looked
<1>9. candidates.recs \in Seq(Candidate) /\ Len(candidates.recs) = 0 /\ 1 .. Len(candidates.recs) = {}
  BY <1>1, <1>3
<1>10. FoundRight
  BY <1>1, <1>3, <1>9, ScanLimits DEF FoundRight
<1>11. FoundAll
  BY <1>1, <1>3, <1>5 DEF FoundAll
<1>12. PlaceRight
  BY <1>1, <1>5 DEF PlaceRight, Before, Looked
<1>13. BudgetRight
  <2>1. TotalSize(0) = 0
    BY <1>5, SizesTurn DEF TotalSize, SizeOfFirst
  <2> QED BY <1>1, <2>1, ScanLimits DEF BudgetRight, Charged
<1>14. ReportRight
  BY <1>1 DEF ReportRight
<1> QED BY <1>4, <1>6, <1>8, <1>10, <1>11, <1>12, <1>13, <1>14 DEF MemInv

LEMMA StepMemStart ==
  ASSUME MemInv, Memory!Start
  PROVE  MemInv'
<1>1. /\ pc = "start" /\ headers' = headers /\ modules' = modules /\ memory' = memory
      /\ regions' = regions /\ residents' = residents /\ candidates' = candidates
      /\ region' = region /\ off' = off /\ total_left' = total_left /\ scan_regions' = scan_regions
      /\ scan_limited' = scan_limited /\ shown' = shown /\ image' = image /\ disturbed' = disturbed
      /\ \/ pc' = "exit" /\ rc' \in {10, 20} /\ mode' = mode
         \/ pc' = "snapshot" /\ mode' \in Memory!Modes /\ rc' = rc
  BY DEF Memory!Start, Memory!tables, Memory!scanVars, Memory!history
<1>2. Before /\ ~ Looked'
  BY <1>1 DEF Before, Looked
<1>3. /\ regions = EmptyTable /\ candidates = EmptyTable /\ region = 1 /\ total_left = TotalLimit
      /\ scan_regions = 0 /\ ~ scan_limited /\ ~ disturbed
  BY <1>2 DEF MemInv, RegionsRight, PlaceRight
<1>4. Len(regions.recs) = 0 /\ Len(candidates.recs) = 0 /\ 1 .. 0 = {}
  BY <1>3 DEF EmptyTable
<1>5. MemTypes'
  BY <1>1, <1>2 DEF MemInv, MemTypes, MemoryIsRight
<1>6. RegionsRight' /\ ResidentsRight'
  BY <1>1, <1>2 DEF MemInv, RegionsRight, ResidentsRight
<1>7. FoundRight' /\ FoundAll'
  BY <1>1, <1>3, <1>4 DEF MemInv, FoundRight, FoundAll
<1>8. PlaceRight'
  BY <1>1, <1>2, <1>3 DEF MemInv, PlaceRight, Before
<1>9. BudgetRight'
  BY <1>1, <1>3 DEF MemInv, BudgetRight, Charged, TotalSize
<1>10. ReportRight'
  BY <1>1 DEF ReportRight
<1> QED BY <1>5, <1>6, <1>7, <1>8, <1>9, <1>10 DEF MemInv

LEMMA StepTake ==
  ASSUME MemInv, Memory!TakeSnapshot
  PROVE  MemInv'
<1> DEFINE seen == SubSeq(modules, 1, Memory!Smaller(Len(modules), MaxModules))
           listed == Selected(seen, Memory!Residents(memory))
<1>1. /\ pc = "snapshot" /\ headers' = headers /\ modules' = modules /\ memory' = memory
      /\ regions' = AddRecords(regions, headers, MaxRegions)
      /\ residents' = AddRecords(residents, listed, MaxResidents)
      /\ pc' = IF mode = "scan" THEN "regions" ELSE "print"
      /\ image' = memory /\ rc' = rc /\ mode' = mode /\ candidates' = candidates
      /\ region' = region /\ off' = off /\ total_left' = total_left /\ scan_regions' = scan_regions
      /\ scan_limited' = scan_limited /\ shown' = shown /\ disturbed' = disturbed
  BY MemoryOperators DEF Memory!TakeSnapshot, Memory!scanVars
<1>2. Before /\ Looked' /\ ~ Before'
  BY <1>1 DEF Before, Looked
<1>3. /\ regions = EmptyTable /\ residents = EmptyTable /\ candidates = EmptyTable /\ region = 1
      /\ total_left = TotalLimit /\ scan_regions = 0 /\ ~ scan_limited /\ ~ disturbed
  BY <1>2 DEF MemInv, RegionsRight, ResidentsRight, PlaceRight
<1>4. /\ headers \in Seq(Header) /\ modules \in Seq(Nat) /\ MaxRegions \in Nat /\ MaxResidents \in Nat
      /\ MaxModules \in Nat
  BY ScanLimits DEF MemInv, MemTypes
<1>5. regions' \in Tables(Header, MaxRegions) /\ FirstOf(regions', headers, MaxRegions)
  BY <1>1, <1>3, <1>4, FirstRecords
<1>6. MemTypes'
  BY <1>1, <1>2, <1>3 DEF MemInv, MemTypes, MemoryIsRight
<1>7. RegionsRight'
  <2>1. regions'.recs \in Seq(Header) /\ Len(regions'.recs) <= MaxRegions /\ regions'.truncated \in BOOLEAN
    BY <1>5 DEF Tables
  <2>2. /\ \A i \in 1 .. Len(regions'.recs) : i \in 1 .. Len(headers) /\ regions'.recs[i] = headers[i]
        /\ regions'.truncated <=> Len(headers) > MaxRegions
        /\ ~ regions'.truncated => regions'.recs = headers
    BY <1>4, <1>5, <2>1 DEF FirstOf
  <2> QED BY <1>1, <1>2, <2>1, <2>2 DEF RegionsRight
<1>8. ResidentsRight'
  <2>1. /\ seen \in Seq(Nat) /\ Len(seen) <= Len(modules)
        /\ Len(modules) <= MaxModules => seen = modules
    <3>1. /\ Len(modules) \in Nat /\ Memory!Smaller(Len(modules), MaxModules) \in 0 .. Len(modules)
          /\ Len(modules) <= MaxModules => Memory!Smaller(Len(modules), MaxModules) = Len(modules)
      BY <1>4 DEF Memory!Smaller
    <3> DEFINE n == Memory!Smaller(Len(modules), MaxModules)
    <3> HIDE DEF n
    <3>2. n \in 0 .. Len(modules)
      BY <3>1 DEF n
    <3>3. /\ SubSeq(modules, 1, n) \in Seq(Nat) /\ Len(SubSeq(modules, 1, n)) = n
          /\ \A i \in 1 .. n : SubSeq(modules, 1, n)[i] = modules[i]
      BY <1>4, <3>2
    <3>4. ASSUME n = Len(modules) PROVE SubSeq(modules, 1, n) = modules
      <4>1. Len(SubSeq(modules, 1, n)) = Len(modules)
            /\ \A i \in 1 .. Len(SubSeq(modules, 1, n)) : SubSeq(modules, 1, n)[i] = modules[i]
        BY <3>3, <3>4
      <4> QED BY <1>4, <3>3, <4>1, SameSequence, Zenon
    <3> QED BY <3>1, <3>2, <3>3, <3>4 DEF n
  <2> HIDE DEF seen
  <2>2. /\ listed \in Seq(Nat) /\ Len(listed) <= Len(seen)
        /\ ToSet(listed) = ToSet(seen) \intersect Memory!Residents(memory)
    <3> DEFINE T == Memory!Residents(memory)
    <3> HIDE DEF T
    <3>1. /\ Selected(seen, T) \in Seq(Nat) /\ Len(Selected(seen, T)) <= Len(seen)
          /\ ToSet(Selected(seen, T)) = ToSet(seen) \intersect T
      BY <2>1, SelectedElements, ZenonT(60)
    <3> QED BY <3>1 DEF T
  <2> HIDE DEF listed
  <2>3. residents' \in Tables(Nat, MaxResidents) /\ FirstOf(residents', listed, MaxResidents)
    BY <1>1, <1>3, <1>4, <2>2, FirstRecords
  <2>4. residents'.recs \in Seq(Nat) /\ Len(residents'.recs) <= MaxResidents /\ residents'.truncated \in BOOLEAN
    BY <2>3 DEF Tables
  <2>5. residents'.truncated => Len(modules) > MaxResidents
    <3>1. Len(listed) \in Nat /\ Len(seen) \in Nat /\ Len(modules) \in Nat
      BY <1>4, <2>1, <2>2
    <3> QED BY <1>4, <2>1, <2>2, <2>3, <3>1 DEF FirstOf
  <2>6. ASSUME ~ residents'.truncated, Len(modules) <= MaxModules
        PROVE  ToSet(residents'.recs) = ToSet(modules) \intersect Memory!Residents(memory)
    <3>1. seen = modules
      BY <2>1, <2>6
    <3>2. residents'.recs = listed
      BY <2>3, <2>6 DEF FirstOf
    <3> QED BY <2>2, <3>1, <3>2
  <2>7. Memory!Residents(image)' = Memory!Residents(memory)
    BY <1>1 DEF Memory!Residents, Memory!IsResident
  <2>8. ToSet(residents.recs)' = ToSet(residents'.recs) /\ ToSet(modules)' = ToSet(modules)
    BY <1>1 DEF ToSet
  <2> QED BY <1>1, <1>2, <2>4, <2>5, <2>6, <2>7, <2>8 DEF ResidentsRight
<1>9. Len(candidates.recs) = 0 /\ 1 .. 0 = {} /\ candidates.truncated = FALSE
  BY <1>3 DEF EmptyTable
<1>10. FoundRight'
  BY <1>1, <1>9 DEF MemInv, FoundRight
<1>11. FoundAll'
  <2>1. Len(regions'.recs) \in Nat
    BY <1>7 DEF RegionsRight
  <2>2. \A i \in 1 .. Len(regions'.recs) : ~ (i < region') /\ pc' # "words"
    BY <1>1, <1>3, <2>1
  <2>3. \A i \in 1 .. Len(regions'.recs) : \A a \in DOMAIN image' : ~ Behind(a, i)'
    BY <2>2 DEF Behind
  <2> QED BY <1>1, <1>9, <2>3 DEF FoundAll
<1>12. PlaceRight'
  <2>1. Len(regions'.recs) \in Nat
    BY <1>7 DEF RegionsRight
  <2> QED BY <1>1, <1>2, <1>3, <1>9, <2>1 DEF MemInv, PlaceRight, MemTypes
<1>13. BudgetRight'
  <2>1. TotalSize(0)' = 0
    <3>1. regions'.recs \in Seq(Header)
      BY <1>7 DEF RegionsRight
    <3> QED BY SizesTurn, <3>1 DEF TotalSize, SizeOfFirst
  <2> QED BY <1>1, <1>3, <2>1, ScanLimits DEF BudgetRight, Charged
<1>14. ReportRight'
  BY <1>1 DEF ReportRight
<1> QED BY <1>6, <1>7, <1>8, <1>10, <1>11, <1>12, <1>13, <1>14 DEF MemInv

(* What a scan that takes a step leaves alone. *)
LEMMA ScanLeaves ==
  ASSUME MemInv, headers' = headers, modules' = modules, memory' = memory, mode' = mode,
         regions' = regions, residents' = residents, image' = image, disturbed' = disturbed,
         pc \in {"regions", "words", "scanned"}, pc' \in {"regions", "words", "scanned", "print"},
         rc' = rc
  PROVE  RegionsRight' /\ ResidentsRight' /\ ReportRight' /\ Looked /\ Looked' /\ ~ Before' /\ mode = "scan"
<1>1. Looked /\ Looked' /\ ~ Before'
  BY DEF Looked, Before
<1>2. RegionsRight'
  BY <1>1 DEF MemInv, RegionsRight
<1>3. ResidentsRight'
  <2>1. /\ ToSet(residents.recs)' = ToSet(residents.recs) /\ ToSet(modules)' = ToSet(modules)
        /\ Memory!Residents(image)' = Memory!Residents(image)
    BY DEF ToSet, Memory!Residents, Memory!IsResident
  <2> QED BY <1>1, <2>1 DEF MemInv, ResidentsRight
<1>4. ReportRight'
  BY DEF ReportRight
<1>5. mode = "scan"
  BY DEF MemInv, PlaceRight
<1> QED BY <1>1, <1>2, <1>3, <1>4, <1>5

LEMMA StepNextRegion ==
  ASSUME MemInv, Memory!NextRegion
  PROVE  MemInv'
<1> DEFINE Full == Hi(region) > Lo(region)
           N == Len(regions.recs)
           Enters == Full /\ Memory!Window(regions.recs[region]) >= MinSize
<1>1. /\ pc = "regions" /\ region <= N /\ headers' = headers /\ modules' = modules /\ memory' = memory
      /\ rc' = rc /\ mode' = mode /\ regions' = regions /\ residents' = residents /\ candidates' = candidates
      /\ total_left' = total_left /\ scan_regions' = scan_regions /\ shown' = shown /\ image' = image
      /\ disturbed' = disturbed
      /\ scan_limited' = (scan_limited \/ (Full /\ Cut(region)))
      /\ \/ Enters /\ pc' = "words" /\ off' = 0 /\ region' = region
         \/ ~ Enters /\ region' = region + 1 /\ pc' = pc /\ off' = off
  BY DEF Memory!NextRegion, Memory!tables, Memory!history, Memory!CutShort, Lo, Hi, Cut
<1>2. /\ RegionsRight' /\ ResidentsRight' /\ ReportRight' /\ Looked /\ Looked' /\ ~ Before'
      /\ mode = "scan"
  BY <1>1, ScanLeaves
<1>3. region \in 1 .. N /\ N \in Nat /\ MinSize \in Nat \ {0}
  BY <1>1, ScanLimits DEF MemInv, MemTypes, RegionsRight
<1>4. /\ Lo(region) \in Nat /\ Hi(region) \in Nat
      /\ Full => /\ Memory!Size(regions.recs[region]) = Hi(region) - Lo(region)
                 /\ Memory!Window(regions.recs[region]) \in 0 .. Hi(region) - Lo(region)
      /\ ~ Full => Memory!Size(regions.recs[region]) = 0
  BY <1>3, WindowIs DEF MemInv
<1>5. \A i \in 1 .. N : Lo(i) \in Nat /\ Hi(i) \in Nat
  BY WindowIs DEF MemInv
<1>6. \A i, a : /\ Lo(i)' = Lo(i) /\ Hi(i)' = Hi(i) /\ Cut(i)' = Cut(i)
                /\ TrueAt(a, i)' = TrueAt(a, i) /\ IsFound(a, i)' = IsFound(a, i)
  BY <1>1 DEF Lo, Hi, TrueAt, IsFound, Cut, Memory!Window, Memory!Smaller
<1>7. MemTypes'
  BY <1>1, <1>2, <1>3 DEF MemInv, MemTypes, MemoryIsRight
<1>8. FoundRight'
  <2>1. \A i \in 1 .. N : \A a : Behind(a, i) => Behind(a, i)'
    BY <1>1, <1>3, <1>6 DEF Behind
  <2>2. \A a : Memory!Registered(a)' = Memory!Registered(a)
    BY <1>1 DEF Memory!Registered
  <2> QED BY <1>1, <1>6, <2>1, <2>2 DEF MemInv, FoundRight
<1>9. FoundAll'
  <2>1. ASSUME ~ disturbed, ~ scan_limited', ~ candidates.truncated,
               NEW i \in 1 .. N, NEW a \in DOMAIN image, TrueAt(a, i), Behind(a, i)'
        PROVE  IsFound(a, i)
    <3>1. ~ scan_limited /\ (Full => ~ Cut(region))
      BY <1>1, <2>1
    <3>2. CASE i < region
      BY <2>1, <3>1, <3>2 DEF MemInv, FoundAll, Behind
    <3>3. CASE ~ (i < region)
      <4>0. a \in Nat
        <5>1. image = memory
          BY <1>2, <2>1 DEF MemInv, MemTypes
        <5> QED BY <5>1 DEF MemInv, MemTypes, MemoryIsRight
      <4>1. a >= Lo(i) /\ a + MinSize <= Hi(i)
        BY <2>1 DEF TrueAt
      <4>2. i = region
        BY <1>1, <1>3, <2>1, <3>3 DEF Behind
      <4>3. Full
        BY <1>3, <1>4, <4>0, <4>1, <4>2
      <4>4. ~ Enters
        <5>1. Enters => ~ (a < Lo(i) + 0)
          BY <1>5, <4>0, <4>1
        <5> QED BY <1>1, <1>3, <1>6, <2>1, <4>2, <5>1 DEF Behind
      <4>5. Memory!Window(regions.recs[region]) = Hi(region) - Lo(region)
        BY <1>4, <3>1, <4>3 DEF Cut
      <4> QED BY <1>3, <1>4, <4>0, <4>1, <4>2, <4>3, <4>4, <4>5
    <3> QED BY <3>2, <3>3
  <2>2. ASSUME ~ disturbed, candidates.truncated
        PROVE  \E i \in 1 .. N : \E a \in DOMAIN image : TrueAt(a, i) /\ ~ IsFound(a, i)
    BY <2>2 DEF MemInv, FoundAll
  <2> QED BY <1>1, <1>6, <2>1, <2>2 DEF FoundAll
<1>10. PlaceRight'
  <2>1. region' <= N + 1
    BY <1>1, <1>3
  <2>2. ASSUME pc' = "words"
        PROVE  region' = region /\ region <= N /\ Full /\ off' % 2 = 0 /\ (Cut(region) => scan_limited')
    <3>1. Full /\ off' = 0 /\ region' = region
      BY <1>1, <2>2
    <3>2. 0 % 2 = 0
      OBVIOUS
    <3> HIDE DEF Full
    <3> QED BY <1>1, <3>1, <3>2
  <2>3. pc' \in {"regions", "words"}
    BY <1>1
  <2> QED BY <1>1, <1>2, <1>6, <2>1, <2>2, <2>3 DEF PlaceRight
<1>11. BudgetRight'
  <2>1. /\ TotalSize(region - 1) \in Nat /\ TotalSize(region) = TotalSize(region - 1) + Memory!Size(regions.recs[region])
        /\ regions.recs \in Seq(Header) /\ Memory!Size(regions.recs[region]) \in Nat
    <3>1. regions.recs \in Seq(Header) /\ region - 1 \in 0 .. N
      BY <1>3 DEF MemInv, RegionsRight
    <3>2. /\ Memory!Sizes(regions.recs) \in [0 .. N -> Nat]
          /\ \A n \in 1 .. N : TotalSize(n) = TotalSize(n - 1) + Memory!Size(regions.recs[n])
      BY <3>1, SizesTurn DEF TotalSize, SizeOfFirst
    <3>3. regions.recs[region] \in Header
      BY <1>3, <3>1
    <3>4. Memory!Size(regions.recs[region]) \in Nat
      BY <3>3, SizeIsNumber
    <3>5. TotalSize(region - 1) \in Nat
      BY <3>1, <3>2 DEF TotalSize
    <3> QED BY <1>3, <3>1, <3>2, <3>4, <3>5
  <2>2. Charged' = Charged /\ Charged \in Int /\ \A n : TotalSize(n)' = TotalSize(n) /\ ZeroBefore(n)' = ZeroBefore(n)
    BY <1>1, ScanLimits DEF MemInv, MemTypes, Charged, TotalSize, ZeroBefore, Memory!Sizes, Memory!Size
  <2>3. /\ Charged <= TotalSize(region - 1) /\ scan_regions \in Nat /\ scan_regions <= region - 1
        /\ scan_limited => Charged < TotalSize(region - 1)
        /\ scan_regions < region - 1 => Charged < TotalSize(region - 1) \/ ZeroBefore(region - 1)
    BY <1>1 DEF MemInv, MemTypes, BudgetRight
  <2>4. CASE Enters
    <3>1. pc' = "words" /\ region' = region
      BY <1>1, <2>4
    <3>2. scan_limited' => Charged < TotalSize(region - 1) \/ Cut(region)
      BY <1>1, <2>3
    <3> QED BY <1>1, <1>6, <2>2, <2>3, <3>1, <3>2 DEF BudgetRight
  <2>5. CASE ~ Enters
    <3>1. pc' = "regions" /\ region' - 1 = region /\ region' = region + 1
      <4>1. pc' = "regions" /\ region' = region + 1
        BY <1>1, <2>5
      <4>2. region \in Nat
        BY <1>3
      <4> QED BY <4>1, <4>2
    <3>2. Charged <= TotalSize(region) /\ (scan_limited' => Charged < TotalSize(region))
      <4>1. Full => Memory!Size(regions.recs[region]) # 0
        BY <1>4
      <4>2. scan_limited' => scan_limited \/ Full
        BY <1>1
      <4> HIDE DEF Full
      <4> QED BY <2>1, <2>2, <2>3, <4>1, <4>2
    <3>3. Charged < TotalSize(region) \/ ZeroBefore(region)
      <4>1. CASE Full
        BY <1>4, <2>1, <2>2, <2>3, <4>1
      <4>2. CASE ~ Full
        <5>1. Memory!Size(regions.recs[region]) = 0 /\ region \in 1 .. region
          BY <1>3, <1>4, <4>2
        <5> QED BY <5>1 DEF ZeroBefore
      <4> QED BY <4>1, <4>2
    <3>4. scan_regions <= region
      BY <1>3, <2>3
    <3> HIDE DEF Enters, Full
    <3> QED BY <1>1, <2>2, <3>1, <3>2, <3>3, <3>4 DEF BudgetRight
  <2> QED BY <2>4, <2>5
<1> QED BY <1>2, <1>7, <1>8, <1>9, <1>10, <1>11 DEF MemInv


LEMMA StepScanWord ==
  ASSUME MemInv, Memory!ScanWord
  PROVE  MemInv'
<1> DEFINE N == Len(regions.recs)
           n == Len(candidates.recs)
           a == Lo(region) + off
           c == [address |-> a, region |-> region, registered |-> Memory!Registered(a)]
           Is == Memory!IsCandidate(memory, a, Hi(region))
<1>1. /\ pc = "words" /\ ~ candidates.truncated /\ headers' = headers /\ modules' = modules /\ memory' = memory
      /\ pc' = pc /\ rc' = rc /\ mode' = mode /\ regions' = regions /\ residents' = residents
      /\ region' = region /\ total_left' = total_left /\ scan_regions' = scan_regions
      /\ scan_limited' = scan_limited /\ shown' = shown /\ image' = image /\ disturbed' = disturbed
      /\ off' = off + 2 /\ off + MinSize <= Memory!Window(regions.recs[region])
      /\ candidates' = IF Is THEN AddRecord(candidates, c, MaxCandidates) ELSE candidates
  BY MemoryOperators DEF Memory!ScanWord, Memory!HasRoom, Memory!history, Lo, Hi
<1>2. /\ RegionsRight' /\ ResidentsRight' /\ ReportRight' /\ Looked /\ Looked' /\ ~ Before'
      /\ mode = "scan"
  BY <1>1, ScanLeaves
<1>3. /\ region \in 1 .. N /\ N \in Nat /\ n \in Nat /\ MinSize \in Nat \ {0} /\ MaxCandidates \in Nat
      /\ off \in Nat /\ off % 2 = 0 /\ Hi(region) > Lo(region) /\ n <= MaxCandidates
      /\ candidates.recs \in Seq(Candidate)
      /\ candidates = [recs |-> candidates.recs, truncated |-> FALSE]
  <2>1. /\ region \in Nat \ {0} /\ region <= N /\ off \in Nat /\ off % 2 = 0 /\ Hi(region) > Lo(region)
        /\ regions.recs \in Seq(Header)
    BY <1>1 DEF MemInv, MemTypes, RegionsRight, PlaceRight
  <2>2. /\ n <= MaxCandidates /\ candidates.recs \in Seq(Candidate)
        /\ candidates = [recs |-> candidates.recs, truncated |-> candidates.truncated]
        /\ candidates.truncated = FALSE
    BY <1>1 DEF MemInv, FoundRight
  <2> QED BY <2>1, <2>2, ScanLimits
<1>4. /\ Lo(region) \in Nat /\ Hi(region) \in Nat
      /\ Memory!Window(regions.recs[region]) \in 0 .. Hi(region) - Lo(region)
  BY <1>3, WindowIs DEF MemInv
<1>5. a \in Nat /\ a >= Lo(region) /\ (a - Lo(region)) % 2 = 0 /\ a + MinSize <= Hi(region)
  <2>1. a - Lo(region) = off
    BY <1>3, <1>4
  <2> QED BY <1>1, <1>3, <1>4, <2>1
<1>6. \A i, b : /\ Lo(i)' = Lo(i) /\ Hi(i)' = Hi(i) /\ Cut(i)' = Cut(i) /\ TrueAt(b, i)' = TrueAt(b, i)
                /\ Memory!Registered(b)' = Memory!Registered(b)
  BY <1>1 DEF Lo, Hi, TrueAt, Cut, Memory!Window, Memory!Smaller, Memory!Registered
<1>7. \A b, i : /\ Behind(b, i) <=> i < region \/ (i = region /\ b < Lo(region) + off)
                /\ Behind(b, i)' <=> i < region \/ (i = region /\ b < Lo(region) + (off + 2))
  <2>1. ASSUME NEW b, NEW i PROVE Behind(b, i) <=> i < region \/ (i = region /\ b < Lo(region) + off)
    BY <1>1 DEF Behind
  <2>2. ASSUME NEW b, NEW i PROVE Behind(b, i)' <=> i < region \/ (i = region /\ b < Lo(region) + (off + 2))
    BY <1>1, <1>6 DEF Behind
  <2> QED BY <2>1, <2>2
<1>8. ~ Behind(a, region) /\ a < Lo(region) + (off + 2)
  BY <1>3, <1>4, <1>7, SMTT(30)
<1>9. ASSUME ~ disturbed
      PROVE  image = memory /\ (Is <=> TrueAt(a, region)) /\ DOMAIN image \subseteq Nat
  <2>1. image = memory /\ MemoryIsRight(memory)
    BY <1>2, <1>9 DEF MemInv, MemTypes
  <2> HIDE DEF a
  <2> QED BY <1>5, <2>1 DEF TrueAt, MemoryIsRight, Memory!IsCandidate, Memory!IsResident
<1>10. c \in Candidate
  <2>1. Memory!Registered(a) \in BOOLEAN
    BY DEF Memory!Registered
  <2> HIDE DEF a
  <2> QED BY <1>3, <1>5, <2>1 DEF Candidate
<1>11. c.address = a /\ c.region = region /\ (c.registered <=> Memory!Registered(a))
  OBVIOUS
<1> HIDE DEF a, c, Is
<1>12. \/ candidates' = candidates /\ ~ Is
       \/ Is /\ n < MaxCandidates /\ candidates' = [recs |-> Append(candidates.recs, c), truncated |-> FALSE]
       \/ Is /\ n = MaxCandidates /\ candidates' = [recs |-> candidates.recs, truncated |-> TRUE]
  <2>1. CASE ~ Is
    BY <1>1, <2>1
  <2>2. CASE Is /\ n < MaxCandidates
    <3>1. candidates' = [candidates EXCEPT !.recs = Append(candidates.recs, c)]
      BY <1>1, <1>3, <2>2 DEF AddRecord
    <3>0. PICK old, added : old = candidates.recs /\ added = Append(candidates.recs, c)
      OBVIOUS
    <3>2. candidates = [recs |-> old, truncated |-> FALSE] /\ candidates' = [candidates EXCEPT !.recs = added]
      BY <1>3, <3>0, <3>1
    <3>3. candidates' = [recs |-> added, truncated |-> FALSE]
      BY <3>2
    <3> QED BY <2>2, <3>0, <3>3
  <2>3. CASE Is /\ n = MaxCandidates
    <3>1. candidates' = [candidates EXCEPT !.truncated = TRUE]
      BY <1>1, <1>3, <2>3 DEF AddRecord
    <3> QED BY <1>3, <2>3, <3>1
  <2> QED BY <1>3, <2>1, <2>2, <2>3
<1>13. MemTypes'
  BY <1>1, <1>2, <1>3 DEF MemInv, MemTypes, MemoryIsRight
<1>14. /\ candidates'.recs \in Seq(Candidate) /\ Len(candidates'.recs) <= MaxCandidates
       /\ candidates'.truncated \in BOOLEAN
       /\ candidates' = [recs |-> candidates'.recs, truncated |-> candidates'.truncated]
       /\ \A k \in 1 .. n : k \in 1 .. Len(candidates'.recs) /\ candidates'.recs[k] = candidates.recs[k]
       /\ \A k \in 1 .. Len(candidates'.recs) :
            \/ k \in 1 .. n
            \/ k = n + 1 /\ candidates'.recs[k] = c /\ Is
       /\ ~ candidates'.truncated /\ Is => n + 1 \in 1 .. Len(candidates'.recs) /\ candidates'.recs[n + 1] = c
       /\ candidates'.truncated => Is /\ candidates'.recs = candidates.recs
  <2>1. CASE candidates' = candidates /\ ~ Is
    <3>1. candidates'.truncated = FALSE
      BY <1>3, <2>1
    <3> QED BY <1>3, <2>1, <3>1
  <2>2. CASE Is /\ candidates' = [recs |-> candidates.recs, truncated |-> TRUE]
    BY <1>3, <2>2
  <2>3. CASE /\ Is /\ n < MaxCandidates
             /\ candidates' = [recs |-> Append(candidates.recs, c), truncated |-> FALSE]
    <3> DEFINE s == Append(candidates.recs, c)
    <3>1. /\ s \in Seq(Candidate) /\ Len(s) = n + 1 /\ s[n + 1] = c
          /\ \A k \in 1 .. n : s[k] = candidates.recs[k]
      BY <1>3, <1>10
    <3> HIDE DEF s
    <3>2. candidates'.recs = s /\ candidates'.truncated = FALSE /\ candidates' = [recs |-> s, truncated |-> FALSE]
      BY <2>3 DEF s
    <3> QED BY <1>3, <2>3, <3>1, <3>2
  <2> QED BY <1>12, <2>1, <2>2, <2>3
<1>15. \A k \in 1 .. n :
         /\ candidates.recs[k].region \in 1 .. N /\ candidates.recs[k].address \in Nat
         /\ Behind(candidates.recs[k].address, candidates.recs[k].region)
         /\ candidates.recs[k].registered <=> Memory!Registered(candidates.recs[k].address)
         /\ ~ disturbed => TrueAt(candidates.recs[k].address, candidates.recs[k].region)
  <2>1. \A k \in 1 .. n : candidates.recs[k] \in Candidate
    BY <1>3
  <2> QED BY <2>1 DEF MemInv, FoundRight, Candidate
<1>16. FoundRight'
  <2>0. PICK new : new = candidates'.recs
    OBVIOUS
  <2>1. ASSUME NEW k \in 1 .. Len(new)
        PROVE  /\ new[k].region \in 1 .. N
               /\ Behind(new[k].address, new[k].region)'
               /\ new[k].registered <=> Memory!Registered(new[k].address)
               /\ ~ disturbed => TrueAt(new[k].address, new[k].region)
    <3>1. CASE k \in 1 .. n
      <4>0. PICK d : d = candidates.recs[k]
        OBVIOUS
      <4>1. /\ d.region \in 1 .. N /\ d.address \in Nat /\ Behind(d.address, d.region)
            /\ d.registered <=> Memory!Registered(d.address)
            /\ ~ disturbed => TrueAt(d.address, d.region)
        BY <1>15, <3>1, <4>0
      <4>2. new[k] = d
        BY <1>14, <2>0, <3>1, <4>0
      <4>3. Behind(d.address, d.region)'
        <5>1. d.region < region \/ (d.region = region /\ d.address < Lo(region) + off)
          BY <1>7, <4>1
        <5>2. d.region < region \/ (d.region = region /\ d.address < Lo(region) + (off + 2))
          <6>1. PICK here, there : here = d.address /\ there = Lo(region)
            OBVIOUS
          <6>2. here \in Nat /\ there \in Nat /\ off \in Nat
            BY <1>3, <1>4, <4>1, <6>1
          <6>3. here < there + off => here < there + (off + 2)
            BY <6>2
          <6> QED BY <5>1, <6>1, <6>3
        <5> QED BY <1>7, <5>2
      <4> QED BY <4>1, <4>2, <4>3
    <3>2. CASE k = n + 1 /\ new[k] = c /\ Is
      <4>1. Behind(new[k].address, new[k].region)'
        BY <1>7, <1>8, <1>11, <3>2
      <4>2. /\ new[k].region \in 1 .. N
            /\ new[k].registered <=> Memory!Registered(new[k].address)
            /\ ~ disturbed => TrueAt(new[k].address, new[k].region)
        BY <1>3, <1>9, <1>11, <3>2
      <4> QED BY <4>1, <4>2
    <3> QED BY <1>14, <2>0, <3>1, <3>2
  <2>2. ASSUME NEW k \in 1 .. Len(candidates'.recs), NEW l \in 1 .. Len(candidates'.recs),
               candidates'.recs[k].address = candidates'.recs[l].address,
               candidates'.recs[k].region = candidates'.recs[l].region
        PROVE  k = l
    <3>1. ASSUME NEW m \in 1 .. n
          PROVE  ~ (candidates.recs[m].address = a /\ candidates.recs[m].region = region)
      BY <1>8, <1>15, <3>1
    <3>2. CASE k \in 1 .. n /\ l \in 1 .. n
      BY <1>14, <2>2, <3>2 DEF MemInv, FoundRight
    <3>3. CASE k = n + 1 /\ l = n + 1
      BY <3>3
    <3>4. CASE k \in 1 .. n /\ l = n + 1 /\ candidates'.recs[l] = c
      BY <1>11, <1>14, <2>2, <3>1, <3>4
    <3>5. CASE l \in 1 .. n /\ k = n + 1 /\ candidates'.recs[k] = c
      BY <1>11, <1>14, <2>2, <3>1, <3>5
    <3> QED BY <1>14, <3>2, <3>3, <3>4, <3>5
  <2>3. \A k \in 1 .. Len(new) : new[k].registered <=> Memory!Registered(new[k].address)'
    BY <1>6, <2>1
  <2>4. \A k \in 1 .. Len(new) : ~ disturbed => TrueAt(new[k].address, new[k].region)'
    BY <1>6, <2>1
  <2>5. Len(candidates.recs)' = Len(new) /\ candidates'.recs = new
    BY <2>0
  <2> QED BY <1>1, <1>14, <2>1, <2>2, <2>3, <2>4, <2>5 DEF FoundRight
<1>17. \A b, i : IsFound(b, i) => IsFound(b, i)'
  BY <1>14 DEF IsFound
<1>18. FoundAll'
  <2>1. ASSUME ~ disturbed, ~ scan_limited, ~ candidates'.truncated,
               NEW i \in 1 .. N, NEW b \in DOMAIN image, TrueAt(b, i), Behind(b, i)'
        PROVE  IsFound(b, i)'
    <3>1. CASE Behind(b, i)
      BY <1>1, <1>17, <2>1, <3>1 DEF MemInv, FoundAll
    <3>2. CASE ~ Behind(b, i)
      <4>1. b \in Nat /\ i = region /\ b >= Lo(region) + off /\ b < Lo(region) + off + 2
        <5>1. b \in Nat
          BY <1>9, <2>1
        <5> QED BY <1>3, <1>4, <1>7, <2>1, <3>2, <5>1
      <4>2. (b - Lo(region)) % 2 = 0
        BY <2>1, <4>1 DEF TrueAt
      <4>3. b = a
        <5>1. b - Lo(region) \in {off, off + 1}
          BY <1>3, <1>4, <4>1
        <5>3. (off + 1) % 2 = 1
          BY <1>3
        <5>2. b - Lo(region) = off
          BY <4>2, <5>1, <5>3
        <5> QED BY <1>3, <1>4, <4>1, <5>2 DEF a
      <4>4. Is
        BY <1>9, <2>1, <4>1, <4>3
      <4> QED BY <1>11, <1>14, <2>1, <4>1, <4>3, <4>4 DEF IsFound
    <3> QED BY <3>1, <3>2
  <2>2. ASSUME ~ disturbed, candidates'.truncated
        PROVE  \E i \in 1 .. N : \E b \in DOMAIN image : TrueAt(b, i) /\ ~ IsFound(b, i)'
    <3>1. Is /\ candidates'.recs = candidates.recs
      BY <1>14, <2>2
    <3>2. TrueAt(a, region) /\ a \in DOMAIN image
      BY <1>9, <2>2, <3>1 DEF TrueAt
    <3> PICK p : p = a
      OBVIOUS
    <3> PICK q : q = region
      OBVIOUS
    <3>3. ~ IsFound(p, q)'
      BY <1>8, <1>15, <3>1 DEF IsFound
    <3> QED BY <1>3, <3>2, <3>3
  <2> QED BY <1>1, <1>6, <2>1, <2>2 DEF FoundAll
<1>19. PlaceRight'
  <2>1. off' % 2 = 0
    BY <1>1, <1>3
  <2>2. region <= N /\ (Cut(region) => scan_limited)
    BY <1>1 DEF MemInv, PlaceRight
  <2> QED BY <1>1, <1>2, <1>3, <1>6, <2>1, <2>2 DEF PlaceRight
<1>20. BudgetRight'
  <2>1. Charged' = Charged /\ \A m : TotalSize(m)' = TotalSize(m) /\ ZeroBefore(m)' = ZeroBefore(m)
    BY <1>1 DEF Charged, TotalSize, ZeroBefore, Memory!Sizes, Memory!Size
  <2> QED BY <1>1, <1>6, <2>1 DEF MemInv, BudgetRight
<1> QED BY <1>2, <1>13, <1>16, <1>18, <1>19, <1>20 DEF MemInv

LEMMA StepEndRegion ==
  ASSUME MemInv, Memory!EndRegion
  PROVE  MemInv'
<1> DEFINE N == Len(regions.recs)
           W == Memory!Window(regions.recs[region])
<1>1. /\ pc = "words" /\ headers' = headers /\ modules' = modules /\ memory' = memory
      /\ rc' = rc /\ mode' = mode /\ regions' = regions /\ residents' = residents /\ candidates' = candidates
      /\ off' = off /\ scan_limited' = scan_limited /\ shown' = shown /\ image' = image /\ disturbed' = disturbed
      /\ candidates.truncated \/ ~ (off + MinSize <= W)
      /\ total_left' = total_left - W /\ scan_regions' = scan_regions + 1 /\ region' = region + 1
      /\ pc' = IF candidates.truncated THEN "scanned" ELSE "regions"
  BY DEF Memory!EndRegion, Memory!HasRoom, Memory!tables, Memory!history
<1>2. /\ RegionsRight' /\ ResidentsRight' /\ ReportRight' /\ Looked /\ Looked' /\ ~ Before'
      /\ mode = "scan"
  BY <1>1, ScanLeaves
<1>3. /\ region \in 1 .. N /\ N \in Nat /\ MinSize \in Nat \ {0} /\ TotalLimit \in Nat
      /\ off \in Nat /\ Hi(region) > Lo(region) /\ regions.recs \in Seq(Header)
      /\ total_left \in 0 .. TotalLimit /\ scan_regions \in Nat
      /\ Cut(region) => scan_limited
  <2>1. /\ region \in Nat \ {0} /\ region <= N /\ off \in Nat /\ Hi(region) > Lo(region)
        /\ regions.recs \in Seq(Header) /\ total_left \in 0 .. TotalLimit /\ scan_regions \in Nat
        /\ Cut(region) => scan_limited
    BY <1>1 DEF MemInv, MemTypes, RegionsRight, PlaceRight
  <2> QED BY <2>1, ScanLimits
<1>4. /\ Lo(region) \in Nat /\ Hi(region) \in Nat /\ W \in 0 .. Hi(region) - Lo(region) /\ W <= total_left
      /\ Memory!Size(regions.recs[region]) = Hi(region) - Lo(region)
  BY <1>3, WindowIs DEF MemInv
<1>5. Cut(region) <=> W < Hi(region) - Lo(region)
  BY DEF Cut
<1> HIDE DEF W
<1>6. \A i, b : /\ Lo(i)' = Lo(i) /\ Hi(i)' = Hi(i) /\ TrueAt(b, i)' = TrueAt(b, i)
                /\ IsFound(b, i)' = IsFound(b, i) /\ Memory!Registered(b)' = Memory!Registered(b)
  BY <1>1 DEF Lo, Hi, TrueAt, IsFound, Memory!Registered
<1>7. \A b, i : /\ Behind(b, i) <=> i < region \/ (i = region /\ b < Lo(region) + off)
                /\ Behind(b, i)' <=> i < region + 1
  <2>1. ASSUME NEW b, NEW i PROVE Behind(b, i) <=> i < region \/ (i = region /\ b < Lo(region) + off)
    BY <1>1 DEF Behind
  <2>2. ASSUME NEW b, NEW i PROVE Behind(b, i)' <=> i < region + 1
    BY <1>1 DEF Behind
  <2> QED BY <2>1, <2>2
<1>8. MemTypes'
  <2>1. total_left' \in 0 .. TotalLimit /\ region' \in Nat \ {0} /\ scan_regions' \in Nat
    BY <1>1, <1>3, <1>4
  <2> QED BY <1>1, <1>2, <2>1 DEF MemInv, MemTypes, MemoryIsRight
<1>9. FoundRight'
  <2>1. \A i \in 1 .. N : \A b : Behind(b, i) => Behind(b, i)'
    BY <1>3, <1>7
  <2> QED BY <1>1, <1>6, <2>1 DEF MemInv, FoundRight
<1>10. FoundAll'
  <2>1. ASSUME ~ disturbed, ~ scan_limited, ~ candidates.truncated,
               NEW i \in 1 .. N, NEW b \in DOMAIN image, TrueAt(b, i), Behind(b, i)'
        PROVE  IsFound(b, i)
    <3>1. Behind(b, i)
      <4>1. CASE i < region
        BY <1>7, <4>1
      <4>2. CASE ~ (i < region)
        <5>1. i = region
          BY <1>3, <1>7, <2>1, <4>2
        <5>2. b \in Nat
          <6>1. image = memory
            BY <1>2, <2>1 DEF MemInv, MemTypes
          <6> QED BY <2>1, <6>1 DEF MemInv, MemTypes, MemoryIsRight
        <5>3. b >= Lo(region) /\ b + MinSize <= Hi(region)
          BY <2>1, <5>1 DEF TrueAt
        <5>4. W = Hi(region) - Lo(region) /\ ~ (off + MinSize <= W)
          BY <1>1, <1>3, <1>4, <1>5, <2>1
        <5>5. b < Lo(region) + off
          BY <1>3, <1>4, <5>2, <5>3, <5>4
        <5> QED BY <1>7, <5>1, <5>5
      <4> QED BY <4>1, <4>2
    <3> QED BY <2>1, <3>1 DEF MemInv, FoundAll
  <2>2. ASSUME ~ disturbed, candidates.truncated
        PROVE  \E i \in 1 .. N : \E b \in DOMAIN image : TrueAt(b, i) /\ ~ IsFound(b, i)
    BY <2>2 DEF MemInv, FoundAll
  <2> QED BY <1>1, <1>6, <2>1, <2>2 DEF FoundAll
<1>11. PlaceRight'
  <2>1. region' <= N + 1 /\ pc' \in {"regions", "scanned"} /\ (pc' = "scanned" => candidates.truncated)
    BY <1>1, <1>3
  <2> QED BY <1>1, <1>2, <2>1 DEF PlaceRight
<1>12. BudgetRight'
  <2>1. /\ TotalSize(region - 1) \in Nat
        /\ TotalSize(region) = TotalSize(region - 1) + (Hi(region) - Lo(region))
    <3>1. /\ Memory!Sizes(regions.recs) \in [0 .. N -> Nat] /\ region - 1 \in 0 .. N
          /\ \A m \in 1 .. N : TotalSize(m) = TotalSize(m - 1) + Memory!Size(regions.recs[m])
      BY <1>3, SizesTurn DEF TotalSize, SizeOfFirst
    <3> QED BY <1>3, <1>4, <3>1 DEF TotalSize
  <2>2. Charged \in Nat /\ Charged' = Charged + W
    BY <1>1, <1>3, <1>4 DEF Charged
  <2>3. \A m : TotalSize(m)' = TotalSize(m) /\ ZeroBefore(m)' = ZeroBefore(m)
    BY <1>1 DEF TotalSize, ZeroBefore, Memory!Sizes, Memory!Size
  <2>4. /\ Charged <= TotalSize(region - 1) /\ scan_regions <= region - 1
        /\ scan_limited => Charged < TotalSize(region - 1) \/ Cut(region)
        /\ scan_regions < region - 1 => Charged < TotalSize(region - 1) \/ ZeroBefore(region - 1)
    BY <1>1 DEF MemInv, BudgetRight
  <2>5. PICK before, h, l : before = TotalSize(region - 1) /\ h = Hi(region) /\ l = Lo(region)
    OBVIOUS
  <2>6. /\ Charged + W <= TotalSize(region)
        /\ scan_limited => Charged + W < TotalSize(region)
        /\ Charged < TotalSize(region - 1) => Charged + W < TotalSize(region)
    BY <1>4, <1>5, <2>1, <2>2, <2>4, <2>5
  <2>7. ZeroBefore(region - 1) => ZeroBefore(region)
    BY <1>3 DEF ZeroBefore
  <2>8. scan_regions + 1 <= region /\ (scan_regions + 1 < region => scan_regions < region - 1)
    BY <1>3, <2>4
  <2>9. region' - 1 = region /\ pc' \in {"regions", "scanned"}
    BY <1>1, <1>3
  <2> QED BY <1>1, <2>2, <2>3, <2>4, <2>6, <2>7, <2>8, <2>9 DEF BudgetRight
<1> QED BY <1>2, <1>8, <1>9, <1>10, <1>11, <1>12 DEF MemInv

LEMMA StepEndOfRegions ==
  ASSUME MemInv, Memory!EndOfRegions
  PROVE  MemInv'
<1>1. /\ pc = "regions" /\ (region > Len(regions.recs) \/ total_left = 0) /\ pc' = "scanned"
      /\ headers' = headers /\ modules' = modules /\ memory' = memory
      /\ rc' = rc /\ mode' = mode /\ regions' = regions /\ residents' = residents /\ candidates' = candidates
      /\ region' = region /\ off' = off /\ total_left' = total_left /\ scan_regions' = scan_regions
      /\ scan_limited' = scan_limited /\ shown' = shown /\ image' = image /\ disturbed' = disturbed
  BY DEF Memory!EndOfRegions, Memory!tables, Memory!scanVars, Memory!history
<1>2. /\ RegionsRight' /\ ResidentsRight' /\ ReportRight' /\ Looked /\ Looked' /\ ~ Before'
      /\ mode = "scan"
  BY <1>1, ScanLeaves
<1>3. \A i, b : /\ Lo(i)' = Lo(i) /\ Hi(i)' = Hi(i) /\ TrueAt(b, i)' = TrueAt(b, i) /\ Cut(i)' = Cut(i)
                /\ IsFound(b, i)' = IsFound(b, i) /\ Memory!Registered(b)' = Memory!Registered(b)
                /\ Behind(b, i)' = Behind(b, i)
  BY <1>1 DEF Lo, Hi, TrueAt, IsFound, Memory!Registered, Cut, Memory!Window, Memory!Smaller, Behind
<1>4. MemTypes'
  BY <1>1, <1>2 DEF MemInv, MemTypes, MemoryIsRight
<1>5. FoundRight' /\ FoundAll'
  BY <1>1, <1>3 DEF MemInv, FoundRight, FoundAll
<1>6. PlaceRight'
  BY <1>1, <1>2, <1>3 DEF MemInv, PlaceRight
<1>7. BudgetRight'
  <2>1. Charged' = Charged /\ \A m : TotalSize(m)' = TotalSize(m) /\ ZeroBefore(m)' = ZeroBefore(m)
    BY <1>1 DEF Charged, TotalSize, ZeroBefore, Memory!Sizes, Memory!Size
  <2> QED BY <1>1, <1>3, <2>1 DEF MemInv, BudgetRight
<1> QED BY <1>2, <1>4, <1>5, <1>6, <1>7 DEF MemInv

(* A spent budget: either memory is left that was not looked at, or what   *)
(* is left over is empty.                                                  *)
LEMMA StepEndOfScan ==
  ASSUME MemInv, Memory!EndOfScan
  PROVE  MemInv'
<1> DEFINE N == Len(regions.recs)
<1>1. /\ pc = "scanned" /\ pc' = "print"
      /\ scan_limited' = (scan_limited \/ (total_left = 0 /\ N > scan_regions))
      /\ headers' = headers /\ modules' = modules /\ memory' = memory
      /\ rc' = rc /\ mode' = mode /\ regions' = regions /\ residents' = residents /\ candidates' = candidates
      /\ region' = region /\ off' = off /\ total_left' = total_left /\ scan_regions' = scan_regions
      /\ shown' = shown /\ image' = image /\ disturbed' = disturbed
  BY DEF Memory!EndOfScan, Memory!tables, Memory!history
<1>2. /\ RegionsRight' /\ ResidentsRight' /\ ReportRight' /\ Looked /\ Looked' /\ ~ Before'
      /\ mode = "scan"
  BY <1>1, ScanLeaves
<1>3. \A i, b : /\ Lo(i)' = Lo(i) /\ Hi(i)' = Hi(i) /\ TrueAt(b, i)' = TrueAt(b, i) /\ Cut(i)' = Cut(i)
                /\ IsFound(b, i)' = IsFound(b, i) /\ Memory!Registered(b)' = Memory!Registered(b)
                /\ Behind(b, i)' = Behind(b, i)
  BY <1>1 DEF Lo, Hi, TrueAt, IsFound, Memory!Registered, Cut, Memory!Window, Memory!Smaller, Behind
<1>4. MemTypes'
  BY <1>1, <1>2 DEF MemInv, MemTypes, MemoryIsRight
<1>5. FoundRight'
  BY <1>1, <1>3 DEF MemInv, FoundRight
<1>6. FoundAll'
  BY <1>1, <1>3 DEF MemInv, FoundAll
<1>7. /\ region \in Nat \ {0} /\ region <= N + 1 /\ N \in Nat /\ scan_regions \in Nat /\ scan_regions <= region - 1
      /\ regions.recs \in Seq(Header) /\ TotalLimit \in Nat /\ total_left \in 0 .. TotalLimit
      /\ candidates.truncated \/ region > N \/ total_left = 0
  <2>1. /\ region \in Nat \ {0} /\ region <= N + 1 /\ scan_regions \in Nat /\ scan_regions <= region - 1
        /\ regions.recs \in Seq(Header) /\ total_left \in 0 .. TotalLimit
        /\ candidates.truncated \/ region > N \/ total_left = 0
    BY <1>1 DEF MemInv, MemTypes, RegionsRight, PlaceRight, BudgetRight
  <2> QED BY <2>1, ScanLimits
<1>8. PlaceRight'
  <2>1. ASSUME ~ candidates.truncated, ~ scan_limited' PROVE region = N + 1
    <3>1. ~ (total_left = 0 /\ N > scan_regions)
      BY <1>1, <2>1
    <3>2. region > N \/ total_left = 0
      BY <1>7, <2>1
    <3> HIDE DEF N
    <3>3. region <= N => N > scan_regions
      BY <1>7
    <3> QED BY <1>7, <3>1, <3>2, <3>3
  <2> QED BY <1>1, <1>2, <1>7, <2>1 DEF PlaceRight
<1>9. Charged \in Nat
  BY <1>7 DEF Charged
<1>10. /\ TotalSize(region - 1) \in Nat /\ TotalSize(N) \in Nat /\ TotalSize(region - 1) <= TotalSize(N)
       /\ \A k \in region .. N : Memory!Size(regions.recs[k]) # 0 => TotalSize(region - 1) < TotalSize(N)
  <2>1. region - 1 \in 0 .. N /\ N \in region - 1 .. N /\ region - 1 \in region - 1 .. N /\ (region - 1) + 1 = region
    BY <1>7
  <2>2. PICK r : r = region - 1
    OBVIOUS
  <2>3. \A n \in r .. N :
           /\ SizeOfFirst(regions.recs, n) \in Nat
           /\ SizeOfFirst(regions.recs, r) <= SizeOfFirst(regions.recs, n)
           /\ \A k \in r + 1 .. n : Memory!Size(regions.recs[k]) # 0
                => SizeOfFirst(regions.recs, r) < SizeOfFirst(regions.recs, n)
    BY <1>7, <2>1, <2>2, SizesGrow
  <2> QED BY <2>1, <2>2, <2>3 DEF TotalSize, SizeOfFirst
<1>11. /\ Charged <= TotalSize(region - 1)
       /\ scan_limited => Charged < TotalSize(region - 1)
       /\ scan_regions < region - 1 => Charged < TotalSize(region - 1) \/ ZeroBefore(region - 1)
  BY <1>1 DEF MemInv, BudgetRight
<1>12. ASSUME scan_limited'
       PROVE  Charged < TotalSize(N) \/ (total_left = 0 /\ ZeroBefore(N))
  <2>1. CASE scan_limited
    BY <1>9, <1>10, <1>11, <2>1
  <2>2. CASE ~ scan_limited
    <3>1. total_left = 0 /\ N > scan_regions
      BY <1>1, <1>12, <2>2
    <3>2. CASE region <= N
      <4>1. CASE Memory!Size(regions.recs[region]) = 0
        <5>1. region \in 1 .. N
          BY <1>7, <3>2
        <5> QED BY <3>1, <4>1, <5>1 DEF ZeroBefore
      <4>2. CASE Memory!Size(regions.recs[region]) # 0
        <5>1. region \in region .. N
          BY <1>7, <3>2
        <5>2. TotalSize(region - 1) < TotalSize(N)
          BY <1>10, <4>2, <5>1
        <5> QED BY <1>9, <1>10, <1>11, <5>2
      <4> QED BY <4>1, <4>2
    <3>3. CASE ~ (region <= N)
      <4>1. region - 1 = N /\ scan_regions < region - 1
        BY <1>7, <3>1, <3>3
      <4> QED BY <1>11, <3>1, <4>1
    <3> QED BY <3>2, <3>3
  <2> QED BY <2>1, <2>2
<1>13. BudgetRight'
  <2>1. Charged' = Charged /\ \A m : TotalSize(m)' = TotalSize(m) /\ ZeroBefore(m)' = ZeroBefore(m)
    BY <1>1 DEF Charged, TotalSize, ZeroBefore, Memory!Sizes, Memory!Size
  <2> QED BY <1>1, <1>7, <1>11, <1>12, <2>1 DEF BudgetRight
<1> QED BY <1>2, <1>4, <1>5, <1>6, <1>8, <1>13 DEF MemInv

LEMMA StepReport ==
  ASSUME MemInv, Memory!Report
  PROVE  MemInv'
<1>1. /\ pc = "print" /\ pc' = "exit"
      /\ headers' = headers /\ modules' = modules /\ memory' = memory
      /\ mode' = mode /\ regions' = regions /\ residents' = residents /\ candidates' = candidates
      /\ region' = region /\ off' = off /\ total_left' = total_left /\ scan_regions' = scan_regions
      /\ scan_limited' = scan_limited /\ image' = image /\ disturbed' = disturbed
  BY DEF Memory!Report, Memory!tables, Memory!history
<1>2. rc' \in {0, 5}
  BY DEF Memory!Report
<1>3. Looked /\ Looked' /\ ~ Before'
  BY <1>1, <1>2 DEF Looked, Before
<1>4. \A i, b : /\ Lo(i)' = Lo(i) /\ Hi(i)' = Hi(i) /\ TrueAt(b, i)' = TrueAt(b, i) /\ Cut(i)' = Cut(i)
                /\ IsFound(b, i)' = IsFound(b, i) /\ Memory!Registered(b)' = Memory!Registered(b)
                /\ Behind(b, i)' = Behind(b, i)
  BY <1>1 DEF Lo, Hi, TrueAt, IsFound, Memory!Registered, Cut, Memory!Window, Memory!Smaller, Behind
<1>5. MemTypes'
  BY <1>1, <1>2, <1>3 DEF MemInv, MemTypes, MemoryIsRight
<1>6. RegionsRight'
  BY <1>1, <1>3 DEF MemInv, RegionsRight
<1>7. ResidentsRight'
  <2>1. /\ ToSet(residents.recs)' = ToSet(residents.recs) /\ ToSet(modules)' = ToSet(modules)
        /\ Memory!Residents(image)' = Memory!Residents(image)
    BY <1>1 DEF ToSet, Memory!Residents, Memory!IsResident
  <2> QED BY <1>1, <1>3, <2>1 DEF MemInv, ResidentsRight
<1>8. FoundRight' /\ FoundAll'
  BY <1>1, <1>4 DEF MemInv, FoundRight, FoundAll
<1>9. PlaceRight'
  BY <1>1, <1>3, <1>4 DEF MemInv, PlaceRight
<1>10. BudgetRight'
  <2>1. Charged' = Charged /\ \A m : TotalSize(m)' = TotalSize(m) /\ ZeroBefore(m)' = ZeroBefore(m)
    BY <1>1 DEF Charged, TotalSize, ZeroBefore, Memory!Sizes, Memory!Size
  <2> QED BY <1>1, <1>4, <2>1 DEF MemInv, BudgetRight
<1>11. /\ Memory!ShownResidents' = Memory!ShownResidents /\ Memory!ShownRegions' = Memory!ShownRegions
  BY <1>1 DEF Memory!ShownResidents, Memory!ContainingRegion, Memory!ShownRegions, Memory!RiskLevel,
              Memory!Score, Memory!Points, Memory!Weight, Memory!Indicators, Memory!Size
<1>12. ReportRight'
  <2>1. CASE mode = "scan"
    <3>1. rc' = IF candidates.truncated \/ scan_limited THEN 5 ELSE 0
      BY <2>1 DEF Memory!Report
    <3> QED BY <1>1, <2>1, <3>1 DEF ReportRight
  <2>2. CASE mode = "residents"
    <3>1. rc' = (IF residents.truncated THEN 5 ELSE 0) /\ shown' = Memory!ShownResidents
      BY <2>2 DEF Memory!Report
    <3> QED BY <1>1, <1>11, <2>2, <3>1 DEF ReportRight
  <2>3. CASE mode # "scan" /\ mode # "residents"
    <3>1. rc' = (IF regions.truncated THEN 5 ELSE 0) /\ shown' = Memory!ShownRegions
      BY <2>3 DEF Memory!Report
    <3> QED BY <1>1, <1>11, <2>3, <3>1 DEF ReportRight
  <2> QED BY <2>1, <2>2, <2>3
<1> QED BY <1>5, <1>6, <1>7, <1>8, <1>9, <1>10, <1>12 DEF MemInv

(* Once another task has written, nothing is claimed of what the memory    *)
(* held.                                                                   *)
LEMMA StepOtherTask ==
  ASSUME MemInv, Memory!OtherTask
  PROVE  MemInv'
<1>1. /\ pc \in {"regions", "words"} /\ memory' \in Written /\ disturbed' = TRUE /\ image' = << >>
      /\ headers' = headers /\ modules' = modules /\ pc' = pc /\ rc' = rc
      /\ mode' = mode /\ regions' = regions /\ residents' = residents /\ candidates' = candidates
      /\ region' = region /\ off' = off /\ total_left' = total_left /\ scan_regions' = scan_regions
      /\ scan_limited' = scan_limited /\ shown' = shown
  BY DEF Memory!OtherTask, Memory!tables, Memory!scanVars
<1>2. MemoryIsRight(memory)'
  BY <1>1, MachineAssumption DEF MemoryIsRight
<1>3. Looked /\ Looked' /\ ~ Before /\ ~ Before'
  BY <1>1 DEF Looked, Before
<1>4. \A i, b : /\ Lo(i)' = Lo(i) /\ Hi(i)' = Hi(i) /\ Cut(i)' = Cut(i)
                /\ Memory!Registered(b)' = Memory!Registered(b)
                /\ Behind(b, i)' = Behind(b, i)
  BY <1>1 DEF Lo, Hi, Memory!Registered, Cut, Memory!Window, Memory!Smaller, Behind
<1>5. MemTypes'
  BY <1>1, <1>2, <1>3 DEF MemInv, MemTypes
<1>6. RegionsRight'
  BY <1>1, <1>3 DEF MemInv, RegionsRight
<1>7. ResidentsRight'
  BY <1>1, <1>3 DEF MemInv, ResidentsRight
<1>8. FoundRight'
  BY <1>1, <1>4 DEF MemInv, FoundRight
<1>9. FoundAll'
  BY <1>1 DEF FoundAll
<1>10. PlaceRight'
  BY <1>1, <1>3, <1>4 DEF MemInv, PlaceRight
<1>11. BudgetRight'
  <2>1. Charged' = Charged /\ \A m : TotalSize(m)' = TotalSize(m) /\ ZeroBefore(m)' = ZeroBefore(m)
    BY <1>1 DEF Charged, TotalSize, ZeroBefore, Memory!Sizes, Memory!Size
  <2> QED BY <1>1, <1>4, <2>1 DEF MemInv, BudgetRight
<1>12. ReportRight'
  BY <1>1 DEF ReportRight
<1> QED BY <1>5, <1>6, <1>7, <1>8, <1>9, <1>10, <1>11, <1>12 DEF MemInv

LEMMA MemStays ==
  ASSUME MemInv, UNCHANGED <<pc, rc, headers, MemVars>>
  PROVE  MemInv'
<1>1. /\ pc' = pc /\ rc' = rc /\ headers' = headers /\ modules' = modules /\ memory' = memory
      /\ mode' = mode /\ regions' = regions /\ residents' = residents /\ candidates' = candidates
      /\ region' = region /\ off' = off /\ total_left' = total_left /\ scan_regions' = scan_regions
      /\ scan_limited' = scan_limited /\ shown' = shown /\ image' = image /\ disturbed' = disturbed
  BY DEF MemVars
<1>2. Looked' = Looked /\ Before' = Before
  BY <1>1 DEF Looked, Before
<1>3. \A i, b : /\ Lo(i)' = Lo(i) /\ Hi(i)' = Hi(i) /\ TrueAt(b, i)' = TrueAt(b, i) /\ Cut(i)' = Cut(i)
                /\ IsFound(b, i)' = IsFound(b, i) /\ Memory!Registered(b)' = Memory!Registered(b)
                /\ Behind(b, i)' = Behind(b, i)
  BY <1>1 DEF Lo, Hi, TrueAt, IsFound, Memory!Registered, Cut, Memory!Window, Memory!Smaller, Behind
<1>4. MemTypes' /\ RegionsRight'
  BY <1>1, <1>2 DEF MemInv, MemTypes, MemoryIsRight, RegionsRight
<1>5. ResidentsRight'
  <2>1. /\ ToSet(residents.recs)' = ToSet(residents.recs) /\ ToSet(modules)' = ToSet(modules)
        /\ Memory!Residents(image)' = Memory!Residents(image)
    BY <1>1 DEF ToSet, Memory!Residents, Memory!IsResident
  <2> QED BY <1>1, <1>2, <2>1 DEF MemInv, ResidentsRight
<1>6. FoundRight' /\ FoundAll'
  BY <1>1, <1>3 DEF MemInv, FoundRight, FoundAll
<1>7. PlaceRight'
  BY <1>1, <1>2, <1>3 DEF MemInv, PlaceRight
<1>8. BudgetRight'
  <2>1. Charged' = Charged /\ \A m : TotalSize(m)' = TotalSize(m) /\ ZeroBefore(m)' = ZeroBefore(m)
    BY <1>1 DEF Charged, TotalSize, ZeroBefore, Memory!Sizes, Memory!Size
  <2> QED BY <1>1, <1>3, <2>1 DEF MemInv, BudgetRight
<1>9. ReportRight'
  <2>1. /\ Memory!ShownResidents' = Memory!ShownResidents /\ Memory!ShownRegions' = Memory!ShownRegions
    BY <1>1 DEF Memory!ShownResidents, Memory!ContainingRegion, Memory!ShownRegions, Memory!RiskLevel,
                Memory!Score, Memory!Points, Memory!Weight, Memory!Indicators, Memory!Size
  <2> QED BY <1>1, <2>1 DEF MemInv, ReportRight
<1> QED BY <1>4, <1>5, <1>6, <1>7, <1>8, <1>9 DEF MemInv

LEMMA StepMem ==
  ASSUME MemInv, Memory!MemNext
  PROVE  MemInv'
<1>1. CASE Memory!Start
  BY <1>1, StepMemStart
<1>2. CASE Memory!TakeSnapshot
  BY <1>2, StepTake
<1>3. CASE Memory!NextRegion
  BY <1>3, StepNextRegion
<1>4. CASE Memory!ScanWord
  BY <1>4, StepScanWord
<1>5. CASE Memory!EndRegion
  BY <1>5, StepEndRegion
<1>6. CASE Memory!EndOfRegions
  BY <1>6, StepEndOfRegions
<1>7. CASE Memory!EndOfScan
  BY <1>7, StepEndOfScan
<1>8. CASE Memory!Report
  BY <1>8, StepReport
<1>9. CASE Memory!OtherTask
  BY <1>9, StepOtherTask
<1> QED BY <1>1, <1>2, <1>3, <1>4, <1>5, <1>6, <1>7, <1>8, <1>9 DEF Memory!MemNext, Memory!MemTool

(* What the invariant says of a program that has ended. *)
LEMMA LeastExists ==
  ASSUME NEW S, S \subseteq Nat, S # {}
  PROVE  \E i \in S : \A j \in S : i <= j
<1> DEFINE R == OpToRel(<, Nat)
<1>1. IsWellFoundedOn(R, Nat)
  BY NatLessThanWellFounded
<1>2. PICK x \in S : \A y \in S : ~ (<<y, x>> \in R)
  <2> HIDE DEF R
  <2> QED BY <1>1, WFMin
<1>3. ASSUME NEW y \in S PROVE x <= y
  <2>1. x \in Nat /\ y \in Nat
    OBVIOUS
  <2>2. y < x => <<y, x>> \in R
    BY <2>1 DEF OpToRel
  <2> HIDE DEF R
  <2>3. ~ (y < x)
    BY <1>2, <2>2
  <2> QED BY <2>1, <2>3
<1> QED BY <1>3

LEMMA MemIsTyped == ASSUME MemInv PROVE Memory!MemTypeOK
<1>1. MaxRegions \in Nat
  BY ScanLimits
<1> QED BY <1>1 DEF MemInv, MemTypes, RegionsRight, ResidentsRight, FoundRight, PlaceRight, Memory!MemTypeOK

(* The set of true candidates, place by place. *)
LEMMA TrueAre ==
  ASSUME MemInv, Looked, ~ disturbed
  PROVE  /\ \A i \in 1 .. Len(regions.recs) : \A a \in DOMAIN image :
              <<a, i>> \in Memory!TrueCandidates <=> TrueAt(a, i)
         /\ \A p \in Memory!TrueCandidates : \E i \in 1 .. Len(headers) : \E a \in DOMAIN image : p = <<a, i>>
<1> DEFINE Here(i) == {b \in DOMAIN image :
                         /\ b >= headers[i].lower /\ (b - headers[i].lower) % 2 = 0
                         /\ b + MinSize <= headers[i].upper
                         /\ image[b].tag = b
                         /\ image[b].end \in b + 1 .. headers[i].upper}
<1>1. Memory!TrueCandidates = UNION {{<<a, i>> : a \in Here(i)} : i \in 1 .. Len(headers)}
  <2>1. DOMAIN headers = 1 .. Len(headers)
    BY DEF MemInv, MemTypes
  <2> QED BY <2>1 DEF Memory!TrueCandidates
<1>2. \A i : Here(i) \subseteq DOMAIN image
  OBVIOUS
<1>3. /\ image = memory /\ MemoryIsRight(image) /\ headers \in Seq(Header)
      /\ \A i \in 1 .. Len(regions.recs) : i \in 1 .. Len(headers) /\ regions.recs[i] = headers[i]
  BY DEF MemInv, MemTypes, RegionsRight
<1>4. ASSUME NEW i \in 1 .. Len(regions.recs), NEW a \in DOMAIN image
      PROVE  a \in Here(i) <=> TrueAt(a, i)
  <2>1. Lo(i) = headers[i].lower /\ Hi(i) = headers[i].upper
    BY <1>3 DEF Lo, Hi
  <2>2. Hi(i) \in Nat /\ a \in Nat /\ image[a].end \in Nat
    BY <1>3, WindowIs DEF MemInv, MemoryIsRight
  <2>3. image[a].end \in a + 1 .. Hi(i) <=> image[a].end > a /\ image[a].end <= Hi(i)
    BY <2>2
  <2> QED BY <2>1, <2>3 DEF TrueAt
<1> HIDE DEF Here
<1>5. ASSUME NEW i \in 1 .. Len(headers), NEW a
      PROVE  <<a, i>> \in Memory!TrueCandidates <=> a \in Here(i)
  BY <1>1
<1>6. ASSUME NEW p \in Memory!TrueCandidates
      PROVE  \E i \in 1 .. Len(headers) : \E a \in DOMAIN image : p = <<a, i>>
  BY <1>1, <1>2
<1> QED BY <1>3, <1>4, <1>5, <1>6

(* What was found, as a set. *)
LEMMA FoundIs ==
  ASSUME MemInv
  PROVE  /\ \A a, i : <<a, i>> \in Memory!Found <=> IsFound(a, i)
         /\ \A p \in Memory!Found : \E k \in 1 .. Len(candidates.recs) :
              p = <<candidates.recs[k].address, candidates.recs[k].region>>
         /\ Len(candidates.recs) = Memory!Cardinality(Memory!Found)
<1> DEFINE n == Len(candidates.recs)
           Place(k) == <<candidates.recs[k].address, candidates.recs[k].region>>
           s == [k \in 1 .. n |-> Place(k)]
           S == {Place(k) : k \in 1 .. n}
<1>1. n \in Nat /\ candidates.recs \in Seq(Candidate) /\ DOMAIN candidates.recs = 1 .. n
  BY DEF MemInv, FoundRight
<1>2. Memory!Found = S
  <2>1. \A p : p \in Memory!Found <=> \E k \in 1 .. n : p = Place(k)
    BY <1>1 DEF Memory!Found
  <2>2. \A p : p \in S <=> \E k \in 1 .. n : p = Place(k)
    OBVIOUS
  <2> HIDE DEF S, Place
  <2> QED BY <2>1, <2>2
<1>3. \A a, i : <<a, i>> \in Memory!Found <=> IsFound(a, i)
  BY <1>2 DEF IsFound
<1>4. s \in Seq(S) /\ Len(s) = n /\ ToSet(s) = S
  <2>1. s \in Seq(S) /\ Len(s) = n /\ DOMAIN s = 1 .. n
    BY <1>1
  <2>2. \A k \in 1 .. n : s[k] = Place(k)
    OBVIOUS
  <2> HIDE DEF s, Place
  <2>3. ToSet(s) = {s[k] : k \in 1 .. n}
    BY <2>1 DEF ToSet
  <2> QED BY <2>1, <2>2, <2>3
<1>5. IsInjective(s)
  <2>1. ASSUME NEW k \in 1 .. n, NEW l \in 1 .. n, s[k] = s[l] PROVE k = l
    <3>1. Place(k) = Place(l)
      BY <2>1
    <3> QED BY <3>1 DEF MemInv, FoundRight
  <2> HIDE DEF s
  <2> QED BY <1>1, <1>4, <2>1 DEF IsInjective
<1>6. Cardinality(S) = n
  <2> HIDE DEF s, S
  <2> QED BY <1>4, <1>5, NodesAreFinite
<1>7. Memory!Cardinality(S) = n
  BY <1>6 DEF Memory!Cardinality, Cardinality
<1> QED BY <1>1, <1>2, <1>3, <1>7

LEMMA QuietScanHolds == ASSUME MemInv PROVE Memory!QuietScanIsExact
<1> SUFFICES ASSUME pc = "exit", mode = "scan", rc = 0, ~ disturbed, ~ regions.truncated
             PROVE  /\ Memory!Found = Memory!TrueCandidates
                    /\ Len(candidates.recs) = Memory!Cardinality(Memory!Found)
                    /\ Len(modules) <= MaxResidents /\ Len(modules) <= MaxModules =>
                         \A i \in DOMAIN candidates.recs :
                           candidates.recs[i].registered
                             <=> \E m \in DOMAIN modules : modules[m] = candidates.recs[i].address
  BY DEF Memory!QuietScanIsExact
<1> DEFINE N == Len(regions.recs)
<1>1. Looked
  BY DEF Looked
<1>2. /\ image = memory /\ regions.recs = headers /\ N \in Nat /\ DOMAIN candidates.recs = 1 .. Len(candidates.recs)
      /\ modules \in Seq(Nat) /\ residents.recs \in Seq(Nat)
  BY <1>1 DEF MemInv, MemTypes, RegionsRight, ResidentsRight, FoundRight
<1>3. ~ candidates.truncated /\ ~ scan_limited
  BY DEF MemInv, ReportRight
<1>4. region = N + 1
  BY <1>1, <1>3 DEF MemInv, PlaceRight
<1>5. \A i \in 1 .. N : \A a \in DOMAIN image : TrueAt(a, i) => IsFound(a, i)
  <2>1. \A i \in 1 .. N : \A a : Behind(a, i)
    BY <1>2, <1>4 DEF Behind
  <2> QED BY <1>3, <2>1 DEF MemInv, FoundAll
<1>6. \A k \in 1 .. Len(candidates.recs) :
        /\ candidates.recs[k].region \in 1 .. N
        /\ TrueAt(candidates.recs[k].address, candidates.recs[k].region)
        /\ candidates.recs[k].registered <=> Memory!Registered(candidates.recs[k].address)
  BY DEF MemInv, FoundRight
<1>7. \A a, i : TrueAt(a, i) => a \in DOMAIN image /\ a \in Memory!Residents(image)
  BY DEF TrueAt, Memory!Residents, Memory!IsResident
<1>8. Memory!Found = Memory!TrueCandidates
  <2>1. ASSUME NEW p \in Memory!Found PROVE p \in Memory!TrueCandidates
    <3>1. PICK k \in 1 .. Len(candidates.recs) :
            p = <<candidates.recs[k].address, candidates.recs[k].region>>
      BY FoundIs
    <3> QED BY <1>1, <1>6, <1>7, <3>1, TrueAre
  <2>2. ASSUME NEW p \in Memory!TrueCandidates PROVE p \in Memory!Found
    <3>1. PICK i \in 1 .. N : \E a \in DOMAIN image : p = <<a, i>>
      BY <1>1, <1>2, TrueAre
    <3>2. PICK a \in DOMAIN image : p = <<a, i>>
      BY <3>1
    <3>3. TrueAt(a, i)
      BY <1>1, <3>2, TrueAre
    <3> QED BY <1>5, <3>2, <3>3, FoundIs
  <2> QED BY <2>1, <2>2
<1>9. Len(candidates.recs) = Memory!Cardinality(Memory!Found)
  BY FoundIs
<1>10. ASSUME Len(modules) <= MaxResidents, Len(modules) <= MaxModules, NEW k \in 1 .. Len(candidates.recs)
       PROVE  candidates.recs[k].registered
                <=> \E m \in DOMAIN modules : modules[m] = candidates.recs[k].address
  <2>1. PICK a : a = candidates.recs[k].address
    OBVIOUS
  <2>2. a \in Memory!Residents(image) /\ (candidates.recs[k].registered <=> Memory!Registered(a))
    BY <1>6, <1>7, <2>1
  <2>3. Memory!Registered(a) <=> a \in ToSet(residents.recs)
    BY DEF Memory!Registered, ToSet
  <2>4. ToSet(residents.recs) = ToSet(modules) \intersect Memory!Residents(image)
    <3>1. MaxResidents \in Nat /\ Len(modules) \in Nat
      BY <1>2, ScanLimits
    <3>2. ~ residents.truncated
      BY <1>10, <3>1 DEF MemInv, ResidentsRight
    <3> QED BY <1>1, <1>10, <3>2 DEF MemInv, ResidentsRight
  <2>5. a \in ToSet(modules) <=> \E m \in DOMAIN modules : modules[m] = a
    BY DEF ToSet
  <2> QED BY <2>1, <2>2, <2>3, <2>4, <2>5
<1> QED BY <1>2, <1>8, <1>9, <1>10

(* What is odd about a header, one by one. *)
LEMMA IndicatorsAre ==
  ASSUME NEW r
  PROVE  /\ Memory!Indicators(r) \subseteq
              {"invalid_range", "zero_size", "free_exceeds_range", "odd_boundary", "unnamed"}
         /\ "invalid_range" \in Memory!Indicators(r) <=> r.upper < r.lower
         /\ "free_exceeds_range" \in Memory!Indicators(r) <=> r.free > Memory!Size(r)
<1>1. DOMAIN Memory!Weight = {"invalid_range", "zero_size", "free_exceeds_range", "odd_boundary", "unnamed"}
  BY DEF Memory!Weight
<1> QED BY <1>1 DEF Memory!Indicators

LEMMA RiskIs ==
  ASSUME NEW r
  PROVE  /\ Memory!RiskLevel(Memory!Score(r)) = "high" <=> Memory!Contradicts(r)
         /\ Memory!RiskLevel(Memory!Score(r)) = "none" <=> Memory!Indicators(r) = {}
<1> DEFINE I == Memory!Indicators(r)
           P(h) == Memory!Points(h, r)
<1>1. /\ P("invalid_range") = IF "invalid_range" \in I THEN 100 ELSE 0
      /\ P("zero_size") = IF "zero_size" \in I THEN 60 ELSE 0
      /\ P("free_exceeds_range") = IF "free_exceeds_range" \in I THEN 100 ELSE 0
      /\ P("odd_boundary") = IF "odd_boundary" \in I THEN 20 ELSE 0
      /\ P("unnamed") = IF "unnamed" \in I THEN 10 ELSE 0
  BY DEF Memory!Points, Memory!Weight
<1>2. Memory!Score(r) = P("invalid_range") + P("zero_size") + P("free_exceeds_range")
                          + P("odd_boundary") + P("unnamed")
  BY DEF Memory!Score
<1>3. Memory!Contradicts(r) <=> "invalid_range" \in I \/ "free_exceeds_range" \in I
  BY IndicatorsAre DEF Memory!Contradicts
<1>4. I \subseteq {"invalid_range", "zero_size", "free_exceeds_range", "odd_boundary", "unnamed"}
  BY IndicatorsAre
<1>5. PICK a, b, c, d, e :
        /\ a = P("invalid_range") /\ b = P("zero_size") /\ c = P("free_exceeds_range")
        /\ d = P("odd_boundary") /\ e = P("unnamed")
  OBVIOUS
<1> HIDE DEF I, P
<1>6. /\ a \in {0, 100} /\ b \in {0, 60} /\ c \in {0, 100} /\ d \in {0, 20} /\ e \in {0, 10}
      /\ a = 100 <=> "invalid_range" \in I
      /\ c = 100 <=> "free_exceeds_range" \in I
      /\ a = 0 /\ b = 0 /\ c = 0 /\ d = 0 /\ e = 0 <=> I = {}
  <2>1. /\ a = IF "invalid_range" \in I THEN 100 ELSE 0
        /\ b = IF "zero_size" \in I THEN 60 ELSE 0
        /\ c = IF "free_exceeds_range" \in I THEN 100 ELSE 0
        /\ d = IF "odd_boundary" \in I THEN 20 ELSE 0
        /\ e = IF "unnamed" \in I THEN 10 ELSE 0
    BY <1>1, <1>5
  <2> QED BY <1>4, <2>1
<1>7. PICK score : score = a + b + c + d + e
  OBVIOUS
<1>8. Memory!Score(r) = score /\ score \in Nat
      /\ (score >= 100 <=> a = 100 \/ c = 100)
      /\ (score = 0 <=> a = 0 /\ b = 0 /\ c = 0 /\ d = 0 /\ e = 0)
  <2>1. Memory!Score(r) = score
    BY <1>2, <1>5, <1>7
  <2>2. {a, b, c, d, e} \subseteq Nat /\ b <= 60 /\ d <= 20 /\ e <= 10
    BY <1>6
  <2>3. a # 100 => a = 0
    BY <1>6
  <2>4. c # 100 => c = 0
    BY <1>6
  <2>5. score \in Nat /\ (score = 0 <=> a = 0 /\ b = 0 /\ c = 0 /\ d = 0 /\ e = 0)
    BY <1>7, <2>2
  <2>6. score >= 100 <=> a = 100 \/ c = 100
    BY <1>7, <2>2, <2>3, <2>4
  <2> QED BY <2>1, <2>5, <2>6
<1>9. /\ Memory!RiskLevel(score) = "high" <=> score >= 100
      /\ Memory!RiskLevel(score) = "none" <=> score = 0
  BY <1>8 DEF Memory!RiskLevel
<1> QED BY <1>3, <1>6, <1>8, <1>9 DEF I

LEMMA ListingHolds == ASSUME MemInv PROVE Memory!ListingIsExact
<1> SUFFICES ASSUME pc = "exit", rc = 0, mode # "scan"
             PROVE  IF mode = "residents"
                      THEN /\ Len(modules) <= MaxModules =>
                                {s.address : s \in shown} =
                                  {a \in DOMAIN image : image[a].tag = a /\ \E m \in DOMAIN modules : modules[m] = a}
                           /\ \A s \in shown :
                                IF s.region = 0
                                  THEN \A i \in DOMAIN regions.recs :
                                         s.address \notin regions.recs[i].lower .. regions.recs[i].upper - 1
                                  ELSE s.address \in regions.recs[s.region].lower .. regions.recs[s.region].upper - 1
                      ELSE /\ {s.region : s \in shown} =
                                {i \in DOMAIN headers : mode = "regions" \/ Memory!Indicators(headers[i]) # {}}
                           /\ \A s \in shown :
                                /\ s.risk = "high" <=> Memory!Contradicts(headers[s.region])
                                /\ s.risk = "none" <=> Memory!Indicators(headers[s.region]) = {}
  BY DEF Memory!ListingIsExact
<1>1. /\ Looked /\ mode \in {"regions", "suspicious", "residents"} /\ headers \in Seq(Header)
      /\ regions.recs \in Seq(Header) /\ residents.recs \in Seq(Nat)
      /\ ~ regions.truncated => regions.recs = headers
  BY DEF Looked, MemInv, MemTypes, RegionsRight, ResidentsRight, Memory!Modes
<1>2. CASE mode = "residents"
  <2>1. shown = Memory!ShownResidents
    BY <1>2 DEF MemInv, ReportRight
  <2>2. ASSUME NEW s \in shown
        PROVE  IF s.region = 0
                 THEN \A i \in DOMAIN regions.recs :
                        s.address \notin regions.recs[i].lower .. regions.recs[i].upper - 1
                 ELSE s.address \in regions.recs[s.region].lower .. regions.recs[s.region].upper - 1
    <3>1. PICK j \in DOMAIN residents.recs :
            s = [address |-> residents.recs[j], region |-> Memory!ContainingRegion(residents.recs[j])]
      BY <2>1, <2>2 DEF Memory!ShownResidents
    <3>2. PICK a, n : a = residents.recs[j] /\ n = Memory!ContainingRegion(a)
      OBVIOUS
    <3>3. s.address = a /\ s.region = n /\ a \in Nat
      BY <1>1, <3>1, <3>2
    <3> DEFINE holding == {i \in DOMAIN regions.recs :
                             a >= regions.recs[i].lower /\ a < regions.recs[i].upper}
    <3>4. n = IF holding = {} THEN 0 ELSE CHOOSE i \in holding : \A k \in holding : i <= k
      BY <3>2 DEF Memory!ContainingRegion
    <3>5. ASSUME NEW i \in DOMAIN regions.recs
          PROVE  i \in holding <=> a \in regions.recs[i].lower .. regions.recs[i].upper - 1
      <4>1. Word \in Nat /\ regions.recs[i] \in Header
        BY <1>1, ScanLimits
      <4>2. regions.recs[i].lower \in Nat /\ regions.recs[i].upper \in Nat
        BY <4>1 DEF Header
      <4> QED BY <3>3, <4>2
    <3>6. holding \subseteq Nat \ {0} /\ holding \subseteq DOMAIN regions.recs
      BY <1>1
    <3> HIDE DEF holding
    <3>7. CASE holding = {}
      BY <3>3, <3>4, <3>5, <3>7
    <3>8. CASE holding # {}
      <4>1. \E i \in holding : \A k \in holding : i <= k
        BY <3>6, <3>8, LeastExists
      <4>2. n \in holding
        BY <3>4, <3>8, <4>1
      <4> QED BY <3>3, <3>5, <3>6, <4>2
    <3> QED BY <3>7, <3>8
  <2>3. ASSUME Len(modules) <= MaxModules
        PROVE  {s.address : s \in shown} =
                 {a \in DOMAIN image : image[a].tag = a /\ \E m \in DOMAIN modules : modules[m] = a}
    <3>1. ~ residents.truncated /\ ~ disturbed
      BY <1>2 DEF MemInv, ReportRight, PlaceRight
    <3>2. ToSet(residents.recs) = ToSet(modules) \intersect Memory!Residents(image)
      BY <1>1, <2>3, <3>1 DEF MemInv, ResidentsRight
    <3>3. {s.address : s \in shown} = ToSet(residents.recs)
      <4> DEFINE ShownOf(j) == [address |-> residents.recs[j],
                               region |-> Memory!ContainingRegion(residents.recs[j])]
      <4>1. ASSUME NEW s \in shown PROVE s.address \in ToSet(residents.recs)
        <5>1. PICK j \in DOMAIN residents.recs : s = ShownOf(j)
          BY <2>1, <4>1 DEF Memory!ShownResidents
        <5>2. s.address = residents.recs[j]
          BY <5>1
        <5> QED BY <5>2 DEF ToSet
      <4>2. ASSUME NEW a \in ToSet(residents.recs) PROVE \E s \in shown : s.address = a
        <5>1. PICK j \in DOMAIN residents.recs : a = residents.recs[j]
          BY <4>2 DEF ToSet
        <5>2. ShownOf(j) \in shown /\ ShownOf(j).address = a
          BY <2>1, <5>1 DEF Memory!ShownResidents
        <5> QED BY <5>2
      <4> QED BY <4>1, <4>2
    <3>4. ToSet(modules) \intersect Memory!Residents(image) =
            {a \in DOMAIN image : image[a].tag = a /\ \E m \in DOMAIN modules : modules[m] = a}
      BY DEF ToSet, Memory!Residents, Memory!IsResident
    <3> QED BY <3>2, <3>3, <3>4
  <2> QED BY <1>2, <2>2, <2>3
<1>3. CASE mode # "residents"
  <2> DEFINE Picked(j) == mode # "suspicious" \/ Memory!Indicators(headers[j]) # {}
             Risk(j) == Memory!RiskLevel(Memory!Score(headers[j]))
             J == {j \in DOMAIN headers : Picked(j)}
  <2>1. shown = Memory!ShownRegions /\ ~ regions.truncated
    BY <1>1, <1>3 DEF MemInv, ReportRight
  <2>2. shown = {[region |-> j, risk |-> Risk(j)] : j \in J}
    BY <1>1, <2>1 DEF Memory!ShownRegions
  <2>3. \A j \in DOMAIN headers : Picked(j) <=> mode = "regions" \/ Memory!Indicators(headers[j]) # {}
    BY <1>1, <1>3
  <2>4. ASSUME NEW s \in shown
        PROVE  /\ s.region \in J
               /\ s.risk = "high" <=> Memory!Contradicts(headers[s.region])
               /\ s.risk = "none" <=> Memory!Indicators(headers[s.region]) = {}
    <3>1. PICK j \in J : s = [region |-> j, risk |-> Risk(j)]
      BY <2>2, <2>4
    <3>2. s.region = j /\ s.risk = Risk(j)
      BY <3>1
    <3> QED BY <3>2, RiskIs
  <2>5. ASSUME NEW j \in J PROVE \E s \in shown : s.region = j
    <3> DEFINE s == [region |-> j, risk |-> Risk(j)]
    <3>1. s \in shown /\ s.region = j
      BY <2>2, <2>5
    <3> QED BY <3>1
  <2>6. {s.region : s \in shown} = J
    <3> HIDE DEF J
    <3> QED BY <2>4, <2>5
  <2>7. J = {i \in DOMAIN headers : mode = "regions" \/ Memory!Indicators(headers[i]) # {}}
    BY <2>3
  <2> QED BY <1>3, <2>4, <2>6, <2>7
<1> QED BY <1>2, <1>3

LEMMA MemWarningHolds == ASSUME MemInv PROVE Memory!MemWarningIsEarned
<1> SUFFICES ASSUME pc = "exit", rc = 5
             PROVE  CASE mode \in {"regions", "suspicious"} -> Len(headers) > MaxRegions
                      [] mode = "residents" -> Len(modules) > MaxResidents
                      [] mode = "scan" ->
                           \/ candidates.truncated
                                /\ (disturbed \/ Memory!TrueCandidates \ Memory!Found # {})
                           \/ Memory!Sizes(regions.recs)[Len(regions.recs)] > TotalLimit - total_left
                           \/ total_left = 0 /\ \E i \in DOMAIN regions.recs : Memory!Size(regions.recs[i]) = 0
  BY DEF Memory!MemWarningIsEarned
<1>1. Looked /\ mode \in {"regions", "suspicious", "residents", "scan"}
  BY DEF Looked, MemInv, MemTypes, Memory!Modes
<1>2. CASE mode \in {"regions", "suspicious"}
  <2>1. regions.truncated
    BY <1>2 DEF MemInv, ReportRight
  <2>2. Len(headers) > MaxRegions
    BY <1>1, <2>1 DEF MemInv, RegionsRight
  <2> QED BY <1>2, <2>2
<1>3. CASE mode = "residents"
  <2>1. residents.truncated
    BY <1>3 DEF MemInv, ReportRight
  <2>2. Len(modules) > MaxResidents
    BY <2>1 DEF MemInv, ResidentsRight
  <2> QED BY <1>3, <2>2
<1>4. CASE mode = "scan"
  <2> DEFINE N == Len(regions.recs)
  <2>1. candidates.truncated \/ scan_limited
    BY <1>4 DEF MemInv, ReportRight
  <2>2. CASE candidates.truncated
    <3>1. ASSUME ~ disturbed PROVE Memory!TrueCandidates \ Memory!Found # {}
      <4>1. PICK i \in 1 .. N : \E a \in DOMAIN image : TrueAt(a, i) /\ ~ IsFound(a, i)
        BY <2>2, <3>1 DEF MemInv, FoundAll
      <4>2. PICK a \in DOMAIN image : TrueAt(a, i) /\ ~ IsFound(a, i)
        BY <4>1
      <4>3. <<a, i>> \in Memory!TrueCandidates /\ <<a, i>> \notin Memory!Found
        BY <1>1, <3>1, <4>2, FoundIs, TrueAre
      <4> QED BY <4>3
    <3> QED BY <1>4, <2>2, <3>1
  <2>3. CASE scan_limited
    <3>1. Charged < TotalSize(N) \/ (total_left = 0 /\ ZeroBefore(N))
      BY <2>3 DEF MemInv, BudgetRight
    <3>2. N \in Nat /\ regions.recs \in Seq(Header) /\ DOMAIN regions.recs = 1 .. N
          /\ TotalLimit \in Nat /\ total_left \in 0 .. TotalLimit
      BY ScanLimits DEF MemInv, MemTypes, RegionsRight
    <3>3. ZeroBefore(N) => \E i \in DOMAIN regions.recs : Memory!Size(regions.recs[i]) = 0
      BY <3>2 DEF ZeroBefore
    <3>4. TotalSize(N) \in Nat /\ TotalSize(N) = Memory!Sizes(regions.recs)[Len(regions.recs)]
      <4>1. Memory!Sizes(regions.recs) \in [0 .. N -> Nat] /\ N \in 0 .. N
        BY <3>2, SizesTurn
      <4> QED BY <4>1 DEF TotalSize
    <3>5. Charged < TotalSize(N) => TotalSize(N) > TotalLimit - total_left
      BY <3>2, <3>4 DEF Charged
    <3> QED BY <1>4, <3>1, <3>3, <3>4, <3>5
  <2> QED BY <2>1, <2>2, <2>3
<1> QED BY <1>1, <1>2, <1>3, <1>4
-----------------------------------------------------------------------------
(* One program runs, and its own steps are the only ones.                  *)
AllPrograms == Programs \union
  {"MemScan", "SampleDump", "PatchView", "HunkInfo", "Strings", "FileInfo", "BootInfo",
   "collect_artifacts", "snapshot", "batch_prepare"}

CollectorInv ==
  /\ program \in AllPrograms
  /\ program \in Programs => ListInv /\ QuietInv
  /\ program \notin Programs => truth = {}
  /\ program = "MemScan" => MemInv
  /\ program = "SampleDump" => DumpInv /\ DumpSizes
  /\ program = "PatchView" => PatchInv /\ PatchSizes
  /\ program = "Strings" => StringInv
  /\ program = "FileInfo" => DigestInv
  /\ program = "BootInfo" => BootInv
  /\ program = "HunkInfo" => HunkInv
  /\ program = "collect_artifacts" => StoreInv /\ StoreSizes
  /\ program = "snapshot" => TreeInv
  /\ program = "batch_prepare" => BatchInv

LEMMA ProgramsAre == Programs = {"TaskView", "ProcessView", "PortView", "ResidentView"}
BY DEF Programs, TaskPrograms

LEMMA OwnSteps ==
  ASSUME Next
  PROVE  /\ program' = program
         /\ program \in Programs => ListNext
         /\ program \notin Programs => truth' = truth
         /\ program = "MemScan" => Memory!MemNext
         /\ program = "SampleDump" => Dump!DumpNext
         /\ program = "PatchView" => Patch!PatchNext
         /\ program = "Strings" => Strs!StringsNext
         /\ program = "FileInfo" => Digest!FileNext
         /\ program = "BootInfo" => Boot!BootNext
         /\ program = "HunkInfo" => Hunks!HunkNext
         /\ program = "collect_artifacts" => Store!StoreNext
         /\ program = "snapshot" => Trees!DiffNext
         /\ program = "batch_prepare" => Batches!BatchNext
<1>1. CASE Listing /\ ListNext
  BY <1>1, ProgramsAre DEF Listing
<1>2. CASE Scanning /\ Memory!MemNext
  BY <1>2, ProgramsAre DEF Scanning, ListVars
<1>3. CASE Dumping /\ Dump!DumpNext
  BY <1>3, ProgramsAre DEF Dumping, ListVars
<1>4. CASE Patching /\ Patch!PatchNext
  BY <1>4, ProgramsAre DEF Patching, ListVars
<1>5. CASE FileTool
  <2>1. CASE Parsing /\ Hunks!HunkNext
    BY <2>1, ProgramsAre DEF Parsing, MachineVars, ListVars
  <2>2. CASE Extracting /\ Strs!StringsNext
    BY <2>2, ProgramsAre DEF Extracting, MachineVars, ListVars
  <2>3. CASE Digesting /\ Digest!FileNext
    BY <2>3, ProgramsAre DEF Digesting, MachineVars, ListVars
  <2>4. CASE Adding /\ Boot!BootNext
    BY <2>4, ProgramsAre DEF Adding, MachineVars, ListVars
  <2>5. CASE Collecting /\ Store!StoreNext
    BY <2>5, ProgramsAre DEF Collecting, OnHost, MachineVars, ListVars
  <2> QED BY <1>5, <2>1, <2>2, <2>3, <2>4, <2>5, Zenon DEF FileTool
<1>6. CASE Comparing /\ Trees!DiffNext
  BY <1>6, ProgramsAre DEF Comparing, OnHost, MachineVars, ListVars
<1>7. CASE Preparing /\ Batches!BatchNext
  BY <1>7, ProgramsAre DEF Preparing, OnHost, MachineVars, ListVars
<1> QED BY <1>1, <1>2, <1>3, <1>4, <1>5, <1>6, <1>7, Zenon DEF Next

LEMMA OwnStart ==
  ASSUME Init
  PROVE  /\ program \in AllPrograms
         /\ program \in Programs => ListInit
         /\ program \notin Programs => truth = {}
         /\ program = "MemScan" => Memory!MemInit
         /\ program = "SampleDump" => Dump!DumpInit
         /\ program = "PatchView" => Patch!PatchInit
         /\ program = "Strings" => Strs!StringsInit
         /\ program = "FileInfo" => Digest!FileInit
         /\ program = "BootInfo" => Boot!BootInit
         /\ program = "HunkInfo" => Hunks!HunkInit
         /\ program = "collect_artifacts" => Store!StoreInit
         /\ program = "snapshot" => Trees!DiffInit
         /\ program = "batch_prepare" => Batches!BatchInit
<1>1. \/ program \in Programs /\ ListInit
      \/ program = "HunkInfo" /\ Hunks!HunkInit
      \/ program = "FileInfo" /\ Digest!FileInit
      \/ program = "Strings" /\ Strs!StringsInit
      \/ program = "MemScan" /\ Memory!MemInit
      \/ program = "SampleDump" /\ Dump!DumpInit
      \/ program = "PatchView" /\ Patch!PatchInit
      \/ program = "BootInfo" /\ Boot!BootInit
      \/ program = "collect_artifacts" /\ Store!StoreInit
      \/ program = "snapshot" /\ Trees!DiffInit
      \/ program = "batch_prepare" /\ Batches!BatchInit
  <2>1. ListInit => program \in Programs
    BY Zenon DEF ListInit
  <2> HIDE DEF ListInit
  <2> QED BY <2>1, Zenon DEF Init
<1>2. program \notin Programs => truth = {}
  <2>1. program \notin Programs => NoLists
    BY Zenon DEF Init
  <2> QED BY <2>1 DEF NoLists
<1>3. program \in AllPrograms
  BY <1>1 DEF AllPrograms
<1> QED BY <1>1, <1>2, <1>3, ProgramsAre

LEMMA CollectorInvariance == Spec => []CollectorInv
<1>1. Init => CollectorInv
  BY OwnStart, InitList, InitQuiet, InitMem, InitDump, InitDumpSizes, InitPatch, InitPatchSizes,
     InitStrings, InitDigest, InitHunk, InitBoot, InitStore, InitStoreSizes, InitTree, InitBatch DEF CollectorInv
<1>2. CollectorInv /\ [Next]_vars => CollectorInv'
  <2>1. ASSUME CollectorInv, Next PROVE CollectorInv'
    BY <2>1, OwnSteps, StepList, StepQuiet, StepMem, StepDump, StepDumpSizes, StepPatch, StepPatchSizes, StepStrings,
       StepDigest, StepHunk, StepBoot, StepStore, StepStoreSizes, StepTree, StepBatch DEF CollectorInv
  <2>2. ASSUME CollectorInv, UNCHANGED vars PROVE CollectorInv'
    <3>1. program' = program /\ pc' = pc /\ rc' = rc /\ MachineVars' = MachineVars /\ FileVars' = FileVars
      BY <2>2 DEF vars
    <3>2. UNCHANGED <<pc, rc, headers, DumpVars>>
      BY <3>1, Zenon DEF MachineVars
    <3>10. ASSUME MemInv PROVE MemInv'
      <4>1. UNCHANGED <<pc, rc, headers, MemVars>>
        BY <3>1, Zenon DEF MachineVars
      <4> QED BY <3>10, <4>1, MemStays
    <3>3. UNCHANGED <<pc, rc, PatchVars>>
      BY <3>1, Zenon DEF MachineVars
    <3>4. UNCHANGED <<pc, rc, StoreVars>> /\ UNCHANGED <<pc, rc, TreeVars>> /\ UNCHANGED <<pc, BatchVars>>
      BY <3>1, Zenon DEF FileVars, HostVars
    <3>5. UNCHANGED <<program, pc, rc, ListVars>> /\ truth' = truth
      <4>1. ListVars' = ListVars
        BY <3>1, Zenon DEF MachineVars
      <4> QED BY <3>1, <4>1 DEF ListVars
    <3>6. UNCHANGED <<pc, rc, BootVars>>
      BY <3>1, Zenon DEF FileVars
    <3>11. UNCHANGED <<pc, rc, StringVars>>
      BY <3>1, Zenon DEF FileVars
    <3>13. UNCHANGED <<pc, rc, HunkVars>>
      BY <3>1, Zenon DEF FileVars
    <3>12. UNCHANGED <<pc, rc, DigestVars>>
      BY <3>1, Zenon DEF FileVars
    <3>7. ASSUME DumpInv PROVE DumpInv'
      BY <3>2, <3>7, DumpFactsStay DEF DumpVars, DumpInv, Copied, Consecutive
    <3>8. ASSUME PatchInv PROVE PatchInv'
      <4>1. Patch!This' = Patch!This
        BY <3>3 DEF PatchVars, Patch!This
      <4> QED BY <3>3, <3>8, <4>1, PatchFactsStay
          DEF PatchVars, PatchInv, PatchTypes, HeldRight, RecordsRight, NextRight, CountRight, Reading,
              MidVector, WayOut, OnTheWay
    <3>9. ASSUME StoreInv PROVE StoreInv'
      BY <3>4, <3>9 DEF StoreVars, StoreInv, Store!CollectedStays, Store!CollisionIsEarned
    <3> QED BY <2>2, <3>1, <3>2, <3>3, <3>4, <3>5, <3>6, <3>7, <3>8, <3>9, <3>10, <3>11, <3>12, <3>13, StepList, StepQuiet,
               StepStrings, StepDigest, StepHunk, StepBoot,
               StepDumpSizes, StepPatchSizes, StepStoreSizes, StepTree, StepBatch DEF CollectorInv
  <2> QED BY <2>1, <2>2
<1> QED BY <1>1, <1>2, PTL DEF Spec

(* Torn or not, a list that is not flagged has every task that was ready,  *)
(* the current one and all that Forbid keeps still.                        *)
THEOREM ListsMissOnlyWaiting == Spec => []ReadyNeverMissed
<1>1. CollectorInv => ReadyNeverMissed
  BY ListsAreRight DEF CollectorInv, ReadyNeverMissed
<1> QED BY <1>1, CollectorInvariance, PTL

(* TaskView, ProcessView, PortView and ResidentView: a list no interrupt   *)
(* tore is printed as the filter asks for it, each node once, and RC 5     *)
(* says that one really is missing.                                        *)
THEOREM QuietListsAreExact ==
  Spec => [](program \in Programs => ListTypeOK /\ QuietListIsExact /\ ListWarningIsEarned)
<1>1. CollectorInv => (program \in Programs => ListTypeOK /\ QuietListIsExact /\ ListWarningIsEarned)
  BY ListsAreRight DEF CollectorInv
<1> QED BY <1>1, CollectorInvariance, PTL

(* BootInfo: however long the block and wide its words, no carry is lost:  *)
(* the cut sum is the true sum less 2^32 - 1 for each carry.               *)
THEOREM NoCarryIsLost == Spec => [](program = "BootInfo" => Boot!CarriesAreKept)
<1>1. CollectorInv => (program = "BootInfo" => Boot!CarriesAreKept)
  BY DEF CollectorInv, BootInv
<1> QED BY <1>1, CollectorInvariance, PTL

(* Strings: RC 0 means that every run of printable bytes in the file that  *)
(* is long enough has its line, once, in order, at its place, with what    *)
(* the buffer keeps of it.                                                 *)
THEOREM StringsAreComplete == Spec => [](program = "Strings" => Strs!StringsTypeOK /\ Strs!RunsArePrinted)
<1>1. CollectorInv => (program = "Strings" => Strs!StringsTypeOK /\ Strs!RunsArePrinted)
  BY StringsAreRight DEF CollectorInv
<1> QED BY <1>1, CollectorInvariance, PTL

(* HunkInfo: RC 0 means that the words of the file fall into whole hunks   *)
(* of known types and that every counter is what a second reading counts   *)
(* in them; an accepted range fits the table, but for the one that wraps;  *)
(* RC 5 means a type that is unknown, where a type was expected.           *)
THEOREM HunksAreCounted ==
  Spec => [](program = "HunkInfo" =>
               /\ Hunks!HunkTypeOK /\ Hunks!TotalsAreTrue
               /\ Hunks!RangeFits /\ Hunks!RefusalIsEarned)
<1>1. CollectorInv => (program = "HunkInfo" =>
                         /\ Hunks!HunkTypeOK /\ Hunks!TotalsAreTrue
                         /\ Hunks!RangeFits /\ Hunks!RefusalIsEarned)
  BY HunkIsRight DEF CollectorInv
<1> QED BY <1>1, CollectorInvariance, PTL

(* FileInfo: RC 0 means that, however fread cut the file, SHA-256 was      *)
(* computed of the padded file, block by block, the CRC took in every byte *)
(* once and the type is that of the first four.                            *)
THEOREM DigestsAreRight ==
  Spec => [](program = "FileInfo" => Digest!FileTypeOK /\ Digest!DigestsAreOfTheFile)
<1>1. CollectorInv => (program = "FileInfo" => Digest!FileTypeOK /\ Digest!DigestsAreOfTheFile)
  BY DigestIsRight DEF CollectorInv
<1> QED BY <1>1, CollectorInvariance, PTL

(* A block is called valid exactly when the sum of its words, as a number, *)
(* is a multiple of 2^32 - 1 and is not 0.                                 *)
THEOREM ValidityIsExact == Spec => [](program = "BootInfo" => Boot!ValidIsCongruent)
<1>1. CollectorInv => (program = "BootInfo" => Boot!ValidIsCongruent)
  BY BootIsRight DEF CollectorInv
<1> QED BY <1>1, CollectorInvariance, PTL

(* No failure of SampleDump leaves a part of a file, and each of           *)
(* PatchView's exits gives back what it acquired, in an order in which     *)
(* nothing given back is still needed.                                     *)
THEOREM FailureIsClean == Spec => []FailureCleansUp
<1>1. CollectorInv => FailureCleansUp
  <2>1. DumpInv => Dump!NoPartialFile
    BY DEF DumpInv, Dump!NoPartialFile
  <2>2. ASSUME PatchInv PROVE Patch!NothingLeaks
    <3>1. CASE pc = "release"
      <4>1. ASSUME NEW way \in {<< >>, <<"library">>, <<"port">>, <<"request", "port">>,
                                <<"device", "request", "port">>}
            PROVE  \A i, j \in DOMAIN way : way[i] = way[j] => i = j
        OBVIOUS
      <4>2. \A i, j \in DOMAIN release : release[i] = release[j] => i = j
        BY <2>2, <3>1, <4>1 DEF PatchInv, HeldRight, WayOut, OnTheWay
      <4>3. /\ \A i \in DOMAIN release : release[i] \in held
            /\ "device" \in held => "request" \in held
            /\ "request" \in held => "port" \in held
        BY <2>2, <3>1 DEF PatchInv, HeldRight, WayOut, OnTheWay
      <4> QED BY <3>1, <4>2, <4>3 DEF Patch!NothingLeaks
    <3>2. CASE Reading
      BY <2>2, <3>2 DEF PatchInv, HeldRight, Reading, Opened, Patch!NothingLeaks
    <3>3. CASE pc # "release" /\ ~ Reading
      <4>1. /\ "device" \in held => "request" \in held
            /\ "request" \in held => "port" \in held
        <5>1. pc \in {"start", "alloc", "library", "port", "request", "device", "base",
                       "print", "free", "exit"}
          BY <2>2, <3>3 DEF PatchInv, PatchTypes, Reading
        <5> QED BY <2>2, <5>1 DEF PatchInv, HeldRight
      <4> QED BY <2>2, <3>3, <4>1 DEF PatchInv, HeldRight, Reading, Patch!NothingLeaks
    <3> QED BY <3>1, <3>2, <3>3
  <2> QED BY <2>1, <2>2 DEF CollectorInv, FailureCleansUp
<1> QED BY <1>1, CollectorInvariance, PTL

(* What was collected under a label stays as it is, whatever is collected  *)
(* there later, and a collection that fails of itself met a name that was  *)
(* taken.                                                                  *)
THEOREM CollectionIsKept == Spec => []CollectedIsKept
<1>1. CollectorInv => CollectedIsKept
  BY DEF CollectorInv, StoreInv, CollectedIsKept
<1> QED BY <1>1, CollectorInvariance, PTL

(* A dump that ends well is the range, byte by byte, and its checksum is   *)
(* that of the file, whatever is written to the range meanwhile.           *)
THEOREM DumpIsTheRange == Spec => [](program = "SampleDump" => Dump!DumpIsWhole)
<1>1. DumpInv => Dump!DumpIsWhole
  <2> SUFFICES ASSUME DumpInv, pc = "exit", rc = 0 PROVE Dump!DumpIsWhole
    BY DEF Dump!DumpIsWhole
  <2>1. /\ file = Dump!OurFile(crc) /\ Consecutive(crc, address) /\ length = Len(crc)
        /\ length \in 1 .. MaxBytes /\ address \in 0 .. Word - 1 /\ Dump!InRegion
    BY DEF DumpInv, Copied
  <2>2. file.is = "ours" /\ file.bytes = crc
    BY <2>1 DEF Dump!OurFile
  <2>3. DOMAIN crc = 1 .. length /\ \A i \in 1 .. length : crc[i].at = address + i - 1
    BY <2>1 DEF Consecutive
  <2>4. [i \in DOMAIN crc |-> crc[i].at] = [i \in 1 .. length |-> address + i - 1]
    BY <2>3
  <2>5. Dump!RangeInRegion \/ address + length = Word
    <3>1. Word \in Nat \ {0} /\ MaxBytes \in Nat \ {0}
      BY Limits
    <3>2. address \in Nat /\ length \in Nat /\ address + length <= Word
      BY <2>1, <3>1 DEF Dump!InRegion
    <3>3. CASE address + length < Word
      <4>1. Dump!EndOfRange = address + length
        <5> DEFINE e == address + length
        <5>1. e \in 0 .. Word - 1
          BY <3>1, <3>2, <3>3
        <5> HIDE DEF e
        <5>2. e % Word = e
          BY <3>1, <5>1
        <5> QED BY <5>2 DEF e, Dump!EndOfRange
      <4>2. PICK i \in DOMAIN headers : Dump!Covers(headers[i])
        BY <2>1 DEF Dump!InRegion
      <4> QED BY <4>1, <4>2 DEF Dump!Covers, Dump!RangeInRegion
    <3> QED BY <3>1, <3>2, <3>3
  <2> QED BY <2>2, <2>4, <2>5 DEF Dump!DumpIsWhole
<1> QED BY <1>1, CollectorInvariance, PTL DEF CollectorInv

(* PatchView's records are those of the vectors, but for the ones that are *)
(* set while it reads; RC 5 says that more were asked for than there are.  *)
THEOREM PatchViewIsRight ==
  Spec => [](program = "PatchView" => Patch!QuietViewIsExact /\ Patch!ClipIsEarned)
<1>1. PatchInv => Patch!QuietViewIsExact /\ Patch!ClipIsEarned
  <2> SUFFICES ASSUME PatchInv, pc = "exit", rc \in {0, 5}
               PROVE  Patch!QuietViewIsExact /\ Patch!ClipIsEarned
    BY DEF Patch!QuietViewIsExact, Patch!ClipIsEarned
  <2>1. neg_size \in NegSizes /\ count \in 0 .. MaxCount + 1
    BY DEF PatchInv, PatchTypes
  <2>2. /\ records \in Seq(PatchRecord) /\ Len(sum) = Len(records) /\ Len(records) = Patch!Inspected
        /\ rc = 5 <=> Patch!Clipped
    BY DEF PatchInv, PatchTypes, CountRight
  <2>3. Len(records) <= Patch!Available /\ (rc = 5 <=> count > Patch!Available)
    BY <2>1, <2>2, Bounds
  <2>4. rc = 0 => Len(records) = count
    BY <2>1, <2>2, <2>3, Bounds DEF Patch!Inspected
  <2>5. \A i \in DOMAIN records \ patched : records[i] = Patch!RecordOf(vectors[i]) /\ sum[i] = vectors[i]
    BY <2>2 DEF PatchInv, RecordsRight
  <2>6. Patch!ClipIsEarned
    BY <2>3 DEF Patch!ClipIsEarned
  <2> QED BY <2>2, <2>3, <2>4, <2>5, <2>6 DEF Patch!QuietViewIsExact
<1> QED BY <1>1, CollectorInvariance, PTL DEF CollectorInv

(* snapshot and compare: what is said of a file nobody wrote to while it   *)
(* was looked at is what happened to it between the two; and nothing fails *)
(* unless something was written.                                           *)
THEOREM DifferenceIsExact == Spec => [](program = "snapshot" => Trees!DiffIsExact)
<1>1. CollectorInv => (program = "snapshot" => Trees!DiffIsExact)
  BY TreeIsRight DEF CollectorInv
<1> QED BY <1>1, CollectorInvariance, PTL

(* batch_prepare: however many batches share a run root, what is called    *)
(* prepared has a directory of its own that is of the sample.  What failed *)
(* has its cause: a sample that was not there has no directory, one whose  *)
(* name was taken met a directory of the same content, and what was made   *)
(* before a later failure is never one that looks like a run.              *)
THEOREM BatchesAreTrue ==
  Spec => [](program = "batch_prepare" => Batches!PreparedIsTrue /\ Batches!FailureIsEarned)
<1>1. CollectorInv => (program = "batch_prepare" => Batches!PreparedIsTrue /\ Batches!FailureIsEarned)
  BY BatchIsRight DEF CollectorInv
<1> QED BY <1>1, CollectorInvariance, PTL

(* MemScan: if nobody writes to memory, a scan that returns RC 0 has       *)
(* reported every place in a region where a Resident may begin, once, and  *)
(* said of each whether Exec knows it; a listing has every header and      *)
(* every module Exec knows that was asked for, unless the table was too    *)
(* small, with a risk that is high exactly if its figures contradict each  *)
(* other; and RC 5 says that something was left out.                       *)
THEOREM MemScanIsRight ==
  Spec => [](program = "MemScan" =>
               /\ Memory!MemTypeOK /\ Memory!QuietScanIsExact
               /\ Memory!ListingIsExact /\ Memory!MemWarningIsEarned)
<1>1. CollectorInv => (program = "MemScan" =>
                         /\ Memory!MemTypeOK /\ Memory!QuietScanIsExact
                         /\ Memory!ListingIsExact /\ Memory!MemWarningIsEarned)
  BY MemIsTyped, QuietScanHolds, ListingHolds, MemWarningHolds DEF CollectorInv
<1> QED BY <1>1, CollectorInvariance, PTL

(* All of them: RC 0 of a program that looks at the machine, or at files   *)
(* of the host, means that what it was asked for is there.                 *)
THEOREM CleanRunsAreExact == Spec => []CleanIsExact
<1> DEFINE MemPart == program = "MemScan" =>
                        /\ Memory!MemTypeOK /\ Memory!QuietScanIsExact
                        /\ Memory!ListingIsExact /\ Memory!MemWarningIsEarned
           DumpPart == program = "SampleDump" => Dump!DumpIsWhole
           PatchPart == program = "PatchView" => Patch!QuietViewIsExact /\ Patch!ClipIsEarned
           TreePart == program = "snapshot" => Trees!DiffIsExact
           BatchPart == program = "batch_prepare" => Batches!PreparedIsTrue /\ Batches!FailureIsEarned
           ListPart == program \in Programs => ListTypeOK /\ QuietListIsExact /\ ListWarningIsEarned
<1>1. MemPart /\ DumpPart /\ PatchPart /\ TreePart /\ BatchPart /\ ListPart => CleanIsExact
  BY ProgramsAre DEF CleanIsExact
<1>2. Spec => []MemPart /\ []DumpPart /\ []PatchPart /\ []TreePart /\ []BatchPart /\ []ListPart
  BY MemScanIsRight, DumpIsTheRange, PatchViewIsRight, DifferenceIsExact, BatchesAreTrue, QuietListsAreExact
<1> HIDE DEF MemPart, DumpPart, PatchPart, TreePart, BatchPart, ListPart
<1> QED BY <1>1, <1>2, PTL

(* What a program prints of a file is true of the file. *)
THEOREM FilesAreReadRight == Spec => []FileIsReadRight
<1>1. CollectorInv => FileIsReadRight
  <2> SUFFICES ASSUME CollectorInv PROVE FileIsReadRight
    OBVIOUS
  <2>1. program = "HunkInfo" => Hunks!TotalsAreTrue /\ Hunks!RangeFits
    BY HunkIsRight DEF CollectorInv
  <2>2. program = "Strings" => Strs!RunsArePrinted
    BY StringsAreRight DEF CollectorInv
  <2>3. program = "FileInfo" => Digest!DigestsAreOfTheFile
    BY DigestIsRight DEF CollectorInv
  <2>4. program = "BootInfo" => Boot!CarriesAreKept /\ Boot!ValidIsCongruent
    BY BootIsRight DEF CollectorInv, BootInv
  <2> QED BY <2>1, <2>2, <2>3, <2>4 DEF FileIsReadRight
<1> QED BY <1>1, CollectorInvariance, PTL

(* RC 5 is earned: something was left out, is not supported or does not    *)
(* exist; of a batch, a sample failed, and each one that did has its       *)
(* cause, before there was a directory or after.                           *)
THEOREM WarningsAreEarned == Spec => []WarningIsEarned
<1> DEFINE MemPart == program = "MemScan" =>
                        /\ Memory!MemTypeOK /\ Memory!QuietScanIsExact
                        /\ Memory!ListingIsExact /\ Memory!MemWarningIsEarned
           PatchPart == program = "PatchView" => Patch!QuietViewIsExact /\ Patch!ClipIsEarned
           BatchPart == program = "batch_prepare" => Batches!PreparedIsTrue /\ Batches!FailureIsEarned
           ListPart == program \in Programs => ListTypeOK /\ QuietListIsExact /\ ListWarningIsEarned
           OtherPart == /\ program = "SampleDump" => Dump!RefusalIsEarned
                        /\ program = "HunkInfo" => Hunks!RefusalIsEarned
<1>1. MemPart /\ PatchPart /\ BatchPart /\ ListPart /\ OtherPart => WarningIsEarned
  BY ProgramsAre DEF WarningIsEarned
<1>2. CollectorInv => OtherPart
  <2>1. CollectorInv /\ program = "SampleDump" => Dump!RefusalIsEarned
    BY DEF CollectorInv, DumpSizes, Dump!RefusalIsEarned
  <2>2. CollectorInv /\ program = "HunkInfo" => Hunks!RefusalIsEarned
    BY HunkIsRight DEF CollectorInv
  <2> QED BY <2>1, <2>2
<1>3. Spec => []MemPart /\ []PatchPart /\ []BatchPart /\ []ListPart
  BY MemScanIsRight, PatchViewIsRight, BatchesAreTrue, QuietListsAreExact
<1> HIDE DEF MemPart, PatchPart, BatchPart, ListPart, OtherPart
<1> QED BY <1>1, <1>2, <1>3, CollectorInvariance, PTL

(* The counters, buffers and tables of all programs stay within their      *)
(* bounds.                                                                 *)
THEOREM CollectorsAreTyped == Spec => []TypeOK
<1>1. CollectorInv => TypeOK
  <2> SUFFICES ASSUME CollectorInv PROVE TypeOK
    OBVIOUS
  <2>1. program = "MemScan" => Memory!MemTypeOK
    BY MemIsTyped DEF CollectorInv
  <2>2. program = "SampleDump" => Dump!DumpTypeOK
    BY DEF CollectorInv, DumpInv, DumpSizes, Dump!DumpTypeOK
  <2>3. program = "PatchView" => Patch!PatchTypeOK
    BY DEF CollectorInv, PatchInv, PatchTypes, PatchSizes, Kept, Patch!PatchTypeOK
  <2>4. program = "HunkInfo" => Hunks!HunkTypeOK
    BY HunkIsRight DEF CollectorInv
  <2>5. program = "Strings" => Strs!StringsTypeOK
    BY StringsAreRight DEF CollectorInv
  <2>6. program = "FileInfo" => Digest!FileTypeOK
    BY DigestIsRight DEF CollectorInv
  <2>7. program = "BootInfo" => Boot!BootTypeOK
    BY DEF CollectorInv, BootInv
  <2>8. program = "collect_artifacts" => Store!StoreTypeOK
    BY DEF CollectorInv, StoreInv, StoreSizes, Store!StoreTypeOK
  <2>9. program = "snapshot" => Trees!DiffTypeOK
    BY TreeIsRight DEF CollectorInv
  <2>10. program = "batch_prepare" => Batches!BatchTypeOK
    BY BatchIsRight DEF CollectorInv
  <2>11. program \in Programs => ListTypeOK
    BY ListsAreRight DEF CollectorInv
  <2>12. program \in AllPrograms
    BY DEF CollectorInv
  <2> QED BY <2>1, <2>2, <2>3, <2>4, <2>5, <2>6, <2>7, <2>8, <2>9, <2>10, <2>11, <2>12
          DEF TypeOK, AllPrograms
<1> QED BY <1>1, CollectorInvariance, PTL

=============================================================================
