------------------------------ MODULE MemScan ------------------------------
(***************************************************************************)
(* src/memscan.c: the memory headers and the resident modules of Exec are  *)
(* copied into two tables under Forbid(); --scan-residents then looks in a *)
(* window at the start of each region for words that begin a Resident, and *)
(* it does so after Permit(), while other tasks write to that memory.      *)
(*                                                                         *)
(* Addresses are numbers of bytes.  Memory is what it holds at the words   *)
(* that equal RTC_MATCHWORD: a match tag and an end.  The other fields of  *)
(* a Resident tell nothing apart here.                                     *)
(***************************************************************************)
EXTENDS BoundedRecords, FiniteSets, Selection

CONSTANTS
  MaxRegions,    (* MS_MAX_RECORDS                                          *)
  MaxResidents,  (* MS_MAX_RESIDENTS                                        *)
  MaxCandidates, (* MS_MAX_CANDIDATES                                       *)
  MaxModules,    (* the 256 entries of ResModules that are looked at        *)
  RegionLimit,   (* MS_SCAN_REGION_LIMIT                                    *)
  TotalLimit,    (* MS_SCAN_TOTAL_LIMIT                                     *)
  MinSize,       (* MS_RESIDENT_MIN_SIZE                                    *)
  Headers,       (* the lists of memory headers the machine may have        *)
  Modules,       (* the arrays of resident addresses it may have            *)
  Images,        (* what its memory may hold                                *)
  Written        (* what other tasks may make of it during a scan           *)

VARIABLES
  headers, modules,     (* Exec's lists                                     *)
  memory,               (* address of a match word |-> its tag and end      *)
  pc, rc,               (* where main is, what it returns                   *)
  mode,                 (* what the arguments ask for                       *)
  regions, residents,   (* the tables filled under Forbid                   *)
  candidates,           (* the table the scan fills                         *)
  region, off,          (* i of scan_snapshot..., off of scan_buffer...     *)
  total_left, scan_regions, scan_limited,
  shown,                (* the records printed, other than candidates       *)
  image,                (* history: memory since the snapshot, undisturbed  *)
  disturbed             (* history: it was written to during the scan       *)

tables == <<regions, residents, candidates>>
scanVars == <<region, off, total_left, scan_regions, scan_limited, shown>>
history == <<image, disturbed>>
Modes == {"regions", "suspicious", "residents", "scan"}

MemInit ==
  /\ headers \in Headers /\ modules \in Modules /\ memory \in Images
  /\ pc = "start" /\ rc = 0 /\ mode = "regions"
  /\ regions = EmptyTable /\ residents = EmptyTable /\ candidates = EmptyTable
  /\ region = 1 /\ off = 0
  /\ total_left = TotalLimit /\ scan_regions = 0 /\ scan_limited = FALSE
  /\ shown = {} /\ image = memory /\ disturbed = FALSE
-----------------------------------------------------------------------------
Smaller(a, b) == IF a <= b THEN a ELSE b

(* The word at a is the match word, and the tag behind it points to it.    *)
IsResident(mem, a) == a \in DOMAIN mem /\ mem[a].tag = a
Residents(mem) == {a \in DOMAIN mem : IsResident(mem, a)}

IsCandidate(mem, a, upper) == IsResident(mem, a) /\ mem[a].end > a /\ mem[a].end <= upper

WindowUnlimited(r) == Smaller(r.upper - r.lower, RegionLimit)

(* length in scan_snapshot_for_residents.                                  *)
Window(r) == Smaller(Smaller(r.upper - r.lower, RegionLimit), total_left)

CutShortOnce(r) == r.upper - r.lower > RegionLimit
CutShort(r) == Window(r) < r.upper - r.lower

HasRoomStrict(r) == off + MinSize < Window(r)
HasRoom(r) == off + MinSize <= Window(r)

(* evaluate: what is odd about a memory header, and how much it counts.    *)
Size(r) == IF r.upper >= r.lower THEN r.upper - r.lower ELSE 0
Weight == [invalid_range |-> 100, zero_size |-> 60, free_exceeds_range |-> 100,
           odd_boundary |-> 20, unnamed |-> 10]

Indicators(r) ==
  {h \in DOMAIN Weight :
     CASE h = "invalid_range" -> r.upper < r.lower
       [] h = "zero_size" -> Size(r) = 0
       [] h = "free_exceeds_range" -> r.free > Size(r)
       [] h = "odd_boundary" -> r.lower % 2 = 1 \/ r.upper % 2 = 1
       [] OTHER -> ~ r.named}

Points(h, r) == IF h \in Indicators(r) THEN Weight[h] ELSE 0

Score(r) ==
  Points("invalid_range", r) + Points("zero_size", r) + Points("free_exceeds_range", r)
    + Points("odd_boundary", r) + Points("unnamed", r)

RiskLevelLow(score) ==
  IF score >= 60 THEN "high" ELSE IF score >= 40 THEN "medium" ELSE IF score > 0 THEN "low" ELSE "none"

RiskLevel(score) ==
  IF score >= 100 THEN "high" ELSE IF score >= 40 THEN "medium" ELSE IF score > 0 THEN "low" ELSE "none"

(* The first region that holds the address; 0 stands for -1, for none.     *)
ContainingRegion(a) ==
  LET holding == {i \in DOMAIN regions.recs :
                    a >= regions.recs[i].lower /\ a < regions.recs[i].upper}
  IN  IF holding = {} THEN 0 ELSE CHOOSE i \in holding : \A j \in holding : i <= j

(* print_human and print_kv, with --suspicious or without; then those of   *)
(* the residents.                                                          *)
ShownRegions ==
  {[region |-> i, risk |-> RiskLevel(Score(regions.recs[i]))] :
     i \in {j \in DOMAIN regions.recs : mode # "suspicious" \/ Indicators(regions.recs[j]) # {}}}

ShownResidents ==
  {[address |-> residents.recs[i], region |-> ContainingRegion(residents.recs[i])] :
     i \in DOMAIN residents.recs}
-----------------------------------------------------------------------------
Start ==
  /\ pc = "start"
  /\ \/ pc' = "exit" /\ rc' \in {10, 20} /\ UNCHANGED mode
     \/ pc' = "snapshot" /\ mode' \in Modes /\ UNCHANGED rc
  /\ UNCHANGED <<headers, modules, memory, tables, scanVars, history>>

(* take_snapshot: no other task runs, and no interrupt changes this.       *)
TakeSnapshot ==
  /\ pc = "snapshot"
  /\ regions' = AddRecords(regions, headers, MaxRegions)
  /\ LET seen == SubSeq(modules, 1, Smaller(Len(modules), MaxModules)) IN
     residents' = AddRecords(residents, Selected(seen, Residents(memory)), MaxResidents)
  /\ pc' = IF mode = "scan" THEN "regions" ELSE "print"
  /\ image' = memory
  /\ UNCHANGED <<headers, modules, memory, rc, mode, candidates, scanVars, disturbed>>

(* A region is passed over if it is empty or its window too small, else    *)
(* its window is entered.                                                  *)
NextRegion ==
  /\ pc = "regions" /\ region <= Len(regions.recs) /\ total_left > 0
  /\ LET r == regions.recs[region]
         full == r.upper > r.lower
     IN  /\ scan_limited' = (scan_limited \/ (full /\ CutShort(r)))
         /\ IF full /\ Window(r) >= MinSize
              THEN pc' = "words" /\ off' = 0 /\ UNCHANGED region
              ELSE region' = region + 1 /\ UNCHANGED <<pc, off>>
  /\ UNCHANGED <<headers, modules, memory, rc, mode, tables, total_left, scan_regions, shown, history>>

Registered(a) == \E i \in DOMAIN residents.recs : residents.recs[i] = a

(* One turn of scan_buffer_for_residents.                                  *)
ScanWord ==
  /\ pc = "words" /\ ~ candidates.truncated
  /\ HasRoom(regions.recs[region])
  /\ LET r == regions.recs[region]
         a == r.lower + off
         c == [address |-> a, region |-> region, registered |-> Registered(a)]
     IN  candidates' = IF IsCandidate(memory, a, r.upper)
                         THEN AddRecord(candidates, c, MaxCandidates) ELSE candidates
  /\ off' = off + 2
  /\ UNCHANGED <<headers, modules, memory, pc, rc, mode, regions, residents,
                 region, total_left, scan_regions, scan_limited, shown, history>>

(* The window is done, or the table of candidates is full: the budget is   *)
(* charged with all of the window.                                         *)
EndRegion ==
  /\ pc = "words"
  /\ candidates.truncated \/ ~ HasRoom(regions.recs[region])
  /\ total_left' = total_left - Window(regions.recs[region])
  /\ scan_regions' = scan_regions + 1
  /\ pc' = IF candidates.truncated THEN "scanned" ELSE "regions"
  /\ region' = region + 1
  /\ UNCHANGED <<headers, modules, memory, rc, mode, tables, off, scan_limited, shown, history>>

EndOfRegions ==
  /\ pc = "regions" /\ (region > Len(regions.recs) \/ total_left = 0)
  /\ pc' = "scanned"
  /\ UNCHANGED <<headers, modules, memory, rc, mode, tables, scanVars, history>>

(* A spent budget counts as a limit when not every region has been read.   *)
EndOfScan ==
  /\ pc = "scanned"
  /\ scan_limited' = (scan_limited \/ (total_left = 0 /\ Len(regions.recs) > scan_regions))
  /\ pc' = "print"
  /\ UNCHANGED <<headers, modules, memory, rc, mode, tables, region, off, total_left,
                 scan_regions, shown, history>>

Report ==
  /\ pc = "print"
  /\ rc' = IF CASE mode = "scan" -> candidates.truncated \/ scan_limited
                [] mode = "residents" -> residents.truncated
                [] OTHER -> regions.truncated
           THEN 5 ELSE 0
  /\ shown' = CASE mode = "scan" -> {} [] mode = "residents" -> ShownResidents [] OTHER -> ShownRegions
  /\ pc' = "exit"
  /\ UNCHANGED <<headers, modules, memory, mode, tables, region, off, total_left,
                 scan_regions, scan_limited, history>>

MemTool ==
  Start \/ TakeSnapshot \/ NextRegion \/ ScanWord \/ EndRegion \/ EndOfRegions \/ EndOfScan \/ Report

(* Another task writes the match word somewhere or overwrites it.          *)
OtherTask ==
  /\ pc \in {"regions", "words"}
  /\ memory' \in Written \ {memory}
  /\ disturbed' = TRUE /\ image' = << >>
  /\ UNCHANGED <<headers, modules, pc, rc, mode, tables, scanVars>>

MemNext == MemTool \/ OtherTask
-----------------------------------------------------------------------------
MemTypeOK ==
  /\ pc \in {"start", "snapshot", "regions", "words", "scanned", "print", "exit"}
  /\ rc \in {0, 5, 10, 20}
  /\ Len(regions.recs) <= MaxRegions /\ Len(residents.recs) <= MaxResidents
  /\ Len(candidates.recs) <= MaxCandidates
  /\ region \in 1 .. MaxRegions + 1
  /\ off \in Nat /\ total_left \in 0 .. TotalLimit

(* Every place in a region where a Resident may begin and have room, and   *)
(* what it ends with lies in the region.                                   *)
TrueCandidates ==
  UNION {{<<a, i>> : a \in {b \in DOMAIN image :
                              /\ b >= headers[i].lower /\ (b - headers[i].lower) % 2 = 0
                              /\ b + MinSize <= headers[i].upper
                              /\ image[b].tag = b
                              /\ image[b].end \in b + 1 .. headers[i].upper}}
           : i \in DOMAIN headers}

Found == {<<c.address, c.region>> : c \in {candidates.recs[i] : i \in DOMAIN candidates.recs}}

(* Nobody wrote to memory and Exec's lists fit: RC 0 means that every      *)
(* candidate of every region is reported, once, and with the right answer  *)
(* to whether Exec knows it.                                               *)
QuietScanIsExact ==
  pc = "exit" /\ mode = "scan" /\ rc = 0 /\ ~ disturbed /\ ~ regions.truncated =>
    /\ Found = TrueCandidates /\ Len(candidates.recs) = Cardinality(Found)
    /\ Len(modules) <= MaxResidents /\ Len(modules) <= MaxModules =>
         \A i \in DOMAIN candidates.recs :
           LET c == candidates.recs[i] IN
           c.registered <=> \E m \in DOMAIN modules : modules[m] = c.address

Contradicts(r) == r.upper < r.lower \/ r.free > Size(r)

(* RC 0 of the other modes: every header is printed, or with --suspicious  *)
(* every one that has an indicator; the risk is high exactly for those     *)
(* whose figures contradict each other, and none for those with nothing    *)
(* odd.  Of the residents, every entry of Exec's array that points to one  *)
(* is listed, and it is given a region that holds it, if there is one.     *)
ListingIsExact ==
  pc = "exit" /\ rc = 0 /\ mode # "scan" =>
    IF mode = "residents"
      THEN /\ Len(modules) <= MaxModules =>
                {s.address : s \in shown} =
                  {a \in DOMAIN image : image[a].tag = a /\ \E m \in DOMAIN modules : modules[m] = a}
           /\ \A s \in shown :
                IF s.region = 0
                  THEN \A i \in DOMAIN regions.recs :
                         s.address \notin regions.recs[i].lower .. regions.recs[i].upper - 1
                  ELSE s.address \in regions.recs[s.region].lower .. regions.recs[s.region].upper - 1
      ELSE /\ {s.region : s \in shown} =
                {i \in DOMAIN headers : mode = "regions" \/ Indicators(headers[i]) # {}}
           /\ \A s \in shown :
                /\ s.risk = "high" <=> Contradicts(headers[s.region])
                /\ s.risk = "none" <=> Indicators(headers[s.region]) = {}

(* How much the first of the regions rs hold together. *)
Sizes(rs) ==
  LET upTo[i \in 0 .. Len(rs)] == IF i = 0 THEN 0 ELSE upTo[i - 1] + Size(rs[i])
  IN  upTo

(* RC 5 is not raised for nothing: a header, a resident or a candidate     *)
(* found no room, or there is memory that was not looked at.  One false    *)
(* alarm is left: the budget is spent to the byte, and a region is empty.  *)
MemWarningIsEarned ==
  pc = "exit" /\ rc = 5 =>
    CASE mode \in {"regions", "suspicious"} -> Len(headers) > MaxRegions
      [] mode = "residents" -> Len(modules) > MaxResidents
      [] mode = "scan" ->
           \/ candidates.truncated /\ (disturbed \/ TrueCandidates \ Found # {})
           \/ Sizes(regions.recs)[Len(regions.recs)] > TotalLimit - total_left
           \/ total_left = 0 /\ \E i \in DOMAIN regions.recs : Size(regions.recs[i]) = 0
=============================================================================
