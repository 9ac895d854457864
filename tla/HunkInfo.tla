------------------------------ MODULE HunkInfo ------------------------------
(***************************************************************************)
(* src/hunkinfo.c: add up the hunks of an executable.                      *)
(*                                                                         *)
(* The file is chosen while it is read: where the code reads a word, the   *)
(* file has any word of Types or Numbers there, or it ends.  Words are     *)
(* numbers below Word (2^32); the two highest bits are flags.  Payloads    *)
(* are skipped unseen and stand as zeros.                                  *)
(***************************************************************************)
EXTENDS Naturals, Sequences, FiniteSets

CONSTANTS
  Word,        (* 2^32                                                      *)
  HUNK_UNIT,   (* 999; the other types are the numbers that follow it       *)
  Heads,       (* bound of the model: table size, first and last hunk       *)
  Types,       (* bound of the model: words where a type is expected        *)
  Numbers,     (* bound of the model: words where a number is expected      *)
  MaxWords     (* bound of the model: words behind the header               *)

VARIABLES
  pc, rc,                    (* where main is, what it returns              *)
  table_size, first, last,   (* of the header                               *)
  stream,                    (* history: the words read behind the header   *)
  rest,                      (* history: what is behind the last whole word *)
  totals                     (* the counters of main                        *)

HUNK_CODE == HUNK_UNIT + 2
HUNK_BSS == HUNK_UNIT + 4
HUNK_RELOC32 == HUNK_UNIT + 5
HUNK_SYMBOL == HUNK_UNIT + 9
HUNK_DEBUG == HUNK_UNIT + 10
HUNK_END == HUNK_UNIT + 11
Sections == {HUNK_CODE, HUNK_CODE + 1, HUNK_BSS}
Skipped == {HUNK_UNIT, HUNK_UNIT + 1, HUNK_DEBUG}
Supported == Sections \union Skipped \union {HUNK_RELOC32, HUNK_SYMBOL, HUNK_END}

Mask == Word \div 4
NoTotals == [segments |-> 0, code |-> 0, data |-> 0, bss |-> 0,
             reloc |-> 0, symbols |-> 0, debug |-> 0]

hunkState == <<table_size, first, last, stream, rest, totals>>

HunkInit ==
  /\ pc = "start" /\ rc = 0 /\ table_size = 0 /\ first = 0 /\ last = 0
  /\ stream = << >> /\ rest = "more" /\ totals = NoTotals
-----------------------------------------------------------------------------
Exit(code) == pc' = "exit" /\ rc' = code
Continue(place) == pc' = place /\ UNCHANGED rc

(* Usage, fopen, and the first word. *)
Open ==
  /\ pc = "start"
  /\ Exit(10) \/ Exit(20) \/ Exit(5) \/ Continue("header")
  /\ UNCHANGED hunkState

DeclaredExact == IF last >= first THEN last - first + 1 ELSE 0

(* last_hunk - first_hunk + 1U wraps to 0 for the widest range. *)
Declared == (Word + last - first + 1) % Word

BadRange == last < first \/ table_size = 0 \/ Declared > table_size

(* Resident names, the three numbers, one size per entry of the table: the *)
(* file may end in each of them.                                           *)
Header ==
  /\ pc = "header"
  /\ \E h \in Heads : table_size' = h[1] /\ first' = h[2] /\ last' = h[3]
  /\ Exit(20) \/ (~ BadRange' /\ Continue("hunks"))
  /\ UNCHANGED <<stream, rest, totals>>

(* The words ws are there, and all of what a count n makes the code skip.  *)
Payload(n) == [i \in 1 .. n |-> 0]
Reads(ws, n) ==
  /\ n < Mask /\ Len(stream) + Len(ws) + n <= MaxWords
  /\ stream' = stream \o ws \o Payload(n)
  /\ UNCHANGED rest

(* The file ends too early, or skip_longs refuses the count. *)
Malformed ==
  /\ pc \in {"hunks", "reloc", "symbols"}
  /\ Exit(20)
  /\ UNCHANGED hunkState

Plus(m, n) == (m + n) % Word
Add(field, n) == totals' = [totals EXCEPT ![field] = Plus(totals[field], n)]

SectionSizeUnmasked(n) == n

SectionSize(n) == n % Mask

(* CODE and DATA have a payload, BSS has only a size. *)
Section ==
  /\ pc = "hunks"
  /\ \E w \in Types, n \in Numbers :
       LET type == w % Mask
           size == SectionSize(n)
           field == CASE type = HUNK_CODE -> "code" [] type = HUNK_BSS -> "bss" [] OTHER -> "data"
       IN /\ type \in Sections
          /\ Reads(<<w, n>>, IF type = HUNK_BSS THEN 0 ELSE size)
          /\ totals' = [totals EXCEPT !.segments = Plus(totals.segments, 1),
                                      ![field] = Plus(totals[field], size * 4)]
  /\ UNCHANGED <<pc, rc, table_size, first, last>>

Skip ==
  /\ pc = "hunks"
  /\ \E w \in Types, n \in Numbers :
       /\ w % Mask \in Skipped /\ Reads(<<w, n>>, n)
       /\ IF w % Mask = HUNK_DEBUG THEN Add("debug", 1) ELSE UNCHANGED totals
  /\ UNCHANGED <<pc, rc, table_size, first, last>>

BeginList ==
  /\ pc = "hunks"
  /\ \E w \in Types :
       /\ Reads(<<w>>, 0)
       /\ CASE w % Mask = HUNK_RELOC32 -> Continue("reloc")
            [] w % Mask = HUNK_SYMBOL -> Continue("symbols")
            [] w % Mask = HUNK_END -> Continue("hunks")
            [] OTHER -> w % Mask \notin Supported /\ Exit(5)
  /\ UNCHANGED <<table_size, first, last, totals>>

GroupWordsNoTarget(count) == <<count>>

(* A relocation group: count, target, offsets; a symbol: name, value. *)
GroupWords(count) == <<count, 0>>

EndList(place) == pc = place /\ Reads(<<0>>, 0) /\ Continue("hunks") /\ UNCHANGED totals

Relocations ==
  /\ \/ EndList("reloc")
     \/ /\ pc = "reloc" /\ UNCHANGED <<pc, rc>>
        /\ \E n \in Numbers \ {0} : Reads(GroupWords(n), n) /\ Add("reloc", n)
  /\ UNCHANGED <<table_size, first, last>>

Symbols ==
  /\ \/ EndList("symbols")
     \/ /\ pc = "symbols" /\ UNCHANGED <<pc, rc>>
        /\ \E n \in Numbers \ {0} : Reads(GroupWords(n), n) /\ Add("symbols", 1)
  /\ UNCHANGED <<table_size, first, last>>

(* The word that should be a type is not there: only a read error is told  *)
(* from the end of the file, one to three bytes are not.                   *)
EndOfStream ==
  /\ pc = "hunks"
  /\ rest' \in {"nothing", "part of a word", "error"}
  /\ Exit(IF rest' = "error" THEN 20 ELSE 0)
  /\ UNCHANGED <<table_size, first, last, stream, totals>>

HunkNext ==
  \/ Open \/ Header \/ Section \/ Skip \/ BeginList \/ Relocations \/ Symbols
  \/ EndOfStream \/ Malformed
-----------------------------------------------------------------------------
HunkTypeOK ==
  /\ pc \in {"start", "header", "hunks", "reloc", "symbols", "exit"}
  /\ rc \in {0, 5, 10, 20}
  /\ <<table_size, first, last>> \in Heads \union {<<0, 0, 0>>}
  /\ Len(stream) <= MaxWords
  /\ \A f \in DOMAIN totals : totals[f] \in 0 .. Word - 1

(* What the words of a file say, read a second time.  A reading is the     *)
(* places where a hunk, a group of relocations or a symbol is expected,    *)
(* each with what is expected there.                                       *)
Expected == {"hunks", "reloc", "symbols"}
At(s, p) == IF p \in DOMAIN s THEN s[p] ELSE 0

After(s, v) ==
  LET word == At(s, v[1])
      type == word % Mask
  IN IF v[2] # "hunks" /\ word = 0 THEN <<v[1] + 1, "hunks">>
     ELSE IF v[2] # "hunks" THEN <<v[1] + 2 + word, v[2]>>
     ELSE IF type = HUNK_BSS THEN <<v[1] + 2, "hunks">>
     ELSE IF type \in Sections THEN <<v[1] + 2 + (At(s, v[1] + 1) % Mask), "hunks">>
     ELSE IF type \in Skipped THEN <<v[1] + 2 + At(s, v[1] + 1), "hunks">>
     ELSE IF type = HUNK_RELOC32 THEN <<v[1] + 1, "reloc">>
     ELSE IF type = HUNK_SYMBOL THEN <<v[1] + 1, "symbols">>
     ELSE <<v[1] + 1, "hunks">>

Reading(s) ==
  LET upTo[p \in 0 .. Len(s)] ==
        IF p = 0 THEN {}
        ELSE LET read == upTo[p - 1]
                 reached == {<<1, "hunks">>} \union {After(s, u) : u \in read}
             IN  read \union (({p} \X Expected) \intersect reached)
  IN  upTo[Len(s)]

Sum(numbers) ==
  LET upTo[n \in 0 .. Len(numbers)] == IF n = 0 THEN 0 ELSE upTo[n - 1] + numbers[n]
  IN  upTo[Len(numbers)]

HunksOf(s, types) ==
  LET read == Reading(s) IN {p \in DOMAIN s : <<p, "hunks">> \in read /\ s[p] % Mask \in types}
GroupsOf(s, list) ==
  LET read == Reading(s) IN {p \in DOMAIN s : <<p, list>> \in read /\ s[p] # 0}
BytesOf(s, type) ==
  LET hunks == HunksOf(s, {type})
  IN  Sum([p \in DOMAIN s |-> IF p \in hunks THEN 4 * (At(s, p + 1) % Mask) ELSE 0])
EntriesOf(s) ==
  LET groups == GroupsOf(s, "reloc") IN Sum([p \in DOMAIN s |-> IF p \in groups THEN s[p] ELSE 0])

Counted(s) ==
  [segments |-> Cardinality(HunksOf(s, Sections)),
   code |-> BytesOf(s, HUNK_CODE), data |-> BytesOf(s, HUNK_CODE + 1),
   bss |-> BytesOf(s, HUNK_BSS) % Word,
   reloc |-> EntriesOf(s), symbols |-> Cardinality(GroupsOf(s, "symbols")),
   debug |-> Cardinality(HunksOf(s, {HUNK_DEBUG}))]

(* Every hunk is of a known type.                                          *)
Known(s) ==
  LET read == Reading(s)
  IN  \A p \in DOMAIN s : <<p, "hunks">> \in read => s[p] % Mask \in Supported

(* RC 0: the file's words fall into whole hunks of known types, and what   *)
(* is printed is counted over these hunks.  The size of BSS takes no bytes *)
(* of the file: its total is right below 2^32 only.                        *)
TotalsAreTrue ==
  pc = "exit" /\ rc = 0 =>
    /\ Known(stream)
    /\ LET read == Reading(stream)
       IN  \A v \in read : After(stream, v) \in read \union {<<Len(stream) + 1, "hunks">>}
    /\ totals = Counted(stream)

(* A range that is accepted fits the table, but for the widest there is,   *)
(* which counts as no hunk at all.                                         *)
RangeFits ==
  pc \notin {"start", "header"} /\ rc \in {0, 5} /\ table_size > 0 =>
    \/ first <= last /\ last - first < table_size
    \/ first = 0 /\ last = Word - 1

(* RC 5: the first word is no header, or the last word read is a type whose*)
(* layout is unknown: what follows it is not guessed.                      *)
RefusalIsEarned ==
  pc = "exit" /\ rc = 5 =>
    \/ stream = << >> /\ table_size = 0
    \/ /\ stream[Len(stream)] % Mask \notin Supported
       /\ <<Len(stream), "hunks">> \in Reading(stream)

(* docs/M1_3_HUNKINFO.md:21: a truncated stream is an explicit failure.    *)
TruncationIsTold ==
  pc = "exit" /\ rc = 0 => rest # "part of a word" /\ totals.segments >= Declared
=============================================================================
