-------------------------- MODULE EvidencePipeline --------------------------
(***************************************************************************)
(* AFReport.rexx and the two programs it runs: Compare (src/compare.c)     *)
(* reads two collector outputs and writes their differences, Report        *)
(* (src/report.c) reads the three files and writes one.  All three have    *)
(* limits, and the return code 5 is how a limit that was met reaches the   *)
(* user.                                                                   *)
(*                                                                         *)
(* A file is a sequence of lines; a line is what the readers tell apart:   *)
(* a key and a value that fit ("ok") or do not fit ("wide") the fields, a  *)
(* line longer than the buffer ("long"), or one without key=value          *)
(* ("junk").  Blank lines and comments are skipped by both and left out.   *)
(***************************************************************************)
EXTENDS SequencesExt, Selection

CONSTANTS
  Key,            (* keys a collector writes, besides "truncated"           *)
  Value,
  MaxCompare,     (* CMP_MAX_RECORDS, the keys Compare keeps of a file      *)
  MaxReport,      (* REPORT_MAX_RECORDS, the lines Report keeps in all      *)
  MaxLines        (* bound of the model: lines a collector writes           *)

ASSUME LimitsAssumption == {MaxCompare, MaxReport, MaxLines} \subseteq Nat

VARIABLES
  stage,       (* where the script is                                       *)
  before, after,           (* the input files; Missing if there is none     *)
  compareOut, reportOut,   (* the output files                              *)
  compareRC, reportRC,     (* the script's variables                        *)
  rc,          (* exit code of the script                                   *)
  diskFull     (* history: the system lost the end of a program's output    *)

vars == <<stage, before, after, compareOut, reportOut, compareRC, reportRC, rc, diskFull>>

Line(form, key, value) == [form |-> form, key |-> key, value |-> value]
NoText == ""
Missing == << Line("missing", NoText, NoText) >>

Lines == [form : {"ok", "wide"}, key : Key, value : Value]
           \union [form : {"long", "junk"}, key : {NoText}, value : {NoText}]

(* A collector ends its output by saying whether it was truncated itself.  *)
Flag(v) == Line("ok", "truncated", v)
Outputs == {Append(s, Flag(v)) : s \in BoundedSeq(Lines, MaxLines), v \in {"true", "false"}}
-----------------------------------------------------------------------------
(* load_snapshot of Compare: the first line of a key counts, a later one   *)
(* is passed over before the capacity is looked at.                        *)
EmptyLoad == [records |-> << >>, truncated |-> FALSE]
Has(s, key) == \E i \in DOMAIN s.records : s.records[i].key = key
ValueOf(s, key) == s.records[CHOOSE i \in DOMAIN s.records : s.records[i].key = key].value

LoadLineDropsWide(s, l) ==
  IF l.form = "long" THEN [s EXCEPT !.truncated = TRUE]
  ELSE IF l.form \in {"junk", "wide"} \/ Has(s, l.key) THEN s
  ELSE IF Len(s.records) >= MaxCompare THEN [s EXCEPT !.truncated = TRUE]
  ELSE [s EXCEPT !.records = Append(@, l)]

LoadLineFullFirst(s, l) ==
  IF l.form = "long" THEN [s EXCEPT !.truncated = TRUE]
  ELSE IF l.form = "junk" THEN s
  ELSE IF Len(s.records) >= MaxCompare \/ l.form = "wide" THEN [s EXCEPT !.truncated = TRUE]
  ELSE IF Has(s, l.key) THEN s
  ELSE [s EXCEPT !.records = Append(@, l)]

LoadLineLastWins(s, l) ==
  IF l.form \in {"long", "wide"} THEN [s EXCEPT !.truncated = TRUE]
  ELSE IF l.form = "junk" THEN s
  ELSE IF Has(s, l.key)
    THEN [s EXCEPT !.records = [i \in DOMAIN @ |-> IF @[i].key = l.key THEN l ELSE @[i]]]
  ELSE IF Len(s.records) >= MaxCompare THEN [s EXCEPT !.truncated = TRUE]
  ELSE [s EXCEPT !.records = Append(@, l)]

LoadLine(s, l) ==
  IF l.form = "long" THEN [s EXCEPT !.truncated = TRUE]
  ELSE IF l.form = "junk" \/ Has(s, l.key) THEN s
  ELSE IF Len(s.records) >= MaxCompare \/ l.form = "wide" THEN [s EXCEPT !.truncated = TRUE]
  ELSE [s EXCEPT !.records = Append(@, l)]

(* The table after each line of the file, and in the end.                  *)
Loads(file) ==
  LET upTo[n \in 0 .. Len(file)] ==
        IF n = 0 THEN EmptyLoad ELSE LoadLine(upTo[n - 1], file[n])
  IN  upTo
Load(file) == Loads(file)[Len(file)]

(* main of Compare: removals and modifications in the order of the first   *)
(* file, additions in the order of the second.                             *)
Removal(key) == Line("ok", "removed", <<key>>)
Addition(key) == Line("ok", "added", <<key>>)
Modification(key, old, new) == Line("ok", "modified", <<key, old, new>>)

Changed(b, a) == {l \in ToSet(b.records) : ~ Has(a, l.key) \/ ValueOf(a, l.key) # l.value}
New(b, a) == {l \in ToSet(a.records) : ~ Has(b, l.key)}
ChangeOf(l, a) ==
  IF Has(a, l.key) THEN Modification(l.key, l.value, ValueOf(a, l.key)) ELSE Removal(l.key)

Differences(b, a) ==
  LET changed == Selected(b.records, Changed(b, a))
      new == Selected(a.records, New(b, a))
  IN  [i \in DOMAIN changed |-> ChangeOf(changed[i], a)]
        \o [i \in DOMAIN new |-> Addition(new[i].key)]

CompareOutput(b, a) ==
  Append(Differences(b, a), Flag(IF b.truncated \/ a.truncated THEN "true" ELSE "false"))

(* load_source of Report: every key=value line of every source is kept,    *)
(* duplicates too, until the one table is full.  The warnings it counts    *)
(* are only printed.                                                       *)
ReportLineSilent(r, l) ==
  IF l.form = "long" THEN [r EXCEPT !.truncated = TRUE]
  ELSE IF l.form = "junk" \/ Len(r.records) >= MaxReport \/ l.form = "wide" THEN r
  ELSE [r EXCEPT !.records = Append(@, l)]

ReportLine(r, l) ==
  IF l.form = "junk" THEN r
  ELSE IF l.form \in {"long", "wide"} \/ Len(r.records) >= MaxReport
    THEN [r EXCEPT !.truncated = TRUE]
  ELSE [r EXCEPT !.records = Append(@, l)]

EmptyReport == [records |-> << >>, truncated |-> FALSE]

(* The one table after each line of a source.                              *)
SourceLoads(r, file) ==
  LET upTo[n \in 0 .. Len(file)] ==
        IF n = 0 THEN r ELSE ReportLine(upTo[n - 1], file[n])
  IN  upTo
LoadSource(r, file) == SourceLoads(r, file)[Len(file)]
LoadAll(b, a, c) == LoadSource(LoadSource(LoadSource(EmptyReport, b), a), c)

(* Compare's return code, and the script's test of a return code.          *)
CompareRCAdds(b, a) ==
  (IF b.truncated THEN 5 ELSE 0) + (IF a.truncated THEN 5 ELSE 0)
CompareRC(b, a) == IF b.truncated \/ a.truncated THEN 5 ELSE 0
FatalOver20(code) == code > 20
Fatal(code) == code \notin {0, 5}
-----------------------------------------------------------------------------
Init ==
  /\ stage = "start"
  /\ before = Missing /\ after = Missing
  /\ compareOut = Missing /\ reportOut = Missing
  /\ compareRC = 0 /\ reportRC = 0 /\ rc = 0
  /\ diskFull = FALSE

(* The arguments are incomplete, or name files that may not be there.      *)
Start ==
  /\ stage = "start"
  /\ \/ stage' = "exit" /\ rc' = 10 /\ UNCHANGED <<before, after>>
     \/ /\ stage' = "compare"
        /\ before' \in Outputs \union {Missing}
        /\ after' \in Outputs \union {Missing}
        /\ UNCHANGED rc
  /\ UNCHANGED <<compareOut, reportOut, compareRC, reportRC, diskFull>>

(* The shell creates the output file before the program runs; the program  *)
(* does not see whether what it prints reaches the disk.                   *)
Printed(file, text) ==
  \/ file' = text /\ UNCHANGED diskFull
  \/ \E n \in 0 .. Len(text) - 1 : file' = SubSeq(text, 1, n) /\ diskFull' = TRUE

RunCompare ==
  /\ stage = "compare"
  /\ \/ /\ before # Missing /\ after # Missing
        /\ LET b == Load(before)
               a == Load(after)
           IN  compareRC' = CompareRC(b, a) /\ Printed(compareOut, CompareOutput(b, a))
     \/ compareRC' = 20 /\ compareOut' = << >> /\ UNCHANGED diskFull   \* no file, no memory
  /\ stage' = "compared"
  /\ UNCHANGED <<before, after, reportOut, reportRC, rc>>

AfterCompare ==
  /\ stage = "compared"
  /\ IF Fatal(compareRC)
       THEN stage' = "exit" /\ rc' = compareRC
       ELSE stage' = "report" /\ UNCHANGED rc
  /\ UNCHANGED <<before, after, compareOut, reportOut, compareRC, reportRC, diskFull>>

RunReport ==
  /\ stage = "report"
  /\ \/ /\ before # Missing /\ after # Missing
        /\ LET r == LoadAll(before, after, compareOut)
           IN  reportRC' = (IF r.truncated THEN 5 ELSE 0) /\ Printed(reportOut, r.records)
     \/ /\ reportRC' \in {10, 20}   \* a path too long; no file, no memory
        /\ reportOut' = << >> /\ UNCHANGED diskFull
  /\ stage' = "reported"
  /\ UNCHANGED <<before, after, compareOut, compareRC, rc>>

AfterReportLast ==
  /\ stage = "reported"
  /\ rc' = reportRC
  /\ stage' = "exit"
  /\ UNCHANGED <<before, after, compareOut, reportOut, compareRC, reportRC, diskFull>>

AfterReport ==
  /\ stage = "reported"
  /\ rc' = IF Fatal(reportRC) THEN reportRC
           ELSE IF compareRC = 5 \/ reportRC = 5 THEN 5 ELSE 0
  /\ stage' = "exit"
  /\ UNCHANGED <<before, after, compareOut, reportOut, compareRC, reportRC, diskFull>>

Next == Start \/ RunCompare \/ AfterCompare \/ RunReport \/ AfterReport
Spec == Init /\ [][Next]_vars /\ WF_vars(Next)
-----------------------------------------------------------------------------
Pass == stage = "exit" /\ rc = 0

TypeOK ==
  /\ stage \in {"start", "compare", "compared", "report", "reported", "exit"}
  /\ before \in Outputs \union {Missing} /\ after \in Outputs \union {Missing}
  /\ compareRC \in {0, 5, 20} /\ {reportRC, rc} \subseteq {0, 5, 10, 20}
  /\ diskFull \in BOOLEAN

(* What the two files say, without the limits: the first line of each key. *)
Told(l) == l.form \in {"ok", "wide"}
KeysOf(file) == {file[i].key : i \in {j \in DOMAIN file : Told(file[j])}}
IsFirst(file, i, k) ==
  /\ Told(file[i]) /\ file[i].key = k
  /\ \A j \in 1 .. i - 1 : ~ (Told(file[j]) /\ file[j].key = k)
Meaning(file) ==
  [k \in KeysOf(file) |-> file[CHOOSE i \in DOMAIN file : IsFirst(file, i, k)].value]

TrueChanges(b, a) ==
  {Removal(k) : k \in DOMAIN b \ DOMAIN a} \union {Addition(k) : k \in DOMAIN a \ DOMAIN b}
    \union {Modification(k, b[k], a[k]) : k \in {x \in DOMAIN a \intersect DOMAIN b : a[x] # b[x]}}

(* RC 0 of Compare, whatever order, repetition or junk the files hold: the *)
(* differences are those of the meaning of the files.                      *)
CleanCompareIsExact ==
  stage \in {"report", "reported", "exit"} /\ before # Missing /\ after # Missing
    /\ compareRC = 0 /\ ~ diskFull /\ compareOut # Missing =>
      ToSet(compareOut) \ {Flag("false")} = TrueChanges(Meaning(before), Meaning(after))

(* A limit was met: a line no table has room for, or a field too wide.  A  *)
(* wide line of a key that was read before is passed over by Compare.      *)
Overfull(file) ==
  \/ \E i \in DOMAIN file : file[i].form \in {"long", "wide"}
  \/ Cardinality(KeysOf(file)) > MaxCompare
KeptLines(file) == Selected(file, {l \in ToSet(file) : Told(l)})
ReportOverfull ==
  Len(KeptLines(before)) + Len(KeptLines(after)) + Len(compareOut) > MaxReport

(* ROADMAP.md:175: RC 5 is preserved across the pipeline.  The script ends *)
(* with PASS exactly when no stage met a limit, and with 5 when one did; a *)
(* file that cannot be read, or a program that fails, never ends in either,*)
(* and nothing is reported after Compare failed.                           *)
OutcomeIsTold ==
  stage = "exit" =>
    /\ rc \in {0, 5} => (rc = 5 <=> Overfull(before) \/ Overfull(after) \/ ReportOverfull)
    /\ before = Missing \/ after = Missing => rc \in {10, 20}
    /\ {compareRC, reportRC} \intersect {10, 20} # {} => rc \in {compareRC, reportRC} \ {0, 5}
    /\ compareRC = 20 => reportOut = Missing

(* PASS on a disk with room: all the evidence of both inputs, and the comparison, are in the   *)
(* report, once per line and in order.                                     *)
PassKeepsEvidence ==
  Pass /\ ~ diskFull =>
    reportOut = KeptLines(before) \o KeptLines(after) \o compareOut
=============================================================================
