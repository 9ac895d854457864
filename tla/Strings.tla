------------------------------ MODULE Strings -------------------------------
(***************************************************************************)
(* src/strings.c: the printable strings of a file, with a class for each.  *)
(* The file is chosen while it is read, byte by byte.                      *)
(***************************************************************************)
EXTENDS Naturals, Sequences

CONSTANTS
  Printable,       (* bytes 32 to 126                                       *)
  Nul,             (* any other byte                                        *)
  MAX_STRING_LEN,
  MaxBytes,        (* bound of the model: bytes of a file                   *)
  Needle           (* what each class of indicators looks for               *)

VARIABLES
  pc, rc,                    (* where main is, what it returns              *)
  minimum, indicators_only,  (* the arguments                               *)
  current, start_offset,     (* the string being read: len is its length    *)
  stream,                    (* history: the bytes read; offset is its length*)
  out                        (* the lines printed                           *)

scan == <<current, start_offset, stream, out>>

StringsInit ==
  /\ pc = "start" /\ rc = 0 /\ minimum = 0 /\ indicators_only = FALSE
  /\ current = << >> /\ start_offset = 0 /\ stream = << >> /\ out = << >>
-----------------------------------------------------------------------------
Exit(code) == pc' = "exit" /\ rc' = code

Arguments ==
  /\ pc = "start"
  /\ minimum' \in 0 .. MAX_STRING_LEN + 1 /\ indicators_only' \in BOOLEAN
  /\ \/ Exit(10)
     \/ minimum' \in 1 .. MAX_STRING_LEN /\ Exit(20)
     \/ minimum' \in 1 .. MAX_STRING_LEN /\ pc' = "read" /\ UNCHANGED rc
  /\ UNCHANGED scan

ContainsAny(s, needles) ==
  \E n \in needles, i \in 0 .. Len(s) : i + Len(n) <= Len(s) /\ SubSeq(s, i + 1, i + Len(n)) = n

(* classify_indicator: the first class in this order whose needle occurs.  *)
Order == <<"library", "device", "arexx", "network", "system", "path or port">>

Classify(s) ==
  LET hits == {i \in DOMAIN Order : ContainsAny(s, Needle[Order[i]])}
  IN  IF hits = {} THEN "text" ELSE Order[CHOOSE i \in hits : \A j \in hits : i <= j]

LineOf(offset, s) == [offset |-> offset, kind |-> Classify(s), text |-> s]
Shown(line) == ~ (indicators_only /\ line.kind = "text")

EmittedCut == LET line == LineOf(start_offset, current) IN
  IF Len(current) > minimum /\ Shown(line) THEN Append(out, line) ELSE out

(* emit_string, for a string that is long enough. *)
Emitted == LET line == LineOf(start_offset, current) IN
  IF Len(current) >= minimum /\ Shown(line) THEN Append(out, line) ELSE out

NextCurrent(c) == IF Len(current) < MAX_STRING_LEN THEN Append(current, c) ELSE current

ReadPrintable ==
  /\ pc = "read" /\ Len(stream) < MaxBytes
  /\ \E c \in Printable : stream' = Append(stream, c) /\ current' = NextCurrent(c)
  /\ start_offset' = IF current = << >> THEN Len(stream) ELSE start_offset
  /\ UNCHANGED <<pc, rc, minimum, indicators_only, out>>

ReadOther ==
  /\ pc = "read" /\ Len(stream) < MaxBytes
  /\ stream' = Append(stream, Nul)
  /\ out' = Emitted /\ current' = << >>
  /\ UNCHANGED <<pc, rc, minimum, indicators_only, start_offset>>

(* After a read error the string being read is not printed. *)
EndOfFile ==
  /\ pc = "read"
  /\ \/ Exit(0) /\ out' = Emitted
     \/ Exit(20) /\ UNCHANGED out
  /\ UNCHANGED <<minimum, indicators_only, current, start_offset, stream>>

StringsNext == Arguments \/ ReadPrintable \/ ReadOther \/ EndOfFile
-----------------------------------------------------------------------------
StringsTypeOK ==
  /\ pc \in {"start", "read", "exit"} /\ rc \in {0, 10, 20}
  /\ minimum \in 0 .. MAX_STRING_LEN + 1
  /\ Len(current) <= MAX_STRING_LEN /\ Len(stream) <= MaxBytes

(* The longest stretches of printable bytes: first and last place. *)
Runs ==
  {r \in (DOMAIN stream) \X (DOMAIN stream) :
     /\ r[1] <= r[2] /\ \A i \in r[1] .. r[2] : stream[i] \in Printable
     /\ r[1] = 1 \/ stream[r[1] - 1] = Nul
     /\ r[2] = Len(stream) \/ stream[r[2] + 1] = Nul}

Cut(r) == SubSeq(stream, r[1], IF r[2] - r[1] < MAX_STRING_LEN THEN r[2] ELSE r[1] + MAX_STRING_LEN - 1)

(* RC 0: every run that is long enough is printed, once, in order, with its*)
(* place in the file; of a longer one, and of what is looked for in it,    *)
(* only the first 1024 bytes count.                                        *)
RunsArePrinted ==
  pc = "exit" /\ rc = 0 =>
    /\ {out[i] : i \in DOMAIN out} = {l \in {LineOf(r[1] - 1, Cut(r)) : r \in {q \in Runs : q[2] - q[1] + 1 >= minimum}} :
                       Shown(l)}
    /\ \A i \in 1 .. Len(out) - 1 : out[i].offset < out[i + 1].offset
=============================================================================
