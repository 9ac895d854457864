------------------------- MODULE FileReadersProofs --------------------------
(***************************************************************************)
(* What HunkInfo, Strings, FileInfo and BootInfo say of a file is true of  *)
(* it, for files and buffers of any size: the invariant of each of them.   *)
(***************************************************************************)
EXTENDS FileReaders, DataProofs

(* BootInfo: before and after the loop what is printed is the test of the  *)
(* sum, and the sum accounts for every word and every carry.               *)
BootPrinted == pc = "exit" /\ rc = 0 => (checksum_valid <=> Boot!Valid)

BootInv == Boot!BootTypeOK /\ Boot!CarriesAreKept /\ BootPrinted

(* One addition: the sum is cut at most once, and adding the carry in does *)
(* not cut it again.                                                       *)
LEMMA OneCarry ==
  ASSUME NEW a \in 0 .. Word - 1, NEW w \in 0 .. Word - 1
  PROVE  /\ Boot!Truncated(a + w) < a =>
              /\ Boot!CarryIn(Boot!Truncated(a + w), Boot!Truncated(a + w) < a) = a + w - (Word - 1)
              /\ a + w - (Word - 1) \in 1 .. Word - 1
         /\ ~ (Boot!Truncated(a + w) < a) =>
              /\ Boot!CarryIn(Boot!Truncated(a + w), Boot!Truncated(a + w) < a) = a + w
              /\ a + w \in 0 .. Word - 1
<1>0. Word \in Nat \ {0, 1}
  BY WordAssumption
<1>1. CASE a + w < Word
  <2>1. Boot!Truncated(a + w) = a + w
    BY <1>0, <1>1 DEF Boot!Truncated
  <2>2. ~ (Boot!Truncated(a + w) < a) /\ a + w \in 0 .. Word - 1
    BY <1>0, <1>1, <2>1
  <2> QED BY <2>1, <2>2 DEF Boot!CarryIn
<1>2. CASE a + w >= Word
  <2>1. a + w - Word \in 0 .. Word - 2 /\ a + w - Word < a
    BY <1>0, <1>2
  <2>2. Boot!Truncated(a + w) = a + w - Word
    BY <1>0, <1>2, <2>1 DEF Boot!Truncated
  <2>3. Boot!Truncated(a + w - Word + 1) = a + w - Word + 1
    BY <1>0, <2>1 DEF Boot!Truncated
  <2>4. a + w - Word + 1 = a + w - (Word - 1) /\ a + w - (Word - 1) \in 1 .. Word - 1
    BY <1>0, <2>1
  <2>5. Boot!Truncated(a + w) < a
    BY <2>1, <2>2
  <2>6. Boot!CarryIn(Boot!Truncated(a + w), Boot!Truncated(a + w) < a) = Boot!Truncated(a + w - Word + 1)
    BY <2>2, <2>5 DEF Boot!CarryIn
  <2> QED BY <2>3, <2>4, <2>5, <2>6
<1> QED BY <1>0, <1>1, <1>2

(* One word more: the books stay balanced.                                 *)
LEMMA AddWordStep ==
  ASSUME BootInv, Boot!AddWord
  PROVE  BootInv'
<1>0. Word \in Nat \ {0, 1} /\ BlockWords \in Nat
  BY WordAssumption
<1>1. PICK w \in 0 .. Word - 1 :
        /\ checksum' = Boot!CarryIn(Boot!Truncated(checksum + w), Boot!Truncated(checksum + w) < checksum)
        /\ carries' = IF Boot!Truncated(checksum + w) < checksum THEN carries + 1 ELSE carries
        /\ true_sum' = true_sum + w
  BY DEF Boot!AddWord
<1>2. /\ checksum \in 0 .. Word - 1 /\ carries \in Nat /\ true_sum \in Nat /\ next_word \in 0 .. BlockWords
      /\ next_word < BlockWords /\ next_word' = next_word + 1 /\ pc = "sum"
      /\ pc' = pc /\ rc' = rc /\ checksum_valid' = checksum_valid
      /\ true_sum = checksum + carries * (Word - 1) /\ (checksum = 0 => true_sum = 0)
  BY DEF BootInv, Boot!BootTypeOK, Boot!CarriesAreKept, Boot!AddWord
<1>3. carries * (Word - 1) \in Nat /\ (carries + 1) * (Word - 1) = carries * (Word - 1) + (Word - 1)
  BY <1>0, <1>2
<1>4. next_word' \in 0 .. BlockWords /\ true_sum' \in Nat /\ ~ (pc' = "exit")
      /\ pc' \in {"start", "sum", "exit"} /\ rc' \in {0, 10, 20} /\ checksum_valid' \in BOOLEAN
  BY <1>0, <1>1, <1>2 DEF BootInv, Boot!BootTypeOK
<1>5. /\ checksum' \in 0 .. Word - 1 /\ carries' \in Nat
      /\ true_sum' = checksum' + carries' * (Word - 1) /\ (checksum' = 0 => true_sum' = 0)
  <2>1. CASE Boot!Truncated(checksum + w) < checksum
    <3>1. /\ checksum' = checksum + w - (Word - 1) /\ checksum' \in 1 .. Word - 1
          /\ carries' = carries + 1
      BY <1>1, <1>2, <2>1, OneCarry
    <3> QED BY <1>0, <1>1, <1>2, <1>3, <3>1
  <2>2. CASE ~ (Boot!Truncated(checksum + w) < checksum)
    <3>1. checksum' = checksum + w /\ checksum' \in 0 .. Word - 1 /\ carries' = carries
      BY <1>1, <1>2, <2>2, OneCarry
    <3> QED BY <1>0, <1>1, <1>2, <1>3, <3>1
  <2> QED BY <2>1, <2>2
<1> QED BY <1>4, <1>5 DEF BootInv, Boot!BootTypeOK, Boot!CarriesAreKept, BootPrinted

(* Nothing is added up yet. *)
LEMMA InitBoot == ASSUME Boot!BootInit PROVE BootInv
<1>1. 0 = 0 + 0 * (Word - 1)
  BY WordAssumption
<1>2. Boot!CarriesAreKept
  BY <1>1, Zenon DEF Boot!BootInit, Boot!CarriesAreKept
<1>3. checksum_valid \in BOOLEAN
  BY Zenon DEF Boot!BootInit
<1>4. Boot!BootTypeOK /\ BootPrinted
  BY <1>3, WordAssumption DEF Boot!BootInit, Boot!BootTypeOK, BootPrinted
<1> QED BY <1>2, <1>4 DEF BootInv

(* The other steps do not touch the sum.                                   *)
LEMMA StepBoot ==
  ASSUME BootInv, Boot!BootNext \/ UNCHANGED <<pc, rc, BootVars>>
  PROVE  BootInv'
<1>1. CASE Boot!ReadBlock
  BY <1>1 DEF BootInv, Boot!BootTypeOK, Boot!CarriesAreKept, BootPrinted, Boot!ReadBlock, Boot!Valid
<1>2. CASE Boot!Report
  BY <1>2 DEF BootInv, Boot!BootTypeOK, Boot!CarriesAreKept, BootPrinted, Boot!Report, Boot!Valid
<1>3. CASE UNCHANGED <<pc, rc, BootVars>>
  BY <1>3 DEF BootInv, Boot!BootTypeOK, Boot!CarriesAreKept, BootPrinted, BootVars, Boot!Valid
<1> QED BY <1>1, <1>2, <1>3, AddWordStep DEF Boot!BootNext

(* A number is a multiple of k plus its remainder in one way only.         *)
LEMMA Remainder ==
  ASSUME NEW k \in Nat \ {0}, NEW q \in Nat, NEW r \in 0 .. k - 1
  PROVE  (r + q * k) % k = r
  BY Z3

LEMMA BootIsRight == ASSUME BootInv PROVE Boot!CarriesAreKept /\ Boot!ValidIsCongruent
<1>0. Word \in Nat \ {0, 1}
  BY WordAssumption
<1>1. ASSUME pc = "exit", rc = 0
      PROVE  Boot!Valid <=> true_sum # 0 /\ true_sum % (Word - 1) = 0
  <2>1. /\ checksum \in 0 .. Word - 1 /\ carries \in Nat /\ Word - 1 \in Nat \ {0}
        /\ true_sum = checksum + carries * (Word - 1) /\ (checksum = 0 => true_sum = 0)
    BY <1>0 DEF BootInv, Boot!BootTypeOK, Boot!CarriesAreKept
  <2>2. CASE checksum = Word - 1
    <3>1. (carries + 1) * (Word - 1) = (Word - 1) + carries * (Word - 1) /\ carries * (Word - 1) \in Nat
      BY <2>1
    <3> DEFINE k == Word - 1
               c == carries * k
               q == (carries + 1) * k
    <3>2. q = k + c /\ c \in Nat /\ k \in Nat \ {0} /\ true_sum = k + c
      BY <2>1, <2>2, <3>1
    <3>3. (0 + q) % k = 0
      <4>1. carries + 1 \in Nat /\ 0 \in 0 .. k - 1
        BY <1>0, <2>1
      <4> QED BY <3>2, <4>1, Remainder
    <3> HIDE DEF k, c, q
    <3>4. true_sum = 0 + q /\ true_sum # 0
      BY <3>2
    <3>5. true_sum % k = 0
      BY <3>3, <3>4
    <3> QED BY <2>2, <3>4, <3>5 DEF Boot!Valid, k
  <2>3. CASE checksum # Word - 1
    <3>1. checksum \in 0 .. (Word - 1) - 1
      BY <2>1, <2>3
    <3>2. true_sum % (Word - 1) = checksum
      BY <2>1, <3>1, Remainder
    <3> QED BY <2>1, <2>3, <3>2 DEF Boot!Valid
  <2> QED BY <2>2, <2>3
<1> QED BY <1>1 DEF BootInv, BootPrinted, Boot!ValidIsCongruent
-----------------------------------------------------------------------------
(* Strings: the runs of printable bytes that have ended are printed, and   *)
(* the string being read is what the buffer keeps of the run that has not. *)
Bytes == Printable \union {Nul}
AllPrint(t, a, b) == \A i \in a .. b : t[i] \in Printable
Begins(t, a) == a = 1 \/ t[a - 1] = Nul
EndedIn(t) ==
  {r \in (1 .. Len(t)) \X (1 .. Len(t)) :
     r[1] <= r[2] /\ AllPrint(t, r[1], r[2]) /\ Begins(t, r[1]) /\ r[2] < Len(t) /\ t[r[2] + 1] = Nul}
LastIn(t) ==
  {r \in (1 .. Len(t)) \X (1 .. Len(t)) :
     r[1] <= r[2] /\ AllPrint(t, r[1], r[2]) /\ Begins(t, r[1]) /\ r[2] = Len(t)}
CutOf(t, r) == SubSeq(t, r[1], IF r[2] - r[1] < MAX_STRING_LEN THEN r[2] ELSE r[1] + MAX_STRING_LEN - 1)
LineIn(t, r) == Strs!LineOf(r[1] - 1, CutOf(t, r))
LongIn(m, rs) == {q \in rs : q[2] - q[1] + 1 >= m}
LinesOf(m, only, t, rs) == {l \in {LineIn(t, r) : r \in LongIn(m, rs)} : ~ (only /\ l.kind = "text")}
Printed == {lines[i] : i \in 1 .. Len(lines)}

StringTypes ==
  /\ pc \in {"start", "read", "exit"} /\ rc \in {0, 10, 20} /\ minimum \in 0 .. MAX_STRING_LEN + 1
  /\ text \in Seq(Bytes) /\ Len(text) <= MaxBytes /\ current \in Seq(Bytes) /\ Len(current) <= MAX_STRING_LEN
  /\ start_offset \in Nat
  /\ pc = "start" => text = << >> /\ lines = << >> /\ current = << >>
  /\ pc = "read" => minimum \in 1 .. MAX_STRING_LEN

(* The run that has not ended begins behind start_offset. *)
CurrentRight ==
  IF current = << >>
    THEN text = << >> \/ text[Len(text)] = Nul
    ELSE /\ start_offset < Len(text) /\ AllPrint(text, start_offset + 1, Len(text))
         /\ Begins(text, start_offset + 1) /\ current = CutOf(text, <<start_offset + 1, Len(text)>>)

InOrder ==
  /\ \E S : lines \in Seq(S)
  /\ \A i \in 1 .. Len(lines) : lines[i].offset \in Nat
  /\ \A i \in 1 .. Len(lines) - 1 : lines[i].offset < lines[i + 1].offset
  /\ pc # "exit" => \A i \in 1 .. Len(lines) :
                      lines[i].offset < IF current = << >> THEN Len(text) ELSE start_offset

StringInv ==
  /\ StringTypes /\ InOrder
  /\ pc # "exit" => CurrentRight /\ Printed = LinesOf(minimum, indicators_only, text, EndedIn(text))
  /\ pc = "exit" /\ rc = 0 => Printed = LinesOf(minimum, indicators_only, text, EndedIn(text) \union LastIn(text))

(* A byte more leaves the part before it as it is. *)
LEMMA PartStays ==
  ASSUME NEW S, NEW t \in Seq(S), NEW c \in S, NEW a \in 1 .. Len(t) + 1, NEW b \in 0 .. Len(t)
  PROVE  SubSeq(Append(t, c), a, b) = SubSeq(t, a, b)
<1> DEFINE u == Append(t, c)
           x == SubSeq(u, a, b)
           y == SubSeq(t, a, b)
<1>1. /\ Len(t) \in Nat /\ u \in Seq(S) /\ Len(u) = Len(t) + 1 /\ \A i \in 1 .. Len(t) : u[i] = t[i]
  OBVIOUS
<1> HIDE DEF u
<1>2. x \in Seq(S) /\ y \in Seq(S) /\ Len(x) = Len(y)
  BY <1>1
<1>3. \A i \in 1 .. Len(x) : x[i] = y[i]
  BY <1>1
<1> HIDE DEF x, y
<1>4. x = y
  BY <1>2, <1>3, SameSequence
<1> QED BY <1>4 DEF x, y, u

LEMMA Appended ==
  ASSUME NEW S, NEW t \in Seq(S), NEW c \in S
  PROVE  /\ Append(t, c) \in Seq(S) /\ Len(Append(t, c)) = Len(t) + 1 /\ Append(t, c)[Len(t) + 1] = c
         /\ \A i \in 1 .. Len(t) : Append(t, c)[i] = t[i]
<1> QED OBVIOUS

LEMMA PartGrows ==
  ASSUME NEW S, NEW t \in Seq(S), NEW c \in S, NEW a \in 1 .. Len(t) + 1
  PROVE  SubSeq(Append(t, c), a, Len(t) + 1) = Append(SubSeq(t, a, Len(t)), c)
<1> DEFINE u == Append(t, c)
           x == SubSeq(u, a, Len(t) + 1)
           z == SubSeq(t, a, Len(t))
           y == Append(z, c)
<1>1. /\ Len(t) \in Nat /\ u \in Seq(S) /\ Len(u) = Len(t) + 1 /\ u[Len(t) + 1] = c
      /\ \A i \in 1 .. Len(t) : u[i] = t[i]
  OBVIOUS
<1> HIDE DEF u
<1>2. z \in Seq(S) /\ Len(z) = Len(t) - a + 1 /\ \A i \in 1 .. Len(z) : z[i] = t[a + i - 1]
  BY <1>1
<1>3. x \in Seq(S) /\ Len(x) = Len(t) - a + 2 /\ \A i \in 1 .. Len(x) : x[i] = u[a + i - 1]
  BY <1>1
<1> HIDE DEF x, z
<1>4. /\ y \in Seq(S) /\ Len(y) = Len(z) + 1 /\ y[Len(z) + 1] = c
      /\ \A i \in 1 .. Len(z) : y[i] = z[i]
  <2>1. z \in Seq(S) /\ c \in S
    BY <1>2
  <2> QED BY <2>1, Appended DEF y
<1> HIDE DEF y
<1>5. ASSUME NEW i \in 1 .. Len(x) PROVE x[i] = y[i]
  <2>1. CASE i = Len(z) + 1
    <3>1. a + i - 1 = Len(t) + 1
      BY <1>1, <1>2, <2>1
    <3> QED BY <1>1, <1>3, <1>4, <2>1, <3>1
  <2>2. CASE i # Len(z) + 1
    <3> DEFINE m == Len(z)
               n == Len(t)
    <3>2. n \in Nat /\ m = n - a + 1 /\ a \in 1 .. n + 1 /\ i \in 1 .. n - a + 2 /\ i # m + 1
      BY <1>1, <1>2, <1>3, <2>2
    <3> HIDE DEF m, n
    <3>3. i \in 1 .. m /\ a + i - 1 \in 1 .. n
      BY <3>2
    <3>1. i \in 1 .. Len(z) /\ a + i - 1 \in 1 .. Len(t)
      BY <3>3 DEF m, n
    <3> QED BY <1>1, <1>2, <1>3, <1>4, <3>1
  <2> QED BY <2>1, <2>2
<1>6. Len(x) = Len(y)
  BY <1>1, <1>2, <1>3, <1>4
<1>7. x = y
  BY <1>3, <1>4, <1>5, <1>6, SameSequence
<1> QED BY <1>7 DEF x, y, z, u

(* What a run is does not depend on what follows it. *)
LEMMA RunStays ==
  ASSUME NEW t \in Seq(Bytes), NEW c \in Bytes, NEW a \in 1 .. Len(t), NEW b \in a .. Len(t)
  PROVE  /\ AllPrint(Append(t, c), a, b) <=> AllPrint(t, a, b)
         /\ Begins(Append(t, c), a) <=> Begins(t, a)
         /\ CutOf(Append(t, c), <<a, b>>) = CutOf(t, <<a, b>>)
<1> DEFINE u == Append(t, c)
           e == IF b - a < MAX_STRING_LEN THEN b ELSE a + MAX_STRING_LEN - 1
<1>1. Len(t) \in Nat /\ \A i \in 1 .. Len(t) : u[i] = t[i]
  OBVIOUS
<1> HIDE DEF u
<1>2. AllPrint(u, a, b) <=> AllPrint(t, a, b)
  BY <1>1 DEF AllPrint
<1>3. Begins(u, a) <=> Begins(t, a)
  BY <1>1 DEF Begins
<1>4. e \in 0 .. Len(t) /\ a \in 1 .. Len(t) + 1
  BY <1>1, StringAssumption
<1>5. CutOf(u, <<a, b>>) = SubSeq(u, a, e) /\ CutOf(t, <<a, b>>) = SubSeq(t, a, e)
  BY DEF CutOf
<1> HIDE DEF e
<1>6. SubSeq(u, a, e) = SubSeq(t, a, e)
  BY <1>4, PartStays DEF u
<1> QED BY <1>2, <1>3, <1>5, <1>6 DEF u

LEMMA RunsStay ==
  ASSUME NEW t \in Seq(Bytes), NEW c \in Bytes
  PROVE  /\ c \in Printable => EndedIn(Append(t, c)) = EndedIn(t)
         /\ c = Nul => EndedIn(Append(t, c)) = EndedIn(t) \union LastIn(t)
<1> DEFINE u == Append(t, c)
           n == Len(t)
<1>1. n \in Nat /\ Len(u) = n + 1 /\ u[n + 1] = c /\ \A i \in 1 .. n : u[i] = t[i]
  OBVIOUS
<1>2. \A a \in 1 .. n : \A b \in a .. n :
        /\ AllPrint(u, a, b) <=> AllPrint(t, a, b)
        /\ Begins(u, a) <=> Begins(t, a)
  BY RunStays
<1> HIDE DEF u, n
<1>3. \A r : r \in EndedIn(t) <=>
        /\ r \in (1 .. n) \X (1 .. n) /\ r[1] <= r[2] /\ AllPrint(t, r[1], r[2]) /\ Begins(t, r[1])
        /\ r[2] < n /\ t[r[2] + 1] = Nul
  BY DEF EndedIn, n
<1>4. \A r : r \in LastIn(t) <=>
        /\ r \in (1 .. n) \X (1 .. n) /\ r[1] <= r[2] /\ AllPrint(t, r[1], r[2]) /\ Begins(t, r[1])
        /\ r[2] = n
  BY DEF LastIn, n
<1>5. \A r : r \in EndedIn(u) <=>
        /\ r \in (1 .. n + 1) \X (1 .. n + 1) /\ r[1] <= r[2] /\ AllPrint(u, r[1], r[2]) /\ Begins(u, r[1])
        /\ r[2] < n + 1 /\ u[r[2] + 1] = Nul
  BY <1>1 DEF EndedIn
<1>6. \A r : r \in EndedIn(u) <=>
        /\ r \in (1 .. n) \X (1 .. n) /\ r[1] <= r[2] /\ AllPrint(t, r[1], r[2]) /\ Begins(t, r[1])
        /\ \/ r[2] < n /\ t[r[2] + 1] = Nul
           \/ r[2] = n /\ c = Nul
  <2> SUFFICES ASSUME NEW r
               PROVE  r \in EndedIn(u) <=>
                        /\ r \in (1 .. n) \X (1 .. n) /\ r[1] <= r[2] /\ AllPrint(t, r[1], r[2])
                        /\ Begins(t, r[1])
                        /\ \/ r[2] < n /\ t[r[2] + 1] = Nul
                           \/ r[2] = n /\ c = Nul
    OBVIOUS
  <2>1. ASSUME r \in (1 .. n) \X (1 .. n), r[1] <= r[2]
        PROVE  /\ AllPrint(u, r[1], r[2]) <=> AllPrint(t, r[1], r[2])
               /\ Begins(u, r[1]) <=> Begins(t, r[1])
               /\ r[2] < n => u[r[2] + 1] = t[r[2] + 1]
    <3>1. r[1] \in 1 .. n /\ r[2] \in r[1] .. n
      BY <1>1, <2>1
    <3> QED BY <1>1, <1>2, <3>1
  <2>2. r \in (1 .. n + 1) \X (1 .. n + 1) /\ r[1] <= r[2] /\ r[2] < n + 1
          <=> r \in (1 .. n) \X (1 .. n) /\ r[1] <= r[2]
    BY <1>1
  <2> QED BY <1>1, <1>5, <2>1, <2>2
<1>7. c \in Printable => c # Nul
  BY StringAssumption
<1> QED BY <1>3, <1>4, <1>6, <1>7 DEF u

(* Behind a byte that does not print, no run is open; otherwise one is. *)
LEMMA NoneOpen ==
  ASSUME NEW t \in Seq(Bytes), t = << >> \/ t[Len(t)] = Nul
  PROVE  LastIn(t) = {}
<1> DEFINE n == Len(t)
<1>1. n \in Nat /\ (n = 0 \/ t[n] = Nul)
  OBVIOUS
<1> HIDE DEF n
<1> SUFFICES ASSUME NEW r \in LastIn(t) PROVE FALSE
  OBVIOUS
<1>2. r[1] \in 1 .. n /\ r[2] \in 1 .. n /\ r[1] <= r[2] /\ AllPrint(t, r[1], r[2]) /\ r[2] = n
  BY DEF LastIn, n
<1>3. t[n] \in Printable
  BY <1>1, <1>2 DEF AllPrint
<1> QED BY <1>1, <1>2, <1>3, StringAssumption

LEMMA OneOpen ==
  ASSUME NEW t \in Seq(Bytes), NEW s \in Nat, s < Len(t), AllPrint(t, s + 1, Len(t)), Begins(t, s + 1)
  PROVE  LastIn(t) = {<<s + 1, Len(t)>>}
<1> DEFINE n == Len(t)
<1>1. n \in Nat /\ s < n /\ AllPrint(t, s + 1, n) /\ (s = 0 \/ t[s] = Nul)
  BY DEF Begins
<1>2. \A r : r \in LastIn(t) <=>
        /\ r \in (1 .. n) \X (1 .. n) /\ r[1] <= r[2] /\ AllPrint(t, r[1], r[2]) /\ Begins(t, r[1])
        /\ r[2] = n
  BY DEF LastIn, n
<1> HIDE DEF n
<1>3. <<s + 1, n>> \in LastIn(t)
  BY <1>1, <1>2 DEF n
<1>4. ASSUME NEW r \in LastIn(t) PROVE r = <<s + 1, n>>
  <2>1. /\ r \in (1 .. n) \X (1 .. n) /\ r[1] <= r[2] /\ AllPrint(t, r[1], n) /\ Begins(t, r[1])
        /\ r[2] = n
    BY <1>2
  <2>2. r[1] \in 1 .. n /\ r = <<r[1], r[2]>>
    BY <2>1
  <2>3. ~ (r[1] < s + 1)
    <3> SUFFICES ASSUME r[1] < s + 1 PROVE FALSE
      OBVIOUS
    <3>1. s # 0 /\ s \in r[1] .. n
      BY <1>1, <2>2
    <3> QED BY <1>1, <2>1, <3>1, StringAssumption DEF AllPrint
  <2>4. ~ (r[1] > s + 1)
    <3> SUFFICES ASSUME r[1] > s + 1 PROVE FALSE
      OBVIOUS
    <3>1. r[1] # 1 /\ r[1] - 1 \in s + 1 .. n
      BY <1>1, <2>2
    <3> QED BY <1>1, <2>1, <3>1, StringAssumption DEF AllPrint, Begins
  <2>5. r[1] = s + 1
    BY <1>1, <2>2, <2>3, <2>4
  <2> QED BY <2>1, <2>2, <2>5
<1> QED BY <1>3, <1>4 DEF n

(* The length the buffer keeps of a run. *)
LEMMA CutIs ==
  ASSUME NEW t \in Seq(Bytes), NEW a \in 1 .. Len(t), NEW b \in a .. Len(t)
  PROVE  /\ CutOf(t, <<a, b>>) \in Seq(Bytes)
         /\ Len(CutOf(t, <<a, b>>)) = IF b - a < MAX_STRING_LEN THEN b - a + 1 ELSE MAX_STRING_LEN
<1> DEFINE e == IF b - a < MAX_STRING_LEN THEN b ELSE a + MAX_STRING_LEN - 1
           n == Len(t)
<1>1. n \in Nat
  OBVIOUS
<1>2. CutOf(t, <<a, b>>) = SubSeq(t, a, e)
  BY DEF CutOf
<1> HIDE DEF n
<1>3. e \in 0 .. n /\ a \in 1 .. n + 1 /\ a <= e /\ b \in Nat
  BY <1>1, StringAssumption DEF n
<1>4. e - a + 1 = IF b - a < MAX_STRING_LEN THEN b - a + 1 ELSE MAX_STRING_LEN
  BY <1>1, <1>3, StringAssumption
<1> HIDE DEF e
<1>5. SubSeq(t, a, e) \in Seq(Bytes) /\ Len(SubSeq(t, a, e)) = e - a + 1
  BY <1>1, <1>3 DEF n
<1> QED BY <1>2, <1>4, <1>5

(* What the lines of a set of runs are, when a run is added to it, and when*)
(* a byte is added to the file.                                            *)
LEMMA LinesGrow ==
  ASSUME NEW m, NEW only, NEW t, NEW rs, NEW r
  PROVE  LinesOf(m, only, t, rs \union {r}) =
           LinesOf(m, only, t, rs) \union
             IF r[2] - r[1] + 1 >= m /\ ~ (only /\ LineIn(t, r).kind = "text") THEN {LineIn(t, r)} ELSE {}
<1>1. LongIn(m, rs \union {r}) = LongIn(m, rs) \union IF r[2] - r[1] + 1 >= m THEN {r} ELSE {}
  BY DEF LongIn
<1> QED BY <1>1 DEF LinesOf

LEMMA LinesStay ==
  ASSUME NEW m, NEW only, NEW t \in Seq(Bytes), NEW c \in Bytes,
         NEW rs, \A r \in rs : r \in (1 .. Len(t)) \X (1 .. Len(t)) /\ r[1] <= r[2]
  PROVE  LinesOf(m, only, Append(t, c), rs) = LinesOf(m, only, t, rs)
<1>1. \A r \in rs : LineIn(Append(t, c), r) = LineIn(t, r)
  <2> SUFFICES ASSUME NEW r \in rs PROVE LineIn(Append(t, c), r) = LineIn(t, r)
    OBVIOUS
  <2> DEFINE a == r[1]
             b == r[2]
  <2>1. r = <<a, b>> /\ a \in 1 .. Len(t) /\ b \in a .. Len(t)
    OBVIOUS
  <2> HIDE DEF a, b
  <2>2. CutOf(Append(t, c), <<a, b>>) = CutOf(t, <<a, b>>)
    BY <2>1, RunStays
  <2> QED BY <2>1, <2>2 DEF LineIn
<1>2. LongIn(m, rs) \subseteq rs
  BY DEF LongIn
<1> QED BY <1>1, <1>2 DEF LinesOf

LEMMA RunsAre == StringTypes => Strs!Runs = EndedIn(text) \union LastIn(text)
<1> SUFFICES ASSUME StringTypes PROVE Strs!Runs = EndedIn(text) \union LastIn(text)
  OBVIOUS
<1>1. Len(text) \in Nat /\ DOMAIN text = 1 .. Len(text)
  BY DEF StringTypes
<1>2. \A r : r \in Strs!Runs <=>
        /\ r \in (1 .. Len(text)) \X (1 .. Len(text)) /\ r[1] <= r[2] /\ AllPrint(text, r[1], r[2])
        /\ Begins(text, r[1])
        /\ r[2] = Len(text) \/ text[r[2] + 1] = Nul
  BY <1>1 DEF Strs!Runs, AllPrint, Begins
<1>3. \A r : r \in (1 .. Len(text)) \X (1 .. Len(text)) => (r[2] = Len(text) \/ r[2] < Len(text))
  BY <1>1
<1>4. \A r : r \in EndedIn(text) <=>
        /\ r \in (1 .. Len(text)) \X (1 .. Len(text)) /\ r[1] <= r[2] /\ AllPrint(text, r[1], r[2])
        /\ Begins(text, r[1])
        /\ r[2] < Len(text) /\ text[r[2] + 1] = Nul
  BY DEF EndedIn
<1>5. \A r : r \in LastIn(text) <=>
        /\ r \in (1 .. Len(text)) \X (1 .. Len(text)) /\ r[1] <= r[2] /\ AllPrint(text, r[1], r[2])
        /\ Begins(text, r[1])
        /\ r[2] = Len(text)
  BY DEF LastIn
<1> QED BY <1>2, <1>3, <1>4, <1>5, Zenon

(* What emit_string leaves: the lines of all the runs read, in order. *)
SortedLines(e) ==
  /\ \E S : e \in Seq(S)
  /\ \A i \in 1 .. Len(e) : e[i].offset \in Nat
  /\ \A i \in 1 .. Len(e) - 1 : e[i].offset < e[i + 1].offset
OffsetsBelow(e, m) == \A i \in 1 .. Len(e) : e[i].offset < m
SetOf(e) == {e[i] : i \in 1 .. Len(e)}

LEMMA LineAppended ==
  ASSUME NEW e, SortedLines(e), NEW s \in Nat, OffsetsBelow(e, s), NEW l, l.offset = s,
         NEW m \in Nat, s < m
  PROVE  /\ SortedLines(Append(e, l)) /\ OffsetsBelow(Append(e, l), m)
         /\ SetOf(Append(e, l)) = SetOf(e) \union {l}
<1> DEFINE f == Append(e, l)
<1>1. PICK S : e \in Seq(S)
  BY DEF SortedLines
<1>2. PICK R : e \in Seq(R) /\ l \in R
  <2> DEFINE Q == S \union {l}
  <2>1. Len(e) \in Nat /\ e \in [1 .. Len(e) -> S]
    BY <1>1
  <2>2. e \in [1 .. Len(e) -> Q] /\ l \in Q
    BY <2>1
  <2> HIDE DEF Q
  <2>3. e \in Seq(Q)
    BY <2>1, <2>2
  <2> QED BY <2>2, <2>3
<1>3. Len(e) \in Nat
  BY <1>1
<1>4. f \in Seq(R) /\ Len(f) = Len(e) + 1 /\ f[Len(e) + 1] = l /\ \A i \in 1 .. Len(e) : f[i] = e[i]
  BY <1>2, Appended
<1> HIDE DEF f
<1>5. \A i \in 1 .. Len(f) : f[i].offset \in Nat /\ f[i].offset < m
  <2> SUFFICES ASSUME NEW i \in 1 .. Len(f) PROVE f[i].offset \in Nat /\ f[i].offset < m
    OBVIOUS
  <2>1. CASE i = Len(e) + 1
    BY <1>4, <2>1
  <2>2. CASE i # Len(e) + 1
    <3>1. i \in 1 .. Len(e)
      BY <1>3, <1>4, <2>2
    <3>2. f[i].offset = e[i].offset /\ e[i].offset \in Nat /\ e[i].offset < s
      BY <1>4, <3>1 DEF SortedLines, OffsetsBelow
    <3> QED BY <3>2
  <2> QED BY <2>1, <2>2
<1>6. \A i \in 1 .. Len(f) - 1 : f[i].offset < f[i + 1].offset
  <2> SUFFICES ASSUME NEW i \in 1 .. Len(f) - 1 PROVE f[i].offset < f[i + 1].offset
    OBVIOUS
  <2>1. i \in 1 .. Len(e)
    BY <1>3, <1>4
  <2>2. CASE i = Len(e)
    BY <1>4, <2>1, <2>2 DEF OffsetsBelow
  <2>3. CASE i # Len(e)
    <3>1. i \in 1 .. Len(e) - 1 /\ i + 1 \in 1 .. Len(e)
      BY <1>3, <2>1, <2>3
    <3> QED BY <1>4, <2>1, <3>1 DEF SortedLines
  <2> QED BY <2>2, <2>3
<1>7. SetOf(f) = SetOf(e) \union {l}
  <2>1. 1 .. Len(f) = (1 .. Len(e)) \union {Len(e) + 1}
    BY <1>3, <1>4
  <2> QED BY <1>4, <2>1 DEF SetOf
<1> QED BY <1>4, <1>5, <1>6, <1>7 DEF SortedLines, OffsetsBelow, f

LEMMA EmittedIs ==
  ASSUME StringInv, pc = "read"
  PROVE  /\ SortedLines(Strs!Emitted) /\ OffsetsBelow(Strs!Emitted, Len(text) + 1)
         /\ SetOf(Strs!Emitted) = LinesOf(minimum, indicators_only, text, EndedIn(text) \union LastIn(text))
<1> DEFINE line == Strs!LineOf(start_offset, current)
           old == LinesOf(minimum, indicators_only, text, EndedIn(text))
           n == Len(text)
<1>1. /\ text \in Seq(Bytes) /\ n \in Nat /\ minimum \in 1 .. MAX_STRING_LEN /\ start_offset \in Nat
      /\ CurrentRight /\ SetOf(lines) = old /\ SortedLines(lines)
      /\ OffsetsBelow(lines, IF current = << >> THEN Len(text) ELSE start_offset)
  BY DEF StringInv, StringTypes, InOrder, Printed, SetOf, SortedLines, OffsetsBelow
<1>2. /\ minimum \in Nat /\ minimum >= 1 /\ minimum <= MAX_STRING_LEN /\ MAX_STRING_LEN \in Nat
  BY <1>1, StringAssumption
<1>3. Strs!Emitted = IF Len(current) >= minimum /\ Strs!Shown(line) THEN Append(lines, line) ELSE lines
  BY DEF Strs!Emitted
<1>4. line.offset = start_offset /\ (Strs!Shown(line) <=> ~ (indicators_only /\ line.kind = "text"))
  BY DEF Strs!LineOf, Strs!Shown
<1>5. CASE current = << >>
  <2>1. Len(current) = 0 /\ LastIn(text) = {}
    BY <1>1, <1>5, NoneOpen DEF CurrentRight
  <2>2. Strs!Emitted = lines
    <3>1. ~ (Len(current) >= minimum)
      BY <1>2, <2>1
    <3> QED BY <1>3, <3>1
  <2>3. EndedIn(text) \union LastIn(text) = EndedIn(text)
    BY <2>1
  <2>4. OffsetsBelow(lines, n + 1)
    BY <1>1, <1>5 DEF OffsetsBelow, SortedLines
  <2> QED BY <1>1, <2>2, <2>3, <2>4
<1>6. CASE current # << >>
  <2> DEFINE r == <<start_offset + 1, n>>
  <2>1. /\ start_offset < n /\ AllPrint(text, start_offset + 1, n) /\ Begins(text, start_offset + 1)
        /\ current = CutOf(text, r)
    BY <1>1, <1>6 DEF CurrentRight
  <2>2. LastIn(text) = {r}
    BY <1>1, <2>1, OneOpen
  <2>3. LineIn(text, r) = line
    <3>1. r[1] - 1 = start_offset
      BY <1>1
    <3> QED BY <2>1, <3>1 DEF LineIn
  <2>4. Len(current) >= minimum <=> r[2] - r[1] + 1 >= minimum
    <3>1. start_offset + 1 \in 1 .. n /\ n \in start_offset + 1 .. n
      BY <1>1, <2>1
    <3>2. Len(current) = IF n - (start_offset + 1) < MAX_STRING_LEN THEN n - (start_offset + 1) + 1
                         ELSE MAX_STRING_LEN
      BY <1>1, <2>1, <3>1, CutIs
    <3> DEFINE d == n - (start_offset + 1)
    <3>3. d \in Nat /\ r[2] - r[1] + 1 = d + 1
      BY <1>1, <3>1
    <3>4. Len(current) = IF d < MAX_STRING_LEN THEN d + 1 ELSE MAX_STRING_LEN
      BY <3>2
    <3> HIDE DEF d, r
    <3> QED BY <1>2, <3>3, <3>4
  <2>5. LinesOf(minimum, indicators_only, text, EndedIn(text) \union {r}) =
          old \union IF r[2] - r[1] + 1 >= minimum /\ ~ (indicators_only /\ line.kind = "text")
                     THEN {line} ELSE {}
    BY <2>3, LinesGrow
  <2>6. OffsetsBelow(lines, start_offset)
    BY <1>1, <1>6
  <2> HIDE DEF r, old
  <2>7. CASE Len(current) >= minimum /\ Strs!Shown(line)
    <3>1. Strs!Emitted = Append(lines, line)
      BY <1>3, <2>7
    <3>2. n + 1 \in Nat /\ start_offset < n + 1
      BY <1>1, <2>1
    <3> HIDE DEF line
    <3>3. /\ SortedLines(Append(lines, line)) /\ OffsetsBelow(Append(lines, line), n + 1)
          /\ SetOf(Append(lines, line)) = SetOf(lines) \union {line}
      BY <1>1, <1>4, <2>6, <3>2, LineAppended
    <3>4. LinesOf(minimum, indicators_only, text, EndedIn(text) \union LastIn(text)) = old \union {line}
      BY <1>4, <2>2, <2>4, <2>5, <2>7
    <3> QED BY <1>1, <3>1, <3>3, <3>4
  <2>8. CASE ~ (Len(current) >= minimum /\ Strs!Shown(line))
    <3>1. Strs!Emitted = lines
      BY <1>3, <2>8
    <3>2. LinesOf(minimum, indicators_only, text, EndedIn(text) \union LastIn(text)) = old
      BY <1>4, <2>2, <2>4, <2>5, <2>8
    <3>3. OffsetsBelow(lines, n + 1)
      BY <1>1, <2>1, <2>6 DEF OffsetsBelow, SortedLines
    <3> QED BY <1>1, <3>1, <3>2, <3>3
  <2> QED BY <2>7, <2>8
<1> QED BY <1>5, <1>6

(* A byte that prints lengthens the run that is open, or opens one. *)
LEMMA BufferGrows ==
  ASSUME NEW t \in Seq(Bytes), NEW c \in Printable, NEW s \in Nat, s < Len(t)
  PROVE  CutOf(Append(t, c), <<s + 1, Len(t) + 1>>) =
           IF Len(CutOf(t, <<s + 1, Len(t)>>)) < MAX_STRING_LEN
             THEN Append(CutOf(t, <<s + 1, Len(t)>>), c) ELSE CutOf(t, <<s + 1, Len(t)>>)
<1> DEFINE n == Len(t)
           u == Append(t, c)
<1>1. n \in Nat /\ c \in Bytes /\ s < n /\ s + 1 \in 1 .. n /\ n \in s + 1 .. n /\ s + 1 \in 1 .. n + 1
  BY DEF Bytes
<1>2. Len(CutOf(t, <<s + 1, n>>)) = IF n - (s + 1) < MAX_STRING_LEN THEN n - (s + 1) + 1 ELSE MAX_STRING_LEN
  BY <1>1, CutIs
<1>3. CutOf(u, <<s + 1, n + 1>>) =
        SubSeq(u, s + 1, IF (n + 1) - (s + 1) < MAX_STRING_LEN THEN n + 1 ELSE (s + 1) + MAX_STRING_LEN - 1)
  BY DEF CutOf
<1>4. CutOf(t, <<s + 1, n>>) =
        SubSeq(t, s + 1, IF n - (s + 1) < MAX_STRING_LEN THEN n ELSE (s + 1) + MAX_STRING_LEN - 1)
  BY DEF CutOf
<1>5. SubSeq(u, s + 1, n + 1) = Append(SubSeq(t, s + 1, n), c)
  BY <1>1, PartGrows
<1>6. \A b \in 0 .. n : SubSeq(u, s + 1, b) = SubSeq(t, s + 1, b)
  BY <1>1, PartStays
<1> HIDE DEF n, u
<1>7. CASE n - s < MAX_STRING_LEN
  <2>1. /\ (n + 1) - (s + 1) < MAX_STRING_LEN /\ n - (s + 1) < MAX_STRING_LEN
        /\ n - (s + 1) + 1 < MAX_STRING_LEN
    BY <1>1, <1>7, StringAssumption
  <2> QED BY <1>2, <1>3, <1>4, <1>5, <2>1 DEF n, u
<1>8. CASE n - s = MAX_STRING_LEN
  <2>1. /\ ~ ((n + 1) - (s + 1) < MAX_STRING_LEN) /\ n - (s + 1) < MAX_STRING_LEN
        /\ ~ (n - (s + 1) + 1 < MAX_STRING_LEN) /\ (s + 1) + MAX_STRING_LEN - 1 = n /\ n \in 0 .. n
    BY <1>1, <1>8, StringAssumption
  <2> QED BY <1>2, <1>3, <1>4, <1>6, <2>1 DEF n, u
<1>9. CASE n - s > MAX_STRING_LEN
  <2>1. /\ ~ ((n + 1) - (s + 1) < MAX_STRING_LEN) /\ ~ (n - (s + 1) < MAX_STRING_LEN)
        /\ (s + 1) + MAX_STRING_LEN - 1 \in 0 .. n /\ ~ (MAX_STRING_LEN < MAX_STRING_LEN)
    BY <1>1, <1>9, StringAssumption
  <2> QED BY <1>2, <1>3, <1>4, <1>6, <2>1 DEF n, u
<1> QED BY <1>1, <1>7, <1>8, <1>9, StringAssumption

LEMMA RunGrows ==
  ASSUME StringTypes, CurrentRight, NEW c \in Printable,
         text' = Append(text, c), current' = Strs!NextCurrent(c),
         start_offset' = IF current = << >> THEN Len(text) ELSE start_offset
  PROVE  CurrentRight' /\ current' # << >> /\ current' \in Seq(Bytes) /\ Len(current') <= MAX_STRING_LEN
<1> DEFINE n == Len(text)
<1>1. text \in Seq(Bytes) /\ c \in Bytes /\ start_offset \in Nat /\ n \in Nat /\ current \in Seq(Bytes)
  BY DEF StringTypes, Bytes
<1>2. text' \in Seq(Bytes) /\ Len(text') = n + 1 /\ text'[n + 1] = c /\ \A i \in 1 .. n : text'[i] = text[i]
  BY <1>1, Appended
<1>3. current' = IF Len(current) < MAX_STRING_LEN THEN Append(current, c) ELSE current
  BY DEF Strs!NextCurrent
<1>4. current' # << >> /\ current' \in Seq(Bytes) /\ Len(current') <= MAX_STRING_LEN
  <2>1. Len(current) \in Nat /\ Len(current) <= MAX_STRING_LEN /\ MAX_STRING_LEN \in Nat \ {0}
    BY <1>1, StringAssumption DEF StringTypes
  <2>2. CASE Len(current) < MAX_STRING_LEN
    BY <1>1, <1>3, <2>1, <2>2, Appended
  <2>3. CASE ~ (Len(current) < MAX_STRING_LEN)
    BY <1>1, <1>3, <2>1, <2>3
  <2> QED BY <2>2, <2>3
<1>5. CASE current = << >>
  <2>1. start_offset' = n /\ (n = 0 \/ text[n] = Nul)
    BY <1>1, <1>5 DEF CurrentRight
  <2>2. AllPrint(text', n + 1, n + 1)
    BY <1>1, <1>2 DEF AllPrint
  <2>3. Begins(text', n + 1)
    <3>1. CASE n = 0
      BY <3>1 DEF Begins
    <3>2. CASE n # 0
      <4>1. n \in 1 .. n /\ (n + 1) - 1 = n
        BY <1>1, <3>2
      <4>2. text'[n] = Nul
        BY <1>2, <2>1, <3>2, <4>1
      <4> QED BY <4>1, <4>2 DEF Begins
    <3> QED BY <3>1, <3>2
  <2>4. current' = Append(<< >>, c)
    BY <1>3, <1>5, StringAssumption
  <2>5. CutOf(text', <<n + 1, n + 1>>) = SubSeq(text', n + 1, n + 1)
    <3>1. (n + 1) - (n + 1) < MAX_STRING_LEN
      BY <1>1, StringAssumption
    <3> QED BY <3>1 DEF CutOf
  <2>6. SubSeq(text', n + 1, n + 1) = Append(SubSeq(text, n + 1, n), c)
    <3>1. n + 1 \in 1 .. n + 1
      BY <1>1
    <3> QED BY <1>1, <3>1, PartGrows
  <2>7. SubSeq(text, n + 1, n) = << >>
    BY <1>1
  <2>8. start_offset' < Len(text')
    BY <1>1, <1>2, <2>1
  <2> QED BY <1>2, <1>4, <2>1, <2>2, <2>3, <2>4, <2>5, <2>6, <2>7, <2>8 DEF CurrentRight
<1>6. CASE current # << >>
  <2>1. /\ start_offset < n /\ AllPrint(text, start_offset + 1, n) /\ Begins(text, start_offset + 1)
        /\ current = CutOf(text, <<start_offset + 1, n>>) /\ start_offset' = start_offset
    BY <1>6 DEF CurrentRight
  <2>2. AllPrint(text', start_offset + 1, n + 1)
    <3> SUFFICES ASSUME NEW i \in start_offset + 1 .. n + 1 PROVE text'[i] \in Printable
      BY DEF AllPrint
    <3>1. CASE i = n + 1
      BY <1>2, <3>1
    <3>2. CASE i # n + 1
      <4>1. i \in 1 .. n /\ i \in start_offset + 1 .. n
        BY <1>1, <3>2
      <4> QED BY <1>2, <2>1, <4>1 DEF AllPrint
    <3> QED BY <3>1, <3>2
  <2>3. Begins(text', start_offset + 1)
    <3>1. CASE start_offset = 0
      BY <3>1 DEF Begins
    <3>2. CASE start_offset # 0
      <4>1. start_offset \in 1 .. n /\ (start_offset + 1) - 1 = start_offset /\ start_offset + 1 # 1
        BY <1>1, <2>1, <3>2
      <4> QED BY <1>2, <2>1, <4>1 DEF Begins
    <3> QED BY <3>1, <3>2
  <2>4. CutOf(text', <<start_offset + 1, n + 1>>) =
          IF Len(current) < MAX_STRING_LEN THEN Append(current, c) ELSE current
    BY <1>1, <2>1, BufferGrows
  <2>5. start_offset' < Len(text')
    BY <1>1, <1>2, <2>1
  <2> QED BY <1>2, <1>3, <1>4, <2>1, <2>2, <2>3, <2>4, <2>5 DEF CurrentRight
<1> QED BY <1>4, <1>5, <1>6

LEMMA StringsStay == StringInv /\ UNCHANGED <<pc, rc, StringVars>> => StringInv'
<1> SUFFICES ASSUME StringInv, UNCHANGED <<pc, rc, StringVars>> PROVE StringInv'
  OBVIOUS
<1>1. /\ pc' = pc /\ rc' = rc /\ minimum' = minimum /\ indicators_only' = indicators_only
      /\ current' = current /\ start_offset' = start_offset /\ text' = text /\ lines' = lines
  BY DEF StringVars
<1>2. StringTypes' /\ InOrder'
  BY <1>1 DEF StringInv, StringTypes, InOrder
<1>3. (pc # "exit" => CurrentRight)'
  BY <1>1 DEF StringInv, CurrentRight, AllPrint, Begins, CutOf
<1>4. /\ Printed' = Printed
      /\ (LinesOf(minimum, indicators_only, text, EndedIn(text)))' =
           LinesOf(minimum, indicators_only, text, EndedIn(text))
      /\ (LinesOf(minimum, indicators_only, text, EndedIn(text) \union LastIn(text)))' =
           LinesOf(minimum, indicators_only, text, EndedIn(text) \union LastIn(text))
  BY <1>1 DEF Printed, LinesOf, EndedIn, LastIn
<1> QED BY <1>1, <1>2, <1>3, <1>4 DEF StringInv

LEMMA StepPrintable == StringInv /\ Strs!ReadPrintable => StringInv'
<1> SUFFICES ASSUME StringInv, Strs!ReadPrintable PROVE StringInv'
  OBVIOUS
<1>1. PICK c \in Printable : text' = Append(text, c) /\ current' = Strs!NextCurrent(c)
  BY DEF Strs!ReadPrintable
<1>2. /\ pc = "read" /\ Len(text) < MaxBytes
      /\ start_offset' = IF current = << >> THEN Len(text) ELSE start_offset
      /\ pc' = pc /\ rc' = rc /\ minimum' = minimum /\ indicators_only' = indicators_only /\ lines' = lines
  BY DEF Strs!ReadPrintable
<1>3. StringTypes /\ CurrentRight /\ InOrder /\ Printed = LinesOf(minimum, indicators_only, text, EndedIn(text))
  BY <1>2 DEF StringInv
<1>4. /\ text \in Seq(Bytes) /\ c \in Bytes /\ start_offset \in Nat /\ Len(text) \in Nat
      /\ text' \in Seq(Bytes) /\ Len(text') = Len(text) + 1
  BY <1>1, <1>3, Appended DEF StringTypes, Bytes
<1>5. CurrentRight' /\ current' # << >> /\ current' \in Seq(Bytes) /\ Len(current') <= MAX_STRING_LEN
  BY <1>1, <1>2, <1>3, RunGrows
<1>6. StringTypes'
  <2>1. Len(text') <= MaxBytes
    BY <1>2, <1>4, StringAssumption
  <2>2. start_offset' \in Nat
    BY <1>2, <1>4
  <2> QED BY <1>2, <1>3, <1>4, <1>5, <2>1, <2>2 DEF StringTypes
<1>7. InOrder'
  <2>1. start_offset' = IF current = << >> THEN Len(text) ELSE start_offset
    BY <1>2
  <2> QED BY <1>2, <1>3, <1>5, <2>1 DEF InOrder
<1>8. Printed' = LinesOf(minimum, indicators_only, text', EndedIn(text'))
  <2>1. EndedIn(text') = EndedIn(text)
    BY <1>1, <1>4, RunsStay
  <2>2. \A r \in EndedIn(text) : r \in (1 .. Len(text)) \X (1 .. Len(text)) /\ r[1] <= r[2]
    BY DEF EndedIn
  <2>3. LinesOf(minimum, indicators_only, Append(text, c), EndedIn(text)) =
          LinesOf(minimum, indicators_only, text, EndedIn(text))
    BY <1>4, <2>2, LinesStay
  <2>4. Printed' = Printed
    BY <1>2 DEF Printed
  <2> QED BY <1>1, <1>3, <2>1, <2>3, <2>4
<1>9. (LinesOf(minimum, indicators_only, text, EndedIn(text)))' =
        LinesOf(minimum, indicators_only, text', EndedIn(text'))
  BY <1>2 DEF LinesOf, EndedIn
<1> QED BY <1>2, <1>5, <1>6, <1>7, <1>8, <1>9 DEF StringInv

LEMMA StepOther == StringInv /\ Strs!ReadOther => StringInv'
<1> SUFFICES ASSUME StringInv, Strs!ReadOther PROVE StringInv'
  OBVIOUS
<1>1. /\ pc = "read" /\ Len(text) < MaxBytes /\ text' = Append(text, Nul) /\ lines' = Strs!Emitted
      /\ current' = << >>
      /\ pc' = pc /\ rc' = rc /\ minimum' = minimum /\ indicators_only' = indicators_only
      /\ start_offset' = start_offset
  BY DEF Strs!ReadOther
<1>2. StringTypes
  BY DEF StringInv
<1>3. /\ text \in Seq(Bytes) /\ Nul \in Bytes /\ Len(text) \in Nat
      /\ text' \in Seq(Bytes) /\ Len(text') = Len(text) + 1 /\ text'[Len(text) + 1] = Nul
  BY <1>1, <1>2, Appended DEF StringTypes, Bytes
<1>4. /\ SortedLines(lines') /\ OffsetsBelow(lines', Len(text) + 1)
      /\ SetOf(lines') = LinesOf(minimum, indicators_only, text, EndedIn(text) \union LastIn(text))
  BY <1>1, EmittedIs
<1>5. StringTypes'
  <2>1. Len(text') <= MaxBytes
    BY <1>1, <1>3, StringAssumption
  <2>2. current' \in Seq(Bytes) /\ Len(current') <= MAX_STRING_LEN
    BY <1>1, StringAssumption
  <2> QED BY <1>1, <1>2, <1>3, <2>1, <2>2 DEF StringTypes
<1>6. InOrder'
  BY <1>1, <1>3, <1>4 DEF InOrder, SortedLines, OffsetsBelow
<1>7. CurrentRight'
  BY <1>1, <1>3 DEF CurrentRight
<1>8. Printed' = LinesOf(minimum, indicators_only, text', EndedIn(text'))
  <2> DEFINE rs == EndedIn(text) \union LastIn(text)
  <2>1. EndedIn(text') = rs
    BY <1>1, <1>3, RunsStay
  <2>2. \A r \in rs : r \in (1 .. Len(text)) \X (1 .. Len(text)) /\ r[1] <= r[2]
    BY DEF EndedIn, LastIn
  <2> HIDE DEF rs
  <2>3. LinesOf(minimum, indicators_only, Append(text, Nul), rs) = LinesOf(minimum, indicators_only, text, rs)
    BY <1>3, <2>2, LinesStay
  <2>4. Printed' = SetOf(lines')
    BY DEF Printed, SetOf
  <2>5. SetOf(lines') = LinesOf(minimum, indicators_only, text, rs)
    BY <1>4 DEF rs
  <2> QED BY <1>1, <2>1, <2>3, <2>4, <2>5
<1>9. (LinesOf(minimum, indicators_only, text, EndedIn(text)))' =
        LinesOf(minimum, indicators_only, text', EndedIn(text'))
  BY <1>1 DEF LinesOf, EndedIn
<1> QED BY <1>1, <1>5, <1>6, <1>7, <1>8, <1>9 DEF StringInv

LEMMA StepEnd == StringInv /\ Strs!EndOfFile => StringInv'
<1> SUFFICES ASSUME StringInv, Strs!EndOfFile PROVE StringInv'
  OBVIOUS
<1>1. /\ pc = "read" /\ pc' = "exit" /\ text' = text /\ current' = current
      /\ minimum' = minimum /\ indicators_only' = indicators_only /\ start_offset' = start_offset
      /\ \/ rc' = 0 /\ lines' = Strs!Emitted
         \/ rc' = 20 /\ lines' = lines
  BY DEF Strs!EndOfFile, Strs!Exit
<1>2. StringTypes /\ InOrder
  BY DEF StringInv
<1>3. StringTypes'
  BY <1>1, <1>2 DEF StringTypes
<1>4. CASE rc' = 20 /\ lines' = lines
  <2>1. InOrder'
    BY <1>1, <1>2, <1>4 DEF InOrder
  <2> QED BY <1>1, <1>3, <1>4, <2>1 DEF StringInv
<1>5. CASE rc' = 0 /\ lines' = Strs!Emitted
  <2>1. /\ SortedLines(lines')
        /\ SetOf(lines') = LinesOf(minimum, indicators_only, text, EndedIn(text) \union LastIn(text))
    BY <1>1, <1>5, EmittedIs
  <2>2. InOrder'
    BY <1>1, <2>1 DEF InOrder, SortedLines
  <2>3. Printed' = SetOf(lines')
    BY DEF Printed, SetOf
  <2>4. (LinesOf(minimum, indicators_only, text, EndedIn(text) \union LastIn(text)))' =
          LinesOf(minimum, indicators_only, text, EndedIn(text) \union LastIn(text))
    BY <1>1 DEF LinesOf, EndedIn, LastIn
  <2> QED BY <1>1, <1>3, <2>1, <2>2, <2>3, <2>4 DEF StringInv
<1> QED BY <1>1, <1>4, <1>5

LEMMA StepStrings ==
  ASSUME StringInv, Strs!StringsNext \/ UNCHANGED <<pc, rc, StringVars>>
  PROVE  StringInv'
<1>1. CASE Strs!Arguments
  <2>1. /\ pc = "start" /\ minimum' \in 0 .. MAX_STRING_LEN + 1
        /\ text' = text /\ current' = current /\ start_offset' = start_offset /\ lines' = lines
        /\ \/ pc' = "exit" /\ rc' \in {10, 20}
           \/ pc' = "read" /\ rc' = rc /\ minimum' \in 1 .. MAX_STRING_LEN
    BY <1>1 DEF Strs!Arguments, Strs!Exit, Strs!scan
  <2>2. text = << >> /\ lines = << >> /\ current = << >> /\ StringTypes
    BY <2>1 DEF StringInv, StringTypes
  <2>3. StringTypes' /\ InOrder'
    BY <2>1, <2>2 DEF StringTypes, InOrder
  <2>4. CurrentRight' /\ Printed' = {} /\ EndedIn(text') = {}
    BY <2>1, <2>2 DEF CurrentRight, Printed, EndedIn
  <2>5. (LinesOf(minimum, indicators_only, text, EndedIn(text)))' = {}
    BY <2>4 DEF LinesOf, LongIn
  <2> QED BY <2>1, <2>3, <2>4, <2>5 DEF StringInv
<1> QED BY <1>1, StepPrintable, StepOther, StepEnd, StringsStay DEF Strs!StringsNext

LEMMA InitStrings == Strs!StringsInit => StringInv
<1> SUFFICES ASSUME Strs!StringsInit PROVE StringInv
  OBVIOUS
<1>1. /\ pc = "start" /\ rc = 0 /\ minimum = 0 /\ current = << >> /\ start_offset = 0 /\ text = << >>
      /\ lines = << >>
  BY DEF Strs!StringsInit
<1>2. StringTypes /\ InOrder
  BY <1>1, StringAssumption DEF StringTypes, InOrder
<1>3. CurrentRight /\ Printed = {} /\ EndedIn(text) = {}
  BY <1>1 DEF CurrentRight, Printed, EndedIn
<1> QED BY <1>1, <1>2, <1>3 DEF StringInv, LinesOf, LongIn

LEMMA StringsAreRight == StringInv => Strs!StringsTypeOK /\ Strs!RunsArePrinted
<1>1. StringInv => Strs!StringsTypeOK
  BY DEF StringInv, StringTypes, Strs!StringsTypeOK
<1>2. ASSUME StringInv, pc = "exit", rc = 0 PROVE Strs!RunsArePrinted
  <2>1. /\ StringTypes /\ InOrder
        /\ Printed = LinesOf(minimum, indicators_only, text, Strs!Runs)
    BY <1>2, RunsAre DEF StringInv
  <2>2. \A r : LineIn(text, r) = Strs!LineOf(r[1] - 1, Strs!Cut(r))
    BY DEF LineIn, CutOf, Strs!Cut
  <2>3. LongIn(minimum, Strs!Runs) = {q \in Strs!Runs : q[2] - q[1] + 1 >= minimum}
    BY DEF LongIn
  <2>4. DOMAIN lines = 1 .. Len(lines)
    BY <2>1 DEF InOrder
  <2>5. \A l : Strs!Shown(l) <=> ~ (indicators_only /\ l.kind = "text")
    BY DEF Strs!Shown
  <2>6. {lines[i] : i \in DOMAIN lines} =
          {l \in {Strs!LineOf(r[1] - 1, Strs!Cut(r)) : r \in {q \in Strs!Runs : q[2] - q[1] + 1 >= minimum}} :
             Strs!Shown(l)}
    BY <2>1, <2>2, <2>3, <2>4, <2>5 DEF Printed, LinesOf
  <2> QED BY <2>1, <2>6 DEF InOrder, Strs!RunsArePrinted
<1> QED BY <1>1, <1>2 DEF Strs!RunsArePrinted
-----------------------------------------------------------------------------
(* FileInfo: what a bit count of two words says. *)
BitCounts == (0 .. Half - 1) \X (0 .. Half - 1)
ValueOf(b) == b[1] * Half + b[2]

LEMMA DigestSizes ==
  /\ BufferSize \in Nat /\ HeadSize \in Nat /\ BlockSize \in Nat /\ Half \in Nat /\ MaxSize \in Nat
  /\ BlockSize > 2 /\ HeadSize >= 4 /\ 8 * BlockSize < Half /\ 8 * MaxSize < Half * Half /\ Half > 0
BY DigestAssumption

(* sha256_add_bits keeps count across its two words, and stays in them. *)
LEMMA BitsAdd ==
  ASSUME NEW b \in BitCounts, NEW n \in 0 .. Half - 1
  PROVE  /\ Digest!AddBits(b, n) \in BitCounts
         /\ ValueOf(b) + n < Half * Half => ValueOf(Digest!AddBits(b, n)) = ValueOf(b) + n
<1> DEFINE hi == b[1]
           lo == b[2]
           w == (lo + n) % Half
<1>0. Half \in Nat \ {0}
  BY DigestSizes
<1>1. hi \in 0 .. Half - 1 /\ lo \in 0 .. Half - 1
  BY DEF BitCounts
<1>2. Digest!AddBits(b, n) = <<IF w < lo THEN (hi + 1) % Half ELSE hi, w>>
  BY DEF Digest!AddBits
<1> HIDE DEF hi, lo
<1>3. CASE lo + n < Half
  <2>1. lo + n \in 0 .. Half - 1
    BY <1>0, <1>1, <1>3
  <2>2. w = lo + n
    BY <1>0, <2>1
  <2>3. ~ (w < lo) /\ w \in 0 .. Half - 1
    BY <1>0, <1>1, <2>1, <2>2
  <2>4. Digest!AddBits(b, n) = <<hi, w>>
    BY <1>2, <2>3
  <2> HIDE DEF w
  <2>5. Digest!AddBits(b, n) \in BitCounts
    BY <1>1, <2>3, <2>4 DEF BitCounts
  <2>6. hi * Half + w = hi * Half + lo + n
    BY <1>0, <1>1, <2>2
  <2> QED BY <2>4, <2>5, <2>6 DEF ValueOf, hi, lo
<1>4. CASE lo + n >= Half
  <2>1. lo + n - Half \in 0 .. Half - 1
    BY <1>0, <1>1, <1>4
  <2>2. w = lo + n - Half
    <3>1. ((lo + n - Half) + 1 * Half) % Half = lo + n - Half
      BY <1>0, <2>1, Remainder
    <3>2. (lo + n - Half) + 1 * Half = lo + n
      BY <1>0, <1>1
    <3> QED BY <3>1, <3>2
  <2>3. w < lo /\ w \in 0 .. Half - 1
    BY <1>0, <1>1, <2>1, <2>2
  <2>4. Digest!AddBits(b, n) = <<(hi + 1) % Half, w>>
    BY <1>2, <2>3
  <2>5. (hi + 1) % Half \in 0 .. Half - 1
    BY <1>0, <1>1
  <2> HIDE DEF w
  <2>6. Digest!AddBits(b, n) \in BitCounts
    BY <2>3, <2>4, <2>5 DEF BitCounts
  <2>7. ASSUME hi * Half + lo + n < Half * Half
        PROVE  ((hi + 1) % Half) * Half + w = hi * Half + lo + n
    <3>1. hi + 1 # Half
      <4> SUFFICES ASSUME hi + 1 = Half PROVE FALSE
        OBVIOUS
      <4>1. (hi + 1) * Half = hi * Half + Half
        BY <1>0, <1>1
      <4>2. Half * Half = hi * Half + Half
        BY <4>1
      <4> DEFINE p == hi * Half
                 s == Half * Half
      <4>3. p \in Nat /\ s = p + Half /\ p + lo + n < s
        BY <1>0, <1>1, <2>7, <4>2
      <4> HIDE DEF p, s
      <4> QED BY <1>0, <1>1, <1>4, <4>3
    <3>2. (hi + 1) % Half = hi + 1
      <4>1. hi + 1 \in 0 .. Half - 1
        BY <1>0, <1>1, <3>1
      <4> QED BY <1>0, <4>1
    <3>3. (hi + 1) * Half = hi * Half + Half
      BY <1>0, <1>1
    <3> DEFINE p == hi * Half
    <3>4. p \in Nat /\ (hi + 1) * Half = p + Half
      BY <1>0, <1>1, <3>3
    <3> HIDE DEF p
    <3>5. p + Half + (lo + n - Half) = p + lo + n
      BY <1>0, <1>1, <3>4
    <3> QED BY <2>2, <3>2, <3>4, <3>5 DEF p
  <2>8. ValueOf(b) + n = hi * Half + lo + n
    BY <1>0, <1>1 DEF ValueOf, hi, lo
  <2> QED BY <2>4, <2>6, <2>7, <2>8 DEF ValueOf
<1> QED BY <1>0, <1>1, <1>3, <1>4

(* However many blocks a turn fills, none of their bits is lost. *)
LEMMA BitsCounted ==
  ASSUME bits \in BitCounts, NEW n \in Nat, ValueOf(bits) + n * (8 * BlockSize) < Half * Half
  PROVE  /\ Digest!Counted(n) \in BitCounts
         /\ ValueOf(Digest!Counted(n)) = ValueOf(bits) + n * (8 * BlockSize)
<1> DEFINE w == 8 * BlockSize
           s == [i \in 1 .. n |-> w]
           D == BitCounts
           f == [p \in D \X Nat |-> Digest!AddBits(p[1], w)]
           Loop(h) == [k \in 0 .. n |-> IF k = 0 THEN bits ELSE Digest!AddBits(h[k - 1], w)]
           u == CHOOSE h : h = Loop(h)
<1>1. w \in 0 .. Half - 1 /\ w \in Nat /\ Half \in Nat
  BY DigestSizes
<1>2. s \in Seq(Nat) /\ Len(s) = n
  BY <1>1
<1>3. Digest!Counted(n) = u[n]
  BY DEF Digest!Counted
<1> HIDE DEF s, w
<1>4. \A p \in D \X Nat : Digest!AddBits(p[1], w) \in D
  <2> SUFFICES ASSUME NEW p \in D \X Nat PROVE Digest!AddBits(p[1], w) \in D
    OBVIOUS
  <2>1. p[1] \in BitCounts
    OBVIOUS
  <2> QED BY <1>1, <2>1, BitsAdd, Zenon
<1>5. IsBody(f, D, Nat) /\ bits \in D
  BY <1>4 DEF IsBody
<1>6. PICK g \in [0 .. n -> D] : g[0] = bits /\ \A k \in 1 .. n : g[k] = f[<<g[k - 1], s[k]>>]
  <2>1. \E g \in [0 .. Len(s) -> D] : RunsOver(g, f, bits, s)
    <3> HIDE DEF f, D
    <3> QED BY <1>2, <1>5, LoopExists, Zenon
  <2> QED BY <1>2, <2>1 DEF RunsOver
<1>7. \A k \in 0 .. n : g[k] \in D
  BY <1>6
<1>8. ASSUME NEW k \in 1 .. n PROVE g[k] = Digest!AddBits(g[k - 1], w)
  <2>1. k - 1 \in 0 .. n /\ k \in 1 .. Len(s)
    BY <1>2
  <2>2. g[k - 1] \in D /\ s[k] \in Nat
    BY <1>2, <1>7, <2>1
  <2> QED BY <1>6, <2>2
<1>9. g = Loop(g)
  <2>1. ASSUME NEW k \in 0 .. n PROVE g[k] = Loop(g)[k]
    <3>1. CASE k = 0
      BY <1>6, <3>1
    <3>2. CASE k # 0
      <4>1. k \in 1 .. n
        BY <3>2
      <4> QED BY <1>8, <3>2, <4>1
    <3> QED BY <3>1, <3>2
  <2> QED BY <1>6, <2>1
<1>10. u = Loop(u)
  BY <1>9
<1> HIDE DEF u
<1>11. u[0] = bits /\ \A k \in 1 .. n : u[k] = Digest!AddBits(u[k - 1], w)
  <2>1. u[0] = bits
    <3>1. 0 \in 0 .. n
      OBVIOUS
    <3> QED BY <1>10, <3>1
  <2>2. ASSUME NEW k \in 1 .. n PROVE u[k] = Digest!AddBits(u[k - 1], w)
    <3>1. k \in 0 .. n /\ k # 0
      OBVIOUS
    <3> QED BY <1>10, <3>1
  <2> QED BY <2>1, <2>2
<1>12. \A k \in 0 .. n : u[k] \in BitCounts /\ ValueOf(u[k]) = ValueOf(bits) + k * w
  <2> DEFINE T == {k \in 0 .. n : u[k] \in BitCounts /\ ValueOf(u[k]) = ValueOf(bits) + k * w}
  <2>0. ValueOf(bits) \in Nat
    <3> DEFINE x == bits[1]
               y == bits[2]
    <3>1. x \in Nat /\ y \in Nat
      BY <1>1 DEF BitCounts
    <3> HIDE DEF x, y
    <3>2. x * Half \in Nat
      BY <1>1, <3>1
    <3> QED BY <3>1, <3>2 DEF ValueOf, x, y
  <2> DEFINE v == ValueOf(bits)
  <2>1. 0 \in T
    <3>1. v = v + 0 * w
      BY <1>1, <2>0
    <3> HIDE DEF v
    <3> QED BY <1>11, <3>1 DEF v
  <2>2. ASSUME NEW k \in 1 .. n, k - 1 \in T PROVE k \in T
    <3>1. u[k - 1] \in BitCounts /\ ValueOf(u[k - 1]) = v + (k - 1) * w
      BY <2>2
    <3>2. (k - 1) * w + w = k * w /\ (k - 1) * w \in Nat /\ k * w <= n * w /\ k * w \in Nat /\ n * w \in Nat
      BY <1>1
    <3> HIDE DEF v
    <3> DEFINE a == (k - 1) * w
               c == k * w
               d == n * w
               h == Half * Half
    <3>3. a + w = c /\ a \in Nat /\ c <= d /\ c \in Nat /\ d \in Nat /\ v + d < h /\ v \in Nat /\ h \in Nat
      <4>1. v + n * w < Half * Half
        BY DEF v, w
      <4> QED BY <1>1, <2>0, <3>2, <4>1 DEF v
    <3> HIDE DEF a, c, d, h
    <3>4. (v + a) + w < h /\ (v + a) + w = v + c
      BY <1>1, <3>3
    <3>5. /\ Digest!AddBits(u[k - 1], w) \in BitCounts
          /\ ValueOf(Digest!AddBits(u[k - 1], w)) = ValueOf(u[k - 1]) + w
      <4>1. ValueOf(u[k - 1]) + w < Half * Half
        BY <3>1, <3>4 DEF a, h
      <4> QED BY <1>1, <3>1, <4>1, BitsAdd
    <3>6. u[k] = Digest!AddBits(u[k - 1], w)
      BY <1>11
    <3>7. ValueOf(u[k]) = v + c
      BY <3>1, <3>4, <3>5, <3>6 DEF a
    <3> QED BY <3>5, <3>6, <3>7 DEF c, v
  <2>3. 0 .. n \subseteq T
    <3> HIDE DEF T
    <3> QED BY <2>1, <2>2, TurnInduction
  <2> QED BY <2>3
<1>13. n \in 0 .. n
  OBVIOUS
<1> QED BY <1>3, <1>12, <1>13 DEF w

(* What a file, its blocks and its padding are made of. *)
Marks == {"byte", "inversion", "0x00", "0x80", "bits"} \X Nat

LEMMA MarksAre ==
  /\ Digest!Zero \in Marks /\ Digest!EndMark \in Marks /\ Digest!Inversion \in Marks
  /\ \A j \in Nat : Digest!Byte(j) \in Marks /\ Digest!Byte(j) # Digest!Inversion
<1>1. "byte" # "inversion"
  OBVIOUS
<1>2. /\ Digest!Zero \in Marks /\ Digest!EndMark \in Marks /\ Digest!Inversion \in Marks
      /\ \A j \in Nat : Digest!Byte(j) \in Marks
  <2>1. 0 \in Nat
    OBVIOUS
  <2> QED BY <1>1, <2>1, Zenon DEF Marks, Digest!Zero, Digest!EndMark, Digest!Inversion, Digest!Byte
<1>3. \A j \in Nat : Digest!Byte(j) # Digest!Inversion
  BY <1>1 DEF Digest!Inversion, Digest!Byte
<1> QED BY <1>2, <1>3

(* A part of a sequence. *)
LEMMA PartIs ==
  ASSUME NEW S, NEW t \in Seq(S), NEW a \in Nat, NEW b \in Nat, a <= b, b <= Len(t)
  PROVE  /\ SubSeq(t, a + 1, b) \in Seq(S) /\ Len(SubSeq(t, a + 1, b)) = b - a
         /\ \A j \in 1 .. b - a : SubSeq(t, a + 1, b)[j] = t[a + j]
<1>1. Len(t) \in Nat
  OBVIOUS
<1>2. SubSeq(t, a + 1, b) \in Seq(S) /\ Len(SubSeq(t, a + 1, b)) = b - a
  BY <1>1
<1>3. ASSUME NEW j \in 1 .. b - a PROVE SubSeq(t, a + 1, b)[j] = t[a + j]
  <2>1. SubSeq(t, a + 1, b)[j] = t[(a + 1) + j - 1]
    BY <1>1
  <2>2. (a + 1) + j - 1 = a + j
    OBVIOUS
  <2> QED BY <2>1, <2>2
<1> QED BY <1>2, <1>3

BlockAt(b) == [j \in 1 .. BlockSize |-> Digest!Byte((b - 1) * BlockSize + j)]

HeadRight ==
  /\ Len(head) = IF size < HeadSize THEN size ELSE HeadSize
  /\ \A j \in 1 .. Len(head) : head[j] = Digest!Byte(j)

(* r is the register after n bytes. *)
Registered(r, n) ==
  /\ r \in Seq(Marks)
  /\ n = 0 => r = << >>
  /\ n > 0 => /\ Len(r) = n + 2 /\ r[1] = Digest!Inversion /\ r[n + 2] = Digest!Inversion
              /\ \A j \in 1 .. n : r[j + 1] = Digest!Byte(j)

(* What is in the blocks and in data is the file so far, in order. *)
BlocksRight ==
  /\ Len(blocks) * BlockSize + Len(data) = size
  /\ \A b \in 1 .. Len(blocks) : blocks[b] = BlockAt(b)
  /\ \A j \in 1 .. Len(data) : data[j] = Digest!Byte(Len(blocks) * BlockSize + j)
  /\ ValueOf(bits) = Len(blocks) * (8 * BlockSize)

DigestTypes ==
  /\ pc \in {"start", "read", "exit"} /\ rc \in {0, 10, 20}
  /\ size \in 0 .. MaxSize /\ head \in Seq(Marks) /\ data \in Seq(Marks) /\ Len(data) < BlockSize
  /\ bits \in BitCounts /\ blocks \in Seq(Seq(Marks))
  /\ pc = "start" => size = 0 /\ rc = 0

(* The blocks that a part of the file fills, and what is left of it. *)
LEMMA BlocksCut ==
  ASSUME NEW q \in Nat, NEW bytes \in Seq(Marks),
         \A j \in 1 .. Len(bytes) : bytes[j] = Digest!Byte(q * BlockSize + j)
  PROVE  LET c == Digest!Cut(bytes)
             left == SubSeq(bytes, Len(c) * BlockSize + 1, Len(bytes))
         IN  /\ c \in Seq(Seq(Marks))
             /\ \A b \in 1 .. Len(c) : c[b] = BlockAt(q + b)
             /\ left \in Seq(Marks) /\ Len(left) < BlockSize
             /\ Len(c) * BlockSize + Len(left) = Len(bytes)
             /\ \A j \in 1 .. Len(left) : left[j] = Digest!Byte((q + Len(c)) * BlockSize + j)
<1> DEFINE c == Digest!Cut(bytes)
           n == Len(bytes)
           m == n \div BlockSize
           left == SubSeq(bytes, Len(c) * BlockSize + 1, Len(bytes))
<1>1. BlockSize \in Nat \ {0} /\ n \in Nat
  BY DigestSizes
<1>2. m \in Nat /\ m * BlockSize <= n /\ n < m * BlockSize + BlockSize /\ m * BlockSize \in Nat
  BY <1>1, Z3
<1>3. c = [b \in 1 .. m |-> SubSeq(bytes, (b - 1) * BlockSize + 1, b * BlockSize)]
  BY DEF Digest!Cut
<1> HIDE DEF c, m
<1>4. ASSUME NEW b \in 1 .. m
      PROVE  /\ SubSeq(bytes, (b - 1) * BlockSize + 1, b * BlockSize) \in Seq(Marks)
             /\ SubSeq(bytes, (b - 1) * BlockSize + 1, b * BlockSize) = BlockAt(q + b)
  <2> DEFINE l == (b - 1) * BlockSize
             h == b * BlockSize
             x == SubSeq(bytes, l + 1, h)
             y == BlockAt(q + b)
  <2>1. /\ (b - 1) * BlockSize \in Nat /\ b * BlockSize = (b - 1) * BlockSize + BlockSize
        /\ b * BlockSize <= m * BlockSize
    BY <1>1, <1>2
  <2>2. l \in Nat /\ h = l + BlockSize /\ h <= n
    <3> DEFINE e == m * BlockSize
    <3>1. l \in Nat /\ h = l + BlockSize /\ h <= e /\ e <= n /\ e \in Nat
      BY <1>2, <2>1
    <3> HIDE DEF l, h, e, n
    <3> QED BY <1>1, <3>1
  <2>3. ((q + b) - 1) * BlockSize = q * BlockSize + l /\ q * BlockSize \in Nat
    BY <1>1
  <2>4. y = [j \in 1 .. BlockSize |-> Digest!Byte(((q + b) - 1) * BlockSize + j)]
    BY DEF BlockAt
  <2> HIDE DEF l, h, y, n
  <2>5. x \in Seq(Marks) /\ Len(x) = BlockSize /\ \A j \in 1 .. BlockSize : x[j] = bytes[l + j]
    <3>1. h \in Nat /\ l <= h /\ h <= Len(bytes) /\ h - l = BlockSize
      BY <1>1, <2>2 DEF n
    <3> QED BY <2>2, <3>1, PartIs
  <2>6. \A j \in 1 .. BlockSize : x[j] = Digest!Byte((q * BlockSize + l) + j)
    <3> SUFFICES ASSUME NEW j \in 1 .. BlockSize PROVE x[j] = Digest!Byte((q * BlockSize + l) + j)
      OBVIOUS
    <3>1. l + j \in 1 .. Len(bytes)
      BY <1>1, <2>2 DEF n
    <3>2. q * BlockSize + (l + j) = (q * BlockSize + l) + j
      BY <2>2, <2>3
    <3> QED BY <2>5, <3>1, <3>2
  <2>7. y \in Seq(Marks) /\ Len(y) = BlockSize /\ \A j \in 1 .. BlockSize : y[j] = Digest!Byte((q * BlockSize + l) + j)
    <3>1. \A j \in 1 .. BlockSize : Digest!Byte((q * BlockSize + l) + j) \in Marks
      BY <2>2, <2>3, MarksAre
    <3>2. y = [j \in 1 .. BlockSize |-> Digest!Byte((q * BlockSize + l) + j)]
      BY <2>3, <2>4
    <3> QED BY <1>1, <3>1, <3>2
  <2> HIDE DEF x
  <2>8. x = y
    BY <2>5, <2>6, <2>7, SameSequence
  <2> QED BY <2>5, <2>8 DEF x, y, l, h
<1>5. c \in Seq(Seq(Marks)) /\ Len(c) = m /\ \A b \in 1 .. m : c[b] = BlockAt(q + b)
  <2>1. \A b \in 1 .. m : c[b] = BlockAt(q + b) /\ c[b] \in Seq(Marks)
    BY <1>3, <1>4
  <2>2. c = [b \in 1 .. m |-> c[b]]
    BY <1>3
  <2>3. c \in [1 .. m -> Seq(Marks)]
    BY <2>1, <2>2
  <2> QED BY <1>2, <2>1, <2>3
<1>6. left = SubSeq(bytes, m * BlockSize + 1, n)
  BY <1>5
<1> HIDE DEF left
<1>7. left \in Seq(Marks) /\ Len(left) = n - m * BlockSize
      /\ \A j \in 1 .. Len(left) : left[j] = bytes[m * BlockSize + j]
  <2> DEFINE l == m * BlockSize
  <2>1. l \in Nat /\ l <= n /\ left = SubSeq(bytes, l + 1, n)
    BY <1>2, <1>6
  <2> HIDE DEF l
  <2>2. left \in Seq(Marks) /\ Len(left) = n - l /\ \A j \in 1 .. n - l : left[j] = bytes[l + j]
    BY <1>1, <2>1, PartIs
  <2> QED BY <2>2 DEF l
<1>8. ASSUME NEW j \in 1 .. Len(left) PROVE left[j] = Digest!Byte((q + m) * BlockSize + j)
  <2>1. (q + m) * BlockSize = q * BlockSize + m * BlockSize /\ q * BlockSize \in Nat
    BY <1>1, <1>2
  <2>2. m * BlockSize + j \in 1 .. n /\ j \in Nat
    BY <1>1, <1>2, <1>7
  <2>3. q * BlockSize + (m * BlockSize + j) = (q + m) * BlockSize + j
    <3> DEFINE l == m * BlockSize
               k == q * BlockSize
    <3>1. l \in Nat /\ k \in Nat /\ (q + m) * BlockSize = k + l
      BY <1>2, <2>1
    <3> HIDE DEF l, k
    <3> QED BY <2>2, <3>1 DEF l, k
  <2> QED BY <1>7, <2>2, <2>3
<1>9. Len(left) < BlockSize /\ m * BlockSize + Len(left) = n
  <2> DEFINE l == m * BlockSize
  <2>1. l \in Nat /\ n < l + BlockSize /\ Len(left) = n - l
    BY <1>2, <1>7
  <2> HIDE DEF l
  <2>2. Len(left) < BlockSize /\ l + Len(left) = n
    BY <1>1, <2>1
  <2> QED BY <2>2 DEF l
<1> QED BY <1>5, <1>7, <1>8, <1>9 DEF c, left

(* A turn of the loop takes bytes that begin behind the first `from`. *)
BytesFrom(from, n) == [j \in 1 .. n |-> Digest!Byte(from + j)]

LEMMA BytesFromIs ==
  ASSUME NEW from \in Nat, NEW n \in Nat
  PROVE  /\ BytesFrom(from, n) \in Seq(Marks) /\ Len(BytesFrom(from, n)) = n
         /\ \A j \in 1 .. n : BytesFrom(from, n)[j] = Digest!Byte(from + j)
<1>1. \A j \in 1 .. n : from + j \in Nat /\ Digest!Byte(from + j) \in Marks
  BY MarksAre
<1> QED BY <1>1 DEF BytesFrom

(* CRC-32: the inversion that ended the last turn is taken back.           *)
LEMMA CrcGoesOn ==
  ASSUME NEW t \in Nat, NEW r, Registered(r, t), NEW n \in Nat \ {0}
  PROVE  Registered(Digest!CrcUpdate(r, BytesFrom(t, n)), t + n)
<1> DEFINE I == Digest!Inversion
           x == BytesFrom(t, n)
           a == Digest!Inverted(r)
           b == a \o x
           c == Append(b, I)
<1>1. /\ x \in Seq(Marks) /\ Len(x) = n /\ \A j \in 1 .. n : x[j] = Digest!Byte(t + j)
      /\ I \in Marks /\ \A j \in Nat : Digest!Byte(j) # I
  BY BytesFromIs, MarksAre
<1>2. a \in Seq(Marks) /\ Len(a) = t + 1 /\ a[1] = I /\ \A j \in 1 .. t : a[j + 1] = Digest!Byte(j)
  <2>1. CASE t = 0
    <3>1. r = << >>
      BY <2>1 DEF Registered
    <3>2. a = <<I>>
      BY <3>1 DEF Digest!Inverted
    <3> HIDE DEF a, I
    <3> QED BY <1>1, <2>1, <3>2
  <2>2. CASE t > 0
    <3>1. /\ r \in Seq(Marks) /\ Len(r) = t + 2 /\ r[1] = I /\ r[t + 2] = I
          /\ \A j \in 1 .. t : r[j + 1] = Digest!Byte(j)
      BY <2>2 DEF Registered
    <3>2. r # << >> /\ Len(r) - 1 = t + 1
      BY <3>1
    <3>3. a = SubSeq(r, 0 + 1, t + 1)
      BY <3>1, <3>2 DEF Digest!Inverted
    <3> HIDE DEF a, I
    <3>4. a \in Seq(Marks) /\ Len(a) = t + 1 /\ \A j \in 1 .. t + 1 : a[j] = r[0 + j]
      <4> DEFINE k == t + 1
      <4>1. k \in Nat /\ 0 <= k /\ k <= Len(r) /\ k - 0 = k /\ a = SubSeq(r, 0 + 1, k)
        BY <3>1, <3>3
      <4> HIDE DEF k
      <4>2. a \in Seq(Marks) /\ Len(a) = k - 0 /\ \A j \in 1 .. k - 0 : a[j] = r[0 + j]
        BY <3>1, <4>1, PartIs
      <4> QED BY <4>1, <4>2 DEF k
    <3> QED BY <3>1, <3>4
  <2> QED BY <2>1, <2>2
<1> HIDE DEF a, x, I
<1>3. /\ b \in Seq(Marks) /\ Len(b) = t + 1 + n /\ \A j \in 1 .. t + 1 : b[j] = a[j]
      /\ \A j \in 1 .. n : b[t + 1 + j] = x[j]
  <2>1. /\ a \o x \in Seq(Marks) /\ Len(a \o x) = Len(a) + Len(x)
        /\ \A i \in 1 .. Len(a) : (a \o x)[i] = a[i]
        /\ \A i \in 1 .. Len(x) : (a \o x)[Len(a) + i] = x[i]
    <3>1. a \in Seq(Marks) /\ x \in Seq(Marks)
      BY <1>1, <1>2
    <3> QED BY <3>1, Joined
  <2>2. Len(a) = t + 1 /\ Len(x) = n
    BY <1>1, <1>2
  <2> QED BY <2>1, <2>2
<1>4. b # << >> /\ b[Len(b)] # I
  <2>1. b[t + 1 + n] = x[n] /\ x[n] = Digest!Byte(t + n) /\ t + n \in Nat
    BY <1>1, <1>3
  <2> QED BY <1>1, <1>3, <2>1
<1>5. Digest!CrcUpdate(r, x) = c
  BY <1>4 DEF Digest!CrcUpdate, Digest!Inverted, a, I
<1> HIDE DEF b
<1>6. c \in Seq(Marks) /\ Len(c) = t + n + 2 /\ c[t + n + 2] = I /\ \A j \in 1 .. t + 1 + n : c[j] = b[j]
  <2>1. Len(b) + 1 = t + n + 2
    BY <1>3
  <2> QED BY <1>1, <1>3, <2>1, Appended
<1> HIDE DEF c
<1>7. c[1] = I
  BY <1>2, <1>3, <1>6
<1>8. ASSUME NEW j \in 1 .. t + n PROVE c[j + 1] = Digest!Byte(j)
  <2>1. CASE j <= t
    <3>1. j + 1 \in 1 .. t + 1 /\ j + 1 \in 1 .. t + 1 + n /\ j \in 1 .. t
      BY <2>1
    <3> QED BY <1>2, <1>3, <1>6, <3>1
  <2>2. CASE j > t
    <3>1. j - t \in 1 .. n /\ t + 1 + (j - t) = j + 1 /\ t + (j - t) = j /\ j + 1 \in 1 .. t + 1 + n
      BY <2>2
    <3> DEFINE i == j - t
    <3>2. c[j + 1] = b[j + 1] /\ i \in 1 .. n /\ t + 1 + i = j + 1 /\ t + i = j
      BY <1>6, <3>1
    <3> HIDE DEF i
    <3>3. b[j + 1] = x[i]
      BY <1>3, <3>2
    <3>4. x[i] = Digest!Byte(j)
      BY <1>1, <3>2
    <3> QED BY <3>2, <3>3, <3>4
  <2> QED BY <2>1, <2>2
<1>9. t + n # 0
  OBVIOUS
<1>10. Registered(c, t + n)
  BY <1>6, <1>7, <1>8, <1>9 DEF Registered, I
<1> QED BY <1>5, <1>10 DEF x

LEMMA HeadFills ==
  ASSUME DigestTypes, HeadRight, NEW n \in Nat \ {0},
         size' = size + n,
         head' = head \o SubSeq(BytesFrom(size, n), 1,
                                IF HeadSize - Len(head) > n THEN n ELSE HeadSize - Len(head))
  PROVE  head' \in Seq(Marks) /\ HeadRight'
<1> DEFINE room == HeadSize - Len(head)
           e == IF room > n THEN n ELSE room
           x == BytesFrom(size, n)
           y == SubSeq(x, 0 + 1, e)
<1>1. /\ HeadSize \in Nat /\ size \in Nat /\ head \in Seq(Marks) /\ Len(head) \in Nat
      /\ Len(head) = IF size < HeadSize THEN size ELSE HeadSize
      /\ \A j \in 1 .. Len(head) : head[j] = Digest!Byte(j)
  BY DigestSizes DEF DigestTypes, HeadRight
<1>2. /\ x \in Seq(Marks) /\ Len(x) = n /\ \A j \in 1 .. n : x[j] = Digest!Byte(size + j)
  BY <1>1, BytesFromIs
<1>3. e \in Nat /\ e <= n /\ e - 0 = e /\ Len(head) + e = IF size + n < HeadSize THEN size + n ELSE HeadSize
  BY <1>1
<1>4. e > 0 => Len(head) = size
  BY <1>1
<1>5. head' = head \o y
  OBVIOUS
<1> HIDE DEF e, x
<1>6. y \in Seq(Marks) /\ Len(y) = e /\ \A j \in 1 .. e : y[j] = x[0 + j]
  BY <1>2, <1>3, PartIs
<1> HIDE DEF y
<1>7. /\ head' \in Seq(Marks) /\ Len(head') = Len(head) + e
      /\ \A j \in 1 .. Len(head) : head'[j] = head[j]
      /\ \A j \in 1 .. e : head'[Len(head) + j] = y[j]
  <2>1. /\ head \o y \in Seq(Marks) /\ Len(head \o y) = Len(head) + Len(y)
        /\ \A i \in 1 .. Len(head) : (head \o y)[i] = head[i]
        /\ \A i \in 1 .. Len(y) : (head \o y)[Len(head) + i] = y[i]
    <3>1. head \in Seq(Marks) /\ y \in Seq(Marks)
      BY <1>1, <1>6
    <3> QED BY <3>1, Joined
  <2> QED BY <1>5, <1>6, <2>1
<1>8. ASSUME NEW j \in 1 .. Len(head) + e PROVE head'[j] = Digest!Byte(j)
  <2>1. CASE j <= Len(head)
    BY <1>1, <1>7, <2>1
  <2>2. CASE j > Len(head)
    <3>1. j - Len(head) \in 1 .. e /\ Len(head) + (j - Len(head)) = j /\ e > 0
      BY <1>1, <1>3, <2>2
    <3>2. head'[j] = y[j - Len(head)] /\ Len(head) = size
      BY <1>4, <1>7, <3>1
    <3>3. j - size \in 1 .. n /\ 0 + (j - size) = j - size /\ size + (j - size) = j
      BY <1>1, <1>3, <3>1, <3>2
    <3>4. y[j - size] = x[j - size] /\ x[j - size] = Digest!Byte(j)
      BY <1>2, <1>6, <3>1, <3>2, <3>3
    <3> QED BY <3>2, <3>4
  <2>3. j <= Len(head) \/ j > Len(head)
    BY <1>1
  <2> QED BY <2>1, <2>2, <2>3
<1> QED BY <1>3, <1>7, <1>8 DEF HeadRight

LEMMA StepRead ==
  ASSUME DigestTypes, HeadRight, Registered(register, size), BlocksRight, Digest!ReadChunk
  PROVE  DigestTypes' /\ HeadRight' /\ Registered(register', size') /\ BlocksRight'
<1>1. PICK n \in 1 .. BufferSize :
        LET bytes == data \o Digest!NextBytes(n)
            room == HeadSize - Len(head)
        IN /\ size + n <= MaxSize /\ size' = size + n
           /\ head' = head \o SubSeq(Digest!NextBytes(n), 1, IF room > n THEN n ELSE room)
           /\ register' = Digest!CrcUpdate(register, Digest!NextBytes(n))
           /\ blocks' = blocks \o Digest!Cut(bytes)
           /\ data' = SubSeq(bytes, Len(Digest!Cut(bytes)) * BlockSize + 1, Len(bytes))
           /\ bits' = Digest!Counted(Len(Digest!Cut(bytes)))
  BY DEF Digest!ReadChunk
<1>2. pc = "read" /\ pc' = pc /\ rc' = rc
  BY DEF Digest!ReadChunk
<1>3. /\ size \in Nat /\ size <= MaxSize /\ n \in Nat \ {0} /\ data \in Seq(Marks) /\ Len(data) \in Nat
      /\ blocks \in Seq(Seq(Marks)) /\ Len(blocks) \in Nat /\ BlockSize \in Nat \ {0}
      /\ MaxSize \in Nat /\ Half \in Nat
  BY DigestSizes DEF DigestTypes
<1>4. Digest!NextBytes(n) = BytesFrom(size, n)
  BY DEF Digest!NextBytes, BytesFrom
<1> DEFINE x == BytesFrom(size, n)
           bytes == data \o x
           c == Digest!Cut(bytes)
           q == Len(blocks)
<1>5. /\ size + n <= MaxSize /\ size' = size + n /\ register' = Digest!CrcUpdate(register, x)
      /\ blocks' = blocks \o c
      /\ data' = SubSeq(bytes, Len(c) * BlockSize + 1, Len(bytes)) /\ bits' = Digest!Counted(Len(c))
  BY <1>1, <1>4
<1>6. head' = head \o SubSeq(x, 1, IF HeadSize - Len(head) > n THEN n ELSE HeadSize - Len(head))
  BY <1>1, <1>4
<1>7. head' \in Seq(Marks) /\ HeadRight'
  BY <1>3, <1>5, <1>6, HeadFills
<1>8. Registered(register', size')
  BY <1>3, <1>5, CrcGoesOn
<1>9. x \in Seq(Marks) /\ Len(x) = n /\ \A j \in 1 .. n : x[j] = Digest!Byte(size + j)
  BY <1>3, BytesFromIs
<1>10. q * BlockSize + Len(data) = size /\ q * BlockSize \in Nat
  BY <1>3 DEF BlocksRight
<1> HIDE DEF x
<1>11. bytes \in Seq(Marks) /\ Len(bytes) = Len(data) + n
       /\ \A j \in 1 .. Len(bytes) : bytes[j] = Digest!Byte(q * BlockSize + j)
  <2>1. /\ bytes \in Seq(Marks) /\ Len(bytes) = Len(data) + Len(x)
        /\ \A i \in 1 .. Len(data) : bytes[i] = data[i]
        /\ \A i \in 1 .. Len(x) : bytes[Len(data) + i] = x[i]
    <3>1. data \in Seq(Marks) /\ x \in Seq(Marks)
      BY <1>3, <1>9
    <3> QED BY <3>1, Joined
  <2> HIDE DEF bytes
  <2>2. ASSUME NEW j \in 1 .. Len(bytes) PROVE bytes[j] = Digest!Byte(q * BlockSize + j)
    <3>1. CASE j <= Len(data)
      BY <1>3, <2>1, <3>1 DEF BlocksRight
    <3>2. CASE j > Len(data)
      <4> DEFINE k == q * BlockSize
      <4>1. k \in Nat /\ k + Len(data) = size
        BY <1>10
      <4> HIDE DEF k
      <4> DEFINE d == Len(data)
                 i == j - d
      <4>2. d \in Nat /\ k + d = size /\ j \in 1 .. d + n /\ j > d /\ n \in Nat
        BY <1>3, <1>9, <2>1, <3>2, <4>1
      <4>3. /\ \A e \in 1 .. n : bytes[d + e] = x[e]
            /\ \A e \in 1 .. n : x[e] = Digest!Byte(size + e)
        BY <1>9, <2>1
      <4> HIDE DEF d
      <4>4. i \in 1 .. n /\ d + i = j /\ size + i = k + j
        BY <4>1, <4>2
      <4> HIDE DEF i
      <4> QED BY <4>3, <4>4 DEF k
    <3>3. j <= Len(data) \/ j > Len(data)
      BY <1>3
    <3> QED BY <3>1, <3>2, <3>3
  <2> QED BY <1>9, <2>1, <2>2
<1> HIDE DEF bytes
<1> DEFINE left == SubSeq(bytes, Len(c) * BlockSize + 1, Len(bytes))
<1>12. /\ c \in Seq(Seq(Marks)) /\ \A b \in 1 .. Len(c) : c[b] = BlockAt(q + b)
       /\ left \in Seq(Marks) /\ Len(left) < BlockSize
       /\ Len(c) * BlockSize + Len(left) = Len(bytes)
       /\ \A j \in 1 .. Len(left) : left[j] = Digest!Byte((q + Len(c)) * BlockSize + j)
  BY <1>3, <1>11, BlocksCut
<1>13. data' = left
  BY <1>5
<1> HIDE DEF c, left
<1> DEFINE m == Len(c)
<1>14. /\ blocks' \in Seq(Seq(Marks)) /\ Len(blocks') = q + m /\ m \in Nat
       /\ \A b \in 1 .. q : blocks'[b] = blocks[b]
       /\ \A b \in 1 .. m : blocks'[q + b] = c[b]
  BY <1>3, <1>5, <1>12, Joined
<1>15. ASSUME NEW b \in 1 .. q + m PROVE blocks'[b] = BlockAt(b)
  <2>0. \A k \in 1 .. q : blocks[k] = BlockAt(k)
    BY DEF BlocksRight
  <2>1. CASE b <= q
    <3>1. b \in 1 .. q
      BY <1>3, <1>14, <2>1
    <3> QED BY <1>14, <2>0, <3>1
  <2>2. CASE b > q
    <3>1. b - q \in 1 .. m /\ q + (b - q) = b
      BY <1>3, <1>14, <2>2
    <3> QED BY <1>12, <1>14, <3>1
  <2>3. b <= q \/ b > q
    BY <1>3
  <2> QED BY <2>1, <2>2, <2>3
<1>16. (q + m) * BlockSize + Len(left) = size + n
  <2>1. (q + m) * BlockSize = q * BlockSize + m * BlockSize /\ m * BlockSize \in Nat /\ Len(left) \in Nat
    BY <1>3, <1>12, <1>14
  <2> DEFINE u == q * BlockSize
             v == m * BlockSize
             w == (q + m) * BlockSize
  <2>2. /\ u \in Nat /\ v \in Nat /\ w = u + v /\ u + Len(data) = size
        /\ v + Len(left) = Len(data) + n
    BY <1>10, <1>11, <1>12, <2>1
  <2>3. Len(left) \in Nat
    BY <2>1
  <2> DEFINE d == Len(data)
             l == Len(left)
  <2>4. d \in Nat /\ l \in Nat /\ n \in Nat /\ u + d = size /\ v + l = d + n
    BY <1>3, <2>2, <2>3
  <2> HIDE DEF u, v, w, d, l
  <2>5. w + l = size + n
    <3>1. u \in Nat /\ v \in Nat /\ w = u + v
      BY <2>2
    <3> QED BY <2>4, <3>1
  <2> QED BY <2>5 DEF w, l
<1>17. bits' \in BitCounts /\ ValueOf(bits') = (q + m) * (8 * BlockSize)
  <2>1. bits \in BitCounts /\ ValueOf(bits) = q * (8 * BlockSize)
    BY DEF DigestTypes, BlocksRight
  <2>2. q * (8 * BlockSize) + m * (8 * BlockSize) = (q + m) * (8 * BlockSize)
    BY <1>3, <1>14
  <2>3. (q + m) * (8 * BlockSize) < Half * Half
    <3> DEFINE w == (q + m) * BlockSize
               h == Half * Half
    <3>1. (q + m) * (8 * BlockSize) = 8 * w /\ w \in Nat /\ h \in Nat
      BY <1>3, <1>14
    <3>2. w + Len(left) = size + n /\ Len(left) \in Nat
      BY <1>12, <1>16
    <3>3. 8 * MaxSize < h
      BY DigestSizes
    <3> HIDE DEF w, h
    <3>4. 8 * w < h
      BY <1>3, <1>5, <3>1, <3>2, <3>3
    <3> QED BY <3>1, <3>4 DEF h
  <2>4. /\ Digest!Counted(m) \in BitCounts
        /\ ValueOf(Digest!Counted(m)) = ValueOf(bits) + m * (8 * BlockSize)
    BY <1>14, <2>1, <2>2, <2>3, BitsCounted
  <2> QED BY <1>5, <2>1, <2>2, <2>4
<1>18. BlocksRight'
  <2>1. Len(blocks') * BlockSize + Len(data') = size'
    BY <1>5, <1>13, <1>14, <1>16
  <2>2. \A j \in 1 .. Len(data') : data'[j] = Digest!Byte(Len(blocks') * BlockSize + j)
    BY <1>12, <1>13, <1>14
  <2> QED BY <1>14, <1>15, <1>17, <2>1, <2>2 DEF BlocksRight, BlockAt
<1>19. DigestTypes'
  <2>1. size' \in 0 .. MaxSize
    BY <1>3, <1>5
  <2> QED BY <1>2, <1>7, <1>12, <1>13, <1>14, <1>17, <2>1 DEF DigestTypes
<1> QED BY <1>7, <1>8, <1>18, <1>19

(* The padding: what stands at the place i of what follows the last whole  *)
(* block, if d bytes are left, f zeros fill up and b is the bit count.     *)
FillOf(d) == IF d + 3 <= BlockSize THEN BlockSize - d - 3 ELSE 2 * BlockSize - d - 3
PadAt(left, d, f, b, i) ==
  IF i <= d THEN left[i]
  ELSE IF i = d + 1 THEN Digest!EndMark
  ELSE IF i <= d + 1 + f THEN Digest!Zero
  ELSE Digest!Count(b)[i - (d + 1 + f)]

LEMMA ZerosAre ==
  ASSUME NEW n \in Nat
  PROVE  /\ Digest!Zeros(n) \in Seq(Marks) /\ Len(Digest!Zeros(n)) = n
         /\ \A j \in 1 .. n : Digest!Zeros(n)[j] = Digest!Zero
BY MarksAre DEF Digest!Zeros

LEMMA CountIs ==
  ASSUME NEW b \in BitCounts
  PROVE  Digest!Count(b) \in Seq(Marks) /\ Len(Digest!Count(b)) = 2
<1> DEFINE x == <<"bits", b[1]>>
           y == <<"bits", b[2]>>
<1>1. b[1] \in Nat /\ b[2] \in Nat
  BY DigestSizes DEF BitCounts
<1>2. x \in Marks /\ y \in Marks
  BY <1>1, Zenon DEF Marks
<1>3. Digest!Count(b) = <<x, y>>
  BY DEF Digest!Count
<1> HIDE DEF x, y
<1> QED BY <1>2, <1>3

(* The three parts of a last block. *)
LEMMA LastBlock ==
  ASSUME NEW a \in Seq(Marks), NEW n \in Nat, NEW b \in BitCounts
  PROVE  LET x == a \o Digest!Zeros(n) \o Digest!Count(b)
         IN  /\ x \in Seq(Marks) /\ Len(x) = Len(a) + n + 2
             /\ \A j \in 1 .. Len(a) + n + 2 :
                  x[j] = IF j <= Len(a) THEN a[j]
                         ELSE IF j <= Len(a) + n THEN Digest!Zero ELSE Digest!Count(b)[j - (Len(a) + n)]
<1> DEFINE z == Digest!Zeros(n)
           c == Digest!Count(b)
           y == a \o z
           x == y \o c
           l == Len(a)
<1>1. z \in Seq(Marks) /\ Len(z) = n /\ \A j \in 1 .. n : z[j] = Digest!Zero
  BY ZerosAre
<1>2. c \in Seq(Marks) /\ Len(c) = 2
  BY CountIs
<1>3. l \in Nat
  OBVIOUS
<1> HIDE DEF z, c
<1>4. /\ y \in Seq(Marks) /\ Len(y) = l + n /\ \A j \in 1 .. l : y[j] = a[j]
      /\ \A j \in 1 .. n : y[l + j] = z[j]
  <2>1. z \in Seq(Marks)
    BY <1>1
  <2>2. /\ y \in Seq(Marks) /\ Len(y) = l + Len(z) /\ \A i \in 1 .. Len(a) : y[i] = a[i]
        /\ \A i \in 1 .. Len(z) : y[Len(a) + i] = z[i]
    BY <2>1, Joined
  <2> QED BY <1>1, <2>2
<1> HIDE DEF y
<1>5. /\ x \in Seq(Marks) /\ Len(x) = l + n + 2 /\ \A j \in 1 .. l + n : x[j] = y[j]
      /\ \A j \in 1 .. 2 : x[(l + n) + j] = c[j]
  <2>1. y \in Seq(Marks) /\ c \in Seq(Marks)
    BY <1>2, <1>4
  <2>2. /\ x \in Seq(Marks) /\ Len(x) = Len(y) + Len(c) /\ \A i \in 1 .. Len(y) : x[i] = y[i]
        /\ \A i \in 1 .. Len(c) : x[Len(y) + i] = c[i]
    BY <2>1, Joined
  <2> QED BY <1>2, <1>4, <2>2
<1> HIDE DEF x
<1>6. ASSUME NEW j \in 1 .. l + n + 2
      PROVE  x[j] = IF j <= l THEN a[j] ELSE IF j <= l + n THEN Digest!Zero ELSE c[j - (l + n)]
  <2> HIDE DEF l
  <2>1. CASE j <= l
    <3>1. j \in 1 .. l /\ j \in 1 .. l + n
      BY <1>3, <2>1
    <3> QED BY <1>4, <1>5, <2>1, <3>1
  <2>2. CASE ~ (j <= l) /\ j <= l + n
    <3>1. j - l \in 1 .. n /\ l + (j - l) = j /\ j \in 1 .. l + n
      BY <1>3, <2>2
    <3>2. x[j] = z[j - l]
      BY <1>4, <1>5, <3>1
    <3> QED BY <1>1, <2>2, <3>1, <3>2
  <2>3. CASE ~ (j <= l) /\ ~ (j <= l + n)
    <3>1. j - (l + n) \in 1 .. 2 /\ (l + n) + (j - (l + n)) = j
      BY <1>3, <2>3
    <3> QED BY <1>5, <2>3, <3>1
  <2> QED BY <2>1, <2>2, <2>3
<1> QED BY <1>5, <1>6 DEF x, y, z, c, l

(* sha256_final fills one block or two, and what it feeds is the padding.  *)
LEMMA PaddedIs ==
  ASSUME NEW left \in Seq(Marks), Len(left) < BlockSize, NEW b \in BitCounts
  PROVE  LET d == Len(left)
             f == FillOf(d)
             p == Digest!Padded(Append(left, Digest!EndMark), b)
         IN  /\ f \in 0 .. BlockSize - 1 /\ p \in Seq(Seq(Marks)) /\ d + f + 3 = Len(p) * BlockSize
             /\ \A c \in 1 .. Len(p) :
                  /\ Len(p[c]) = BlockSize
                  /\ \A j \in 1 .. BlockSize : p[c][j] = PadAt(left, d, f, b, (c - 1) * BlockSize + j)
<1> DEFINE d == Len(left)
           f == FillOf(d)
           bytes == Append(left, Digest!EndMark)
           p == Digest!Padded(bytes, b)
           B == BlockSize
<1>1. d \in Nat /\ d < B /\ B \in Nat /\ B > 2
  BY DigestSizes
<1>2. /\ bytes \in Seq(Marks) /\ Len(bytes) = d + 1 /\ bytes[d + 1] = Digest!EndMark
      /\ \A i \in 1 .. d : bytes[i] = left[i]
  BY MarksAre, Appended
<1> HIDE DEF bytes
<1>3. f \in 0 .. B - 1
  BY <1>1 DEF FillOf
<1>4. CASE d + 3 <= B
  <2> DEFINE n == B - 2 - (d + 1)
             x == bytes \o Digest!Zeros(n) \o Digest!Count(b)
  <2>1. n \in Nat /\ f = B - d - 3 /\ ~ (d + 1 > B - 2) /\ n = f
    BY <1>1, <1>4 DEF FillOf
  <2>2. p = <<x>>
    <3>1. p = <<bytes \o Digest!Zeros(Digest!Room - Len(bytes)) \o Digest!Count(b)>>
      BY <1>2, <2>1 DEF Digest!Padded, Digest!Room
    <3> QED BY <1>2, <3>1 DEF Digest!Room
  <2> HIDE DEF n
  <2>3. /\ x \in Seq(Marks) /\ Len(x) = (d + 1) + n + 2
        /\ \A j \in 1 .. (d + 1) + n + 2 :
             x[j] = IF j <= d + 1 THEN bytes[j]
                    ELSE IF j <= (d + 1) + n THEN Digest!Zero ELSE Digest!Count(b)[j - ((d + 1) + n)]
    <3> DEFINE l == Len(bytes)
    <3>1. /\ x \in Seq(Marks) /\ Len(x) = l + n + 2
          /\ \A j \in 1 .. l + n + 2 :
               x[j] = IF j <= l THEN bytes[j]
                      ELSE IF j <= l + n THEN Digest!Zero ELSE Digest!Count(b)[j - (l + n)]
      BY <1>2, <2>1, LastBlock
    <3>2. l = d + 1
      BY <1>2
    <3> HIDE DEF l, x
    <3> QED BY <3>1, <3>2
  <2> HIDE DEF x
  <2>4. Len(x) = B
    BY <1>1, <1>4, <2>1, <2>3
  <2>5. ASSUME NEW j \in 1 .. B PROVE x[j] = PadAt(left, d, f, b, (1 - 1) * B + j)
    <3>1. (1 - 1) * B + j = j /\ j \in 1 .. (d + 1) + n + 2 /\ (d + 1) + n = d + 1 + f
      BY <1>1, <1>4, <2>1, <2>3, <2>4
    <3>2. CASE j <= d
      <4>1. j \in 1 .. d /\ j <= d + 1
        BY <1>1, <3>2
      <4> QED BY <1>2, <2>3, <3>1, <3>2, <4>1 DEF PadAt
    <3>3. CASE j = d + 1
      <4>1. ~ (j <= d) /\ j <= d + 1
        BY <1>1, <3>3
      <4> QED BY <1>2, <2>3, <3>1, <3>3, <4>1 DEF PadAt
    <3>4. CASE j > d + 1
      <4>1. ~ (j <= d) /\ ~ (j <= d + 1) /\ j # d + 1
        BY <1>1, <3>4
      <4> QED BY <2>3, <3>1, <4>1 DEF PadAt
    <3>5. j <= d \/ j = d + 1 \/ j > d + 1
      BY <1>1
    <3> QED BY <3>2, <3>3, <3>4, <3>5
  <2>6. p \in Seq(Seq(Marks)) /\ Len(p) = 1 /\ p[1] = x
    BY <2>2, <2>3
  <2>7. d + f + 3 = 1 * B
    BY <1>1, <2>1
  <2> HIDE DEF p, f, d
  <2>8. d + f + 3 = Len(p) * B
    BY <2>6, <2>7
  <2>9. ASSUME NEW c \in 1 .. Len(p)
        PROVE  /\ Len(p[c]) = B
               /\ \A j \in 1 .. B : p[c][j] = PadAt(left, d, f, b, (c - 1) * B + j)
    <3>1. c = 1
      BY <2>6
    <3> QED BY <2>4, <2>5, <2>6, <3>1
  <2> QED BY <1>3, <2>6, <2>8, <2>9, Zenon DEF p, f, d, bytes
<1>5. CASE ~ (d + 3 <= B)
  <2> DEFINE n == B - (d + 1)
             x == bytes \o Digest!Zeros(n)
             y == Digest!Zeros(B - 2) \o Digest!Count(b)
  <2>1. n \in Nat /\ f = 2 * B - d - 3 /\ d + 1 > B - 2 /\ B - 2 \in Nat
    BY <1>1, <1>5 DEF FillOf
  <2>2. p = <<x, y>>
    <3>1. p = <<bytes \o Digest!Zeros(BlockSize - Len(bytes)), Digest!Zeros(Digest!Room) \o Digest!Count(b)>>
      BY <1>2, <2>1 DEF Digest!Padded, Digest!Room
    <3> QED BY <1>2, <3>1 DEF Digest!Room
  <2> HIDE DEF n
  <2>3. /\ x \in Seq(Marks) /\ Len(x) = (d + 1) + n
        /\ \A j \in 1 .. d + 1 : x[j] = bytes[j]
        /\ \A j \in 1 .. n : x[(d + 1) + j] = Digest!Zero
    <3> DEFINE z == Digest!Zeros(n)
    <3>1. z \in Seq(Marks) /\ Len(z) = n /\ \A j \in 1 .. n : z[j] = Digest!Zero
      BY <2>1, ZerosAre
    <3> HIDE DEF z
    <3>2. /\ bytes \o z \in Seq(Marks) /\ Len(bytes \o z) = Len(bytes) + Len(z)
          /\ \A i \in 1 .. Len(bytes) : (bytes \o z)[i] = bytes[i]
          /\ \A i \in 1 .. Len(z) : (bytes \o z)[Len(bytes) + i] = z[i]
      <4>1. bytes \in Seq(Marks) /\ z \in Seq(Marks)
        BY <1>2, <3>1
      <4> QED BY <4>1, Joined
    <3>3. x = bytes \o z
      BY DEF z
    <3> HIDE DEF x
    <3> QED BY <1>2, <3>1, <3>2, <3>3
  <2>4. /\ y \in Seq(Marks) /\ Len(y) = B
        /\ \A j \in 1 .. B - 2 : y[j] = Digest!Zero
        /\ \A j \in 1 .. 2 : y[(B - 2) + j] = Digest!Count(b)[j]
    <3> DEFINE z == Digest!Zeros(B - 2)
               k == Digest!Count(b)
    <3>1. /\ z \in Seq(Marks) /\ Len(z) = B - 2 /\ \A j \in 1 .. B - 2 : z[j] = Digest!Zero
          /\ k \in Seq(Marks) /\ Len(k) = 2
      BY <2>1, ZerosAre, CountIs
    <3>3. y = z \o k
      BY DEF z, k
    <3> HIDE DEF z, k, y
    <3>2. /\ z \o k \in Seq(Marks) /\ Len(z \o k) = Len(z) + Len(k)
          /\ \A i \in 1 .. Len(z) : (z \o k)[i] = z[i]
          /\ \A i \in 1 .. Len(k) : (z \o k)[Len(z) + i] = k[i]
      <4>1. z \in Seq(Marks) /\ k \in Seq(Marks)
        BY <3>1
      <4> QED BY <4>1, Joined
    <3> QED BY <1>1, <3>1, <3>2, <3>3 DEF k
  <2> HIDE DEF x, y
  <2>5. Len(x) = B
    BY <1>1, <2>3 DEF n
  <2>6. ASSUME NEW j \in 1 .. B PROVE x[j] = PadAt(left, d, f, b, (1 - 1) * B + j)
    <3>1. (1 - 1) * B + j = j /\ n = B - (d + 1)
      BY <1>1 DEF n
    <3>2. CASE j <= d
      <4>1. j \in 1 .. d /\ j \in 1 .. d + 1
        BY <1>1, <3>2
      <4> QED BY <1>2, <2>3, <3>1, <3>2, <4>1 DEF PadAt
    <3>3. CASE j = d + 1
      <4>1. ~ (j <= d) /\ j \in 1 .. d + 1
        BY <1>1, <3>3
      <4> QED BY <1>2, <2>3, <3>1, <3>3, <4>1 DEF PadAt
    <3>4. CASE j > d + 1
      <4>1. /\ ~ (j <= d) /\ j # d + 1 /\ j <= d + 1 + f
            /\ j - (d + 1) \in 1 .. n /\ (d + 1) + (j - (d + 1)) = j
        BY <1>1, <2>1, <3>1, <3>4
      <4> QED BY <2>3, <3>1, <4>1 DEF PadAt
    <3>5. j <= d \/ j = d + 1 \/ j > d + 1
      BY <1>1
    <3> QED BY <3>2, <3>3, <3>4, <3>5
  <2>7. ASSUME NEW j \in 1 .. B PROVE y[j] = PadAt(left, d, f, b, (2 - 1) * B + j)
    <3>1. (2 - 1) * B + j = B + j /\ ~ (B + j <= d) /\ B + j # d + 1 /\ d + 1 + f = 2 * B - 2
      BY <1>1, <2>1
    <3>2. CASE j <= B - 2
      <4>1. B + j <= d + 1 + f /\ j \in 1 .. B - 2
        BY <1>1, <3>1, <3>2
      <4> QED BY <2>4, <3>1, <4>1 DEF PadAt
    <3>3. CASE j > B - 2
      <4>1. /\ ~ (B + j <= d + 1 + f) /\ j - (B - 2) \in 1 .. 2 /\ (B - 2) + (j - (B - 2)) = j
            /\ (B + j) - (d + 1 + f) = j - (B - 2)
        BY <1>1, <3>1, <3>3
      <4> QED BY <2>4, <3>1, <4>1 DEF PadAt
    <3>4. j <= B - 2 \/ j > B - 2
      BY <1>1
    <3> QED BY <3>2, <3>3, <3>4
  <2>8. p \in Seq(Seq(Marks)) /\ Len(p) = 2 /\ p[1] = x /\ p[2] = y
    BY <2>2, <2>3, <2>4
  <2>9. d + f + 3 = 2 * B
    BY <1>1, <2>1
  <2>10. Len(y) = B
    BY <2>4
  <2> HIDE DEF p, f, d
  <2>11. d + f + 3 = Len(p) * B
    BY <2>8, <2>9
  <2>12. ASSUME NEW c \in 1 .. Len(p)
         PROVE  /\ Len(p[c]) = B
                /\ \A j \in 1 .. B : p[c][j] = PadAt(left, d, f, b, (c - 1) * B + j)
    <3>1. c = 1 \/ c = 2
      BY <2>8
    <3>2. CASE c = 1
      BY <2>5, <2>6, <2>8, <3>2
    <3>3. CASE c = 2
      BY <2>7, <2>8, <2>10, <3>3
    <3> QED BY <3>1, <3>2, <3>3
  <2> QED BY <1>3, <2>8, <2>11, <2>12, Zenon DEF p, f, d, bytes
<1> QED BY <1>4, <1>5

(* What stands at the place i of a padded file of n bytes. *)
MarkAt(n, f, b, i) ==
  IF i <= n THEN Digest!Byte(i)
  ELSE IF i = n + 1 THEN Digest!EndMark
  ELSE IF i <= n + 1 + f THEN Digest!Zero
  ELSE Digest!Count(b)[i - (n + 1 + f)]

(* The blocks of a digest that is done: those of the padded file.          *)
BlocksDone ==
  \E f \in 0 .. BlockSize - 1, b \in BitCounts :
    /\ Len(blocks) * BlockSize = size + f + 3
    /\ ValueOf(b) = 8 * size
    /\ \A c \in 1 .. Len(blocks) :
         /\ blocks[c] \in Seq(Marks) /\ Len(blocks[c]) = BlockSize
         /\ \A j \in 1 .. BlockSize : blocks[c][j] = MarkAt(size, f, b, (c - 1) * BlockSize + j)

LEMMA FinishBlocks ==
  ASSUME DigestTypes, BlocksRight, size' = size, bits' = Digest!AddBits(bits, 8 * Len(data)),
         blocks' = blocks \o Digest!Padded(Append(data, Digest!EndMark), bits')
  PROVE  bits' \in BitCounts /\ blocks' \in Seq(Seq(Marks)) /\ BlocksDone'
<1> DEFINE n == Len(blocks)
           d == Len(data)
           b == bits'
           f == FillOf(d)
           B == BlockSize
           p == Digest!Padded(Append(data, Digest!EndMark), b)
<1>1. /\ n \in Nat /\ d \in Nat /\ B \in Nat \ {0} /\ d < B /\ data \in Seq(Marks) /\ bits \in BitCounts
      /\ blocks \in Seq(Seq(Marks)) /\ size \in Nat /\ size <= MaxSize /\ MaxSize \in Nat /\ Half \in Nat
  BY DigestSizes DEF DigestTypes
<1>2. /\ n * B + d = size /\ ValueOf(bits) = n * (8 * B) /\ n * B \in Nat
      /\ \A c \in 1 .. n : blocks[c] = BlockAt(c)
      /\ \A j \in 1 .. d : data[j] = Digest!Byte(n * B + j)
  BY <1>1 DEF BlocksRight
<1>3. b \in BitCounts /\ ValueOf(b) = 8 * size
  <2> DEFINE w == n * B
             h == Half * Half
             x == ValueOf(bits)
  <2>1. w \in Nat /\ h \in Nat /\ n * (8 * B) = 8 * w
    BY <1>1
  <2>2. x = 8 * w /\ w + d = size
    BY <1>2, <2>1
  <2>3. 8 * MaxSize < h /\ 8 * B < Half
    BY DigestSizes
  <2>4. 8 * d \in 0 .. Half - 1
    BY <1>1, <2>3
  <2>7. d \in Nat /\ size \in Nat /\ size <= MaxSize /\ MaxSize \in Nat
    BY <1>1
  <2> HIDE DEF w, h, x, d, b
  <2>5. x + 8 * d = 8 * size /\ x + 8 * d < h
    <3>1. 8 * MaxSize < h
      BY <2>3 DEF h
    <3> QED BY <2>1, <2>2, <2>7, <3>1
  <2>6. /\ Digest!AddBits(bits, 8 * d) \in BitCounts
        /\ ValueOf(Digest!AddBits(bits, 8 * d)) = ValueOf(bits) + 8 * d
    <3>1. ValueOf(bits) + 8 * d < Half * Half
      BY <2>5 DEF x, h, d
    <3>2. bits \in BitCounts
      BY <1>1
    <3> QED BY <2>4, <3>1, <3>2, BitsAdd
  <2> QED BY <2>5, <2>6 DEF x, d, b
<1>4. /\ f \in 0 .. B - 1 /\ p \in Seq(Seq(Marks)) /\ d + f + 3 = Len(p) * B
      /\ \A c \in 1 .. Len(p) :
           /\ Len(p[c]) = B
           /\ \A j \in 1 .. B : p[c][j] = PadAt(data, d, f, b, (c - 1) * B + j)
  <2> HIDE DEF b
  <2> QED BY <1>1, <1>3, PaddedIs
<1>5. blocks' = blocks \o p
  OBVIOUS
<1> HIDE DEF p, f, b
<1> DEFINE m == Len(p)
<1>6. /\ blocks' \in Seq(Seq(Marks)) /\ Len(blocks') = n + m /\ m \in Nat
      /\ \A c \in 1 .. n : blocks'[c] = blocks[c]
      /\ \A c \in 1 .. m : blocks'[n + c] = p[c]
  <2>1. blocks \in Seq(Seq(Marks)) /\ p \in Seq(Seq(Marks))
    BY <1>1, <1>4
  <2>2. /\ blocks \o p \in Seq(Seq(Marks)) /\ Len(blocks \o p) = Len(blocks) + Len(p)
        /\ \A i \in 1 .. Len(blocks) : (blocks \o p)[i] = blocks[i]
        /\ \A i \in 1 .. Len(p) : (blocks \o p)[Len(blocks) + i] = p[i]
    <3> DEFINE S == Seq(Marks)
    <3>1. blocks \in Seq(S) /\ p \in Seq(S)
      BY <2>1
    <3> HIDE DEF S
    <3>2. /\ blocks \o p \in Seq(S) /\ Len(blocks \o p) = Len(blocks) + Len(p)
          /\ \A i \in 1 .. Len(blocks) : (blocks \o p)[i] = blocks[i]
          /\ \A i \in 1 .. Len(p) : (blocks \o p)[Len(blocks) + i] = p[i]
      BY <3>1, Joined
    <3> QED BY <3>2 DEF S
  <2>3. m \in Nat
    BY <2>1
  <2> DEFINE y == blocks \o p
  <2>4. y = blocks'
    BY <1>5
  <2>5. y \in Seq(Seq(Marks)) /\ Len(y) = n + m
    BY <2>2
  <2>6. \A c \in 1 .. n : y[c] = blocks[c]
    BY <2>2
  <2>7. \A c \in 1 .. m : y[n + c] = p[c]
    BY <2>2
  <2> HIDE DEF y, n, m
  <2> QED BY <2>3, <2>4, <2>5, <2>6, <2>7
<1>7. (n + m) * B = size + f + 3
  <2>1. (n + m) * B = n * B + m * B /\ m * B \in Nat
    BY <1>1, <1>6
  <2> DEFINE u == n * B
             v == m * B
             w == (n + m) * B
  <2>2. w = u + v /\ u + d = size /\ d + f + 3 = v /\ u \in Nat /\ v \in Nat
    BY <1>2, <1>4, <2>1
  <2>4. d \in Nat /\ f \in Nat /\ size \in Nat
    BY <1>1, <1>4
  <2> HIDE DEF u, v, w, d
  <2>3. w = size + f + 3
    BY <2>2, <2>4
  <2> QED BY <2>3 DEF w
<1>8. ASSUME NEW c \in 1 .. n + m
      PROVE  /\ blocks'[c] \in Seq(Marks) /\ Len(blocks'[c]) = B
             /\ \A j \in 1 .. B : blocks'[c][j] = MarkAt(size, f, b, (c - 1) * B + j)
  <2>1. CASE c <= n
    <3> DEFINE l == (c - 1) * B
    <3>1. c \in 1 .. n /\ blocks'[c] = BlockAt(c)
      BY <1>1, <1>2, <1>6, <2>1
    <3>2. l \in Nat /\ l + B <= n * B
      <4>2. n \in Nat /\ B \in Nat /\ c \in 1 .. n
        BY <1>1, <3>1
      <4> HIDE DEF n, B
      <4>1. (c - 1) * B \in Nat /\ (c - 1) * B + B = c * B /\ c * B <= n * B
        BY <4>2
      <4> QED BY <4>1
    <3>3. BlockAt(c) = [j \in 1 .. B |-> Digest!Byte(l + j)]
      BY DEF BlockAt
    <3> HIDE DEF l
    <3>4. \A j \in 1 .. B : l + j <= size /\ l + j \in Nat
      <4> DEFINE u == n * B
      <4>1. u \in Nat /\ l + B <= u /\ u + d = size
        BY <1>2, <3>2
      <4> HIDE DEF u
      <4> QED BY <1>1, <3>2, <4>1
    <3>5. \A j \in 1 .. B : Digest!Byte(l + j) \in Marks
      BY <3>4, MarksAre
    <3>6. BlockAt(c) \in Seq(Marks) /\ Len(BlockAt(c)) = B /\ \A j \in 1 .. B : BlockAt(c)[j] = Digest!Byte(l + j)
      BY <1>1, <3>3, <3>5
    <3>7. \A j \in 1 .. B : BlockAt(c)[j] = MarkAt(size, f, b, l + j)
      BY <3>4, <3>6 DEF MarkAt
    <3> QED BY <3>1, <3>6, <3>7 DEF l
  <2>2. CASE c > n
    <3> DEFINE k == c - n
               i(j) == (k - 1) * B + j
    <3>1. k \in 1 .. m /\ n + k = c
      BY <1>1, <1>6, <2>2
    <3>2. blocks'[c] = p[k] /\ p[k] \in Seq(Marks) /\ Len(p[k]) = B
          /\ \A j \in 1 .. B : p[k][j] = PadAt(data, d, f, b, (k - 1) * B + j)
      BY <1>4, <1>6, <3>1
    <3>3. ASSUME NEW j \in 1 .. B
          PROVE  PadAt(data, d, f, b, (k - 1) * B + j) = MarkAt(size, f, b, (c - 1) * B + j)
      <4> DEFINE u == n * B
                 v == (k - 1) * B
                 x == v + j
                 y == (c - 1) * B + j
      <4>1. v \in Nat /\ (c - 1) * B = u + v
        <5> HIDE DEF k
        <5>1. c - 1 = n + (k - 1) /\ k - 1 \in Nat
          BY <1>1, <3>1
        <5>2. (n + (k - 1)) * B = n * B + (k - 1) * B /\ (k - 1) * B \in Nat
          BY <1>1, <5>1
        <5> QED BY <5>1, <5>2
      <4>2. u \in Nat /\ size = u + d /\ x \in Nat /\ x >= 1 /\ y = u + x
        BY <1>1, <1>2, <4>1
      <4>3. \A e \in 1 .. d : data[e] = Digest!Byte(u + e)
        BY <1>2
      <4>7. d \in Nat /\ f \in Nat
        BY <1>1, <1>4
      <4> HIDE DEF u, v, x, y, d
      <4>4. /\ x <= d <=> y <= size
            /\ x = d + 1 <=> y = size + 1
            /\ x <= d + 1 + f <=> y <= size + 1 + f
            /\ x - (d + 1 + f) = y - (size + 1 + f)
        BY <4>2, <4>7
      <4>5. x <= d => data[x] = Digest!Byte(y)
        BY <4>2, <4>3, <4>7
      <4>6. PadAt(data, d, f, b, x) = MarkAt(size, f, b, y)
        <5> QED BY <4>4, <4>5 DEF PadAt, MarkAt
      <4> QED BY <4>6 DEF x, y, v, d
    <3> QED BY <3>2, <3>3
  <2>3. c <= n \/ c > n
    BY <1>1
  <2> QED BY <2>1, <2>2, <2>3
<1>9. BlocksDone'
  BY <1>3, <1>4, <1>6, <1>7, <1>8, SMTT(30) DEF BlocksDone
<1>10. bits' \in BitCounts
  BY <1>3 DEF b
<1> QED BY <1>6, <1>9, <1>10

TypeRight == type = IF size < 4 THEN "unknown-raw" ELSE contents

(* FileInfo keeps: what the head, the register and the blocks hold is the  *)
(* file so far, in order; a run that went well padded and counted it.      *)
DigestInv ==
  /\ DigestTypes /\ Len(head) <= HeadSize
  /\ pc \in {"start", "read"} => HeadRight /\ Registered(register, size) /\ BlocksRight
  /\ pc = "exit" /\ rc = 0 => HeadRight /\ Registered(register, size) /\ BlocksDone /\ TypeRight

LEMMA HeadFits ==
  ASSUME HeadRight, size \in Nat
  PROVE  Len(head) <= HeadSize /\ (Len(head) >= 4 <=> ~ (size < 4))
BY DigestSizes DEF HeadRight

LEMMA StepFinish ==
  ASSUME DigestInv, Digest!Finish
  PROVE  DigestInv'
<1>1. /\ pc = "read" /\ pc' = "exit" /\ UNCHANGED <<size, head, register, data, contents>>
  BY DEF Digest!Finish
<1>2. DigestTypes /\ HeadRight /\ Registered(register, size) /\ BlocksRight /\ Len(head) <= HeadSize
  BY <1>1 DEF DigestInv
<1>3. Len(head') <= HeadSize
  BY <1>1, <1>2
<1>4. CASE rc' = 20 /\ UNCHANGED <<bits, blocks, type>>
  <2>1. DigestTypes'
    BY <1>1, <1>2, <1>4 DEF DigestTypes
  <2>2. rc' # 0 /\ pc' \notin {"start", "read"}
    BY <1>1, <1>4
  <2> QED BY <1>3, <2>1, <2>2 DEF DigestInv
<1>5. CASE /\ rc' = 0
           /\ bits' = Digest!AddBits(bits, 8 * Len(data))
           /\ blocks' = blocks \o Digest!Padded(Append(data, Digest!EndMark), bits')
           /\ type' = Digest!Classified
  <2>1. bits' \in BitCounts /\ blocks' \in Seq(Seq(Marks)) /\ BlocksDone'
    BY <1>1, <1>2, <1>5, FinishBlocks
  <2>2. DigestTypes'
    BY <1>1, <1>2, <1>5, <2>1 DEF DigestTypes
  <2>3. HeadRight'
    BY <1>1, <1>2 DEF HeadRight
  <2>4. Registered(register', size')
    BY <1>1, <1>2
  <2>5. TypeRight'
    <3>1. Len(head) >= 4 <=> ~ (size < 4)
      BY <1>2, HeadFits DEF DigestTypes
    <3>2. type' = IF Len(head) >= 4 THEN contents ELSE "unknown-raw"
      BY <1>5 DEF Digest!Classified
    <3> QED BY <1>1, <3>1, <3>2 DEF TypeRight
  <2>6. pc' \notin {"start", "read"}
    BY <1>1
  <2> QED BY <1>3, <2>1, <2>2, <2>3, <2>4, <2>5, <2>6 DEF DigestInv
<1> QED BY <1>4, <1>5 DEF Digest!Finish

LEMMA StepOpen ==
  ASSUME DigestInv, Digest!Open
  PROVE  DigestInv'
<1>1. pc = "start" /\ UNCHANGED <<size, head, register, data, bits, blocks, contents, type>>
  BY DEF Digest!Open
<1>2. \/ pc' = "exit" /\ rc' \in {10, 20}
      \/ pc' = "read" /\ rc' = rc
  BY DEF Digest!Open
<1>3. DigestTypes /\ HeadRight /\ Registered(register, size) /\ BlocksRight /\ Len(head) <= HeadSize
  BY <1>1 DEF DigestInv
<1>4. DigestTypes' /\ Len(head') <= HeadSize
  BY <1>1, <1>2, <1>3 DEF DigestTypes
<1>5. HeadRight' /\ Registered(register', size')
  BY <1>1, <1>3 DEF HeadRight
<1>6. BlocksRight'
  <2>1. UNCHANGED <<size, data, bits, blocks>>
    BY <1>1
  <2> QED BY <1>3, <2>1 DEF BlocksRight, BlockAt
<1>7. ~ (pc' = "exit" /\ rc' = 0)
  BY <1>2
<1> QED BY <1>4, <1>5, <1>6, <1>7 DEF DigestInv

LEMMA DigestStays ==
  ASSUME DigestInv, UNCHANGED <<pc, rc, DigestVars>>
  PROVE  DigestInv'
<1>1. UNCHANGED <<pc, rc, size, head, register, data, bits, blocks, contents, type>>
  BY DEF DigestVars
<1>2. DigestTypes' /\ Len(head') <= HeadSize
  BY <1>1 DEF DigestInv, DigestTypes
<1>3. HeadRight => HeadRight'
  BY <1>1 DEF HeadRight
<1>4. Registered(register, size) => Registered(register', size')
  BY <1>1
<1>5. BlocksRight => BlocksRight'
  BY <1>1 DEF BlocksRight, BlockAt
<1>6. BlocksDone => BlocksDone'
  BY <1>1 DEF BlocksDone
<1>7. TypeRight => TypeRight'
  BY <1>1 DEF TypeRight
<1> QED BY <1>1, <1>2, <1>3, <1>4, <1>5, <1>6, <1>7 DEF DigestInv

LEMMA StepDigest ==
  ASSUME DigestInv, Digest!FileNext \/ UNCHANGED <<pc, rc, DigestVars>>
  PROVE  DigestInv'
<1>1. CASE Digest!Open
  BY <1>1, StepOpen
<1>2. CASE Digest!ReadChunk
  <2>1. pc = "read" /\ pc' = "read"
    BY <1>2 DEF Digest!ReadChunk
  <2>2. DigestTypes /\ HeadRight /\ Registered(register, size) /\ BlocksRight
    BY <2>1 DEF DigestInv
  <2>3. DigestTypes' /\ HeadRight' /\ Registered(register', size') /\ BlocksRight'
    BY <1>2, <2>2, StepRead
  <2>4. Len(head') <= HeadSize
    <3>1. size' \in Nat
      BY <2>3 DEF DigestTypes
    <3>2. Len(head') = IF size' < HeadSize THEN size' ELSE HeadSize
      BY <2>3 DEF HeadRight
    <3> QED BY <3>1, <3>2, DigestSizes
  <2> QED BY <2>1, <2>3, <2>4 DEF DigestInv
<1>3. CASE Digest!Finish
  BY <1>3, StepFinish
<1> QED BY <1>1, <1>2, <1>3, DigestStays DEF Digest!FileNext

LEMMA InitDigest ==
  ASSUME Digest!FileInit
  PROVE  DigestInv
<1>1. /\ pc = "start" /\ rc = 0 /\ size = 0 /\ head = << >> /\ register = << >>
      /\ data = << >> /\ bits = <<0, 0>> /\ blocks = << >>
  BY DEF Digest!FileInit
<1>2. bits \in BitCounts /\ bits[1] = 0 /\ bits[2] = 0
  BY <1>1, DigestSizes DEF BitCounts
<1>3. DigestTypes /\ Len(head) <= HeadSize
  BY <1>1, <1>2, DigestSizes DEF DigestTypes
<1>4. HeadRight
  BY <1>1, DigestSizes DEF HeadRight
<1>5. Registered(register, size)
  BY <1>1 DEF Registered
<1>6. BlocksRight
  <2>1. Len(blocks) = 0 /\ Len(data) = 0
    BY <1>1
  <2>2. 0 * BlockSize = 0 /\ 0 * (8 * BlockSize) = 0 /\ 0 * Half + 0 = 0
    BY DigestSizes
  <2>3. ValueOf(bits) = 0
    BY <1>2, <2>2 DEF ValueOf
  <2> QED BY <1>1, <2>1, <2>2, <2>3 DEF BlocksRight
<1> QED BY <1>1, <1>3, <1>4, <1>5, <1>6 DEF DigestInv

LEMMA QuotientIs ==
  ASSUME NEW k \in Nat \ {0}, NEW x \in Nat
  PROVE  x \div k \in Nat /\ x = (x \div k) * k + (x % k)
<1> DEFINE q == x \div k
           u == q * k
<1>1. q \in Nat /\ u \in Nat /\ u <= x /\ x < u + k
  BY Z3
<1> HIDE DEF q
<1>2. x - u \in 0 .. k - 1 /\ (x - u) + u = x
  <2> HIDE DEF u
  <2> QED BY <1>1
<1>3. ((x - u) + q * k) % k = x - u
  BY <1>1, <1>2, Remainder
<1>4. x % k = x - u /\ u + (x - u) = x
  <2>1. (x - u) + q * k = x
    BY <1>2
  <2>2. u + (x - u) = x
    <3> HIDE DEF u
    <3> QED BY <1>1
  <2>3. x % k = x - u
    BY <1>3, <2>1
  <2> QED BY <2>2, <2>3
<1> QED BY <1>1, <1>4 DEF q

(* Only one filling makes whole blocks.                                    *)
LEMMA OneFilling ==
  ASSUME NEW k \in Nat \ {0}, NEW s \in Nat, NEW f \in 0 .. k - 1, NEW g \in 0 .. k - 1,
         (s + f) % k = 0, (s + g) % k = 0
  PROVE  f = g
<1>1. PICK p \in Nat : s + f = p * k
  <2>1. s + f \in Nat
    OBVIOUS
  <2> DEFINE x == s + f
             y == x \div k
  <2>2. y \in Nat /\ x = y * k + (x % k)
    BY <2>1, QuotientIs
  <2>3. x % k = 0 /\ y * k \in Nat
    BY <2>2
  <2>5. x \in Nat
    OBVIOUS
  <2> HIDE DEF x, y
  <2>4. x = y * k
    BY <2>2, <2>3, <2>5
  <2> USE DEF x
  <2> QED BY <2>2, <2>4
<1>2. PICK q \in Nat : s + g = q * k
  <2>1. s + g \in Nat
    OBVIOUS
  <2> DEFINE x == s + g
             y == x \div k
  <2>2. y \in Nat /\ x = y * k + (x % k)
    BY <2>1, QuotientIs
  <2>3. x % k = 0 /\ y * k \in Nat
    BY <2>2
  <2>5. x \in Nat
    OBVIOUS
  <2> HIDE DEF x, y
  <2>4. x = y * k
    BY <2>2, <2>3, <2>5
  <2> USE DEF x
  <2> QED BY <2>2, <2>4
<1>3. p = q
  <2> DEFINE u == p * k
             v == q * k
  <2>1. u < v + k /\ v < u + k
    BY <1>1, <1>2
  <2>2. p < q => (p + 1) * k <= q * k
    BY <1>1, <1>2
  <2>3. q < p => (q + 1) * k <= p * k
    BY <1>1, <1>2
  <2>4. (p + 1) * k = u + k /\ (q + 1) * k = v + k /\ u \in Nat /\ v \in Nat
    BY <1>1, <1>2
  <2> HIDE DEF u, v
  <2>5. ~ (p < q) /\ ~ (q < p)
    BY <2>1, <2>2, <2>3, <2>4 DEF u, v
  <2> QED BY <2>5
<1>4. s + f = s + g
  BY <1>1, <1>2, <1>3
<1> QED BY <1>4

LEMMA TwoWords ==
  ASSUME NEW b \in BitCounts, NEW n \in Nat, ValueOf(b) = n
  PROVE  b = <<n \div Half, n % Half>>
<1> DEFINE hi == b[1]
           lo == b[2]
<1>1. Half \in Nat \ {0} /\ hi \in 0 .. Half - 1 /\ lo \in 0 .. Half - 1 /\ b = <<hi, lo>>
  BY DigestSizes DEF BitCounts
<1>2. hi * Half + lo = n
  BY DEF ValueOf
<1> HIDE DEF hi, lo
<1>3. lo + hi * Half = n
  BY <1>1, <1>2
<1>4. n % Half = lo
  <2>1. hi \in Nat
    BY <1>1
  <2>2. (lo + hi * Half) % Half = lo
    BY <1>1, <2>1, Remainder
  <2> QED BY <1>3, <2>2
<1>5. n \div Half = hi
  <2> DEFINE q == n \div Half
  <2>1. n = q * Half + (n % Half) /\ q \in Nat
    BY <1>1, QuotientIs
  <2> HIDE DEF q
  <2>2. hi * Half = q * Half
    <3> DEFINE u == hi * Half
               v == q * Half
    <3>1. u \in Nat /\ v \in Nat /\ lo + u = n /\ n = v + lo /\ lo \in Nat
      BY <1>1, <1>3, <1>4, <2>1
    <3> HIDE DEF u, v
    <3>2. u = v
      BY <3>1
    <3> QED BY <3>2 DEF u, v
  <2>3. hi = q
    BY <1>1, <2>1, <2>2, Z3
  <2> QED BY <2>3 DEF q
<1> QED BY <1>1, <1>4, <1>5

(* The message and its padding, place by place. *)
LEMMA MessageIs ==
  ASSUME size \in Nat
  PROVE  /\ Digest!Message \in Seq(Marks) /\ Len(Digest!Message) = size
         /\ \A j \in 1 .. size : Digest!Message[j] = Digest!Byte(j)
<1>1. \A j \in 1 .. size : Digest!Byte(j) \in Marks
  BY MarksAre
<1> QED BY <1>1 DEF Digest!Message

LEMMA PaddedMessageIs ==
  ASSUME size \in Nat, NEW f \in 0 .. BlockSize - 1, NEW b \in BitCounts, NEW n \in Nat,
         n * BlockSize = size + f + 3, ValueOf(b) = 8 * size
  PROVE  /\ Digest!PaddedMessage \in Seq(Marks) /\ Len(Digest!PaddedMessage) = n * BlockSize
         /\ \A j \in 1 .. n * BlockSize : Digest!PaddedMessage[j] = MarkAt(size, f, b, j)
<1> DEFINE B == BlockSize
           a == Append(Digest!Message, Digest!EndMark)
           F == Digest!Filling
           x == a \o Digest!Zeros(f) \o Digest!Count(b)
           P == Digest!PaddedMessage
           u == n * B
<1>1. B \in Nat \ {0} /\ u \in Nat /\ u = size + f + 3 /\ f \in Nat
  BY DigestSizes
<1>2. F = f
  <2>1. (size + 1 + f + 2) % B = 0
    <3>1. (0 + n * B) % B = 0
      <4> HIDE DEF u
      <4>1. 0 \in 0 .. B - 1 /\ n \in Nat /\ B \in Nat \ {0}
        BY <1>1
      <4> HIDE DEF B
      <4> QED BY <4>1, Remainder
    <3>2. 0 + n * B = size + 1 + f + 2
      BY <1>1
    <3> QED BY <3>1, <3>2
  <2>2. F \in 0 .. B - 1 /\ (size + 1 + F + 2) % B = 0
    <3>1. F = CHOOSE k \in 0 .. B - 1 : (size + 1 + k + 2) % B = 0
      BY DEF Digest!Filling
    <3> HIDE DEF F
    <3> QED BY <2>1, <3>1
  <2> HIDE DEF F, u
  <2>3. size + 1 + f + 2 = (size + 3) + f /\ size + 1 + F + 2 = (size + 3) + F
    BY <1>1, <2>2
  <2>4. ((size + 3) + f) % B = 0 /\ ((size + 3) + F) % B = 0
    BY <2>1, <2>2, <2>3
  <2>5. size + 3 \in Nat
    OBVIOUS
  <2> QED BY <1>1, <2>2, <2>4, <2>5, OneFilling
<1>3. b = <<(8 * size) \div Half, (8 * size) % Half>>
  <2>1. 8 * size \in Nat
    OBVIOUS
  <2> QED BY <2>1, TwoWords
<1>4. P = x
  BY <1>2, <1>3 DEF Digest!PaddedMessage
<1>5. /\ a \in Seq(Marks) /\ Len(a) = size + 1 /\ a[size + 1] = Digest!EndMark
      /\ \A j \in 1 .. size : a[j] = Digest!Byte(j)
  <2> DEFINE t == Digest!Message
  <2>1. t \in Seq(Marks) /\ Len(t) = size /\ \A j \in 1 .. size : t[j] = Digest!Byte(j)
    BY MessageIs
  <2>2. Digest!EndMark \in Marks
    BY MarksAre
  <2> HIDE DEF t
  <2>3. /\ Append(t, Digest!EndMark) \in Seq(Marks) /\ Len(Append(t, Digest!EndMark)) = Len(t) + 1
        /\ Append(t, Digest!EndMark)[Len(t) + 1] = Digest!EndMark
        /\ \A i \in 1 .. Len(t) : Append(t, Digest!EndMark)[i] = t[i]
    BY <2>1, <2>2, Appended
  <2>4. a = Append(t, Digest!EndMark)
    BY DEF t
  <2> HIDE DEF a
  <2> QED BY <2>1, <2>3, <2>4
<1> HIDE DEF a, P
<1>6. /\ x \in Seq(Marks) /\ Len(x) = (size + 1) + f + 2
      /\ \A j \in 1 .. (size + 1) + f + 2 :
           x[j] = IF j <= size + 1 THEN a[j]
                  ELSE IF j <= (size + 1) + f THEN Digest!Zero ELSE Digest!Count(b)[j - ((size + 1) + f)]
  <2> DEFINE l == Len(a)
  <2>1. /\ x \in Seq(Marks) /\ Len(x) = l + f + 2
        /\ \A j \in 1 .. l + f + 2 :
             x[j] = IF j <= l THEN a[j]
                    ELSE IF j <= l + f THEN Digest!Zero ELSE Digest!Count(b)[j - (l + f)]
    BY <1>1, <1>5, LastBlock
  <2>2. l = size + 1
    BY <1>5
  <2> HIDE DEF l, x
  <2> QED BY <2>1, <2>2
<1> HIDE DEF x
<1>7. (size + 1) + f + 2 = u
  <2> HIDE DEF u
  <2> QED BY <1>1
<1>8. ASSUME NEW j \in 1 .. u PROVE x[j] = MarkAt(size, f, b, j)
  <2> HIDE DEF u
  <2>0. j \in 1 .. (size + 1) + f + 2 /\ j \in Nat
    BY <1>1, <1>7
  <2>1. (size + 1) + f = size + 1 + f
    BY <1>1
  <2>2. CASE j <= size
    <3>1. j \in 1 .. size /\ j <= size + 1
      BY <2>0, <2>2
    <3> QED BY <1>5, <1>6, <2>0, <2>2, <3>1 DEF MarkAt
  <2>3. CASE j = size + 1
    <3>1. ~ (j <= size) /\ j <= size + 1
      BY <2>3
    <3> QED BY <1>5, <1>6, <2>0, <2>3, <3>1 DEF MarkAt
  <2>4. CASE j > size + 1
    <3>1. ~ (j <= size) /\ ~ (j <= size + 1) /\ j # size + 1
      BY <2>0, <2>4
    <3> QED BY <1>6, <2>0, <2>1, <3>1 DEF MarkAt
  <2>5. j <= size \/ j = size + 1 \/ j > size + 1
    BY <2>0
  <2> QED BY <2>2, <2>3, <2>4, <2>5
<1> QED BY <1>4, <1>6, <1>7, <1>8 DEF P

LEMMA DigestIsRight ==
  ASSUME DigestInv
  PROVE  Digest!FileTypeOK /\ Digest!DigestsAreOfTheFile
<1> DEFINE M == Digest!Message
           P == Digest!PaddedMessage
           B == BlockSize
           I == Digest!Inversion
<1>1. Digest!FileTypeOK
  BY DEF DigestInv, DigestTypes, Digest!FileTypeOK, BitCounts
<1>2. ASSUME pc = "exit", rc = 0
      PROVE  /\ Len(blocks) * B = Len(P)
             /\ \A c \in DOMAIN blocks : blocks[c] = SubSeq(P, (c - 1) * B + 1, c * B)
             /\ register = IF size = 0 THEN << >> ELSE <<I>> \o M \o <<I>>
             /\ head = SubSeq(M, 1, IF size < HeadSize THEN size ELSE HeadSize)
             /\ type = IF size < 4 THEN "unknown-raw" ELSE contents
  <2>1. /\ HeadRight /\ Registered(register, size) /\ BlocksDone /\ TypeRight
        /\ size \in Nat /\ head \in Seq(Marks) /\ blocks \in Seq(Seq(Marks)) /\ B \in Nat \ {0}
    BY <1>2, DigestSizes DEF DigestInv, DigestTypes
  <2>2. M \in Seq(Marks) /\ Len(M) = size /\ \A j \in 1 .. size : M[j] = Digest!Byte(j)
    BY <2>1, MessageIs
  <2> HIDE DEF M
  <2>3. type = IF size < 4 THEN "unknown-raw" ELSE contents
    BY <2>1 DEF TypeRight
  <2>4. head = SubSeq(M, 1, IF size < HeadSize THEN size ELSE HeadSize)
    <3> DEFINE e == IF size < HeadSize THEN size ELSE HeadSize
               s == SubSeq(M, 0 + 1, e)
    <3>1. Len(head) = e /\ \A j \in 1 .. Len(head) : head[j] = Digest!Byte(j)
      BY <2>1 DEF HeadRight
    <3>2. e \in Nat /\ 0 <= e /\ e <= size /\ e - 0 = e
      BY <2>1, DigestSizes
    <3>6. SubSeq(M, 1, IF size < HeadSize THEN size ELSE HeadSize) = s
      OBVIOUS
    <3> HIDE DEF e
    <3>3. s \in Seq(Marks) /\ Len(s) = e /\ \A j \in 1 .. e : s[j] = M[0 + j]
      <4>1. e <= Len(M)
        BY <2>2, <3>2
      <4>2. s \in Seq(Marks) /\ Len(s) = e - 0 /\ \A j \in 1 .. e - 0 : s[j] = M[0 + j]
        BY <2>2, <3>2, <4>1, PartIs
      <4> QED BY <3>2, <4>2
    <3>4. \A j \in 1 .. e : head[j] = s[j]
      <4> SUFFICES ASSUME NEW j \in 1 .. e PROVE head[j] = s[j]
        OBVIOUS
      <4>1. j \in 1 .. size /\ 0 + j = j
        BY <2>1, <3>2
      <4> QED BY <2>2, <3>1, <3>3, <4>1
    <3> HIDE DEF s
    <3>5. head = s
      <4>1. head \in Seq(Marks) /\ s \in Seq(Marks) /\ Len(head) = Len(s)
        BY <2>1, <3>1, <3>3
      <4>2. \A j \in 1 .. Len(head) : head[j] = s[j]
        BY <3>1, <3>4
      <4> QED BY <4>1, <4>2, SameSequence
    <3> QED BY <3>5, <3>6
  <2>5. register = IF size = 0 THEN << >> ELSE <<I>> \o M \o <<I>>
    <3>1. CASE size = 0
      BY <2>1, <3>1 DEF Registered
    <3>2. CASE size # 0
      <4> DEFINE i == <<I>>
                 a == i \o M
                 x == a \o i
      <4>1. /\ register \in Seq(Marks) /\ Len(register) = size + 2 /\ register[1] = I
            /\ register[size + 2] = I /\ \A j \in 1 .. size : register[j + 1] = Digest!Byte(j)
        BY <2>1, <3>2 DEF Registered
      <4>2. i \in Seq(Marks) /\ Len(i) = 1 /\ i[1] = I
        BY MarksAre
      <4> HIDE DEF i
      <4>3. /\ a \in Seq(Marks) /\ Len(a) = size + 1 /\ a[1] = I
            /\ \A j \in 1 .. size : a[1 + j] = M[j]
        <5>1. /\ a \in Seq(Marks) /\ Len(a) = Len(i) + Len(M)
              /\ \A j \in 1 .. Len(i) : a[j] = i[j]
              /\ \A j \in 1 .. Len(M) : a[Len(i) + j] = M[j]
          <6>1. i \in Seq(Marks) /\ M \in Seq(Marks)
            BY <2>2, <4>2
          <6> QED BY <6>1, Joined
        <5> HIDE DEF a
        <5>2. Len(i) + Len(M) = size + 1
          BY <2>1, <2>2, <4>2
        <5>3. 1 \in 1 .. Len(i)
          BY <4>2
        <5> QED BY <2>2, <4>2, <5>1, <5>2, <5>3
      <4> HIDE DEF a
      <4>4. /\ x \in Seq(Marks) /\ Len(x) = size + 2 /\ x[size + 2] = I
            /\ \A j \in 1 .. size + 1 : x[j] = a[j]
        <5>1. /\ x \in Seq(Marks) /\ Len(x) = Len(a) + Len(i)
              /\ \A j \in 1 .. Len(a) : x[j] = a[j]
              /\ \A j \in 1 .. Len(i) : x[Len(a) + j] = i[j]
          <6>1. a \in Seq(Marks) /\ i \in Seq(Marks)
            BY <4>2, <4>3
          <6> QED BY <6>1, Joined
        <5> HIDE DEF x
        <5>2. Len(a) + Len(i) = size + 2 /\ Len(a) + 1 = size + 2
          BY <2>1, <4>2, <4>3
        <5>3. 1 \in 1 .. Len(i)
          BY <4>2
        <5> QED BY <4>2, <4>3, <5>1, <5>2, <5>3
      <4>7. x = <<I>> \o M \o <<I>>
        BY DEF x, a, i
      <4> HIDE DEF x, I
      <4>5. ASSUME NEW j \in 1 .. size + 2 PROVE register[j] = x[j]
        <5>1. CASE j = 1
          BY <2>1, <4>1, <4>3, <4>4, <5>1
        <5>2. CASE j = size + 2
          BY <4>1, <4>4, <5>2
        <5>3. CASE j # 1 /\ j # size + 2
          <6>1. j - 1 \in 1 .. size /\ 1 + (j - 1) = j /\ (j - 1) + 1 = j /\ j \in 1 .. size + 1
            BY <2>1, <5>3
          <6> QED BY <2>2, <4>1, <4>3, <4>4, <6>1
        <5> QED BY <5>1, <5>2, <5>3
      <4>6. register = x
        <5>1. \A j \in 1 .. Len(register) : register[j] = x[j]
          BY <4>1, <4>5
        <5> QED BY <4>1, <4>4, <5>1, SameSequence
      <4> QED BY <3>2, <4>6, <4>7
    <3> QED BY <3>1, <3>2
  <2>6. Len(blocks) * B = Len(P) /\ \A c \in DOMAIN blocks : blocks[c] = SubSeq(P, (c - 1) * B + 1, c * B)
    <3> DEFINE n == Len(blocks)
    <3>1. PICK f \in 0 .. B - 1, b \in BitCounts :
            /\ n * B = size + f + 3
            /\ ValueOf(b) = 8 * size
            /\ \A c \in 1 .. n :
                 /\ blocks[c] \in Seq(Marks) /\ Len(blocks[c]) = B
                 /\ \A j \in 1 .. B : blocks[c][j] = MarkAt(size, f, b, (c - 1) * B + j)
      BY <2>1 DEF BlocksDone
    <3>2. n \in Nat /\ DOMAIN blocks = 1 .. n
      BY <2>1
    <3> HIDE DEF n
    <3>3. /\ P \in Seq(Marks) /\ Len(P) = n * B
          /\ \A j \in 1 .. n * B : P[j] = MarkAt(size, f, b, j)
      BY <2>1, <3>1, <3>2, PaddedMessageIs
    <3> HIDE DEF P
    <3>4. ASSUME NEW c \in 1 .. n PROVE blocks[c] = SubSeq(P, (c - 1) * B + 1, c * B)
      <4> DEFINE l == (c - 1) * B
                 h == c * B
                 s == SubSeq(P, l + 1, h)
      <4>1. /\ (c - 1) * B \in Nat /\ c * B = (c - 1) * B + B /\ c * B <= n * B /\ n * B \in Nat
        BY <2>1, <3>2
      <4>2. l \in Nat /\ h = l + B /\ h <= Len(P) /\ h \in Nat /\ Len(P) \in Nat
        <5> DEFINE e == n * B
        <5>1. l \in Nat /\ h = l + B /\ h <= e /\ e \in Nat /\ Len(P) = e /\ B \in Nat
          BY <2>1, <3>3, <4>1
        <5> HIDE DEF l, h, e
        <5> QED BY <5>1
      <4>7. s = SubSeq(P, (c - 1) * B + 1, c * B)
        OBVIOUS
      <4>3. \A j \in 1 .. B : blocks[c][j] = MarkAt(size, f, b, l + j)
        BY <3>1
      <4> HIDE DEF l, h
      <4>4. s \in Seq(Marks) /\ Len(s) = B /\ \A j \in 1 .. B : s[j] = P[l + j]
        <5>1. l <= h /\ h - l = B
          BY <2>1, <4>2
        <5>2. s \in Seq(Marks) /\ Len(s) = h - l /\ \A j \in 1 .. h - l : s[j] = P[l + j]
          BY <3>3, <4>2, <5>1, PartIs
        <5> QED BY <5>1, <5>2
      <4>5. ASSUME NEW j \in 1 .. B PROVE blocks[c][j] = s[j]
        <5>1. l + j \in 1 .. Len(P)
          BY <2>1, <4>2
        <5> QED BY <3>3, <4>3, <4>4, <5>1
      <4> HIDE DEF s
      <4>6. blocks[c] = s
        <5>1. blocks[c] \in Seq(Marks) /\ Len(blocks[c]) = Len(s)
          BY <3>1, <4>4
        <5>2. \A j \in 1 .. Len(blocks[c]) : blocks[c][j] = s[j]
          BY <3>1, <4>5
        <5> QED BY <4>4, <5>1, <5>2, SameSequence
      <4> QED BY <4>6, <4>7
    <3> QED BY <3>2, <3>3, <3>4 DEF n
  <2> QED BY <2>3, <2>4, <2>5, <2>6 DEF M
<1> QED BY <1>1, <1>2 DEF Digest!DigestsAreOfTheFile
-----------------------------------------------------------------------------
(* HunkInfo: numbers that are added up one by one. *)
LEMMA SumTurns ==
  ASSUME NEW s \in Seq(Nat)
  PROVE  \E u \in [0 .. Len(s) -> Nat] :
           /\ u[0] = 0 /\ \A n \in 1 .. Len(s) : u[n] = u[n - 1] + s[n]
           /\ Hunks!Sum(s) = u[Len(s)]
<1> DEFINE f == [p \in Nat \X Nat |-> p[1] + p[2]]
           Loop(h) == [n \in 0 .. Len(s) |-> IF n = 0 THEN 0 ELSE h[n - 1] + s[n]]
           u == CHOOSE h : h = Loop(h)
<1>1. Len(s) \in Nat /\ \A n \in 1 .. Len(s) : s[n] \in Nat
  OBVIOUS
<1>2. Hunks!Sum(s) = u[Len(s)]
  BY DEF Hunks!Sum
<1>3. PICK g \in [0 .. Len(s) -> Nat] : g[0] = 0 /\ \A n \in 1 .. Len(s) : g[n] = f[<<g[n - 1], s[n]>>]
  <2>1. IsBody(f, Nat, Nat) /\ 0 \in Nat
    BY DEF IsBody
  <2>2. \E g \in [0 .. Len(s) -> Nat] : RunsOver(g, f, 0, s)
    <3> HIDE DEF f
    <3> QED BY <2>1, LoopExists, Zenon
  <2> QED BY <2>2 DEF RunsOver
<1>4. ASSUME NEW n \in 1 .. Len(s) PROVE g[n] = g[n - 1] + s[n]
  <2>1. n - 1 \in 0 .. Len(s) /\ g[n - 1] \in Nat /\ s[n] \in Nat
    BY <1>1, SMTT(30)
  <2> QED BY <1>3, <2>1
<1>5. g = Loop(g)
  <2>1. ASSUME NEW n \in 0 .. Len(s) PROVE g[n] = Loop(g)[n]
    <3>1. CASE n = 0
      BY <1>3, <3>1
    <3>2. CASE n # 0
      <4>1. n \in 1 .. Len(s)
        BY <1>1, <3>2
      <4> QED BY <1>4, <3>2, <4>1
    <3> QED BY <3>1, <3>2
  <2>2. g = [n \in 0 .. Len(s) |-> g[n]]
    OBVIOUS
  <2> QED BY <2>1, <2>2
<1>6. u = Loop(u)
  <2> HIDE DEF Loop
  <2> QED BY <1>5
<1> HIDE DEF u
<1>7. u = [n \in 0 .. Len(s) |-> u[n]]
  <2>1. Loop(u) = [n \in 0 .. Len(s) |-> Loop(u)[n]]
    OBVIOUS
  <2> HIDE DEF Loop
  <2> QED BY <1>6, <2>1
<1>8. \A n \in 0 .. Len(s) : u[n] = Loop(u)[n]
  <2> HIDE DEF Loop
  <2> QED BY <1>6
<1>9. u[0] = 0
  <2>1. 0 \in 0 .. Len(s)
    BY <1>1
  <2> QED BY <1>8, <2>1
<1>10. ASSUME NEW n \in 1 .. Len(s) PROVE u[n] = u[n - 1] + s[n]
  <2>1. n \in 0 .. Len(s) /\ n # 0
    BY <1>1
  <2> QED BY <1>8, <2>1
<1> HIDE DEF Loop
<1> DEFINE T == {n \in 0 .. Len(s) : u[n] \in Nat}
<1>11. 0 \in T
  <2>1. 0 \in 0 .. Len(s) /\ u[0] \in Nat
    BY <1>1, <1>9
  <2> QED BY <2>1
<1>12. ASSUME NEW n \in 1 .. Len(s), n - 1 \in T PROVE n \in T
  <2>1. n \in 0 .. Len(s) /\ u[n - 1] \in Nat /\ s[n] \in Nat
    BY <1>1, <1>12
  <2>2. u[n] \in Nat
    BY <1>10, <2>1
  <2> QED BY <2>1, <2>2
<1>13. 0 .. Len(s) \subseteq T
  <2> HIDE DEF T
  <2> QED BY <1>1, <1>11, <1>12, TurnInduction
<1>14. u \in [0 .. Len(s) -> Nat]
  BY <1>7, <1>13
<1> QED BY <1>2, <1>9, <1>10, <1>14

LEMMA SumOfNone == ASSUME NEW s \in Seq(Nat), Len(s) = 0 PROVE Hunks!Sum(s) = 0
BY SumTurns

(* One more number, and zeros behind it. *)
LEMMA SumGoesOn ==
  ASSUME NEW s \in Seq(Nat), NEW t \in Seq(Nat), Len(t) > Len(s),
         \A i \in 1 .. Len(s) : t[i] = s[i],
         \A i \in Len(s) + 2 .. Len(t) : t[i] = 0
  PROVE  /\ Hunks!Sum(s) \in Nat
         /\ Hunks!Sum(t) = Hunks!Sum(s) + t[Len(s) + 1]
<1> DEFINE n == Len(s)
           l == Len(t)
<1>1. n \in Nat /\ l \in Nat /\ n < l /\ \A i \in 1 .. l : t[i] \in Nat
  OBVIOUS
<1>2. PICK u \in [0 .. n -> Nat] :
        u[0] = 0 /\ (\A k \in 1 .. n : u[k] = u[k - 1] + s[k]) /\ Hunks!Sum(s) = u[n]
  BY SumTurns
<1>3. PICK v \in [0 .. l -> Nat] :
        v[0] = 0 /\ (\A k \in 1 .. l : v[k] = v[k - 1] + t[k]) /\ Hunks!Sum(t) = v[l]
  BY SumTurns
<1>4. (\A i \in 1 .. n : t[i] = s[i]) /\ \A i \in n + 2 .. l : t[i] = 0
  OBVIOUS
<1> HIDE DEF n, l
<1> DEFINE T == {k \in 0 .. n : v[k] = u[k]}
<1>5. 0 \in T
  BY <1>1, <1>2, <1>3
<1>6. ASSUME NEW k \in 1 .. n, k - 1 \in T PROVE k \in T
  <2>1. k \in 1 .. l /\ k \in 0 .. n
    BY <1>1
  <2> QED BY <1>2, <1>3, <1>4, <1>6, <2>1
<1>7. 0 .. n \subseteq T
  <2> HIDE DEF T
  <2> QED BY <1>1, <1>5, <1>6, TurnInduction
<1>8. v[n] = u[n] /\ n + 1 \in 1 .. l /\ n \in 0 .. n /\ n \in 0 .. l
  BY <1>1, <1>7
<1>9. v[n + 1] = u[n] + t[n + 1]
  <2>1. (n + 1) - 1 = n
    BY <1>1
  <2> QED BY <1>3, <1>8, <2>1
<1> DEFINE S == {k \in 0 .. l : k >= n + 1 => v[k] = v[n + 1]}
<1>10. 0 \in S
  BY <1>1
<1>11. ASSUME NEW k \in 1 .. l, k - 1 \in S PROVE k \in S
  <2>1. CASE k <= n + 1
    BY <1>1, <2>1
  <2>2. CASE k > n + 1
    <3>1. k \in n + 2 .. l /\ k - 1 >= n + 1 /\ k - 1 \in 0 .. l
      BY <1>1, <2>2
    <3>2. v[k] = v[k - 1] + 0 /\ v[k - 1] = v[n + 1] /\ v[k - 1] \in Nat
      BY <1>3, <1>4, <1>11, <3>1
    <3> QED BY <3>2
  <2> QED BY <1>1, <2>1, <2>2
<1>12. 0 .. l \subseteq S
  <2> HIDE DEF S
  <2> QED BY <1>1, <1>10, <1>11, TurnInduction
<1>13. v[l] = v[n + 1]
  <2>1. l \in S /\ l >= n + 1
    BY <1>1, <1>12
  <2> QED BY <2>1
<1>14. u[n] \in Nat
  BY <1>2, <1>8
<1> QED BY <1>2, <1>3, <1>9, <1>13, <1>14 DEF n

Words == 0 .. FileWord - 1
Kinds == {"hunks", "reloc", "symbols"}

LEMMA HunkSizes ==
  /\ FileWord \in Nat \ {0} /\ Hunks!Mask \in Nat \ {0} /\ HUNK_UNIT \in Nat /\ MaxWords \in Nat
  /\ Types \subseteq Words /\ Numbers \subseteq Words /\ 4 * MaxWords < FileWord
  /\ Hunks!Expected = Kinds
<1>1. FileWord \in Nat /\ FileWord >= 4 /\ HUNK_UNIT \in Nat /\ MaxWords \in Nat
  BY HunkAssumption
<1>2. FileWord \div 4 \in Nat \ {0}
  BY <1>1, Z3
<1>3. Types \union Numbers \subseteq Words /\ 4 * MaxWords < FileWord
  BY HunkAssumption DEF Words
<1> QED BY <1>1, <1>2, <1>3 DEF Hunks!Mask, Hunks!Expected, Kinds

(* R holds the places of the first n words that a reading comes to. *)
IsReading(s, n, R) ==
  /\ R \subseteq (1 .. n) \X Kinds
  /\ \A p \in 1 .. n, m \in Kinds :
       <<p, m>> \in R <=>
         \/ p = 1 /\ m = "hunks"
         \/ \E q \in 1 .. p - 1, l \in Kinds : <<q, l>> \in R /\ Hunks!After(s, <<q, l>>) = <<p, m>>

LEMMA OneReading ==
  ASSUME NEW s, NEW n \in Nat, NEW R, NEW S, IsReading(s, n, R), IsReading(s, n, S)
  PROVE  R = S
<1> DEFINE T == {k \in 0 .. n : \A p \in 1 .. k, m \in Kinds : <<p, m>> \in R <=> <<p, m>> \in S}
<1>1. 0 \in T
  OBVIOUS
<1>2. ASSUME NEW k \in 1 .. n, k - 1 \in T PROVE k \in T
  <2>1. \A p \in 1 .. k - 1, m \in Kinds : <<p, m>> \in R <=> <<p, m>> \in S
    BY <1>2
  <2>2. ASSUME NEW m \in Kinds PROVE <<k, m>> \in R <=> <<k, m>> \in S
    <3>1. <<k, m>> \in R <=>
            \/ k = 1 /\ m = "hunks"
            \/ \E q \in 1 .. k - 1, l \in Kinds : <<q, l>> \in R /\ Hunks!After(s, <<q, l>>) = <<k, m>>
      BY DEF IsReading
    <3>2. <<k, m>> \in S <=>
            \/ k = 1 /\ m = "hunks"
            \/ \E q \in 1 .. k - 1, l \in Kinds : <<q, l>> \in S /\ Hunks!After(s, <<q, l>>) = <<k, m>>
      BY DEF IsReading
    <3> QED BY <2>1, <3>1, <3>2
  <2>3. ASSUME NEW p \in 1 .. k, NEW m \in Kinds PROVE <<p, m>> \in R <=> <<p, m>> \in S
    <3>1. p \in 1 .. k - 1 \/ p = k
      OBVIOUS
    <3> QED BY <2>1, <2>2, <3>1
  <2> QED BY <2>3
<1>3. 0 .. n \subseteq T
  <2> HIDE DEF T
  <2> QED BY <1>1, <1>2, TurnInduction
<1>4. \A p \in 1 .. n, m \in Kinds : <<p, m>> \in R <=> <<p, m>> \in S
  <2>1. n \in T
    BY <1>3
  <2> QED BY <2>1
<1>5. R \subseteq (1 .. n) \X Kinds /\ S \subseteq (1 .. n) \X Kinds
  BY DEF IsReading
<1> QED BY <1>4, <1>5

LEMMA ReadingIs ==
  ASSUME NEW s \in Seq(Nat)
  PROVE  IsReading(s, Len(s), Hunks!Reading(s))
<1> DEFINE n == Len(s)
           D == SUBSET (Nat \X Kinds)
           New(x, p) == ({p} \X Kinds) \intersect ({<<1, "hunks">>} \union {Hunks!After(s, u) : u \in x})
           e == [p \in 1 .. n |-> p]
           f == [q \in D \X Nat |-> q[1] \union New(q[1], q[2])]
           Loop(h) == [p \in 0 .. n |-> IF p = 0 THEN {} ELSE h[p - 1] \union New(h[p - 1], p)]
           U == CHOOSE h : h = Loop(h)
<1>1. n \in Nat /\ e \in Seq(Nat) /\ Len(e) = n /\ \A p \in 1 .. n : e[p] = p
  OBVIOUS
<1>2. Hunks!Reading(s) = U[n]
  BY DEF Hunks!Reading, Hunks!Expected, Kinds
<1>3. ASSUME NEW x \in D, NEW p \in Nat PROVE x \union New(x, p) \in D
  OBVIOUS
<1> HIDE DEF e, New
<1>4. PICK g \in [0 .. n -> D] : g[0] = {} /\ \A p \in 1 .. n : g[p] = f[<<g[p - 1], e[p]>>]
  <2>1. IsBody(f, D, Nat) /\ {} \in D
    BY <1>3 DEF IsBody
  <2>2. \E g \in [0 .. Len(e) -> D] : RunsOver(g, f, {}, e)
    <3> HIDE DEF f, D
    <3> QED BY <1>1, <2>1, LoopExists, Zenon
  <2> HIDE DEF f, D
  <2> QED BY <1>1, <2>2 DEF RunsOver
<1>5. ASSUME NEW p \in 1 .. n PROVE g[p] = g[p - 1] \union New(g[p - 1], p)
  <2>1. p - 1 \in 0 .. n /\ e[p] = p /\ p \in Nat
    BY <1>1
  <2>2. g[p] = f[<<g[p - 1], p>>]
    BY <1>4, <2>1
  <2>3. g[p - 1] \in D
    <3> HIDE DEF D, n
    <3> QED BY <2>1
  <2> HIDE DEF D
  <2> QED BY <2>1, <2>2, <2>3
<1>6. g = Loop(g)
  <2>1. ASSUME NEW p \in 0 .. n PROVE g[p] = Loop(g)[p]
    <3>1. CASE p = 0
      BY <1>4, <3>1
    <3>2. CASE p # 0
      <4>1. p \in 1 .. n
        BY <1>1, <3>2
      <4> QED BY <1>5, <3>2, <4>1
    <3> QED BY <3>1, <3>2
  <2>2. g = [p \in 0 .. n |-> g[p]]
    OBVIOUS
  <2> QED BY <2>1, <2>2
<1>7. U = Loop(U)
  <2> HIDE DEF Loop
  <2> QED BY <1>6
<1> HIDE DEF U
<1>8. \A p \in 0 .. n : U[p] = Loop(U)[p]
  <2> HIDE DEF Loop
  <2> QED BY <1>7
<1>9. U[0] = {}
  <2>1. 0 \in 0 .. n
    BY <1>1
  <2> QED BY <1>8, <2>1
<1>10. ASSUME NEW p \in 1 .. n PROVE U[p] = U[p - 1] \union New(U[p - 1], p)
  <2>1. p \in 0 .. n /\ p # 0
    BY <1>1
  <2> QED BY <1>8, <2>1
<1> HIDE DEF Loop
<1> DEFINE T == {k \in 0 .. n : IsReading(s, k, U[k])}
<1>11. 0 \in T
  <2>1. \A p \in 1 .. 0 : FALSE
    OBVIOUS
  <2>2. IsReading(s, 0, {})
    BY <2>1 DEF IsReading
  <2>3. 0 \in 0 .. n
    BY <1>1
  <2> QED BY <1>9, <2>2, <2>3
<1>12. ASSUME NEW k \in 1 .. n, k - 1 \in T PROVE k \in T
  <2> DEFINE R == U[k - 1]
             N == New(R, k)
  <2>1. IsReading(s, k - 1, R) /\ U[k] = R \union N /\ k \in Nat
    BY <1>1, <1>10, <1>12
  <2>2. \A p, m : <<p, m>> \in N <=>
          p = k /\ m \in Kinds /\ ((p = 1 /\ m = "hunks") \/ \E u \in R : Hunks!After(s, u) = <<p, m>>)
    BY DEF New
  <2>3. N \subseteq (1 .. k) \X Kinds
    BY <2>1 DEF New
  <2> HIDE DEF R, N
  <2>4. R \subseteq (1 .. k - 1) \X Kinds
    BY <2>1 DEF IsReading
  <2>5. R \union N \subseteq (1 .. k) \X Kinds
    <3>1. R \subseteq (1 .. k) \X Kinds
      BY <2>1, <2>4
    <3> QED BY <2>3, <3>1
  <2>6. ASSUME NEW p \in 1 .. k, NEW m \in Kinds
        PROVE  <<p, m>> \in R \union N <=>
                 \/ p = 1 /\ m = "hunks"
                 \/ \E q \in 1 .. p - 1, l \in Kinds :
                      <<q, l>> \in R \union N /\ Hunks!After(s, <<q, l>>) = <<p, m>>
    <3>1. \A q \in 1 .. p - 1, l \in Kinds : <<q, l>> \in R \union N <=> <<q, l>> \in R
      <4>1. \A q \in 1 .. p - 1 : q # k
        BY <2>1
      <4> QED BY <2>2, <4>1
    <3>2. CASE p = k
      <4>1. <<p, m>> \notin R
        BY <2>1, <2>4, <3>2
      <4>2. (\E u \in R : Hunks!After(s, u) = <<p, m>>) <=>
              \E q \in 1 .. p - 1, l \in Kinds : <<q, l>> \in R /\ Hunks!After(s, <<q, l>>) = <<p, m>>
        <5>1. p - 1 = k - 1
          BY <3>2
        <5>2. ASSUME NEW u \in R PROVE \E q \in 1 .. k - 1, l \in Kinds : u = <<q, l>>
          <6>1. u \in (1 .. k - 1) \X Kinds
            BY <2>4
          <6>2. u[1] \in 1 .. k - 1 /\ u[2] \in Kinds /\ u = <<u[1], u[2]>>
            BY <6>1
          <6> DEFINE a == u[1]
                     b == u[2]
                     K == 1 .. k - 1
          <6>3. a \in K /\ b \in Kinds /\ u = <<a, b>>
            BY <6>2
          <6> HIDE DEF a, b, K
          <6>4. \E q \in K, l \in Kinds : u = <<q, l>>
            BY <6>3
          <6> QED BY <6>4 DEF K
        <5>3. ASSUME NEW u \in R, Hunks!After(s, u) = <<p, m>>
              PROVE  \E q \in 1 .. p - 1, l \in Kinds : <<q, l>> \in R /\ Hunks!After(s, <<q, l>>) = <<p, m>>
          <6>1. PICK q \in 1 .. k - 1, l \in Kinds : u = <<q, l>>
            BY <5>2
          <6>2. q \in 1 .. p - 1 /\ <<q, l>> \in R /\ Hunks!After(s, <<q, l>>) = <<p, m>>
            BY <5>1, <5>3, <6>1
          <6> QED BY <6>2
        <5> QED BY <5>3
      <4> QED BY <2>2, <3>1, <3>2, <4>1, <4>2
    <3>3. CASE p # k
      <4>1. p \in 1 .. k - 1
        BY <2>1, <3>3
      <4>2. <<p, m>> \in R <=>
              \/ p = 1 /\ m = "hunks"
              \/ \E q \in 1 .. p - 1, l \in Kinds : <<q, l>> \in R /\ Hunks!After(s, <<q, l>>) = <<p, m>>
        BY <2>1, <4>1 DEF IsReading
      <4> QED BY <2>2, <3>1, <3>3, <4>2
    <3> QED BY <3>2, <3>3
  <2>7. IsReading(s, k, R \union N)
    BY <2>5, <2>6 DEF IsReading
  <2>8. k \in 0 .. n
    BY <1>1
  <2> QED BY <2>1, <2>7, <2>8
<1>13. 0 .. n \subseteq T
  <2> HIDE DEF T
  <2> QED BY <1>1, <1>11, <1>12, TurnInduction
<1>14. IsReading(s, n, U[n])
  <2>1. n \in T
    BY <1>1, <1>13
  <2> QED BY <2>1
<1> QED BY <1>2, <1>14 DEF n

(* What follows a place looks no further than what it skips.               *)
LEMMA AfterStays ==
  ASSUME NEW s \in Seq(Nat), NEW t \in Seq(Nat), Len(t) >= Len(s),
         \A i \in 1 .. Len(s) : t[i] = s[i],
         NEW p \in 1 .. Len(s), NEW m \in Kinds, Hunks!After(s, <<p, m>>)[1] <= Len(s) + 1
  PROVE  Hunks!After(t, <<p, m>>) = Hunks!After(s, <<p, m>>)
<1> DEFINE a == Hunks!At(s, p)
           b == Hunks!At(s, p + 1)
           c == Hunks!At(t, p + 1)
           n == Len(s)
<1>1. n \in Nat /\ p \in 1 .. n /\ p \in 1 .. Len(t) /\ p \in Nat /\ Hunks!Mask \in Nat \ {0}
  BY HunkSizes
<1>2. Hunks!At(t, p) = a /\ a \in Nat
  BY <1>1 DEF Hunks!At
<1>3. p + 1 <= n => c = b
  BY <1>1 DEF Hunks!At
<1>4. b \in Nat /\ c \in Nat
  BY <1>1, SMTT(30) DEF Hunks!At
<1> DEFINE g == a % Hunks!Mask
           Result(x) ==
             IF m # "hunks" /\ a = 0 THEN <<p + 1, "hunks">>
             ELSE IF m # "hunks" THEN <<p + 2 + a, m>>
             ELSE IF g = Hunks!HUNK_BSS THEN <<p + 2, "hunks">>
             ELSE IF g \in Hunks!Sections THEN <<p + 2 + (x % Hunks!Mask), "hunks">>
             ELSE IF g \in Hunks!Skipped THEN <<p + 2 + x, "hunks">>
             ELSE IF g = Hunks!HUNK_RELOC32 THEN <<p + 1, "reloc">>
             ELSE IF g = Hunks!HUNK_SYMBOL THEN <<p + 1, "symbols">>
             ELSE <<p + 1, "hunks">>
<1>5. Hunks!After(s, <<p, m>>) = Result(b)
  BY DEF Hunks!After
<1>6. Hunks!After(t, <<p, m>>) = Result(c)
  BY <1>2 DEF Hunks!After
<1>7. b % Hunks!Mask \in Nat
  BY <1>1, <1>4
<1>8. Result(b)[1] <= n + 1
  <2> DEFINE z == Hunks!After(s, <<p, m>>)
  <2>1. z = Result(b)
    BY <1>5
  <2>2. z[1] <= n + 1
    OBVIOUS
  <2> HIDE DEF Result, z
  <2> QED BY <2>1, <2>2
<1>9. CASE p + 1 <= n
  <2>1. Result(c) = Result(b)
    <3>1. c = b
      BY <1>3, <1>9
    <3> HIDE DEF a, b, c
    <3> QED BY <3>1
  <2> HIDE DEF Result
  <2> QED BY <1>5, <1>6, <2>1
<1>10. CASE ~ (p + 1 <= n)
  <2>1. m = "hunks" /\ g # Hunks!HUNK_BSS => g \notin Hunks!Sections /\ g \notin Hunks!Skipped
    <3> SUFFICES ASSUME m = "hunks", g # Hunks!HUNK_BSS, g \in Hunks!Sections \/ g \in Hunks!Skipped
                 PROVE  FALSE
      OBVIOUS
    <3> DEFINE e == b % Hunks!Mask
    <3>1. Result(b)[1] = p + 2 + e \/ Result(b)[1] = p + 2 + b
      <4> HIDE DEF g, a, b
      <4> QED OBVIOUS
    <3>2. Result(b)[1] <= n + 1 /\ e \in Nat /\ b \in Nat /\ n \in Nat /\ p \in Nat
      BY <1>1, <1>4, <1>7, <1>8
    <3> HIDE DEF Result, e, b, n
    <3> QED BY <1>10, <3>1, <3>2, SMTT(30)
  <2> HIDE DEF g, a, b, c
  <2> QED BY <1>5, <1>6, <2>1
<1> QED BY <1>9, <1>10

(* The words of s are whole hunks and groups, and m is expected next.      *)
ReadTo(s, m) ==
  LET n == Len(s)
      R == Hunks!Reading(s)
  IN /\ \A p \in 1 .. n, l \in Kinds :
          <<p, l>> \in R =>
            \/ Hunks!After(s, <<p, l>>) = <<n + 1, m>>
            \/ Hunks!After(s, <<p, l>>) \in R
     /\ n = 0 => m = "hunks"
     /\ n > 0 => \E p \in 1 .. n, l \in Kinds :
                   <<p, l>> \in R /\ Hunks!After(s, <<p, l>>) = <<n + 1, m>>

(* s is followed by words t that are read together.                        *)
Extends(t, s) == Len(t) > Len(s) /\ \A i \in 1 .. Len(s) : t[i] = s[i]

LEMMA AfterWithin ==
  ASSUME NEW s \in Seq(Nat), NEW m \in Kinds, ReadTo(s, m), NEW t \in Seq(Nat), Extends(t, s),
         NEW p \in 1 .. Len(s), NEW l \in Kinds, <<p, l>> \in Hunks!Reading(s)
  PROVE  /\ Hunks!After(s, <<p, l>>)[1] <= Len(s) + 1
         /\ Hunks!After(t, <<p, l>>) = Hunks!After(s, <<p, l>>)
<1> DEFINE n == Len(s)
           R == Hunks!Reading(s)
           a == Hunks!After(s, <<p, l>>)
<1>1. R \subseteq (1 .. n) \X Kinds /\ n \in Nat
  BY ReadingIs DEF IsReading
<1>2. a = <<n + 1, m>> \/ a \in R
  BY DEF ReadTo
<1>3. a[1] <= n + 1
  <2> HIDE DEF R, a, n
  <2>1. CASE a \in R
    <3>1. a[1] \in 1 .. n
      BY <1>1, <2>1
    <3> QED BY <1>1, <3>1
  <2>2. CASE a = <<n + 1, m>>
    BY <1>1, <2>2
  <2> QED BY <1>2, <2>1, <2>2
<1>4. Len(t) >= Len(s) /\ \A i \in 1 .. Len(s) : t[i] = s[i]
  BY DEF Extends
<1>5. Hunks!After(t, <<p, l>>) = a
  BY <1>3, <1>4, AfterStays
<1> QED BY <1>3, <1>5

(* What is read next comes to the reading, and nothing else.               *)
LEMMA ReadsOn ==
  ASSUME NEW s \in Seq(Nat), NEW m \in Kinds, ReadTo(s, m), NEW t \in Seq(Nat), Extends(t, s),
         NEW k \in Kinds, Hunks!After(t, <<Len(s) + 1, m>>) = <<Len(t) + 1, k>>
  PROVE  Hunks!Reading(t) = Hunks!Reading(s) \union {<<Len(s) + 1, m>>} /\ ReadTo(t, k)
<1> DEFINE n == Len(s)
           l == Len(t)
           R == Hunks!Reading(s)
           v == <<n + 1, m>>
           S == R \union {v}
           A(p, x) == Hunks!After(t, <<p, x>>)
<1>1. n \in Nat /\ l \in Nat /\ n < l
  BY DEF Extends
<1>2. IsReading(s, n, R)
  BY ReadingIs
<1>3. ASSUME NEW p \in 1 .. n, NEW x \in Kinds, <<p, x>> \in R
      PROVE  A(p, x) = Hunks!After(s, <<p, x>>) /\ (A(p, x) = v \/ A(p, x) \in R)
  <2>1. A(p, x) = Hunks!After(s, <<p, x>>)
    BY <1>3, AfterWithin
  <2>2. Hunks!After(s, <<p, x>>) = v \/ Hunks!After(s, <<p, x>>) \in R
    BY <1>3 DEF ReadTo
  <2> QED BY <2>1, <2>2
<1>4. /\ n = 0 => m = "hunks"
      /\ n > 0 => \E p \in 1 .. n, x \in Kinds : <<p, x>> \in R /\ Hunks!After(s, <<p, x>>) = v
  BY DEF ReadTo
<1>5. A(n + 1, m) = <<l + 1, k>>
  OBVIOUS
<1> HIDE DEF n, l, R, A
<1>6. R \subseteq (1 .. n) \X Kinds
  BY <1>2 DEF IsReading
<1>7. \A p, x : <<p, x>> \in R => p \in 1 .. n /\ x \in Kinds
  BY <1>6
<1>8. \A p, x : <<p, x>> \in S <=> <<p, x>> \in R \/ (p = n + 1 /\ x = m)
  OBVIOUS
<1>9. S \subseteq (1 .. l) \X Kinds
  <2>1. v \in (1 .. l) \X Kinds
    BY <1>1
  <2>2. R \subseteq (1 .. l) \X Kinds
    BY <1>1, <1>6
  <2> QED BY <2>1, <2>2
<1>10. ASSUME NEW p \in 1 .. l, NEW x \in Kinds
       PROVE  <<p, x>> \in S <=>
                \/ p = 1 /\ x = "hunks"
                \/ \E q \in 1 .. p - 1, y \in Kinds : <<q, y>> \in S /\ A(q, y) = <<p, x>>
  <2>1. CASE p <= n
    <3>1. p \in 1 .. n /\ p # n + 1 /\ p # l + 1
      BY <1>1, <2>1
    <3>2. <<p, x>> \in R <=>
            \/ p = 1 /\ x = "hunks"
            \/ \E q \in 1 .. p - 1, y \in Kinds : <<q, y>> \in R /\ Hunks!After(s, <<q, y>>) = <<p, x>>
      BY <1>2, <3>1 DEF IsReading
    <3>3. \A q \in 1 .. p - 1, y \in Kinds :
            /\ q \in 1 .. n /\ q # n + 1
            /\ <<q, y>> \in R => A(q, y) = Hunks!After(s, <<q, y>>)
      <4> SUFFICES ASSUME NEW q \in 1 .. p - 1, NEW y \in Kinds
                   PROVE  /\ q \in 1 .. n /\ q # n + 1
                          /\ <<q, y>> \in R => A(q, y) = Hunks!After(s, <<q, y>>)
        OBVIOUS
      <4>1. q \in 1 .. n /\ q # n + 1
        BY <1>1, <3>1
      <4> QED BY <1>3, <4>1
    <3> HIDE DEF S
    <3>4. \A q \in 1 .. p - 1, y \in Kinds : <<q, y>> \in S <=> <<q, y>> \in R
      BY <1>8, <3>3
    <3>5. <<p, x>> \in S <=> <<p, x>> \in R
      BY <1>8, <3>1
    <3> QED BY <3>2, <3>3, <3>4, <3>5
  <2>2. CASE p = n + 1
    <3>1. <<p, x>> \in S <=> x = m
      BY <1>1, <1>7, <1>8, <2>2
    <3>2. ASSUME p = 1, x = "hunks" PROVE x = m
      BY <1>1, <1>4, <2>2, <3>2
    <3>3. ASSUME NEW q \in 1 .. p - 1, NEW y \in Kinds, <<q, y>> \in S, A(q, y) = <<p, x>>
          PROVE  x = m
      <4>1. q \in 1 .. n /\ <<q, y>> \in R
        BY <1>1, <1>8, <2>2, <3>3
      <4>2. <<p, x>> \notin R
        BY <1>1, <1>7, <2>2
      <4>3. A(q, y) = v
        BY <1>3, <3>3, <4>1, <4>2
      <4> QED BY <3>3, <4>3
    <3>4. ASSUME x = m
          PROVE  \/ p = 1 /\ x = "hunks"
                 \/ \E q \in 1 .. p - 1, y \in Kinds : <<q, y>> \in S /\ A(q, y) = <<p, x>>
      <4>1. CASE n = 0
        BY <1>4, <2>2, <3>4, <4>1
      <4>2. CASE n > 0
        <5>1. PICK q \in 1 .. n, y \in Kinds : <<q, y>> \in R /\ Hunks!After(s, <<q, y>>) = v
          BY <1>4, <4>2
        <5>2. q \in 1 .. p - 1 /\ <<q, y>> \in S /\ A(q, y) = <<p, x>>
          <6>1. q \in 1 .. p - 1 /\ <<q, y>> \in S
            BY <1>1, <1>8, <2>2, <5>1
          <6>2. A(q, y) = v
            BY <1>3, <5>1
          <6> QED BY <2>2, <3>4, <6>1, <6>2
        <5> QED BY <5>2
      <4>3. n = 0 \/ n > 0
        BY <1>1
      <4> HIDE DEF S
      <4> QED BY <4>1, <4>2, <4>3
    <3> QED BY <3>1, <3>2, <3>3, <3>4
  <2>3. CASE p > n + 1
    <3>1. <<p, x>> \notin S /\ p # 1
      BY <1>1, <1>7, <1>8, <2>3
    <3>2. ASSUME NEW q \in 1 .. p - 1, NEW y \in Kinds, <<q, y>> \in S, A(q, y) = <<p, x>>
          PROVE  FALSE
      <4>1. CASE <<q, y>> \in R
        <5>1. q \in 1 .. n
          BY <1>7, <4>1
        <5>2. <<p, x>> = v \/ <<p, x>> \in R
          BY <1>3, <3>2, <4>1, <5>1
        <5> QED BY <1>8, <3>1, <5>2
      <4>2. CASE q = n + 1 /\ y = m
        <5>1. <<p, x>> = <<l + 1, k>>
          BY <1>5, <3>2, <4>2
        <5> QED BY <1>1, <5>1
      <4> QED BY <1>8, <3>2, <4>1, <4>2
    <3> QED BY <3>1, <3>2
  <2>4. p <= n \/ p = n + 1 \/ p > n + 1
    BY <1>1
  <2> HIDE DEF S
  <2> QED BY <2>1, <2>2, <2>3, <2>4
<1>11. IsReading(t, l, S)
  BY <1>9, <1>10 DEF IsReading, A
<1>12. Hunks!Reading(t) = S
  <2>1. IsReading(t, l, Hunks!Reading(t))
    BY ReadingIs DEF l
  <2> QED BY <1>1, <1>11, <2>1, OneReading
<1>13. ReadTo(t, k)
  <2>1. ASSUME NEW p \in 1 .. l, NEW x \in Kinds, <<p, x>> \in S
        PROVE  A(p, x) = <<l + 1, k>> \/ A(p, x) \in S
    <3>1. CASE <<p, x>> \in R
      <4>1. p \in 1 .. n
        BY <1>7, <3>1
      <4> QED BY <1>3, <3>1, <4>1
    <3>2. CASE p = n + 1 /\ x = m
      BY <1>5, <3>2
    <3> QED BY <1>8, <2>1, <3>1, <3>2
  <2>2. n + 1 \in 1 .. l /\ <<n + 1, m>> \in S /\ l # 0
    BY <1>1
  <2>3. \E p \in 1 .. l, x \in Kinds : <<p, x>> \in S /\ A(p, x) = <<l + 1, k>>
    BY <1>5, <2>2
  <2> HIDE DEF S
  <2> QED BY <1>1, <1>12, <2>1, <2>2, <2>3 DEF ReadTo, A, l
<1> QED BY <1>12, <1>13 DEF R, n

(* The next thing that is read, where m is expected, ends s and leads to t,*)
(* where k is.                                                             *)
OneMore(s, m, t, k) ==
  /\ s \in Seq(Nat) /\ t \in Seq(Nat) /\ m \in Kinds /\ k \in Kinds
  /\ ReadTo(s, m) /\ Extends(t, s)
  /\ Hunks!After(t, <<Len(s) + 1, m>>) = <<Len(t) + 1, k>>

LEMMA NewPlace ==
  ASSUME NEW s, NEW m, NEW t, NEW k, OneMore(s, m, t, k)
  PROVE  /\ Len(s) \in Nat /\ Len(t) \in Nat /\ Len(s) < Len(t)
         /\ \A i \in 1 .. Len(s) : t[i] = s[i]
         /\ \A p \in 1 .. Len(t), l \in Kinds :
              <<p, l>> \in Hunks!Reading(t) <=>
                \/ p \in 1 .. Len(s) /\ <<p, l>> \in Hunks!Reading(s)
                \/ p = Len(s) + 1 /\ l = m
         /\ \A p \in Nat, l \in Kinds : <<p, l>> \in Hunks!Reading(s) => p \in 1 .. Len(s)
<1> DEFINE R == Hunks!Reading(s)
           n == Len(s)
<1>1. s \in Seq(Nat) /\ t \in Seq(Nat) /\ m \in Kinds /\ k \in Kinds /\ ReadTo(s, m) /\ Extends(t, s)
      /\ Hunks!After(t, <<Len(s) + 1, m>>) = <<Len(t) + 1, k>>
  BY DEF OneMore
<1>2. Hunks!Reading(t) = R \union {<<n + 1, m>>}
  BY <1>1, ReadsOn
<1>3. n \in Nat /\ Len(t) \in Nat /\ n < Len(t) /\ \A i \in 1 .. n : t[i] = s[i]
  <2>1. n \in Nat /\ Len(t) \in Nat
    BY <1>1
  <2> QED BY <1>1, <2>1 DEF Extends
<1>4. R \subseteq (1 .. n) \X Kinds
  BY <1>1, ReadingIs DEF IsReading
<1> HIDE DEF R, n
<1>5. \A p, l : <<p, l>> \in R => p \in 1 .. n
  BY <1>4
<1>6. \A p, l : <<p, l>> \in Hunks!Reading(t) <=> <<p, l>> \in R \/ (p = n + 1 /\ l = m)
  BY <1>2
<1> QED BY <1>3, <1>5, <1>6 DEF R, n

LEMMA HunksGrow ==
  ASSUME NEW s, NEW m, NEW t, NEW k, OneMore(s, m, t, k), NEW T
  PROVE  /\ Hunks!HunksOf(s, T) \subseteq 1 .. Len(s)
         /\ Hunks!HunksOf(t, T) =
              Hunks!HunksOf(s, T) \union
                (IF m = "hunks" /\ t[Len(s) + 1] % Hunks!Mask \in T THEN {Len(s) + 1} ELSE {})
<1> DEFINE n == Len(s)
           l == Len(t)
           R == Hunks!Reading(s)
           Q == Hunks!Reading(t)
<1>1. /\ n \in Nat /\ l \in Nat /\ n < l
      /\ \A i \in 1 .. n : t[i] = s[i]
      /\ \A p \in 1 .. l : <<p, "hunks">> \in Q <=>
           (p \in 1 .. n /\ <<p, "hunks">> \in R) \/ (p = n + 1 /\ "hunks" = m)
  BY NewPlace DEF Kinds
<1>2. DOMAIN s = 1 .. n /\ DOMAIN t = 1 .. l
  BY DEF OneMore
<1>3. /\ Hunks!HunksOf(s, T) = {p \in 1 .. n : <<p, "hunks">> \in R /\ s[p] % Hunks!Mask \in T}
      /\ Hunks!HunksOf(t, T) = {p \in 1 .. l : <<p, "hunks">> \in Q /\ t[p] % Hunks!Mask \in T}
  BY <1>2 DEF Hunks!HunksOf
<1> HIDE DEF n, l, R, Q
<1>4. n + 1 \in 1 .. l /\ n + 1 \notin 1 .. n /\ \A p \in 1 .. n : p \in 1 .. l
  BY <1>1
<1>5. ASSUME NEW p
      PROVE  p \in Hunks!HunksOf(t, T) <=>
               p \in Hunks!HunksOf(s, T) \/ (p = n + 1 /\ m = "hunks" /\ t[n + 1] % Hunks!Mask \in T)
  <2>1. CASE p \in 1 .. n
    BY <1>1, <1>3, <1>4, <2>1
  <2>2. CASE p = n + 1
    BY <1>1, <1>3, <1>4, <2>2
  <2>3. CASE p \notin 1 .. n /\ p # n + 1
    BY <1>1, <1>3, <2>3
  <2> QED BY <2>1, <2>2, <2>3
<1>6. Hunks!HunksOf(s, T) \subseteq 1 .. n
  BY <1>3
<1> HIDE DEF OneMore
<1> QED BY <1>5, <1>6 DEF n

LEMMA GroupsGrow ==
  ASSUME NEW s, NEW m, NEW t, NEW k, OneMore(s, m, t, k), NEW l \in Kinds
  PROVE  /\ Hunks!GroupsOf(s, l) \subseteq 1 .. Len(s)
         /\ Hunks!GroupsOf(t, l) =
              Hunks!GroupsOf(s, l) \union (IF m = l /\ t[Len(s) + 1] # 0 THEN {Len(s) + 1} ELSE {})
<1> DEFINE n == Len(s)
           e == Len(t)
           R == Hunks!Reading(s)
           Q == Hunks!Reading(t)
<1>1. /\ n \in Nat /\ e \in Nat /\ n < e
      /\ \A i \in 1 .. n : t[i] = s[i]
      /\ \A p \in 1 .. e : <<p, l>> \in Q <=> (p \in 1 .. n /\ <<p, l>> \in R) \/ (p = n + 1 /\ l = m)
  BY NewPlace
<1>2. DOMAIN s = 1 .. n /\ DOMAIN t = 1 .. e
  BY DEF OneMore
<1>3. /\ Hunks!GroupsOf(s, l) = {p \in 1 .. n : <<p, l>> \in R /\ s[p] # 0}
      /\ Hunks!GroupsOf(t, l) = {p \in 1 .. e : <<p, l>> \in Q /\ t[p] # 0}
  BY <1>2 DEF Hunks!GroupsOf
<1> HIDE DEF n, e, R, Q
<1>4. n + 1 \in 1 .. e /\ n + 1 \notin 1 .. n /\ \A p \in 1 .. n : p \in 1 .. e
  BY <1>1
<1>5. ASSUME NEW p
      PROVE  p \in Hunks!GroupsOf(t, l) <=>
               p \in Hunks!GroupsOf(s, l) \/ (p = n + 1 /\ m = l /\ t[n + 1] # 0)
  <2>1. CASE p \in 1 .. n
    BY <1>1, <1>3, <1>4, <2>1
  <2>2. CASE p = n + 1
    BY <1>1, <1>3, <1>4, <2>2
  <2>3. CASE p \notin 1 .. n /\ p # n + 1
    BY <1>1, <1>3, <2>3
  <2> QED BY <2>1, <2>2, <2>3
<1>6. Hunks!GroupsOf(s, l) \subseteq 1 .. n
  BY <1>3
<1> QED BY <1>5, <1>6 DEF n

(* Places among the first n words are no more than n. *)
LEMMA OneMoreCounted ==
  ASSUME NEW n \in Nat, NEW S \in SUBSET (1 .. n)
  PROVE  /\ Cardinality(S) \in Nat /\ Cardinality(S) <= n
         /\ Cardinality(S \union {n + 1}) = Cardinality(S) + 1
<1>1. IsFiniteSet(1 .. n) /\ Cardinality(1 .. n) = n
  <2>1. 1 \in Int /\ n \in Int
    OBVIOUS
  <2>2. IsFiniteSet(1 .. n) /\ Cardinality(1 .. n) = IF 1 > n THEN 0 ELSE n - 1 + 1
    BY <2>1, FS_Interval
  <2> QED BY <2>2
<1>2. IsFiniteSet(S) /\ Cardinality(S) <= Cardinality(1 .. n)
  BY <1>1, FS_Subset
<1>3. n + 1 \notin S
  OBVIOUS
<1>4. Cardinality(S \union {n + 1}) = Cardinality(S) + 1
  BY <1>2, <1>3, FS_AddElement
<1> QED BY <1>1, <1>2, <1>4, FS_CardinalityType

(* Of a section two words are read at least. *)
LEMMA SectionWhole ==
  ASSUME NEW s, NEW m, NEW t, NEW k, OneMore(s, m, t, k),
         NEW p \in Hunks!HunksOf(s, Hunks!Sections)
  PROVE  p \in 1 .. Len(s) /\ p + 1 \in 1 .. Len(s)
<1>1. s \in Seq(Nat) /\ t \in Seq(Nat) /\ m \in Kinds /\ ReadTo(s, m) /\ Extends(t, s)
  BY DEF OneMore
<1>2. p \in 1 .. Len(s) /\ Len(s) \in Nat
  BY <1>1, HunksGrow
<1>3. <<p, "hunks">> \in Hunks!Reading(s) /\ s[p] % Hunks!Mask \in Hunks!Sections
  BY DEF Hunks!HunksOf
<1>4. Hunks!After(s, <<p, "hunks">>)[1] <= Len(s) + 1
  <2>1. "hunks" \in Kinds
    BY DEF Kinds
  <2> QED BY <1>1, <1>2, <1>3, <2>1, AfterWithin
<1> DEFINE b == Hunks!At(s, p + 1) % Hunks!Mask
           a == Hunks!After(s, <<p, "hunks">>)
<1>5. b \in Nat
  <2>1. Hunks!At(s, p + 1) \in Nat
    BY <1>1, <1>2 DEF Hunks!At
  <2> QED BY <2>1, HunkSizes
<1>6. Hunks!At(s, p) = s[p]
  BY <1>1, <1>2 DEF Hunks!At
<1>7. a = <<p + 2, "hunks">> \/ a = <<p + 2 + b, "hunks">>
  BY <1>3, <1>6 DEF Hunks!After
<1>8. a[1] = p + 2 \/ a[1] = p + 2 + b
  <2> HIDE DEF a, b
  <2> QED BY <1>7
<1>9. a[1] <= Len(s) + 1
  BY <1>4
<1> HIDE DEF a, b
<1> QED BY <1>2, <1>5, <1>8, <1>9

LEMMA BytesGrow ==
  ASSUME NEW s, NEW m, NEW t, NEW k, OneMore(s, m, t, k), NEW w \in Hunks!Sections
  PROVE  /\ Hunks!BytesOf(s, w) \in Nat
         /\ Hunks!BytesOf(t, w) =
              Hunks!BytesOf(s, w) +
                (IF m = "hunks" /\ t[Len(s) + 1] % Hunks!Mask = w
                   THEN 4 * (Hunks!At(t, Len(s) + 2) % Hunks!Mask) ELSE 0)
<1> DEFINE n == Len(s)
           l == Len(t)
           H == Hunks!HunksOf(s, {w})
           G == Hunks!HunksOf(t, {w})
           a == [p \in 1 .. n |-> IF p \in H THEN 4 * (Hunks!At(s, p + 1) % Hunks!Mask) ELSE 0]
           b == [p \in 1 .. l |-> IF p \in G THEN 4 * (Hunks!At(t, p + 1) % Hunks!Mask) ELSE 0]
<1>1. s \in Seq(Nat) /\ t \in Seq(Nat) /\ n \in Nat /\ l \in Nat /\ n < l /\ DOMAIN s = 1 .. n /\ DOMAIN t = 1 .. l
      /\ \A i \in 1 .. n : t[i] = s[i]
  BY NewPlace DEF OneMore
<1>2. Hunks!BytesOf(s, w) = Hunks!Sum(a) /\ Hunks!BytesOf(t, w) = Hunks!Sum(b)
  BY <1>1 DEF Hunks!BytesOf
<1>3. (\A p \in Nat : Hunks!At(s, p) \in Nat /\ Hunks!At(t, p) \in Nat)
  BY <1>1 DEF Hunks!At
<1>4. \A p \in Nat : 4 * (Hunks!At(s, p + 1) % Hunks!Mask) \in Nat /\ 4 * (Hunks!At(t, p + 1) % Hunks!Mask) \in Nat
  BY <1>3, HunkSizes
<1>5. G = H \union (IF m = "hunks" /\ t[n + 1] % Hunks!Mask \in {w} THEN {n + 1} ELSE {}) /\ H \subseteq 1 .. n
  BY HunksGrow
<1>6. ASSUME NEW p \in H PROVE Hunks!At(t, p + 1) = Hunks!At(s, p + 1)
  <2>1. p \in Hunks!HunksOf(s, Hunks!Sections)
    BY DEF Hunks!HunksOf
  <2>2. p + 1 \in 1 .. n /\ p + 1 \in 1 .. l
    BY <1>1, <2>1, SectionWhole
  <2> QED BY <1>1, <2>2 DEF Hunks!At
<1> HIDE DEF H, G, n, l
<1>7. a \in Seq(Nat) /\ Len(a) = n /\ b \in Seq(Nat) /\ Len(b) = l
  BY <1>1, <1>4
<1>8. \A i \in 1 .. n : b[i] = a[i]
  <2> SUFFICES ASSUME NEW i \in 1 .. n PROVE b[i] = a[i]
    OBVIOUS
  <2>1. i \in 1 .. l /\ (i \in G <=> i \in H)
    BY <1>1, <1>5
  <2> QED BY <1>6, <2>1
<1>9. \A i \in n + 2 .. l : b[i] = 0
  <2> SUFFICES ASSUME NEW i \in n + 2 .. l PROVE b[i] = 0
    OBVIOUS
  <2>1. i \in 1 .. l /\ i \notin G
    BY <1>1, <1>5
  <2> QED BY <2>1
<1>10. b[n + 1] = IF m = "hunks" /\ t[n + 1] % Hunks!Mask = w THEN 4 * (Hunks!At(t, n + 2) % Hunks!Mask) ELSE 0
  <2>1. n + 1 \in 1 .. l /\ n + 1 \notin H /\ (n + 1) + 1 = n + 2
    BY <1>1, <1>5
  <2>2. n + 1 \in G <=> m = "hunks" /\ t[n + 1] % Hunks!Mask = w
    BY <1>5, <2>1
  <2> QED BY <2>1, <2>2
<1> HIDE DEF a, b
<1>11. Hunks!Sum(a) \in Nat /\ Hunks!Sum(b) = Hunks!Sum(a) + b[n + 1]
  BY <1>1, <1>7, <1>8, <1>9, SumGoesOn
<1> QED BY <1>2, <1>10, <1>11 DEF n

LEMMA EntriesGrow ==
  ASSUME NEW s, NEW m, NEW t, NEW k, OneMore(s, m, t, k)
  PROVE  /\ Hunks!EntriesOf(s) \in Nat
         /\ Hunks!EntriesOf(t) =
              Hunks!EntriesOf(s) + (IF m = "reloc" /\ t[Len(s) + 1] # 0 THEN t[Len(s) + 1] ELSE 0)
<1> DEFINE n == Len(s)
           l == Len(t)
           H == Hunks!GroupsOf(s, "reloc")
           G == Hunks!GroupsOf(t, "reloc")
           a == [p \in 1 .. n |-> IF p \in H THEN s[p] ELSE 0]
           b == [p \in 1 .. l |-> IF p \in G THEN t[p] ELSE 0]
<1>1. s \in Seq(Nat) /\ t \in Seq(Nat) /\ n \in Nat /\ l \in Nat /\ n < l /\ DOMAIN s = 1 .. n /\ DOMAIN t = 1 .. l
      /\ \A i \in 1 .. n : t[i] = s[i]
  BY NewPlace DEF OneMore
<1>2. Hunks!EntriesOf(s) = Hunks!Sum(a) /\ Hunks!EntriesOf(t) = Hunks!Sum(b)
  BY <1>1 DEF Hunks!EntriesOf
<1>4. (\A p \in 1 .. n : s[p] \in Nat) /\ \A p \in 1 .. l : t[p] \in Nat
  BY <1>1
<1>5. G = H \union (IF m = "reloc" /\ t[n + 1] # 0 THEN {n + 1} ELSE {}) /\ H \subseteq 1 .. n
  <2>1. "reloc" \in Kinds
    BY DEF Kinds
  <2> QED BY <2>1, GroupsGrow
<1> HIDE DEF H, G, n, l
<1>7. a \in Seq(Nat) /\ Len(a) = n /\ b \in Seq(Nat) /\ Len(b) = l
  BY <1>1, <1>4
<1>8. \A i \in 1 .. n : b[i] = a[i]
  <2> SUFFICES ASSUME NEW i \in 1 .. n PROVE b[i] = a[i]
    OBVIOUS
  <2>1. i \in 1 .. l /\ (i \in G <=> i \in H)
    BY <1>1, <1>5
  <2> QED BY <1>1, <2>1
<1>9. \A i \in n + 2 .. l : b[i] = 0
  <2> SUFFICES ASSUME NEW i \in n + 2 .. l PROVE b[i] = 0
    OBVIOUS
  <2>1. i \in 1 .. l /\ i \notin G
    BY <1>1, <1>5
  <2> QED BY <2>1
<1>10. b[n + 1] = IF m = "reloc" /\ t[n + 1] # 0 THEN t[n + 1] ELSE 0
  <2>1. n + 1 \in 1 .. l /\ n + 1 \notin H
    BY <1>1, <1>5
  <2>2. n + 1 \in G <=> m = "reloc" /\ t[n + 1] # 0
    BY <1>5, <2>1
  <2> QED BY <2>1, <2>2
<1> HIDE DEF a, b
<1>11. Hunks!Sum(a) \in Nat /\ Hunks!Sum(b) = Hunks!Sum(a) + b[n + 1]
  BY <1>1, <1>7, <1>8, <1>9, SumGoesOn
<1> QED BY <1>2, <1>10, <1>11 DEF n

LEMMA SumRemains ==
  ASSUME NEW w \in Nat \ {0}, NEW a \in Nat, NEW x \in Nat
  PROVE  ((a % w) + x) % w = (a + x) % w
<1> DEFINE q == a \div w
           r == a % w
           p == (r + x) \div w
           e == (r + x) % w
<1>1. q \in Nat /\ a = q * w + r /\ r \in 0 .. w - 1
  BY QuotientIs
<1>2. r + x \in Nat
  BY <1>1
<1> HIDE DEF q, r
<1>3. p \in Nat /\ r + x = p * w + e /\ e \in 0 .. w - 1
  <2> DEFINE y == r + x
  <2>1. y \in Nat
    BY <1>2
  <2> HIDE DEF y
  <2>2. y \div w \in Nat /\ y = (y \div w) * w + (y % w)
    BY <2>1, QuotientIs
  <2>3. y % w \in 0 .. w - 1
    BY <2>1
  <2> QED BY <2>2, <2>3 DEF y
<1> HIDE DEF p, e
<1>4. a + x = e + (q + p) * w
  <2> DEFINE u == q * w
             v == p * w
  <2>1. (q + p) * w = u + v /\ u \in Nat /\ v \in Nat
    BY <1>1, <1>3
  <2>2. a = u + r /\ r + x = v + e /\ r \in Nat /\ e \in Nat
    BY <1>1, <1>3
  <2> HIDE DEF u, v
  <2>3. a + x = e + (u + v)
    BY <2>1, <2>2
  <2> QED BY <2>1, <2>3
<1>5. (e + (q + p) * w) % w = e
  <2>1. q + p \in Nat
    BY <1>1, <1>3
  <2> HIDE DEF e
  <2> QED BY <1>3, <2>1, Remainder
<1> QED BY <1>4, <1>5 DEF e, r

Bounded(s) ==
  /\ Hunks!BytesOf(s, Hunks!HUNK_CODE) <= 4 * Len(s)
  /\ Hunks!BytesOf(s, Hunks!HUNK_CODE + 1) <= 4 * Len(s)
  /\ Hunks!EntriesOf(s) <= Len(s)

(* The counters when what stands behind s is counted, too. *)
WithNext(s, m, t, c) ==
  LET w == t[Len(s) + 1]
      g == w % Hunks!Mask
      bytes == 4 * (Hunks!At(t, Len(s) + 2) % Hunks!Mask)
      If(b, x) == IF b THEN x ELSE 0
  IN [segments |-> Hunks!Plus(c.segments, If(m = "hunks" /\ g \in Hunks!Sections, 1)),
      code |-> Hunks!Plus(c.code, If(m = "hunks" /\ g = Hunks!HUNK_CODE, bytes)),
      data |-> Hunks!Plus(c.data, If(m = "hunks" /\ g = Hunks!HUNK_CODE + 1, bytes)),
      bss |-> Hunks!Plus(c.bss, If(m = "hunks" /\ g = Hunks!HUNK_BSS, bytes)),
      reloc |-> Hunks!Plus(c.reloc, If(m = "reloc" /\ w # 0, w)),
      symbols |-> Hunks!Plus(c.symbols, If(m = "symbols" /\ w # 0, 1)),
      debug |-> Hunks!Plus(c.debug, If(m = "hunks" /\ g = Hunks!HUNK_DEBUG, 1))]

LEMMA SectionsAre ==
  /\ Hunks!HUNK_CODE \in Hunks!Sections /\ Hunks!HUNK_CODE + 1 \in Hunks!Sections
  /\ Hunks!HUNK_BSS \in Hunks!Sections /\ Hunks!HUNK_BSS # Hunks!HUNK_CODE /\ Hunks!HUNK_BSS # Hunks!HUNK_CODE + 1
BY HunkSizes DEF Hunks!HUNK_CODE, Hunks!HUNK_BSS, Hunks!Sections

LEMMA BoundsGrow ==
  ASSUME NEW s, NEW m, NEW t, NEW k, OneMore(s, m, t, k), Bounded(s)
  PROVE  Bounded(t)
<1> DEFINE n == Len(s)
           l == Len(t)
           w == t[n + 1]
           x == Hunks!At(t, n + 2) % Hunks!Mask
           a == Hunks!After(t, <<n + 1, m>>)
<1>1. n \in Nat /\ l \in Nat /\ n < l /\ s \in Seq(Nat) /\ t \in Seq(Nat) /\ m \in Kinds
  BY NewPlace DEF OneMore
<1>2. w \in Nat /\ x \in Nat
  <2>1. w \in Nat /\ Hunks!At(t, n + 2) \in Nat
    BY <1>1 DEF Hunks!At
  <2> QED BY <2>1, HunkSizes
<1>3. a[1] = l + 1
  BY DEF OneMore
<1>4. Hunks!At(t, n + 1) = w /\ Hunks!At(t, (n + 1) + 1) = Hunks!At(t, n + 2)
  <2>1. n + 1 \in DOMAIN t /\ (n + 1) + 1 = n + 2
    BY <1>1
  <2> QED BY <2>1 DEF Hunks!At
<1>5. ASSUME NEW h \in {Hunks!HUNK_CODE, Hunks!HUNK_CODE + 1}, Hunks!BytesOf(s, h) <= 4 * n
      PROVE  Hunks!BytesOf(t, h) <= 4 * l
  <2> DEFINE b == Hunks!BytesOf(s, h)
             c == Hunks!BytesOf(t, h)
  <2>1. h \in Hunks!Sections /\ h # Hunks!HUNK_BSS
    BY SectionsAre
  <2>2. b \in Nat /\ c = b + (IF m = "hunks" /\ w % Hunks!Mask = h THEN 4 * x ELSE 0)
    BY <2>1, BytesGrow
  <2>3. m = "hunks" /\ w % Hunks!Mask = h => a = <<(n + 1) + 2 + x, "hunks">>
    BY <1>4, <2>1 DEF Hunks!After
  <2>4. m = "hunks" /\ w % Hunks!Mask = h => a[1] = (n + 1) + 2 + x
    <3> HIDE DEF a, x
    <3> QED BY <2>3
  <2> HIDE DEF a, x, n, l, b, c
  <2>5. c <= 4 * l
    BY <1>1, <1>2, <1>3, <1>5, <2>2, <2>4 DEF b
  <2> QED BY <2>5 DEF c, l
<1>6. Hunks!EntriesOf(t) <= l
  <2> DEFINE b == Hunks!EntriesOf(s)
             c == Hunks!EntriesOf(t)
  <2>1. b \in Nat /\ c = b + (IF m = "reloc" /\ w # 0 THEN w ELSE 0)
    BY EntriesGrow
  <2>2. b <= n
    BY DEF Bounded
  <2>3. m = "reloc" /\ w # 0 => a = <<(n + 1) + 2 + w, m>>
    BY <1>4 DEF Hunks!After
  <2>4. m = "reloc" /\ w # 0 => a[1] = (n + 1) + 2 + w
    <3> HIDE DEF a, w
    <3> QED BY <2>3
  <2> HIDE DEF a, w, n, l, b, c
  <2>5. c <= l
    BY <1>1, <1>2, <1>3, <2>1, <2>2, <2>4
  <2> QED BY <2>5 DEF c
<1>7. Hunks!BytesOf(s, Hunks!HUNK_CODE) <= 4 * n /\ Hunks!BytesOf(s, Hunks!HUNK_CODE + 1) <= 4 * n
  BY DEF Bounded
<1> QED BY <1>5, <1>6, <1>7 DEF Bounded

(* A counter below 2^32 counts right. *)
LEMMA PlusIs ==
  ASSUME NEW a \in Nat, NEW x \in Nat, a + x < FileWord
  PROVE  Hunks!Plus(a, x) = a + x
<1>1. a + x \in 0 .. FileWord - 1 /\ FileWord \in Nat \ {0}
  BY HunkSizes
<1> QED BY <1>1 DEF Hunks!Plus

LEMMA CountsGrow ==
  ASSUME NEW s, NEW m, NEW t, NEW k, OneMore(s, m, t, k), Bounded(s), Len(t) <= MaxWords
  PROVE  Hunks!Counted(t) = WithNext(s, m, t, Hunks!Counted(s))
<1> DEFINE n == Len(s)
           l == Len(t)
           w == t[n + 1]
           g == w % Hunks!Mask
           x == 4 * (Hunks!At(t, n + 2) % Hunks!Mask)
           If(b, y) == IF b THEN y ELSE 0
           Sec == Hunks!Sections
           C == Hunks!HUNK_CODE
           D == Hunks!HUNK_CODE + 1
           B == Hunks!HUNK_BSS
           G == Hunks!HUNK_DEBUG
           S(f) == Hunks!Plus(f[1], f[2])
<1>1. n \in Nat /\ l \in Nat /\ n < l /\ s \in Seq(Nat) /\ t \in Seq(Nat) /\ m \in Kinds
  BY NewPlace DEF OneMore
<1>2. w \in Nat /\ x \in Nat
  <2>1. w \in Nat /\ Hunks!At(t, n + 2) \in Nat
    BY <1>1 DEF Hunks!At
  <2> QED BY <2>1, HunkSizes
<1>3. 4 * l < FileWord /\ l < FileWord /\ FileWord \in Nat \ {0} /\ MaxWords \in Nat
  <2>1. 4 * MaxWords < FileWord /\ MaxWords \in Nat /\ FileWord \in Nat \ {0}
    BY HunkSizes
  <2> HIDE DEF l
  <2> QED BY <1>1, <2>1 DEF l
<1>4. ASSUME NEW c \in Nat, NEW d \in Nat, NEW y \in Nat, d = c + y, d <= 4 * l
      PROVE  d = Hunks!Plus(c, y)
  <2>1. c + y < FileWord
    <3> HIDE DEF l
    <3> QED BY <1>1, <1>3, <1>4
  <2> QED BY <1>4, <2>1, PlusIs
<1>5. Bounded(t)
  BY BoundsGrow
<1>6. ASSUME NEW h \in {C, D}
      PROVE  Hunks!BytesOf(t, h) = Hunks!Plus(Hunks!BytesOf(s, h), If(m = "hunks" /\ g = h, x))
  <2> DEFINE a == Hunks!BytesOf(s, h)
             d == Hunks!BytesOf(t, h)
             y == If(m = "hunks" /\ g = h, x)
  <2>1. h \in Sec
    BY SectionsAre
  <2>2. a \in Nat /\ d = a + y
    BY <2>1, BytesGrow
  <2>3. d <= 4 * l
    BY <1>5 DEF Bounded
  <2>4. y \in Nat
    BY <1>2
  <2>5. d \in Nat
    <3> HIDE DEF a, d, y
    <3> QED BY <2>2, <2>4
  <2> HIDE DEF a, d, y
  <2>6. d = Hunks!Plus(a, y)
    BY <1>4, <2>2, <2>3, <2>4, <2>5
  <2> QED BY <2>6 DEF a, d, y
<1>7. Hunks!BytesOf(t, B) % FileWord =
        Hunks!Plus(Hunks!BytesOf(s, B) % FileWord, If(m = "hunks" /\ g = B, x))
  <2> DEFINE a == Hunks!BytesOf(s, B)
             d == Hunks!BytesOf(t, B)
             y == If(m = "hunks" /\ g = B, x)
  <2>1. a \in Nat /\ d = a + y
    BY SectionsAre, BytesGrow
  <2>2. y \in Nat
    BY <1>2
  <2> HIDE DEF a, d, y
  <2>3. ((a % FileWord) + y) % FileWord = (a + y) % FileWord
    BY <1>3, <2>1, <2>2, SumRemains
  <2>4. d % FileWord = Hunks!Plus(a % FileWord, y)
    BY <2>1, <2>3 DEF Hunks!Plus
  <2> QED BY <2>4 DEF a, d, y
<1>8. Hunks!EntriesOf(t) = Hunks!Plus(Hunks!EntriesOf(s), If(m = "reloc" /\ w # 0, w))
  <2> DEFINE a == Hunks!EntriesOf(s)
             d == Hunks!EntriesOf(t)
             y == If(m = "reloc" /\ w # 0, w)
  <2>1. a \in Nat /\ d = a + y
    BY EntriesGrow
  <2>2. d <= l
    BY <1>5 DEF Bounded
  <2>3. y \in Nat
    BY <1>2
  <2> HIDE DEF a, d, y, l
  <2>4. d \in Nat /\ d <= 4 * l
    BY <1>1, <2>1, <2>2, <2>3
  <2>5. d = Hunks!Plus(a, y)
    BY <1>4, <2>1, <2>3, <2>4 DEF l
  <2> QED BY <2>5 DEF a, d, y
<1>9. ASSUME NEW X, NEW Y, NEW b \in BOOLEAN, X \subseteq 1 .. n, Y = X \union (IF b THEN {n + 1} ELSE {})
      PROVE  Cardinality(Y) = Hunks!Plus(Cardinality(X), If(b, 1))
  <2> DEFINE a == Cardinality(X)
             d == Cardinality(Y)
             y == If(b, 1)
  <2>1. a \in Nat /\ a <= n /\ Cardinality(X \union {n + 1}) = a + 1
    BY <1>1, <1>9, OneMoreCounted
  <2>2. d = a + y /\ y \in {0, 1}
    <3>1. CASE b
      BY <1>9, <2>1, <3>1
    <3>2. CASE ~ b
      <4>1. Y = X
        BY <1>9, <3>2
      <4> QED BY <2>1, <3>2, <4>1
    <3> QED BY <3>1, <3>2
  <2> HIDE DEF a, d, y, l, n
  <2>3. d \in Nat /\ d <= 4 * l
    BY <1>1, <2>1, <2>2
  <2>4. d = Hunks!Plus(a, y)
    BY <1>4, <2>1, <2>2, <2>3 DEF l
  <2> QED BY <2>4 DEF a, d, y
<1>10. Cardinality(Hunks!HunksOf(t, Sec)) =
         Hunks!Plus(Cardinality(Hunks!HunksOf(s, Sec)), If(m = "hunks" /\ g \in Sec, 1))
  <2> DEFINE X == Hunks!HunksOf(s, Sec)
             Y == Hunks!HunksOf(t, Sec)
             b == m = "hunks" /\ g \in Sec
  <2>1. X \subseteq 1 .. n /\ Y = X \union (IF b THEN {n + 1} ELSE {}) /\ b \in BOOLEAN
    BY HunksGrow
  <2> HIDE DEF X, Y, b
  <2>2. Cardinality(Y) = Hunks!Plus(Cardinality(X), If(b, 1))
    BY <1>9, <2>1
  <2> QED BY <2>2 DEF X, Y, b
<1>11. Cardinality(Hunks!HunksOf(t, {G})) =
         Hunks!Plus(Cardinality(Hunks!HunksOf(s, {G})), If(m = "hunks" /\ g = G, 1))
  <2> DEFINE X == Hunks!HunksOf(s, {G})
             Y == Hunks!HunksOf(t, {G})
             b == m = "hunks" /\ g = G
  <2>1. X \subseteq 1 .. n /\ Y = X \union (IF m = "hunks" /\ g \in {G} THEN {n + 1} ELSE {})
    BY HunksGrow
  <2>2. g \in {G} <=> g = G
    OBVIOUS
  <2>3. X \subseteq 1 .. n /\ Y = X \union (IF b THEN {n + 1} ELSE {}) /\ b \in BOOLEAN
    <3> HIDE DEF X, Y
    <3> QED BY <2>1, <2>2
  <2> HIDE DEF X, Y, b
  <2>4. Cardinality(Y) = Hunks!Plus(Cardinality(X), If(b, 1))
    BY <1>9, <2>3
  <2> QED BY <2>4 DEF X, Y, b
<1>12. Cardinality(Hunks!GroupsOf(t, "symbols")) =
         Hunks!Plus(Cardinality(Hunks!GroupsOf(s, "symbols")), If(m = "symbols" /\ w # 0, 1))
  <2> DEFINE X == Hunks!GroupsOf(s, "symbols")
             Y == Hunks!GroupsOf(t, "symbols")
             b == m = "symbols" /\ w # 0
  <2>0. "symbols" \in Kinds
    BY DEF Kinds
  <2>1. X \subseteq 1 .. n /\ Y = X \union (IF b THEN {n + 1} ELSE {}) /\ b \in BOOLEAN
    BY <2>0, GroupsGrow
  <2> HIDE DEF X, Y, b
  <2>2. Cardinality(Y) = Hunks!Plus(Cardinality(X), If(b, 1))
    BY <1>9, <2>1
  <2> QED BY <2>2 DEF X, Y, b
<1>13. /\ Hunks!BytesOf(t, C) = Hunks!Plus(Hunks!BytesOf(s, C), If(m = "hunks" /\ g = C, x))
       /\ Hunks!BytesOf(t, D) = Hunks!Plus(Hunks!BytesOf(s, D), If(m = "hunks" /\ g = D, x))
  BY <1>6
<1> DEFINE c == Hunks!Counted(s)
           d == Hunks!Counted(t)
           e == WithNext(s, m, t, c)
<1>14. /\ c.segments = Cardinality(Hunks!HunksOf(s, Sec)) /\ c.code = Hunks!BytesOf(s, C)
       /\ c.data = Hunks!BytesOf(s, D) /\ c.bss = Hunks!BytesOf(s, B) % FileWord
       /\ c.reloc = Hunks!EntriesOf(s) /\ c.symbols = Cardinality(Hunks!GroupsOf(s, "symbols"))
       /\ c.debug = Cardinality(Hunks!HunksOf(s, {G}))
  BY DEF Hunks!Counted, Cardinality, Hunks!Cardinality, IsFiniteSet, Hunks!IsFiniteSet
<1> HIDE DEF c
<1>15. e = [segments |-> Hunks!Plus(c.segments, If(m = "hunks" /\ g \in Sec, 1)),
            code |-> Hunks!Plus(c.code, If(m = "hunks" /\ g = C, x)),
            data |-> Hunks!Plus(c.data, If(m = "hunks" /\ g = D, x)),
            bss |-> Hunks!Plus(c.bss, If(m = "hunks" /\ g = B, x)),
            reloc |-> Hunks!Plus(c.reloc, If(m = "reloc" /\ w # 0, w)),
            symbols |-> Hunks!Plus(c.symbols, If(m = "symbols" /\ w # 0, 1)),
            debug |-> Hunks!Plus(c.debug, If(m = "hunks" /\ g = G, 1))]
  BY DEF WithNext
<1>16. d = [segments |-> Cardinality(Hunks!HunksOf(t, Sec)),
            code |-> Hunks!BytesOf(t, C), data |-> Hunks!BytesOf(t, D),
            bss |-> Hunks!BytesOf(t, B) % FileWord,
            reloc |-> Hunks!EntriesOf(t), symbols |-> Cardinality(Hunks!GroupsOf(t, "symbols")),
            debug |-> Cardinality(Hunks!HunksOf(t, {G}))]
  BY DEF Hunks!Counted, Cardinality, Hunks!Cardinality, IsFiniteSet, Hunks!IsFiniteSet
<1> HIDE DEF d, e, Sec, C, D, B, G, If, x, g, w
<1>17. d = e
  BY <1>7, <1>8, <1>10, <1>11, <1>12, <1>13, <1>14, <1>15, <1>16
<1> QED BY <1>17 DEF d, e, c

(* What the counters are, and what they count right so far.                *)
Counters == [segments : Words, code : Words, data : Words, bss : Words,
             reloc : Words, symbols : Words, debug : Words]

Right(s, m, c) == ReadTo(s, m) /\ Hunks!Known(s) /\ Bounded(s) /\ c = Hunks!Counted(s)

LEMMA TypesDiffer ==
  /\ Hunks!HUNK_CODE = HUNK_UNIT + 2 /\ Hunks!HUNK_BSS = HUNK_UNIT + 4
  /\ Hunks!HUNK_RELOC32 = HUNK_UNIT + 5 /\ Hunks!HUNK_SYMBOL = HUNK_UNIT + 9
  /\ Hunks!HUNK_DEBUG = HUNK_UNIT + 10 /\ Hunks!HUNK_END = HUNK_UNIT + 11
  /\ Hunks!Sections = {HUNK_UNIT + 2, HUNK_UNIT + 3, HUNK_UNIT + 4}
  /\ Hunks!Skipped = {HUNK_UNIT, HUNK_UNIT + 1, HUNK_UNIT + 10}
  /\ Hunks!Supported = Hunks!Sections \union Hunks!Skipped \union
                         {HUNK_UNIT + 5, HUNK_UNIT + 9, HUNK_UNIT + 11}
  /\ HUNK_UNIT \in Nat
<1>1. HUNK_UNIT \in Nat /\ (HUNK_UNIT + 2) + 1 = HUNK_UNIT + 3
  BY HunkSizes
<1> QED BY <1>1 DEF Hunks!HUNK_CODE, Hunks!HUNK_BSS, Hunks!HUNK_RELOC32, Hunks!HUNK_SYMBOL, Hunks!HUNK_DEBUG,
              Hunks!HUNK_END, Hunks!Sections, Hunks!Skipped, Hunks!Supported

LEMMA PlusNothing ==
  ASSUME NEW a \in Words
  PROVE  Hunks!Plus(a, 0) = a
<1>1. a \in 0 .. FileWord - 1 /\ FileWord \in Nat \ {0} /\ a + 0 = a
  BY HunkSizes DEF Words
<1>2. a % FileWord = a
  BY <1>1
<1> QED BY <1>1, <1>2 DEF Hunks!Plus

LEMMA PlusStays ==
  ASSUME NEW a \in Words, NEW x \in Nat
  PROVE  Hunks!Plus(a, x) \in Words
<1> DEFINE e == a + x
<1>1. e \in Nat /\ FileWord \in Nat \ {0}
  BY HunkSizes DEF Words
<1> HIDE DEF e
<1>2. e % FileWord \in 0 .. FileWord - 1
  BY <1>1
<1> QED BY <1>2 DEF e, Words, Hunks!Plus

(* One step of the reading keeps the account right. *)
LEMMA GoesRight ==
  ASSUME NEW s, NEW m, NEW t, NEW k, NEW c, OneMore(s, m, t, k), Right(s, m, c), Len(t) <= MaxWords,
         m = "hunks" => t[Len(s) + 1] % Hunks!Mask \in Hunks!Supported
  PROVE  Right(t, k, WithNext(s, m, t, c))
<1>1. /\ s \in Seq(Nat) /\ t \in Seq(Nat) /\ m \in Kinds /\ k \in Kinds
      /\ ReadTo(s, m) /\ Extends(t, s) /\ Hunks!After(t, <<Len(s) + 1, m>>) = <<Len(t) + 1, k>>
  BY DEF OneMore
<1>2. ReadTo(t, k)
  BY <1>1, ReadsOn
<1>3. Hunks!Known(s) /\ Bounded(s) /\ c = Hunks!Counted(s)
  BY DEF Right
<1>4. Bounded(t)
  BY <1>3, BoundsGrow
<1>5. Hunks!Counted(t) = WithNext(s, m, t, c)
  BY <1>3, CountsGrow
<1>6. Hunks!Known(t)
  <2> DEFINE R == Hunks!Reading(s)
             Q == Hunks!Reading(t)
             n == Len(s)
  <2>1. SUFFICES ASSUME NEW p \in DOMAIN t, <<p, "hunks">> \in Q
                 PROVE  t[p] % Hunks!Mask \in Hunks!Supported
    BY DEF Hunks!Known
  <2>2. p \in 1 .. Len(t) /\ "hunks" \in Kinds /\ DOMAIN s = 1 .. n
    BY <1>1, <2>1 DEF Kinds
  <2>3. (p \in 1 .. n /\ <<p, "hunks">> \in R /\ t[p] = s[p]) \/ (p = n + 1 /\ m = "hunks")
    BY <2>1, <2>2, NewPlace
  <2>4. \A q \in 1 .. n : <<q, "hunks">> \in R => s[q] % Hunks!Mask \in Hunks!Supported
    BY <1>3, <2>2 DEF Hunks!Known
  <2> HIDE DEF R, Q
  <2> QED BY <2>3, <2>4
<1> QED BY <1>2, <1>4, <1>5, <1>6 DEF Right

(* The words that are read, and the payload behind them. *)
Stretch(s, ws, n) == s \o ws \o Hunks!Payload(n)

Holds(t, n, ws) == \A i \in 1 .. Len(ws) : Hunks!At(t, n + i) = ws[i] /\ t[n + i] = ws[i]

LEMMA Stretched ==
  ASSUME NEW s \in Seq(Nat), NEW ws \in Seq(Nat), NEW n \in Nat, Len(ws) > 0, NEW t, t = Stretch(s, ws, n)
  PROVE  /\ t \in Seq(Nat) /\ Len(t) = Len(s) + Len(ws) + n /\ Len(s) \in Nat
         /\ Extends(t, s) /\ Holds(t, Len(s), ws)
<1> DEFINE z == Hunks!Payload(n)
           a == s \o ws
           b == a \o z
<1>1. z \in Seq(Nat) /\ Len(z) = n
  BY DEF Hunks!Payload
<1>0. t = b
  BY DEF b, a, z, Stretch
<1> HIDE DEF z
<1>2. /\ a \in Seq(Nat) /\ Len(a) = Len(s) + Len(ws)
      /\ \A j \in 1 .. Len(s) : a[j] = s[j]
      /\ \A j \in 1 .. Len(ws) : a[Len(s) + j] = ws[j]
  BY Joined
<1> HIDE DEF a
<1>3. /\ b \in Seq(Nat) /\ Len(b) = Len(a) + Len(z)
      /\ \A j \in 1 .. Len(a) : b[j] = a[j]
      /\ \A j \in 1 .. Len(z) : b[Len(a) + j] = z[j]
  <2>1. a \in Seq(Nat) /\ z \in Seq(Nat)
    BY <1>1, <1>2
  <2> QED BY <2>1, Joined
<1> HIDE DEF b
<1>4. Len(s) \in Nat /\ Len(ws) \in Nat
  OBVIOUS
<1>5. /\ t \in Seq(Nat) /\ Len(t) = Len(s) + Len(ws) + n
      /\ \A j \in 1 .. Len(s) + Len(ws) : t[j] = a[j]
  BY <1>0, <1>1, <1>2, <1>3
<1>6. \A j \in 1 .. Len(s) : t[j] = s[j]
  BY <1>2, <1>4, <1>5
<1>7. Len(t) > Len(s)
  BY <1>4, <1>5
<1>8. ASSUME NEW i \in 1 .. Len(ws)
      PROVE  Hunks!At(t, Len(s) + i) = ws[i] /\ t[Len(s) + i] = ws[i]
  <2>1. t[Len(s) + i] = ws[i]
    <3> DEFINE j == Len(s) + i
    <3>1. j \in 1 .. Len(s) + Len(ws) /\ a[j] = ws[i]
      BY <1>2, <1>4
    <3> HIDE DEF j
    <3>2. t[j] = ws[i]
      BY <1>5, <3>1
    <3> QED BY <3>2 DEF j
  <2>2. Len(s) + i \in DOMAIN t
    <3>1. Len(s) + i \in 1 .. Len(t)
      BY <1>4, <1>5
    <3> QED BY <1>5, <3>1
  <2> QED BY <2>1, <2>2 DEF Hunks!At
<1> QED BY <1>4, <1>5, <1>6, <1>7, <1>8 DEF Extends, Holds

(* One word, and two. *)
LEMMA OneWord ==
  ASSUME NEW s \in Seq(Nat), NEW w \in Nat, NEW t, t = Stretch(s, <<w>>, 0)
  PROVE  /\ t \in Seq(Nat) /\ Len(t) = Len(s) + 1 /\ Len(s) \in Nat /\ Extends(t, s)
         /\ Hunks!At(t, Len(s) + 1) = w /\ t[Len(s) + 1] = w
<1> DEFINE ws == <<w>>
<1>1. ws \in Seq(Nat) /\ Len(ws) = 1 /\ ws[1] = w /\ 0 \in Nat
  OBVIOUS
<1>2. t = Stretch(s, ws, 0)
  OBVIOUS
<1> HIDE DEF ws
<1>3. /\ t \in Seq(Nat) /\ Len(t) = Len(s) + Len(ws) + 0 /\ Len(s) \in Nat
      /\ Extends(t, s) /\ Holds(t, Len(s), ws)
  <2>1. Len(ws) > 0 /\ 0 \in Nat
    BY <1>1
  <2> QED BY <1>1, <1>2, <2>1, Stretched
<1>4. 1 \in 1 .. Len(ws)
  BY <1>1
<1>5. Hunks!At(t, Len(s) + 1) = w /\ t[Len(s) + 1] = w
  BY <1>1, <1>3, <1>4, Zenon DEF Holds
<1>6. Len(t) = Len(s) + 1
  <2> DEFINE n == Len(s)
             l == Len(t)
  <2>1. l = n + Len(ws) + 0 /\ n \in Nat
    BY <1>3, Zenon
  <2> HIDE DEF n, l
  <2>2. l = n + 1
    BY <1>1, <2>1
  <2> QED BY <2>2 DEF n, l
<1> QED BY <1>3, <1>5, <1>6, Zenon

TwoThere(s, w, x, n, t) ==
  /\ t \in Seq(Nat) /\ Len(t) = Len(s) + 2 + n /\ Len(s) \in Nat /\ Extends(t, s)
  /\ Hunks!At(t, Len(s) + 1) = w /\ t[Len(s) + 1] = w
  /\ Hunks!At(t, Len(s) + 2) = x

LEMMA TwoRead ==
  ASSUME NEW s \in Seq(Nat), NEW w \in Nat, NEW x \in Nat, NEW n \in Nat, NEW t,
         t = Stretch(s, <<w, x>>, n)
  PROVE  TwoThere(s, w, x, n, t)
<1> DEFINE ws == <<w, x>>
<1>1. ws \in Seq(Nat) /\ Len(ws) = 2 /\ ws[1] = w /\ ws[2] = x
  OBVIOUS
<1>2. t = Stretch(s, ws, n)
  OBVIOUS
<1> HIDE DEF ws
<1>3. /\ t \in Seq(Nat) /\ Len(t) = Len(s) + Len(ws) + n /\ Len(s) \in Nat
      /\ Extends(t, s) /\ Holds(t, Len(s), ws)
  <2>1. Len(ws) > 0 /\ n \in Nat
    BY <1>1
  <2> QED BY <1>1, <1>2, <2>1, Stretched
<1>4. 1 \in 1 .. Len(ws) /\ 2 \in 1 .. Len(ws)
  BY <1>1
<1>5. /\ Hunks!At(t, Len(s) + 1) = w /\ t[Len(s) + 1] = w
      /\ Hunks!At(t, Len(s) + 2) = x
  BY <1>1, <1>3, <1>4, Zenon DEF Holds
<1>6. Len(t) = Len(s) + 2 + n
  BY <1>1, <1>3
<1> QED BY <1>3, <1>5, <1>6, Zenon DEF TwoThere

(* Where the reading goes on behind each kind of step. *)
LEMMA TwoMore ==
  ASSUME NEW s \in Seq(Nat), NEW m \in Kinds, ReadTo(s, m), NEW k \in Kinds, NEW w \in Nat, NEW x \in Nat,
         NEW n \in Nat, NEW t, t = Stretch(s, <<w, x>>, n),
         Hunks!After(t, <<Len(s) + 1, m>>) = <<(Len(s) + 1) + 2 + n, k>>
  PROVE  /\ OneMore(s, m, t, k) /\ t \in Seq(Nat)
         /\ t[Len(s) + 1] = w /\ Hunks!At(t, Len(s) + 2) = x
<1>1. /\ t \in Seq(Nat) /\ Len(t) = Len(s) + 2 + n /\ Len(s) \in Nat /\ Extends(t, s)
      /\ Hunks!At(t, Len(s) + 1) = w /\ t[Len(s) + 1] = w
      /\ Hunks!At(t, Len(s) + 2) = x
  <2>1. TwoThere(s, w, x, n, t)
    BY TwoRead
  <2> QED BY <2>1, Zenon DEF TwoThere
<1>2. (Len(s) + 1) + 2 + n = Len(t) + 1
  <2> DEFINE l == Len(t)
             e == Len(s)
  <2>1. l = e + 2 + n /\ e \in Nat
    BY <1>1, Zenon
  <2> HIDE DEF l, e
  <2>2. (e + 1) + 2 + n = l + 1
    BY <2>1
  <2> QED BY <2>2 DEF e, l
<1> QED BY <1>1, <1>2 DEF OneMore

LEMMA SectionRead ==
  ASSUME NEW s \in Seq(Nat), ReadTo(s, "hunks"), NEW w \in Nat, NEW x \in Nat, NEW n \in Nat, NEW t,
         w % Hunks!Mask \in Hunks!Sections,
         n = IF w % Hunks!Mask = Hunks!HUNK_BSS THEN 0 ELSE x % Hunks!Mask,
         t = Stretch(s, <<w, x>>, n)
  PROVE  /\ OneMore(s, "hunks", t, "hunks") /\ t \in Seq(Nat)
         /\ t[Len(s) + 1] = w /\ Hunks!At(t, Len(s) + 2) = x
<1> DEFINE p == Len(s) + 1
           g == w % Hunks!Mask
<1>1. /\ Hunks!At(t, p) = w /\ Hunks!At(t, Len(s) + 2) = x /\ Len(s) \in Nat
  <2>1. n \in Nat
    OBVIOUS
  <2>2. TwoThere(s, w, x, n, t)
    BY <2>1, TwoRead
  <2> QED BY <2>2, Zenon DEF TwoThere
<1>2. p + 1 = Len(s) + 2 /\ p + 2 + 0 = p + 2 /\ p \in Nat
  BY <1>1
<1>3. Hunks!At(t, p + 1) = x
  BY <1>1, <1>2
<1>4. "hunks" \in Kinds
  BY DEF Kinds
<1>5. Hunks!After(t, <<p, "hunks">>) = <<p + 2 + n, "hunks">>
  <2> HIDE DEF p
  <2> QED BY <1>1, <1>2, <1>3 DEF Hunks!After
<1> QED BY <1>4, <1>5, TwoMore

LEMMA SkippedRead ==
  ASSUME NEW s \in Seq(Nat), ReadTo(s, "hunks"), NEW w \in Nat, NEW x \in Nat, NEW t,
         w % Hunks!Mask \in Hunks!Skipped, t = Stretch(s, <<w, x>>, x)
  PROVE  /\ OneMore(s, "hunks", t, "hunks") /\ t \in Seq(Nat)
         /\ t[Len(s) + 1] = w /\ Hunks!At(t, Len(s) + 2) = x
<1> DEFINE p == Len(s) + 1
           g == w % Hunks!Mask
<1>1. /\ Hunks!At(t, p) = w /\ Hunks!At(t, Len(s) + 2) = x /\ Len(s) \in Nat
  <2>1. TwoThere(s, w, x, x, t)
    BY TwoRead
  <2> QED BY <2>1, Zenon DEF TwoThere
<1>2. p + 1 = Len(s) + 2 /\ p \in Nat
  BY <1>1
<1>3. Hunks!At(t, p + 1) = x
  BY <1>1, <1>2
<1>4. "hunks" \in Kinds
  BY DEF Kinds
<1>5. g # Hunks!HUNK_BSS /\ g \notin Hunks!Sections /\ g \in Hunks!Skipped
  <2> HIDE DEF g
  <2> QED BY TypesDiffer DEF g
<1>6. Hunks!After(t, <<p, "hunks">>) = <<p + 2 + x, "hunks">>
  <2> HIDE DEF p
  <2> QED BY <1>1, <1>2, <1>3, <1>5 DEF Hunks!After
<1> QED BY <1>4, <1>6, TwoMore

(* A group of relocations, a symbol. *)
LEMMA GroupRead ==
  ASSUME NEW s \in Seq(Nat), NEW m \in Kinds \ {"hunks"}, ReadTo(s, m), NEW w \in Nat \ {0}, NEW x \in Nat,
         NEW t, t = Stretch(s, <<w, x>>, w)
  PROVE  OneMore(s, m, t, m) /\ t \in Seq(Nat) /\ t[Len(s) + 1] = w
<1> DEFINE p == Len(s) + 1
<1>1. /\ Hunks!At(t, p) = w /\ Len(s) \in Nat /\ w \in Nat
  <2>1. TwoThere(s, w, x, w, t)
    BY TwoRead
  <2> QED BY <2>1, Zenon DEF TwoThere
<1>2. Hunks!After(t, <<p, m>>) = <<p + 2 + w, m>>
  <2> HIDE DEF p
  <2> QED BY <1>1 DEF Hunks!After
<1> QED BY <1>1, <1>2, TwoMore

(* A word that is read by itself: the beginning or the end of a list, and  *)
(* the type that is refused.                                               *)
LEMMA WordRead ==
  ASSUME NEW s \in Seq(Nat), NEW m \in Kinds, ReadTo(s, m), NEW k \in Kinds, NEW w \in Nat,
         NEW t, t = Stretch(s, <<w>>, 0),
         \/ m = "hunks" /\ w % Hunks!Mask = Hunks!HUNK_RELOC32 /\ k = "reloc"
         \/ m = "hunks" /\ w % Hunks!Mask = Hunks!HUNK_SYMBOL /\ k = "symbols"
         \/ m = "hunks" /\ w % Hunks!Mask = Hunks!HUNK_END /\ k = "hunks"
         \/ m = "hunks" /\ w % Hunks!Mask \notin Hunks!Supported /\ k = "hunks"
         \/ m # "hunks" /\ w = 0 /\ k = "hunks"
  PROVE  OneMore(s, m, t, k) /\ t \in Seq(Nat) /\ t[Len(s) + 1] = w /\ Len(t) = Len(s) + 1
<1> DEFINE p == Len(s) + 1
           g == w % Hunks!Mask
<1>1. /\ t \in Seq(Nat) /\ Len(t) = Len(s) + 1 /\ Len(s) \in Nat /\ Extends(t, s)
      /\ Hunks!At(t, p) = w /\ t[p] = w
  BY OneWord
<1>2. p + 1 = Len(t) + 1 /\ p \in Nat
  BY <1>1
<1>3. Hunks!After(t, <<p, m>>) = <<p + 1, k>>
  <2>1. CASE m # "hunks"
    <3> HIDE DEF p
    <3> QED BY <1>1, <2>1 DEF Hunks!After
  <2>2. CASE m = "hunks"
    <3>1. g # Hunks!HUNK_BSS /\ g \notin Hunks!Sections /\ g \notin Hunks!Skipped
      <4> HIDE DEF g
      <4> QED BY <2>2, TypesDiffer DEF g
    <3>2. /\ g = Hunks!HUNK_RELOC32 => k = "reloc"
          /\ g # Hunks!HUNK_RELOC32 /\ g = Hunks!HUNK_SYMBOL => k = "symbols"
          /\ g # Hunks!HUNK_RELOC32 /\ g # Hunks!HUNK_SYMBOL => k = "hunks"
      <4> HIDE DEF g
      <4> QED BY <2>2, TypesDiffer DEF g
    <3> HIDE DEF p
    <3> QED BY <1>1, <2>2, <3>1, <3>2 DEF Hunks!After
  <2> QED BY <2>1, <2>2
<1> QED BY <1>1, <1>2, <1>3 DEF OneMore

(* What the counters become at each kind of step. *)
Stepped(p, w, g, bytes, c) ==
  [segments |-> IF p = "hunks" /\ g \in Hunks!Sections THEN Hunks!Plus(c.segments, 1) ELSE c.segments,
   code |-> IF p = "hunks" /\ g = Hunks!HUNK_CODE THEN Hunks!Plus(c.code, bytes) ELSE c.code,
   data |-> IF p = "hunks" /\ g = Hunks!HUNK_CODE + 1 THEN Hunks!Plus(c.data, bytes) ELSE c.data,
   bss |-> IF p = "hunks" /\ g = Hunks!HUNK_BSS THEN Hunks!Plus(c.bss, bytes) ELSE c.bss,
   reloc |-> IF p = "reloc" /\ w # 0 THEN Hunks!Plus(c.reloc, w) ELSE c.reloc,
   symbols |-> IF p = "symbols" /\ w # 0 THEN Hunks!Plus(c.symbols, 1) ELSE c.symbols,
   debug |-> IF p = "hunks" /\ g = Hunks!HUNK_DEBUG THEN Hunks!Plus(c.debug, 1) ELSE c.debug]

LEMMA NextCounters ==
  ASSUME NEW c \in Counters, NEW s, NEW p, NEW t, NEW w, NEW x, NEW g, NEW bytes,
         t[Len(s) + 1] = w, Hunks!At(t, Len(s) + 2) = x, g = w % Hunks!Mask, bytes = 4 * (x % Hunks!Mask)
  PROVE  WithNext(s, p, t, c) = Stepped(p, w, g, bytes, c)
<1> DEFINE If(b, y) == IF b THEN y ELSE 0
           D == Hunks!HUNK_CODE + 1
           i == c.segments
           j == c.code
           k == c.data
           l == c.bss
           m == c.reloc
           n == c.symbols
           o == c.debug
<1>1. WithNext(s, p, t, c) =
        [segments |-> Hunks!Plus(i, If(p = "hunks" /\ g \in Hunks!Sections, 1)),
         code |-> Hunks!Plus(j, If(p = "hunks" /\ g = Hunks!HUNK_CODE, bytes)),
         data |-> Hunks!Plus(k, If(p = "hunks" /\ g = D, bytes)),
         bss |-> Hunks!Plus(l, If(p = "hunks" /\ g = Hunks!HUNK_BSS, bytes)),
         reloc |-> Hunks!Plus(m, If(p = "reloc" /\ w # 0, w)),
         symbols |-> Hunks!Plus(n, If(p = "symbols" /\ w # 0, 1)),
         debug |-> Hunks!Plus(o, If(p = "hunks" /\ g = Hunks!HUNK_DEBUG, 1))]
  BY DEF WithNext
<1>3. i \in Words /\ j \in Words /\ k \in Words /\ l \in Words /\ m \in Words /\ n \in Words /\ o \in Words
  BY DEF Counters
<1>4. Stepped(p, w, g, bytes, c) =
        [segments |-> IF p = "hunks" /\ g \in Hunks!Sections THEN Hunks!Plus(i, 1) ELSE i,
         code |-> IF p = "hunks" /\ g = Hunks!HUNK_CODE THEN Hunks!Plus(j, bytes) ELSE j,
         data |-> IF p = "hunks" /\ g = D THEN Hunks!Plus(k, bytes) ELSE k,
         bss |-> IF p = "hunks" /\ g = Hunks!HUNK_BSS THEN Hunks!Plus(l, bytes) ELSE l,
         reloc |-> IF p = "reloc" /\ w # 0 THEN Hunks!Plus(m, w) ELSE m,
         symbols |-> IF p = "symbols" /\ w # 0 THEN Hunks!Plus(n, 1) ELSE n,
         debug |-> IF p = "hunks" /\ g = Hunks!HUNK_DEBUG THEN Hunks!Plus(o, 1) ELSE o]
  BY Zenon DEF Stepped
<1>2. /\ Hunks!Plus(i, 0) = i /\ Hunks!Plus(j, 0) = j /\ Hunks!Plus(k, 0) = k /\ Hunks!Plus(l, 0) = l
      /\ Hunks!Plus(m, 0) = m /\ Hunks!Plus(n, 0) = n /\ Hunks!Plus(o, 0) = o
  <2> HIDE DEF i, j, k, l, m, n, o
  <2> QED BY <1>3, PlusNothing
<1> HIDE DEF If, D, i, j, k, l, m, n, o
<1>5. /\ Hunks!Plus(i, If(p = "hunks" /\ g \in Hunks!Sections, 1)) =
           IF p = "hunks" /\ g \in Hunks!Sections THEN Hunks!Plus(i, 1) ELSE i
      /\ Hunks!Plus(j, If(p = "hunks" /\ g = Hunks!HUNK_CODE, bytes)) =
           IF p = "hunks" /\ g = Hunks!HUNK_CODE THEN Hunks!Plus(j, bytes) ELSE j
      /\ Hunks!Plus(k, If(p = "hunks" /\ g = D, bytes)) =
           IF p = "hunks" /\ g = D THEN Hunks!Plus(k, bytes) ELSE k
      /\ Hunks!Plus(l, If(p = "hunks" /\ g = Hunks!HUNK_BSS, bytes)) =
           IF p = "hunks" /\ g = Hunks!HUNK_BSS THEN Hunks!Plus(l, bytes) ELSE l
      /\ Hunks!Plus(m, If(p = "reloc" /\ w # 0, w)) = IF p = "reloc" /\ w # 0 THEN Hunks!Plus(m, w) ELSE m
      /\ Hunks!Plus(n, If(p = "symbols" /\ w # 0, 1)) = IF p = "symbols" /\ w # 0 THEN Hunks!Plus(n, 1) ELSE n
      /\ Hunks!Plus(o, If(p = "hunks" /\ g = Hunks!HUNK_DEBUG, 1)) =
           IF p = "hunks" /\ g = Hunks!HUNK_DEBUG THEN Hunks!Plus(o, 1) ELSE o
  BY <1>2 DEF If
<1> QED BY <1>1, <1>4, <1>5

LEMMA CountersAre ==
  ASSUME NEW c \in Counters
  PROVE  c = [segments |-> c.segments, code |-> c.code, data |-> c.data, bss |-> c.bss,
              reloc |-> c.reloc, symbols |-> c.symbols, debug |-> c.debug]
BY DEF Counters

FieldOf(g) == CASE g = Hunks!HUNK_CODE -> "code" [] g = Hunks!HUNK_BSS -> "bss" [] OTHER -> "data"

WithSection(c, f, b) == [c EXCEPT !.segments = Hunks!Plus(c.segments, 1), ![f] = Hunks!Plus(c[f], b * 4)]

LEMMA SectionCounts ==
  ASSUME NEW c \in Counters, NEW s, NEW t, NEW w \in Nat, NEW x \in Nat, NEW b, NEW f,
         t[Len(s) + 1] = w, Hunks!At(t, Len(s) + 2) = x, b = x % Hunks!Mask,
         w % Hunks!Mask \in Hunks!Sections,
         f = FieldOf(w % Hunks!Mask)
  PROVE  WithNext(s, "hunks", t, c) = WithSection(c, f, b)
<1> DEFINE g == w % Hunks!Mask
           bytes == 4 * (x % Hunks!Mask)
           d == b * 4
<1>1. d = bytes
  <2>1. b \in Nat
    BY HunkSizes
  <2> QED BY <2>1
<1>2. \/ g = Hunks!HUNK_CODE /\ f = "code"
      \/ g = Hunks!HUNK_BSS /\ f = "bss"
      \/ g = Hunks!HUNK_CODE + 1 /\ f = "data"
  <2> HIDE DEF g
  <2> QED BY TypesDiffer DEF g, FieldOf
<1>3. WithNext(s, "hunks", t, c) = Stepped("hunks", w, g, bytes, c)
  BY NextCounters
<1>4. /\ g # Hunks!HUNK_DEBUG /\ g \in Hunks!Sections
      /\ Hunks!HUNK_CODE # Hunks!HUNK_BSS /\ Hunks!HUNK_CODE + 1 # Hunks!HUNK_BSS
      /\ Hunks!HUNK_CODE # Hunks!HUNK_CODE + 1
  <2> HIDE DEF g
  <2> QED BY <1>2, TypesDiffer DEF g
<1>5. \E i, j, k, l, m, n, o :
        c = [segments |-> i, code |-> j, data |-> k, bss |-> l, reloc |-> m, symbols |-> n, debug |-> o]
  BY CountersAre
<1> HIDE DEF g, bytes, d
<1>6. Stepped("hunks", w, g, bytes, c) =
        [c EXCEPT !.segments = Hunks!Plus(c.segments, 1), ![f] = Hunks!Plus(c[f], bytes)]
  <2>1. PICK i, j, k, l, m, n, o :
          c = [segments |-> i, code |-> j, data |-> k, bss |-> l, reloc |-> m, symbols |-> n, debug |-> o]
    BY <1>5
  <2>2. CASE f = "code"
    <3>1. [c EXCEPT !.segments = Hunks!Plus(i, 1), !["code"] = Hunks!Plus(j, bytes)] =
            [segments |-> Hunks!Plus(i, 1), code |-> Hunks!Plus(j, bytes), data |-> k, bss |-> l, reloc |-> m, symbols |-> n, debug |-> o]
      <4>1. [c EXCEPT !.segments = Hunks!Plus(i, 1)] =
              [segments |-> Hunks!Plus(i, 1), code |-> j, data |-> k, bss |-> l, reloc |-> m, symbols |-> n, debug |-> o]
        BY <2>1
      <4>2. [[segments |-> Hunks!Plus(i, 1), code |-> j, data |-> k, bss |-> l, reloc |-> m, symbols |-> n, debug |-> o]
               EXCEPT !["code"] = Hunks!Plus(j, bytes)] =
            [segments |-> Hunks!Plus(i, 1), code |-> Hunks!Plus(j, bytes), data |-> k, bss |-> l, reloc |-> m, symbols |-> n, debug |-> o]
        OBVIOUS
      <4> QED BY <4>1, <4>2
    <3>2. Stepped("hunks", w, g, bytes, c) =
            [segments |-> Hunks!Plus(i, 1), code |-> Hunks!Plus(j, bytes), data |-> k, bss |-> l, reloc |-> m, symbols |-> n, debug |-> o]
      BY <1>2, <1>4, <2>1, <2>2 DEF Stepped
    <3>3. c.segments = i /\ c[f] = j
      BY <2>1, <2>2
    <3> QED BY <2>2, <3>1, <3>2, <3>3
  <2>3. CASE f = "bss"
    <3>1. [c EXCEPT !.segments = Hunks!Plus(i, 1), !["bss"] = Hunks!Plus(l, bytes)] =
            [segments |-> Hunks!Plus(i, 1), code |-> j, data |-> k, bss |-> Hunks!Plus(l, bytes), reloc |-> m, symbols |-> n, debug |-> o]
      <4>1. [c EXCEPT !.segments = Hunks!Plus(i, 1)] =
              [segments |-> Hunks!Plus(i, 1), code |-> j, data |-> k, bss |-> l, reloc |-> m, symbols |-> n, debug |-> o]
        BY <2>1
      <4>2. [[segments |-> Hunks!Plus(i, 1), code |-> j, data |-> k, bss |-> l, reloc |-> m, symbols |-> n, debug |-> o]
               EXCEPT !["bss"] = Hunks!Plus(l, bytes)] =
            [segments |-> Hunks!Plus(i, 1), code |-> j, data |-> k, bss |-> Hunks!Plus(l, bytes), reloc |-> m, symbols |-> n, debug |-> o]
        OBVIOUS
      <4> QED BY <4>1, <4>2
    <3>2. Stepped("hunks", w, g, bytes, c) =
            [segments |-> Hunks!Plus(i, 1), code |-> j, data |-> k, bss |-> Hunks!Plus(l, bytes), reloc |-> m, symbols |-> n, debug |-> o]
      BY <1>2, <1>4, <2>1, <2>3 DEF Stepped
    <3>3. c.segments = i /\ c[f] = l
      BY <2>1, <2>3
    <3> QED BY <2>3, <3>1, <3>2, <3>3
  <2>4. CASE f = "data"
    <3>1. [c EXCEPT !.segments = Hunks!Plus(i, 1), !["data"] = Hunks!Plus(k, bytes)] =
            [segments |-> Hunks!Plus(i, 1), code |-> j, data |-> Hunks!Plus(k, bytes), bss |-> l, reloc |-> m, symbols |-> n, debug |-> o]
      <4>1. [c EXCEPT !.segments = Hunks!Plus(i, 1)] =
              [segments |-> Hunks!Plus(i, 1), code |-> j, data |-> k, bss |-> l, reloc |-> m, symbols |-> n, debug |-> o]
        BY <2>1
      <4>2. [[segments |-> Hunks!Plus(i, 1), code |-> j, data |-> k, bss |-> l, reloc |-> m, symbols |-> n, debug |-> o]
               EXCEPT !["data"] = Hunks!Plus(k, bytes)] =
            [segments |-> Hunks!Plus(i, 1), code |-> j, data |-> Hunks!Plus(k, bytes), bss |-> l, reloc |-> m, symbols |-> n, debug |-> o]
        OBVIOUS
      <4> QED BY <4>1, <4>2
    <3>2. Stepped("hunks", w, g, bytes, c) =
            [segments |-> Hunks!Plus(i, 1), code |-> j, data |-> Hunks!Plus(k, bytes), bss |-> l, reloc |-> m, symbols |-> n, debug |-> o]
      BY <1>2, <1>4, <2>1, <2>4 DEF Stepped
    <3>3. c.segments = i /\ c[f] = k
      BY <2>1, <2>4
    <3> QED BY <2>4, <3>1, <3>2, <3>3
  <2> QED BY <1>2, <2>2, <2>3, <2>4
<1>7. WithNext(s, "hunks", t, c) = [c EXCEPT !.segments = Hunks!Plus(c.segments, 1), ![f] = Hunks!Plus(c[f], d)]
  BY <1>1, <1>3, <1>6
<1> QED BY <1>7 DEF d, WithSection

LEMMA OtherCounts ==
  ASSUME NEW c \in Counters, NEW s, NEW p \in Kinds, NEW t, NEW w \in Nat, NEW g,
         t[Len(s) + 1] = w, g = w % Hunks!Mask,
         p = "hunks" => g \notin Hunks!Sections
  PROVE  WithNext(s, p, t, c) =
           IF p = "hunks" /\ g = Hunks!HUNK_DEBUG THEN [c EXCEPT !["debug"] = Hunks!Plus(c["debug"], 1)]
           ELSE IF p = "reloc" /\ w # 0 THEN [c EXCEPT !["reloc"] = Hunks!Plus(c["reloc"], w)]
           ELSE IF p = "symbols" /\ w # 0 THEN [c EXCEPT !["symbols"] = Hunks!Plus(c["symbols"], 1)]
           ELSE c
<1> DEFINE x == Hunks!At(t, Len(s) + 2)
           bytes == 4 * (x % Hunks!Mask)
<1>1. WithNext(s, p, t, c) = Stepped(p, w, g, bytes, c)
  BY NextCounters
<1>2. p = "hunks" => g # Hunks!HUNK_CODE /\ g # Hunks!HUNK_CODE + 1 /\ g # Hunks!HUNK_BSS
  BY TypesDiffer, SectionsAre
<1> HIDE DEF bytes
<1>3. \E i, j, k, l, m, n, o :
        c = [segments |-> i, code |-> j, data |-> k, bss |-> l, reloc |-> m, symbols |-> n, debug |-> o]
  BY CountersAre
<1>4. PICK i, j, k, l, m, n, o :
        c = [segments |-> i, code |-> j, data |-> k, bss |-> l, reloc |-> m, symbols |-> n, debug |-> o]
  BY <1>3
<1>5. p = "hunks" \/ p = "reloc" \/ p = "symbols"
  BY DEF Kinds
<1>6. CASE p = "hunks"
  BY <1>1, <1>2, <1>4, <1>6 DEF Stepped
<1>7. CASE p = "reloc"
  BY <1>1, <1>4, <1>7 DEF Stepped
<1>8. CASE p = "symbols"
  BY <1>1, <1>4, <1>8 DEF Stepped
<1> QED BY <1>5, <1>6, <1>7, <1>8

LEMMA CountersStay ==
  ASSUME NEW c \in Counters, NEW s, NEW p, NEW t, NEW w \in Nat, NEW x \in Nat,
         t[Len(s) + 1] = w, Hunks!At(t, Len(s) + 2) = x
  PROVE  WithNext(s, p, t, c) \in Counters
<1> DEFINE g == w % Hunks!Mask
           bytes == 4 * (x % Hunks!Mask)
<1>1. WithNext(s, p, t, c) = Stepped(p, w, g, bytes, c)
  BY NextCounters
<1>2. bytes \in Nat
  BY HunkSizes
<1>3. /\ c.segments \in Words /\ c.code \in Words /\ c.data \in Words /\ c.bss \in Words
      /\ c.reloc \in Words /\ c.symbols \in Words /\ c.debug \in Words
  BY DEF Counters
<1> HIDE DEF bytes, g
<1>4. /\ Hunks!Plus(c.segments, 1) \in Words /\ Hunks!Plus(c.code, bytes) \in Words
      /\ Hunks!Plus(c.data, bytes) \in Words /\ Hunks!Plus(c.bss, bytes) \in Words
      /\ Hunks!Plus(c.reloc, w) \in Words /\ Hunks!Plus(c.symbols, 1) \in Words
      /\ Hunks!Plus(c.debug, 1) \in Words
  BY <1>2, <1>3, PlusStays
<1>5. Stepped(p, w, g, bytes, c) \in Counters
  BY <1>3, <1>4 DEF Stepped, Counters
<1> QED BY <1>1, <1>5

HunkTypes ==
  /\ pc \in {"start", "header", "hunks", "reloc", "symbols", "exit"}
  /\ rc \in {0, 5, 10, 20}
  /\ <<table_size, first, last>> \in Heads \union {<<0, 0, 0>>}
  /\ stream \in Seq(Nat) /\ Len(stream) <= MaxWords
  /\ totals \in Counters

(* HunkInfo: the words behind the header fall into whole hunks, groups and *)
(* symbols, the counters hold what a second reading counts in them, and a  *)
(* word that is refused was expected to be a type.                         *)
HunkInv ==
  /\ HunkTypes
  /\ pc \in {"start", "header"} => rc = 0 /\ stream = << >> /\ totals = Hunks!NoTotals
  /\ pc = "start" => table_size = 0
  /\ pc \in Kinds => rc = 0 /\ Right(stream, pc, totals)
  /\ pc = "exit" /\ rc = 0 => Right(stream, "hunks", totals)
  /\ Hunks!RangeFits
  /\ Hunks!RefusalIsEarned

LEMMA NothingIsRight == Right(<< >>, "hunks", Hunks!NoTotals)
<1> DEFINE s == << >>
<1>1. s \in Seq(Nat) /\ Len(s) = 0 /\ DOMAIN s = {}
  OBVIOUS
<1> HIDE DEF s
<1>2. Hunks!Reading(s) = {}
  <2>1. IsReading(s, 0, Hunks!Reading(s))
    BY <1>1, ReadingIs
  <2>2. 1 .. 0 = {}
    OBVIOUS
  <2> QED BY <2>1, <2>2 DEF IsReading
<1>3. ReadTo(s, "hunks")
  <2>1. \A p \in 1 .. 0 : FALSE
    OBVIOUS
  <2> QED BY <1>1, <1>2, <2>1 DEF ReadTo
<1>4. Hunks!Known(s)
  BY <1>1 DEF Hunks!Known
<1>5. ASSUME NEW f \in [DOMAIN s -> Nat] PROVE Hunks!Sum(f) = 0
  <2>1. f \in Seq(Nat) /\ Len(f) = 0
    <3>1. DOMAIN s = 1 .. 0
      BY <1>1
    <3>2. f \in [1 .. 0 -> Nat] /\ 0 \in Nat
      BY <3>1
    <3> QED BY <3>2
  <2> QED BY <2>1, SumOfNone
<1>6. ASSUME NEW f PROVE Hunks!BytesOf(s, f) = 0
  <2> DEFINE h == Hunks!HunksOf(s, {f})
             e == [p \in DOMAIN s |-> IF p \in h THEN 4 * (Hunks!At(s, p + 1) % Hunks!Mask) ELSE 0]
  <2>1. e \in [DOMAIN s -> Nat]
    BY <1>1
  <2>2. Hunks!Sum(e) = 0
    <3> HIDE DEF e
    <3> QED BY <1>5, <2>1
  <2> QED BY <2>2 DEF Hunks!BytesOf
<1>7. Hunks!EntriesOf(s) = 0
  <2> DEFINE g == Hunks!GroupsOf(s, "reloc")
             e == [p \in DOMAIN s |-> IF p \in g THEN s[p] ELSE 0]
  <2>1. e \in [DOMAIN s -> Nat]
    BY <1>1
  <2>2. Hunks!Sum(e) = 0
    <3> HIDE DEF e
    <3> QED BY <1>5, <2>1
  <2> QED BY <2>2 DEF Hunks!EntriesOf
<1>8. Bounded(s)
  BY <1>1, <1>6, <1>7 DEF Bounded
<1>9. /\ \A T : Hunks!HunksOf(s, T) = {}
      /\ \A l : Hunks!GroupsOf(s, l) = {}
  BY <1>1 DEF Hunks!HunksOf, Hunks!GroupsOf
<1>10. Cardinality({}) = 0
  BY FS_EmptySet
<1>11. Hunks!Cardinality({}) = 0
  BY <1>10 DEF Cardinality, Hunks!Cardinality, IsFiniteSet, Hunks!IsFiniteSet
<1>12. 0 % FileWord = 0
  BY HunkSizes
<1>13. Hunks!Counted(s) = Hunks!NoTotals
  BY <1>6, <1>7, <1>9, <1>11, <1>12 DEF Hunks!Counted, Hunks!NoTotals
<1>14. Right(s, "hunks", Hunks!NoTotals)
  BY <1>3, <1>4, <1>8, <1>13 DEF Right
<1> QED BY <1>14 DEF s

LEMMA InitHunk == Hunks!HunkInit => HunkInv
<1> SUFFICES ASSUME Hunks!HunkInit PROVE HunkInv
  OBVIOUS
<1>1. /\ pc = "start" /\ rc = 0 /\ table_size = 0 /\ first = 0 /\ last = 0
      /\ stream = << >> /\ totals = Hunks!NoTotals
  BY DEF Hunks!HunkInit
<1>2. totals \in Counters
  <2>1. 0 \in Words
    BY HunkSizes DEF Words
  <2> QED BY <1>1, <2>1 DEF Hunks!NoTotals, Counters
<1>3. <<table_size, first, last>> \in Heads \union {<<0, 0, 0>>}
  BY <1>1
<1>4. HunkTypes
  <2>1. stream \in Seq(Nat) /\ Len(stream) <= MaxWords
    BY <1>1, HunkSizes
  <2> QED BY <1>1, <1>2, <1>3, <2>1 DEF HunkTypes
<1>5. pc \notin Kinds
  BY <1>1 DEF Kinds
<1> QED BY <1>1, <1>4, <1>5 DEF HunkInv, Hunks!RangeFits, Hunks!RefusalIsEarned

(* One more hunk, group or symbol. *)
LEMMA HunkGoes ==
  ASSUME HunkInv, pc \in Kinds, NEW k \in Kinds, pc' = k, rc' = rc, UNCHANGED <<table_size, first, last>>,
         stream' \in Seq(Nat), Len(stream') <= MaxWords, OneMore(stream, pc, stream', k),
         NEW w \in Nat, stream'[Len(stream) + 1] = w, pc = "hunks" => w % Hunks!Mask \in Hunks!Supported,
         totals' = WithNext(stream, pc, stream', totals)
  PROVE  HunkInv'
<1>1. HunkTypes /\ rc = 0 /\ Right(stream, pc, totals) /\ Hunks!RangeFits
  BY DEF HunkInv
<1>2. Right(stream', k, totals')
  BY <1>1, GoesRight
<1>3. totals' \in Counters
  <2> DEFINE x == Hunks!At(stream', Len(stream) + 2)
  <2>1. x \in Nat
    BY DEF Hunks!At
  <2>2. totals \in Counters
    BY <1>1 DEF HunkTypes
  <2> HIDE DEF x
  <2> QED BY <2>1, <2>2, CountersStay DEF x
<1>4. HunkTypes'
  <2>1. <<table_size, first, last>>' \in Heads \union {<<0, 0, 0>>}
    BY <1>1 DEF HunkTypes
  <2> QED BY <1>1, <1>3, <2>1 DEF HunkTypes, Kinds
<1>5. Hunks!RangeFits'
  BY <1>1 DEF Hunks!RangeFits, Kinds
<1>6. pc' # "start" /\ pc' # "header" /\ pc' # "exit" /\ rc' = 0
  BY <1>1 DEF Kinds
<1>7. Hunks!RefusalIsEarned'
  BY <1>6 DEF Hunks!RefusalIsEarned
<1> QED BY <1>2, <1>4, <1>5, <1>6, <1>7 DEF HunkInv

LEMMA HunkStays ==
  ASSUME HunkInv, UNCHANGED <<pc, rc, HunkVars>>
  PROVE  HunkInv'
<1>1. UNCHANGED <<pc, rc, table_size, first, last, stream, totals>>
  BY DEF HunkVars
<1>2. HunkTypes'
  <2>1. <<table_size, first, last>>' \in Heads \union {<<0, 0, 0>>}
    BY <1>1 DEF HunkInv, HunkTypes
  <2> QED BY <1>1, <2>1 DEF HunkInv, HunkTypes
<1>3. Hunks!RangeFits' /\ Hunks!RefusalIsEarned'
  BY <1>1 DEF HunkInv, Hunks!RangeFits, Hunks!RefusalIsEarned
<1> QED BY <1>1, <1>2, <1>3 DEF HunkInv

(* What a step that reads keeps. *)
LEMMA HunkState ==
  ASSUME HunkInv, pc \in Kinds
  PROVE  /\ rc = 0 /\ stream \in Seq(Nat) /\ Len(stream) \in Nat /\ totals \in Counters
         /\ ReadTo(stream, pc) /\ Right(stream, pc, totals)
<1>1. HunkTypes /\ rc = 0 /\ Right(stream, pc, totals)
  BY DEF HunkInv
<1>2. stream \in Seq(Nat) /\ totals \in Counters
  BY <1>1 DEF HunkTypes
<1> QED BY <1>1, <1>2 DEF Right

LEMMA StepSection == HunkInv /\ Hunks!Section => HunkInv'
<1> SUFFICES ASSUME HunkInv, Hunks!Section PROVE HunkInv'
  OBVIOUS
<1>1. /\ pc = "hunks" /\ UNCHANGED <<pc, rc, table_size, first, last>> /\ "hunks" \in Kinds
  BY DEF Hunks!Section, Kinds
<1>2. PICK w \in Types, x \in Numbers :
        LET g == w % Hunks!Mask
            b == Hunks!SectionSize(x)
            f == CASE g = Hunks!HUNK_CODE -> "code" [] g = Hunks!HUNK_BSS -> "bss" [] OTHER -> "data"
        IN /\ g \in Hunks!Sections
           /\ Hunks!Reads(<<w, x>>, IF g = Hunks!HUNK_BSS THEN 0 ELSE b)
           /\ totals' = [totals EXCEPT !.segments = Hunks!Plus(totals.segments, 1),
                                       ![f] = Hunks!Plus(totals[f], b * 4)]
  BY Zenon DEF Hunks!Section
<1> DEFINE g == w % Hunks!Mask
           b == x % Hunks!Mask
           n == IF g = Hunks!HUNK_BSS THEN 0 ELSE b
           f == CASE g = Hunks!HUNK_CODE -> "code" [] g = Hunks!HUNK_BSS -> "bss" [] OTHER -> "data"
           t == stream'
<1>3. /\ g \in Hunks!Sections /\ Hunks!Reads(<<w, x>>, n)
      /\ totals' = [totals EXCEPT !.segments = Hunks!Plus(totals.segments, 1), ![f] = Hunks!Plus(totals[f], b * 4)]
  BY <1>2, Zenon DEF Hunks!SectionSize
<1>4. w \in Nat /\ x \in Nat /\ n \in Nat
  BY HunkSizes DEF Words
<1>5. t = Stretch(stream, <<w, x>>, n) /\ Len(stream) + Len(<<w, x>>) + n <= MaxWords
  BY <1>3, Zenon DEF Stretch, Hunks!Reads
<1>6. /\ rc = 0 /\ stream \in Seq(Nat) /\ Len(stream) \in Nat /\ totals \in Counters
      /\ ReadTo(stream, "hunks")
  BY <1>1, HunkState
<1>7. /\ OneMore(stream, "hunks", t, "hunks") /\ t \in Seq(Nat)
      /\ t[Len(stream) + 1] = w /\ Hunks!At(t, Len(stream) + 2) = x
  BY <1>3, <1>4, <1>5, <1>6, SectionRead
<1>8. Len(t) <= MaxWords
  <2>1. TwoThere(stream, w, x, n, t)
    BY <1>4, <1>5, <1>6, TwoRead
  <2>2. Len(t) = Len(stream) + 2 + n
    BY <2>1, Zenon DEF TwoThere
  <2>3. Len(<<w, x>>) = 2
    OBVIOUS
  <2> QED BY <1>5, <2>2, <2>3, Zenon
<1> HIDE DEF t
<1>9. totals' = WithNext(stream, "hunks", t, totals)
  <2>1. WithNext(stream, "hunks", t, totals) = WithSection(totals, f, b)
    <3>1. b = x % Hunks!Mask /\ w % Hunks!Mask \in Hunks!Sections /\ f = FieldOf(w % Hunks!Mask)
      BY <1>3 DEF FieldOf
    <3>2. /\ totals \in Counters /\ w \in Nat /\ x \in Nat
          /\ t[Len(stream) + 1] = w /\ Hunks!At(t, Len(stream) + 2) = x
      BY <1>4, <1>6, <1>7
    <3> HIDE DEF f, b, g, n
    <3> QED BY <3>1, <3>2, SectionCounts
  <2> HIDE DEF f, b
  <2> QED BY <1>3, <2>1 DEF WithSection
<1>10. g \in Hunks!Supported
  BY <1>3, TypesDiffer
<1> QED BY <1>1, <1>4, <1>7, <1>8, <1>9, <1>10, HunkGoes DEF t

LEMMA StepSkip == HunkInv /\ Hunks!Skip => HunkInv'
<1> SUFFICES ASSUME HunkInv, Hunks!Skip PROVE HunkInv'
  OBVIOUS
<1>1. /\ pc = "hunks" /\ UNCHANGED <<pc, rc, table_size, first, last>> /\ "hunks" \in Kinds
  BY DEF Hunks!Skip, Kinds
<1>2. PICK w \in Types, x \in Numbers :
        /\ w % Hunks!Mask \in Hunks!Skipped /\ Hunks!Reads(<<w, x>>, x)
        /\ IF w % Hunks!Mask = Hunks!HUNK_DEBUG THEN Hunks!Add("debug", 1) ELSE UNCHANGED totals
  BY Zenon DEF Hunks!Skip
<1> DEFINE g == w % Hunks!Mask
           t == stream'
<1>4. w \in Nat /\ x \in Nat
  BY HunkSizes DEF Words
<1>5. t = Stretch(stream, <<w, x>>, x) /\ Len(stream) + Len(<<w, x>>) + x <= MaxWords
  BY <1>2, Zenon DEF Stretch, Hunks!Reads
<1>6. /\ rc = 0 /\ stream \in Seq(Nat) /\ Len(stream) \in Nat /\ totals \in Counters
      /\ ReadTo(stream, "hunks")
  BY <1>1, HunkState
<1>7. /\ OneMore(stream, "hunks", t, "hunks") /\ t \in Seq(Nat)
      /\ t[Len(stream) + 1] = w /\ Hunks!At(t, Len(stream) + 2) = x
  BY <1>2, <1>4, <1>5, <1>6, SkippedRead
<1>8. Len(t) <= MaxWords
  <2>1. TwoThere(stream, w, x, x, t)
    BY <1>4, <1>5, <1>6, TwoRead
  <2>2. Len(t) = Len(stream) + 2 + x
    BY <2>1, Zenon DEF TwoThere
  <2>3. Len(<<w, x>>) = 2
    OBVIOUS
  <2> QED BY <1>5, <2>2, <2>3, Zenon
<1> HIDE DEF t
<1>9. totals' = WithNext(stream, "hunks", t, totals)
  <2>1. g \notin Hunks!Sections
    <3>1. g \in Hunks!Skipped
      BY <1>2
    <3> HIDE DEF g
    <3> QED BY <3>1, TypesDiffer
  <2>2. WithNext(stream, "hunks", t, totals) =
          IF "hunks" = "hunks" /\ g = Hunks!HUNK_DEBUG
            THEN [totals EXCEPT !["debug"] = Hunks!Plus(totals["debug"], 1)]
          ELSE IF "hunks" = "reloc" /\ w # 0 THEN [totals EXCEPT !["reloc"] = Hunks!Plus(totals["reloc"], w)]
          ELSE IF "hunks" = "symbols" /\ w # 0
            THEN [totals EXCEPT !["symbols"] = Hunks!Plus(totals["symbols"], 1)]
          ELSE totals
    BY <1>1, <1>4, <1>6, <1>7, <2>1, OtherCounts
  <2>3. totals' = IF g = Hunks!HUNK_DEBUG THEN [totals EXCEPT !["debug"] = Hunks!Plus(totals["debug"], 1)]
                  ELSE totals
    BY <1>2 DEF Hunks!Add
  <2> HIDE DEF g
  <2> QED BY <2>2, <2>3
<1>10. g \in Hunks!Supported
  BY <1>2, TypesDiffer
<1> QED BY <1>1, <1>4, <1>7, <1>8, <1>9, <1>10, HunkGoes DEF t

(* A list ends or begins, and a hunk ends, with a word of its own. *)
LEMMA OneWordGoes ==
  ASSUME HunkInv, pc \in Kinds, NEW k \in Kinds, pc' = k, rc' = rc, UNCHANGED <<table_size, first, last>>,
         totals' = totals, NEW w \in Nat, Hunks!Reads(<<w>>, 0),
         \/ pc = "hunks" /\ w % Hunks!Mask = Hunks!HUNK_RELOC32 /\ k = "reloc"
         \/ pc = "hunks" /\ w % Hunks!Mask = Hunks!HUNK_SYMBOL /\ k = "symbols"
         \/ pc = "hunks" /\ w % Hunks!Mask = Hunks!HUNK_END /\ k = "hunks"
         \/ pc # "hunks" /\ w = 0 /\ k = "hunks"
  PROVE  HunkInv'
<1> DEFINE g == w % Hunks!Mask
           t == stream'
<1>1. t = Stretch(stream, <<w>>, 0) /\ Len(stream) + Len(<<w>>) + 0 <= MaxWords
  BY Zenon DEF Stretch, Hunks!Reads
<1>2. /\ rc = 0 /\ stream \in Seq(Nat) /\ Len(stream) \in Nat /\ totals \in Counters
      /\ ReadTo(stream, pc)
  BY HunkState
<1>3. OneMore(stream, pc, t, k) /\ t \in Seq(Nat) /\ t[Len(stream) + 1] = w /\ Len(t) = Len(stream) + 1
  BY <1>1, <1>2, WordRead
<1>4. Len(t) <= MaxWords
  <2>1. Len(<<w>>) = 1
    OBVIOUS
  <2>2. Len(stream) + 1 + 0 <= MaxWords
    BY <1>1, <2>1, Zenon
  <2> HIDE DEF t
  <2> QED BY <1>2, <1>3, <2>2
<1>5. pc = "hunks" => g \notin Hunks!Sections /\ g # Hunks!HUNK_DEBUG /\ g \in Hunks!Supported
  <2> HIDE DEF g
  <2> QED BY TypesDiffer DEF g
<1> HIDE DEF t
<1>6. WithNext(stream, pc, t, totals) = totals
  <2>1. WithNext(stream, pc, t, totals) =
          IF pc = "hunks" /\ g = Hunks!HUNK_DEBUG
            THEN [totals EXCEPT !["debug"] = Hunks!Plus(totals["debug"], 1)]
          ELSE IF pc = "reloc" /\ w # 0 THEN [totals EXCEPT !["reloc"] = Hunks!Plus(totals["reloc"], w)]
          ELSE IF pc = "symbols" /\ w # 0
            THEN [totals EXCEPT !["symbols"] = Hunks!Plus(totals["symbols"], 1)]
          ELSE totals
    BY <1>2, <1>3, <1>5, OtherCounts
  <2>2. pc # "hunks" => w = 0
    OBVIOUS
  <2> HIDE DEF g
  <2> QED BY <1>5, <2>1, <2>2
<1> QED BY <1>3, <1>4, <1>5, <1>6, HunkGoes DEF t

(* A group of relocations or a symbol. *)
LEMMA GroupGoes ==
  ASSUME HunkInv, NEW f \in {"reloc", "symbols"}, pc = f, UNCHANGED <<pc, rc, table_size, first, last>>,
         NEW x \in Nat \ {0}, Hunks!Reads(<<x, 0>>, x), Hunks!Add(f, IF f = "reloc" THEN x ELSE 1)
  PROVE  HunkInv'
<1> DEFINE t == stream'
<1>1. f \in Kinds /\ f # "hunks" /\ f \in Kinds \ {"hunks"} /\ 0 \in Nat /\ x \in Nat /\ x # 0
  BY DEF Kinds
<1>2. t = Stretch(stream, <<x, 0>>, x) /\ Len(stream) + Len(<<x, 0>>) + x <= MaxWords
  BY Zenon DEF Stretch, Hunks!Reads
<1>3. /\ rc = 0 /\ stream \in Seq(Nat) /\ Len(stream) \in Nat /\ totals \in Counters
      /\ ReadTo(stream, f)
  BY <1>1, HunkState
<1>4. OneMore(stream, f, t, f) /\ t \in Seq(Nat) /\ t[Len(stream) + 1] = x
  BY <1>1, <1>2, <1>3, GroupRead
<1>5. Len(t) <= MaxWords
  <2>1. TwoThere(stream, x, 0, x, t)
    BY <1>1, <1>2, <1>3, TwoRead
  <2>2. Len(t) = Len(stream) + 2 + x
    BY <2>1, Zenon DEF TwoThere
  <2>3. Len(<<x, 0>>) = 2
    OBVIOUS
  <2> QED BY <1>2, <2>2, <2>3, Zenon
<1> HIDE DEF t
<1>6. totals' = WithNext(stream, f, t, totals)
  <2> DEFINE g == x % Hunks!Mask
  <2>1. WithNext(stream, f, t, totals) =
          IF f = "hunks" /\ g = Hunks!HUNK_DEBUG
            THEN [totals EXCEPT !["debug"] = Hunks!Plus(totals["debug"], 1)]
          ELSE IF f = "reloc" /\ x # 0 THEN [totals EXCEPT !["reloc"] = Hunks!Plus(totals["reloc"], x)]
          ELSE IF f = "symbols" /\ x # 0
            THEN [totals EXCEPT !["symbols"] = Hunks!Plus(totals["symbols"], 1)]
          ELSE totals
    BY <1>1, <1>3, <1>4, OtherCounts
  <2>2. totals' = [totals EXCEPT ![f] = Hunks!Plus(totals[f], IF f = "reloc" THEN x ELSE 1)]
    BY DEF Hunks!Add
  <2> HIDE DEF g
  <2> QED BY <1>1, <2>1, <2>2
<1> QED BY <1>1, <1>4, <1>5, <1>6, HunkGoes DEF t

LEMMA HunkExits ==
  ASSUME HunkInv, pc' = "exit", rc' \in {10, 20}, stream' = stream, totals' = totals,
         <<table_size, first, last>>' \in Heads \union {<<0, 0, 0>>}
  PROVE  HunkInv'
<1>1. HunkTypes'
  BY DEF HunkInv, HunkTypes
<1>2. pc' \notin Kinds /\ rc' # 0 /\ rc' # 5
  BY DEF Kinds
<1> QED BY <1>1, <1>2 DEF HunkInv, Hunks!RangeFits, Hunks!RefusalIsEarned

LEMMA StepBeginList == HunkInv /\ Hunks!BeginList => HunkInv'
<1> SUFFICES ASSUME HunkInv, Hunks!BeginList PROVE HunkInv'
  OBVIOUS
<1>1. /\ pc = "hunks" /\ UNCHANGED <<table_size, first, last, totals>>
      /\ "hunks" \in Kinds /\ "reloc" \in Kinds /\ "symbols" \in Kinds
  BY DEF Hunks!BeginList, Kinds
<1>2. PICK w \in Types :
        /\ Hunks!Reads(<<w>>, 0)
        /\ CASE w % Hunks!Mask = Hunks!HUNK_RELOC32 -> Hunks!Continue("reloc")
             [] w % Hunks!Mask = Hunks!HUNK_SYMBOL -> Hunks!Continue("symbols")
             [] w % Hunks!Mask = Hunks!HUNK_END -> Hunks!Continue("hunks")
             [] OTHER -> w % Hunks!Mask \notin Hunks!Supported /\ Hunks!Exit(5)
  BY Zenon DEF Hunks!BeginList
<1> DEFINE g == w % Hunks!Mask
           t == stream'
<1>3. w \in Nat
  BY HunkSizes DEF Words
<1>4. \/ g = Hunks!HUNK_RELOC32 /\ pc' = "reloc" /\ rc' = rc
      \/ g = Hunks!HUNK_SYMBOL /\ pc' = "symbols" /\ rc' = rc
      \/ g = Hunks!HUNK_END /\ pc' = "hunks" /\ rc' = rc
      \/ g \notin Hunks!Supported /\ pc' = "exit" /\ rc' = 5
  <2>1. /\ Hunks!HUNK_RELOC32 # Hunks!HUNK_SYMBOL /\ Hunks!HUNK_RELOC32 # Hunks!HUNK_END
        /\ Hunks!HUNK_SYMBOL # Hunks!HUNK_END
    BY TypesDiffer
  <2>2. (CASE g = Hunks!HUNK_RELOC32 -> Hunks!Continue("reloc")
           [] g = Hunks!HUNK_SYMBOL -> Hunks!Continue("symbols")
           [] g = Hunks!HUNK_END -> Hunks!Continue("hunks")
           [] OTHER -> g \notin Hunks!Supported /\ Hunks!Exit(5))
    BY <1>2
  <2> HIDE DEF g
  <2>3. CASE g = Hunks!HUNK_RELOC32
    BY <2>1, <2>2, <2>3 DEF Hunks!Continue
  <2>4. CASE g = Hunks!HUNK_SYMBOL
    BY <2>1, <2>2, <2>4 DEF Hunks!Continue
  <2>5. CASE g = Hunks!HUNK_END
    BY <2>1, <2>2, <2>5 DEF Hunks!Continue
  <2>6. CASE g # Hunks!HUNK_RELOC32 /\ g # Hunks!HUNK_SYMBOL /\ g # Hunks!HUNK_END
    BY <2>2, <2>6 DEF Hunks!Exit
  <2> QED BY <2>3, <2>4, <2>5, <2>6
<1>5. CASE g = Hunks!HUNK_RELOC32 /\ pc' = "reloc" /\ rc' = rc
  <2> DEFINE k == "reloc"
  <2>1. k \in Kinds /\ pc \in Kinds /\ pc' = k /\ rc' = rc /\ totals' = totals
    BY <1>1, <1>5
  <2> QED BY <1>1, <1>2, <1>3, <1>5, <2>1, OneWordGoes
<1>6. CASE g = Hunks!HUNK_SYMBOL /\ pc' = "symbols" /\ rc' = rc
  <2> DEFINE k == "symbols"
  <2>1. k \in Kinds /\ pc \in Kinds /\ pc' = k /\ rc' = rc /\ totals' = totals
    BY <1>1, <1>6
  <2> QED BY <1>1, <1>2, <1>3, <1>6, <2>1, OneWordGoes
<1>7. CASE g = Hunks!HUNK_END /\ pc' = "hunks" /\ rc' = rc
  <2> DEFINE k == "hunks"
  <2>1. k \in Kinds /\ pc \in Kinds /\ pc' = k /\ rc' = rc /\ totals' = totals
    BY <1>1, <1>7
  <2> QED BY <1>1, <1>2, <1>3, <1>7, <2>1, OneWordGoes
<1>8. CASE g \notin Hunks!Supported /\ pc' = "exit" /\ rc' = 5
  <2>1. t = Stretch(stream, <<w>>, 0) /\ Len(stream) + Len(<<w>>) + 0 <= MaxWords
    BY <1>2, Zenon DEF Stretch, Hunks!Reads
  <2>2. /\ rc = 0 /\ stream \in Seq(Nat) /\ Len(stream) \in Nat /\ totals \in Counters
        /\ ReadTo(stream, "hunks")
    BY <1>1, HunkState
  <2>3. /\ OneMore(stream, "hunks", t, "hunks") /\ t \in Seq(Nat) /\ t[Len(stream) + 1] = w
        /\ Len(t) = Len(stream) + 1
    BY <1>1, <1>3, <1>8, <2>1, <2>2, WordRead
  <2>4. Len(t) <= MaxWords
    <3>1. Len(<<w>>) = 1
      OBVIOUS
    <3>2. Len(stream) + 1 + 0 <= MaxWords
      BY <2>1, <3>1, Zenon
    <3> HIDE DEF t
    <3> QED BY <2>2, <2>3, <3>2
  <2> HIDE DEF t
  <2>5. <<Len(t), "hunks">> \in Hunks!Reading(t)
    <3>1. Len(t) \in 1 .. Len(t)
      BY <2>2, <2>3
    <3>2. Len(t) = Len(stream) + 1 /\ "hunks" = "hunks"
      BY <2>3
    <3> QED BY <1>1, <2>3, <3>1, <3>2, NewPlace
  <2>6. t[Len(t)] % Hunks!Mask \notin Hunks!Supported
    BY <1>8, <2>3
  <2>7. Hunks!RefusalIsEarned'
    BY <2>5, <2>6 DEF Hunks!RefusalIsEarned, t
  <2>8. Hunks!RangeFits'
    BY <1>1, <1>8, <2>2 DEF HunkInv, Hunks!RangeFits
  <2>9. HunkTypes'
    <3>1. <<table_size, first, last>>' \in Heads \union {<<0, 0, 0>>}
      BY <1>1 DEF HunkInv, HunkTypes
    <3>2. stream' \in Seq(Nat) /\ Len(stream') <= MaxWords
      BY <2>3, <2>4 DEF t
    <3> QED BY <1>1, <1>8, <2>2, <3>1, <3>2 DEF HunkTypes
  <2> QED BY <1>8, <2>7, <2>8, <2>9 DEF HunkInv, Kinds
<1> QED BY <1>4, <1>5, <1>6, <1>7, <1>8

LEMMA ListEnds ==
  ASSUME HunkInv, NEW f \in {"reloc", "symbols"}, Hunks!EndList(f), UNCHANGED <<table_size, first, last>>
  PROVE  HunkInv'
<1> DEFINE k == "hunks"
           w == 0
<1>1. /\ pc = f /\ Hunks!Reads(<<w>>, 0) /\ pc' = k /\ rc' = rc /\ totals' = totals
      /\ pc # "hunks" /\ w = 0 /\ w \in Nat /\ pc \in Kinds /\ k \in Kinds
  BY DEF Hunks!EndList, Hunks!Continue, Kinds
<1> HIDE DEF w
<1> QED BY <1>1, OneWordGoes

LEMMA StepRelocations == HunkInv /\ Hunks!Relocations => HunkInv'
<1> SUFFICES ASSUME HunkInv, Hunks!Relocations PROVE HunkInv'
  OBVIOUS
<1>1. UNCHANGED <<table_size, first, last>>
  BY DEF Hunks!Relocations
<1>2. CASE Hunks!EndList("reloc")
  BY <1>1, <1>2, ListEnds
<1>3. CASE ~ Hunks!EndList("reloc")
  <2>1. pc = "reloc" /\ UNCHANGED <<pc, rc>>
    BY <1>3, Zenon DEF Hunks!Relocations
  <2>2. PICK x \in Numbers \ {0} : Hunks!Reads(<<x, 0>>, x) /\ Hunks!Add("reloc", x)
    BY <1>3, Zenon DEF Hunks!Relocations, Hunks!GroupWords
  <2>3. x \in Nat \ {0}
    BY HunkSizes DEF Words
  <2>4. Hunks!Add("reloc", IF "reloc" = "reloc" THEN x ELSE 1)
    BY <2>2
  <2>5. "reloc" \in {"reloc", "symbols"}
    OBVIOUS
  <2> QED BY <1>1, <2>1, <2>2, <2>3, <2>4, <2>5, GroupGoes
<1> QED BY <1>2, <1>3

LEMMA StepSymbols == HunkInv /\ Hunks!Symbols => HunkInv'
<1> SUFFICES ASSUME HunkInv, Hunks!Symbols PROVE HunkInv'
  OBVIOUS
<1>1. UNCHANGED <<table_size, first, last>>
  BY DEF Hunks!Symbols
<1>2. CASE Hunks!EndList("symbols")
  BY <1>1, <1>2, ListEnds
<1>3. CASE ~ Hunks!EndList("symbols")
  <2>1. pc = "symbols" /\ UNCHANGED <<pc, rc>>
    BY <1>3, Zenon DEF Hunks!Symbols
  <2>2. PICK x \in Numbers \ {0} : Hunks!Reads(<<x, 0>>, x) /\ Hunks!Add("symbols", 1)
    BY <1>3, Zenon DEF Hunks!Symbols, Hunks!GroupWords
  <2>3. x \in Nat \ {0}
    BY HunkSizes DEF Words
  <2>4. Hunks!Add("symbols", IF "symbols" = "reloc" THEN x ELSE 1)
    BY <2>2
  <2>5. "symbols" \in {"reloc", "symbols"}
    OBVIOUS
  <2> QED BY <1>1, <2>1, <2>2, <2>3, <2>4, <2>5, GroupGoes
<1> QED BY <1>2, <1>3

LEMMA StepEndOfStream == HunkInv /\ Hunks!EndOfStream => HunkInv'
<1> SUFFICES ASSUME HunkInv, Hunks!EndOfStream PROVE HunkInv'
  OBVIOUS
<1>1. /\ pc = "hunks" /\ pc' = "exit" /\ rc' \in {0, 20}
      /\ UNCHANGED <<table_size, first, last, stream, totals>>
  BY DEF Hunks!EndOfStream, Hunks!Exit
<1>2. /\ rc = 0 /\ stream \in Seq(Nat) /\ totals \in Counters /\ Right(stream, "hunks", totals)
  BY <1>1, HunkState DEF Kinds
<1>3. HunkTypes'
  <2>1. <<table_size, first, last>>' \in Heads \union {<<0, 0, 0>>}
    BY <1>1 DEF HunkInv, HunkTypes
  <2> QED BY <1>1, <2>1 DEF HunkInv, HunkTypes
<1>4. Hunks!RangeFits'
  BY <1>1, <1>2 DEF HunkInv, Hunks!RangeFits
<1>5. rc' # 5 /\ pc' \notin Kinds
  BY <1>1 DEF Kinds
<1> QED BY <1>1, <1>2, <1>3, <1>4, <1>5 DEF HunkInv, Hunks!RefusalIsEarned

LEMMA StepMalformed == HunkInv /\ Hunks!Malformed => HunkInv'
<1> SUFFICES ASSUME HunkInv, Hunks!Malformed PROVE HunkInv'
  OBVIOUS
<1>1. pc' = "exit" /\ rc' = 20 /\ UNCHANGED <<table_size, first, last, stream, totals>>
  BY DEF Hunks!Malformed, Hunks!Exit, Hunks!hunkState
<1>2. <<table_size, first, last>>' \in Heads \union {<<0, 0, 0>>}
  BY <1>1 DEF HunkInv, HunkTypes
<1> QED BY <1>1, <1>2, HunkExits

LEMMA StepHunkOpen == HunkInv /\ Hunks!Open => HunkInv'
<1> SUFFICES ASSUME HunkInv, Hunks!Open PROVE HunkInv'
  OBVIOUS
<1>1. /\ pc = "start" /\ UNCHANGED <<table_size, first, last, stream, totals>>
      /\ \/ pc' = "exit" /\ rc' \in {5, 10, 20}
         \/ pc' = "header" /\ rc' = rc
  BY DEF Hunks!Open, Hunks!Exit, Hunks!Continue, Hunks!hunkState
<1>2. rc = 0 /\ stream = << >> /\ totals = Hunks!NoTotals /\ table_size = 0
  BY <1>1 DEF HunkInv
<1>3. HunkTypes'
  <2>1. <<table_size, first, last>>' \in Heads \union {<<0, 0, 0>>}
    BY <1>1 DEF HunkInv, HunkTypes
  <2> QED BY <1>1, <1>2, <2>1 DEF HunkInv, HunkTypes
<1>4. Hunks!RangeFits'
  <2>1. ~ (table_size' > 0)
    BY <1>1, <1>2
  <2> QED BY <2>1 DEF Hunks!RangeFits
<1>5. Hunks!RefusalIsEarned'
  BY <1>1, <1>2 DEF Hunks!RefusalIsEarned
<1>6. pc' \notin Kinds /\ pc' # "start" /\ ~ (pc' = "exit" /\ rc' = 0)
  BY <1>1 DEF Kinds
<1> QED BY <1>1, <1>2, <1>3, <1>4, <1>5, <1>6 DEF HunkInv

(* A range that is accepted fits the table. *)
LEMMA AcceptedFits ==
  ASSUME NEW a \in Words, NEW b \in Words, NEW e \in Words, ~ (b < a), ~ (e = 0),
         ~ ((FileWord + b - a + 1) % FileWord > e)
  PROVE  (a <= b /\ b - a < e) \/ (a = 0 /\ b = FileWord - 1)
<1>1. FileWord \in Nat \ {0} /\ a \in 0 .. FileWord - 1 /\ b \in 0 .. FileWord - 1 /\ e \in 0 .. FileWord - 1
  BY HunkSizes DEF Words
<1> DEFINE d == b - a + 1
           x == FileWord + b - a + 1
<1>2. d \in 1 .. FileWord /\ x = d + 1 * FileWord
  BY <1>1
<1>3. CASE d = FileWord
  BY <1>1, <1>3
<1>4. CASE d # FileWord
  <2>1. d \in 0 .. FileWord - 1 /\ 1 \in Nat
    BY <1>1, <1>2, <1>4
  <2> HIDE DEF d
  <2>2. (d + 1 * FileWord) % FileWord = d
    BY <1>1, <2>1, Remainder
  <2>3. x % FileWord = d
    BY <1>2, <2>2
  <2>4. ~ (d > e)
    BY <2>3
  <2>5. d <= e
    BY <1>1, <2>1, <2>4
  <2> QED BY <1>1, <2>5 DEF d
<1> QED BY <1>3, <1>4

LEMMA StepHeader == HunkInv /\ Hunks!Header => HunkInv'
<1> SUFFICES ASSUME HunkInv, Hunks!Header PROVE HunkInv'
  OBVIOUS
<1>1. /\ pc = "header" /\ UNCHANGED <<stream, totals>>
      /\ (pc' = "exit" /\ rc' = 20) \/ (pc' = "hunks" /\ rc' = rc /\ ~ Hunks!BadRange')
  BY DEF Hunks!Header, Hunks!Exit, Hunks!Continue
<1>2. PICK h \in Heads : table_size' = h[1] /\ first' = h[2] /\ last' = h[3]
  BY DEF Hunks!Header
<1>3. rc = 0 /\ stream = << >> /\ totals = Hunks!NoTotals /\ HunkTypes
  BY <1>1 DEF HunkInv
<1>4. /\ table_size' \in Words /\ first' \in Words /\ last' \in Words
      /\ <<table_size, first, last>>' \in Heads \union {<<0, 0, 0>>}
  <2>1. h \in Words \X Words \X Words
    BY HunkAssumption DEF Words
  <2>2. h = <<h[1], h[2], h[3]>> /\ h[1] \in Words /\ h[2] \in Words /\ h[3] \in Words
    BY <2>1
  <2> QED BY <1>2, <2>2
<1>5. CASE pc' = "exit" /\ rc' = 20
  BY <1>1, <1>4, <1>5, HunkExits
<1>6. CASE pc' = "hunks" /\ rc' = rc /\ ~ Hunks!BadRange'
  <2>1. /\ ~ (last' < first') /\ ~ (table_size' = 0)
        /\ ~ ((FileWord + last' - first' + 1) % FileWord > table_size')
    BY <1>6 DEF Hunks!BadRange, Hunks!Declared
  <2>2. (first' <= last' /\ last' - first' < table_size') \/ (first' = 0 /\ last' = FileWord - 1)
    BY <1>4, <2>1, AcceptedFits
  <2>3. Hunks!RangeFits'
    BY <2>2 DEF Hunks!RangeFits
  <2>4. HunkTypes'
    BY <1>1, <1>3, <1>4, <1>6 DEF HunkTypes
  <2>5. Right(stream', "hunks", totals')
    <3>1. stream' = << >> /\ totals' = Hunks!NoTotals
      BY <1>1, <1>3
    <3> QED BY <3>1, NothingIsRight
  <2>6. rc' = 0
    BY <1>3, <1>6
  <2> QED BY <1>6, <2>3, <2>4, <2>5, <2>6 DEF HunkInv, Hunks!RefusalIsEarned
<1> QED BY <1>1, <1>5, <1>6

LEMMA StepHunk ==
  ASSUME HunkInv, Hunks!HunkNext \/ UNCHANGED <<pc, rc, HunkVars>>
  PROVE  HunkInv'
BY HunkStays, StepHunkOpen, StepHeader, StepSection, StepSkip, StepBeginList, StepRelocations, StepSymbols,
   StepEndOfStream, StepMalformed, Zenon DEF Hunks!HunkNext

LEMMA HunkIsRight ==
  ASSUME HunkInv
  PROVE  /\ Hunks!HunkTypeOK /\ Hunks!TotalsAreTrue
         /\ Hunks!RangeFits /\ Hunks!RefusalIsEarned
<1>1. HunkTypes /\ Hunks!RangeFits /\ Hunks!RefusalIsEarned
  BY DEF HunkInv
<1>2. Hunks!HunkTypeOK
  <2>1. \A f \in DOMAIN totals : totals[f] \in 0 .. FileWord - 1
    BY <1>1 DEF HunkTypes, Counters, Words
  <2> QED BY <1>1, <2>1 DEF HunkTypes, Hunks!HunkTypeOK
<1>3. Hunks!TotalsAreTrue
  <2> SUFFICES ASSUME pc = "exit", rc = 0 PROVE Hunks!TotalsAreTrue
    BY DEF Hunks!TotalsAreTrue
  <2>1. /\ ReadTo(stream, "hunks") /\ Hunks!Known(stream) /\ totals = Hunks!Counted(stream)
        /\ stream \in Seq(Nat)
    BY <1>1 DEF HunkInv, HunkTypes, Right
  <2> DEFINE R == Hunks!Reading(stream)
  <2>2. ASSUME NEW v \in R
        PROVE  Hunks!After(stream, v) \in R \union {<<Len(stream) + 1, "hunks">>}
    <3>1. R \subseteq (1 .. Len(stream)) \X Kinds
      BY <2>1, ReadingIs DEF IsReading
    <3> HIDE DEF R
    <3>2. PICK p \in 1 .. Len(stream), l \in Kinds : v = <<p, l>>
      BY <2>2, <3>1
    <3>3. Hunks!After(stream, <<p, l>>) = <<Len(stream) + 1, "hunks">> \/ Hunks!After(stream, <<p, l>>) \in R
      BY <2>1, <2>2, <3>2 DEF ReadTo, R
    <3> QED BY <3>2, <3>3
  <2> HIDE DEF R
  <2> QED BY <2>1, <2>2 DEF R, Hunks!TotalsAreTrue
<1> QED BY <1>1, <1>2, <1>3
=============================================================================
