----------------------- MODULE EvidencePipelineProofs -----------------------
(***************************************************************************)
(* What the return codes of the evidence pipeline are worth: for files of  *)
(* any length, tables of any size and any keys and values.                 *)
(***************************************************************************)
EXTENDS EvidencePipeline, DataProofs

Forms == {"ok", "wide", "long", "junk"}
Formed(E) == \A l \in E : l.form \in Forms

(* What load_snapshot and load_source fill: some of the lines they read.   *)
LineTables(E) == [records : Seq(E), truncated : BOOLEAN]

(* What load_snapshot does with a line, case by case. *)
Taken(E, s, l, r) ==
  /\ r \in LineTables(E)
  /\ \/ l.form = "long" /\ r.records = s.records /\ r.truncated
     \/ l.form # "long" /\ (l.form = "junk" \/ Has(s, l.key)) /\ r = s
     \/ /\ Told(l) /\ ~ Has(s, l.key)
        /\ Len(s.records) >= MaxCompare \/ l.form = "wide"
        /\ r.records = s.records /\ r.truncated
     \/ /\ l.form = "ok" /\ ~ Has(s, l.key) /\ ~ (Len(s.records) >= MaxCompare)
        /\ r.records = Append(s.records, l) /\ r.truncated = s.truncated

LEMMA LoadLineCases ==
  ASSUME NEW E, Formed(E), NEW s \in LineTables(E), NEW l \in E, NEW r, r = LoadLine(s, l)
  PROVE  Taken(E, s, l, r)
<1> USE DEF Taken
<1>1. s.records \in Seq(E) /\ s.truncated \in BOOLEAN /\ l.form \in Forms
  BY DEF LineTables, Formed
<1>2. s \in [records : Seq(E), truncated : BOOLEAN] /\ Append(s.records, l) \in Seq(E)
  BY <1>1, AppendedSet DEF LineTables
<1>3. ASSUME r = [s EXCEPT !.truncated = TRUE]
      PROVE  r \in LineTables(E) /\ r.records = s.records /\ r.truncated
  BY <1>2, <1>3 DEF LineTables
<1>4. ASSUME r = [s EXCEPT !.records = Append(@, l)]
      PROVE  /\ r \in LineTables(E)
             /\ r.records = Append(s.records, l) /\ r.truncated = s.truncated
  BY <1>2, <1>4 DEF LineTables
<1>5. CASE l.form = "long"
  BY <1>3, <1>5 DEF LoadLine
<1>6. CASE l.form # "long" /\ (l.form = "junk" \/ Has(s, l.key))
  BY <1>6 DEF LoadLine
<1>7. CASE Told(l) /\ ~ Has(s, l.key) /\ (Len(s.records) >= MaxCompare \/ l.form = "wide")
  BY <1>3, <1>7 DEF LoadLine, Told
<1>8. CASE l.form = "ok" /\ ~ Has(s, l.key) /\ ~ (Len(s.records) >= MaxCompare)
  BY <1>4, <1>8 DEF LoadLine
<1> QED BY <1>1, <1>5, <1>6, <1>7, <1>8 DEF Forms, Told

(* The table of Compare after each line. *)
LEMMA LoadsTurn ==
  ASSUME NEW E, Formed(E), NEW file \in Seq(E)
  PROVE  /\ Loads(file) \in [0 .. Len(file) -> LineTables(E)]
         /\ Loads(file)[0] = EmptyLoad
         /\ \A n \in 1 .. Len(file) : Loads(file)[n] = LoadLine(Loads(file)[n - 1], file[n])
<1> DEFINE D == LineTables(E)
           f == [p \in D \X E |-> LoadLine(p[1], p[2])]
           Loop(h) == [n \in 0 .. Len(file) |->
                         IF n = 0 THEN EmptyLoad ELSE LoadLine(h[n - 1], file[n])]
           u == CHOOSE h : h = Loop(h)
<1>1. EmptyLoad \in D
  BY DEF EmptyLoad, LineTables
<1>2. ASSUME NEW d \in D, NEW l \in E PROVE LoadLine(d, l) \in D
  BY LoadLineCases DEF Taken
<1>3. IsBody(f, D, E)
  <2> HIDE DEF D
  <2> QED BY <1>2 DEF IsBody
<1>4. Loads(file) = u
  BY DEF Loads
<1> HIDE DEF D
<1>5. PICK g \in [0 .. Len(file) -> D] :
        g[0] = EmptyLoad /\ \A n \in 1 .. Len(file) : g[n] = f[<<g[n - 1], file[n]>>]
  <2>1. \E g \in [0 .. Len(file) -> D] : RunsOver(g, f, EmptyLoad, file)
    <3> HIDE DEF f
    <3> QED BY <1>1, <1>3, LoopExists, Zenon
  <2> QED BY <2>1 DEF RunsOver
<1>6. Len(file) \in Nat /\ \A n \in 1 .. Len(file) : file[n] \in E
  OBVIOUS
<1>7. ASSUME NEW n \in 1 .. Len(file) PROVE g[n] = LoadLine(g[n - 1], file[n])
  <2>1. g[n - 1] \in D
    BY <1>5, <1>6
  <2> QED BY <1>5, <1>6, <2>1
<1> HIDE DEF f
<1>8. g = Loop(g)
  <2>1. ASSUME NEW n \in 0 .. Len(file) PROVE g[n] = Loop(g)[n]
    <3>1. CASE n = 0
      BY <1>5, <3>1
    <3>2. CASE n # 0
      <4>1. n \in 1 .. Len(file)
        BY <1>6, <3>2
      <4> QED BY <1>7, <3>2, <4>1
    <3> QED BY <3>1, <3>2
  <2>2. g = [n \in 0 .. Len(file) |-> g[n]]
    BY <1>5
  <2> QED BY <2>1, <2>2
<1>9. u = Loop(u)
  <2> HIDE DEF Loop
  <2> QED BY <1>8
<1> HIDE DEF u
<1>10. u[0] = EmptyLoad /\ \A n \in 1 .. Len(file) : u[n] = LoadLine(u[n - 1], file[n])
  <2>1. 0 \in 0 .. Len(file) /\ u[0] = Loop(u)[0]
    <3> HIDE DEF Loop
    <3> QED BY <1>6, <1>9
  <2>2. ASSUME NEW n \in 1 .. Len(file) PROVE u[n] = LoadLine(u[n - 1], file[n])
    <3>1. u[n] = Loop(u)[n]
      <4> HIDE DEF Loop
      <4> QED BY <1>9
    <3>2. n \in 0 .. Len(file) /\ n # 0
      BY <1>6
    <3> QED BY <3>1, <3>2
  <2> QED BY <2>1, <2>2
<1>11. DOMAIN u = 0 .. Len(file) /\ u = [n \in 0 .. Len(file) |-> u[n]]
  <2>1. DOMAIN Loop(u) = 0 .. Len(file) /\ Loop(u) = [n \in 0 .. Len(file) |-> Loop(u)[n]]
    OBVIOUS
  <2> HIDE DEF Loop
  <2> QED BY <1>9, <2>1
<1> HIDE DEF Loop
<1> DEFINE Typed == {n \in 0 .. Len(file) : u[n] \in D}
<1>12. 0 \in Typed
  BY <1>1, <1>6, <1>10
<1>13. ASSUME NEW n \in 1 .. Len(file), n - 1 \in Typed PROVE n \in Typed
  <2>1. u[n - 1] \in D /\ file[n] \in E /\ n \in 0 .. Len(file)
    BY <1>6, <1>13
  <2> QED BY <1>2, <1>10, <2>1
<1>14. 0 .. Len(file) \subseteq Typed
  <2> HIDE DEF Typed
  <2> QED BY <1>6, <1>12, <1>13, TurnInduction
<1>15. \A n \in 0 .. Len(file) : u[n] \in D
  BY <1>14
<1> QED BY <1>4, <1>10, <1>11, <1>15 DEF D

KeysTo(file, n) == {file[i].key : i \in {j \in 1 .. n : Told(file[j])}}
KeysIn(recs) == {recs[i].key : i \in DOMAIN recs}
Bad(file, n) == \E i \in 1 .. n : file[i].form \in {"long", "wide"}

(* What Compare's table is after n lines of the file: it has each key once,*)
(* and a flag that is raised exactly when a line was lost that counts.     *)
FaithfulTo(file, n, r) ==
  /\ Len(r.records) <= MaxCompare
  /\ \A i, j \in DOMAIN r.records : r.records[i].key = r.records[j].key => i = j
  /\ KeysIn(r.records) \subseteq KeysTo(file, n)
  /\ r.truncated => Bad(file, n) \/ Cardinality(KeysTo(file, n)) > MaxCompare
  /\ ~ r.truncated =>
       /\ KeysIn(r.records) = KeysTo(file, n)
       /\ \A i \in 1 .. n : file[i].form # "long"
       /\ \A i \in DOMAIN r.records :
            \E j \in 1 .. n : r.records[i] = file[j] /\ IsFirst(file, j, file[j].key)

LEMMA KeysToGrow ==
  ASSUME NEW file, NEW n \in Nat, n # 0
  PROVE  KeysTo(file, n) = KeysTo(file, n - 1) \union
                             (IF Told(file[n]) THEN {file[n].key} ELSE {})
<1>1. 1 .. n = (1 .. n - 1) \union {n}
  OBVIOUS
<1> QED BY <1>1 DEF KeysTo

LEMMA KeysAreFinite ==
  ASSUME NEW file, NEW n \in Nat
  PROVE  IsFiniteSet(KeysTo(file, n)) /\ Cardinality(KeysTo(file, n)) \in Nat
<1> DEFINE U == {j \in 1 .. n : Told(file[j])}
<1>1. IsFiniteSet(1 .. n)
  <2>1. 1 \in Int /\ n \in Int
    OBVIOUS
  <2> QED BY <2>1, FS_Interval, Zenon
<1>2. U \in SUBSET (1 .. n)
  OBVIOUS
<1>3. IsFiniteSet(U)
  <2> HIDE DEF U
  <2> QED BY <1>1, <1>2, FS_Subset, Zenon
<1> DEFINE K == [j \in U |-> file[j].key]
<1>4. KeysTo(file, n) = {K[j] : j \in U}
  BY DEF KeysTo
<1>5. K \in Surjection(U, KeysTo(file, n))
  <2> HIDE DEF U
  <2> QED BY <1>4 DEF Surjection
<1>6. IsFiniteSet(KeysTo(file, n))
  BY <1>3, <1>5, FS_Surjection, Zenon
<1> QED BY <1>6, FS_CardinalityType, Zenon

(* A table with each key once has as many keys as records. *)
LEMMA KeysCounted ==
  ASSUME NEW E, NEW recs \in Seq(E), \A i, j \in DOMAIN recs : recs[i].key = recs[j].key => i = j
  PROVE  Cardinality(KeysIn(recs)) = Len(recs)
<1> DEFINE ks == [i \in 1 .. Len(recs) |-> recs[i].key]
           S == KeysIn(recs)
<1>1. DOMAIN recs = 1 .. Len(recs) /\ Len(recs) \in Nat
  OBVIOUS
<1>2. ks \in Seq(S) /\ Len(ks) = Len(recs)
  BY <1>1 DEF KeysIn
<1>3. IsInjective(ks)
  BY <1>1 DEF IsInjective
<1>4. ToSet(ks) = S
  BY <1>1 DEF ToSet, KeysIn
<1> HIDE DEF ks, S
<1>5. Cardinality(ToSet(ks)) = Len(ks)
  BY <1>2, <1>3, NodesAreFinite, Zenon
<1> QED BY <1>2, <1>4, <1>5 DEF S

(* A table with one line more has one key more. *)
LEMMA KeyAdded ==
  ASSUME NEW E, NEW recs \in Seq(E), NEW l \in E
  PROVE  KeysIn(Append(recs, l)) = KeysIn(recs) \union {l.key}
<1>1. /\ DOMAIN Append(recs, l) = 1 .. Len(recs) + 1 /\ DOMAIN recs = 1 .. Len(recs)
      /\ Len(recs) \in Nat /\ Append(recs, l)[Len(recs) + 1] = l
      /\ \A i \in 1 .. Len(recs) : Append(recs, l)[i] = recs[i]
  OBVIOUS
<1>2. ASSUME NEW i \in 1 .. Len(recs) + 1
      PROVE  Append(recs, l)[i].key \in KeysIn(recs) \union {l.key}
  <2>1. CASE i \in 1 .. Len(recs)
    BY <1>1, <2>1 DEF KeysIn
  <2>2. CASE i = Len(recs) + 1
    BY <1>1, <2>2
  <2> QED BY <1>1, <2>1, <2>2
<1>3. ASSUME NEW i \in 1 .. Len(recs) PROVE recs[i].key \in KeysIn(Append(recs, l))
  BY <1>1 DEF KeysIn
<1>4. l.key \in KeysIn(Append(recs, l))
  BY <1>1 DEF KeysIn
<1> QED BY <1>1, <1>2, <1>3, <1>4 DEF KeysIn

(* One line more keeps the table faithful, whichever of the four cases.    *)
LEMMA LineKeepsFaithful ==
  ASSUME NEW E, Formed(E), NEW file \in Seq(E), NEW n \in 1 .. Len(file),
         NEW s \in LineTables(E), FaithfulTo(file, n - 1, s), NEW r, r = LoadLine(s, file[n])
  PROVE  FaithfulTo(file, n, r)
<1> DEFINE l == file[n]
           old == KeysTo(file, n - 1)
           new == KeysTo(file, n)
<1>1. /\ n \in Nat /\ n # 0 /\ n - 1 \in Nat /\ l \in E
      /\ s.records \in Seq(E) /\ s.truncated \in BOOLEAN /\ l.form \in Forms
      /\ DOMAIN s.records = 1 .. Len(s.records) /\ Len(s.records) \in Nat /\ MaxCompare \in Nat
  BY LimitsAssumption DEF LineTables, Formed
<1>2. /\ r \in LineTables(E)
      /\ \/ l.form = "long" /\ r.records = s.records /\ r.truncated
         \/ l.form # "long" /\ (l.form = "junk" \/ Has(s, l.key)) /\ r = s
         \/ /\ Told(l) /\ ~ Has(s, l.key)
            /\ Len(s.records) >= MaxCompare \/ l.form = "wide"
            /\ r.records = s.records /\ r.truncated
         \/ /\ l.form = "ok" /\ ~ Has(s, l.key) /\ ~ (Len(s.records) >= MaxCompare)
            /\ r.records = Append(s.records, l) /\ r.truncated = s.truncated
  <2>1. l \in E /\ r = LoadLine(s, l)
    BY <1>1
  <2> HIDE DEF l
  <2>2. Taken(E, s, l, r)
    BY <2>1, LoadLineCases
  <2> QED BY <2>2 DEF Taken
<1>3. new = old \union (IF Told(l) THEN {l.key} ELSE {})
  BY <1>1, KeysToGrow
<1>4. /\ IsFiniteSet(old) /\ IsFiniteSet(new)
      /\ Cardinality(old) \in Nat /\ Cardinality(new) \in Nat
  BY <1>1, KeysAreFinite, Zenon
<1>5. Cardinality(old) <= Cardinality(new)
  <2>1. old \in SUBSET new
    BY <1>3
  <2> QED BY <1>4, <2>1, FS_Subset, Zenon
<1> HIDE DEF old, new
<1>6. /\ Len(s.records) <= MaxCompare
      /\ \A i, j \in DOMAIN s.records : s.records[i].key = s.records[j].key => i = j
      /\ KeysIn(s.records) \subseteq old
      /\ s.truncated => Bad(file, n - 1) \/ Cardinality(old) > MaxCompare
      /\ ~ s.truncated =>
           /\ KeysIn(s.records) = old
           /\ \A i \in 1 .. n - 1 : file[i].form # "long"
           /\ \A i \in DOMAIN s.records :
                \E j \in 1 .. n - 1 :
                  s.records[i] = file[j] /\ IsFirst(file, j, file[j].key)
  BY DEF FaithfulTo, old
<1>7. Has(s, l.key) <=> l.key \in KeysIn(s.records)
  BY DEF Has, KeysIn
<1>8. Bad(file, n - 1) => Bad(file, n)
  BY <1>1 DEF Bad
<1>9. l.form \in {"long", "wide"} => Bad(file, n)
  BY <1>1 DEF Bad
<1>10. s.truncated => Bad(file, n) \/ Cardinality(new) > MaxCompare
  BY <1>1, <1>4, <1>5, <1>6, <1>8
<1>11. CASE l.form = "long"
  <2>1. r.records = s.records /\ r.truncated
    BY <1>2, <1>11 DEF Told
  <2>2. KeysIn(r.records) \subseteq new
    BY <1>3, <1>6, <2>1
  <2> QED BY <1>6, <1>9, <1>11, <2>1, <2>2 DEF FaithfulTo, new
<1>12. CASE l.form # "long" /\ (l.form = "junk" \/ Has(s, l.key))
  <2>1. r = s
    BY <1>2, <1>12 DEF Told
  <2>2. KeysIn(s.records) \subseteq new
    BY <1>3, <1>6
  <2>3. ASSUME ~ s.truncated
        PROVE  /\ KeysIn(s.records) = new
               /\ \A i \in 1 .. n : file[i].form # "long"
               /\ \A i \in DOMAIN s.records :
                    \E j \in 1 .. n : s.records[i] = file[j] /\ IsFirst(file, j, file[j].key)
    <3>1. KeysIn(s.records) = new
      BY <1>3, <1>6, <1>7, <1>12, <2>3 DEF Told
    <3>2. ASSUME NEW i \in 1 .. n PROVE file[i].form # "long"
      <4>1. i = n \/ i \in 1 .. n - 1
        BY <1>1
      <4> QED BY <1>6, <1>12, <2>3, <4>1
    <3>3. 1 .. n - 1 \subseteq 1 .. n
      BY <1>1
    <3> QED BY <1>6, <2>3, <3>1, <3>2, <3>3
  <2> QED BY <1>6, <1>10, <2>1, <2>2, <2>3 DEF FaithfulTo, new
<1>13. CASE /\ Told(l) /\ ~ Has(s, l.key)
            /\ Len(s.records) >= MaxCompare \/ l.form = "wide"
            /\ r.records = s.records /\ r.truncated
  <2>1. KeysIn(r.records) \subseteq new
    BY <1>3, <1>6, <1>13
  <2>2. Bad(file, n) \/ Cardinality(new) > MaxCompare
    <3>1. CASE l.form = "wide" \/ s.truncated
      BY <1>9, <1>10, <3>1
    <3>2. CASE Len(s.records) >= MaxCompare /\ ~ s.truncated
      <4>1. Cardinality(KeysIn(s.records)) = Len(s.records)
        BY <1>1, <1>6, KeysCounted
      <4>2. old = KeysIn(s.records) /\ l.key \notin old /\ new = old \union {l.key}
        BY <1>3, <1>6, <1>7, <1>13, <3>2
      <4>3. Cardinality(new) = Cardinality(old) + 1
        BY <1>4, <4>2, FS_AddElement
      <4> QED BY <1>1, <1>4, <3>2, <4>1, <4>2, <4>3
    <3> QED BY <1>13, <3>1, <3>2
  <2> QED BY <1>6, <1>13, <2>1, <2>2 DEF FaithfulTo, new
<1>14. CASE /\ l.form = "ok" /\ ~ Has(s, l.key) /\ ~ (Len(s.records) >= MaxCompare)
            /\ r.records = Append(s.records, l) /\ r.truncated = s.truncated
  <2>1. /\ Len(r.records) = Len(s.records) + 1
        /\ DOMAIN r.records = 1 .. Len(s.records) + 1
        /\ r.records[Len(s.records) + 1] = l
        /\ \A i \in 1 .. Len(s.records) : r.records[i] = s.records[i]
    BY <1>1, <1>14
  <2>2. KeysIn(r.records) = KeysIn(s.records) \union {l.key}
    BY <1>1, <1>14, KeyAdded
  <2>3. new = old \union {l.key}
    BY <1>3, <1>14 DEF Told
  <2>4. Len(r.records) <= MaxCompare
    BY <1>1, <1>14, <2>1
  <2>5. ASSUME NEW i \in DOMAIN r.records, NEW j \in DOMAIN r.records,
               r.records[i].key = r.records[j].key
        PROVE  i = j
    <3>1. \A k \in 1 .. Len(s.records) : s.records[k].key # l.key
      BY <1>1, <1>14 DEF Has
    <3>2. CASE i \in 1 .. Len(s.records) /\ j \in 1 .. Len(s.records)
      BY <1>1, <1>6, <2>1, <2>5, <3>2
    <3>3. CASE i = Len(s.records) + 1 /\ j \in 1 .. Len(s.records)
      BY <2>1, <2>5, <3>1, <3>3
    <3>4. CASE i \in 1 .. Len(s.records) /\ j = Len(s.records) + 1
      BY <2>1, <2>5, <3>1, <3>4
    <3> QED BY <1>1, <2>1, <3>2, <3>3, <3>4
  <2>6. ASSUME ~ s.truncated
        PROVE  /\ KeysIn(r.records) = new
               /\ \A i \in 1 .. n : file[i].form # "long"
               /\ \A i \in DOMAIN r.records :
                    \E j \in 1 .. n : r.records[i] = file[j] /\ IsFirst(file, j, file[j].key)
    <3>1. KeysIn(r.records) = new
      BY <1>6, <2>2, <2>3, <2>6
    <3>2. ASSUME NEW i \in 1 .. n PROVE file[i].form # "long"
      <4>1. i = n \/ i \in 1 .. n - 1
        BY <1>1
      <4> QED BY <1>6, <1>14, <2>6, <4>1
    <3>3. IsFirst(file, n, l.key)
      <4>1. l.key \notin old
        BY <1>6, <1>7, <1>14, <2>6
      <4>2. \A j \in 1 .. n - 1 : ~ (Told(file[j]) /\ file[j].key = l.key)
        BY <4>1 DEF old, KeysTo
      <4> QED BY <1>14, <4>2 DEF IsFirst, Told
    <3>4. ASSUME NEW i \in DOMAIN r.records
          PROVE  \E j \in 1 .. n : r.records[i] = file[j] /\ IsFirst(file, j, file[j].key)
      <4>1. CASE i \in 1 .. Len(s.records)
        <5>1. PICK j \in 1 .. n - 1 :
                s.records[i] = file[j] /\ IsFirst(file, j, file[j].key)
          BY <1>1, <1>6, <2>6, <4>1
        <5>2. j \in 1 .. n /\ r.records[i] = file[j]
          BY <1>1, <2>1, <4>1, <5>1
        <5> QED BY <5>1, <5>2
      <4>2. CASE i = Len(s.records) + 1
        <5>1. n \in 1 .. n /\ r.records[i] = file[n]
          BY <1>1, <2>1, <4>2
        <5> QED BY <3>3, <5>1
      <4> QED BY <1>1, <2>1, <4>1, <4>2
    <3> QED BY <3>1, <3>2, <3>4
  <2>7. KeysIn(r.records) \subseteq new
    BY <1>6, <2>2, <2>3
  <2> QED BY <1>10, <1>14, <2>4, <2>5, <2>6, <2>7 DEF FaithfulTo, new
<1> QED BY <1>2, <1>11, <1>12, <1>13, <1>14

LEMMA LoadFaithful ==
  ASSUME NEW E, Formed(E), NEW file \in Seq(E)
  PROVE  Load(file) \in LineTables(E) /\ FaithfulTo(file, Len(file), Load(file))
<1> DEFINE u == Loads(file)
           Good == {n \in 0 .. Len(file) : FaithfulTo(file, n, u[n])}
<1>1. /\ u \in [0 .. Len(file) -> LineTables(E)] /\ u[0] = EmptyLoad
      /\ \A n \in 1 .. Len(file) : u[n] = LoadLine(u[n - 1], file[n])
  BY LoadsTurn
<1>2. Len(file) \in Nat
  OBVIOUS
<1> HIDE DEF u
<1>3. 0 \in Good
  <2>1. FaithfulTo(file, 0, EmptyLoad)
    BY LimitsAssumption DEF FaithfulTo, EmptyLoad, KeysIn, KeysTo
  <2> QED BY <1>1, <1>2, <2>1
<1>4. ASSUME NEW n \in 1 .. Len(file), n - 1 \in Good PROVE n \in Good
  <2>1. /\ n \in 0 .. Len(file) /\ u[n - 1] \in LineTables(E)
        /\ FaithfulTo(file, n - 1, u[n - 1]) /\ u[n] = LoadLine(u[n - 1], file[n])
    BY <1>1, <1>2, <1>4
  <2>2. FaithfulTo(file, n, u[n])
    BY <2>1, LineKeepsFaithful
  <2> QED BY <2>1, <2>2
<1>5. 0 .. Len(file) \subseteq Good
  <2> HIDE DEF Good
  <2> QED BY <1>2, <1>3, <1>4, TurnInduction
<1>6. Len(file) \in 0 .. Len(file)
  BY <1>2
<1>7. FaithfulTo(file, Len(file), u[Len(file)])
  BY <1>5, <1>6
<1> QED BY <1>1, <1>6, <1>7 DEF Load, u
-----------------------------------------------------------------------------
(* A table that is not flagged says what the file says; one that is was    *)
(* given more than it can hold.                                            *)
LEMMA LoadMeans ==
  ASSUME NEW E, Formed(E), NEW file \in Seq(E), NEW r, r = Load(file), ~ r.truncated
  PROVE  /\ r.records \in Seq(E)
         /\ \A k : Has(r, k) <=> k \in KeysOf(file)
         /\ \A k \in KeysOf(file) : ValueOf(r, k) = Meaning(file)[k]
         /\ \A i \in DOMAIN r.records :
              r.records[i].key \in KeysOf(file) /\ r.records[i].value = Meaning(file)[r.records[i].key]
<1>1. r \in LineTables(E) /\ FaithfulTo(file, Len(file), r)
  BY LoadFaithful
<1>2. /\ r.records \in Seq(E) /\ Len(file) \in Nat
      /\ DOMAIN file = 1 .. Len(file)
  BY <1>1 DEF LineTables
<1>3. KeysOf(file) = KeysTo(file, Len(file))
  BY <1>2 DEF KeysOf, KeysTo
<1>4. /\ \A i, j \in DOMAIN r.records : r.records[i].key = r.records[j].key => i = j
      /\ KeysIn(r.records) = KeysOf(file)
      /\ \A i \in DOMAIN r.records :
           \E j \in DOMAIN file : r.records[i] = file[j] /\ IsFirst(file, j, file[j].key)
  BY <1>1, <1>2, <1>3 DEF FaithfulTo
<1>5. \A k : Has(r, k) <=> k \in KeysOf(file)
  BY <1>4 DEF Has, KeysIn
<1>6. ASSUME NEW i \in DOMAIN r.records
      PROVE  /\ r.records[i].key \in KeysOf(file)
             /\ r.records[i].value = Meaning(file)[r.records[i].key]
  <2> DEFINE k == r.records[i].key
             first == CHOOSE j \in DOMAIN file : IsFirst(file, j, k)
  <2>1. k \in KeysOf(file)
    BY <1>4 DEF KeysIn
  <2>2. PICK j \in DOMAIN file : r.records[i] = file[j] /\ IsFirst(file, j, k)
    BY <1>4
  <2>3. first \in DOMAIN file /\ IsFirst(file, first, k)
    BY <2>2
  <2> HIDE DEF first
  <2>4. first = j
    <3>1. j \in 1 .. Len(file) /\ first \in 1 .. Len(file)
      BY <1>2, <2>2, <2>3
    <3>2. CASE j < first
      <4>1. j \in 1 .. first - 1
        BY <3>1, <3>2
      <4> QED BY <2>2, <2>3, <4>1 DEF IsFirst
    <3>3. CASE first < j
      <4>1. first \in 1 .. j - 1
        BY <3>1, <3>3
      <4> QED BY <2>2, <2>3, <4>1 DEF IsFirst
    <3> QED BY <3>1, <3>2, <3>3
  <2>5. Meaning(file)[k] = file[first].value
    BY <2>1 DEF Meaning, first
  <2> QED BY <2>1, <2>2, <2>4, <2>5
<1>7. ASSUME NEW k \in KeysOf(file) PROVE ValueOf(r, k) = Meaning(file)[k]
  <2> DEFINE i == CHOOSE x \in DOMAIN r.records : r.records[x].key = k
  <2>1. \E x \in DOMAIN r.records : r.records[x].key = k
    BY <1>4 DEF KeysIn
  <2>2. i \in DOMAIN r.records /\ r.records[i].key = k
    BY <2>1
  <2>3. ValueOf(r, k) = r.records[i].value
    BY DEF ValueOf
  <2> HIDE DEF i
  <2> QED BY <1>6, <2>2, <2>3
<1> QED BY <1>2, <1>5, <1>6, <1>7

LEMMA LoadFlag ==
  ASSUME NEW E, Formed(E), NEW file \in Seq(E), NEW r, r = Load(file)
  PROVE  /\ r \in LineTables(E)
         /\ r.truncated => Overfull(file)
         /\ Cardinality(KeysOf(file)) > MaxCompare => r.truncated
<1>1. r \in LineTables(E) /\ FaithfulTo(file, Len(file), r)
  BY LoadFaithful
<1>2. /\ r.records \in Seq(E) /\ Len(file) \in Nat /\ MaxCompare \in Nat
      /\ DOMAIN file = 1 .. Len(file) /\ Len(r.records) \in Nat
  BY <1>1, LimitsAssumption DEF LineTables
<1>3. KeysOf(file) = KeysTo(file, Len(file))
  BY <1>2 DEF KeysOf, KeysTo
<1>4. r.truncated => Overfull(file)
  BY <1>1, <1>2, <1>3 DEF FaithfulTo, Bad, Overfull
<1>5. ASSUME ~ r.truncated PROVE ~ (Cardinality(KeysOf(file)) > MaxCompare)
  <2>1. Cardinality(KeysIn(r.records)) = Len(r.records)
    BY <1>1, <1>2, KeysCounted DEF FaithfulTo
  <2>2. KeysIn(r.records) = KeysOf(file) /\ Len(r.records) <= MaxCompare
    BY <1>1, <1>3, <1>5 DEF FaithfulTo
  <2> QED BY <1>2, <2>1, <2>2
<1> QED BY <1>1, <1>4, <1>5
-----------------------------------------------------------------------------
(* What Compare prints, as a set: nothing but the changes.                 *)
Changes(b, a) == {ChangeOf(l, a) : l \in Changed(b, a)} \union {Addition(l.key) : l \in New(b, a)}

LEMMA DifferencesPrinted ==
  ASSUME NEW E, NEW F, NEW b \in LineTables(E), NEW a \in LineTables(F)
  PROVE  /\ Differences(b, a) \in Seq(ToSet(Differences(b, a)))
         /\ ToSet(Differences(b, a)) = Changes(b, a)
<1> DEFINE changed == Selected(b.records, Changed(b, a))
           new == Selected(a.records, New(b, a))
           d == [i \in DOMAIN changed |-> ChangeOf(changed[i], a)]
           e == [i \in DOMAIN new |-> Addition(new[i].key)]
           X == {ChangeOf(l, a) : l \in Changed(b, a)}
           Y == {Addition(l.key) : l \in New(b, a)}
<1>1. Differences(b, a) = d \o e
  BY DEF Differences
<1>2. b.records \in Seq(E) /\ a.records \in Seq(F)
  BY DEF LineTables
<1>3. changed \in Seq(E) /\ ToSet(changed) = Changed(b, a)
  <2>1. changed \in Seq(E) /\ ToSet(changed) = ToSet(b.records) \intersect Changed(b, a)
    BY <1>2, SelectedElements, ZenonT(60)
  <2>2. Changed(b, a) \subseteq ToSet(b.records)
    BY DEF Changed
  <2> QED BY <2>1, <2>2
<1>4. new \in Seq(F) /\ ToSet(new) = New(b, a)
  <2>1. new \in Seq(F) /\ ToSet(new) = ToSet(a.records) \intersect New(b, a)
    BY <1>2, SelectedElements, ZenonT(60)
  <2>2. New(b, a) \subseteq ToSet(a.records)
    BY DEF New
  <2> QED BY <2>1, <2>2
<1> HIDE DEF changed, new
<1>5. d \in Seq(X) /\ ToSet(d) = X
  <2>1. DOMAIN changed = 1 .. Len(changed) /\ Len(changed) \in Nat
    BY <1>3
  <2>2. \A i \in DOMAIN changed : changed[i] \in Changed(b, a)
    BY <1>3 DEF ToSet
  <2>3. d \in [1 .. Len(changed) -> X]
    BY <2>1, <2>2
  <2>4. \A l \in Changed(b, a) : \E i \in DOMAIN changed : changed[i] = l
    BY <1>3 DEF ToSet
  <2>5. ToSet(d) = {ChangeOf(changed[i], a) : i \in DOMAIN changed}
    BY DEF ToSet
  <2>6. {ChangeOf(changed[i], a) : i \in DOMAIN changed} = X
    BY <2>2, <2>4
  <2> HIDE DEF d, X
  <2> QED BY <2>1, <2>3, <2>5, <2>6
<1>6. e \in Seq(Y) /\ ToSet(e) = Y
  <2>1. DOMAIN new = 1 .. Len(new) /\ Len(new) \in Nat
    BY <1>4
  <2>2. \A i \in DOMAIN new : new[i] \in New(b, a)
    BY <1>4 DEF ToSet
  <2>3. e \in [1 .. Len(new) -> Y]
    BY <2>1, <2>2
  <2>4. \A l \in New(b, a) : \E i \in DOMAIN new : new[i] = l
    BY <1>4 DEF ToSet
  <2>5. ToSet(e) = {Addition(new[i].key) : i \in DOMAIN new}
    BY DEF ToSet
  <2>6. {Addition(new[i].key) : i \in DOMAIN new} = Y
    BY <2>2, <2>4
  <2> HIDE DEF e, Y
  <2>7. e \in Seq(Y)
    BY <2>1, <2>3
  <2> QED BY <2>5, <2>6, <2>7, Zenon
<1> HIDE DEF d, e, X, Y
<1>7. d \o e \in Seq(X \union Y) /\ ToSet(d \o e) = X \union Y
  BY <1>5, <1>6, JoinedSet
<1>8. Differences(b, a) \in Seq(X \union Y) /\ ToSet(Differences(b, a)) = X \union Y
  BY <1>1, <1>7
<1>9. Differences(b, a) \in Seq(ToSet(Differences(b, a)))
  BY <1>8, OwnSet, Zenon
<1>10. ToSet(Differences(b, a)) = Changes(b, a)
  BY <1>8 DEF X, Y, Changes
<1> QED BY <1>9, <1>10

(* The output of a Compare that returns 0 is what has changed in meaning.  *)
LEMMA DifferencesAreTrue ==
  ASSUME NEW E, NEW F, Formed(E), Formed(F), NEW before0 \in Seq(E), NEW after0 \in Seq(F),
         NEW b, b = Load(before0), NEW a, a = Load(after0), ~ b.truncated, ~ a.truncated
  PROVE  ToSet(Differences(b, a)) = TrueChanges(Meaning(before0), Meaning(after0))
<1> DEFINE mb == Meaning(before0)
           ma == Meaning(after0)
<1>1. b \in LineTables(E) /\ a \in LineTables(F)
  BY LoadFaithful
<1>2. /\ \A k : Has(b, k) <=> k \in KeysOf(before0)
      /\ \A k \in KeysOf(before0) : ValueOf(b, k) = mb[k]
      /\ \A i \in DOMAIN b.records :
           b.records[i].key \in KeysOf(before0) /\ b.records[i].value = mb[b.records[i].key]
  BY LoadMeans
<1>3. /\ \A k : Has(a, k) <=> k \in KeysOf(after0)
      /\ \A k \in KeysOf(after0) : ValueOf(a, k) = ma[k]
      /\ \A i \in DOMAIN a.records :
           a.records[i].key \in KeysOf(after0) /\ a.records[i].value = ma[a.records[i].key]
  BY LoadMeans
<1>4. DOMAIN mb = KeysOf(before0) /\ DOMAIN ma = KeysOf(after0)
  BY DEF Meaning
<1>5. ToSet(Differences(b, a)) = Changes(b, a)
  <2>1. b \in LineTables(E)
    BY <1>1
  <2>2. a \in LineTables(F)
    BY <1>1
  <2> QED BY <2>1, <2>2, DifferencesPrinted
<1> HIDE DEF mb, ma
<1>6. \A k \in KeysOf(before0) : \E l \in ToSet(b.records) : l.key = k /\ l.value = mb[k]
  BY <1>2 DEF Has, ToSet
<1>7. \A k \in KeysOf(after0) : \E l \in ToSet(a.records) : l.key = k /\ l.value = ma[k]
  BY <1>3 DEF Has, ToSet
<1>8. \A l \in ToSet(b.records) : l.key \in KeysOf(before0) /\ l.value = mb[l.key]
  BY <1>2 DEF ToSet
<1>9. \A l \in ToSet(a.records) : l.key \in KeysOf(after0) /\ l.value = ma[l.key]
  BY <1>3 DEF ToSet
<1>10. {Addition(l.key) : l \in New(b, a)} =
         {Addition(k) : k \in DOMAIN ma \ DOMAIN mb}
  <2>1. \A l \in New(b, a) : l.key \in DOMAIN ma \ DOMAIN mb
    BY <1>2, <1>4, <1>9 DEF New
  <2>2. \A k \in DOMAIN ma \ DOMAIN mb : \E l \in New(b, a) : l.key = k
    BY <1>2, <1>4, <1>7 DEF New
  <2> QED BY <2>1, <2>2
<1>11. ASSUME NEW l \in Changed(b, a)
       PROVE  ChangeOf(l, a) \in TrueChanges(mb, ma)
  <2>1. l.key \in DOMAIN mb /\ l.value = mb[l.key]
    BY <1>4, <1>8 DEF Changed
  <2>2. CASE Has(a, l.key)
    <3>1. l.key \in DOMAIN ma /\ ValueOf(a, l.key) = ma[l.key] /\ ma[l.key] # mb[l.key]
      BY <1>3, <1>4, <2>1, <2>2 DEF Changed
    <3>2. ChangeOf(l, a) = Modification(l.key, mb[l.key], ma[l.key])
      BY <2>1, <2>2, <3>1 DEF ChangeOf
    <3> QED BY <2>1, <3>1, <3>2 DEF TrueChanges
  <2>3. CASE ~ Has(a, l.key)
    <3>1. l.key \notin DOMAIN ma
      BY <1>3, <1>4, <2>3
    <3>2. ChangeOf(l, a) = Removal(l.key)
      BY <2>3 DEF ChangeOf
    <3> QED BY <2>1, <3>1, <3>2 DEF TrueChanges
  <2> QED BY <2>2, <2>3
<1>12. ASSUME NEW k \in DOMAIN mb \ DOMAIN ma
       PROVE  Removal(k) \in {ChangeOf(l, a) : l \in Changed(b, a)}
  <2>1. PICK l \in ToSet(b.records) : l.key = k
    BY <1>4, <1>6
  <2>2. ~ Has(a, l.key)
    BY <1>3, <1>4, <2>1
  <2>3. l \in Changed(b, a) /\ ChangeOf(l, a) = Removal(k)
    BY <2>1, <2>2 DEF Changed, ChangeOf
  <2> QED BY <2>3
<1>13. ASSUME NEW k \in DOMAIN mb \intersect DOMAIN ma, ma[k] # mb[k]
       PROVE  Modification(k, mb[k], ma[k]) \in {ChangeOf(l, a) : l \in Changed(b, a)}
  <2>1. PICK l \in ToSet(b.records) : l.key = k /\ l.value = mb[k]
    BY <1>4, <1>6
  <2>2. Has(a, l.key) /\ ValueOf(a, l.key) = ma[k]
    BY <1>3, <1>4, <2>1
  <2>3. l \in Changed(b, a) /\ ChangeOf(l, a) = Modification(k, mb[k], ma[k])
    BY <1>13, <2>1, <2>2 DEF Changed, ChangeOf
  <2> QED BY <2>3
<1>14. TrueChanges(mb, ma) \subseteq ToSet(Differences(b, a))
  BY <1>5, <1>10, <1>12, <1>13 DEF TrueChanges, Changes
<1>15. ToSet(Differences(b, a)) \subseteq TrueChanges(mb, ma)
  BY <1>5, <1>10, <1>11 DEF TrueChanges, Changes
<1> QED BY <1>14, <1>15 DEF mb, ma

(* Nothing Compare prints is a line that Report cannot keep.               *)
AllOk(s) == s \in Seq(ToSet(s)) /\ \A l \in ToSet(s) : l.form = "ok"

LEMMA CompareOutputOk ==
  ASSUME NEW E, NEW F, NEW b \in LineTables(E), NEW a \in LineTables(F)
  PROVE  /\ AllOk(CompareOutput(b, a))
         /\ ToSet(CompareOutput(b, a)) = ToSet(Differences(b, a)) \union
              {Flag(IF b.truncated \/ a.truncated THEN "true" ELSE "false")}
<1> DEFINE d == Differences(b, a)
           flag == Flag(IF b.truncated \/ a.truncated THEN "true" ELSE "false")
           S == ToSet(d) \union {flag}
<1>1. d \in Seq(ToSet(d))
  BY DifferencesPrinted
<1>2. \A l \in ToSet(d) : l.form = "ok"
  BY DifferencesPrinted DEF Changes, ChangeOf, Removal, Addition, Modification, Line
<1>3. CompareOutput(b, a) = Append(d, flag)
  BY DEF CompareOutput
<1>4. flag.form = "ok"
  BY DEF Flag, Line
<1> HIDE DEF d, flag
<1>5. d \in Seq(S) /\ flag \in S
  BY <1>1
<1> HIDE DEF S
<1>6. Append(d, flag) \in Seq(S) /\ ToSet(Append(d, flag)) = ToSet(d) \union {flag}
  BY <1>5, AppendedSet
<1>7. Append(d, flag) \in Seq(ToSet(Append(d, flag)))
  BY <1>6, OwnSet, Zenon
<1>8. \A l \in ToSet(Append(d, flag)) : l.form = "ok"
  BY <1>2, <1>4, <1>6
<1>9. AllOk(CompareOutput(b, a))
  BY <1>3, <1>7, <1>8 DEF AllOk
<1> QED BY <1>3, <1>6, <1>9 DEF d, flag

(* What the disk has taken of an output is as good as the whole of it.     *)
LEMMA PrefixOk ==
  ASSUME NEW s, AllOk(s), NEW n \in 0 .. Len(s) - 1
  PROVE  AllOk(SubSeq(s, 1, n))
<1> DEFINE p == SubSeq(s, 1, n)
<1>1. s \in Seq(ToSet(s)) /\ \A l \in ToSet(s) : l.form = "ok"
  BY DEF AllOk
<1>2. Len(s) \in Nat
  BY <1>1
<1>3. p \in Seq(ToSet(s))
  <2> DEFINE S == ToSet(s)
  <2>1. s \in Seq(S) /\ 1 \in Int /\ n \in Int
    BY <1>1
  <2> HIDE DEF S
  <2>2. \A i \in 1 .. n : s[i] \in S
    BY <1>2, <2>1
  <2>3. SubSeq(s, 1, n) \in Seq(S)
    BY <1>2, <2>1, <2>2
  <2> QED BY <2>3 DEF S
<1> HIDE DEF p
<1>4. p \in Seq(ToSet(p)) /\ ToSet(p) \subseteq ToSet(s)
  <2>1. \A i \in DOMAIN p : p[i] \in ToSet(s)
    BY <1>3
  <2>2. p \in Seq(ToSet(p))
    BY <1>3, OwnSet, Zenon
  <2> QED BY <2>1, <2>2 DEF ToSet
<1> QED BY <1>1, <1>4 DEF AllOk, p
-----------------------------------------------------------------------------
(* What load_source does with a line. *)
Kept(E, s, l, r) ==
  /\ r \in LineTables(E)
  /\ \/ l.form = "junk" /\ r = s
     \/ /\ l.form \in {"long", "wide"} \/ (Told(l) /\ Len(s.records) >= MaxReport)
        /\ r.records = s.records /\ r.truncated
     \/ /\ l.form = "ok" /\ ~ (Len(s.records) >= MaxReport)
        /\ r.records = Append(s.records, l) /\ r.truncated = s.truncated

LEMMA ReportLineCases ==
  ASSUME NEW E, Formed(E), NEW s \in LineTables(E), NEW l \in E, NEW r, r = ReportLine(s, l)
  PROVE  Kept(E, s, l, r)
<1> USE DEF Kept
<1>1. s.records \in Seq(E) /\ s.truncated \in BOOLEAN /\ l.form \in Forms
  BY DEF LineTables, Formed
<1>2. s \in [records : Seq(E), truncated : BOOLEAN] /\ Append(s.records, l) \in Seq(E)
  BY <1>1, AppendedSet DEF LineTables
<1>3. ASSUME r = [s EXCEPT !.truncated = TRUE]
      PROVE  r \in LineTables(E) /\ r.records = s.records /\ r.truncated
  BY <1>2, <1>3 DEF LineTables
<1>4. ASSUME r = [s EXCEPT !.records = Append(@, l)]
      PROVE  /\ r \in LineTables(E)
             /\ r.records = Append(s.records, l) /\ r.truncated = s.truncated
  BY <1>2, <1>4 DEF LineTables
<1>5. CASE l.form = "junk"
  BY <1>5 DEF ReportLine
<1>6. CASE l.form \in {"long", "wide"} \/ (l.form = "ok" /\ Len(s.records) >= MaxReport)
  BY <1>3, <1>6 DEF ReportLine, Told
<1>7. CASE l.form = "ok" /\ ~ (Len(s.records) >= MaxReport)
  BY <1>4, <1>7 DEF ReportLine
<1> QED BY <1>1, <1>5, <1>6, <1>7 DEF Forms

(* The table of Report after each line of a source. *)
LEMMA SourceTurn ==
  ASSUME NEW E, Formed(E), NEW file \in Seq(E), NEW r \in LineTables(E)
  PROVE  /\ SourceLoads(r, file) \in [0 .. Len(file) -> LineTables(E)]
         /\ SourceLoads(r, file)[0] = r
         /\ \A n \in 1 .. Len(file) :
              SourceLoads(r, file)[n] = ReportLine(SourceLoads(r, file)[n - 1], file[n])
<1> DEFINE D == LineTables(E)
           f == [p \in D \X E |-> ReportLine(p[1], p[2])]
           Loop(h) == [n \in 0 .. Len(file) |->
                         IF n = 0 THEN r ELSE ReportLine(h[n - 1], file[n])]
           u == CHOOSE h : h = Loop(h)
<1>1. r \in D
  OBVIOUS
<1>2. ASSUME NEW d \in D, NEW l \in E PROVE ReportLine(d, l) \in D
  BY ReportLineCases DEF Kept
<1>3. IsBody(f, D, E)
  <2> HIDE DEF D
  <2> QED BY <1>2 DEF IsBody
<1>4. SourceLoads(r, file) = u
  BY DEF SourceLoads
<1> HIDE DEF D
<1>5. PICK g \in [0 .. Len(file) -> D] :
        g[0] = r /\ \A n \in 1 .. Len(file) : g[n] = f[<<g[n - 1], file[n]>>]
  <2>1. \E g \in [0 .. Len(file) -> D] : RunsOver(g, f, r, file)
    <3> HIDE DEF f
    <3> QED BY <1>1, <1>3, LoopExists, Zenon
  <2> QED BY <2>1 DEF RunsOver
<1>6. Len(file) \in Nat /\ \A n \in 1 .. Len(file) : file[n] \in E
  OBVIOUS
<1>7. ASSUME NEW n \in 1 .. Len(file) PROVE g[n] = ReportLine(g[n - 1], file[n])
  <2>1. g[n - 1] \in D
    BY <1>5, <1>6
  <2> QED BY <1>5, <1>6, <2>1
<1> HIDE DEF f
<1>8. g = Loop(g)
  <2>1. ASSUME NEW n \in 0 .. Len(file) PROVE g[n] = Loop(g)[n]
    <3>1. CASE n = 0
      BY <1>5, <3>1
    <3>2. CASE n # 0
      <4>1. n \in 1 .. Len(file)
        BY <1>6, <3>2
      <4> QED BY <1>7, <3>2, <4>1
    <3> QED BY <3>1, <3>2
  <2>2. g = [n \in 0 .. Len(file) |-> g[n]]
    BY <1>5
  <2> QED BY <2>1, <2>2
<1>9. u = Loop(u)
  <2> HIDE DEF Loop
  <2> QED BY <1>8
<1> HIDE DEF u
<1>10. u[0] = r /\ \A n \in 1 .. Len(file) : u[n] = ReportLine(u[n - 1], file[n])
  <2>1. 0 \in 0 .. Len(file) /\ u[0] = Loop(u)[0]
    <3> HIDE DEF Loop
    <3> QED BY <1>6, <1>9
  <2>2. ASSUME NEW n \in 1 .. Len(file) PROVE u[n] = ReportLine(u[n - 1], file[n])
    <3>1. u[n] = Loop(u)[n]
      <4> HIDE DEF Loop
      <4> QED BY <1>9
    <3>2. n \in 0 .. Len(file) /\ n # 0
      BY <1>6
    <3> QED BY <3>1, <3>2
  <2> QED BY <2>1, <2>2
<1>11. DOMAIN u = 0 .. Len(file) /\ u = [n \in 0 .. Len(file) |-> u[n]]
  <2>1. DOMAIN Loop(u) = 0 .. Len(file) /\ Loop(u) = [n \in 0 .. Len(file) |-> Loop(u)[n]]
    OBVIOUS
  <2> HIDE DEF Loop
  <2> QED BY <1>9, <2>1
<1> HIDE DEF Loop
<1> DEFINE Typed == {n \in 0 .. Len(file) : u[n] \in D}
<1>12. 0 \in Typed
  BY <1>1, <1>6, <1>10
<1>13. ASSUME NEW n \in 1 .. Len(file), n - 1 \in Typed PROVE n \in Typed
  <2>1. u[n - 1] \in D /\ file[n] \in E /\ n \in 0 .. Len(file)
    BY <1>6, <1>13
  <2> QED BY <1>2, <1>10, <2>1
<1>14. 0 .. Len(file) \subseteq Typed
  <2> HIDE DEF Typed
  <2> QED BY <1>6, <1>12, <1>13, TurnInduction
<1>15. \A n \in 0 .. Len(file) : u[n] \in D
  BY <1>14
<1> QED BY <1>4, <1>10, <1>11, <1>15 DEF D

(* A source is in the table as a whole, or the flag is up; and the flag is *)
(* earned.                                                                 *)
SourceKeeps(E, file, r, q) ==
  /\ q \in LineTables(E) /\ KeptLines(file) \in Seq(E)
  /\ ~ q.truncated => /\ ~ r.truncated /\ ~ Bad(file, Len(file))
                      /\ q.records = r.records \o KeptLines(file)
                      /\ Len(q.records) <= MaxReport
  /\ q.truncated => \/ r.truncated \/ Bad(file, Len(file))
                    \/ Len(r.records) + Len(KeptLines(file)) > MaxReport

LEMMA SourceKept ==
  ASSUME NEW E, Formed(E), NEW file \in Seq(E), NEW r \in LineTables(E),
         ~ r.truncated => Len(r.records) <= MaxReport, NEW q, q = LoadSource(r, file)
  PROVE  SourceKeeps(E, file, r, q)
<1>0. \A x \in Seq(E), y \in Seq(E), t \in E : Append(x \o y, t) = x \o Append(y, t)
  <2>1. ASSUME NEW x \in Seq(E), NEW y \in Seq(E), NEW t \in E
        PROVE  Append(x \o y, t) = x \o Append(y, t)
    <3>1. Append(x \o y, t) \in Seq(E) /\ x \o Append(y, t) \in Seq(E)
      OBVIOUS
    <3> QED BY <3>1, SMTT(60)
  <2> QED BY <2>1, Zenon
<1> DEFINE T == {l \in ToSet(file) : Told(l)}
           k == Selections(file, T)
           u == SourceLoads(r, file)
           Clean(n) == /\ ~ r.truncated /\ ~ Bad(file, n)
                       /\ u[n].records = r.records \o k[n]
                       /\ Len(u[n].records) <= MaxReport
           Earned(n) == \/ r.truncated \/ Bad(file, n)
                        \/ Len(r.records) + Len(k[n]) > MaxReport
           Good == {n \in 0 .. Len(file) : IF u[n].truncated THEN Earned(n) ELSE Clean(n)}
<1>1. /\ u \in [0 .. Len(file) -> LineTables(E)] /\ u[0] = r
      /\ \A n \in 1 .. Len(file) : u[n] = ReportLine(u[n - 1], file[n])
  BY SourceTurn
<1>2. /\ k \in [0 .. Len(file) -> Seq(E)] /\ k[0] = << >>
      /\ \A n \in 1 .. Len(file) :
           k[n] = IF file[n] \in T THEN Append(k[n - 1], file[n]) ELSE k[n - 1]
  BY SelectionsTurn
<1>3. /\ Len(file) \in Nat /\ \A n \in 1 .. Len(file) : file[n] \in E
      /\ r.records \in Seq(E) /\ r.truncated \in BOOLEAN /\ MaxReport \in Nat
      /\ Len(r.records) \in Nat
  BY LimitsAssumption DEF LineTables
<1>4. ASSUME NEW n \in 1 .. Len(file) PROVE file[n] \in T <=> Told(file[n])
  <2>1. file[n] \in ToSet(file)
    BY <1>3 DEF ToSet
  <2> QED BY <2>1
<1> HIDE DEF T, k, u
<1>5. 0 \in Good
  <2>1. r.records \o << >> = r.records
    BY <1>3
  <2>2. ~ Bad(file, 0)
    BY DEF Bad
  <2> QED BY <1>1, <1>2, <1>3, <2>1, <2>2
<1>6. ASSUME NEW n \in 1 .. Len(file), n - 1 \in Good PROVE n \in Good
  <2> DEFINE l == file[n]
             s == u[n - 1]
  <2>1. /\ n - 1 \in 0 .. Len(file) /\ n \in 0 .. Len(file) /\ n \in Nat /\ l \in E
        /\ s \in LineTables(E) /\ k[n - 1] \in Seq(E) /\ k[n] \in Seq(E)
    <3>1. n - 1 \in 0 .. Len(file) /\ n \in 0 .. Len(file) /\ n \in Nat /\ l \in E
      BY <1>3
    <3>2. k[n - 1] \in Seq(E)
      BY <1>2, <3>1
    <3>3. k[n] \in Seq(E)
      BY <1>2, <3>1
    <3>4. s \in LineTables(E)
      BY <1>1, <3>1
    <3> QED BY <3>1, <3>2, <3>3, <3>4
  <2>2. /\ Len(k[n - 1]) \in Nat /\ s.records \in Seq(E)
        /\ Len(s.records) \in Nat /\ Len(k[n]) \in Nat /\ Len(r.records) \in Nat
        /\ MaxReport \in Nat
    BY <1>3, <2>1 DEF LineTables
  <2>3. IF s.truncated THEN Earned(n - 1) ELSE Clean(n - 1)
    BY <1>6
  <2>4. /\ Bad(file, n - 1) => Bad(file, n)
        /\ l.form \in {"long", "wide"} => Bad(file, n)
        /\ Bad(file, n) => Bad(file, n - 1) \/ l.form \in {"long", "wide"}
    <3>1. \A i \in 1 .. n : i = n \/ i \in 1 .. n - 1
      BY <2>1
    <3>2. n \in 1 .. n /\ 1 .. n - 1 \subseteq 1 .. n
      BY <2>1
    <3> QED BY <3>1, <3>2 DEF Bad
  <2>5. k[n] = IF Told(l) THEN Append(k[n - 1], l) ELSE k[n - 1]
    BY <1>2, <1>4
  <2>6. /\ Told(l) => Len(k[n]) = Len(k[n - 1]) + 1
        /\ ~ Told(l) => Len(k[n]) = Len(k[n - 1])
    <3>1. Len(Append(k[n - 1], l)) = Len(k[n - 1]) + 1
      BY <2>1, AppendedSet
    <3> QED BY <2>5, <3>1
  <2>7. Earned(n - 1) => Earned(n)
    <3> DEFINE x == Len(r.records)
               y == Len(k[n - 1])
               z == Len(k[n])
    <3>1. x \in Nat /\ y \in Nat /\ z \in Nat /\ MaxReport \in Nat /\ z >= y
      BY <2>2, <2>6
    <3>2. x + y > MaxReport => x + z > MaxReport
      <4> HIDE DEF x, y, z
      <4> QED BY <3>1
    <3> QED BY <2>4, <3>2
  <2>8. \/ l.form = "junk" /\ u[n] = s
        \/ /\ l.form \in {"long", "wide"} \/ (Told(l) /\ Len(s.records) >= MaxReport)
           /\ u[n].records = s.records /\ u[n].truncated
        \/ /\ l.form = "ok" /\ ~ (Len(s.records) >= MaxReport)
           /\ u[n].records = Append(s.records, l) /\ u[n].truncated = s.truncated
    <3>1. l \in E /\ s \in LineTables(E) /\ u[n] = ReportLine(s, l)
      BY <1>1, <2>1
    <3> HIDE DEF l, s
    <3>2. Kept(E, s, l, u[n])
      BY <3>1, ReportLineCases
    <3> QED BY <3>2 DEF Kept
  <2>9. CASE l.form = "junk" /\ u[n] = s
    <3>1. k[n] = k[n - 1]
      BY <2>5, <2>9 DEF Told
    <3>2. ~ s.truncated => Clean(n)
      BY <2>3, <2>4, <2>9, <3>1
    <3> HIDE DEF Clean, Earned
    <3> QED BY <2>1, <2>3, <2>7, <2>9, <3>2
  <2>10. CASE /\ l.form \in {"long", "wide"} \/ (Told(l) /\ Len(s.records) >= MaxReport)
              /\ u[n].records = s.records /\ u[n].truncated
    <3>1. Earned(n)
      <4>1. CASE s.truncated
        <5> HIDE DEF Earned, Clean
        <5> QED BY <2>3, <2>7, <4>1
      <4>2. CASE l.form \in {"long", "wide"}
        BY <2>4, <4>2
      <4>3. CASE ~ s.truncated /\ Told(l) /\ Len(s.records) >= MaxReport
        <5>1. s.records = r.records \o k[n - 1]
          BY <2>3, <4>3
        <5>2. Len(r.records \o k[n - 1]) = Len(r.records) + Len(k[n - 1])
          BY <1>3, <2>1, Joined
        <5>3. Len(k[n]) = Len(k[n - 1]) + 1
          BY <2>6, <4>3
        <5>4. Len(r.records) + Len(k[n - 1]) >= MaxReport
          BY <4>3, <5>1, <5>2
        <5>5. Len(r.records) + Len(k[n]) > MaxReport
          <6> DEFINE x == Len(r.records)
                     y == Len(k[n - 1])
                     z == Len(k[n])
          <6>1. /\ x \in Nat /\ y \in Nat /\ z \in Nat /\ MaxReport \in Nat
                /\ z = y + 1 /\ x + y >= MaxReport
            BY <2>2, <5>3, <5>4
          <6>2. x + z > MaxReport
            <7> HIDE DEF x, y, z
            <7> QED BY <6>1
          <6> QED BY <6>2
        <5> QED BY <5>5
      <4> QED BY <2>2, <2>10, <4>1, <4>2, <4>3
    <3> HIDE DEF Clean, Earned
    <3> QED BY <2>1, <2>10, <3>1
  <2>11. CASE /\ l.form = "ok" /\ ~ (Len(s.records) >= MaxReport)
              /\ u[n].records = Append(s.records, l) /\ u[n].truncated = s.truncated
    <3>1. ASSUME ~ s.truncated PROVE Clean(n)
      <4>1. ~ r.truncated /\ ~ Bad(file, n)
        BY <2>3, <2>4, <2>11, <3>1
      <4>2. s.records = r.records \o k[n - 1]
        BY <2>3, <3>1
      <4>3. k[n] = Append(k[n - 1], l)
        BY <2>5, <2>11 DEF Told
      <4>4. Append(r.records \o k[n - 1], l) = r.records \o Append(k[n - 1], l)
        BY <1>0, <1>3, <2>1, Zenon
      <4>5. u[n].records = r.records \o k[n]
        BY <2>11, <4>2, <4>3, <4>4
      <4>6. Len(u[n].records) <= MaxReport
        <5>1. Len(Append(s.records, l)) = Len(s.records) + 1
          BY <2>1, <2>2, AppendedSet
        <5> QED BY <1>3, <2>2, <2>11, <5>1
      <4> QED BY <4>1, <4>5, <4>6
    <3> HIDE DEF Clean, Earned
    <3> QED BY <2>1, <2>3, <2>7, <2>11, <3>1
  <2> HIDE DEF l, s, Good
  <2> QED BY <2>8, <2>9, <2>10, <2>11
<1>7. 0 .. Len(file) \subseteq Good
  <2> HIDE DEF Good
  <2> QED BY <1>3, <1>5, <1>6, TurnInduction
<1>8. Len(file) \in 0 .. Len(file)
  BY <1>3
<1>9. IF u[Len(file)].truncated THEN Earned(Len(file)) ELSE Clean(Len(file))
  BY <1>7, <1>8
<1>10. q = u[Len(file)] /\ KeptLines(file) = k[Len(file)]
  BY DEF LoadSource, u, KeptLines, Selected, k, T
<1>11. q \in LineTables(E) /\ KeptLines(file) \in Seq(E)
  BY <1>1, <1>2, <1>8, <1>10
<1> QED BY <1>9, <1>10, <1>11 DEF SourceKeeps

(* What Report makes of the three files: either all the lines of all of    *)
(* them, in order, or the flag; and the flag only if a line did not fit.   *)
LEMMA AllLoaded ==
  ASSUME NEW E, Formed(E), NEW b \in Seq(E), NEW a \in Seq(E),
         NEW c, AllOk(c), NEW q, q = LoadAll(b, a, c)
  PROVE  /\ q.truncated \in BOOLEAN
         /\ q.truncated <=> \/ Bad(b, Len(b)) \/ Bad(a, Len(a))
                            \/ Len(KeptLines(b)) + Len(KeptLines(a)) + Len(c) > MaxReport
         /\ ~ q.truncated => q.records = KeptLines(b) \o KeptLines(a) \o c
<1> DEFINE F == E \union ToSet(c)
           kb == KeptLines(b)
           ka == KeptLines(a)
           r1 == LoadSource(EmptyReport, b)
           r2 == LoadSource(r1, a)
           x == Len(kb)
           y == Len(ka)
           z == Len(c)
<1>1. /\ \A l \in ToSet(c) : l.form \in Forms
      /\ \A l \in ToSet(c) : l.form = "ok" /\ c \in Seq(ToSet(c))
  BY DEF AllOk, Forms
<1>2. Formed(F) /\ c \in Seq(F) /\ b \in Seq(F) /\ a \in Seq(F)
  <2>1. Formed(F)
    BY <1>1 DEF Formed
  <2>2. c \in Seq(ToSet(c))
    BY DEF AllOk
  <2>3. ToSet(c) \subseteq F /\ E \subseteq F
    OBVIOUS
  <2> HIDE DEF F
  <2>4. c \in Seq(F)
    BY <2>2, <2>3
  <2>5. b \in Seq(F) /\ a \in Seq(F)
    BY <2>3
  <2> QED BY <2>1, <2>4, <2>5
<1>3. KeptLines(c) = c
  <2>1. ToSet(c) \subseteq {l \in ToSet(c) : Told(l)}
    BY <1>1 DEF Told
  <2> DEFINE T == {l \in ToSet(c) : Told(l)}
  <2>2. Selected(c, T) = c
    <3>1. ToSet(c) \subseteq T
      BY <2>1
    <3> HIDE DEF T
    <3> QED BY <1>2, <3>1, SelectedAll
  <2> QED BY <2>2 DEF KeptLines
<1>4. ~ Bad(c, Len(c))
  <2>1. \A i \in 1 .. Len(c) : c[i] \in ToSet(c)
    BY <1>2 DEF ToSet
  <2> QED BY <1>1, <2>1 DEF Bad
<1> HIDE DEF F
<1>5. EmptyReport \in LineTables(F) /\ EmptyReport.records = << >> /\ ~ EmptyReport.truncated
  BY DEF EmptyReport, LineTables
<1>6. MaxReport \in Nat /\ Len(EmptyReport.records) <= MaxReport
  BY <1>5, LimitsAssumption
<1>7. /\ r1 \in LineTables(F) /\ kb \in Seq(F)
      /\ ~ r1.truncated => /\ ~ Bad(b, Len(b)) /\ r1.records = EmptyReport.records \o kb
                           /\ Len(r1.records) <= MaxReport
      /\ r1.truncated => \/ EmptyReport.truncated \/ Bad(b, Len(b))
                         \/ Len(EmptyReport.records) + x > MaxReport
  <2>1. SourceKeeps(F, b, EmptyReport, r1)
    BY <1>2, <1>5, <1>6, SourceKept
  <2> HIDE DEF r1
  <2> QED BY <2>1 DEF SourceKeeps
<1>8. /\ r2 \in LineTables(F) /\ ka \in Seq(F)
      /\ ~ r2.truncated => /\ ~ r1.truncated /\ ~ Bad(a, Len(a)) /\ r2.records = r1.records \o ka
                           /\ Len(r2.records) <= MaxReport
      /\ r2.truncated => \/ r1.truncated \/ Bad(a, Len(a)) \/ Len(r1.records) + y > MaxReport
  <2> HIDE DEF r1
  <2>1. SourceKeeps(F, a, r1, r2)
    BY <1>2, <1>7, SourceKept
  <2> HIDE DEF r2
  <2> QED BY <2>1 DEF SourceKeeps
<1>9. q = LoadSource(r2, c)
  BY DEF LoadAll
<1>10. /\ q \in LineTables(F)
       /\ ~ q.truncated => /\ ~ r2.truncated /\ q.records = r2.records \o c
                           /\ Len(q.records) <= MaxReport
       /\ q.truncated => r2.truncated \/ Len(r2.records) + z > MaxReport
  <2> HIDE DEF r1, r2
  <2>1. SourceKeeps(F, c, r2, q)
    BY <1>2, <1>8, <1>9, SourceKept
  <2> QED BY <1>3, <1>4, <2>1 DEF SourceKeeps
<1> HIDE DEF r1, r2, kb, ka
<1>11. EmptyReport.records \o kb = kb /\ Len(EmptyReport.records) = 0
  BY <1>5, <1>7
<1>12. x \in Nat /\ y \in Nat /\ z \in Nat /\ kb \o ka \in Seq(F) /\ Len(kb \o ka) = x + y
       /\ Len(kb \o ka \o c) = x + y + z
  BY <1>2, <1>7, <1>8
<1> HIDE DEF x, y, z
<1>13. q.truncated \in BOOLEAN /\ r1.truncated \in BOOLEAN /\ r2.truncated \in BOOLEAN
  BY <1>7, <1>8, <1>10 DEF LineTables
<1>14. r1.truncated => Bad(b, Len(b)) \/ x > MaxReport
  BY <1>5, <1>7, <1>11, <1>12
<1>15. ~ r1.truncated => ~ Bad(b, Len(b)) /\ r1.records = kb
  BY <1>7, <1>11
<1>16. r2.truncated => Bad(b, Len(b)) \/ Bad(a, Len(a)) \/ x + y > MaxReport
  <2>1. CASE r1.truncated
    BY <1>6, <1>12, <1>14, <2>1
  <2>2. CASE ~ r1.truncated
    BY <1>8, <1>15, <2>2 DEF x
  <2> QED BY <1>13, <2>1, <2>2
<1>17. ~ r2.truncated => /\ ~ Bad(b, Len(b)) /\ ~ Bad(a, Len(a)) /\ r2.records = kb \o ka
                         /\ Len(r2.records) = x + y
  BY <1>8, <1>12, <1>15
<1>18. q.truncated => Bad(b, Len(b)) \/ Bad(a, Len(a)) \/ x + y + z > MaxReport
  <2>1. CASE r2.truncated
    BY <1>6, <1>12, <1>16, <2>1
  <2>2. CASE ~ r2.truncated
    BY <1>10, <1>17, <2>2
  <2> QED BY <1>13, <2>1, <2>2
<1>19. ~ q.truncated => /\ ~ Bad(b, Len(b)) /\ ~ Bad(a, Len(a))
                        /\ q.records = kb \o ka \o c /\ x + y + z <= MaxReport
  BY <1>10, <1>12, <1>17
<1>20. ~ (x + y + z <= MaxReport /\ x + y + z > MaxReport)
  BY <1>6, <1>12
<1>21. q.truncated <=> Bad(b, Len(b)) \/ Bad(a, Len(a)) \/ x + y + z > MaxReport
  BY <1>13, <1>18, <1>19, <1>20
<1> QED BY <1>13, <1>19, <1>21 DEF x, y, z, kb, ka
-----------------------------------------------------------------------------
(* The inductive invariant: what each program left behind is what it makes *)
(* of the files that are there, unless it failed or the disk was full.     *)
Loaded == before # Missing /\ after # Missing
Refused == stage = "exit" /\ rc = 10 /\ reportRC # 10
CompareRan == stage \in {"compared", "report", "reported"} \/ (stage = "exit" /\ ~ Refused)
ReportRan == stage = "reported" \/ (stage = "exit" /\ ~ Refused /\ compareRC # 20)

CompareTold ==
  CompareRan /\ compareRC # 20 =>
    /\ Loaded
    /\ compareRC = CompareRC(Load(before), Load(after))
    /\ AllOk(compareOut)
    /\ ~ diskFull => compareOut = CompareOutput(Load(before), Load(after))

ReportTold ==
  ReportRan /\ reportRC \notin {10, 20} =>
    /\ reportRC = IF LoadAll(before, after, compareOut).truncated THEN 5 ELSE 0
    /\ ~ diskFull => reportOut = LoadAll(before, after, compareOut).records

NotYet ==
  /\ stage = "start" \/ Refused => before = Missing /\ after = Missing /\ compareRC = 0
  /\ stage \in {"start", "compare", "compared", "report"} \/ Refused \/ compareRC = 20 =>
       reportRC = 0
  /\ stage \in {"start", "compare", "compared", "report"} \/ compareRC = 20 => reportOut = Missing
  /\ stage \in {"report", "reported"} => compareRC # 20

ExitCode ==
  /\ stage # "exit" => rc = 0
  /\ stage = "exit" /\ ~ Refused =>
       rc = IF compareRC = 20 THEN 20
            ELSE IF reportRC \in {10, 20} THEN reportRC
            ELSE IF 5 \in {compareRC, reportRC} THEN 5 ELSE 0

IInv == TypeOK /\ CompareTold /\ ReportTold /\ NotYet /\ ExitCode

(* The lines of an input file, and what is known of the input files. *)
FileLines == Lines \union {Flag(v) : v \in {"true", "false"}}

LEMMA InputsFormed ==
  Formed(FileLines) /\ Outputs \subseteq Seq(FileLines)
<1>1. Formed(FileLines)
  <2>1. \A l \in Lines : l.form \in Forms
    BY DEF Lines, Forms
  <2>2. \A v : Flag(v).form \in Forms
    BY DEF Flag, Line, Forms
  <2>3. \A l \in FileLines : l \in Lines \/ \E v : l = Flag(v)
    BY DEF FileLines
  <2> QED BY <2>1, <2>2, <2>3 DEF Formed
<1>2. ASSUME NEW t \in BoundedSeq(Lines, MaxLines) PROVE t \in Seq(FileLines)
  <2>1. PICK m \in 0 .. MaxLines : t \in [1 .. m -> Lines]
    BY <1>2 DEF BoundedSeq, SeqOf
  <2>2. m \in Nat /\ Lines \subseteq FileLines
    BY LimitsAssumption DEF FileLines
  <2> QED BY <2>1, <2>2
<1>3. ASSUME NEW o \in Outputs PROVE o \in Seq(FileLines)
  <2>1. PICK t \in BoundedSeq(Lines, MaxLines), v \in {"true", "false"} : o = Append(t, Flag(v))
    BY DEF Outputs
  <2> DEFINE e == Flag(v)
  <2>2. t \in Seq(FileLines) /\ e \in FileLines
    BY <1>2, <2>1 DEF FileLines
  <2>3. Append(t, e) \in Seq(FileLines)
    <3> HIDE DEF e
    <3> QED BY <2>2, AppendedSet
  <2> QED BY <2>1, <2>3
<1> QED BY <1>1, <1>3

(* What Compare makes of two input files. *)
LEMMA CompareOfInputs ==
  ASSUME NEW b0 \in Outputs, NEW a0 \in Outputs, NEW b, b = Load(b0), NEW a, a = Load(a0)
  PROVE  /\ AllOk(CompareOutput(b, a))
         /\ b.truncated => Overfull(b0)
         /\ a.truncated => Overfull(a0)
         /\ ~ b.truncated => ~ (Cardinality(KeysOf(b0)) > MaxCompare)
         /\ ~ a.truncated => ~ (Cardinality(KeysOf(a0)) > MaxCompare)
         /\ ~ b.truncated /\ ~ a.truncated =>
              ToSet(CompareOutput(b, a)) \ {Flag("false")} = TrueChanges(Meaning(b0), Meaning(a0))
<1>1. b0 \in Seq(FileLines) /\ a0 \in Seq(FileLines) /\ Formed(FileLines)
  BY InputsFormed
<1>2. /\ b \in LineTables(FileLines)
      /\ b.truncated => Overfull(b0)
      /\ Cardinality(KeysOf(b0)) > MaxCompare => b.truncated
  BY <1>1, LoadFlag
<1>3. /\ a \in LineTables(FileLines)
      /\ a.truncated => Overfull(a0)
      /\ Cardinality(KeysOf(a0)) > MaxCompare => a.truncated
  BY <1>1, LoadFlag
<1>4. /\ AllOk(CompareOutput(b, a))
      /\ ToSet(CompareOutput(b, a)) = ToSet(Differences(b, a)) \union
           {Flag(IF b.truncated \/ a.truncated THEN "true" ELSE "false")}
  BY <1>2, <1>3, CompareOutputOk
<1>5. ASSUME ~ b.truncated, ~ a.truncated
      PROVE  ToSet(CompareOutput(b, a)) \ {Flag("false")} = TrueChanges(Meaning(b0), Meaning(a0))
  <2>1. ToSet(Differences(b, a)) = TrueChanges(Meaning(b0), Meaning(a0))
    BY <1>1, <1>5, DifferencesAreTrue
  <2>2. Flag("false") \notin TrueChanges(Meaning(b0), Meaning(a0))
    <3>1. Flag("false").key = "truncated"
      BY DEF Flag, Line
    <3>2. /\ \A k : Removal(k).key = "removed" /\ Addition(k).key = "added"
          /\ \A k, old, new : Modification(k, old, new).key = "modified"
      BY DEF Removal, Addition, Modification, Line
    <3>3. ASSUME NEW l \in TrueChanges(Meaning(b0), Meaning(a0))
          PROVE  \/ \E k : l = Removal(k) \/ l = Addition(k)
                 \/ \E k, old, new : l = Modification(k, old, new)
      BY <3>3, Zenon DEF TrueChanges
    <3> QED BY <3>1, <3>2, <3>3
  <2>3. (IF b.truncated \/ a.truncated THEN "true" ELSE "false") = "false"
    BY <1>5
  <2> QED BY <1>4, <2>1, <2>2, <2>3
<1> QED BY <1>2, <1>3, <1>4, <1>5

(* What a program prints on a disk that may fill up is the whole text, or  *)
(* the beginning of it with the history variable set.                      *)
LEMMA PrintedOk ==
  ASSUME NEW text, AllOk(text), Printed(compareOut, text)
  PROVE  AllOk(compareOut') /\ (~ diskFull' => compareOut' = text)
BY PrefixOk DEF Printed

LEMMA InvInit == Init => IInv
BY DEF Init, IInv, TypeOK, CompareTold, CompareRan, ReportTold, ReportRan, NotYet, Refused, ExitCode

LEMMA InvStep == IInv /\ [Next]_vars => IInv'
<1> SUFFICES ASSUME IInv, [Next]_vars PROVE IInv'
  OBVIOUS
<1> USE DEF IInv
<1> DEFINE b == Load(before)
           a == Load(after)
           q == LoadAll(before, after, compareOut)
<1>1. CASE Start
  BY <1>1 DEF Start, TypeOK, CompareTold, CompareRan, ReportTold, ReportRan, NotYet, Refused, ExitCode
<1>2. CASE RunCompare
  <2>1. /\ stage = "compare" /\ stage' = "compared" /\ rc = 0 /\ reportOut = Missing
        /\ UNCHANGED <<before, after, reportOut, reportRC, rc>>
    BY <1>2 DEF RunCompare, NotYet, Refused, ExitCode
  <2>2. CASE compareRC' = 20 /\ UNCHANGED diskFull
    BY <2>1, <2>2 DEF TypeOK, CompareTold, ReportTold, ReportRan, NotYet, Refused, ExitCode
  <2>3. CASE /\ before # Missing /\ after # Missing
             /\ compareRC' = CompareRC(b, a) /\ Printed(compareOut, CompareOutput(b, a))
    <3>1. before \in Outputs /\ after \in Outputs
      BY <2>3 DEF TypeOK
    <3>2. AllOk(CompareOutput(b, a))
      BY <3>1, CompareOfInputs
    <3>3. AllOk(compareOut') /\ (~ diskFull' => compareOut' = CompareOutput(b, a))
      <4> DEFINE text == CompareOutput(b, a)
      <4>1. AllOk(text) /\ Printed(compareOut, text)
        BY <2>3, <3>2
      <4> HIDE DEF text
      <4>2. AllOk(compareOut') /\ (~ diskFull' => compareOut' = text)
        BY <4>1, PrintedOk
      <4> QED BY <4>2 DEF text
    <3>4. diskFull' \in BOOLEAN
      BY <2>3 DEF TypeOK, Printed
    <3>5. compareRC' \in {0, 5}
      BY <2>3 DEF CompareRC
    <3>6. TypeOK'
      BY <2>1, <3>4, <3>5 DEF TypeOK
    <3>7. CompareTold'
      BY <2>1, <2>3, <3>3 DEF CompareTold, Loaded
    <3> QED BY <2>1, <3>5, <3>6, <3>7 DEF ReportTold, ReportRan, NotYet, Refused, ExitCode
  <2> QED BY <1>2, <2>2, <2>3 DEF RunCompare
<1>3. CASE AfterCompare
  <2>1. compareRC \in {0, 5, 20}
    BY DEF TypeOK
  <2>2. CASE Fatal(compareRC)
    <3>1. compareRC = 20 /\ stage' = "exit" /\ rc' = 20
      BY <1>3, <2>1, <2>2 DEF AfterCompare, Fatal
    <3> QED BY <1>3, <3>1
         DEF AfterCompare, TypeOK, CompareTold, ReportTold, ReportRan, NotYet, Refused, ExitCode
  <2>3. CASE ~ Fatal(compareRC)
    <3>1. compareRC # 20 /\ stage' = "report" /\ rc' = rc
      BY <1>3, <2>1, <2>3 DEF AfterCompare, Fatal
    <3> QED BY <1>3, <3>1 DEF AfterCompare, TypeOK, CompareTold, CompareRan, Loaded,
              ReportTold, ReportRan, NotYet, Refused, ExitCode
  <2> QED BY <2>2, <2>3
<1>4. CASE RunReport
  <2>1. /\ stage = "report" /\ stage' = "reported" /\ compareRC # 20 /\ rc = 0
        /\ UNCHANGED <<before, after, compareOut, compareRC, rc>>
    BY <1>4 DEF RunReport, NotYet, Refused, ExitCode
  <2>2. /\ reportRC' \in {0, 5, 10, 20} /\ diskFull' \in BOOLEAN /\ (~ diskFull' => ~ diskFull)
    BY <1>4 DEF RunReport, Printed, TypeOK
  <2>3. reportRC' \notin {10, 20} => /\ reportRC' = IF q.truncated THEN 5 ELSE 0
                                     /\ ~ diskFull' => reportOut' = q.records
    BY <1>4 DEF RunReport, Printed
  <2>4. TypeOK'
    BY <2>1, <2>2 DEF TypeOK
  <2>5. CompareTold'
    BY <2>1, <2>2 DEF CompareTold, CompareRan, Refused, Loaded
  <2>6. ReportTold'
    BY <2>1, <2>3 DEF ReportTold
  <2>7. NotYet' /\ ExitCode'
    BY <2>1 DEF NotYet, Refused, ExitCode
  <2> QED BY <2>4, <2>5, <2>6, <2>7
<1>5. CASE AfterReport
  <2>1. /\ compareRC \in {0, 5} /\ reportRC \in {0, 5, 10, 20} /\ stage = "reported"
        /\ UNCHANGED <<compareRC, reportRC>>
    BY <1>5 DEF AfterReport, TypeOK, NotYet
  <2>2. /\ stage' = "exit" /\ rc' \in {0, 5, 10, 20}
        /\ rc' = IF reportRC \in {10, 20} THEN reportRC
                 ELSE IF 5 \in {compareRC, reportRC} THEN 5 ELSE 0
    BY <1>5, <2>1 DEF AfterReport, Fatal
  <2> QED BY <1>5, <2>1, <2>2 DEF AfterReport, TypeOK, CompareTold, CompareRan, Loaded,
            ReportTold, ReportRan, NotYet, Refused, ExitCode
<1>6. CASE UNCHANGED vars
  BY <1>6 DEF vars, TypeOK, CompareTold, CompareRan, Loaded, ReportTold, ReportRan, NotYet, Refused, ExitCode
<1> QED BY <1>1, <1>2, <1>3, <1>4, <1>5, <1>6 DEF Next

THEOREM Invariance == Spec => []IInv
<1> QED BY InvInit, InvStep, PTL DEF Spec
-----------------------------------------------------------------------------
(* The script's variables keep their types: no code but 0, 5, 10 and 20,   *)
(* and the input files are what collectors write, or missing.              *)
THEOREM AlwaysTyped == Spec => []TypeOK
<1>1. IInv => TypeOK
  BY DEF IInv
<1> QED BY <1>1, Invariance, PTL

(* RC 0 of Compare is exact: whatever order, repetition or junk the two    *)
(* files hold, and however few keys the table has room for, the lines      *)
(* Compare printed are the differences of what the files mean.             *)
THEOREM CleanCompare == Spec => []CleanCompareIsExact
<1>1. IInv => CleanCompareIsExact
  <2> SUFFICES ASSUME IInv, stage \in {"report", "reported", "exit"},
                      before # Missing, after # Missing, compareRC = 0, ~ diskFull
               PROVE  ToSet(compareOut) \ {Flag("false")} =
                        TrueChanges(Meaning(before), Meaning(after))
    BY DEF CleanCompareIsExact
  <2> DEFINE b == Load(before)
             a == Load(after)
  <2>1. before \in Outputs /\ after \in Outputs
    BY DEF IInv, TypeOK
  <2>2. CompareRan
    BY DEF IInv, NotYet, CompareRan
  <2>3. compareRC = CompareRC(b, a) /\ compareOut = CompareOutput(b, a)
    BY <2>2 DEF IInv, CompareTold
  <2>4. ~ b.truncated /\ ~ a.truncated
    BY <2>3 DEF CompareRC
  <2>5. ToSet(CompareOutput(b, a)) \ {Flag("false")} =
          TrueChanges(Meaning(before), Meaning(after))
    BY <2>1, <2>4, CompareOfInputs
  <2> QED BY <2>3, <2>5
<1> QED BY <1>1, Invariance, PTL

(* What the two stages did, when the script gets to its end. *)
LEMMA AtTheEnd ==
  ASSUME IInv, stage = "exit", rc \in {0, 5}
  PROVE  /\ before \in Outputs /\ after \in Outputs
         /\ compareRC = CompareRC(Load(before), Load(after)) /\ AllOk(compareOut)
         /\ reportRC = IF LoadAll(before, after, compareOut).truncated THEN 5 ELSE 0
         /\ ~ diskFull => reportOut = LoadAll(before, after, compareOut).records
         /\ rc = 5 <=> (compareRC = 5 \/ reportRC = 5)
<1>1. compareRC # 20 /\ reportRC \notin {10, 20} /\ ~ Refused
  BY DEF IInv, ExitCode, Refused
<1>2. CompareRan /\ ReportRan
  BY <1>1 DEF CompareRan, ReportRan
<1>3. before \in Outputs /\ after \in Outputs
  BY <1>1, <1>2 DEF IInv, TypeOK, CompareTold, Loaded
<1>4. rc = 5 <=> (compareRC = 5 \/ reportRC = 5)
  BY <1>1 DEF IInv, ExitCode
<1> QED BY <1>1, <1>2, <1>3, <1>4 DEF IInv, CompareTold, ReportTold

(* RC 5 is preserved across the pipeline, and means something: the script  *)
(* ends with 5 exactly when a limit of Compare or of Report was met, with  *)
(* 0 when none was, and with neither when a file or a program failed.      *)
THEOREM OutcomeTold == Spec => []OutcomeIsTold
<1>1. IInv => OutcomeIsTold
  <2> SUFFICES ASSUME IInv, stage = "exit"
               PROVE  /\ rc \in {0, 5} =>
                           (rc = 5 <=> Overfull(before) \/ Overfull(after) \/ ReportOverfull)
                      /\ before = Missing \/ after = Missing => rc \in {10, 20}
                      /\ {compareRC, reportRC} \intersect {10, 20} # {} =>
                           rc \in {compareRC, reportRC} \ {0, 5}
                      /\ compareRC = 20 => reportOut = Missing
    BY DEF OutcomeIsTold
  <2>1. ASSUME rc \in {0, 5}
        PROVE  rc = 5 <=> Overfull(before) \/ Overfull(after) \/ ReportOverfull
    <3> DEFINE b == Load(before)
               a == Load(after)
               q == LoadAll(before, after, compareOut)
    <3>1. /\ before \in Outputs /\ after \in Outputs
          /\ compareRC = CompareRC(b, a) /\ AllOk(compareOut)
          /\ reportRC = IF q.truncated THEN 5 ELSE 0
          /\ rc = 5 <=> (compareRC = 5 \/ reportRC = 5)
      BY <2>1, AtTheEnd
    <3>2. before \in Seq(FileLines) /\ after \in Seq(FileLines) /\ Formed(FileLines)
      BY <3>1, InputsFormed
    <3>3. DOMAIN before = 1 .. Len(before) /\ DOMAIN after = 1 .. Len(after)
      BY <3>2
    <3>4. /\ q.truncated \in BOOLEAN
          /\ q.truncated <=> Bad(before, Len(before)) \/ Bad(after, Len(after)) \/ ReportOverfull
      BY <3>1, <3>2, AllLoaded DEF ReportOverfull
    <3>5. /\ b.truncated => Overfull(before)
          /\ a.truncated => Overfull(after)
          /\ ~ b.truncated => ~ (Cardinality(KeysOf(before)) > MaxCompare)
          /\ ~ a.truncated => ~ (Cardinality(KeysOf(after)) > MaxCompare)
      BY <3>1, CompareOfInputs
    <3>6. /\ Bad(before, Len(before)) => Overfull(before)
          /\ Bad(after, Len(after)) => Overfull(after)
      BY <3>3 DEF Bad, Overfull
    <3>7. /\ Overfull(before) => \/ Bad(before, Len(before))
                                 \/ Cardinality(KeysOf(before)) > MaxCompare
          /\ Overfull(after) => \/ Bad(after, Len(after))
                                \/ Cardinality(KeysOf(after)) > MaxCompare
      BY <3>3 DEF Bad, Overfull
    <3>8. compareRC = 5 <=> b.truncated \/ a.truncated
      BY <3>1 DEF CompareRC
    <3>9. reportRC = 5 <=> q.truncated
      BY <3>1
    <3> HIDE DEF b, a, q
    <3> QED BY <3>1, <3>4, <3>5, <3>6, <3>7, <3>8, <3>9
  <2>2. /\ before = Missing \/ after = Missing => rc \in {10, 20}
        /\ {compareRC, reportRC} \intersect {10, 20} # {} => rc \in {compareRC, reportRC} \ {0, 5}
    <3>1. CASE Refused
      BY <3>1 DEF IInv, NotYet, Refused
    <3>2. CASE ~ Refused
      <4>1. compareRC \in {0, 5, 20}
        BY DEF IInv, TypeOK
      <4>2. before = Missing \/ after = Missing => compareRC = 20
        BY <3>2 DEF IInv, CompareTold, CompareRan, Loaded
      <4> QED BY <3>2, <4>1, <4>2 DEF IInv, ExitCode
    <3> QED BY <3>1, <3>2
  <2>3. compareRC = 20 => reportOut = Missing
    BY DEF IInv, NotYet
  <2> QED BY <2>1, <2>2, <2>3
<1> QED BY <1>1, Invariance, PTL

(* PASS keeps the evidence: on a disk with room, a report that ends with   *)
(* RC 0 holds every line of both inputs and of the comparison, in order.   *)
THEOREM PassKeeps == Spec => []PassKeepsEvidence
<1>1. IInv => PassKeepsEvidence
  <2> SUFFICES ASSUME IInv, Pass, ~ diskFull
               PROVE  reportOut = KeptLines(before) \o KeptLines(after) \o compareOut
    BY DEF PassKeepsEvidence
  <2> DEFINE q == LoadAll(before, after, compareOut)
  <2>1. /\ before \in Outputs /\ after \in Outputs /\ AllOk(compareOut)
        /\ reportRC = IF q.truncated THEN 5 ELSE 0
        /\ reportOut = q.records
        /\ reportRC # 5
    BY AtTheEnd DEF Pass
  <2>2. before \in Seq(FileLines) /\ after \in Seq(FileLines) /\ Formed(FileLines)
    BY <2>1, InputsFormed
  <2>3. ~ q.truncated => q.records = KeptLines(before) \o KeptLines(after) \o compareOut
    BY <2>1, <2>2, AllLoaded
  <2>4. ~ q.truncated
    BY <2>1
  <2> HIDE DEF q
  <2> QED BY <2>1, <2>3, <2>4
<1> QED BY <1>1, Invariance, PTL
=============================================================================
