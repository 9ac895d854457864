----------------------------- MODULE DataProofs -----------------------------
(***************************************************************************)
(* Facts about the data the models are built from: record tables,          *)
(* sequences, and what a loop over a sequence computes.                    *)
(***************************************************************************)
EXTENDS BoundedRecords, Selection, NodeLists, FiniteSetTheorems, WellFoundedInduction, TLAPS

(* A cleared table is a table, with nothing in it (memset before a sample).*)
LEMMA EmptyTableType ==
  ASSUME NEW R, NEW max \in Nat
  PROVE  EmptyTable \in Tables(R, max)
  BY DEF EmptyTable, Tables

(* add_event and add_record never write past the array, whatever its size. *)
LEMMA AddRecordType ==
  ASSUME NEW R, NEW max \in Nat, NEW t \in Tables(R, max), NEW r \in R
  PROVE  AddRecord(t, r, max) \in Tables(R, max)
<1>1. CASE Len(t.recs) >= max
  BY <1>1 DEF AddRecord, Tables
<1>2. CASE ~ (Len(t.recs) >= max)
  <2>1. /\ t.recs \in Seq(R)
        /\ Append(t.recs, r) \in Seq(R)
        /\ Len(Append(t.recs, r)) = Len(t.recs) + 1
    BY DEF Tables
  <2>2. AddRecord(t, r, max) = [recs |-> Append(t.recs, r), truncated |-> t.truncated]
    BY <1>2 DEF AddRecord, Tables
  <2> QED BY <1>2, <2>1, <2>2 DEF Tables
<1> QED BY <1>1, <1>2

(* While there is room the record lands at the end and nothing else moves. *)
LEMMA AddRecordFits ==
  ASSUME NEW R, NEW max \in Nat, NEW t \in Tables(R, max), NEW r \in R,
         Len(t.recs) < max
  PROVE  /\ AddRecord(t, r, max).recs = Append(t.recs, r)
         /\ AddRecord(t, r, max).truncated = t.truncated
<1>1. t.recs \in Seq(R) /\ Len(t.recs) \in Nat
  BY DEF Tables
<1>2. ~ (Len(t.recs) >= max)
  BY <1>1
<1>3. t \in [recs : Seq(R), truncated : BOOLEAN]
  BY DEF Tables
<1> QED BY <1>2, <1>3 DEF AddRecord

(* The flag is raised by the first record that is lost, and not before: a  *)
(* table that is not flagged has every record it was given.                *)
LEMMA AddRecordFlags ==
  ASSUME NEW R, NEW max \in Nat, NEW t \in Tables(R, max), NEW r \in R
  PROVE  /\ t.truncated => AddRecord(t, r, max).truncated
         /\ ~ AddRecord(t, r, max).truncated =>
              AddRecord(t, r, max).recs = Append(t.recs, r)
  BY DEF AddRecord, Tables
-----------------------------------------------------------------------------
(* A sequence with one more element at its end. *)
LEMMA Ended ==
  ASSUME NEW S, NEW s \in Seq(S), NEW t \in S
  PROVE  /\ s \o <<t>> \in Seq(S) /\ Len(s \o <<t>>) = Len(s) + 1
         /\ \A i \in 1 .. Len(s) + 1 : (s \o <<t>>)[i] = IF i <= Len(s) THEN s[i] ELSE t
<1>1. s \o <<t>> \in Seq(S)
  OBVIOUS
<1>2. Len(s \o <<t>>) = Len(s) + 1
  OBVIOUS
<1>3. \A i \in 1 .. Len(s) + 1 : (s \o <<t>>)[i] = IF i <= Len(s) THEN s[i] ELSE t
  OBVIOUS
<1> QED BY <1>1, <1>2, <1>3

(* Where the elements of two sequences are when they are joined. *)
LEMMA Joined ==
  ASSUME NEW S, NEW a \in Seq(S), NEW b \in Seq(S)
  PROVE  /\ a \o b \in Seq(S) /\ Len(a \o b) = Len(a) + Len(b)
         /\ \A i \in 1 .. Len(a) : (a \o b)[i] = a[i]
         /\ \A i \in 1 .. Len(b) : (a \o b)[Len(a) + i] = b[i]
OBVIOUS

(* Sequences are equal when they agree everywhere. *)
LEMMA SameSequence ==
  ASSUME NEW S, NEW x \in Seq(S), NEW y \in Seq(S), Len(x) = Len(y),
         \A i \in 1 .. Len(x) : x[i] = y[i]
  PROVE  x = y
<1>1. x = [i \in 1 .. Len(x) |-> x[i]] /\ y = [i \in 1 .. Len(y) |-> y[i]]
  OBVIOUS
<1> QED BY <1>1

(* The elements of two sequences that are joined. *)
LEMMA JoinedSet ==
  ASSUME NEW A, NEW B, NEW a \in Seq(A), NEW b \in Seq(B)
  PROVE  a \o b \in Seq(A \union B) /\ ToSet(a \o b) = ToSet(a) \union ToSet(b)
<1> DEFINE S == A \union B
<1>1. a \in Seq(S) /\ b \in Seq(S)
  OBVIOUS
<1> HIDE DEF S
<1>2. /\ a \o b \in Seq(S) /\ Len(a \o b) = Len(a) + Len(b)
      /\ \A i \in 1 .. Len(a) : (a \o b)[i] = a[i]
      /\ \A i \in 1 .. Len(b) : (a \o b)[Len(a) + i] = b[i]
  BY <1>1, Joined
<1>3. /\ Len(a) \in Nat /\ Len(b) \in Nat /\ DOMAIN a = 1 .. Len(a) /\ DOMAIN b = 1 .. Len(b)
      /\ DOMAIN (a \o b) = 1 .. Len(a) + Len(b)
  BY <1>1, <1>2
<1>4. ASSUME NEW i \in 1 .. Len(a) + Len(b) PROVE (a \o b)[i] \in ToSet(a) \union ToSet(b)
  <2>1. CASE i <= Len(a)
    BY <1>2, <1>3, <2>1 DEF ToSet
  <2>2. CASE i > Len(a)
    <3>1. i - Len(a) \in 1 .. Len(b) /\ Len(a) + (i - Len(a)) = i
      BY <1>3, <2>2
    <3>2. (a \o b)[i] = b[i - Len(a)]
      BY <1>2, <3>1
    <3> QED BY <1>3, <3>1, <3>2 DEF ToSet
  <2> QED BY <1>3, <2>1, <2>2
<1>5. ASSUME NEW i \in 1 .. Len(a) PROVE a[i] \in ToSet(a \o b)
  <2>1. i \in DOMAIN (a \o b) /\ (a \o b)[i] = a[i]
    BY <1>2, <1>3
  <2> QED BY <2>1 DEF ToSet
<1>6. ASSUME NEW i \in 1 .. Len(b) PROVE b[i] \in ToSet(a \o b)
  <2>1. Len(a) + i \in DOMAIN (a \o b) /\ (a \o b)[Len(a) + i] = b[i]
    BY <1>2, <1>3
  <2> QED BY <2>1 DEF ToSet
<1>7. ToSet(a \o b) = ToSet(a) \union ToSet(b)
  BY <1>3, <1>4, <1>5, <1>6 DEF ToSet
<1> QED BY <1>2, <1>7 DEF S

(* A sequence is one of its own elements. *)
LEMMA OwnSet ==
  ASSUME NEW S, NEW s \in Seq(S)
  PROVE  s \in Seq(ToSet(s))
<1>1. DOMAIN s = 1 .. Len(s) /\ Len(s) \in Nat /\ s = [i \in 1 .. Len(s) |-> s[i]]
  OBVIOUS
<1>2. \A i \in 1 .. Len(s) : s[i] \in ToSet(s)
  BY <1>1 DEF ToSet
<1>3. s \in [1 .. Len(s) -> ToSet(s)]
  BY <1>1, <1>2
<1> QED BY <1>1, <1>3

(* A sequence with one element more has that element more. *)
LEMMA AppendedSet ==
  ASSUME NEW S, NEW s \in Seq(S), NEW t \in S
  PROVE  /\ Append(s, t) \in Seq(S) /\ Len(Append(s, t)) = Len(s) + 1
         /\ ToSet(Append(s, t)) = ToSet(s) \union {t}
<1>1. /\ Append(s, t) \in Seq(S) /\ Len(Append(s, t)) = Len(s) + 1
      /\ DOMAIN Append(s, t) = 1 .. Len(s) + 1 /\ DOMAIN s = 1 .. Len(s) /\ Len(s) \in Nat
      /\ \A i \in 1 .. Len(s) : Append(s, t)[i] = s[i]
      /\ Append(s, t)[Len(s) + 1] = t
  OBVIOUS
<1>2. ASSUME NEW i \in 1 .. Len(s) + 1 PROVE Append(s, t)[i] \in ToSet(s) \union {t}
  BY <1>1 DEF ToSet
<1>3. ASSUME NEW i \in 1 .. Len(s) PROVE s[i] \in ToSet(Append(s, t))
  BY <1>1 DEF ToSet
<1>4. t \in ToSet(Append(s, t))
  BY <1>1 DEF ToSet
<1> QED BY <1>1, <1>2, <1>3, <1>4 DEF ToSet

(* A list with one node more at its end, a table with one record more.     *)
LEMMA AppendedIsWith ==
  ASSUME NEW S, NEW s \in Seq(S), IsInjective(s), NEW t \in S, t \notin ToSet(s)
  PROVE  /\ Append(s, t) \in Seq(S) /\ Len(Append(s, t)) = Len(s) + 1
         /\ IsInjective(Append(s, t)) /\ ToSet(Append(s, t)) = ToSet(s) \union {t}
<1> DEFINE r == Append(s, t)
<1>1. /\ r \in Seq(S) /\ Len(r) = Len(s) + 1 /\ DOMAIN r = 1 .. Len(s) + 1
      /\ \A i \in 1 .. Len(s) : r[i] = s[i]
      /\ r[Len(s) + 1] = t /\ DOMAIN s = 1 .. Len(s) /\ Len(s) \in Nat
  OBVIOUS
<1> HIDE DEF r
<1>2. \A i \in 1 .. Len(s) : s[i] \in ToSet(s)
  BY <1>1 DEF ToSet
<1>3. IsInjective(r)
  <2> SUFFICES ASSUME NEW a \in 1 .. Len(s) + 1, NEW b \in 1 .. Len(s) + 1, r[a] = r[b]
               PROVE  a = b
    BY <1>1 DEF IsInjective
  <2>1. CASE a \in 1 .. Len(s) /\ b \in 1 .. Len(s)
    BY <1>1, <2>1 DEF IsInjective
  <2>2. CASE a = Len(s) + 1 /\ b \in 1 .. Len(s)
    BY <1>1, <1>2, <2>2
  <2>3. CASE a \in 1 .. Len(s) /\ b = Len(s) + 1
    BY <1>1, <1>2, <2>3
  <2> QED BY <1>1, <2>1, <2>2, <2>3
<1>4. ToSet(r) = ToSet(s) \union {t}
  <2>1. ASSUME NEW i \in 1 .. Len(s) + 1 PROVE r[i] \in ToSet(s) \union {t}
    BY <1>1, <1>2
  <2>2. ASSUME NEW i \in 1 .. Len(s) PROVE s[i] \in ToSet(r)
    BY <1>1 DEF ToSet
  <2>3. t \in ToSet(r)
    BY <1>1 DEF ToSet
  <2> QED BY <1>1, <2>1, <2>2, <2>3 DEF ToSet
<1> QED BY <1>1, <1>3, <1>4 DEF r

(* The nodes of a list are a finite set, as many as it is long if no node  *)
(* is in it twice.                                                         *)
LEMMA NodesAreFinite ==
  ASSUME NEW S, NEW s \in Seq(S)
  PROVE  /\ IsFiniteSet(ToSet(s))
         /\ IsInjective(s) => Cardinality(ToSet(s)) = Len(s)
<1>1. Len(s) \in Nat /\ DOMAIN s = 1 .. Len(s) /\ s \in [1 .. Len(s) -> S]
  OBVIOUS
<1>2. IsFiniteSet(1 .. Len(s)) /\ Cardinality(1 .. Len(s)) = Len(s)
  <2>1. 1 \in Int /\ Len(s) \in Int
    BY <1>1
  <2>2. /\ IsFiniteSet(1 .. Len(s))
        /\ Cardinality(1 .. Len(s)) = IF 1 > Len(s) THEN 0 ELSE Len(s) - 1 + 1
    BY <2>1, FS_Interval, Zenon
  <2> QED BY <1>1, <2>2
<1>3. s \in [1 .. Len(s) -> ToSet(s)] /\ \A x \in ToSet(s) : \E i \in 1 .. Len(s) : s[i] = x
  BY <1>1 DEF ToSet
<1>4. s \in Surjection(1 .. Len(s), ToSet(s))
  BY <1>3 DEF Surjection
<1>5. /\ IsFiniteSet(ToSet(s))
      /\ Cardinality(ToSet(s)) = Cardinality(1 .. Len(s)) <=> s \in Injection(1 .. Len(s), ToSet(s))
  BY <1>2, <1>4, FS_Surjection, Zenon
<1>6. IsInjective(s) => s \in Injection(1 .. Len(s), ToSet(s))
  BY <1>1, <1>3 DEF Injection, IsInjective
<1> QED BY <1>2, <1>5, <1>6
-----------------------------------------------------------------------------
(* Induction, for a set: the least number outside it cannot exist.         *)
THEOREM NatSetInduction ==
  ASSUME NEW T, 0 \in T, \A n \in Nat : n \in T => n + 1 \in T
  PROVE  Nat \subseteq T
<1> DEFINE R == OpToRel(<, Nat)
           Rest == Nat \ T
<1>1. IsWellFoundedOn(R, Nat)
  BY NatLessThanWellFounded
<1>2. ASSUME Rest # {} PROVE FALSE
  <2>1. PICK x \in Rest : \A y \in Rest : ~ (<<y, x>> \in R)
    <3>1. Rest \subseteq Nat
      OBVIOUS
    <3> HIDE DEF R, Rest
    <3> QED BY <1>1, <1>2, <3>1, WFMin
  <2>2. x # 0 /\ x \in Nat /\ x \notin T
    BY <2>1
  <2>3. x - 1 \in Nat /\ x - 1 < x /\ (x - 1) + 1 = x
    BY <2>2
  <2>4. <<x - 1, x>> \in R
    BY <2>2, <2>3 DEF OpToRel
  <2>5. x - 1 \notin Rest
    BY <2>1, <2>4
  <2> QED BY <2>2, <2>3, <2>5
<1> QED BY <1>2

(* The same over the turns of a loop. *)
THEOREM TurnInduction ==
  ASSUME NEW N \in Nat, NEW T, 0 \in T, \A n \in 1 .. N : n - 1 \in T => n \in T
  PROVE  0 .. N \subseteq T
<1> DEFINE U == {n \in Nat : n <= N => n \in T}
<1>1. 0 \in U
  OBVIOUS
<1>2. ASSUME NEW n \in Nat, n \in U PROVE n + 1 \in U
  <2>1. CASE n + 1 <= N
    <3>1. n + 1 \in 1 .. N /\ (n + 1) - 1 = n /\ n <= N
      BY <2>1
    <3> QED BY <1>2, <3>1
  <2> QED BY <2>1
<1>3. Nat \subseteq U
  <2> HIDE DEF U
  <2> QED BY <1>1, <1>2, NatSetInduction
<1> QED BY <1>3

(* f is the body of a loop over a list of E: from a value and an element   *)
(* to the next value.  g[n] is the value after n turns.                    *)
IsBody(f, D, E) == f \in [D \X E -> D]
RunsOver(g, f, base, s) ==
  g[0] = base /\ \A n \in 1 .. Len(s) : g[n] = f[<<g[n - 1], s[n]>>]

(* A loop over s has a value after each turn.                              *)
THEOREM LoopExists ==
  ASSUME NEW D, NEW E, NEW f, IsBody(f, D, E), NEW base \in D, NEW s \in Seq(E)
  PROVE  \E g \in [0 .. Len(s) -> D] : RunsOver(g, f, base, s)
<1>0. f \in [D \X E -> D]
  BY DEF IsBody
<1> DEFINE Runs(g, m) == g[0] = base /\ \A n \in 1 .. m : g[n] = f[<<g[n - 1], s[n]>>]
           T == {m \in 0 .. Len(s) : \E g \in [0 .. m -> D] : Runs(g, m)}
<1>1. 0 \in T
  <2> DEFINE g == [k \in 0 .. 0 |-> base]
  <2>1. g \in [0 .. 0 -> D] /\ Runs(g, 0)
    OBVIOUS
  <2>2. 0 \in 0 .. Len(s)
    OBVIOUS
  <2> QED BY <2>1, <2>2
<1>2. ASSUME NEW m \in 1 .. Len(s), m - 1 \in T PROVE m \in T
  <2>1. PICK h \in [0 .. m - 1 -> D] : Runs(h, m - 1)
    BY <1>2
  <2> DEFINE g == [k \in 0 .. m |-> IF k = m THEN f[<<h[m - 1], s[m]>>] ELSE h[k]]
  <2>2. s[m] \in E /\ h[m - 1] \in D
    OBVIOUS
  <2>3. f[<<h[m - 1], s[m]>>] \in D
    BY <1>0, <2>2
  <2>4. g \in [0 .. m -> D]
    BY <2>3
  <2>5. g[m] = f[<<h[m - 1], s[m]>>] /\ \A k \in 0 .. m - 1 : g[k] = h[k]
    OBVIOUS
  <2>6. Runs(g, m)
    <3> HIDE DEF g
    <3>1. g[0] = base
      BY <2>1, <2>5
    <3>2. ASSUME NEW n \in 1 .. m PROVE g[n] = f[<<g[n - 1], s[n]>>]
      <4>1. n - 1 \in 0 .. m - 1 /\ g[n - 1] = h[n - 1]
        BY <2>5
      <4>2. CASE n = m
        BY <2>5, <4>1, <4>2
      <4>3. CASE n # m
        <5>1. n \in 1 .. m - 1
          BY <4>3
        <5>2. h[n] = f[<<h[n - 1], s[n]>>]
          BY <2>1, <5>1
        <5>3. g[n] = h[n]
          BY <2>5, <5>1
        <5> QED BY <4>1, <5>2, <5>3
      <4> QED BY <4>2, <4>3
    <3> QED BY <3>1, <3>2
  <2>7. \E r \in [0 .. m -> D] : Runs(r, m)
    <3> HIDE DEF g, Runs
    <3> QED BY <2>4, <2>6
  <2>8. m \in 0 .. Len(s)
    OBVIOUS
  <2> QED BY <2>7, <2>8
<1>3. Len(s) \in Nat
  OBVIOUS
<1>4. 0 .. Len(s) \subseteq T
  <2> HIDE DEF T
  <2> QED BY <1>1, <1>2, <1>3, TurnInduction
<1>5. Len(s) \in T
  BY <1>3, <1>4
<1> QED BY <1>5 DEF RunsOver

(* What Selections is after each turn. *)
LEMMA SelectionsTurn ==
  ASSUME NEW E, NEW s \in Seq(E), NEW T
  PROVE  /\ Selections(s, T) \in [0 .. Len(s) -> Seq(E)]
         /\ Selections(s, T)[0] = << >>
         /\ \A n \in 1 .. Len(s) :
              Selections(s, T)[n] = IF s[n] \in T THEN Append(Selections(s, T)[n - 1], s[n])
                                    ELSE Selections(s, T)[n - 1]
<1> DEFINE D == Seq(E)
           f == [p \in D \X E |-> IF p[2] \in T THEN Append(p[1], p[2]) ELSE p[1]]
           Loop(h) == [n \in 0 .. Len(s) |-> IF n = 0 THEN << >>
                                             ELSE IF s[n] \in T THEN Append(h[n - 1], s[n])
                                             ELSE h[n - 1]]
           u == CHOOSE h : h = Loop(h)
<1>1. f \in [D \X E -> D] /\ << >> \in D
  OBVIOUS
<1>2. Selections(s, T) = u
  BY DEF Selections
<1>3. PICK g \in [0 .. Len(s) -> D] :
        g[0] = << >> /\ \A n \in 1 .. Len(s) : g[n] = f[<<g[n - 1], s[n]>>]
  <2>1. IsBody(f, D, E)
    BY <1>1 DEF IsBody
  <2>2. \E g \in [0 .. Len(s) -> D] : RunsOver(g, f, << >>, s)
    <3> HIDE DEF f, D
    <3> QED BY <1>1, <2>1, LoopExists, Zenon
  <2> QED BY <2>2 DEF RunsOver
<1>4. Len(s) \in Nat /\ \A n \in 1 .. Len(s) : s[n] \in E
  OBVIOUS
<1>5. ASSUME NEW n \in 1 .. Len(s)
      PROVE  g[n] = IF s[n] \in T THEN Append(g[n - 1], s[n]) ELSE g[n - 1]
  <2>1. g[n - 1] \in Seq(E)
    BY <1>3, <1>4
  <2> QED BY <1>3, <1>4, <2>1
<1> HIDE DEF f
<1>6. g = Loop(g)
  <2>1. ASSUME NEW n \in 0 .. Len(s) PROVE g[n] = Loop(g)[n]
    <3>1. CASE n = 0
      BY <1>3, <3>1
    <3>2. CASE n # 0
      <4>1. n \in 1 .. Len(s)
        BY <1>4, <3>2
      <4> QED BY <1>5, <3>2, <4>1
    <3> QED BY <3>1, <3>2
  <2>2. g = [n \in 0 .. Len(s) |-> g[n]]
    BY <1>3
  <2> QED BY <2>1, <2>2
<1>7. u = Loop(u)
  <2> HIDE DEF Loop
  <2> QED BY <1>6
<1> HIDE DEF u
<1>8. /\ u[0] = << >>
      /\ \A n \in 1 .. Len(s) : u[n] = IF s[n] \in T THEN Append(u[n - 1], s[n]) ELSE u[n - 1]
  <2>1. 0 \in 0 .. Len(s) /\ u[0] = Loop(u)[0]
    <3> HIDE DEF Loop
    <3> QED BY <1>4, <1>7
  <2>2. ASSUME NEW n \in 1 .. Len(s)
        PROVE  u[n] = IF s[n] \in T THEN Append(u[n - 1], s[n]) ELSE u[n - 1]
    <3>1. u[n] = Loop(u)[n]
      <4> HIDE DEF Loop
      <4> QED BY <1>7
    <3>2. n \in 0 .. Len(s) /\ n # 0
      BY <1>4
    <3> QED BY <3>1, <3>2
  <2> QED BY <2>1, <2>2
<1>9. DOMAIN u = 0 .. Len(s) /\ u = [n \in 0 .. Len(s) |-> u[n]]
  <2>1. DOMAIN Loop(u) = 0 .. Len(s) /\ Loop(u) = [n \in 0 .. Len(s) |-> Loop(u)[n]]
    OBVIOUS
  <2> HIDE DEF Loop
  <2> QED BY <1>7, <2>1
<1> HIDE DEF Loop
<1> DEFINE Typed == {n \in 0 .. Len(s) : u[n] \in Seq(E)}
<1>10. 0 \in Typed
  <2>1. u[0] \in D
    <3> HIDE DEF D
    <3> QED BY <1>1, <1>8
  <2> QED BY <1>4, <2>1
<1>11. ASSUME NEW n \in 1 .. Len(s), n - 1 \in Typed PROVE n \in Typed
  <2>1. u[n - 1] \in Seq(E) /\ s[n] \in E /\ n \in 0 .. Len(s)
    BY <1>4, <1>11
  <2>2. CASE s[n] \in T
    <3>1. Append(u[n - 1], s[n]) \in Seq(E)
      BY <2>1, AppendedSet
    <3>2. u[n] = Append(u[n - 1], s[n])
      BY <1>8, <2>2
    <3>3. u[n] \in Seq(E)
      BY <3>1, <3>2, Zenon
    <3> QED BY <2>1, <3>3
  <2>3. CASE s[n] \notin T
    BY <1>8, <2>1, <2>3
  <2> QED BY <2>2, <2>3
<1>12. 0 .. Len(s) \subseteq Typed
  <2> HIDE DEF Typed
  <2> QED BY <1>4, <1>10, <1>11, TurnInduction
<1>13. \A n \in 0 .. Len(s) : u[n] \in Seq(E)
  BY <1>12
<1> QED BY <1>2, <1>8, <1>9, <1>13

(* The elements kept are those of the kind, each as often as it is there.  *)
THEOREM SelectedElements ==
  ASSUME NEW E, NEW s \in Seq(E), NEW T
  PROVE  /\ Selected(s, T) \in Seq(E) /\ Len(Selected(s, T)) <= Len(s)
         /\ ToSet(Selected(s, T)) = ToSet(s) \intersect T
         /\ IsInjective(s) => IsInjective(Selected(s, T))
<1> DEFINE u == Selections(s, T)
           Kept(n) == {s[i] : i \in 1 .. n} \intersect T
           Good == {n \in 0 .. Len(s) :
                      /\ Len(u[n]) <= n
                      /\ ToSet(u[n]) = Kept(n)
                      /\ IsInjective(s) => IsInjective(u[n])}
<1>1. /\ u \in [0 .. Len(s) -> Seq(E)] /\ u[0] = << >>
      /\ \A n \in 1 .. Len(s) : u[n] = IF s[n] \in T THEN Append(u[n - 1], s[n]) ELSE u[n - 1]
  BY SelectionsTurn
<1>2. Len(s) \in Nat /\ DOMAIN s = 1 .. Len(s) /\ \A n \in 1 .. Len(s) : s[n] \in E
  OBVIOUS
<1> HIDE DEF u
<1>3. 0 \in Good
  <2>1. ToSet(<< >>) = {} /\ Len(<< >>) = 0 /\ IsInjective(<< >>)
    BY DEF ToSet, IsInjective
  <2>2. Kept(0) = {}
    OBVIOUS
  <2> QED BY <1>1, <1>2, <2>1, <2>2
<1>4. ASSUME NEW n \in 1 .. Len(s), n - 1 \in Good PROVE n \in Good
  <2>1. /\ n - 1 \in 0 .. Len(s) /\ u[n - 1] \in Seq(E) /\ s[n] \in E
        /\ Len(u[n - 1]) <= n - 1 /\ ToSet(u[n - 1]) = Kept(n - 1)
        /\ IsInjective(s) => IsInjective(u[n - 1])
    BY <1>1, <1>2, <1>4
  <2>2. Kept(n) = Kept(n - 1) \union ({s[n]} \intersect T)
    <3>1. 1 .. n = (1 .. n - 1) \union {n}
      OBVIOUS
    <3> QED BY <3>1
  <2>3. CASE s[n] \in T
    <3>1. u[n] = Append(u[n - 1], s[n])
      BY <1>1, <2>3
    <3>2. Len(u[n]) = Len(u[n - 1]) + 1 /\ ToSet(u[n]) = ToSet(u[n - 1]) \union {s[n]}
      BY <2>1, <3>1, AppendedSet
    <3>3. ASSUME IsInjective(s) PROVE s[n] \notin ToSet(u[n - 1])
      <4>1. ASSUME NEW i \in 1 .. n - 1, s[i] = s[n] PROVE FALSE
        <5>1. i \in DOMAIN s /\ n \in DOMAIN s /\ i # n
          BY <1>2
        <5> QED BY <3>3, <4>1, <5>1 DEF IsInjective
      <4> QED BY <2>1, <4>1
    <3>4. IsInjective(s) => IsInjective(u[n])
      BY <2>1, <3>1, <3>3, AppendedIsWith
    <3>5. Len(u[n]) <= n
      <4>1. Len(u[n - 1]) \in Nat
        BY <2>1
      <4> QED BY <2>1, <3>2, <4>1
    <3>6. ToSet(u[n]) = Kept(n)
      BY <2>1, <2>2, <2>3, <3>2
    <3> HIDE DEF Kept
    <3> QED BY <3>4, <3>5, <3>6
  <2>4. CASE s[n] \notin T
    <3>1. u[n] = u[n - 1] /\ Kept(n) = Kept(n - 1)
      BY <1>1, <2>2, <2>4
    <3>2. Len(u[n]) <= n
      <4>1. Len(u[n - 1]) \in Nat
        BY <2>1
      <4> QED BY <2>1, <3>1, <4>1
    <3> HIDE DEF Kept
    <3> QED BY <2>1, <3>1, <3>2
  <2> QED BY <2>3, <2>4
<1>5. 0 .. Len(s) \subseteq Good
  <2> HIDE DEF Good
  <2> QED BY <1>2, <1>3, <1>4, TurnInduction
<1>6. Len(s) \in Good
  <2> HIDE DEF Good
  <2> QED BY <1>2, <1>5
<1>7. Kept(Len(s)) = ToSet(s) \intersect T
  BY <1>2 DEF ToSet
<1>8. Selected(s, T) = u[Len(s)]
  BY DEF Selected, u
<1>9. Selected(s, T) \in Seq(E)
  BY <1>1, <1>2, <1>8
<1> HIDE DEF Kept
<1> QED BY <1>6, <1>7, <1>8, <1>9

(* Of a sequence of the one kind nothing is left out. *)
LEMMA SelectedAll ==
  ASSUME NEW E, NEW s \in Seq(E), NEW T, ToSet(s) \subseteq T
  PROVE  Selected(s, T) = s
<1> DEFINE u == Selections(s, T)
           Same == {n \in 0 .. Len(s) : Len(u[n]) = n /\ \A i \in 1 .. n : u[n][i] = s[i]}
<1>1. /\ u \in [0 .. Len(s) -> Seq(E)] /\ u[0] = << >>
      /\ \A n \in 1 .. Len(s) : u[n] = IF s[n] \in T THEN Append(u[n - 1], s[n]) ELSE u[n - 1]
  BY SelectionsTurn
<1>2. /\ Len(s) \in Nat /\ DOMAIN s = 1 .. Len(s)
      /\ \A n \in 1 .. Len(s) : s[n] \in E /\ s[n] \in T
  BY DEF ToSet
<1> HIDE DEF u
<1>3. 0 \in Same
  BY <1>1, <1>2
<1>4. ASSUME NEW n \in 1 .. Len(s), n - 1 \in Same PROVE n \in Same
  <2>1. /\ n \in 0 .. Len(s) /\ u[n - 1] \in Seq(E) /\ s[n] \in E
        /\ Len(u[n - 1]) = n - 1 /\ \A i \in 1 .. n - 1 : u[n - 1][i] = s[i]
    <3>1. n \in 0 .. Len(s) /\ n - 1 \in 0 .. Len(s) /\ s[n] \in E
      BY <1>2
    <3>2. u[n - 1] \in Seq(E)
      BY <1>1, <3>1
    <3> QED BY <1>4, <3>1, <3>2
  <2>2. u[n] = Append(u[n - 1], s[n])
    BY <1>1, <1>2
  <2>3. /\ Len(Append(u[n - 1], s[n])) = n
        /\ \A i \in 1 .. n : Append(u[n - 1], s[n])[i] = s[i]
    BY <2>1
  <2> QED BY <2>1, <2>2, <2>3
<1>5. 0 .. Len(s) \subseteq Same
  <2> HIDE DEF Same
  <2> QED BY <1>2, <1>3, <1>4, TurnInduction
<1>6. Len(s) \in 0 .. Len(s)
  BY <1>2
<1>7. /\ u[Len(s)] \in Seq(E) /\ Len(u[Len(s)]) = Len(s)
      /\ \A i \in 1 .. Len(s) : u[Len(s)][i] = s[i]
  BY <1>1, <1>5, <1>6
<1>8. u[Len(s)] = s
  <2> DEFINE x == u[Len(s)]
  <2>1. x \in Seq(E) /\ Len(x) = Len(s) /\ \A i \in 1 .. Len(x) : x[i] = s[i]
    BY <1>7
  <2>2. x = s
    <3> HIDE DEF x
    <3> QED BY <2>1, SameSequence, Zenon
  <2> QED BY <2>2
<1> QED BY <1>8 DEF Selected, u
-----------------------------------------------------------------------------
(* Exec's lists stay lists under all that is done to them, for any number  *)
(* of nodes: the walks of the collectors rest on this.                     *)

(* r is s with t put in at the place k, and with the node at k taken out.  *)
WithAt(r, s, k, t) ==
  /\ Len(r) = Len(s) + 1
  /\ \A i \in 1 .. Len(s) + 1 :
       r[i] = IF i < k THEN s[i] ELSE IF i = k THEN t ELSE s[i - 1]

WithoutAt(r, s, k) ==
  /\ Len(r) = Len(s) - 1
  /\ \A i \in 1 .. Len(s) - 1 : r[i] = IF i < k THEN s[i] ELSE s[i + 1]

(* Enqueue puts one node in, anywhere, and keeps the order of the others.  *)
LEMMA Inserted ==
  ASSUME NEW S, NEW s \in Seq(S), NEW t \in S, NEW k \in 1 .. Len(s) + 1,
         NEW r, r = InsertAt(s, k, t)
  PROVE  r \in Seq(S) /\ WithAt(r, s, k, t)
<1> DEFINE front == SubSeq(s, 1, k - 1)
           head == front \o <<t>>
           back == SubSeq(s, k, Len(s))
<1>1. /\ front \in Seq(S) /\ Len(front) = k - 1
      /\ \A i \in 1 .. k - 1 : front[i] = s[i]
  OBVIOUS
<1>2. /\ back \in Seq(S) /\ Len(back) = Len(s) - k + 1
      /\ \A i \in 1 .. Len(s) - k + 1 : back[i] = s[k + i - 1]
  OBVIOUS
<1>3. r = head \o back
  BY DEF InsertAt
<1> HIDE DEF front, back
<1>4. /\ head \in Seq(S) /\ Len(head) = Len(front) + 1
      /\ \A i \in 1 .. Len(front) + 1 : head[i] = IF i <= Len(front) THEN front[i] ELSE t
  BY <1>1, Ended, Zenon
<1> HIDE DEF head
<1>5. Len(head) = k /\ \A i \in 1 .. k : head[i] = IF i < k THEN s[i] ELSE t
  BY <1>1, <1>4
<1>6. /\ r \in Seq(S) /\ Len(r) = Len(head) + Len(back)
      /\ \A i \in 1 .. Len(head) : r[i] = head[i]
      /\ \A i \in 1 .. Len(back) : r[Len(head) + i] = back[i]
  <2>1. head \in Seq(S)
    BY <1>4
  <2>2. back \in Seq(S)
    BY <1>2
  <2> QED BY <1>3, <2>1, <2>2, Joined
<1>7. Len(r) = Len(s) + 1
  BY <1>2, <1>5, <1>6
<1>8. ASSUME NEW i \in 1 .. Len(s) + 1
      PROVE  r[i] = IF i < k THEN s[i] ELSE IF i = k THEN t ELSE s[i - 1]
  <2>1. CASE i <= k
    BY <1>5, <1>6, <2>1
  <2>2. CASE i > k
    <3>1. i - k \in 1 .. Len(back) /\ Len(head) + (i - k) = i /\ k + (i - k) - 1 = i - 1
      BY <1>2, <1>5, <2>2
    <3>2. r[Len(head) + (i - k)] = back[i - k]
      BY <1>6, <3>1, Zenon
    <3>3. back[i - k] = s[k + (i - k) - 1]
      BY <1>2, <3>1
    <3> QED BY <2>2, <3>1, <3>2, <3>3
  <2> QED BY <2>1, <2>2
<1> QED BY <1>2, <1>4, <1>6, <1>7, <1>8 DEF WithAt

(* Taking one node out keeps the order of the others as well.              *)
LEMMA Removed ==
  ASSUME NEW S, NEW s \in Seq(S), NEW k \in 1 .. Len(s), NEW r, r = RemoveAt(s, k)
  PROVE  r \in Seq(S) /\ WithoutAt(r, s, k)
<1> DEFINE front == SubSeq(s, 1, k - 1)
           back == SubSeq(s, k + 1, Len(s))
<1>1. /\ front \in Seq(S) /\ Len(front) = k - 1
      /\ \A i \in 1 .. k - 1 : front[i] = s[i]
  OBVIOUS
<1>2. /\ back \in Seq(S) /\ Len(back) = Len(s) - k
      /\ \A i \in 1 .. Len(s) - k : back[i] = s[k + i]
  OBVIOUS
<1>3. r = front \o back
  BY DEF RemoveAt
<1> HIDE DEF front, back
<1>4. r \in Seq(S) /\ Len(r) = Len(s) - 1
  BY <1>1, <1>2, <1>3
<1>5. ASSUME NEW i \in 1 .. Len(s) - 1
      PROVE  r[i] = IF i < k THEN s[i] ELSE s[i + 1]
  <2>1. CASE i < k
    <3>1. i \in 1 .. Len(front)
      BY <1>1, <2>1
    <3>2. r[i] = front[i]
      BY <1>1, <1>2, <1>3, <3>1
    <3> QED BY <1>1, <2>1, <3>1, <3>2
  <2>2. CASE ~ (i < k)
    <3>1. /\ i \in Len(front) + 1 .. Len(front) + Len(back)
          /\ i - (k - 1) \in 1 .. Len(s) - k /\ k + (i - (k - 1)) = i + 1
      BY <1>1, <1>2, <2>2
    <3>2. r[i] = back[i - (k - 1)]
      BY <1>1, <1>2, <1>3, <3>1
    <3>3. back[i - (k - 1)] = s[i + 1]
      BY <1>2, <3>1
    <3> QED BY <2>2, <3>2, <3>3
  <2> QED BY <2>1, <2>2
<1> QED BY <1>4, <1>5 DEF WithoutAt

(* A list without one of its nodes: the other nodes, still each once.      *)
LEMMA UnlinkedIsWithout ==
  ASSUME NEW S, NEW s \in Seq(S), IsInjective(s), NEW t \in ToSet(s)
  PROVE  /\ Unlinked(s, t) \in Seq(S) /\ IsInjective(Unlinked(s, t))
         /\ ToSet(Unlinked(s, t)) = ToSet(s) \ {t}
<1> DEFINE k == IndexOf(s, t)
           r == RemoveAt(s, k)
<1>1. k \in 1 .. Len(s) /\ s[k] = t
  BY DEF IndexOf, ToSet
<1>2. Unlinked(s, t) = r
  BY DEF Unlinked
<1> HIDE DEF k
<1>3. /\ r \in Seq(S) /\ Len(r) = Len(s) - 1
      /\ \A i \in 1 .. Len(s) - 1 : r[i] = IF i < k THEN s[i] ELSE s[i + 1]
  <2>1. r \in Seq(S) /\ WithoutAt(r, s, k)
    BY <1>1, Removed, Zenon
  <2> QED BY <2>1 DEF WithoutAt
<1> HIDE DEF r
<1>4. DOMAIN r = 1 .. Len(s) - 1 /\ DOMAIN s = 1 .. Len(s) /\ Len(s) \in Nat
  BY <1>3
<1>5. ASSUME NEW i \in 1 .. Len(s) - 1
      PROVE  \E j \in 1 .. Len(s) : j # k /\ r[i] = s[j] /\ j = IF i < k THEN i ELSE i + 1
  BY <1>1, <1>3, <1>4
<1>6. IsInjective(r)
  <2> SUFFICES ASSUME NEW a \in 1 .. Len(s) - 1, NEW b \in 1 .. Len(s) - 1, r[a] = r[b]
               PROVE  a = b
    BY <1>4 DEF IsInjective
  <2>1. PICK x \in 1 .. Len(s) : r[a] = s[x] /\ x = IF a < k THEN a ELSE a + 1
    BY <1>5
  <2>2. PICK y \in 1 .. Len(s) : r[b] = s[y] /\ y = IF b < k THEN b ELSE b + 1
    BY <1>5
  <2>3. x = y
    BY <1>4, <2>1, <2>2 DEF IsInjective
  <2> QED BY <1>1, <2>1, <2>2, <2>3
<1>7. ToSet(r) \subseteq ToSet(s) \ {t}
  <2> SUFFICES ASSUME NEW i \in 1 .. Len(s) - 1 PROVE r[i] \in ToSet(s) /\ r[i] # t
    BY <1>4 DEF ToSet
  <2>1. PICK j \in 1 .. Len(s) : j # k /\ r[i] = s[j]
    BY <1>5
  <2> QED BY <1>1, <1>4, <2>1 DEF ToSet, IsInjective
<1>8. ToSet(s) \ {t} \subseteq ToSet(r)
  <2> SUFFICES ASSUME NEW j \in 1 .. Len(s), s[j] # t PROVE s[j] \in ToSet(r)
    BY <1>4 DEF ToSet
  <2>1. CASE j < k
    <3>1. j \in 1 .. Len(s) - 1 /\ r[j] = s[j]
      BY <1>1, <1>3, <2>1
    <3> QED BY <1>4, <3>1 DEF ToSet
  <2>2. CASE j > k
    <3>1. j - 1 \in 1 .. Len(s) - 1 /\ ~ (j - 1 < k) /\ (j - 1) + 1 = j
      BY <1>1, <2>2
    <3>2. r[j - 1] = s[j]
      BY <1>3, <3>1
    <3> QED BY <1>4, <3>1, <3>2 DEF ToSet
  <2> QED BY <1>1, <2>1, <2>2
<1> QED BY <1>2, <1>3, <1>6, <1>7, <1>8

(* A list with a node more: no other node is passed by another.            *)
LEMMA EnqueuedIsWith ==
  ASSUME NEW S, NEW s \in Seq(S), IsInjective(s),
         NEW t \in S, t \notin ToSet(s), NEW r \in Enqueued(s, t)
  PROVE  /\ r \in Seq(S) /\ IsInjective(r) /\ ToSet(r) = ToSet(s) \union {t}
         /\ \A a, b \in DOMAIN r : a < b /\ r[a] # t /\ r[b] # t =>
              \E x, y \in DOMAIN s : x < y /\ s[x] = r[a] /\ s[y] = r[b]
<1>1. PICK k \in 1 .. Len(s) + 1 : r = InsertAt(s, k, t)
  BY DEF Enqueued
<1>2. /\ r \in Seq(S) /\ Len(r) = Len(s) + 1
      /\ \A i \in 1 .. Len(s) + 1 :
           r[i] = IF i < k THEN s[i] ELSE IF i = k THEN t ELSE s[i - 1]
  <2>1. r \in Seq(S) /\ WithAt(r, s, k, t)
    BY <1>1, Inserted, Zenon
  <2> QED BY <2>1 DEF WithAt
<1>3. DOMAIN r = 1 .. Len(s) + 1 /\ DOMAIN s = 1 .. Len(s) /\ Len(s) \in Nat
  BY <1>2
<1>4. \A i \in 1 .. Len(s) : s[i] \in ToSet(s)
  BY <1>3 DEF ToSet
<1> DEFINE Old(i) == IF i < k THEN i ELSE i - 1
<1>5. ASSUME NEW i \in DOMAIN r, i # k
      PROVE  Old(i) \in DOMAIN s /\ r[i] = s[Old(i)] /\ r[i] # t
  <2>1. CASE i < k
    BY <1>2, <1>3, <1>4, <2>1
  <2>2. CASE i > k
    <3>1. i - 1 \in 1 .. Len(s) /\ r[i] = s[i - 1]
      BY <1>2, <1>3, <2>2
    <3> QED BY <1>3, <1>4, <2>2, <3>1
  <2> QED BY <1>3, <1>5, <2>1, <2>2
<1>6. r[k] = t /\ k \in DOMAIN r
  BY <1>2, <1>3
<1>7. ASSUME NEW a \in DOMAIN r, NEW b \in DOMAIN r, a < b, a # k, b # k
      PROVE  Old(a) < Old(b)
  <2>1. a \in Nat /\ b \in Nat /\ k \in Nat
    BY <1>3
  <2> QED BY <1>7, <2>1
<1>8. IsInjective(r)
  <2> SUFFICES ASSUME NEW a \in DOMAIN r, NEW b \in DOMAIN r, r[a] = r[b], a < b
               PROVE  FALSE
    BY <1>3 DEF IsInjective
  <2>1. CASE a = k \/ b = k
    BY <1>5, <1>6, <2>1
  <2>2. CASE a # k /\ b # k
    <3>1. Old(a) < Old(b)
      BY <1>7, <2>2
    <3>2. /\ Old(a) \in DOMAIN s /\ Old(b) \in DOMAIN s
          /\ s[Old(a)] = s[Old(b)]
      BY <1>5, <2>2
    <3>3. Old(a) = Old(b)
      BY <3>2 DEF IsInjective
    <3> QED BY <1>3, <3>1, <3>2, <3>3
  <2> QED BY <2>1, <2>2
<1>9. ToSet(r) = ToSet(s) \union {t}
  <2>1. ASSUME NEW i \in DOMAIN r PROVE r[i] \in ToSet(s) \union {t}
    BY <1>3, <1>4, <1>5, <1>6
  <2>2. ASSUME NEW i \in DOMAIN s PROVE s[i] \in ToSet(r)
    <3>1. CASE i < k
      <4>1. i \in DOMAIN r /\ r[i] = s[i]
        BY <1>2, <1>3, <3>1
      <4> QED BY <4>1 DEF ToSet
    <3>2. CASE i >= k
      <4>1. i + 1 \in 1 .. Len(s) + 1 /\ ~ (i + 1 < k) /\ i + 1 # k /\ (i + 1) - 1 = i
        BY <1>3, <3>2
      <4>2. i + 1 \in DOMAIN r /\ r[i + 1] = s[i]
        BY <1>2, <1>3, <4>1
      <4> QED BY <4>2 DEF ToSet
    <3> QED BY <1>3, <3>1, <3>2
  <2>3. t \in ToSet(r)
    BY <1>6 DEF ToSet
  <2> QED BY <2>1, <2>2, <2>3 DEF ToSet
<1>10. ASSUME NEW a \in DOMAIN r, NEW b \in DOMAIN r, a < b, r[a] # t, r[b] # t
       PROVE  \E x, y \in DOMAIN s : x < y /\ s[x] = r[a] /\ s[y] = r[b]
  <2>1. a # k /\ b # k
    BY <1>6, <1>10
  <2> QED BY <1>5, <1>7, <1>10, <2>1
<1> QED BY <1>2, <1>8, <1>9, <1>10

(* Two lists without a node in both. *)
TwoLists(S, r, w) ==
  /\ r \in Seq(S) /\ w \in Seq(S)
  /\ IsInjective(r) /\ IsInjective(w)
  /\ ToSet(r) \intersect ToSet(w) = {}

(* A node goes from the one to a place in the other.                       *)
LEMMA NodeMoves ==
  ASSUME NEW S, NEW r, NEW w, TwoLists(S, r, w), NEW t \in ToSet(w), NEW q \in Enqueued(r, t)
  PROVE  /\ TwoLists(S, q, Unlinked(w, t)) /\ t \notin ToSet(r)
         /\ ToSet(q) = ToSet(r) \union {t} /\ ToSet(Unlinked(w, t)) = ToSet(w) \ {t}
         /\ \A a, b \in DOMAIN q : a < b /\ q[a] # t /\ q[b] # t =>
              \E x, y \in DOMAIN r : x < y /\ r[x] = q[a] /\ r[y] = q[b]
<1>1. /\ r \in Seq(S) /\ IsInjective(r) /\ w \in Seq(S) /\ IsInjective(w)
      /\ ToSet(r) \intersect ToSet(w) = {}
  BY DEF TwoLists
<1>2. t \notin ToSet(r) /\ t \in S
  BY <1>1 DEF ToSet
<1>3. /\ Unlinked(w, t) \in Seq(S) /\ IsInjective(Unlinked(w, t))
      /\ ToSet(Unlinked(w, t)) = ToSet(w) \ {t}
  BY <1>1, UnlinkedIsWithout, Zenon
<1>4. /\ q \in Seq(S) /\ IsInjective(q) /\ ToSet(q) = ToSet(r) \union {t}
      /\ \A a, b \in DOMAIN q : a < b /\ q[a] # t /\ q[b] # t =>
           \E x, y \in DOMAIN r : x < y /\ r[x] = q[a] /\ r[y] = q[b]
  BY <1>1, <1>2, EnqueuedIsWith
<1>5. TwoLists(S, q, Unlinked(w, t))
  BY <1>1, <1>3, <1>4 DEF TwoLists
<1> QED BY <1>2, <1>3, <1>4, <1>5

(* A node goes from the one to the end of the other.                       *)
LEMMA NodeAppended ==
  ASSUME NEW S, NEW r, NEW w, TwoLists(S, r, w), NEW t \in ToSet(r)
  PROVE  TwoLists(S, Unlinked(r, t), Append(w, t))
<1>1. /\ r \in Seq(S) /\ IsInjective(r) /\ w \in Seq(S) /\ IsInjective(w)
      /\ ToSet(r) \intersect ToSet(w) = {}
  BY DEF TwoLists
<1>2. t \notin ToSet(w) /\ t \in S
  BY <1>1 DEF ToSet
<1>3. /\ Unlinked(r, t) \in Seq(S) /\ IsInjective(Unlinked(r, t))
      /\ ToSet(Unlinked(r, t)) = ToSet(r) \ {t}
  BY <1>1, UnlinkedIsWithout, Zenon
<1>4. /\ Append(w, t) \in Seq(S) /\ IsInjective(Append(w, t))
      /\ ToSet(Append(w, t)) = ToSet(w) \union {t}
  BY <1>1, <1>2, AppendedIsWith
<1> QED BY <1>1, <1>3, <1>4 DEF TwoLists

(* A new node comes into the one.                                          *)
LEMMA NodeAdded ==
  ASSUME NEW S, NEW r, NEW w, TwoLists(S, r, w), NEW t \in S,
         t \notin ToSet(r), t \notin ToSet(w), NEW q \in Enqueued(r, t)
  PROVE  TwoLists(S, q, w)
<1>1. /\ r \in Seq(S) /\ IsInjective(r) /\ w \in Seq(S) /\ IsInjective(w)
      /\ ToSet(r) \intersect ToSet(w) = {}
  BY DEF TwoLists
<1>2. q \in Seq(S) /\ IsInjective(q) /\ ToSet(q) = ToSet(r) \union {t}
  BY <1>1, EnqueuedIsWith
<1> QED BY <1>1, <1>2 DEF TwoLists

(* A node is taken out, wherever it is.                                    *)
LEMMA NodeRemoved ==
  ASSUME NEW S, NEW r, NEW w, TwoLists(S, r, w), NEW t
  PROVE  TwoLists(S, Unlinked(r, t), Unlinked(w, t))
<1>1. ASSUME NEW s \in Seq(S), IsInjective(s)
      PROVE  /\ Unlinked(s, t) \in Seq(S) /\ IsInjective(Unlinked(s, t))
             /\ ToSet(Unlinked(s, t)) \subseteq ToSet(s)
  <2>1. CASE t \in ToSet(s)
    <3>1. /\ Unlinked(s, t) \in Seq(S) /\ IsInjective(Unlinked(s, t))
          /\ ToSet(Unlinked(s, t)) = ToSet(s) \ {t}
      BY <1>1, <2>1, UnlinkedIsWithout, Zenon
    <3> QED BY <3>1
  <2>2. CASE t \notin ToSet(s)
    BY <1>1, <2>2 DEF Unlinked
  <2> QED BY <2>1, <2>2
<1>2. /\ r \in Seq(S) /\ IsInjective(r) /\ w \in Seq(S) /\ IsInjective(w)
      /\ ToSet(r) \intersect ToSet(w) = {}
  BY DEF TwoLists
<1>3. /\ Unlinked(r, t) \in Seq(S) /\ IsInjective(Unlinked(r, t)) /\ ToSet(Unlinked(r, t)) \subseteq ToSet(r)
      /\ Unlinked(w, t) \in Seq(S) /\ IsInjective(Unlinked(w, t)) /\ ToSet(Unlinked(w, t)) \subseteq ToSet(w)
  BY <1>1, <1>2
<1> QED BY <1>2, <1>3 DEF TwoLists

(* The place of a node in a list.                                          *)
LEMMA NodeAt ==
  ASSUME NEW S, NEW list \in Seq(S), IsInjective(list), NEW k \in 1 .. Len(list)
  PROVE  IndexOf(list, list[k]) = k
BY DEF IndexOf, IsInjective
=============================================================================
