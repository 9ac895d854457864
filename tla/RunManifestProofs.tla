------------------------- MODULE RunManifestProofs --------------------------
(***************************************************************************)
(* Safety of the run directory for any set of invocations, any number of   *)
(* them at one time, and any of them killed.                               *)
(***************************************************************************)
EXTENDS RunManifest, TLAPS

(* Only one prepare_run.py gets past mkdir, and nothing reads a manifest   *)
(* before it has written one.                                              *)
Preparation ==
  /\ files["prepare"] = "none" =>
       manifest.status = "absent" /\ \A p \in Tool : Kind[p] = "prepare" => pc[p] = "idle"
  /\ \A p, q \in Tool :
       Kind[p] = "prepare" /\ pc[p] \notin {"idle", "failed"}
         /\ Kind[q] = "prepare" /\ pc[q] \notin {"idle", "failed"} => p = q
  /\ \A p \in Tool : Kind[p] = "prepare" =>
       /\ pc[p] \in {"loaded", "produced"} => manifest.status = "absent"
       /\ pc[p] \in {"loaded", "produced", "writing"} =>
            /\ manifest.status # "whole"
            /\ \A q \in Tool : Kind[q] # "prepare" => pc[q] \in {"idle", "failed"}
       /\ pc[p] \in {"produced", "writing"} => files["prepare"] = "whole"
  /\ manifest.status # "absent" => files["prepare"] = "whole"
  /\ \A p \in Tool : Kind[p] # "prepare" /\ pc[p] \notin {"idle", "failed"} =>
       manifest.status # "absent"

(* A launcher is here when its record may stand without its log.           *)
Logless == {"noted", "crashed before log", "no log"}

(* Each place belongs to one sort of program. *)
Sorts ==
  \A p \in Tool :
    /\ Kind[p] \in Launchers => pc[p] # "loaded"
    /\ pc[p] \in {"noted", "crashed before log", "no log", "running", "reloaded", "rewriting"} =>
         Kind[p] \in Launchers

(* What a manifest names is there, in the file and in every copy of it, or *)
(* is a log that its launcher has yet to open or never will.               *)
Safe(kind) == files[kind] # "none" \/ WithoutLog(kind)
Backed(d) == \A p \in Tool : Key(p) \in d.has => Safe(Kind[p])

FilesAreThere ==
  /\ Backed(manifest.data)
  /\ \A p \in Tool : Backed(local[p])
  /\ \A p \in Tool : pc[p] \in {"produced", "writing"} /\ Kind[p] \notin Launchers =>
       files[Kind[p]] # "none"

(* Without overlap the exchanges exclude each other, so the one that is    *)
(* open holds what is in the file, or has emptied it.                      *)
Exclusion ==
  ~ overlap =>
    /\ \A p, q \in Tool : pc[p] \in Window /\ pc[q] \in Window => p = q
    /\ \A p \in Tool : pc[p] \in {"writing", "rewriting"} => manifest = Torn
    /\ \A p \in Tool : pc[p] = "crashed writing" =>
         manifest = Torn /\ \A q \in Tool : pc[q] \notin Window
    /\ \A p \in Tool : Kind[p] # "prepare" /\ pc[p] \in {"loaded", "produced", "reloaded"} =>
         manifest = Whole(local[p])

(* The record of p is in d. *)
Tells(d, p) ==
  /\ Key(p) \in d.has
  /\ Kind[p] \in Launchers /\ pc[p] = "done" =>
       \/ <<Kind[p], "returncode">> \in d.has
       \/ \E q \in Tool \ {p} : Kind[q] = Kind[p]

(* Without overlap the records of all that wrote one are in the file, or   *)
(* in the copy that is about to be written to it.                          *)
RecordsStay ==
  ~ overlap =>
    \A p \in Tool :
      /\ pc[p] # "keyerror"
      /\ Kind[p] # "prepare" /\ pc[p] \in {"noted", "running", "reloaded", "rewriting", "done"} =>
           /\ manifest.status = "whole" => Tells(manifest.data, p)
           /\ \A w \in Tool : pc[w] \in {"writing", "rewriting"} => Tells(local[w], p)

IInv == TypeOK /\ Preparation /\ Sorts /\ FilesAreThere /\ Exclusion /\ RecordsStay
-----------------------------------------------------------------------------
(* Two programs of different kinds never write the same key.               *)
LEMMA KeyTellsKind ==
  ASSUME NEW p \in Tool, NEW q \in Tool, Key(p) = Key(q)
  PROVE  Kind[p] = Kind[q]
BY ToolAssumption DEF Key

(* Keys and what is built from them are of the right type.                 *)
LEMMA DataTypes ==
  ASSUME NEW p \in Tool, NEW d \in Data
  PROVE  /\ Key(p) \in Keys
         /\ Fresh \in Data
         /\ Noted(p, d) \in Data
         /\ Kind[p] \in Launchers => Ended(p, d) \in Data
<1>1. Key(p) \in Keys
  BY ToolAssumption DEF Key, Keys
<1>2. Fresh \in Data
  BY DEF Fresh, Data
<1>3. Noted(p, d) \in Data
  BY <1>1 DEF Noted, Data
<1>4. ASSUME Kind[p] \in Launchers PROVE Ended(p, d) \in Data
  BY <1>4 DEF Ended, Data, Keys
<1> QED BY <1>1, <1>2, <1>3, <1>4

(* A file that is there stays, and so does the excuse of one that is not.  *)
LEMMA SafeStays ==
  ASSUME NEW p \in Tool, \A q \in Tool : q # p => pc'[q] = pc[q],
         pc[p] \in Logless => pc'[p] \in Logless \/ files'[Kind[p]] # "none",
         \A f \in Kinds : files[f] # "none" => files'[f] # "none"
  PROVE  \A q \in Tool : Safe(Kind[q]) => Safe(Kind[q])'
<1> SUFFICES ASSUME NEW k \in Kinds, Safe(k) PROVE Safe(k)'
  BY ToolAssumption
<1>1. CASE files[k] # "none"
  BY <1>1 DEF Safe
<1>2. CASE WithoutLog(k)
  BY <1>2 DEF Safe, WithoutLog, Logless
<1> QED BY <1>1, <1>2 DEF Safe

LEMMA InitIInv == Init => IInv
<1> SUFFICES ASSUME Init PROVE IInv OBVIOUS
<1> USE ToolAssumption DEF Init, Absent, Fresh
<1>1. TypeOK
  BY DEF TypeOK, Data, Places
<1>2. Preparation
  <2>1. manifest.status = "absent" /\ \A p \in Tool : pc[p] = "idle"
    OBVIOUS
  <2> QED BY <2>1 DEF Preparation
<1>3. Sorts /\ Exclusion /\ RecordsStay
  BY DEF Sorts, Exclusion, RecordsStay, Window, Logless
<1>4. FilesAreThere
  BY DEF FilesAreThere, Backed
<1> QED BY <1>1, <1>2, <1>3, <1>4 DEF IInv
-----------------------------------------------------------------------------
(* An invocation that goes nowhere but out leaves all else as it was.      *)
LEMMA StopIInv ==
  ASSUME IInv, NEW p \in Tool,
         NEW place \in {"failed", "crashed", "keyerror", "crashed writing",
                        "crashed before log", "no log"},
         \/ pc[p] \in Window \union {"running"}
         \/ pc[p] = "noted" /\ place \in Logless
         \/ /\ pc[p] = "idle" /\ place = "failed"
            /\ files["prepare"] # "none" \/ Kind[p] # "prepare",
         pc' = [pc EXCEPT ![p] = place],
         local' = [local EXCEPT ![p] = Fresh] \/ local' = local,
         place = "keyerror" => overlap,
         place = "crashed writing" => pc[p] \in {"writing", "rewriting"},
         place \in Logless => pc[p] = "noted",
         UNCHANGED <<manifest, files, index, overlap>>
  PROVE  IInv'
<1> USE DEF IInv
<1>1. TypeOK'
  <2>1. Fresh \in Data
    BY DEF Fresh, Data
  <2>2. pc' \in [Tool -> Places] /\ local' \in [Tool -> Data]
    BY <2>1 DEF TypeOK, Places, Crashed
  <2>3. /\ manifest' \in [status : {"absent", "torn", "whole"}, data : Data]
        /\ files' \in [Kinds -> {"none", "torn", "whole"}]
        /\ index' \subseteq Tool
    BY DEF TypeOK
  <2>4. overlap' \in BOOLEAN
    BY DEF TypeOK
  <2> QED BY <2>2, <2>3, <2>4, Zenon DEF TypeOK
<1>2. Preparation'
  BY DEF Preparation, TypeOK, Window
<1>3. Sorts'
  BY DEF Sorts, TypeOK, Logless
<1>4. FilesAreThere'
  <2>1. \A q \in Tool : local'[q] \in {local[q], Fresh} /\ (q # p => pc'[q] = pc[q])
    BY DEF TypeOK
  <2>2. Backed(Fresh)'
    BY DEF Backed, Fresh
  <2>3. pc'[p] = place
    BY DEF TypeOK
  <2>4. \A q \in Tool : Safe(Kind[q]) => Safe(Kind[q])'
    <3>1. pc[p] \in Logless => pc'[p] \in Logless
      BY <2>3 DEF Logless, Window
    <3> QED BY <2>1, <3>1, SafeStays
  <2>5. \A q \in Tool : pc'[q] \in {"produced", "writing"} => pc'[q] = pc[q]
    BY <2>1, <2>3
  <2> QED BY <2>1, <2>2, <2>4, <2>5 DEF FilesAreThere, Backed
<1>5. Exclusion'
  <2> SUFFICES ASSUME ~ overlap PROVE Exclusion'
    BY DEF Exclusion
  <2>1. \A q \in Tool : pc'[q] # pc[q] => q = p /\ pc'[q] = place
    BY DEF TypeOK
  <2>2. \A q \in Tool : pc'[q] \in Window => pc[q] = pc'[q] /\ local'[q] = local[q]
    BY <2>1 DEF TypeOK, Window
  <2>3. ASSUME NEW q \in Tool, pc'[q] = "crashed writing"
        PROVE  manifest = Torn /\ \A r \in Tool : pc'[r] \notin Window
    BY <2>1, <2>2, <2>3 DEF Exclusion, Window
  <2> QED BY <2>2, <2>3 DEF Exclusion, Window
<1>6. RecordsStay'
  BY DEF RecordsStay, Tells, TypeOK
<1> QED BY <1>1, <1>2, <1>3, <1>4, <1>5, <1>6

(* The directory is made. *)
LEMMA PrepareIInv == ASSUME IInv, NEW p \in Tool, Prepare(p) PROVE IInv'
<1> USE DEF IInv
<1>1. CASE files["prepare"] # "none"
  BY <1>1, StopIInv DEF Prepare, Goto, Logless
<1>2. CASE files["prepare"] = "none"
  <2> USE <1>2 DEF Goto
  <2>0. "prepare" \in Kinds
    BY DEF Kinds
  <2>1. /\ pc[p] = "idle" /\ Kind[p] = "prepare"
        /\ pc' = [pc EXCEPT ![p] = "loaded"]
        /\ files' = [files EXCEPT !["prepare"] = "torn"]
        /\ UNCHANGED <<manifest, index, local, overlap>>
    BY DEF Prepare
  <2>2. /\ manifest.status = "absent"
        /\ \A q \in Tool : Kind[q] = "prepare" => pc[q] = "idle"
        /\ \A q \in Tool : Kind[q] # "prepare" => pc[q] \in {"idle", "failed"}
    BY DEF Preparation
  <2>3. TypeOK'
    <3>1. pc' \in [Tool -> Places] /\ files' \in [Kinds -> {"none", "torn", "whole"}]
      BY <2>0, <2>1 DEF TypeOK, Places, Window
    <3> QED BY <2>1, <3>1, Zenon DEF TypeOK
  <2>4. /\ \A q \in Tool : q # p => pc'[q] = pc[q]
        /\ pc'[p] = "loaded"
        /\ files'["prepare"] = "torn"
        /\ \A f \in Kinds : files[f] # "none" => files'[f] # "none"
    BY <2>0, <2>1 DEF TypeOK
  <2>5. Preparation'
    BY <2>1, <2>2, <2>4 DEF Preparation
  <2>6. Sorts'
    BY <2>1, <2>4 DEF Sorts, Launchers
  <2>7. FilesAreThere'
    <3>1. \A q \in Tool : Safe(Kind[q]) => Safe(Kind[q])'
      <4>1. pc[p] \notin Logless
        BY <2>1 DEF Logless
      <4> QED BY <2>4, <4>1, SafeStays
    <3>2. \A q \in Tool : Kind[q] \in Kinds
      BY ToolAssumption
    <3> QED BY <2>1, <2>4, <3>1, <3>2 DEF FilesAreThere, Backed
  <2>8. Exclusion'
    BY <2>1, <2>2, <2>4 DEF Exclusion, Window
  <2>9. RecordsStay'
    BY <2>1, <2>2, <2>4 DEF RecordsStay
  <2> QED BY <2>3, <2>5, <2>6, <2>7, <2>8, <2>9
<1> QED BY <1>1, <1>2

(* A program that goes on holds what is in the file, and only it does.     *)
LEMMA LoadIInv == ASSUME IInv, NEW p \in Tool, Load(p) PROVE IInv'
<1> USE DEF IInv
<1>1. CASE ~ (manifest.status = "whole" /\ Admits(Kind[p], manifest.data))
  BY <1>1, StopIInv DEF Load, Readable, Goto, Logless
<1>2. CASE manifest.status = "whole" /\ Admits(Kind[p], manifest.data)
  <2> DEFINE place == IF Kind[p] \in Launchers THEN "produced" ELSE "loaded"
  <2>1. /\ pc[p] = "idle" /\ Kind[p] # "prepare"
        /\ pc' = [pc EXCEPT ![p] = place]
        /\ local' = [local EXCEPT ![p] = manifest.data]
        /\ overlap' = (overlap \/ Open # {})
        /\ UNCHANGED <<manifest, files, index>>
    BY <1>2 DEF Load, Readable, Goto
  <2>2. /\ \A q \in Tool : q # p => pc'[q] = pc[q] /\ local'[q] = local[q]
        /\ pc'[p] = place /\ local'[p] = manifest.data
    BY <2>1 DEF TypeOK
  <2>3. TypeOK'
    <3>1. pc' \in [Tool -> Places] /\ local' \in [Tool -> Data]
      BY <2>1 DEF TypeOK, Places, Window
    <3>2. overlap' \in BOOLEAN
      BY <2>1, Zenon DEF TypeOK
    <3> QED BY <2>1, <3>1, <3>2, Zenon DEF TypeOK
  <2>4. ~ overlap' => ~ overlap /\ \A q \in Tool : pc[q] \notin Window
    BY <2>1 DEF Open
  <2>5. manifest = Whole(manifest.data)
    BY <1>2 DEF TypeOK, Whole
  <2>6. Preparation'
    BY <1>2, <2>1, <2>2 DEF Preparation
  <2>7. Sorts'
    <3>1. place \in {"produced", "loaded"} /\ (place = "loaded" => Kind[p] \notin Launchers)
      OBVIOUS
    <3> HIDE DEF place
    <3> QED BY <2>2, <3>1 DEF Sorts
  <2>8. FilesAreThere'
    <3>1. \A q \in Tool : Safe(Kind[q]) => Safe(Kind[q])'
      <4>1. pc[p] \notin Logless
        BY <2>1 DEF Logless
      <4> QED BY <2>1, <2>2, <4>1, SafeStays
    <3> QED BY <2>1, <2>2, <3>1 DEF FilesAreThere, Backed
  <2>9. Exclusion'
    <3> SUFFICES ASSUME ~ overlap' PROVE Exclusion'
      BY DEF Exclusion
    <3>1. \A q \in Tool : pc'[q] \in Window => q = p /\ pc'[q] \in {"loaded", "produced"}
      BY <2>2, <2>4
    <3>2. \A q \in Tool : pc[q] # "crashed writing"
      <4>1. Torn.status = "torn"
        BY DEF Torn
      <4>2. ~ overlap
        BY <2>4
      <4> QED BY <1>2, <4>1, <4>2 DEF Exclusion
    <3>3. \A q \in Tool : pc'[q] # "crashed writing"
      BY <2>2, <3>2
    <3> QED BY <2>1, <2>2, <2>5, <3>1, <3>3 DEF Exclusion, Window
  <2>10. RecordsStay'
    <3>1. \A q \in Tool : pc'[q] \in {"noted", "running", "reloaded", "rewriting", "done", "keyerror", "writing"} =>
            pc[q] = pc'[q] /\ local'[q] = local[q]
      BY <2>1, <2>2
    <3> QED BY <2>1, <2>4, <3>1 DEF RecordsStay, Tells
  <2> QED BY <2>3, <2>6, <2>7, <2>8, <2>9, <2>10
<1> QED BY <1>1, <1>2

(* The output of p appears, or is left torn by a kill; both keep the rest. *)
LEMMA OutputIInv ==
  ASSUME IInv, NEW p \in Tool, pc[p] = "loaded",
         NEW place \in {"produced", "crashed"},
         pc' = [pc EXCEPT ![p] = place],
         files' = [files EXCEPT ![Kind[p]] = IF place = "produced" THEN "whole" ELSE "torn"],
         local' = local \/ local' = [local EXCEPT ![p] = Fresh],
         index' \subseteq Tool,
         UNCHANGED <<manifest, overlap>>,
         place = "produced" => local' = local
  PROVE  IInv'
<1> USE DEF IInv
<1>1. Kind[p] \in Kinds
  BY ToolAssumption
<1>2. /\ \A q \in Tool : q # p => pc'[q] = pc[q] /\ local'[q] = local[q]
      /\ pc'[p] = place /\ local'[p] \in {local[p], Fresh}
      /\ place = "produced" => local'[p] = local[p]
      /\ files'[Kind[p]] # "none"
      /\ place = "produced" => files'[Kind[p]] = "whole"
      /\ \A f \in Kinds : f # Kind[p] => files'[f] = files[f]
      /\ \A f \in Kinds : files[f] # "none" => files'[f] # "none"
  BY <1>1 DEF TypeOK
<1>3. "prepare" \in Kinds
  BY DEF Kinds
<1>4. TypeOK'
  <2>1. Fresh \in Data
    BY DEF Fresh, Data
  <2>2. pc' \in [Tool -> Places] /\ local' \in [Tool -> Data]
          /\ files' \in [Kinds -> {"none", "torn", "whole"}]
    BY <2>1, <1>1 DEF TypeOK, Places, Window, Crashed
  <2> QED BY <2>2, Zenon DEF TypeOK
<1>5. Preparation'
  <2>1. CASE Kind[p] = "prepare"
    <3>1. manifest.status = "absent" /\ \A q \in Tool : Kind[q] # "prepare" => pc[q] \in {"idle", "failed"}
      BY <2>1 DEF Preparation
    <3>2. \A q \in Tool : Kind[q] = "prepare" /\ q # p => pc[q] \in {"idle", "failed"}
      BY <2>1 DEF Preparation
    <3>3. \A q \in Tool : q # p => pc'[q] \in {"idle", "failed"}
      BY <1>2, <3>1, <3>2
    <3> QED BY <1>2, <2>1, <3>1, <3>2, <3>3 DEF Preparation
  <2>2. CASE Kind[p] # "prepare"
    <3>1. files'["prepare"] = files["prepare"]
      BY <1>2, <1>3, <2>2
    <3> QED BY <1>2, <2>2, <3>1 DEF Preparation
  <2> QED BY <2>1, <2>2
<1>6. Sorts'
  BY <1>2 DEF Sorts
<1>7. FilesAreThere'
  <2>1. Backed(Fresh)'
    BY DEF Backed, Fresh
  <2>2. \A q \in Tool : local'[q] \in {local[q], Fresh} /\ Kind[q] \in Kinds
    BY <1>2, ToolAssumption
  <2>3. \A q \in Tool : Safe(Kind[q]) => Safe(Kind[q])'
    <3>1. pc[p] \notin Logless
      BY DEF Logless
    <3> QED BY <1>2, <3>1, SafeStays
  <2>4. \A q \in Tool : pc'[q] \in {"produced", "writing"} /\ Kind[q] \notin Launchers =>
                         files'[Kind[q]] # "none"
    <3>1. \A q \in Tool : q # p /\ pc[q] \in {"produced", "writing"} /\ Kind[q] \notin Launchers =>
                           files[Kind[q]] # "none"
      BY DEF FilesAreThere
    <3> QED BY <1>2, <2>2, <3>1
  <2> QED BY <1>2, <2>1, <2>2, <2>3, <2>4 DEF FilesAreThere, Backed
<1>8. Exclusion'
  BY <1>2 DEF Exclusion, Window
<1>9. RecordsStay'
  <2>1. \A q \in Tool : pc'[q] \in {"noted", "running", "reloaded", "rewriting", "done", "keyerror", "writing"} =>
          pc[q] = pc'[q] /\ local'[q] = local[q]
    BY <1>2
  <2> QED BY <2>1 DEF RecordsStay, Tells
<1> QED BY <1>4, <1>5, <1>6, <1>7, <1>8, <1>9

(* The manifest is emptied by the one whose exchange is open.              *)
LEMMA TruncateIInv == ASSUME IInv, NEW p \in Tool, Truncate(p) PROVE IInv'
<1> USE DEF IInv
<1> DEFINE place == IF pc[p] = "produced" THEN "writing" ELSE "rewriting"
<1>1. /\ pc[p] \in {"produced", "reloaded"}
      /\ pc' = [pc EXCEPT ![p] = place]
      /\ manifest' = Torn
      /\ UNCHANGED <<files, index, local, overlap>>
  BY DEF Truncate, Goto
<1>2. \A q \in Tool : q # p => pc'[q] = pc[q]
  BY <1>1 DEF TypeOK
<1>3. pc'[p] = place
  BY <1>1 DEF TypeOK
<1>4. manifest'.status = "torn" /\ manifest'.data = Fresh
  BY <1>1 DEF Torn
<1>5. TypeOK'
  <2>1. pc' \in [Tool -> Places]
    BY <1>1 DEF TypeOK, Places, Window
  <2>2. manifest' \in [status : {"absent", "torn", "whole"}, data : Data]
    BY <1>1 DEF Torn, Fresh, Data
  <2> QED BY <1>1, <2>1, <2>2, Zenon DEF TypeOK
<1>6. Preparation'
  <2>1. files["prepare"] = "whole"
    BY <1>1 DEF Preparation, Sorts, Launchers
  <2>2. \A q \in Tool : q # p /\ Kind[q] = "prepare" => pc[q] \notin {"loaded", "produced"}
    BY <1>1 DEF Preparation
  <2> QED BY <1>1, <1>2, <1>3, <1>4, <2>1, <2>2 DEF Preparation
<1>7. Sorts'
  <2>1. place \in {"writing", "rewriting"} /\ (place = "rewriting" => Kind[p] \in Launchers)
    BY <1>1 DEF Sorts
  <2> HIDE DEF place
  <2> QED BY <1>1, <1>2, <1>3, <2>1 DEF Sorts
<1>8. FilesAreThere'
  <2>1. Backed(Fresh)'
    BY DEF Backed, Fresh
  <2>2. \A q \in Tool : Safe(Kind[q]) => Safe(Kind[q])'
    <3>1. pc[p] \notin Logless
      BY <1>1 DEF Logless
    <3> QED BY <1>1, <1>2, <3>1, SafeStays
  <2> QED BY <1>1, <1>2, <1>3, <1>4, <2>1, <2>2 DEF FilesAreThere, Backed
<1>9. Exclusion'
  <2> SUFFICES ASSUME ~ overlap PROVE Exclusion'
    BY <1>1 DEF Exclusion
  <2>1. \A q \in Tool : q # p => pc'[q] \notin Window /\ pc'[q] # "crashed writing"
    BY <1>1, <1>2 DEF Exclusion, Window
  <2>2. pc'[p] \in {"writing", "rewriting"} /\ manifest' = Torn
    BY <1>1, <1>3
  <2>3. \A q \in Tool : pc'[q] \in Window => q = p
    BY <2>1
  <2>4. \A q \in Tool : pc'[q] \notin {"crashed writing", "loaded", "produced", "reloaded"}
    BY <2>1, <2>2 DEF Window
  <2> QED BY <2>2, <2>3, <2>4 DEF Exclusion
<1>10. RecordsStay'
  <2> SUFFICES ASSUME ~ overlap PROVE RecordsStay'
    BY <1>1 DEF RecordsStay
  <2>1. \A q \in Tool : pc'[q] \in {"writing", "rewriting"} => q = p
    BY <1>1, <1>2 DEF Exclusion, Window
  <2>2. ASSUME NEW q \in Tool, Kind[q] # "prepare",
               pc'[q] \in {"noted", "running", "reloaded", "rewriting", "done"}
        PROVE  Tells(local[p], q)'
    <3>1. pc[q] \in {"noted", "running", "reloaded", "rewriting", "done"} /\ (pc[q] = "done" <=> pc'[q] = "done")
      BY <1>1, <1>2, <1>3, <2>2
    <3>2. Kind[p] # "prepare"
      BY <1>1, <2>2, <3>1 DEF Preparation, Sorts, Launchers
    <3>3. manifest = Whole(local[p])
      BY <1>1, <3>2 DEF Exclusion
    <3>4. Tells(local[p], q)
      BY <2>2, <3>1, <3>3 DEF RecordsStay, Whole
    <3> QED BY <1>1, <3>1, <3>4 DEF Tells
  <2>3. \A q \in Tool : pc'[q] # "keyerror"
    BY <1>2, <1>3 DEF RecordsStay
  <2> QED BY <1>4, <2>1, <2>2, <2>3 DEF RecordsStay
<1> QED BY <1>5, <1>6, <1>7, <1>8, <1>9, <1>10

(* A launcher goes on after its subprocess with what is in the file now.   *)
LEMMA ReloadIInv == ASSUME IInv, NEW p \in Tool, Reload(p) PROVE IInv'
<1> USE DEF IInv
<1>1. CASE ~ (manifest.status = "whole" /\ Key(p) \in manifest.data.has)
  <2>1. manifest.status = "whole" => overlap
    BY <1>1 DEF Reload, Reloaded, RecordsStay, Tells, Sorts, Launchers
  <2>2. /\ pc[p] = "running"
        /\ pc' = [pc EXCEPT ![p] = IF manifest.status = "whole" THEN "keyerror" ELSE "failed"]
        /\ local' = [local EXCEPT ![p] = Fresh]
        /\ UNCHANGED <<manifest, files, index, overlap>>
    BY <1>1 DEF Reload, Reloaded, End, Goto
  <2>3. CASE manifest.status = "whole"
    <3>1. pc' = [pc EXCEPT ![p] = "keyerror"] /\ overlap
      BY <2>1, <2>2, <2>3
    <3> QED BY <2>2, <3>1, StopIInv DEF Logless
  <2>4. CASE manifest.status # "whole"
    <3>1. pc' = [pc EXCEPT ![p] = "failed"]
      BY <2>2, <2>4
    <3> QED BY <2>2, <3>1, StopIInv DEF Logless
  <2> QED BY <2>3, <2>4
<1>2. CASE manifest.status = "whole" /\ Key(p) \in manifest.data.has
  <2>1. /\ pc[p] = "running" /\ Kind[p] \in Launchers
        /\ pc' = [pc EXCEPT ![p] = "reloaded"]
        /\ local' = [local EXCEPT ![p] = manifest.data]
        /\ overlap' = (overlap \/ Open # {})
        /\ UNCHANGED <<manifest, files, index>>
    BY <1>2 DEF Reload, Reloaded, Goto, Sorts
  <2>2. /\ \A q \in Tool : q # p => pc'[q] = pc[q] /\ local'[q] = local[q]
        /\ pc'[p] = "reloaded" /\ local'[p] = manifest.data
    BY <2>1 DEF TypeOK
  <2>3. TypeOK'
    <3>1. pc' \in [Tool -> Places] /\ local' \in [Tool -> Data]
      BY <2>1 DEF TypeOK, Places, Window
    <3>2. overlap' \in BOOLEAN
      BY <2>1, Zenon DEF TypeOK
    <3> QED BY <2>1, <3>1, <3>2, Zenon DEF TypeOK
  <2>4. ~ overlap' => ~ overlap /\ \A q \in Tool : pc[q] \notin Window
    BY <2>1 DEF Open
  <2>5. manifest = Whole(manifest.data)
    BY <1>2 DEF TypeOK, Whole
  <2>6. Preparation'
    BY <2>1, <2>2 DEF Preparation
  <2>7. Sorts'
    BY <2>1, <2>2 DEF Sorts
  <2>8. FilesAreThere'
    <3>1. \A q \in Tool : Safe(Kind[q]) => Safe(Kind[q])'
      <4>1. pc[p] \notin Logless
        BY <2>1 DEF Logless
      <4> QED BY <2>1, <2>2, <4>1, SafeStays
    <3> QED BY <2>1, <2>2, <3>1 DEF FilesAreThere, Backed
  <2>9. Exclusion'
    <3> SUFFICES ASSUME ~ overlap' PROVE Exclusion'
      BY DEF Exclusion
    <3>1. \A q \in Tool : pc'[q] \in Window => q = p
      BY <2>2, <2>4
    <3>2. \A q \in Tool : pc[q] # "crashed writing"
      <4>1. Torn.status = "torn"
        BY DEF Torn
      <4>2. ~ overlap
        BY <2>4
      <4> QED BY <1>2, <4>1, <4>2 DEF Exclusion
    <3>3. \A q \in Tool : pc'[q] # "crashed writing"
      BY <2>2, <3>2
    <3> QED BY <2>1, <2>2, <2>5, <3>1, <3>3 DEF Exclusion, Window
  <2>10. RecordsStay'
    <3>1. \A q \in Tool : pc'[q] \in {"writing", "rewriting", "done", "keyerror"} =>
            pc[q] = pc'[q] /\ local'[q] = local[q]
      BY <2>1, <2>2
    <3>2. \A q \in Tool : pc'[q] \in {"noted", "running", "reloaded", "rewriting", "done"} =>
            pc[q] \in {"noted", "running", "reloaded", "rewriting", "done"} /\ (pc[q] = "done" <=> pc'[q] = "done")
      BY <2>1, <2>2
    <3> QED BY <2>1, <2>4, <3>1, <3>2 DEF RecordsStay, Tells
  <2> QED BY <2>3, <2>6, <2>7, <2>8, <2>9, <2>10
<1> QED BY <1>1, <1>2

(* The log that the manifest names appears, or its record stays alone.     *)
LEMMA OpenLogIInv == ASSUME IInv, NEW p \in Tool, OpenLog(p) PROVE IInv'
<1> USE DEF IInv
<1>1. pc[p] = "noted" /\ Kind[p] \in Launchers /\ Kind[p] # "prepare" /\ Kind[p] \in Kinds
  BY ToolAssumption DEF OpenLog, Sorts, Launchers
<1>2. CASE End(p, "no log") /\ UNCHANGED files
  BY <1>1, <1>2, StopIInv DEF OpenLog, End, Goto, Logless
<1>3. CASE /\ files' = [files EXCEPT ![Kind[p]] = "whole"]
           /\ (Goto(p, "running") /\ UNCHANGED local) \/ Fail(p)
  <2>1. PICK place \in {"running", "failed"} :
          /\ pc' = [pc EXCEPT ![p] = place]
          /\ local' \in {local, [local EXCEPT ![p] = Fresh]}
          /\ UNCHANGED <<manifest, index, overlap>>
    BY <1>3 DEF OpenLog, Fail, End, Goto
  <2>2. /\ \A q \in Tool : q # p => pc'[q] = pc[q] /\ local'[q] = local[q]
        /\ pc'[p] = place /\ local'[p] \in {local[p], Fresh}
        /\ files'[Kind[p]] = "whole"
        /\ \A f \in Kinds : f # Kind[p] => files'[f] = files[f]
        /\ \A f \in Kinds : files[f] # "none" => files'[f] # "none"
    BY <1>1, <1>3, <2>1 DEF TypeOK
  <2>3. files'["prepare"] = files["prepare"]
    BY <1>1, <2>2 DEF Kinds
  <2>4. TypeOK'
    <3>1. Fresh \in Data
      BY DEF Fresh, Data
    <3>2. /\ pc' \in [Tool -> Places] /\ local' \in [Tool -> Data]
          /\ files' \in [Kinds -> {"none", "torn", "whole"}]
      BY <1>1, <1>3, <2>1, <3>1 DEF TypeOK, Places
    <3> QED BY <2>1, <3>2, Zenon DEF TypeOK
  <2>5. Preparation'
    BY <1>1, <2>1, <2>2, <2>3 DEF Preparation
  <2>6. Sorts'
    BY <1>1, <2>2 DEF Sorts
  <2>7. FilesAreThere'
    <3>1. Backed(Fresh)'
      BY DEF Backed, Fresh
    <3>2. \A q \in Tool : Safe(Kind[q]) => Safe(Kind[q])'
      BY <2>2, SafeStays
    <3>3. \A q \in Tool : local'[q] \in {local[q], Fresh} /\ Kind[q] \in Kinds
      BY <2>2, ToolAssumption
    <3> QED BY <1>1, <2>1, <2>2, <3>1, <3>2, <3>3 DEF FilesAreThere, Backed
  <2>8. Exclusion'
    BY <1>1, <2>1, <2>2 DEF Exclusion, Window
  <2>9. RecordsStay'
    <3>1. \A q \in Tool : pc'[q] \in {"writing", "rewriting", "done", "keyerror"} =>
            pc[q] = pc'[q] /\ local'[q] = local[q]
      BY <2>2
    <3>2. \A q \in Tool : pc'[q] \in {"noted", "running", "reloaded", "rewriting", "done"} =>
            /\ pc[q] \in {"noted", "running", "reloaded", "rewriting", "done"}
            /\ pc[q] = "done" <=> pc'[q] = "done"
      BY <1>1, <2>2
    <3> QED BY <2>1, <3>1, <3>2 DEF RecordsStay, Tells
  <2> QED BY <2>4, <2>5, <2>6, <2>7, <2>8, <2>9
<1> QED BY <1>2, <1>3 DEF OpenLog

(* The output of a program appears, or the program ends without it.        *)
LEMMA ProduceIInv == ASSUME IInv, NEW p \in Tool, Produce(p) PROVE IInv'
<1>1. CASE pc' = [pc EXCEPT ![p] = "produced"]
  <2>1. CASE UNCHANGED local
    <3>1. /\ files' = [files EXCEPT ![Kind[p]] = "whole"]
          /\ index' = IF Kind[p] = "collect" THEN {p} ELSE index
      BY <1>1, <2>1 DEF Produce, Fail, End, Goto, IInv, TypeOK
    <3>2. index' \subseteq Tool
      BY <3>1 DEF IInv, TypeOK
    <3>3. pc[p] = "loaded" /\ UNCHANGED <<manifest, overlap>>
      BY DEF Produce, Fail
    <3> QED BY <1>1, <2>1, <3>1, <3>2, <3>3, OutputIInv
  <2>2. CASE ~ UNCHANGED local
    <3>1. pc' = [pc EXCEPT ![p] = "failed"] /\ pc[p] = "loaded"
      BY <2>2 DEF Produce, Fail, End, Goto
    <3> QED BY <1>1, <3>1 DEF IInv, TypeOK
  <2> QED BY <2>1, <2>2
<1>2. CASE pc' # [pc EXCEPT ![p] = "produced"]
  BY <1>2, StopIInv DEF Produce, Fail, End, Goto, Window, Logless
<1> QED BY <1>1, <1>2

(* A kill takes the invocation and at most tears the output it was making. *)
LEMMA CrashIInv == ASSUME IInv, NEW p \in Tool, Crash(p) PROVE IInv'
<1> DEFINE place == CASE pc[p] \in {"writing", "rewriting"} -> "crashed writing"
                      [] pc[p] = "noted" -> "crashed before log"
                      [] OTHER -> "crashed"
<1>1. /\ pc[p] \in Window \union {"noted", "running"}
      /\ pc' = [pc EXCEPT ![p] = place]
      /\ local' = [local EXCEPT ![p] = Fresh]
      /\ UNCHANGED <<manifest, overlap>>
  BY DEF Crash, End, Goto
<1>2. CASE UNCHANGED <<files, index>>
  <2>1. /\ place = "crashed writing" => pc[p] \in {"writing", "rewriting"}
        /\ place = "crashed before log" <=> pc[p] = "noted"
    OBVIOUS
  <2>2. place \in {"crashed", "crashed writing", "crashed before log"} /\ place # "keyerror"
    OBVIOUS
  <2>3. (place \in Logless <=> pc[p] = "noted") /\ (pc[p] = "noted" => pc[p] \notin Window)
    BY <2>1, <2>2 DEF Logless, Window
  <2> HIDE DEF place
  <2> QED BY <1>1, <1>2, <2>1, <2>2, <2>3, StopIInv
<1>3. CASE ~ UNCHANGED <<files, index>>
  <2>1. /\ pc[p] = "loaded" /\ files' = [files EXCEPT ![Kind[p]] = "torn"]
        /\ index' = IF Kind[p] = "collect" THEN {} ELSE index
    BY <1>3 DEF Crash
  <2>2. pc' = [pc EXCEPT ![p] = "crashed"]
    BY <1>1, <2>1
  <2>3. index' \subseteq Tool
    BY <2>1 DEF IInv, TypeOK
  <2> QED BY <1>1, <2>1, <2>2, <2>3, OutputIInv
<1> QED BY <1>2, <1>3

(* The one that emptied the manifest writes what it held and its record.   *)
LEMMA WriteIInv == ASSUME IInv, NEW p \in Tool, Write(p) PROVE IInv'
<1> USE DEF IInv
<1> DEFINE place == IF pc[p] = "writing" /\ Kind[p] \in Launchers THEN "noted" ELSE "done"
           d == IF pc[p] = "writing" THEN Noted(p, local[p]) ELSE Ended(p, local[p])
<1>1. /\ pc[p] \in {"writing", "rewriting"}
      /\ pc' = [pc EXCEPT ![p] = place]
      /\ Put(d)
      /\ local' \in {local, [local EXCEPT ![p] = Fresh]}
      /\ UNCHANGED <<files, index, overlap>>
  <2>1. CASE pc[p] = "writing"
    BY <2>1 DEF Write, End, Goto
  <2>2. CASE pc[p] # "writing"
    BY <2>2 DEF Write, End, Goto
  <2> QED BY <2>1, <2>2
<1>2. pc[p] = "rewriting" => Kind[p] \in Launchers
  BY DEF Sorts
<1>3. d \in Data
  BY <1>1, <1>2, DataTypes DEF TypeOK
<1>4. manifest' \in {Whole(d), Torn}
  BY <1>1 DEF Put
<1>5. ~ overlap => manifest' = Whole(d)
  <2>1. Torn.status = "torn"
    BY DEF Torn
  <2> QED BY <1>1, <2>1 DEF Put, Exclusion
<1>6. /\ \A q \in Tool : q # p => pc'[q] = pc[q]
      /\ \A q \in Tool : local'[q] \in {local[q], Fresh}
      /\ pc'[p] = place
  BY <1>1 DEF TypeOK
<1>7. place \in {"noted", "done"} /\ (place = "noted" => Kind[p] \in Launchers)
  OBVIOUS
<1>8. Whole(d).status = "whole" /\ Whole(d).data = d /\ Torn.status = "torn" /\ Torn.data = Fresh
  BY DEF Whole, Torn
<1>9. TypeOK'
  <2>1. Fresh \in Data
    BY DEF Fresh, Data
  <2>2. manifest' \in [status : {"absent", "torn", "whole"}, data : Data]
    BY <1>3, <1>4, <2>1 DEF Whole, Torn
  <2>3. pc' \in [Tool -> Places] /\ local' \in [Tool -> Data]
    BY <1>1, <1>7, <2>1 DEF TypeOK, Places
  <2> QED BY <1>1, <2>2, <2>3, Zenon DEF TypeOK
<1>10. Preparation'
  <2> HIDE DEF place, d
  <2>1. files["prepare"] = "whole"
    BY <1>1, <1>2 DEF Preparation, Launchers
  <2>2. manifest'.status # "absent"
    BY <1>4, <1>8
  <2>3. \A q \in Tool : Kind[q] = "prepare" => pc'[q] \notin {"loaded", "produced", "writing"}
    BY <1>1, <1>6, <1>7 DEF Preparation
  <2>4. \A q \in Tool : pc'[q] \notin {"idle", "failed"} => pc[q] \notin {"idle", "failed"}
    BY <1>1, <1>6
  <2> QED BY <1>1, <2>1, <2>2, <2>3, <2>4 DEF Preparation
<1>11. Sorts'
  BY <1>6, <1>7 DEF Sorts
<1>12. FilesAreThere'
  <2>1. Backed(Fresh) /\ Backed(local[p])
    BY DEF FilesAreThere, Backed, Fresh
  <2>2. \A q \in Tool : Key(q) \in d.has => Key(q) \in local[p].has \/ (pc[p] = "writing" /\ Key(q) = Key(p))
    BY DEF Noted, Ended, Key
  <2>3. \A q \in Tool : Safe(Kind[q]) => Safe(Kind[q])'
    <3>1. pc[p] \notin Logless
      BY <1>1 DEF Logless
    <3> QED BY <1>1, <1>6, <3>1, SafeStays
  <2>4. pc[p] = "writing" => Safe(Kind[p])'
    <3>1. ASSUME pc[p] = "writing", Kind[p] \in Launchers PROVE WithoutLog(Kind[p])'
      BY <1>6, <3>1 DEF WithoutLog
    <3>2. ASSUME pc[p] = "writing", Kind[p] \notin Launchers PROVE files'[Kind[p]] # "none"
      BY <1>1, <3>2 DEF FilesAreThere
    <3> QED BY <3>1, <3>2 DEF Safe
  <2>5. ASSUME NEW q \in Tool, Key(q) \in d.has PROVE Safe(Kind[q])'
    <3>1. CASE Key(q) \in local[p].has
      BY <2>1, <2>3, <3>1 DEF Backed
    <3>2. CASE pc[p] = "writing" /\ Key(q) = Key(p)
      BY <2>4, <3>2, KeyTellsKind
    <3> QED BY <2>2, <2>5, <3>1, <3>2
  <2> HIDE DEF place, d
  <2>6. Backed(manifest.data)'
    BY <1>4, <1>8, <2>5 DEF Backed, Fresh
  <2>7. \A q \in Tool : Backed(local[q])'
    BY <1>6, <2>1, <2>3 DEF FilesAreThere, Backed
  <2> QED BY <1>1, <1>6, <1>7, <2>6, <2>7 DEF FilesAreThere
<1>13. ASSUME ~ overlap
       PROVE  \A q \in Tool : q # p => pc[q] \notin Window /\ pc[q] # "crashed writing"
  BY <1>1, <1>13 DEF Exclusion, Window
<1>14. Exclusion'
  <2> SUFFICES ASSUME ~ overlap PROVE Exclusion'
    BY <1>1 DEF Exclusion
  <2> HIDE DEF place, d
  <2>1. \A q \in Tool : pc'[q] \notin Window /\ pc'[q] # "crashed writing"
    BY <1>6, <1>7, <1>13 DEF Window
  <2> QED BY <2>1 DEF Exclusion, Window
<1>15. RecordsStay'
  <2> SUFFICES ASSUME ~ overlap PROVE RecordsStay'
    BY <1>1 DEF RecordsStay
  <2>1. \A q \in Tool : pc'[q] \notin {"writing", "rewriting", "keyerror"}
    BY <1>6, <1>7, <1>13 DEF RecordsStay, Window
  <2>2. ASSUME NEW q \in Tool, Kind[q] # "prepare",
               pc'[q] \in {"noted", "running", "reloaded", "rewriting", "done"}
        PROVE  /\ Key(q) \in d.has
               /\ Kind[q] \in Launchers /\ pc'[q] = "done" =>
                    \/ <<Kind[q], "returncode">> \in d.has
                    \/ \E r \in Tool \ {q} : Kind[r] = Kind[q]
    <3>1. Key(q) \in {<<k, "key">> : k \in Tool \union {Kind[q]}}
      BY DEF Key
    <3>2. CASE q = p
      <4>1. CASE pc[p] = "writing"
        BY <1>6, <2>2, <3>2, <4>1 DEF Noted
      <4>2. CASE pc[p] # "writing"
        <5>1. pc[p] = "rewriting"
          BY <1>1, <4>2
        <5>2. Key(p) \in local[p].has
          BY <2>2, <3>2, <5>1 DEF RecordsStay, Tells
        <5> QED BY <3>2, <4>2, <5>2 DEF Tells, Ended
      <4> QED BY <4>1, <4>2
    <3>3. CASE q # p
      <4>1. Tells(local[p], q) /\ pc'[q] = pc[q]
        BY <1>1, <1>6, <2>2, <3>3 DEF RecordsStay
      <4>2. Kind[p] # "prepare"
        BY <1>1, <1>6, <2>2, <3>3 DEF Preparation, Sorts, Launchers
      <4>3. Key(q) # <<Kind[p], "returncode">>
        BY <3>1
      <4>4. Key(q) \in d.has
        BY <4>1, <4>2, <4>3 DEF Tells, Noted, Ended
      <4>5. Kind[q] # Kind[p] /\ <<Kind[q], "returncode">> \in local[p].has =>
              <<Kind[q], "returncode">> \in d.has
        BY <4>2 DEF Noted, Ended
      <4> HIDE DEF place, d
      <4> QED BY <3>3, <4>1, <4>4, <4>5 DEF Tells
    <3> QED BY <3>2, <3>3
  <2> HIDE DEF place, d
  <2>3. manifest'.data = d
    BY <1>5, <1>8
  <2> QED BY <2>1, <2>2, <2>3 DEF RecordsStay, Tells
<1> QED BY <1>9, <1>10, <1>11, <1>12, <1>14, <1>15

LEMMA StepIInv == IInv /\ [Next]_vars => IInv'
<1> SUFFICES ASSUME IInv, [Next]_vars PROVE IInv' OBVIOUS
<1>1. ASSUME NEW p \in Tool, Step(p) \/ Crash(p) PROVE IInv'
  BY <1>1, PrepareIInv, LoadIInv, ProduceIInv, TruncateIInv, WriteIInv, OpenLogIInv, ReloadIInv,
     CrashIInv DEF Step
<1>2. CASE UNCHANGED vars
  <2>1. TypeOK'
    BY <1>2, Zenon DEF vars, IInv, TypeOK
  <2>2. Preparation' /\ Sorts'
    BY <1>2 DEF vars, IInv, Preparation, Sorts
  <2>3. FilesAreThere'
    <3>1. UNCHANGED <<manifest, files, pc, local>>
      BY <1>2 DEF vars
    <3>2. \A q \in Tool : Safe(Kind[q]) => Safe(Kind[q])'
      BY <3>1 DEF Safe, WithoutLog
    <3> QED BY <3>1, <3>2 DEF IInv, FilesAreThere, Backed
  <2>4. Exclusion' /\ RecordsStay'
    BY <1>2 DEF vars, IInv, Exclusion, RecordsStay, Tells
  <2> QED BY <2>1, <2>2, <2>3, <2>4 DEF IInv
<1> QED BY <1>1, <1>2 DEF Next
-----------------------------------------------------------------------------
(* IInv holds in every reachable state. *)
THEOREM Invariance == Spec => []IInv
BY InitIInv, StepIInv, PTL DEF Spec

(* The variables keep their types, for any set of invocations.             *)
THEOREM TypeCorrect == Spec => []TypeOK
<1>1. IInv => TypeOK
  BY DEF IInv
<1> QED BY <1>1, Invariance, PTL

(* A record in a manifest.json that can be read never names an output that *)
(* was not made, however the programs overlap and whichever are killed;    *)
(* save the log of a launcher that recorded it and has not opened it yet,  *)
(* was killed at that point, or could not open it.                         *)
THEOREM RecordsAreBacked == Spec => []RecordsHaveFiles
<1>1. IInv => RecordsHaveFiles
  BY DEF IInv, FilesAreThere, Backed, Safe, Preparation, RecordsHaveFiles
<1> QED BY <1>1, Invariance, PTL

(* Programs that do not overlap lose no record, not even those that run    *)
(* while the emulator or Ghidra does.                                      *)
THEOREM NothingIsLost == Spec => []SerialRunsLoseNothing
<1>1. IInv => SerialRunsLoseNothing
  BY DEF IInv, RecordsStay, Tells, SerialRunsLoseNothing
<1> QED BY <1>1, Invariance, PTL

(* A manifest.json torn by a kill stays as it is: no program writes over it. *)
THEOREM TornStays == Spec => []TornIsRefused
<1>1. IInv => TornIsRefused
  BY DEF IInv, Exclusion, TornIsRefused
<1> QED BY <1>1, Invariance, PTL
-----------------------------------------------------------------------------
(* What the file says, or will say once the one who emptied it has written.*)
InForce ==
  {local[w] : w \in {v \in Tool : pc[v] \in {"writing", "rewriting"}}}
    \union {d \in {manifest.data} : manifest.status = "whole"}

Started == {"noted", "running", "reloaded", "rewriting", "done"}
Runs == {"noted", "running"}
Hanging == Runs \union {"reloaded", "rewriting", "failed", "no log",
                        "crashed", "crashed writing", "crashed before log"}
Emulator(e) == Kind[e] = "emulator"

(* The state goes on from prepared with the first emulator, back to it     *)
(* never, and follows the emulator that runs.                              *)
StateFollows(d) ==
  /\ d.state = "prepared" => \A e \in Tool : Emulator(e) => pc[e] \notin Started
  /\ d.state = "emulator_started" => \E e \in Tool : Emulator(e) /\ pc[e] \in Hanging
  /\ OneEmulator => \A e \in Tool : Emulator(e) /\ pc[e] \in Runs => d.state = "emulator_started"

StateInv ==
  /\ \A p \in Tool : Kind[p] = "prepare" => local[p].state = "prepared"
  /\ \A p \in Tool : Kind[p] = "profile" /\ pc[p] \in {"loaded", "produced"} =>
       local[p].state = "prepared"
  /\ ~ overlap => \A d \in InForce : StateFollows(d)

(* Steps that bring no new contents into force, and no emulator into play. *)
LEMMA StateKept ==
  ASSUME IInv, StateInv, overlap => overlap',
         ~ overlap' => InForce' \subseteq InForce,
         \A e \in Tool : /\ pc'[e] \in Started => pc[e] \in Started
                         /\ pc'[e] \in Runs => pc[e] \in Runs
                         /\ pc[e] \in Hanging => pc'[e] \in Hanging \/ overlap'
  PROVE  ~ overlap' => \A d \in InForce' : StateFollows(d)'
<1> SUFFICES ASSUME ~ overlap', NEW d \in InForce' PROVE StateFollows(d)'
  OBVIOUS
<1>1. StateFollows(d)
  BY DEF StateInv
<1>2. d.state = "prepared" => \A e \in Tool : Emulator(e) => pc'[e] \notin Started
  BY <1>1 DEF StateFollows
<1>3. d.state = "emulator_started" => \E e \in Tool : Emulator(e) /\ pc'[e] \in Hanging
  BY <1>1 DEF StateFollows
<1>4. OneEmulator => \A e \in Tool : Emulator(e) /\ pc'[e] \in Runs => d.state = "emulator_started"
  BY <1>1 DEF StateFollows
<1> QED BY <1>2, <1>3, <1>4 DEF StateFollows, OneEmulator, Emulator

(* Every step of a program but the writing itself is of that sort.         *)
LEMMA QuietStep ==
  ASSUME IInv, StateInv, NEW p \in Tool,
         Prepare(p) \/ Load(p) \/ Produce(p) \/ OpenLog(p) \/ Reload(p) \/ Crash(p)
  PROVE  StateInv'
<1>1. TypeOK
  BY DEF IInv
<1>2. /\ \A q \in Tool : q # p => pc'[q] = pc[q] /\ local'[q] = local[q]
      /\ manifest' = manifest /\ (overlap => overlap')
  BY <1>1 DEF TypeOK, Prepare, Load, Produce, Fail, OpenLog, Reload, Crash, End, Goto
<1>3. pc'[p] \notin {"writing", "rewriting"} /\ pc[p] # "done" /\ pc'[p] # "done"
  BY <1>1 DEF TypeOK, Prepare, Load, Produce, Fail, OpenLog, Reload, Crash, End, Goto, Window
<1>4. InForce' \subseteq InForce
  BY <1>2, <1>3 DEF InForce
<1>5. /\ pc'[p] \in Started => pc[p] \in Started
      /\ pc'[p] \in Runs => pc[p] \in Runs
      /\ pc[p] \in Hanging => pc'[p] \in Hanging \/ overlap'
  <2>1. CASE Prepare(p) \/ Load(p) \/ Produce(p)
    BY <1>1, <2>1 DEF TypeOK, Prepare, Load, Produce, Fail, End, Goto, Started, Hanging, Runs
  <2>2. CASE Crash(p) \/ OpenLog(p)
    BY <1>1, <2>2 DEF TypeOK, OpenLog, Fail, Crash, End, Goto, Started, Hanging, Runs
  <2>3. CASE Reload(p)
    <3>1. pc[p] = "running" /\ pc'[p] \in {"reloaded", "keyerror", "failed"}
      BY <1>1, <2>3 DEF TypeOK, Reload, End, Goto
    <3>2. CASE pc'[p] # "keyerror"
      BY <3>1, <3>2 DEF Started, Hanging, Runs
    <3>3. CASE pc'[p] = "keyerror"
      <4>1. IInv'
        BY <2>3, ReloadIInv
      <4> QED BY <3>1, <3>3, <4>1 DEF IInv, RecordsStay, Started, Runs
    <3> QED BY <3>2, <3>3
  <2> QED BY <2>1, <2>2, <2>3
<1>6. ~ overlap' => \A d \in InForce' : StateFollows(d)'
  BY <1>2, <1>4, <1>5, StateKept
<1>7. ASSUME Kind[p] = "prepare" PROVE local'[p].state = "prepared"
  <2>1. local'[p] \in {local[p], Fresh}
    BY <1>1, <1>7 DEF IInv, TypeOK, Sorts, Launchers, Prepare, Load, Produce, Fail, OpenLog, Reload, Crash, End
  <2> QED BY <1>7, <2>1 DEF StateInv, Fresh
<1>8. ASSUME Kind[p] = "profile", pc'[p] \in {"loaded", "produced"} PROVE local'[p].state = "prepared"
  <2>1. CASE Load(p)
    BY <1>1, <1>8, <2>1 DEF TypeOK, Load, Admits, Unreviewed, Goto
  <2>2. CASE Produce(p)
    <3>1. pc[p] = "loaded" /\ local'[p] \in {local[p], Fresh}
      BY <1>1, <2>2 DEF TypeOK, Produce, Fail, End
    <3> QED BY <1>8, <3>1 DEF StateInv, Fresh
  <2>3. CASE Prepare(p) \/ OpenLog(p) \/ Reload(p) \/ Crash(p)
    BY <1>1, <1>8, <2>3 DEF TypeOK, Prepare, OpenLog, Fail, Reload, Crash, End, Goto
  <2> QED BY <2>1, <2>2, <2>3
<1> QED BY <1>2, <1>6, <1>7, <1>8 DEF StateInv

(* Emptying the file: what comes into force is what was in it, or the      *)
(* first manifest of all.                                                  *)
LEMMA TruncateStep ==
  ASSUME IInv, StateInv, NEW p \in Tool, Truncate(p)
  PROVE  StateInv'
<1>1. TypeOK
  BY DEF IInv
<1>2. /\ pc[p] \in {"produced", "reloaded"} /\ pc'[p] \in {"writing", "rewriting"}
      /\ pc[p] = "produced" => pc'[p] = "writing"
      /\ pc[p] = "reloaded" => pc'[p] = "rewriting"
      /\ \A q \in Tool : q # p => pc'[q] = pc[q]
      /\ manifest' = Torn /\ UNCHANGED <<local, overlap>>
  BY <1>1 DEF TypeOK, Truncate, Goto
<1>3. ~ overlap' => \A d \in InForce' : StateFollows(d)'
  <2> SUFFICES ASSUME ~ overlap PROVE \A d \in InForce' : StateFollows(d)'
    BY <1>2
  <2>1. CASE Kind[p] # "prepare"
    <3>1. manifest = Whole(local[p])
      BY <1>2, <2>1 DEF IInv, Exclusion
    <3>2. local[p] \in InForce
      BY <3>1 DEF InForce, Whole
    <3>3. InForce' \subseteq InForce
      BY <1>2, <3>2 DEF InForce, Torn
    <3>4. \A e \in Tool : /\ pc'[e] \in Started => pc[e] \in Started
                          /\ pc'[e] \in Runs => pc[e] \in Runs
                          /\ pc[e] \in Hanging => pc'[e] \in Hanging
      BY <1>2 DEF Started, Hanging, Runs
    <3> QED BY <1>2, <3>3, <3>4, StateKept
  <2>2. CASE Kind[p] = "prepare"
    <3>1. pc[p] = "produced"
      BY <1>2, <2>2 DEF IInv, Sorts, Launchers
    <3>2. \A q \in Tool : Kind[q] # "prepare" => pc[q] \in {"idle", "failed"}
      BY <2>2, <3>1 DEF IInv, Preparation
    <3>3. \A w \in Tool : pc'[w] \in {"writing", "rewriting"} => local[w].state = "prepared"
      BY <1>2, <2>2, <3>2 DEF StateInv
    <3>4. \A d \in InForce' : d.state = "prepared"
      BY <1>2, <3>3 DEF InForce, Torn
    <3>5. \A e \in Tool : Emulator(e) => pc'[e] \in {"idle", "failed"}
      BY <1>2, <2>2, <3>2 DEF Emulator
    <3> QED BY <3>4, <3>5 DEF StateFollows, Started, Emulator, Runs
  <2> QED BY <2>1, <2>2
<1> QED BY <1>2, <1>3 DEF StateInv

(* Writing: the state is the writer's, or goes on as it was.               *)
LEMMA WriteStep ==
  ASSUME IInv, StateInv, NEW p \in Tool, Write(p)
  PROVE  StateInv'
<1>1. TypeOK
  BY DEF IInv
<1> DEFINE d == IF pc[p] = "writing" THEN Noted(p, local[p]) ELSE Ended(p, local[p])
<1>2. /\ pc[p] \in {"writing", "rewriting"} /\ Put(d) /\ overlap' = overlap
      /\ pc'[p] = IF pc[p] = "writing" /\ Kind[p] \in Launchers THEN "noted" ELSE "done"
      /\ \A q \in Tool : q # p => pc'[q] = pc[q] /\ local'[q] = local[q]
      /\ local'[p] \in {local[p], Fresh}
  BY <1>1 DEF TypeOK, Write, End, Goto
<1>3. d.state = IF Kind[p] = "emulator"
                  THEN IF pc[p] = "writing" THEN "emulator_started" ELSE "emulator_exited"
                  ELSE local[p].state
  BY DEF Noted, Ended
<1>4. pc[p] = "rewriting" => Kind[p] \in Launchers
  BY DEF IInv, Sorts
<1> HIDE DEF d
<1>5. ~ overlap' => \A c \in InForce' : StateFollows(c)'
  <2> SUFFICES ASSUME ~ overlap, NEW c \in InForce' PROVE StateFollows(c)'
    BY <1>2
  <2>1. /\ \A q \in Tool : q # p => pc[q] \notin {"writing", "rewriting"}
        /\ manifest = Torn
    BY <1>2 DEF IInv, Exclusion, Window
  <2>2. manifest' = Whole(d)
    BY <1>2, <2>1 DEF Put, Torn
  <2>3. c = d
    BY <1>2, <2>1, <2>2 DEF InForce, Whole
  <2>4. StateFollows(local[p])
    BY <1>2 DEF StateInv, InForce
  <2>5. CASE Kind[p] = "emulator" /\ pc[p] = "writing"
    <3>1. pc'[p] = "noted" /\ d.state = "emulator_started"
      BY <1>2, <1>3, <2>5 DEF Launchers
    <3> QED BY <2>3, <2>5, <3>1 DEF StateFollows, Emulator, Hanging, Runs
  <2>6. CASE Kind[p] = "emulator" /\ pc[p] = "rewriting"
    <3>1. pc'[p] = "done" /\ d.state = "emulator_exited"
      BY <1>2, <1>3, <2>6
    <3>2. OneEmulator => \A e \in Tool : Emulator(e) => pc'[e] \notin Runs
      BY <2>6, <3>1 DEF OneEmulator, Emulator, Runs
    <3> QED BY <2>3, <3>1, <3>2 DEF StateFollows, OneEmulator
  <2>7. CASE Kind[p] # "emulator"
    <3>1. d.state = local[p].state /\ \A e \in Tool : Emulator(e) => pc'[e] = pc[e]
      BY <1>2, <1>3, <2>7 DEF Emulator
    <3> QED BY <2>3, <2>4, <3>1 DEF StateFollows, OneEmulator, Emulator
  <2> QED BY <1>2, <2>5, <2>6, <2>7
<1> QED BY <1>2, <1>5 DEF StateInv, Fresh

(* Both invariants together are kept by every step.                        *)
LEMMA StateStep == IInv /\ StateInv /\ [Next]_vars => StateInv'
<1> SUFFICES ASSUME IInv, StateInv, [Next]_vars PROVE StateInv' OBVIOUS
<1>1. ASSUME NEW p \in Tool, Step(p) \/ Crash(p) PROVE StateInv'
  BY <1>1, QuietStep, TruncateStep, WriteStep DEF Step
<1>2. CASE UNCHANGED vars
  BY <1>2 DEF vars, StateInv, InForce, StateFollows, OneEmulator, Emulator
<1> QED BY <1>1, <1>2 DEF Next

THEOREM StateInvariance == Spec => []StateInv
<1>1. Init => StateInv
  BY DEF Init, Absent, Fresh, StateInv, InForce
<1> QED BY <1>1, StateStep, Invariance, PTL DEF Spec

(* Once an emulator has started on a reviewed profile, no profile is       *)
(* written again, unless programs overlap.                                 *)
THEOREM ProfileStays == Spec => []ReviewedProfileStays
<1>1. IInv /\ StateInv => ReviewedProfileStays
  <2> SUFFICES ASSUME IInv, StateInv, ~ overlap, NEW p \in Tool, NEW e \in Tool,
                      Kind[p] = "profile", pc[p] \in {"loaded", "produced"}, Kind[e] = "emulator"
               PROVE  pc[e] \notin Started
    BY DEF ReviewedProfileStays, Started
  <2>1. manifest = Whole(local[p]) /\ local[p].state = "prepared"
    BY DEF IInv, Exclusion, StateInv
  <2>2. local[p] \in InForce
    BY <2>1 DEF InForce, Whole
  <2> QED BY <2>1, <2>2 DEF StateInv, StateFollows, Emulator
<1> QED BY <1>1, Invariance, StateInvariance, PTL

(* The state of a run whose emulator is started once says emulator_started *)
(* while it runs or is about to, and afterwards only if it did not come    *)
(* back to write.                                                          *)
THEOREM StateIsTrue == Spec => []StateTellsRunning
<1>1. IInv /\ StateInv => StateTellsRunning
  <2> SUFFICES ASSUME IInv, StateInv, ~ overlap, OneEmulator, manifest.status = "whole"
               PROVE  /\ (\E e \in Tool : Kind[e] = "emulator" /\ pc[e] \in Runs) =>
                           manifest.data.state = "emulator_started"
                      /\ manifest.data.state = "emulator_started" =>
                           \E e \in Tool : /\ Kind[e] = "emulator"
                                           /\ pc[e] \in Hanging \ {"rewriting", "crashed writing"}
    BY DEF StateTellsRunning, Hanging, Runs
  <2>1. StateFollows(manifest.data)
    BY DEF StateInv, InForce
  <2>2. \A e \in Tool : pc[e] \notin {"rewriting", "crashed writing"}
    <3>1. Torn.status = "torn"
      BY DEF Torn
    <3> QED BY <3>1 DEF IInv, Exclusion
  <2> QED BY <2>1, <2>2 DEF StateFollows, Emulator
<1> QED BY <1>1, Invariance, StateInvariance, PTL
=============================================================================
