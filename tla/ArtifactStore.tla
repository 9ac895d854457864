--------------------------- MODULE ArtifactStore ---------------------------
(***************************************************************************)
(* workstation/collect_artifacts.py: files are copied, one by one, into    *)
(* artifacts/<label>/ and made read-only, then index.json is written there.*)
(* Several collections may be made under one label, one after the other,   *)
(* also after one that failed (RunManifest has what they do to the         *)
(* manifest, and overlaps).                                                *)
(***************************************************************************)
EXTENDS Naturals, Sequences, Selection

CONSTANTS
  Name,        (* file names of sources                                     *)
  Content,     (* contents; the first 12 digits of their SHA-256 differ     *)
  MaxSources,  (* bound of the model: sources of one collection             *)
  MaxCalls     (* bound of the model: collections                           *)

VARIABLES
  pc, rc,      (* where main is, what it returns (1: an exception)          *)
  privileged,  (* the user may write to read-only files                     *)
  calls,       (* history: collections begun                                *)
  sources,     (* those not yet copied                                      *)
  used_names,  (* the local set                                             *)
  dest,        (* the files in dest_root: stored name |-> what is in it     *)
  kept,        (* history: what each copy that succeeded put into dest      *)
  fault        (* history: a source was missing, or reading or writing failed*)

storeVars == <<pc, rc, privileged, calls, sources, used_names, dest, kept, fault>>

NoPrefix == ""
Plain(name) == <<NoPrefix, name>>
Prefixed(name, content) == <<content, name>>
Index == Plain("index.json")
Sources == Name \X Content

StoreInit ==
  /\ pc = "start" /\ rc = 0 /\ privileged \in BOOLEAN /\ calls = 0
  /\ sources = << >> /\ used_names = {} /\ dest = << >> /\ kept = << >> /\ fault = FALSE
-----------------------------------------------------------------------------
Exit(code) == pc' = "exit" /\ rc' = code

Begin ==
  /\ pc \in {"start", "exit"} /\ calls < MaxCalls
  /\ calls' = calls + 1
  /\ sources' \in UNION {[1 .. n -> Sources] : n \in 1 .. MaxSources}
  /\ used_names' = {} /\ fault' = FALSE
  /\ pc' = "copy" /\ rc' = 0
  /\ UNCHANGED <<privileged, dest, kept>>

StoredNameFresh(s) == IF Plain(s[1]) \in used_names THEN Prefixed(s[1], s[2]) ELSE Plain(s[1])

(* A name that is taken, in this collection or by a file that is there,    *)
(* gets a prefix; the name with the prefix is not looked up again.         *)
StoredName(s) ==
  IF Plain(s[1]) \in used_names \union DOMAIN dest
    THEN Prefixed(s[1], s[2]) ELSE Plain(s[1])

Put(name, what) == dest' = Updated(dest, name, what)
ReadOnly(name) == name \in DOMAIN dest /\ dest[name] \in Content

(* copy2 cannot open a read-only file for writing; else it empties it first*)
(* and may fail then, before chmod.                                        *)
Copy ==
  /\ pc = "copy" /\ sources # << >>
  /\ LET s == Head(sources)
         name == StoredName(s)
     IN \/ Exit(2) /\ fault' = TRUE /\ UNCHANGED <<sources, used_names, dest, kept>>
        \/ /\ ReadOnly(name) /\ ~ privileged
           /\ Exit(1) /\ UNCHANGED <<sources, used_names, dest, kept, fault>>
        \/ /\ ~ ReadOnly(name) \/ privileged
           /\ Exit(1) /\ fault' = TRUE /\ Put(name, "torn") /\ UNCHANGED <<sources, used_names, kept>>
        \/ /\ ~ ReadOnly(name) \/ privileged
           /\ Put(name, s[2]) /\ kept' = Updated(kept, name, s[2])
           /\ sources' = Tail(sources) /\ used_names' = used_names \union {name}
           /\ UNCHANGED <<pc, rc, fault>>
  /\ UNCHANGED <<privileged, calls>>

(* index_path.write_text. *)
WriteIndex ==
  /\ pc = "copy" /\ sources = << >>
  /\ IF ReadOnly(Index) /\ ~ privileged
       THEN Exit(1) /\ UNCHANGED dest
       ELSE Exit(0) /\ Put(Index, "index")
  /\ UNCHANGED <<privileged, calls, sources, used_names, kept, fault>>

StoreNext == Begin \/ Copy \/ WriteIndex
-----------------------------------------------------------------------------
StoreTypeOK ==
  /\ pc \in {"start", "copy", "exit"} /\ rc \in {0, 1, 2}
  /\ calls \in 0 .. MaxCalls /\ Len(sources) <= MaxSources
  /\ \A n \in DOMAIN dest : dest[n] \in Content \union {"torn", "index"}
  /\ DOMAIN kept \subseteq DOMAIN dest

(* What was collected is not changed by what is collected later, but for   *)
(* two things a privileged user can do: collect a file called index.json   *)
(* first, which the index then replaces, and fail in copying once more what*)
(* is there under a name with a prefix.                                    *)
CollectedStays ==
  \A n \in DOMAIN kept :
    \/ dest[n] = kept[n]
    \/ privileged /\ (n = Index \/ (n[1] # NoPrefix /\ dest[n] = "torn"))

(* A collection that fails although every source could be read and every   *)
(* file written has met once more what is there under a name with a prefix,*)
(* or there is a collected file called index.json.                         *)
CollisionIsEarned ==
  pc = "exit" /\ rc = 1 /\ ~ fault =>
    /\ ~ privileged
    /\ \/ Index \in DOMAIN kept
       \/ sources # << >> /\ Prefixed(Head(sources)[1], Head(sources)[2]) \in DOMAIN kept
=============================================================================
