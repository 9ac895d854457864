---------------------------- MODULE SnapshotDiff ----------------------------
(***************************************************************************)
(* workstation/snapshot.py before and after the emulator ran, and then     *)
(* compare_snapshots.py: an inventory first lists the files of a tree and  *)
(* then looks at them one by one, at each twice (stat, sha256_file), while *)
(* other programs write there.  One tree stands for the three that are     *)
(* taken; what the programs do to manifest.json is in RunManifest.         *)
(***************************************************************************)
EXTENDS Naturals, Sequences, FiniteSets, Selection

CONSTANTS
  Paths,      (* the files there may be, in sorted order                    *)
  Content,    (* contents, by their SHA-256                                 *)
  SizeOf,     (* the size of each                                           *)
  MaxWrites   (* bound of the model: writes by other programs               *)

VARIABLES
  pc, rc,
  tree,       (* the files that are there: path |-> content                 *)
  phase,      (* the program that runs: snapshot pre, post, or compare      *)
  names,      (* files listed and not yet looked at                         *)
  st_size,    (* of the file that is looked at                              *)
  result,     (* the inventory so far                                       *)
  snapshots,  (* pre.json and post.json                                     *)
  diff,       (* diff.json                                                  *)
  began,      (* history: the tree when each snapshot was begun             *)
  touched,    (* history: files written to while a snapshot was taken       *)
  writes

diffVars == <<pc, rc, tree, phase, names, st_size, result, snapshots, diff, began, touched, writes>>

Path == {Paths[i] : i \in DOMAIN Paths}
Trees == UNION {[S -> Content] : S \in SUBSET Path}
Nothing == << >>
NoDiff == [added |-> {}, removed |-> {}, modified |-> {}, unchanged_count |-> 0]

DiffInit ==
  /\ pc = "start" /\ rc = 0 /\ tree \in Trees /\ phase = "pre"
  /\ names = << >> /\ st_size = 0 /\ result = Nothing
  /\ snapshots = [pre |-> Nothing, post |-> Nothing] /\ diff = NoDiff
  /\ began = [pre |-> Nothing, post |-> Nothing] /\ touched = {} /\ writes = 0
-----------------------------------------------------------------------------
(* inventory: sorted(rglob), the files only. *)
ListTree ==
  /\ pc = "start" /\ phase # "compare"
  /\ names' = Selected(Paths, DOMAIN tree)
  /\ began' = [began EXCEPT ![phase] = tree]
  /\ result' = Nothing /\ pc' = "stat"
  /\ UNCHANGED <<rc, tree, phase, st_size, snapshots, diff, touched, writes>>

(* A file that is gone ends the program: FileNotFoundError. *)
Vanished == pc' = "exit" /\ rc' = 1

Stat ==
  /\ pc = "stat" /\ names # << >>
  /\ IF Head(names) \in DOMAIN tree
       THEN st_size' = SizeOf[tree[Head(names)]] /\ pc' = "hash" /\ UNCHANGED rc
       ELSE Vanished /\ UNCHANGED st_size
  /\ UNCHANGED <<tree, phase, names, result, snapshots, diff, began, touched, writes>>

Hash ==
  /\ pc = "hash"
  /\ IF Head(names) \in DOMAIN tree
       THEN /\ result' = Updated(result, Head(names), [size |-> st_size, sha256 |-> tree[Head(names)]])
            /\ names' = Tail(names) /\ pc' = "stat" /\ UNCHANGED rc
       ELSE Vanished /\ UNCHANGED <<names, result>>
  /\ UNCHANGED <<tree, phase, st_size, snapshots, diff, began, touched, writes>>

Save ==
  /\ pc = "stat" /\ names = << >>
  /\ snapshots' = [snapshots EXCEPT ![phase] = result]
  /\ phase' = IF phase = "pre" THEN "post" ELSE "compare"
  /\ pc' = "start"
  /\ UNCHANGED <<rc, tree, names, st_size, result, diff, began, touched, writes>>

SameSize(a, b) == a.size = b.size
Same(a, b) == a.sha256 = b.sha256 /\ a.size = b.size

CompareTree(pre, post) ==
  LET both == DOMAIN pre \intersect DOMAIN post
      unchanged == {p \in both : Same(pre[p], post[p])}
  IN  [added |-> DOMAIN post \ DOMAIN pre, removed |-> DOMAIN pre \ DOMAIN post,
       modified |-> both \ unchanged, unchanged_count |-> Cardinality(unchanged)]

Compare ==
  /\ pc = "start" /\ phase = "compare"
  /\ diff' = CompareTree(snapshots.pre, snapshots.post)
  /\ pc' = "exit"
  /\ UNCHANGED <<rc, tree, phase, names, st_size, result, snapshots, began, touched, writes>>

DiffTool == ListTree \/ Stat \/ Hash \/ Save \/ Compare

(* The emulator, the operator: a file is made, changed or removed.         *)
OthersWrite ==
  /\ pc # "exit" /\ writes < MaxWrites /\ writes' = writes + 1
  /\ \E p \in Path :
       /\ \/ \E c \in Content : tree' = Updated(tree, p, c)
          \/ p \in DOMAIN tree /\ tree' = [q \in DOMAIN tree \ {p} |-> tree[q]]
       /\ touched' = IF pc \in {"stat", "hash"} THEN touched \union {p} ELSE touched
  /\ UNCHANGED <<pc, rc, phase, names, st_size, result, snapshots, diff, began>>

DiffNext == DiffTool \/ OthersWrite
-----------------------------------------------------------------------------
DiffTypeOK ==
  /\ pc \in {"start", "stat", "hash", "exit"} /\ rc \in {0, 1}
  /\ tree \in Trees /\ phase \in {"pre", "post", "compare"} /\ writes \in 0 .. MaxWrites
  /\ DOMAIN result \subseteq Path /\ touched \subseteq Path

(* What the difference says of a file nobody wrote to while a snapshot was *)
(* taken is what happened to it between the two, whatever was done to the  *)
(* files around it; and a snapshot fails only if something was done.       *)
DiffIsExact ==
  /\ pc = "exit" /\ rc = 0 =>
       \A p \in Path \ touched :
         LET was == p \in DOMAIN began.pre
             is == p \in DOMAIN began.post
         IN  /\ p \in diff.added <=> ~ was /\ is
             /\ p \in diff.removed <=> was /\ ~ is
             /\ p \in diff.modified <=> was /\ is /\ began.pre[p] # began.post[p]
  /\ pc = "exit" /\ rc = 1 => touched # {}
=============================================================================
