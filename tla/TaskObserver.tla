---------------------------- MODULE TaskObserver ----------------------------
(***************************************************************************)
(* What the task watch of TraceExec promises: an observer that looks at    *)
(* the live tasks at single instants and logs, each time, the difference   *)
(* from what it knew.  It may overlook live tasks, but it never reports    *)
(* one that is not there, and it looks at one instant only: nothing it     *)
(* reports mixes two moments.                                              *)
(***************************************************************************)
EXTENDS SequencesExt

CONSTANTS
  Node,      (* task addresses                                              *)
  Capacity,  (* events the log can hold                                     *)
  Looks      (* how often the observer looks at most                        *)

VARIABLES
  live,   (* the tasks there are                                            *)
  known,  (* what the last look saw                                         *)
  taken,  (* looks taken                                                    *)
  log     (* events: what appeared and what disappeared                     *)

Init == known = {} /\ taken = 0 /\ log = << >> /\ live \subseteq Node

Told(kind, order) == [i \in DOMAIN order |-> [event |-> kind, address |-> order[i]]]

Cut(s) == SubSeq(s, 1, IF Len(s) <= Capacity THEN Len(s) ELSE Capacity)

Churn == live' \subseteq Node /\ UNCHANGED <<known, taken, log>>

Look ==
  /\ taken < Looks
  /\ \E S \in SUBSET live :
       /\ known' = S
       /\ IF taken = 0
            THEN UNCHANGED log
            ELSE \E a \in SetToSeqs(S \ known), r \in SetToSeqs(known \ S) :
                   log' = Cut(log \o Told("task-added", a) \o Told("task-removed", r))
  /\ taken' = taken + 1
  /\ UNCHANGED live

(* The observation of one task, the observer's own, instead of a watch.    *)
Single ==
  /\ taken = 0 /\ log = << >>
  /\ \E t \in live : log' = << [event |-> "snapshot-task", address |-> t] >>
  /\ UNCHANGED <<live, known, taken>>

Next == Churn \/ Look \/ Single
Spec == Init /\ [][Next]_<<live, known, taken, log>>
=============================================================================
