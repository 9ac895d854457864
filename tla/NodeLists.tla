----------------------------- MODULE NodeLists ------------------------------
(***************************************************************************)
(* A list of Exec as the sequence of the nodes in it, each of them once,   *)
(* and what Exec's own routines make of it.                                *)
(***************************************************************************)
EXTENDS SequencesExt

IndexOf(list, t) == CHOOSE i \in DOMAIN list : list[i] = t

(* Remove: the node is in one of several lists. *)
Unlinked(list, t) ==
  IF t \in ToSet(list) THEN RemoveAt(list, IndexOf(list, t)) ELSE list

(* Enqueue: somewhere in the list, by priority. *)
Enqueued(list, t) == {InsertAt(list, i, t) : i \in 1 .. Len(list) + 1}
=============================================================================
