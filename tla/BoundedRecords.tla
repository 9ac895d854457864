--------------------------- MODULE BoundedRecords ---------------------------
(***************************************************************************)
(* The fixed-capacity record table every collector of the suite carries:   *)
(* an array, a count and a truncated flag (TESnapshot, TETaskSet,          *)
(* DWSnapshot, TVSnapshot, ...).  A record that does not fit is dropped    *)
(* and the flag is raised; nothing but a memset lowers it again.           *)
(***************************************************************************)
EXTENDS Naturals, Sequences

(* What memset leaves in a table. *)
EmptyTable == [recs |-> << >>, truncated |-> FALSE]

(* Tables of at most max records drawn from R. *)
Tables(R, max) ==
  {t \in [recs : Seq(R), truncated : BOOLEAN] : Len(t.recs) <= max}

(* A plausible slip: the last slot is used before the check is made. *)
AddRecordOffByOne(t, r, max) ==
  IF Len(t.recs) > max
    THEN [t EXCEPT !.truncated = TRUE]
    ELSE [t EXCEPT !.recs = Append(@, r)]

(* A plausible slip: the flag goes up with the record that fills the table.*)
AddRecordEager(t, r, max) ==
  IF Len(t.recs) >= max
    THEN [t EXCEPT !.truncated = TRUE]
    ELSE [recs |-> Append(t.recs, r), truncated |-> t.truncated \/ Len(t.recs) + 1 = max]

(* A plausible slip: the record is dropped and nobody is told. *)
AddRecordSilent(t, r, max) ==
  IF Len(t.recs) >= max THEN t ELSE [t EXCEPT !.recs = Append(@, r)]

AddRecord(t, r, max) ==
  IF Len(t.recs) >= max
    THEN [t EXCEPT !.truncated = TRUE]
    ELSE [t EXCEPT !.recs = Append(@, r)]

(* A plausible slip: the batch is cut to size and the cut is not reported. *)
AddRecordsSilent(t, rs, max) ==
  LET all == t.recs \o rs
  IN  [t EXCEPT !.recs = SubSeq(all, 1, IF Len(all) <= max THEN Len(all) ELSE max)]

(* AddRecord for each of rs in turn. *)
AddRecords(t, rs, max) ==
  LET all == t.recs \o rs
  IN  IF Len(all) <= max
        THEN [t EXCEPT !.recs = all]
        ELSE [recs |-> SubSeq(all, 1, max), truncated |-> TRUE]
=============================================================================
