--------------------------- MODULE MCRunManifest ---------------------------
(* Invocations are named after the program and numbered.                  *)
EXTENDS RunManifest

SessionKind == [prep |-> "prepare", prof |-> "profile", emul |-> "emulator",
                pro2 |-> "profile", ghid |-> "ghidra", col1 |-> "collect",
                pre1 |-> "pre", pos1 |-> "post", com1 |-> "compare"]
EvidenceKind == [prep |-> "prepare", col1 |-> "collect", col2 |-> "collect"]

(* Bound of the exploration: of the last two groups only one is started. *)
OneGroup ==
  \E group \in {{"pro2", "ghid", "col1"}, {"pre1", "pos1", "com1"}} :
    \A p \in group : pc[p] = "idle"
=============================================================================
