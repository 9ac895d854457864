------------------------------ MODULE BootInfo ------------------------------
(***************************************************************************)
(* src/bootinfo.c: the checksum of a boot block, a sum of its words whose  *)
(* carries are added in again.  The block is chosen while it is added up.  *)
(***************************************************************************)
EXTENDS Naturals

CONSTANTS
  Word,       (* 2^32                                                       *)
  BlockWords  (* BOOTBLOCK_SIZE / 4                                         *)

VARIABLES
  pc, rc,          (* where main is, what it returns                        *)
  i, sum,          (* of boot_checksum_sum                                  *)
  total,           (* history: the sum of the words as numbers              *)
  carries,         (* history: how often a carry was added in               *)
  checksum_valid   (* what is printed                                       *)

bootVars == <<pc, rc, i, sum, total, carries, checksum_valid>>

BootInit ==
  /\ pc = "start" /\ rc = 0 /\ i = 0 /\ sum = 0
  /\ total = 0 /\ carries = 0 /\ checksum_valid = FALSE

(* Arguments, fopen, fread, and the test of the size. *)
ReadBlock ==
  /\ pc = "start"
  /\ \/ pc' = "exit" /\ rc' \in {10, 20}
     \/ pc' = "sum" /\ UNCHANGED rc
  /\ UNCHANGED <<i, sum, total, carries, checksum_valid>>

Truncated(n) == n % Word

(* The cut sum became smaller: there was a carry, which is added, and the  *)
(* sum is cut once more.                                                   *)
CarryInNot(cut, carry) == cut
CarryIn(cut, carry) == IF carry THEN Truncated(cut + 1) ELSE cut

(* One word: the sum is cut to 32 bits.                                    *)
AddWord ==
  /\ pc = "sum" /\ i < BlockWords
  /\ \E w \in 0 .. Word - 1 :
       LET cut == Truncated(sum + w) IN
       /\ sum' = CarryIn(cut, cut < sum)
       /\ carries' = IF cut < sum THEN carries + 1 ELSE carries
       /\ total' = total + w
  /\ i' = i + 1
  /\ UNCHANGED <<pc, rc, checksum_valid>>

Valid == sum = Word - 1

Report ==
  /\ pc = "sum" /\ i = BlockWords
  /\ checksum_valid' = Valid
  /\ pc' = "exit" /\ rc' = 0
  /\ UNCHANGED <<i, sum, total, carries>>

BootNext == ReadBlock \/ AddWord \/ Report
BootSpec == BootInit /\ [][BootNext]_bootVars
-----------------------------------------------------------------------------
BootTypeOK ==
  /\ pc \in {"start", "sum", "exit"} /\ rc \in {0, 10, 20}
  /\ i \in 0 .. BlockWords /\ sum \in 0 .. Word - 1
  /\ total \in Nat /\ carries \in Nat /\ checksum_valid \in BOOLEAN

(* No carry is lost: the sum is the true sum less 2^32 - 1 for each carry, *)
(* and it is 0 for a block of zeros only.                                  *)
CarriesAreKept ==
  /\ total = sum + carries * (Word - 1)
  /\ sum = 0 => total = 0

(* A block passes for valid exactly when the sum of its words is a         *)
(* multiple of 2^32 - 1 other than 0: a block of zeros does not.           *)
ValidIsCongruent ==
  pc = "exit" /\ rc = 0 => (checksum_valid <=> total # 0 /\ total % (Word - 1) = 0)
=============================================================================
