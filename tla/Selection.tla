----------------------------- MODULE Selection ------------------------------
(***************************************************************************)
(* What several of the programs do to lists and tables.                    *)
(***************************************************************************)
EXTENDS Naturals, Sequences

(* The loop that goes over a list from its head and keeps the elements of  *)
(* one kind, in their order.  The kind is a set, where SelectSeq has a     *)
(* test.                                                                   *)

(* What the loop has kept of s after each number of turns. *)
Selections(s, T) ==
  LET upTo[n \in 0 .. Len(s)] ==
        IF n = 0 THEN << >>
        ELSE IF s[n] \in T THEN Append(upTo[n - 1], s[n])
        ELSE upTo[n - 1]
  IN  upTo

Selected(s, T) == Selections(s, T)[Len(s)]

(* The table f with the value y for x, which need not be in it yet.        *)
Updated(f, x, y) == [z \in DOMAIN f \union {x} |-> IF z = x THEN y ELSE f[z]]
=============================================================================
