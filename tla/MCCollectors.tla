---------------------------- MODULE MCCollectors ----------------------------
(***************************************************************************)
(* Small machines and files for the programs of Collectors.                *)
(***************************************************************************)
EXTENDS Collectors

(* Regions that are odd, empty, reversed, too small, overlapping, free     *)
(* beyond their size, without a name, that use up the budget exactly, and  *)
(* that exceed it or the table.                                            *)
R(lower, upper) == [lower |-> lower, upper |-> upper, free |-> 0, named |-> TRUE]
SomeHeaders ==
  {<<R(0, 8), R(8, 12)>>, <<R(0, 8), R(8, 12), R(20, 20)>>, <<R(0, 10)>>,
   <<R(0, 8), R(8, 16)>>, <<R(9, 3), R(1, 9), R(16, 18)>>, <<R(0, 6), R(2, 8)>>,
   <<R(0, 4), R(4, 8), R(8, 10), R(10, 14)>>,
   <<[R(0, 8) EXCEPT !.free = 9], [R(21, 21) EXCEPT !.named = FALSE], [R(8, 12) EXCEPT !.free = 4]>>}
SomeModules == {<< >>, <<4>>, <<0, 4, 5>>}

(* Match words at up to two places, with an end that is wrong, near or far *)
(* away, or with a tag that points elsewhere.                              *)
Cells(a) == {[tag |-> a, end |-> a], [tag |-> a, end |-> a + 4], [tag |-> a, end |-> 12],
             [tag |-> 20, end |-> 12]}
ImagesOf(max) ==
  UNION {{f \in [S -> UNION {Cells(a) : a \in S}] : \A a \in S : f[a] \in Cells(a)} :
           S \in {T \in SUBSET {0, 4, 5, 8} : Cardinality(T) <= max}}
SomeImages == ImagesOf(2)
SomeWritten == ImagesOf(1)

(* Tables of hunks that are empty, reversed, too small, of one hunk, of    *)
(* two, and the range that is too wide to be counted; words that are every *)
(* type, an unknown one, and one with a flag.                              *)
SomeHeads == {<<0, 0, 0>>, <<1, 1, 0>>, <<1, 0, 1>>, <<1, 0, 0>>, <<2, 0, 1>>, <<1, 0, FileWord - 1>>}
SomeTypes == {3, 5, 6, 7, 8, 11, 12, 13, 14, 5 + FileWord \div 4}
SomeNumbers == {0, 1, 2, FileWord - 1}

(* Bytes of which every class of indicators can be made. *)
SomeNeedle ==
  [library |-> {<<".", "l">>}, device |-> {<<":", "l">>}, arexx |-> {<<"l", "l">>},
   network |-> {<<":", ".">>}, system |-> {<<"l", ".", "l">>}] @@ ("path or port" :> {<<":">>})

SomePaths == <<"p", "q">>
SomeSizes == [c1 |-> 1, c2 |-> 1, c3 |-> 2]
SomeLists == <<{<<"s1", "s2">>, <<"s1", "s2", "s1">>}, {<<"s2">>}>>
=============================================================================
