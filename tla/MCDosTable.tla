---------------------------- MODULE MCDosTable ----------------------------
(* Disks for TLC: primary tables in every order, and chains of tables. *)
EXTENDS DosTable, TLC

P(start, size) == [start |-> start, size |-> size, ext |-> FALSE]
X(start, size) == [start |-> start, size |-> size, ext |-> TRUE]
None == P(0, 0)

Orders(a, b, c) == {<<a, b, c>>, <<a, c, b>>, <<b, a, c>>, <<b, c, a>>, <<c, a, b>>, <<c, b, a>>}

(* Apart, adjacent, nested, overlapping, and ending outside of the image *)
PrimaryTables ==
  Orders(P(1, 2), None, P(7, 1)) \union Orders(P(1, 1), P(4, 2), P(6, 6)) \union
  Orders(P(1, 9), P(2, 3), P(7, 2)) \union Orders(P(1, 5), P(3, 4), P(3, 1)) \union
  {<<None, None, P(20, 1)>>, <<P(20, 1)>>, <<None>>}

(* A chain of extended tables in front of, between and behind partitions,  *)
(* the last with a table that starts outside of the image; two chains; a   *)
(* sector without a table                                                  *)
Chained(primary) ==
  {0 :> primary @@ 3 :> <<P(1, 1), X(3, 4)>> @@ 6 :> <<P(1, 1), X(7, 2)>> @@ 10 :> <<P(1, 1)>>,
   0 :> primary @@ 3 :> <<X(3, 4), P(1, 1)>> @@ 6 :> <<P(1, 1), X(20, 2)>>,
   0 :> primary @@ 3 :> <<P(1, 1), X(4, 2)>>}

AllDisks ==
  {0 :> t : t \in PrimaryTables} \union
  UNION {Chained(t) : t \in Orders(P(1, 2), X(3, 8), P(11, 1))} \union
  {0 :> <<X(3, 3), X(6, 3)>> @@ 3 :> <<P(1, 1)>> @@ 6 :> <<P(1, 1), None>>}
=============================================================================
