--------------------------- MODULE MCOrderManager ---------------------------
(* OrderManager on small sets of orders and exchange ids. *)
EXTENDS OrderManager, TLC

\* Local ids are interchangeable, and so are exchange ids.
Symmetry == Permutations(Orders) \cup Permutations(ExIds)
=============================================================================
