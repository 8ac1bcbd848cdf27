--------------------------- MODULE MCDistribution ---------------------------
(* Values for TLC: two orders, two captains, log ids to spare. *)
EXTENDS DistributionViews, TLC

CONSTANTS o1, o2, l1, l2, l3

OrderSeat == [o \in Order |-> IF o = o1 THEN 0 ELSE 1]

LogSymmetry == Permutations({l1, l2, l3})
=============================================================================
