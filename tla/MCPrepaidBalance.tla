-------------------------- MODULE MCPrepaidBalance --------------------------
(* Values for TLC: small amounts, two requests at a time. *)
EXTENDS PrepaidBalance, TLC

CONSTANTS o1, o2, c1, c2, t1, t2

OrderCommission == [c \in Captain |-> [o \in Order |-> IF o = o2 THEN 0 ELSE IF c = c1 THEN 1 ELSE 2]]

Corrections == {-2}

RequestSymmetry == Permutations(Request)
=============================================================================
