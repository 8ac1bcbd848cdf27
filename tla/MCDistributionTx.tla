-------------------------- MODULE MCDistributionTx --------------------------
(* Values for TLC: one order, requests that run at the same time. *)
EXTENDS DistributionTx, TLC

CONSTANTS o1, l1, l2, l3, t1, t2

OrderSeat == [o \in Order |-> 0]

RequestSymmetry == Permutations(Request) \cup Permutations(LogId)

LockHolders == Desk \cup {"EXPIRE"}
AcceptRace == {"START", "ASSIGN", "CANCEL", "EXPIRE", "ACCEPT", "STATUS"}
AnswerRace == {"RESEND", "REASSIGN", "EXPIRE", "ACCEPT", "REJECT"}
=============================================================================
