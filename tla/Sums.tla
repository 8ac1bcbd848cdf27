-------------------------------- MODULE Sums --------------------------------
(***************************************************************************)
(* What a column of a table adds up to: the SUM of the database.  The rows    *)
(* are a sequence; whoever sums some of them puts 0 in place of the others.  *)
(***************************************************************************)
EXTENDS Integers, Sequences

Total(amounts) ==
    LET sum[n \in 0 .. Len(amounts)] == IF n = 0 THEN 0 ELSE sum[n - 1] + amounts[n]
    IN  sum[Len(amounts)]
=============================================================================
