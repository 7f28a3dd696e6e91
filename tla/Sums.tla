-------------------------------- MODULE Sums --------------------------------
(***************************************************************************)
(* The sum of a sequence of integers, as the account books of a replay and *)
(* of an exchange are checked against it.  It is written as a recursive    *)
(* function, from the front: a book grows at its end.                      *)
(***************************************************************************)
EXTENDS Integers, Sequences

SumOf(s) ==
  LET upTo[i \in 0 .. Len(s)] == IF i = 0 THEN 0 ELSE upTo[i - 1] + s[i]
  IN  upTo[Len(s)]
=============================================================================
