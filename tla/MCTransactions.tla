--------------------------- MODULE MCTransactions ---------------------------
(* Instances of Transactions: two processes and two records that either    *)
(* are missing or have the same contents.                                  *)
EXTENDS Transactions

CONSTANTS p1, p2, r1, r2, v1
=============================================================================
