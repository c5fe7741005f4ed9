------------------------------ MODULE MCLedger ------------------------------
(* Deposits as model values; which of them is spent first makes no difference. *)
EXTENDS Ledger, TLC

CONSTANTS d1, d2

Interchangeable == Permutations(Deposits)
=============================================================================
