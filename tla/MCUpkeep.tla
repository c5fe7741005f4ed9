------------------------------ MODULE MCUpkeep ------------------------------
(* A wallet of up to four deposits, a pool of two to three coins of 2, a     *)
(* collateral coin of 12, transactions of at most three inputs, free or not. *)
EXTENDS Upkeep
=============================================================================
