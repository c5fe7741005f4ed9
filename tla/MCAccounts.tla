----------------------------- MODULE MCAccounts -----------------------------
(* Two browsers, two members one of whom is an admin, and an outsider.  Every *)
(* bound is on how often something happens; the wire holds two messages.      *)
EXTENDS Accounts, TLC

CONSTANTS b1, b2, alice, bob, eve

Interchangeable == Permutations({b1, b2})
=============================================================================
