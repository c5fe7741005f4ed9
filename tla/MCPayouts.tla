----------------------------- MODULE MCPayouts -----------------------------
(***************************************************************************)
(* Small instances of Payouts for TLC.                                     *)
(***************************************************************************)
EXTENDS Payouts, TLC

CONSTANTS c1, c2, a1, a2, a3, ip1, k1, code1, soft, hard

\* Tiers as deployed, soft below hard, scaled down.
TwoTiers == (soft :> 1) @@ (hard :> 2)

OneTier == (soft :> 2)

OnePerDay == [k \in Keys |-> 1]
NoKeys == [k \in Keys |-> Never]

ExpiresAt2 == [k \in Keys |-> 2]

Interchangeable == Permutations(Callers) \cup Permutations(Addresses)
=============================================================================
