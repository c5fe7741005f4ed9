----------------------------- MODULE MCCapToken -----------------------------
(* Two requests, whose identities make no difference. *)
EXTENDS CapToken, TLC

CONSTANTS r1, r2

Interchangeable == Permutations(Callers)
=============================================================================
