--------------------------- MODULE MCInvitations ---------------------------
(* Devices and addresses as model values; which is which makes no difference. *)
EXTENDS Invitations, TLC

CONSTANTS d1, d2, i1, i2

Interchangeable == Permutations(Devices) \cup Permutations(Ips)
=============================================================================
