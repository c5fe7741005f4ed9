------------------------------ MODULE Bearers ------------------------------
(***************************************************************************)
(* What the invitation faucet promises of its vouchers, without rows, keys,*)
(* maintenance or clocks.                                                  *)
(*                                                                         *)
(* A voucher is a bearer key to an asset lock.  Whoever was given it may   *)
(* redeem it, also after the reservation lapsed: "after expiry, the old    *)
(* recipient and a new recipient may both have the key" (src/README.md).   *)
(* Until then it is reserved for one device alone, and nobody is given a   *)
(* voucher whose asset lock is not ChainLocked yet.                        *)
(***************************************************************************)
CONSTANTS Vouchers, Devices

VARIABLES
    bearers,    \* bearers[v]: devices told a reservation that has not lapsed
    known,      \* known[v]: devices that were ever given v's key
    final,      \* vouchers whose asset lock is ChainLocked
    redeemed    \* vouchers an identity was created from

vars == <<bearers, known, final, redeemed>>

Init ==
    /\ bearers = [v \in Vouchers |-> {}]
    /\ known = [v \in Vouchers |-> {}]
    /\ final = {}
    /\ redeemed = {}

\* A response with the vouchers of S, fresh or repeated, goes to device d.
Give(d, S) ==
    /\ S \subseteq final
    /\ \A v \in S : bearers[v] \subseteq {d}
    /\ bearers' = [v \in Vouchers |-> IF v \in S THEN {d} ELSE bearers[v]]
    /\ known' = [v \in Vouchers |-> IF v \in S THEN known[v] \cup {d} ELSE known[v]]
    /\ UNCHANGED <<final, redeemed>>

\* The reservations of S run out.
Lapse(S) ==
    /\ bearers' = [v \in Vouchers |-> IF v \in S THEN {} ELSE bearers[v]]
    /\ UNCHANGED <<known, final, redeemed>>

Finalize(v) ==
    /\ final' = final \cup {v}
    /\ UNCHANGED <<bearers, known, redeemed>>

Redeem(v) ==
    /\ v \in final \ redeemed /\ known[v] # {}
    /\ redeemed' = redeemed \cup {v}
    /\ UNCHANGED <<bearers, known, final>>

Next ==
    \/ \E d \in Devices, S \in SUBSET Vouchers : Give(d, S)
    \/ \E S \in SUBSET Vouchers : Lapse(S)
    \/ \E v \in Vouchers : Finalize(v) \/ Redeem(v)

Spec == Init /\ [][Next]_vars
=============================================================================
