------------------------------- MODULE Ledger -------------------------------
(***************************************************************************)
(* The coin ledger of a Treasury: which outpoints may be spent next, while *)
(* explorers list confirmed coins only and lag behind the network.         *)
(*                                                                         *)
(* spent rows mask coins whose spend is in flight, pending rows stand for  *)
(* our own change until an explorer lists it; prune and reconcile drop both*)
(* by age (src/src/treasury.ts).  The promise queue lets one operation at a*)
(* time work on the ledger, so one is modelled: a payout, a merge, a split *)
(* or a snapshot, which differ here only in what they build.               *)
(* Coin selection is any choice from the view; amounts are left out.       *)
(*                                                                         *)
(* An outpoint is a deposit, confirmed from the start, or the number t of  *)
(* the transaction whose output back to the faucet it is.                  *)
(* Time is kept as ages, all measured from the "now" of the operation that *)
(* wrote the row, as created_at is; past AgeCap nothing is told apart.     *)
(*                                                                         *)
(* The environment's bounds are constants: a transaction that reaches the  *)
(* network is mined and listed by every eligible explorer within LAG of the*)
(* request that built it, an operation ends within HANDLER ticks, and a cron*)
(* learns from Core within FOLLOW that an asset lock it could not resolve  *)
(* was mined.                                                              *)
(***************************************************************************)
EXTENDS Integers, Sequences, FiniteSets

CONSTANTS
    Deposits,       \* coins the faucet starts with
    MaxTxs,         \* transactions built in a behaviour
    MaxInputs,      \* MAX_PAYOUT_INPUTS
    SETTLED,        \* SPENT_SETTLED_MS
    STALE,          \* SPENT_STALE_MS
    PENDING_TTL,    \* PENDING_TTL_MS
    LAG, HANDLER,   \* the environment's bounds
    AssetLocks,     \* which of them are vouchers' asset locks
    FOLLOW,         \* age by which an unresolved asset lock is followed up
    MaxCrashes,
    None            \* no row

ASSUME LedgerAssumption ==
    /\ MaxTxs \in Nat /\ MaxInputs \in Nat \ {0}
    /\ Deposits \cap 1 .. MaxTxs = {} /\ AssetLocks \subseteq 1 .. MaxTxs
    /\ SETTLED \in Nat /\ STALE \in Nat /\ PENDING_TTL \in Nat
    /\ LAG \in Nat /\ HANDLER \in Nat /\ FOLLOW \in Nat /\ MaxCrashes \in Nat
    /\ SETTLED <= STALE /\ LAG <= STALE /\ PENDING_TTL <= STALE
    /\ None \notin Int

VARIABLES
    phase,      \* where the operation that holds the lock stands
    hAge,       \* time since that operation read its "now"
    listing,    \* the coins the explorer it asked has listed, until they are used
    txs,        \* every transaction built: inputs, change, fate, bookkeeping
    spent,      \* spent[o]: age of the row, or None
    pending,    \* pending[o]: age of the row, or None
    crashes

tables == <<spent, pending>>
vars == <<phase, hAge, listing, txs, tables, crashes>>

-----------------------------------------------------------------------------
Outpoints == Deposits \cup 1 .. MaxTxs

\* The oldest age that matters is one past STALE, read HANDLER late.
AgeCap == STALE + HANDLER + 1
Ages == 0 .. AgeCap

Broadcasting == {"broadcasting", "retrying"}
Phases == {"idle", "viewing", "listed"} \cup Broadcasting

(***************************************************************************)
(* status is the network's: "sent" may still land, "dead" never will.      *)
(* booked is ours: "open" while its handler runs, then what was recorded:  *)
(* "owned" by recordSpend, "locked" by lockInputs only, or "none".         *)
(***************************************************************************)
Tx == [inputs : SUBSET Outpoints, change : BOOLEAN, age : Ages,
       status : {"sent", "mempool", "mined", "indexed", "dead"},
       booked : {"open", "owned", "locked", "none"}]

\* Types; and pending rows stand for outputs of ours alone.
TypeOK ==
    /\ phase \in Phases
    /\ hAge \in Ages
    /\ listing \subseteq Outpoints
    /\ txs \in Seq(Tx)
    /\ Len(txs) <= MaxTxs
    /\ spent \in [Outpoints -> Ages \cup {None}]
    /\ pending \in [Outpoints -> Ages \cup {None}]
    /\ \A o \in Outpoints : pending[o] # None => o \in DOMAIN txs /\ txs[o].change
    /\ crashes \in 0 .. MaxCrashes

Init ==
    /\ phase = "idle" /\ hAge = 0
    /\ listing = {}
    /\ txs = <<>>
    /\ spent = [o \in Outpoints |-> None]
    /\ pending = [o \in Outpoints |-> None]
    /\ crashes = 0

-----------------------------------------------------------------------------
Live(t) == txs[t].status \in {"mempool", "mined", "indexed"}
MayLand(t) == txs[t].status = "sent" /\ txs[t].age < LAG
Confirmed == {t \in DOMAIN txs : txs[t].status \in {"mined", "indexed"}}
Indexed == {t \in DOMAIN txs : txs[t].status = "indexed"}

\* Exists on the network, spent or not.
Created(o) == o \in Deposits \/ (o \in DOMAIN txs /\ txs[o].change /\ Live(o))
Spenders(o) == {t \in DOMAIN txs : o \in txs[t].inputs}
Parents(t) == txs[t].inputs \ Deposits

InputsFree(t) ==
    \A o \in txs[t].inputs :
        Created(o) /\ \A u \in Spenders(o) : u # t => ~Live(u)

(***************************************************************************)
(* What an explorer whose chain holds the transactions V lists: confirmed  *)
(* outputs, and never those spent in V.  Two eligible explorers may differ *)
(* on what is mined, never on what is indexed.                             *)
(***************************************************************************)
Chains == {V \in SUBSET Confirmed : Indexed \subseteq V /\ \A t \in V : Parents(t) \subseteq V}
Listed(V) == {o \in Outpoints :
                /\ o \in Deposits \/ (o \in V /\ txs[o].change)
                /\ Spenders(o) \cap V = {}}

-----------------------------------------------------------------------------
\* The operation is over and the lock free.
Done == phase' = "idle" /\ hAge' = 0

(***************************************************************************)
(* An operation takes the lock, reads "now" and prunes.                    *)
(***************************************************************************)
\* Deviation: pending rows are left to reconcile alone.
BeginWithoutTtl ==
    /\ phase = "idle"
    /\ phase' = "viewing"
    /\ UNCHANGED <<hAge, listing, txs, tables, crashes>>

Begin ==
    /\ phase = "idle"
    /\ phase' = "viewing"
    /\ pending' = [o \in Outpoints |->
                    IF pending[o] # None /\ pending[o] > PENDING_TTL THEN None ELSE pending[o]]
    /\ UNCHANGED <<hAge, listing, txs, spent, crashes>>

\* chain.getUtxos answers with the listing of some eligible explorer, or fails.
Fetch ==
    /\ phase = "viewing"
    /\ \/ \E V \in Chains : listing' = Listed(V) /\ phase' = "listed" /\ UNCHANGED hAge
       \/ Done /\ UNCHANGED listing
    /\ UNCHANGED <<txs, tables, crashes>>

\* The age of a row at this operation's "now".
RowAge(row) == row - hAge

\* Deviation: a row is settled as soon as its coin is not listed.
SettledAtOnce(o) == spent[o] # None /\ o \notin listing

Settled(o) == spent[o] # None /\ o \notin listing /\ RowAge(spent[o]) > SETTLED

\* Deviation: a coin whose spend never landed stays locked for ever.
NeverStale(o) == o \notin Outpoints

Stale(o) == spent[o] # None /\ o \in listing /\ RowAge(spent[o]) > STALE

\* Deviation: a settled spend leaves the pending row of the same outpoint.
reconcileSpentOnly ==
    /\ spent' = [o \in Outpoints |-> IF Settled(o) \/ Stale(o) THEN None ELSE spent[o]]
    /\ pending' = [o \in Outpoints |-> IF o \in listing THEN None ELSE pending[o]]

reconcile ==
    /\ spent' = [o \in Outpoints |-> IF Settled(o) \/ Stale(o) THEN None ELSE spent[o]]
    /\ pending' = [o \in Outpoints |->
                    IF Settled(o) \/ o \in listing THEN None ELSE pending[o]]

\* Listed coins and our own in-flight outputs, minus what we have spent.
View == {o \in Outpoints : spent'[o] = None /\ (o \in listing \/ pending'[o] # None)}

(***************************************************************************)
(* spendableUtxos after its last await, then the build: no event can come  *)
(* between the reconciled view and the transaction made from it.           *)
(***************************************************************************)
Snapshot ==
    /\ phase = "listed"
    /\ reconcile
    /\ Done /\ listing' = {}
    /\ UNCHANGED <<txs, crashes>>

Build ==
    /\ phase = "listed" /\ Len(txs) < MaxTxs
    /\ reconcile
    /\ \E I \in SUBSET View \ {{}}, change \in BOOLEAN :
        /\ Cardinality(I) <= MaxInputs
        /\ txs' = Append(txs, [inputs |-> I, change |-> change, age |-> hAge,
                               status |-> "sent", booked |-> "open"])
    /\ phase' = "broadcasting" /\ listing' = {}
    /\ UNCHANGED <<hAge, crashes>>

-----------------------------------------------------------------------------
InHand == Len(txs)

Mark(t, status, booked) ==
    txs' = [txs EXCEPT ![t].status = status, ![t].booked = booked]

\* Deviation: an unresolved broadcast releases its coins.
lockNothing(t) == UNCHANGED spent

\* INSERT OR REPLACE, created_at being the operation's "now".
lockInputs(t) ==
    spent' = [o \in Outpoints |-> IF o \in txs[t].inputs THEN hAge ELSE spent[o]]

\* Deviation: the change is left for the explorers to list.
recordInputsOnly(t) == lockInputs(t) /\ UNCHANGED pending

\* Deviation: an output that is not ours is taken for change.
recordSpendBlindly(t) == lockInputs(t) /\ pending' = [pending EXCEPT ![t] = hAge]

recordSpend(t) ==
    /\ lockInputs(t)
    /\ pending' = IF txs[t].change THEN [pending EXCEPT ![t] = hAge] ELSE pending

(***************************************************************************)
(* settleBroadcast and what its callers record.  Relays are truthful: one  *)
(* that accepts or knows a transaction has it, and when all reject it, none*)
(* has.                                                                    *)
(***************************************************************************)
Accepted ==
    /\ phase \in Broadcasting /\ Live(InHand)
    /\ recordSpend(InHand)
    /\ Mark(InHand, txs[InHand].status, "owned")
    /\ Done
    /\ UNCHANGED <<listing, crashes>>

\* "missing inputs": the view was stale; burn the coins so a retry picks others.
RejectedMissing ==
    /\ phase = "broadcasting" /\ ~Live(InHand)
    /\ \E o \in txs[InHand].inputs : ~Created(o) \/ Spenders(o) \cap Confirmed # {}
    /\ lockInputs(InHand)
    /\ Mark(InHand, "dead", "locked")
    /\ Done
    /\ UNCHANGED <<listing, pending, crashes>>

\* Any other outright rejection, a mempool conflict among them: nothing is locked.
Rejected ==
    /\ phase = "broadcasting" /\ ~Live(InHand)
    /\ Mark(InHand, "dead", "none")
    /\ Done
    /\ UNCHANGED <<listing, tables, crashes>>

\* Sent once more, then every provider is asked whether it knows the txid.
Ambiguous ==
    /\ phase = "broadcasting"
    /\ phase' = "retrying"
    /\ UNCHANGED <<hAge, listing, txs, tables, crashes>>

Unresolved ==
    /\ phase = "retrying"
    /\ lockInputs(InHand)
    /\ Mark(InHand, txs[InHand].status, "locked")
    /\ Done
    /\ UNCHANGED <<listing, pending, crashes>>

\* maintainInvitations finds a voucher whose broadcast was unresolved in a block
\* and records its spend then, with its own "now".
FollowUp(t) ==
    /\ phase = "viewing"
    /\ t \in AssetLocks \cap Confirmed
    /\ txs[t].booked \in {"locked", "none"} /\ txs[t].age - hAge <= FOLLOW
    /\ recordSpend(t)
    /\ Mark(t, txs[t].status, "owned")
    /\ Done
    /\ UNCHANGED <<listing, crashes>>

\* The Durable Object is evicted mid-operation; only the rows survive.
Crash ==
    /\ crashes < MaxCrashes /\ phase # "idle"
    /\ crashes' = crashes + 1
    /\ Done /\ listing' = {}
    /\ IF phase \in Broadcasting THEN Mark(InHand, txs[InHand].status, "none")
                                 ELSE UNCHANGED txs
    /\ UNCHANGED tables

-----------------------------------------------------------------------------
(***************************************************************************)
(* The network.                                                            *)
(***************************************************************************)
Becomes(t, status) ==
    /\ txs' = [txs EXCEPT ![t].status = status]
    /\ UNCHANGED <<phase, hAge, listing, tables, crashes>>

Land(t) == MayLand(t) /\ InputsFree(t) /\ Becomes(t, "mempool")

Mine(t) ==
    /\ txs[t].status = "mempool" /\ Parents(t) \subseteq Confirmed
    /\ Becomes(t, "mined")

Index(t) ==
    /\ txs[t].status = "mined" /\ Parents(t) \subseteq Indexed
    /\ Becomes(t, "indexed")

\* A mempool forgets a transaction nothing else builds on.
Evict(t) ==
    /\ txs[t].status = "mempool"
    /\ \A u \in Spenders(t) : ~Live(u)
    /\ Becomes(t, "dead")

Older(row) == IF row = None \/ row = AgeCap THEN row ELSE row + 1

\* Time passes, within the bounds the environment keeps.
Tick ==
    /\ phase # "idle" => hAge < HANDLER
    /\ \A t \in DOMAIN txs : Live(t) /\ txs[t].status # "indexed" => txs[t].age < LAG
    /\ hAge' = IF phase = "idle" THEN hAge ELSE Older(hAge)
    /\ txs' = [t \in DOMAIN txs |-> [txs[t] EXCEPT !.age = Older(@)]]
    /\ spent' = [o \in Outpoints |-> Older(spent[o])]
    /\ pending' = [o \in Outpoints |-> Older(pending[o])]
    /\ UNCHANGED <<phase, listing, crashes>>

-----------------------------------------------------------------------------
Settle == Accepted \/ RejectedMissing \/ Rejected \/ Ambiguous \/ Unresolved
Operation == Begin \/ Fetch \/ Snapshot \/ Build \/ Settle
Confirm == \E t \in DOMAIN txs : Mine(t) \/ Index(t)

Next ==
    \/ Operation
    \/ Crash
    \/ \E t \in DOMAIN txs : FollowUp(t) \/ Land(t) \/ Mine(t) \/ Index(t) \/ Evict(t)
    \/ Tick

Spec == Init /\ [][Next]_vars

(***************************************************************************)
(* The cron runs for ever and every await has a deadline; explorers do not *)
(* fail for ever; blocks are found; time passes.                           *)
(***************************************************************************)
FairSpec ==
    /\ Spec
    /\ WF_vars(Begin)
    /\ SF_vars(Fetch /\ phase' = "listed")
    /\ WF_vars(Fetch) /\ WF_vars(Snapshot \/ Build) /\ WF_vars(Settle)
    /\ WF_vars(Confirm) /\ WF_vars(Tick)

-----------------------------------------------------------------------------
(***************************************************************************)
(* Properties.                                                             *)
(***************************************************************************)
Accounted(t) == txs[t].booked # "none"
Beaten(t) == \E o \in txs[t].inputs : (Spenders(o) \ {t}) \cap Confirmed # {}
InPlay(t) == Live(t) \/ (MayLand(t) /\ ~Beaten(t))

\* A step that hands a view to coin selection.
Offers == phase = "listed" /\ (Snapshot \/ Build)

(***************************************************************************)
(* Two transactions of ours that are on the network, or may still get      *)
(* there, never spend the same coin: not after an unresolved broadcast, not*)
(* when the explorer asked lags, not when a row expires.  Transactions lost*)
(* in a crash or rejected outright are not in the ledger and do not count. *)
(***************************************************************************)
NoCompetition ==
    \A t, u \in DOMAIN txs :
        (t # u /\ InPlay(t) /\ InPlay(u) /\ Accounted(t) /\ Accounted(u))
            => txs[t].inputs \cap txs[u].inputs = {}

(***************************************************************************)
(* "Absence means the spend is now reflected on-chain, so the row has done *)
(* its job" (SPENT_SETTLED_MS): a spent row is dropped because its coin is *)
(* not listed only when no spend of it is still waiting for a block.       *)
(***************************************************************************)
AbsenceMeansSpent ==
    [][\A o \in Outpoints :
        (spent[o] # None /\ spent'[o] = None /\ o \notin listing) =>
            \A t \in Spenders(o) : ~(InPlay(t) /\ t \notin Confirmed)]_spent

(***************************************************************************)
(* A coin that does not exist is offered to coin selection for at most     *)
(* PENDING_TTL after its transaction was broadcast (PENDING_TTL_MS).       *)
(***************************************************************************)
PhantomsExpire ==
    [][Offers =>
        \A o \in View : Created(o) \/ txs[o].age - hAge <= PENDING_TTL]_vars

(***************************************************************************)
(* A coin that an explorer has ever shown spent is not offered again, not  *)
(* even from a pending row that outlived the spent row masking it.         *)
(***************************************************************************)
SpentStaysSpent ==
    [][Offers =>
        \A o \in View : Spenders(o) \cap Indexed = {}]_vars

(***************************************************************************)
(* Change the ledger owns stays in every view from the broadcast until an  *)
(* explorer lists it, unless it has been spent: no row that stands for it  *)
(* expires early, not even after a spend of it that came to nothing.       *)
(***************************************************************************)
OwnChangeStays ==
    [][Offers =>
        \A o \in DOMAIN txs :
            (/\ txs[o].change /\ txs[o].booked = "owned"
             /\ txs[o].status = "mempool" \/ o \in listing
             /\ spent'[o] = None /\ \A t \in Spenders(o) : ~Live(t))
            => o \in View]_vars

(***************************************************************************)
(* A coin locked for a transaction that never made it is released in the   *)
(* end rather than locked for ever.                                        *)
(***************************************************************************)
Idle(o) == (o \in Deposits \/ (o \in Indexed /\ txs[o].change)) /\ \A t \in Spenders(o) : ~Live(t)

CoinsComeBack ==
    \A o \in Outpoints : Idle(o) ~> (spent[o] = None \/ ~Idle(o))
=============================================================================
