---------------------------- MODULE Invitations ----------------------------
(***************************************************************************)
(* The invitation inventory of a Treasury: asset-lock vouchers minted ahead*)
(* of demand, handed out once ChainLocked, and recycled when nobody claimed*)
(* them (src/src/treasury.ts, issueInvitation and maintainInvitations).    *)
(*                                                                         *)
(* Both operations run under the promise queue's lock, one at a time, and  *)
(* await Platform, Core and the relays: a phase is a resumption point, and *)
(* between two of them the network moves, a recipient redeems, time passes *)
(* or the object is evicted.  The coins are Ledger's concern: here a       *)
(* voucher's inputs are locked or its spend recorded, or neither.          *)
(*                                                                         *)
(* Times are ages, measured from the "now" its operation read; past the    *)
(* last comparison made of it an age stays put.  Vouchers are numbered as  *)
(* they are minted, which is the order of created_at; all have the         *)
(* configured amount.                                                      *)
(***************************************************************************)
EXTENDS Integers, FiniteSets

CONSTANTS
    Devices, Ips,
    MaxVouchers,        \* asset locks built in a behaviour
    TARGET,             \* invitations.inventoryTarget
    MAX_PER_REQUEST,    \* invitations.maxPerRequest
    TTL,                \* invitations.ttlMs
    WINDOW,             \* invitations.rateWindowMs
    HANDLER,            \* an operation ends within HANDLER ticks
    MaxRestarts,        \* evictions and deployments
    None

ASSUME InvitationsAssumption ==
    /\ MaxVouchers \in Nat /\ TARGET \in Nat
    /\ MAX_PER_REQUEST \in Nat \ {0}
    /\ TTL \in Nat /\ WINDOW \in Nat /\ HANDLER \in Nat
    /\ HANDLER < TTL
    /\ MaxRestarts \in Nat
    /\ None \notin Int \cup Devices
    /\ None \notin {"current", "old", "owned", "locked", "yes", "no", "down", "out", "mempool", "dead"}
    /\ Devices \cap Ips = {}

VARIABLES
    state,      \* state[v]: invitation_inventory.state, or "absent"
    device,     \* device[v]: device_hash
    issued,     \* issued[v]: age of issued_at
    sealed,     \* sealed[v]: which secret its key is encrypted under
    booked,     \* booked[v]: what the coin ledger holds of its asset lock
    hits,       \* hits[k]: age of the issuance of a device or an ip
    phase, hAge,
    req,        \* the request being answered
    todo,       \* rows the loop has still to visit
    hand,       \* the voucher being broadcast
    answers,    \* Platform's answers on them
    down,       \* explorerDown
    got,        \* vouchers opened for the request
    net,        \* net[v]: the network's state of its asset lock
    identity,   \* identity[v]: age of the identity created from it
    told,       \* told[v][d]: age of the reservation d was last told of
    restarts

row == <<state, device, issued, sealed, booked>>
op == <<phase, hAge, req, todo, hand, answers, down, got>>
outside == <<net, identity, told>>
vars == <<row, hits, op, outside, restarts>>

-----------------------------------------------------------------------------
Vouchers == 1 .. MaxVouchers
Signals == Devices \cup Ips

Larger(m, n) == IF m >= n THEN m ELSE n
\* The oldest ages told apart: of a reservation in its row and as its holder
\* counts it, of a hit, of an identity.
IssuedCap == TTL
ToldCap == Larger(TTL, WINDOW) + HANDLER
HitCap == Larger(WINDOW + 1, HANDLER)
IdentityCap == HANDLER + 1

States == {"absent", "broadcast_unknown", "awaiting_chainlock", "available",
           "issued", "claimed", "failed"}
Phases == {"idle", "checking", "opening", "recycling", "chainlocks",
           "resending", "refilling", "minting"}
Requests == [device : Devices, ip : Ips, count : 1 .. MAX_PER_REQUEST]

\* Types; issued rows and only they are somebody's.
TypeOK ==
    /\ state \in [Vouchers -> States]
    /\ device \in [Vouchers -> Devices \cup {None}]
    /\ issued \in [Vouchers -> 0 .. IssuedCap \cup {None}]
    /\ \A v \in Vouchers : state[v] = "issued" => device[v] # None /\ issued[v] # None
    /\ sealed \in [Vouchers -> {"current", "old", None}]
    /\ booked \in [Vouchers -> {"owned", "locked", None}]
    /\ hits \in [Signals -> 0 .. HitCap \cup {None}]
    /\ phase \in Phases
    /\ hAge \in 0 .. HANDLER
    /\ req \in Requests \cup {None}
    /\ phase \in {"checking", "opening"} => req \in Requests
    /\ todo \subseteq Vouchers
    /\ hand \in Vouchers \cup {None}
    /\ phase \in {"resending", "minting"} => hand # None
    /\ answers \in [Vouchers -> {"yes", "no", "down", None}]
    /\ down \in BOOLEAN
    /\ got \subseteq Vouchers
    /\ net \in [Vouchers -> {"out", "mempool", "locked", "dead", None}]
    /\ identity \in [Vouchers -> 0 .. IdentityCap \cup {None}]
    /\ told \in [Vouchers -> [Devices -> 0 .. ToldCap \cup {None}]]
    /\ restarts \in 0 .. MaxRestarts

Init ==
    /\ state = [v \in Vouchers |-> "absent"]
    /\ device = [v \in Vouchers |-> None]
    /\ issued = [v \in Vouchers |-> None]
    /\ sealed = [v \in Vouchers |-> None]
    /\ booked = [v \in Vouchers |-> None]
    /\ hits = [k \in Signals |-> None]
    /\ phase = "idle" /\ hAge = 0 /\ req = None
    /\ todo = {} /\ hand = None /\ answers = [v \in Vouchers |-> None] /\ down = FALSE /\ got = {}
    /\ net = [v \in Vouchers |-> None]
    /\ identity = [v \in Vouchers |-> None]
    /\ told = [v \in Vouchers |-> [d \in Devices |-> None]]
    /\ restarts = 0

-----------------------------------------------------------------------------
In(states) == {v \in Vouchers : state[v] \in states}

\* The operation is over, the lock free and its locals gone.
Done ==
    /\ phase' = "idle" /\ hAge' = 0 /\ req' = None
    /\ todo' = {} /\ hand' = None /\ got' = {}
    /\ answers' = [v \in Vouchers |-> None] /\ down' = FALSE

\* DELETE FROM invitation_hits WHERE created_at < now - rateWindowMs
prune == [k \in Signals |-> IF hits[k] # None /\ hits[k] > WINDOW THEN None ELSE hits[k]]

InWindow(k) == hits[k] # None /\ hits[k] < WINDOW

\* Deviation: no answer within TIMEOUT_MS is taken for a 404.
SilenceIsNo(v, answer) ==
    \/ answer = "no"
    \/ answer = IF identity[v] # None THEN "yes" ELSE "no"

\* platformIdentityExists: true, false, or null when Platform does not answer.
PlatformSays(v, answer) ==
    \/ answer = "down"
    \/ answer = IF identity[v] # None THEN "yes" ELSE "no"

-----------------------------------------------------------------------------
(***************************************************************************)
(* issueInvitationLocked.                                                  *)
(***************************************************************************)
\* Vouchers this device holds and may be given again.  A device_hash is made with
\* the secret the row was sealed under: with another one it matches nobody.
Prior(d) ==
    {v \in Vouchers : state[v] = "issued" /\ device[v] = d /\ issued[v] < TTL /\ sealed[v] = "current"}

\* ORDER BY created_at LIMIT n
Oldest(S, n) ==
    {T \in SUBSET S :
        /\ Cardinality(T) = IF Cardinality(S) <= n THEN Cardinality(S) ELSE n
        /\ \A t \in T, s \in S \ T : t < s}

Recall(d, S) ==
    told' = [v \in Vouchers |-> IF v \in S THEN [told[v] EXCEPT ![d] = issued[v]] ELSE told[v]]

\* The reservation is still running: the same vouchers again.
Replay(r) ==
    /\ phase = "idle" /\ WINDOW > 0 /\ Prior(r.device) # {}
    /\ hits' = prune
    /\ Recall(r.device, Prior(r.device))
    /\ UNCHANGED <<row, op, net, identity, restarts>>

\* Refused by the window, or for want of vouchers.
Refuse(r) ==
    /\ phase = "idle" /\ (WINDOW > 0 => Prior(r.device) = {})
    /\ \/ WINDOW > 0 /\ (InWindow(r.ip) \/ InWindow(r.device))
       \/ In({"available"}) = {}
    /\ hits' = prune
    /\ UNCHANGED <<row, op, outside, restarts>>

BeginIssue(r) ==
    /\ phase = "idle"
    /\ WINDOW > 0 => Prior(r.device) = {} /\ ~InWindow(r.ip) /\ ~InWindow(r.device)
    /\ In({"available"}) # {}
    /\ hits' = prune
    /\ phase' = "checking" /\ req' = r
    /\ todo' \in Oldest(In({"available"}), r.count)
    /\ UNCHANGED <<row, hAge, hand, answers, down, got, outside, restarts>>

\* Promise.all over the batch's claim checks.
CheckClaims ==
    /\ phase = "checking"
    /\ answers' \in [Vouchers -> {"yes", "no", "down", None}]
    /\ \A v \in Vouchers : IF v \in todo THEN PlatformSays(v, answers'[v])
                                         ELSE answers'[v] = None
    /\ phase' = "opening"
    /\ UNCHANGED <<row, hits, hAge, req, todo, hand, down, got, outside, restarts>>

\* What the visit of v leaves of the request: vouchers opened, explorerDown.
Opens(v) == answers[v] = "no" /\ sealed[v] = "current"
GotBy(v) == IF Opens(v) THEN got \cup {v} ELSE got
DownBy(v) == down \/ answers[v] = "down"

\* Rows the request may turn to next: the batch's, then another batch.
NextBatches(v) ==
    IF todo # {v} THEN {todo \ {v}}
    ELSE IF DownBy(v) \/ Cardinality(GotBy(v)) >= req.count THEN {{}}
    ELSE Oldest(In({"available"}) \ {v}, req.count - Cardinality(GotBy(v)))

\* Deviation: the row does not say for whom it is reserved.
VisitUnowned(v) ==
    /\ state' = [state EXCEPT ![v] = IF answers[v] = "yes" THEN "claimed"
                                     ELSE IF Opens(v) THEN "issued" ELSE @]
    /\ sealed' = [sealed EXCEPT ![v] = IF answers[v] = "yes" THEN None ELSE @]
    /\ issued' = IF Opens(v) THEN [issued EXCEPT ![v] = hAge] ELSE issued
    /\ UNCHANGED device

\* An unanswered row stays; a claimed one loses its key; one that cannot be
\* decrypted keeps it; any other is handed out.
Visit(v) ==
    /\ state' = [state EXCEPT ![v] =
                    CASE answers[v] = "down" -> @
                      [] answers[v] = "yes" -> "claimed"
                      [] Opens(v) -> "issued"
                      [] OTHER -> "failed"]
    /\ sealed' = [sealed EXCEPT ![v] = IF answers[v] = "yes" THEN None ELSE @]
    /\ device' = IF Opens(v) THEN [device EXCEPT ![v] = req.device] ELSE device
    /\ issued' = IF Opens(v) THEN [issued EXCEPT ![v] = hAge] ELSE issued

\* Deviation: the hit of the device is not written.
RespondToIp(S) ==
    /\ hits' = [k \in Signals |-> IF S # {} /\ k = req.ip THEN hAge ELSE hits[k]]
    /\ told' = [v \in Vouchers |-> IF v \in S THEN [told[v] EXCEPT ![req.device] = hAge]
                                              ELSE told[v]]

\* A batch is one issuance for the window, however many vouchers it has.
Respond(S) ==
    /\ hits' = [k \in Signals |-> IF S # {} /\ k \in {req.device, req.ip} THEN hAge ELSE hits[k]]
    /\ told' = [v \in Vouchers |-> IF v \in S THEN [told[v] EXCEPT ![req.device] = hAge]
                                              ELSE told[v]]

\* The visit of one row; the last of a batch selects another or responds.
Open ==
    /\ phase = "opening"
    /\ \E v \in todo : \E rest \in NextBatches(v) :
        /\ Visit(v)
        /\ IF rest = {} THEN Respond(GotBy(v)) /\ Done
           ELSE /\ todo' = rest /\ got' = GotBy(v) /\ down' = DownBy(v)
                /\ phase' = IF todo = {v} THEN "checking" ELSE "opening"
                /\ answers' = [answers EXCEPT ![v] = None]
                /\ UNCHANGED <<hits, told, hAge, req, hand>>
    /\ UNCHANGED <<booked, net, identity, restarts>>

-----------------------------------------------------------------------------
(***************************************************************************)
(* maintainInvitationsLocked: recycle, follow up, refill.                  *)
(***************************************************************************)
Locals == <<hAge, req, answers, down, got>>

\* Deviation: a reservation is over a tick before its holder was told.
LapsedEarly(v) == state[v] = "issued" /\ issued[v] + 1 >= TTL

Lapsed(v) == state[v] = "issued" /\ issued[v] >= TTL

BeginMaintain ==
    /\ phase = "idle"
    /\ hits' = prune
    /\ phase' = "recycling"
    /\ todo' = {v \in Vouchers : Lapsed(v)}
    /\ UNCHANGED <<row, hand, Locals, outside, restarts>>

Return(v, answer) ==
    /\ state' = [state EXCEPT ![v] = CASE answer = "down" -> @
                                       [] answer = "yes" -> "claimed"
                                       [] answer = "no" -> "available"]
    /\ sealed' = [sealed EXCEPT ![v] = IF answer = "yes" THEN None ELSE @]
    /\ device' = IF answer = "no" THEN [device EXCEPT ![v] = None] ELSE device
    /\ issued' = IF answer = "no" THEN [issued EXCEPT ![v] = None] ELSE issued

Recycle ==
    /\ phase = "recycling" /\ todo # {}
    /\ \E v \in todo, answer \in {"yes", "no", "down"} :
        /\ PlatformSays(v, answer)
        /\ Return(v, answer)
        /\ todo' = todo \ {v}
    /\ UNCHANGED <<phase, hand, booked, hits, Locals, outside, restarts>>

RecycleEnds ==
    /\ phase = "recycling" /\ todo = {}
    /\ phase' = "chainlocks"
    /\ todo' = In({"broadcast_unknown", "awaiting_chainlock"})
    /\ UNCHANGED <<row, hand, hits, Locals, outside, restarts>>

\* getChainLockStatus fails, or finds the transaction without a ChainLock yet,
\* or does not find one the relays hold on to already.
StillWaiting(v) ==
    /\ todo' = todo \ {v}
    /\ UNCHANGED <<row, phase, hand, net>>

\* Deviation: a lock seen late is taken into stock without its spend.
ReadyUnbooked(v) ==
    /\ net[v] = "locked"
    /\ state' = [state EXCEPT ![v] = "available"]
    /\ todo' = todo \ {v}
    /\ UNCHANGED <<device, issued, sealed, booked, phase, hand, net>>

Ready(v) ==
    /\ net[v] = "locked"
    /\ state' = [state EXCEPT ![v] = "available"]
    /\ booked' = [booked EXCEPT ![v] = IF state[v] = "broadcast_unknown" THEN "owned" ELSE @]
    /\ todo' = todo \ {v}
    /\ UNCHANGED <<device, issued, sealed, phase, hand, net>>

\* Only a broadcast nobody could resolve, or a crash, is sent again.
Resend(v) ==
    /\ state[v] = "broadcast_unknown" /\ net[v] # "locked"
    /\ phase' = "resending" /\ hand' = v /\ todo' = todo \ {v}
    /\ UNCHANGED <<row, net>>

FollowUp ==
    /\ phase = "chainlocks"
    /\ \E v \in todo : StillWaiting(v) \/ Ready(v) \/ Resend(v)
    /\ UNCHANGED <<hits, Locals, identity, told, restarts>>

FollowUpEnds ==
    /\ phase = "chainlocks" /\ todo = {}
    /\ phase' = "refilling"
    /\ UNCHANGED <<row, hits, Locals, todo, hand, outside, restarts>>

(***************************************************************************)
(* settleBroadcast for the voucher in hand.  Relays are truthful: one that *)
(* accepts or knows a transaction has it, and when all reject it, it never *)
(* lands.  A resent row goes back to its loop, a minted one to the refill. *)
(***************************************************************************)
InHand(v) == phase \in {"resending", "minting"} /\ v = hand

Proceed(v) ==
    /\ phase' = IF phase = "minting" THEN "refilling" ELSE "chainlocks"
    /\ hand' = None
    /\ UNCHANGED <<todo, hits, Locals, device, issued, identity, told, restarts>>

Accepted(v) ==
    /\ InHand(v) /\ net[v] # "dead"
    /\ net' = [net EXCEPT ![v] = IF @ = "out" THEN "mempool" ELSE @]
    /\ state' = [state EXCEPT ![v] = "awaiting_chainlock"]
    /\ booked' = [booked EXCEPT ![v] = "owned"]
    /\ UNCHANGED sealed
    /\ Proceed(v)

\* Sent twice and looked up, and still nobody knows: the row keeps its key.
Uncertain(v) ==
    /\ InHand(v)
    /\ \/ UNCHANGED net
       \/ net[v] = "out" /\ net' = [net EXCEPT ![v] = "mempool"]
    /\ booked' = [booked EXCEPT ![v] = "locked"]
    /\ UNCHANGED <<state, sealed>>
    /\ Proceed(v)

\* Every relay rejected it: the key opens nothing and is erased.  A rejected
\* mint ends the refill.  Inputs are locked when they were missing.
Rejected(v) ==
    /\ InHand(v) /\ net[v] \in {"out", "dead"}
    /\ net' = [net EXCEPT ![v] = "dead"]
    /\ state' = [state EXCEPT ![v] = "failed"]
    /\ sealed' = [sealed EXCEPT ![v] = None]
    /\ \/ UNCHANGED booked
       \/ booked' = [booked EXCEPT ![v] = "locked"]
    /\ IF phase = "minting" THEN Done /\ UNCHANGED <<hits, device, issued, identity, told, restarts>>
                            ELSE Proceed(v)

Settle == \E v \in Vouchers : Accepted(v) \/ Uncertain(v) \/ Rejected(v)

\* counts.available + counts.preparing
Pipeline == Cardinality(In({"available", "broadcast_unknown", "awaiting_chainlock"}))

Fresh == {v \in In({"absent"}) : \A u \in In({"absent"}) : v <= u}

\* Deviation: the row is written without its key until the broadcast settles.
MintKeyless ==
    /\ phase = "refilling" /\ Pipeline < TARGET
    /\ \E v \in Fresh, landing \in {"out", "dead"} :
        /\ state' = [state EXCEPT ![v] = "broadcast_unknown"]
        /\ net' = [net EXCEPT ![v] = landing]
        /\ hand' = v
    /\ phase' = "minting"
    /\ UNCHANGED <<todo, device, issued, sealed, booked, hits, Locals, identity, told, restarts>>

\* A view, a build, the sealed key in a row, and only then the broadcast.  A
\* stale view may have picked coins that are gone.
Mint ==
    /\ phase = "refilling" /\ Pipeline < TARGET
    /\ \E v \in Fresh, landing \in {"out", "dead"} :
        /\ state' = [state EXCEPT ![v] = "broadcast_unknown"]
        /\ sealed' = [sealed EXCEPT ![v] = "current"]
        /\ net' = [net EXCEPT ![v] = landing]
        /\ hand' = v
    /\ phase' = "minting"
    /\ UNCHANGED <<todo, device, issued, booked, hits, Locals, identity, told, restarts>>

\* The inventory is full, or the view or the build failed.
RefillEnds ==
    /\ phase = "refilling"
    /\ Done
    /\ UNCHANGED <<row, hits, outside, restarts>>

\* The object is evicted at an await; only the rows survive.
Crash ==
    /\ phase # "idle" /\ restarts < MaxRestarts
    /\ restarts' = restarts + 1
    /\ Done
    /\ UNCHANGED <<row, hits, outside>>

\* A deployment with another INVITATION_SECRET: what is sealed under the old one
\* stays sealed, and no hit or reservation is recognised any more.
Rotate ==
    /\ phase = "idle" /\ restarts < MaxRestarts
    /\ restarts' = restarts + 1
    /\ sealed' = [v \in Vouchers |-> IF sealed[v] = "current" THEN "old" ELSE sealed[v]]
    /\ hits' = [k \in Signals |-> None]
    /\ UNCHANGED <<state, device, issued, booked, op, outside>>

-----------------------------------------------------------------------------
(***************************************************************************)
(* The network, Platform and time.  Coins locked or spent in the ledger are*)
(* spent by nothing else, so only an unbooked asset lock can die of that.  *)
(***************************************************************************)
Becomes(v, status) ==
    /\ net' = [net EXCEPT ![v] = status]
    /\ UNCHANGED <<row, hits, op, identity, told, restarts>>

ChainLock(v) == net[v] = "mempool" /\ Becomes(v, "locked")

Environment(v) ==
    \/ net[v] = "out" /\ Becomes(v, "mempool")
    \/ net[v] = "out" /\ booked[v] = None /\ Becomes(v, "dead")
    \/ net[v] = "mempool" /\ Becomes(v, "out")

\* Whoever was ever given the key may use it once the lock is final.
Redeem(v) ==
    /\ net[v] = "locked" /\ identity[v] = None
    /\ \E d \in Devices : told[v][d] # None
    /\ identity' = [identity EXCEPT ![v] = 0]
    /\ UNCHANGED <<row, hits, op, net, told, restarts>>

Older(age, cap) == IF age = None \/ age = cap THEN age ELSE age + 1

Tick ==
    /\ phase # "idle" => hAge < HANDLER
    /\ hAge' = IF phase = "idle" THEN hAge ELSE hAge + 1
    /\ issued' = [v \in Vouchers |-> Older(issued[v], IssuedCap)]
    /\ hits' = [k \in Signals |-> Older(hits[k], HitCap)]
    /\ identity' = [v \in Vouchers |-> Older(identity[v], IdentityCap)]
    /\ told' = [v \in Vouchers |-> [d \in Devices |-> Older(told[v][d], ToldCap)]]
    /\ UNCHANGED <<state, device, sealed, booked, phase, req, todo, hand, answers, down, got, net, restarts>>

-----------------------------------------------------------------------------
Issue ==
    \/ \E r \in Requests : Replay(r) \/ Refuse(r) \/ BeginIssue(r)
    \/ CheckClaims \/ Open

Maintain ==
    \/ BeginMaintain \/ Recycle \/ RecycleEnds
    \/ FollowUp \/ FollowUpEnds \/ Settle \/ Mint \/ RefillEnds

Next ==
    \/ Issue \/ Maintain
    \/ Crash \/ Rotate
    \/ \E v \in Vouchers : ChainLock(v) \/ Environment(v) \/ Redeem(v)
    \/ Tick

Spec == Init /\ [][Next]_vars

-----------------------------------------------------------------------------
(***************************************************************************)
(* Properties.                                                             *)
(***************************************************************************)
Current(v) == {d \in Devices : told[v][d] # None /\ told[v][d] < TTL}

Promise == INSTANCE Bearers WITH
    bearers <- [v \in Vouchers |-> Current(v)],
    known <- [v \in Vouchers |-> {d \in Devices : told[v][d] # None}],
    final <- {v \in Vouchers : net[v] = "locked"},
    redeemed <- {v \in Vouchers : identity[v] # None}

(***************************************************************************)
(* The inventory keeps the promise of Bearers: until the hour a recipient  *)
(* was told has run out no other device is given the voucher, whichever    *)
(* crash, replay or recycling comes between, and no voucher leaves before  *)
(* its asset lock is ChainLocked.                                          *)
(***************************************************************************)
KeepsPromise == Promise!Spec

(***************************************************************************)
(* An asset lock that is on the network and was not claimed has its key on *)
(* file: what is erased, lost in a crash or never written could not be     *)
(* redeemed by anyone, "irreversible once broadcast".                      *)
(***************************************************************************)
LockedFundsKeepKey ==
    \A v \in Vouchers :
        (net[v] \in {"mempool", "locked"} /\ identity[v] = None) => sealed[v] # None

(***************************************************************************)
(* A voucher counted on has its spend in the coin ledger, however its      *)
(* broadcast was resolved: by the relays, by a resend or by Core, later.   *)
(***************************************************************************)
ReadyIsBooked ==
    \A v \in In({"awaiting_chainlock", "available", "issued", "claimed"}) : booked[v] = "owned"

(***************************************************************************)
(* "Retire any voucher an old holder claimed after it was recycled": a     *)
(* voucher redeemed before a request came in is not handed out for it, and *)
(* a silent Platform is not taken for a no.                                *)
(***************************************************************************)
NoneGivenRedeemed ==
    [][\A v \in Vouchers :
        (state[v] = "available" /\ state'[v] = "issued" /\ identity[v] # None)
            => identity[v] <= hAge]_vars

(***************************************************************************)
(* "Each normalized IP and device gets one issuance (single or batch) per  *)
(* window": what a device is told within a window are vouchers of one      *)
(* issuance.  An eviction in the middle of one leaves vouchers issued and  *)
(* no hit behind, so it is promised of uninterrupted objects only.         *)
(***************************************************************************)
OneIssuancePerWindow ==
    [][(restarts = 0 /\ phase = "opening" /\ phase' = "idle" /\ told' # told) =>
        \A v \in Vouchers :
            LET before == told[v][req.device]
            IN  before = None \/ before - hAge >= WINDOW]_vars
=============================================================================
