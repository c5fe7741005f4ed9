------------------------------ MODULE Payouts ------------------------------
(***************************************************************************)
(* Who gets paid, and how often: Treasury.payout, its admission rules and  *)
(* the rows it commits (src/src/treasury.ts, src/src/accounts.ts).         *)
(*                                                                         *)
(* One Durable Object serves every caller.  serialize() runs payouts one   *)
(* at a time, but other requests interleave wherever a payout awaits: a    *)
(* key can be revoked and a code patched while a payout is on the network. *)
(* The network itself decides whether a transaction is live; the faucet    *)
(* only hears an answer, or none.                                          *)
(*                                                                         *)
(* Abstractions.  A payment is numbered in the order it is built.  A row of*)
(* claims, ip_hits, key_payouts or code_redemptions is represented by the  *)
(* payment that wrote it: its recipient, ip, key, code and created_at are  *)
(* those of the payment.  Coins are not modelled here (see Ledger): an     *)
(* unresolved broadcast locks its inputs, so a later payout spends other   *)
(* coins and both transactions can be live.  Key and code amounts are left *)
(* out; a public payout is always PayoutSats.                              *)
(***************************************************************************)
EXTENDS Integers, Sequences, FiniteSets

CONSTANTS
    Callers,        \* clients, each with at most one request outstanding
    Addresses, Ips, Keys, Codes,
    Tiers,          \* captcha strengths: soft, turnstile, hard
    RateLimit,      \* RateLimit[tier]: payouts per IP in any HOUR
    PayoutSats,     \* PAYOUT_SATS
    DailyBudget,    \* DAILY_BUDGET_SATS
    PerDay,         \* PerDay[key]: payouts per key in any DAY, or Never
    KeyExpiry,      \* KeyExpiry[key]: expires_at, or Never
    CodeMaxima,     \* max_redemptions values an admin may set
    CodeExpiries,   \* expires_at values an admin may set
    HOUR, DAY,      \* HOUR_MS and DAY_MS, in ticks
    RETENTION,      \* seven days: how long claims and budget rows are kept
    DryRun,         \* DRY_RUN
    MaxTime, MaxCalls, MaxPatches, MaxCrashes,  \* bounds of a behaviour
    Never,          \* SQL NULL
    NoTier          \* the tier of a request that is not public

ASSUME LimitsAssumption ==
    /\ RateLimit \in [Tiers -> Nat]
    /\ PayoutSats \in Nat
    /\ DailyBudget \in Nat
    /\ PerDay \in [Keys -> Nat \cup {Never}]
    /\ KeyExpiry \in [Keys -> Nat \cup {Never}]
    /\ CodeMaxima \subseteq Nat
    /\ CodeExpiries \subseteq Nat \cup {Never}
    /\ Never \notin Nat
    /\ NoTier \notin Tiers
    /\ DryRun \in BOOLEAN

ASSUME TimeAssumption ==
    /\ HOUR \in Nat \ {0}
    /\ DAY \in Nat \ {0}
    /\ RETENTION \in Nat /\ RETENTION >= DAY
    /\ MaxTime \in Nat
    /\ MaxCalls \in Nat
    /\ MaxPatches \in Nat
    /\ MaxCrashes \in Nat

VARIABLES
    now,            \* Date.now(), in ticks
    queue,          \* the promise chain of serialize(): its head holds the lock
    handler,        \* handler[c]: where the call of c stands
    payments,       \* every transaction built, in order
    live,           \* the payments that are on the network
    claims, ipHits, keyPayouts, redemptions,    \* rows, as payment numbers
    budget,         \* budget[day]: satoshis, 0 when there is no row
    keys,           \* keys[k]: revoked_at, or Never
    codes,          \* codes[k]: the row of table codes
    calls, patches, crashes                     \* counters for the bounds

tables == <<claims, ipHits, keyPayouts, redemptions, budget>>
counters == <<calls, patches, crashes>>
vars == <<now, queue, handler, payments, live, tables, keys, codes, counters>>

-----------------------------------------------------------------------------
Time == 0 .. MaxTime
utcDay(t) == t \div DAY
Days == {utcDay(t) : t \in Time}

(***************************************************************************)
(* A request names what it is limited by in "who": an ip, a key or a code. *)
(***************************************************************************)
Requests ==
    [kind : {"public"}, address : Addresses, who : Ips, tier : Tiers]
    \cup [kind : {"key"}, address : Addresses, who : Keys, tier : {NoTier}]
    \cup [kind : {"code"}, address : Addresses, who : Codes, tier : {NoTier}]

NoRequest == [kind |-> "none", address |-> Never, who |-> Never, tier |-> NoTier]

(***************************************************************************)
(* "open" until the handler that built it decides; "lost" when the Durable *)
(* Object dies first.  Only "rejected" says that no relay holds it.        *)
(***************************************************************************)
Outcomes == {"open", "committed", "uncertain", "rejected", "lost"}
Payment == [req : Requests, at : Time, outcome : Outcomes]

InFlight == {"viewing", "broadcasting", "rebroadcasting", "asking"}
Broadcasting == InFlight \ {"viewing"}

\* tx is the payment being made, or the one the last call of c was told of
Handler == [pc : {"idle", "queued"} \cup InFlight,
            req : Requests \cup {NoRequest}, at : Time, tx : Nat]

CodeRow == [max : CodeMaxima, expiresAt : CodeExpiries, disabled : BOOLEAN,
            redemptions : Nat, updatedAt : Time]

TypeOK ==
    /\ now \in Time
    /\ queue \in Seq(Callers)
    /\ handler \in [Callers -> Handler]
    /\ payments \in Seq(Payment)
    /\ live \subseteq DOMAIN payments
    /\ claims \subseteq DOMAIN payments
    /\ ipHits \subseteq DOMAIN payments
    /\ keyPayouts \subseteq DOMAIN payments
    /\ redemptions \subseteq DOMAIN payments
    /\ budget \in [Days -> Nat]
    /\ keys \in [Keys -> Time \cup {Never}]
    /\ codes \in [Codes -> CodeRow]
    /\ calls \in 0 .. MaxCalls
    /\ patches \in 0 .. MaxPatches
    /\ crashes \in 0 .. MaxCrashes

Init ==
    /\ now = 0
    /\ queue = <<>>
    /\ handler = [c \in Callers |->
                    [pc |-> "idle", req |-> NoRequest, at |-> 0, tx |-> 0]]
    /\ payments = <<>>
    /\ live = {}
    /\ claims = {} /\ ipHits = {} /\ keyPayouts = {} /\ redemptions = {}
    /\ budget = [d \in Days |-> 0]
    /\ keys = [k \in Keys |-> Never]
    /\ \E m \in [Codes -> CodeMaxima], e \in [Codes -> CodeExpiries] :
        codes = [k \in Codes |-> [max |-> m[k], expiresAt |-> e[k], disabled |-> FALSE,
                                  redemptions |-> 0, updatedAt |-> 0]]
    /\ calls = 0 /\ patches = 0 /\ crashes = 0

-----------------------------------------------------------------------------
Req(t) == payments[t].req
At(t) == payments[t].at
Outcome(t) == payments[t].outcome

(***************************************************************************)
(* The admission rules, each read inside the lock at the time t of Admit.  *)
(***************************************************************************)
KeyActive(k, t) ==
    /\ keys[k] = Never
    /\ KeyExpiry[k] # Never => KeyExpiry[k] > t

KeyHits(k, t) == {p \in keyPayouts : Req(p).who = k /\ At(p) > t - DAY}

\* Deviation: trust the Worker's isActiveApiKey and only count inside the lock.
authorizeWithoutRecheck(k, t) ==
    PerDay[k] # Never => Cardinality(KeyHits(k, t)) < PerDay[k]

authorizeKeyPayout(k, t) ==
    /\ KeyActive(k, t)
    /\ PerDay[k] # Never => Cardinality(KeyHits(k, t)) < PerDay[k]

CodeRedeemable(row, t) ==
    /\ ~row.disabled
    /\ row.expiresAt # Never => row.expiresAt > t
    /\ row.redemptions < row.max

\* Deviation: look only for this address's redemption, not at the row's state.
checkAddressOnly(k, address, t) ==
    ~\E p \in redemptions : Req(p).who = k /\ Req(p).address = address

checkCode(k, address, t) ==
    /\ CodeRedeemable(codes[k], t)
    /\ ~\E p \in redemptions : Req(p).who = k /\ Req(p).address = address

\* The claim row of this address today, if any: at most one by its primary key.
PriorClaims(address, t) ==
    {p \in claims : Req(p).address = address /\ utcDay(At(p)) = utcDay(t)}

IpHitsOf(ip, t) == {p \in ipHits : Req(p).who = ip /\ At(p) > t - HOUR}

\* Deviation: refuse only once the budget is spent, so the last payout overshoots.
PublicAllowedToOvershoot(r, t) ==
    /\ PriorClaims(r.address, t) = {}
    /\ Cardinality(IpHitsOf(r.who, t)) < RateLimit[r.tier]
    /\ budget[utcDay(t)] < DailyBudget

PublicAllowed(r, t) ==
    /\ PriorClaims(r.address, t) = {}
    /\ Cardinality(IpHitsOf(r.who, t)) < RateLimit[r.tier]
    /\ budget[utcDay(t)] + PayoutSats <= DailyBudget

Admissible(r, t) ==
    \/ r.kind = "public" /\ PublicAllowed(r, t)
    \/ r.kind = "key" /\ authorizeKeyPayout(r.who, t)
    \/ r.kind = "code" /\ checkCode(r.who, r.address, t)

(***************************************************************************)
(* prune(): the deletions among these tables.  Key payouts and redemptions *)
(* are kept for ever.                                                      *)
(***************************************************************************)
\* Deviations: a deleted budget row read without its default of 0; ip_hits
\* emptied at midnight as if they were counted per UTC day.
pruneWithoutDefault(t) ==
    /\ ipHits' = {p \in ipHits : At(p) >= t - HOUR}
    /\ claims' = {p \in claims : At(p) >= t - RETENTION}
    /\ budget' = [d \in DOMAIN budget \ {e \in Days : e < utcDay(t - RETENTION)} |-> budget[d]]
    /\ UNCHANGED <<keyPayouts, redemptions>>

pruneHitsByDay(t) ==
    /\ ipHits' = {p \in ipHits : utcDay(At(p)) = utcDay(t)}
    /\ claims' = {p \in claims : At(p) >= t - RETENTION}
    /\ budget' = [d \in Days |-> IF d < utcDay(t - RETENTION) THEN 0 ELSE budget[d]]
    /\ UNCHANGED <<keyPayouts, redemptions>>

prune(t) ==
    /\ ipHits' = {p \in ipHits : At(p) >= t - HOUR}
    /\ claims' = {p \in claims : At(p) >= t - RETENTION}
    /\ budget' = [d \in Days |-> IF d < utcDay(t - RETENTION) THEN 0 ELSE budget[d]]
    /\ UNCHANGED <<keyPayouts, redemptions>>

-----------------------------------------------------------------------------
(***************************************************************************)
(* The Worker turns away a key that is not active before it queues.        *)
(***************************************************************************)
Call(c) ==
    /\ handler[c].pc = "idle"
    /\ calls < MaxCalls
    /\ \E r \in Requests :
        /\ r.kind = "key" => KeyActive(r.who, now)
        /\ handler' = [handler EXCEPT ![c] = [@ EXCEPT !.pc = "queued", !.req = r, !.tx = 0]]
    /\ queue' = Append(queue, c)
    /\ calls' = calls + 1
    /\ UNCHANGED <<now, payments, live, tables, keys, codes, patches, crashes>>

\* Deviation: a refused or failed call leaves the chain blocked behind it.
AnswerHoldingLock(c, tx) ==
    /\ handler' = [handler EXCEPT ![c] =
                    [@ EXCEPT !.pc = "idle", !.req = NoRequest, !.at = 0, !.tx = tx]]
    /\ queue' = IF tx = 0 THEN queue ELSE Tail(queue)

\* The call of c is over; the next one in the chain may run.
Answer(c, tx) ==
    /\ handler' = [handler EXCEPT ![c] =
                    [@ EXCEPT !.pc = "idle", !.req = NoRequest, !.at = 0, !.tx = tx]]
    /\ queue' = Tail(queue)

\* Deviation: payouts are not serialized; any queued one may run.
HoldsNoLock(c) == \E i \in DOMAIN queue : queue[i] = c

HoldsLock(c) == queue # <<>> /\ Head(queue) = c

(***************************************************************************)
(* payoutLocked up to its first await: prune, then admit, replay or refuse.*)
(* An admitted key payout may still be refused for its amount.             *)
(***************************************************************************)
Admit(c) ==
    /\ HoldsLock(c) /\ handler[c].pc = "queued"
    /\ Admissible(handler[c].req, now)
    /\ prune(now)
    /\ handler' = [handler EXCEPT ![c] = [@ EXCEPT !.pc = "viewing", !.at = now]]
    /\ UNCHANGED <<now, queue, payments, live, keys, codes, counters>>

Replay(c) ==
    /\ HoldsLock(c) /\ handler[c].pc = "queued" /\ handler[c].req.kind = "public"
    /\ \E p \in PriorClaims(handler[c].req.address, now) : Answer(c, p)
    /\ prune(now)
    /\ UNCHANGED <<now, payments, live, keys, codes, counters>>

Refuse(c) ==
    /\ HoldsLock(c) /\ handler[c].pc = "queued"
    /\ LET r == handler[c].req IN
        \/ r.kind = "key"
        \/ ~Admissible(r, now) /\ (r.kind = "public" => PriorClaims(r.address, now) = {})
    /\ Answer(c, 0)
    /\ prune(now)
    /\ UNCHANGED <<now, payments, live, keys, codes, counters>>

(***************************************************************************)
(* The coin view and the build.  Every way they fail (no provider, too few *)
(* or too fragmented coins, the reserve, self-pay) answers without a trace *)
(* in these tables, and so does a dry run.                                 *)
(***************************************************************************)
FailToBuild(c) ==
    /\ handler[c].pc = "viewing"
    /\ Answer(c, 0)
    /\ UNCHANGED <<now, payments, live, tables, keys, codes, counters>>

Build(c) ==
    /\ handler[c].pc = "viewing"
    /\ ~DryRun
    /\ payments' = Append(payments, [req |-> handler[c].req, at |-> handler[c].at,
                                     outcome |-> "open"])
    /\ handler' = [handler EXCEPT ![c] = [@ EXCEPT !.pc = "broadcasting",
                                                   !.tx = Len(payments) + 1]]
    /\ UNCHANGED <<now, queue, live, tables, keys, codes, counters>>

-----------------------------------------------------------------------------
(***************************************************************************)
(* The rows a payment writes, all at its handler's own "now".              *)
(***************************************************************************)
recordClaim(p) ==
    /\ claims' = (claims \ PriorClaims(Req(p).address, At(p))) \cup {p}
    /\ ipHits' = ipHits \cup {p}
    /\ budget' = [budget EXCEPT ![utcDay(At(p))] = @ + PayoutSats]
    /\ UNCHANGED <<keyPayouts, redemptions, codes>>

recordKeyPayout(p) ==
    /\ keyPayouts' = keyPayouts \cup {p}
    /\ UNCHANGED <<claims, ipHits, budget, redemptions, codes>>

recordRedemption(p) ==
    /\ redemptions' = redemptions \cup {p}
    /\ codes' = [codes EXCEPT ![Req(p).who].redemptions = @ + 1]
    /\ UNCHANGED <<claims, ipHits, budget, keyPayouts>>

Decide(p, outcome) == payments' = [payments EXCEPT ![p].outcome = outcome]

\* The broadcast is settled as live: commit and answer with the txid.
Commit(c) ==
    LET p == handler[c].tx IN
    /\ p \in live
    /\ \/ Req(p).kind = "public" /\ recordClaim(p)
       \/ Req(p).kind = "key" /\ recordKeyPayout(p)
       \/ Req(p).kind = "code" /\ recordRedemption(p)
    /\ Decide(p, "committed")
    /\ Answer(c, p)

\* Deviation: an unresolved payout charges nobody.
UnresolvedUncharged(c) ==
    /\ UNCHANGED <<tables, codes>>
    /\ Decide(handler[c].tx, "uncertain")
    /\ Answer(c, 0)

(***************************************************************************)
(* Nobody could say whether it is live.  A key or a code is charged as if  *)
(* it were; the public path writes nothing.                                *)
(***************************************************************************)
Unresolved(c) ==
    LET p == handler[c].tx IN
    /\ \/ Req(p).kind = "public" /\ UNCHANGED <<tables, codes>>
       \/ Req(p).kind = "key" /\ recordKeyPayout(p)
       \/ Req(p).kind = "code" /\ recordRedemption(p)
    /\ Decide(p, "uncertain")
    /\ Answer(c, 0)

(***************************************************************************)
(* settleBroadcast.  A relay that answers is truthful: "accepted" means    *)
(* the transaction is live and a rejection by all means it is not.  When   *)
(* the first broadcast left any doubt, a later rejection proves nothing.   *)
(***************************************************************************)
BroadcastAccepted(c) ==
    /\ handler[c].pc \in Broadcasting
    /\ Commit(c)
    /\ UNCHANGED <<now, live, keys, counters>>

BroadcastRejected(c) ==
    /\ handler[c].pc = "broadcasting"
    /\ handler[c].tx \notin live
    /\ Decide(handler[c].tx, "rejected")
    /\ Answer(c, 0)
    /\ UNCHANGED <<now, live, tables, keys, codes, counters>>

BroadcastAmbiguous(c) ==
    /\ \/ /\ handler[c].pc = "broadcasting"
          /\ handler' = [handler EXCEPT ![c].pc = "rebroadcasting"]
       \/ /\ handler[c].pc = "rebroadcasting"
          /\ handler' = [handler EXCEPT ![c].pc = "asking"]
    /\ UNCHANGED <<now, queue, payments, live, tables, keys, codes, counters>>

\* Deviation: anyKnowsTx's null is taken for a yes.
NobodyKnowsIsSuccess(c) ==
    /\ handler[c].pc = "asking"
    /\ Decide(handler[c].tx, "committed")
    /\ Answer(c, handler[c].tx)
    /\ UNCHANGED <<now, live, tables, keys, codes, counters>>

NobodyKnows(c) ==
    /\ handler[c].pc = "asking"
    /\ Unresolved(c)
    /\ UNCHANGED <<now, live, keys, counters>>

-----------------------------------------------------------------------------
(***************************************************************************)
(* The network: a transaction no relay rejected may reach the mempool at   *)
(* any time after it was sent, whatever became of its handler.             *)
(***************************************************************************)
Land(p) ==
    /\ p \notin live
    /\ Outcome(p) # "rejected"
    /\ live' = live \cup {p}
    /\ UNCHANGED <<now, queue, handler, payments, tables, keys, codes, counters>>

\* Not serialized: it takes effect between any two steps of a payout.
revokeApiKey(k) ==
    /\ keys[k] = Never
    /\ keys' = [keys EXCEPT ![k] = now]
    /\ UNCHANGED <<now, queue, handler, payments, live, tables, codes, counters>>

\* Not serialized, and it does not look at the redemptions already made.
updateCode(k) ==
    /\ patches < MaxPatches
    /\ \E max \in CodeMaxima, e \in CodeExpiries, d \in BOOLEAN :
        codes' = [codes EXCEPT ![k] = [@ EXCEPT !.max = max, !.expiresAt = e,
                                                !.disabled = d, !.updatedAt = now]]
    /\ patches' = patches + 1
    /\ UNCHANGED <<now, queue, handler, payments, live, tables, keys, calls, crashes>>

\* snapshot() and the cron prune too, when it is their turn in the queue.
Snapshot ==
    /\ queue = <<>>
    /\ prune(now)
    /\ UNCHANGED <<now, queue, handler, payments, live, keys, codes, counters>>

(***************************************************************************)
(* The Durable Object is evicted: the queue and every handler die with it, *)
(* the rows stay.  A payment whose fate was open is lost to the faucet.    *)
(***************************************************************************)
Crash ==
    /\ crashes < MaxCrashes
    /\ queue # <<>>
    /\ crashes' = crashes + 1
    /\ queue' = <<>>
    /\ handler' = [c \in Callers |->
                    IF handler[c].pc = "idle" THEN handler[c]
                    ELSE [pc |-> "idle", req |-> NoRequest, at |-> 0, tx |-> 0]]
    /\ payments' = [p \in DOMAIN payments |->
                    IF Outcome(p) = "open"
                    THEN [payments[p] EXCEPT !.outcome = "lost"] ELSE payments[p]]
    /\ UNCHANGED <<now, live, tables, keys, codes, calls, patches>>

Tick ==
    /\ now < MaxTime
    /\ now' = now + 1
    /\ UNCHANGED <<queue, handler, payments, live, tables, keys, codes, counters>>

-----------------------------------------------------------------------------
Step(c) ==
    \/ Admit(c) \/ Replay(c) \/ Refuse(c)
    \/ FailToBuild(c) \/ Build(c)
    \/ BroadcastAccepted(c) \/ BroadcastRejected(c)
    \/ BroadcastAmbiguous(c) \/ NobodyKnows(c)

Next ==
    \/ \E c \in Callers : Call(c) \/ Step(c)
    \/ \E p \in DOMAIN payments : Land(p)
    \/ \E k \in Keys : revokeApiKey(k)
    \/ \E k \in Codes : updateCode(k)
    \/ Snapshot
    \/ Crash
    \/ Tick

Spec == Init /\ [][Next]_vars

\* Every await of a payout has a deadline (AbortSignal.timeout), so it ends.
FairSpec == Spec /\ \A c \in Callers : WF_vars(Step(c))
-----------------------------------------------------------------------------
(***************************************************************************)
(* Properties.                                                             *)
(***************************************************************************)
PaymentsOf(kind) == {p \in DOMAIN payments : Req(p).kind = kind}
Committed(kind) == {p \in PaymentsOf(kind) : Outcome(p) = "committed"}

\* On the network, and its handler lived to decide about it (or still runs).
Accounted(kind) == {p \in PaymentsOf(kind) : p \in live /\ Outcome(p) # "lost"}

(***************************************************************************)
(* The public payouts committed for one UTC day never exceed the budget of *)
(* that day: the sum over the payments themselves, whatever became of the  *)
(* budget row since (payoutLocked's check, its upsert after the broadcast, *)
(* prune's deletion, a midnight in between).                               *)
(***************************************************************************)
SpendWithinBudget ==
    \A d \in Days :
        PayoutSats * Cardinality({p \in Committed("public") : utcDay(At(p)) = d})
            <= DailyBudget

(***************************************************************************)
(* A public payment is, in the hour up to it, at most the RateLimit[tier]th*)
(* of its IP, for the tier it was admitted under; a replay, a refusal or a *)
(* failed build does not count.                                            *)
(***************************************************************************)
RateLimitHolds ==
    \A p \in Committed("public") :
        Cardinality({q \in Committed("public") :
                        q <= p /\ Req(q).who = Req(p).who /\ At(q) > At(p) - HOUR})
            <= RateLimit[Req(p).tier]

(***************************************************************************)
(* Two public payments to one address in one UTC day are on the network    *)
(* only if the faucet never learnt the fate of one of them: a broadcast    *)
(* nobody could resolve, or a crash before the claim row was written.      *)
(***************************************************************************)
TwiceOnlyWhenUnresolved ==
    \A p, q \in PaymentsOf("public") \cap live :
        /\ p # q
        /\ Req(p).address = Req(q).address
        /\ utcDay(At(p)) = utcDay(At(q))
        => "committed" # Outcome(p) \/ "committed" # Outcome(q)

(***************************************************************************)
(* What README.md says of the public faucet: a second request for the same *)
(* address on the same UTC day is a replay "rather than paying again".     *)
(***************************************************************************)
PaidOncePerDay ==
    \A p, q \in PaymentsOf("public") \cap live :
        (Req(p).address = Req(q).address /\ utcDay(At(p)) = utcDay(At(q))) => p = q

(***************************************************************************)
(* A txid is only ever reported to a caller, new or replayed, for a        *)
(* transaction that is on the network.                                     *)
(***************************************************************************)
OkMeansLive ==
    \A c \in Callers :
        (handler[c].pc = "idle" /\ handler[c].tx # 0) => handler[c].tx \in live

(***************************************************************************)
(* A key is never paid more often than its per-day allowance, counting what*)
(* is really on the network: an unresolved payout is charged as if it were *)
(* live, so a retry cannot collect a second collateral.                    *)
(***************************************************************************)
KeyLimitHolds ==
    \A p \in Accounted("key") :
        PerDay[Req(p).who] # Never =>
            Cardinality({q \in Accounted("key") :
                            q <= p /\ Req(q).who = Req(p).who /\ At(q) > At(p) - DAY})
                <= PerDay[Req(p).who]

(***************************************************************************)
(* Revocation takes effect against the very next payout: no payment is made*)
(* with a key by a payout admitted after revoked_at, though the Worker may *)
(* have found the key active before it queued.  Nor after its expiry.      *)
(***************************************************************************)
RevokedKeyStops ==
    \A p \in PaymentsOf("key") :
        /\ keys[Req(p).who] # Never => At(p) <= keys[Req(p).who]
        /\ KeyExpiry[Req(p).who] # Never => At(p) < KeyExpiry[Req(p).who]

\* One code pays one address at most once, unresolved broadcasts included.
CodeOncePerAddress ==
    \A p, q \in Accounted("code") :
        (Req(p).who = Req(q).who /\ Req(p).address = Req(q).address) => p = q

(***************************************************************************)
(* A code that is exhausted, disabled or expired is redeemed by no payout  *)
(* but one already running when it was patched: only its own row decides,  *)
(* whatever the order of redemptions and PATCHes.                          *)
(***************************************************************************)
ClosedCodePaysOnlyInFlight ==
    [][\A k \in Codes : codes'[k].redemptions > codes[k].redemptions =>
            \E p \in redemptions' \ redemptions :
                /\ Req(p).who = k
                /\ \/ CodeRedeemable(codes[k], At(p))
                   \/ codes[k].updatedAt >= At(p)]_vars

\* Every call is answered, however the calls before it in the queue ended.
EveryCallAnswered ==
    \A c \in Callers : (handler[c].pc # "idle") ~> (handler[c].pc = "idle")
-----------------------------------------------------------------------------
(***************************************************************************)
(* The inductive invariant behind the properties, part by part.            *)
(***************************************************************************)
Running(c) == handler[c].pc \in InFlight

\* Only the head of the queue runs, and what it broadcasts is the last payment.
LockInv ==
    \A c \in Callers :
        /\ handler[c].pc # "idle" => handler[c].req \in Requests
        /\ handler[c].at <= now
        /\ Running(c) => HoldsLock(c)
        /\ handler[c].pc \in Broadcasting =>
                /\ Len(payments) > 0
                /\ handler[c].tx = Len(payments)
                /\ payments[Len(payments)] = [req |-> handler[c].req,
                                              at |-> handler[c].at, outcome |-> "open"]

\* An open payment has a handler at work on it; the faucet calls a payment committed
\* only if it is live, and rejected only if it is not and never will be.
FateInv ==
    \A p \in DOMAIN payments :
        /\ Outcome(p) = "open" =>
            \E c \in Callers : handler[c].pc \in Broadcasting /\ handler[c].tx = p
        /\ Outcome(p) = "rejected" => p \notin live
        /\ Outcome(p) = "committed" => p \in live

\* Rows young enough to matter are still there.
ClaimInv ==
    /\ claims \subseteq Committed("public")
    /\ \A p \in Committed("public") : At(p) >= now - RETENTION => p \in claims
    /\ \A c \in Callers : Running(c) /\ handler[c].req.kind = "public" =>
        \A p \in Committed("public") :
            Req(p).address = handler[c].req.address =>
                utcDay(At(p)) # utcDay(handler[c].at)

HitInv ==
    /\ \A p \in Committed("public") : At(p) >= now - HOUR => p \in ipHits
    /\ \A c \in Callers : Running(c) /\ handler[c].req.kind = "public" =>
        /\ \A p \in Committed("public") : At(p) > handler[c].at - HOUR => p \in ipHits
        /\ Cardinality(IpHitsOf(handler[c].req.who, handler[c].at))
                < RateLimit[handler[c].req.tier]

CommittedOn(d) == {p \in Committed("public") : utcDay(At(p)) = d}

BudgetInv ==
    /\ \A d \in Days : d >= utcDay(now - RETENTION) =>
            budget[d] = PayoutSats * Cardinality(CommittedOn(d))
    /\ \A c \in Callers : Running(c) /\ handler[c].req.kind = "public" =>
        /\ budget[utcDay(handler[c].at)]
                = PayoutSats * Cardinality(CommittedOn(utcDay(handler[c].at)))
        /\ budget[utcDay(handler[c].at)] + PayoutSats <= DailyBudget

KeyWindow(p) == {q \in keyPayouts : q <= p /\ Req(q).who = Req(p).who
                                     /\ At(q) > At(p) - DAY}

KeyInv ==
    /\ \A p \in PaymentsOf("key") :
        Outcome(p) \in {"committed", "uncertain"} => p \in keyPayouts
    /\ keyPayouts \subseteq PaymentsOf("key")
    /\ \A p \in keyPayouts : Outcome(p) # "open"
    /\ \A p \in keyPayouts : PerDay[Req(p).who] # Never =>
            Cardinality(KeyWindow(p)) <= PerDay[Req(p).who]
    /\ \A c \in Callers :
        /\ Running(c) /\ handler[c].req.kind = "key"
        /\ PerDay[handler[c].req.who] # Never
        => Cardinality(KeyHits(handler[c].req.who, handler[c].at)) < PerDay[handler[c].req.who]

RedemptionInv ==
    /\ \A p \in PaymentsOf("code") :
        Outcome(p) \in {"committed", "uncertain"} => p \in redemptions
    /\ redemptions \subseteq PaymentsOf("code")
    /\ \A p, q \in redemptions :
        (Req(p).who = Req(q).who /\ Req(p).address = Req(q).address) => p = q
    /\ \A c \in Callers : Running(c) /\ handler[c].req.kind = "code" =>
        \A p \in redemptions : ~ (Req(p).who = handler[c].req.who
                                   /\ Req(p).address = handler[c].req.address)
=============================================================================
