# A TLA+ model of the Dash faucet

The faucet pays Dash to strangers from a Cloudflare Worker. It has no node of
its own: it hears of the network through explorers that lag and relays that
sometimes do not answer, it runs inside an object that can be evicted between
two awaits, and what it must never get wrong is money. This project models the
parts that decide about money, checks them with TLC and proves the most
important facts with TLAPS. Paths below are relative to the repository
(`src/treasury.ts` is the Treasury).

Run a check with `tlc -workers 2 -config MCLedger.cfg MCLedger`, a proof with
`tlapm Payouts_proofs.tla`. `PROJECT.json` lists the runs, the lines each
definition stands for, the hazards and the theorems.

## The system

| Component | State | Operations | Talks to |
|---|---|---|---|
| Treasury: payouts (`treasury.ts`, `accounts.ts`) | tables `claims`, `ip_hits`, `budget`, `api_keys`, `key_payouts`, `codes`, `code_redemptions`; the promise chain `queue` | `payout`, `snapshot`, `isActiveApiKey`, `createApiKey`, `revokeApiKey`, `issueOwnKey`, code RPCs | coin ledger, chain client |
| Treasury: coin ledger | tables `spent`, `pending`, `coinbase_checks` | `prune`, `reconcile`, `spendableUtxos`, `lockInputs`, `recordSpend`, `settleBroadcast` | chain client |
| Treasury: maintenance | table `merge_demand`, the alarm | `maintain`, `alarm`, `scheduleMaintenance` | coin ledger, coin selection |
| Treasury: invitations | tables `invitation_inventory`, `invitation_hits` | `issueInvitation`, `maintainInvitations`, `mintInvitation` | coin ledger, Platform explorer, ChainLocks |
| Captcha (`cap.ts`, `verifyCaptcha`) | table `used_cap`; nothing in the Worker | `mintChallenge`, `verifySolutions`, `verifyCapToken`, `consumeCapToken` | Worker, Treasury |
| Coin selection (`tx.ts`) | none | `selectInputs`, `selectMergeInputs`, `buildPayout`, `buildSplit`, `buildConsolidation`, `buildInvitationAssetLock` | |
| Chain client (`chain/index.ts`) | none of its own | `getUtxos`, `broadcast`, `anyKnowsTx`, `isCoinbase`, `getChainLockStatus` | providers, evonode directory |
| Evonode directory (`chain/evonodes.ts`) | list, bench, refresh in flight | `sample`, `bench`, `refresh` | quorum service |
| Login and portal (`auth.ts`, `portal.ts`) | sealed cookies in the browsers | `startLogin`, `finishLogin`, `loginResponse`, `handleMe`, `handleAdmin` | Treasury RPCs |
| API keys (`treasury.ts`, `accounts.ts`) | table `api_keys` | `mintKey`, `issueOwnKey`, `revokeApiKey`, `migrateAccounts` | Worker routes |

How they interact. The Worker answers a request with at most two calls to the
Treasury: burn the captcha token, then pay. The Treasury is a Durable Object:
one thread, but any other request runs wherever a handler awaits.
`serialize()` therefore chains everything that spends coins into one queue;
`consumeCapToken`, `revokeApiKey`, `updateCode` and the other small RPCs stay
outside of it and are atomic because they never await. A payout in the queue
awaits the explorers (coin view), then the relays (broadcast), and only then
writes its rows.

What is hard, and what has to hold all the same:

- *Silence.* A relay that does not answer may have taken the transaction. The
  faucet must not pay twice because of it, nor call a payment made that is not.
- *Stale explorers.* They list confirmed coins only, late. The ledger must not
  offer a coin that is spent, must not lose its own change, and must not keep a
  coin locked for ever.
- *Eviction* between the broadcast and the rows that record it.
- *Interleaving* of the queue with revocations and PATCHes.
- *Windows and boundaries*: an hour, a UTC day, a rolling day, token expiry,
  each compared on one side in one place and on the other in another.
- *Retries* by callers after each of these.
- *Strangers' nodes.* Evonodes are drawn at random and may lie, about the tip,
  a transaction or a coinbase.
- *Bearer keys.* A voucher is worth money to whoever holds its key, and the
  faucet recycles vouchers whose holder stays silent.
- *Feedback.* Payouts break coins up, splits make more of them, merges fewer: the
  maintenance must not chase its own tail.

The hazards are listed with their lines in `PROJECT.json`.

## Modules

| Module | Models | Depends on |
|---|---|---|
| `Payouts` | who is paid and how often: the queue, admission, the broadcast's outcome, the rows | |
| `Ledger` | which coins may be spent next: spent and pending rows against lagging explorers | |
| `CapToken` | challenges, capTokens, the spent-set | |
| `Bearers` | what the invitation faucet promises, abstractly | |
| `Invitations` | the voucher inventory: minting, ChainLocks, issuing, recycling | implements `Bearers` |
| `CoinSelection` | `tx.ts`: which coins a transaction spends, and the reference it is held to | |
| `Upkeep` | the wallet under payouts, splits and merges; the alarm | `CoinSelection` |
| `ChainClient` | providers and evonodes: the tip, reads, broadcasts, lookups, the directory | |
| `Accounts` | logins, sessions, CSRF, self-serve keys | |
| `MC*` | the instances TLC checks | the above |
| `Payouts_proofs` | the lock invariant; answers, revocation, rate limit; codes and keys; claims and the budget | `Payouts` |
| `CapToken_proofs` | theorems of `CapToken` | `CapToken` |
| `Invitations_proofs` | the inventory's invariants, its window and its refinement | `Invitations` |
| `Accounts_proofs` | the key limit, dead keys, whose writes | `Accounts` |
| `Ledger_proofs` | theorems of `Ledger`: all its safety properties | `Ledger` |
| `ChainClient_proofs` | theorems of `ChainClient`: all its properties | `ChainClient` |
| `CoinSelection_proofs` | that both selections are the best there are | `CoinSelection` |
| `Upkeep_proofs` | the wallet's shape, the alarm, the selections made in it | `Upkeep`, `CoinSelection_proofs` |

### Payouts

A request is *public*, *key* or *code* and names an address and what limits it
(an IP, a key, a code). `handler[c]` is where the call of client `c` stands;
`queue` is the chain of `serialize()`, whose head holds the lock.

| Code | Action |
|---|---|
| Worker calls `payout` (key checked by `isActiveApiKey`) | `Call` |
| `payoutLocked` up to its first await: `prune`, then admit, replay or refuse | `Admit`, `Replay`, `Refuse` |
| coin view and build fail, or `DRY_RUN` returns | `FailToBuild` |
| transaction built, about to be broadcast | `Build` |
| `settleBroadcast`: accepted (or known), rejected by all, in doubt, unknown to all | `BroadcastAccepted`, `BroadcastRejected`, `BroadcastAmbiguous`, `NobodyKnows` |
| `revokeApiKey`, `updateCode`, `snapshot` | `revokeApiKey`, `updateCode`, `Snapshot` |
| eviction, the network, the clock | `Crash`, `Land`, `Tick` |

Between two actions of one handler anything else may happen: that is where the
code awaits. The rows are sets of payment numbers: a row's recipient, IP, key,
code and `created_at` are those of the payment that wrote it, and its age is
compared exactly as in the SQL (`>` when counted, `<` when deleted). The
history variable `payments` keeps what really happened after the rows are
deleted, and `live` what the network did, so that the properties speak of money
and not of the rows.

Relays that answer are taken to be truthful. That is what `chain/index.ts`
works for, and what is proved of `ChainClient`: `SettledTruly`. Amounts are left out
but for the public payout, whose size the budget counts; the reserve check of
key and code payouts is one of the ways `FailToBuild` fails.

### Ledger

One operation at a time (the queue's promise, checked in `Payouts` as the lock
invariant), so `phase` is a single value: it takes the lock and prunes
(`Begin`), asks an explorer (`Fetch`), reconciles and builds from the view
(`Build`, or `Snapshot` which builds nothing), and settles the broadcast
(`Accepted`, `RejectedMissing`, `Rejected`, `Ambiguous`, `Unresolved`). Rows are
ages rather than times, measured from the operation's own `now`. Coin selection
is any set of coins of the view, so the results hold for every selection rule.
A transaction of `AssetLocks` is a voucher's: when its broadcast stayed
unresolved, `FollowUp` is `maintainInvitations` finding it ChainLocked later and
recording its spend then, at the time of *that* pass. It does so within `FOLLOW`
ticks of the broadcast. The bound matters: with `FOLLOW > SETTLED` the late
`recordSpend` writes a pending row for change that was spent and settled in the
meantime, and `SpentStaysSpent` fails for the hour until that row expires. The
run keeps `FOLLOW = SETTLED`.

The network is the other half: a sent transaction may land, is mined, and is
indexed by every eligible explorer within `LAG`; a mempool may drop one that
nothing builds on; an explorer's listing is any chain between what all have
indexed and what is mined. `Land` obeys the mempool's double-spend rule.

### CapToken

The Worker verifies a token (`verifyCapToken`) and later the Treasury burns it
(`consumeCapToken`, one synchronous turn): two actions with time, pruning and
other requests between them. A challenge's shape is the work it costs; `Retune`
is a deployment with other `CAP_*` values. Hash search and MACs are abstracted:
only the right solutions pass and nobody forges a token.

### Invitations

Both operations hold the queue's lock, and `phase` is where the one under way
awaits; rows are `state`, `device`, `issued`, `sealed` (under which secret the
key is encrypted) and `booked` (what the coin ledger holds of the asset lock).

| Code | Action |
|---|---|
| `issueInvitationLocked` up to its first await | `Replay`, `Refuse`, `BeginIssue` |
| `Promise.all` of `platformIdentityExists` over a batch | `CheckClaims` |
| the loop over its answers; next batch, or the hits and the response | `Open` (`Visit`, `NextBatches`, `Respond`) |
| `maintainInvitationsLocked`: lapsed reservations | `BeginMaintain`, `Recycle`, `RecycleEnds` |
| its follow-up of minted vouchers | `FollowUp` (`StillWaiting`, `Ready`, `Resend`), `FollowUpEnds` |
| `mintInvitation`: the row with its sealed key, then the broadcast | `Mint`, `RefillEnds` |
| `settleBroadcast` for the voucher in hand | `Settle` (`Accepted`, `Uncertain`, `Rejected`) |
| eviction, a deployment with another `INVITATION_SECRET` | `Crash`, `Rotate` |
| Core, Platform, a holder, the clock | `ChainLock`, `Environment`, `Redeem`, `Tick` |

`told[v][d]` is what the *recipients* know: the age of the reservation device
`d` was last told of, kept after the row has forgotten it. `Bearers` is stated
over it. Under the mapping in `Promise`, a bearer is a device whose reservation
of `TTL` has not lapsed, "known" is ever told, "final" is ChainLocked and
"redeemed" has an identity. Every step of `Invitations` is a step of `Bearers`
or a stutter: `Open` and `Replay` map to `Give`, `Tick` to `Lapse`, `ChainLock` to
`Finalize`, and no maintenance step is visible at all.

### Upkeep and CoinSelection

A wallet is a sequence of coins, largest first, with amounts of a few units.
`CoinSelection` translates `selectInputs` and `selectMergeInputs` and states what
a best choice is over *every* subset of the coins. `Upkeep` moves the wallet:

| Code | Action |
|---|---|
| `maintainLocked` by alarm or cron: `planMerge`, `planTidy`, `consolidate`, the split | `AlarmPass`, `CronPass` |
| a payout, its change, its follow-up, the `merge_demand` of a fragmented one | `Payout` |
| `scheduleMaintenance`: `getAlarm`, then `setAlarm` | the booking of each of these, then `SetAlarm` |
| the runtime's alarm | `Fire` |
| prune of `merge_demand`, a block | `DemandLapses`, `Block` |

An alarm may go off between the read and the write of a booking. `setAlarm`
also allows the outcome in which a later alarm has meanwhile come as near as
the one wanted.

### ChainClient

One operation at a time (the queue's lock); a step is what one `Promise.all` or
`allSettled` waits for, and the directory refreshes in between.

| Code | Action |
|---|---|
| `EvonodeDirectory.sample`, `bench`, `refresh`, `discover` | `Samples`, `Bench`, `BenchEnds`, `Listed` |
| `getUtxos`: `heights`, `surveyWith`, `tipHeight`, eligibility, the single retry | `StartRead`, `Heights`, `FallbackHeights`, `Succeeds`, `Fails`, `NobodyLeft` |
| `immatureTxids`, `isCoinbase` | `Classify`, `Take` |
| `broadcast`, `relay` | `StartBroadcast`, `Relay` |
| `settleBroadcast`: rebroadcast, `anyKnowsTx`, what it concludes | `Rebroadcast`, `Lookup`, `FallbackLookup`, `Report` |
| transactions travel between nodes | `Spread` |

What `getUtxos` has still to read is a set of places in the list of primaries,
not of providers, since two entries may be the same (`InTurn` is the loop's `i`).
`held` is the truth: which honest nodes have the transaction. Configured
providers may be stuck, lagging, silent or have taken a transaction in silence;
`Liars` say anything.

### Accounts

| Code | Action |
|---|---|
| `startLogin`; the provider's page | `StartLogin`, `Consent` |
| `finishLogin` up to the code exchange; `loginResponse` | `OpenCallback`, `FinishLogin` |
| `logout`, `GET /api/me` | `Logout`, `LoadPage` |
| `handleMe`, `handleAdmin`: session, `checkCsrf`, the Treasury call | `Request` |
| `issueOwnKey`, rotation, `revokeApiKey`, an admin's `createApiKey` | `Write` (`Perform`) |
| the constructor's `migrateAccounts` under another policy | `Restart` |

`wire` holds the logins and Treasury calls under way: a call carries what the
Worker read when it sent it, so it may arrive after a logout, a later login in
the same browser or a deployment with another policy. `page` is what an open tab
was loaded for; a callback link may be opened in any browser.

## What the runs show

| Run | Instance | Result |
|---|---|---|
| `payouts_public` | 2 clients, 3 addresses, 1 IP, 2 tiers (1 and 2 per hour), a budget of 2 payouts a day, 3 calls, two days, 1 eviction | passes, about 80 s |
| `payouts_keys` | 2 clients, 1 key (1 a day, expires), 1 code (1 or 2 redemptions, 1 PATCH), revocation at any time, 1 eviction; with fairness | passes, about 70 s |
| `payouts_twice` | 2 calls for one address | violates `PaidOncePerDay` |
| `ledger` | 2 deposits, 3 transactions, no eviction | passes, 5.3M states, about 100 s |
| `ledger_crash` | 1 deposit, 2 transactions, 1 eviction; with fairness | passes, 50k states |
| `ledger_congested` | as `ledger`, confirmation takes up to `PENDING_TTL_MS` | violates `AbsenceMeansSpent` |
| `captoken` | 2 requests, 2 challenges, 2 shapes of each tier | passes, 2.0M states |
| `captoken_reuse` | as `captoken` | violates `UsedOnce` |
| `invitations` | 2 devices, 2 IPs, 2 vouchers, batches of 1 or 2, 1 eviction or rotation | passes, 1.3M states, about 60 s; refines `Bearers` |
| `upkeep` | every wallet of up to 5 coins of 4 sizes, 3 payouts of 3 sizes, 2 fee rates; with fairness | passes, 220k states, about 80 s |
| `chain` | 2 primaries (one does not relay), 1 fallback, 3 evonodes of which 1 lies, a young coinbase and a young payment | passes, 490k states, about 20 s |
| `accounts` | 2 browsers, a member, an admin, an outsider, 2 logins, 2 keys, 2 calls in flight, 1 deployment | passes, 7.5M states, about 150 s |

**Payouts.** `SpendWithinBudget` sums the payments themselves, not the budget
row, over days that prune has already deleted. `RateLimitHolds` counts, for
each payment, the payments of its IP in the hour before it.
`TwiceOnlyWhenUnresolved` says what remains of "one payment per address and
day": two can be on the network only if one was never resolved or was lost in an
eviction. `OkMeansLive` says a reported txid is on the network. `KeyLimitHolds`
and `CodeOncePerAddress` count what is live, including broadcasts nobody could
resolve, which is why those are charged. `RevokedKeyStops` and
`ClosedCodePaysOnlyInFlight` say that only a payout already admitted can outlive
a revocation or a PATCH. `EveryCallAnswered` is liveness of the queue.

**Ledger.** `NoCompetition`: two of our transactions that may both confirm never
share a coin (those an eviction made us forget excepted).
`AbsenceMeansSpent`, `PhantomsExpire`, `SpentStaysSpent` and `OwnChangeStays`
are the four promises of the comments around `SPENT_SETTLED_MS`,
`PENDING_TTL_MS` and `reconcile`. `CoinsComeBack` is liveness of the release.
`SpentStaysSpent` and `OwnChangeStays` are only checked without eviction: a
broadcast that spends our own unconfirmed change and is then forgotten leaves
that change's pending row behind, and the coin is offered again until its TTL;
`PhantomsExpire` bounds the damage and is checked with eviction.

**CapToken.** `OnceWhileValid`, `HardTierIsEarned` and `HonestSolveRedeems` are
the three promises of `cap.ts` and `config.ts`.

**Invitations.** `KeepsPromise` is the refinement of `Bearers`: until the hour a
recipient was told has run out, no other device is given the same voucher, and
none leaves before its asset lock is final, whatever crash, silent Platform,
resend or recycling comes between. `LockedFundsKeepKey`: an asset lock on the
network that nobody claimed has its key in a row; the coins would be lost
otherwise. `ReadyIsBooked` ties the inventory to the coin ledger: a voucher
counted on has its spend recorded. `NoneGivenRedeemed` is the recheck of old
holders. `OneIssuancePerWindow` is promised of uninterrupted objects only: a crash
in the middle of `Open` leaves vouchers issued and no hit behind.

**Upkeep.** `SelectionIsBest` holds both selections to the reference on every
wallet that payouts, splits and merges lead to. `PassesComeInTime`: nobody who
asked for a pass waits longer for it than was asked, although `getAlarm` and
`setAlarm` are two awaits. `ComesToRest` is convergence: once payouts stop,
splits and merges stop too, for ever.

**ChainClient.** `LoneLieHarmless` (one liar cannot make every current source look
stale), `ReadsSoundly` (no read from a source behind what a configured provider
or most evonodes reported; no retry after a deadline), `ImmatureSitsOut` and
`SettledTruly`. The last is the assumption `Payouts`, `Ledger` and `Invitations` make of
a broadcast's outcome: "live" means a configured provider has the transaction,
"rejected" that no truthful node has it, not even one that will still pass it on.

**Accounts.** `CapExact`: no more live self-serve keys than the limit, across
rotations in flight together. `DeadStaysDead`: no migration revives a key.
`WritesAreOwn`: the Treasury is called only for the person the page showed, who
consented in that browser.

### Where the code and its words differ

1. `payouts_twice`: `README.md` promises that a second request for an address on
   one UTC day is a replay. After a broadcast nobody could resolve, the public
   path writes no claim (nor hit, nor budget), so a retry is paid from other
   coins while the first payment may be, or get, on the network. Keys and codes
   are charged in that case; the public path is not.
2. `captoken_reuse`: the comment in `prune` says a capToken past its expiry can
   never be accepted again. The Worker checks the expiry before it awaits the
   Treasury, which does not check it again but deletes expired rows first: of
   two requests that straddle the expiry, both are accepted.
3. `ledger_congested`: the comment on `SPENT_SETTLED_MS` says absence from the
   listing means the spend is on-chain. For our own change spent before it
   confirms it only means "not listed yet"; when confirmation takes more than
   half an hour the row is dropped while the spend is unconfirmed.

Met while modelling, and worth knowing, but not contradicted by any line that
promises otherwise:

- "The next block fixes unconfirmed coins with no merge at all" (comment in
  `payoutLocked`) is not always so. Of coins of 8, 3, 2 and 2 units only the 3 is confirmed and
  14 are asked for: after the block the payout needs all four, more than
  `maxPayoutInputs`. The caller's next attempt says "fragmented" and asks for the merge.
- The pool is counted up to collateral size, but only coins below twice the pool
  size are kept out of merges. A merge for a collateral coin can take the pool
  below `poolMin`, and the next pass splits again. It still comes to rest.
- A voucher in `awaiting_chainlock` is never sent again nor failed. One whose
  asset lock the mempool dropped keeps its place in the inventory for ever; so
  "the inventory refills" is not stated.
- The first six young transactions that nobody can classify are looked up again
  at every view, so later ones wait behind them (`MAX_COINBASE_LOOKUPS`).
- A Worker call sent under the old policy makes an expiring key after the
  migration to keys that do not expire. It dies like any other.
- `LoneLieHarmless` rests on every primary listing coins, which `config.ts` has on
  both networks: the lone evonode's vote is capped against the highest configured
  provider, and one that does not read coins could be ahead of those that do.

### Bounds, and why they are enough

- *Time* is in ticks. Every comparison of ages has both sides reachable: in
  `payouts_public` an hour is 2 ticks, a day 3, and the run spans two days and
  more than the retention, so windows open, close and are pruned. In `Ledger` a
  tick is half an hour: `SETTLED` is 1, `PENDING_TTL` 2, `STALE` 3 (a day in the
  code; only its order after the others matters). Ages past `AgeCap` are
  indistinguishable, so capping them loses nothing.
- *Retention* is one day in the instances and seven in the code. The proofs need
  only `RETENTION >= DAY`, which the module assumes by name.
- *Clients.* Two: the queue makes a third one wait behind the same promise, and
  the races are between one handler and one other request.
- *Payments.* Three calls allow an unresolved payment, a retry and a replay.
  Three transactions in `Ledger` allow change spent before it confirms and a
  competitor for either coin.
- *Crashes* are at most one: what the crash forgets is not consulted later, so
  a second adds no new order of events for these properties.
- *Vouchers.* Two, and a `TARGET` of two: a batch of both, one after the other,
  and a replay of either. `TTL` is 2 ticks of half an hour, `WINDOW` 3 (a week in the
  code, only longer than `TTL`), `HANDLER` 1: an operation that outlives its own
  reservation is excluded by name (`HANDLER < TTL`), since every await in it has
  a deadline of seconds against `TTL`'s hour.
- *Amounts* in `Upkeep` are chosen so that every relation of the deployed ones
  exists: a pool coin is 2, a collateral coin 12, deposits fall below, between
  and above, a payout of 5 needs several small coins, and more than
  `MAX_INPUTS = 3` of them at times. The run ends after three payouts, which
  convergence needs; before that they break the wallet in every order.
- *Evonodes.* Three with one liar, samples of all of them or, once benched, of
  fewer, down to the lone vote the cap is for. Two liars in a sample of three are
  a majority, and the code does not claim to survive one.
- *Accounts.* One key per user and two rows: a second live key, a rotation and a
  refused issue all occur. Two logins let a browser finish another's.
- *Symmetry* is used for clients, addresses, deposits, devices, browsers and evonodes that differ in name only, only in runs without
  liveness properties; no property names one of them.

### Fairness

`Payouts`: weak fairness of the steps of each client's handler. Every await of a
payout is an outbound call under `AbortSignal.timeout` (`chain/index.ts`,
`signal()`), so a handler that runs is answered; nothing is assumed of the
network's own actions or of callers. `Ledger`: the cron begins an operation again and
again, its steps end, explorers do not fail for ever (strong fairness of a
`Fetch` that answers), blocks are found, time passes. No fairness is assumed
of a transaction ever landing. `Upkeep`: the cron runs for ever and the lock is
first come, first served, so a pass that could change the wallet again and again
succeeds some time; that is `PassFairness`, strong fairness with its ENABLED
written out as `CanChange`. Bookings end, alarms go off, blocks are found (weak).
`Invitations`, `ChainClient` and `Accounts` state no liveness: see the third
observation above for the inventory; the others answer within their deadlines.

## What is proved

For every number of clients, addresses, keys, codes, devices, vouchers, people,
browsers, coins, transactions, providers and evonodes, and any limits, amounts and rates:

| Theorem | Module | Says |
|---|---|---|
| `TypeCorrect` | `Payouts_proofs` | `TypeOK` |
| `AnswersAreLive` | `Payouts_proofs` | `OkMeansLive` |
| `RevocationStops` | `Payouts_proofs` | `RevokedKeyStops` |
| `RateLimited` | `Payouts_proofs` | `RateLimitHolds` |
| `CodesPayOnce` | `Payouts_proofs` | `CodeOncePerAddress` |
| `KeysAreLimited` | `Payouts_proofs` | `KeyLimitHolds` |
| `ClosedCodesStay` | `Payouts_proofs` | `ClosedCodePaysOnlyInFlight` |
| `PaidTwiceOnlyUnresolved` | `Payouts_proofs` | `TwiceOnlyWhenUnresolved` |
| `SpendIsBounded` | `Payouts_proofs` | `SpendWithinBudget` |
| `CapTypeCorrect` | `CapToken_proofs` | `TypeOK` |
| `UsedOnceWhileValid` | `CapToken_proofs` | `OnceWhileValid` |
| `HardIsEarned` | `CapToken_proofs` | `HardTierIsEarned` |
| `HonestSolves` | `CapToken_proofs` | `HonestSolveRedeems` |
| `InventoryKeepsPromise` | `Invitations_proofs` | `KeepsPromise` (refinement of `Bearers`) |
| `KeysAreKept` | `Invitations_proofs` | `LockedFundsKeepKey` |
| `SpendsAreBooked` | `Invitations_proofs` | `ReadyIsBooked` |
| `NoneGivenRedeemedHolds` | `Invitations_proofs` | `NoneGivenRedeemed` |
| `OneIssuanceHolds` | `Invitations_proofs` | `OneIssuancePerWindow` |
| `TypesHold` | `Invitations_proofs` | `TypeOK` |
| `KeyCapHolds` | `Accounts_proofs` | `CapExact` |
| `DeadKeysStay` | `Accounts_proofs` | `DeadStaysDead` |
| `WritesAreTheirs` | `Accounts_proofs` | `WritesAreOwn` |
| `LedgerTypes` | `Ledger_proofs` | `TypeOK` |
| `CoinsSpentOnce` | `Ledger_proofs` | `NoCompetition`, if `LAG, FOLLOW <= SETTLED` |
| `AbsenceProved` | `Ledger_proofs` | `AbsenceMeansSpent`, if `LAG <= SETTLED` |
| `PhantomsBounded` | `Ledger_proofs` | `PhantomsExpire` |
| `ChangeIsKept` | `Ledger_proofs` | `OwnChangeStays`, if `LAG <= SETTLED` and `LAG <= PENDING_TTL` |
| `SpentCoinsAreGone` | `Ledger_proofs` | `SpentStaysSpent`, if `LAG, FOLLOW <= SETTLED` and nothing is evicted |
| `TypeCorrect` | `ChainClient_proofs` | `TypeOK` |
| `LoneLieHarmlessHolds` | `ChainClient_proofs` | `LoneLieHarmless` |
| `ReadsSoundlyHolds` | `ChainClient_proofs` | `ReadsSoundly` |
| `ImmatureSitsOutHolds` | `ChainClient_proofs` | `ImmatureSitsOut` |
| `SettledTrulyHolds` | `ChainClient_proofs` | `SettledTruly` |
| `PayoutChoiceIsOptimal` | `CoinSelection_proofs` | `PayoutChoiceIsBest`, of any wallet, target and rate |
| `MergeChoiceIsOptimal` | `CoinSelection_proofs` | `MergeChoiceIsBest`, of any wallet, target, limit and rate |
| `TypeCorrect` | `Upkeep_proofs` | `TypeOK` |
| `PassesComeInTimeHolds` | `Upkeep_proofs` | `PassesComeInTime` |
| `SelectionIsBestHolds` | `Upkeep_proofs` | `SelectionIsBest` |

The argument for `Payouts`. `Core` is `TypeOK /\ LockInv`: only the head of the
queue runs, and what it has broadcast is the last payment, still open, with the
handler's own request and time. `LockInv` is what makes a payment's row mean
what the handler checked at admission, and none of the properties is inductive
without it: the check and the write are several actions apart. `Core` is proved
first; lemma `StepCases` then sorts the steps by what they do to the history
(build one payment, settle one, forget them in a crash, or leave it alone), and
each property's invariant is shown for these few kinds rather than for every
action. `RevocationStops` carries the gate from admission (`GateInv`: a running
key payout was admitted before its key's revocation and expiry).
`RateLimited` carries `HitInv`: the hits young enough to count are all still in
the table, and a running public payout found fewer than its tier's limit. The
proof's heart is that prune deletes at `now - HOUR` while the window is open at
the handler's earlier time, and that a handler's time never runs behind another
payment's.

Codes and keys (`RedemptionInv`, `KeyInv`) have a row for every payment that is
committed or unresolved; together with `FateInv` (an open payment has a handler
at work on it, a rejected one is not live) that covers everything on the network
that no crash lost. `ClosedCodesStay` is an action property: a running
redemption was admitted by its code's row as it stands, or the row was patched
no earlier than the admission. Claims and the budget (`ClaimInv`, `BudgetInv`)
are deleted after `RETENTION`; the proofs show that a row is there as long as
its day can be asked about, which is where `RETENTION >= DAY` and a little
arithmetic of `\div` come in, and that the budget row equals what was committed.

The argument for `CapToken`: `Inductive` strengthens `OnceWhileValid` with "a
used token is in the spent-set or expired". The assumption that every hard shape
costs more than every soft one (`CapAssumption`) is what `HardTierIsEarned`
needs; the deployed values satisfy it by a factor of ten.

The argument for `Invitations`. `IInv` says what an operation may rely on after
an await: the rows its loop has still to visit are in the state it selected them
for (`Selected`), what it opened is still reserved for its request (`Opened`),
and Platform's answers are no older than itself (`Answers`). All three hold
because one lock covers both operations. `Reserved` then ties what a device was
told to the row: until its hour has run out the row is issued to that device, and
its own age is not ahead of the age the device counts, so that recycling, which
goes by the row, comes too late to break a promise. `Final` and `Unminted` say
that what is in stock is ChainLocked and what was never built is nowhere. A
response is `Bearers`' `Give`, a tick its `Lapse`, a ChainLock its `Finalize`.
The assumption `HANDLER < TTL` (an operation is over within a reservation: minutes
against an hour) is needed: a response comes with a running reservation.

`OneIssuancePerWindow` needs an invariant of its own, `Windowed`, because the hit
of a device is written with the response, later than the rows are issued, and
because a replay tells again of what was issued long before. As long as no
object was evicted or redeployed, what a device was told within the window has
a hit no older (`HitsTell`), so has a reservation in a row, unless the request
under way made it (`HitsIssue`), and a request under way is one the window let
in when its "now" was read (`Admitted`). A replay needs the second for the first,
admission the first for the third, and the response the third for both. Most
steps leave all of it alone (`CalmSteps`); pruning keeps every hit that still
covers something.

The argument for `Accounts`. `CapExact` is inductive as it stands, given types:
counting and writing a key are one transaction. `WritesAreOwn` needs `LoginInv`:
a login state is drawn once, for one browser; a link, a session cookie and the
token in a page are each traced back to the login they came from.

The argument for `Ledger`. What holds whatever the durations is `Grounds`: two
transactions on the network share no input (`NetInv`), each is older than what
spends it and than the operation under way (`HistInv`), a listing shows only what
is there (`ListInv`), and a row is no older than any transaction it is about
(`RowInv`). None of the promises is inductive without that last part: `reconcile`
judges a coin by the age of its *row*, and the spend it stands for may be of
another transaction than the one that wrote it last. With `LAG <= SETTLED` a row
old enough to be dropped stands for spends every explorer has indexed, so absence
proves them (`DroppedIsOld`). `Masked` is what protects a coin: an input of a
transaction in play has a spent row, or that transaction is indexed, no listing
shows the coin and no pending row stands for it (`Gone`). Only `recordSpend` could
bring such a coin back, by a late pending row for it, which `FOLLOW <= SETTLED`
excludes (`GoneStays`). The two conditions on durations are hypotheses of the
theorems rather than assumptions of the module, because the code does not enforce
them: `ledger_congested` shows what happens without the first, and the paragraph
on `Ledger` above what happens without the second. `ChangeIsKept` holds with
evictions as well, although `ledger` checks it without.

The argument for `ChainClient`. `Surveying` is what the two awaits of a read
leave behind: the heights read came from every primary and some evonodes, and
from the fallbacks only where no evonode answered; what is still to be read is
eligible by them and did not run into its deadline. Everything else is
arithmetic of `tipHeight`: the lower median is the least of the heights that
at least half of the voters do not exceed, so a height most of them reach is no
higher (`MostAreBelow`), with one liar among two or more it is no higher than the
true tip (`MedianIsTrue`), and a vote of one is capped (`CurrentIsEligible`). `SettledTruly` needs
`Unsent`: until a relay was asked, and as long as every one of the first round
said no, no truthful node has the transaction. The module assumes that `None`
is no height and no answer.

The argument for `CoinSelection`. Of the `k` coins of a set with the lowest
positions, which are the largest, any `k` others have at most the sum
(`LargestDominates`): wherever the list is cut, the former has as many coins
before the cut (`Dominates`). Hence if any `k` coins cover a target the `k`
largest do, and the least such `k` is the answer (`PrefixesSuffice`). A merge
takes a mix of largest and smallest; of all sets of its size that hold the
`n - j` smallest, the mix with the `j` largest is worth the most
(`MixDominates`), so the first mix that covers the target sweeps the most small
coins any choice can. Sums are recursive functions; that a function with the
sum's equation exists is shown by the least set for which it would not, with the
library's `WFMin`, since induction itself cannot be cited here. The
wallet is in order, the target any integer, the rate and the limit any natural.

The argument for `Upkeep`. A `Purse` is what `TypeOK` asks of the wallet, and
what `CoinSelection`'s theorems assume: every plan (`MergePlan`, `RefillPlan`,
`PayoutBuilt`) names coins of the wallet and outputs worth something, and taking
coins out and inserting others keeps the order (`RestKeepsOrder`,
`InsertedKeepsOrder`). `SelectionIsBest` follows in every wallet. The alarm's
argument is `SinceRead`: between the read and the write of a booking the alarm is
what was read, or it has gone off and its pass is queued, so a write for a later
time cannot undo an earlier one.

Only model-checked: liveness (`EveryCallAnswered`, `CoinsComeBack`,
`ComesToRest`), which is out of this prover's reach. Every other property a
passing run checks is a theorem.

## What is not modelled

- In `Payouts`, amounts but the public one, and the reserve. `Upkeep` has amounts,
  but a wallet of a few coins and fees linear in the inputs; dust limits, signing
  and serialisation are left out.
- Several transactions under one `now` (the refill loop of
  `maintainInvitationsLocked` reads its time once): `Ledger` gives each its own.
- The end of a coinbase verdict after a day: its coin matured long before.
- Clock skew between Worker and Treasury: one clock. Finding 2 needs none.
- A dry run's answer: `DRY_RUN` reports a txid that is on no network by design;
  `FailToBuild` stands for its end, as it leaves no trace.
- The operator's bearer token, labels, lists and the creation of codes: one
  synchronous transaction each, with nothing to interleave.
- Turnstile's `siteverify` and the edge rate limiter: services with one answer.
- Vouchers of other amounts after a change of configuration.
- Wire formats, HTTP parsing, cryptography, keys and addresses, the browser pages,
  deployment.

## Plan

What is left, in this order:

1. Progress after a `txn-mempool-conflict`: a rejection that locks nothing, after
   an eviction forgot a live spend, may choose the same coins again.
2. The inventory's refill, should stuck vouchers ever be failed.
