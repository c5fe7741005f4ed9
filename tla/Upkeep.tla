------------------------------- MODULE Upkeep -------------------------------
(***************************************************************************)
(* The shape of a Treasury's wallet: payouts break it up, maintenance keeps*)
(* a pool of small coins for bursts, a coin that can pay a masternode      *)
(* collateral, and little else (src/src/treasury.ts, maintain).            *)
(*                                                                         *)
(* Every operation here holds the promise queue's lock and is one step; the*)
(* alarm it books is two, because getAlarm and setAlarm are awaited one    *)
(* after the other and the alarm may go off in between.  Which broadcasts  *)
(* come to nothing, and what that does to the coins, is Ledger's concern:  *)
(* here a pass or a payout either happens or does not.                     *)
(*                                                                         *)
(* Amounts are small integers in place of duffs.  An alarm is booked for   *)
(* "soon" (FOLLOW_UP_MS) or "later" (CONFIRMATION_POLL_MS).                *)
(***************************************************************************)
EXTENDS CoinSelection, SequencesExt, TLC

CONSTANTS
    POOL,               \* poolUtxoSats
    POOL_MIN,           \* poolMin
    POOL_TARGET,        \* poolTarget
    COLLATERAL,         \* COLLATERAL_COIN_SATS
    COLLATERAL_COINS,   \* collateralCoins; merging is on
    MAX_INPUTS,         \* maxPayoutInputs
    LOOSE_MAX,          \* LOOSE_COINS_MAX
    HEADROOM,           \* COIN
    Deposits, MaxDeposits,  \* amounts sent to the faucet, and how many start
    PublicAmount, KeyAmounts,
    MaxPayouts,
    FeeRates,
    None

ASSUME UpkeepAssumption ==
    /\ POOL \in Nat \ {0} /\ POOL_MIN \in Nat /\ POOL_TARGET \in Nat /\ POOL_MIN <= POOL_TARGET
    /\ COLLATERAL \in Nat /\ COLLATERAL > 2 * POOL /\ COLLATERAL_COINS \in Nat \ {0}
    /\ MAX_INPUTS \in Nat \ {0, 1} /\ LOOSE_MAX \in Nat /\ HEADROOM \in Nat
    /\ Deposits \subseteq Nat \ {0} /\ MaxDeposits \in Nat
    /\ PublicAmount \in Nat \ {0} /\ KeyAmounts \subseteq Nat \ {0} /\ MaxPayouts \in Nat
    /\ FeeRates \subseteq Nat /\ None \notin Nat /\ None \notin {"soon", "later"}

VARIABLES
    wallet,     \* the spendable view, largest coin first
    demand,     \* the amounts of merge_demand
    rate,       \* the network's fee
    payouts,    \* payouts so far
    alarm,      \* what getAlarm would answer
    queued,     \* an alarm went off and waits for the lock
    booking,    \* a scheduleMaintenance under way: what it wants, what it read
    due         \* the pass a finished scheduleMaintenance stands for

vars == <<wallet, demand, rate, payouts, alarm, queued, booking, due>>

-----------------------------------------------------------------------------
Coin(sats, confirmed) == [sats |-> sats, confirmed |-> confirmed]
Before(c, d) == c.sats > d.sats \/ (c.sats = d.sats /\ c.confirmed /\ ~d.confirmed)
Insert(w, c) ==
    LET ahead == Cardinality({i \in Coins(w) : ~Before(c, w[i])})
    IN  InsertAt(w, ahead + 1, c)
Inserted(w, coins) ==
    LET upTo[i \in 0 .. Len(coins)] == IF i = 0 THEN w ELSE Insert(upTo[i - 1], coins[i])
    IN  upTo[Len(coins)]
Sorted(coins) == Inserted(<<>>, coins)

Rest(w, S) ==
    LET kept == Coins(w) \ S
    IN  [k \in 1 .. Cardinality(kept) |-> w[Max(Largest(kept, k))]]

\* The wallet after a transaction over the coins of S with our outputs outs.
After(w, S, outs) == Inserted(Rest(w, S), [k \in DOMAIN outs |-> Coin(outs[k], FALSE)])

NoPass == [action |-> "none", inputs |-> {}, outs |-> <<>>, demand |-> {}]

Of(w, low, high) == {i \in Coins(w) : w[i].sats >= low /\ w[i].sats < high}
Biggest(w) == IF w = <<>> THEN 0 ELSE w[1].sats

-----------------------------------------------------------------------------
(***************************************************************************)
(* Planning a pass.                                                        *)
(***************************************************************************)
\* Deviation: every pool coin may be merged.
materialWithPool(w, goal) == Of(w, 1, goal)

\* Coins below the goal but the smallest POOL_TARGET pool coins.
material(w, goal) ==
    Of(w, 1, goal) \ Smallest(Of(w, POOL, 2 * POOL) \cap Of(w, 1, goal), POOL_TARGET)

\* ... nor the kept collateral coins, the smallest that qualify.
spare(w, goal) ==
    material(w, goal)
        \ Smallest(material(w, goal) \cap {i \in Coins(w) : w[i].sats >= COLLATERAL},
                   COLLATERAL_COINS)

mergeMaterial(w, goal) ==
    IF SumOf(w, spare(w, goal)) >= goal THEN spare(w, goal) ELSE material(w, goal)

\* Deviation: what the fee leaves of a merge is not looked at.
MergeUnchecked(w, S, r) ==
    [NoPass EXCEPT !.action = "consolidate", !.inputs = S,
                   !.outs = <<SumOf(w, S) - feeCeiling(Cardinality(S), r)>>]

Merge(w, S, r) ==
    LET merged == SumOf(w, S) - feeCeiling(Cardinality(S), r)
    IN  IF merged > 0 THEN [NoPass EXCEPT !.action = "consolidate", !.inputs = S, !.outs = <<merged>>]
                      ELSE [NoPass EXCEPT !.action = "blocked"]

\* Merge, perhaps only partway, wait for coins still confirming, or nothing.
planMerge(w, goal, r) ==
    LET coins == mergeMaterial(w, goal)
        confirmed == coins \cap Confirmed(w)
        choice == selectMergeInputs(w, confirmed, goal, MAX_INPUTS, r)
        stuck == ~choice.reaches /\ (Cardinality(choice.inputs) < 2 \/ choice.inputs = confirmed)
    IN  IF SumOf(w, coins) < goal \/ (stuck /\ coins = confirmed) THEN NoPass
        ELSE IF stuck THEN [NoPass EXCEPT !.action = "waiting"]
        ELSE Merge(w, choice.inputs, r)

planTidy(w, r) ==
    LET loose == spare(w, COLLATERAL) \cap Confirmed(w)
    IN  IF Cardinality(loose) <= LOOSE_MAX THEN NoPass
        ELSE Merge(w, Smallest(loose, MAX_INPUTS), r)

\* mergeDemand drops what some coin now meets; consolidate drops what no merge
\* reaches, rather than let it hold up a collateral coin.  Largest goal first.
consolidate(w, wanted, r) ==
    LET unmet == {d \in wanted : d > Biggest(w)}
        goal == IF unmet = {} THEN 0 ELSE Max(unmet)
        missing == Cardinality({i \in Coins(w) : w[i].sats >= COLLATERAL}) < COLLATERAL_COINS
        larger == IF goal = 0 THEN NoPass ELSE planMerge(w, goal, r)
        collateral == IF missing THEN planMerge(w, COLLATERAL, r) ELSE NoPass
        demandFirst == goal > COLLATERAL \/ collateral.action = "none"
        chosen == IF demandFirst /\ larger.action # "none" THEN larger ELSE collateral
        dropped == IF demandFirst /\ larger.action = "none" THEN {goal} ELSE {}
    IN  [(IF chosen.action = "none" THEN planTidy(w, r) ELSE chosen)
            EXCEPT !.demand = unmet \ dropped]

\* Split the largest coin below collateral size that can fund two pool coins; if
\* there is none, merge one; if that cannot help either, split what there is.
refill(w, wanted, r) ==
    LET lacking == POOL_TARGET - Cardinality(Of(w, POOL, COLLATERAL))
        splittable == {i \in Coins(w) : w[i].sats < COLLATERAL /\ 99 * w[i].sats >= 200 * POOL}
        merge == planMerge(w, (200 * POOL + 98) \div 99, r)
        biggest == w[IF splittable # {} THEN Min(splittable) ELSE 1].sats
        count == Min({lacking, (99 * biggest) \div (100 * POOL)})
        change == biggest - count * POOL - feeCeiling(1, r)
        split == [k \in 1 .. count |-> POOL] \o (IF change > 0 THEN <<change>> ELSE <<>>)
        plan == IF splittable = {} /\ merge.action \in {"consolidate", "blocked"} THEN merge
                ELSE IF w = <<>> \/ count < 2 \/ change < 0 THEN [NoPass EXCEPT !.action = "blocked"]
                ELSE [NoPass EXCEPT !.action = "split", !.outs = split,
                                    !.inputs = {IF splittable # {} THEN Min(splittable) ELSE 1}]
    IN  [plan EXCEPT !.demand = wanted]

maintainLocked(w, wanted, r) ==
    IF Cardinality(Of(w, POOL, COLLATERAL)) >= POOL_MIN THEN consolidate(w, wanted, r)
                                                        ELSE refill(w, wanted, r)

-----------------------------------------------------------------------------
(***************************************************************************)
(* scheduleMaintenance: what was booked is read, then an alarm is set if   *)
(* there is none or a later one.                                           *)
(***************************************************************************)
NoBooking == UNCHANGED booking
Book(want) == booking' = [want |-> want, seen |-> alarm]

\* Deviation: an alarm that is booked stays as it is, however far off.
setAlarmIfNone ==
    /\ alarm' = IF booking.seen = None THEN booking.want ELSE alarm
    /\ UNCHANGED queued

\* A later alarm may have come as near as the one wanted.
setAlarm ==
    /\ alarm' \in
        (IF booking.seen = None THEN {booking.want}
         ELSE IF booking.seen = "later" /\ booking.want = "soon"
              THEN {"soon", IF alarm = None THEN None ELSE "soon"}
         ELSE {alarm})
    /\ UNCHANGED queued

SetAlarm ==
    /\ booking # None
    /\ setAlarm
    /\ due' = IF due = "soon" THEN "soon" ELSE booking.want
    /\ booking' = None
    /\ UNCHANGED <<wallet, demand, rate, payouts>>

\* The runtime clears the alarm, and its handler queues for the lock.
Fire ==
    /\ alarm # None
    /\ alarm' = None /\ queued' = TRUE
    /\ UNCHANGED <<wallet, demand, rate, payouts, booking, due>>

-----------------------------------------------------------------------------
(***************************************************************************)
(* A pass, from the alarm or the cron.  It may come to nothing: no explorer*)
(* answers, or the broadcast is not accepted.                              *)
(***************************************************************************)
FollowUp(action) ==
    CASE action \in {"split", "consolidate"} -> Book("soon")
      [] action = "waiting" -> Book("later")
      [] OTHER -> NoBooking

Works(plan) ==
    /\ wallet' = IF plan.inputs = {} THEN wallet ELSE After(wallet, plan.inputs, plan.outs)
    /\ demand' = plan.demand
    /\ FollowUp(plan.action)

maintain(comes) ==
    /\ booking = None
    /\ \E plan \in {maintainLocked(wallet, demand, rate)} :
        \/ comes /\ Works(plan)
        \/ ~comes /\ UNCHANGED <<wallet, booking>> /\ demand' \in {demand, plan.demand}
    /\ due' = None
    /\ UNCHANGED <<rate, payouts, alarm>>

AlarmPass(comes) == queued /\ maintain(comes) /\ queued' = FALSE
CronPass(comes) == maintain(comes) /\ UNCHANGED queued

-----------------------------------------------------------------------------
(***************************************************************************)
(* Payouts: buildPayoutSparingCollateral, and what payoutLocked makes of a *)
(* wallet too fragmented for it.                                           *)
(***************************************************************************)
buildPayout(w, offered, amount, r) ==
    LET choice == selectInputs(w, offered, amount, r)
    IN  IF Cardinality(choice.inputs) > MAX_INPUTS THEN [choice EXCEPT !.outcome = "fragmented"]
                                                   ELSE choice

sparingCollateral(w, amount, r, forCollateral) ==
    LET small == {i \in Coins(w) : w[i].sats < COLLATERAL}
        choice == buildPayout(w, small, amount, r)
    IN  IF ~forCollateral /\ choice.outcome = "ok" THEN choice
                                                   ELSE buildPayout(w, Coins(w), amount, r)

Paid(amount, inputs, key) ==
    LET change == SumOf(wallet, inputs) - amount - feeCeiling(Cardinality(inputs), rate)
    IN  /\ wallet' = After(wallet, inputs, IF change > 0 THEN <<change>> ELSE <<>>)
        /\ IF key \/ \E i \in inputs : wallet[i].sats >= COLLATERAL THEN Book("soon") ELSE NoBooking
        /\ UNCHANGED demand

\* More coins than a transaction carries: asks for a merge, if one could help.
Fragmented(amount) ==
    /\ UNCHANGED wallet
    /\ IF planMerge(wallet, amount + HEADROOM, rate).action = "none"
       THEN UNCHANGED demand /\ NoBooking
       ELSE demand' = demand \cup {amount + HEADROOM} /\ Book("soon")

Payout(amount, key, forCollateral) ==
    /\ booking = None /\ payouts < MaxPayouts
    /\ payouts' = payouts + 1
    /\ LET choice == sparingCollateral(wallet, amount, rate, forCollateral)
       IN  CASE choice.outcome = "ok" -> Paid(amount, choice.inputs, key)
             [] choice.outcome = "fragmented" -> Fragmented(amount)
             [] choice.outcome = "unconfirmed" -> Book("soon") /\ UNCHANGED <<wallet, demand>>
             [] choice.outcome = "insufficient" -> NoBooking /\ UNCHANGED <<wallet, demand>>
    /\ UNCHANGED <<rate, alarm, queued, due>>

\* prune: demands are an hour old.
DemandLapses ==
    /\ demand # {} /\ booking = None
    /\ demand' = {}
    /\ UNCHANGED <<wallet, rate, payouts, alarm, queued, booking, due>>

\* A block confirms what was in flight.
Block ==
    /\ Confirmed(wallet) # Coins(wallet)
    /\ wallet' = [i \in DOMAIN wallet |-> Coin(wallet[i].sats, TRUE)]
    /\ UNCHANGED <<demand, rate, payouts, alarm, queued, booking, due>>

-----------------------------------------------------------------------------
Wallets == {Sorted([i \in DOMAIN s |-> Coin(s[i], TRUE)]) : s \in BoundedSeq(Deposits, MaxDeposits)}

Init ==
    /\ wallet \in Wallets
    /\ demand = {} /\ rate \in FeeRates /\ payouts = 0
    /\ alarm = None /\ queued = FALSE /\ booking = None /\ due = None

Pays ==
    \/ Payout(PublicAmount, FALSE, FALSE)
    \/ \E amount \in KeyAmounts : Payout(amount, TRUE, FALSE)
    \/ Payout(COLLATERAL - HEADROOM, TRUE, TRUE)

Next ==
    \/ \E comes \in BOOLEAN : AlarmPass(comes) \/ CronPass(comes)
    \/ SetAlarm \/ Fire
    \/ Pays \/ DemandLapses \/ Block

Spec == Init /\ [][Next]_vars

(***************************************************************************)
(* The cron runs for ever and the lock is first come, first served; neither*)
(* explorers nor relays fail for ever; alarms go off and blocks are found. *)
(* PassFairness is SF_wallet of a pass, its ENABLED written out.           *)
(***************************************************************************)
CanChange == booking = None /\ maintainLocked(wallet, demand, rate).inputs # {}
PassFairness == []<>CanChange => []<><<CronPass(TRUE) \/ AlarmPass(TRUE)>>_wallet

FairSpec ==
    /\ Spec /\ PassFairness
    /\ WF_vars(SetAlarm) /\ WF_vars(Fire) /\ WF_vars(Block)

-----------------------------------------------------------------------------
(***************************************************************************)
(* Properties.                                                             *)
(***************************************************************************)
Waits == {None, "soon", "later"}
Goals == {PublicAmount, COLLATERAL - HEADROOM} \cup KeyAmounts

(***************************************************************************)
(* The wallet stays a sequence of positive coins, largest first: no plan   *)
(* ever builds a transaction whose outputs exceed its inputs, and the      *)
(* demand rows are those of amounts that can be asked for.                 *)
(***************************************************************************)
TypeOK ==
    /\ wallet \in Seq([sats : Nat \ {0}, confirmed : BOOLEAN])
    /\ \A i, j \in DOMAIN wallet : i < j => wallet[i].sats >= wallet[j].sats
    /\ demand \subseteq {amount + HEADROOM : amount \in Goals}
    /\ rate \in FeeRates /\ payouts \in 0 .. MaxPayouts
    /\ alarm \in Waits /\ due \in Waits /\ queued \in BOOLEAN
    /\ booking = None \/ (booking.want \in Waits \ {None} /\ booking.seen \in Waits)

(***************************************************************************)
(* Whatever shape the wallet has taken, a payout spends as few coins as any*)
(* choice could and joins no coins that are still confirming (the 25 link  *)
(* limit of the mempool), and a merge sweeps as many small coins as reach  *)
(* its goal (selectInputs and selectMergeInputs, src/src/tx.ts).           *)
(***************************************************************************)
SelectionIsBest ==
    /\ \A goal \in Goals : PayoutChoiceIsBest(wallet, Coins(wallet), goal, rate)
    /\ \A goal \in {COLLATERAL} \cup demand :
        \A coins \in {mergeMaterial(wallet, goal) \cap Confirmed(wallet)} :
            MergeChoiceIsBest(wallet, coins, goal, MAX_INPUTS, rate)

(***************************************************************************)
(* Nobody who asked for a pass waits longer for it than was asked, however *)
(* the alarm's own firing falls between the read and the write of the      *)
(* booking (scheduleMaintenance, src/src/treasury.ts).                     *)
(***************************************************************************)
PassesComeInTime ==
    /\ due = "soon" => queued \/ alarm = "soon"
    /\ due = "later" => queued \/ alarm # None

(***************************************************************************)
(* Splitting and merging feed each other, and still come to an end: once   *)
(* payouts stop, maintenance finds nothing more to do, and never again     *)
(* does (maintainLocked, consolidate, planTidy, src/src/treasury.ts).      *)
(***************************************************************************)
Quiet == maintainLocked(wallet, demand, rate).action \in {"none", "blocked"}

ComesToRest == <>[]Quiet
=============================================================================
