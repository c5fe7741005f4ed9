----------------------------- MODULE ChainClient -----------------------------
(***************************************************************************)
(* The faucet's view of the Dash network (src/src/chain/index.ts): a few   *)
(* configured providers, and evonodes drawn at random from a directory     *)
(* that refreshes itself (src/src/chain/evonodes.ts).  Configured providers*)
(* are truthful but may be slow, unreachable or stuck on an old chain; an  *)
(* evonode may also be a liar.                                             *)
(*                                                                         *)
(* One operation runs at a time: a read of the wallet with the check of its*)
(* young coins, or the settling of a broadcast.  A step is what one        *)
(* Promise.all waits for; the directory's refresh, the benches running out *)
(* and transactions travelling between nodes fall in between.              *)
(***************************************************************************)
EXTENDS Integers, Sequences, FiniteSets, FiniteSetsExt, Functions

CONSTANTS
    Primaries,          \* the configured providers, in the order they are read
    Fallbacks,          \* the seed gateways: DAPI, no UTXOs
    NoRelay,            \* the primaries that only read
    Evonodes, Liars,
    Lists,              \* what the directory's sources may list
    SAMPLE,             \* EVONODE_SAMPLE
    MIN_LISTED,
    MAX_LAG,            \* MAX_LAG_BLOCKS
    TIP, WILD,          \* the true height, and one no chain has
    Young,              \* the young transactions of the wallet, as listed
    Coinbases,
    MAX_LOOKUPS,        \* MAX_COINBASE_LOOKUPS
    None

Configured == Range(Primaries) \cup Fallbacks

ASSUME ChainClientAssumption ==
    /\ IsFiniteSet(Evonodes) /\ IsFiniteSet(Fallbacks) /\ Primaries \in Seq(Range(Primaries))
    /\ Liars \subseteq Evonodes /\ Evonodes \cap Configured = {} /\ Lists \subseteq SUBSET Evonodes
    /\ NoRelay \subseteq Range(Primaries)
    /\ SAMPLE \in Nat \ {0} /\ MIN_LISTED \in Nat \ {0} /\ MIN_LISTED <= Cardinality(Evonodes)
    /\ MAX_LAG \in Nat \ {0} /\ TIP \in Nat \ {0} /\ WILD \in Nat /\ WILD > TIP + MAX_LAG
    /\ Coinbases \subseteq Range(Young) /\ MAX_LOOKUPS \in Nat \ {0}
    /\ None \notin Nat /\ None \notin BOOLEAN

VARIABLES
    nodes,      \* the directory's list
    refresh,    \* its refresh: "rested", or under way from a source
    benched,
    held,       \* the truthful providers that have the transaction being settled
    verdicts,   \* coinbase_checks
    op          \* the operation under way

vars == <<nodes, refresh, benched, held, verdicts, op>>

Idle == [at |-> "idle"]
Honest == Configured \cup (Evonodes \ Liars)

-----------------------------------------------------------------------------
(***************************************************************************)
(* The directory: EvonodeDirectory.sample, refresh, discover and bench.    *)
(***************************************************************************)
Samples ==
    LET live == nodes \ benched
        pool == IF live # {} THEN live ELSE nodes
    IN  kSubset(Min({SAMPLE, Cardinality(pool)}), pool)

\* active() draws a sample, which starts a refresh if one is due.
Active(sample) == Range(Primaries) \cup sample
Drawn == refresh' \in {refresh} \cup (IF refresh = "rested" THEN {"quorums"} ELSE {})
Bench(failed) == benched' = benched \cup (failed \cap Evonodes)

\* Deviation: a list is a list, however short.
ListedAny(found) ==
    /\ refresh \in {"quorums", "explorer"}
    /\ nodes' = found /\ refresh' = "rested"
    /\ UNCHANGED <<benched, held, verdicts, op>>

\* The quorum service, then the explorer; a handful is not a list.
Listed(found) ==
    /\ refresh \in {"quorums", "explorer"}
    /\ IF Cardinality(found) >= MIN_LISTED
       THEN nodes' = found /\ refresh' = "rested"
       ELSE nodes' = nodes /\ refresh' = IF refresh = "quorums" THEN "explorer" ELSE "rested"
    /\ UNCHANGED <<benched, held, verdicts, op>>

\* A bench ends at any time; only where a draw may follow does it matter.
BenchEnds(e) ==
    /\ op.at \in {"idle", "again", "lookup"}
    /\ e \in benched /\ benched' = benched \ {e}
    /\ UNCHANGED <<nodes, refresh, held, verdicts, op>>

-----------------------------------------------------------------------------
(***************************************************************************)
(* Heights and the tip (heights, surveyWith, tipHeight).                   *)
(***************************************************************************)
Reports(p) ==
    CASE p \in Configured -> {0, TIP - 1, TIP, None}
      [] p \in Liars -> {0, WILD, None}
      [] OTHER -> {TIP - 1, TIP, None}
Surveys(asked) == {h \in [asked -> {0, TIP - 1, TIP, WILD, None}] : \A p \in asked : h[p] \in Reports(p)}

Answered(h, S) == {p \in DOMAIN h \cap S : h[p] # None}

\* The lower median of the evonodes that answered.
LowerMedian(h) ==
    LET who == Answered(h, Evonodes)
        AtMost(x) == Cardinality({e \in who : h[e] <= x})
    IN  Min({h[e] : e \in {d \in who : 2 * AtMost(h[d]) >= Cardinality(who)}})

\* Deviation: a lone evonode's word is taken as it is.
tipHeightUncapped(h) ==
    LET vote == IF Answered(h, Evonodes) = {} THEN {} ELSE {LowerMedian(h)}
        trusted == {h[p] : p \in Answered(h, Configured)}
    IN  IF vote \cup trusted = {} THEN None ELSE Max(vote \cup trusted)

tipHeight(h) ==
    LET trusted == {h[p] : p \in Answered(h, Configured)}
        evonodes == Answered(h, Evonodes)
        lone == Cardinality(evonodes) = 1 /\ trusted # {}
        vote == CASE evonodes = {} -> {}
                  [] lone -> {Min({LowerMedian(h), Max(trusted) + MAX_LAG})}
                  [] OTHER -> {LowerMedian(h)}
    IN  IF vote \cup trusted = {} THEN None ELSE Max(vote \cup trusted)

TooHigh(h) ==
    IF Cardinality(Answered(h, Evonodes)) < 2 THEN {}
    ELSE {e \in Answered(h, Evonodes) : h[e] > LowerMedian(h) + MAX_LAG}

-----------------------------------------------------------------------------
(***************************************************************************)
(* getUtxos: the first eligible provider that answers.  A queue is the set *)
(* of the places in Primaries that are still to be read, lowest first.     *)
(***************************************************************************)
eligible(h) ==
    {i \in DOMAIN Primaries : h[Primaries[i]] # None /\ tipHeight(h) - h[Primaries[i]] <= MAX_LAG}

Reading(h) ==
    IF tipHeight(h) = None THEN Idle
    ELSE [at |-> "reading", heights |-> h, queue |-> eligible(h), retried |-> FALSE, slow |-> {}]

InTurn == Min(op.queue)

StartRead(sample) ==
    /\ op = Idle /\ sample \in Samples /\ Drawn
    /\ op' = [at |-> "heights", asked |-> Active(sample)]
    /\ UNCHANGED <<nodes, benched, held, verdicts>>

\* The fallbacks are asked too when no DAPI source answered.
Heights(h) ==
    /\ op.at = "heights"
    /\ h \in Surveys(op.asked)
    /\ IF Answered(h, Evonodes) # {} \/ Fallbacks = {}
       THEN op' = Reading(h) /\ Bench({p \in op.asked : h[p] = None} \cup TooHigh(h))
       ELSE op' = [at |-> "fallbackHeights", heights |-> h] /\ Bench({p \in op.asked : h[p] = None})
    /\ UNCHANGED <<nodes, refresh, held, verdicts>>

FallbackHeights(f) ==
    /\ op.at = "fallbackHeights"
    /\ f \in Surveys(Fallbacks)
    /\ op' = Reading([p \in DOMAIN op.heights \cup Fallbacks |->
                        IF p \in Fallbacks THEN f[p] ELSE op.heights[p]])
    /\ UNCHANGED <<nodes, refresh, benched, held, verdicts>>

Succeeds ==
    /\ op.at = "reading" /\ op.queue # {}
    /\ op' = [at |-> "view", heights |-> op.heights, source |-> Primaries[InTurn]]
    /\ UNCHANGED <<nodes, refresh, benched, held, verdicts>>

\* Deviation: a timeout earns the retry as well.
RetriedAnyway(timeout) == [op EXCEPT !.retried = TRUE,
                                     !.queue = IF op.retried THEN @ \ {InTurn} ELSE @,
                                     !.slow = IF timeout THEN @ \cup {InTurn} ELSE @]

\* A quick failure earns one more try, once in all.
Retried(timeout) ==
    LET again == ~op.retried /\ ~timeout
    IN  [op EXCEPT !.retried = @ \/ again,
                   !.queue = IF again THEN @ ELSE @ \ {InTurn},
                   !.slow = IF timeout THEN @ \cup {InTurn} ELSE @]

Fails(timeout) ==
    /\ op.at = "reading" /\ op.queue # {}
    /\ op' = Retried(timeout)
    /\ UNCHANGED <<nodes, refresh, benched, held, verdicts>>

NobodyLeft ==
    /\ op.at = "reading" /\ op.queue = {}
    /\ op' = Idle
    /\ UNCHANGED <<nodes, refresh, benched, held, verdicts>>

-----------------------------------------------------------------------------
(***************************************************************************)
(* immatureTxids and isCoinbase: a few young transactions are looked up,   *)
(* and one nobody could classify sits out.                                 *)
(***************************************************************************)
Unclassified == SelectSeq(Young, LAMBDA t : verdicts[t] = None)
LookedUp == Range(SubSeq(Unclassified, 1, Min({MAX_LOOKUPS, Len(Unclassified)})))

\* What a lookup may find: the truth, nothing, or a lie if only evonodes answer.
Finds(t, sample) == {None, (t \in Coinbases)} \cup (IF sample \cap Liars = {} THEN {} ELSE BOOLEAN)

\* Deviation: a transaction nobody could classify is taken for an ordinary one.
OfferedUnclassified(v) == {t \in Range(Young) : v[t] # TRUE}

Offered(v) == {t \in Range(Young) : v[t] = FALSE}

Classify(sample, found, byEvonode) ==
    /\ op.at = "view" /\ sample \in Samples /\ Drawn
    /\ found \in [LookedUp -> BOOLEAN \cup {None}] /\ byEvonode \subseteq LookedUp
    /\ \A t \in LookedUp :
        /\ found[t] \in Finds(t, IF t \in byEvonode THEN sample ELSE {})
        /\ found[t] = None => t \notin byEvonode
    /\ verdicts' = [t \in Range(Young) |-> IF t \in LookedUp THEN found[t] ELSE verdicts[t]]
    /\ op' = [at |-> "offer", coins |-> Offered(verdicts'),
              misled |-> {t \in Range(Young) : verdicts[t] = (t \notin Coinbases)} \cup byEvonode]
    /\ UNCHANGED <<nodes, benched, held>>

Take ==
    /\ op.at = "offer" /\ op' = Idle
    /\ UNCHANGED <<nodes, refresh, benched, held, verdicts>>

-----------------------------------------------------------------------------
(***************************************************************************)
(* broadcast, relay and anyKnowsTx, as settleBroadcast puts them together. *)
(* A relay says yes (it took the transaction or had it), no, another txid, *)
(* or nothing that can be understood; then it may have it all the same.    *)
(***************************************************************************)
Relays(S) == S \ NoRelay

Says(p) ==
    CASE p \in Liars -> {"yes", "no", "other", "silent"}
      [] p \in held -> {"yes", "silent"}
      [] OTHER -> {"yes", "no", "silent"}

Replies(S) == {a \in [S -> {"yes", "no", "other", "silent"}] : \A p \in S : a[p] \in Says(p)}
Saying(a, what) == {p \in DOMAIN a : a[p] = what}

Round(round, asked) ==
    [at |-> "relay", round |-> round, asked |-> asked, ambiguous |-> FALSE]

\* What a reply makes of the calls made so far; took is who has it in silence.
Heard(a, took) ==
    /\ a \in Replies(Relays(op.asked)) /\ took \subseteq Saying(a, "silent") \cap Honest
    /\ held' = held \cup (Saying(a, "yes") \cap Honest) \cup took
    /\ Bench(Saying(a, "silent") \cup Saying(a, "other"))

Accepted(a) == Saying(a, "yes") \cap Configured # {}

\* Deviation: an evonode's acceptance that nobody vouches for is dropped.
AmbiguousVouched(a) ==
    op.ambiguous \/ Saying(a, "silent") \cup Saying(a, "other") # {}

\* An evonode's acceptance that nobody vouches for is ambiguous.
Ambiguous(a) == op.ambiguous \/ Saying(a, "no") # DOMAIN a

Settled(result) == [at |-> "settled", result |-> result]

\* Rejected by all, rebroadcast once, or looked up.
Unaccepted(ambiguous) ==
    CASE op.round = 1 /\ ~ambiguous -> Settled("rejected")
      [] op.round = 1 /\ ambiguous -> [at |-> "again"]
      [] OTHER -> [at |-> "lookup"]

StartBroadcast(sample) ==
    /\ op = Idle /\ sample \in Samples /\ Drawn
    /\ op' = Round(1, Active(sample))
    /\ UNCHANGED <<nodes, benched, held, verdicts>>

Rebroadcast(sample) ==
    /\ op.at = "again" /\ sample \in Samples /\ Drawn
    /\ op' = Round(2, Active(sample))
    /\ UNCHANGED <<nodes, benched, held, verdicts>>

Relay(a, took) ==
    /\ op.at = "relay" /\ Heard(a, took)
    /\ op' = IF Accepted(a) THEN Settled("live")
             ELSE IF op.asked # Fallbacks /\ Fallbacks # {}
             THEN [op EXCEPT !.asked = Fallbacks, !.ambiguous = Ambiguous(a)]
             ELSE Unaccepted(Ambiguous(a))
    /\ UNCHANGED <<nodes, refresh, verdicts>>

Knows(p) == CASE p \in Liars -> {TRUE, FALSE, None} [] OTHER -> {None, (p \in held)}

\* Deviation: an evonode's "yes" settles it.
KnownToAny(k) == \E p \in DOMAIN k : k[p] = TRUE

Known(k) == \E p \in DOMAIN k \cap Configured : k[p] = TRUE
Unknown(k) == \E p \in DOMAIN k : k[p] = FALSE

\* The seed gateways are asked when nobody gave an answer that counts.
Lookup(sample, k) ==
    /\ op.at = "lookup" /\ sample \in Samples /\ Drawn
    /\ k \in [Active(sample) -> BOOLEAN \cup {None}] /\ \A p \in DOMAIN k : k[p] \in Knows(p)
    /\ op' = IF Known(k) THEN Settled("live")
             ELSE IF Unknown(k) \/ Fallbacks = {} THEN Settled("locked")
             ELSE [at |-> "fallbackLookup"]
    /\ UNCHANGED <<nodes, benched, held, verdicts>>

FallbackLookup(k) ==
    /\ op.at = "fallbackLookup"
    /\ k \in [Fallbacks -> BOOLEAN \cup {None}] /\ \A p \in Fallbacks : k[p] \in Knows(p)
    /\ op' = Settled(IF Known(k) THEN "live" ELSE "locked")
    /\ UNCHANGED <<nodes, refresh, benched, held, verdicts>>

Report ==
    /\ op.at = "settled" /\ op' = Idle /\ held' = {}
    /\ UNCHANGED <<nodes, refresh, benched, verdicts>>

\* A node that has the transaction passes it on.
Spread(p) ==
    /\ held # {} /\ p \in Honest \ held
    /\ held' = held \cup {p}
    /\ UNCHANGED <<nodes, refresh, benched, verdicts, op>>

-----------------------------------------------------------------------------
Init ==
    /\ nodes = Evonodes /\ refresh = "rested" /\ benched = {}
    /\ held = {} /\ verdicts = [t \in Range(Young) |-> None]
    /\ op = Idle

Reads ==
    \/ \E sample \in Samples : StartRead(sample)
    \/ op.at = "heights" /\ \E h \in Surveys(op.asked) : Heights(h)
    \/ \E f \in Surveys(Fallbacks) : FallbackHeights(f)
    \/ Succeeds \/ NobodyLeft
    \/ \E timeout \in BOOLEAN : Fails(timeout)
    \/ \E sample \in Samples, found \in [LookedUp -> BOOLEAN \cup {None}],
          byEvonode \in SUBSET LookedUp : Classify(sample, found, byEvonode)
    \/ Take

Settles ==
    \/ \E sample \in Samples : StartBroadcast(sample) \/ Rebroadcast(sample)
    \/ op.at = "relay" /\ \E a \in Replies(Relays(op.asked)) :
            \E took \in SUBSET Saying(a, "silent") : Relay(a, took)
    \/ op.at = "lookup" /\ \E sample \in Samples :
            \E k \in [Active(sample) -> BOOLEAN \cup {None}] : Lookup(sample, k)
    \/ \E k \in [Fallbacks -> BOOLEAN \cup {None}] : FallbackLookup(k)
    \/ Report
    \/ \E p \in Honest : Spread(p)

Directory ==
    \/ \E found \in Lists : Listed(found)
    \/ \E e \in Evonodes : BenchEnds(e)

Next == Reads \/ Settles \/ Directory

Spec == Init /\ [][Next]_vars

-----------------------------------------------------------------------------
(***************************************************************************)
(* Properties.                                                             *)
(***************************************************************************)
(***************************************************************************)
(* The directory never empties or shrinks to a handful, whatever its       *)
(* sources answer, so there is always a sample to draw.                    *)
(***************************************************************************)
TypeOK ==
    /\ nodes \subseteq Evonodes /\ Cardinality(nodes) >= MIN_LISTED /\ Samples # {}
    /\ refresh \in {"quorums", "explorer", "rested"}
    /\ benched \subseteq Evonodes /\ held \subseteq Honest
    /\ DOMAIN verdicts = Range(Young)
    /\ \A t \in Range(Young) : verdicts[t] \in BOOLEAN \cup {None}

(***************************************************************************)
(* One lying evonode cannot make every trusted source of coins look stale, *)
(* however few of the others answer (tipHeight, src/src/chain/index.ts;    *)
(* README.md:86).  True while every primary reads coins, as on both        *)
(* networks.                                                               *)
(***************************************************************************)
Current(h) == {p \in Answered(h, Range(Primaries)) : h[p] >= TIP - 1}
LoneLieHarmless ==
    op.at = "reading" /\ Cardinality(Answered(op.heights, Liars)) <= 1
        /\ Current(op.heights) # {} =>
            \E i \in eligible(op.heights) : Primaries[i] \in Current(op.heights)

(***************************************************************************)
(* Coins are never read from a source that lags what another configured    *)
(* provider or most of the evonodes reported, and a source that ran into   *)
(* its deadline is not asked again, since the Treasury is held for the wait*)
(* (getUtxos, src/src/chain/index.ts).                                     *)
(***************************************************************************)
NoStaleRead(h, source) ==
    LET voters == Answered(h, Evonodes)
        FromMost(x) == 2 * Cardinality({e \in voters : h[e] >= x}) > Cardinality(voters)
    IN  /\ \A p \in Answered(h, Configured) : h[source] >= h[p] - MAX_LAG
        /\ Cardinality(voters) > 1 =>
            \A e \in voters : FromMost(h[e]) => h[source] >= h[e] - MAX_LAG

ReadsSoundly ==
    /\ op.at = "view" => NoStaleRead(op.heights, op.source)
    /\ op.at = "reading" /\ op.queue # {} => InTurn \notin op.slow

(***************************************************************************)
(* A coin of a young coinbase is offered for spending only if an evonode,  *)
(* asked because no configured provider could tell, said it was none       *)
(* (immatureTxids, src/src/treasury.ts).                                   *)
(***************************************************************************)
ImmatureSitsOut ==
    op.at = "offer" => op.coins \cap Coinbases \subseteq op.misled

(***************************************************************************)
(* What settleBroadcast concludes is so, whatever the evonodes say: a      *)
(* payout reported as made is on a configured provider, and coins are      *)
(* released only if no truthful node has the transaction, not even one     *)
(* that will still pass it on (broadcast, relay, anyKnowsTx).              *)
(***************************************************************************)
SettledTruly ==
    op.at = "settled" =>
        /\ op.result = "live" => held \cap Configured # {}
        /\ op.result = "rejected" => held = {}
=============================================================================
