----------------------------- MODULE Ledger_proofs -----------------------------
(***************************************************************************)
(* The coin ledger's promises for any number of coins, transactions and    *)
(* evictions and whatever the durations, as long as explorers list a       *)
(* transaction before the rows that stand for it expire.                   *)
(***************************************************************************)
EXTENDS Ledger, SequenceTheorems, FiniteSetTheorems, TLAPS

(***************************************************************************)
(* The strengthening, part by part.  The network: two transactions that    *)
(* are on it share no input, and what is on it is listed within LAG.       *)
(***************************************************************************)
LiveApart ==
    \A t, u \in DOMAIN txs : t # u /\ Live(t) /\ Live(u) => txs[t].inputs \cap txs[u].inputs = {}

Punctual == \A t \in DOMAIN txs : Live(t) /\ txs[t].status # "indexed" => txs[t].age <= LAG

NetInv == LiveApart /\ Punctual

(***************************************************************************)
(* The history: transactions are older than what spends them and than the  *)
(* operation under way, whose own is the only open one.                    *)
(***************************************************************************)
InHandOpen ==
    /\ phase \in Broadcasting => InHand > 0 /\ txs[InHand].booked = "open" /\ txs[InHand].age = hAge
    /\ \A t \in DOMAIN txs : txs[t].booked = "open" => t = InHand /\ phase \in Broadcasting

InOrder ==
    /\ \A t \in DOMAIN txs : hAge <= txs[t].age
    /\ \A t, u \in DOMAIN txs : t < u => txs[u].age <= txs[t].age
    /\ \A t \in DOMAIN txs : \A o \in txs[t].inputs : o \in Deposits \/ o < t

OwnedWasSeen == \A t \in DOMAIN txs : txs[t].booked = "owned" => txs[t].status # "sent"

HistInv ==
    /\ hAge <= HANDLER
    /\ phase = "idle" => hAge = 0
    /\ InHandOpen /\ InOrder /\ OwnedWasSeen

(***************************************************************************)
(* The listing in hand: what it shows is there, and what was indexed before*)
(* the operation began is not shown unspent.                               *)
(***************************************************************************)
ListInv ==
    /\ phase # "listed" => listing = {}
    /\ \A o \in listing : o \in Deposits \/ (o \in Confirmed /\ txs[o].change)
    /\ \A t \in DOMAIN txs : Live(t) /\ txs[t].age - hAge > LAG => txs[t].inputs \cap listing = {}

(***************************************************************************)
(* The rows: younger than every transaction they are about.                *)
(***************************************************************************)
SpentYoung ==
    \A o \in Outpoints : spent[o] # None =>
        /\ o \in Deposits \cup DOMAIN txs
        /\ \A t \in Spenders(o) : spent[o] <= txs[t].age
        /\ o \in DOMAIN txs => spent[o] <= txs[o].age

PendingTimed ==
    \A o \in Outpoints : pending[o] # None =>
        /\ o \in Confirmed \/ pending[o] = txs[o].age
        /\ phase \in {"viewing", "listed"} => pending[o] - hAge <= PENDING_TTL

OwnPending ==
    \A o \in DOMAIN txs :
        txs[o].change /\ txs[o].booked = "owned" /\ txs[o].status = "mempool"
            => pending[o] # None /\ pending[o] <= txs[o].age

RowInv == SpentYoung /\ PendingTimed

(***************************************************************************)
(* The mask: an input of a booked transaction in play has a spent row, or  *)
(* that transaction is indexed and nothing stands for its input any more.  *)
(***************************************************************************)
Booked(t) == txs[t].booked \in {"owned", "locked"}

Gone(t, o) ==
    /\ t \in Indexed /\ txs[t].age - hAge > SETTLED
    /\ pending[o] = None /\ o \notin listing

Masked ==
    \A t \in DOMAIN txs : Booked(t) /\ InPlay(t) =>
        \A o \in txs[t].inputs : spent[o] # None \/ Gone(t, o)

-----------------------------------------------------------------------------
\* The durations, and how far ages are told apart.
LEMMA Ranges ==
    /\ SETTLED \in Nat /\ STALE \in Nat /\ PENDING_TTL \in Nat
    /\ LAG \in Nat /\ HANDLER \in Nat /\ FOLLOW \in Nat
    /\ SETTLED <= STALE /\ LAG <= STALE /\ PENDING_TTL <= STALE
    /\ AgeCap = STALE + HANDLER + 1 /\ Ages = 0 .. AgeCap
    /\ None \notin Int
  BY LedgerAssumption DEF LedgerAssumption, AgeCap, Ages

\* Ageing a row keeps it a row.
LEMMA OlderTyped ==
    ASSUME NEW a \in Ages \cup {None}
    PROVE  Older(a) \in Ages \cup {None} /\ (a # None => Older(a) # None /\ Older(a) \in Ages)
  BY Ranges DEF Older

\* The parts of a transaction.
LEMMA TxTyped ==
    ASSUME TypeOK, NEW t \in DOMAIN txs
    PROVE  /\ txs[t] \in Tx /\ t \in 1 .. Len(txs) /\ t \in 1 .. MaxTxs /\ t \in Int
           /\ txs[t].inputs \in SUBSET Outpoints /\ txs[t].change \in BOOLEAN
           /\ txs[t].age \in Ages
           /\ txs[t].status \in {"sent", "mempool", "mined", "indexed", "dead"}
           /\ txs[t].booked \in {"open", "owned", "locked", "none"}
  <1>1. DOMAIN txs = 1 .. Len(txs) /\ Len(txs) \in Nat /\ Len(txs) <= MaxTxs
    BY DEF TypeOK
  <1>2. txs[t] \in Tx
    BY <1>1 DEF TypeOK
  <1> QED BY <1>1, <1>2, LedgerAssumption DEF Tx, LedgerAssumption

(***************************************************************************)
(* The ways the transactions change: one changes its status or what is     *)
(* booked of it, all grow older, or one more is built.                     *)
(***************************************************************************)
Marked(t, status, booked) ==
    /\ Len(txs') = Len(txs) /\ DOMAIN txs' = DOMAIN txs
    /\ \A u \in DOMAIN txs : /\ txs'[u].inputs = txs[u].inputs
                             /\ txs'[u].change = txs[u].change
                             /\ txs'[u].age = txs[u].age
    /\ \A u \in DOMAIN txs \ {t} : /\ txs'[u].status = txs[u].status
                                   /\ txs'[u].booked = txs[u].booked
    /\ txs'[t].status = status /\ txs'[t].booked = booked

Aged ==
    /\ Len(txs') = Len(txs) /\ DOMAIN txs' = DOMAIN txs
    /\ \A u \in DOMAIN txs : /\ txs'[u].inputs = txs[u].inputs
                             /\ txs'[u].change = txs[u].change
                             /\ txs'[u].age = Older(txs[u].age)
                             /\ txs'[u].status = txs[u].status
                             /\ txs'[u].booked = txs[u].booked

Built(I, change) ==
    LET new == Len(txs) + 1
    IN  /\ Len(txs') = new /\ DOMAIN txs' = DOMAIN txs \cup {new} /\ new \notin DOMAIN txs
        /\ \A u \in DOMAIN txs : txs'[u] = txs[u]
        /\ txs'[new] = [inputs |-> I, change |-> change, age |-> hAge,
                        status |-> "sent", booked |-> "open"]

\* Mark changes one transaction's fate and bookkeeping, and nothing else.
LEMMA MarkMarks ==
    ASSUME TypeOK, NEW t \in DOMAIN txs,
           NEW status \in {"sent", "mempool", "mined", "indexed", "dead"},
           NEW booked \in {"open", "owned", "locked", "none"},
           Mark(t, status, booked)
    PROVE  Marked(t, status, booked) /\ txs' \in Seq(Tx)
  <1> DEFINE new == [txs[t] EXCEPT !.status = status, !.booked = booked]
  <1>1. DOMAIN txs = 1 .. Len(txs) /\ t \in 1 .. Len(txs) /\ txs \in Seq(Tx) /\ txs[t] \in Tx
    BY TxTyped DEF TypeOK
  <1>2. txs' = [txs EXCEPT ![t] = new]
    BY DEF Mark
  <1>3. /\ new \in Tx /\ new.status = status /\ new.booked = booked
        /\ new.inputs = txs[t].inputs /\ new.change = txs[t].change /\ new.age = txs[t].age
    BY <1>1 DEF Tx
  <1> HIDE DEF new
  <1>4. txs' \in Seq(Tx) /\ Len(txs') = Len(txs) /\ DOMAIN txs' = DOMAIN txs
    BY <1>1, <1>2, <1>3, ExceptSeq
  <1>5. txs'[t] = new /\ \A u \in DOMAIN txs \ {t} : txs'[u] = txs[u]
    BY <1>1, <1>2
  <1> QED BY <1>3, <1>4, <1>5 DEF Marked

\* So does what the network does.
LEMMA BecomesMarks ==
    ASSUME TypeOK, NEW t \in DOMAIN txs,
           NEW status \in {"sent", "mempool", "mined", "indexed", "dead"}, Becomes(t, status)
    PROVE  Marked(t, status, txs[t].booked) /\ txs' \in Seq(Tx)
  <1>1. txs[t].booked \in {"open", "owned", "locked", "none"} /\ txs[t] \in Tx
    BY TxTyped
  <1>2. Mark(t, status, txs[t].booked)
    <2>1. [txs EXCEPT ![t].status = status]
            = [txs EXCEPT ![t].status = status, ![t].booked = txs[t].booked]
      BY <1>1 DEF TypeOK, Tx
    <2> QED BY <2>1 DEF Becomes, Mark
  <1> QED BY <1>1, <1>2, MarkMarks

\* Time ages every transaction and changes nothing else of it.
LEMMA TickAges ==
    ASSUME TypeOK, Tick
    PROVE  Aged /\ txs' \in Seq(Tx)
  <1>1. DOMAIN txs = 1 .. Len(txs) /\ Len(txs) \in Nat
    BY DEF TypeOK
  <1>2. txs' = [t \in 1 .. Len(txs) |-> [txs[t] EXCEPT !.age = Older(@)]]
    BY <1>1 DEF Tick
  <1>3. ASSUME NEW t \in 1 .. Len(txs)
        PROVE  /\ txs'[t] \in Tx
               /\ txs'[t].inputs = txs[t].inputs /\ txs'[t].change = txs[t].change
               /\ txs'[t].age = Older(txs[t].age)
               /\ txs'[t].status = txs[t].status /\ txs'[t].booked = txs[t].booked
    <2>1. txs[t] \in Tx /\ txs[t].age \in Ages
      BY <1>1, TxTyped
    <2>2. Older(txs[t].age) \in Ages
      BY <2>1, OlderTyped, Ranges
    <2> QED BY <1>2, <2>1, <2>2 DEF Tx
  <1>4. txs' \in Seq(Tx)
    <2>1. txs' \in [1 .. Len(txs) -> Tx]
      BY <1>2, <1>3
    <2> QED BY <1>1, <2>1
  <1>5. Len(txs') = Len(txs) /\ DOMAIN txs' = DOMAIN txs
    BY <1>1, <1>2, <1>4
  <1> QED BY <1>1, <1>3, <1>4, <1>5 DEF Aged

\* A build appends one transaction made from the view.
LEMMA BuildBuilds ==
    ASSUME TypeOK, Build
    PROVE  /\ txs' \in Seq(Tx) /\ Len(txs') <= MaxTxs
           /\ \E I \in SUBSET View, change \in BOOLEAN : Built(I, change)
  <1>1. /\ txs \in Seq(Tx) /\ DOMAIN txs = 1 .. Len(txs) /\ Len(txs) \in Nat
        /\ Len(txs) < MaxTxs /\ MaxTxs \in Nat
    BY LedgerAssumption DEF TypeOK, Build, LedgerAssumption
  <1>2. PICK I \in SUBSET View, change \in BOOLEAN :
            txs' = Append(txs, [inputs |-> I, change |-> change, age |-> hAge,
                                status |-> "sent", booked |-> "open"])
    BY DEF Build
  <1> DEFINE new == [inputs |-> I, change |-> change, age |-> hAge,
                     status |-> "sent", booked |-> "open"]
  <1>3. new \in Tx
    BY DEF Tx, View, TypeOK
  <1> HIDE DEF new
  <1>4. txs' = Append(txs, new)
    BY <1>2 DEF new
  <1>5. /\ txs' \in Seq(Tx) /\ Len(txs') = Len(txs) + 1
        /\ \A u \in 1 .. Len(txs) : txs'[u] = txs[u]
        /\ txs'[Len(txs) + 1] = new
    BY <1>1, <1>3, <1>4, AppendProperties
  <1>6. DOMAIN txs' = 1 .. Len(txs) + 1
    BY <1>5
  <1>7. Built(I, change)
    BY <1>1, <1>5, <1>6 DEF Built, new
  <1> QED BY <1>1, <1>5, <1>7

(***************************************************************************)
(* What an operation under way ends with, and what the network does.       *)
(***************************************************************************)
Ends(t, status, booked) ==
    /\ Marked(t, status, booked) /\ txs' \in Seq(Tx)
    /\ phase' = "idle" /\ hAge' = 0 /\ listing' \in {listing, {}}

EndsOwned(t) ==
    /\ Ends(t, txs[t].status, "owned") /\ recordSpend(t) /\ UNCHANGED crashes
    /\ Live(t)
    /\ \/ t = InHand /\ phase \in Broadcasting
       \/ phase = "viewing" /\ t \in Confirmed /\ txs[t].age - hAge <= FOLLOW

EndsLocked(t) ==
    /\ t = InHand /\ phase \in Broadcasting
    /\ \/ Ends(t, txs[t].status, "locked")
       \/ ~Live(t) /\ Ends(t, "dead", "locked")
    /\ lockInputs(t) /\ UNCHANGED <<pending, crashes>>

EndsNone(t) ==
    /\ t = InHand /\ phase \in Broadcasting
    /\ \/ Ends(t, txs[t].status, "none") /\ crashes < MaxCrashes /\ crashes' = crashes + 1
       \/ ~Live(t) /\ Ends(t, "dead", "none") /\ UNCHANGED crashes
    /\ UNCHANGED tables

Moves(t, status) ==
    /\ Marked(t, status, txs[t].booked) /\ txs' \in Seq(Tx)
    /\ UNCHANGED <<phase, hAge, listing, tables, crashes>>
    /\ \/ MayLand(t) /\ InputsFree(t) /\ status = "mempool"
       \/ txs[t].status = "mempool" /\ status \in {"mined", "dead"}
       \/ txs[t].status = "mined" /\ status = "indexed"

Abandoned ==
    /\ phase \notin Broadcasting /\ crashes < MaxCrashes /\ crashes' = crashes + 1
    /\ phase' = "idle" /\ hAge' = 0 /\ listing' = {}
    /\ UNCHANGED <<txs, tables>>

\* While it broadcasts, an operation has its transaction in hand.
LEMMA InHandThere ==
    ASSUME TypeOK, HistInv, phase \in Broadcasting
    PROVE  InHand \in DOMAIN txs /\ txs[InHand].booked = "open"
  BY DEF TypeOK, HistInv, InHandOpen, InHand

\* settleBroadcast ends in one of three ways.
LEMMA SettleKinds ==
    ASSUME TypeOK, HistInv, Accepted \/ RejectedMissing \/ Rejected \/ Unresolved
    PROVE  EndsOwned(InHand) \/ EndsLocked(InHand) \/ EndsNone(InHand)
  <1>1. phase \in Broadcasting
    BY DEF Accepted, RejectedMissing, Rejected, Unresolved, Broadcasting
  <1>2. InHand \in DOMAIN txs
    BY <1>1, InHandThere
  <1>3. txs[InHand].status \in {"sent", "mempool", "mined", "indexed", "dead"}
    BY <1>2, TxTyped
  <1>4. CASE Accepted
    BY <1>1, <1>2, <1>3, <1>4, MarkMarks DEF Accepted, Done, EndsOwned, Ends
  <1>5. CASE RejectedMissing
    BY <1>1, <1>2, <1>5, MarkMarks DEF RejectedMissing, Done, EndsLocked, Ends
  <1>6. CASE Rejected
    BY <1>1, <1>2, <1>6, MarkMarks DEF Rejected, Done, EndsNone, Ends
  <1>7. CASE Unresolved
    BY <1>1, <1>2, <1>3, <1>7, MarkMarks DEF Unresolved, Done, EndsLocked, Ends
  <1> QED BY <1>4, <1>5, <1>6, <1>7

\* A late recordSpend books the spend, as a resolved broadcast does.
LEMMA FollowUpOwns ==
    ASSUME TypeOK, NEW t \in DOMAIN txs, FollowUp(t)
    PROVE  EndsOwned(t)
  <1>1. txs[t].status \in {"sent", "mempool", "mined", "indexed", "dead"}
    BY TxTyped
  <1>2. Live(t)
    BY DEF FollowUp, Confirmed, Live
  <1> QED BY <1>1, <1>2, MarkMarks DEF FollowUp, Done, EndsOwned, Ends

\* An eviction abandons an operation, or leaves its broadcast unbooked.
LEMMA CrashKinds ==
    ASSUME TypeOK, HistInv, Crash
    PROVE  Abandoned \/ EndsNone(InHand)
  <1>1. CASE phase \in Broadcasting
    <2>1. /\ InHand \in DOMAIN txs
          /\ txs[InHand].status \in {"sent", "mempool", "mined", "indexed", "dead"}
      BY <1>1, InHandThere, TxTyped
    <2>2. Mark(InHand, txs[InHand].status, "none")
      BY <1>1 DEF Crash
    <2> QED BY <1>1, <2>1, <2>2, MarkMarks DEF Crash, Done, EndsNone, Ends
  <1>2. CASE phase \notin Broadcasting
    BY <1>2 DEF Crash, Done, Abandoned
  <1> QED BY <1>1, <1>2

\* The network moves one transaction along.
LEMMA NetworkMoves ==
    ASSUME TypeOK, NEW t \in DOMAIN txs, Land(t) \/ Mine(t) \/ Index(t) \/ Evict(t)
    PROVE  \E status \in {"mempool", "mined", "indexed", "dead"} : Moves(t, status)
  <1>1. CASE Land(t)
    <2>1. Becomes(t, "mempool") /\ MayLand(t) /\ InputsFree(t)
      BY <1>1 DEF Land
    <2> QED BY <2>1, BecomesMarks DEF Becomes, Moves
  <1>2. CASE Mine(t)
    <2>1. Becomes(t, "mined") /\ txs[t].status = "mempool"
      BY <1>2 DEF Mine
    <2> QED BY <2>1, BecomesMarks DEF Becomes, Moves
  <1>3. CASE Index(t)
    <2>1. Becomes(t, "indexed") /\ txs[t].status = "mined"
      BY <1>3 DEF Index
    <2> QED BY <2>1, BecomesMarks DEF Becomes, Moves
  <1>4. CASE Evict(t)
    <2>1. Becomes(t, "dead") /\ txs[t].status = "mempool"
      BY <1>4 DEF Evict
    <2> QED BY <2>1, BecomesMarks DEF Becomes, Moves
  <1> QED BY <1>1, <1>2, <1>3, <1>4

\* Every step is one of these.
LEMMA StepKinds ==
    ASSUME TypeOK, HistInv, [Next]_vars
    PROVE  \/ Begin \/ Fetch \/ Snapshot \/ Build \/ Ambiguous
           \/ Abandoned \/ Tick \/ UNCHANGED vars
           \/ \E t \in DOMAIN txs : EndsOwned(t) \/ EndsLocked(t) \/ EndsNone(t)
           \/ \E t \in DOMAIN txs, status \in {"mempool", "mined", "indexed", "dead"} :
                    Moves(t, status)
  <1>1. CASE Accepted \/ RejectedMissing \/ Rejected \/ Unresolved
    <2>1. phase \in Broadcasting
      BY <1>1 DEF Accepted, RejectedMissing, Rejected, Unresolved, Broadcasting
    <2> QED BY <1>1, <2>1, SettleKinds, InHandThere
  <1>2. CASE Crash
    <2>1. CASE EndsNone(InHand)
      BY <2>1, InHandThere DEF EndsNone
    <2> QED BY <1>2, <2>1, CrashKinds
  <1>3. ASSUME NEW t \in DOMAIN txs, FollowUp(t) \/ Land(t) \/ Mine(t) \/ Index(t) \/ Evict(t)
        PROVE  \/ EndsOwned(t)
               \/ \E status \in {"mempool", "mined", "indexed", "dead"} : Moves(t, status)
    BY <1>3, FollowUpOwns, NetworkMoves
  <1> QED BY <1>1, <1>2, <1>3 DEF Next, Operation, Settle

-----------------------------------------------------------------------------
\* Rows keep their types, and pending ones stand for change.
RowsOK ==
    /\ spent \in [Outpoints -> Ages \cup {None}]
    /\ pending \in [Outpoints -> Ages \cup {None}]
    /\ \A o \in Outpoints : pending[o] # None => o \in DOMAIN txs /\ txs[o].change

\* lockInputs writes rows.
LEMMA LockTyped ==
    ASSUME TypeOK, NEW t, lockInputs(t)
    PROVE  spent' \in [Outpoints -> Ages \cup {None}]
  BY DEF TypeOK, lockInputs

\* reconcile drops rows and changes none.
LEMMA ReconcileTyped ==
    ASSUME TypeOK, reconcile
    PROVE  /\ spent' \in [Outpoints -> Ages \cup {None}]
           /\ pending' \in [Outpoints -> Ages \cup {None}]
           /\ \A o \in Outpoints : pending'[o] # None => pending'[o] = pending[o]
           /\ \A o \in Outpoints : spent'[o] # None => spent'[o] = spent[o]
  <1> DEFINE S(o) == Settled(o) \/ Stale(o)
             P(o) == Settled(o) \/ o \in listing
  <1>1. /\ spent' = [o \in Outpoints |-> IF S(o) THEN None ELSE spent[o]]
        /\ pending' = [o \in Outpoints |-> IF P(o) THEN None ELSE pending[o]]
    BY DEF reconcile
  <1> HIDE DEF S, P
  <1> QED BY <1>1 DEF TypeOK

\* recordSpend adds a pending row for its own change alone.
LEMMA RecordTyped ==
    ASSUME TypeOK, NEW t \in DOMAIN txs, recordSpend(t)
    PROVE  /\ pending' \in [Outpoints -> Ages \cup {None}]
           /\ \A o \in Outpoints :
                pending'[o] # None => pending[o] # None \/ (o = t /\ txs[t].change)
           /\ \A o \in Outpoints :
                pending'[o] # None => pending'[o] = pending[o] \/ pending'[o] = hAge
  <1>1. t \in Outpoints
    BY TxTyped DEF Outpoints
  <1> QED BY <1>1 DEF TypeOK, recordSpend

\* What no step takes away from a transaction.
Kept ==
    \A u \in DOMAIN txs : /\ u \in DOMAIN txs'
                          /\ txs'[u].inputs = txs[u].inputs
                          /\ txs'[u].change = txs[u].change

\* A pending row keeps the transaction it stands for.
LEMMA PendingKept ==
    ASSUME TypeOK, Kept,
           \A o \in Outpoints : pending'[o] # None =>
                pending[o] # None \/ (o \in DOMAIN txs /\ txs[o].change)
    PROVE  \A o \in Outpoints : pending'[o] # None => o \in DOMAIN txs' /\ txs'[o].change
  BY DEF TypeOK, Kept

\* Every step keeps the types.
LEMMA TypeStep ==
    ASSUME TypeOK, HistInv, [Next]_vars
    PROVE  TypeOK' /\ Kept
  <1> USE DEF Phases, Broadcasting
  <1>0. 0 \in Ages /\ Len(txs) \in Nat
    BY Ranges DEF TypeOK
  <1>1. CASE Begin
    <2>1. /\ phase' = "viewing" /\ UNCHANGED <<hAge, listing, txs, spent, crashes>>
          /\ pending' = [o \in Outpoints |->
                IF pending[o] # None /\ pending[o] > PENDING_TTL THEN None ELSE pending[o]]
      BY <1>1 DEF Begin
    <2> QED BY <2>1 DEF TypeOK, Kept
  <1>2. CASE Fetch
    <2>1. /\ phase' \in {"listed", "idle"} /\ hAge' \in {hAge, 0}
          /\ UNCHANGED <<txs, tables, crashes>>
      BY <1>2 DEF Fetch, Done
    <2>2. listing' \subseteq Outpoints
      BY <1>2 DEF Fetch, Listed, TypeOK
    <2> QED BY <1>0, <2>1, <2>2 DEF TypeOK, Kept, tables
  <1>3. CASE Snapshot
    <2>1. /\ phase' = "idle" /\ hAge' = 0 /\ listing' = {} /\ reconcile
          /\ UNCHANGED <<txs, crashes>>
      BY <1>3 DEF Snapshot, Done
    <2>2. Kept
      BY <2>1 DEF Kept
    <2>3. RowsOK'
      BY <2>1, <2>2, ReconcileTyped, PendingKept DEF RowsOK
    <2> QED BY <1>0, <2>1, <2>2, <2>3 DEF TypeOK, RowsOK
  <1>4. CASE Build
    <2>1. /\ phase' = "broadcasting" /\ listing' = {} /\ reconcile
          /\ UNCHANGED <<hAge, crashes>>
      BY <1>4 DEF Build
    <2>2. Kept
      BY <1>4, BuildBuilds DEF Kept, Built
    <2>3. RowsOK'
      BY <2>1, <2>2, ReconcileTyped, PendingKept DEF RowsOK
    <2>4. txs' \in Seq(Tx) /\ Len(txs') <= MaxTxs
      BY <1>4, BuildBuilds
    <2> QED BY <2>1, <2>2, <2>3, <2>4 DEF TypeOK, RowsOK
  <1>5. CASE Ambiguous \/ UNCHANGED vars
    <2>1. /\ phase' \in {phase, "retrying"}
          /\ UNCHANGED <<hAge, listing, txs, spent, pending, crashes>>
      BY <1>5 DEF Ambiguous, vars, tables
    <2> QED BY <2>1 DEF TypeOK, Kept
  <1>6. CASE Abandoned
    <2>1. /\ phase' = "idle" /\ hAge' = 0 /\ listing' = {}
          /\ UNCHANGED <<txs, spent, pending>> /\ crashes' = crashes + 1 /\ crashes < MaxCrashes
      BY <1>6 DEF Abandoned, tables
    <2> QED BY <1>0, <2>1, LedgerAssumption DEF TypeOK, Kept, LedgerAssumption
  <1>7. CASE Tick
    <2>1. /\ UNCHANGED <<phase, listing, crashes>> /\ hAge' \in {hAge, Older(hAge)}
          /\ spent' = [o \in Outpoints |-> Older(spent[o])]
          /\ pending' = [o \in Outpoints |-> Older(pending[o])]
      BY <1>7 DEF Tick
    <2>2. /\ hAge' \in Ages
          /\ spent' \in [Outpoints -> Ages \cup {None}]
          /\ pending' \in [Outpoints -> Ages \cup {None}]
      <3>1. hAge # None
        BY Ranges DEF TypeOK
      <3> HIDE DEF Older
      <3> QED BY <2>1, <3>1, OlderTyped DEF TypeOK
    <2>3. \A o \in Outpoints : pending'[o] # None => pending[o] # None
      BY <2>1 DEF Older
    <2>4. Kept /\ txs' \in Seq(Tx) /\ Len(txs') = Len(txs)
      BY <1>7, TickAges DEF Aged, Kept
    <2>5. RowsOK'
      BY <2>2, <2>3, <2>4, PendingKept DEF RowsOK
    <2> QED BY <2>1, <2>2, <2>4, <2>5 DEF TypeOK, RowsOK
  <1>8. ASSUME NEW t \in DOMAIN txs, EndsOwned(t) \/ EndsLocked(t) \/ EndsNone(t)
        PROVE  TypeOK' /\ Kept
    <2>1. /\ txs' \in Seq(Tx) /\ Len(txs') = Len(txs) /\ Kept
          /\ phase' = "idle" /\ hAge' = 0 /\ listing' \in {listing, {}}
      BY <1>8 DEF EndsOwned, EndsLocked, EndsNone, Ends, Marked, Kept
    <2>2. crashes' \in 0 .. MaxCrashes
      BY <1>8, LedgerAssumption DEF EndsOwned, EndsLocked, EndsNone, TypeOK, LedgerAssumption
    <2>3. spent' \in [Outpoints -> Ages \cup {None}]
      BY <1>8, LockTyped DEF EndsOwned, EndsLocked, EndsNone, recordSpend, tables, TypeOK
    <2>4. /\ pending' \in [Outpoints -> Ages \cup {None}]
          /\ \A o \in Outpoints : pending'[o] # None =>
                pending[o] # None \/ (o \in DOMAIN txs /\ txs[o].change)
      BY <1>8, RecordTyped DEF EndsOwned, EndsLocked, EndsNone, tables, TypeOK
    <2>5. RowsOK'
      BY <2>1, <2>3, <2>4, PendingKept DEF RowsOK
    <2> QED BY <1>0, <2>1, <2>2, <2>5 DEF TypeOK, RowsOK
  <1>9. ASSUME NEW t \in DOMAIN txs, NEW status, Moves(t, status)
        PROVE  TypeOK' /\ Kept
    <2>1. /\ txs' \in Seq(Tx) /\ Len(txs') = Len(txs) /\ Kept
          /\ UNCHANGED <<phase, hAge, listing, spent, pending, crashes>>
      BY <1>9 DEF Moves, Marked, Kept, tables
    <2>2. RowsOK'
      BY <2>1, PendingKept DEF RowsOK, TypeOK
    <2> QED BY <2>1, <2>2 DEF TypeOK, RowsOK
  <1> QED BY <1>1, <1>2, <1>3, <1>4, <1>5, <1>6, <1>7, <1>8, <1>9, StepKinds

-----------------------------------------------------------------------------
\* Steps that leave the transactions as they are.
LEMMA QuietSteps ==
    ASSUME Begin \/ Fetch \/ Snapshot \/ Ambiguous \/ Abandoned \/ UNCHANGED vars
    PROVE  txs' = txs
  BY DEF Begin, Fetch, Snapshot, Ambiguous, Abandoned, vars

\* What a step may do to the status of a transaction that is there.
LEMMA StatusMoves ==
    ASSUME TypeOK, HistInv, [Next]_vars, NEW t \in DOMAIN txs
    PROVE  \/ txs'[t].status = txs[t].status
           \/ txs'[t].status = "dead" /\ txs[t].status \in {"sent", "mempool", "dead"}
           \/ txs'[t].status = "mempool" /\ MayLand(t) /\ InputsFree(t)
           \/ txs'[t].status = "mined" /\ txs[t].status = "mempool"
           \/ txs'[t].status = "indexed" /\ txs[t].status = "mined"
  <1> DEFINE G == \/ txs'[t].status = txs[t].status
                  \/ txs'[t].status = "dead" /\ txs[t].status \in {"sent", "mempool", "dead"}
                  \/ txs'[t].status = "mempool" /\ MayLand(t) /\ InputsFree(t)
                  \/ txs'[t].status = "mined" /\ txs[t].status = "mempool"
                  \/ txs'[t].status = "indexed" /\ txs[t].status = "mined"
  <1>1. CASE Begin \/ Fetch \/ Snapshot \/ Ambiguous \/ Abandoned \/ UNCHANGED vars
    BY <1>1, QuietSteps
  <1>2. CASE Build
    BY <1>2, BuildBuilds DEF Built
  <1>3. CASE Tick
    BY <1>3, TickAges DEF Aged
  <1>4. ASSUME NEW u \in DOMAIN txs, EndsOwned(u) \/ EndsLocked(u) \/ EndsNone(u)
        PROVE  G
    <2>1. txs[t].status \in {"sent", "mempool", "mined", "indexed", "dead"}
      BY TxTyped
    <2> QED BY <1>4, <2>1 DEF EndsOwned, EndsLocked, EndsNone, Ends, Marked, Live
  <1>5. ASSUME NEW u \in DOMAIN txs, NEW status, Moves(u, status)
        PROVE  G
    BY <1>5 DEF Moves, Marked
  <1> QED BY <1>1, <1>2, <1>3, <1>4, <1>5, StepKinds

\* No two transactions change their status in one step.
LEMMA OneMoves ==
    ASSUME TypeOK, HistInv, [Next]_vars, NEW t \in DOMAIN txs, NEW u \in DOMAIN txs,
           txs'[t].status # txs[t].status, txs'[u].status # txs[u].status
    PROVE  t = u
  <1>1. CASE Begin \/ Fetch \/ Snapshot \/ Ambiguous \/ Abandoned \/ UNCHANGED vars
    BY <1>1, QuietSteps
  <1>2. CASE Build
    BY <1>2, BuildBuilds DEF Built
  <1>3. CASE Tick
    BY <1>3, TickAges DEF Aged
  <1>4. ASSUME NEW v \in DOMAIN txs, EndsOwned(v) \/ EndsLocked(v) \/ EndsNone(v)
        PROVE  t = u
    BY <1>4 DEF EndsOwned, EndsLocked, EndsNone, Ends, Marked
  <1>5. ASSUME NEW v \in DOMAIN txs, NEW status, Moves(v, status)
        PROVE  t = u
    BY <1>5 DEF Moves, Marked
  <1> QED BY <1>1, <1>2, <1>3, <1>4, <1>5, StepKinds

\* What it may do to ages.
LEMMA AgeMoves ==
    ASSUME TypeOK, HistInv, [Next]_vars, NEW t \in DOMAIN txs
    PROVE  txs'[t].age = IF Tick THEN Older(txs[t].age) ELSE txs[t].age
  <1>1. CASE Tick
    BY <1>1, TickAges DEF Aged
  <1>2. CASE Begin \/ Fetch \/ Snapshot \/ Ambiguous \/ Abandoned \/ UNCHANGED vars
    <2>1. txs'[t].age = txs[t].age
      BY <1>2, QuietSteps
    <2> QED BY <1>1, <2>1
  <1>3. CASE Build
    <2>1. txs'[t].age = txs[t].age
      BY <1>3, BuildBuilds DEF Built
    <2> QED BY <1>1, <2>1
  <1>4. ASSUME NEW u \in DOMAIN txs, EndsOwned(u) \/ EndsLocked(u) \/ EndsNone(u)
        PROVE  txs'[t].age = txs[t].age
    BY <1>4 DEF EndsOwned, EndsLocked, EndsNone, Ends, Marked
  <1>5. ASSUME NEW u \in DOMAIN txs, NEW status, Moves(u, status)
        PROVE  txs'[t].age = txs[t].age
    BY <1>5 DEF Moves, Marked
  <1> QED BY <1>1, <1>2, <1>3, <1>4, <1>5, StepKinds

\* A transaction that a step adds is only sent.
LEMMA NewIsSent ==
    ASSUME TypeOK, HistInv, [Next]_vars, NEW t \in DOMAIN txs', t \notin DOMAIN txs
    PROVE  /\ Build /\ t = Len(txs) + 1 /\ txs'[t].status = "sent" /\ txs'[t].booked = "open"
           /\ txs'[t].age = hAge
           /\ \E I \in SUBSET View : txs'[t].inputs = I
  <1>1. CASE Begin \/ Fetch \/ Snapshot \/ Ambiguous \/ Abandoned \/ UNCHANGED vars
    BY <1>1, QuietSteps
  <1>2. CASE Build
    <2>1. PICK I \in SUBSET View, change \in BOOLEAN : Built(I, change)
      BY <1>2, BuildBuilds
    <2>2. /\ t = Len(txs) + 1
          /\ txs'[t] = [inputs |-> I, change |-> change, age |-> hAge,
                        status |-> "sent", booked |-> "open"]
      BY <2>1 DEF Built
    <2> QED BY <1>2, <2>2
  <1>3. CASE Tick
    BY <1>3, TickAges DEF Aged
  <1>4. ASSUME NEW u \in DOMAIN txs, EndsOwned(u) \/ EndsLocked(u) \/ EndsNone(u)
        PROVE  FALSE
    BY <1>4 DEF EndsOwned, EndsLocked, EndsNone, Ends, Marked
  <1>5. ASSUME NEW u \in DOMAIN txs, NEW status, Moves(u, status)
        PROVE  FALSE
    BY <1>5 DEF Moves, Marked
  <1> QED BY <1>1, <1>2, <1>3, <1>4, <1>5, StepKinds

\* Two transactions never get on the network with a common input, nor wait too long.
LEMMA NetStep ==
    ASSUME TypeOK, HistInv, NetInv, [Next]_vars
    PROVE  NetInv'
  <1>1. Kept
    BY TypeStep
  <1>2. \A t \in DOMAIN txs' : Live(t)' => t \in DOMAIN txs
    BY NewIsSent DEF Live
  <1>3. ASSUME NEW t \in DOMAIN txs, Live(t)'
        PROVE  Live(t) \/ (InputsFree(t) /\ MayLand(t) /\ txs'[t].status = "mempool")
    BY <1>3, StatusMoves DEF Live
  <1>4. ASSUME NEW t \in DOMAIN txs, NEW u \in DOMAIN txs, t # u, Live(t)', Live(u)'
        PROVE  txs[t].inputs \cap txs[u].inputs = {}
    <2>1. CASE Live(t) /\ Live(u)
      BY <1>4, <2>1 DEF NetInv, LiveApart
    <2>2. CASE InputsFree(t) /\ Live(u)
      BY <1>4, <2>2 DEF InputsFree, Spenders
    <2>3. CASE Live(t) /\ InputsFree(u)
      BY <1>4, <2>3 DEF InputsFree, Spenders
    <2>4. CASE ~Live(t) /\ ~Live(u)
      <3>1. \E v, w \in DOMAIN txs :
                v # w /\ txs'[v].status # txs[v].status /\ txs'[w].status # txs[w].status
        BY <1>4, <2>4 DEF Live
      <3>2. \A v, w \in DOMAIN txs :
                txs'[v].status # txs[v].status /\ txs'[w].status # txs[w].status => v = w
        BY OneMoves
      <3> QED BY <3>1, <3>2
    <2> QED BY <1>3, <1>4, <2>1, <2>2, <2>3, <2>4
  <1>5. LiveApart'
    BY <1>1, <1>2, <1>4 DEF LiveApart, Kept
  <1>6. ASSUME NEW t \in DOMAIN txs, Live(t)', txs'[t].status # "indexed"
        PROVE  txs'[t].age <= LAG
    <2>1. txs[t].age \in Nat /\ AgeCap \in Nat /\ LAG \in Nat
      BY Ranges, TxTyped
    <2>2. CASE Live(t) /\ txs[t].status # "indexed"
      <3>1. CASE Tick
        <4>1. txs[t].age < LAG /\ txs'[t].age = Older(txs[t].age)
          BY <2>2, <3>1, AgeMoves DEF Tick
        <4> QED BY <2>1, <4>1, Ranges DEF Older
      <3>2. CASE ~Tick
        BY <2>2, <3>2, AgeMoves DEF NetInv, Punctual
      <3> QED BY <3>1, <3>2
    <2>3. CASE txs[t].status = "indexed"
      BY <1>6, <2>3, StatusMoves DEF Live, MayLand
    <2>4. CASE ~Live(t)
      <3>1. MayLand(t) /\ txs'[t].status # txs[t].status
        BY <1>3, <1>6, <2>4 DEF Live
      <3>2. ~Tick
        BY <3>1, TickAges DEF Aged
      <3> QED BY <2>1, <3>1, <3>2, AgeMoves DEF MayLand
    <2> QED BY <2>2, <2>3, <2>4
  <1>7. Punctual'
    BY <1>2, <1>6 DEF Punctual
  <1> QED BY <1>5, <1>7 DEF NetInv

-----------------------------------------------------------------------------
\* Fetch's listings show what is confirmed, and nothing spent in the index.
LEMMA ListedIsThere ==
    ASSUME TypeOK, NEW V \in Chains, NEW o \in Listed(V)
    PROVE  /\ o \in Outpoints
           /\ o \in Deposits \/ (o \in Confirmed /\ txs[o].change)
           /\ \A t \in Indexed : o \notin txs[t].inputs
  BY DEF Listed, Chains, Spenders, Indexed

\* Confirmed transactions stay confirmed, indexed ones indexed.
LEMMA ConfirmedStay ==
    ASSUME TypeOK, HistInv, [Next]_vars
    PROVE  Confirmed \subseteq Confirmed' /\ Indexed \subseteq Indexed'
  <1>1. ASSUME NEW t \in DOMAIN txs
        PROVE  /\ t \in DOMAIN txs'
               /\ txs[t].status = "indexed" => txs'[t].status = "indexed"
               /\ txs[t].status = "mined" => txs'[t].status \in {"mined", "indexed"}
    BY TypeStep, StatusMoves DEF Kept, MayLand
  <1> QED BY <1>1 DEF Confirmed, Indexed

\* The listing in hand stays sound while the operation holds it.
LEMMA ListStep ==
    ASSUME TypeOK, NetInv, HistInv, ListInv, [Next]_vars
    PROVE  ListInv'
  <1>1. Kept
    BY TypeStep
  <1>2. CASE listing' = {}
    BY <1>2 DEF ListInv
  <1>3. CASE Fetch /\ listing' # {}
    <2>1. listing = {} /\ phase = "viewing"
      BY <1>3 DEF Fetch, ListInv
    <2>2. PICK V \in Chains : listing' = Listed(V)
      BY <1>3, <2>1 DEF Fetch
    <2>3. phase' = "listed" /\ UNCHANGED <<txs, hAge>>
      BY <1>3, <2>1 DEF Fetch
    <2>4. ASSUME NEW t \in DOMAIN txs, Live(t), txs[t].age - hAge > LAG
          PROVE  txs[t].inputs \cap Listed(V) = {}
      <3>1. txs[t].age \in Nat /\ hAge \in Nat /\ LAG \in Nat
        BY TxTyped, Ranges DEF TypeOK
      <3>2. t \in Indexed
        BY <2>4, <3>1 DEF NetInv, Punctual, Indexed
      <3> QED BY <3>2, ListedIsThere
    <2>5. \A o \in Listed(V) : o \in Deposits \/ (o \in Confirmed /\ txs[o].change)
      BY ListedIsThere
    <2> QED BY <2>2, <2>3, <2>4, <2>5 DEF ListInv, Confirmed, Live
  <1>4. CASE listing' = listing /\ phase' = phase /\ (hAge' = hAge \/ Tick)
    <2>1. phase' # "listed" => listing' = {}
      BY <1>4 DEF ListInv
    <2>2. \A o \in listing' : o \in Deposits \/ (o \in Confirmed' /\ txs'[o].change)
      BY <1>1, <1>4, ConfirmedStay DEF ListInv, Kept, Confirmed
    <2>3. ASSUME NEW t \in DOMAIN txs', Live(t)', txs'[t].age - hAge' > LAG
          PROVE  txs'[t].inputs \cap listing' = {}
      <3>1. t \in DOMAIN txs /\ (Live(t) \/ MayLand(t))
        BY <2>3, NewIsSent, StatusMoves DEF Live
      <3>2. txs[t].age \in Ages /\ hAge \in Ages
        BY <3>1, TxTyped DEF TypeOK
      <3>3. CASE phase = "idle"
        BY <1>4, <3>3 DEF ListInv
      <3>4. CASE phase # "idle"
        <4>1. txs'[t].age - hAge' <= txs[t].age - hAge /\ txs'[t].age \in Int /\ hAge' \in Int
          <5>1. CASE Tick
            <6>1. txs'[t].age = Older(txs[t].age) /\ hAge' = Older(hAge) /\ hAge < HANDLER
              BY <3>1, <3>4, <5>1, AgeMoves DEF Tick
            <6> QED BY <3>2, <6>1, Ranges DEF Older
          <5>2. CASE ~Tick
            BY <1>4, <3>1, <3>2, <5>2, AgeMoves, Ranges
          <5> QED BY <5>1, <5>2
        <4>2. txs[t].age - hAge > LAG
          BY <2>3, <3>2, <4>1, Ranges
        <4>3. Live(t)
          BY <3>1, <3>2, <4>2, Ranges DEF MayLand
        <4> QED BY <1>1, <1>4, <3>1, <4>2, <4>3 DEF ListInv, Kept
      <3> QED BY <3>3, <3>4
    <2> QED BY <2>1, <2>2, <2>3 DEF ListInv
  <1>5. ASSUME NEW t \in DOMAIN txs, EndsOwned(t) \/ EndsLocked(t) \/ EndsNone(t)
        PROVE  listing' = {}
    BY <1>5 DEF EndsOwned, EndsLocked, EndsNone, Ends, ListInv, Broadcasting
  <1>6. CASE Begin \/ Snapshot \/ Build \/ Ambiguous \/ Abandoned
    BY <1>2, <1>6 DEF Begin, Snapshot, Build, Ambiguous, Abandoned, ListInv
  <1>7. ASSUME NEW t \in DOMAIN txs, NEW status, Moves(t, status)
        PROVE  ListInv'
    BY <1>4, <1>7 DEF Moves
  <1>8. CASE Tick
    BY <1>4, <1>8 DEF Tick
  <1>9. CASE UNCHANGED vars
    BY <1>4, <1>9 DEF vars
  <1> QED BY <1>2, <1>3, <1>5, <1>6, <1>7, <1>8, <1>9, StepKinds

-----------------------------------------------------------------------------
\* What a view is made of.
LEMMA ViewIsKnown ==
    ASSUME TypeOK, ListInv, reconcile, NEW o \in View
    PROVE  /\ o \in Outpoints /\ spent'[o] = None
           /\ o \in listing \/ (pending[o] # None /\ pending'[o] = pending[o])
           /\ o \in Deposits \/ o \in DOMAIN txs
  <1>1. o \in Outpoints /\ spent'[o] = None /\ (o \in listing \/ pending'[o] # None)
    BY DEF View
  <1>2. pending'[o] # None => pending'[o] = pending[o]
    BY <1>1, ReconcileTyped
  <1> QED BY <1>1, <1>2 DEF ListInv, Confirmed, TypeOK

\* The history stays in order.
LEMMA HistStep ==
    ASSUME TypeOK, HistInv, ListInv, [Next]_vars
    PROVE  HistInv'
  <1> USE DEF Broadcasting
  <1>0. /\ 0 <= HANDLER /\ HANDLER \in Nat /\ hAge \in Ages /\ Len(txs) \in Nat
        /\ DOMAIN txs = 1 .. Len(txs)
        /\ \A t \in DOMAIN txs : txs[t].age \in Ages
    BY Ranges, TxTyped DEF TypeOK
  <1>1. CASE txs' = txs /\ (hAge' = hAge \/ hAge' = 0) /\ (phase' = "idle" => hAge' = 0)
             /\ phase \notin Broadcasting /\ phase' \notin Broadcasting
    BY <1>0, <1>1, Ranges DEF HistInv, InHandOpen, InOrder, OwnedWasSeen, InHand
  <1>2. CASE txs' = txs /\ hAge' = hAge /\ (phase' = phase \/ Ambiguous)
    BY <1>2 DEF HistInv, InHandOpen, InOrder, OwnedWasSeen, InHand, Ambiguous
  <1>3. CASE Begin \/ Fetch \/ Snapshot \/ Abandoned
    <2>1. CASE Begin \/ Fetch \/ Snapshot
      BY <1>1, <2>1 DEF Begin, Fetch, Snapshot, Done, HistInv
    <2>2. CASE Abandoned
      BY <1>1, <2>2 DEF Abandoned
    <2> QED BY <1>3, <2>1, <2>2
  <1>4. CASE Build
    <2>1. PICK I \in SUBSET View, change \in BOOLEAN : Built(I, change)
      BY <1>4, BuildBuilds
    <2> DEFINE new == Len(txs) + 1
    <2>2. /\ phase = "listed" /\ phase' = "broadcasting" /\ hAge' = hAge /\ reconcile
      BY <1>4 DEF Build
    <2>3. /\ Len(txs') = new /\ DOMAIN txs' = DOMAIN txs \cup {new} /\ new \notin DOMAIN txs
          /\ \A u \in DOMAIN txs : txs'[u] = txs[u] /\ u < new
          /\ txs'[new].inputs = I /\ txs'[new].age = hAge
          /\ txs'[new].status = "sent" /\ txs'[new].booked = "open"
      BY <1>0, <2>1 DEF Built
    <2>4. \A t \in DOMAIN txs : txs[t].booked # "open"
      BY <2>2 DEF HistInv, InHandOpen
    <2>5. \A o \in I : o \in Deposits \/ o < new
      BY <2>2, <2>3, ViewIsKnown
    <2>6. InHandOpen'
      BY <2>2, <2>3, <2>4, <1>0 DEF InHandOpen, InHand
    <2>7. InOrder'
      <3>1. \A t \in DOMAIN txs' : hAge' <= txs'[t].age
        BY <1>0, <2>2, <2>3, Ranges DEF HistInv, InOrder
      <3>2. \A t, u \in DOMAIN txs' : t < u => txs'[u].age <= txs'[t].age
        BY <1>0, <2>2, <2>3, Ranges DEF HistInv, InOrder
      <3>3. \A t \in DOMAIN txs' : \A o \in txs'[t].inputs : o \in Deposits \/ o < t
        BY <2>3, <2>5 DEF HistInv, InOrder
      <3> QED BY <3>1, <3>2, <3>3 DEF InOrder
    <2>8. OwnedWasSeen'
      BY <2>3 DEF HistInv, OwnedWasSeen
    <2> QED BY <2>2, <2>6, <2>7, <2>8 DEF HistInv
  <1>5. CASE Tick
    <2>1. Aged /\ phase' = phase /\ (phase # "idle" => hAge < HANDLER)
          /\ hAge' = IF phase = "idle" THEN hAge ELSE Older(hAge)
      BY <1>5, TickAges DEF Tick
    <2>2. hAge' = IF phase = "idle" THEN hAge ELSE hAge + 1
      BY <1>0, <2>1, Ranges DEF Older
    <2>3. \A t \in DOMAIN txs : txs'[t].age = IF txs[t].age = AgeCap THEN AgeCap ELSE txs[t].age + 1
      BY <1>0, <2>1, Ranges DEF Aged, Older
    <2>4. hAge' <= HANDLER /\ (phase' = "idle" => hAge' = 0)
      BY <1>0, <2>1, <2>2, Ranges DEF HistInv
    <2>5. InOrder'
      <3>1. \A t \in DOMAIN txs' : hAge' <= txs'[t].age
        BY <1>0, <2>1, <2>2, <2>3, Ranges DEF HistInv, InOrder, Aged
      <3>2. ASSUME NEW t \in DOMAIN txs', NEW u \in DOMAIN txs', t < u
            PROVE  txs'[u].age <= txs'[t].age
        BY <1>0, <2>1, <2>3, <3>2, Ranges DEF HistInv, InOrder, Aged
      <3>3. \A t \in DOMAIN txs' : \A o \in txs'[t].inputs : o \in Deposits \/ o < t
        BY <2>1 DEF HistInv, InOrder, Aged
      <3> QED BY <3>1, <3>2, <3>3 DEF InOrder
    <2>6. InHandOpen'
      <3>1. phase \in Broadcasting => InHand \in DOMAIN txs /\ hAge' = hAge + 1
                    /\ txs'[InHand].age = hAge + 1
        BY <1>0, <2>1, <2>2, <2>3, InHandThere, Ranges DEF HistInv, InHandOpen
      <3> QED BY <2>1, <3>1, InHandThere DEF HistInv, InHandOpen, Aged, InHand
    <2>7. OwnedWasSeen'
      BY <2>1 DEF HistInv, OwnedWasSeen, Aged
    <2> QED BY <2>4, <2>5, <2>6, <2>7 DEF HistInv
  <1>6. ASSUME NEW t \in DOMAIN txs, EndsOwned(t) \/ EndsLocked(t) \/ EndsNone(t)
        PROVE  HistInv'
    <2> DEFINE R(status, booked) ==
            /\ Marked(t, status, booked) /\ phase' = "idle" /\ hAge' = 0
            /\ booked = "owned" => status = txs[t].status /\ status # "sent"
            /\ t = InHand \/ phase = "viewing"
    <2>1. PICK status \in {txs[t].status, "dead"}, booked \in {"owned", "locked", "none"} :
            R(status, booked)
      <3>1. CASE EndsOwned(t)
        <4>1. R(txs[t].status, "owned")
          BY <3>1 DEF EndsOwned, Ends, Live
        <4> QED BY <4>1
      <3>2. CASE EndsLocked(t)
        <4>1. R(txs[t].status, "locked") \/ R("dead", "locked")
          BY <3>2 DEF EndsLocked, Ends
        <4> QED BY <4>1
      <3>3. CASE EndsNone(t)
        <4>1. R(txs[t].status, "none") \/ R("dead", "none")
          BY <3>3 DEF EndsNone, Ends
        <4> QED BY <4>1
      <3> QED BY <1>6, <3>1, <3>2, <3>3
    <2>2. InHandOpen'
      BY <2>1 DEF HistInv, InHandOpen, Marked, InHand
    <2>3. InOrder'
      BY <1>0, <2>1, Ranges DEF HistInv, InOrder, Marked
    <2>4. OwnedWasSeen'
      BY <2>1 DEF HistInv, OwnedWasSeen, Marked
    <2> QED BY <1>0, <2>1, <2>2, <2>3, <2>4 DEF HistInv
  <1>7. ASSUME NEW t \in DOMAIN txs, NEW status \in {"mempool", "mined", "indexed", "dead"},
               Moves(t, status)
        PROVE  HistInv'
    <2>1. Marked(t, status, txs[t].booked) /\ UNCHANGED <<phase, hAge>>
      BY <1>7 DEF Moves
    <2> QED BY <2>1 DEF HistInv, InHandOpen, InOrder, OwnedWasSeen, Marked, InHand
  <1>8. CASE Ambiguous \/ UNCHANGED vars
    BY <1>2, <1>8 DEF Ambiguous, vars
  <1> QED BY <1>3, <1>4, <1>5, <1>6, <1>7, <1>8, StepKinds

-----------------------------------------------------------------------------
\* Inputs are deposits or transactions built before.
LEMMA InputsKnown ==
    ASSUME TypeOK, HistInv, NEW t \in DOMAIN txs, NEW o \in txs[t].inputs
    PROVE  o \in Outpoints /\ (o \in Deposits \/ (o \in DOMAIN txs /\ o < t))
  <1>1. o \in Outpoints /\ (o \in Deposits \/ o < t)
    BY TxTyped DEF HistInv, InOrder
  <1>2. t \in 1 .. Len(txs) /\ DOMAIN txs = 1 .. Len(txs) /\ Len(txs) \in Nat /\ MaxTxs \in Nat
    BY TxTyped, LedgerAssumption DEF TypeOK, LedgerAssumption
  <1> QED BY <1>1, <1>2 DEF Outpoints

\* Locking writes the operation's own age.
LEMMA LockWrites ==
    ASSUME TypeOK, NEW t \in DOMAIN txs, lockInputs(t), NEW o \in Outpoints
    PROVE  spent'[o] = IF o \in txs[t].inputs THEN hAge ELSE spent[o]
  BY DEF lockInputs

\* What the end of a broadcast writes: its inputs and its own change.
LEMMA EndsRows ==
    ASSUME TypeOK, NEW t \in DOMAIN txs, EndsOwned(t) \/ EndsLocked(t) \/ EndsNone(t),
           NEW o \in Outpoints
    PROVE  /\ spent'[o] = spent[o] \/ (spent'[o] = hAge /\ o \in txs[t].inputs)
           /\ pending'[o] = pending[o]
                \/ (EndsOwned(t) /\ o = t /\ txs[t].change /\ pending'[o] = hAge)
  <1>1. spent'[o] = spent[o] \/ (spent'[o] = hAge /\ o \in txs[t].inputs)
    BY LockWrites DEF EndsOwned, EndsLocked, EndsNone, recordSpend, tables
  <1>2. CASE EndsOwned(t)
    BY <1>1, <1>2 DEF EndsOwned, recordSpend, TypeOK
  <1>3. CASE EndsLocked(t) \/ EndsNone(t)
    BY <1>1, <1>3 DEF EndsLocked, EndsNone, tables
  <1> QED BY <1>2, <1>3

\* A spent row is younger than what it is about.
LEMMA SpentYoungStep ==
    ASSUME TypeOK, HistInv, ListInv, SpentYoung, [Next]_vars
    PROVE  SpentYoung'
  <1>0. /\ hAge \in Ages /\ DOMAIN txs \subseteq DOMAIN txs' /\ Kept /\ TypeOK'
        /\ \A t \in DOMAIN txs : txs[t].age \in Ages /\ hAge <= txs[t].age
    BY TypeStep, TxTyped DEF TypeOK, Kept, HistInv, InOrder
  <1>1. ASSUME ~Tick, ~Build,
               \A o \in Outpoints : spent'[o] # None =>
                    spent'[o] = spent[o] \/ (spent'[o] = hAge /\ o \in Deposits \cup DOMAIN txs)
        PROVE  SpentYoung'
    <2>1. DOMAIN txs' = DOMAIN txs
      BY <1>0, <1>1, NewIsSent
    <2>2. \A t \in DOMAIN txs : txs'[t].age = txs[t].age /\ txs'[t].inputs = txs[t].inputs
      BY <1>0, <1>1, AgeMoves DEF Kept
    <2> QED BY <1>0, <1>1, <2>1, <2>2 DEF SpentYoung, Spenders
  <1>2. CASE Build
    <2>1. PICK I \in SUBSET View, change \in BOOLEAN : Built(I, change)
      BY <1>2, BuildBuilds
    <2>2. reconcile
      BY <1>2 DEF Build
    <2>3. \A o \in I : spent'[o] = None
      BY <2>1 DEF View
    <2>4. \A o \in Outpoints : spent'[o] # None => spent'[o] = spent[o]
      BY <2>2, ReconcileTyped
    <2>5. ASSUME NEW o \in Outpoints, spent'[o] # None, NEW t \in DOMAIN txs', o \in txs'[t].inputs
          PROVE  spent'[o] <= txs'[t].age
      <3>1. t \in DOMAIN txs /\ txs'[t] = txs[t]
        BY <2>1, <2>3, <2>5 DEF Built
      <3> QED BY <2>4, <2>5, <3>1 DEF SpentYoung, Spenders
    <2>6. ASSUME NEW o \in Outpoints, spent'[o] # None
          PROVE  /\ o \in Deposits \cup DOMAIN txs'
                 /\ o \in DOMAIN txs' => spent'[o] <= txs'[o].age
      <3>1. o \in Deposits \cup DOMAIN txs /\ (o \in DOMAIN txs => spent'[o] <= txs[o].age)
        BY <2>4, <2>6 DEF SpentYoung
      <3>2. o \in DOMAIN txs' => o \in DOMAIN txs
        <4>1. o \in Deposits => o \notin 1 .. MaxTxs
          BY LedgerAssumption DEF LedgerAssumption
        <4>2. DOMAIN txs' \subseteq 1 .. MaxTxs
          BY <1>0, LedgerAssumption DEF TypeOK, LedgerAssumption
        <4> QED BY <3>1, <4>1, <4>2
      <3> QED BY <1>0, <2>1, <3>1, <3>2 DEF Built
    <2> QED BY <2>5, <2>6 DEF SpentYoung, Spenders
  <1>3. CASE Tick
    <2>1. Aged /\ spent' = [o \in Outpoints |-> Older(spent[o])]
      BY <1>3, TickAges DEF Tick
    <2>2. ASSUME NEW o \in Outpoints, spent'[o] # None
          PROVE  /\ spent[o] # None /\ spent[o] \in Ages
                 /\ \A a \in Ages : spent[o] <= a => spent'[o] <= Older(a)
      <3>1. spent[o] \in Ages \cup {None} /\ spent'[o] = Older(spent[o])
        BY <2>1 DEF TypeOK
      <3>2. spent[o] # None
        BY <2>2, <3>1 DEF Older
      <3> QED BY <3>1, <3>2, Ranges DEF Older
    <2>3. \A o \in Outpoints : Spenders(o)' = Spenders(o)
      BY <2>1 DEF Aged, Spenders
    <2> QED BY <1>0, <2>1, <2>2, <2>3 DEF SpentYoung, Aged, Spenders
  <1>4. CASE Begin \/ Fetch \/ Ambiguous \/ Abandoned \/ UNCHANGED vars
    <2>1. spent' = spent
      BY <1>4 DEF Begin, Fetch, Ambiguous, Abandoned, vars, tables
    <2> QED BY <1>1, <1>2, <1>3, <2>1
  <1>5. CASE Snapshot
    <2>1. \A o \in Outpoints : spent'[o] # None => spent'[o] = spent[o]
      BY <1>5, ReconcileTyped DEF Snapshot
    <2> QED BY <1>1, <1>2, <1>3, <2>1
  <1>6. ASSUME NEW t \in DOMAIN txs, EndsOwned(t) \/ EndsLocked(t) \/ EndsNone(t)
        PROVE  SpentYoung'
    <2>1. \A o \in Outpoints : spent'[o] = spent[o] \/ (spent'[o] = hAge /\ o \in txs[t].inputs)
      BY <1>6, EndsRows
    <2>2. \A o \in txs[t].inputs : o \in Deposits \cup DOMAIN txs
      BY InputsKnown
    <2> QED BY <1>1, <1>2, <1>3, <2>1, <2>2
  <1>7. ASSUME NEW t \in DOMAIN txs, NEW status, Moves(t, status)
        PROVE  SpentYoung'
    <2>1. spent' = spent
      BY <1>7 DEF Moves, tables
    <2> QED BY <1>1, <1>2, <1>3, <2>1
  <1> QED BY <1>2, <1>3, <1>4, <1>5, <1>6, <1>7, StepKinds

\* A pending row is as old as its transaction, or that one is confirmed.
LEMMA PendingStep ==
    ASSUME TypeOK, HistInv, PendingTimed, [Next]_vars
    PROVE  PendingTimed'
  <1>0. /\ hAge \in Ages /\ Kept /\ TypeOK' /\ Confirmed \subseteq Confirmed'
        /\ \A o \in Outpoints : pending[o] # None => o \in DOMAIN txs
    BY TypeStep, ConfirmedStay DEF TypeOK
  <1>1. ASSUME ~Tick, UNCHANGED pending,
               phase' \in {"viewing", "listed"} => phase \in {"viewing", "listed"} /\ hAge' = hAge
        PROVE  PendingTimed'
    BY <1>0, <1>1, AgeMoves DEF PendingTimed
  <1>2. CASE Begin
    <2>1. /\ hAge' = hAge /\ hAge = 0 /\ txs' = txs
          /\ \A o \in Outpoints : pending'[o] # None => pending'[o] = pending[o] /\ pending[o] <= PENDING_TTL
      <3>1. pending' = [o \in Outpoints |->
                IF pending[o] # None /\ pending[o] > PENDING_TTL THEN None ELSE pending[o]]
        BY <1>2 DEF Begin
      <3>2. \A o \in Outpoints : pending[o] # None => pending[o] \in Ages
        BY DEF TypeOK
      <3>3. hAge' = hAge /\ hAge = 0 /\ txs' = txs
        BY <1>2 DEF Begin, HistInv
      <3> QED BY <3>1, <3>2, <3>3, Ranges
    <2>2. \A o \in Outpoints : pending[o] # None => pending[o] \in Ages
      BY DEF TypeOK
    <2> QED BY <1>0, <2>1, <2>2, Ranges DEF PendingTimed
  <1>3. CASE Snapshot \/ Build
    <2>1. /\ phase' \notin {"viewing", "listed"} /\ ~Tick
          /\ \A o \in Outpoints : pending'[o] # None => pending'[o] = pending[o]
      <3>1. reconcile /\ phase' # phase /\ phase' \notin {"viewing", "listed"}
        BY <1>3 DEF Snapshot, Build, Done
      <3> QED BY <3>1, ReconcileTyped DEF Tick
    <2> QED BY <1>0, <2>1, AgeMoves DEF PendingTimed
  <1>4. CASE Tick
    <2>1. Aged /\ pending' = [o \in Outpoints |-> Older(pending[o])] /\ phase' = phase
      BY <1>4, TickAges DEF Tick
    <2>2. ASSUME NEW o \in Outpoints, pending'[o] # None
          PROVE  /\ pending[o] # None /\ pending[o] \in Ages /\ pending'[o] = Older(pending[o])
      <3>1. pending[o] \in Ages \cup {None} /\ pending'[o] = Older(pending[o])
        BY <2>1 DEF TypeOK
      <3> QED BY <2>2, <3>1 DEF Older
    <2>3. ASSUME phase \in {"viewing", "listed"}, NEW o \in Outpoints, pending'[o] # None
          PROVE  pending'[o] - hAge' <= PENDING_TTL
      <3>1. hAge' = Older(hAge) /\ hAge < HANDLER
        BY <1>4, <2>3 DEF Tick
      <3>2. hAge' = hAge + 1
        BY <1>0, <3>1, Ranges DEF Older
      <3>3. pending[o] \in Ages /\ pending'[o] \in Ages /\ pending'[o] <= pending[o] + 1
        BY <2>2, <2>3, Ranges DEF Older
      <3>4. pending[o] - hAge <= PENDING_TTL
        BY <2>2, <2>3 DEF PendingTimed
      <3> QED BY <1>0, <3>2, <3>3, <3>4, Ranges
    <2>4. ASSUME NEW o \in Outpoints, pending'[o] # None
          PROVE  o \in Confirmed' \/ pending'[o] = txs'[o].age
      BY <1>0, <2>1, <2>2, <2>4 DEF PendingTimed, Aged
    <2> QED BY <2>1, <2>3, <2>4 DEF PendingTimed
  <1>5. ASSUME NEW t \in DOMAIN txs, EndsOwned(t) \/ EndsLocked(t) \/ EndsNone(t)
        PROVE  PendingTimed'
    <2>1. phase' = "idle" /\ \A o \in DOMAIN txs : txs'[o].age = txs[o].age
      BY <1>5 DEF EndsOwned, EndsLocked, EndsNone, Ends, Marked
    <2>2. EndsOwned(t) => t \in Confirmed \/ txs[t].age = hAge
      BY DEF EndsOwned, HistInv, InHandOpen
    <2>3. \A o \in Outpoints : pending'[o] = pending[o] \/ (EndsOwned(t) /\ o = t /\ pending'[o] = hAge)
      BY <1>5, EndsRows
    <2> QED BY <1>0, <2>1, <2>2, <2>3 DEF PendingTimed
  <1>6. CASE Fetch \/ Ambiguous \/ Abandoned \/ UNCHANGED vars
    <2>1. UNCHANGED <<pending, txs>>
      BY <1>6 DEF Fetch, Ambiguous, Abandoned, vars, tables
    <2>2. phase' \in {"viewing", "listed"} => phase \in {"viewing", "listed"} /\ hAge' = hAge
      BY <1>6 DEF Fetch, Done, Ambiguous, Abandoned, vars
    <2> QED BY <1>0, <2>1, <2>2 DEF PendingTimed
  <1>7. ASSUME NEW t \in DOMAIN txs, NEW status, Moves(t, status)
        PROVE  PendingTimed'
    <2>1. UNCHANGED <<pending, phase, hAge>> /\ \A o \in DOMAIN txs : txs'[o].age = txs[o].age
      BY <1>7 DEF Moves, Marked, tables
    <2> QED BY <1>0, <2>1 DEF PendingTimed
  <1> QED BY <1>2, <1>3, <1>4, <1>5, <1>6, <1>7, StepKinds

\* Deposits are not outputs of ours.
LEMMA NotDeposit ==
    ASSUME TypeOK, NEW o \in DOMAIN txs
    PROVE  o \in Outpoints /\ o \notin Deposits
  BY TxTyped, LedgerAssumption DEF LedgerAssumption, Outpoints

\* Rows of change that waits for a block survive prune and reconcile.
LEMMA OwnPendingStep ==
    ASSUME LAG <= SETTLED, LAG <= PENDING_TTL,
           TypeOK, NetInv, HistInv, ListInv, RowInv, OwnPending, [Next]_vars
    PROVE  OwnPending'
  <1> DEFINE Waits(o) == txs[o].change /\ txs[o].booked = "owned" /\ txs[o].status = "mempool"
  <1>0. /\ hAge \in Ages /\ Kept
        /\ \A o \in DOMAIN txs : txs[o].age \in Ages /\ o \in Outpoints /\ o \notin Deposits
        /\ \A o \in Outpoints : pending[o] \in Ages \cup {None}
    BY TypeStep, TxTyped, NotDeposit DEF TypeOK
  <1>1. \A o \in DOMAIN txs : Waits(o) =>
            pending[o] # None /\ pending[o] \in Ages /\ pending[o] <= txs[o].age /\ txs[o].age <= LAG
    BY <1>0 DEF OwnPending, NetInv, Punctual, Live
  <1>2. CASE Begin
    <2>1. txs' = txs /\ pending' = [o \in Outpoints |->
                IF pending[o] # None /\ pending[o] > PENDING_TTL THEN None ELSE pending[o]]
      BY <1>2 DEF Begin
    <2>2. \A o \in DOMAIN txs : Waits(o) => pending'[o] = pending[o]
      BY <1>0, <1>1, <2>1, Ranges
    <2> QED BY <1>1, <2>1, <2>2 DEF OwnPending
  <1>3. CASE Snapshot \/ Build
    <2>1. ASSUME NEW o \in DOMAIN txs, Waits(o)
          PROVE  pending'[o] = pending[o]
      <3>1. o \notin listing
        BY <1>0, <2>1 DEF ListInv, Confirmed
      <3>2. ~Settled(o)
        <4>1. spent[o] # None => spent[o] <= txs[o].age /\ spent[o] \in Ages
          BY <1>0 DEF RowInv, SpentYoung, TypeOK
        <4> QED BY <1>0, <1>1, <2>1, <4>1, Ranges DEF Settled, RowAge
      <3>3. pending' = [p \in Outpoints |-> IF Settled(p) \/ p \in listing THEN None ELSE pending[p]]
        BY <1>3 DEF Snapshot, Build, reconcile
      <3> HIDE DEF Settled
      <3> QED BY <1>0, <3>1, <3>2, <3>3
    <2>2. \A o \in DOMAIN txs' : Waits(o)' => o \in DOMAIN txs /\ txs'[o] = txs[o]
      BY <1>3, NewIsSent, BuildBuilds DEF Snapshot, Built
    <2> QED BY <1>1, <2>1, <2>2 DEF OwnPending
  <1>4. CASE Tick
    <2>1. Aged /\ pending' = [o \in Outpoints |-> Older(pending[o])]
      BY <1>4, TickAges DEF Tick
    <2>2. ASSUME NEW o \in DOMAIN txs, Waits(o)
          PROVE  pending'[o] # None /\ pending'[o] <= Older(txs[o].age)
      <3>1. pending'[o] = Older(pending[o])
        BY <1>0, <2>1
      <3> QED BY <1>0, <1>1, <2>2, <3>1, Ranges DEF Older
    <2> QED BY <2>1, <2>2 DEF OwnPending, Aged
  <1>5. ASSUME NEW t \in DOMAIN txs, EndsOwned(t) \/ EndsLocked(t) \/ EndsNone(t)
        PROVE  OwnPending'
    <2>1. DOMAIN txs' = DOMAIN txs /\ \A o \in DOMAIN txs : txs'[o].age = txs[o].age
      BY <1>5 DEF EndsOwned, EndsLocked, EndsNone, Ends, Marked
    <2>2. ASSUME NEW o \in DOMAIN txs, Waits(o)'
          PROVE  (Waits(o) /\ pending'[o] = pending[o]) \/ pending'[o] = hAge
      <3>1. CASE o = t
        <4>1. EndsOwned(t)
          BY <1>5, <2>2, <3>1 DEF EndsLocked, EndsNone, Ends, Marked
        <4> QED BY <1>0, <2>2, <3>1, <4>1 DEF EndsOwned, recordSpend, TypeOK, Kept
      <3>2. CASE o # t
        <4>1. Waits(o)
          BY <1>0, <1>5, <2>2, <3>2 DEF EndsOwned, EndsLocked, EndsNone, Ends, Marked
        <4> QED BY <1>0, <1>5, <3>2, <4>1, EndsRows
      <3> QED BY <3>1, <3>2
    <2>3. \A o \in DOMAIN txs : hAge <= txs[o].age /\ hAge # None
      BY <1>0, Ranges DEF HistInv, InOrder
    <2> QED BY <1>1, <2>1, <2>2, <2>3 DEF OwnPending
  <1>6. ASSUME NEW t \in DOMAIN txs, NEW status, Moves(t, status)
        PROVE  OwnPending'
    <2>1. Marked(t, status, txs[t].booked) /\ pending' = pending
      BY <1>6 DEF Moves, tables
    <2>2. txs[t].booked = "owned" /\ status = "mempool" => FALSE
      BY <1>6 DEF Moves, MayLand, HistInv, OwnedWasSeen
    <2> QED BY <2>1, <2>2 DEF OwnPending, Marked
  <1>7. CASE Fetch \/ Ambiguous \/ Abandoned \/ UNCHANGED vars
    <2>1. UNCHANGED <<pending, txs>>
      BY <1>7 DEF Fetch, Ambiguous, Abandoned, vars, tables
    <2> QED BY <2>1 DEF OwnPending
  <1> QED BY <1>2, <1>3, <1>4, <1>5, <1>6, <1>7, StepKinds

-----------------------------------------------------------------------------
\* Who is out of play never comes back.
LEMMA InPlayShrinks ==
    ASSUME TypeOK, HistInv, [Next]_vars, NEW t \in DOMAIN txs, InPlay(t)'
    PROVE  InPlay(t)
  <1>0. Kept /\ Confirmed \subseteq Confirmed' /\ txs[t].age \in Ages
    BY TypeStep, ConfirmedStay, TxTyped
  <1>1. Beaten(t) => Beaten(t)'
    BY <1>0 DEF Beaten, Spenders, Kept
  <1>2. MayLand(t)' => MayLand(t)
    <2>1. txs'[t].status = "sent" => txs[t].status = "sent"
      BY StatusMoves
    <2>2. txs'[t].age = txs[t].age \/ txs'[t].age = Older(txs[t].age)
      BY AgeMoves
    <2>3. txs'[t].age < LAG => txs[t].age < LAG
      BY <1>0, <2>2, Ranges DEF Older
    <2> QED BY <2>1, <2>3 DEF MayLand
  <1>3. Live(t)' => Live(t) \/ (MayLand(t) /\ InputsFree(t))
    BY StatusMoves DEF Live
  <1>4. InputsFree(t) => ~Beaten(t)
    BY DEF InputsFree, Beaten, Confirmed, Live, Spenders
  <1> QED BY <1>1, <1>2, <1>3, <1>4 DEF InPlay

\* In play, and older than LAG, is indexed.
LEMMA OldIsIndexed ==
    ASSUME TypeOK, NetInv, NEW t \in DOMAIN txs, InPlay(t), txs[t].age > LAG
    PROVE  t \in Indexed
  <1>1. txs[t].age \in Nat /\ LAG \in Nat
    BY TxTyped, Ranges
  <1>2. Live(t)
    BY <1>1 DEF InPlay, MayLand
  <1> QED BY <1>1, <1>2 DEF NetInv, Punctual, Indexed

\* A row that reconcile drops is older than LAG at the operation's "now".
LEMMA DroppedIsOld ==
    ASSUME LAG <= SETTLED, TypeOK, NetInv, ListInv, SpentYoung, reconcile,
           NEW t \in DOMAIN txs, InPlay(t), NEW o \in txs[t].inputs,
           spent[o] # None, spent'[o] = None
    PROVE  /\ t \in Indexed /\ txs[t].age - hAge > SETTLED
           /\ Settled(o) /\ pending'[o] = None /\ o \notin listing
  <1>1. /\ o \in Outpoints /\ txs[t].age \in Ages /\ hAge \in Ages /\ spent[o] \in Ages
    BY TxTyped DEF TypeOK
  <1>2. Settled(o) \/ Stale(o)
    <2>1. spent' = [p \in Outpoints |-> IF Settled(p) \/ Stale(p) THEN None ELSE spent[p]]
      BY DEF reconcile
    <2> HIDE DEF Settled, Stale
    <2> QED BY <1>1, <2>1
  <1>3. spent[o] - hAge > SETTLED
    BY <1>1, <1>2, Ranges DEF Settled, Stale, RowAge
  <1>4. spent[o] <= txs[t].age
    BY <1>1 DEF SpentYoung, Spenders
  <1>5. txs[t].age - hAge > SETTLED /\ txs[t].age - hAge > LAG /\ txs[t].age > LAG
    BY <1>1, <1>3, <1>4, Ranges
  <1>6. t \in Indexed
    BY <1>5, OldIsIndexed
  <1>7. o \notin listing
    BY <1>5, <1>6 DEF ListInv, Indexed, Live
  <1>8. Settled(o)
    BY <1>2, <1>7 DEF Stale
  <1>9. pending'[o] = None
    <2>1. pending' = [p \in Outpoints |-> IF Settled(p) \/ p \in listing THEN None ELSE pending[p]]
      BY DEF reconcile
    <2> HIDE DEF Settled
    <2> QED BY <1>1, <1>8, <2>1
  <1> QED BY <1>5, <1>6, <1>7, <1>8, <1>9

\* A masked input is in no view.
LEMMA MaskedHides ==
    ASSUME LAG <= SETTLED, TypeOK, NetInv, ListInv, SpentYoung, reconcile,
           NEW t \in DOMAIN txs, InPlay(t), NEW o \in txs[t].inputs,
           spent[o] # None \/ Gone(t, o)
    PROVE  /\ o \notin View
           /\ spent'[o] # None
                \/ (/\ t \in Indexed /\ txs[t].age - hAge > SETTLED
                    /\ pending'[o] = None /\ o \notin listing)
  <1>1. o \in Outpoints
    BY TxTyped
  <1>2. CASE spent[o] # None
    BY <1>2, DroppedIsOld DEF View
  <1>3. CASE Gone(t, o)
    <2>1. pending'[o] = None
      BY <1>1, <1>3, ReconcileTyped DEF Gone
    <2> QED BY <1>3, <2>1 DEF Gone, View
  <1> QED BY <1>2, <1>3

\* What is gone stays gone, whatever runs.
LEMMA GoneStays ==
    ASSUME FOLLOW <= SETTLED, TypeOK, HistInv, ListInv, [Next]_vars,
           NEW t \in DOMAIN txs, NEW o \in txs[t].inputs, Gone(t, o)
    PROVE  Gone(t, o)'
  <1>0. /\ o \in Outpoints /\ txs[t].age \in Ages /\ hAge \in Ages /\ hAge <= HANDLER
        /\ t \in Indexed' /\ TypeOK' /\ HistInv'
    BY TxTyped, ConfirmedStay, TypeStep, HistStep DEF Gone, TypeOK, HistInv
  <1>1. txs'[t].age - hAge' > SETTLED
    <2>1. CASE Tick
      <3>1. txs'[t].age = Older(txs[t].age) /\ (hAge' = hAge \/ hAge' = Older(hAge))
        BY <2>1, AgeMoves DEF Tick
      <3>2. txs[t].age - hAge > SETTLED
        BY DEF Gone
      <3>3. hAge' <= HANDLER
        BY <1>0 DEF HistInv
      <3> QED BY <1>0, <3>1, <3>2, <3>3, Ranges DEF Older
    <2>2. CASE ~Tick
      <3>1. hAge' = hAge \/ hAge' = 0
        BY <2>2, StepKinds
           DEF Begin, Fetch, Snapshot, Build, Ambiguous, Abandoned, Done, vars,
               EndsOwned, EndsLocked, EndsNone, Ends, Moves
      <3>2. txs'[t].age = txs[t].age /\ txs[t].age - hAge > SETTLED
        BY <2>2, AgeMoves DEF Gone
      <3> QED BY <1>0, <3>1, <3>2, Ranges
    <2> QED BY <2>1, <2>2
  <1>2. o \notin listing'
    <2>1. CASE listing' \subseteq listing
      BY <2>1 DEF Gone
    <2>2. CASE Fetch
      <3>1. CASE \E V \in Chains : listing' = Listed(V)
        BY <3>1, ListedIsThere DEF Gone
      <3>2. CASE listing' = listing
        BY <3>2 DEF Gone
      <3> QED BY <2>2, <3>1, <3>2 DEF Fetch
    <2>3. ~Fetch => listing' \subseteq listing
      BY StepKinds
         DEF Begin, Snapshot, Build, Ambiguous, Abandoned, Tick, vars,
             EndsOwned, EndsLocked, EndsNone, Ends, Moves
    <2> QED BY <2>1, <2>2, <2>3
  <1>3. pending'[o] = None
    <2>0. pending[o] = None
      BY DEF Gone
    <2>1. ASSUME NEW u \in DOMAIN txs, EndsOwned(u) \/ EndsLocked(u) \/ EndsNone(u)
          PROVE  pending'[o] = None
      <3>1. CASE EndsOwned(u) /\ o = u
        <4>1. o < t /\ o \in DOMAIN txs
          BY <3>1, InputsKnown, NotDeposit
        <4>2. txs[t].age <= txs[o].age /\ txs[o].age \in Ages
          BY <4>1, TxTyped DEF HistInv, InOrder
        <4>3. txs[o].age - hAge > FOLLOW
          BY <1>0, <4>2, Ranges DEF Gone
        <4>4. o # InHand
          <5>1. InHand = Len(txs) /\ t \in 1 .. Len(txs) /\ Len(txs) \in Nat
            BY TxTyped DEF TypeOK, InHand
          <5> QED BY <4>1, <5>1, TxTyped
        <4> QED BY <1>0, <3>1, <4>2, <4>3, <4>4, Ranges DEF EndsOwned
      <3>2. CASE ~(EndsOwned(u) /\ o = u)
        BY <1>0, <2>0, <2>1, <3>2, EndsRows
      <3> QED BY <3>1, <3>2
    <2>2. CASE Snapshot \/ Build
      BY <1>0, <2>0, <2>2, ReconcileTyped DEF Snapshot, Build
    <2>3. CASE Begin \/ Tick
      BY <1>0, <2>0, <2>3 DEF Begin, Tick, Older
    <2>4. CASE Fetch \/ Ambiguous \/ Abandoned \/ UNCHANGED vars
      BY <2>0, <2>4 DEF Fetch, Ambiguous, Abandoned, vars, tables
    <2>5. ASSUME NEW u \in DOMAIN txs, NEW status, Moves(u, status)
          PROVE  pending'[o] = None
      BY <2>0, <2>5 DEF Moves, tables
    <2> QED BY <2>1, <2>2, <2>3, <2>4, <2>5, StepKinds
  <1> QED BY <1>0, <1>1, <1>2, <1>3 DEF Gone

\* What was booked in this step, and what was before.
LEMMA BookedMoves ==
    ASSUME TypeOK, HistInv, [Next]_vars, NEW t \in DOMAIN txs, txs'[t].booked # txs[t].booked
    PROVE  /\ EndsOwned(t) \/ EndsLocked(t) \/ EndsNone(t)
           /\ txs'[t].booked = "owned" => EndsOwned(t)
           /\ txs'[t].booked = "locked" => EndsLocked(t)
           /\ txs'[t].booked \in {"owned", "locked", "none"}
  <1>1. CASE Begin \/ Fetch \/ Snapshot \/ Ambiguous \/ Abandoned \/ UNCHANGED vars
    BY <1>1, QuietSteps
  <1>2. CASE Build
    BY <1>2, BuildBuilds DEF Built
  <1>3. CASE Tick
    BY <1>3, TickAges DEF Aged
  <1>4. ASSUME NEW u \in DOMAIN txs, EndsOwned(u) \/ EndsLocked(u) \/ EndsNone(u)
        PROVE  /\ EndsOwned(t) \/ EndsLocked(t) \/ EndsNone(t)
               /\ txs'[t].booked = "owned" => EndsOwned(t)
               /\ txs'[t].booked = "locked" => EndsLocked(t)
               /\ txs'[t].booked \in {"owned", "locked", "none"}
    <2>1. u = t
      BY <1>4 DEF EndsOwned, EndsLocked, EndsNone, Ends, Marked
    <2>2. /\ EndsOwned(t) => txs'[t].booked = "owned"
          /\ EndsLocked(t) => txs'[t].booked = "locked"
          /\ EndsNone(t) => txs'[t].booked = "none"
      BY DEF EndsOwned, EndsLocked, EndsNone, Ends, Marked
    <2> QED BY <1>4, <2>1, <2>2
  <1>5. ASSUME NEW u \in DOMAIN txs, NEW status, Moves(u, status)
        PROVE  FALSE
    BY <1>5 DEF Moves, Marked
  <1> QED BY <1>1, <1>2, <1>3, <1>4, <1>5, StepKinds

\* The mask holds: prune, reconcile, lags and late records leave it in place.
LEMMA MaskStep ==
    ASSUME LAG <= SETTLED, FOLLOW <= SETTLED,
           TypeOK, NetInv, HistInv, ListInv, SpentYoung, Masked, [Next]_vars
    PROVE  Masked'
  <1>1. SUFFICES ASSUME NEW t \in DOMAIN txs', Booked(t)', InPlay(t)', NEW o \in txs'[t].inputs
                 PROVE  spent'[o] # None \/ Gone(t, o)'
    BY DEF Masked
  <1>2. t \in DOMAIN txs
    BY <1>1, NewIsSent DEF Booked
  <1>3. /\ InPlay(t) /\ o \in txs[t].inputs /\ o \in Outpoints
        /\ spent[o] \in Ages \cup {None} /\ hAge # None /\ TypeOK'
    BY <1>1, <1>2, InPlayShrinks, TypeStep, TxTyped, Ranges DEF Kept, TypeOK
  <1>4. CASE ~Booked(t)
    <2>1. EndsOwned(t) \/ EndsLocked(t)
      BY <1>1, <1>2, <1>4, BookedMoves DEF Booked
    <2>2. lockInputs(t)
      BY <2>1 DEF EndsOwned, EndsLocked, recordSpend
    <2> QED BY <1>2, <1>3, <2>2, LockWrites
  <1>5. CASE Booked(t) /\ Gone(t, o)
    BY <1>2, <1>3, <1>5, GoneStays
  <1>6. CASE Booked(t) /\ spent[o] # None
    <2>1. CASE Snapshot \/ Build
      <3>1. reconcile /\ listing' = {} /\ (hAge' = 0 \/ hAge' = hAge)
        BY <2>1 DEF Snapshot, Build, Done
      <3>2. CASE spent'[o] # None
        BY <3>2
      <3>3. CASE spent'[o] = None
        <4>1. /\ t \in Indexed /\ txs[t].age - hAge > SETTLED /\ pending'[o] = None
          BY <1>2, <1>3, <1>6, <3>1, <3>3, DroppedIsOld
        <4>2. t \in Indexed' /\ ~Tick
          BY <2>1, <4>1, ConfirmedStay DEF Snapshot, Build, Done, Tick
        <4>3. txs'[t].age = txs[t].age /\ txs[t].age \in Ages /\ hAge \in Ages
          BY <1>2, <4>2, AgeMoves, TxTyped DEF TypeOK
        <4> QED BY <3>1, <4>1, <4>2, <4>3, Ranges DEF Gone
      <3> QED BY <3>2, <3>3
    <2>2. CASE Tick
      BY <1>3, <1>6, <2>2, OlderTyped DEF Tick
    <2>3. ASSUME NEW u \in DOMAIN txs, EndsOwned(u) \/ EndsLocked(u) \/ EndsNone(u)
          PROVE  spent'[o] # None
      BY <1>3, <1>6, <2>3, EndsRows
    <2>4. CASE Begin \/ Fetch \/ Ambiguous \/ Abandoned \/ UNCHANGED vars
      BY <1>6, <2>4 DEF Begin, Fetch, Ambiguous, Abandoned, vars, tables
    <2>5. ASSUME NEW u \in DOMAIN txs, NEW status, Moves(u, status)
          PROVE  spent'[o] # None
      BY <1>6, <2>5 DEF Moves, tables
    <2> QED BY <2>1, <2>2, <2>3, <2>4, <2>5, StepKinds
  <1> QED BY <1>2, <1>3, <1>4, <1>5, <1>6 DEF Masked

\* Nothing in play is ever joined by a competitor.
LEMMA CompetitionStep ==
    ASSUME LAG <= SETTLED, FOLLOW <= SETTLED,
           TypeOK, NetInv, HistInv, ListInv, SpentYoung, Masked, NoCompetition, [Next]_vars
    PROVE  NoCompetition'
  <1>0. Kept
    BY TypeStep
  <1>1. ASSUME NEW t \in DOMAIN txs, NEW u \in DOMAIN txs, t # u, InPlay(t), InPlay(u),
               EndsOwned(t), txs[t].booked = "none"
        PROVE  txs[t].inputs \cap txs[u].inputs = {}
    <2>1. t \in Confirmed
      BY <1>1, InHandThere DEF EndsOwned
    <2>2. CASE Live(u)
      BY <1>1, <2>1, <2>2 DEF NetInv, LiveApart, Confirmed, Live
    <2>3. CASE ~Live(u)
      BY <1>1, <2>1, <2>3 DEF InPlay, Beaten, Spenders
    <2> QED BY <2>2, <2>3
  <1>2. ASSUME NEW t \in DOMAIN txs, Accounted(t)'
        PROVE  Accounted(t) \/ (EndsOwned(t) /\ txs[t].booked = "none")
    <2>1. CASE txs'[t].booked = txs[t].booked
      BY <1>2, <2>1 DEF Accounted
    <2>2. CASE txs'[t].booked # txs[t].booked /\ txs[t].booked = "none"
      <3>1. EndsLocked(t) => txs[t].booked = "open"
        BY InHandThere DEF EndsLocked
      <3> QED BY <1>2, <2>2, <3>1, BookedMoves DEF Accounted
    <2> QED BY <2>1, <2>2 DEF Accounted
  <1>3. ASSUME NEW t \in DOMAIN txs, NEW u \in DOMAIN txs, t # u, InPlay(t)', InPlay(u)',
               Accounted(t)', Accounted(u)'
        PROVE  txs[t].inputs \cap txs[u].inputs = {}
    <2>1. InPlay(t) /\ InPlay(u)
      BY <1>3, InPlayShrinks
    <2>2. CASE Accounted(t) /\ Accounted(u)
      BY <1>3, <2>1, <2>2 DEF NoCompetition
    <2>3. CASE EndsOwned(t) /\ txs[t].booked = "none"
      BY <1>1, <1>3, <2>1, <2>3
    <2>4. CASE EndsOwned(u) /\ txs[u].booked = "none"
      BY <1>1, <1>3, <2>1, <2>4
    <2> QED BY <1>2, <1>3, <2>2, <2>3, <2>4
  <1>4. ASSUME NEW t \in DOMAIN txs, NEW new \in DOMAIN txs', new \notin DOMAIN txs,
               InPlay(t)', Accounted(t)'
        PROVE  txs'[t].inputs \cap txs'[new].inputs = {}
    <2>1. Build /\ txs'[new].inputs \subseteq View
      BY <1>4, NewIsSent
    <2>2. reconcile /\ phase = "listed"
      BY <2>1 DEF Build
    <2>3. InPlay(t) /\ txs'[t].inputs = txs[t].inputs /\ txs'[t].booked = txs[t].booked
      BY <1>0, <1>4, <2>1, InPlayShrinks, BuildBuilds DEF Kept, Built
    <2>4. Booked(t)
      <3>1. txs[t].booked \notin {"open", "none"}
        BY <1>4, <2>2, <2>3 DEF HistInv, InHandOpen, Broadcasting, Accounted
      <3> QED BY <3>1, TxTyped DEF Booked
    <2>5. \A o \in txs[t].inputs : o \notin View
      BY <2>2, <2>3, <2>4, MaskedHides DEF Masked
    <2> QED BY <2>1, <2>3, <2>5
  <1>5. \A t, u \in DOMAIN txs' : t \notin DOMAIN txs /\ u \notin DOMAIN txs => t = u
    BY NewIsSent
  <1> QED BY <1>0, <1>3, <1>4, <1>5 DEF NoCompetition, Kept

-----------------------------------------------------------------------------
\* The parts of the invariant that need nothing of the durations.
Grounds == TypeOK /\ NetInv /\ HistInv /\ ListInv /\ RowInv

\* The grounds hold at the start, ...
LEMMA GroundsStart ==
    ASSUME Init
    PROVE  Grounds
  <1>1. txs = <<>> /\ DOMAIN txs = {} /\ Len(txs) = 0 /\ 0 \in Ages /\ HANDLER \in Nat
    BY Ranges DEF Init
  <1>2. TypeOK
    BY <1>1, LedgerAssumption, Ranges DEF Init, TypeOK, Phases, Outpoints, LedgerAssumption
  <1>3. NetInv
    BY <1>1 DEF NetInv, LiveApart, Punctual
  <1>4. HistInv
    BY <1>1 DEF Init, HistInv, InHandOpen, InOrder, OwnedWasSeen, Broadcasting
  <1>5. ListInv
    BY <1>1 DEF Init, ListInv
  <1>6. RowInv
    BY DEF Init, RowInv, SpentYoung, PendingTimed
  <1> QED BY <1>2, <1>3, <1>4, <1>5, <1>6 DEF Grounds

\* ... every step keeps them, ...
LEMMA GroundsStep ==
    ASSUME Grounds, [Next]_vars
    PROVE  Grounds'
  BY TypeStep, NetStep, HistStep, ListStep, SpentYoungStep, PendingStep DEF Grounds, RowInv

\* ... and so they always hold.
LEMMA GroundsHold == Spec => []Grounds
  <1>1. Init => Grounds
    BY GroundsStart
  <1>2. Grounds /\ [Next]_vars => Grounds'
    BY GroundsStep
  <1> QED BY <1>1, <1>2, PTL DEF Spec

\* The mask and what it protects, when explorers lag less than a row lives.
LEMMA MaskHolds ==
    ASSUME LAG <= SETTLED, FOLLOW <= SETTLED
    PROVE  Spec => [](Masked /\ NoCompetition)
  <1>1. Init => Masked /\ NoCompetition
    BY DEF Init, Masked, NoCompetition
  <1>2. Grounds /\ Masked /\ NoCompetition /\ [Next]_vars => (Masked /\ NoCompetition)'
    BY MaskStep, CompetitionStep DEF Grounds, RowInv
  <1> QED BY <1>1, <1>2, GroundsHold, PTL DEF Spec

(***************************************************************************)
(* Type correctness, for any number of coins, transactions and evictions   *)
(* and any durations; pending rows stand for outputs of ours alone.        *)
(***************************************************************************)
THEOREM LedgerTypes == Spec => []TypeOK
  <1>1. Grounds => TypeOK
    BY DEF Grounds
  <1> QED BY <1>1, GroundsHold, PTL

(***************************************************************************)
(* spendableUtxos never lets two transactions that are on the network, or  *)
(* may still get there, spend the same coin, as long as an explorer lists a*)
(* transaction within SPENT_SETTLED_MS and a late recordSpend of a voucher *)
(* comes within it too.                                                    *)
(***************************************************************************)
THEOREM CoinsSpentOnce ==
    ASSUME LAG <= SETTLED, FOLLOW <= SETTLED
    PROVE  Spec => []NoCompetition
  BY MaskHolds, PTL

(***************************************************************************)
(* reconcile drops the spent row of a coin that is not listed only when    *)
(* every spend of it that still counts is in a block.                      *)
(***************************************************************************)
THEOREM AbsenceProved ==
    ASSUME LAG <= SETTLED
    PROVE  Spec => AbsenceMeansSpent
  <1> DEFINE Says == \A o \in Outpoints :
                (spent[o] # None /\ spent'[o] = None /\ o \notin listing) =>
                    \A t \in Spenders(o) : ~(InPlay(t) /\ t \notin Confirmed)
  <1>1. ASSUME Grounds, [Next]_vars, ~UNCHANGED spent
        PROVE  Says
    <2>1. ASSUME NEW o \in Outpoints, spent[o] # None, spent'[o] = None
          PROVE  reconcile
      <3>1. ASSUME NEW t \in DOMAIN txs, EndsOwned(t) \/ EndsLocked(t) \/ EndsNone(t)
            PROVE  FALSE
        BY <1>1, <2>1, <3>1, EndsRows, Ranges DEF Grounds, TypeOK
      <3>2. ~Tick
        BY <1>1, <2>1, OlderTyped DEF Tick, Grounds, TypeOK
      <3>3. Snapshot \/ Build
        BY <1>1, <2>1, <3>1, <3>2, StepKinds
           DEF Grounds, Begin, Fetch, Ambiguous, Abandoned, Moves, vars, tables
      <3> QED BY <3>3 DEF Snapshot, Build
    <2>2. ASSUME NEW o \in Outpoints, spent[o] # None, spent'[o] = None,
                 NEW t \in Spenders(o), InPlay(t)
          PROVE  t \in Confirmed
      <3>1. reconcile /\ t \in DOMAIN txs /\ o \in txs[t].inputs
        BY <2>1, <2>2 DEF Spenders
      <3>2. t \in Indexed
        BY <1>1, <2>2, <3>1, DroppedIsOld DEF Grounds, RowInv
      <3> QED BY <3>2 DEF Indexed, Confirmed
    <2> QED BY <2>2
  <1>2. Grounds /\ [Next]_vars => [Says]_spent
    BY <1>1
  <1> QED BY <1>2, GroundsHold, PTL DEF Spec, AbsenceMeansSpent

(***************************************************************************)
(* A pending row, which is not proof of an output, offers one that does not*)
(* exist for at most PENDING_TTL_MS after its broadcast.                   *)
(***************************************************************************)
THEOREM PhantomsBounded == Spec => PhantomsExpire
  <1> DEFINE Says == Offers => \A o \in View : Created(o) \/ txs[o].age - hAge <= PENDING_TTL
  <1>1. ASSUME Grounds, Offers, NEW o \in View
        PROVE  Created(o) \/ txs[o].age - hAge <= PENDING_TTL
    <2>1. reconcile /\ phase = "listed"
      BY <1>1 DEF Offers, Snapshot, Build
    <2>2. o \in Outpoints /\ (o \in listing \/ pending[o] # None)
      BY <1>1, <2>1, ViewIsKnown DEF Grounds
    <2>3. CASE o \in listing
      BY <1>1, <2>3 DEF Grounds, ListInv, Created, Confirmed, Live
    <2>4. CASE pending[o] # None /\ o \in Confirmed
      BY <1>1, <2>2, <2>4 DEF Grounds, TypeOK, Created, Confirmed, Live
    <2>5. CASE pending[o] # None /\ o \notin Confirmed
      BY <1>1, <2>1, <2>2, <2>5 DEF Grounds, RowInv, PendingTimed
    <2> QED BY <2>2, <2>3, <2>4, <2>5
  <1>2. Grounds /\ [Next]_vars => [Says]_vars
    BY <1>1
  <1> QED BY <1>2, GroundsHold, PTL DEF Spec, PhantomsExpire

(***************************************************************************)
(* The row recordSpend writes for our change keeps it in every view until  *)
(* an explorer lists it, as long as explorers list it before prune and     *)
(* reconcile would drop the row.                                           *)
(***************************************************************************)
THEOREM ChangeIsKept ==
    ASSUME LAG <= SETTLED, LAG <= PENDING_TTL
    PROVE  Spec => OwnChangeStays
  <1> DEFINE Says == Offers => \A o \in DOMAIN txs :
                (/\ txs[o].change /\ txs[o].booked = "owned"
                 /\ txs[o].status = "mempool" \/ o \in listing
                 /\ spent'[o] = None /\ \A t \in Spenders(o) : ~Live(t))
                => o \in View
  <1>1. Init => OwnPending
    BY DEF Init, OwnPending
  <1>2. Grounds /\ OwnPending /\ [Next]_vars => OwnPending'
    BY OwnPendingStep DEF Grounds
  <1>3. ASSUME Grounds, OwnPending, [Next]_vars, Offers, NEW o \in DOMAIN txs,
               txs[o].change, txs[o].booked = "owned",
               txs[o].status = "mempool" \/ o \in listing, spent'[o] = None
        PROVE  o \in View
    <2>1. o \in Outpoints
      BY <1>3, NotDeposit DEF Grounds
    <2>2. CASE txs[o].status = "mempool"
      <3>1. OwnPending'
        BY <1>2, <1>3
      <3>2. o \in DOMAIN txs' /\ txs'[o] = txs[o]
        BY <1>3, BuildBuilds DEF Grounds, Offers, Snapshot, Built
      <3> QED BY <1>3, <2>1, <2>2, <3>1, <3>2 DEF OwnPending, View
    <2> QED BY <1>3, <2>1, <2>2 DEF View
  <1>4. Grounds /\ OwnPending /\ [Next]_vars => [Says]_vars
    BY <1>3
  <1> QED BY <1>1, <1>2, <1>4, GroundsHold, PTL DEF Spec, OwnChangeStays

(***************************************************************************)
(* Without an eviction in the middle of a broadcast, what the ledger has   *)
(* booked nothing of never gets on the network.                            *)
(***************************************************************************)
NoneIsDead == \A t \in DOMAIN txs : txs[t].booked = "none" => txs[t].status = "dead"

\* Without evictions, only a rejected broadcast is left unbooked.
LEMMA NoneIsDeadStep ==
    ASSUME MaxCrashes = 0, TypeOK, HistInv, NoneIsDead, [Next]_vars
    PROVE  NoneIsDead'
  <1>1. ASSUME NEW t \in DOMAIN txs', txs'[t].booked = "none"
        PROVE  txs'[t].status = "dead"
    <2>1. t \in DOMAIN txs
      BY <1>1, NewIsSent
    <2>2. CASE txs[t].booked = "none"
      BY <2>1, <2>2, StatusMoves DEF NoneIsDead, MayLand
    <2>3. CASE txs[t].booked # "none"
      <3>1. EndsNone(t)
        <4>1. EndsOwned(t) => txs'[t].booked = "owned"
          BY DEF EndsOwned, Ends, Marked
        <4>2. EndsLocked(t) => txs'[t].booked = "locked"
          BY DEF EndsLocked, Ends, Marked
        <4> QED BY <1>1, <2>1, <2>3, <4>1, <4>2, BookedMoves
      <3>2. ~(crashes < MaxCrashes)
        BY DEF TypeOK
      <3> QED BY <3>1, <3>2 DEF EndsNone, Ends, Marked
    <2> QED BY <2>2, <2>3
  <1> QED BY <1>1 DEF NoneIsDead

(***************************************************************************)
(* Once an explorer has shown a coin spent, no view offers it again: the   *)
(* step of reconcile that drops the spent row drops the pending one.  It   *)
(* takes that no eviction forgets a spend in the middle of its broadcast.  *)
(***************************************************************************)
THEOREM SpentCoinsAreGone ==
    ASSUME LAG <= SETTLED, FOLLOW <= SETTLED, MaxCrashes = 0
    PROVE  Spec => SpentStaysSpent
  <1> DEFINE Says == Offers => \A o \in View : Spenders(o) \cap Indexed = {}
  <1>1. Init => NoneIsDead
    BY DEF Init, NoneIsDead
  <1>2. Grounds /\ NoneIsDead /\ [Next]_vars => NoneIsDead'
    BY NoneIsDeadStep DEF Grounds
  <1>3. ASSUME Grounds, Masked, NoneIsDead, Offers, NEW o \in View,
               NEW t \in DOMAIN txs, o \in txs[t].inputs, t \in Indexed
        PROVE  FALSE
    <2>1. reconcile /\ phase = "listed"
      BY <1>3 DEF Offers, Snapshot, Build
    <2>2. InPlay(t) /\ txs[t].booked # "none"
      BY <1>3 DEF Indexed, InPlay, Live, NoneIsDead
    <2>3. txs[t].booked # "open"
      BY <1>3, <2>1 DEF Grounds, HistInv, InHandOpen, Broadcasting
    <2>4. Booked(t)
      BY <1>3, <2>2, <2>3, TxTyped DEF Grounds, Booked
    <2> QED BY <1>3, <2>1, <2>2, <2>4, MaskedHides DEF Masked, Grounds, RowInv
  <1>4. Grounds /\ Masked /\ NoneIsDead /\ [Next]_vars => [Says]_vars
    BY <1>3 DEF Spenders
  <1> QED BY <1>1, <1>2, <1>4, GroundsHold, MaskHolds, PTL DEF Spec, SpentStaysSpent
=============================================================================
