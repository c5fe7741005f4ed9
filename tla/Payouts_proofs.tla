--------------------------- MODULE Payouts_proofs ---------------------------
(***************************************************************************)
(* Theorems about Payouts, for every value of its constants.  Core holds   *)
(* the types and the locks that every other part rests on; each theorem    *)
(* after it has an inductive part of its own.                              *)
(***************************************************************************)
EXTENDS Payouts, FiniteSetTheorems, TLAPS

-----------------------------------------------------------------------------
(***************************************************************************)
(* Facts about the operators.                                              *)
(***************************************************************************)

\* Today is a day of the model, and the budget rows are indexed by such days.
LEMMA DayType == \A t \in Time : utcDay(t) \in Days /\ utcDay(t) \in Int
BY TimeAssumption DEF utcDay, Days, Time

\* A count below n stays within n when one element joins.
LEMMA OneMore ==
    ASSUME NEW S, IsFiniteSet(S), NEW x, NEW T, T \subseteq S \cup {x},
           NEW n \in Nat, Cardinality(S) < n
    PROVE  IsFiniteSet(T) /\ Cardinality(T) <= n
<1>0. Cardinality(S) \in Nat
    BY FS_CardinalityType
<1>a. Cardinality(S \cup {x}) = IF x \in S THEN Cardinality(S) ELSE Cardinality(S) + 1
    BY FS_AddElement
<1>1. IsFiniteSet(S \cup {x}) /\ Cardinality(S \cup {x}) <= Cardinality(S) + 1
    BY <1>0, <1>a, FS_AddElement
<1>2. IsFiniteSet(T) /\ Cardinality(T) <= Cardinality(S \cup {x})
    BY <1>1, FS_Subset
<1>3. Cardinality(T) \in Nat /\ Cardinality(S \cup {x}) \in Nat
    BY <1>1, <1>2, FS_CardinalityType
<1> QED
    BY <1>0, <1>1, <1>2, <1>3

\* Sets of payments are finite, so their counts are numbers.
LEMMA FinitePayments ==
    ASSUME payments \in Seq(Payment), NEW S, S \subseteq DOMAIN payments
    PROVE  IsFiniteSet(S) /\ Cardinality(S) \in Nat
<1>1. DOMAIN payments = 1 .. Len(payments) /\ Len(payments) \in Nat
    OBVIOUS
<1>2. IsFiniteSet(1 .. Len(payments))
    BY <1>1, FS_Interval
<1> QED
    BY <1>1, <1>2, FS_Subset, FS_CardinalityType

-----------------------------------------------------------------------------
(***************************************************************************)
(* The lock, and the types, which need it: only the head of the queue runs,*)
(* so the tail taken when it ends is the tail of a sequence that has one.  *)
(***************************************************************************)
Core == TypeOK /\ LockInv

\* The initial states: every table empty, the queue too.
LEMMA CoreInit == Init => Core
<1> SUFFICES ASSUME Init PROVE Core
    OBVIOUS
<1>1. 0 \in Time
    BY TimeAssumption DEF Time
<1>2. TypeOK
    <2>2. handler \in [Callers -> Handler]
        BY <1>1 DEF Init, Handler
    <2>3. codes \in [Codes -> CodeRow]
        <3>1. PICK m \in [Codes -> CodeMaxima], e \in [Codes -> CodeExpiries] :
                codes = [k \in Codes |->
                            [max |-> m[k], expiresAt |-> e[k], disabled |-> FALSE,
                             redemptions |-> 0, updatedAt |-> 0]]
            BY DEF Init
        <3> QED
            BY <1>1, <3>1 DEF CodeRow
    <2>4. budget \in [Days -> Nat] /\ keys \in [Keys -> Time \cup {Never}]
        BY DEF Init
    <2>5. payments \in Seq(Payment) /\ queue \in Seq(Callers)
        BY DEF Init
    <2>6. /\ live = {} /\ claims = {} /\ ipHits = {} /\ keyPayouts = {} /\ redemptions = {}
          /\ now = 0 /\ calls = 0 /\ patches = 0 /\ crashes = 0
        BY DEF Init
    <2>7. /\ now \in Time /\ calls \in 0 .. MaxCalls
          /\ patches \in 0 .. MaxPatches /\ crashes \in 0 .. MaxCrashes
        BY <1>1, <2>6, TimeAssumption
    <2>8. /\ live \subseteq DOMAIN payments /\ claims \subseteq DOMAIN payments
          /\ ipHits \subseteq DOMAIN payments /\ keyPayouts \subseteq DOMAIN payments
          /\ redemptions \subseteq DOMAIN payments
        BY <2>6
    <2> QED
        BY <2>2, <2>3, <2>4, <2>5, <2>7, <2>8 DEF TypeOK
<1>3. LockInv
    BY DEF Init, LockInv, Running, InFlight, Broadcasting
<1> QED
    BY <1>2, <1>3 DEF Core

\* Admit, Replay and Refuse are taken by the head of the queue, and the head alone runs.
LEMMA OneRuns ==
    ASSUME LockInv, NEW c \in Callers, NEW d \in Callers,
           HoldsLock(c), Running(d)
    PROVE  c = d
BY DEF LockInv, HoldsLock

\* What a deletion of old rows leaves is of the same type.
LEMMA PruneType ==
    ASSUME TypeOK, NEW t \in Time, prune(t)
    PROVE  /\ claims' \subseteq claims /\ ipHits' \subseteq ipHits
           /\ keyPayouts' = keyPayouts /\ redemptions' = redemptions
           /\ budget' \in [Days -> Nat]
BY DEF TypeOK, prune

\* The call of c ends: c is idle, the queue loses its head, the others stay.
LEMMA AnswerType ==
    ASSUME TypeOK, NEW c \in Callers, NEW tx \in Nat, queue # <<>>, Answer(c, tx)
    PROVE  /\ queue' \in Seq(Callers)
           /\ handler' \in [Callers -> Handler]
           /\ handler'[c].pc = "idle" /\ handler'[c].at = 0 /\ handler'[c].tx = tx
           /\ \A d \in Callers : d # c => handler'[d] = handler[d]
<1>1. 0 \in Time
    BY TimeAssumption DEF Time
<1>2. queue' \in Seq(Callers)
    BY DEF TypeOK, Answer
<1>3. handler[c] \in Handler
    BY DEF TypeOK
<1>4. [handler[c] EXCEPT !.pc = "idle", !.req = NoRequest, !.at = 0, !.tx = tx] \in Handler
    BY <1>1, <1>3 DEF Handler
<1> QED
    BY <1>2, <1>3, <1>4 DEF TypeOK, Answer, Handler

\* After the head's call ends nobody runs, and the rest of LockInv is untouched.
LEMMA AnswerLock ==
    ASSUME TypeOK, LockInv, NEW c \in Callers, NEW tx \in Nat, HoldsLock(c),
           Answer(c, tx), now' = now
    PROVE  /\ LockInv'
           /\ \A d \in Callers : ~Running(d)'
<1>1. queue # <<>>
    BY DEF HoldsLock
<1>2. /\ handler'[c].pc = "idle" /\ handler'[c].at = 0
      /\ \A d \in Callers : d # c => handler'[d] = handler[d]
    BY <1>1, AnswerType
<1>3. \A d \in Callers : d # c => ~Running(d)
    BY OneRuns
<1>4. \A d \in Callers : ~Running(d)'
    BY <1>2, <1>3 DEF Running, InFlight
<1>5. now \in Nat
    BY TimeAssumption DEF TypeOK, Time
<1> QED
    BY <1>2, <1>4, <1>5 DEF LockInv, Running, InFlight, Broadcasting

\* A commit of the head's payment: what it records is of the right type.
LEMMA RecordType ==
    ASSUME TypeOK, NEW p \in DOMAIN payments,
           \/ Req(p).kind = "public" /\ recordClaim(p)
           \/ Req(p).kind = "key" /\ recordKeyPayout(p)
           \/ Req(p).kind = "code" /\ recordRedemption(p)
           \/ UNCHANGED <<tables, codes>>
    PROVE  /\ claims' \subseteq DOMAIN payments /\ ipHits' \subseteq DOMAIN payments
           /\ keyPayouts' \subseteq DOMAIN payments /\ redemptions' \subseteq DOMAIN payments
           /\ budget' \in [Days -> Nat] /\ codes' \in [Codes -> CodeRow]
<1>0. payments[p] \in Payment
    BY DEF TypeOK
<1>1. At(p) \in Time
    BY <1>0 DEF Payment, At
<1>2. utcDay(At(p)) \in Days
    BY <1>1, DayType
<1>3. CASE recordClaim(p)
    <2>1. budget[utcDay(At(p))] + PayoutSats \in Nat
        BY <1>2, LimitsAssumption DEF TypeOK
    <2>2. budget' \in [Days -> Nat]
        BY <1>3, <2>1 DEF recordClaim, TypeOK
    <2> QED
        BY <1>3, <2>2 DEF recordClaim, TypeOK
<1>4. CASE recordKeyPayout(p)
    BY <1>4 DEF recordKeyPayout, TypeOK
<1>5. CASE recordRedemption(p)
    <2>1. ASSUME NEW r \in CodeRow
          PROVE  [r EXCEPT !.redemptions = r.redemptions + 1] \in CodeRow
        BY DEF CodeRow
    <2>2. codes' \in [Codes -> CodeRow]
        BY <1>5, <2>1 DEF recordRedemption, TypeOK
    <2> QED
        BY <1>5, <2>2 DEF recordRedemption, TypeOK
<1>6. CASE UNCHANGED <<tables, codes>>
    BY <1>6 DEF tables, TypeOK
<1> QED
    BY <1>3, <1>4, <1>5, <1>6

\* Settling a payment changes its outcome only.
LEMMA DecideType ==
    ASSUME payments \in Seq(Payment), NEW p \in DOMAIN payments,
           NEW outcome \in Outcomes, Decide(p, outcome)
    PROVE  /\ payments' \in Seq(Payment)
           /\ Len(payments') = Len(payments) /\ DOMAIN payments' = DOMAIN payments
           /\ \A q \in DOMAIN payments :
                /\ payments'[q].req = payments[q].req /\ payments'[q].at = payments[q].at
                /\ q # p => payments'[q] = payments[q]
           /\ payments'[p].outcome = outcome
<1>1. payments[p] \in Payment
    OBVIOUS
<1>2. [payments[p] EXCEPT !.outcome = outcome] \in Payment
    BY <1>1 DEF Payment
<1> QED
    BY <1>1, <1>2 DEF Decide, Payment

\* The payment a broadcasting handler works on is the last one, and it is open.
LEMMA InHand ==
    ASSUME Core, NEW c \in Callers, handler[c].pc \in Broadcasting
    PROVE  /\ handler[c].tx \in DOMAIN payments /\ handler[c].tx = Len(payments)
           /\ Running(c) /\ HoldsLock(c) /\ queue # <<>>
           /\ Req(handler[c].tx) = handler[c].req /\ At(handler[c].tx) = handler[c].at
           /\ Outcome(handler[c].tx) = "open"
           /\ handler[c].req \in Requests
           /\ handler[c].tx \in Nat
<1>1. Len(payments) \in Nat /\ DOMAIN payments = 1 .. Len(payments)
    BY DEF Core, TypeOK
<1>2. handler[c].pc # "idle" /\ Running(c)
    BY DEF Running, Broadcasting, InFlight
<1>3. /\ Len(payments) > 0 /\ handler[c].tx = Len(payments)
      /\ payments[Len(payments)] = [req |-> handler[c].req, at |-> handler[c].at,
                                    outcome |-> "open"]
      /\ HoldsLock(c) /\ handler[c].req \in Requests
    BY <1>2 DEF Core, LockInv
<1>4. queue # <<>>
    BY <1>3 DEF HoldsLock
<1>5. /\ Req(handler[c].tx) = handler[c].req /\ At(handler[c].tx) = handler[c].at
      /\ Outcome(handler[c].tx) = "open"
    BY <1>3 DEF Req, At, Outcome
<1> QED
    BY <1>1, <1>2, <1>3, <1>4, <1>5

\* Whatever a call's end writes, Core holds again once its head is gone.
LEMMA AnswerCore ==
    ASSUME Core, NEW c \in Callers, NEW tx \in Nat, HoldsLock(c), Answer(c, tx),
           now' = now, keys' = keys, UNCHANGED counters, live' = live,
           payments' \in Seq(Payment), DOMAIN payments' = DOMAIN payments,
           claims' \subseteq DOMAIN payments, ipHits' \subseteq DOMAIN payments,
           keyPayouts' \subseteq DOMAIN payments, redemptions' \subseteq DOMAIN payments,
           budget' \in [Days -> Nat], codes' \in [Codes -> CodeRow]
    PROVE  Core'
<1>1. queue # <<>>
    BY DEF HoldsLock
<1>2. queue' \in Seq(Callers) /\ handler' \in [Callers -> Handler]
    BY <1>1, AnswerType DEF Core
<1>3. LockInv'
    BY AnswerLock DEF Core
<1>4. TypeOK'
    BY <1>2 DEF Core, TypeOK, counters
<1> QED
    BY <1>3, <1>4 DEF Core

\* A new call joins the end of the queue and the head is still the head.
LEMMA CoreCall == ASSUME Core, NEW c \in Callers, Call(c) PROVE Core'
<1>1. PICK r \in Requests :
        handler' = [handler EXCEPT ![c] = [@ EXCEPT !.pc = "queued", !.req = r, !.tx = 0]]
    BY DEF Call
<1>2. handler[c] \in Handler /\ queue \in Seq(Callers) /\ calls + 1 \in 0 .. MaxCalls
    BY TimeAssumption DEF Call, Core, TypeOK
<1>3. [handler[c] EXCEPT !.pc = "queued", !.req = r, !.tx = 0] \in Handler
    BY <1>2 DEF Handler
<1>4. TypeOK'
    BY <1>1, <1>2, <1>3 DEF Call, Core, TypeOK, tables
<1>5. /\ handler'[c].pc = "queued" /\ handler'[c].req = r /\ handler'[c].at = handler[c].at
      /\ \A d \in Callers : d # c => handler'[d] = handler[d]
    BY <1>1, <1>2 DEF Core, TypeOK, Handler
<1>6. \A d \in Callers : HoldsLock(d) => HoldsLock(d)'
    BY <1>2 DEF Call, HoldsLock
<1>7. LockInv'
    BY <1>5, <1>6 DEF Call, Core, LockInv, Running, InFlight, Broadcasting
<1> QED
    BY <1>4, <1>7 DEF Core

\* The head starts to run, at the present time.
LEMMA CoreAdmit == ASSUME Core, NEW c \in Callers, Admit(c) PROVE Core'
<1>1. handler[c] \in Handler /\ now \in Time
    BY DEF Core, TypeOK
<1>2. [handler[c] EXCEPT !.pc = "viewing", !.at = now] \in Handler
    BY <1>1 DEF Handler, InFlight
<1>3. TypeOK'
    <2>1. /\ claims' \subseteq claims /\ ipHits' \subseteq ipHits
          /\ keyPayouts' = keyPayouts /\ redemptions' = redemptions
          /\ budget' \in [Days -> Nat]
        BY <1>1, PruneType DEF Admit, Core
    <2> QED
        BY <1>1, <1>2, <2>1 DEF Admit, Core, TypeOK, counters
<1>4. /\ handler'[c].pc = "viewing" /\ handler'[c].req = handler[c].req /\ handler'[c].at = now
      /\ \A d \in Callers : d # c => handler'[d] = handler[d]
    BY <1>1 DEF Admit, Core, TypeOK, Handler
<1>5. \A d \in Callers : HoldsLock(d)' = HoldsLock(d)
    BY DEF Admit, HoldsLock
<1>6. now <= now
    BY <1>1 DEF Time
<1>7. HoldsLock(c) /\ handler[c].pc # "idle"
    BY DEF Admit
<1>8. LockInv'
    BY <1>4, <1>5, <1>6, <1>7 DEF Admit, Core, LockInv, Running, InFlight, Broadcasting
<1> QED
    BY <1>3, <1>8 DEF Core

\* The payment the head appends is the one it goes on to broadcast.
LEMMA CoreBuild == ASSUME Core, NEW c \in Callers, Build(c) PROVE Core'
<1> DEFINE new == [req |-> handler[c].req, at |-> handler[c].at, outcome |-> "open"]
<1>1. handler[c] \in Handler /\ payments \in Seq(Payment)
    BY DEF Core, TypeOK
<1>2. Running(c) /\ handler[c].pc # "idle"
    BY DEF Build, Running, InFlight
<1>3. handler[c].req \in Requests /\ HoldsLock(c)
    BY <1>2 DEF Core, LockInv
<1>4. new \in Payment
    BY <1>1, <1>3 DEF Payment, Outcomes, Handler
<1>5. payments' = Append(payments, new)
    BY DEF Build
<1>6. /\ payments' \in Seq(Payment)
      /\ Len(payments') = Len(payments) + 1
      /\ payments'[Len(payments')] = new
      /\ DOMAIN payments \subseteq DOMAIN payments'
      /\ Len(payments) \in Nat
    BY <1>1, <1>4, <1>5
<1>7. [handler[c] EXCEPT !.pc = "broadcasting", !.tx = Len(payments) + 1] \in Handler
    <2>1. Len(payments) + 1 \in Nat
        BY <1>6
    <2> HIDE DEF new
    <2> QED
        BY <1>1, <2>1 DEF Handler, InFlight
<1>8. TypeOK'
    BY <1>6, <1>7 DEF Build, Core, TypeOK, tables, counters
<1>9. /\ handler'[c].pc = "broadcasting" /\ handler'[c].tx = Len(payments')
      /\ handler'[c].req = handler[c].req /\ handler'[c].at = handler[c].at
      /\ \A d \in Callers : d # c => handler'[d] = handler[d]
    BY <1>1, <1>6 DEF Build, Core, TypeOK, Handler
<1>10. \A d \in Callers : HoldsLock(d)' = HoldsLock(d)
    BY DEF Build, HoldsLock
<1>11. \A d \in Callers : d # c => ~Running(d)
    BY <1>3, OneRuns DEF Core
<1>12. LockInv'
    BY <1>2, <1>3, <1>6, <1>9, <1>10, <1>11
       DEF Build, Core, LockInv, Running, InFlight, Broadcasting
<1> QED
    BY <1>8, <1>12 DEF Core

\* A doubtful broadcast leaves the same payment in hand.
LEMMA CoreAmbiguous == ASSUME Core, NEW c \in Callers, BroadcastAmbiguous(c) PROVE Core'
<1>1. PICK next \in {"rebroadcasting", "asking"} : handler' = [handler EXCEPT ![c].pc = next]
    BY DEF BroadcastAmbiguous
<1>2. handler[c] \in Handler
    BY DEF Core, TypeOK
<1>3. [handler[c] EXCEPT !.pc = next] \in Handler
    BY <1>2 DEF Handler, InFlight
<1>4. TypeOK'
    <2>1. UNCHANGED <<now, queue, payments, live, tables, keys, codes, counters>>
        BY DEF BroadcastAmbiguous
    <2>2. handler' \in [Callers -> Handler]
        BY <1>1, <1>3 DEF Core, TypeOK
    <2> QED
        BY <2>1, <2>2 DEF Core, TypeOK, tables, counters
<1>5. /\ handler'[c].pc = next /\ handler'[c].req = handler[c].req
      /\ handler'[c].at = handler[c].at /\ handler'[c].tx = handler[c].tx
      /\ \A d \in Callers : d # c => handler'[d] = handler[d]
    BY <1>1, <1>2 DEF Core, TypeOK, Handler
<1>6. handler[c].pc \in Broadcasting /\ Running(c)
    BY DEF BroadcastAmbiguous, Broadcasting, InFlight, Running
<1>7. \A d \in Callers : HoldsLock(d)' = HoldsLock(d)
    BY DEF BroadcastAmbiguous, HoldsLock
<1>8. LockInv'
    BY <1>5, <1>6, <1>7 DEF BroadcastAmbiguous, Core, LockInv, Running, InFlight, Broadcasting
<1> QED
    BY <1>4, <1>8 DEF Core

\* A replay answers with the payment of a claim row, and ends the head's call.
LEMMA CoreReplay == ASSUME Core, NEW c \in Callers, Replay(c) PROVE Core'
<1>1. PICK p \in PriorClaims(handler[c].req.address, now) : Answer(c, p)
    BY DEF Replay
<1>2. p \in Nat /\ now \in Time
    BY <1>1 DEF Core, TypeOK, PriorClaims
<1>3. /\ claims' \subseteq claims /\ ipHits' \subseteq ipHits
      /\ keyPayouts' = keyPayouts /\ redemptions' = redemptions
      /\ budget' \in [Days -> Nat]
    BY <1>2, PruneType DEF Replay, Core
<1>4. HoldsLock(c) /\ UNCHANGED <<now, payments, live, keys, codes, counters>>
    BY DEF Replay
<1>5. /\ claims' \subseteq DOMAIN payments /\ ipHits' \subseteq DOMAIN payments
      /\ keyPayouts' \subseteq DOMAIN payments /\ redemptions' \subseteq DOMAIN payments
      /\ payments' \in Seq(Payment) /\ DOMAIN payments' = DOMAIN payments
      /\ codes' \in [Codes -> CodeRow]
    BY <1>3, <1>4 DEF Core, TypeOK
<1> QED
    BY <1>1, <1>2, <1>3, <1>4, <1>5, AnswerCore

\* A refusal ends the head's call.
LEMMA CoreRefuse == ASSUME Core, NEW c \in Callers, Refuse(c) PROVE Core'
<1>1. Answer(c, 0) /\ HoldsLock(c) /\ prune(now)
      /\ UNCHANGED <<now, payments, live, keys, codes, counters>>
    BY DEF Refuse
<1>2. now \in Time
    BY DEF Core, TypeOK
<1>3. /\ claims' \subseteq claims /\ ipHits' \subseteq ipHits
      /\ keyPayouts' = keyPayouts /\ redemptions' = redemptions
      /\ budget' \in [Days -> Nat]
    BY <1>1, <1>2, PruneType DEF Core
<1>5. /\ claims' \subseteq DOMAIN payments /\ ipHits' \subseteq DOMAIN payments
      /\ keyPayouts' \subseteq DOMAIN payments /\ redemptions' \subseteq DOMAIN payments
      /\ payments' \in Seq(Payment) /\ DOMAIN payments' = DOMAIN payments
      /\ codes' \in [Codes -> CodeRow]
    BY <1>1, <1>3 DEF Core, TypeOK
<1> QED
    BY <1>1, <1>3, <1>5, AnswerCore

\* So does a failed build.
LEMMA CoreFail == ASSUME Core, NEW c \in Callers, FailToBuild(c) PROVE Core'
<1>1. Running(c)
    BY DEF FailToBuild, Running, InFlight
<1>2. HoldsLock(c)
    BY <1>1 DEF Core, LockInv
<1>3. Answer(c, 0) /\ UNCHANGED <<now, payments, live, tables, keys, codes, counters>>
    BY DEF FailToBuild
<1>4. /\ claims' \subseteq DOMAIN payments /\ ipHits' \subseteq DOMAIN payments
      /\ keyPayouts' \subseteq DOMAIN payments /\ redemptions' \subseteq DOMAIN payments
      /\ payments' \in Seq(Payment) /\ DOMAIN payments' = DOMAIN payments
      /\ codes' \in [Codes -> CodeRow] /\ budget' \in [Days -> Nat]
    BY <1>3 DEF Core, TypeOK, tables
<1> QED
    BY <1>2, <1>3, <1>4, AnswerCore

(***************************************************************************)
(* The three ways settleBroadcast ends a call: what each does to the       *)
(* payment in hand, and to nothing else.                                   *)
(***************************************************************************)
Settles(c, tx, outcome) ==
    LET p == handler[c].tx IN
    /\ handler[c].pc \in Broadcasting
    /\ Decide(p, outcome)
    /\ Answer(c, tx)
    /\ \/ Req(p).kind = "public" /\ recordClaim(p) /\ outcome = "committed"
       \/ Req(p).kind = "key" /\ recordKeyPayout(p) /\ outcome \in {"committed", "uncertain"}
       \/ Req(p).kind = "code" /\ recordRedemption(p) /\ outcome \in {"committed", "uncertain"}
       \/ /\ UNCHANGED <<tables, codes>>
          /\ outcome = "rejected" \/ (Req(p).kind = "public" /\ outcome = "uncertain")
    /\ UNCHANGED <<now, live, keys, counters>>
    /\ tx = IF outcome = "committed" THEN p ELSE 0
    /\ outcome = "committed" => p \in live
    /\ outcome = "rejected" => p \notin live

\* An accepted broadcast commits the payment in hand.
LEMMA AcceptedSettles ==
    ASSUME NEW c \in Callers, BroadcastAccepted(c)
    PROVE  Settles(c, handler[c].tx, "committed")
BY DEF BroadcastAccepted, Commit, Settles

\* A rejection by every relay writes no row.
LEMMA RejectedSettles ==
    ASSUME NEW c \in Callers, BroadcastRejected(c)
    PROVE  Settles(c, 0, "rejected")
BY DEF BroadcastRejected, Settles, Broadcasting, InFlight, tables

\* An unresolved broadcast charges a key or a code, and nobody else.
LEMMA UnknownSettles ==
    ASSUME NEW c \in Callers, NobodyKnows(c)
    PROVE  Settles(c, 0, "uncertain")
BY DEF NobodyKnows, Unresolved, Settles, Broadcasting, InFlight

\* All three end the head's call with rows of the right types.
LEMMA CoreSettles ==
    ASSUME Core, NEW c \in Callers, NEW tx, NEW outcome \in {"committed", "rejected", "uncertain"},
           Settles(c, tx, outcome)
    PROVE  Core'
<1> DEFINE p == handler[c].tx
<1>1. /\ p \in DOMAIN payments /\ HoldsLock(c) /\ p \in Nat /\ payments \in Seq(Payment)
    BY InHand DEF Settles, Core, TypeOK
<1>2. tx \in Nat
    BY <1>1 DEF Settles
<1>3. payments' \in Seq(Payment) /\ DOMAIN payments' = DOMAIN payments
    BY <1>1, DecideType DEF Settles, Outcomes
<1>4. /\ claims' \subseteq DOMAIN payments /\ ipHits' \subseteq DOMAIN payments
      /\ keyPayouts' \subseteq DOMAIN payments /\ redemptions' \subseteq DOMAIN payments
      /\ budget' \in [Days -> Nat] /\ codes' \in [Codes -> CodeRow]
    BY <1>1, RecordType DEF Settles, Core
<1> QED
    BY <1>1, <1>2, <1>3, <1>4, AnswerCore DEF Settles

\* Steps that leave the queue and the handlers alone leave the lock alone.
LEMMA CoreElsewhere ==
    ASSUME Core,
           \/ \E p \in DOMAIN payments : Land(p)
           \/ \E k \in Keys : revokeApiKey(k)
           \/ \E k \in Codes : updateCode(k)
           \/ Snapshot
           \/ Tick
    PROVE  Core'
<1>1. ASSUME NEW p \in DOMAIN payments, Land(p) PROVE Core'
    BY <1>1 DEF Land, Core, TypeOK, LockInv, Running, HoldsLock, tables, counters
<1>2. ASSUME NEW k \in Keys, revokeApiKey(k) PROVE Core'
    BY <1>2 DEF revokeApiKey, Core, TypeOK, LockInv, Running, HoldsLock, tables, counters
<1>3. ASSUME NEW k \in Codes, updateCode(k) PROVE Core'
    <2>1. PICK max \in CodeMaxima, e \in CodeExpiries, d \in BOOLEAN :
            codes' = [codes EXCEPT ![k] = [@ EXCEPT !.max = max, !.expiresAt = e,
                                                    !.disabled = d, !.updatedAt = now]]
        BY <1>3 DEF updateCode
    <2>2. codes[k] \in CodeRow /\ now \in Time
        BY DEF Core, TypeOK
    <2>3. [codes[k] EXCEPT !.max = max, !.expiresAt = e, !.disabled = d, !.updatedAt = now]
            \in CodeRow
        BY <2>2 DEF CodeRow
    <2>4. codes' \in [Codes -> CodeRow]
        BY <2>1, <2>3 DEF Core, TypeOK
    <2>5. patches' \in 0 .. MaxPatches
        <3>1. patches' = patches + 1 /\ patches < MaxPatches
            BY <1>3 DEF updateCode
        <3>2. patches \in 0 .. MaxPatches /\ MaxPatches \in Nat
            BY TimeAssumption DEF Core, TypeOK
        <3> QED
            BY <3>1, <3>2
    <2> QED
        BY <1>3, <2>4, <2>5 DEF updateCode, Core, TypeOK, LockInv, Running, HoldsLock, tables
<1>4. CASE Snapshot
    <2>1. /\ claims' \subseteq claims /\ ipHits' \subseteq ipHits
          /\ keyPayouts' = keyPayouts /\ redemptions' = redemptions
          /\ budget' \in [Days -> Nat]
        BY <1>4, PruneType DEF Snapshot, Core, TypeOK
    <2>2. UNCHANGED <<now, queue, handler, payments, live, keys, codes, counters>>
        BY <1>4 DEF Snapshot
    <2>3. TypeOK'
        BY <2>1, <2>2 DEF Core, TypeOK, counters
    <2>4. LockInv'
        BY <2>2 DEF Core, LockInv, Running, HoldsLock
    <2> QED
        BY <2>3, <2>4 DEF Core
<1>5. CASE Tick
    <2>1. now' \in Time /\ now' = now + 1 /\ now \in Nat
        BY <1>5, TimeAssumption DEF Tick, Core, TypeOK, Time
    <2>2. TypeOK'
        BY <1>5, <2>1 DEF Tick, Core, TypeOK, tables, counters
    <2>3. \A c \in Callers : handler[c].at <= now'
        <3>1. \A c \in Callers : handler[c] \in Handler /\ handler[c].at <= now
            BY DEF Core, TypeOK, LockInv
        <3>2. \A c \in Callers : handler[c].at \in Nat
            BY <3>1, TimeAssumption DEF Handler, Time
        <3> QED
            BY <2>1, <3>1, <3>2
    <2>4. LockInv'
        BY <1>5, <2>3 DEF Tick, Core, LockInv, Running, HoldsLock
    <2> QED
        BY <2>2, <2>4 DEF Core
<1> QED
    BY <1>1, <1>2, <1>3, <1>4, <1>5

\* A crash empties the queue and every handler, and keeps the tables.
LEMMA CoreCrash == ASSUME Core, Crash PROVE Core'
<1> DEFINE reset == [pc |-> "idle", req |-> NoRequest, at |-> 0, tx |-> 0]
<1>1. reset \in Handler
    BY TimeAssumption DEF Handler, Time
<1>2. \A c \in Callers : handler'[c] = IF handler[c].pc = "idle" THEN handler[c] ELSE reset
    BY DEF Crash
<1>3. handler' \in [Callers -> Handler]
    BY <1>1, <1>2 DEF Crash, Core, TypeOK
<1>4. \A p \in DOMAIN payments : payments'[p] \in Payment
    <2>1. \A p \in DOMAIN payments : payments[p] \in Payment
        BY DEF Core, TypeOK
    <2>2. \A p \in DOMAIN payments : [payments[p] EXCEPT !.outcome = "lost"] \in Payment
        BY <2>1 DEF Payment, Outcomes
    <2> QED
        BY <2>1, <2>2 DEF Crash
<1>5. payments' \in Seq(Payment) /\ DOMAIN payments' = DOMAIN payments
    <2>1. Len(payments) \in Nat /\ DOMAIN payments = 1 .. Len(payments)
        BY DEF Core, TypeOK
    <2>2. payments' \in [1 .. Len(payments) -> Payment]
        BY <1>4, <2>1 DEF Crash
    <2> QED
        BY <2>1, <2>2
<1>6. TypeOK'
    BY <1>3, <1>5, TimeAssumption DEF Crash, Core, TypeOK, tables
<1>7. \A c \in Callers : handler'[c].pc = "idle" /\ handler'[c].at <= now
    <2>1. 0 <= now
        BY TimeAssumption DEF Core, TypeOK, Time
    <2>2. \A c \in Callers : handler[c].at <= now
        BY DEF Core, LockInv
    <2>3. reset.pc = "idle" /\ reset.at = 0
        OBVIOUS
    <2> HIDE DEF reset
    <2> QED
        BY <1>2, <2>1, <2>2, <2>3
<1>8. LockInv'
    BY <1>7 DEF Crash, LockInv, Running, InFlight, Broadcasting
<1> QED
    BY <1>6, <1>8 DEF Core

\* Nothing changes when nothing does.
LEMMA CoreStutter == ASSUME Core, UNCHANGED vars PROVE Core'
BY DEF Core, TypeOK, LockInv, Running, HoldsLock, vars, tables, counters

\* Core is inductive.
LEMMA CoreStep == ASSUME Core, [Next]_vars PROVE Core'
<1>1. ASSUME NEW c \in Callers, Call(c) \/ Step(c) PROVE Core'
    BY <1>1, CoreCall, CoreAdmit, CoreReplay, CoreRefuse, CoreFail, CoreBuild,
       CoreAmbiguous, AcceptedSettles, RejectedSettles, UnknownSettles, CoreSettles DEF Step
<1> QED
    BY <1>1, CoreElsewhere, CoreCrash, CoreStutter DEF Next

\* The variables of the model are always of their types, and one payout runs at a time.
THEOREM TypeCorrect == Spec => []TypeOK
<1>1. Spec => []Core
    BY CoreInit, CoreStep, PTL DEF Spec
<1>2. Core => TypeOK
    BY DEF Core
<1> QED
    BY <1>1, <1>2, PTL

-----------------------------------------------------------------------------
(***************************************************************************)
(* What payments promise: answers that are live, gates and rates.          *)
(***************************************************************************)
\* Core itself, for the theorems below.
LEMMA CoreAlways == Spec => []Core
BY CoreInit, CoreStep, PTL DEF Spec

(***************************************************************************)
(* What a step may do to the payments: a payment keeps its request and its *)
(* time, and only an accepted broadcast makes one committed.               *)
(***************************************************************************)
Kept ==
    /\ DOMAIN payments \subseteq DOMAIN payments'
    /\ \A p \in DOMAIN payments : payments'[p].req = payments[p].req
                                  /\ payments'[p].at = payments[p].at

\* Settling a payment keeps the requests and times of all.
LEMMA SettlesKeeps ==
    ASSUME Core, NEW c \in Callers, NEW tx, NEW outcome \in {"committed", "rejected", "uncertain"},
           Settles(c, tx, outcome)
    PROVE  /\ Kept /\ DOMAIN payments' = DOMAIN payments
           /\ payments'[handler[c].tx].outcome = outcome
           /\ \A p \in DOMAIN payments :
                p # handler[c].tx => payments'[p] = payments[p]
<1>1. handler[c].tx \in DOMAIN payments /\ payments \in Seq(Payment)
    BY InHand DEF Settles, Core, TypeOK
<1> QED
    BY <1>1, DecideType DEF Settles, Outcomes, Kept

\* A new payment goes to the end, open.
LEMMA BuildKeeps ==
    ASSUME Core, NEW c \in Callers, Build(c)
    PROVE  /\ Kept
           /\ DOMAIN payments' = DOMAIN payments \cup {Len(payments) + 1}
           /\ Len(payments) + 1 \notin DOMAIN payments
           /\ \A p \in DOMAIN payments : payments'[p] = payments[p]
           /\ payments'[Len(payments) + 1] = [req |-> handler[c].req, at |-> handler[c].at,
                                              outcome |-> "open"]
<1> DEFINE new == [req |-> handler[c].req, at |-> handler[c].at, outcome |-> "open"]
<1>1. payments \in Seq(Payment) /\ payments' = Append(payments, new)
    BY DEF Core, TypeOK, Build
<1>2. /\ DOMAIN payments' = DOMAIN payments \cup {Len(payments) + 1}
      /\ Len(payments) + 1 \notin DOMAIN payments
      /\ \A p \in DOMAIN payments : payments'[p] = payments[p]
      /\ payments'[Len(payments) + 1] = new
    <2> HIDE DEF new
    <2> QED BY <1>1
<1> QED
    BY <1>2 DEF Kept

\* A crash only turns open payments into lost ones.
LEMMA CrashKeeps ==
    ASSUME Core, Crash
    PROVE  /\ Kept /\ DOMAIN payments' = DOMAIN payments
           /\ \A p \in DOMAIN payments :
                payments'[p].outcome # payments[p].outcome =>
                    payments[p].outcome = "open" /\ payments'[p].outcome = "lost"
<1>1. \A p \in DOMAIN payments : payments[p] \in Payment
    BY DEF Core, TypeOK
<1> QED
    BY <1>1 DEF Crash, Kept, Payment, Outcome

\* The steps of a call, with the three ends of a broadcast as one.
LEMMA StepCases ==
    ASSUME NEW c \in Callers, Step(c)
    PROVE  \/ Admit(c) \/ Replay(c) \/ Refuse(c) \/ FailToBuild(c) \/ Build(c)
           \/ BroadcastAmbiguous(c)
           \/ \E outcome \in {"committed", "rejected", "uncertain"} :
                Settles(c, IF outcome = "committed" THEN handler[c].tx ELSE 0, outcome)
BY AcceptedSettles, RejectedSettles, UnknownSettles DEF Step

\* How a step of c moves the handlers: only its own, and never back into the lock.
LEMMA Moves ==
    ASSUME Core, NEW c \in Callers, Call(c) \/ Step(c)
    PROVE  /\ \A d \in Callers : d # c => handler'[d] = handler[d]
           /\ Call(c) => handler'[c].pc = "queued"
           /\ Admit(c) => /\ handler'[c].pc = "viewing" /\ handler'[c].at = now
                          /\ handler'[c].req = handler[c].req
           /\ Build(c) => /\ handler'[c].pc = "broadcasting"
                          /\ handler'[c].at = handler[c].at
                          /\ handler'[c].req = handler[c].req
           /\ BroadcastAmbiguous(c) => /\ handler'[c].pc \in Broadcasting
                                       /\ handler'[c].at = handler[c].at
                                       /\ handler'[c].req = handler[c].req
           /\ \A tx : Answer(c, tx) => handler'[c].pc = "idle" /\ handler'[c].tx = tx
<1>1. handler \in [Callers -> Handler] /\ handler[c] \in Handler
    BY DEF Core, TypeOK
<1>2. \E h : handler' = [handler EXCEPT ![c] = h]
    <2>1. CASE Call(c)
        BY <2>1 DEF Call
    <2>2. CASE \E tx : Answer(c, tx)
        BY <2>2 DEF Answer
    <2>3. CASE Admit(c) \/ Build(c)
        BY <2>3 DEF Admit, Build
    <2>4. CASE BroadcastAmbiguous(c)
        BY <2>4 DEF BroadcastAmbiguous
    <2> QED
        BY <2>1, <2>2, <2>3, <2>4, StepCases DEF Replay, Refuse, FailToBuild, Settles
<1>3. \A d \in Callers : d # c => handler'[d] = handler[d]
    BY <1>1, <1>2
<1>4. Call(c) => handler'[c].pc = "queued"
    BY <1>1 DEF Call, Handler
<1>5. Admit(c) => /\ handler'[c].pc = "viewing" /\ handler'[c].at = now
                  /\ handler'[c].req = handler[c].req
    BY <1>1 DEF Admit, Handler
<1>6. Build(c) => /\ handler'[c].pc = "broadcasting" /\ handler'[c].at = handler[c].at
                  /\ handler'[c].req = handler[c].req
    BY <1>1 DEF Build, Handler
<1>7. BroadcastAmbiguous(c) => /\ handler'[c].pc \in Broadcasting
                               /\ handler'[c].at = handler[c].at
                               /\ handler'[c].req = handler[c].req
    BY <1>1 DEF BroadcastAmbiguous, Handler, Broadcasting, InFlight
<1>8. \A tx : Answer(c, tx) => handler'[c].pc = "idle" /\ handler'[c].tx = tx
    BY <1>1 DEF Answer, Handler
<1> QED
    BY <1>3, <1>4, <1>5, <1>6, <1>7, <1>8

-----------------------------------------------------------------------------
(***************************************************************************)
(* A txid in an answer is live: so is every claim row, from which replays  *)
(* are answered.                                                           *)
(***************************************************************************)
AnswersInv == claims \subseteq live /\ OkMeansLive

\* A call's own steps.
LEMMA AnswersStep ==
    ASSUME Core, AnswersInv, NEW c \in Callers, Call(c) \/ Step(c)
    PROVE  AnswersInv'
<1> USE DEF AnswersInv, OkMeansLive
<1>1. \A d \in Callers : d # c => handler'[d] = handler[d]
    BY Moves
<1>2. CASE Call(c)
    BY <1>1, <1>2, Moves DEF Call, tables
<1>3. CASE Admit(c)
    <2>1. handler'[c].pc = "viewing"
        BY <1>3, Moves
    <2>2. live' = live /\ claims' \subseteq claims
        BY <1>3 DEF Admit, prune
    <2> QED
        BY <1>1, <2>1, <2>2
<1>4. CASE Replay(c)
    <2>1. PICK p \in PriorClaims(handler[c].req.address, now) : Answer(c, p)
        BY <1>4 DEF Replay
    <2>2. handler'[c].tx = p /\ p \in live
        BY <1>4, <2>1, Moves DEF PriorClaims
    <2> QED
        BY <1>1, <1>4, <2>2 DEF Replay, prune
<1>5. CASE Refuse(c) \/ FailToBuild(c)
    <2>1. Answer(c, 0) /\ live' = live /\ claims' \subseteq claims
        BY <1>5 DEF Refuse, FailToBuild, prune, tables
    <2>2. handler'[c].tx = 0
        BY <1>5, <2>1, Moves
    <2> QED
        BY <1>1, <2>1, <2>2
<1>6. CASE Build(c) \/ BroadcastAmbiguous(c)
    <2>1. handler'[c].pc # "idle"
        BY <1>6, Moves DEF Broadcasting, InFlight
    <2> QED
        BY <1>1, <1>6, <2>1 DEF Build, BroadcastAmbiguous, tables
<1>7. ASSUME NEW outcome \in {"committed", "rejected", "uncertain"},
             Settles(c, IF outcome = "committed" THEN handler[c].tx ELSE 0, outcome)
      PROVE  AnswersInv'
    <2>1. handler'[c].tx = IF outcome = "committed" THEN handler[c].tx ELSE 0
        BY <1>7, Moves DEF Settles
    <2>2. live' = live /\ (outcome = "committed" => handler[c].tx \in live)
        BY <1>7 DEF Settles
    <2>3. claims' \subseteq claims
          \/ (outcome = "committed" /\ claims' \subseteq claims \cup {handler[c].tx})
        BY <1>7 DEF Settles, recordClaim, recordKeyPayout, recordRedemption, tables
    <2> QED
        BY <1>1, <2>1, <2>2, <2>3
<1> QED
    BY <1>2, <1>3, <1>4, <1>5, <1>6, <1>7, StepCases

\* Every step preserves AnswersInv.
LEMMA AnswersNext == ASSUME Core, AnswersInv, [Next]_vars PROVE AnswersInv'
<1> USE DEF AnswersInv, OkMeansLive
<1>1. ASSUME NEW p \in DOMAIN payments, Land(p) PROVE AnswersInv'
    BY <1>1 DEF Land, tables
<1>2. CASE \/ \E k \in Keys : revokeApiKey(k)
           \/ \E k \in Codes : updateCode(k)
           \/ Snapshot \/ Tick \/ UNCHANGED vars
    BY <1>2 DEF revokeApiKey, updateCode, Snapshot, Tick, prune, vars, tables
<1>3. CASE Crash
    BY <1>3 DEF Crash, tables
<1> QED
    BY <1>1, <1>2, <1>3, AnswersStep DEF Next

(***************************************************************************)
(* The faucet never answers ok, new or replayed, for a transaction that is *)
(* not on the network.                                                     *)
(***************************************************************************)
THEOREM AnswersAreLive == Spec => []OkMeansLive
<1>1. Init => AnswersInv
    BY DEF Init, AnswersInv, OkMeansLive
<1>2. Spec => []AnswersInv
    BY <1>1, AnswersNext, CoreAlways, PTL DEF Spec
<1>3. AnswersInv => OkMeansLive
    BY DEF AnswersInv
<1> QED
    BY <1>2, <1>3, PTL
-----------------------------------------------------------------------------
(***************************************************************************)
(* Revocation: what the running key payout was admitted under still holds  *)
(* of its own "now", whatever has been revoked since.                      *)
(***************************************************************************)
ActiveAt(k, t) ==
    /\ keys[k] # Never => t <= keys[k]
    /\ KeyExpiry[k] # Never => t < KeyExpiry[k]

GateInv ==
    /\ \A c \in Callers :
        Running(c) /\ handler[c].req.kind = "key" => ActiveAt(handler[c].req.who, handler[c].at)
    /\ \A p \in PaymentsOf("key") : ActiveAt(Req(p).who, At(p))
    /\ \A p \in DOMAIN payments : At(p) <= now

\* Payments already made stay as good as they were while no key changes.
LEMMA GateKept ==
    ASSUME GateInv, Kept, DOMAIN payments' = DOMAIN payments, keys' = keys, now' = now
    PROVE  /\ \A p \in PaymentsOf("key")' : ActiveAt(Req(p).who, At(p))'
           /\ \A p \in DOMAIN payments' : At(p)' <= now'
BY DEF GateInv, Kept, PaymentsOf, Req, At, ActiveAt

\* A call's own steps.
LEMMA GateStep ==
    ASSUME Core, GateInv, NEW c \in Callers, Call(c) \/ Step(c)
    PROVE  GateInv'
<1>1. \A d \in Callers : d # c => handler'[d] = handler[d]
    BY Moves
<1>2. keys' = keys /\ now' = now
    BY StepCases DEF Call, Admit, Replay, Refuse, FailToBuild, Build, BroadcastAmbiguous, Settles
<1>3. \A d \in Callers : d # c /\ Running(d)' => Running(d) /\ handler'[d] = handler[d]
    BY <1>1 DEF Running
<1>4. ASSUME ~Running(c)', Kept, DOMAIN payments' = DOMAIN payments PROVE GateInv'
    BY <1>2, <1>3, <1>4, GateKept DEF GateInv, ActiveAt
<1>5. CASE Call(c)
    BY <1>4, <1>5, Moves DEF Call, Running, InFlight, Kept
<1>6. ASSUME NEW tx, Answer(c, tx) PROVE ~Running(c)'
    BY <1>6, Moves DEF Running, InFlight
<1>7. CASE Replay(c) \/ Refuse(c) \/ FailToBuild(c)
    BY <1>4, <1>6, <1>7 DEF Replay, Refuse, FailToBuild, Kept
<1>8. ASSUME NEW outcome \in {"committed", "rejected", "uncertain"},
             Settles(c, IF outcome = "committed" THEN handler[c].tx ELSE 0, outcome)
      PROVE  GateInv'
    BY <1>4, <1>6, <1>8, SettlesKeeps DEF Settles
<1>9. CASE Admit(c)
    <2>1. Kept /\ DOMAIN payments' = DOMAIN payments
        BY <1>9 DEF Admit, Kept
    <2>2. handler'[c].at = now /\ handler'[c].req = handler[c].req
        BY <1>9, Moves
    <2>3. handler[c].req \in Requests /\ now \in Nat
        <3>1. handler[c].pc # "idle"
            BY <1>9 DEF Admit
        <3>2. handler[c].req \in Requests
            BY <3>1 DEF Core, LockInv
        <3>3. now \in Nat
            BY TimeAssumption DEF Core, TypeOK, Time
        <3> QED
            BY <3>2, <3>3
    <2>4. handler[c].req.kind = "key" => ActiveAt(handler[c].req.who, now)
        <3>1. ASSUME handler[c].req.kind = "key" PROVE ActiveAt(handler[c].req.who, now)
            <4>1. handler[c].req.who \in Keys
                BY <2>3, <3>1 DEF Requests
            <4>2. KeyActive(handler[c].req.who, now)
                BY <1>9, <3>1 DEF Admit, Admissible, authorizeKeyPayout
            <4> QED
                BY <2>3, <4>1, <4>2, LimitsAssumption DEF KeyActive, ActiveAt
        <3> QED
            BY <3>1
    <2> QED
        BY <1>2, <1>3, <2>1, <2>2, <2>4, GateKept DEF GateInv, ActiveAt
<1>10. CASE BroadcastAmbiguous(c)
    <2>1. Kept /\ DOMAIN payments' = DOMAIN payments
        BY <1>10 DEF BroadcastAmbiguous, Kept
    <2>2. handler'[c].at = handler[c].at /\ handler'[c].req = handler[c].req /\ Running(c)
        BY <1>10, Moves DEF BroadcastAmbiguous, Running, InFlight
    <2> QED
        BY <1>2, <1>3, <2>1, <2>2, GateKept DEF GateInv, ActiveAt
<1>11. CASE Build(c)
    <2>1. handler'[c].at = handler[c].at /\ handler'[c].req = handler[c].req /\ Running(c)
        BY <1>11, Moves DEF Build, Running, InFlight
    <2>2. handler[c].at <= now
        BY DEF Core, LockInv
    <2>3. \A p \in DOMAIN payments' :
            \/ p \in DOMAIN payments /\ Req(p)' = Req(p) /\ At(p)' = At(p)
            \/ Req(p)' = handler[c].req /\ At(p)' = handler[c].at
        <3>1. \A p \in DOMAIN payments : payments'[p] = payments[p]
            BY <1>11, BuildKeeps
        <3>2. DOMAIN payments' = DOMAIN payments \cup {Len(payments) + 1}
            BY <1>11, BuildKeeps
        <3>a. payments'[Len(payments) + 1] =
                [req |-> handler[c].req, at |-> handler[c].at, outcome |-> "open"]
            BY <1>11, BuildKeeps
        <3>3. payments'[Len(payments) + 1].req = handler[c].req
              /\ payments'[Len(payments) + 1].at = handler[c].at
            BY <3>a
        <3> QED
            BY <3>1, <3>2, <3>3 DEF Req, At
    <2>4. \A p \in PaymentsOf("key")' : ActiveAt(Req(p).who, At(p))'
        BY <1>2, <2>1, <2>3 DEF GateInv, PaymentsOf, ActiveAt
    <2>5. \A p \in DOMAIN payments' : At(p)' <= now'
        BY <1>2, <2>2, <2>3 DEF GateInv
    <2>6. \A d \in Callers :
            Running(d)' /\ handler'[d].req.kind = "key" =>
                ActiveAt(handler[d].req.who, handler[d].at)'
        BY <1>2, <1>3, <2>1 DEF GateInv, ActiveAt
    <2> QED
        BY <2>4, <2>5, <2>6 DEF GateInv
<1> QED
    BY <1>5, <1>7, <1>8, <1>9, <1>10, <1>11, StepCases

\* A revocation cannot reach back: every payment so far is dated now at the latest.
LEMMA GateRevoke == ASSUME Core, GateInv, NEW k \in Keys, revokeApiKey(k) PROVE GateInv'
<1>1. /\ keys[k] = Never /\ keys' = [keys EXCEPT ![k] = now]
      /\ UNCHANGED <<now, handler, payments>>
    BY DEF revokeApiKey
<1>2. \A j, t : t <= now /\ ActiveAt(j, t) => ActiveAt(j, t)'
    BY <1>1 DEF ActiveAt, Core, TypeOK
<1>3. \A c \in Callers : handler[c].at <= now
    BY DEF Core, LockInv
<1> QED
    BY <1>1, <1>2, <1>3 DEF GateInv, Running, PaymentsOf, Req, At

\* Every step preserves GateInv.
LEMMA GateNext == ASSUME Core, GateInv, [Next]_vars PROVE GateInv'
<1>1. CASE \/ \E p \in DOMAIN payments : Land(p)
           \/ \E k \in Codes : updateCode(k)
           \/ Snapshot \/ UNCHANGED vars
    <2>1. UNCHANGED <<now, keys, handler, payments>>
        BY <1>1 DEF Land, updateCode, Snapshot, vars
    <2> QED
        BY <2>1 DEF GateInv, Running, PaymentsOf, Req, At, ActiveAt
<1>2. CASE Tick
    <2>1. now' = now + 1 /\ now \in Nat /\ UNCHANGED <<keys, handler, payments>>
        BY <1>2, TimeAssumption DEF Tick, Core, TypeOK, Time
    <2>2. \A p \in DOMAIN payments : payments[p] \in Payment
        BY DEF Core, TypeOK
    <2>3. \A p \in DOMAIN payments : At(p) \in Nat
        BY <2>2, TimeAssumption DEF Payment, At, Time
    <2>4. \A p \in DOMAIN payments : At(p)' <= now'
        BY <2>1, <2>3 DEF GateInv, At
    <2> QED
        BY <2>1, <2>4 DEF GateInv, Running, PaymentsOf, Req, At, ActiveAt
<1>3. CASE Crash
    <2>1. keys' = keys /\ now' = now /\ \A c \in Callers : ~Running(c)'
        BY <1>3 DEF Crash, Running, InFlight
    <2> QED
        BY <1>3, <2>1, CrashKeeps, GateKept DEF GateInv
<1> QED
    BY <1>1, <1>2, <1>3, GateStep, GateRevoke DEF Next

(***************************************************************************)
(* authorizeKeyPayout: no payment is made with a key by a payout admitted  *)
(* after its revocation or at its expiry, whatever interleaves.            *)
(***************************************************************************)
THEOREM RevocationStops == Spec => []RevokedKeyStops
<1>1. Init => GateInv
    BY DEF Init, GateInv, PaymentsOf, Running, InFlight
<1>2. Spec => []GateInv
    BY <1>1, GateNext, CoreAlways, PTL DEF Spec
<1>3. GateInv => RevokedKeyStops
    BY DEF GateInv, RevokedKeyStops, ActiveAt
<1> QED
    BY <1>2, <1>3, PTL
-----------------------------------------------------------------------------
(***************************************************************************)
(* The rate limit: ip_hits holds every committed payment of the last hour, *)
(* and what the running payout counted is still what there is to count.    *)
(***************************************************************************)
RateInv == HitInv /\ RateLimitHolds

\* The committed public payments are payments, at most the last one.
LEMMA CommittedPayments ==
    ASSUME Core, NEW p \in Committed("public")
    PROVE  p \in DOMAIN payments /\ p \in Nat /\ p <= Len(payments)
           /\ Len(payments) \in Nat /\ At(p) \in Nat
           /\ Req(p).kind = "public" /\ Req(p).tier \in Tiers
<1>1. p \in DOMAIN payments /\ Req(p).kind = "public"
    BY DEF Committed, PaymentsOf
<1>2. payments \in Seq(Payment) /\ payments[p] \in Payment
    BY <1>1 DEF Core, TypeOK
<1>3. At(p) \in Nat
    BY <1>2, TimeAssumption DEF Payment, At, Time
<1>4. Req(p) \in Requests
    BY <1>2 DEF Payment, Req
<1>5. Req(p).tier \in Tiers
    BY <1>1, <1>4 DEF Requests
<1> QED
    BY <1>1, <1>2, <1>3, <1>5

\* Nothing newly committed: the counts over the payments stay.
LEMMA RateKept ==
    ASSUME Core, RateLimitHolds, Kept, Committed("public")' = Committed("public")
    PROVE  RateLimitHolds'
<1> DEFINE Window(p) == {q \in Committed("public") :
                            q <= p /\ Req(q).who = Req(p).who /\ At(q) > At(p) - HOUR}
<1> SUFFICES ASSUME NEW p \in Committed("public")
             PROVE  Cardinality(Window(p)') <= RateLimit[Req(p)'.tier]
    BY DEF RateLimitHolds
<1>1. \A q \in Committed("public") : Req(q)' = Req(q) /\ At(q)' = At(q)
    BY DEF Kept, Req, At, Committed, PaymentsOf
<1>2. Window(p)' = Window(p)
    BY <1>1
<1>3. Cardinality(Window(p)) <= RateLimit[Req(p).tier]
    BY DEF RateLimitHolds
<1> QED
    BY <1>1, <1>2, <1>3

\* Nothing newly committed, nobody running, and no row younger than an hour deleted.
LEMMA HitsKept ==
    ASSUME Core, HitInv, Kept, Committed("public")' = Committed("public"),
           \A c \in Callers : ~Running(c)', now' = now,
           \A p \in ipHits : At(p) >= now - HOUR => p \in ipHits'
    PROVE  HitInv'
<1>1. \A q \in Committed("public") : At(q)' = At(q)
    BY DEF Kept, At, Committed, PaymentsOf
<1> QED
    BY <1>1 DEF HitInv

\* Pruning keeps the rows of the last hour and adds none.
LEMMA PruneHits ==
    ASSUME NEW t, prune(t)
    PROVE  /\ ipHits' \subseteq ipHits
           /\ \A p \in ipHits : At(p) >= t - HOUR => p \in ipHits'
BY DEF prune

\* An answer to the head leaves nobody running.
LEMMA NobodyRuns ==
    ASSUME Core, NEW c \in Callers, HoldsLock(c), NEW tx, Answer(c, tx), Step(c)
    PROVE  \A d \in Callers : ~Running(d)'
<1>1. \A d \in Callers : d # c => ~Running(d)
    BY OneRuns DEF Core
<1>2. \A d \in Callers : d # c => handler'[d] = handler[d]
    BY Moves
<1>3. handler'[c].pc = "idle"
    BY Moves
<1> QED
    BY <1>1, <1>2, <1>3 DEF Running, InFlight

\* Replays, refusals and failed builds.
LEMMA RateAnswer ==
    ASSUME Core, RateInv, NEW c \in Callers, Replay(c) \/ Refuse(c) \/ FailToBuild(c)
    PROVE  RateInv'
<1>1. Step(c) /\ HoldsLock(c) /\ \E tx : Answer(c, tx)
    BY DEF Step, Replay, Refuse, FailToBuild, Core, LockInv, Running, InFlight
<1>2. \A d \in Callers : ~Running(d)'
    BY <1>1, NobodyRuns
<1>3. UNCHANGED <<now, payments>>
    BY DEF Replay, Refuse, FailToBuild
<1>4. Kept /\ Committed("public")' = Committed("public")
    BY <1>3 DEF Kept, Committed, PaymentsOf, Req, Outcome
<1>5. \A p \in ipHits : At(p) >= now - HOUR => p \in ipHits'
    BY PruneHits DEF Replay, Refuse, FailToBuild, tables
<1> QED
    BY <1>2, <1>3, <1>4, <1>5, RateKept, HitsKept DEF RateInv

\* Admission: the count is below the limit, and pruning only lowers it.
LEMMA RateAdmit ==
    ASSUME Core, RateInv, NEW c \in Callers, Admit(c)
    PROVE  RateInv'
<1>1. UNCHANGED <<now, payments>> /\ prune(now) /\ HoldsLock(c) /\ now \in Nat
    BY TimeAssumption DEF Admit, Core, TypeOK, Time
<1>2. Kept /\ Committed("public")' = Committed("public")
    BY <1>1 DEF Kept, Committed, PaymentsOf, Req, Outcome
<1>3. /\ handler'[c].at = now /\ handler'[c].req = handler[c].req
      /\ \A d \in Callers : d # c => handler'[d] = handler[d]
    BY Moves DEF Step
<1>4. \A d \in Callers : Running(d)' => d = c
    BY <1>1, <1>3, OneRuns DEF Core, Running
<1>5. \A p \in Committed("public") : At(p)' = At(p) /\ At(p) \in Nat
    BY <1>1, CommittedPayments DEF At
<1>6. \A p \in Committed("public") : At(p) >= now - HOUR => p \in ipHits'
    BY <1>1, PruneHits DEF RateInv, HitInv
<1>7. ASSUME handler[c].req.kind = "public"
      PROVE  Cardinality(IpHitsOf(handler[c].req.who, now)') < RateLimit[handler[c].req.tier]
    <2> DEFINE S == IpHitsOf(handler[c].req.who, now)
               T == {p \in ipHits' : Req(p).who = handler[c].req.who /\ At(p) > now - HOUR}
    <2>1. Cardinality(S) < RateLimit[handler[c].req.tier]
        BY <1>7 DEF Admit, Admissible, PublicAllowed
    <2>2. T \subseteq S /\ S \subseteq DOMAIN payments
        BY <1>1, PruneHits DEF IpHitsOf, Core, TypeOK
    <2>3. IsFiniteSet(S) /\ Cardinality(S) \in Nat
        BY <2>2, FinitePayments DEF Core, TypeOK
    <2>4. Cardinality(T) <= Cardinality(S) /\ Cardinality(T) \in Nat
        BY <2>2, <2>3, FS_Subset, FS_CardinalityType
    <2>5. RateLimit[handler[c].req.tier] \in Nat
        <3>1. handler[c].pc # "idle"
            BY DEF Admit
        <3>2. handler[c].req \in Requests
            BY <3>1 DEF Core, LockInv
        <3>3. handler[c].req.tier \in Tiers
            BY <1>7, <3>2 DEF Requests
        <3> QED
            BY <3>3, LimitsAssumption
    <2>6. {p \in ipHits' : Req(p)'.who = handler[c].req.who /\ At(p)' > now - HOUR} = T
        BY <1>1 DEF Req, At
    <2>7. Cardinality(T) < RateLimit[handler[c].req.tier]
        BY <2>1, <2>3, <2>4, <2>5
    <2> QED
        BY <1>1, <1>3, <2>6, <2>7 DEF IpHitsOf
<1>8. HitInv'
    <2>1. \A p \in Committed("public")' : At(p)' >= now' - HOUR => p \in ipHits'
        BY <1>1, <1>2, <1>5, <1>6
    <2>2. ASSUME NEW d \in Callers, Running(d)', handler'[d].req.kind = "public"
          PROVE  /\ \A p \in Committed("public")' :
                        At(p)' > handler'[d].at - HOUR => p \in ipHits'
                 /\ Cardinality(IpHitsOf(handler[d].req.who, handler[d].at)')
                        < RateLimit[handler'[d].req.tier]
        <3>1. d = c
            BY <1>4, <2>2
        <3>2. \A p \in Committed("public") : At(p) > now - HOUR => p \in ipHits'
            BY <1>1, <1>5, <1>6, TimeAssumption
        <3>3. IpHitsOf(handler[d].req.who, handler[d].at)' = IpHitsOf(handler[c].req.who, now)'
            BY <1>1, <1>3, <3>1 DEF IpHitsOf
        <3> QED
            BY <1>2, <1>3, <1>5, <1>7, <2>2, <3>1, <3>2, <3>3
    <2> QED
        BY <2>1, <2>2 DEF HitInv
<1> QED
    BY <1>2, <1>8, RateKept DEF RateInv

\* A step that keeps the rows, the clock and the committed payments, and puts nobody
\* else in the lock, keeps what the running payout was admitted under.
LEMMA HitsCarried ==
    ASSUME Core, RateInv, Kept, Committed("public")' = Committed("public"),
           now' = now, ipHits' = ipHits,
           \A d \in Callers : Running(d)' =>
                Running(d) /\ handler'[d].req = handler[d].req /\ handler'[d].at = handler[d].at
    PROVE  RateInv'
<1>1. \A p \in Committed("public") : At(p)' = At(p)
    BY DEF Kept, At, Committed, PaymentsOf
<1>2. \A p \in ipHits : At(p)' = At(p) /\ Req(p)' = Req(p)
    BY DEF Kept, At, Req, Core, TypeOK
<1>3. ASSUME NEW d \in Callers, Running(d)', handler'[d].req.kind = "public"
      PROVE  /\ \A p \in Committed("public")' : At(p)' > handler'[d].at - HOUR => p \in ipHits'
             /\ Cardinality(IpHitsOf(handler[d].req.who, handler[d].at)')
                    < RateLimit[handler'[d].req.tier]
    <2>1. /\ \A p \in Committed("public") : At(p) > handler[d].at - HOUR => p \in ipHits
          /\ Cardinality(IpHitsOf(handler[d].req.who, handler[d].at))
                < RateLimit[handler[d].req.tier]
        BY <1>3 DEF RateInv, HitInv
    <2>2. IpHitsOf(handler[d].req.who, handler[d].at)'
                = IpHitsOf(handler[d].req.who, handler[d].at)
        BY <1>2, <1>3 DEF IpHitsOf
    <2> QED
        BY <1>1, <1>3, <2>1, <2>2
<1>4. \A p \in Committed("public")' : At(p)' >= now' - HOUR => p \in ipHits'
    BY <1>1 DEF RateInv, HitInv
<1>5. HitInv'
    BY <1>3, <1>4 DEF HitInv
<1> QED
    BY <1>5, RateKept DEF RateInv

\* A call's steps before the broadcast is settled.
LEMMA RateProgress ==
    ASSUME Core, RateInv, NEW c \in Callers, Call(c) \/ Build(c) \/ BroadcastAmbiguous(c)
    PROVE  RateInv'
<1>1. now' = now /\ ipHits' = ipHits
    BY DEF Call, Build, BroadcastAmbiguous, tables
<1>2. \A d \in Callers : d # c => handler'[d] = handler[d]
    BY Moves DEF Step
<1>3. Kept /\ Committed("public")' = Committed("public")
    <2>1. CASE Call(c) \/ BroadcastAmbiguous(c)
        BY <2>1 DEF Call, BroadcastAmbiguous, Kept, Committed, PaymentsOf, Req, Outcome
    <2>2. CASE Build(c)
        <3>1. payments'[Len(payments) + 1].outcome # "committed"
            <4>1. payments'[Len(payments) + 1] =
                    [req |-> handler[c].req, at |-> handler[c].at, outcome |-> "open"]
                BY <2>2, BuildKeeps
            <4> QED
                BY <4>1
        <3>2. /\ Kept /\ DOMAIN payments' = DOMAIN payments \cup {Len(payments) + 1}
              /\ \A p \in DOMAIN payments : payments'[p] = payments[p]
            BY <2>2, BuildKeeps
        <3> QED
            BY <3>1, <3>2 DEF Committed, PaymentsOf, Req, Outcome
    <2> QED
        BY <2>1, <2>2
<1>4. Running(c)' =>
        Running(c) /\ handler'[c].req = handler[c].req /\ handler'[c].at = handler[c].at
    <2>1. CASE Call(c)
        BY <2>1, Moves DEF Running, InFlight
    <2>2. CASE Build(c) \/ BroadcastAmbiguous(c)
        BY <2>2, Moves DEF Step, Build, BroadcastAmbiguous, Running, InFlight
    <2> QED
        BY <2>1, <2>2
<1> QED
    BY <1>1, <1>2, <1>3, <1>4, HitsCarried DEF Running

\* The end of a broadcast: a committed public payment is one more than was counted.
LEMMA RateSettles ==
    ASSUME Core, RateInv, NEW c \in Callers, NEW tx,
           NEW outcome \in {"committed", "rejected", "uncertain"}, Settles(c, tx, outcome), Step(c)
    PROVE  RateInv'
<1>0. PICK p : p = handler[c].tx
    OBVIOUS
<1>1. /\ p \in DOMAIN payments /\ p = Len(payments) /\ Running(c) /\ HoldsLock(c)
      /\ Req(p) = handler[c].req /\ At(p) = handler[c].at /\ Outcome(p) = "open"
      /\ p \in Nat /\ payments \in Seq(Payment)
    BY <1>0, InHand DEF Settles, Core, TypeOK
<1>2. \A d \in Callers : ~Running(d)'
    BY <1>1, NobodyRuns DEF Settles
<1>3. /\ Kept /\ DOMAIN payments' = DOMAIN payments /\ payments'[p].outcome = outcome
      /\ \A q \in DOMAIN payments : q # p => payments'[q] = payments[q]
    BY <1>0, SettlesKeeps
<1>4. \A q \in DOMAIN payments : Req(q)' = Req(q) /\ At(q)' = At(q)
    BY <1>3 DEF Kept, Req, At
<1>5. \A q \in DOMAIN payments : q # p => Outcome(q)' = Outcome(q)
    BY <1>3 DEF Outcome
<1>6. now' = now /\ Outcome(p)' = outcome
    BY <1>3 DEF Settles, Outcome
<1>7. CASE Req(p).kind = "public" /\ outcome = "committed"
    <2>1. ipHits' = ipHits \cup {p}
        BY <1>0, <1>7 DEF Settles, recordClaim
    <2>2. Committed("public")' = Committed("public") \cup {p}
        BY <1>1, <1>3, <1>4, <1>5, <1>6, <1>7 DEF Committed, PaymentsOf
    <2>3. p \notin Committed("public")
        BY <1>1 DEF Committed
    <2>4. HitInv'
        <3>1. \A q \in Committed("public") : At(q)' = At(q)
            BY <1>4, CommittedPayments
        <3>2. \A q \in Committed("public")' : At(q)' >= now' - HOUR => q \in ipHits'
            BY <1>6, <2>1, <2>2, <3>1 DEF RateInv, HitInv
        <3> QED
            BY <1>2, <3>2 DEF HitInv
    <2> DEFINE Window(r) == {q \in Committed("public") :
                    q <= r /\ Req(q).who = Req(r).who /\ At(q) > At(r) - HOUR}
               Wider(r) == {q \in Committed("public") \cup {p} :
                    q <= r /\ Req(q).who = Req(r).who /\ At(q) > At(r) - HOUR}
    <2>5. \A r \in Committed("public") : Wider(r) = Window(r)
        <3>1. \A r \in Committed("public") : r \in Nat /\ r <= p /\ r # p
            BY <1>1, <2>3, CommittedPayments
        <3> QED
            BY <1>1, <3>1
    <2>6. Cardinality(Wider(p)) <= RateLimit[Req(p).tier]
        <3> DEFINE S == IpHitsOf(handler[c].req.who, handler[c].at)
        <3>1. Cardinality(S) < RateLimit[handler[c].req.tier]
            BY <1>1, <1>7 DEF RateInv, HitInv
        <3>2. S \subseteq DOMAIN payments
            BY DEF IpHitsOf, Core, TypeOK
        <3>3. IsFiniteSet(S)
            BY <1>1, <3>2, FinitePayments
        <3>4. \A q \in Committed("public") : At(q) > handler[c].at - HOUR => q \in ipHits
            BY <1>1, <1>7 DEF RateInv, HitInv
        <3>5. Wider(p) \subseteq S \cup {p}
            BY <1>1, <3>4 DEF IpHitsOf
        <3>6. RateLimit[handler[c].req.tier] \in Nat
            <4>1. handler[c].req \in Requests
                BY InHand DEF Settles
            <4>2. handler[c].req.tier \in Tiers
                BY <1>1, <1>7, <4>1 DEF Requests
            <4> QED
                BY <4>2, LimitsAssumption
        <3> HIDE DEF S, Wider
        <3>7. Cardinality(Wider(p)) <= RateLimit[handler[c].req.tier]
            BY <3>1, <3>3, <3>5, <3>6, OneMore
        <3> QED
            BY <1>1, <3>7
    <2>7. \A r \in Committed("public") \cup {p} : Cardinality(Wider(r)) <= RateLimit[Req(r).tier]
        BY <2>5, <2>6 DEF RateInv, RateLimitHolds
    <2>8. RateLimitHolds'
        <3>1. \A q \in Committed("public") \cup {p} : Req(q)' = Req(q) /\ At(q)' = At(q)
            BY <1>1, <1>4, CommittedPayments
        <3> SUFFICES ASSUME NEW r \in Committed("public") \cup {p}
                     PROVE  Cardinality({q \in Committed("public") \cup {p} :
                                q <= r /\ Req(q)'.who = Req(r)'.who /\ At(q)' > At(r)' - HOUR})
                                <= RateLimit[Req(r)'.tier]
            BY <2>2 DEF RateLimitHolds
        <3>2. {q \in Committed("public") \cup {p} :
                    q <= r /\ Req(q)'.who = Req(r)'.who /\ At(q)' > At(r)' - HOUR} = Wider(r)
            BY <3>1
        <3> QED
            BY <2>7, <3>1, <3>2
    <2> QED
        BY <2>4, <2>8 DEF RateInv
<1>8. CASE ~(Req(p).kind = "public" /\ outcome = "committed")
    <2>1. Committed("public")' = Committed("public")
        BY <1>1, <1>3, <1>4, <1>5, <1>6, <1>8 DEF Committed, PaymentsOf
    <2>2. ipHits' = ipHits
        BY <1>0, <1>8 DEF Settles, recordKeyPayout, recordRedemption, tables
    <2> QED
        BY <1>2, <1>3, <1>6, <2>1, <2>2, RateKept, HitsKept DEF RateInv
<1> QED
    BY <1>7, <1>8

\* Every step preserves RateInv.
LEMMA RateNext == ASSUME Core, RateInv, [Next]_vars PROVE RateInv'
<1>1. CASE \/ \E p \in DOMAIN payments : Land(p)
           \/ \E k \in Keys : revokeApiKey(k)
           \/ \E k \in Codes : updateCode(k)
           \/ UNCHANGED vars
    <2>1. UNCHANGED <<now, handler, payments, ipHits>>
        BY <1>1 DEF Land, revokeApiKey, updateCode, vars, tables
    <2>2. Kept /\ Committed("public")' = Committed("public")
        BY <2>1 DEF Kept, Committed, PaymentsOf, Req, Outcome
    <2> QED
        BY <2>1, <2>2, HitsCarried DEF Running
<1>2. CASE Snapshot
    <2>1. UNCHANGED <<now, queue, handler, payments>> /\ queue = <<>> /\ prune(now)
        BY <1>2 DEF Snapshot
    <2>2. \A d \in Callers : ~Running(d)'
        BY <2>1 DEF Core, LockInv, HoldsLock, Running
    <2>3. Kept /\ Committed("public")' = Committed("public")
        BY <2>1 DEF Kept, Committed, PaymentsOf, Req, Outcome
    <2> QED
        BY <2>1, <2>2, <2>3, PruneHits, HitsKept, RateKept DEF RateInv
<1>3. CASE Crash
    <2>1. now' = now /\ ipHits' = ipHits /\ \A d \in Callers : ~Running(d)'
        BY <1>3 DEF Crash, Running, InFlight, tables
    <2>2. Kept /\ Committed("public")' = Committed("public")
        BY <1>3, CrashKeeps DEF Kept, Committed, PaymentsOf, Req, Outcome
    <2> QED
        BY <2>1, <2>2, HitsKept, RateKept DEF RateInv
<1>4. CASE Tick
    <2>1. now' = now + 1 /\ now \in Nat /\ UNCHANGED <<handler, payments, ipHits>>
        BY <1>4, TimeAssumption DEF Tick, Core, TypeOK, Time, tables
    <2>2. Kept /\ Committed("public")' = Committed("public")
        BY <2>1 DEF Kept, Committed, PaymentsOf, Req, Outcome
    <2>3. \A p \in Committed("public") : At(p) \in Nat /\ At(p)' = At(p)
        BY <2>1, CommittedPayments DEF At
    <2>4. \A p \in Committed("public")' : At(p)' >= now' - HOUR => p \in ipHits'
        BY <2>1, <2>2, <2>3, TimeAssumption DEF RateInv, HitInv
    <2>5. HitInv'
        BY <2>1, <2>2, <2>3, <2>4 DEF RateInv, HitInv, Running, IpHitsOf, Req, At
    <2> QED
        BY <2>2, <2>5, RateKept DEF RateInv
<1>5. ASSUME NEW c \in Callers, Call(c) \/ Step(c) PROVE RateInv'
    BY <1>5, StepCases, RateAnswer, RateAdmit, RateProgress, RateSettles
<1> QED
    BY <1>1, <1>2, <1>3, <1>4, <1>5 DEF Next

(***************************************************************************)
(* Per-IP limiting: however payouts, replays, prunes, crashes and the clock*)
(* interleave, no IP is paid above its tier's allowance in any hour.       *)
(***************************************************************************)
THEOREM RateLimited == Spec => []RateLimitHolds
<1>1. Init => RateInv
    BY DEF Init, RateInv, HitInv, RateLimitHolds, Committed, PaymentsOf, Running, InFlight
<1>2. Spec => []RateInv
    BY <1>1, RateNext, CoreAlways, PTL DEF Spec
<1>3. RateInv => RateLimitHolds
    BY DEF RateInv
<1> QED
    BY <1>2, <1>3, PTL

-----------------------------------------------------------------------------
(***************************************************************************)
(* Codes and keys.  Their rows are never pruned, and are written for an    *)
(* unresolved broadcast as for an accepted one.                            *)
(***************************************************************************)
(***************************************************************************)
(* A step that admits, builds and settles nothing: payments keep what they *)
(* are (a crash loses the open one), and a broadcast under way goes on.    *)
(***************************************************************************)
Quiet ==
    /\ Kept /\ DOMAIN payments' = DOMAIN payments
    /\ \A p \in DOMAIN payments :
        Outcome(p)' = Outcome(p) \/ (Outcome(p) = "open" /\ Outcome(p)' = "lost")
    /\ UNCHANGED <<keyPayouts, redemptions>>
    /\ live \subseteq live' /\ \A p \in live' \ live : Outcome(p) # "rejected"
    /\ \A d \in Callers : Running(d)' =>
        Running(d) /\ handler'[d].req = handler[d].req /\ handler'[d].at = handler[d].at
    /\ \A d \in Callers : handler[d].pc \in Broadcasting =>
        \/ handler'[d].pc \in Broadcasting /\ handler'[d].tx = handler[d].tx
        \/ payments'[handler[d].tx].outcome = "lost"

\* Every step that answers a call before it has built anything is quiet.
LEMMA AnswersQuietly ==
    ASSUME Core, NEW c \in Callers, Replay(c) \/ Refuse(c) \/ FailToBuild(c)
    PROVE  Quiet
<1>1. Step(c) /\ HoldsLock(c) /\ \E tx : Answer(c, tx)
    BY DEF Step, Replay, Refuse, FailToBuild, Core, LockInv, Running, InFlight
<1>2. \A d \in Callers : ~Running(d)'
    BY <1>1, NobodyRuns
<1>3. handler[c].pc \notin Broadcasting
    BY DEF Replay, Refuse, FailToBuild, Broadcasting, InFlight
<1>4. \A d \in Callers : handler[d].pc \notin Broadcasting
    BY <1>1, <1>3, OneRuns DEF Core, Running, Broadcasting
<1>5. UNCHANGED <<payments, live, keyPayouts, redemptions>>
    BY DEF Replay, Refuse, FailToBuild, prune, tables
<1> QED
    BY <1>2, <1>4, <1>5 DEF Quiet, Kept, Outcome

\* So is a new call, and a broadcast that goes on.
LEMMA GoesOnQuietly ==
    ASSUME Core, NEW c \in Callers, Call(c) \/ BroadcastAmbiguous(c)
    PROVE  Quiet
<1>1. \A d \in Callers : d # c => handler'[d] = handler[d]
    BY Moves DEF Step
<1>2. UNCHANGED <<payments, live, keyPayouts, redemptions>>
    BY DEF Call, BroadcastAmbiguous, tables
<1>3. CASE Call(c)
    <2>1. handler'[c].pc = "queued" /\ handler[c].pc = "idle"
        BY <1>3, Moves DEF Call
    <2> QED
        BY <1>1, <1>2, <2>1 DEF Quiet, Kept, Outcome, Running, Broadcasting, InFlight
<1>4. CASE BroadcastAmbiguous(c)
    <2>1. /\ handler[c].pc \in Broadcasting /\ handler'[c].pc \in Broadcasting
          /\ handler'[c].req = handler[c].req /\ handler'[c].at = handler[c].at
        BY <1>4, Moves DEF Step, BroadcastAmbiguous, Broadcasting, InFlight
    <2>2. handler'[c].tx = handler[c].tx
        <3>1. handler \in [Callers -> Handler] /\ handler[c] \in Handler
            BY DEF Core, TypeOK
        <3> QED
            BY <1>4, <3>1 DEF BroadcastAmbiguous, Handler
    <2> QED
        BY <1>1, <1>2, <2>1, <2>2 DEF Quiet, Kept, Outcome, Running, Broadcasting
<1> QED
    BY <1>3, <1>4

\* Whatever happens outside the calls is quiet too.
LEMMA ElsewhereQuietly ==
    ASSUME Core,
           \/ \E p \in DOMAIN payments : Land(p)
           \/ \E k \in Keys : revokeApiKey(k)
           \/ \E k \in Codes : updateCode(k)
           \/ Snapshot \/ Tick \/ UNCHANGED vars
    PROVE  Quiet
<1>1. UNCHANGED <<handler, payments, keyPayouts, redemptions>>
    BY DEF Land, revokeApiKey, updateCode, Snapshot, Tick, prune, vars, tables
<1>2. live \subseteq live' /\ \A p \in live' \ live : Outcome(p) # "rejected"
    BY DEF Land, revokeApiKey, updateCode, Snapshot, Tick, vars
<1> QED
    BY <1>1, <1>2 DEF Quiet, Kept, Outcome, Running

\* A crash ends every broadcast and loses its payment.
LEMMA CrashQuietly == ASSUME Core, Crash PROVE Quiet
<1>1. /\ Kept /\ DOMAIN payments' = DOMAIN payments
      /\ UNCHANGED <<live, keyPayouts, redemptions>>
    BY CrashKeeps DEF Crash, tables
<1>2. \A d \in Callers : ~Running(d)'
    BY DEF Crash, Running, InFlight
<1>3. \A p \in DOMAIN payments :
        payments'[p] = IF payments[p].outcome = "open"
                       THEN [payments[p] EXCEPT !.outcome = "lost"] ELSE payments[p]
    BY DEF Crash, Outcome
<1>4. \A p \in DOMAIN payments : payments[p] \in Payment
    BY DEF Core, TypeOK
<1>5. \A p \in DOMAIN payments :
        Outcome(p)' = IF Outcome(p) = "open" THEN "lost" ELSE Outcome(p)
    BY <1>3, <1>4 DEF Outcome, Payment
<1>6. \A d \in Callers : handler[d].pc \in Broadcasting =>
        payments'[handler[d].tx].outcome = "lost"
    BY <1>5, InHand DEF Outcome
<1> QED
    BY <1>1, <1>2, <1>5, <1>6 DEF Quiet

\* Every step is quiet, or admits, builds or settles one payout.
LEMMA RowSteps ==
    ASSUME Core, [Next]_vars
    PROVE  \/ Quiet
           \/ \E c \in Callers : \/ Admit(c) \/ Build(c)
                                 \/ \E tx, outcome : /\ outcome \in {"committed", "rejected", "uncertain"}
                                                     /\ Settles(c, tx, outcome)
                                                     /\ Step(c)
<1>1. ASSUME NEW c \in Callers, Step(c)
      PROVE  \/ Quiet \/ Admit(c) \/ Build(c)
             \/ \E tx, outcome : /\ outcome \in {"committed", "rejected", "uncertain"}
                                 /\ Settles(c, tx, outcome)
                                 /\ Step(c)
    BY <1>1, StepCases, AnswersQuietly, GoesOnQuietly
<1>2. ASSUME NEW c \in Callers, Call(c) PROVE Quiet
    BY <1>2, GoesOnQuietly
<1> QED
    BY <1>1, <1>2, ElsewhereQuietly, CrashQuietly DEF Next

-----------------------------------------------------------------------------
\* The fate of a payment (FateInv): its parts hold together from step to step.
\* A quiet step loses an open payment or leaves it with its handler.
LEMMA FateQuiet == ASSUME Core, FateInv, Quiet PROVE FateInv'
<1> SUFFICES ASSUME NEW p \in DOMAIN payments
             PROVE  /\ Outcome(p)' = "open" => \E c \in Callers :
                            handler'[c].pc \in Broadcasting /\ handler'[c].tx = p
                    /\ Outcome(p)' = "rejected" => p \notin live'
                    /\ Outcome(p)' = "committed" => p \in live'
    BY DEF FateInv, Quiet
<1>1. Outcome(p)' = Outcome(p) \/ (Outcome(p) = "open" /\ Outcome(p)' = "lost")
    BY DEF Quiet
<1>2. Outcome(p)' = "open" => \E c \in Callers :
            handler'[c].pc \in Broadcasting /\ handler'[c].tx = p
    <2> SUFFICES ASSUME Outcome(p)' = "open"
                 PROVE  \E c \in Callers : handler'[c].pc \in Broadcasting /\ handler'[c].tx = p
        OBVIOUS
    <2>1. PICK c \in Callers : handler[c].pc \in Broadcasting /\ handler[c].tx = p
        BY <1>1 DEF FateInv
    <2>2. payments'[handler[c].tx].outcome # "lost"
        BY <2>1 DEF Outcome
    <2> QED
        BY <2>1, <2>2 DEF Quiet
<1> QED
    BY <1>1, <1>2 DEF FateInv, Quiet

\* Every step preserves FateInv.
LEMMA FateNext == ASSUME Core, FateInv, [Next]_vars PROVE FateInv'
<1>1. ASSUME NEW c \in Callers, Admit(c) PROVE FateInv'
    <2>1. handler[c].pc = "queued" /\ UNCHANGED <<payments, live>>
        BY <1>1 DEF Admit
    <2>2. \A d \in Callers : d # c => handler'[d] = handler[d]
        BY <1>1, Moves DEF Step
    <2> QED
        BY <2>1, <2>2 DEF FateInv, Outcome, Broadcasting, InFlight
<1>2. ASSUME NEW c \in Callers, Build(c) PROVE FateInv'
    <2> DEFINE n == Len(payments) + 1
    <2>1. /\ DOMAIN payments' = DOMAIN payments \cup {n}
          /\ \A p \in DOMAIN payments : payments'[p] = payments[p]
          /\ payments'[n] = [req |-> handler[c].req, at |-> handler[c].at, outcome |-> "open"]
        BY <1>2, BuildKeeps
    <2>2. payments'[n].outcome = "open"
        BY <2>1
    <2>3. handler'[c].pc = "broadcasting" /\ handler'[c].tx = n
        <3>1. handler \in [Callers -> Handler] /\ handler[c] \in Handler
            BY DEF Core, TypeOK
        <3> QED
            BY <1>2, <3>1 DEF Build, Handler
    <2>4. \A d \in Callers : d # c => handler'[d] = handler[d]
        BY <1>2, Moves DEF Step
    <2>5. handler[c].pc \notin Broadcasting /\ live' = live
        BY <1>2 DEF Build, Broadcasting
    <2> HIDE DEF n
    <2>6. "broadcasting" \in Broadcasting
        BY DEF Broadcasting, InFlight
    <2> QED
        BY <2>1, <2>2, <2>3, <2>4, <2>5, <2>6 DEF FateInv, Outcome
<1>3. ASSUME NEW c \in Callers, NEW tx, NEW outcome \in {"committed", "rejected", "uncertain"},
             Settles(c, tx, outcome), Step(c)
      PROVE  FateInv'
    <2> DEFINE p == handler[c].tx
    <2>1. /\ DOMAIN payments' = DOMAIN payments /\ payments'[p].outcome = outcome
          /\ \A q \in DOMAIN payments : q # p => payments'[q] = payments[q]
        BY <1>3, SettlesKeeps
    <2>2. \A d \in Callers : d # c => handler'[d] = handler[d]
        BY <1>3, Moves
    <2>3. /\ live' = live /\ (outcome = "committed" => p \in live)
          /\ (outcome = "rejected" => p \notin live)
        BY <1>3 DEF Settles
    <2> HIDE DEF p
    <2>4. \A q \in DOMAIN payments : q # p => Outcome(q)' = Outcome(q)
        BY <2>1 DEF Outcome
    <2>5. \A d \in Callers : handler[d].pc \in Broadcasting /\ handler[d].tx # p => d # c
        BY DEF p
    <2> QED
        BY <2>1, <2>2, <2>3, <2>4, <2>5 DEF FateInv, Outcome
<1> QED
    BY <1>1, <1>2, <1>3, FateQuiet, RowSteps

\* FateInv, for the theorems below.
LEMMA FateAlways == Spec => []FateInv
<1>1. Init => FateInv
    BY DEF Init, FateInv
<1> QED
    BY <1>1, FateNext, CoreAlways, PTL DEF Spec

\* What a live payment nobody has forgotten must be: charged, or being broadcast now.
LEMMA AccountedIs ==
    ASSUME Core, FateInv, NEW kind, NEW p \in Accounted(kind)
    PROVE  /\ p \in PaymentsOf(kind) /\ p \in Nat
           /\ \/ Outcome(p) \in {"committed", "uncertain"}
              \/ /\ p = Len(payments) /\ Outcome(p) = "open"
                 /\ \E c \in Callers : /\ Running(c) /\ Req(p) = handler[c].req
                                       /\ At(p) = handler[c].at
<1>1. p \in DOMAIN payments /\ p \in PaymentsOf(kind) /\ p \in live /\ Outcome(p) # "lost"
    BY DEF Accounted, PaymentsOf
<1>2. payments \in Seq(Payment) /\ payments[p] \in Payment
    BY <1>1 DEF Core, TypeOK
<1>3. p \in Nat /\ Outcome(p) \in Outcomes
    BY <1>1, <1>2 DEF Outcome, Payment
<1>4. Outcome(p) # "rejected"
    BY <1>1 DEF FateInv
<1>5. CASE Outcome(p) = "open"
    <2>1. PICK c \in Callers : handler[c].pc \in Broadcasting /\ handler[c].tx = p
        BY <1>1, <1>5 DEF FateInv
    <2> QED
        BY <1>1, <1>3, <1>5, <2>1, InHand
<1> QED
    BY <1>1, <1>3, <1>4, <1>5 DEF Outcomes

-----------------------------------------------------------------------------
(***************************************************************************)
(* Codes: the redemption row written for an unresolved broadcast too is    *)
(* what keeps an address from redeeming twice.                             *)
(***************************************************************************)
LEMMA CodeNext == ASSUME Core, RedemptionInv, [Next]_vars PROVE RedemptionInv'
<1>0. /\ redemptions \subseteq DOMAIN payments
      /\ \A p \in redemptions : p \in PaymentsOf("code")
    BY DEF Core, TypeOK, RedemptionInv
<1>1. ASSUME Quiet PROVE RedemptionInv'
    <2>1. \A p \in DOMAIN payments : Req(p)' = Req(p)
        BY <1>1 DEF Quiet, Kept, Req
    <2>2. PaymentsOf("code")' = PaymentsOf("code")
        BY <1>1, <2>1 DEF Quiet, PaymentsOf
    <2>3. \A p \in PaymentsOf("code") :
            Outcome(p)' \in {"committed", "uncertain"} => p \in redemptions'
        BY <1>1 DEF Quiet, RedemptionInv, PaymentsOf
    <2> QED
        BY <1>0, <1>1, <2>1, <2>2, <2>3 DEF Quiet, RedemptionInv
<1>2. ASSUME NEW c \in Callers, Admit(c) PROVE RedemptionInv'
    <2>1. UNCHANGED <<payments, redemptions>> /\ HoldsLock(c)
        BY <1>2 DEF Admit, prune
    <2>2. /\ handler'[c].req = handler[c].req
          /\ \A d \in Callers : d # c => handler'[d] = handler[d]
        BY <1>2, Moves DEF Step
    <2>3. \A d \in Callers : Running(d)' => d = c
        BY <2>1, <2>2, OneRuns DEF Core, Running
    <2>4. handler[c].req.kind = "code" =>
            \A p \in redemptions : ~ (Req(p).who = handler[c].req.who
                                      /\ Req(p).address = handler[c].req.address)
        BY <1>2 DEF Admit, Admissible, checkCode
    <2>5. \A p \in DOMAIN payments : Req(p)' = Req(p) /\ Outcome(p)' = Outcome(p)
        BY <2>1 DEF Req, Outcome
    <2>6. PaymentsOf("code")' = PaymentsOf("code")
        BY <2>1, <2>5 DEF PaymentsOf
    <2> QED
        BY <1>0, <2>1, <2>2, <2>3, <2>4, <2>5, <2>6 DEF RedemptionInv, PaymentsOf
<1>3. ASSUME NEW c \in Callers, Build(c) PROVE RedemptionInv'
    <2> DEFINE n == Len(payments) + 1
    <2>1. /\ DOMAIN payments' = DOMAIN payments \cup {n} /\ n \notin DOMAIN payments
          /\ \A p \in DOMAIN payments : payments'[p] = payments[p]
          /\ payments'[n] = [req |-> handler[c].req, at |-> handler[c].at, outcome |-> "open"]
        BY <1>3, BuildKeeps
    <2>2. payments'[n].outcome = "open"
        BY <2>1
    <2>3. redemptions' = redemptions /\ Running(c)
        BY <1>3 DEF Build, tables, Running, InFlight
    <2>4. /\ handler'[c].req = handler[c].req
          /\ \A d \in Callers : d # c => handler'[d] = handler[d]
        BY <1>3, Moves DEF Step
    <2> HIDE DEF n
    <2>5. \A p \in DOMAIN payments : Req(p)' = Req(p) /\ Outcome(p)' = Outcome(p)
        BY <2>1 DEF Req, Outcome
    <2>6. PaymentsOf("code") \subseteq PaymentsOf("code")'
          /\ PaymentsOf("code")' \subseteq PaymentsOf("code") \cup {n}
        BY <2>1, <2>5 DEF PaymentsOf
    <2>7. \A p \in PaymentsOf("code")' :
            Outcome(p)' \in {"committed", "uncertain"} => p \in redemptions'
        BY <2>2, <2>3, <2>5, <2>6 DEF RedemptionInv, Outcome, PaymentsOf
    <2>8. \A d \in Callers : Running(d)' => Running(d) /\ handler'[d].req = handler[d].req
        BY <2>3, <2>4 DEF Running
    <2> QED
        BY <1>0, <2>3, <2>5, <2>6, <2>7, <2>8 DEF RedemptionInv
<1>4. ASSUME NEW c \in Callers, NEW tx, NEW outcome \in {"committed", "rejected", "uncertain"},
             Settles(c, tx, outcome), Step(c)
      PROVE  RedemptionInv'
    <2>0. PICK p : p = handler[c].tx
        OBVIOUS
    <2>1. /\ p \in DOMAIN payments /\ Running(c) /\ HoldsLock(c) /\ Req(p) = handler[c].req
        BY <1>4, <2>0, InHand DEF Settles
    <2>2. \A d \in Callers : ~Running(d)'
        BY <1>4, <2>1, NobodyRuns DEF Settles
    <2>3. /\ Kept /\ DOMAIN payments' = DOMAIN payments /\ payments'[p].outcome = outcome
          /\ \A q \in DOMAIN payments : q # p => payments'[q] = payments[q]
        BY <1>4, <2>0, SettlesKeeps
    <2>4. \A q \in DOMAIN payments : Req(q)' = Req(q) /\ (q # p => Outcome(q)' = Outcome(q))
        BY <2>3 DEF Kept, Req, Outcome
    <2>5. PaymentsOf("code")' = PaymentsOf("code")
        BY <2>3, <2>4 DEF PaymentsOf
    <2>6. CASE Req(p).kind = "code" /\ redemptions' = redemptions \cup {p}
        <3>1. \A q \in redemptions : ~ (Req(q).who = Req(p).who
                                        /\ Req(q).address = Req(p).address)
            BY <2>1, <2>6 DEF RedemptionInv
        <3>2. p \in PaymentsOf("code")
            BY <2>1, <2>6 DEF PaymentsOf
        <3>3. \A q \in PaymentsOf("code") :
                Outcome(q)' \in {"committed", "uncertain"} => q \in redemptions'
            BY <2>4, <2>6 DEF RedemptionInv, PaymentsOf
        <3> QED
            BY <1>0, <2>1, <2>2, <2>4, <2>5, <2>6, <3>1, <3>2, <3>3 DEF RedemptionInv
    <2>7. CASE /\ redemptions' = redemptions
               /\ Req(p).kind = "code" => outcome = "rejected"
        <3>1. \A q \in PaymentsOf("code") :
                Outcome(q)' \in {"committed", "uncertain"} => q \in redemptions'
            BY <2>3, <2>4, <2>7 DEF RedemptionInv, PaymentsOf, Outcome
        <3> QED
            BY <1>0, <2>2, <2>4, <2>5, <2>7, <3>1 DEF RedemptionInv
    <2> QED
        BY <1>4, <2>0, <2>6, <2>7
           DEF Settles, recordClaim, recordKeyPayout, recordRedemption, tables
<1> QED
    BY <1>1, <1>2, <1>3, <1>4, RowSteps

\* The rows of codes, for the theorems below.
LEMMA CodesRedeemed == Spec => []RedemptionInv
<1>1. Init => RedemptionInv
    BY DEF Init, RedemptionInv, PaymentsOf, Running, InFlight
<1> QED
    BY <1>1, CodeNext, CoreAlways, PTL DEF Spec

(***************************************************************************)
(* One code pays one address at most once, counting every transaction that *)
(* is on the network: also one whose broadcast nobody could resolve, and   *)
(* one still being broadcast.                                              *)
(***************************************************************************)
THEOREM CodesPayOnce == Spec => []CodeOncePerAddress
<1>2. Spec => []RedemptionInv
    BY CodesRedeemed
<1>3. ASSUME Core, FateInv, RedemptionInv PROVE CodeOncePerAddress
    <2> SUFFICES ASSUME NEW p \in Accounted("code"), NEW q \in Accounted("code"),
                        Req(p).who = Req(q).who, Req(p).address = Req(q).address
                 PROVE  p = q
        BY DEF CodeOncePerAddress
    <2>1. \A r \in Accounted("code") :
            \/ r \in redemptions
            \/ /\ r = Len(payments)
               /\ \A s \in redemptions : ~ (Req(s).who = Req(r).who
                                            /\ Req(s).address = Req(r).address)
        <3> SUFFICES ASSUME NEW r \in Accounted("code"), r \notin redemptions
                     PROVE  /\ r = Len(payments)
                            /\ \A s \in redemptions : ~ (Req(s).who = Req(r).who
                                                         /\ Req(s).address = Req(r).address)
            OBVIOUS
        <3>1. /\ r \in PaymentsOf("code") /\ r = Len(payments)
              /\ \E c \in Callers : Running(c) /\ Req(r) = handler[c].req
            BY <1>3, AccountedIs DEF RedemptionInv
        <3>2. Req(r).kind = "code"
            BY <3>1 DEF PaymentsOf
        <3> QED
            BY <1>3, <3>1, <3>2 DEF RedemptionInv
    <2> QED
        BY <1>3, <2>1 DEF RedemptionInv
<1> QED
    BY <1>2, <1>3, CoreAlways, FateAlways, PTL

-----------------------------------------------------------------------------
(***************************************************************************)
(* Keys: a key's rows are never pruned, so the count at admission is of    *)
(* everything the key was ever charged for in the day before.              *)
(***************************************************************************)
\* The counts over rows that keep their requests and times stay.
LEMMA KeyRowsKept ==
    ASSUME Core, \A q \in keyPayouts : Req(q)' = Req(q) /\ At(q)' = At(q),
           keyPayouts' = keyPayouts
    PROVE  /\ \A p \in keyPayouts : KeyWindow(p)' = KeyWindow(p)
           /\ \A k, t : {q \in keyPayouts' : Req(q)'.who = k /\ At(q)' > t - DAY}
                            = KeyHits(k, t)
BY DEF KeyWindow, KeyHits

\* A row's counts are of finitely many rows, and a running key has a limit of its own.
LEMMA KeyFacts ==
    ASSUME Core
    PROVE  /\ \A k, t : IsFiniteSet(KeyHits(k, t))
           /\ \A c \in Callers :
                Running(c) /\ handler[c].req.kind = "key" => handler[c].req.who \in Keys
<1>1. \A k, t : KeyHits(k, t) \subseteq DOMAIN payments
    BY DEF KeyHits, Core, TypeOK
<1>2. \A k, t : IsFiniteSet(KeyHits(k, t))
    BY <1>1, FinitePayments DEF Core, TypeOK
<1>3. ASSUME NEW c \in Callers, Running(c), handler[c].req.kind = "key"
      PROVE  handler[c].req.who \in Keys
    <2>1. handler[c].req \in Requests
        BY <1>3 DEF Core, LockInv, Running, InFlight
    <2> QED
        BY <1>3, <2>1 DEF Requests
<1> QED
    BY <1>2, <1>3

\* Nothing is charged: what was counted stays counted.
LEMMA KeyUncharged ==
    ASSUME Core, KeyInv, Kept, keyPayouts' = keyPayouts,
           \A p \in PaymentsOf("key")' :
                Outcome(p)' \in {"committed", "uncertain"} => p \in keyPayouts,
           \A p \in keyPayouts : Outcome(p)' # "open",
           \A d \in Callers :
                /\ Running(d)' /\ handler'[d].req.kind = "key"
                /\ PerDay[handler'[d].req.who] # Never
                => Cardinality(KeyHits(handler'[d].req.who, handler'[d].at))
                        < PerDay[handler'[d].req.who]
    PROVE  KeyInv'
<1>1. \A p \in keyPayouts : p \in DOMAIN payments /\ p \in PaymentsOf("key")
    BY DEF Core, TypeOK, KeyInv
<1>2. \A p \in keyPayouts : Req(p)' = Req(p) /\ At(p)' = At(p)
    BY <1>1 DEF Kept, Req, At
<1>3. keyPayouts' \subseteq PaymentsOf("key")'
    BY <1>1, <1>2 DEF Kept, PaymentsOf
<1>4. \A p \in keyPayouts : KeyWindow(p)' = KeyWindow(p)
    BY <1>2, KeyRowsKept
<1>5. \A p \in keyPayouts' : PerDay[Req(p)'.who] # Never =>
            Cardinality(KeyWindow(p)') <= PerDay[Req(p)'.who]
    BY <1>2, <1>4 DEF KeyInv
<1>6. \A d \in Callers : KeyHits(handler[d].req.who, handler[d].at)'
                            = KeyHits(handler'[d].req.who, handler'[d].at)
    BY <1>2, KeyRowsKept DEF KeyHits
<1> QED
    BY <1>3, <1>5, <1>6 DEF KeyInv

\* Every step preserves KeyInv.
LEMMA KeyNext == ASSUME Core, KeyInv, [Next]_vars PROVE KeyInv'
<1>0. \A p \in keyPayouts : p \in DOMAIN payments
    BY DEF Core, TypeOK
<1>1. ASSUME Quiet PROVE KeyInv'
    <2>1. \A p \in DOMAIN payments : Req(p)' = Req(p)
        BY <1>1 DEF Quiet, Kept, Req
    <2>2. PaymentsOf("key")' = PaymentsOf("key")
        BY <1>1, <2>1 DEF Quiet, PaymentsOf
    <2>3. \A p \in PaymentsOf("key")' :
            Outcome(p)' \in {"committed", "uncertain"} => p \in keyPayouts
        BY <1>1, <2>2 DEF Quiet, KeyInv, PaymentsOf
    <2>4. \A p \in keyPayouts : Outcome(p)' # "open"
        BY <1>0, <1>1 DEF Quiet, KeyInv
    <2>5. Kept /\ keyPayouts' = keyPayouts
        BY <1>1 DEF Quiet
    <2>6. \A d \in Callers : Running(d)' =>
            Running(d) /\ handler'[d].req = handler[d].req /\ handler'[d].at = handler[d].at
        BY <1>1 DEF Quiet
    <2> QED
        BY <2>3, <2>4, <2>5, <2>6, KeyUncharged DEF KeyInv
<1>2. ASSUME NEW c \in Callers, Admit(c) PROVE KeyInv'
    <2>1. UNCHANGED <<payments, keyPayouts>> /\ HoldsLock(c)
        BY <1>2 DEF Admit, prune
    <2>2. /\ handler'[c].req = handler[c].req /\ handler'[c].at = now
          /\ \A d \in Callers : d # c => handler'[d] = handler[d]
        BY <1>2, Moves DEF Step
    <2>3. \A d \in Callers : Running(d)' => d = c
        BY <2>1, <2>2, OneRuns DEF Core, Running
    <2>4. handler[c].req.kind = "key" /\ PerDay[handler[c].req.who] # Never =>
            Cardinality(KeyHits(handler[c].req.who, now)) < PerDay[handler[c].req.who]
        BY <1>2 DEF Admit, Admissible, authorizeKeyPayout
    <2>5. /\ Kept /\ PaymentsOf("key")' = PaymentsOf("key")
          /\ \A p \in DOMAIN payments : Outcome(p)' = Outcome(p)
        BY <2>1 DEF Kept, PaymentsOf, Req, Outcome
    <2>6. \A p \in PaymentsOf("key")' :
            Outcome(p)' \in {"committed", "uncertain"} => p \in keyPayouts
        BY <2>5 DEF KeyInv, PaymentsOf
    <2>7. \A p \in keyPayouts : Outcome(p)' # "open"
        BY <1>0, <2>5 DEF KeyInv
    <2> QED
        BY <2>1, <2>2, <2>3, <2>4, <2>5, <2>6, <2>7, KeyUncharged
<1>3. ASSUME NEW c \in Callers, Build(c) PROVE KeyInv'
    <2> DEFINE n == Len(payments) + 1
    <2>1. /\ Kept /\ DOMAIN payments' = DOMAIN payments \cup {n} /\ n \notin DOMAIN payments
          /\ \A p \in DOMAIN payments : payments'[p] = payments[p]
          /\ payments'[n] = [req |-> handler[c].req, at |-> handler[c].at, outcome |-> "open"]
        BY <1>3, BuildKeeps
    <2>2. payments'[n].outcome = "open"
        BY <2>1
    <2>3. keyPayouts' = keyPayouts /\ Running(c)
        BY <1>3 DEF Build, tables, Running, InFlight
    <2>4. /\ handler'[c].req = handler[c].req /\ handler'[c].at = handler[c].at
          /\ \A d \in Callers : d # c => handler'[d] = handler[d]
        BY <1>3, Moves DEF Step
    <2> HIDE DEF n
    <2>5. \A p \in DOMAIN payments : Req(p)' = Req(p) /\ Outcome(p)' = Outcome(p)
        BY <2>1 DEF Req, Outcome
    <2>6. PaymentsOf("key")' \subseteq PaymentsOf("key") \cup {n}
        BY <2>1, <2>5 DEF PaymentsOf
    <2>7. \A p \in PaymentsOf("key")' :
            Outcome(p)' \in {"committed", "uncertain"} => p \in keyPayouts
        BY <2>2, <2>5, <2>6 DEF KeyInv, Outcome, PaymentsOf
    <2>8. \A p \in keyPayouts : Outcome(p)' # "open"
        BY <1>0, <2>5 DEF KeyInv
    <2>9. \A d \in Callers : Running(d)' =>
            Running(d) /\ handler'[d].req = handler[d].req /\ handler'[d].at = handler[d].at
        BY <2>3, <2>4 DEF Running
    <2> QED
        BY <2>1, <2>3, <2>7, <2>8, <2>9, KeyUncharged DEF KeyInv
<1>4. ASSUME NEW c \in Callers, NEW tx, NEW outcome \in {"committed", "rejected", "uncertain"},
             Settles(c, tx, outcome), Step(c)
      PROVE  KeyInv'
    <2>0. PICK p : p = handler[c].tx
        OBVIOUS
    <2>1. /\ p \in DOMAIN payments /\ p = Len(payments) /\ p \in Nat /\ payments \in Seq(Payment)
          /\ Running(c) /\ HoldsLock(c) /\ Outcome(p) = "open"
          /\ Req(p) = handler[c].req /\ At(p) = handler[c].at
        BY <1>4, <2>0, InHand DEF Settles, Core, TypeOK
    <2>2. \A d \in Callers : ~Running(d)'
        BY <1>4, <2>1, NobodyRuns DEF Settles
    <2>3. /\ Kept /\ DOMAIN payments' = DOMAIN payments /\ payments'[p].outcome = outcome
          /\ \A q \in DOMAIN payments : q # p => payments'[q] = payments[q]
        BY <1>4, <2>0, SettlesKeeps
    <2>4. \A q \in DOMAIN payments : /\ Req(q)' = Req(q) /\ At(q)' = At(q)
                                     /\ q # p => Outcome(q)' = Outcome(q)
        BY <2>3 DEF Kept, Req, At, Outcome
    <2>5. PaymentsOf("key")' = PaymentsOf("key") /\ Outcome(p)' = outcome
        BY <2>3, <2>4 DEF PaymentsOf, Outcome
    <2>6. p \notin keyPayouts /\ \A q \in keyPayouts : q \in DOMAIN payments /\ q # p
        BY <1>0, <2>1 DEF KeyInv
    <2>7. CASE Req(p).kind = "key" /\ keyPayouts' = keyPayouts \cup {p} /\ outcome # "rejected"
        <3>1. \A q \in keyPayouts : KeyWindow(q)' = KeyWindow(q)
            <4>1. \A q \in keyPayouts : q \in Nat /\ q < p
                BY <2>1, <2>6
            <4> SUFFICES ASSUME NEW q \in keyPayouts
                         PROVE  {r \in keyPayouts \cup {p} : r <= q /\ Req(r)'.who = Req(q)'.who
                                        /\ At(r)' > At(q)' - DAY} = KeyWindow(q)
                BY <2>7 DEF KeyWindow
            <4> QED
                BY <2>1, <2>4, <2>6, <4>1 DEF KeyWindow
        <3>2. PerDay[Req(p).who] # Never => Cardinality(KeyWindow(p)') <= PerDay[Req(p).who]
            <4> SUFFICES ASSUME PerDay[Req(p).who] # Never
                         PROVE  Cardinality(KeyWindow(p)') <= PerDay[Req(p).who]
                OBVIOUS
            <4> DEFINE S == KeyHits(Req(p).who, At(p))
            <4>1. Cardinality(S) < PerDay[Req(p).who]
                BY <2>1, <2>7 DEF KeyInv
            <4>2. IsFiniteSet(S) /\ Req(p).who \in Keys
                BY <2>1, <2>7, KeyFacts
            <4>3. PerDay[Req(p).who] \in Nat
                BY <4>2, LimitsAssumption
            <4>4. KeyWindow(p)' \subseteq S \cup {p}
                BY <2>1, <2>4, <2>6, <2>7 DEF KeyWindow, KeyHits
            <4> HIDE DEF S
            <4> QED
                BY <4>1, <4>2, <4>3, <4>4, OneMore
        <3>3. \A q \in keyPayouts' : PerDay[Req(q)'.who] # Never =>
                Cardinality(KeyWindow(q)') <= PerDay[Req(q)'.who]
            BY <2>1, <2>4, <2>6, <2>7, <3>1, <3>2 DEF KeyInv
        <3>4. \A q \in PaymentsOf("key") :
                Outcome(q)' \in {"committed", "uncertain"} => q \in keyPayouts'
            BY <2>4, <2>7 DEF KeyInv, PaymentsOf
        <3>5. p \in PaymentsOf("key") /\ keyPayouts \subseteq PaymentsOf("key")
            BY <2>1, <2>7 DEF KeyInv, PaymentsOf
        <3>6. \A q \in keyPayouts' : Outcome(q)' # "open"
            BY <2>4, <2>5, <2>6, <2>7 DEF KeyInv
        <3> QED
            BY <2>2, <2>5, <2>7, <3>3, <3>4, <3>5, <3>6 DEF KeyInv
    <2>8. CASE keyPayouts' = keyPayouts /\ (Req(p).kind = "key" => outcome = "rejected")
        <3>1. \A q \in PaymentsOf("key")' :
                Outcome(q)' \in {"committed", "uncertain"} => q \in keyPayouts
            BY <2>4, <2>5, <2>8 DEF KeyInv, PaymentsOf
        <3>2. \A q \in keyPayouts : Outcome(q)' # "open"
            BY <2>4, <2>6 DEF KeyInv
        <3> QED
            BY <2>2, <2>3, <2>8, <3>1, <3>2, KeyUncharged
    <2> QED
        BY <1>4, <2>0, <2>7, <2>8
           DEF Settles, recordClaim, recordKeyPayout, recordRedemption, tables
<1> QED
    BY <1>1, <1>2, <1>3, <1>4, RowSteps

(***************************************************************************)
(* A key is paid at most its per-day allowance in any day, counting what is*)
(* on the network: also what nobody could resolve or is being broadcast.   *)
(***************************************************************************)
THEOREM KeysAreLimited == Spec => []KeyLimitHolds
<1>1. Init => KeyInv
    BY DEF Init, KeyInv, PaymentsOf, Running, InFlight
<1>2. Spec => []KeyInv
    BY <1>1, KeyNext, CoreAlways, PTL DEF Spec
<1>3. ASSUME Core, FateInv, KeyInv PROVE KeyLimitHolds
    <2> DEFINE Window(p) == {q \in Accounted("key") :
                        q <= p /\ Req(q).who = Req(p).who /\ At(q) > At(p) - DAY}
    <2> SUFFICES ASSUME NEW p \in Accounted("key"), PerDay[Req(p).who] # Never
                 PROVE  Cardinality(Window(p)) <= PerDay[Req(p).who]
        BY DEF KeyLimitHolds
    <2>1. \A q \in Accounted("key") :
            q \in Nat /\ (q \in keyPayouts \/ (q = Len(payments) /\ Outcome(q) = "open"))
        BY <1>3, AccountedIs DEF KeyInv
    <2>2. p \in PaymentsOf("key") /\ Req(p).kind = "key" /\ p \in DOMAIN payments
        BY <1>3, AccountedIs DEF PaymentsOf
    <2>3. payments \in Seq(Payment) /\ keyPayouts \subseteq DOMAIN payments
        BY <1>3 DEF Core, TypeOK
    <2>4. CASE p \in keyPayouts
        <3>1. \A q \in Accounted("key") : q <= p => q \in keyPayouts
            BY <1>3, <2>1, <2>2, <2>3, <2>4 DEF KeyInv
        <3>2. Window(p) \subseteq KeyWindow(p) /\ KeyWindow(p) \subseteq DOMAIN payments
            BY <2>3, <3>1 DEF KeyWindow
        <3>3. IsFiniteSet(KeyWindow(p))
            BY <2>3, <3>2, FinitePayments
        <3>4. /\ Cardinality(Window(p)) <= Cardinality(KeyWindow(p))
              /\ Cardinality(Window(p)) \in Nat /\ Cardinality(KeyWindow(p)) \in Nat
            BY <3>2, <3>3, FS_Subset, FS_CardinalityType
        <3>5. Cardinality(KeyWindow(p)) <= PerDay[Req(p).who]
            BY <1>3, <2>4 DEF KeyInv
        <3>6. PerDay[Req(p).who] \in Nat
            <4>1. payments[p] \in Payment
                BY <2>2, <2>3
            <4>2. Req(p).who \in Keys
                BY <2>2, <4>1 DEF Payment, Req, Requests
            <4> QED
                BY <4>2, LimitsAssumption
        <3> QED
            BY <3>4, <3>5, <3>6
    <2>5. CASE p \notin keyPayouts
        <3>1. PICK c \in Callers : Running(c) /\ Req(p) = handler[c].req /\ At(p) = handler[c].at
            BY <1>3, <2>5, AccountedIs DEF KeyInv
        <3> DEFINE S == KeyHits(Req(p).who, At(p))
        <3>2. Cardinality(S) < PerDay[Req(p).who]
            BY <1>3, <2>2, <3>1 DEF KeyInv
        <3>3. IsFiniteSet(S) /\ Req(p).who \in Keys
            BY <1>3, <2>2, <3>1, KeyFacts
        <3>4. PerDay[Req(p).who] \in Nat
            BY <3>3, LimitsAssumption
        <3>5. Window(p) \subseteq S \cup {p}
            BY <2>1, <2>5 DEF KeyHits
        <3> HIDE DEF S, Window
        <3> QED
            BY <3>2, <3>3, <3>4, <3>5, OneMore
    <2> QED
        BY <2>4, <2>5
<1> QED
    BY <1>2, <1>3, CoreAlways, FateAlways, PTL

-----------------------------------------------------------------------------
(***************************************************************************)
(* A running redemption was admitted by the row as it stands, or the row   *)
(* was patched since: redemptions themselves cannot move under it.         *)
(***************************************************************************)
ClosedInv ==
    \A c \in Callers : Running(c) /\ handler[c].req.kind = "code" =>
        LET row == codes[handler[c].req.who] IN
        CodeRedeemable(row, handler[c].at) \/ row.updatedAt >= handler[c].at

\* A PATCH stamps the row with a time no running handler is ahead of.
LEMMA ClosedPatch == ASSUME Core, ClosedInv, NEW k \in Codes, updateCode(k) PROVE ClosedInv'
<1>1. UNCHANGED handler /\ codes \in [Codes -> CodeRow]
    BY DEF updateCode, Core, TypeOK
<1>2. \A j \in Codes : j # k => codes'[j] = codes[j]
    BY <1>1 DEF updateCode
<1>3. codes'[k].updatedAt = now
    BY <1>1 DEF updateCode, CodeRow
<1> SUFFICES ASSUME NEW c \in Callers, Running(c), handler[c].req.kind = "code"
             PROVE  \/ CodeRedeemable(codes'[handler[c].req.who], handler[c].at)
                    \/ codes'[handler[c].req.who].updatedAt >= handler[c].at
    BY <1>1 DEF ClosedInv, Running, CodeRedeemable
<1>4. handler[c].req.who \in Codes
    <2>1. handler[c].req \in Requests
        BY DEF Core, LockInv, Running, InFlight
    <2> QED
        BY <2>1 DEF Requests
<1>5. handler[c].at \in Nat /\ now \in Nat /\ handler[c].at <= now
    <2>1. handler[c] \in Handler /\ now \in Nat
        BY TimeAssumption DEF Core, TypeOK, Time
    <2>2. handler[c].at \in Nat
        BY <2>1, TimeAssumption DEF Handler, Time
    <2> QED
        BY <2>1, <2>2 DEF Core, LockInv
<1> QED
    BY <1>2, <1>3, <1>4, <1>5 DEF ClosedInv

\* Every step preserves ClosedInv.
LEMMA ClosedNext == ASSUME Core, ClosedInv, [Next]_vars PROVE ClosedInv'
<1>1. ASSUME NEW c \in Callers, Admit(c) PROVE ClosedInv'
    <2>1. codes' = codes /\ HoldsLock(c)
        BY <1>1 DEF Admit
    <2>2. /\ handler'[c].req = handler[c].req /\ handler'[c].at = now
          /\ \A d \in Callers : d # c => handler'[d] = handler[d]
        BY <1>1, Moves DEF Step
    <2>3. \A d \in Callers : Running(d)' => d = c
        BY <2>1, <2>2, OneRuns DEF Core, Running
    <2>4. handler[c].req.kind = "code" => CodeRedeemable(codes[handler[c].req.who], now)
        BY <1>1 DEF Admit, Admissible, checkCode
    <2> QED
        BY <2>1, <2>2, <2>3, <2>4 DEF ClosedInv, CodeRedeemable
<1>2. ASSUME NEW c \in Callers, NEW tx, NEW outcome, Settles(c, tx, outcome), Step(c)
      PROVE  ClosedInv'
    <2>1. \A d \in Callers : ~Running(d)'
        BY <1>2, InHand, NobodyRuns DEF Settles
    <2> QED
        BY <2>1 DEF ClosedInv
<1>3. ASSUME codes' = codes,
             \A d \in Callers : Running(d)' =>
                Running(d) /\ handler'[d].req = handler[d].req /\ handler'[d].at = handler[d].at
      PROVE  ClosedInv'
    BY <1>3 DEF ClosedInv, CodeRedeemable
<1>4. ASSUME NEW c \in Callers, Build(c) PROVE ClosedInv'
    <2>1. codes' = codes /\ Running(c)
        BY <1>4 DEF Build, Running, InFlight
    <2>2. /\ handler'[c].req = handler[c].req /\ handler'[c].at = handler[c].at
          /\ \A d \in Callers : d # c => handler'[d] = handler[d]
        BY <1>4, Moves DEF Step
    <2> QED
        BY <1>3, <2>1, <2>2 DEF Running
<1>5. ASSUME NEW c \in Callers,
             Call(c) \/ BroadcastAmbiguous(c) \/ Replay(c) \/ Refuse(c) \/ FailToBuild(c)
      PROVE  ClosedInv'
    <2>1. Quiet
        BY <1>5, AnswersQuietly, GoesOnQuietly
    <2>2. codes' = codes
        BY <1>5 DEF Call, BroadcastAmbiguous, Replay, Refuse, FailToBuild
    <2> QED
        BY <1>3, <2>1, <2>2 DEF Quiet
<1>6. ASSUME NEW c \in Callers, Call(c) \/ Step(c) PROVE ClosedInv'
    BY <1>1, <1>2, <1>4, <1>5, <1>6, StepCases
<1>7. CASE \/ \E p \in DOMAIN payments : Land(p)
           \/ \E k \in Keys : revokeApiKey(k)
           \/ Snapshot \/ Tick \/ UNCHANGED vars
    BY <1>3, <1>7 DEF Land, revokeApiKey, Snapshot, Tick, vars, Running
<1>8. CASE Crash
    <2>1. \A d \in Callers : ~Running(d)'
        BY <1>8 DEF Crash, Running, InFlight
    <2> QED
        BY <2>1 DEF ClosedInv
<1> QED
    BY <1>6, <1>7, <1>8, ClosedPatch DEF Next

\* Only a broadcast that settles adds a redemption, and it is of the payment in hand.
LEMMA OnlySettlesRedeem ==
    ASSUME Core, [Next]_vars, NEW k \in Codes, codes'[k].redemptions > codes[k].redemptions
    PROVE  \E c \in Callers : \E tx, outcome : Settles(c, tx, outcome)
<1>0. codes[k].redemptions \in Nat
    BY DEF Core, TypeOK, CodeRow
<1>1. codes' # codes
    BY <1>0
<1>2. ASSUME NEW j \in Codes, updateCode(j) PROVE FALSE
    <2>1. codes \in [Codes -> CodeRow] /\ codes[j] \in CodeRow
        BY DEF Core, TypeOK
    <2>2. codes'[k].redemptions = codes[k].redemptions
        BY <1>2, <2>1 DEF updateCode, CodeRow
    <2> QED
        BY <1>0, <2>2
<1>3. PICK c \in Callers : Call(c) \/ Step(c)
    BY <1>1, <1>2 DEF Next, Land, revokeApiKey, Snapshot, Crash, Tick, vars
<1> QED
    BY <1>1, <1>3, StepCases
       DEF Call, Admit, Replay, Refuse, FailToBuild, Build, BroadcastAmbiguous

(***************************************************************************)
(* A code's redemptions grow only by a payout that its row admits, or that *)
(* was already running when the row was patched.                           *)
(***************************************************************************)
THEOREM ClosedCodesStay == Spec => ClosedCodePaysOnlyInFlight
<1> DEFINE Step1 == \A k \in Codes : codes'[k].redemptions > codes[k].redemptions =>
            \E p \in redemptions' \ redemptions :
                /\ Req(p).who = k
                /\ \/ CodeRedeemable(codes[k], At(p))
                   \/ codes[k].updatedAt >= At(p)
<1>1. Init => ClosedInv
    BY DEF Init, ClosedInv, Running, InFlight
<1>2. Spec => []ClosedInv
    BY <1>1, ClosedNext, CoreAlways, PTL DEF Spec
<1>3. ASSUME Core, RedemptionInv, ClosedInv, [Next]_vars PROVE Step1
    <2> SUFFICES ASSUME NEW k \in Codes, codes'[k].redemptions > codes[k].redemptions
                 PROVE  \E p \in redemptions' \ redemptions :
                            /\ Req(p).who = k
                            /\ \/ CodeRedeemable(codes[k], At(p))
                               \/ codes[k].updatedAt >= At(p)
        OBVIOUS
    <2>0. PICK c \in Callers : \E tx, outcome : Settles(c, tx, outcome)
        BY <1>3, OnlySettlesRedeem
    <2>1. PICK tx, outcome : Settles(c, tx, outcome)
        BY <2>0
    <2>2. PICK p : p = handler[c].tx
        OBVIOUS
    <2>3. /\ Running(c) /\ p \in DOMAIN payments
          /\ Req(p) = handler[c].req /\ At(p) = handler[c].at
          /\ handler[c].req \in Requests /\ Outcome(p) = "open"
        BY <1>3, <2>1, <2>2, InHand DEF Settles
    <2>4. codes \in [Codes -> CodeRow] /\ codes[k].redemptions \in Nat
        BY <1>3 DEF Core, TypeOK, CodeRow
    <2>5. codes' # codes
        BY <2>4
    <2>6. Req(p).kind = "code" /\ recordRedemption(p)
        BY <2>1, <2>2, <2>5 DEF Settles, recordClaim, recordKeyPayout
    <2>7. Req(p).who \in Codes
        BY <2>3, <2>6 DEF Requests
    <2>8. Req(p).who = k
        <3>1. k # Req(p).who => codes'[k] = codes[k]
            BY <2>4, <2>6 DEF recordRedemption
        <3> QED
            BY <2>4, <3>1
    <2>9. p \in redemptions' /\ p \notin redemptions
        <3>1. \A q \in redemptions : ~ (Req(q).who = Req(p).who
                                        /\ Req(q).address = Req(p).address)
            BY <1>3, <2>3, <2>6 DEF RedemptionInv
        <3> QED
            BY <2>6, <3>1 DEF recordRedemption
    <2> QED
        BY <1>3, <2>3, <2>6, <2>8, <2>9 DEF ClosedInv
<1>4. RedemptionInv /\ ClosedInv /\ Core /\ [Next]_vars => [Step1]_vars
    BY <1>3
<1>5. Spec => []RedemptionInv
    BY CodesRedeemed
<1> QED
    BY <1>2, <1>4, <1>5, CoreAlways, PTL DEF Spec, ClosedCodePaysOnlyInFlight

-----------------------------------------------------------------------------
(***************************************************************************)
(* Claims and the budget.  Their rows are deleted after RETENTION, which no *)
(* UTC day that can still be asked about outlives.                         *)
(***************************************************************************)
\* A time lies within its UTC day.
LEMMA DayBounds ==
    ASSUME NEW t \in Int
    PROVE  utcDay(t) \in Int /\ DAY * utcDay(t) <= t /\ t < DAY * utcDay(t) + DAY
BY TimeAssumption DEF utcDay

\* Later times are on no earlier days.
LEMMA DayMonotone ==
    ASSUME NEW s \in Int, NEW t \in Int, s <= t
    PROVE  utcDay(s) <= utcDay(t)
<1> DEFINE m == utcDay(s)
           n == utcDay(t)
<1>1. m \in Int /\ n \in Int /\ DAY * m <= s /\ t < DAY * n + DAY /\ DAY \in Nat \ {0}
    BY DayBounds, TimeAssumption
<1> HIDE DEF m, n
<1>2. DAY * m < DAY * (n + 1)
    BY <1>1
<1>3. m < n + 1
    BY <1>1, <1>2
<1> QED
    BY <1>1, <1>3 DEF m, n

\* Times on one day are less than DAY apart.
LEMMA SameDay ==
    ASSUME NEW s \in Int, NEW t \in Int, utcDay(s) = utcDay(t)
    PROVE  t - s < DAY
BY DayBounds, TimeAssumption

\* A step that commits no public payment and admits none.
Untouched ==
    /\ Kept /\ Committed("public")' = Committed("public")
    /\ now' \in Nat /\ now' >= now
    /\ \A d \in Callers : Running(d)' =>
        Running(d) /\ handler'[d].req = handler[d].req /\ handler'[d].at = handler[d].at
    /\ \/ UNCHANGED <<claims, budget>>
       \/ now' = now /\ prune(now) /\ \A d \in Callers : ~Running(d)'

\* The end of a broadcast that pays: a public payment is committed.
Pays(c) ==
    /\ Step(c) /\ Settles(c, handler[c].tx, "committed")
    /\ Req(handler[c].tx).kind = "public"

\* A broadcast that ends any other way.
LEMMA SettlesUntouched ==
    ASSUME Core, NEW c \in Callers, Step(c), NEW outcome \in {"committed", "rejected", "uncertain"},
           Settles(c, IF outcome = "committed" THEN handler[c].tx ELSE 0, outcome)
    PROVE  Untouched \/ Pays(c)
<1> SUFFICES ASSUME ~Pays(c) PROVE Untouched
    OBVIOUS
<1>1. PICK p : p = handler[c].tx
    OBVIOUS
<1>2. /\ p \in DOMAIN payments /\ HoldsLock(c) /\ Outcome(p) = "open"
    BY <1>1, InHand DEF Settles
<1>3. \A d \in Callers : ~Running(d)'
    BY <1>2, NobodyRuns DEF Settles
<1>4. /\ Kept /\ DOMAIN payments' = DOMAIN payments /\ payments'[p].outcome = outcome
      /\ \A q \in DOMAIN payments : q # p => payments'[q] = payments[q]
    BY <1>1, SettlesKeeps
<1>5. \A q \in DOMAIN payments : Req(q)' = Req(q) /\ (q # p => Outcome(q)' = Outcome(q))
    BY <1>4 DEF Kept, Req, Outcome
<1>6. outcome = "committed" => Req(p).kind # "public"
    BY <1>1 DEF Pays
<1>7. Committed("public")' = Committed("public")
    BY <1>2, <1>4, <1>5, <1>6 DEF Committed, PaymentsOf, Outcome
<1>8. UNCHANGED <<claims, budget>>
    BY <1>1, <1>6 DEF Settles, recordKeyPayout, recordRedemption, tables
<1>9. now' = now /\ now \in Nat
    BY TimeAssumption DEF Settles, Core, TypeOK, Time
<1> QED
    BY <1>3, <1>4, <1>7, <1>8, <1>9 DEF Untouched

\* The other steps of a call.
LEMMA CallUntouched ==
    ASSUME Core, NEW c \in Callers, Call(c) \/ Step(c), ~Admit(c)
    PROVE  Untouched \/ Pays(c)
<1>0. now \in Nat
    BY TimeAssumption DEF Core, TypeOK, Time
<1>1. CASE Replay(c) \/ Refuse(c) \/ FailToBuild(c)
    <2>1. Quiet /\ UNCHANGED <<now, payments>>
        BY <1>1, AnswersQuietly DEF Replay, Refuse, FailToBuild
    <2>2. UNCHANGED <<claims, budget>> \/ prune(now)
        BY <1>1 DEF Replay, Refuse, FailToBuild, tables
    <2>3. \A d \in Callers : ~Running(d)'
        <3>1. HoldsLock(c) /\ Step(c) /\ \E tx : Answer(c, tx)
            BY <1>1 DEF Step, Replay, Refuse, FailToBuild, Core, LockInv, Running, InFlight
        <3> QED
            BY <3>1, NobodyRuns
    <2> QED
        BY <1>0, <2>1, <2>2, <2>3 DEF Untouched, Quiet, Committed, PaymentsOf, Req, Outcome
<1>2. CASE Call(c) \/ BroadcastAmbiguous(c)
    <2>1. Quiet /\ UNCHANGED <<now, payments, claims, budget>>
        BY <1>2, GoesOnQuietly DEF Call, BroadcastAmbiguous, tables
    <2> QED
        BY <1>0, <2>1 DEF Untouched, Quiet, Committed, PaymentsOf, Req, Outcome
<1>3. CASE Build(c)
    <2> DEFINE n == Len(payments) + 1
    <2>1. /\ Kept /\ DOMAIN payments' = DOMAIN payments \cup {n}
          /\ \A p \in DOMAIN payments : payments'[p] = payments[p]
          /\ payments'[n] = [req |-> handler[c].req, at |-> handler[c].at, outcome |-> "open"]
        BY <1>3, BuildKeeps
    <2>2. payments'[n].outcome # "committed"
        BY <2>1
    <2>3. Running(c) /\ UNCHANGED <<now, claims, budget>>
        BY <1>3 DEF Build, Running, InFlight, tables
    <2>4. /\ handler'[c].req = handler[c].req /\ handler'[c].at = handler[c].at
          /\ \A d \in Callers : d # c => handler'[d] = handler[d]
        BY <1>3, Moves DEF Step
    <2> HIDE DEF n
    <2>5. Committed("public")' = Committed("public")
        BY <2>1, <2>2 DEF Committed, PaymentsOf, Req, Outcome
    <2> QED
        BY <1>0, <2>1, <2>3, <2>4, <2>5 DEF Untouched, Running
<1> QED
    BY <1>1, <1>2, <1>3, StepCases, SettlesUntouched

\* Every step leaves the public payments alone, admits one or commits one.
LEMMA MoneySteps ==
    ASSUME Core, [Next]_vars
    PROVE  Untouched \/ \E c \in Callers : Admit(c) \/ Pays(c)
<1>0. now \in Nat
    BY TimeAssumption DEF Core, TypeOK, Time
<1>1. CASE \/ \E p \in DOMAIN payments : Land(p)
           \/ \E k \in Keys : revokeApiKey(k)
           \/ \E k \in Codes : updateCode(k)
           \/ UNCHANGED vars
    <2>1. UNCHANGED <<now, handler, payments, claims, budget>>
        BY <1>1 DEF Land, revokeApiKey, updateCode, vars, tables
    <2> QED
        BY <1>0, <2>1 DEF Untouched, Kept, Running, Committed, PaymentsOf, Req, Outcome
<1>2. CASE Tick
    <2>1. now' = now + 1 /\ UNCHANGED <<handler, payments, claims, budget>>
        BY <1>2 DEF Tick, tables
    <2> QED
        BY <1>0, <2>1 DEF Untouched, Kept, Running, Committed, PaymentsOf, Req, Outcome
<1>3. CASE Snapshot
    <2>1. UNCHANGED <<now, handler, payments>> /\ prune(now) /\ queue = <<>>
        BY <1>3 DEF Snapshot
    <2>2. \A d \in Callers : ~Running(d)'
        BY <2>1 DEF Core, LockInv, HoldsLock, Running
    <2> QED
        BY <1>0, <2>1, <2>2 DEF Untouched, Kept, Committed, PaymentsOf, Req, Outcome
<1>4. CASE Crash
    <2>1. /\ UNCHANGED <<now, claims, budget>>
          /\ \A d \in Callers : ~Running(d)'
        BY <1>4 DEF Crash, Running, InFlight, tables
    <2>2. Quiet
        BY <1>4, CrashQuietly
    <2> QED
        BY <1>0, <2>1, <2>2 DEF Untouched, Quiet, Kept, Committed, PaymentsOf, Req, Outcome
<1> QED
    BY <1>1, <1>2, <1>3, <1>4, CallUntouched DEF Next

\* What committing a public payment does to the payments and the rows.
LEMMA PaysMoves ==
    ASSUME Core, NEW c \in Callers, Pays(c)
    PROVE  LET p == handler[c].tx IN
           /\ p \in DOMAIN payments /\ p \notin Committed("public") /\ Running(c)
           /\ Req(p) = handler[c].req /\ At(p) = handler[c].at /\ At(p) \in Time
           /\ Req(p).kind = "public"
           /\ Committed("public")' = Committed("public") \cup {p}
           /\ \A q \in DOMAIN payments : payments'[q].req = Req(q) /\ payments'[q].at = At(q)
           /\ now' = now /\ \A d \in Callers : ~Running(d)'
           /\ recordClaim(p)
<1>1. PICK p : p = handler[c].tx
    OBVIOUS
<1>2. /\ p \in DOMAIN payments /\ HoldsLock(c) /\ Outcome(p) = "open" /\ Running(c)
      /\ Req(p) = handler[c].req /\ At(p) = handler[c].at
    BY <1>1, InHand DEF Pays, Settles
<1>3. \A d \in Callers : ~Running(d)'
    BY <1>2, NobodyRuns DEF Pays, Settles
<1>4. /\ Kept /\ DOMAIN payments' = DOMAIN payments /\ payments'[p].outcome = "committed"
      /\ \A q \in DOMAIN payments : q # p => payments'[q] = payments[q]
    BY <1>1, SettlesKeeps DEF Pays
<1>5. At(p) \in Time
    <2>1. payments[p] \in Payment
        BY <1>2 DEF Core, TypeOK
    <2> QED
        BY <2>1 DEF Payment, At
<1>6. Req(p).kind = "public" /\ now' = now /\ recordClaim(p)
    BY <1>1 DEF Pays, Settles, tables
<1>7. \A q \in DOMAIN payments : payments'[q].req = Req(q) /\ payments'[q].at = At(q)
    BY <1>4 DEF Kept, Req, At
<1>8. Committed("public")' = Committed("public") \cup {p}
    BY <1>2, <1>4, <1>6, <1>7 DEF Committed, PaymentsOf, Req, Outcome
<1>9. p \notin Committed("public")
    BY <1>2 DEF Committed
<1> QED
    BY <1>1, <1>2, <1>3, <1>5, <1>6, <1>7, <1>8, <1>9

\* Requests and times of committed payments do not change, and are of their types.
LEMMA CommittedKept ==
    ASSUME Core, Kept, NEW p \in Committed("public")
    PROVE  /\ payments'[p].req = Req(p) /\ payments'[p].at = At(p)
           /\ At(p) \in Time /\ At(p) \in Nat
<1>1. p \in DOMAIN payments /\ payments[p] \in Payment
    BY DEF Committed, PaymentsOf, Core, TypeOK
<1> QED
    BY <1>1, TimeAssumption DEF Kept, Req, At, Payment, Time

(***************************************************************************)
(* One committed payment per address and day: the claim row that decides is*)
(* never deleted while its day can be asked about, and nothing is committed*)
(* between the check and the row but the checked payment itself.           *)
(***************************************************************************)
SamePlace(p, q) ==
    Req(p).address = Req(q).address /\ utcDay(At(p)) = utcDay(At(q))

OnceInv == ClaimInv /\ \A p, q \in Committed("public") : SamePlace(p, q) => p = q

\* Every step preserves OnceInv.
LEMMA OnceNext == ASSUME Core, OnceInv, [Next]_vars PROVE OnceInv'
<1>0. now \in Nat /\ RETENTION \in Nat /\ RETENTION >= DAY /\ DAY \in Nat \ {0}
    BY TimeAssumption DEF Core, TypeOK, Time
<1>1. ASSUME Untouched PROVE OnceInv'
    <2>1. \A p \in Committed("public") : Req(p)' = Req(p) /\ At(p)' = At(p) /\ At(p) \in Nat
        BY <1>1, CommittedKept DEF Untouched, Req, At
    <2>2. Committed("public")' = Committed("public") /\ now' >= now /\ now' \in Nat
        BY <1>1 DEF Untouched
    <2>3. claims' \subseteq claims
          /\ \A p \in claims : At(p) >= now' - RETENTION => p \in claims'
        BY <1>1 DEF Untouched, prune
    <2>4. \A p \in Committed("public") : At(p) >= now' - RETENTION => p \in claims'
        BY <1>0, <2>1, <2>2, <2>3 DEF OnceInv, ClaimInv
    <2>5. \A d \in Callers : Running(d)' =>
            Running(d) /\ handler'[d].req = handler[d].req /\ handler'[d].at = handler[d].at
        BY <1>1 DEF Untouched
    <2>6. ClaimInv'
        BY <2>1, <2>2, <2>3, <2>4, <2>5 DEF OnceInv, ClaimInv, utcDay
    <2> QED
        BY <2>1, <2>2, <2>6 DEF OnceInv, SamePlace, utcDay
<1>2. ASSUME NEW c \in Callers, Admit(c) PROVE OnceInv'
    <2>1. UNCHANGED <<now, payments>> /\ prune(now) /\ HoldsLock(c)
        BY <1>2 DEF Admit
    <2>2. /\ handler'[c].req = handler[c].req /\ handler'[c].at = now
          /\ \A d \in Callers : d # c => handler'[d] = handler[d]
        BY <1>2, Moves DEF Step
    <2>3. \A d \in Callers : Running(d)' => d = c
        BY <2>1, <2>2, OneRuns DEF Core, Running
    <2>4. \A p \in DOMAIN payments : Req(p)' = Req(p) /\ At(p)' = At(p) /\ Outcome(p)' = Outcome(p)
        BY <2>1 DEF Req, At, Outcome
    <2>5. Committed("public")' = Committed("public")
          /\ \A p \in Committed("public") : p \in DOMAIN payments /\ At(p) \in Nat
        BY <2>1, <2>4, CommittedPayments DEF Committed, PaymentsOf
    <2>6. /\ claims' \subseteq claims
          /\ \A p \in Committed("public") : At(p) >= now - RETENTION => p \in claims'
        BY <2>1 DEF prune, OnceInv, ClaimInv
    <2>7. handler[c].req.kind = "public" =>
            \A p \in Committed("public") :
                Req(p).address = handler[c].req.address => utcDay(At(p)) # utcDay(now)
        <3> SUFFICES ASSUME handler[c].req.kind = "public", NEW p \in Committed("public"),
                            Req(p).address = handler[c].req.address,
                            utcDay(At(p)) = utcDay(now)
                     PROVE  FALSE
            OBVIOUS
        <3>1. PriorClaims(handler[c].req.address, now) = {}
            BY <1>2 DEF Admit, Admissible, PublicAllowed
        <3>2. now - At(p) < DAY
            BY <1>0, <2>5, SameDay
        <3>3. p \in claims
            BY <1>0, <2>5, <3>2 DEF OnceInv, ClaimInv
        <3> QED
            BY <3>1, <3>3 DEF PriorClaims
    <2>8. ClaimInv'
        BY <2>1, <2>2, <2>3, <2>4, <2>5, <2>6, <2>7 DEF OnceInv, ClaimInv, utcDay
    <2> QED
        BY <2>4, <2>5, <2>8 DEF OnceInv, SamePlace, utcDay
<1>3. ASSUME NEW c \in Callers, Pays(c) PROVE OnceInv'
    <2>0. PICK p : p = handler[c].tx
        OBVIOUS
    <2>1. /\ p \in DOMAIN payments /\ p \notin Committed("public") /\ Running(c)
          /\ Req(p) = handler[c].req /\ At(p) = handler[c].at /\ Req(p).kind = "public"
          /\ Committed("public")' = Committed("public") \cup {p}
          /\ \A q \in DOMAIN payments : Req(q)' = Req(q) /\ At(q)' = At(q)
          /\ now' = now /\ \A d \in Callers : ~Running(d)'
          /\ recordClaim(p)
        BY <1>3, <2>0, PaysMoves DEF Req, At
    <2>2. \A q \in Committed("public") : q \in DOMAIN payments
        BY DEF Committed, PaymentsOf
    <2>3. \A q \in Committed("public") : ~SamePlace(p, q)
        BY <2>1 DEF OnceInv, ClaimInv, SamePlace
    <2>4. claims' = claims \cup {p}
        <3>1. PriorClaims(Req(p).address, At(p)) = {}
            BY <2>3 DEF OnceInv, ClaimInv, PriorClaims, SamePlace
        <3> QED
            BY <2>1, <3>1 DEF recordClaim
    <2>5. ClaimInv'
        BY <2>1, <2>2, <2>4 DEF OnceInv, ClaimInv
    <2> QED
        BY <2>1, <2>2, <2>3, <2>5 DEF OnceInv, SamePlace, utcDay
<1> QED
    BY <1>1, <1>2, <1>3, MoneySteps

(***************************************************************************)
(* Two public payments to one address on one UTC day are on the network    *)
(* only if the faucet never learnt the fate of one of them.                *)
(***************************************************************************)
THEOREM PaidTwiceOnlyUnresolved == Spec => []TwiceOnlyWhenUnresolved
<1>1. Init => OnceInv
    BY DEF Init, OnceInv, ClaimInv, Committed, PaymentsOf, Running, InFlight
<1>2. Spec => []OnceInv
    BY <1>1, OnceNext, CoreAlways, PTL DEF Spec
<1>3. OnceInv => TwiceOnlyWhenUnresolved
    BY DEF OnceInv, SamePlace, TwiceOnlyWhenUnresolved, Committed
<1> QED
    BY <1>2, <1>3, PTL

(***************************************************************************)
(* The budget of a day is what was committed on it, as long as its row     *)
(* lives, and what was committed never exceeds the daily budget.           *)
(***************************************************************************)
SpendInv == BudgetInv /\ SpendWithinBudget

\* The payments of a day can be counted.
LEMMA CommittedFinite ==
    ASSUME Core, NEW d
    PROVE  IsFiniteSet(CommittedOn(d)) /\ Cardinality(CommittedOn(d)) \in Nat
<1>1. CommittedOn(d) \subseteq DOMAIN payments /\ payments \in Seq(Payment)
    BY DEF CommittedOn, Committed, PaymentsOf, Core, TypeOK
<1> QED
    BY <1>1, FinitePayments

\* Every step preserves SpendInv.
LEMMA SpendNext == ASSUME Core, SpendInv, [Next]_vars PROVE SpendInv'
<1>0. /\ now \in Nat /\ RETENTION \in Nat /\ PayoutSats \in Nat /\ DailyBudget \in Nat
      /\ budget \in [Days -> Nat]
    BY TimeAssumption, LimitsAssumption DEF Core, TypeOK, Time
<1>d. \A d \in Days : d \in Int
    BY DayType DEF Days
<1>a. SpendWithinBudget <=>
        \A d \in Days : PayoutSats * Cardinality(CommittedOn(d)) <= DailyBudget
    BY DEF SpendWithinBudget, CommittedOn
<1>b. SpendWithinBudget' <=>
        \A d \in Days : PayoutSats * Cardinality(CommittedOn(d)') <= DailyBudget
    BY DEF SpendWithinBudget, CommittedOn
<1>c. \A d \in Callers : Running(d) => utcDay(handler[d].at) \in Days
    BY DayType DEF Core, TypeOK, Handler
<1>1. ASSUME Untouched PROVE SpendInv'
    <2>1. \A p \in Committed("public") : At(p)' = At(p)
        BY <1>1, CommittedKept DEF Untouched, At
    <2>2. Committed("public")' = Committed("public") /\ now' >= now /\ now' \in Nat
        BY <1>1 DEF Untouched
    <2>3. \A d : CommittedOn(d)' = CommittedOn(d)
        BY <2>1, <2>2 DEF CommittedOn, utcDay
    <2>4. utcDay(now - RETENTION) <= utcDay(now' - RETENTION)
          /\ utcDay(now - RETENTION) \in Int /\ utcDay(now' - RETENTION) \in Int
        BY <1>0, <2>2, DayMonotone, DayBounds
    <2>5. \A d \in Days : d >= utcDay(now' - RETENTION) => budget'[d] = budget[d]
        <3>1. CASE UNCHANGED <<claims, budget>>
            BY <3>1
        <3>2. CASE now' = now /\ prune(now)
            BY <1>d, <2>4, <3>2 DEF prune
        <3> QED
            BY <1>1, <3>1, <3>2 DEF Untouched
    <2>6. \A d \in Days : d >= utcDay(now' - RETENTION) =>
            budget'[d] = PayoutSats * Cardinality(CommittedOn(d))
        BY <1>d, <2>4, <2>5 DEF SpendInv, BudgetInv
    <2>7. \A d \in Callers : Running(d)' =>
            /\ Running(d) /\ handler'[d].req = handler[d].req /\ handler'[d].at = handler[d].at
            /\ budget' = budget
        BY <1>1 DEF Untouched
    <2>8. BudgetInv'
        BY <2>3, <2>6, <2>7 DEF SpendInv, BudgetInv, utcDay
    <2> QED
        BY <1>a, <1>b, <2>3, <2>8 DEF SpendInv
<1>2. ASSUME NEW c \in Callers, Admit(c) PROVE SpendInv'
    <2>1. UNCHANGED <<now, payments>> /\ prune(now) /\ HoldsLock(c)
        BY <1>2 DEF Admit
    <2>2. /\ handler'[c].req = handler[c].req /\ handler'[c].at = now
          /\ \A d \in Callers : d # c => handler'[d] = handler[d]
        BY <1>2, Moves DEF Step
    <2>3. \A d \in Callers : Running(d)' => d = c
        BY <2>1, <2>2, OneRuns DEF Core, Running
    <2>4. \A d : CommittedOn(d)' = CommittedOn(d)
        BY <2>1 DEF CommittedOn, Committed, PaymentsOf, Req, At, Outcome
    <2>5. \A d \in Days : d >= utcDay(now - RETENTION) => budget'[d] = budget[d]
        <3>1. utcDay(now - RETENTION) \in Int
            BY <1>0, DayBounds
        <3> QED
            BY <1>d, <2>1, <3>1 DEF prune
    <2>6. utcDay(now) \in Days /\ utcDay(now) >= utcDay(now - RETENTION)
        BY <1>0, DayType, DayMonotone DEF Core, TypeOK
    <2>7. \A d \in Days : d >= utcDay(now - RETENTION) =>
            budget'[d] = PayoutSats * Cardinality(CommittedOn(d))
        BY <2>5 DEF SpendInv, BudgetInv
    <2>8. handler[c].req.kind = "public" =>
            budget'[utcDay(now)] + PayoutSats <= DailyBudget
        BY <1>2, <2>5, <2>6 DEF Admit, Admissible, PublicAllowed
    <2>9. BudgetInv'
        BY <2>1, <2>2, <2>3, <2>4, <2>6, <2>7, <2>8 DEF BudgetInv, utcDay
    <2> QED
        BY <1>a, <1>b, <2>4, <2>9 DEF SpendInv
<1>3. ASSUME NEW c \in Callers, Pays(c) PROVE SpendInv'
    <2>0. PICK p : p = handler[c].tx
        OBVIOUS
    <2>1. /\ p \in DOMAIN payments /\ p \notin Committed("public") /\ Running(c)
          /\ Req(p) = handler[c].req /\ At(p) = handler[c].at /\ Req(p).kind = "public"
          /\ Committed("public")' = Committed("public") \cup {p}
          /\ \A q \in DOMAIN payments : At(q)' = At(q)
          /\ now' = now /\ \A d \in Callers : ~Running(d)'
          /\ recordClaim(p)
        BY <1>3, <2>0, PaysMoves DEF At
    <2>a. PICK today \in Days : today = utcDay(At(p))
        BY <1>c, <2>1
    <2>2. budget' = [budget EXCEPT ![today] = @ + PayoutSats]
        BY <2>1, <2>a DEF recordClaim
    <2>3. /\ budget[today] = PayoutSats * Cardinality(CommittedOn(today))
          /\ budget[today] + PayoutSats <= DailyBudget
        BY <2>1, <2>a DEF SpendInv, BudgetInv
    <2>4. \A q \in Committed("public") : q \in DOMAIN payments
        BY DEF Committed, PaymentsOf
    <2>5. \A d \in Days : d # today => CommittedOn(d)' = CommittedOn(d)
        BY <2>1, <2>4, <2>a DEF CommittedOn, utcDay
    <2>6. CommittedOn(today)' = CommittedOn(today) \cup {p} /\ p \notin CommittedOn(today)
        BY <2>1, <2>4, <2>a DEF CommittedOn, utcDay
    <2>7. /\ Cardinality(CommittedOn(today)') = Cardinality(CommittedOn(today)) + 1
          /\ Cardinality(CommittedOn(today)) \in Nat
        BY <2>6, CommittedFinite, FS_AddElement
    <2>8. PayoutSats * (Cardinality(CommittedOn(today)) + 1)
            = PayoutSats * Cardinality(CommittedOn(today)) + PayoutSats
        BY <1>0, <2>7
    <2>9. /\ budget'[today] = PayoutSats * Cardinality(CommittedOn(today)')
          /\ budget'[today] <= DailyBudget
          /\ \A d \in Days : d # today => budget'[d] = budget[d]
        BY <1>0, <2>2, <2>3, <2>7, <2>8
    <2>10. BudgetInv'
        BY <2>1, <2>5, <2>9 DEF SpendInv, BudgetInv
    <2> QED
        BY <1>a, <1>b, <2>5, <2>9, <2>10 DEF SpendInv
<1> QED
    BY <1>1, <1>2, <1>3, MoneySteps

(***************************************************************************)
(* The public payouts committed for a UTC day never exceed its budget, over*)
(* all the days there ever were, rows pruned or not.                       *)
(***************************************************************************)
THEOREM SpendIsBounded == Spec => []SpendWithinBudget
<1>1. ASSUME Init PROVE SpendInv
    <2>1. \A d : CommittedOn(d) = {}
        BY <1>1 DEF Init, CommittedOn, Committed, PaymentsOf
    <2>2. \A d : Cardinality(CommittedOn(d)) = 0
        BY <2>1, FS_EmptySet
    <2>3. \A d \in Callers : ~Running(d)
        BY <1>1 DEF Init, Running, InFlight
    <2>4. PayoutSats * 0 = 0 /\ 0 <= DailyBudget
        BY LimitsAssumption
    <2>5. BudgetInv
        BY <1>1, <2>2, <2>3, <2>4 DEF Init, BudgetInv
    <2> QED
        BY <2>2, <2>4, <2>5 DEF SpendInv, SpendWithinBudget, CommittedOn
<1>2. Spec => []SpendInv
    BY <1>1, SpendNext, CoreAlways, PTL DEF Spec
<1>3. SpendInv => SpendWithinBudget
    BY DEF SpendInv
<1> QED
    BY <1>2, <1>3, PTL
=============================================================================
