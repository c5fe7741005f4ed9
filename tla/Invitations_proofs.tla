------------------------- MODULE Invitations_proofs -------------------------
(***************************************************************************)
(* The inventory keeps its promise, its keys and its books for any number  *)
(* of devices, vouchers, evictions and whatever the durations.             *)
(***************************************************************************)
EXTENDS Invitations, FiniteSetTheorems, TLAPS

(***************************************************************************)
(* The strengthening.  First what an operation under way may rely on: the  *)
(* rows its loop has still to visit are in the state it selected them for. *)
(***************************************************************************)
Selected ==
    /\ phase \in {"checking", "opening"} => todo \subseteq In({"available"})
    /\ phase = "recycling" => \A v \in todo : Lapsed(v)
    /\ phase \in {"chainlocks", "resending"} =>
            todo \subseteq In({"broadcast_unknown", "awaiting_chainlock"})
    /\ phase \in {"resending", "minting"} => state[hand] = "broadcast_unknown"
    /\ phase = "resending" => hand \notin todo

\* The vouchers opened for a request are reserved for its device since its "now".
Opened ==
    /\ phase \notin {"checking", "opening"} => got = {}
    /\ \A v \in got : state[v] = "issued" /\ device[v] = req.device /\ issued[v] = hAge

\* An answer of Platform may be old, but not older than the operation.
Answers ==
    phase = "opening" => \A v \in Vouchers :
        /\ answers[v] = "yes" => identity[v] # None
        /\ answers[v] = "no" => identity[v] = None \/ identity[v] <= hAge

\* A reservation its holder counts on is the row's, and not the younger of the two.
Reserved ==
    \A v \in Vouchers, d \in Devices :
        (told[v][d] # None /\ told[v][d] < TTL) =>
            state[v] = "issued" /\ device[v] = d /\ issued[v] <= told[v][d]

Final == \A v \in In({"available", "issued"}) : net[v] = "locked"

Unminted == \A v \in In({"absent"}) : net[v] = None

\* A key is on file as long as its asset lock may still land.
Keyed ==
    \A v \in Vouchers :
        (net[v] \in {"out", "mempool", "locked"} /\ identity[v] = None) => sealed[v] # None

IInv == TypeOK /\ Selected /\ Opened /\ Answers /\ Reserved /\ Final /\ Unminted /\ Keyed
        /\ ReadyIsBooked

-----------------------------------------------------------------------------
(***************************************************************************)
(* Types, in the three groups the steps leave alone one by one.            *)
(***************************************************************************)
RowOK ==
    /\ state \in [Vouchers -> States]
    /\ device \in [Vouchers -> Devices \cup {None}]
    /\ issued \in [Vouchers -> 0 .. IssuedCap \cup {None}]
    /\ \A v \in Vouchers : state[v] = "issued" => device[v] # None /\ issued[v] # None
    /\ sealed \in [Vouchers -> {"current", "old", None}]
    /\ booked \in [Vouchers -> {"owned", "locked", None}]

OpOK ==
    /\ phase \in Phases
    /\ hAge \in 0 .. HANDLER
    /\ req \in Requests \cup {None}
    /\ phase \in {"checking", "opening"} => req \in Requests
    /\ todo \subseteq Vouchers
    /\ hand \in Vouchers \cup {None}
    /\ phase \in {"resending", "minting"} => hand # None
    /\ answers \in [Vouchers -> {"yes", "no", "down", None}]
    /\ down \in BOOLEAN
    /\ got \subseteq Vouchers

WorldOK ==
    /\ hits \in [Signals -> 0 .. HitCap \cup {None}]
    /\ net \in [Vouchers -> {"out", "mempool", "locked", "dead", None}]
    /\ identity \in [Vouchers -> 0 .. IdentityCap \cup {None}]
    /\ told \in [Vouchers -> [Devices -> 0 .. ToldCap \cup {None}]]
    /\ restarts \in 0 .. MaxRestarts

\* The groups are the whole.
LEMMA TypeParts == TypeOK <=> RowOK /\ OpOK /\ WorldOK
  BY DEF TypeOK, RowOK, OpOK, WorldOK

\* The ages told apart reach as far as an operation lasts.
LEMMA Ranges ==
    /\ HANDLER \in Nat /\ TTL \in Nat /\ WINDOW \in Nat /\ HANDLER < TTL
    /\ IssuedCap = TTL /\ IdentityCap = HANDLER + 1
    /\ HitCap \in Nat /\ HANDLER <= HitCap
    /\ ToldCap \in Nat /\ TTL <= ToldCap /\ HANDLER <= ToldCap
  BY InvitationsAssumption
     DEF InvitationsAssumption, IssuedCap, IdentityCap, HitCap, ToldCap, Larger

\* None is nothing else that is stored or asked.
LEMMA NoneApart ==
    /\ None \notin Int /\ None \notin Devices
    /\ None \notin {"current", "old", "owned", "locked", "yes", "no", "down",
                    "out", "mempool", "dead"}
  BY InvitationsAssumption DEF InvitationsAssumption

\* An age that grows stays in its range.
LEMMA OlderTyped ==
    ASSUME NEW cap \in Nat, NEW age \in 0 .. cap \cup {None}
    PROVE  Older(age, cap) \in 0 .. cap \cup {None}
  BY NoneApart DEF Older

\* Pruning drops hits and adds none.
LEMMA PruneTyped ==
    ASSUME WorldOK
    PROVE  prune \in [Signals -> 0 .. HitCap \cup {None}]
  BY DEF WorldOK, prune

\* The operation's locals when it is over.
LEMMA DoneTyped ==
    ASSUME Done
    PROVE  OpOK'
  <1>1. 0 \in 0 .. HANDLER
    BY Ranges
  <1>2. /\ phase' = "idle" /\ hAge' = 0 /\ req' = None
        /\ todo' = {} /\ hand' = None /\ got' = {} /\ down' = FALSE
        /\ answers' = [v \in Vouchers |-> None]
    BY DEF Done
  <1>3. answers' \in [Vouchers -> {"yes", "no", "down", None}]
    BY <1>2
  <1> QED BY <1>1, <1>2, <1>3 DEF OpOK, Phases

\* A batch consists of rows it was selected from.
LEMMA OldestIsPart ==
    ASSUME NEW S, NEW n, NEW T \in Oldest(S, n)
    PROVE  T \subseteq S
  BY DEF Oldest

\* Every step keeps the rows' types,
LEMMA RowStep ==
    ASSUME TypeOK, [Next]_vars
    PROVE  RowOK'
  <1> USE DEF RowOK, States
  <1>1. ASSUME NEW r \in Requests, Replay(r)
        PROVE  RowOK'
    BY <1>1, TypeParts DEF Replay, Recall, Prior, row, op, outside, Locals, Done
  <1>2. ASSUME NEW r \in Requests, Refuse(r)
        PROVE  RowOK'
    BY <1>2, TypeParts DEF Refuse, row, op, outside, Locals, Done
  <1>3. ASSUME NEW r \in Requests, BeginIssue(r)
        PROVE  RowOK'
    BY <1>3, TypeParts DEF BeginIssue, row, op, outside, Locals, Done
  <1>4. CASE CheckClaims
    BY <1>4, TypeParts DEF CheckClaims, PlatformSays, row, op, outside, Locals, Done
  <1>5. CASE Open
    <2>1. phase = "opening" /\ req \in Requests /\ hAge \in 0 .. IssuedCap
      BY <1>5, TypeParts, Ranges DEF Open, OpOK
    <2>2. req.device \in Devices
      BY <2>1 DEF Requests
    <2>3. PICK v \in todo : Visit(v)
      BY <1>5 DEF Open
    <2>4. v \in Vouchers /\ booked' = booked
      BY <1>5, <2>3, TypeParts DEF Open, OpOK
    <2> QED BY <2>1, <2>2, <2>3, <2>4, TypeParts, NoneApart DEF Visit, Opens
  <1>6. CASE BeginMaintain
    BY <1>6, TypeParts DEF BeginMaintain, row, op, outside, Locals, Done
  <1>7. CASE Recycle
    BY <1>7, TypeParts DEF Recycle, Return, PlatformSays, row, op, outside, Locals, Done
  <1>8. CASE RecycleEnds
    BY <1>8, TypeParts DEF RecycleEnds, row, op, outside, Locals, Done
  <1>9. CASE FollowUp
    BY <1>9, TypeParts DEF FollowUp, StillWaiting, Ready, Resend, row, op, outside, Locals, Done
  <1>10. CASE FollowUpEnds
    BY <1>10, TypeParts DEF FollowUpEnds, row, op, outside, Locals, Done
  <1>11. ASSUME NEW v \in Vouchers, Accepted(v)
        PROVE  RowOK'
    BY <1>11, TypeParts DEF Accepted, InHand, Proceed, row, op, outside, Locals, Done
  <1>12. ASSUME NEW v \in Vouchers, Uncertain(v)
        PROVE  RowOK'
    BY <1>12, TypeParts DEF Uncertain, InHand, Proceed, row, op, outside, Locals, Done
  <1>13. ASSUME NEW v \in Vouchers, Rejected(v)
        PROVE  RowOK'
    BY <1>13, TypeParts DEF Rejected, InHand, Proceed, row, op, outside, Locals, Done
  <1>14. CASE Mint
    BY <1>14, TypeParts DEF Mint, Fresh, row, op, outside, Locals, Done
  <1>15. CASE RefillEnds
    BY <1>15, TypeParts DEF RefillEnds, row, op, outside, Locals, Done
  <1>16. CASE Crash
    BY <1>16, TypeParts DEF Crash, row, op, outside, Locals, Done
  <1>17. CASE Rotate
    BY <1>17, TypeParts DEF Rotate, row, op, outside, Locals, Done
  <1>18. ASSUME NEW v \in Vouchers, ChainLock(v) \/ Environment(v)
        PROVE  RowOK'
    BY <1>18, TypeParts DEF ChainLock, Environment, Becomes, row, op, outside, Locals, Done
  <1>19. ASSUME NEW v \in Vouchers, Redeem(v)
        PROVE  RowOK'
    BY <1>19, TypeParts DEF Redeem, row, op, outside, Locals, Done
  <1>20. CASE Tick
    <2>1. UNCHANGED <<state, device, sealed, booked>>
          /\ issued' = [v \in Vouchers |-> Older(issued[v], IssuedCap)]
      BY <1>20 DEF Tick
    <2>2. \A v \in Vouchers : Older(issued[v], IssuedCap) \in 0 .. IssuedCap \cup {None}
      <3>1. IssuedCap \in Nat /\ \A v \in Vouchers : issued[v] \in 0 .. IssuedCap \cup {None}
        BY TypeParts, Ranges
      <3> QED BY <3>1, OlderTyped
    <2>3. issued' \in [Vouchers -> 0 .. IssuedCap \cup {None}]
      BY <2>1, <2>2
    <2>4. \A v \in Vouchers : issued[v] # None => issued'[v] # None
      <3>1. \A v \in Vouchers : issued[v] \in 0 .. IssuedCap \cup {None}
        BY TypeParts
      <3> QED BY <2>1, <3>1, Ranges, NoneApart DEF Older
    <2> QED BY <2>1, <2>3, <2>4, TypeParts
  <1>21. CASE UNCHANGED vars
    BY <1>21, TypeParts DEF vars, row, op, outside, Locals, Done
  <1> QED BY <1>1, <1>2, <1>3, <1>4, <1>5, <1>6, <1>7, <1>8, <1>9, <1>10, <1>11, <1>12,
             <1>13, <1>14, <1>15, <1>16, <1>17, <1>18, <1>19, <1>20, <1>21
          DEF Next, Issue, Maintain, Settle

\* those of the operation's locals,
LEMMA OpStep ==
    ASSUME TypeOK, [Next]_vars
    PROVE  OpOK'
  <1> USE DEF OpOK, Phases
  <1>1. ASSUME NEW r \in Requests, Replay(r)
        PROVE  OpOK'
    BY <1>1, TypeParts DEF Replay, Recall, Prior, op, Locals
  <1>2. ASSUME NEW r \in Requests, Refuse(r)
        PROVE  OpOK'
    BY <1>2, TypeParts DEF Refuse, op, Locals
  <1>3. ASSUME NEW r \in Requests, BeginIssue(r)
        PROVE  OpOK'
    <2>1. todo' \subseteq Vouchers
      BY <1>3, OldestIsPart DEF BeginIssue, In
    <2> QED BY <1>3, <2>1, TypeParts DEF BeginIssue
  <1>4. CASE CheckClaims
    BY <1>4, TypeParts DEF CheckClaims, PlatformSays, op, Locals
  <1>5. CASE Open
    <2>1. PICK v \in todo : \E rest \in NextBatches(v) :
            IF rest = {} THEN Done
            ELSE /\ todo' = rest /\ got' = GotBy(v) /\ down' = DownBy(v)
                 /\ phase' = IF todo = {v} THEN "checking" ELSE "opening"
                 /\ answers' = [answers EXCEPT ![v] = None]
                 /\ UNCHANGED <<hAge, req, hand>>
      BY <1>5 DEF Open
    <2>2. CASE Done
      BY <2>2, DoneTyped
    <2>3. CASE ~Done
      <3>1. PICK rest \in NextBatches(v) :
                /\ todo' = rest /\ got' = GotBy(v) /\ down' = DownBy(v)
                /\ phase' \in {"checking", "opening"}
                /\ answers' = [answers EXCEPT ![v] = None]
                /\ UNCHANGED <<hAge, req, hand>>
        BY <2>1, <2>3
      <3>2. rest \subseteq Vouchers
        BY <2>1, OldestIsPart, TypeParts DEF NextBatches, In, OpOK
      <3>3. GotBy(v) \subseteq Vouchers /\ DownBy(v) \in BOOLEAN
        BY <2>1, TypeParts DEF GotBy, DownBy, OpOK
      <3>4. phase = "opening" /\ req \in Requests
        BY <1>5, TypeParts DEF Open, OpOK
      <3> QED BY <3>1, <3>2, <3>3, <3>4, TypeParts
    <2> QED BY <2>2, <2>3
  <1>6. CASE BeginMaintain
    BY <1>6, TypeParts DEF BeginMaintain, op, Locals
  <1>7. CASE Recycle
    BY <1>7, TypeParts DEF Recycle, Return, PlatformSays, op, Locals
  <1>8. CASE RecycleEnds
    BY <1>8, TypeParts DEF RecycleEnds, In, Locals
  <1>9. CASE FollowUp
    <2>1. UNCHANGED Locals /\ phase = "chainlocks"
      BY <1>9 DEF FollowUp
    <2>2. PICK v \in todo : StillWaiting(v) \/ Ready(v) \/ Resend(v)
      BY <1>9 DEF FollowUp
    <2>3. /\ todo' \subseteq todo
          /\ \/ UNCHANGED <<phase, hand>>
             \/ phase' = "resending" /\ hand' = v
      BY <2>2 DEF StillWaiting, Ready, Resend
    <2>4. v \in Vouchers /\ None \notin Vouchers
      BY <2>2, TypeParts, NoneApart DEF Vouchers
    <2> QED BY <2>1, <2>3, <2>4, TypeParts DEF Locals
  <1>10. CASE FollowUpEnds
    BY <1>10, TypeParts DEF FollowUpEnds, op, Locals
  <1>11. ASSUME NEW v \in Vouchers, Accepted(v)
        PROVE  OpOK'
    BY <1>11, TypeParts DEF Accepted, InHand, Proceed, op, Locals
  <1>12. ASSUME NEW v \in Vouchers, Uncertain(v)
        PROVE  OpOK'
    BY <1>12, TypeParts DEF Uncertain, InHand, Proceed, op, Locals
  <1>13. ASSUME NEW v \in Vouchers, Rejected(v)
        PROVE  OpOK'
    <2>1. CASE phase = "minting"
      BY <1>13, <2>1, DoneTyped DEF Rejected
    <2>2. CASE phase = "resending"
      BY <1>13, <2>2, TypeParts DEF Rejected, InHand, Proceed, Locals
    <2> QED BY <1>13, <2>1, <2>2 DEF Rejected, InHand
  <1>14. CASE Mint
    <2>1. UNCHANGED <<todo, Locals>> /\ phase' = "minting" /\ hand' \in Vouchers
      BY <1>14 DEF Mint, Fresh, In
    <2>2. None \notin Vouchers
      BY NoneApart DEF Vouchers
    <2> QED BY <2>1, <2>2, TypeParts DEF Locals
  <1>15. CASE RefillEnds
    BY <1>15, DoneTyped, TypeParts DEF RefillEnds, row, op, outside
  <1>16. CASE Crash
    BY <1>16, DoneTyped, TypeParts DEF Crash, row, op, outside
  <1>17. CASE Rotate
    BY <1>17, TypeParts DEF Rotate, op, Locals
  <1>18. ASSUME NEW v \in Vouchers, ChainLock(v) \/ Environment(v)
        PROVE  OpOK'
    BY <1>18, TypeParts DEF ChainLock, Environment, Becomes, op, Locals
  <1>19. ASSUME NEW v \in Vouchers, Redeem(v)
        PROVE  OpOK'
    BY <1>19, TypeParts DEF Redeem, op, Locals
  <1>20. CASE Tick
    <2>1. /\ UNCHANGED <<phase, req, todo, hand, answers, down, got>>
          /\ hAge' = hAge \/ (hAge' = hAge + 1 /\ hAge < HANDLER)
      BY <1>20 DEF Tick
    <2>2. hAge' \in 0 .. HANDLER
      BY <2>1, TypeParts, Ranges
    <2> QED BY <2>1, <2>2, TypeParts
  <1>21. CASE UNCHANGED vars
    BY <1>21, TypeParts DEF vars, op, Locals
  <1> QED BY <1>1, <1>2, <1>3, <1>4, <1>5, <1>6, <1>7, <1>8, <1>9, <1>10, <1>11, <1>12,
             <1>13, <1>14, <1>15, <1>16, <1>17, <1>18, <1>19, <1>20, <1>21
          DEF Next, Issue, Maintain, Settle

\* and those of the hits and the world outside.
LEMMA WorldStep ==
    ASSUME TypeOK, [Next]_vars
    PROVE  WorldOK'
  <1> USE DEF WorldOK
  <1>1. ASSUME NEW r \in Requests, Replay(r)
        PROVE  WorldOK'
    <2>1. r.device \in Devices
      BY DEF Requests
    <2>2. \A v \in Prior(r.device) : v \in Vouchers /\ issued[v] \in 0 .. ToldCap
      BY TypeParts, Ranges DEF Prior, RowOK
    <2>3. told' \in [Vouchers -> [Devices -> 0 .. ToldCap \cup {None}]]
      BY <1>1, <2>1, <2>2, TypeParts DEF Replay, Recall
    <2> QED BY <1>1, <2>3, TypeParts, PruneTyped DEF Replay
  <1>2. ASSUME NEW r \in Requests, Refuse(r)
        PROVE  WorldOK'
    BY <1>2, TypeParts, PruneTyped DEF Refuse, outside, Locals
  <1>3. ASSUME NEW r \in Requests, BeginIssue(r)
        PROVE  WorldOK'
    BY <1>3, TypeParts, PruneTyped DEF BeginIssue, outside, Locals
  <1>4. CASE CheckClaims
    BY <1>4, TypeParts DEF CheckClaims, PlatformSays, outside, Locals
  <1>5. CASE Open
    <2>1. UNCHANGED <<net, identity, restarts>>
      BY <1>5 DEF Open
    <2>2. UNCHANGED <<hits, told>> \/ \E S \in SUBSET Vouchers : Respond(S)
      <3>1. PICK v \in todo : \E rest \in NextBatches(v) :
              IF rest = {} THEN Respond(GotBy(v)) ELSE UNCHANGED <<hits, told>>
        BY <1>5 DEF Open
      <3>2. GotBy(v) \in SUBSET Vouchers
        BY TypeParts DEF GotBy, OpOK
      <3> QED BY <3>1, <3>2
    <2>3. hAge \in 0 .. HitCap /\ hAge \in 0 .. ToldCap
      BY TypeParts, Ranges DEF OpOK
    <2>4. CASE \E S \in SUBSET Vouchers : Respond(S)
      <3>1. PICK S \in SUBSET Vouchers : Respond(S)
        BY <2>4
      <3>2. hits' \in [Signals -> 0 .. HitCap \cup {None}]
        BY <2>3, <3>1, TypeParts DEF Respond
      <3>3. \A v \in Vouchers : [told[v] EXCEPT ![req.device] = hAge] \in [Devices -> 0 .. ToldCap \cup {None}]
        BY <2>3, TypeParts
      <3>4. told' \in [Vouchers -> [Devices -> 0 .. ToldCap \cup {None}]]
        BY <3>1, <3>3, TypeParts DEF Respond
      <3> QED BY <2>1, <3>2, <3>4, TypeParts
    <2> QED BY <2>1, <2>2, <2>4, TypeParts
  <1>6. CASE BeginMaintain
    BY <1>6, TypeParts, PruneTyped DEF BeginMaintain, outside, Locals
  <1>7. CASE Recycle
    BY <1>7, TypeParts DEF Recycle, Return, PlatformSays, outside, Locals
  <1>8. CASE RecycleEnds
    BY <1>8, TypeParts DEF RecycleEnds, outside, Locals
  <1>9. CASE FollowUp
    BY <1>9, TypeParts DEF FollowUp, StillWaiting, Ready, Resend, outside, Locals
  <1>10. CASE FollowUpEnds
    BY <1>10, TypeParts DEF FollowUpEnds, outside, Locals
  <1>11. ASSUME NEW v \in Vouchers, Accepted(v)
        PROVE  WorldOK'
    BY <1>11, TypeParts DEF Accepted, InHand, Proceed, outside, Locals
  <1>12. ASSUME NEW v \in Vouchers, Uncertain(v)
        PROVE  WorldOK'
    BY <1>12, TypeParts DEF Uncertain, InHand, Proceed, outside, Locals
  <1>13. ASSUME NEW v \in Vouchers, Rejected(v)
        PROVE  WorldOK'
    <2>1. UNCHANGED <<hits, identity, told, restarts>> /\ net' = [net EXCEPT ![v] = "dead"]
      BY <1>13 DEF Rejected, Proceed
    <2> QED BY <2>1, TypeParts
  <1>14. CASE Mint
    BY <1>14, TypeParts DEF Mint, Fresh, outside, Locals
  <1>15. CASE RefillEnds
    BY <1>15, TypeParts DEF RefillEnds, outside, Locals
  <1>16. CASE Crash
    <2>1. UNCHANGED <<hits, net, identity, told>> /\ restarts' = restarts + 1 /\ restarts < MaxRestarts
      BY <1>16 DEF Crash, outside
    <2> QED BY <2>1, TypeParts, InvitationsAssumption DEF InvitationsAssumption
  <1>17. CASE Rotate
    <2>1. /\ UNCHANGED <<net, identity, told>> /\ restarts' = restarts + 1 /\ restarts < MaxRestarts
          /\ hits' = [k \in Signals |-> None]
      BY <1>17 DEF Rotate, outside
    <2> QED BY <2>1, TypeParts, InvitationsAssumption DEF InvitationsAssumption
  <1>18. ASSUME NEW v \in Vouchers, ChainLock(v) \/ Environment(v)
        PROVE  WorldOK'
    BY <1>18, TypeParts DEF ChainLock, Environment, Becomes, outside, Locals
  <1>19. ASSUME NEW v \in Vouchers, Redeem(v)
        PROVE  WorldOK'
    <2>1. UNCHANGED <<hits, net, told, restarts>> /\ identity' = [identity EXCEPT ![v] = 0]
      BY <1>19 DEF Redeem
    <2> QED BY <2>1, TypeParts, Ranges
  <1>20. CASE Tick
    <2>1. /\ UNCHANGED <<net, restarts>>
          /\ hits' = [k \in Signals |-> Older(hits[k], HitCap)]
          /\ identity' = [v \in Vouchers |-> Older(identity[v], IdentityCap)]
          /\ told' = [v \in Vouchers |-> [d \in Devices |-> Older(told[v][d], ToldCap)]]
      BY <1>20 DEF Tick
    <2>2. \A k \in Signals : Older(hits[k], HitCap) \in 0 .. HitCap \cup {None}
      <3>1. \A k \in Signals : hits[k] \in 0 .. HitCap \cup {None}
        BY TypeParts
      <3> QED BY <3>1, Ranges, OlderTyped
    <2>3. \A v \in Vouchers : Older(identity[v], IdentityCap) \in 0 .. IdentityCap \cup {None}
      <3>1. IdentityCap \in Nat /\ \A v \in Vouchers : identity[v] \in 0 .. IdentityCap \cup {None}
        BY TypeParts, Ranges
      <3> QED BY <3>1, OlderTyped
    <2>4. \A v \in Vouchers, d \in Devices : Older(told[v][d], ToldCap) \in 0 .. ToldCap \cup {None}
      <3>1. \A v \in Vouchers, d \in Devices : told[v][d] \in 0 .. ToldCap \cup {None}
        BY TypeParts
      <3> QED BY <3>1, Ranges, OlderTyped
    <2> QED BY <2>1, <2>2, <2>3, <2>4, TypeParts
  <1>21. CASE UNCHANGED vars
    BY <1>21, TypeParts DEF vars, outside, Locals
  <1> QED BY <1>1, <1>2, <1>3, <1>4, <1>5, <1>6, <1>7, <1>8, <1>9, <1>10, <1>11, <1>12,
             <1>13, <1>14, <1>15, <1>16, <1>17, <1>18, <1>19, <1>20, <1>21
          DEF Next, Issue, Maintain, Settle

\* Types, put together.
LEMMA TypeStep ==
    ASSUME TypeOK, [Next]_vars
    PROVE  TypeOK'
  <1>1. RowOK' /\ OpOK' /\ WorldOK'
    BY RowStep, OpStep, WorldStep
  <1> QED BY <1>1 DEF TypeOK, RowOK, OpOK, WorldOK

\* What the visit of a row changes: that row, which was in stock.
LEMMA VisitOne ==
    ASSUME TypeOK, Selected, Open
    PROVE  \E v \in Vouchers :
              /\ v \in todo /\ phase = "opening" /\ state[v] = "available"
              /\ req.device \in Devices
              /\ UNCHANGED <<booked, net, identity, restarts>>
              /\ state' = [state EXCEPT ![v] = state'[v]]
              /\ sealed' = [sealed EXCEPT ![v] = sealed'[v]]
              /\ device' = [device EXCEPT ![v] = device'[v]]
              /\ issued' = [issued EXCEPT ![v] = issued'[v]]
              /\ state'[v] \in {"available", "issued", "claimed", "failed"}
              /\ state'[v] = "issued" => answers[v] = "no" /\ v \in GotBy(v)
              /\ sealed'[v] # sealed[v] => answers[v] = "yes"
              /\ got \subseteq GotBy(v) /\ GotBy(v) \subseteq got \cup {v}
              /\ v \in GotBy(v) \ got =>
                    state'[v] = "issued" /\ device'[v] = req.device /\ issued'[v] = hAge
              /\ \E rest \in NextBatches(v) :
                    IF rest = {} THEN Respond(GotBy(v)) /\ Done
                    ELSE /\ todo' = rest /\ got' = GotBy(v)
                         /\ phase' = IF todo = {v} THEN "checking" ELSE "opening"
                         /\ answers' = [answers EXCEPT ![v] = None]
                         /\ UNCHANGED <<hits, told, hAge, req>>
  <1>1. PICK v \in todo : Visit(v) /\ \E rest \in NextBatches(v) :
                    IF rest = {} THEN Respond(GotBy(v)) /\ Done
                    ELSE /\ todo' = rest /\ got' = GotBy(v)
                         /\ phase' = IF todo = {v} THEN "checking" ELSE "opening"
                         /\ answers' = [answers EXCEPT ![v] = None]
                         /\ UNCHANGED <<hits, told, hAge, req>>
    BY DEF Open
  <1>2. /\ phase = "opening" /\ v \in Vouchers /\ state[v] = "available"
        /\ UNCHANGED <<booked, net, identity, restarts>>
    BY <1>1 DEF Open, Selected, In
  <1>3. req.device \in Devices
    BY <1>2 DEF TypeOK, Requests
  <1>4. /\ state \in [Vouchers -> States] /\ sealed \in [Vouchers -> {"current", "old", None}]
        /\ device \in [Vouchers -> Devices \cup {None}]
        /\ issued \in [Vouchers -> 0 .. IssuedCap \cup {None}]
    BY DEF TypeOK
  <1>5. /\ state' = [state EXCEPT ![v] = state'[v]]
        /\ state'[v] \in {"available", "issued", "claimed", "failed"}
        /\ state'[v] = "issued" => answers[v] = "no" /\ Opens(v)
        /\ Opens(v) => state'[v] = "issued"
    BY <1>1, <1>2, <1>4 DEF Visit, Opens
  <1>6. /\ sealed' = [sealed EXCEPT ![v] = sealed'[v]]
        /\ sealed'[v] # sealed[v] => answers[v] = "yes"
    BY <1>1, <1>2, <1>4 DEF Visit
  <1>7. /\ device' = [device EXCEPT ![v] = device'[v]]
        /\ issued' = [issued EXCEPT ![v] = issued'[v]]
        /\ Opens(v) => device'[v] = req.device /\ issued'[v] = hAge
    BY <1>1, <1>2, <1>4 DEF Visit
  <1>8. /\ got \subseteq GotBy(v) /\ GotBy(v) \subseteq got \cup {v}
        /\ v \in GotBy(v) \ got => Opens(v)
        /\ Opens(v) => v \in GotBy(v)
    BY DEF GotBy
  <1> QED BY <1>1, <1>2, <1>3, <1>5, <1>6, <1>7, <1>8

\* What is left to visit after v.
LEMMA RestInStock ==
    ASSUME Selected, phase = "opening", NEW v \in todo, NEW rest \in NextBatches(v)
    PROVE  rest \subseteq In({"available"}) \ {v}
  <1>1. todo \subseteq In({"available"})
    BY DEF Selected
  <1> QED BY <1>1, OldestIsPart DEF NextBatches

\* What the recycling of a row changes: that row, whose reservation is over.
LEMMA RecycleOne ==
    ASSUME TypeOK, Selected, Recycle
    PROVE  \E v \in Vouchers :
              /\ phase = "recycling" /\ v \in todo /\ todo' = todo \ {v}
              /\ state[v] = "issued" /\ issued[v] >= TTL
              /\ UNCHANGED <<phase, hand, booked, hits, Locals, outside, restarts>>
              /\ state' = [state EXCEPT ![v] = state'[v]]
              /\ sealed' = [sealed EXCEPT ![v] = sealed'[v]]
              /\ device' = [device EXCEPT ![v] = device'[v]]
              /\ issued' = [issued EXCEPT ![v] = issued'[v]]
              /\ state'[v] \in {"available", "issued", "claimed"}
              /\ state'[v] = "issued" => device'[v] = device[v] /\ issued'[v] = issued[v]
              /\ sealed'[v] # sealed[v] => identity[v] # None
  <1>1. PICK v \in todo, answer \in {"yes", "no", "down"} :
            PlatformSays(v, answer) /\ Return(v, answer) /\ todo' = todo \ {v}
    BY DEF Recycle
  <1>2. /\ phase = "recycling" /\ v \in Vouchers
        /\ UNCHANGED <<phase, hand, booked, hits, Locals, outside, restarts>>
    BY <1>1 DEF Recycle, TypeOK
  <1>3. state[v] = "issued" /\ issued[v] >= TTL
    BY <1>1, <1>2 DEF Selected, Lapsed
  <1>4. /\ state \in [Vouchers -> States] /\ sealed \in [Vouchers -> {"current", "old", None}]
        /\ device \in [Vouchers -> Devices \cup {None}]
        /\ issued \in [Vouchers -> 0 .. IssuedCap \cup {None}]
    BY DEF TypeOK
  <1>5. /\ state' = [state EXCEPT ![v] = state'[v]]
        /\ state'[v] \in {"available", "issued", "claimed"}
    BY <1>1, <1>2, <1>3, <1>4 DEF Return
  <1>6. /\ sealed' = [sealed EXCEPT ![v] = sealed'[v]]
        /\ sealed'[v] # sealed[v] => answer = "yes"
    BY <1>1, <1>2, <1>4 DEF Return
  <1>7. /\ device' = [device EXCEPT ![v] = device'[v]]
        /\ issued' = [issued EXCEPT ![v] = issued'[v]]
        /\ state'[v] = "issued" => device'[v] = device[v] /\ issued'[v] = issued[v]
    BY <1>1, <1>2, <1>3, <1>4 DEF Return
  <1>8. answer = "yes" => identity[v] # None
    BY <1>1 DEF PlatformSays
  <1> QED BY <1>1, <1>2, <1>3, <1>5, <1>6, <1>7, <1>8

\* No step takes a row out from under the loop that selected it.
LEMMA SelectedStep ==
    ASSUME TypeOK, Selected, [Next]_vars
    PROVE  Selected'
  <1> USE DEF Selected, In
  <1>1. ASSUME NEW r \in Requests, Replay(r)
        PROVE  Selected'
    BY <1>1 DEF Replay, Recall, Prior, row, op, Locals, Done, TypeOK
  <1>2. ASSUME NEW r \in Requests, Refuse(r)
        PROVE  Selected'
    BY <1>2 DEF Refuse, row, op, Locals, Done, TypeOK
  <1>3. ASSUME NEW r \in Requests, BeginIssue(r)
        PROVE  Selected'
    <2>1. todo' \subseteq In({"available"}) /\ phase' = "checking" /\ state' = state
      BY <1>3, OldestIsPart DEF BeginIssue, row
    <2> QED BY <2>1
  <1>4. CASE CheckClaims
    BY <1>4 DEF CheckClaims, PlatformSays, row, op, Locals, Done, TypeOK
  <1>5. CASE Open
    <2>1. PICK v \in Vouchers :
            /\ v \in todo /\ phase = "opening" /\ state' = [state EXCEPT ![v] = state'[v]]
            /\ \E rest \in NextBatches(v) :
                  IF rest = {} THEN Done
                  ELSE todo' = rest /\ phase' = IF todo = {v} THEN "checking" ELSE "opening"
      BY <1>5, VisitOne
    <2>2. CASE Done
      BY <2>2 DEF Done
    <2>3. CASE ~Done
      <3>1. todo' \subseteq In({"available"}) \ {v} /\ phase' \in {"checking", "opening"}
        BY <2>1, <2>3, RestInStock
      <3> QED BY <2>1, <3>1 DEF TypeOK
    <2> QED BY <2>2, <2>3
  <1>6. CASE BeginMaintain
    BY <1>6 DEF BeginMaintain, row, Lapsed
  <1>7. CASE Recycle
    <2>1. PICK v \in Vouchers :
            /\ phase = "recycling" /\ phase' = phase /\ todo' = todo \ {v}
            /\ state' = [state EXCEPT ![v] = state'[v]]
            /\ issued' = [issued EXCEPT ![v] = issued'[v]]
      BY <1>7, RecycleOne
    <2> QED BY <2>1 DEF TypeOK, Lapsed
  <1>8. CASE RecycleEnds
    BY <1>8 DEF RecycleEnds, row, op, Locals, Done, TypeOK
  <1>9. CASE FollowUp
    <2>1. PICK v \in todo : StillWaiting(v) \/ Ready(v) \/ Resend(v)
      BY <1>9 DEF FollowUp
    <2>2. /\ phase = "chainlocks" /\ v \in Vouchers /\ todo' = todo \ {v}
          /\ \A u \in todo \ {v} : u \in Vouchers /\ state'[u] = state[u]
          /\ \/ phase' = "chainlocks"
             \/ phase' = "resending" /\ hand' = v /\ state' = state /\ state[v] = "broadcast_unknown"
      BY <1>9, <2>1 DEF FollowUp, StillWaiting, Ready, Resend, TypeOK, row
    <2> QED BY <2>2
  <1>10. CASE FollowUpEnds
    BY <1>10 DEF FollowUpEnds, row, op, Locals, Done, TypeOK
  <1>11. ASSUME NEW v \in Vouchers, Accepted(v)
        PROVE  Selected'
    BY <1>11 DEF Accepted, InHand, Proceed, TypeOK
  <1>12. ASSUME NEW v \in Vouchers, Uncertain(v)
        PROVE  Selected'
    BY <1>12 DEF Uncertain, InHand, Proceed, TypeOK
  <1>13. ASSUME NEW v \in Vouchers, Rejected(v)
        PROVE  Selected'
    BY <1>13 DEF Rejected, InHand, Proceed, Done, TypeOK
  <1>14. CASE Mint
    BY <1>14 DEF Mint, Fresh, Locals, TypeOK
  <1>15. CASE RefillEnds
    BY <1>15 DEF RefillEnds, row, op, Locals, Done, TypeOK
  <1>16. CASE Crash
    BY <1>16 DEF Crash, row, op, Locals, Done, TypeOK
  <1>17. CASE Rotate
    BY <1>17 DEF Rotate, row, op, Locals, Done, TypeOK
  <1>18. ASSUME NEW v \in Vouchers, ChainLock(v) \/ Environment(v)
        PROVE  Selected'
    BY <1>18 DEF ChainLock, Environment, Becomes, row, op, Lapsed
  <1>19. ASSUME NEW v \in Vouchers, Redeem(v)
        PROVE  Selected'
    BY <1>19 DEF Redeem, row, op, Lapsed
  <1>20. CASE Tick
    <2>1. UNCHANGED <<phase, todo, hand, state>>
          /\ issued' = [v \in Vouchers |-> Older(issued[v], IssuedCap)]
      BY <1>20 DEF Tick
    <2>2. \A v \in Vouchers : state[v] = "issued" /\ issued[v] >= TTL => issued'[v] >= TTL
      BY <2>1, Ranges, NoneApart DEF TypeOK, Older
    <2> QED BY <2>1, <2>2 DEF Lapsed, TypeOK
  <1>21. CASE UNCHANGED vars
    BY <1>21 DEF vars, row, op, Lapsed
  <1> QED BY <1>1, <1>2, <1>3, <1>4, <1>5, <1>6, <1>7, <1>8, <1>9, <1>10, <1>11, <1>12,
             <1>13, <1>14, <1>15, <1>16, <1>17, <1>18, <1>19, <1>20, <1>21
          DEF Next, Issue, Maintain, Settle

\* Vouchers opened for a request stay reserved for its device, and age with it.
LEMMA OpenedStep ==
    ASSUME TypeOK, Selected, Opened, [Next]_vars
    PROVE  Opened'
  <1> USE DEF Opened
  <1>1. ASSUME NEW r \in Requests, Replay(r)
        PROVE  Opened'
    BY <1>1 DEF Replay, Recall, Prior, row, op, Locals, Done, TypeOK
  <1>2. ASSUME NEW r \in Requests, Refuse(r)
        PROVE  Opened'
    BY <1>2 DEF Refuse, row, op, Locals, Done, TypeOK
  <1>3. ASSUME NEW r \in Requests, BeginIssue(r)
        PROVE  Opened'
    BY <1>3 DEF BeginIssue, row, op, Locals, Done, TypeOK
  <1>4. CASE CheckClaims
    BY <1>4 DEF CheckClaims, PlatformSays, row, op, Locals, Done, TypeOK
  <1>5. CASE Open
    <2>1. PICK v \in Vouchers :
            /\ phase = "opening" /\ state[v] = "available"
            /\ state' = [state EXCEPT ![v] = state'[v]]
            /\ device' = [device EXCEPT ![v] = device'[v]]
            /\ issued' = [issued EXCEPT ![v] = issued'[v]]
            /\ GotBy(v) \subseteq got \cup {v}
            /\ v \in GotBy(v) \ got =>
                  state'[v] = "issued" /\ device'[v] = req.device /\ issued'[v] = hAge
            /\ \/ Done
               \/ /\ got' = GotBy(v) /\ phase' \in {"checking", "opening"}
                  /\ UNCHANGED <<hAge, req>>
      BY <1>5, VisitOne
    <2>2. CASE Done
      BY <2>2 DEF Done
    <2>3. CASE ~Done
      <3>1. \A u \in got : u \in Vouchers /\ u # v
        BY <2>1 DEF TypeOK
      <3> QED BY <2>1, <2>3, <3>1 DEF TypeOK
    <2> QED BY <2>2, <2>3
  <1>6. CASE BeginMaintain
    BY <1>6 DEF BeginMaintain, row, op, Locals, Done, TypeOK
  <1>7. CASE Recycle
    BY <1>7 DEF Recycle, Locals
  <1>8. CASE RecycleEnds
    BY <1>8 DEF RecycleEnds, row, op, Locals, Done, TypeOK
  <1>9. CASE FollowUp
    BY <1>9 DEF FollowUp, StillWaiting, Ready, Resend, Locals
  <1>10. CASE FollowUpEnds
    BY <1>10 DEF FollowUpEnds, row, op, Locals, Done, TypeOK
  <1>11. ASSUME NEW v \in Vouchers, Accepted(v)
        PROVE  Opened'
    BY <1>11 DEF Accepted, InHand, Proceed, row, op, Locals, Done, TypeOK
  <1>12. ASSUME NEW v \in Vouchers, Uncertain(v)
        PROVE  Opened'
    BY <1>12 DEF Uncertain, InHand, Proceed, row, op, Locals, Done, TypeOK
  <1>13. ASSUME NEW v \in Vouchers, Rejected(v)
        PROVE  Opened'
    BY <1>13 DEF Rejected, InHand, Proceed, row, op, Locals, Done, TypeOK
  <1>14. CASE Mint
    BY <1>14 DEF Mint, Fresh, row, op, Locals, Done, TypeOK
  <1>15. CASE RefillEnds
    BY <1>15 DEF RefillEnds, row, op, Locals, Done, TypeOK
  <1>16. CASE Crash
    BY <1>16 DEF Crash, row, op, Locals, Done, TypeOK
  <1>17. CASE Rotate
    BY <1>17 DEF Rotate, row, op, Locals, Done, TypeOK
  <1>18. ASSUME NEW v \in Vouchers, ChainLock(v) \/ Environment(v)
        PROVE  Opened'
    BY <1>18 DEF ChainLock, Environment, Becomes, row, op, Locals, Done, TypeOK
  <1>19. ASSUME NEW v \in Vouchers, Redeem(v)
        PROVE  Opened'
    BY <1>19 DEF Redeem, row, op, Locals, Done, TypeOK
  <1>20. CASE Tick
    <2>1. /\ UNCHANGED <<phase, got, state, device, req>>
          /\ hAge' = IF phase = "idle" THEN hAge ELSE hAge + 1
          /\ phase # "idle" => hAge < HANDLER
          /\ issued' = [v \in Vouchers |-> Older(issued[v], IssuedCap)]
      BY <1>20 DEF Tick
    <2>2. CASE phase \in {"checking", "opening"}
      <3>1. hAge' = hAge + 1 /\ hAge \in Nat /\ hAge < TTL /\ IssuedCap = TTL
        BY <2>1, <2>2, Ranges DEF TypeOK
      <3>2. \A v \in got : v \in Vouchers /\ issued'[v] = hAge + 1
        BY <2>1, <3>1, NoneApart DEF TypeOK, Older
      <3> QED BY <2>1, <2>2, <3>1, <3>2
    <2>3. CASE phase \notin {"checking", "opening"}
      BY <2>1, <2>3
    <2> QED BY <2>2, <2>3
  <1>21. CASE UNCHANGED vars
    BY <1>21 DEF vars, row, op, Locals, Done, TypeOK
  <1> QED BY <1>1, <1>2, <1>3, <1>4, <1>5, <1>6, <1>7, <1>8, <1>9, <1>10, <1>11, <1>12,
             <1>13, <1>14, <1>15, <1>16, <1>17, <1>18, <1>19, <1>20, <1>21
          DEF Next, Issue, Maintain, Settle

\* Answers of Platform age with the operation that asked.
LEMMA AnswersStep ==
    ASSUME TypeOK, Selected, Answers, [Next]_vars
    PROVE  Answers'
  <1> USE DEF Answers
  <1>1. ASSUME NEW r \in Requests, Replay(r)
        PROVE  Answers'
    BY <1>1 DEF Replay, Recall, Prior, row, op, outside, Locals, Done
  <1>2. ASSUME NEW r \in Requests, Refuse(r)
        PROVE  Answers'
    BY <1>2 DEF Refuse, row, op, outside, Locals, Done
  <1>3. ASSUME NEW r \in Requests, BeginIssue(r)
        PROVE  Answers'
    BY <1>3 DEF BeginIssue, row, op, outside, Locals, Done
  <1>4. CASE CheckClaims
    <2>1. /\ UNCHANGED <<identity, hAge>>
          /\ \A v \in Vouchers : IF v \in todo THEN PlatformSays(v, answers'[v])
                                               ELSE answers'[v] = None
      BY <1>4 DEF CheckClaims, outside
    <2>2. ASSUME NEW v \in Vouchers
          PROVE  /\ answers'[v] = "yes" => identity'[v] # None
                 /\ answers'[v] = "no" => identity'[v] = None \/ identity'[v] <= hAge'
      BY <2>1, NoneApart DEF PlatformSays
    <2> QED BY <2>2
  <1>5. CASE Open
    <2>1. PICK v \in Vouchers :
            /\ phase = "opening" /\ identity' = identity
            /\ \/ Done
               \/ answers' = [answers EXCEPT ![v] = None] /\ hAge' = hAge
      BY <1>5, VisitOne
    <2>2. CASE Done
      BY <2>2 DEF Done
    <2>3. CASE ~Done
      BY <2>1, <2>3, NoneApart DEF TypeOK
    <2> QED BY <2>2, <2>3
  <1>6. CASE BeginMaintain
    BY <1>6 DEF BeginMaintain, row, op, outside, Locals, Done
  <1>7. CASE Recycle
    BY <1>7 DEF Recycle, Return, PlatformSays, row, op, outside, Locals, Done
  <1>8. CASE RecycleEnds
    BY <1>8 DEF RecycleEnds, row, op, outside, Locals, Done
  <1>9. CASE FollowUp
    BY <1>9 DEF FollowUp, StillWaiting, Ready, Resend, row, op, outside, Locals, Done
  <1>10. CASE FollowUpEnds
    BY <1>10 DEF FollowUpEnds, row, op, outside, Locals, Done
  <1>11. ASSUME NEW v \in Vouchers, Accepted(v)
        PROVE  Answers'
    BY <1>11 DEF Accepted, InHand, Proceed, row, op, outside, Locals, Done
  <1>12. ASSUME NEW v \in Vouchers, Uncertain(v)
        PROVE  Answers'
    BY <1>12 DEF Uncertain, InHand, Proceed, row, op, outside, Locals, Done
  <1>13. ASSUME NEW v \in Vouchers, Rejected(v)
        PROVE  Answers'
    BY <1>13 DEF Rejected, InHand, Proceed, row, op, outside, Locals, Done
  <1>14. CASE Mint
    BY <1>14 DEF Mint, Fresh, row, op, outside, Locals, Done
  <1>15. CASE RefillEnds
    BY <1>15 DEF RefillEnds, row, op, outside, Locals, Done
  <1>16. CASE Crash
    BY <1>16 DEF Crash, row, op, outside, Locals, Done
  <1>17. CASE Rotate
    BY <1>17 DEF Rotate, row, op, outside, Locals, Done
  <1>18. ASSUME NEW v \in Vouchers, ChainLock(v) \/ Environment(v)
        PROVE  Answers'
    BY <1>18 DEF ChainLock, Environment, Becomes, row, op, outside, Locals, Done
  <1>19. ASSUME NEW v \in Vouchers, Redeem(v)
        PROVE  Answers'
    <2>1. /\ UNCHANGED <<phase, hAge, answers>>
          /\ identity' = [identity EXCEPT ![v] = 0] /\ identity[v] = None
      BY <1>19 DEF Redeem, op
    <2>2. 0 # None /\ 0 <= hAge
      BY NoneApart, Ranges DEF TypeOK
    <2> QED BY <2>1, <2>2 DEF TypeOK
  <1>20. CASE Tick
    <2>1. CASE phase # "opening"
      BY <1>20, <2>1 DEF Tick
    <2>2. CASE phase = "opening"
      <3>1. /\ UNCHANGED <<phase, answers>> /\ hAge' = hAge + 1 /\ hAge < HANDLER /\ hAge \in Nat
            /\ identity' = [v \in Vouchers |-> Older(identity[v], IdentityCap)]
        BY <1>20, <2>2, Ranges DEF Tick, TypeOK
      <3>2. ASSUME NEW v \in Vouchers
            PROVE  /\ identity[v] # None => identity'[v] # None
                   /\ identity[v] = None => identity'[v] = None
                   /\ identity[v] # None /\ identity[v] <= hAge => identity'[v] <= hAge + 1
        <4>1. identity[v] \in 0 .. IdentityCap \cup {None} /\ identity'[v] = Older(identity[v], IdentityCap)
          BY <3>1 DEF TypeOK
        <4> QED BY <3>1, <4>1, Ranges, NoneApart DEF Older
      <3> QED BY <2>2, <3>1, <3>2
    <2> QED BY <2>1, <2>2
  <1>21. CASE UNCHANGED vars
    BY <1>21 DEF vars, row, op, outside, Locals, Done
  <1> QED BY <1>1, <1>2, <1>3, <1>4, <1>5, <1>6, <1>7, <1>8, <1>9, <1>10, <1>11, <1>12,
             <1>13, <1>14, <1>15, <1>16, <1>17, <1>18, <1>19, <1>20, <1>21
          DEF Next, Issue, Maintain, Settle

\* A reservation that was told outlives whatever runs.
LEMMA ReservedStep ==
    ASSUME TypeOK, Selected, Opened, Reserved, [Next]_vars
    PROVE  Reserved'
  <1> USE DEF Reserved
  <1>1. ASSUME NEW r \in Requests, Replay(r)
        PROVE  Reserved'
    <2>1. UNCHANGED <<state, device, issued>> /\ Recall(r.device, Prior(r.device))
      BY <1>1 DEF Replay, row
    <2>2. ASSUME NEW v \in Vouchers, NEW d \in Devices,
                 told'[v][d] # None, told'[v][d] < TTL
          PROVE  state[v] = "issued" /\ device[v] = d /\ issued[v] <= told'[v][d]
      <3>1. CASE v \in Prior(r.device) /\ d = r.device
        <4>1. told'[v][d] = issued[v] /\ issued[v] \in Int
          BY <2>1, <3>1, Ranges DEF Recall, TypeOK, Prior
        <4> QED BY <3>1, <4>1 DEF Prior
      <3>2. CASE ~(v \in Prior(r.device) /\ d = r.device)
        <4>1. told'[v][d] = told[v][d]
          BY <2>1, <3>2 DEF Recall, TypeOK
        <4> QED BY <2>2, <4>1
      <3> QED BY <3>1, <3>2
    <2> QED BY <2>1, <2>2
  <1>2. ASSUME NEW r \in Requests, Refuse(r)
        PROVE  Reserved'
    BY <1>2 DEF Refuse, row, outside
  <1>3. ASSUME NEW r \in Requests, BeginIssue(r)
        PROVE  Reserved'
    BY <1>3 DEF BeginIssue, row, outside
  <1>4. CASE CheckClaims
    BY <1>4 DEF CheckClaims, PlatformSays, row, outside
  <1>5. CASE Open
    <2>1. PICK v \in Vouchers :
            /\ phase = "opening" /\ state[v] = "available"
            /\ state' = [state EXCEPT ![v] = state'[v]]
            /\ device' = [device EXCEPT ![v] = device'[v]]
            /\ issued' = [issued EXCEPT ![v] = issued'[v]]
            /\ GotBy(v) \subseteq got \cup {v}
            /\ v \in GotBy(v) \ got =>
                  state'[v] = "issued" /\ device'[v] = req.device /\ issued'[v] = hAge
            /\ Respond(GotBy(v)) \/ told' = told
      BY <1>5, VisitOne
    <2>2. \A u \in Vouchers \ {v} :
            state'[u] = state[u] /\ device'[u] = device[u] /\ issued'[u] = issued[u]
      BY <2>1 DEF TypeOK
    <2>3. \A u \in GotBy(v) :
            state'[u] = "issued" /\ device'[u] = req.device /\ issued'[u] = hAge
      BY <2>1, <2>2 DEF Opened, TypeOK
    <2>4. ASSUME NEW u \in Vouchers, NEW d \in Devices,
                 told'[u][d] # None, told'[u][d] < TTL
          PROVE  state'[u] = "issued" /\ device'[u] = d /\ issued'[u] <= told'[u][d]
      <3>1. CASE told'[u][d] = told[u][d]
        BY <2>1, <2>2, <2>4, <3>1
      <3>2. CASE told'[u][d] # told[u][d]
        <4>1. u \in GotBy(v) /\ d = req.device /\ told'[u][d] = hAge
          BY <2>1, <3>2 DEF Respond, TypeOK
        <4>2. hAge \in Int
          BY Ranges DEF TypeOK
        <4> QED BY <2>3, <4>1, <4>2
      <3> QED BY <3>1, <3>2
    <2> QED BY <2>4
  <1>6. CASE BeginMaintain
    BY <1>6 DEF BeginMaintain, row, outside
  <1>7. CASE Recycle
    <2>1. PICK v \in Vouchers :
            /\ issued[v] >= TTL /\ state[v] = "issued" /\ told' = told
            /\ state' = [state EXCEPT ![v] = state'[v]]
            /\ device' = [device EXCEPT ![v] = device'[v]]
            /\ issued' = [issued EXCEPT ![v] = issued'[v]]
      BY <1>7, RecycleOne DEF outside
    <2>2. issued[v] # None
      BY <2>1 DEF TypeOK
    <2>3. issued[v] \in Int /\ TTL \in Int
      BY <2>2, Ranges DEF TypeOK
    <2>4. \A d \in Devices : ~(told[v][d] # None /\ told[v][d] < TTL)
      <3>1. \A d \in Devices : told[v][d] # None => told[v][d] \in Int
        BY DEF TypeOK
      <3> QED BY <2>1, <2>3, <3>1
    <2>5. \A u \in Vouchers \ {v} :
            state'[u] = state[u] /\ device'[u] = device[u] /\ issued'[u] = issued[u]
      BY <2>1 DEF TypeOK
    <2> QED BY <2>1, <2>4, <2>5
  <1>8. CASE RecycleEnds
    BY <1>8 DEF RecycleEnds, row, outside
  <1>9. CASE FollowUp
    <2>1. PICK v \in todo : StillWaiting(v) \/ Ready(v) \/ Resend(v)
      BY <1>9 DEF FollowUp
    <2>2. /\ v \in Vouchers /\ state[v] # "issued" /\ UNCHANGED <<device, issued, told>>
          /\ \A u \in Vouchers \ {v} : state'[u] = state[u]
      BY <1>9, <2>1 DEF FollowUp, StillWaiting, Ready, Resend, row, Selected, In, TypeOK
    <2> QED BY <2>2
  <1>10. CASE FollowUpEnds
    BY <1>10 DEF FollowUpEnds, row, outside
  <1>11. ASSUME NEW v \in Vouchers, Accepted(v)
        PROVE  Reserved'
    <2>1. /\ state[v] = "broadcast_unknown" /\ UNCHANGED <<device, issued, told>>
          /\ \A u \in Vouchers \ {v} : state'[u] = state[u]
      BY <1>11 DEF Accepted, InHand, Proceed, Selected, TypeOK
    <2> QED BY <2>1
  <1>12. ASSUME NEW v \in Vouchers, Uncertain(v)
        PROVE  Reserved'
    <2>1. /\ state[v] = "broadcast_unknown" /\ UNCHANGED <<device, issued, told>>
          /\ \A u \in Vouchers \ {v} : state'[u] = state[u]
      BY <1>12 DEF Uncertain, InHand, Proceed, Selected, TypeOK
    <2> QED BY <2>1
  <1>13. ASSUME NEW v \in Vouchers, Rejected(v)
        PROVE  Reserved'
    <2>1. /\ state[v] = "broadcast_unknown" /\ UNCHANGED <<device, issued, told>>
          /\ \A u \in Vouchers \ {v} : state'[u] = state[u]
      BY <1>13 DEF Rejected, InHand, Proceed, Selected, TypeOK
    <2> QED BY <2>1
  <1>14. CASE Mint
    <2>1. PICK v \in In({"absent"}) :
            UNCHANGED <<device, issued, told>> /\ state' = [state EXCEPT ![v] = "broadcast_unknown"]
      BY <1>14 DEF Mint, Fresh
    <2>2. v \in Vouchers /\ state[v] = "absent"
      BY DEF In
    <2> QED BY <2>1, <2>2 DEF TypeOK
  <1>15. CASE RefillEnds
    BY <1>15 DEF RefillEnds, row, outside
  <1>16. CASE Crash
    BY <1>16 DEF Crash, row, outside
  <1>17. CASE Rotate
    BY <1>17 DEF Rotate, row, outside
  <1>18. ASSUME NEW v \in Vouchers, ChainLock(v) \/ Environment(v)
        PROVE  Reserved'
    BY <1>18 DEF ChainLock, Environment, Becomes, row, outside
  <1>19. ASSUME NEW v \in Vouchers, Redeem(v)
        PROVE  Reserved'
    BY <1>19 DEF Redeem, row, outside
  <1>20. CASE Tick
    <2>1. /\ UNCHANGED <<state, device>>
          /\ issued' = [v \in Vouchers |-> Older(issued[v], IssuedCap)]
          /\ told' = [v \in Vouchers |-> [d \in Devices |-> Older(told[v][d], ToldCap)]]
      BY <1>20 DEF Tick
    <2>2. ASSUME NEW v \in Vouchers, NEW d \in Devices,
                 told'[v][d] # None, told'[v][d] < TTL
          PROVE  state[v] = "issued" /\ device[v] = d /\ issued'[v] <= told'[v][d]
      <3>1. /\ told[v][d] \in 0 .. ToldCap \cup {None} /\ told'[v][d] = Older(told[v][d], ToldCap)
            /\ issued[v] \in 0 .. IssuedCap \cup {None} /\ issued'[v] = Older(issued[v], IssuedCap)
        BY <2>1 DEF TypeOK
      <3>2. told[v][d] # None /\ told[v][d] < TTL /\ told'[v][d] = told[v][d] + 1
        BY <2>2, <3>1, Ranges, NoneApart DEF Older
      <3>3. state[v] = "issued" /\ device[v] = d /\ issued[v] <= told[v][d]
        BY <3>2
      <3>4. issued[v] # None
        BY <3>3 DEF TypeOK
      <3> QED BY <3>1, <3>2, <3>3, <3>4, Ranges, NoneApart DEF Older
    <2> QED BY <2>1, <2>2
  <1>21. CASE UNCHANGED vars
    BY <1>21 DEF vars, row, outside
  <1> QED BY <1>1, <1>2, <1>3, <1>4, <1>5, <1>6, <1>7, <1>8, <1>9, <1>10, <1>11, <1>12,
             <1>13, <1>14, <1>15, <1>16, <1>17, <1>18, <1>19, <1>20, <1>21
          DEF Next, Issue, Maintain, Settle

\* What is in stock or out is final, and a final lock stays so.
LEMMA FinalStep ==
    ASSUME TypeOK, Selected, Final, [Next]_vars
    PROVE  Final'
  <1> USE DEF Final, In
  <1>1. ASSUME NEW r \in Requests, Replay(r)
        PROVE  Final'
    BY <1>1 DEF Replay, Recall, Prior, row, outside
  <1>2. ASSUME NEW r \in Requests, Refuse(r)
        PROVE  Final'
    BY <1>2 DEF Refuse, row, outside
  <1>3. ASSUME NEW r \in Requests, BeginIssue(r)
        PROVE  Final'
    BY <1>3 DEF BeginIssue, row, outside
  <1>4. CASE CheckClaims
    BY <1>4 DEF CheckClaims, PlatformSays, row, outside
  <1>5. CASE Open
    <2>1. PICK v \in Vouchers :
            /\ state[v] = "available" /\ net' = net
            /\ state' = [state EXCEPT ![v] = state'[v]]
            /\ state'[v] \in {"available", "issued", "claimed", "failed"}
      BY <1>5, VisitOne
    <2> QED BY <2>1 DEF TypeOK
  <1>6. CASE BeginMaintain
    BY <1>6 DEF BeginMaintain, row, outside
  <1>7. CASE Recycle
    <2>1. PICK v \in Vouchers :
            /\ state[v] = "issued" /\ net' = net
            /\ state' = [state EXCEPT ![v] = state'[v]]
            /\ state'[v] \in {"available", "issued", "claimed"}
      BY <1>7, RecycleOne DEF outside
    <2> QED BY <2>1 DEF TypeOK
  <1>8. CASE RecycleEnds
    BY <1>8 DEF RecycleEnds, row, outside
  <1>9. CASE FollowUp
    <2>1. PICK v \in todo : StillWaiting(v) \/ Ready(v) \/ Resend(v)
      BY <1>9 DEF FollowUp
    <2>2. /\ v \in Vouchers /\ state[v] \in {"broadcast_unknown", "awaiting_chainlock"}
          /\ net' = net
          /\ \/ state' = state
             \/ net[v] = "locked" /\ state' = [state EXCEPT ![v] = "available"]
      BY <1>9, <2>1 DEF FollowUp, StillWaiting, Ready, Resend, row, Selected, In
    <2> QED BY <2>2 DEF TypeOK
  <1>10. CASE FollowUpEnds
    BY <1>10 DEF FollowUpEnds, row, outside
  <1>11. ASSUME NEW v \in Vouchers, Accepted(v)
        PROVE  Final'
    <2>1. /\ state[v] = "broadcast_unknown" /\ v \in Vouchers
          /\ state'[v] \in {"broadcast_unknown", "awaiting_chainlock", "failed"}
          /\ \A u \in Vouchers \ {v} : state'[u] = state[u] /\ net'[u] = net[u]
      BY <1>11 DEF Accepted, InHand, Proceed, Selected, TypeOK
    <2> QED BY <2>1
  <1>12. ASSUME NEW v \in Vouchers, Uncertain(v)
        PROVE  Final'
    <2>1. /\ state[v] = "broadcast_unknown" /\ v \in Vouchers
          /\ state'[v] \in {"broadcast_unknown", "awaiting_chainlock", "failed"}
          /\ \A u \in Vouchers \ {v} : state'[u] = state[u] /\ net'[u] = net[u]
      BY <1>12 DEF Uncertain, InHand, Proceed, Selected, TypeOK
    <2> QED BY <2>1
  <1>13. ASSUME NEW v \in Vouchers, Rejected(v)
        PROVE  Final'
    <2>1. /\ state[v] = "broadcast_unknown" /\ v \in Vouchers
          /\ state'[v] \in {"broadcast_unknown", "awaiting_chainlock", "failed"}
          /\ \A u \in Vouchers \ {v} : state'[u] = state[u] /\ net'[u] = net[u]
      BY <1>13 DEF Rejected, InHand, Proceed, Selected, TypeOK
    <2> QED BY <2>1
  <1>14. CASE Mint
    <2>1. PICK v \in In({"absent"}), landing \in {"out", "dead"} :
            /\ state' = [state EXCEPT ![v] = "broadcast_unknown"]
            /\ net' = [net EXCEPT ![v] = landing]
      BY <1>14 DEF Mint, Fresh
    <2> QED BY <2>1 DEF TypeOK
  <1>15. CASE RefillEnds
    BY <1>15 DEF RefillEnds, row, outside
  <1>16. CASE Crash
    BY <1>16 DEF Crash, row, outside
  <1>17. CASE Rotate
    BY <1>17 DEF Rotate, row, outside
  <1>18. ASSUME NEW v \in Vouchers, ChainLock(v) \/ Environment(v)
        PROVE  Final'
    <2>1. /\ state' = state /\ net[v] \in {"out", "mempool"}
          /\ \E status : net' = [net EXCEPT ![v] = status]
      BY <1>18 DEF ChainLock, Environment, Becomes, row
    <2> QED BY <2>1, NoneApart DEF TypeOK
  <1>19. ASSUME NEW v \in Vouchers, Redeem(v)
        PROVE  Final'
    BY <1>19 DEF Redeem, row, outside
  <1>20. CASE Tick
    BY <1>20 DEF Tick, Older, row, outside
  <1>21. CASE UNCHANGED vars
    BY <1>21 DEF vars, row, outside
  <1> QED BY <1>1, <1>2, <1>3, <1>4, <1>5, <1>6, <1>7, <1>8, <1>9, <1>10, <1>11, <1>12,
             <1>13, <1>14, <1>15, <1>16, <1>17, <1>18, <1>19, <1>20, <1>21
          DEF Next, Issue, Maintain, Settle

\* What was never built is nowhere.
LEMMA UnmintedStep ==
    ASSUME TypeOK, Selected, Unminted, [Next]_vars
    PROVE  Unminted'
  <1> USE DEF Unminted, In
  <1>1. ASSUME NEW r \in Requests, Replay(r)
        PROVE  Unminted'
    BY <1>1 DEF Replay, Recall, Prior, row, outside
  <1>2. ASSUME NEW r \in Requests, Refuse(r)
        PROVE  Unminted'
    BY <1>2 DEF Refuse, row, outside
  <1>3. ASSUME NEW r \in Requests, BeginIssue(r)
        PROVE  Unminted'
    BY <1>3 DEF BeginIssue, row, outside
  <1>4. CASE CheckClaims
    BY <1>4 DEF CheckClaims, PlatformSays, row, outside
  <1>5. CASE Open
    <2>1. PICK v \in Vouchers :
            /\ state[v] = "available" /\ net' = net
            /\ state' = [state EXCEPT ![v] = state'[v]]
            /\ state'[v] \in {"available", "issued", "claimed", "failed"}
      BY <1>5, VisitOne
    <2> QED BY <2>1 DEF TypeOK
  <1>6. CASE BeginMaintain
    BY <1>6 DEF BeginMaintain, row, outside
  <1>7. CASE Recycle
    <2>1. PICK v \in Vouchers :
            /\ state[v] = "issued" /\ net' = net
            /\ state' = [state EXCEPT ![v] = state'[v]]
            /\ state'[v] \in {"available", "issued", "claimed"}
      BY <1>7, RecycleOne DEF outside
    <2> QED BY <2>1 DEF TypeOK
  <1>8. CASE RecycleEnds
    BY <1>8 DEF RecycleEnds, row, outside
  <1>9. CASE FollowUp
    <2>1. PICK v \in todo : StillWaiting(v) \/ Ready(v) \/ Resend(v)
      BY <1>9 DEF FollowUp
    <2>2. /\ v \in Vouchers /\ state[v] \in {"broadcast_unknown", "awaiting_chainlock"}
          /\ net' = net
          /\ \/ state' = state
             \/ net[v] = "locked" /\ state' = [state EXCEPT ![v] = "available"]
      BY <1>9, <2>1 DEF FollowUp, StillWaiting, Ready, Resend, row, Selected, In
    <2> QED BY <2>2 DEF TypeOK
  <1>10. CASE FollowUpEnds
    BY <1>10 DEF FollowUpEnds, row, outside
  <1>11. ASSUME NEW v \in Vouchers, Accepted(v)
        PROVE  Unminted'
    <2>1. /\ state[v] = "broadcast_unknown" /\ v \in Vouchers
          /\ state'[v] \in {"broadcast_unknown", "awaiting_chainlock", "failed"}
          /\ \A u \in Vouchers \ {v} : state'[u] = state[u] /\ net'[u] = net[u]
      BY <1>11 DEF Accepted, InHand, Proceed, Selected, TypeOK
    <2> QED BY <2>1
  <1>12. ASSUME NEW v \in Vouchers, Uncertain(v)
        PROVE  Unminted'
    <2>1. /\ state[v] = "broadcast_unknown" /\ v \in Vouchers
          /\ state'[v] \in {"broadcast_unknown", "awaiting_chainlock", "failed"}
          /\ \A u \in Vouchers \ {v} : state'[u] = state[u] /\ net'[u] = net[u]
      BY <1>12 DEF Uncertain, InHand, Proceed, Selected, TypeOK
    <2> QED BY <2>1
  <1>13. ASSUME NEW v \in Vouchers, Rejected(v)
        PROVE  Unminted'
    <2>1. /\ state[v] = "broadcast_unknown" /\ v \in Vouchers
          /\ state'[v] \in {"broadcast_unknown", "awaiting_chainlock", "failed"}
          /\ \A u \in Vouchers \ {v} : state'[u] = state[u] /\ net'[u] = net[u]
      BY <1>13 DEF Rejected, InHand, Proceed, Selected, TypeOK
    <2> QED BY <2>1
  <1>14. CASE Mint
    <2>1. PICK v \in In({"absent"}), landing \in {"out", "dead"} :
            /\ state' = [state EXCEPT ![v] = "broadcast_unknown"]
            /\ net' = [net EXCEPT ![v] = landing]
      BY <1>14 DEF Mint, Fresh
    <2> QED BY <2>1 DEF TypeOK
  <1>15. CASE RefillEnds
    BY <1>15 DEF RefillEnds, row, outside
  <1>16. CASE Crash
    BY <1>16 DEF Crash, row, outside
  <1>17. CASE Rotate
    BY <1>17 DEF Rotate, row, outside
  <1>18. ASSUME NEW v \in Vouchers, ChainLock(v) \/ Environment(v)
        PROVE  Unminted'
    <2>1. /\ state' = state /\ net[v] \in {"out", "mempool"}
          /\ \E status : net' = [net EXCEPT ![v] = status]
      BY <1>18 DEF ChainLock, Environment, Becomes, row
    <2>2. net[v] # None
      BY <2>1, NoneApart
    <2> QED BY <2>1, <2>2 DEF TypeOK
  <1>19. ASSUME NEW v \in Vouchers, Redeem(v)
        PROVE  Unminted'
    BY <1>19 DEF Redeem, row, outside
  <1>20. CASE Tick
    BY <1>20 DEF Tick, Older, row, outside
  <1>21. CASE UNCHANGED vars
    BY <1>21 DEF vars, row, outside
  <1> QED BY <1>1, <1>2, <1>3, <1>4, <1>5, <1>6, <1>7, <1>8, <1>9, <1>10, <1>11, <1>12,
             <1>13, <1>14, <1>15, <1>16, <1>17, <1>18, <1>19, <1>20, <1>21
          DEF Next, Issue, Maintain, Settle

\* Keys are erased when they open nothing any more.
LEMMA KeyedStep ==
    ASSUME TypeOK, Selected, Answers, Keyed, [Next]_vars
    PROVE  Keyed'
  <1> USE DEF Keyed
  <1>1. ASSUME NEW r \in Requests, Replay(r)
        PROVE  Keyed'
    BY <1>1 DEF Replay, Recall, Prior, row, outside, Done
  <1>2. ASSUME NEW r \in Requests, Refuse(r)
        PROVE  Keyed'
    BY <1>2 DEF Refuse, row, outside, Done
  <1>3. ASSUME NEW r \in Requests, BeginIssue(r)
        PROVE  Keyed'
    BY <1>3 DEF BeginIssue, row, outside, Done
  <1>4. CASE CheckClaims
    BY <1>4 DEF CheckClaims, PlatformSays, row, outside, Done
  <1>5. CASE Open
    <2>1. PICK v \in Vouchers :
            /\ phase = "opening" /\ UNCHANGED <<net, identity>>
            /\ sealed' = [sealed EXCEPT ![v] = sealed'[v]]
            /\ sealed'[v] # sealed[v] => answers[v] = "yes"
      BY <1>5, VisitOne
    <2>2. sealed'[v] # sealed[v] => identity[v] # None
      BY <2>1 DEF Answers
    <2> QED BY <2>1, <2>2 DEF TypeOK
  <1>6. CASE BeginMaintain
    BY <1>6 DEF BeginMaintain, row, outside, Done
  <1>7. CASE Recycle
    <2>1. PICK v \in Vouchers :
            /\ UNCHANGED <<net, identity>>
            /\ sealed' = [sealed EXCEPT ![v] = sealed'[v]]
            /\ sealed'[v] # sealed[v] => identity[v] # None
      BY <1>7, RecycleOne DEF outside
    <2> QED BY <2>1 DEF TypeOK
  <1>8. CASE RecycleEnds
    BY <1>8 DEF RecycleEnds, row, outside, Done
  <1>9. CASE FollowUp
    BY <1>9 DEF FollowUp, StillWaiting, Ready, Resend, row
  <1>10. CASE FollowUpEnds
    BY <1>10 DEF FollowUpEnds, row, outside, Done
  <1>11. ASSUME NEW v \in Vouchers, Accepted(v)
        PROVE  Keyed'
    <2>1. /\ UNCHANGED <<sealed, identity>> /\ v \in Vouchers
          /\ net' = [net EXCEPT ![v] = IF net[v] = "out" THEN "mempool" ELSE net[v]]
      BY <1>11 DEF Accepted, Proceed
    <2> QED BY <2>1 DEF TypeOK
  <1>12. ASSUME NEW v \in Vouchers, Uncertain(v)
        PROVE  Keyed'
    <2>1. /\ UNCHANGED <<sealed, identity>> /\ v \in Vouchers
          /\ UNCHANGED net \/ (net[v] = "out" /\ net' = [net EXCEPT ![v] = "mempool"])
      BY <1>12 DEF Uncertain, Proceed
    <2> QED BY <2>1 DEF TypeOK
  <1>13. ASSUME NEW v \in Vouchers, Rejected(v)
        PROVE  Keyed'
    <2>1. /\ identity' = identity /\ v \in Vouchers
          /\ net' = [net EXCEPT ![v] = "dead"] /\ sealed' = [sealed EXCEPT ![v] = None]
      BY <1>13 DEF Rejected, Proceed
    <2> QED BY <2>1 DEF TypeOK
  <1>14. CASE Mint
    <2>1. PICK v \in Vouchers : \E landing \in {"out", "dead"} :
            /\ identity' = identity /\ sealed' = [sealed EXCEPT ![v] = "current"]
            /\ net' = [net EXCEPT ![v] = landing]
      BY <1>14 DEF Mint, Fresh, In
    <2> QED BY <2>1, NoneApart DEF TypeOK
  <1>15. CASE RefillEnds
    BY <1>15 DEF RefillEnds, row, outside, Done
  <1>16. CASE Crash
    BY <1>16 DEF Crash, row, outside, Done
  <1>17. CASE Rotate
    <2>1. /\ UNCHANGED <<net, identity>>
          /\ sealed' = [v \in Vouchers |-> IF sealed[v] = "current" THEN "old" ELSE sealed[v]]
      BY <1>17 DEF Rotate, outside
    <2> QED BY <2>1, NoneApart
  <1>18. ASSUME NEW v \in Vouchers, ChainLock(v) \/ Environment(v)
        PROVE  Keyed'
    <2>1. /\ UNCHANGED <<sealed, identity>> /\ net[v] \in {"out", "mempool"}
          /\ \E status : net' = [net EXCEPT ![v] = status]
      BY <1>18 DEF ChainLock, Environment, Becomes, row
    <2> QED BY <2>1 DEF TypeOK
  <1>19. ASSUME NEW v \in Vouchers, Redeem(v)
        PROVE  Keyed'
    <2>1. UNCHANGED <<sealed, net>> /\ identity' = [identity EXCEPT ![v] = 0] /\ identity[v] = None
      BY <1>19 DEF Redeem, row
    <2> QED BY <2>1, NoneApart DEF TypeOK
  <1>20. CASE Tick
    <2>1. UNCHANGED <<sealed, net>> /\ identity' = [v \in Vouchers |-> Older(identity[v], IdentityCap)]
      BY <1>20 DEF Tick
    <2>2. \A v \in Vouchers : identity'[v] = None => identity[v] = None
      <3>1. \A v \in Vouchers : identity[v] \in 0 .. IdentityCap \cup {None}
        BY DEF TypeOK
      <3> QED BY <2>1, <3>1, Ranges, NoneApart DEF Older
    <2> QED BY <2>1, <2>2
  <1>21. CASE UNCHANGED vars
    BY <1>21 DEF vars, row, outside, Done
  <1> QED BY <1>1, <1>2, <1>3, <1>4, <1>5, <1>6, <1>7, <1>8, <1>9, <1>10, <1>11, <1>12,
             <1>13, <1>14, <1>15, <1>16, <1>17, <1>18, <1>19, <1>20, <1>21
          DEF Next, Issue, Maintain, Settle

\* A row becomes ready together with its spend.
LEMMA BookedStep ==
    ASSUME TypeOK, Selected, ReadyIsBooked, [Next]_vars
    PROVE  ReadyIsBooked'
  <1> USE DEF ReadyIsBooked, In
  <1>1. ASSUME NEW r \in Requests, Replay(r)
        PROVE  ReadyIsBooked'
    BY <1>1 DEF Replay, Recall, Prior, row, Done
  <1>2. ASSUME NEW r \in Requests, Refuse(r)
        PROVE  ReadyIsBooked'
    BY <1>2 DEF Refuse, row, Done
  <1>3. ASSUME NEW r \in Requests, BeginIssue(r)
        PROVE  ReadyIsBooked'
    BY <1>3 DEF BeginIssue, row, Done
  <1>4. CASE CheckClaims
    BY <1>4 DEF CheckClaims, PlatformSays, row, Done
  <1>5. CASE Open
    <2>1. PICK v \in Vouchers :
            /\ state[v] = "available" /\ booked' = booked
            /\ state' = [state EXCEPT ![v] = state'[v]]
      BY <1>5, VisitOne
    <2> QED BY <2>1 DEF TypeOK
  <1>6. CASE BeginMaintain
    BY <1>6 DEF BeginMaintain, row, Done
  <1>7. CASE Recycle
    <2>1. PICK v \in Vouchers :
            /\ state[v] = "issued" /\ booked' = booked
            /\ state' = [state EXCEPT ![v] = state'[v]]
      BY <1>7, RecycleOne
    <2> QED BY <2>1 DEF TypeOK
  <1>8. CASE RecycleEnds
    BY <1>8 DEF RecycleEnds, row, Done
  <1>9. CASE FollowUp
    <2>1. PICK v \in todo : StillWaiting(v) \/ Ready(v) \/ Resend(v)
      BY <1>9 DEF FollowUp
    <2>2. /\ v \in Vouchers /\ state[v] \in {"broadcast_unknown", "awaiting_chainlock"}
          /\ \/ state' = state /\ booked' = booked
             \/ /\ state' = [state EXCEPT ![v] = "available"]
                /\ booked' = [booked EXCEPT ![v] = IF state[v] = "broadcast_unknown" THEN "owned" ELSE booked[v]]
      BY <1>9, <2>1 DEF FollowUp, StillWaiting, Ready, Resend, row, Selected
    <2> QED BY <2>2 DEF TypeOK
  <1>10. CASE FollowUpEnds
    BY <1>10 DEF FollowUpEnds, row, Done
  <1>11. ASSUME NEW v \in Vouchers, Accepted(v)
        PROVE  ReadyIsBooked'
    <2>1. /\ v \in Vouchers /\ state' = [state EXCEPT ![v] = "awaiting_chainlock"]
          /\ booked' = [booked EXCEPT ![v] = "owned"]
      BY <1>11 DEF Accepted
    <2> QED BY <2>1 DEF TypeOK
  <1>12. ASSUME NEW v \in Vouchers, Uncertain(v)
        PROVE  ReadyIsBooked'
    <2>1. /\ v \in Vouchers /\ state' = state /\ state[v] = "broadcast_unknown"
          /\ booked' = [booked EXCEPT ![v] = "locked"]
      BY <1>12 DEF Uncertain, InHand, Selected
    <2> QED BY <2>1 DEF TypeOK
  <1>13. ASSUME NEW v \in Vouchers, Rejected(v)
        PROVE  ReadyIsBooked'
    <2>1. /\ v \in Vouchers /\ state' = [state EXCEPT ![v] = "failed"]
          /\ \A u \in Vouchers \ {v} : booked'[u] = booked[u]
      BY <1>13 DEF Rejected, TypeOK
    <2> QED BY <2>1 DEF TypeOK
  <1>14. CASE Mint
    <2>1. PICK v \in Vouchers : booked' = booked /\ state' = [state EXCEPT ![v] = "broadcast_unknown"]
      BY <1>14 DEF Mint, Fresh, In
    <2> QED BY <2>1 DEF TypeOK
  <1>15. CASE RefillEnds
    BY <1>15 DEF RefillEnds, row, Done
  <1>16. CASE Crash
    BY <1>16 DEF Crash, row, Done
  <1>17. CASE Rotate
    BY <1>17 DEF Rotate, row, Done
  <1>18. ASSUME NEW v \in Vouchers, ChainLock(v) \/ Environment(v)
        PROVE  ReadyIsBooked'
    BY <1>18 DEF ChainLock, Environment, Becomes, row, Done
  <1>19. ASSUME NEW v \in Vouchers, Redeem(v)
        PROVE  ReadyIsBooked'
    BY <1>19 DEF Redeem, row, Done
  <1>20. CASE Tick
    BY <1>20 DEF Tick, Older, row, Done
  <1>21. CASE UNCHANGED vars
    BY <1>21 DEF vars, row, Done
  <1> QED BY <1>1, <1>2, <1>3, <1>4, <1>5, <1>6, <1>7, <1>8, <1>9, <1>10, <1>11, <1>12,
             <1>13, <1>14, <1>15, <1>16, <1>17, <1>18, <1>19, <1>20, <1>21
          DEF Next, Issue, Maintain, Settle

-----------------------------------------------------------------------------
\* The empty inventory.
LEMMA InitInv ==
    ASSUME Init
    PROVE  IInv
  <1> USE DEF Init
  <1>1. /\ 0 \in 0 .. HANDLER /\ 0 \in 0 .. MaxRestarts
    BY Ranges, InvitationsAssumption DEF InvitationsAssumption
  <1>2. RowOK
    BY DEF RowOK, States
  <1>3. OpOK
    BY <1>1 DEF OpOK, Phases
  <1>4. WorldOK
    BY <1>1 DEF WorldOK
  <1>5. TypeOK
    BY <1>2, <1>3, <1>4, TypeParts
  <1>6. Selected /\ Opened /\ Answers
    BY DEF Selected, Opened, Answers
  <1>7. Reserved
    BY DEF Reserved
  <1>8. Final /\ Unminted /\ ReadyIsBooked
    BY DEF Final, Unminted, ReadyIsBooked, In
  <1>9. Keyed
    BY NoneApart DEF Keyed
  <1> QED BY <1>5, <1>6, <1>7, <1>8, <1>9 DEF IInv

\* Every step preserves the strengthening.
LEMMA StepInv ==
    ASSUME IInv, [Next]_vars
    PROVE  IInv'
  <1>1. TypeOK' /\ Selected' /\ Opened' /\ Answers'
    BY TypeStep, SelectedStep, OpenedStep, AnswersStep DEF IInv
  <1>2. Reserved' /\ Final' /\ Unminted' /\ Keyed' /\ ReadyIsBooked'
    BY ReservedStep, FinalStep, UnmintedStep, KeyedStep, BookedStep DEF IInv
  <1> QED BY <1>1, <1>2 DEF IInv

(***************************************************************************)
(* Types (invitation_inventory, invitation_hits and the two operations).   *)
(***************************************************************************)
THEOREM TypesHold == Spec => []TypeOK
  <1>1. IInv => TypeOK
    BY DEF IInv
  <1> QED BY <1>1, InitInv, StepInv, PTL DEF Spec

(***************************************************************************)
(* The key of an asset lock on the network is on file until somebody used  *)
(* it: only a claim and a rejection by every relay erase one.              *)
(***************************************************************************)
THEOREM KeysAreKept == Spec => []LockedFundsKeepKey
  <1>1. IInv => LockedFundsKeepKey
    BY DEF IInv, Keyed, LockedFundsKeepKey
  <1> QED BY <1>1, InitInv, StepInv, PTL DEF Spec

(***************************************************************************)
(* A voucher counted on has its spend in the coin ledger, whichever way    *)
(* its broadcast was resolved (settleBroadcast, noteChainLocked).          *)
(***************************************************************************)
THEOREM SpendsAreBooked == Spec => []ReadyIsBooked
  <1>1. IInv => ReadyIsBooked
    BY DEF IInv
  <1> QED BY <1>1, InitInv, StepInv, PTL DEF Spec

NoneGivenStep ==
    \A v \in Vouchers :
        (state[v] = "available" /\ state'[v] = "issued" /\ identity[v] # None) => identity[v] <= hAge

\* Stock leaves by an answer to a request only.
LEMMA OnlyOpenIssues ==
    ASSUME TypeOK, Selected, [Next]_vars, NEW v \in Vouchers,
           state[v] = "available", state'[v] = "issued"
    PROVE  Open
  <1> USE DEF In, row
  <1>1. ASSUME NEW r \in Requests, Replay(r) \/ Refuse(r) \/ BeginIssue(r)
        PROVE  FALSE
    BY <1>1 DEF Replay, Refuse, BeginIssue
  <1>2. CASE CheckClaims \/ BeginMaintain \/ RecycleEnds \/ FollowUpEnds \/ RefillEnds
    BY <1>2 DEF CheckClaims, BeginMaintain, RecycleEnds, FollowUpEnds, RefillEnds
  <1>3. CASE Recycle
    <2>1. PICK u \in Vouchers :
            state[u] = "issued" /\ state' = [state EXCEPT ![u] = state'[u]]
      BY <1>3, RecycleOne
    <2> QED BY <2>1 DEF TypeOK
  <1>4. CASE FollowUp
    <2>1. PICK u \in todo : StillWaiting(u) \/ Ready(u) \/ Resend(u)
      BY <1>4 DEF FollowUp
    <2> QED BY <2>1 DEF StillWaiting, Ready, Resend, TypeOK
  <1>5. ASSUME NEW u \in Vouchers, Accepted(u) \/ Uncertain(u) \/ Rejected(u)
        PROVE  FALSE
    BY <1>5 DEF Accepted, Uncertain, Rejected, TypeOK
  <1>6. CASE Mint
    BY <1>6 DEF Mint, TypeOK
  <1>7. CASE Crash \/ Rotate \/ Tick \/ UNCHANGED vars
    BY <1>7 DEF Crash, Rotate, Tick, vars
  <1>8. ASSUME NEW u \in Vouchers, ChainLock(u) \/ Environment(u) \/ Redeem(u)
        PROVE  FALSE
    BY <1>8 DEF ChainLock, Environment, Becomes, Redeem
  <1> QED BY <1>1, <1>2, <1>3, <1>4, <1>5, <1>6, <1>7, <1>8 DEF Next, Issue, Maintain, Settle
(***************************************************************************)
(* A voucher redeemed before a request came in is not handed out for it    *)
(* (the claim checks of issueInvitationLocked).                            *)
(***************************************************************************)
THEOREM NoneGivenRedeemedHolds == Spec => NoneGivenRedeemed
  <1>1. ASSUME IInv, [Next]_vars
        PROVE  NoneGivenStep
    <2>1. SUFFICES ASSUME NEW u \in Vouchers, state[u] = "available", state'[u] = "issued",
                          identity[u] # None
                   PROVE  identity[u] <= hAge
      BY DEF NoneGivenStep
    <2>2. Open
      BY <1>1, <2>1, OnlyOpenIssues DEF IInv
    <2>3. PICK v \in Vouchers :
            /\ phase = "opening" /\ state' = [state EXCEPT ![v] = state'[v]]
            /\ state'[v] = "issued" => answers[v] = "no"
      BY <1>1, <2>2, VisitOne DEF IInv
    <2>4. u = v
      BY <1>1, <2>1, <2>3 DEF IInv, TypeOK
    <2> QED BY <1>1, <2>1, <2>3, <2>4 DEF IInv, Answers
  <1>2. IInv /\ [Next]_vars => [NoneGivenStep]_vars
    BY <1>1
  <1> QED BY <1>2, InitInv, StepInv, PTL DEF Spec, NoneGivenRedeemed, NoneGivenStep

-----------------------------------------------------------------------------
(***************************************************************************)
(* One issuance per window.  A device's hit is written with the response,  *)
(* later than the rows; and a reservation may be told again long after it  *)
(* was made.  So what is needed is that, as long as no object died of an   *)
(* eviction, both a device's reservations and what it was told of are      *)
(* covered by a hit no older than they are.                                *)
(***************************************************************************)
\* What a device was told within the window has a hit as young.
HitsTell ==
    restarts = 0 => \A v \in Vouchers, d \in Devices :
        (told[v][d] # None /\ told[v][d] < WINDOW) => hits[d] # None /\ hits[d] <= told[v][d]

\* So has a reservation made within it, but for those the request under way made.
HitsIssue ==
    restarts = 0 => \A v \in Vouchers \ got :
        (state[v] = "issued" /\ issued[v] < WINDOW /\ issued[v] < TTL) =>
            hits[device[v]] # None /\ hits[device[v]] <= issued[v]

\* A request under way is one the window let in, when its "now" was read.
Admitted ==
    (restarts = 0 /\ phase \in {"checking", "opening"}) =>
        /\ ~InWindow(req.device)
        /\ \A v \in Vouchers :
              told[v][req.device] = None \/ told[v][req.device] - hAge >= WINDOW

\* No operation, no age.
IdleYoung == phase = "idle" => hAge = 0

Windowed == HitsTell /\ HitsIssue /\ Admitted /\ IdleYoung

\* A step that tells and issues nothing, lets no request in and lets no time pass.
Calm ==
    /\ told' = told
    /\ hits' = hits \/ hits' = prune
    /\ got \subseteq got'
    /\ \A v \in Vouchers : state'[v] = "issued" =>
            state[v] = "issued" /\ device'[v] = device[v] /\ issued'[v] = issued[v]
    /\ phase' \in {"checking", "opening"} =>
            phase \in {"checking", "opening"} /\ UNCHANGED <<req, hAge>>
    /\ phase' = "idle" => hAge' = 0

\* Pruning forgets hits that are out of the window only.
LEMMA PruneForgetsOld ==
    ASSUME NEW k \in Signals
    PROVE  /\ prune[k] = None \/ prune[k] = hits[k]
           /\ hits[k] # None /\ ~(hits[k] > WINDOW) => prune[k] = hits[k]
  BY DEF prune

\* Ages in the ranges their comparisons with the window need.
LEMMA WindowRanges ==
    ASSUME TypeOK
    PROVE  /\ WINDOW \in Nat /\ HANDLER \in Nat /\ hAge \in 0 .. HANDLER
           /\ HitCap \in Nat /\ WINDOW < HitCap
           /\ IssuedCap = TTL /\ TTL \in Nat
           /\ ToldCap \in Nat /\ ToldCap - HANDLER >= WINDOW
           /\ \A k \in Signals : hits[k] # None => hits[k] \in 0 .. HitCap
           /\ \A v \in Vouchers : issued[v] # None => issued[v] \in 0 .. IssuedCap
           /\ \A v \in Vouchers, d \in Devices : told[v][d] # None => told[v][d] \in 0 .. ToldCap
  <1>1. /\ WINDOW \in Nat /\ HANDLER \in Nat /\ hAge \in 0 .. HANDLER
        /\ IssuedCap = TTL /\ TTL \in Nat
    BY Ranges DEF TypeOK
  <1>2. HitCap \in Nat /\ WINDOW < HitCap
    BY <1>1 DEF HitCap, Larger
  <1>3. ToldCap \in Nat /\ ToldCap - HANDLER >= WINDOW
    BY <1>1 DEF ToldCap, Larger
  <1>4. \A k \in Signals : hits[k] # None => hits[k] \in 0 .. HitCap
    BY DEF TypeOK
  <1>5. \A v \in Vouchers : issued[v] # None => issued[v] \in 0 .. IssuedCap
    BY DEF TypeOK
  <1>6. \A v \in Vouchers, d \in Devices : told[v][d] # None => told[v][d] \in 0 .. ToldCap
    BY DEF TypeOK
  <1> QED BY <1>1, <1>2, <1>3, <1>4, <1>5, <1>6

\* A hit that covers an age within the window is not pruned.
LEMMA CoverSurvives ==
    ASSUME TypeOK, hits' = hits \/ hits' = prune, NEW d \in Devices, NEW age \in Int,
           age < WINDOW, hits[d] # None, hits[d] <= age
    PROVE  hits'[d] # None /\ hits'[d] <= age
  <1>1. hits[d] \in Int /\ WINDOW \in Int
    BY WindowRanges DEF Signals
  <1>2. ~(hits[d] > WINDOW)
    BY <1>1
  <1>3. prune[d] = hits[d]
    BY <1>2, PruneForgetsOld DEF Signals
  <1> QED BY <1>3

\* Most steps are calm.
LEMMA CalmSteps ==
    ASSUME IInv, IdleYoung, [Next]_vars
    PROVE  \/ Crash \/ Rotate
           \/ /\ restarts' = restarts
              /\ \/ Calm \/ Open \/ Tick
                 \/ \E r \in Requests : Replay(r) \/ BeginIssue(r)
  <1> USE DEF Calm
  <1>0. TypeOK /\ Selected /\ Opened
    BY DEF IInv
  <1>1. ASSUME NEW r \in Requests, Replay(r) \/ BeginIssue(r)
        PROVE  restarts' = restarts
    BY <1>1 DEF Replay, BeginIssue
  <1>2. ASSUME NEW r \in Requests, Refuse(r)
        PROVE  restarts' = restarts /\ Calm
    BY <1>2 DEF Refuse, row, op, outside, IdleYoung
  <1>4. CASE CheckClaims
    BY <1>4 DEF CheckClaims, row, outside
  <1>5. CASE Open
    BY <1>5 DEF Open
  <1>6. CASE BeginMaintain
    BY <1>6 DEF BeginMaintain, row, outside, Locals
  <1>7. CASE Recycle
    <2>1. PICK v \in Vouchers :
              /\ phase = "recycling" /\ state[v] = "issued"
              /\ UNCHANGED <<phase, hand, booked, hits, Locals, outside, restarts>>
              /\ state' = [state EXCEPT ![v] = state'[v]]
              /\ device' = [device EXCEPT ![v] = device'[v]]
              /\ issued' = [issued EXCEPT ![v] = issued'[v]]
              /\ state'[v] = "issued" => device'[v] = device[v] /\ issued'[v] = issued[v]
      BY <1>0, <1>7, RecycleOne
    <2>2. \A u \in Vouchers : state'[u] = "issued" =>
              state[u] = "issued" /\ device'[u] = device[u] /\ issued'[u] = issued[u]
      BY <1>0, <2>1 DEF TypeOK
    <2> QED BY <2>1, <2>2 DEF Locals, outside
  <1>8. CASE RecycleEnds
    BY <1>8 DEF RecycleEnds, row, outside, Locals
  <1>9. CASE FollowUp
    <2>1. PICK v \in todo : StillWaiting(v) \/ Ready(v) \/ Resend(v)
      BY <1>9 DEF FollowUp
    <2>2. /\ phase = "chainlocks" /\ UNCHANGED <<device, issued>>
          /\ phase' = "chainlocks" \/ phase' = "resending"
          /\ state' = state \/ state' = [state EXCEPT ![v] = "available"]
      BY <1>9, <2>1 DEF FollowUp, StillWaiting, Ready, Resend, row
    <2> QED BY <1>0, <1>9, <2>2 DEF FollowUp, Locals, TypeOK
  <1>10. CASE FollowUpEnds
    BY <1>10 DEF FollowUpEnds, row, outside, Locals
  <1>11. ASSUME NEW v \in Vouchers, Accepted(v) \/ Uncertain(v)
         PROVE  restarts' = restarts /\ Calm
    <2>1. /\ UNCHANGED <<device, issued, hits, told, restarts, got>>
          /\ phase' \in {"refilling", "chainlocks"}
      BY <1>11 DEF Accepted, Uncertain, Proceed, Locals
    <2>2. \A u \in Vouchers : state'[u] = "issued" => state[u] = "issued"
      BY <1>0, <1>11 DEF Accepted, Uncertain, TypeOK
    <2> QED BY <2>1, <2>2
  <1>13. ASSUME NEW v \in Vouchers, Rejected(v)
         PROVE  restarts' = restarts /\ Calm
    <2>1. phase \in {"resending", "minting"} /\ got = {}
      BY <1>0, <1>13 DEF Rejected, InHand, Opened
    <2>2. UNCHANGED <<device, issued, hits, told, restarts>>
      BY <1>13 DEF Rejected, Proceed
    <2>3. \A u \in Vouchers : state'[u] = "issued" => state[u] = "issued"
      BY <1>0, <1>13 DEF Rejected, TypeOK
    <2>4. phase' \in {"refilling", "chainlocks"} \/ (phase' = "idle" /\ hAge' = 0)
      BY <1>13 DEF Rejected, Proceed, Done
    <2> QED BY <2>1, <2>2, <2>3, <2>4
  <1>14. CASE Mint
    <2>1. /\ UNCHANGED <<device, issued, hits, told, restarts, got>> /\ phase' = "minting"
      BY <1>14 DEF Mint, Locals
    <2>2. \A u \in Vouchers : state'[u] = "issued" => state[u] = "issued"
      BY <1>0, <1>14 DEF Mint, TypeOK
    <2> QED BY <2>1, <2>2
  <1>15. CASE RefillEnds
    <2>1. got = {}
      BY <1>0, <1>15 DEF RefillEnds, Opened
    <2> QED BY <1>15, <2>1 DEF RefillEnds, Done, row, outside
  <1>18. ASSUME NEW v \in Vouchers, ChainLock(v) \/ Environment(v) \/ Redeem(v)
         PROVE  restarts' = restarts /\ Calm
    BY <1>18 DEF ChainLock, Environment, Becomes, Redeem, row, op, IdleYoung
  <1>20. CASE Tick
    BY <1>20 DEF Tick
  <1>21. CASE UNCHANGED vars
    BY <1>21 DEF vars, row, op, outside, IdleYoung
  <1> QED BY <1>1, <1>2, <1>4, <1>5, <1>6, <1>7, <1>8, <1>9, <1>10, <1>11, <1>13, <1>14, <1>15,
             <1>18, <1>20, <1>21
          DEF Next, Issue, Maintain, Settle

\* A calm step leaves every covering hit, and the window a request was let in by.
LEMMA CalmKeepsWindow ==
    ASSUME IInv, Windowed, restarts = 0, Calm
    PROVE  Windowed'
  <1>0. TypeOK /\ Opened
    BY DEF IInv
  <1>2. \A d \in Devices : hits'[d] = None \/ hits'[d] = hits[d]
    BY PruneForgetsOld DEF Calm, Signals
  <1>3. ASSUME NEW d \in Devices, NEW age \in Int, age < WINDOW, hits[d] # None, hits[d] <= age
        PROVE  hits'[d] # None /\ hits'[d] <= age
    BY <1>0, <1>3, CoverSurvives DEF Calm
  <1>4. HitsTell'
    <2>1. ASSUME NEW v \in Vouchers, NEW d \in Devices, told[v][d] # None, told[v][d] < WINDOW
          PROVE  hits'[d] # None /\ hits'[d] <= told[v][d]
      <3>1. told[v][d] \in Int
        BY <1>0, <2>1, WindowRanges
      <3>2. hits[d] # None /\ hits[d] <= told[v][d]
        BY <2>1 DEF Windowed, HitsTell
      <3> QED BY <1>3, <2>1, <3>1, <3>2
    <2> QED BY <2>1 DEF HitsTell, Calm
  <1>5. HitsIssue'
    <2>1. ASSUME NEW v \in Vouchers \ got', state'[v] = "issued", issued'[v] < WINDOW, issued'[v] < TTL
          PROVE  hits'[device'[v]] # None /\ hits'[device'[v]] <= issued'[v]
      <3>1. /\ v \in Vouchers \ got /\ state[v] = "issued"
            /\ device'[v] = device[v] /\ issued'[v] = issued[v]
        BY <2>1 DEF Calm
      <3>2. device[v] \in Devices /\ issued[v] # None
        BY <1>0, <3>1 DEF TypeOK
      <3>3. issued[v] \in Int
        BY <1>0, <3>1, <3>2, WindowRanges
      <3>4. hits[device[v]] # None /\ hits[device[v]] <= issued[v]
        BY <2>1, <3>1 DEF Windowed, HitsIssue
      <3> QED BY <1>3, <2>1, <3>1, <3>2, <3>3, <3>4
    <2> QED BY <2>1 DEF HitsIssue
  <1>6. Admitted'
    <2>1. SUFFICES ASSUME phase' \in {"checking", "opening"}
                   PROVE  /\ ~(hits'[req'.device] # None /\ hits'[req'.device] < WINDOW)
                          /\ \A v \in Vouchers : \/ told'[v][req'.device] = None
                                                 \/ told'[v][req'.device] - hAge' >= WINDOW
      BY DEF Admitted, InWindow
    <2>2. phase \in {"checking", "opening"} /\ UNCHANGED <<req, hAge, told>>
      BY <2>1 DEF Calm
    <2>3. /\ ~(hits[req.device] # None /\ hits[req.device] < WINDOW)
          /\ \A v \in Vouchers : told[v][req.device] = None \/ told[v][req.device] - hAge >= WINDOW
      BY <2>2 DEF Windowed, Admitted, InWindow
    <2>4. req.device \in Devices
      BY <1>0, <2>2 DEF TypeOK, Requests
    <2> QED BY <1>2, <2>2, <2>3, <2>4
  <1>7. IdleYoung'
    BY DEF IdleYoung, Calm
  <1> QED BY <1>4, <1>5, <1>6, <1>7 DEF Windowed

\* A replay tells of reservations, which have their hits already.
LEMMA ReplayKeepsWindow ==
    ASSUME IInv, Windowed, restarts = 0, NEW r \in Requests, Replay(r)
    PROVE  Windowed'
  <1>0. TypeOK /\ Opened
    BY DEF IInv
  <1>1. /\ phase = "idle" /\ UNCHANGED <<state, device, issued, got, hAge, phase, req>>
        /\ hits' = prune /\ Recall(r.device, Prior(r.device))
    BY DEF Replay, row, op
  <1>2. got = {}
    BY <1>0, <1>1 DEF Opened
  <1>3. \A v \in Vouchers, d \in Devices :
            \/ told'[v][d] = told[v][d]
            \/ v \in Prior(r.device) /\ d = r.device /\ told'[v][d] = issued[v]
    BY <1>0, <1>1 DEF Recall, TypeOK
  <1>4. ASSUME NEW d \in Devices, NEW age \in Int, age < WINDOW, hits[d] # None, hits[d] <= age
        PROVE  hits'[d] # None /\ hits'[d] <= age
    BY <1>0, <1>1, <1>4, CoverSurvives
  <1>5. HitsTell'
    <2>1. ASSUME NEW v \in Vouchers, NEW d \in Devices, told'[v][d] # None, told'[v][d] < WINDOW
          PROVE  hits'[d] # None /\ hits'[d] <= told'[v][d]
      <3>1. CASE told'[v][d] = told[v][d]
        <4>1. told[v][d] \in Int
          BY <1>0, <2>1, <3>1, WindowRanges
        <4>2. hits[d] # None /\ hits[d] <= told[v][d]
          BY <2>1, <3>1 DEF Windowed, HitsTell
        <4> QED BY <1>4, <2>1, <3>1, <4>1, <4>2
      <3>2. CASE v \in Prior(r.device) /\ d = r.device /\ told'[v][d] = issued[v]
        <4>1. state[v] = "issued" /\ device[v] = d /\ issued[v] < TTL
          BY <3>2 DEF Prior
        <4>2. hits[d] # None /\ hits[d] <= issued[v]
          BY <1>2, <2>1, <3>2, <4>1 DEF Windowed, HitsIssue
        <4>3. issued[v] \in Int
          BY <1>0, <2>1, <3>2, WindowRanges
        <4> QED BY <1>4, <2>1, <3>2, <4>2, <4>3
      <3> QED BY <1>3, <3>1, <3>2
    <2> QED BY <2>1 DEF HitsTell
  <1>6. HitsIssue'
    <2>1. ASSUME NEW v \in Vouchers, state[v] = "issued", issued[v] < WINDOW, issued[v] < TTL
          PROVE  hits'[device[v]] # None /\ hits'[device[v]] <= issued[v]
      <3>1. device[v] \in Devices /\ issued[v] # None
        BY <1>0, <2>1 DEF TypeOK
      <3>2. issued[v] \in Int
        BY <1>0, <3>1, WindowRanges
      <3>3. hits[device[v]] # None /\ hits[device[v]] <= issued[v]
        BY <1>2, <2>1 DEF Windowed, HitsIssue
      <3> QED BY <1>4, <2>1, <3>1, <3>2, <3>3
    <2> QED BY <1>1, <2>1 DEF HitsIssue
  <1>7. Admitted' /\ IdleYoung'
    BY <1>1 DEF Admitted, IdleYoung, Windowed
  <1> QED BY <1>5, <1>6, <1>7 DEF Windowed

\* A request is let in only by a window in which its device was told nothing.
LEMMA BeginKeepsWindow ==
    ASSUME IInv, Windowed, restarts = 0, NEW r \in Requests, BeginIssue(r)
    PROVE  Windowed'
  <1>0. TypeOK /\ Opened /\ r.device \in Devices
    BY DEF IInv, Requests
  <1>1. /\ phase = "idle" /\ UNCHANGED <<state, device, issued, got, hAge, told>>
        /\ phase' = "checking" /\ req' = r /\ hits' = prune
        /\ WINDOW > 0 => ~InWindow(r.device)
    BY DEF BeginIssue, row, outside
  <1>2. got = {} /\ hAge = 0
    BY <1>0, <1>1 DEF Opened, Windowed, IdleYoung
  <1>4. ASSUME NEW d \in Devices, NEW age \in Int, age < WINDOW, hits[d] # None, hits[d] <= age
        PROVE  hits'[d] # None /\ hits'[d] <= age
    BY <1>0, <1>1, <1>4, CoverSurvives
  <1>5. HitsTell'
    <2>1. ASSUME NEW v \in Vouchers, NEW d \in Devices, told[v][d] # None, told[v][d] < WINDOW
          PROVE  hits'[d] # None /\ hits'[d] <= told[v][d]
      <3>1. told[v][d] \in Int
        BY <1>0, <2>1, WindowRanges
      <3>2. hits[d] # None /\ hits[d] <= told[v][d]
        BY <2>1 DEF Windowed, HitsTell
      <3> QED BY <1>4, <2>1, <3>1, <3>2
    <2> QED BY <1>1, <2>1 DEF HitsTell
  <1>6. HitsIssue'
    <2>1. ASSUME NEW v \in Vouchers, state[v] = "issued", issued[v] < WINDOW, issued[v] < TTL
          PROVE  hits'[device[v]] # None /\ hits'[device[v]] <= issued[v]
      <3>1. device[v] \in Devices /\ issued[v] # None
        BY <1>0, <2>1 DEF TypeOK
      <3>2. issued[v] \in Int
        BY <1>0, <3>1, WindowRanges
      <3>3. hits[device[v]] # None /\ hits[device[v]] <= issued[v]
        BY <1>2, <2>1 DEF Windowed, HitsIssue
      <3> QED BY <1>4, <2>1, <3>1, <3>2, <3>3
    <2> QED BY <1>1, <2>1 DEF HitsIssue
  <1>7. Admitted'
    <2>1. ~(hits'[r.device] # None /\ hits'[r.device] < WINDOW)
      <3>1. hits'[r.device] = None \/ hits'[r.device] = hits[r.device]
        BY <1>0, <1>1, PruneForgetsOld DEF Signals
      <3>2. hits[r.device] # None => hits[r.device] \in Nat /\ WINDOW \in Nat
        BY <1>0, WindowRanges DEF Signals
      <3> QED BY <1>1, <3>1, <3>2 DEF InWindow
    <2>2. ASSUME NEW v \in Vouchers, told[v][r.device] # None
          PROVE  told[v][r.device] - 0 >= WINDOW
      <3>1. told[v][r.device] \in Nat /\ WINDOW \in Nat
        BY <1>0, <2>2, WindowRanges
      <3>2. CASE WINDOW = 0
        BY <3>1, <3>2
      <3>3. CASE WINDOW > 0 /\ told[v][r.device] < WINDOW
        <4>1. hits[r.device] # None /\ hits[r.device] <= told[v][r.device]
          BY <1>0, <2>2, <3>3 DEF Windowed, HitsTell
        <4>2. hits[r.device] \in Nat
          BY <1>0, <4>1, WindowRanges DEF Signals
        <4>3. InWindow(r.device)
          BY <3>1, <3>3, <4>1, <4>2 DEF InWindow
        <4> QED BY <1>1, <3>3, <4>3
      <3> QED BY <3>1, <3>2, <3>3
    <2>3. \A v \in Vouchers : told'[v][req'.device] = None \/ told'[v][req'.device] - hAge' >= WINDOW
      BY <1>1, <1>2, <2>2
    <2> QED BY <1>1, <2>1, <2>3 DEF Admitted, InWindow
  <1>8. IdleYoung'
    BY <1>1 DEF IdleYoung
  <1> QED BY <1>5, <1>6, <1>7, <1>8 DEF Windowed

\* The response writes the hit of whatever the request opened.
LEMMA OpenKeepsWindow ==
    ASSUME IInv, Windowed, restarts = 0, Open
    PROVE  Windowed'
  <1>0. TypeOK /\ Selected /\ Opened
    BY DEF IInv
  <1>1. PICK v \in Vouchers :
            /\ phase = "opening" /\ state[v] = "available" /\ req.device \in Devices
            /\ state' = [state EXCEPT ![v] = state'[v]]
            /\ device' = [device EXCEPT ![v] = device'[v]]
            /\ issued' = [issued EXCEPT ![v] = issued'[v]]
            /\ state'[v] = "issued" => v \in GotBy(v)
            /\ got \subseteq GotBy(v) /\ GotBy(v) \subseteq got \cup {v}
            /\ v \in GotBy(v) \ got =>
                  state'[v] = "issued" /\ device'[v] = req.device /\ issued'[v] = hAge
            /\ \/ Respond(GotBy(v)) /\ Done
               \/ /\ got' = GotBy(v) /\ phase' \in {"checking", "opening"}
                  /\ UNCHANGED <<hits, told, hAge, req>>
    BY <1>0, VisitOne
  <1>2. \A u \in Vouchers \ {v} :
            state'[u] = state[u] /\ device'[u] = device[u] /\ issued'[u] = issued[u]
    BY <1>0, <1>1 DEF TypeOK
  <1>3. \A u \in GotBy(v) : device'[u] = req.device /\ issued'[u] = hAge
    <2>1. \A u \in got : u \in Vouchers \ {v} /\ device[u] = req.device /\ issued[u] = hAge
      BY <1>0, <1>1 DEF Opened, TypeOK
    <2> QED BY <1>1, <1>2, <2>1
  <1>4. \A u \in Vouchers \ GotBy(v) : state'[u] = "issued" => u # v /\ u \notin got
    BY <1>1
  <1>5. /\ ~InWindow(req.device)
        /\ \A u \in Vouchers : told[u][req.device] = None \/ told[u][req.device] - hAge >= WINDOW
    BY <1>1 DEF Windowed, Admitted
  <1>6. CASE /\ got' = GotBy(v) /\ phase' \in {"checking", "opening"}
             /\ UNCHANGED <<hits, told, hAge, req>>
    <2>1. HitsTell'
      BY <1>6 DEF HitsTell, Windowed
    <2>2. HitsIssue'
      <3>1. ASSUME NEW u \in Vouchers \ got', state'[u] = "issued",
                   issued'[u] < WINDOW, issued'[u] < TTL
            PROVE  hits'[device'[u]] # None /\ hits'[device'[u]] <= issued'[u]
        <4>1. /\ u \in Vouchers \ got /\ state[u] = "issued"
              /\ device'[u] = device[u] /\ issued'[u] = issued[u]
          BY <1>2, <1>4, <1>6, <3>1
        <4> QED BY <1>6, <3>1, <4>1 DEF Windowed, HitsIssue
      <3> QED BY <3>1 DEF HitsIssue
    <2>3. Admitted'
      BY <1>5, <1>6 DEF Admitted, InWindow
    <2>4. IdleYoung'
      BY <1>6 DEF IdleYoung
    <2> QED BY <2>1, <2>2, <2>3, <2>4 DEF Windowed
  <1>7. CASE Respond(GotBy(v)) /\ Done
    <2>1. /\ \A d \in Devices \ {req.device} : hits'[d] = hits[d]
          /\ GotBy(v) # {} => hits'[req.device] = hAge
          /\ GotBy(v) = {} => hits'[req.device] = hits[req.device]
      <3>1. req.ip \in Ips /\ \A d \in Devices : d # req.ip /\ d \in Signals
        BY <1>0, <1>1, InvitationsAssumption DEF TypeOK, Requests, InvitationsAssumption, Signals
      <3> QED BY <1>1, <1>7, <3>1 DEF Respond
    <2>2. \A u \in Vouchers, d \in Devices :
            \/ told'[u][d] = told[u][d]
            \/ GotBy(v) # {} /\ d = req.device /\ told'[u][d] = hAge
      BY <1>0, <1>1, <1>7 DEF Respond, TypeOK
    <2>3. hAge \in Nat /\ hAge # None /\ WINDOW \in Nat
      BY <1>0, WindowRanges, NoneApart
    <2>4. HitsTell'
      <3>1. ASSUME NEW u \in Vouchers, NEW d \in Devices, told'[u][d] # None, told'[u][d] < WINDOW
            PROVE  hits'[d] # None /\ hits'[d] <= told'[u][d]
        <4>1. CASE GotBy(v) # {} /\ d = req.device /\ told'[u][d] = hAge
          BY <2>1, <2>3, <4>1
        <4>2. CASE told'[u][d] = told[u][d]
          <5>1. told[u][d] \in Nat
            BY <1>0, <3>1, <4>2, WindowRanges
          <5>2. d # req.device
            <6>1. SUFFICES ASSUME d = req.device PROVE FALSE
              OBVIOUS
            <6>2. told[u][d] - hAge >= WINDOW
              BY <1>5, <3>1, <4>2, <6>1
            <6> QED BY <2>3, <3>1, <4>2, <5>1, <6>2
          <5>3. hits[d] # None /\ hits[d] <= told[u][d]
            BY <3>1, <4>2 DEF Windowed, HitsTell
          <5> QED BY <2>1, <4>2, <5>2, <5>3
        <4> QED BY <2>2, <4>1, <4>2
      <3> QED BY <3>1 DEF HitsTell
    <2>5. HitsIssue'
      <3>1. ASSUME NEW u \in Vouchers, state'[u] = "issued", issued'[u] < WINDOW, issued'[u] < TTL
            PROVE  hits'[device'[u]] # None /\ hits'[device'[u]] <= issued'[u]
        <4>1. CASE u \in GotBy(v)
          <5>1. device'[u] = req.device /\ issued'[u] = hAge /\ hits'[req.device] = hAge
            BY <1>3, <2>1, <4>1
          <5> QED BY <2>3, <5>1
        <4>2. CASE u \notin GotBy(v)
          <5>1. /\ u \in Vouchers \ got /\ state[u] = "issued"
                /\ device'[u] = device[u] /\ issued'[u] = issued[u]
            BY <1>2, <1>4, <3>1, <4>2
          <5>2. hits[device[u]] # None /\ hits[device[u]] <= issued[u]
            BY <3>1, <5>1 DEF Windowed, HitsIssue
          <5>3. device[u] \in Devices /\ issued[u] # None
            BY <1>0, <5>1 DEF TypeOK
          <5>4. hits[device[u]] \in Nat /\ issued[u] \in Nat
            BY <1>0, <5>2, <5>3, WindowRanges DEF Signals
          <5>5. device[u] # req.device
            <6>1. InWindow(device[u])
              BY <2>3, <3>1, <5>1, <5>2, <5>4 DEF InWindow
            <6> QED BY <1>5, <6>1
          <5> QED BY <2>1, <5>1, <5>2, <5>3, <5>5
        <4> QED BY <4>1, <4>2
      <3> QED BY <3>1 DEF HitsIssue
    <2>6. Admitted' /\ IdleYoung'
      BY <1>7 DEF Done, Admitted, IdleYoung
    <2> QED BY <2>4, <2>5, <2>6 DEF Windowed
  <1> QED BY <1>1, <1>6, <1>7

\* A hit ages with what it covers.
LEMMA TickKeepsWindow ==
    ASSUME IInv, Windowed, restarts = 0, Tick
    PROVE  Windowed'
  <1>0. TypeOK
    BY DEF IInv
  <1>1. /\ hits' = [k \in Signals |-> Older(hits[k], HitCap)]
        /\ issued' = [v \in Vouchers |-> Older(issued[v], IssuedCap)]
        /\ told' = [v \in Vouchers |-> [d \in Devices |-> Older(told[v][d], ToldCap)]]
        /\ UNCHANGED <<state, device, phase, req, got, restarts>>
        /\ hAge' = IF phase = "idle" THEN hAge ELSE hAge + 1
        /\ phase # "idle" => hAge < HANDLER
    BY DEF Tick
  <1>2. /\ WINDOW \in Nat /\ HANDLER \in Nat /\ hAge \in 0 .. HANDLER
        /\ HitCap \in Nat /\ WINDOW < HitCap /\ IssuedCap = TTL /\ TTL \in Nat
        /\ ToldCap \in Nat /\ ToldCap - HANDLER >= WINDOW
    BY <1>0, WindowRanges
  <1>3. ASSUME NEW d \in Devices, NEW age \in Nat, age < WINDOW, hits[d] # None, hits[d] <= age
        PROVE  hits'[d] # None /\ hits'[d] <= age + 1
    <2>1. hits[d] \in Nat /\ hits[d] # HitCap /\ hits'[d] = Older(hits[d], HitCap)
      BY <1>0, <1>1, <1>2, <1>3, WindowRanges DEF Signals
    <2> QED BY <1>3, <2>1, NoneApart DEF Older
  <1>4. HitsTell'
    <2>1. ASSUME NEW v \in Vouchers, NEW d \in Devices, told'[v][d] # None, told'[v][d] < WINDOW
          PROVE  hits'[d] # None /\ hits'[d] <= told'[v][d]
      <3>1. told'[v][d] = Older(told[v][d], ToldCap)
        BY <1>1
      <3>2. told[v][d] \in Nat /\ told[v][d] # None
        BY <1>0, <2>1, <3>1, WindowRanges DEF Older
      <3>3. told'[v][d] = told[v][d] + 1
        BY <1>2, <2>1, <3>1, <3>2 DEF Older
      <3>4. hits[d] # None /\ hits[d] <= told[v][d]
        BY <1>2, <2>1, <3>2, <3>3 DEF Windowed, HitsTell
      <3> QED BY <1>2, <1>3, <2>1, <3>2, <3>3, <3>4
    <2> QED BY <2>1 DEF HitsTell
  <1>5. HitsIssue'
    <2>1. ASSUME NEW v \in Vouchers \ got, state[v] = "issued", issued'[v] < WINDOW, issued'[v] < TTL
          PROVE  hits'[device[v]] # None /\ hits'[device[v]] <= issued'[v]
      <3>1. device[v] \in Devices /\ issued[v] # None
        BY <1>0, <2>1 DEF TypeOK
      <3>2. issued[v] \in Nat /\ issued'[v] = Older(issued[v], IssuedCap)
        BY <1>0, <1>1, <3>1, WindowRanges
      <3>3. issued'[v] = issued[v] + 1
        BY <1>2, <2>1, <3>1, <3>2 DEF Older
      <3>4. hits[device[v]] # None /\ hits[device[v]] <= issued[v]
        BY <1>2, <2>1, <3>2, <3>3 DEF Windowed, HitsIssue
      <3> QED BY <1>2, <1>3, <2>1, <3>1, <3>2, <3>3, <3>4
    <2> QED BY <1>1, <2>1 DEF HitsIssue
  <1>6. Admitted'
    <2>1. SUFFICES ASSUME phase \in {"checking", "opening"}
                   PROVE  /\ ~(hits'[req.device] # None /\ hits'[req.device] < WINDOW)
                          /\ \A v \in Vouchers : \/ told'[v][req.device] = None
                                                 \/ told'[v][req.device] - hAge' >= WINDOW
      BY <1>1 DEF Admitted, InWindow
    <2>2. /\ ~(hits[req.device] # None /\ hits[req.device] < WINDOW)
          /\ \A v \in Vouchers : told[v][req.device] = None \/ told[v][req.device] - hAge >= WINDOW
      BY <2>1 DEF Windowed, Admitted, InWindow
    <2>3. req.device \in Devices /\ hAge' = hAge + 1 /\ hAge < HANDLER
      BY <1>0, <1>1, <2>1 DEF TypeOK, Requests
    <2>4. ~(hits'[req.device] # None /\ hits'[req.device] < WINDOW)
      <3>1. hits'[req.device] = Older(hits[req.device], HitCap)
        BY <1>1, <2>3 DEF Signals
      <3>2. CASE hits[req.device] = None
        BY <3>1, <3>2 DEF Older
      <3>3. CASE hits[req.device] # None
        <4>1. hits[req.device] \in Nat
          BY <1>0, <2>3, <3>3, WindowRanges DEF Signals
        <4> QED BY <1>2, <2>2, <3>1, <3>3, <4>1 DEF Older
      <3> QED BY <3>2, <3>3
    <2>5. ASSUME NEW v \in Vouchers
          PROVE  told'[v][req.device] = None \/ told'[v][req.device] - hAge' >= WINDOW
      <3>1. told'[v][req.device] = Older(told[v][req.device], ToldCap)
        BY <1>1, <2>3
      <3>2. CASE told[v][req.device] = None
        BY <3>1, <3>2 DEF Older
      <3>3. CASE told[v][req.device] # None
        <4>1. told[v][req.device] \in 0 .. ToldCap
          BY <1>0, <2>3, <3>3, WindowRanges
        <4>2. told[v][req.device] - hAge >= WINDOW
          BY <2>2, <3>3
        <4> QED BY <1>2, <2>3, <3>1, <3>3, <4>1, <4>2 DEF Older
      <3> QED BY <3>2, <3>3
    <2> QED BY <2>4, <2>5
  <1>7. IdleYoung'
    BY <1>1 DEF IdleYoung, Windowed
  <1> QED BY <1>4, <1>5, <1>6, <1>7 DEF Windowed

\* The age goes with the operation, however it ends.
LEMMA IdleStep ==
    ASSUME IInv, IdleYoung, [Next]_vars
    PROVE  IdleYoung'
  <1> USE DEF IdleYoung
  <1>1. CASE Crash \/ Rotate
    BY <1>1 DEF Crash, Rotate, Done, op
  <1>2. CASE Calm \/ Tick
    BY <1>2 DEF Calm, Tick
  <1>3. CASE Open
    <2>1. Done \/ phase' \in {"checking", "opening"}
      BY <1>3, VisitOne DEF IInv
    <2> QED BY <2>1 DEF Done
  <1>4. ASSUME NEW r \in Requests, Replay(r) \/ BeginIssue(r)
        PROVE  IdleYoung'
    BY <1>4 DEF Replay, BeginIssue, op
  <1> QED BY <1>1, <1>2, <1>3, <1>4, CalmSteps

\* No step takes the hits from what they have to cover.
LEMMA WindowedStep ==
    ASSUME IInv, Windowed, [Next]_vars
    PROVE  Windowed'
  <1>1. CASE restarts = 0 /\ restarts' = restarts
    <2>1. \/ Calm \/ Open \/ Tick
          \/ \E r \in Requests : Replay(r) \/ BeginIssue(r)
      <3>1. ~Crash /\ ~Rotate
        BY <1>1 DEF Crash, Rotate
      <3> QED BY <3>1, CalmSteps DEF Windowed
    <2> QED BY <1>1, <2>1, CalmKeepsWindow, OpenKeepsWindow, TickKeepsWindow,
               ReplayKeepsWindow, BeginKeepsWindow
  <1>2. CASE ~(restarts = 0 /\ restarts' = restarts)
    <2>1. restarts' # 0
      <3>1. restarts' = restarts \/ restarts' = restarts + 1
        BY CalmSteps DEF Windowed, Crash, Rotate
      <3>2. restarts \in Nat
        BY InvitationsAssumption DEF IInv, TypeOK, InvitationsAssumption
      <3> QED BY <1>2, <3>1, <3>2
    <2>2. HitsTell' /\ HitsIssue' /\ Admitted'
      BY <2>1 DEF HitsTell, HitsIssue, Admitted
    <2>3. IdleYoung'
      BY IdleStep DEF Windowed
    <2> QED BY <2>2, <2>3 DEF Windowed
  <1> QED BY <1>1, <1>2

\* What a response of an uninterrupted object promises of the window.
OneIssuanceStep ==
    (restarts = 0 /\ phase = "opening" /\ phase' = "idle" /\ told' # told) =>
        \A v \in Vouchers :
            LET before == told[v][req.device]
            IN  before = None \/ before - hAge >= WINDOW

(***************************************************************************)
(* A device is answered with new vouchers only when whatever it was told   *)
(* before it was told a window ago, replays included (the rate window of   *)
(* issueInvitationLocked), for whatever windows, hours and requests.       *)
(***************************************************************************)
THEOREM OneIssuanceHolds == Spec => OneIssuancePerWindow
  <1>1. Init => IInv /\ Windowed
    <2>1. ASSUME Init
          PROVE  Windowed
      BY <2>1 DEF Init, Windowed, HitsTell, HitsIssue, Admitted, IdleYoung
    <2> QED BY <2>1, InitInv
  <1>2. IInv /\ Windowed /\ [Next]_vars => (IInv /\ Windowed)'
    BY StepInv, WindowedStep
  <1>3. IInv /\ Windowed /\ [Next]_vars => [OneIssuanceStep]_vars
    BY DEF Windowed, Admitted, OneIssuanceStep
  <1> QED BY <1>1, <1>2, <1>3, PTL DEF Spec, OneIssuancePerWindow, OneIssuanceStep

-----------------------------------------------------------------------------
(***************************************************************************)
(* The refinement.  A response is Bearers' Give, a tick its Lapse, and a   *)
(* ChainLock its Finalize; everything else but a redemption leaves what    *)
(* was promised alone.                                                     *)
(***************************************************************************)
bearersBar == [v \in Vouchers |-> Current(v)]
knownBar == [v \in Vouchers |-> {d \in Devices : told[v][d] # None}]
finalBar == {v \in Vouchers : net[v] = "locked"}
redeemedBar == {v \in Vouchers : identity[v] # None}

\* A response for vouchers out in d's name, and out in nobody else's, gives them.
LEMMA TellingGives ==
    ASSUME TypeOK, Reserved, NEW d \in Devices, NEW S \in SUBSET finalBar,
           UNCHANGED <<net, identity>>,
           \A v \in S : state[v] = "issued" => device[v] = d,
           \A v \in S : told'[v][d] # None /\ told'[v][d] < TTL,
           \A v \in Vouchers, e \in Devices :
                ~(v \in S /\ e = d) => told'[v][e] = told[v][e]
    PROVE  Promise!Give(d, S)
  <1>1. \A v \in S : Current(v) \subseteq {d}
    BY DEF Reserved, Current, finalBar
  <1>2. ASSUME NEW v \in S
        PROVE  /\ Current(v)' = {d}
               /\ {e \in Devices : told'[v][e] # None}
                    = {e \in Devices : told[v][e] # None} \cup {d}
    <2>1. v \in Vouchers
      BY DEF finalBar
    <2>2. \A e \in Devices \ {d} : told'[v][e] = told[v][e]
      BY <2>1
    <2>3. \A e \in Devices \ {d} : ~(told'[v][e] # None /\ told'[v][e] < TTL)
      BY <1>1, <2>2 DEF Current
    <2>4. Current(v)' = {d}
      BY <2>3 DEF Current
    <2> QED BY <2>2, <2>4
  <1>3. ASSUME NEW v \in Vouchers \ S
        PROVE  /\ Current(v)' = Current(v)
               /\ {e \in Devices : told'[v][e] # None} = {e \in Devices : told[v][e] # None}
    <2>1. \A e \in Devices : told'[v][e] = told[v][e]
      BY <1>3
    <2> QED BY <2>1 DEF Current
  <1>4. bearersBar' = [v \in Vouchers |-> IF v \in S THEN {d} ELSE bearersBar[v]]
    BY <1>2, <1>3 DEF bearersBar
  <1>5. knownBar' = [v \in Vouchers |-> IF v \in S THEN knownBar[v] \cup {d} ELSE knownBar[v]]
    BY <1>2, <1>3 DEF knownBar
  <1>6. UNCHANGED <<finalBar, redeemedBar>>
    BY DEF finalBar, redeemedBar
  <1>7. \A v \in S : bearersBar[v] \subseteq {d}
    BY <1>1 DEF bearersBar, finalBar
  <1> QED BY <1>4, <1>5, <1>6, <1>7
      DEF Promise!Give, bearersBar, knownBar, finalBar, redeemedBar

\* What leaves the promise alone.
LEMMA QuietStutters ==
    ASSUME told' = told, finalBar' = finalBar, redeemedBar' = redeemedBar
    PROVE  UNCHANGED Promise!vars
  <1>1. bearersBar' = bearersBar /\ knownBar' = knownBar
    BY DEF bearersBar, knownBar, Current
  <1> QED BY <1>1 DEF Promise!vars, bearersBar, knownBar, finalBar, redeemedBar

\* Nothing outside moved.
LEMMA SameStutters ==
    ASSUME UNCHANGED <<net, identity, told>>
    PROVE  UNCHANGED Promise!vars
  <1>1. finalBar' = finalBar /\ redeemedBar' = redeemedBar
    BY DEF finalBar, redeemedBar
  <1> QED BY <1>1, QuietStutters

\* A step of the lock that is not on the network's side of it.
LEMMA UnlockedStutters ==
    ASSUME TypeOK, UNCHANGED <<told, identity>>, NEW v \in Vouchers, net[v] # "locked",
           NEW status, net' = [net EXCEPT ![v] = status], status # "locked"
    PROVE  UNCHANGED Promise!vars
  <1>1. finalBar' = finalBar
    BY DEF finalBar, TypeOK
  <1>2. redeemedBar' = redeemedBar
    BY DEF redeemedBar
  <1> QED BY <1>1, <1>2, QuietStutters

\* The same vouchers again.
LEMMA ReplayGives ==
    ASSUME IInv, NEW r \in Requests, Replay(r)
    PROVE  Promise!Next
  <1>0. PICK d, S : d = r.device /\ S = Prior(d)
    OBVIOUS
  <1>1. d \in Devices
    BY <1>0 DEF Requests
  <1>2. UNCHANGED <<net, identity>> /\ Recall(d, S)
    BY <1>0 DEF Replay
  <1>3. S \in SUBSET finalBar
    BY <1>0 DEF IInv, Final, In, Prior, finalBar
  <1>4. \A v \in S : device[v] = d
    BY <1>0 DEF Prior
  <1>5. \A v \in S : told'[v][d] # None /\ told'[v][d] < TTL
    <2>1. \A v \in S : v \in Vouchers /\ issued[v] # None /\ issued[v] < TTL
      BY <1>0 DEF Prior, IInv, TypeOK
    <2>2. \A v \in S : told'[v][d] = issued[v]
      BY <1>1, <1>2, <2>1 DEF Recall, IInv, TypeOK
    <2> QED BY <2>1, <2>2
  <1>6. \A v \in Vouchers, e \in Devices : ~(v \in S /\ e = d) => told'[v][e] = told[v][e]
    BY <1>2 DEF Recall, IInv, TypeOK
  <1>7. Promise!Give(d, S)
    BY <1>1, <1>2, <1>3, <1>4, <1>5, <1>6, TellingGives DEF IInv
  <1> QED BY <1>1, <1>3, <1>7 DEF Promise!Next, finalBar

\* The last visit of a request answers it.
LEMMA OpenGives ==
    ASSUME IInv, Open
    PROVE  Promise!Next \/ UNCHANGED Promise!vars
  <1>1. PICK v \in Vouchers :
            /\ phase = "opening" /\ state[v] = "available"
            /\ req.device \in Devices
            /\ UNCHANGED <<net, identity>>
            /\ GotBy(v) \subseteq got \cup {v}
            /\ Respond(GotBy(v)) \/ told' = told
    BY VisitOne DEF IInv
  <1>2. CASE told' = told
    BY <1>1, <1>2, SameStutters
  <1>3. CASE Respond(GotBy(v))
    <2>0. PICK d, S : d = req.device /\ S = GotBy(v)
      OBVIOUS
    <2>1. \A u \in S : u \in Vouchers /\ (u = v \/ (state[u] = "issued" /\ device[u] = d))
      BY <1>1, <2>0 DEF IInv, Opened, TypeOK
    <2>2. S \in SUBSET finalBar
      BY <1>1, <2>1 DEF IInv, Final, In, finalBar
    <2>3. \A u \in S : state[u] = "issued" => device[u] = d
      BY <1>1, <2>1
    <2>4. \A u \in S : told'[u][d] = hAge
      BY <1>1, <1>3, <2>0, <2>1 DEF Respond, IInv, TypeOK
    <2>5. hAge # None /\ hAge < TTL
      BY Ranges, NoneApart DEF IInv, TypeOK
    <2>6. \A u \in Vouchers, e \in Devices : ~(u \in S /\ e = d) => told'[u][e] = told[u][e]
      BY <1>3, <2>0 DEF Respond, IInv, TypeOK
    <2>7. d \in Devices /\ UNCHANGED <<net, identity>>
      BY <1>1, <2>0
    <2>8. Promise!Give(d, S)
      BY <2>2, <2>3, <2>4, <2>5, <2>6, <2>7, TellingGives DEF IInv
    <2> QED BY <2>2, <2>7, <2>8 DEF Promise!Next, finalBar
  <1> QED BY <1>1, <1>2, <1>3

\* Time lets reservations lapse and takes back nothing else.
LEMMA TickLapses ==
    ASSUME IInv, Tick
    PROVE  Promise!Next
  <1>1. /\ net' = net
        /\ identity' = [v \in Vouchers |-> Older(identity[v], IdentityCap)]
        /\ told' = [v \in Vouchers |-> [d \in Devices |-> Older(told[v][d], ToldCap)]]
    BY DEF Tick
  <1>2. ASSUME NEW v \in Vouchers, NEW d \in Devices
        PROVE  /\ told'[v][d] = None <=> told[v][d] = None
               /\ told'[v][d] # None /\ told'[v][d] < TTL => told[v][d] # None /\ told[v][d] < TTL
    <2>1. told[v][d] \in 0 .. ToldCap \cup {None} /\ told'[v][d] = Older(told[v][d], ToldCap)
      BY <1>1 DEF IInv, TypeOK
    <2> QED BY <2>1, Ranges, NoneApart DEF Older
  <1>3. \A v \in Vouchers : identity'[v] = None <=> identity[v] = None
    <2>1. ASSUME NEW v \in Vouchers
          PROVE  identity'[v] = None <=> identity[v] = None
      <3>1. /\ identity[v] \in 0 .. IdentityCap \cup {None}
            /\ identity'[v] = Older(identity[v], IdentityCap)
        BY <1>1 DEF IInv, TypeOK
      <3> QED BY <3>1, Ranges, NoneApart DEF Older
    <2> QED BY <2>1
  <1>4. UNCHANGED <<knownBar, finalBar, redeemedBar>>
    BY <1>1, <1>2, <1>3 DEF knownBar, finalBar, redeemedBar
  <1> DEFINE S == {v \in Vouchers : Current(v)' = {}}
  <1>5. ASSUME NEW v \in Vouchers
        PROVE  Current(v)' = {} \/ Current(v)' = Current(v)
    <2>1. Current(v)' \subseteq Current(v)
      BY <1>2 DEF Current
    <2>2. \A d, e \in Current(v) : d = e
      BY DEF Current, IInv, Reserved
    <2> QED BY <2>1, <2>2
  <1>6. bearersBar' = [v \in Vouchers |-> IF v \in S THEN {} ELSE bearersBar[v]]
    BY <1>5 DEF bearersBar
  <1>7. Promise!Lapse(S)
    BY <1>4, <1>6 DEF Promise!Lapse, bearersBar, knownBar, finalBar, redeemedBar
  <1> QED BY <1>7 DEF Promise!Next

\* A ChainLock.
LEMMA ChainLockFinalizes ==
    ASSUME IInv, NEW v \in Vouchers, ChainLock(v)
    PROVE  Promise!Next
  <1>1. UNCHANGED <<told, identity>> /\ net' = [net EXCEPT ![v] = "locked"]
    BY DEF ChainLock, Becomes
  <1>2. finalBar' = finalBar \cup {v}
    BY <1>1 DEF finalBar, IInv, TypeOK
  <1>3. UNCHANGED <<bearersBar, knownBar, redeemedBar>>
    BY <1>1 DEF bearersBar, knownBar, redeemedBar, Current
  <1>4. Promise!Finalize(v)
    BY <1>2, <1>3 DEF Promise!Finalize, bearersBar, knownBar, finalBar, redeemedBar
  <1> QED BY <1>4 DEF Promise!Next

\* A redemption.
LEMMA RedeemRedeems ==
    ASSUME IInv, NEW v \in Vouchers, Redeem(v)
    PROVE  Promise!Next
  <1>1. /\ net[v] = "locked" /\ identity[v] = None /\ \E d \in Devices : told[v][d] # None
        /\ UNCHANGED <<told, net>> /\ identity' = [identity EXCEPT ![v] = 0]
    BY DEF Redeem
  <1>2. redeemedBar' = redeemedBar \cup {v}
    BY <1>1, NoneApart DEF redeemedBar, IInv, TypeOK
  <1>3. UNCHANGED <<bearersBar, knownBar, finalBar>>
    BY <1>1 DEF bearersBar, knownBar, finalBar, Current
  <1>4. v \in finalBar \ redeemedBar /\ knownBar[v] # {}
    BY <1>1 DEF finalBar, redeemedBar, knownBar
  <1>5. Promise!Redeem(v)
    BY <1>2, <1>3, <1>4 DEF Promise!Redeem, bearersBar, knownBar, finalBar, redeemedBar
  <1> QED BY <1>5 DEF Promise!Next

\* Every step maps to a step of Bearers or to none.
LEMMA PromiseStep ==
    ASSUME IInv, [Next]_vars
    PROVE  Promise!Next \/ UNCHANGED Promise!vars
  <1>0. TypeOK
    BY DEF IInv
  <1>1. ASSUME NEW r \in Requests, Replay(r) \/ Refuse(r) \/ BeginIssue(r)
        PROVE  Promise!Next \/ UNCHANGED Promise!vars
    <2>1. CASE Replay(r)
      BY <2>1, ReplayGives
    <2>2. CASE Refuse(r) \/ BeginIssue(r)
      BY <2>2, SameStutters DEF Refuse, BeginIssue, outside
    <2> QED BY <1>1, <2>1, <2>2
  <1>2. CASE Open
    BY <1>2, OpenGives
  <1>3. CASE CheckClaims \/ BeginMaintain \/ Recycle \/ RecycleEnds \/ FollowUpEnds \/ RefillEnds
    BY <1>3, SameStutters
       DEF CheckClaims, BeginMaintain, Recycle, RecycleEnds, FollowUpEnds, RefillEnds, outside
  <1>4. CASE FollowUp
    <2>1. UNCHANGED <<net, identity, told>>
      BY <1>4 DEF FollowUp, StillWaiting, Ready, Resend
    <2> QED BY <2>1, SameStutters
  <1>5. ASSUME NEW v \in Vouchers, Accepted(v)
        PROVE  UNCHANGED Promise!vars
    <2>1. CASE net[v] = "out"
      BY <1>0, <1>5, <2>1, UnlockedStutters DEF Accepted, Proceed
    <2>2. CASE net[v] # "out"
      <3>1. net' = net
        BY <1>5, <2>2 DEF Accepted, TypeOK, IInv
      <3> QED BY <1>5, <3>1, SameStutters DEF Accepted, Proceed
    <2> QED BY <2>1, <2>2
  <1>6. ASSUME NEW v \in Vouchers, Uncertain(v)
        PROVE  UNCHANGED Promise!vars
    BY <1>0, <1>6, UnlockedStutters, SameStutters DEF Uncertain, Proceed
  <1>7. ASSUME NEW v \in Vouchers, Rejected(v)
        PROVE  UNCHANGED Promise!vars
    BY <1>0, <1>7, UnlockedStutters DEF Rejected, Proceed
  <1>8. CASE Mint
    <2>1. PICK v \in In({"absent"}), landing \in {"out", "dead"} :
            UNCHANGED <<identity, told>> /\ net' = [net EXCEPT ![v] = landing]
      BY <1>8 DEF Mint, Fresh
    <2>2. v \in Vouchers /\ net[v] # "locked"
      BY NoneApart DEF IInv, Unminted, In
    <2> QED BY <1>0, <2>1, <2>2, UnlockedStutters
  <1>9. CASE Crash \/ Rotate \/ UNCHANGED vars
    BY <1>9, SameStutters DEF Crash, Rotate, vars, outside
  <1>10. ASSUME NEW v \in Vouchers, ChainLock(v) \/ Environment(v) \/ Redeem(v)
         PROVE  Promise!Next \/ UNCHANGED Promise!vars
    <2>1. CASE ChainLock(v)
      BY <2>1, ChainLockFinalizes
    <2>2. CASE Redeem(v)
      BY <2>2, RedeemRedeems
    <2>3. CASE Environment(v)
      BY <1>0, <2>3, UnlockedStutters DEF Environment, Becomes
    <2> QED BY <1>10, <2>1, <2>2, <2>3
  <1>11. CASE Tick
    BY <1>11, TickLapses
  <1> QED BY <1>1, <1>2, <1>3, <1>4, <1>5, <1>6, <1>7, <1>8, <1>9, <1>10, <1>11
      DEF Next, Issue, Maintain, Settle

(***************************************************************************)
(* The inventory implements Bearers: until the hour a recipient was told   *)
(* has run out no other device is given the voucher, and none leaves       *)
(* before its asset lock is ChainLocked.                                   *)
(***************************************************************************)
THEOREM InventoryKeepsPromise == Spec => KeepsPromise
  <1>1. Init => Promise!Init
    <2>1. SUFFICES ASSUME Init PROVE Promise!Init
      OBVIOUS
    <2>2. bearersBar = [v \in Vouchers |-> {}]
      BY <2>1 DEF Init, bearersBar, Current
    <2>3. knownBar = [v \in Vouchers |-> {}]
      BY <2>1 DEF Init, knownBar
    <2>4. finalBar = {} /\ redeemedBar = {}
      BY <2>1, NoneApart DEF Init, finalBar, redeemedBar
    <2> QED BY <2>2, <2>3, <2>4 DEF Promise!Init, bearersBar, knownBar, finalBar, redeemedBar
  <1>2. IInv /\ [Next]_vars => [Promise!Next]_(Promise!vars)
    BY PromiseStep
  <1> QED BY <1>1, <1>2, InitInv, StepInv, PTL DEF Spec, KeepsPromise, Promise!Spec

=============================================================================
