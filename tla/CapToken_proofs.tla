--------------------------- MODULE CapToken_proofs ---------------------------
(***************************************************************************)
(* Single use of capTokens for any number of requests, challenges, shapes  *)
(* and lifetimes.                                                          *)
(***************************************************************************)
EXTENDS CapToken, TLAPS

(***************************************************************************)
(* The strengthening: a use in the past left a row, and nothing removes the*)
(* row while its token is valid; a verified token waits with a tier its    *)
(* challenge paid for.                                                     *)
(***************************************************************************)
RowsGuard ==
    \A i \in DOMAIN uses :
        /\ uses[i].at <= now
        /\ now <= ExpiresAt(uses[i].token) => uses[i].token \in used_cap

TransitEarned ==
    \A c \in Callers :
        transit[c] # Nobody /\ transit[c].tier = "hard"
            => challenges[transit[c].token].tier = "hard"

IInv == TypeOK /\ RowsGuard /\ TransitEarned /\ OnceWhileValid /\ HardTierIsEarned

\* A hard tier is graded from hard work, which no soft challenge signs.
LEMMA HardWork ==
    ASSUME TypeOK, NEW t \in Tokens, NEW field, capTier(t, field) = "hard"
    PROVE  challenges[t].tier = "hard"
  <1>1. challenges[t] \in Challenge /\ config.hard \in HardWorks
    BY DEF TypeOK, Tokens
  <1>2. challenges[t].signed >= config.hard
    BY DEF capTier
  <1>3. CASE challenges[t].tier = "soft"
    <2>1. challenges[t].signed \in SoftWorks
      BY <1>1, <1>3 DEF Challenge
    <2>2. SoftWorks \subseteq Nat /\ HardWorks \subseteq Nat
      BY CapAssumption DEF CapAssumption
    <2>3. \A s \in SoftWorks, h \in HardWorks : s < h
      BY CapAssumption DEF CapAssumption
    <2>4. challenges[t].signed \in Nat /\ config.hard \in Nat
      BY <2>1, <2>2, <1>1
    <2>5. challenges[t].signed < config.hard
      BY <2>1, <2>3, <1>1
    <2> QED BY <2>4, <2>5, <1>2
  <1> QED BY <1>1, <1>3 DEF Challenge

\* The initial states.
LEMMA Initially == Init => IInv
  BY CapAssumption DEF CapAssumption, Init, IInv, TypeOK, RowsGuard, TransitEarned, OnceWhileValid,
     HardTierIsEarned, Tokens

\* A new challenge changes none of the old ones.
LEMMA Minting ==
    ASSUME IInv, NEW tier \in {"soft", "hard"}, mintChallenge(tier)
    PROVE  IInv'
  <1> DEFINE new == [tier |-> tier, signed |-> config[tier], expires |-> now + CHALLENGE_TTL]
  <1>1. challenges \in Seq(Challenge) /\ new \in Challenge /\ challenges' = Append(challenges, new)
    BY CapAssumption DEF CapAssumption, IInv, TypeOK, mintChallenge, Challenge
  <1>2. /\ challenges' \in Seq(Challenge)
        /\ Tokens \subseteq Tokens'
        /\ \A t \in Tokens : challenges'[t] = challenges[t]
    BY <1>1 DEF Tokens
  <1>3. \A t \in Tokens : ExpiresAt(t)' = ExpiresAt(t)
    BY <1>2 DEF ExpiresAt
  <1>4. TypeOK'
    <2> USE DEF IInv, TypeOK, mintChallenge
    <2>1. uses' \in Seq([token : Tokens', tier : {"soft", "hard"}, at : 0 .. MaxTime])
      <3> DEFINE R == [token : Tokens, tier : {"soft", "hard"}, at : 0 .. MaxTime]
                 S == [token : Tokens', tier : {"soft", "hard"}, at : 0 .. MaxTime]
      <3>1. R \subseteq S
        BY <1>2
      <3>2. uses' \in Seq(R)
        OBVIOUS
      <3> HIDE DEF R, S
      <3>3. uses' \in Seq(S)
        BY <3>1, <3>2
      <3> QED BY <3>3 DEF S
    <2>2. transit' \in [Callers -> {Nobody} \cup [token : Tokens', tier : {"soft", "hard"}]]
      BY <1>2
    <2> QED BY <1>2, <2>1, <2>2
  <1>5. \A i \in DOMAIN uses : uses[i].token \in Tokens
    <2> DEFINE R == [token : Tokens, tier : {"soft", "hard"}, at : 0 .. MaxTime]
    <2>1. uses \in Seq(R)
      BY DEF IInv, TypeOK
    <2>2. \A i \in DOMAIN uses : uses[i] \in R
      <3> HIDE DEF R
      <3> QED BY <2>1
    <2> QED BY <2>2
  <1>6. RowsGuard' /\ OnceWhileValid' /\ HardTierIsEarned'
    BY <1>2, <1>3, <1>5 DEF IInv, mintChallenge, RowsGuard, OnceWhileValid, HardTierIsEarned
  <1>7. TransitEarned'
    <2>1. \A c \in Callers : transit[c] # Nobody => transit[c].token \in Tokens
      BY DEF IInv, TypeOK
    <2> QED BY <2>1, <1>2 DEF IInv, mintChallenge, TransitEarned
  <1> QED BY <1>4, <1>6, <1>7 DEF IInv

\* The Worker's half hands on a tier the token's challenge paid for.
LEMMA Verifying ==
    ASSUME IInv, NEW r \in Callers, NEW t \in Tokens, NEW field, verifyCapToken(r, t, field)
    PROVE  IInv'
  <1> DEFINE new == [token |-> t, tier |-> capTier(t, field)]
  <1>1. new \in [token : Tokens, tier : {"soft", "hard"}]
    BY DEF capTier
  <1>2. /\ transit \in [Callers -> {Nobody} \cup [token : Tokens, tier : {"soft", "hard"}]]
        /\ transit' = [transit EXCEPT ![r] = new]
    BY DEF IInv, TypeOK, verifyCapToken
  <1>3. UNCHANGED <<now, config, challenges, capTokens, used_cap, uses>>
    BY DEF verifyCapToken
  <1>4. TypeOK'
    BY <1>1, <1>2, <1>3 DEF IInv, TypeOK, verifyCapToken, Tokens
  <1>5. RowsGuard' /\ OnceWhileValid' /\ HardTierIsEarned'
    BY <1>3 DEF IInv, RowsGuard, OnceWhileValid, HardTierIsEarned, ExpiresAt
  <1>6. TransitEarned'
    <2> SUFFICES ASSUME NEW c \in Callers, transit'[c] # Nobody, transit'[c].tier = "hard"
                 PROVE  challenges'[transit'[c].token].tier = "hard"
      BY DEF TransitEarned
    <2>1. CASE c = r
      BY <2>1, <1>2, <1>3, HardWork DEF IInv
    <2>2. CASE c # r
      BY <2>2, <1>2, <1>3 DEF IInv, TransitEarned
    <2> QED BY <2>1, <2>2
  <1> QED BY <1>4, <1>5, <1>6 DEF IInv

\* The Treasury's half: a token with a row is refused, one without is past its expiry
\* or has never been used.
LEMMA Burning ==
    ASSUME IInv, NEW r \in Callers, consumeCapToken(r)
    PROVE  IInv'
  <1> DEFINE t == transit[r].token
             rows == used_cap \ Expired
             new == [token |-> t, tier |-> transit[r].tier, at |-> now]
             Use == [token : Tokens, tier : {"soft", "hard"}, at : 0 .. MaxTime]
  <1>1. /\ used_cap' = rows \cup {t}
        /\ uses' = IF t \in rows THEN uses ELSE Append(uses, new)
        /\ transit' = [transit EXCEPT ![r] = Nobody]
        /\ refused' = Nobody
        /\ UNCHANGED <<now, config, challenges, capTokens>>
    BY DEF consumeCapToken
  <1>2. t \in Tokens /\ new \in Use /\ transit[r] # Nobody
    BY DEF IInv, TypeOK, consumeCapToken
  <1>3. uses \in Seq(Use) /\ uses' \in Seq(Use)
    <2>1. uses \in Seq(Use)
      BY DEF IInv, TypeOK
    <2> HIDE DEF t, rows, new, Use
    <2> QED BY <2>1, <1>1, <1>2
  <1>4. \A i \in DOMAIN uses : uses[i] \in Use
    <2> HIDE DEF Use
    <2> QED BY <1>3
  <1>5. TypeOK'
    BY <1>1, <1>2, <1>3 DEF IInv, TypeOK, Tokens
  <1>6. TransitEarned'
    BY <1>1 DEF IInv, TypeOK, TransitEarned
  <1>7. \A u \in Tokens : ExpiresAt(u)' = ExpiresAt(u) /\ ExpiresAt(u) \in Int
    BY <1>1, CapAssumption DEF CapAssumption, IInv, TypeOK, Tokens, Challenge, ExpiresAt
  <1>8. now \in Int
    BY CapAssumption DEF CapAssumption, IInv, TypeOK
  <1>9. \A i \in DOMAIN uses : now <= ExpiresAt(uses[i].token) => uses[i].token \in rows
    BY <1>4, <1>7, <1>8 DEF IInv, RowsGuard, Expired
  <1>10. CASE t \in rows
    <2>1. uses' = uses
      BY <1>10, <1>1
    <2>2. RowsGuard'
      BY <2>1, <1>1, <1>4, <1>7, <1>9 DEF IInv, RowsGuard
    <2>3. OnceWhileValid' /\ HardTierIsEarned'
      BY <2>1, <1>1, <1>4, <1>7 DEF IInv, OnceWhileValid, HardTierIsEarned
    <2> QED BY <2>2, <2>3, <1>5, <1>6 DEF IInv
  <1>11. CASE t \notin rows
    <2>1. /\ DOMAIN uses' = DOMAIN uses \cup {Len(uses) + 1}
          /\ \A i \in DOMAIN uses : uses'[i] = uses[i] /\ i < Len(uses) + 1
          /\ uses'[Len(uses) + 1] = new
          /\ Len(uses) + 1 \notin DOMAIN uses
      <3> HIDE DEF t, rows, new, Use
      <3> QED BY <1>11, <1>1, <1>2, <1>3
    <2>2. RowsGuard'
      BY <2>1, <1>1, <1>2, <1>4, <1>7, <1>8, <1>9 DEF IInv, RowsGuard
    <2>3. OnceWhileValid'
      <3> SUFFICES ASSUME NEW i \in DOMAIN uses', NEW j \in DOMAIN uses',
                          i < j, uses'[i].token = uses'[j].token
                   PROVE  uses'[j].at > ExpiresAt(uses[j].token)'
        BY DEF OnceWhileValid
      <3>1. i \in DOMAIN uses
        BY <2>1, <1>3
      <3>2. CASE j \in DOMAIN uses
        BY <3>1, <3>2, <2>1, <1>1, <1>4 DEF IInv, OnceWhileValid, ExpiresAt
      <3>3. CASE j = Len(uses) + 1
        <4>1. uses[i].token = t
          BY <3>1, <3>3, <2>1
        <4>2. ~(now <= ExpiresAt(t))
          BY <4>1, <3>1, <1>9, <1>11
        <4> QED BY <4>2, <3>3, <2>1, <1>1, <1>2, <1>7, <1>8 DEF ExpiresAt
      <3> QED BY <3>2, <3>3, <2>1
    <2>4. HardTierIsEarned'
      BY <2>1, <1>1, <1>2 DEF IInv, HardTierIsEarned, TransitEarned
    <2> QED BY <2>2, <2>3, <2>4, <1>5, <1>6 DEF IInv
  <1> QED BY <1>10, <1>11

\* Pruning drops only rows whose tokens have expired.
LEMMA Pruning == IInv /\ prune => IInv'
  <1> SUFFICES ASSUME IInv, prune PROVE IInv'
    OBVIOUS
  <1>1. /\ used_cap' = used_cap \ Expired
        /\ refused' = Nobody
        /\ UNCHANGED <<now, config, challenges, capTokens, transit, uses>>
    BY DEF prune
  <1>2. TypeOK' /\ TransitEarned' /\ OnceWhileValid' /\ HardTierIsEarned'
    BY <1>1 DEF IInv, TypeOK, TransitEarned, OnceWhileValid, HardTierIsEarned, ExpiresAt, Tokens
  <1>3. \A u \in Tokens : ExpiresAt(u) \in Int
    BY CapAssumption DEF CapAssumption, IInv, TypeOK, Tokens, Challenge, ExpiresAt
  <1>4. now \in Int
    BY CapAssumption DEF CapAssumption, IInv, TypeOK
  <1>5. RowsGuard'
    BY <1>1, <1>3, <1>4 DEF IInv, RowsGuard, Expired, ExpiresAt
  <1> QED BY <1>2, <1>5 DEF IInv

\* Time passing only makes more tokens expired.
LEMMA Ticking == IInv /\ Tick => IInv'
  <1> SUFFICES ASSUME IInv, Tick PROVE IInv'
    OBVIOUS
  <1>1. /\ now < MaxTime /\ now' = now + 1
        /\ refused' = Nobody
        /\ UNCHANGED <<config, challenges, capTokens, transit, used_cap, uses>>
    BY DEF Tick
  <1>2. TransitEarned' /\ OnceWhileValid' /\ HardTierIsEarned'
    BY <1>1 DEF IInv, TransitEarned, OnceWhileValid, HardTierIsEarned, ExpiresAt
  <1>3. TypeOK'
    BY <1>1, CapAssumption DEF CapAssumption, IInv, TypeOK, Tokens
  <1>4. RowsGuard'
    <2> DEFINE Use == [token : Tokens, tier : {"soft", "hard"}, at : 0 .. MaxTime]
    <2>1. uses \in Seq(Use)
      BY DEF IInv, TypeOK
    <2>2. \A i \in DOMAIN uses : uses[i] \in Use
      <3> HIDE DEF Use
      <3> QED BY <2>1
    <2>3. \A u \in Tokens : ExpiresAt(u) \in Int
      BY CapAssumption DEF CapAssumption, IInv, TypeOK, Tokens, Challenge, ExpiresAt
    <2>4. now \in Int
      BY CapAssumption DEF CapAssumption, IInv, TypeOK
    <2> QED BY <1>1, <2>2, <2>3, <2>4 DEF IInv, RowsGuard, ExpiresAt
  <1> QED BY <1>2, <1>3, <1>4 DEF IInv

\* What touches neither the uses, the rows nor the clock.
LEMMA Elsewhere ==
    ASSUME IInv, UNCHANGED <<now, challenges, used_cap, uses>>,
           \/ \E t \in Tokens, solved \in Works : verifySolutions(t, solved)
           \/ \E c \in Callers : Lost(c)
           \/ Retune
           \/ UNCHANGED vars
    PROVE  IInv'
  <1>1. RowsGuard' /\ OnceWhileValid' /\ HardTierIsEarned'
    BY DEF IInv, RowsGuard, OnceWhileValid, HardTierIsEarned, ExpiresAt
  <1>2. TypeOK'
    BY DEF IInv, TypeOK, Tokens, verifySolutions, Lost, Retune, vars
  <1>3. TransitEarned'
    BY DEF IInv, TypeOK, TransitEarned, verifySolutions, Lost, Retune, vars
  <1> QED BY <1>1, <1>2, <1>3 DEF IInv

\* Every step preserves the invariant.
LEMMA Stepwise == IInv /\ [Next]_vars => IInv'
  <1> SUFFICES ASSUME IInv, [Next]_vars PROVE IInv'
    OBVIOUS
  <1>1. CASE \E tier \in {"soft", "hard"} : mintChallenge(tier)
    BY <1>1, Minting
  <1>2. CASE \E t \in Tokens, solved \in Works : verifySolutions(t, solved)
    BY <1>2, Elsewhere DEF verifySolutions
  <1>3. CASE \E c \in Callers, t \in Tokens, field \in {"capToken", "hardCapToken"} :
                verifyCapToken(c, t, field)
    BY <1>3, Verifying
  <1>4. CASE \E c \in Callers : consumeCapToken(c)
    BY <1>4, Burning
  <1>5. CASE \E c \in Callers : Lost(c)
    BY <1>5, Elsewhere DEF Lost
  <1>6. CASE prune
    BY <1>6, Pruning
  <1>7. CASE Retune
    BY <1>7, Elsewhere DEF Retune
  <1>8. CASE Tick
    BY <1>8, Ticking
  <1>9. CASE UNCHANGED vars
    BY <1>9, Elsewhere DEF vars
  <1> QED BY <1>1, <1>2, <1>3, <1>4, <1>5, <1>6, <1>7, <1>8, <1>9 DEF Next

\* The invariant of every behaviour.
LEMMA Inductive == Spec => []IInv
  <1>1. Init => IInv
    BY Initially
  <1>2. IInv /\ [Next]_vars => IInv'
    BY Stepwise
  <1> QED BY <1>1, <1>2, PTL DEF Spec

(***************************************************************************)
(* The state of the captcha, in the Workers, the config and the spent-set. *)
(***************************************************************************)
THEOREM CapTypeCorrect == Spec => []TypeOK
  <1>1. IInv => TypeOK
    BY DEF IInv
  <1> QED BY <1>1, Inductive, PTL

(***************************************************************************)
(* consumeCapToken admits a valid capToken once, for any number of         *)
(* concurrent requests and any schedule of prunes.                         *)
(***************************************************************************)
THEOREM UsedOnceWhileValid == Spec => []OnceWhileValid
  <1>1. IInv => OnceWhileValid
    BY DEF IInv
  <1> QED BY <1>1, Inductive, PTL

(***************************************************************************)
(* capTier never lets soft work buy the hard tier, whatever retuning does. *)
(***************************************************************************)
THEOREM HardIsEarned == Spec => []HardTierIsEarned
  <1>1. IInv => HardTierIsEarned
    BY DEF IInv
  <1> QED BY <1>1, Inductive, PTL

(***************************************************************************)
(* verifySolutions refuses a right solution for its age alone.             *)
(***************************************************************************)
THEOREM HonestSolves == Spec => HonestSolveRedeems
  <1> DEFINE Right == \A t \in Tokens :
                        refused' = [token |-> t, solved |-> challenges[t].signed]
                            => now > challenges[t].expires
  <1>1. ASSUME TypeOK, [Next]_vars, refused' # refused
        PROVE  Right
    <2> SUFFICES ASSUME NEW t \in Tokens,
                        refused' = [token |-> t, solved |-> challenges[t].signed]
                 PROVE  now > challenges[t].expires
      OBVIOUS
    <2> USE <1>1 DEF TypeOK
    <2>a. challenges[t] \in Challenge /\ t \in Nat
      BY DEF Tokens
    <2>b. SoftWorks \subseteq Nat /\ HardWorks \subseteq Nat
      BY CapAssumption DEF CapAssumption
    <2>c. challenges[t].signed \in Nat
      BY <2>a, <2>b DEF Challenge
    <2>d. now \in Nat
      BY CapAssumption DEF CapAssumption
    <2>1. t \in Nat /\ challenges[t].signed \in Nat /\ challenges[t].expires \in Nat /\ now \in Nat
      BY <2>a, <2>c, <2>d DEF Challenge
    <2>2. refused' # Nobody
      BY <2>1, CapAssumption DEF CapAssumption
    <2>3. PICK u \in Tokens, solved \in Works : verifySolutions(u, solved)
      BY <2>2, <1>1 DEF Next, vars, mintChallenge, verifyCapToken, consumeCapToken, Lost,
         prune, Retune, Tick
    <2>4. u = t /\ solved = challenges[t].signed /\ ~(now <= challenges[u].expires /\ Grades(u, solved))
      BY <2>2, <2>3 DEF verifySolutions
    <2> QED BY <2>4, <2>1 DEF Grades
  <1>2. TypeOK /\ [Next]_vars => [Right]_refused
    BY <1>1
  <1> QED BY <1>2, CapTypeCorrect, PTL DEF Spec, HonestSolveRedeems
=============================================================================
