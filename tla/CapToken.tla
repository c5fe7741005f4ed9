------------------------------ MODULE CapToken ------------------------------
(***************************************************************************)
(* The proof-of-work captcha: stateless challenges, capTokens that verify  *)
(* themselves, and the spent-set that makes each usable once               *)
(* (src/src/cap.ts, verifyCaptcha in src/src/index.ts, consumeCapToken in  *)
(* src/src/treasury.ts).                                                   *)
(*                                                                         *)
(* A Worker verifies a token, then awaits the Treasury, which prunes the   *)
(* expired rows of used_cap and burns the token in one turn of its thread. *)
(* Time passes between the two.                                            *)
(*                                                                         *)
(* Abstractions.  A challenge is its number; its capToken, deterministic in*)
(* it, is the same number.  MACs are not forged; a shape is the work it     *)
(* costs, and a solution is the shape it solves.  Worker and Treasury read the same clock. *)
(***************************************************************************)
EXTENDS Integers, Sequences

CONSTANTS
    Callers,            \* requests to /api/core-faucet, one outstanding each
    SoftWorks, HardWorks,   \* CAP_C, CAP_S, CAP_D and CAP_HARD_*, as work
    CHALLENGE_TTL,      \* CHALLENGE_TTL_MS
    CAP_TOKEN_GRACE,    \* CAP_TOKEN_GRACE_MS
    MaxTime, MaxChallenges, MaxUses,    \* bounds of a behaviour
    Nobody              \* no request

ASSUME CapAssumption ==
    /\ SoftWorks \subseteq Nat /\ HardWorks \subseteq Nat
    /\ \A s \in SoftWorks, h \in HardWorks : s < h
    /\ CHALLENGE_TTL \in Nat /\ CAP_TOKEN_GRACE \in Nat
    /\ MaxTime \in Nat /\ MaxChallenges \in Nat /\ MaxUses \in Nat
    /\ Nobody \notin [token : Nat, tier : {"soft", "hard"}]
    /\ Nobody \notin [token : Nat, solved : Nat]

VARIABLES
    now,
    config,     \* config[tier]: the shape a challenge of that tier gets today
    challenges, \* every challenge minted: its tier, signed shape and expiry
    capTokens,  \* challenges redeemed for a capToken
    refused,    \* the last redeem, if it was refused
    transit,    \* transit[c]: the token c's Worker verified, on its way to be burnt
    used_cap,   \* tokens with a row in the spent-set
    uses        \* every time consumeCapToken said the token was fresh

vars == <<now, config, challenges, capTokens, refused, transit, used_cap, uses>>

Tokens == DOMAIN challenges
Works == SoftWorks \cup HardWorks
Challenge == [tier : {"soft"}, signed : SoftWorks, expires : Nat]
        \cup [tier : {"hard"}, signed : HardWorks, expires : Nat]

TypeOK ==
    /\ now \in 0 .. MaxTime
    /\ config \in [soft : SoftWorks, hard : HardWorks]
    /\ challenges \in Seq(Challenge)
    /\ capTokens \subseteq Tokens
    /\ refused \in {Nobody} \cup [token : Tokens, solved : Works]
    /\ transit \in [Callers -> {Nobody} \cup [token : Tokens, tier : {"soft", "hard"}]]
    /\ used_cap \subseteq Tokens
    /\ uses \in Seq([token : Tokens, tier : {"soft", "hard"}, at : 0 .. MaxTime])

Init ==
    /\ now = 0
    /\ config \in [soft : SoftWorks, hard : HardWorks]
    /\ challenges = <<>>
    /\ capTokens = {} /\ refused = Nobody
    /\ transit = [c \in Callers |-> Nobody]
    /\ used_cap = {}
    /\ uses = <<>>

-----------------------------------------------------------------------------
\* A capToken outlives its challenge by a grace period.
ExpiresAt(t) == challenges[t].expires + CAP_TOKEN_GRACE

\* Deviation: both endpoints hand out the soft shape.
mintSoftOnly(tier) ==
    /\ Len(challenges) < MaxChallenges
    /\ challenges' = Append(challenges, [tier |-> tier, signed |-> config.soft,
                                         expires |-> now + CHALLENGE_TTL])
    /\ refused' = Nobody
    /\ UNCHANGED <<now, config, capTokens, transit, used_cap, uses>>

\* handleCapChallenge: the shape rides inside the MAC.
mintChallenge(tier) ==
    /\ Len(challenges) < MaxChallenges
    /\ challenges' = Append(challenges, [tier |-> tier, signed |-> config[tier],
                                         expires |-> now + CHALLENGE_TTL])
    /\ refused' = Nobody
    /\ UNCHANGED <<now, config, capTokens, transit, used_cap, uses>>

\* Deviation: a solve is graded against the shape configured today.
GradesByConfig(t, solved) == solved = config[challenges[t].tier]

Grades(t, solved) == solved = challenges[t].signed

\* handleCapRedeem: the same capToken however often it is asked for.
verifySolutions(t, solved) ==
    /\ IF now <= challenges[t].expires /\ Grades(t, solved)
       THEN capTokens' = capTokens \cup {t} /\ refused' = Nobody
       ELSE refused' = [token |-> t, solved |-> solved] /\ UNCHANGED capTokens
    /\ UNCHANGED <<now, config, challenges, transit, used_cap, uses>>

\* Deviation: the name of the field decides, not the signed work.
TierByField(t, field) == IF field = "hardCapToken" THEN "hard" ELSE "soft"

\* Graded on the signed work; the field the token came in is not looked at.
capTier(t, field) == IF challenges[t].signed >= config.hard THEN "hard" ELSE "soft"

\* The Worker's half: verifyCapToken, and the tier under the config it started with.
verifyCapToken(c, t, field) ==
    /\ transit[c] = Nobody /\ Len(uses) < MaxUses
    /\ t \in capTokens
    /\ now <= ExpiresAt(t)
    /\ transit' = [transit EXCEPT ![c] = [token |-> t, tier |-> capTier(t, field)]]
    /\ refused' = Nobody
    /\ UNCHANGED <<now, config, challenges, capTokens, used_cap, uses>>

\* Deviation: a row is pruned in the last instant in which its token is good.
ExpiredEarly == {t \in Tokens : ExpiresAt(t) <= now}

Expired == {t \in Tokens : ExpiresAt(t) < now}

\* The Treasury's half: DELETE, SELECT, INSERT with no await in between.
consumeCapToken(c) ==
    /\ transit[c] # Nobody
    /\ LET t == transit[c].token
           rows == used_cap \ Expired
       IN /\ used_cap' = rows \cup {t}
          /\ uses' = IF t \in rows THEN uses
                     ELSE Append(uses, [token |-> t, tier |-> transit[c].tier, at |-> now])
    /\ transit' = [transit EXCEPT ![c] = Nobody]
    /\ refused' = Nobody
    /\ UNCHANGED <<now, config, challenges, capTokens>>

\* The call never reaches the Treasury.
Lost(c) ==
    /\ transit[c] # Nobody
    /\ transit' = [transit EXCEPT ![c] = Nobody]
    /\ refused' = Nobody
    /\ UNCHANGED <<now, config, challenges, capTokens, used_cap, uses>>

\* Every payout and snapshot prunes the table too.
prune ==
    /\ used_cap' = used_cap \ Expired
    /\ refused' = Nobody
    /\ UNCHANGED <<now, config, challenges, capTokens, transit, uses>>

\* A deployment with other CAP_* settings; isolates of both versions are not mixed.
Retune ==
    /\ config' \in [soft : SoftWorks, hard : HardWorks]
    /\ refused' = Nobody
    /\ UNCHANGED <<now, challenges, capTokens, transit, used_cap, uses>>

Tick ==
    /\ now < MaxTime
    /\ now' = now + 1
    /\ refused' = Nobody
    /\ UNCHANGED <<config, challenges, capTokens, transit, used_cap, uses>>

Next ==
    \/ \E tier \in {"soft", "hard"} : mintChallenge(tier)
    \/ \E t \in Tokens, solved \in Works : verifySolutions(t, solved)
    \/ \E c \in Callers, t \in Tokens, field \in {"capToken", "hardCapToken"} :
            verifyCapToken(c, t, field)
    \/ \E c \in Callers : consumeCapToken(c) \/ Lost(c)
    \/ prune \/ Retune \/ Tick

Spec == Init /\ [][Next]_vars

-----------------------------------------------------------------------------
(***************************************************************************)
(* While a capToken is valid it is used at most once, whoever prunes the   *)
(* spent-set and when: any later use comes after its expiry.               *)
(***************************************************************************)
OnceWhileValid ==
    \A i, j \in DOMAIN uses :
        i < j /\ uses[i].token = uses[j].token => uses[j].at > ExpiresAt(uses[j].token)

(***************************************************************************)
(* "A capToken past its own expiry can never be accepted again, so the row *)
(* proving it was spent has nothing left to protect" (prune): each capToken*)
(* is usable once.                                                         *)
(***************************************************************************)
UsedOnce == \A i, j \in DOMAIN uses : uses[i].token = uses[j].token => i = j

(***************************************************************************)
(* The hard tier's allowance is only given for the hard tier's work, and   *)
(* retuning either shape never turns a soft token into a hard one.         *)
(***************************************************************************)
HardTierIsEarned ==
    \A i \in DOMAIN uses :
        uses[i].tier = "hard" => challenges[uses[i].token].tier = "hard"

(***************************************************************************)
(* Retuning the challenge never rejects a right solution still in flight:  *)
(* redeem refuses one for its age alone.                                   *)
(***************************************************************************)
HonestSolveRedeems ==
    [][\A t \in Tokens :
         refused' = [token |-> t, solved |-> challenges[t].signed]
            => now > challenges[t].expires]_refused
=============================================================================
