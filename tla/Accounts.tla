------------------------------ MODULE Accounts ------------------------------
(***************************************************************************)
(* Signing in and the keys people issue themselves: the OAuth round trip   *)
(* and its cookies (src/src/auth.ts), the pages' requests                  *)
(* (src/src/portal.ts) and the rows of api_keys (src/src/treasury.ts,      *)
(* src/src/accounts.ts).                                                   *)
(*                                                                         *)
(* A sealed cookie cannot be forged, so it is the value sealed in it.  A   *)
(* handler reads the cookies its browser held when it sent the request,    *)
(* and its answer's cookies replace whatever the browser holds by then.    *)
(***************************************************************************)
EXTENDS Integers, Sequences, FiniteSets

CONSTANTS
    Browsers,
    People, Outsiders,  \* outsiders have an account the domain check refuses
    Admins,
    MAX_ACTIVE,         \* maxKeysPerUser
    KEY_TTL, SESSION_TTL, OAUTH_TTL,
    MaxTokens,          \* logins started
    MaxKeys, MaxTime, MaxDeploys,
    MaxWire,            \* logins and Treasury calls under way
    None

ASSUME AccountsAssumption ==
    /\ Outsiders \subseteq People /\ Admins \subseteq People /\ None \notin People \cup Nat
    /\ MAX_ACTIVE \in Nat \ {0} /\ KEY_TTL \in Nat \ {0}
    /\ SESSION_TTL \in Nat \ {0} /\ OAUTH_TTL \in Nat \ {0}
    /\ MaxTokens \in Nat /\ MaxKeys \in Nat /\ MaxTime \in Nat /\ MaxDeploys \in Nat /\ MaxWire \in Nat

VARIABLES
    now,
    expiring,   \* whether this deployment's self-serve keys expire
    deploys,
    keys,       \* api_keys
    flow,       \* each browser's state cookie
    session,    \* each browser's session cookie
    page,       \* the session the browser's open page was loaded for
    tokens,     \* the logins started so far
    links,      \* callback URLs the providers have sent browsers to
    redeemed,   \* the links whose code was exchanged
    wire        \* logins and Treasury calls under way

jar == <<flow, session>>
vars == <<now, expiring, deploys, keys, flow, session, page, tokens, links, redeemed, wire>>

Past(exp) == exp # None /\ exp <= now
Live(k) == keys[k].revoked = None /\ ~Past(keys[k].expires)
LiveKeys(p) == {k \in DOMAIN keys : keys[k].owner = p /\ Live(k)}

-----------------------------------------------------------------------------
(***************************************************************************)
(* The round trip.  state, nonce and verifier are drawn together and are   *)
(* one token here; since a code is redeemed once, so is the session's sid. *)
(***************************************************************************)
StartLogin(b) ==
    /\ tokens < MaxTokens
    /\ tokens' = tokens + 1
    /\ flow' = [flow EXCEPT ![b] = [state |-> tokens', exp |-> now + OAUTH_TTL]]
    /\ UNCHANGED <<now, expiring, deploys, keys, session, page, links, redeemed, wire>>

\* The provider's page: p consents in b to the flow it was opened for, and b is
\* sent to the callback.  The link may be opened in another browser as well.
Consent(b, p) ==
    /\ flow[b] # None /\ \A l \in links : l.state # flow[b].state
    /\ links' = links \cup {[state |-> flow[b].state, who |-> p, b |-> b]}
    /\ UNCHANGED <<now, expiring, deploys, keys, flow, session, page, tokens, redeemed, wire>>

Send(r) == Cardinality(wire) < MaxWire /\ wire' = wire \cup {r}

\* finishLogin: the callback is this browser's own, and on time.
Matches(b, link) == flow[b] # None /\ ~Past(flow[b].exp) /\ link.state = flow[b].state

\* The code goes to the provider; a callback that does not match is answered at
\* once.  loginResponse clears the state cookie either way.
OpenCallback(b, link) ==
    /\ link \in links
    /\ IF Matches(b, link)
       THEN Send([kind |-> "login", b |-> b, link |-> link]) /\ UNCHANGED flow
       ELSE flow' = [flow EXCEPT ![b] = None] /\ flow' # flow /\ UNCHANGED wire
    /\ UNCHANGED <<now, expiring, deploys, keys, session, page, tokens, links, redeemed>>

\* The provider redeems a code once; the identity must belong to the domain or
\* the organisation.
Identity(link) == IF link \in redeemed \/ link.who \in Outsiders THEN None ELSE link.who

FinishLogin(r) ==
    LET who == Identity(r.link)
    IN  /\ r \in wire /\ r.kind = "login"
        /\ wire' = wire \ {r}
        /\ redeemed' = redeemed \cup {r.link}
        /\ flow' = [flow EXCEPT ![r.b] = None]
        /\ session' = IF who = None THEN session
                      ELSE [session EXCEPT ![r.b] =
                               [who |-> who, sid |-> r.link.state, exp |-> now + SESSION_TTL]]
        /\ UNCHANGED <<now, expiring, deploys, keys, page, tokens, links>>

Logout(b) ==
    /\ session[b] # None
    /\ session' = [session EXCEPT ![b] = None]
    /\ UNCHANGED <<now, expiring, deploys, keys, flow, page, tokens, links, redeemed, wire>>

-----------------------------------------------------------------------------
(***************************************************************************)
(* A page and its requests: GET /api/me hands it the CSRF token of the     *)
(* session it is loaded for; what it does later, another tab may have      *)
(* signed someone else in.                                                 *)
(***************************************************************************)
ReadSession(s) == s # None /\ ~Past(s.exp)

LoadPage(b) ==
    /\ page' = [page EXCEPT ![b] = IF ReadSession(session[b]) THEN session[b] ELSE None]
    /\ page' # page
    /\ UNCHANGED <<now, expiring, deploys, keys, jar, tokens, links, redeemed, wire>>

Operations ==
    [what : {"issue", "adminMint"}, key : {None}]
        \cup [what : {"rotate", "revoke", "adminRevoke"}, key : DOMAIN keys]

\* Deviation: any page of ours will do, whoever it was loaded for.
checkSameOrigin(b) == page[b] # None

checkCsrf(b) == page[b] # None /\ page[b].sid = session[b].sid

Authorized(b, operation) ==
    /\ ReadSession(session[b]) /\ checkCsrf(b)
    /\ operation.what \in {"adminMint", "adminRevoke"} => session[b].who \in Admins

\* handleMe and handleAdmin: the Worker decides, the Treasury performs later what
\* the Worker's configuration asked for.
Request(b, operation) ==
    /\ Authorized(b, operation)
    /\ Send([kind |-> "rpc", b |-> b, who |-> session[b].who, shown |-> page[b].who,
             expiring |-> expiring, operation |-> operation])
    /\ UNCHANGED <<now, expiring, deploys, keys, jar, page, tokens, links, redeemed>>

-----------------------------------------------------------------------------
(***************************************************************************)
(* The Treasury's rows.  Each call is synchronous, without an await.       *)
(***************************************************************************)
Revoked(ks, k, by) == [ks EXCEPT ![k].revoked = by]

mintKey(ks, owner, expires) ==
    Append(ks, [owner |-> owner, revoked |-> None, expires |-> IF expires THEN now + KEY_TTL ELSE None])

\* Deviation: a rotation leaves the old key working.
issueKeepingOld(who, replacing, expires) ==
    IF IF replacing # None THEN replacing \in LiveKeys(who) ELSE Cardinality(LiveKeys(who)) < MAX_ACTIVE
    THEN mintKey(keys, who, expires) ELSE keys

\* A rotation needs a live key of theirs, an additional key a free place.
issueOwnKey(who, replacing, expires) ==
    CASE replacing \in LiveKeys(who) -> mintKey(Revoked(keys, replacing, who), who, expires)
      [] replacing = None /\ Cardinality(LiveKeys(who)) < MAX_ACTIVE -> mintKey(keys, who, expires)
      [] OTHER -> keys

\* With an owner, only a key of theirs.
revokeApiKey(k, owner, by) ==
    IF keys[k].revoked = None /\ (owner = None \/ keys[k].owner = owner)
    THEN Revoked(keys, k, by) ELSE keys

Perform(r) ==
    LET k == r.operation.key
    IN  CASE r.operation.what = "issue" -> issueOwnKey(r.who, None, r.expiring)
          [] r.operation.what = "rotate" -> issueOwnKey(r.who, k, r.expiring)
          [] r.operation.what = "revoke" -> revokeApiKey(k, r.who, r.who)
          [] r.operation.what = "adminRevoke" -> revokeApiKey(k, None, r.who)
          [] r.operation.what = "adminMint" -> mintKey(keys, None, FALSE)

Write(r) ==
    /\ r \in wire /\ r.kind = "rpc"
    /\ Len(Perform(r)) <= MaxKeys
    /\ wire' = wire \ {r}
    /\ keys' = Perform(r)
    /\ UNCHANGED <<now, expiring, deploys, jar, page, tokens, links, redeemed>>

\* Deviation: every self-serve key loses its expiry, the expired ones too.
migrateAll(expire) ==
    IF expire THEN keys
    ELSE [k \in DOMAIN keys |-> IF keys[k].owner # None /\ keys[k].revoked = None
                                THEN [keys[k] EXCEPT !.expires = None] ELSE keys[k]]

migrateAccounts(expire) ==
    IF expire THEN keys
    ELSE [k \in DOMAIN keys |-> IF keys[k].owner # None /\ Live(k)
                                THEN [keys[k] EXCEPT !.expires = None] ELSE keys[k]]

\* A new deployment, or an eviction: the constructor migrates under its policy.
Restart(expire) ==
    /\ deploys < MaxDeploys
    /\ deploys' = deploys + 1 /\ expiring' = expire
    /\ keys' = migrateAccounts(expire)
    /\ UNCHANGED <<now, jar, page, tokens, links, redeemed, wire>>

Tick ==
    /\ now < MaxTime /\ now' = now + 1
    /\ UNCHANGED <<expiring, deploys, keys, jar, page, tokens, links, redeemed, wire>>

-----------------------------------------------------------------------------
Init ==
    /\ now = 0 /\ expiring = TRUE /\ deploys = 0
    /\ keys = <<>>
    /\ flow = [b \in Browsers |-> None] /\ session = flow /\ page = flow
    /\ tokens = 0 /\ links = {} /\ redeemed = {} /\ wire = {}

Next ==
    \/ \E b \in Browsers :
        \/ StartLogin(b) \/ Logout(b) \/ LoadPage(b)
        \/ \E p \in People : Consent(b, p)
        \/ \E link \in links : OpenCallback(b, link)
        \/ \E operation \in Operations : Request(b, operation)
    \/ \E r \in wire : FinishLogin(r) \/ Write(r)
    \/ \E expire \in BOOLEAN : Restart(expire)
    \/ Tick

Spec == Init /\ [][Next]_vars

-----------------------------------------------------------------------------
(***************************************************************************)
(* Properties.                                                             *)
(***************************************************************************)
(***************************************************************************)
(* Nobody has more live self-serve keys than the limit, across rotations,  *)
(* requests in flight together and changes of policy (issueOwnKey,         *)
(* src/src/treasury.ts).                                                   *)
(***************************************************************************)
CapExact == \A p \in People : Cardinality(LiveKeys(p)) <= MAX_ACTIVE

(***************************************************************************)
(* A key that was revoked or has expired never works again, whatever policy*)
(* the next deployment brings (migrateAccounts, src/src/accounts.ts), and a*)
(* row never changes hands.                                                *)
(***************************************************************************)
DeadStaysDead ==
    [][\A k \in DOMAIN keys :
        /\ k \in DOMAIN keys' /\ keys'[k].owner = keys[k].owner
        /\ ~Live(k) => ~Live(k)'
        /\ keys[k].revoked \in {None, keys'[k].revoked}]_vars

(***************************************************************************)
(* The Treasury is called only for the person the page showed, and only if *)
(* that person consented in that very browser, whichever callback links    *)
(* were opened in it and whoever signed in in another tab (finishLogin,    *)
(* checkCsrf, src/src/auth.ts).                                            *)
(***************************************************************************)
WritesAreOwn ==
    \A r \in wire : r.kind = "rpc" =>
        r.shown = r.who /\ \E l \in links : l.b = r.b /\ l.who = r.who
=============================================================================
