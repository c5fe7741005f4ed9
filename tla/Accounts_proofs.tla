--------------------------- MODULE Accounts_proofs ---------------------------
(***************************************************************************)
(* The key limit, dead keys and the ownership of writes, for any number of *)
(* people, browsers, logins, keys, deployments and calls under way.        *)
(***************************************************************************)
EXTENDS Accounts, SequenceTheorems, FiniteSetTheorems, TLAPS

Rows == [owner : People \cup {None}, revoked : People \cup {None}, expires : Nat \cup {None}]
Sessions == [who : People, sid : Nat, exp : Nat]
Flows == [state : Nat, exp : Nat]

(***************************************************************************)
(* Types; a login under way carries a link, and a call to the Treasury     *)
(* names a key there is, or none.                                          *)
(***************************************************************************)
CallOK(r) == r.who \in People /\ r.operation \in Operations

TypeInv ==
    /\ now \in Nat /\ expiring \in BOOLEAN /\ tokens \in Nat
    /\ keys \in Seq(Rows)
    /\ flow \in [Browsers -> Flows \cup {None}]
    /\ session \in [Browsers -> Sessions \cup {None}]
    /\ page \in [Browsers -> Sessions \cup {None}]
    /\ links \subseteq [state : Nat, who : People, b : Browsers]
    /\ \A r \in wire : r.kind = "rpc" => CallOK(r)
    /\ \A r \in wire : r.kind = "login" => r.link \in links /\ r.b \in Browsers

(***************************************************************************)
(* A row keeps its owner, and once dead it stays dead.                     *)
(***************************************************************************)
RowsMove ==
    \A k \in DOMAIN keys :
        /\ k \in DOMAIN keys' /\ keys'[k].owner = keys[k].owner
        /\ ~Live(k) => ~Live(k)'
        /\ keys[k].revoked \in {None, keys'[k].revoked}

-----------------------------------------------------------------------------
\* Revoking touches one field of one row.
LEMMA RevokedRow ==
    ASSUME NEW ks \in Seq(Rows), NEW k \in DOMAIN ks, NEW by \in People
    PROVE  /\ Revoked(ks, k, by) \in Seq(Rows)
           /\ DOMAIN Revoked(ks, k, by) = DOMAIN ks
           /\ Len(Revoked(ks, k, by)) = Len(ks)
           /\ \A j \in DOMAIN ks :
                /\ Revoked(ks, k, by)[j].owner = ks[j].owner
                /\ Revoked(ks, k, by)[j].expires = ks[j].expires
                /\ Revoked(ks, k, by)[j].revoked = IF j = k THEN by ELSE ks[j].revoked
  <1> DEFINE row == [ks[k] EXCEPT !.revoked = by]
  <1>1. DOMAIN ks = 1 .. Len(ks) /\ Len(ks) \in Nat
    BY LenProperties
  <1>2. \A j \in 1 .. Len(ks) : ks[j] \in Rows
    BY ElementOfSeq
  <1>3. row \in Rows /\ row.owner = ks[k].owner /\ row.expires = ks[k].expires /\ row.revoked = by
    BY <1>1, <1>2 DEF Rows
  <1>4. Revoked(ks, k, by) = [ks EXCEPT ![k] = row]
    BY DEF Revoked
  <1> HIDE DEF row
  <1>5. /\ [ks EXCEPT ![k] = row] \in Seq(Rows)
        /\ Len([ks EXCEPT ![k] = row]) = Len(ks)
        /\ \A j \in 1 .. Len(ks) : [ks EXCEPT ![k] = row][j] = IF j = k THEN row ELSE ks[j]
    BY <1>1, <1>3, ExceptSeq
  <1>6. DOMAIN Revoked(ks, k, by) = DOMAIN ks
    BY <1>4
  <1> QED BY <1>1, <1>3, <1>4, <1>5, <1>6

\* What a row minted now looks like.
Minted(owner, expires) ==
    [owner |-> owner, revoked |-> None, expires |-> IF expires THEN now + KEY_TTL ELSE None]

\* A row added at the end disturbs no other.
LEMMA AddedRow ==
    ASSUME NEW ks \in Seq(Rows), NEW row \in Rows
    PROVE  /\ Append(ks, row) \in Seq(Rows)
           /\ DOMAIN Append(ks, row) = DOMAIN ks \cup {Len(ks) + 1}
           /\ Len(ks) + 1 \notin DOMAIN ks
           /\ \A j \in DOMAIN ks : Append(ks, row)[j] = ks[j]
           /\ Append(ks, row)[Len(ks) + 1] = row
  <1>1. DOMAIN ks = 1 .. Len(ks) /\ Len(ks) \in Nat
    BY LenProperties
  <1>2. Append(ks, row) \in Seq(Rows) /\ Len(Append(ks, row)) = Len(ks) + 1
    OBVIOUS
  <1>3. /\ DOMAIN Append(ks, row) = 1 .. Len(ks) + 1
        /\ \A j \in 1 .. Len(ks) : Append(ks, row)[j] = ks[j]
        /\ Append(ks, row)[Len(ks) + 1] = row
    BY <1>1
  <1> QED BY <1>1, <1>2, <1>3

\* A policy without expiries clears those of live keys, and only those.
LEMMA MigratedRows ==
    ASSUME keys \in Seq(Rows), NEW expire \in BOOLEAN
    PROVE  /\ migrateAccounts(expire) \in Seq(Rows)
           /\ DOMAIN migrateAccounts(expire) = DOMAIN keys
           /\ \A j \in DOMAIN keys :
                /\ migrateAccounts(expire)[j].owner = keys[j].owner
                /\ migrateAccounts(expire)[j].revoked = keys[j].revoked
                /\ ~Live(j) => migrateAccounts(expire)[j] = keys[j]
  <1>1. DOMAIN keys = 1 .. Len(keys) /\ Len(keys) \in Nat
    BY LenProperties
  <1>2. \A j \in 1 .. Len(keys) : keys[j] \in Rows
    BY ElementOfSeq
  <1>3. CASE expire
    BY <1>3 DEF migrateAccounts
  <1>4. CASE ~expire
    <2> DEFINE row(k) == IF keys[k].owner # None /\ Live(k)
                         THEN [keys[k] EXCEPT !.expires = None] ELSE keys[k]
    <2>1. migrateAccounts(expire) = [k \in 1 .. Len(keys) |-> row(k)]
      BY <1>1, <1>4 DEF migrateAccounts
    <2>2. \A k \in 1 .. Len(keys) : row(k) \in Rows
      BY <1>2 DEF Rows
    <2>3. \A k \in 1 .. Len(keys) :
            /\ row(k).owner = keys[k].owner /\ row(k).revoked = keys[k].revoked
            /\ ~Live(k) => row(k) = keys[k]
      BY <1>2 DEF Rows
    <2> HIDE DEF row
    <2>4. [k \in 1 .. Len(keys) |-> row(k)] \in Seq(Rows)
      BY <1>1, <2>2, SeqDef
    <2> QED BY <1>1, <2>1, <2>3, <2>4
  <1> QED BY <1>3, <1>4

\* A person's live keys are finitely many.
LEMMA FewKeys ==
    ASSUME keys \in Seq(Rows), NEW p
    PROVE  IsFiniteSet(LiveKeys(p)) /\ Cardinality(LiveKeys(p)) \in Nat
  <1>1. DOMAIN keys = 1 .. Len(keys) /\ Len(keys) \in Nat
    BY LenProperties
  <1>2. IsFiniteSet(1 .. Len(keys))
    BY <1>1, FS_Interval
  <1>3. LiveKeys(p) \in SUBSET (1 .. Len(keys))
    BY <1>1 DEF LiveKeys
  <1>4. IsFiniteSet(LiveKeys(p))
    BY <1>2, <1>3, FS_Subset
  <1> QED BY <1>4, FS_CardinalityType

-----------------------------------------------------------------------------
(***************************************************************************)
(* What a call that arrives does to the rows.                              *)
(***************************************************************************)
\* A call of a person's own is about a key there is, or about none.
LEMMA CallTargets ==
    ASSUME NEW r, CallOK(r)
    PROVE  /\ r.operation.what \in {"issue", "adminMint", "rotate", "revoke", "adminRevoke"}
           /\ r.operation.what \in {"rotate", "revoke", "adminRevoke"} => r.operation.key \in DOMAIN keys
  BY DEF CallOK, Operations

\* One row more, in a place that was free or that its owner's old key gave up.
Grew(after, who, replacing) ==
    /\ DOMAIN after = DOMAIN keys \cup {Len(keys) + 1}
    /\ Len(keys) + 1 \notin DOMAIN keys
    /\ after[Len(keys) + 1].owner = who
    /\ \A j \in DOMAIN keys :
        /\ after[j].owner = keys[j].owner /\ after[j].expires = keys[j].expires
        /\ after[j].revoked = keys[j].revoked \/ (j = replacing /\ after[j].revoked = who)
    /\ \/ /\ replacing \in LiveKeys(who)
          /\ after[replacing].revoked = who
       \/ /\ Cardinality(LiveKeys(who)) < MAX_ACTIVE
          /\ \A j \in DOMAIN keys : after[j] = keys[j]

LEMMA IssueKeeps ==
    ASSUME keys \in Seq(Rows), now \in Nat,
           NEW who \in People, NEW replacing \in DOMAIN keys \cup {None}, NEW expires
    PROVE  /\ issueOwnKey(who, replacing, expires) \in Seq(Rows)
           /\ \/ issueOwnKey(who, replacing, expires) = keys
              \/ Grew(issueOwnKey(who, replacing, expires), who, replacing)
  <1> DEFINE after == issueOwnKey(who, replacing, expires)
             row == Minted(who, expires)
  <1>0. row \in Rows /\ row.owner = who
    BY AccountsAssumption DEF AccountsAssumption, Rows, Minted
  <1>1. LiveKeys(who) \subseteq DOMAIN keys
    BY DEF LiveKeys
  <1>2. DOMAIN keys = 1 .. Len(keys) /\ Len(keys) \in Nat
    BY LenProperties
  <1>3. None \notin LiveKeys(who)
    BY <1>1, <1>2, AccountsAssumption DEF AccountsAssumption
  <1>4. CASE replacing \in LiveKeys(who)
    <2> DEFINE left == Revoked(keys, replacing, who)
    <2>1. replacing \in DOMAIN keys
      BY <1>1, <1>4
    <2>2. after = Append(left, row)
      BY <1>3, <1>4 DEF issueOwnKey, mintKey, Minted
    <2>3. /\ left \in Seq(Rows) /\ DOMAIN left = DOMAIN keys /\ Len(left) = Len(keys)
          /\ \A j \in DOMAIN keys :
                /\ left[j].owner = keys[j].owner /\ left[j].expires = keys[j].expires
                /\ left[j].revoked = IF j = replacing THEN who ELSE keys[j].revoked
      BY <2>1, RevokedRow
    <2> HIDE DEF left, after, row
    <2>4. /\ after \in Seq(Rows)
          /\ DOMAIN after = DOMAIN left \cup {Len(left) + 1}
          /\ Len(left) + 1 \notin DOMAIN left
          /\ \A j \in DOMAIN left : after[j] = left[j]
          /\ after[Len(left) + 1].owner = who
      BY <1>0, <2>2, <2>3, AddedRow
    <2>5. \A j \in DOMAIN keys :
            /\ after[j].owner = keys[j].owner /\ after[j].expires = keys[j].expires
            /\ after[j].revoked = IF j = replacing THEN who ELSE keys[j].revoked
      BY <2>3, <2>4
    <2>6. Grew(after, who, replacing)
      BY <1>4, <2>1, <2>3, <2>4, <2>5 DEF Grew
    <2> QED BY <2>4, <2>6 DEF after
  <1>5. CASE replacing \notin LiveKeys(who) /\ replacing = None /\ Cardinality(LiveKeys(who)) < MAX_ACTIVE
    <2>1. after = Append(keys, row)
      BY <1>5 DEF issueOwnKey, mintKey, Minted
    <2> HIDE DEF after, row
    <2>2. /\ after \in Seq(Rows)
          /\ DOMAIN after = DOMAIN keys \cup {Len(keys) + 1}
          /\ Len(keys) + 1 \notin DOMAIN keys
          /\ \A j \in DOMAIN keys : after[j] = keys[j]
          /\ after[Len(keys) + 1].owner = who
      BY <1>0, <2>1, AddedRow
    <2>3. Grew(after, who, replacing)
      BY <1>5, <2>2 DEF Grew
    <2> QED BY <2>2, <2>3 DEF after
  <1>6. CASE replacing \notin LiveKeys(who) /\ ~(replacing = None /\ Cardinality(LiveKeys(who)) < MAX_ACTIVE)
    BY <1>6 DEF issueOwnKey
  <1> QED BY <1>4, <1>5, <1>6

\* Rows nobody removed, nor revived: what every write leaves.
LEMMA SameRowsMove ==
    ASSUME keys \in Seq(Rows), now \in Nat, now' = now,
           DOMAIN keys \subseteq DOMAIN keys',
           \A k \in DOMAIN keys :
               /\ keys'[k].owner = keys[k].owner
               /\ ~Live(k) => keys'[k].expires = keys[k].expires
               /\ keys'[k].revoked = keys[k].revoked \/ (keys[k].revoked = None /\ keys'[k].revoked # None)
    PROVE  RowsMove
  BY DEF RowsMove, Live, Past

\* The limit survives when nobody gains a live key.
LEMMA NoNewKeys ==
    ASSUME keys \in Seq(Rows), CapExact,
           \A p \in People : LiveKeys(p)' \subseteq LiveKeys(p)
    PROVE  CapExact'
  <1> SUFFICES ASSUME NEW p \in People
               PROVE  Cardinality(LiveKeys(p)') <= MAX_ACTIVE
    BY DEF CapExact
  <1>1. IsFiniteSet(LiveKeys(p)) /\ Cardinality(LiveKeys(p)) \in Nat
    BY FewKeys
  <1>2. /\ IsFiniteSet(LiveKeys(p)') /\ Cardinality(LiveKeys(p)') <= Cardinality(LiveKeys(p))
    BY <1>1, FS_Subset
  <1>3. Cardinality(LiveKeys(p)') \in Nat
    BY <1>2, FS_CardinalityType
  <1>4. Cardinality(LiveKeys(p)) <= MAX_ACTIVE /\ MAX_ACTIVE \in Nat
    BY AccountsAssumption DEF CapExact, AccountsAssumption
  <1> QED BY <1>1, <1>2, <1>3, <1>4

\* One key more where there was room, or in exchange for one.
LEMMA OneNewKey ==
    ASSUME keys \in Seq(Rows), CapExact,
           NEW who \in People, NEW k, NEW old,
           \/ Cardinality(LiveKeys(who)) < MAX_ACTIVE
           \/ old \in LiveKeys(who) /\ old \notin LiveKeys(who)',
           LiveKeys(who)' \subseteq LiveKeys(who) \cup {k},
           \A p \in People \ {who} : LiveKeys(p)' \subseteq LiveKeys(p)
    PROVE  CapExact'
  <1> DEFINE S == LiveKeys(who)
             R == IF old \in S /\ old \notin S' THEN (S \cup {k}) \ {old} ELSE S \cup {k}
  <1>1. IsFiniteSet(S) /\ Cardinality(S) \in Nat
    BY FewKeys
  <1>2. Cardinality(S) <= MAX_ACTIVE /\ MAX_ACTIVE \in Nat
    BY AccountsAssumption DEF CapExact, AccountsAssumption
  <1>3. /\ IsFiniteSet(S \cup {k})
        /\ Cardinality(S \cup {k}) <= Cardinality(S) + 1 /\ Cardinality(S \cup {k}) \in Nat
    <2> HIDE DEF S, R
    <2>1. /\ IsFiniteSet(S \cup {k})
          /\ Cardinality(S \cup {k}) = IF k \in S THEN Cardinality(S) ELSE Cardinality(S) + 1
      BY <1>1, FS_AddElement
    <2> QED BY <1>1, <2>1
  <1>4. IsFiniteSet(R) /\ Cardinality(R) <= MAX_ACTIVE /\ Cardinality(R) \in Nat
    <2>1. CASE old \in S /\ old \notin S'
      <3> HIDE DEF S
      <3>1. R = (S \cup {k}) \ {old} /\ old \in S \cup {k}
        BY <2>1
      <3>2. IsFiniteSet(R) /\ Cardinality(R) = Cardinality(S \cup {k}) - 1
        BY <1>3, <3>1, FS_RemoveElement
      <3>3. Cardinality(R) \in Nat
        BY <3>2, FS_CardinalityType
      <3> HIDE DEF R
      <3> QED BY <1>1, <1>2, <1>3, <3>2, <3>3
    <2>2. CASE ~(old \in S /\ old \notin S')
      <3>1. R = S \cup {k} /\ Cardinality(S) < MAX_ACTIVE
        BY <2>2
      <3> HIDE DEF R, S
      <3> QED BY <1>1, <1>2, <1>3, <3>1
    <2> QED BY <2>1, <2>2
  <1>5. S' \subseteq R
    OBVIOUS
  <1> SUFFICES ASSUME NEW p \in People
               PROVE  Cardinality(LiveKeys(p)') <= MAX_ACTIVE
    BY DEF CapExact
  <1>6. CASE p = who
    <2> HIDE DEF R
    <2>1. IsFiniteSet(S') /\ Cardinality(S') <= Cardinality(R)
      BY <1>4, <1>5, FS_Subset
    <2>2. Cardinality(S') \in Nat
      BY <2>1, FS_CardinalityType
    <2>3. Cardinality(S') <= MAX_ACTIVE
      BY <1>2, <1>4, <2>1, <2>2
    <2> QED BY <1>6, <2>3
  <1>7. CASE p # who
    <2>1. IsFiniteSet(LiveKeys(p)) /\ Cardinality(LiveKeys(p)) \in Nat
      BY FewKeys
    <2>2. IsFiniteSet(LiveKeys(p)') /\ Cardinality(LiveKeys(p)') <= Cardinality(LiveKeys(p))
      BY <1>7, <2>1, FS_Subset
    <2>3. Cardinality(LiveKeys(p)') \in Nat
      BY <2>2, FS_CardinalityType
    <2>4. Cardinality(LiveKeys(p)) <= MAX_ACTIVE
      BY DEF CapExact
    <2> QED BY <1>2, <2>1, <2>2, <2>3, <2>4
  <1> QED BY <1>6, <1>7

(***************************************************************************)
(* A call that arrives.                                                    *)
(***************************************************************************)
\* An issue or a rotation.
LEMMA IssueStep ==
    ASSUME keys \in Seq(Rows), now \in Nat, now' = now, CapExact,
           NEW who \in People, NEW replacing \in DOMAIN keys \cup {None}, NEW expires,
           keys' = issueOwnKey(who, replacing, expires)
    PROVE  keys' \in Seq(Rows) /\ RowsMove /\ CapExact'
  <1> DEFINE new == Len(keys) + 1
  <1>1. keys' \in Seq(Rows)
    BY IssueKeeps
  <1>2. CASE keys' = keys
    <2>1. RowsMove
      BY <1>2, SameRowsMove
    <2>2. CapExact'
      BY <1>2 DEF CapExact, LiveKeys, Live, Past
    <2> QED BY <1>1, <2>1, <2>2
  <1>3. CASE keys' # keys
    <2>1. Grew(keys', who, replacing)
      BY <1>3, IssueKeeps
    <2>2. who # None
      BY AccountsAssumption DEF AccountsAssumption
    <2>3. \A j \in DOMAIN keys :
            keys'[j].revoked = keys[j].revoked \/ (keys[j].revoked = None /\ keys'[j].revoked # None)
      BY <2>1, <2>2 DEF Grew, LiveKeys, Live
    <2>4. RowsMove
      BY <2>1, <2>3, SameRowsMove DEF Grew
    <2>5. \A j \in DOMAIN keys : Live(j)' => Live(j)
      BY <2>4 DEF RowsMove
    <2>6. LiveKeys(who)' \subseteq LiveKeys(who) \cup {new}
      BY <2>1, <2>5 DEF Grew, LiveKeys
    <2>7. \A p \in People \ {who} : LiveKeys(p)' \subseteq LiveKeys(p)
      BY <2>1, <2>5 DEF Grew, LiveKeys
    <2>8. \/ Cardinality(LiveKeys(who)) < MAX_ACTIVE
          \/ replacing \in LiveKeys(who) /\ replacing \notin LiveKeys(who)'
      BY <2>1, <2>2 DEF Grew, LiveKeys, Live
    <2>9. CapExact'
      BY <2>6, <2>7, <2>8, OneNewKey
    <2> QED BY <1>1, <2>4, <2>9
  <1> QED BY <1>2, <1>3

\* A revocation, of one's own key or by an admin.
LEMMA RevokeStep ==
    ASSUME keys \in Seq(Rows), now \in Nat, now' = now, CapExact,
           NEW k \in DOMAIN keys, NEW owner, NEW by \in People,
           keys' = revokeApiKey(k, owner, by)
    PROVE  keys' \in Seq(Rows) /\ RowsMove /\ CapExact'
  <1>1. by # None
    BY AccountsAssumption DEF AccountsAssumption
  <1>2. /\ keys' \in Seq(Rows) /\ DOMAIN keys' = DOMAIN keys
        /\ \A j \in DOMAIN keys :
            /\ keys'[j].owner = keys[j].owner /\ keys'[j].expires = keys[j].expires
            /\ keys'[j].revoked = keys[j].revoked \/ (keys[j].revoked = None /\ keys'[j].revoked # None)
    <2>1. CASE keys' = keys
      BY <2>1
    <2>2. CASE keys' # keys
      <3>1. keys[k].revoked = None /\ keys' = Revoked(keys, k, by)
        BY <2>2 DEF revokeApiKey
      <3> QED BY <1>1, <3>1, RevokedRow
    <2> QED BY <2>1, <2>2
  <1>3. RowsMove
    BY <1>2, SameRowsMove
  <1>4. \A p \in People : LiveKeys(p)' \subseteq LiveKeys(p)
    BY <1>2, <1>3 DEF RowsMove, LiveKeys
  <1> QED BY <1>2, <1>3, <1>4, NoNewKeys

\* An admin's key is nobody's.
LEMMA AdminMintStep ==
    ASSUME keys \in Seq(Rows), now \in Nat, now' = now, CapExact,
           keys' = mintKey(keys, None, FALSE)
    PROVE  keys' \in Seq(Rows) /\ RowsMove /\ CapExact'
  <1> DEFINE row == Minted(None, FALSE)
  <1>1. row \in Rows /\ row.owner = None
    BY DEF Rows, Minted
  <1>2. keys' = Append(keys, row)
    BY DEF mintKey, Minted
  <1> HIDE DEF row
  <1>3. /\ keys' \in Seq(Rows)
        /\ DOMAIN keys' = DOMAIN keys \cup {Len(keys) + 1}
        /\ \A j \in DOMAIN keys : keys'[j] = keys[j]
        /\ keys'[Len(keys) + 1].owner = None
    <2>1. /\ Append(keys, row) \in Seq(Rows)
          /\ DOMAIN Append(keys, row) = DOMAIN keys \cup {Len(keys) + 1}
          /\ \A j \in DOMAIN keys : Append(keys, row)[j] = keys[j]
          /\ Append(keys, row)[Len(keys) + 1] = row
      BY <1>1, AddedRow
    <2> QED BY <1>1, <1>2, <2>1
  <1>4. RowsMove
    BY <1>3, SameRowsMove
  <1>5. \A p \in People : LiveKeys(p)' \subseteq LiveKeys(p)
    BY <1>3, <1>4, AccountsAssumption DEF RowsMove, LiveKeys, AccountsAssumption
  <1> QED BY <1>3, <1>4, <1>5, NoNewKeys

LEMMA WriteStep ==
    ASSUME TypeInv, CapExact, NEW r \in wire, Write(r)
    PROVE  keys' \in Seq(Rows) /\ RowsMove /\ CapExact'
  <1> DEFINE what == r.operation.what
             k == r.operation.key
  <1>1. /\ keys \in Seq(Rows) /\ now \in Nat /\ now' = now
        /\ keys' = Perform(r) /\ CallOK(r) /\ r.who \in People
    BY DEF TypeInv, CallOK, Write
  <1>2. /\ what \in {"issue", "adminMint", "rotate", "revoke", "adminRevoke"}
        /\ what \in {"rotate", "revoke", "adminRevoke"} => k \in DOMAIN keys
    BY <1>1, CallTargets
  <1>3. CASE what = "issue"
    <2>1. keys' = issueOwnKey(r.who, None, r.expiring)
      BY <1>1, <1>3 DEF Perform
    <2> QED BY <1>1, <2>1, IssueStep
  <1>4. CASE what = "rotate"
    <2>1. keys' = issueOwnKey(r.who, k, r.expiring)
      BY <1>1, <1>4 DEF Perform
    <2> HIDE DEF k
    <2> QED BY <1>1, <1>2, <1>4, <2>1, IssueStep
  <1>5. CASE what = "revoke"
    <2>1. keys' = revokeApiKey(k, r.who, r.who)
      BY <1>1, <1>5 DEF Perform
    <2> HIDE DEF k
    <2> QED BY <1>1, <1>2, <1>5, <2>1, RevokeStep
  <1>6. CASE what = "adminRevoke"
    <2>1. keys' = revokeApiKey(k, None, r.who)
      BY <1>1, <1>6 DEF Perform
    <2> HIDE DEF k
    <2> QED BY <1>1, <1>2, <1>6, <2>1, RevokeStep
  <1>7. CASE what = "adminMint"
    <2>1. keys' = mintKey(keys, None, FALSE)
      BY <1>1, <1>7 DEF Perform
    <2> QED BY <1>1, <2>1, AdminMintStep
  <1> QED BY <1>2, <1>3, <1>4, <1>5, <1>6, <1>7

-----------------------------------------------------------------------------
(***************************************************************************)
(* Every step.                                                             *)
(***************************************************************************)
LEMMA KeysStep ==
    ASSUME TypeInv, CapExact, [Next]_vars
    PROVE  keys' \in Seq(Rows) /\ RowsMove /\ CapExact'
  <1>1. keys \in Seq(Rows) /\ now \in Nat
    BY DEF TypeInv
  <1>2. CASE keys' = keys /\ now' = now
    <2>1. RowsMove
      BY <1>1, <1>2, SameRowsMove
    <2>2. CapExact'
      BY <1>2 DEF CapExact, LiveKeys, Live, Past
    <2> QED BY <1>1, <1>2, <2>1, <2>2
  <1>3. ASSUME NEW r \in wire, Write(r)
        PROVE  keys' \in Seq(Rows) /\ RowsMove /\ CapExact'
    BY <1>3, WriteStep
  <1>4. ASSUME NEW expire \in BOOLEAN, Restart(expire)
        PROVE  keys' \in Seq(Rows) /\ RowsMove /\ CapExact'
    <2>1. keys' = migrateAccounts(expire) /\ now' = now
      BY <1>4 DEF Restart
    <2>2. /\ keys' \in Seq(Rows) /\ DOMAIN keys' = DOMAIN keys
          /\ \A j \in DOMAIN keys :
                /\ keys'[j].owner = keys[j].owner /\ keys'[j].revoked = keys[j].revoked
                /\ ~Live(j) => keys'[j] = keys[j]
      BY <1>1, <2>1, MigratedRows
    <2>3. RowsMove
      BY <1>1, <2>1, <2>2, SameRowsMove
    <2>4. \A p \in People : LiveKeys(p)' \subseteq LiveKeys(p)
      BY <2>2, <2>3 DEF RowsMove, LiveKeys
    <2> QED BY <1>1, <2>2, <2>3, <2>4, NoNewKeys
  <1>5. CASE Tick
    <2>1. keys' = keys /\ now' = now + 1
      BY <1>5 DEF Tick
    <2>2. \A j \in DOMAIN keys : keys[j] \in Rows
      <3>1. DOMAIN keys = 1 .. Len(keys)
        BY <1>1, LenProperties
      <3> QED BY <1>1, <3>1, ElementOfSeq
    <2>3. \A j \in DOMAIN keys : Live(j)' => Live(j)
      BY <1>1, <2>1, <2>2 DEF Live, Past, Rows
    <2>4. RowsMove
      BY <2>1, <2>3 DEF RowsMove
    <2>5. \A p \in People : LiveKeys(p)' \subseteq LiveKeys(p)
      BY <2>1, <2>3 DEF LiveKeys
    <2> QED BY <1>1, <2>1, <2>4, <2>5, NoNewKeys
  <1>6. ASSUME NEW b \in Browsers,
               \/ StartLogin(b) \/ Logout(b) \/ LoadPage(b)
               \/ \E p \in People : Consent(b, p)
               \/ \E link \in links : OpenCallback(b, link)
               \/ \E operation \in Operations : Request(b, operation)
        PROVE  keys' = keys /\ now' = now
    BY <1>6 DEF StartLogin, Logout, LoadPage, Consent, OpenCallback, Request
  <1>7. ASSUME NEW r \in wire, FinishLogin(r)
        PROVE  keys' = keys /\ now' = now
    BY <1>7 DEF FinishLogin
  <1>8. CASE UNCHANGED vars
    BY <1>2, <1>8 DEF vars
  <1> QED BY <1>2, <1>3, <1>4, <1>5, <1>6, <1>7, <1>8 DEF Next

\* A key that was there is there after any step.
LEMMA CallsStay ==
    ASSUME RowsMove, NEW r, CallOK(r)
    PROVE  CallOK(r)'
  BY DEF RowsMove, CallOK, Operations

LEMMA TypeStep ==
    ASSUME TypeInv, keys' \in Seq(Rows), RowsMove, [Next]_vars
    PROVE  TypeInv'
  <1> USE DEF TypeInv
  <1>0. \A r : CallOK(r) => CallOK(r)'
    BY CallsStay
  <1>1. ASSUME NEW b \in Browsers, StartLogin(b)
        PROVE  TypeInv'
    BY <1>0, <1>1, AccountsAssumption DEF StartLogin, AccountsAssumption, Flows
  <1>2. ASSUME NEW b \in Browsers, Logout(b)
        PROVE  TypeInv'
    BY <1>0, <1>2 DEF Logout
  <1>3. ASSUME NEW b \in Browsers, LoadPage(b)
        PROVE  TypeInv'
    BY <1>0, <1>3 DEF LoadPage, jar
  <1>4. ASSUME NEW b \in Browsers, NEW p \in People, Consent(b, p)
        PROVE  TypeInv'
    <2>1. flow[b] \in Flows
      BY <1>4 DEF Consent
    <2> QED BY <1>0, <1>4, <2>1 DEF Consent, Flows
  <1>5. ASSUME NEW b \in Browsers, NEW link \in links, OpenCallback(b, link)
        PROVE  TypeInv'
    BY <1>0, <1>5 DEF OpenCallback, Send
  <1>6. ASSUME NEW b \in Browsers, NEW operation \in Operations, Request(b, operation)
        PROVE  TypeInv'
    <2> DEFINE new == [kind |-> "rpc", b |-> b, who |-> session[b].who, shown |-> page[b].who,
                       expiring |-> expiring, operation |-> operation]
    <2>1. session[b].who \in People
      BY <1>6 DEF Request, Authorized, ReadSession, Sessions
    <2>2. CallOK(new) /\ new.kind = "rpc"
      BY <2>1 DEF CallOK
    <2>3. wire' = wire \cup {new}
      BY <1>6 DEF Request, Send
    <2> HIDE DEF new
    <2> QED BY <1>0, <1>6, <2>2, <2>3 DEF Request, jar
  <1>7. ASSUME NEW r \in wire, FinishLogin(r)
        PROVE  TypeInv'
    <2> DEFINE new == [who |-> r.link.who, sid |-> r.link.state, exp |-> now + SESSION_TTL]
    <2>1. r.link \in [state : Nat, who : People, b : Browsers]
      BY <1>7 DEF FinishLogin
    <2>2. new \in Sessions
      BY <2>1, AccountsAssumption DEF AccountsAssumption, Sessions
    <2>3. session' = session \/ session' = [session EXCEPT ![r.b] = new]
      BY <1>7 DEF FinishLogin, Identity
    <2> HIDE DEF new
    <2>4. session' \in [Browsers -> Sessions \cup {None}]
      BY <2>2, <2>3
    <2>5. /\ flow' = [flow EXCEPT ![r.b] = None] /\ wire' = wire \ {r}
          /\ UNCHANGED <<now, expiring, tokens, links, page>>
      BY <1>7 DEF FinishLogin
    <2> QED BY <1>0, <2>4, <2>5
  <1>8. ASSUME NEW r \in wire, Write(r)
        PROVE  TypeInv'
    BY <1>0, <1>8 DEF Write, jar
  <1>9. ASSUME NEW expire \in BOOLEAN, Restart(expire)
        PROVE  TypeInv'
    BY <1>0, <1>9 DEF Restart, jar
  <1>10. CASE Tick
    BY <1>0, <1>10 DEF Tick, jar
  <1>11. CASE UNCHANGED vars
    BY <1>0, <1>11 DEF vars, jar
  <1> QED BY <1>1, <1>2, <1>3, <1>4, <1>5, <1>6, <1>7, <1>8, <1>9, <1>10, <1>11 DEF Next

-----------------------------------------------------------------------------
(***************************************************************************)
(* Logins.  A state is drawn once, for one browser; a link, a session and a*)
(* page's session go back to it.                                           *)
(***************************************************************************)
Traced(s, b) == \E l \in links : l.state = s.sid /\ l.who = s.who /\ l.b = b

LoginInv ==
    /\ \A l \in links : l.state \in 1 .. tokens
    /\ \A l, m \in links : l.state = m.state => l = m
    /\ \A b \in Browsers : flow[b] # None =>
        /\ flow[b].state \in 1 .. tokens
        /\ \A l \in links : l.state = flow[b].state => l.b = b
        /\ \A c \in Browsers : flow[c] # None /\ flow[c].state = flow[b].state => b = c
    /\ \A r \in wire : r.kind = "login" => r.link.b = r.b
    /\ \A b \in Browsers :
        /\ session[b] # None => Traced(session[b], b)
        /\ page[b] # None => Traced(page[b], b)

\* Nothing a trace goes back to is ever lost.
LEMMA TracesStay ==
    ASSUME links \subseteq links', NEW s, NEW b, Traced(s, b)
    PROVE  Traced(s, b)'
  BY DEF Traced

LEMMA LoginStep ==
    ASSUME TypeInv, LoginInv, [Next]_vars
    PROVE  LoginInv'
  <1> USE DEF TypeInv, LoginInv
  <1>1. ASSUME NEW b \in Browsers, StartLogin(b)
        PROVE  LoginInv'
    <2>1. /\ tokens' = tokens + 1 /\ links' = links /\ wire' = wire
          /\ session' = session /\ page' = page
          /\ flow' = [flow EXCEPT ![b] = [state |-> tokens + 1, exp |-> now + OAUTH_TTL]]
      BY <1>1 DEF StartLogin
    <2>2. \A l \in links : l.state \in 1 .. tokens' /\ l.state # tokens + 1
      BY <2>1
    <2>3. \A c \in Browsers : flow'[c] # None =>
            /\ flow'[c].state \in 1 .. tokens'
            /\ c # b => flow'[c] = flow[c] /\ flow'[c].state # tokens + 1
            /\ c = b => flow'[c].state = tokens + 1
      BY <2>1
    <2> QED BY <2>1, <2>2, <2>3 DEF Traced
  <1>2. ASSUME NEW b \in Browsers, Logout(b)
        PROVE  LoginInv'
    BY <1>2 DEF Logout, Traced
  <1>3. ASSUME NEW b \in Browsers, LoadPage(b)
        PROVE  LoginInv'
    BY <1>3 DEF LoadPage, jar, Traced, ReadSession
  <1>4. ASSUME NEW b \in Browsers, NEW p \in People, Consent(b, p)
        PROVE  LoginInv'
    <2> DEFINE new == [state |-> flow[b].state, who |-> p, b |-> b]
    <2>1. /\ links' = links \cup {new} /\ flow[b] # None
          /\ \A l \in links : l.state # new.state
          /\ UNCHANGED <<flow, session, page, wire, tokens>>
      BY <1>4 DEF Consent
    <2>2. new.state \in 1 .. tokens /\ new.state = flow[b].state /\ new.b = b
      BY <2>1
    <2> HIDE DEF new
    <2>3. \A s, c : Traced(s, c) => Traced(s, c)'
      BY <2>1 DEF Traced
    <2> QED BY <2>1, <2>2, <2>3
  <1>5. ASSUME NEW b \in Browsers, NEW link \in links, OpenCallback(b, link)
        PROVE  LoginInv'
    <2>1. UNCHANGED <<session, page, links, tokens>>
      BY <1>5 DEF OpenCallback
    <2>2. CASE Matches(b, link)
      <3>1. link.b = b /\ flow' = flow
        BY <1>5, <2>2 DEF OpenCallback, Matches
      <3>2. wire' = wire \cup {[kind |-> "login", b |-> b, link |-> link]}
        BY <1>5, <2>2 DEF OpenCallback, Send
      <3> QED BY <2>1, <3>1, <3>2 DEF Traced
    <2>3. CASE ~Matches(b, link)
      <3>1. flow' = [flow EXCEPT ![b] = None] /\ wire' = wire
        BY <1>5, <2>3 DEF OpenCallback
      <3> QED BY <2>1, <3>1 DEF Traced
    <2> QED BY <2>2, <2>3
  <1>6. ASSUME NEW b \in Browsers, NEW operation \in Operations, Request(b, operation)
        PROVE  LoginInv'
    <2>1. /\ UNCHANGED <<flow, session, page, links, tokens>>
          /\ \A r \in wire' : r.kind = "login" => r \in wire
      BY <1>6 DEF Request, Send, jar
    <2> QED BY <2>1 DEF Traced
  <1>7. ASSUME NEW r \in wire, FinishLogin(r)
        PROVE  LoginInv'
    <2> DEFINE new == [who |-> r.link.who, sid |-> r.link.state, exp |-> now + SESSION_TTL]
    <2>1. /\ UNCHANGED <<page, links, tokens>> /\ wire' \subseteq wire
          /\ flow' = [flow EXCEPT ![r.b] = None]
          /\ session' = session \/ session' = [session EXCEPT ![r.b] = new]
      BY <1>7 DEF FinishLogin, Identity
    <2>2. r.link \in links /\ r.link.b = r.b /\ r.b \in Browsers
      BY <1>7 DEF FinishLogin
    <2>3. Traced(new, r.b)
      BY <2>2 DEF Traced
    <2> HIDE DEF new
    <2>4. \A b \in Browsers : session'[b] # None => Traced(session'[b], b)
      BY <2>1, <2>2, <2>3
    <2> QED BY <2>1, <2>2, <2>4 DEF Traced
  <1>8. ASSUME NEW r \in wire, Write(r)
        PROVE  LoginInv'
    BY <1>8 DEF Write, jar, Traced
  <1>9. ASSUME NEW expire \in BOOLEAN, Restart(expire)
        PROVE  LoginInv'
    BY <1>9 DEF Restart, jar, Traced
  <1>10. CASE Tick
    BY <1>10 DEF Tick, jar, Traced
  <1>11. CASE UNCHANGED vars
    BY <1>11 DEF vars, jar, Traced
  <1> QED BY <1>1, <1>2, <1>3, <1>4, <1>5, <1>6, <1>7, <1>8, <1>9, <1>10, <1>11 DEF Next

-----------------------------------------------------------------------------
(***************************************************************************)
(* Writes.  A page whose session is the browser's own shows that session's *)
(* person, since one link made both.                                       *)
(***************************************************************************)
LEMMA OwnStep ==
    ASSUME TypeInv, LoginInv, WritesAreOwn, [Next]_vars
    PROVE  WritesAreOwn'
  <1>1. ASSUME NEW b \in Browsers, NEW operation \in Operations, Request(b, operation)
        PROVE  WritesAreOwn'
    <2> DEFINE new == [kind |-> "rpc", b |-> b, who |-> session[b].who, shown |-> page[b].who,
                       expiring |-> expiring, operation |-> operation]
    <2>1. /\ wire' = wire \cup {new} /\ links' = links
          /\ session[b] # None /\ page[b] # None /\ page[b].sid = session[b].sid
      BY <1>1 DEF Request, Send, Authorized, ReadSession, checkCsrf
    <2>2. Traced(session[b], b) /\ Traced(page[b], b)
      BY <2>1 DEF LoginInv
    <2>3. PICK l \in links : l.state = session[b].sid /\ l.who = session[b].who /\ l.b = b
      BY <2>2 DEF Traced
    <2>4. PICK m \in links : m.state = page[b].sid /\ m.who = page[b].who /\ m.b = b
      BY <2>2 DEF Traced
    <2>5. l = m
      BY <2>1, <2>3, <2>4 DEF LoginInv
    <2>6. new.shown = new.who /\ l.b = new.b /\ l.who = new.who
      BY <2>3, <2>4, <2>5
    <2> HIDE DEF new
    <2> QED BY <2>1, <2>6 DEF WritesAreOwn
  <1>2. ASSUME links \subseteq links', \A r \in wire' : r.kind = "rpc" => r \in wire
        PROVE  WritesAreOwn'
    BY <1>2 DEF WritesAreOwn
  <1>3. ASSUME NEW b \in Browsers,
               \/ StartLogin(b) \/ Logout(b) \/ LoadPage(b)
               \/ \E p \in People : Consent(b, p)
               \/ \E link \in links : OpenCallback(b, link)
        PROVE  links \subseteq links' /\ \A r \in wire' : r.kind = "rpc" => r \in wire
    BY <1>3 DEF StartLogin, Logout, LoadPage, Consent, OpenCallback, Send
  <1>4. ASSUME NEW r \in wire, FinishLogin(r) \/ Write(r)
        PROVE  links' = links /\ wire' \subseteq wire
    BY <1>4 DEF FinishLogin, Write
  <1>5. ASSUME NEW expire \in BOOLEAN, Restart(expire)
        PROVE  links' = links /\ wire' = wire
    BY <1>5 DEF Restart
  <1>6. CASE Tick \/ UNCHANGED vars
    BY <1>2, <1>6 DEF Tick, vars
  <1> QED BY <1>1, <1>2, <1>3, <1>4, <1>5, <1>6 DEF Next

-----------------------------------------------------------------------------
IInv == TypeInv /\ CapExact /\ LoginInv /\ WritesAreOwn

LEMMA InitInv ==
    ASSUME Init
    PROVE  IInv
  <1> USE DEF Init
  <1>1. keys \in Seq(Rows) /\ DOMAIN keys = {}
    OBVIOUS
  <1>2. TypeInv
    BY <1>1 DEF TypeInv
  <1>3. LoginInv
    BY DEF LoginInv
  <1>4. WritesAreOwn
    BY DEF WritesAreOwn
  <1>5. CapExact
    <2>1. \A p \in People : LiveKeys(p) = {}
      BY <1>1 DEF LiveKeys
    <2>2. Cardinality({}) = 0
      BY FS_EmptySet
    <2>3. 0 <= MAX_ACTIVE
      BY AccountsAssumption DEF AccountsAssumption
    <2> QED BY <2>1, <2>2, <2>3 DEF CapExact
  <1> QED BY <1>2, <1>3, <1>4, <1>5 DEF IInv

LEMMA StepInv ==
    ASSUME IInv, [Next]_vars
    PROVE  IInv' /\ RowsMove
  BY KeysStep, TypeStep, LoginStep, OwnStep DEF IInv

(***************************************************************************)
(* Nobody ever has more live self-serve keys than maxKeysPerUser, however  *)
(* issues and rotations fall together (issueOwnKey).                       *)
(***************************************************************************)
THEOREM KeyCapHolds == Spec => []CapExact
  <1>1. IInv => CapExact
    BY DEF IInv
  <1> QED BY <1>1, InitInv, StepInv, PTL DEF Spec

(***************************************************************************)
(* A key that was revoked or ran out never works again, and no row changes *)
(* hands, whatever the next deployment migrates (migrateAccounts).         *)
(***************************************************************************)
THEOREM DeadKeysStay == Spec => DeadStaysDead
  <1>1. IInv /\ [Next]_vars => [RowsMove]_vars
    BY StepInv
  <1> QED BY <1>1, InitInv, StepInv, PTL DEF Spec, DeadStaysDead, RowsMove

(***************************************************************************)
(* Every call to the Treasury is for the person the page was loaded for,   *)
(* who consented in the same browser (finishLogin, checkCsrf).             *)
(***************************************************************************)
THEOREM WritesAreTheirs == Spec => []WritesAreOwn
  <1>1. IInv => WritesAreOwn
    BY DEF IInv
  <1> QED BY <1>1, InitInv, StepInv, PTL DEF Spec
=============================================================================
