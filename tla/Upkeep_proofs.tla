---------------------------- MODULE Upkeep_proofs ----------------------------
(***************************************************************************)
(* The invariants of Upkeep, for every value of its constants.             *)
(***************************************************************************)
EXTENDS Upkeep, CoinSelection_proofs, SequenceTheorems

PositiveCoin == [sats : Nat \ {0}, confirmed : BOOLEAN]

\* A wallet of coins worth something, largest first.
Purse(w) ==
    /\ w \in Seq(PositiveCoin)
    /\ \A i, j \in DOMAIN w : i < j => w[i].sats >= w[j].sats

-----------------------------------------------------------------------------
(***************************************************************************)
(* Wallets.                                                                *)
(***************************************************************************)
\* The coins of a purse, and what CoinSelection knows of it.
LEMMA PurseCoins ==
    ASSUME NEW w, Purse(w)
    PROVE  /\ IsWallet(w) /\ Len(w) \in Nat /\ DOMAIN w = 1 .. Len(w)
           /\ \A i \in 1 .. Len(w) : w[i] \in PositiveCoin /\ w[i].sats \in Nat \ {0}
           /\ \A i, j \in 1 .. Len(w) : i <= j => w[i].sats >= w[j].sats
           /\ \A S \in SUBSET Coins(w) : Within(S, Len(w))
  <1>1. Len(w) \in Nat /\ DOMAIN w = 1 .. Len(w)
        /\ (\A i \in 1 .. Len(w) : w[i] \in PositiveCoin)
    <2>1. w \in Seq(PositiveCoin)
      BY DEF Purse
    <2> QED BY <2>1
  <1>2. \A i \in 1 .. Len(w) : w[i].sats \in Nat \ {0}
    BY <1>1 DEF PositiveCoin
  <1>3. w \in Seq([sats : Nat, confirmed : BOOLEAN])
    <2> DEFINE coin == [sats : Nat, confirmed : BOOLEAN]
    <2>1. PositiveCoin \subseteq coin
      BY DEF PositiveCoin
    <2>2. w \in Seq(PositiveCoin)
      BY DEF Purse
    <2> HIDE DEF coin
    <2>3. w \in Seq(coin)
      BY <2>1, <2>2
    <2> QED BY <2>3 DEF coin
  <1>4. IsWallet(w)
    BY <1>3 DEF IsWallet, Purse
  <1>5. \A i, j \in 1 .. Len(w) : i <= j => w[i].sats >= w[j].sats
    BY <1>4, WalletCoins
  <1>6. \A S \in SUBSET Coins(w) : Within(S, Len(w))
    BY <1>1 DEF Coins, Within
  <1> QED BY <1>1, <1>2, <1>4, <1>5, <1>6

\* A purse from its coins.
LEMMA PurseOf ==
    ASSUME NEW w, NEW n \in Nat, w = [i \in 1 .. n |-> w[i]],
           \A i \in 1 .. n : w[i] \in PositiveCoin,
           \A i, j \in 1 .. n : i < j => w[i].sats >= w[j].sats
    PROVE  Purse(w)
  <1>1. w \in Seq(PositiveCoin) /\ DOMAIN w = 1 .. n
    OBVIOUS
  <1> QED BY <1>1 DEF Purse

\* No coins are a purse.
LEMMA EmptyPurse == Purse(<<>>)
  <1>1. <<>> \in Seq(PositiveCoin) /\ DOMAIN <<>> = {}
    OBVIOUS
  <1> QED BY <1>1 DEF Purse

(***************************************************************************)
(* A coin put behind those it does not come before is behind the larger    *)
(* ones and before the smaller.                                            *)
(***************************************************************************)
LEMMA InsertKeepsOrder ==
    ASSUME NEW w, Purse(w), NEW c \in PositiveCoin
    PROVE  Purse(Insert(w, c))
  <1> DEFINE n == Len(w)
             P == {i \in Coins(w) : ~Before(c, w[i])}
             a == Cardinality(P)
             x == Insert(w, c)
  <1>1. n \in Nat /\ DOMAIN w = 1 .. n /\ (\A i \in 1 .. n : w[i] \in PositiveCoin)
        /\ (\A i \in 1 .. n : w[i].sats \in Nat)
        /\ (\A i, j \in 1 .. n : i <= j => w[i].sats >= w[j].sats)
    BY PurseCoins
  <1>2. c.sats \in Nat
    BY DEF PositiveCoin
  <1>3. Within(P, n) /\ a \in Nat /\ a <= n
    <2>1. Within(P, n) /\ Within(1 .. n, n) /\ P \subseteq 1 .. n
      BY <1>1 DEF Coins, Within
    <2>2. Cardinality(1 .. n) = n
      <3> HIDE DEF n
      <3>1. 1 \in Int /\ n \in Int
        BY <1>1
      <3>2. Cardinality(1 .. n) = IF 1 > n THEN 0 ELSE n - 1 + 1
        BY <3>1, FS_Interval
      <3> QED BY <1>1, <3>2
    <2> HIDE DEF P
    <2> QED BY <1>1, <2>1, <2>2, FewerPositions
  <1>4. ASSUME NEW i \in 1 .. n, i <= a PROVE w[i].sats >= c.sats
    <2> SUFFICES ASSUME w[i].sats < c.sats PROVE FALSE
      BY <1>1, <1>2
    <2>1. \A j \in 1 .. n : j >= i => w[j].sats < c.sats
      BY <1>1, <1>2
    <2>2. \A j \in P : j \in 1 .. i - 1
      BY <1>1, <2>1 DEF Before, Coins
    <2>3. Within(1 .. i - 1, n) /\ P \subseteq 1 .. i - 1
      BY <1>1, <2>2 DEF Within
    <2>4. Cardinality(1 .. i - 1) = i - 1
      <3>1. i - 1 \in Nat
        BY <1>1
      <3> HIDE DEF n
      <3> QED BY <1>1, <3>1, FS_Interval
    <2> HIDE DEF P
    <2>5. a <= i - 1
      BY <1>1, <2>3, <2>4, FewerPositions
    <2> QED BY <1>1, <1>3, <1>4, <2>5
  <1>5. ASSUME NEW i \in 1 .. n, i > a PROVE c.sats >= w[i].sats
    <2> SUFFICES ASSUME w[i].sats > c.sats PROVE FALSE
      BY <1>1, <1>2
    <2>1. \A j \in 1 .. i : j \in 1 .. n /\ w[j].sats > c.sats
      BY <1>1, <1>2
    <2>2. \A j \in 1 .. i : j \in P
      BY <1>1, <1>2, <2>1 DEF Before, Coins
    <2>3. Cardinality(1 .. i) = i
      <3>1. i \in Nat
        BY <1>1
      <3> HIDE DEF n
      <3> QED BY <1>1, <3>1, FS_Interval
    <2> HIDE DEF P
    <2>4. 1 .. i \subseteq P
      BY <2>2
    <2>5. i <= a
      BY <1>1, <1>3, <2>3, <2>4, FewerPositions
    <2> QED BY <1>1, <1>3, <1>5, <2>5
  <1>6. x = SubSeq(w, 1, a) \o <<c>> \o SubSeq(w, a + 1, n)
    <2> DEFINE q == a + 1
    <2>1. x = InsertAt(w, q, c)
      BY DEF Insert
    <2>2. q - 1 = a
      BY <1>3
    <2> HIDE DEF P, a, x, q
    <2>3. x = SubSeq(w, 1, q - 1) \o <<c>> \o SubSeq(w, q, n)
      BY <2>1 DEF InsertAt
    <2>4. x = SubSeq(w, 1, a) \o <<c>> \o SubSeq(w, q, n)
      BY <2>2, <2>3
    <2> QED BY <2>4 DEF q
  <1> HIDE DEF P, a, x
  <1>7. /\ x = [i \in 1 .. n + 1 |-> x[i]]
        /\ \A i \in 1 .. n + 1 :
            x[i] = IF i <= a THEN w[i] ELSE IF i = a + 1 THEN c ELSE w[i - 1]
    <2> DEFINE l == SubSeq(w, 1, a)
               r == SubSeq(w, a + 1, n)
    <2>0. w \in Seq(PositiveCoin)
      BY DEF Purse
    <2>1. l \in Seq(PositiveCoin) /\ Len(l) = a /\ \A i \in 1 .. a : l[i] = w[i]
      BY <1>1, <1>3, <2>0
    <2>2. r \in Seq(PositiveCoin) /\ Len(r) = n - a /\ \A i \in 1 .. n - a : r[i] = w[a + i]
      <3> HIDE DEF n
      <3>1. a + 1 \in Int /\ n \in Int /\ \A i \in a + 1 .. n : w[i] \in PositiveCoin
        BY <1>1, <1>3
      <3>2. /\ r \in Seq(PositiveCoin)
            /\ Len(r) = IF a + 1 <= n THEN n - (a + 1) + 1 ELSE 0
            /\ \A i \in 1 .. n - (a + 1) + 1 : r[i] = w[a + 1 + i - 1]
        BY <3>1, SubSeqProperties
      <3>3. n - (a + 1) + 1 = n - a /\ \A i \in Int : a + 1 + i - 1 = a + i
        BY <1>1, <1>3
      <3> HIDE DEF r
      <3>4. Len(r) = n - a
        BY <1>1, <1>3, <3>2
      <3>5. ASSUME NEW i \in 1 .. n - a PROVE r[i] = w[a + i]
        <4>1. i \in Int /\ i \in 1 .. n - (a + 1) + 1
          BY <3>3
        <4>2. r[i] = w[a + 1 + i - 1] /\ a + 1 + i - 1 = a + i
          BY <3>2, <3>3, <4>1
        <4> QED BY <4>2
      <3> QED BY <3>2, <3>4, <3>5
    <2> HIDE DEF l, r
    <2>3. l \o <<c>> \in Seq(PositiveCoin) /\ Len(l \o <<c>>) = a + 1
          /\ \A i \in 1 .. a + 1 : (l \o <<c>>)[i] = IF i <= a THEN w[i] ELSE c
      BY <1>3, <2>1
    <2> DEFINE k == l \o <<c>>
    <2>4. x = k \o r
      BY <1>6 DEF l, r
    <2> HIDE DEF k
    <2>5. k \in Seq(PositiveCoin) /\ Len(k) = a + 1
          /\ \A i \in 1 .. a + 1 : k[i] = IF i <= a THEN w[i] ELSE c
      BY <2>3 DEF k
    <2>6. Len(x) = n + 1 /\ x \in Seq(PositiveCoin)
          /\ \A i \in 1 .. n + 1 : x[i] = IF i <= a + 1 THEN k[i] ELSE r[i - (a + 1)]
      <3> HIDE DEF n
      <3>1. /\ k \o r \in Seq(PositiveCoin) /\ Len(k \o r) = Len(k) + Len(r)
            /\ \A i \in 1 .. Len(k) + Len(r) :
                (k \o r)[i] = IF i <= Len(k) THEN k[i] ELSE r[i - Len(k)]
        BY <2>2, <2>5, ConcatProperties
      <3>2. Len(k) + Len(r) = n + 1
        BY <1>1, <1>3, <2>2, <2>5
      <3> QED BY <2>4, <2>5, <3>1, <3>2
    <2>7. \A i \in 1 .. n + 1 : i > a + 1 =>
            i - (a + 1) \in 1 .. n - a /\ a + (i - (a + 1)) = i - 1
      BY <1>1, <1>3
    <2>8. \A i \in 1 .. n + 1 :
            x[i] = IF i <= a THEN w[i] ELSE IF i = a + 1 THEN c ELSE w[i - 1]
      <3> SUFFICES ASSUME NEW i \in 1 .. n + 1
                   PROVE  x[i] = IF i <= a THEN w[i] ELSE IF i = a + 1 THEN c ELSE w[i - 1]
        OBVIOUS
      <3> HIDE DEF n
      <3>1. CASE i <= a + 1
        <4>1. i \in 1 .. a + 1 /\ x[i] = k[i]
          BY <1>3, <2>6, <3>1
        <4> QED BY <1>3, <2>5, <4>1
      <3>2. CASE ~(i <= a + 1)
        <4>1. i > a + 1 /\ ~(i <= a) /\ i # a + 1
          BY <1>1, <1>3, <3>2
        <4>2. i - (a + 1) \in 1 .. n - a /\ a + (i - (a + 1)) = i - 1
          BY <2>7, <4>1
        <4>3. r[i - (a + 1)] = w[i - 1]
          BY <2>2, <4>2
        <4> QED BY <2>6, <3>2, <4>1, <4>3
      <3> QED BY <3>1, <3>2
    <2> QED BY <2>6, <2>8
  <1>8. \A i \in 1 .. n + 1 : x[i] \in PositiveCoin
    BY <1>1, <1>3, <1>7
  <1>9. ASSUME NEW i \in 1 .. n + 1, NEW j \in 1 .. n + 1, i < j
        PROVE  x[i].sats >= x[j].sats
    <2>1. CASE j <= a
      BY <1>1, <1>3, <1>7, <1>9, <2>1
    <2>2. CASE j = a + 1
      BY <1>1, <1>3, <1>4, <1>7, <1>9, <2>2
    <2>3. CASE j > a + 1 /\ i = a + 1
      BY <1>1, <1>3, <1>5, <1>7, <1>9, <2>3
    <2>4. CASE j > a + 1 /\ i # a + 1
      BY <1>1, <1>3, <1>7, <1>9, <2>4
    <2> QED BY <1>1, <1>3, <2>1, <2>2, <2>3, <2>4
  <1> HIDE DEF n
  <1>10. Purse(x)
    BY <1>1, <1>7, <1>8, <1>9, PurseOf
  <1> QED BY <1>10 DEF x

Insertions(w, s, f) ==
    f = [i \in 0 .. Len(s) |-> IF i = 0 THEN w ELSE Insert(f[i - 1], s[i])]

PartInserted(w, s, n, f) ==
    \A i \in 0 .. n : f[i] = IF i = 0 THEN w ELSE Insert(f[i - 1], s[i])

\* The recursion that defines Inserted has a solution.
LEMMA InsertionsExist ==
    ASSUME NEW w, NEW s, Len(s) \in Nat
    PROVE  \E f : Insertions(w, s, f)
  <1> DEFINE G == {n \in Nat : \E f : PartInserted(w, s, n, f)}
  <1>1. 0 \in G
    <2>1. PartInserted(w, s, 0, [i \in 0 .. 0 |-> w])
      BY DEF PartInserted
    <2> QED BY <2>1
  <1>2. ASSUME NEW n \in 1 .. Len(s), n - 1 \in G
        PROVE  n \in G
    <2>1. PICK f : PartInserted(w, s, n - 1, f)
      BY <1>2
    <2> DEFINE g == [i \in 0 .. n |-> IF i = n THEN Insert(f[n - 1], s[n]) ELSE f[i]]
    <2>2. n \in Nat /\ n # 0
      OBVIOUS
    <2>3. g[n] = Insert(f[n - 1], s[n]) /\ g[n - 1] = f[n - 1]
      BY <2>2
    <2>4. \A i \in 0 .. n - 1 : g[i] = f[i] /\ (i # 0 => g[i - 1] = f[i - 1])
      BY <2>2
    <2> HIDE DEF g
    <2>5. ASSUME NEW i \in 0 .. n
          PROVE  g[i] = IF i = 0 THEN w ELSE Insert(g[i - 1], s[i])
      <3>1. CASE i = n
        BY <2>2, <2>3, <3>1
      <3>2. CASE i # n
        <4>1. i \in 0 .. n - 1
          BY <2>2, <3>2
        <4>2. f[i] = IF i = 0 THEN w ELSE Insert(f[i - 1], s[i])
          BY <4>1, <2>1 DEF PartInserted
        <4>3. g[i] = f[i] /\ (i # 0 => g[i - 1] = f[i - 1])
          BY <4>1, <2>4
        <4> QED BY <4>2, <4>3
      <3> QED BY <3>1, <3>2
    <2>6. PartInserted(w, s, n, g)
      BY <2>5 DEF PartInserted
    <2> QED BY <2>2, <2>6
  <1>3. Len(s) \in G
    <2> HIDE DEF G
    <2>1. \A i \in 0 .. Len(s) : i \in G
      BY <1>1, <1>2, UpTo
    <2> QED BY <2>1
  <1>4. PICK f : PartInserted(w, s, Len(s), f)
    BY <1>3
  <1> DEFINE g == [i \in 0 .. Len(s) |-> f[i]]
  <1>5. ASSUME NEW i \in 0 .. Len(s)
        PROVE  g[i] = IF i = 0 THEN w ELSE Insert(g[i - 1], s[i])
    <2>1. g[i] = f[i] /\ (i # 0 => g[i - 1] = f[i - 1])
      OBVIOUS
    <2>2. f[i] = IF i = 0 THEN w ELSE Insert(f[i - 1], s[i])
      BY <1>4 DEF PartInserted
    <2> HIDE DEF g
    <2> QED BY <2>1, <2>2
  <1>6. g = [i \in 0 .. Len(s) |-> g[i]]
    OBVIOUS
  <1> HIDE DEF g
  <1>7. Insertions(w, s, g)
    BY <1>5, <1>6 DEF Insertions
  <1> QED BY <1>7

\* Coins put into a purse one after the other leave a purse.
LEMMA InsertedKeepsOrder ==
    ASSUME NEW w, Purse(w), NEW s \in Seq(PositiveCoin)
    PROVE  Purse(Inserted(w, s))
  <1>1. Len(s) \in Nat /\ \A i \in 1 .. Len(s) : s[i] \in PositiveCoin
    OBVIOUS
  <1> DEFINE f == CHOOSE f : Insertions(w, s, f)
  <1>2. Insertions(w, s, f)
    BY <1>1, InsertionsExist
  <1>3. Inserted(w, s) = f[Len(s)]
    BY DEF Inserted, Insertions
  <1> HIDE DEF f
  <1>4. f[0] = w /\ \A i \in 1 .. Len(s) : f[i] = Insert(f[i - 1], s[i])
    BY <1>1, <1>2 DEF Insertions
  <1> DEFINE G == {i \in Nat : Purse(f[i])}
  <1>5. \A i \in 0 .. Len(s) : i \in G
    <2>1. 0 \in G
      BY <1>4
    <2>2. \A i \in 1 .. Len(s) : i - 1 \in G => i \in G
      BY <1>1, <1>4, InsertKeepsOrder
    <2> HIDE DEF G
    <2> QED BY <1>1, <2>1, <2>2, UpTo
  <1>6. Len(s) \in G
    <2> HIDE DEF G
    <2> QED BY <1>1, <1>5
  <1> QED BY <1>3, <1>6

\* What a transaction leaves of a purse is a purse.
LEMMA RestKeepsOrder ==
    ASSUME NEW w, Purse(w), NEW S
    PROVE  Purse(Rest(w, S))
  <1> DEFINE kept == Coins(w) \ S
             N == Cardinality(kept)
             at(k) == Max(Largest(kept, k))
             x == Rest(w, S)
  <1>1. Len(w) \in Nat /\ Within(kept, Len(w)) /\ N \in Nat
    <2>1. Within(kept, Len(w)) /\ Len(w) \in Nat
      BY PurseCoins
    <2> HIDE DEF kept
    <2> QED BY <2>1, FinitePositions
  <1>2. ASSUME NEW k \in 1 .. N
        PROVE  /\ at(k) \in Largest(kept, k) /\ at(k) \in 1 .. Len(w)
               /\ \A y \in Largest(kept, k) : y <= at(k)
    <2> HIDE DEF kept
    <2>1. k \in Nat /\ k <= Cardinality(kept) /\ k # 0
      BY <1>1
    <2>2. PICK a \in 0 .. Len(w) : Largest(kept, k) = Below(kept, a) /\ Cardinality(Below(kept, a)) = k
      BY <1>1, <2>1, LargestIsBelow
    <2> DEFINE L == Largest(kept, k)
    <2>3. L # {} /\ L \subseteq kept
      BY <2>1, <2>2, FS_EmptySet DEF Below
    <2>4. L \in SUBSET Nat /\ \A y \in L : y \in 1 .. Len(w) /\ y <= Len(w)
      <3>1. \A y \in kept : y \in Nat /\ y \in 1 .. Len(w) /\ y <= Len(w)
        BY <1>1 DEF Within
      <3> HIDE DEF L
      <3> QED BY <2>3, <3>1
    <2> HIDE DEF L
    <2>5. Max(L) \in L /\ \A y \in L : y <= Max(L)
      BY <1>1, <2>3, <2>4, Greatest
    <2> QED BY <2>4, <2>5 DEF L
  <1>3. ASSUME NEW k \in 1 .. N, NEW l \in 1 .. N, k < l
        PROVE  at(k) <= at(l)
    <2> HIDE DEF kept
    <2>1. \A i \in kept : Cardinality({j \in kept : j < i}) \in Nat
      <3>1. ASSUME NEW i \in kept PROVE Cardinality({j \in kept : j < i}) \in Nat
        <4> DEFINE before == {j \in kept : j < i}
        <4>1. before \subseteq kept
          OBVIOUS
        <4> HIDE DEF before
        <4>2. Cardinality(before) \in Nat
          BY <1>1, <4>1, FewerPositions
        <4> QED BY <4>2 DEF before
      <3> QED BY <3>1
    <2>2. \A i \in kept : Cardinality({j \in kept : j < i}) < k => Cardinality({j \in kept : j < i}) < l
      BY <1>1, <1>3, <2>1
    <2>3. Largest(kept, k) \subseteq Largest(kept, l)
      BY <2>2, Zenon DEF Largest
    <2> HIDE DEF at
    <2> QED BY <1>2, <2>3
  <1>4. x = [k \in 1 .. N |-> w[at(k)]]
    BY DEF Rest
  <1> HIDE DEF at, N, x
  <1>5. x = [k \in 1 .. N |-> x[k]] /\ \A k \in 1 .. N : x[k] = w[at(k)]
    BY <1>4
  <1>6. \A k \in 1 .. N : x[k] \in PositiveCoin
    BY <1>2, <1>5, PurseCoins
  <1>7. \A k, l \in 1 .. N : k < l => x[k].sats >= x[l].sats
    <2>1. \A i, j \in 1 .. Len(w) : i <= j => w[i].sats >= w[j].sats
      BY PurseCoins
    <2> QED BY <1>2, <1>3, <1>5, <2>1
  <1>8. Purse(x)
    BY <1>1, <1>5, <1>6, <1>7, PurseOf
  <1> QED BY <1>8 DEF x

\* A transaction with outputs worth something leaves a purse.
LEMMA AfterKeepsOrder ==
    ASSUME NEW w, Purse(w), NEW S, NEW outs \in Seq(Nat \ {0})
    PROVE  Purse(After(w, S, outs))
  <1> DEFINE coins == [k \in DOMAIN outs |-> Coin(outs[k], FALSE)]
  <1>1. Len(outs) \in Nat /\ DOMAIN outs = 1 .. Len(outs)
        /\ \A k \in 1 .. Len(outs) : outs[k] \in Nat \ {0}
    OBVIOUS
  <1>2. \A k \in 1 .. Len(outs) : Coin(outs[k], FALSE) \in PositiveCoin
    BY <1>1 DEF Coin, PositiveCoin
  <1>3. coins \in Seq(PositiveCoin)
    <2>1. coins = [k \in 1 .. Len(outs) |-> Coin(outs[k], FALSE)]
      BY <1>1
    <2>2. coins \in [1 .. Len(outs) -> PositiveCoin]
      BY <1>2, <2>1
    <2> HIDE DEF coins
    <2> QED BY <1>1, <2>2
  <1> HIDE DEF coins
  <1>4. Purse(Inserted(Rest(w, S), coins))
    BY <1>3, RestKeepsOrder, InsertedKeepsOrder
  <1> QED BY <1>4 DEF After, coins

-----------------------------------------------------------------------------
(***************************************************************************)
(* Plans.                                                                  *)
(***************************************************************************)
Actions == {"none", "split", "consolidate", "waiting", "blocked"}

\* A pass pays out coins worth something, and asks for nothing new.
Plan(p, wanted) ==
    /\ p = [action |-> p.action, inputs |-> p.inputs, outs |-> p.outs, demand |-> p.demand]
    /\ p.action \in Actions /\ p.outs \in Seq(Nat \ {0}) /\ p.demand \subseteq wanted

\* Nothing to do, or something in the way.
LEMMA EmptyPlans ==
    ASSUME NEW wanted, NEW a \in Actions
    PROVE  Plan(NoPass, wanted) /\ Plan([NoPass EXCEPT !.action = a], wanted)
  <1>1. <<>> \in Seq(Nat \ {0})
    OBVIOUS
  <1>2. [NoPass EXCEPT !.action = a]
            = [action |-> a, inputs |-> {}, outs |-> <<>>, demand |-> {}]
    <2>1. \A i, o, d : [[action |-> "none", inputs |-> i, outs |-> o, demand |-> d]
                            EXCEPT !.action = a]
                        = [action |-> a, inputs |-> i, outs |-> o, demand |-> d]
      OBVIOUS
    <2> QED BY <2>1 DEF NoPass
  <1> QED BY <1>1, <1>2 DEF Plan, NoPass, Actions

\* A merge leaves one coin, of what the fee leaves.
LEMMA MergePlan ==
    ASSUME NEW w, Purse(w), NEW S \in SUBSET Coins(w), NEW r \in Nat, NEW wanted
    PROVE  Plan(Merge(w, S, r), wanted)
  <1> DEFINE merged == SumOf(w, S) - feeCeiling(Cardinality(S), r)
  <1>1. merged \in Int
    <2>1. SumOf(w, S) \in Nat
      BY PurseCoins, SumType
    <2>2. Cardinality(S) \in Nat
      BY PurseCoins, FinitePositions
    <2>3. Cardinality(S) * r \in Nat
      BY <2>2
    <2> QED BY <2>1, <2>3 DEF feeCeiling
  <1>2. CASE merged > 0
    <2>1. Merge(w, S, r)
            = [action |-> "consolidate", inputs |-> S, outs |-> <<merged>>, demand |-> {}]
      BY <1>2 DEF Merge, NoPass
    <2> HIDE DEF merged
    <2>2. merged \in Nat \ {0}
      BY <1>1, <1>2
    <2>3. <<merged>> \in Seq(Nat \ {0})
      BY <2>2
    <2> QED BY <2>1, <2>3 DEF Plan, Actions
  <1>3. CASE ~(merged > 0)
    <2>1. Merge(w, S, r) = [NoPass EXCEPT !.action = "blocked"]
      BY <1>3 DEF Merge
    <2> QED BY <2>1, EmptyPlans DEF Actions
  <1> QED BY <1>2, <1>3

\* What a merge is made of are coins of the wallet.
LEMMA Materials ==
    ASSUME NEW w, NEW goal
    PROVE  /\ spare(w, goal) \subseteq Coins(w) /\ mergeMaterial(w, goal) \subseteq Coins(w)
           /\ \A S, k : Largest(S, k) \subseteq S /\ Smallest(S, k) \subseteq S
  <1>1. material(w, goal) \subseteq Coins(w)
    BY DEF material, Of
  <1>2. spare(w, goal) \subseteq material(w, goal)
    BY DEF spare
  <1>3. mergeMaterial(w, goal) = spare(w, goal) \/ mergeMaterial(w, goal) = material(w, goal)
    BY DEF mergeMaterial
  <1> QED BY <1>1, <1>2, <1>3 DEF Largest, Smallest

\* planMerge plans.
LEMMA PlanMergePlan ==
    ASSUME NEW w, Purse(w), NEW goal, NEW r \in Nat, NEW wanted
    PROVE  Plan(planMerge(w, goal, r), wanted)
  <1> DEFINE confirmed == mergeMaterial(w, goal) \cap Confirmed(w)
             choice == selectMergeInputs(w, confirmed, goal, MAX_INPUTS, r)
  <1>1. choice.inputs \subseteq confirmed
    <2> HIDE DEF confirmed
    <2>1. \A S, k : Largest(S, k) \subseteq S /\ Smallest(S, k) \subseteq S
      BY Materials
    <2> QED BY <2>1 DEF selectMergeInputs
  <1>2. confirmed \subseteq Coins(w)
    BY Materials
  <1>3. Plan(Merge(w, choice.inputs, r), wanted)
    <2> HIDE DEF choice, confirmed
    <2>1. choice.inputs \in SUBSET Coins(w)
      BY <1>1, <1>2
    <2> QED BY <2>1, MergePlan
  <1>4. \/ planMerge(w, goal, r) = NoPass
        \/ planMerge(w, goal, r) = [NoPass EXCEPT !.action = "waiting"]
        \/ planMerge(w, goal, r) = Merge(w, choice.inputs, r)
    BY DEF planMerge
  <1> HIDE DEF choice
  <1> QED BY <1>3, <1>4, EmptyPlans DEF Actions

\* consolidate plans.
LEMMA ConsolidatePlan ==
    ASSUME NEW w, Purse(w), NEW wanted, NEW r \in Nat
    PROVE  Plan(consolidate(w, wanted, r), wanted)
  <1>1. \A goal : Plan(planMerge(w, goal, r), wanted)
    BY PlanMergePlan
  <1>2. Plan(NoPass, wanted)
    BY EmptyPlans DEF Actions
  <1>3. Plan(planTidy(w, r), wanted)
    <2> DEFINE loose == spare(w, COLLATERAL) \cap Confirmed(w)
               swept == Smallest(loose, MAX_INPUTS)
    <2>1. loose \subseteq Coins(w) /\ swept \subseteq loose
      BY Materials
    <2>2. planTidy(w, r) = NoPass \/ planTidy(w, r) = Merge(w, swept, r)
      BY DEF planTidy
    <2> HIDE DEF swept, loose
    <2>3. swept \in SUBSET Coins(w)
      BY <2>1
    <2> QED BY <1>2, <2>2, <2>3, MergePlan
  <1>4. PICK p, d : Plan(p, wanted) /\ d \subseteq wanted
                    /\ consolidate(w, wanted, r) = [p EXCEPT !.demand = d]
    <2> DEFINE unmet == {d \in wanted : d > Biggest(w)}
               goal == IF unmet = {} THEN 0 ELSE Max(unmet)
               missing == Cardinality({i \in Coins(w) : w[i].sats >= COLLATERAL})
                            < COLLATERAL_COINS
               larger == IF goal = 0 THEN NoPass ELSE planMerge(w, goal, r)
               collateral == IF missing THEN planMerge(w, COLLATERAL, r) ELSE NoPass
               demandFirst == goal > COLLATERAL \/ collateral.action = "none"
               chosen == IF demandFirst /\ larger.action # "none" THEN larger ELSE collateral
               dropped == IF demandFirst /\ larger.action = "none" THEN {goal} ELSE {}
               plan == IF chosen.action = "none" THEN planTidy(w, r) ELSE chosen
    <2>1. consolidate(w, wanted, r) = [plan EXCEPT !.demand = unmet \ dropped]
      BY DEF consolidate
    <2>2. unmet \ dropped \subseteq wanted
      OBVIOUS
    <2>3. Plan(larger, wanted) /\ Plan(collateral, wanted)
      BY <1>1, <1>2
    <2> HIDE DEF larger, collateral
    <2>4. Plan(chosen, wanted)
      BY <2>3
    <2> HIDE DEF chosen
    <2>5. Plan(plan, wanted)
      BY <1>3, <2>4
    <2> HIDE DEF plan, unmet, dropped
    <2> QED BY <2>1, <2>2, <2>5
  <1>5. [p EXCEPT !.demand = d]
            = [action |-> p.action, inputs |-> p.inputs, outs |-> p.outs, demand |-> d]
    BY <1>4 DEF Plan
  <1> QED BY <1>4, <1>5 DEF Plan

\* refill plans.
LEMMA RefillPlan ==
    ASSUME NEW w, Purse(w), NEW wanted, NEW r \in Nat
    PROVE  Plan(refill(w, wanted, r), wanted)
  <1> DEFINE lacking == POOL_TARGET - Cardinality(Of(w, POOL, COLLATERAL))
             splittable == {i \in Coins(w) : w[i].sats < COLLATERAL /\ 99 * w[i].sats >= 200 * POOL}
             merge == planMerge(w, (200 * POOL + 98) \div 99, r)
             pick == IF splittable # {} THEN Min(splittable) ELSE 1
             biggest == w[pick].sats
             count == Min({lacking, (99 * biggest) \div (100 * POOL)})
             change == biggest - count * POOL - feeCeiling(1, r)
             pool == [k \in 1 .. count |-> POOL]
             rest == IF change > 0 THEN <<change>> ELSE <<>>
             split == pool \o rest
  <1>1. PICK p : /\ refill(w, wanted, r) = [p EXCEPT !.demand = wanted]
                 /\ \/ p = merge
                    \/ p = [NoPass EXCEPT !.action = "blocked"]
                    \/ /\ count \in Nat /\ change \in Int
                       /\ p = [NoPass EXCEPT !.action = "split", !.outs = split,
                                             !.inputs = {pick}]
    <2> DEFINE plan == IF splittable = {} /\ merge.action \in {"consolidate", "blocked"} THEN merge
                       ELSE IF w = <<>> \/ count < 2 \/ change < 0
                            THEN [NoPass EXCEPT !.action = "blocked"]
                       ELSE [NoPass EXCEPT !.action = "split", !.outs = split,
                                           !.inputs = {pick}]
    <2>1. refill(w, wanted, r) = [plan EXCEPT !.demand = wanted]
      BY DEF refill
    <2>2. w # <<>> => count \in Int /\ change \in Int
      <3> SUFFICES ASSUME w # <<>> PROVE count \in Int /\ change \in Int
        OBVIOUS
      <3>1. Len(w) \in Nat /\ DOMAIN w = 1 .. Len(w) /\ (\A i \in 1 .. Len(w) : w[i].sats \in Nat)
        BY PurseCoins
      <3>2. 1 \in 1 .. Len(w)
        BY <3>1 DEF Purse
      <3>3. pick \in 1 .. Len(w)
        <4>1. splittable \in SUBSET Nat /\ splittable \subseteq 1 .. Len(w)
          BY <3>1 DEF Coins
        <4> HIDE DEF splittable
        <4>2. splittable # {} => Min(splittable) \in splittable
          BY <4>1, Least
        <4> QED BY <3>2, <4>1, <4>2
      <3> HIDE DEF pick
      <3>4. biggest \in Nat
        BY <3>1, <3>3
      <3> HIDE DEF biggest
      <3>5. lacking \in Int
        <4>1. Of(w, POOL, COLLATERAL) \in SUBSET Coins(w)
          BY DEF Of
        <4>2. Cardinality(Of(w, POOL, COLLATERAL)) \in Nat
          BY <4>1, PurseCoins, FinitePositions
        <4> QED BY <4>2, UpkeepAssumption
      <3> HIDE DEF lacking
      <3> DEFINE most == (99 * biggest) \div (100 * POOL)
      <3>6. most \in Int
        <4>1. 99 * biggest \in Int /\ 100 * POOL \in Int /\ 100 * POOL > 0
          BY <3>4, UpkeepAssumption
        <4> QED BY <4>1
      <3> HIDE DEF most
      <3>7. Min({lacking, most}) \in {lacking, most}
        <4> DEFINE two == {lacking, most}
        <4>1. \E x \in two : \A y \in two : x <= y
          <5>1. CASE lacking <= most
            BY <3>5, <3>6, <5>1
          <5>2. CASE most <= lacking
            BY <3>5, <3>6, <5>2
          <5> QED BY <3>5, <3>6, <5>1, <5>2
        <4> HIDE DEF two
        <4>2. Min(two) \in two
          BY <4>1 DEF Min
        <4> QED BY <4>2 DEF two
      <3>8. Min({lacking, most}) \in Int
        BY <3>5, <3>6, <3>7
      <3>9. count \in Int
        BY <3>8 DEF most
      <3> HIDE DEF count
      <3>10. count * POOL \in Int /\ feeCeiling(1, r) \in Int
        BY <3>9, UpkeepAssumption DEF feeCeiling
      <3> QED BY <3>4, <3>9, <3>10
    <2> HIDE DEF count, merge, splittable, split, change, pick
    <2>3. \/ plan = merge
          \/ plan = [NoPass EXCEPT !.action = "blocked"]
          \/ /\ count \in Nat /\ change \in Int
             /\ plan = [NoPass EXCEPT !.action = "split", !.outs = split, !.inputs = {pick}]
      BY <2>2
    <2> HIDE DEF plan
    <2> QED BY <2>1, <2>3
  <1> HIDE DEF merge, splittable, pick
  <1>2. Plan(p, wanted)
    <2>1. CASE p = merge
      BY <2>1, PlanMergePlan DEF merge
    <2>2. CASE p = [NoPass EXCEPT !.action = "blocked"]
      BY <2>2, EmptyPlans DEF Actions
    <2>3. CASE /\ count \in Nat /\ change \in Int
               /\ p = [NoPass EXCEPT !.action = "split", !.outs = split, !.inputs = {pick}]
      <3> HIDE DEF count, change
      <3>1. pool \in Seq(Nat \ {0})
        <4>1. POOL \in Nat \ {0}
          BY UpkeepAssumption
        <4>2. pool \in [1 .. count -> Nat \ {0}]
          BY <4>1
        <4> HIDE DEF pool
        <4> QED BY <2>3, <4>2
      <3>2. rest \in Seq(Nat \ {0})
        <4>1. CASE change > 0
          <5>1. change \in Nat \ {0}
            BY <2>3, <4>1
          <5>2. <<change>> \in Seq(Nat \ {0})
            BY <5>1
          <5> QED BY <4>1, <5>2
        <4>2. CASE ~(change > 0)
          <5>1. <<>> \in Seq(Nat \ {0})
            OBVIOUS
          <5> QED BY <4>2, <5>1
        <4> QED BY <4>1, <4>2
      <3> HIDE DEF pool, rest
      <3>3. split \in Seq(Nat \ {0})
        BY <3>1, <3>2, ConcatProperties
      <3> HIDE DEF split
      <3>4. /\ p.action = "split" /\ p.outs = split /\ p.demand = {}
            /\ p = [action |-> p.action, inputs |-> p.inputs, outs |-> p.outs,
                    demand |-> p.demand]
        BY <2>3 DEF NoPass
      <3> QED BY <3>3, <3>4 DEF Plan, Actions
    <2> QED BY <1>1, <2>1, <2>2, <2>3
  <1>3. [p EXCEPT !.demand = wanted]
            = [action |-> p.action, inputs |-> p.inputs, outs |-> p.outs, demand |-> wanted]
    BY <1>2 DEF Plan
  <1> QED BY <1>1, <1>2, <1>3 DEF Plan

\* A pass plans.
LEMMA PassPlan ==
    ASSUME NEW w, Purse(w), NEW wanted, NEW r \in Nat
    PROVE  Plan(maintainLocked(w, wanted, r), wanted)
  BY ConsolidatePlan, RefillPlan DEF maintainLocked

Outcomes == {"ok", "fragmented", "unconfirmed", "insufficient"}

\* A payout is built from coins of the wallet, or comes to nothing.
LEMMA PayoutBuilt ==
    ASSUME NEW w, Purse(w), NEW amount \in Int, NEW r \in Nat, NEW forCollateral
    PROVE  LET choice == sparingCollateral(w, amount, r, forCollateral)
           IN  /\ choice.outcome \in Outcomes
               /\ choice.outcome = "ok" => choice.inputs \subseteq Coins(w)
  <1>1. ASSUME NEW offered \in SUBSET Coins(w)
        PROVE  /\ buildPayout(w, offered, amount, r).outcome \in Outcomes
               /\ buildPayout(w, offered, amount, r).outcome = "ok" =>
                    buildPayout(w, offered, amount, r).inputs \subseteq Coins(w)
    <2> DEFINE choice == selectInputs(w, offered, amount, r)
    <2>1. PayoutChoiceIsBest(w, offered, amount, r)
      <3>1. IsWallet(w) /\ Within(offered, Len(w))
        BY PurseCoins
      <3> QED BY <3>1, PayoutChoiceIsOptimal
    <2>2. choice.outcome = "ok" => choice.inputs \subseteq offered
      BY <2>1 DEF PayoutChoiceIsBest
    <2>3. choice.outcome \in {"ok", "unconfirmed", "insufficient"}
          /\ choice = [outcome |-> choice.outcome, inputs |-> choice.inputs]
      BY DEF selectInputs
    <2> HIDE DEF choice
    <2>4. \/ buildPayout(w, offered, amount, r) = choice
          \/ buildPayout(w, offered, amount, r) = [choice EXCEPT !.outcome = "fragmented"]
      BY DEF buildPayout, choice
    <2>5. [choice EXCEPT !.outcome = "fragmented"].outcome = "fragmented"
      BY <2>3
    <2> QED BY <2>2, <2>3, <2>4, <2>5 DEF Outcomes
  <1> DEFINE small == {i \in Coins(w) : w[i].sats < COLLATERAL}
  <1>2. small \in SUBSET Coins(w) /\ Coins(w) \in SUBSET Coins(w)
    OBVIOUS
  <1>3. \/ sparingCollateral(w, amount, r, forCollateral) = buildPayout(w, small, amount, r)
        \/ sparingCollateral(w, amount, r, forCollateral) = buildPayout(w, Coins(w), amount, r)
    BY DEF sparingCollateral
  <1> HIDE DEF small
  <1> QED BY <1>1, <1>2, <1>3

-----------------------------------------------------------------------------
(***************************************************************************)
(* The invariants.                                                         *)
(***************************************************************************)
\* Since getAlarm was read the alarm has gone off, or is still what was read.
SinceRead == booking # None => alarm = booking.seen \/ (alarm = None /\ queued)

\* The types of the constants.
LEMMA Amounts ==
    /\ \A r \in FeeRates : r \in Nat
    /\ \A amount \in Goals : amount \in Int
    /\ \A goal \in {amount + HEADROOM : amount \in Goals} : goal \in Int
    /\ COLLATERAL \in Int /\ MAX_INPUTS \in Nat /\ "soon" # None /\ "later" # None
  <1>1. /\ PublicAmount \in Int /\ KeyAmounts \subseteq Int /\ COLLATERAL \in Int
        /\ HEADROOM \in Int /\ MAX_INPUTS \in Nat /\ FeeRates \subseteq Nat
        /\ "soon" # None /\ "later" # None
    BY UpkeepAssumption
  <1>2. \A amount \in Goals : amount \in Int
    BY <1>1 DEF Goals
  <1> QED BY <1>1, <1>2

\* The faucet starts with a purse.
LEMMA TypeInit == Init => TypeOK
  <1> SUFFICES ASSUME Init PROVE TypeOK
    OBVIOUS
  <1>1. PICK s \in BoundedSeq(Deposits, MaxDeposits) :
            wallet = Sorted([i \in DOMAIN s |-> Coin(s[i], TRUE)])
    BY DEF Init, Wallets
  <1>2. PICK n \in Nat : s \in [1 .. n -> Deposits]
    BY UpkeepAssumption DEF BoundedSeq, SeqOf
  <1> DEFINE coins == [i \in DOMAIN s |-> Coin(s[i], TRUE)]
  <1>3. coins \in Seq(PositiveCoin)
    <2>1. \A i \in 1 .. n : Coin(s[i], TRUE) \in PositiveCoin
      BY <1>2, UpkeepAssumption DEF Coin, PositiveCoin
    <2>2. coins = [i \in 1 .. n |-> Coin(s[i], TRUE)]
      BY <1>2
    <2>3. coins \in [1 .. n -> PositiveCoin]
      BY <2>1, <2>2
    <2> HIDE DEF coins
    <2> QED BY <2>3
  <1> HIDE DEF coins
  <1>4. Purse(wallet)
    BY <1>1, <1>3, EmptyPurse, InsertedKeepsOrder DEF Sorted, coins
  <1>5. /\ demand = {} /\ rate \in FeeRates /\ payouts \in 0 .. MaxPayouts
        /\ alarm \in Waits /\ due \in Waits /\ queued \in BOOLEAN /\ booking = None
    <2>1. 0 \in 0 .. MaxPayouts
      BY UpkeepAssumption
    <2> QED BY <2>1 DEF Init, Waits
  <1>6. demand \subseteq {amount + HEADROOM : amount \in Goals}
    BY <1>5
  <1> QED BY <1>4, <1>5, <1>6 DEF TypeOK, Purse, PositiveCoin

\* What a purse pays for leaves a purse.
LEMMA PayoutLeavesPurse ==
    ASSUME Purse(wallet), rate \in Nat, NEW amount \in Int, NEW key, NEW forCollateral,
           Payout(amount, key, forCollateral)
    PROVE  Purse(wallet')
  <1> DEFINE choice == sparingCollateral(wallet, amount, rate, forCollateral)
  <1>1. choice.outcome \in Outcomes /\ (choice.outcome = "ok" => choice.inputs \subseteq Coins(wallet))
    BY PayoutBuilt
  <1> HIDE DEF choice
  <1>2. CASE choice.outcome = "ok"
    <2>1. Paid(amount, choice.inputs, key)
      BY <1>2 DEF Payout, choice
    <2> DEFINE inputs == choice.inputs
               change == SumOf(wallet, inputs) - amount - feeCeiling(Cardinality(inputs), rate)
               outs == IF change > 0 THEN <<change>> ELSE <<>>
    <2>2. change \in Int
      <3>1. inputs \in SUBSET Coins(wallet)
        BY <1>1, <1>2
      <3> HIDE DEF inputs
      <3>2. SumOf(wallet, inputs) \in Nat
        BY PurseCoins, SumType
      <3>3. Cardinality(inputs) \in Nat
        BY <3>1, PurseCoins, FinitePositions
      <3>4. Cardinality(inputs) * rate \in Nat
        BY <3>3
      <3> QED BY <3>2, <3>4 DEF feeCeiling
    <2>3. wallet' = After(wallet, inputs, outs)
      BY <2>1 DEF Paid
    <2> HIDE DEF inputs, change
    <2>4. outs \in Seq(Nat \ {0})
      <3>1. CASE change > 0
        <4>1. change \in Nat \ {0}
          BY <2>2, <3>1
        <4>2. <<change>> \in Seq(Nat \ {0})
          BY <4>1
        <4> QED BY <3>1, <4>2
      <3>2. CASE ~(change > 0)
        <4>1. <<>> \in Seq(Nat \ {0})
          OBVIOUS
        <4> QED BY <3>2, <4>1
      <3> QED BY <3>1, <3>2
    <2> HIDE DEF outs
    <2> QED BY <2>3, <2>4, AfterKeepsOrder
  <1>3. CASE choice.outcome # "ok"
    <2>1. UNCHANGED wallet
      BY <1>1, <1>3 DEF Payout, Fragmented, Outcomes, choice
    <2> QED BY <2>1
  <1> QED BY <1>2, <1>3

\* Whatever a pass comes to leaves a purse, and asks for nothing new.
LEMMA PassLeavesPurse ==
    ASSUME Purse(wallet), rate \in Nat, NEW comes \in BOOLEAN, maintain(comes)
    PROVE  Purse(wallet') /\ demand' \subseteq demand
  <1> DEFINE plan == maintainLocked(wallet, demand, rate)
  <1>1. Plan(plan, demand)
    BY PassPlan
  <1>2. \/ Works(plan)
        \/ UNCHANGED wallet /\ demand' \in {demand, plan.demand}
    BY DEF maintain
  <1> HIDE DEF plan
  <1>3. CASE Works(plan)
    <2>1. plan.outs \in Seq(Nat \ {0}) /\ plan.demand \subseteq demand
      BY <1>1 DEF Plan
    <2>2. Purse(After(wallet, plan.inputs, plan.outs))
      BY <2>1, AfterKeepsOrder
    <2> QED BY <1>3, <2>1, <2>2 DEF Works
  <1>4. CASE UNCHANGED wallet /\ demand' \in {demand, plan.demand}
    BY <1>1, <1>4 DEF Plan
  <1> QED BY <1>2, <1>3, <1>4

Asked == {amount + HEADROOM : amount \in Goals}

\* TypeOK but for the wallet.
Kept ==
    /\ demand \subseteq Asked /\ rate \in FeeRates /\ payouts \in 0 .. MaxPayouts
    /\ alarm \in Waits /\ due \in Waits /\ queued \in BOOLEAN
    /\ booking = None \/ (booking.want \in Waits \ {None} /\ booking.seen \in Waits)

\* A pass that works books an alarm or none.
LEMMA PassBooks ==
    ASSUME Purse(wallet), rate \in Nat, alarm \in Waits, NEW comes \in BOOLEAN, maintain(comes)
    PROVE  \/ booking' = booking
           \/ booking'.want \in Waits \ {None} /\ booking'.seen = alarm
  <1> DEFINE plan == maintainLocked(wallet, demand, rate)
  <1>1. UNCHANGED booking \/ FollowUp(plan.action)
    BY DEF maintain, Works
  <1> HIDE DEF plan
  <1>2. CASE FollowUp(plan.action)
    <2>1. UNCHANGED booking \/ Book("soon") \/ Book("later")
      BY <1>2 DEF FollowUp, NoBooking
    <2> QED BY <2>1, Amounts DEF Book, Waits
  <1> QED BY <1>1, <1>2

\* Types are kept.
LEMMA TypeStep ==
    ASSUME TypeOK, [Next]_vars
    PROVE  TypeOK'
  <1>1. Purse(wallet) /\ Kept /\ rate \in Nat
    BY Amounts DEF TypeOK, Purse, PositiveCoin, Kept, Asked
  <1>2. ASSUME NEW comes \in BOOLEAN, AlarmPass(comes) \/ CronPass(comes)
        PROVE  Purse(wallet') /\ Kept'
    <2>1. maintain(comes) /\ queued' \in BOOLEAN
      BY <1>1, <1>2 DEF AlarmPass, CronPass, Kept
    <2>2. Purse(wallet') /\ demand' \subseteq Asked
      BY <1>1, <2>1, PassLeavesPurse DEF Kept
    <2>3. booking' = None \/ (booking'.want \in Waits \ {None} /\ booking'.seen \in Waits)
      BY <1>1, <2>1, PassBooks DEF Kept
    <2>4. rate' = rate /\ payouts' = payouts /\ alarm' = alarm /\ due' \in Waits
      BY <2>1 DEF maintain, Waits
    <2> QED BY <1>1, <2>1, <2>2, <2>3, <2>4 DEF Kept
  <1>3. ASSUME SetAlarm PROVE Purse(wallet') /\ Kept'
    <2>1. alarm' \in Waits
      BY <1>1, <1>3 DEF SetAlarm, setAlarm, Kept, Waits
    <2>2. due' \in Waits /\ booking' = None
      BY <1>1, <1>3 DEF SetAlarm, Kept, Waits
    <2> QED BY <1>1, <1>3, <2>1, <2>2 DEF SetAlarm, setAlarm, Kept
  <1>4. ASSUME Fire PROVE Purse(wallet') /\ Kept'
    BY <1>1, <1>4 DEF Fire, Kept, Waits
  <1>5. ASSUME NEW amount \in Goals, NEW key, NEW forCollateral,
               Payout(amount, key, forCollateral)
        PROVE  Purse(wallet') /\ Kept'
    <2>1. amount \in Int /\ amount + HEADROOM \in Asked
      BY Amounts DEF Asked
    <2>2. Purse(wallet')
      BY <1>1, <1>5, <2>1, PayoutLeavesPurse
    <2> DEFINE choice == sparingCollateral(wallet, amount, rate, forCollateral)
    <2>3. choice.outcome \in Outcomes
      BY <1>1, <2>1, PayoutBuilt
    <2>4. \/ Paid(amount, choice.inputs, key) \/ Fragmented(amount)
          \/ (Book("soon") /\ UNCHANGED demand)
          \/ (NoBooking /\ UNCHANGED demand)
      <3> HIDE DEF choice
      <3> QED BY <1>5, <2>3 DEF Payout, Outcomes, choice
    <2> HIDE DEF choice
    <2>5. demand' \subseteq Asked /\ (booking' = booking \/ Book("soon"))
      BY <1>1, <2>1, <2>4 DEF Paid, Fragmented, NoBooking, Kept
    <2>6. booking' = None \/ (booking'.want \in Waits \ {None} /\ booking'.seen \in Waits)
      BY <1>1, <2>5, Amounts DEF Book, Kept, Waits
    <2>7. payouts' \in 0 .. MaxPayouts
      BY <1>1, <1>5, UpkeepAssumption DEF Payout, Kept
    <2>8. UNCHANGED <<rate, alarm, queued, due>>
      BY <1>5 DEF Payout
    <2> QED BY <1>1, <2>2, <2>5, <2>6, <2>7, <2>8 DEF Kept
  <1>6. ASSUME Pays PROVE Purse(wallet') /\ Kept'
    BY <1>5, <1>6 DEF Pays, Goals
  <1>7. ASSUME DemandLapses PROVE Purse(wallet') /\ Kept'
    BY <1>1, <1>7 DEF DemandLapses, Kept
  <1>8. ASSUME Block PROVE Purse(wallet') /\ Kept'
    <2> DEFINE n == Len(wallet)
               x == [i \in DOMAIN wallet |-> Coin(wallet[i].sats, TRUE)]
    <2>1. /\ n \in Nat /\ DOMAIN wallet = 1 .. n /\ \A i \in 1 .. n : wallet[i].sats \in Nat \ {0}
          /\ \A i, j \in 1 .. n : i <= j => wallet[i].sats >= wallet[j].sats
      BY <1>1, PurseCoins
    <2>2. x = [i \in 1 .. n |-> x[i]]
          /\ \A i \in 1 .. n : x[i] = [sats |-> wallet[i].sats, confirmed |-> TRUE]
      BY <2>1 DEF Coin
    <2> HIDE DEF x, n
    <2>3. \A i \in 1 .. n : x[i] \in PositiveCoin /\ x[i].sats = wallet[i].sats
      <3>1. \A s \in Nat \ {0} : [sats |-> s, confirmed |-> TRUE] \in PositiveCoin
        BY DEF PositiveCoin
      <3>2. \A i \in 1 .. n : [sats |-> wallet[i].sats, confirmed |-> TRUE] \in PositiveCoin
        BY <2>1, <3>1
      <3> QED BY <2>2, <3>2
    <2>4. \A i, j \in 1 .. n : i < j => x[i].sats >= x[j].sats
      BY <2>1, <2>3
    <2>5. Purse(x)
      BY <2>1, <2>2, <2>3, <2>4, PurseOf
    <2>6. wallet' = x
      BY <1>8 DEF Block, x
    <2> QED BY <1>1, <1>8, <2>5, <2>6 DEF Block, Kept
  <1>9. ASSUME UNCHANGED vars PROVE Purse(wallet') /\ Kept'
    <2>1. wallet' = wallet /\ UNCHANGED <<demand, rate, payouts, alarm, queued, booking, due>>
      BY <1>9 DEF vars
    <2>2. Kept'
      BY <1>1, <2>1 DEF Kept
    <2> QED BY <1>1, <2>1, <2>2
  <1>10. Purse(wallet') /\ Kept'
    BY <1>2, <1>3, <1>4, <1>6, <1>7, <1>8, <1>9 DEF Next
  <1> QED BY <1>10 DEF TypeOK, Purse, PositiveCoin, Kept, Asked

\* The alarm and what was read of it.
LEMMA SinceReadStep ==
    ASSUME TypeOK, SinceRead, [Next]_vars
    PROVE  SinceRead'
  <1>1. Purse(wallet) /\ rate \in Nat /\ alarm \in Waits
    BY Amounts DEF TypeOK, Purse, PositiveCoin
  <1>2. ASSUME NEW comes \in BOOLEAN, AlarmPass(comes) \/ CronPass(comes)
        PROVE  SinceRead'
    <2>1. maintain(comes)
      BY <1>2 DEF AlarmPass, CronPass
    <2>2. booking = None /\ alarm' = alarm
      BY <2>1 DEF maintain
    <2>3. booking' = None \/ booking'.seen = alarm
      BY <1>1, <2>1, <2>2, PassBooks
    <2> QED BY <2>2, <2>3 DEF SinceRead
  <1>3. ASSUME SetAlarm PROVE SinceRead'
    BY <1>3 DEF SetAlarm, SinceRead
  <1>4. ASSUME Fire PROVE SinceRead'
    BY <1>4 DEF Fire, SinceRead
  <1>5. ASSUME NEW amount \in Goals, NEW key, NEW forCollateral,
               Payout(amount, key, forCollateral)
        PROVE  SinceRead'
    <2> DEFINE choice == sparingCollateral(wallet, amount, rate, forCollateral)
    <2>1. amount \in Int
      BY Amounts
    <2>2. choice.outcome \in Outcomes
      BY <1>1, <2>1, PayoutBuilt
    <2>3. \/ Paid(amount, choice.inputs, key) \/ Fragmented(amount) \/ Book("soon") \/ NoBooking
      <3> HIDE DEF choice
      <3> QED BY <1>5, <2>2 DEF Payout, Outcomes, choice
    <2> HIDE DEF choice
    <2>4. booking' = booking \/ booking'.seen = alarm
      BY <2>3 DEF Paid, Fragmented, Book, NoBooking
    <2>5. booking = None /\ alarm' = alarm
      BY <1>5 DEF Payout
    <2> QED BY <2>4, <2>5 DEF SinceRead
  <1>6. ASSUME Pays PROVE SinceRead'
    BY <1>5, <1>6 DEF Pays, Goals
  <1>7. CASE DemandLapses \/ Block \/ UNCHANGED vars
    BY <1>7 DEF DemandLapses, Block, vars, SinceRead
  <1> QED BY <1>2, <1>3, <1>4, <1>6, <1>7 DEF Next

\* A pass that was asked for stays booked.
LEMMA PassesStep ==
    ASSUME TypeOK, SinceRead, PassesComeInTime, [Next]_vars
    PROVE  PassesComeInTime'
  <1>1. alarm \in Waits /\ due \in Waits /\ "soon" # None /\ "later" # None
    BY Amounts DEF TypeOK
  <1>2. ASSUME NEW comes \in BOOLEAN, AlarmPass(comes) \/ CronPass(comes)
        PROVE  PassesComeInTime'
    <2>1. due' = None
      BY <1>2 DEF AlarmPass, CronPass, maintain
    <2> QED BY <1>1, <2>1 DEF PassesComeInTime
  <1>3. ASSUME SetAlarm PROVE PassesComeInTime'
    <2>1. booking # None /\ queued' = queued /\ due' = (IF due = "soon" THEN "soon" ELSE booking.want)
      BY <1>3 DEF SetAlarm, setAlarm
    <2>2. booking.want \in {"soon", "later"} /\ booking.seen \in Waits
      BY <2>1 DEF TypeOK, Waits
    <2>3. alarm = booking.seen \/ (alarm = None /\ queued)
      BY <2>1 DEF SinceRead
    <2>4. alarm' \in
            (IF booking.seen = None THEN {booking.want}
             ELSE IF booking.seen = "later" /\ booking.want = "soon"
                  THEN {"soon", IF alarm = None THEN None ELSE "soon"}
             ELSE {alarm})
      BY <1>3 DEF SetAlarm, setAlarm
    <2>5. CASE queued
      BY <2>1, <2>5 DEF PassesComeInTime
    <2>6. CASE ~queued
      <3>1. alarm = booking.seen
        BY <2>3, <2>6
      <3>2. CASE booking.seen = None
        BY <1>1, <2>1, <2>2, <2>4, <2>6, <3>1, <3>2 DEF PassesComeInTime
      <3>3. CASE booking.seen = "later"
        BY <1>1, <2>1, <2>2, <2>4, <2>6, <3>1, <3>3 DEF PassesComeInTime
      <3>4. CASE booking.seen = "soon"
        BY <1>1, <2>1, <2>2, <2>4, <2>6, <3>1, <3>4 DEF PassesComeInTime
      <3> QED BY <2>2, <3>2, <3>3, <3>4 DEF Waits
    <2> QED BY <2>5, <2>6
  <1>4. ASSUME Fire PROVE PassesComeInTime'
    BY <1>4 DEF Fire, PassesComeInTime
  <1>5. CASE Pays \/ DemandLapses \/ Block \/ UNCHANGED vars
    BY <1>5 DEF Pays, Payout, DemandLapses, Block, vars, PassesComeInTime
  <1> QED BY <1>2, <1>3, <1>4, <1>5 DEF Next

IInv == TypeOK /\ SinceRead /\ PassesComeInTime

\* The inductive invariant.
LEMMA Invariance == Spec => []IInv
  <1>1. Init => IInv
    <2>1. Init => SinceRead /\ PassesComeInTime
      BY Amounts DEF Init, SinceRead, PassesComeInTime
    <2> QED BY <2>1, TypeInit DEF IInv
  <1>2. IInv /\ [Next]_vars => IInv'
    BY TypeStep, SinceReadStep, PassesStep DEF IInv
  <1> QED BY <1>1, <1>2, PTL DEF Spec

-----------------------------------------------------------------------------
(***************************************************************************)
(* Whatever payouts, splits and merges make of it, the wallet is one of    *)
(* coins worth something, largest first: no plan of maintainLocked, and no *)
(* payout, spends more than its inputs hold.                               *)
(***************************************************************************)
THEOREM TypeCorrect == Spec => []TypeOK
  <1>1. IInv => TypeOK
    BY DEF IInv
  <1> QED BY <1>1, Invariance, PTL

(***************************************************************************)
(* scheduleMaintenance keeps its word: whoever asked for a pass has one as *)
(* soon as asked for, even when the alarm goes off between getAlarm and    *)
(* setAlarm.                                                               *)
(***************************************************************************)
THEOREM PassesComeInTimeHolds == Spec => []PassesComeInTime
  <1>1. IInv => PassesComeInTime
    BY DEF IInv
  <1> QED BY <1>1, Invariance, PTL

(***************************************************************************)
(* In every wallet the faucet comes to, selectInputs and selectMergeInputs *)
(* make the best choice there is.                                          *)
(***************************************************************************)
THEOREM SelectionIsBestHolds == Spec => []SelectionIsBest
  <1>1. TypeOK => SelectionIsBest
    <2> SUFFICES ASSUME TypeOK PROVE SelectionIsBest
      OBVIOUS
    <2>1. IsWallet(wallet) /\ \A S \in SUBSET Coins(wallet) : Within(S, Len(wallet))
      <3>1. Purse(wallet)
        BY DEF TypeOK, Purse, PositiveCoin
      <3> QED BY <3>1, PurseCoins
    <2>2. rate \in Nat
      BY Amounts DEF TypeOK
    <2>3. ASSUME NEW goal \in Goals
          PROVE  PayoutChoiceIsBest(wallet, Coins(wallet), goal, rate)
      <3>1. goal \in Int /\ Within(Coins(wallet), Len(wallet))
        BY <2>1, Amounts
      <3> QED BY <2>1, <2>2, <3>1, PayoutChoiceIsOptimal
    <2>4. ASSUME NEW goal \in {COLLATERAL} \cup demand,
                 NEW coins \in {mergeMaterial(wallet, goal) \cap Confirmed(wallet)}
          PROVE  MergeChoiceIsBest(wallet, coins, goal, MAX_INPUTS, rate)
      <3>1. goal \in Int /\ MAX_INPUTS \in Nat
        BY Amounts DEF TypeOK
      <3>2. Within(coins, Len(wallet))
        <4>1. coins \in SUBSET Coins(wallet)
          BY Materials
        <4> QED BY <2>1, <4>1
      <3> QED BY <2>1, <2>2, <3>1, <3>2, MergeChoiceIsOptimal
    <2> QED BY <2>3, <2>4 DEF SelectionIsBest
  <1> QED BY <1>1, TypeCorrect, PTL
=============================================================================
