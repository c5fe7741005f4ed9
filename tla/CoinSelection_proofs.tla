------------------------ MODULE CoinSelection_proofs ------------------------
(***************************************************************************)
(* The choices of src/src/tx.ts are the best there are, in any wallet, for *)
(* any target, fee rate and number of inputs.                              *)
(***************************************************************************)
EXTENDS CoinSelection, FiniteSetTheorems, TLAPS

\* A wallet: coins, largest first.
IsWallet(w) ==
    /\ w \in Seq([sats : Nat, confirmed : BOOLEAN])
    /\ \A i, j \in DOMAIN w : i < j => w[i].sats >= w[j].sats

\* The coins of a wallet, in order.
LEMMA WalletCoins ==
    ASSUME NEW w, IsWallet(w)
    PROVE  /\ Len(w) \in Nat /\ DOMAIN w = 1 .. Len(w)
           /\ \A i \in 1 .. Len(w) : w[i].sats \in Nat
           /\ \A i, j \in 1 .. Len(w) : i <= j => w[i].sats >= w[j].sats
  <1>1. w \in Seq([sats : Nat, confirmed : BOOLEAN])
    BY DEF IsWallet
  <1>2. Len(w) \in Nat /\ DOMAIN w = 1 .. Len(w)
    BY <1>1
  <1>3. \A i \in 1 .. Len(w) : w[i] \in [sats : Nat, confirmed : BOOLEAN]
    <2> DEFINE coin == [sats : Nat, confirmed : BOOLEAN]
    <2>1. w \in Seq(coin)
      BY <1>1
    <2> HIDE DEF coin
    <2>2. \A i \in 1 .. Len(w) : w[i] \in coin
      BY <2>1
    <2> QED BY <2>2 DEF coin
  <1>4. \A i \in 1 .. Len(w) : w[i].sats \in Nat
    BY <1>3
  <1>5. \A i, j \in 1 .. Len(w) : i < j => w[i].sats >= w[j].sats
    BY <1>2 DEF IsWallet
  <1>6. \A i, j \in 1 .. Len(w) : i <= j => w[i].sats >= w[j].sats
    BY <1>2, <1>4, <1>5
  <1> QED BY <1>2, <1>4, <1>6

-----------------------------------------------------------------------------
(***************************************************************************)
(* Naturals.                                                               *)
(***************************************************************************)
\* Every nonempty set of naturals has a least element.
LEMMA Least ==
    ASSUME NEW S \in SUBSET Nat, S # {}
    PROVE  Min(S) \in S /\ \A y \in S : Min(S) <= y
  <1>1. PICK x \in S : \A y \in S : ~(<<y, x>> \in OpToRel(<, Nat))
    BY NatLessThanWellFounded, WFMin
  <1>2. \A y \in S : ~(y < x)
    BY <1>1 DEF OpToRel
  <1>3. \E z \in S : \A y \in S : z <= y
    BY <1>2
  <1> QED BY <1>3 DEF Min

\* A bounded one has a greatest.
LEMMA Greatest ==
    ASSUME NEW S \in SUBSET Nat, S # {}, NEW b \in Nat, \A x \in S : x <= b
    PROVE  Max(S) \in S /\ \A y \in S : y <= Max(S)
  <1> DEFINE low == {n \in Nat : \A x \in S : x <= n}
  <1>1. PICK m \in low : \A n \in low : m <= n
    <2>1. low \in SUBSET Nat /\ b \in low
      OBVIOUS
    <2> HIDE DEF low
    <2> QED BY <2>1, Least
  <1>2. m \in S
    <2> SUFFICES ASSUME m \notin S PROVE FALSE
      OBVIOUS
    <2>1. \A x \in S : x <= m - 1 /\ x \in Nat
      BY <1>1
    <2>2. PICK x \in S : x <= m - 1 /\ x \in Nat
      BY <2>1
    <2>3. m - 1 \in low
      BY <2>1, <2>2
    <2> QED BY <2>3, <1>1
  <1>3. \E x \in S : \A y \in S : x >= y
    BY <1>1, <1>2
  <1>4. Max(S) \in S /\ \A y \in S : Max(S) >= y
    BY <1>3 DEF Max
  <1> QED BY <1>4

\* Induction, with a set in place of a predicate.
LEMMA UpTo ==
    ASSUME NEW n \in Nat, NEW S, 0 \in S,
           \A i \in 1 .. n : i - 1 \in S => i \in S
    PROVE  \A i \in 0 .. n : i \in S
  <1> DEFINE out == {i \in 0 .. n : i \notin S}
  <1>1. out \in SUBSET Nat
    OBVIOUS
  <1>2. CASE out = {}
    BY <1>2
  <1>3. CASE out # {}
    <2>1. Min(out) \in out /\ \A y \in out : Min(out) <= y
      <3> HIDE DEF out
      <3> QED BY <1>1, <1>3, Least
    <2>2. PICK x \in out : \A y \in out : x <= y
      <3> HIDE DEF out
      <3> QED BY <2>1
    <2>3. x \in 1 .. n /\ x \notin S /\ x - 1 \notin out
      BY <2>2
    <2>4. x - 1 \in S
      BY <2>3
    <2> QED BY <2>3, <2>4
  <1> QED BY <1>2, <1>3

\* Products keep an order.
LEMMA Scaled ==
    ASSUME NEW a \in Nat, NEW b \in Nat, a >= b, NEW d \in Nat
    PROVE  a * d >= b * d
  OBVIOUS

-----------------------------------------------------------------------------
(***************************************************************************)
(* Counting coins from the largest.                                        *)
(***************************************************************************)
Below(S, i) == {x \in S : x <= i}
Above(S, i) == {x \in S : x > i}

\* A set of positions among the first n.
Within(S, n) == S \in SUBSET Nat /\ \A x \in S : 1 <= x /\ x <= n

\* Sets of positions are finite.
LEMMA FinitePositions ==
    ASSUME NEW n \in Nat, NEW S, Within(S, n)
    PROVE  IsFiniteSet(S) /\ Cardinality(S) \in Nat
  <1>1. S \subseteq 1 .. n
    BY DEF Within
  <1>2. IsFiniteSet(1 .. n)
    BY FS_Interval
  <1>3. IsFiniteSet(S)
    BY <1>1, <1>2, FS_Subset
  <1> QED BY <1>3, FS_CardinalityType

\* A smaller set of positions has no more of them.
LEMMA FewerPositions ==
    ASSUME NEW n \in Nat, NEW S, Within(S, n), NEW T, T \subseteq S
    PROVE  /\ Within(T, n) /\ IsFiniteSet(T) /\ Cardinality(T) \in Nat /\ Cardinality(S) \in Nat
           /\ Cardinality(T) <= Cardinality(S)
           /\ T # S => Cardinality(T) < Cardinality(S)
  <1>1. Within(T, n)
    BY DEF Within
  <1>2. IsFiniteSet(S) /\ Cardinality(S) \in Nat /\ Cardinality(T) \in Nat
    BY <1>1, FinitePositions
  <1>3. Cardinality(T) <= Cardinality(S) /\ IsFiniteSet(T)
        /\ (Cardinality(S) = Cardinality(T) => S = T)
    BY <1>2, FS_Subset
  <1> QED BY <1>1, <1>2, <1>3

\* Positions below and above a given one.
LEMMA BelowAbove ==
    ASSUME NEW n \in Nat, NEW S, Within(S, n), NEW i \in Int
    PROVE  /\ Within(Below(S, i), n) /\ Within(Above(S, i), n)
           /\ Below(S, i) \subseteq S /\ Above(S, i) \subseteq S
           /\ Below(S, i) \cap Above(S, i) = {} /\ S = Below(S, i) \cup Above(S, i)
           /\ IsFiniteSet(Below(S, i)) /\ Cardinality(Below(S, i)) \in Nat
           /\ IsFiniteSet(Above(S, i)) /\ Cardinality(Above(S, i)) \in Nat
  <1>1. Below(S, i) \subseteq S /\ Above(S, i) \subseteq S
    BY DEF Below, Above
  <1>2. \A x \in S : (x <= i \/ x > i) /\ ~(x <= i /\ x > i)
    <2>1. \A x \in S : x \in Int
      BY DEF Within
    <2> QED BY <2>1
  <1>3. Below(S, i) \cap Above(S, i) = {}
    BY <1>2, Zenon DEF Below, Above
  <1>4. S = Below(S, i) \cup Above(S, i)
    BY <1>2, Zenon DEF Below, Above
  <1> QED BY <1>1, <1>3, <1>4, FewerPositions

\* The first position, and all of them.
LEMMA BelowEnds ==
    ASSUME NEW n \in Nat, NEW S, Within(S, n)
    PROVE  Below(S, 0) = {} /\ Below(S, n) = S
  <1>1. \A x \in S : x \in Nat /\ 1 <= x /\ x <= n
    BY DEF Within
  <1>2. Below(S, 0) = {}
    BY <1>1 DEF Below
  <1>3. Below(S, n) = S
    BY <1>1 DEF Below
  <1> QED BY <1>2, <1>3

\* One position further.
LEMMA BelowStep ==
    ASSUME NEW n \in Nat, NEW S, Within(S, n), NEW i \in Nat \ {0}
    PROVE  /\ Cardinality(Below(S, i - 1)) \in Nat
           /\ Cardinality(Below(S, i)) =
                Cardinality(Below(S, i - 1)) + (IF i \in S THEN 1 ELSE 0)
  <1>1. \A x \in S : x \in Nat
    BY DEF Within
  <1>2. IsFiniteSet(Below(S, i - 1)) /\ Cardinality(Below(S, i - 1)) \in Nat
    <2>1. i - 1 \in Int
      OBVIOUS
    <2> QED BY <2>1, BelowAbove
  <1>3. CASE i \in S
    <2>1. Below(S, i) = Below(S, i - 1) \cup {i}
      <3>1. \A x \in S : x <= i <=> (x <= i - 1 \/ x = i)
        BY <1>1
      <3> QED BY <1>3, <3>1, Zenon DEF Below
    <2>2. i \notin Below(S, i - 1)
      BY DEF Below
    <2> QED BY <1>2, <1>3, <2>1, <2>2, FS_AddElement
  <1>4. CASE i \notin S
    <2>1. \A x \in S : x <= i <=> x <= i - 1
      BY <1>1, <1>4
    <2>2. Below(S, i) = Below(S, i - 1)
      BY <2>1 DEF Below
    <2> QED BY <1>2, <1>4, <2>2
  <1> QED BY <1>3, <1>4

\* Every count up to all is reached somewhere.
LEMMA Cut ==
    ASSUME NEW n \in Nat, NEW S, Within(S, n), NEW k \in Nat, k <= Cardinality(S)
    PROVE  \E i \in 0 .. n : Cardinality(Below(S, i)) = k
  <1> DEFINE enough == {i \in 0 .. n : Cardinality(Below(S, i)) >= k}
  <1>1. Cardinality(S) \in Nat
    BY FinitePositions
  <1>2. PICK i \in enough : \A j \in enough : i <= j
    <2>1. n \in enough
      BY <1>1, BelowEnds
    <2>2. enough \in SUBSET Nat
      OBVIOUS
    <2> HIDE DEF enough
    <2> QED BY <2>1, <2>2, Least
  <1>3. CASE i = 0
    <2>1. Cardinality(Below(S, i)) = 0
      BY <1>3, BelowEnds, FS_EmptySet
    <2> QED BY <1>2, <1>3, <2>1
  <1>4. CASE i # 0
    <2>1. i \in Nat \ {0} /\ i \in 0 .. n /\ i - 1 \in 0 .. n /\ i - 1 \notin enough
      BY <1>2, <1>4
    <2>2. Cardinality(Below(S, i - 1)) \in Nat
      BY <2>1, BelowStep
    <2>3. Cardinality(Below(S, i - 1)) < k
      BY <2>1, <2>2
    <2>4. Cardinality(Below(S, i)) = Cardinality(Below(S, i - 1)) + (IF i \in S THEN 1 ELSE 0)
      BY <2>1, BelowStep
    <2>5. Cardinality(Below(S, i)) = k
      BY <1>2, <2>2, <2>3, <2>4
    <2> QED BY <2>1, <2>5
  <1> QED BY <1>3, <1>4

\* What is not below is above.
LEMMA Split ==
    ASSUME NEW n \in Nat, NEW S, Within(S, n), NEW i \in Int
    PROVE  Cardinality(S) = Cardinality(Below(S, i)) + Cardinality(Above(S, i))
  <1>1. Cardinality(S) = Cardinality(Below(S, i)) + Cardinality(Above(S, i)) - Cardinality({})
    <2>1. IsFiniteSet(Below(S, i)) /\ IsFiniteSet(Above(S, i))
          /\ Below(S, i) \cap Above(S, i) = {} /\ S = Below(S, i) \cup Above(S, i)
      BY BelowAbove
    <2> QED BY <2>1, FS_Union
  <1> QED BY <1>1, BelowAbove, FS_EmptySet

\* The k largest coins are those up to some position.
LEMMA LargestIsBelow ==
    ASSUME NEW n \in Nat, NEW S, Within(S, n), NEW k \in Nat, k <= Cardinality(S)
    PROVE  \E i \in 0 .. n : Largest(S, k) = Below(S, i) /\ Cardinality(Below(S, i)) = k
  <1>1. PICK i \in 0 .. n : Cardinality(Below(S, i)) = k
    BY Cut
  <1>0. i \in Int /\ (\A x \in S : x \in Int) /\ Within(Below(S, i), n)
    <2>1. i \in Int /\ \A x \in S : x \in Int
      BY DEF Within
    <2> QED BY <2>1, BelowAbove
  <1> DEFINE before(x) == {j \in S : j < x}
  <1>2. ASSUME NEW x \in S, x <= i PROVE Cardinality(before(x)) < k
    <2>1. before(x) \subseteq Below(S, i)
      <3>1. \A j \in S : j < x => j <= i
        BY <1>0, <1>2
      <3> QED BY <3>1, Zenon DEF Below
    <2>2. x \in Below(S, i) /\ x \notin before(x)
      BY <1>0, <1>2 DEF Below
    <2> HIDE DEF before
    <2>3. before(x) # Below(S, i)
      BY <2>2
    <2> QED BY <1>0, <2>1, <2>3, <1>1, FewerPositions
  <1>3. ASSUME NEW x \in S, ~(x <= i) PROVE ~(Cardinality(before(x)) < k)
    <2>1. Below(S, i) \subseteq before(x)
      <3>1. \A j \in S : j <= i => j < x
        BY <1>0, <1>3
      <3> QED BY <3>1, Zenon DEF Below
    <2>2. Within(before(x), n)
      BY DEF Within
    <2> HIDE DEF before
    <2> QED BY <2>1, <2>2, <1>1, FewerPositions
  <1>4. Largest(S, k) = Below(S, i)
    BY <1>2, <1>3 DEF Largest, Below
  <1> QED BY <1>1, <1>4

\* The k smallest are those from some position on.
LEMMA SmallestIsAbove ==
    ASSUME NEW n \in Nat, NEW S, Within(S, n), NEW k \in Nat, k <= Cardinality(S)
    PROVE  \E i \in 0 .. n : Smallest(S, k) = Above(S, i) /\ Cardinality(Above(S, i)) = k
  <1>1. Cardinality(S) \in Nat
    BY FinitePositions
  <1>2. Cardinality(S) - k \in Nat /\ Cardinality(S) - k <= Cardinality(S)
    BY <1>1
  <1>3. PICK i \in 0 .. n : Cardinality(Below(S, i)) = Cardinality(S) - k
    BY <1>2, Cut
  <1>0. i \in Int /\ (\A x \in S : x \in Int) /\ Within(Above(S, i), n)
    <2>1. i \in Int /\ \A x \in S : x \in Int
      BY DEF Within
    <2> QED BY <2>1, BelowAbove
  <1>4. Cardinality(Above(S, i)) = k
    <2>1. Cardinality(Above(S, i)) \in Nat
      BY <1>0, BelowAbove
    <2>2. Cardinality(S) = Cardinality(Below(S, i)) + Cardinality(Above(S, i))
      BY <1>0, Split
    <2> QED BY <1>1, <1>3, <2>1, <2>2
  <1> DEFINE after(x) == {j \in S : j > x}
  <1>5. ASSUME NEW x \in S, x > i PROVE Cardinality(after(x)) < k
    <2>1. after(x) \subseteq Above(S, i)
      <3>1. \A j \in S : j > x => j > i
        BY <1>0, <1>5
      <3> QED BY <3>1, Zenon DEF Above
    <2>2. x \in Above(S, i) /\ x \notin after(x)
      BY <1>0, <1>5 DEF Above
    <2> HIDE DEF after
    <2>3. after(x) # Above(S, i)
      BY <2>2
    <2> QED BY <1>0, <2>1, <2>3, <1>4, FewerPositions
  <1>6. ASSUME NEW x \in S, ~(x > i) PROVE ~(Cardinality(after(x)) < k)
    <2>1. Above(S, i) \subseteq after(x)
      <3>1. \A j \in S : j > i => j > x
        BY <1>0, <1>6
      <3> QED BY <3>1, Zenon DEF Above
    <2>2. Within(after(x), n)
      BY DEF Within
    <2> HIDE DEF after
    <2> QED BY <2>1, <2>2, <1>4, FewerPositions
  <1>7. Smallest(S, k) = Above(S, i)
    BY <1>5, <1>6 DEF Smallest, Above
  <1> QED BY <1>4, <1>7
-----------------------------------------------------------------------------
(***************************************************************************)
(* Sums.                                                                   *)
(***************************************************************************)
Sums(w, S, f) ==
    f = [i \in 0 .. Len(w) |->
            IF i = 0 THEN 0 ELSE f[i - 1] + (IF i \in S THEN w[i].sats ELSE 0)]

Partial(w, S, n, f) ==
    \A i \in 0 .. n : f[i] = IF i = 0 THEN 0 ELSE f[i - 1] + (IF i \in S THEN w[i].sats ELSE 0)

\* The recursion that defines a sum has a solution.
LEMMA SumsExist ==
    ASSUME NEW w, Len(w) \in Nat, NEW S
    PROVE  \E f : Sums(w, S, f)
  <1> DEFINE G == {n \in Nat : \E f : Partial(w, S, n, f)}
  <1>1. 0 \in G
    <2>1. Partial(w, S, 0, [i \in 0 .. 0 |-> 0])
      BY DEF Partial
    <2> QED BY <2>1
  <1>2. ASSUME NEW n \in 1 .. Len(w), n - 1 \in G
        PROVE  n \in G
    <2>1. PICK f : Partial(w, S, n - 1, f)
      BY <1>2
    <2> DEFINE g == [i \in 0 .. n |->
                        IF i = n THEN f[n - 1] + (IF n \in S THEN w[n].sats ELSE 0) ELSE f[i]]
    <2>2. n \in Nat /\ n # 0
      OBVIOUS
    <2>3. g[n] = f[n - 1] + (IF n \in S THEN w[n].sats ELSE 0) /\ g[n - 1] = f[n - 1]
      BY <2>2
    <2>4. \A i \in 0 .. n - 1 : g[i] = f[i] /\ (i # 0 => g[i - 1] = f[i - 1])
      BY <2>2
    <2> HIDE DEF g
    <2>5. ASSUME NEW i \in 0 .. n
          PROVE  g[i] = IF i = 0 THEN 0 ELSE g[i - 1] + (IF i \in S THEN w[i].sats ELSE 0)
      <3>1. CASE i = n
        BY <2>2, <2>3, <3>1
      <3>2. CASE i # n
        <4>1. i \in 0 .. n - 1
          BY <2>2, <3>2
        <4>2. f[i] = IF i = 0 THEN 0 ELSE f[i - 1] + (IF i \in S THEN w[i].sats ELSE 0)
          BY <4>1, <2>1 DEF Partial
        <4>3. g[i] = f[i] /\ (i # 0 => g[i - 1] = f[i - 1])
          BY <4>1, <2>4
        <4> QED BY <4>2, <4>3
      <3> QED BY <3>1, <3>2
    <2>6. Partial(w, S, n, g)
      BY <2>5 DEF Partial
    <2> QED BY <2>2, <2>6
  <1>3. Len(w) \in G
    <2> HIDE DEF G
    <2>1. \A i \in 0 .. Len(w) : i \in G
      BY <1>1, <1>2, UpTo
    <2> QED BY <2>1
  <1>4. PICK f : Partial(w, S, Len(w), f)
    BY <1>3
  <1> DEFINE g == [i \in 0 .. Len(w) |-> f[i]]
  <1>5. \A i \in 0 .. Len(w) :
            g[i] = IF i = 0 THEN 0 ELSE g[i - 1] + (IF i \in S THEN w[i].sats ELSE 0)
    <2>1. ASSUME NEW i \in 0 .. Len(w)
          PROVE  g[i] = IF i = 0 THEN 0 ELSE g[i - 1] + (IF i \in S THEN w[i].sats ELSE 0)
      <3>1. g[i] = f[i] /\ (i # 0 => g[i - 1] = f[i - 1])
        OBVIOUS
      <3>2. f[i] = IF i = 0 THEN 0 ELSE f[i - 1] + (IF i \in S THEN w[i].sats ELSE 0)
        BY <1>4 DEF Partial
      <3> HIDE DEF g
      <3> QED BY <3>1, <3>2
    <2> QED BY <2>1
  <1>6. g = [i \in 0 .. Len(w) |-> g[i]]
    OBVIOUS
  <1> HIDE DEF g
  <1>7. Sums(w, S, g)
    BY <1>5, <1>6 DEF Sums
  <1> QED BY <1>7

\* A sum is its last partial sum, and the partial sums of coins are naturals.
LEMMA SumOfSums ==
    ASSUME NEW w, IsWallet(w), NEW S
    PROVE  \E f : /\ SumOf(w, S) = f[Len(w)] /\ f[0] = 0
                  /\ \A i \in 0 .. Len(w) : f[i] \in Nat
                  /\ \A i \in 1 .. Len(w) : f[i] = f[i - 1] + (IF i \in S THEN w[i].sats ELSE 0)
  <1>1. Len(w) \in Nat /\ \A i \in 1 .. Len(w) : w[i].sats \in Nat
    BY WalletCoins
  <1> DEFINE f == CHOOSE f : Sums(w, S, f)
  <1>2. Sums(w, S, f)
    BY <1>1, SumsExist
  <1>3. SumOf(w, S) = f[Len(w)]
    BY DEF SumOf, Sums
  <1> HIDE DEF f
  <1>4. f[0] = 0
    BY <1>1, <1>2 DEF Sums
  <1>5. \A i \in 1 .. Len(w) : f[i] = f[i - 1] + (IF i \in S THEN w[i].sats ELSE 0)
    BY <1>1, <1>2 DEF Sums
  <1> DEFINE G == {i \in Nat : f[i] \in Nat}
  <1>6. \A i \in 0 .. Len(w) : i \in G
    <2>1. 0 \in G
      BY <1>4
    <2>2. \A i \in 1 .. Len(w) : i - 1 \in G => i \in G
      BY <1>1, <1>5
    <2> HIDE DEF G
    <2> QED BY <1>1, <2>1, <2>2, UpTo
  <1>7. \A i \in 0 .. Len(w) : f[i] \in Nat
    BY <1>6
  <1> QED BY <1>3, <1>4, <1>5, <1>7

\* A sum of coins is a natural.
LEMMA SumType ==
    ASSUME NEW w, IsWallet(w), NEW S
    PROVE  SumOf(w, S) \in Nat
  <1>1. Len(w) \in 0 .. Len(w)
    BY WalletCoins
  <1> QED BY <1>1, SumOfSums

(***************************************************************************)
(* If up to every position there are as many coins of S as of T, those of  *)
(* S sum to at least as much.                                              *)
(***************************************************************************)
LEMMA Dominates ==
    ASSUME NEW w, IsWallet(w), NEW S, Within(S, Len(w)), NEW T, Within(T, Len(w)),
           \A i \in 0 .. Len(w) : Cardinality(Below(T, i)) <= Cardinality(Below(S, i))
    PROVE  SumOf(w, T) <= SumOf(w, S)
  <1> DEFINE n == Len(w)
             c(i) == Cardinality(Below(S, i))
             d(i) == Cardinality(Below(T, i))
             v(i) == w[i].sats
  <1>1. n \in Nat /\ (\A i \in 1 .. n : v(i) \in Nat)
        /\ \A i \in 1 .. n : i - 1 \in 1 .. n => v(i - 1) >= v(i)
    <2>1. n \in Nat /\ (\A i \in 1 .. n : v(i) \in Nat)
          /\ \A i, j \in 1 .. n : i <= j => v(i) >= v(j)
      BY WalletCoins
    <2> HIDE DEF n, v
    <2>2. \A i \in 1 .. n : i - 1 <= i
      BY <2>1
    <2> QED BY <2>1, <2>2
  <1>2. PICK f : /\ SumOf(w, S) = f[n] /\ f[0] = 0 /\ \A i \in 0 .. n : f[i] \in Nat
                 /\ \A i \in 1 .. n : f[i] = f[i - 1] + (IF i \in S THEN v(i) ELSE 0)
    BY SumOfSums
  <1>3. PICK g : /\ SumOf(w, T) = g[n] /\ g[0] = 0 /\ \A i \in 0 .. n : g[i] \in Nat
                 /\ \A i \in 1 .. n : g[i] = g[i - 1] + (IF i \in T THEN v(i) ELSE 0)
    BY SumOfSums
  <1>4. \A i \in 0 .. n : c(i) \in Nat /\ d(i) \in Nat /\ d(i) <= c(i)
    BY BelowAbove
  <1>5. c(0) = 0 /\ d(0) = 0
    BY <1>1, BelowEnds, FS_EmptySet
  <1>6. \A i \in 1 .. n : /\ c(i) = c(i - 1) + (IF i \in S THEN 1 ELSE 0)
                          /\ d(i) = d(i - 1) + (IF i \in T THEN 1 ELSE 0)
    BY <1>1, BelowStep
  <1> HIDE DEF n, c, d, v
  <1> DEFINE Lead(i) == g[i] + v(i) * (c(i) - d(i)) <= f[i]
             G == {i \in Nat : i = 0 \/ Lead(i)}
  <1>7. \A i \in 0 .. n : i \in G
    <2>1. ASSUME NEW i \in 1 .. n, i - 1 \in G PROVE Lead(i)
      <3> DEFINE p == v(i) * (c(i - 1) - d(i - 1))
      <3>0. i \in Nat /\ i - 1 \in 0 .. n /\ i \in 0 .. n /\ v(i) \in Nat
        BY <1>1
      <3>1. p \in Nat
        BY <3>0, <1>4
      <3>2. g[i - 1] + p <= f[i - 1]
        <4>1. CASE i - 1 = 0
          <5>1. c(i - 1) - d(i - 1) = 0
            BY <4>1, <1>5
          <5>2. v(i) * 0 = 0
            BY <3>0
          <5>3. p = 0
            BY <5>1, <5>2
          <5>4. g[i - 1] = 0 /\ f[i - 1] = 0
            BY <4>1, <1>2, <1>3
          <5> HIDE DEF p
          <5> QED BY <5>3, <5>4
        <4>2. CASE i - 1 # 0
          <5>1. i - 1 \in 1 .. n /\ v(i - 1) \in Nat /\ v(i - 1) >= v(i)
            BY <4>2, <1>1, <3>0
          <5>2. c(i - 1) - d(i - 1) \in Nat
            BY <3>0, <1>4
          <5>3. v(i - 1) * (c(i - 1) - d(i - 1)) >= p
            BY <3>0, <5>1, <5>2, Scaled
          <5>4. Lead(i - 1)
            BY <2>1, <4>2
          <5>5. v(i - 1) * (c(i - 1) - d(i - 1)) \in Nat
            BY <5>1, <5>2
          <5> HIDE DEF p
          <5> QED BY <5>3, <5>4, <5>5, <3>1, <3>0, <1>2, <1>3
        <4> QED BY <4>1, <4>2
      <3>3. v(i) * (c(i) - d(i)) = p + (IF i \in S THEN v(i) ELSE 0) - (IF i \in T THEN v(i) ELSE 0)
        <4>1. c(i - 1) \in Nat /\ d(i - 1) \in Nat
          BY <3>0, <1>4
        <4>2. c(i) - d(i) = (c(i - 1) - d(i - 1))
                            + (IF i \in S THEN 1 ELSE 0) - (IF i \in T THEN 1 ELSE 0)
          BY <4>1, <1>6
        <4> QED BY <4>1, <4>2, <3>0
      <3>4. f[i - 1] \in Nat /\ g[i - 1] \in Nat
        BY <3>0, <1>2, <1>3
      <3>5. f[i] = f[i - 1] + (IF i \in S THEN v(i) ELSE 0)
            /\ g[i] = g[i - 1] + (IF i \in T THEN v(i) ELSE 0)
        BY <1>2, <1>3
      <3> DEFINE a == IF i \in S THEN v(i) ELSE 0
                 b == IF i \in T THEN v(i) ELSE 0
                 q == v(i) * (c(i) - d(i))
      <3>6. a \in Nat /\ b \in Nat
        BY <3>0
      <3>7. q = p + a - b /\ f[i] = f[i - 1] + a /\ g[i] = g[i - 1] + b
        BY <3>3, <3>5
      <3> HIDE DEF a, b, p, q
      <3>8. g[i] + q <= f[i]
        BY <3>1, <3>2, <3>4, <3>6, <3>7
      <3> QED BY <3>8 DEF q
    <2>2. 0 \in G
      OBVIOUS
    <2> HIDE DEF Lead
    <2>3. \A i \in 1 .. n : i - 1 \in G => i \in G
      BY <2>1, <1>1
    <2> HIDE DEF G
    <2> QED BY <2>2, <2>3, <1>1, UpTo
  <1>8. CASE n = 0
    BY <1>8, <1>2, <1>3
  <1>9. CASE n # 0
    <2>1. n \in 0 .. n /\ n \in 1 .. n
      BY <1>1, <1>9
    <2>2. Lead(n)
      BY <1>7, <1>9, <2>1
    <2>3. v(n) * (c(n) - d(n)) \in Nat
      BY <2>1, <1>1, <1>4
    <2> QED BY <2>1, <2>2, <2>3, <1>2, <1>3
  <1> QED BY <1>8, <1>9

-----------------------------------------------------------------------------
(***************************************************************************)
(* The largest coins, and a mix of largest and smallest, against any other *)
(* choice of as many.                                                      *)
(***************************************************************************)
\* The k largest are k coins, and no k coins sum to more.
LEMMA LargestDominates ==
    ASSUME NEW w, IsWallet(w), NEW S, Within(S, Len(w)), NEW k \in Nat, k <= Cardinality(S)
    PROVE  /\ Largest(S, k) \subseteq S /\ Cardinality(Largest(S, k)) = k
           /\ \A T \in SUBSET S : Cardinality(T) = k => SumOf(w, T) <= SumOf(w, Largest(S, k))
  <1> DEFINE n == Len(w)
  <1>0. n \in Nat
    BY WalletCoins
  <1>1. PICK a \in 0 .. n : Largest(S, k) = Below(S, a) /\ Cardinality(Below(S, a)) = k
    BY <1>0, LargestIsBelow
  <1>2. Below(S, a) \subseteq S /\ Within(Below(S, a), n)
    BY <1>0, BelowAbove
  <1>3. ASSUME NEW T \in SUBSET S, Cardinality(T) = k
        PROVE  SumOf(w, T) <= SumOf(w, Below(S, a))
    <2>1. Within(T, n)
      BY <1>0, FewerPositions
    <2>2. ASSUME NEW i \in 0 .. n
          PROVE  Cardinality(Below(T, i)) <= Cardinality(Below(Below(S, a), i))
      <3>0. i \in Int /\ a \in Int /\ \A x \in S : x \in Int
        BY <1>0 DEF Within
      <3>1. Within(Below(Below(S, a), i), n) /\ Within(T, n)
        BY <1>2, <2>1, <3>0, <1>0, BelowAbove
      <3>2. CASE i <= a
        <4>1. \A x \in S : x <= i => x <= a
          BY <3>0, <3>2
        <4>2. Below(T, i) \subseteq Below(Below(S, a), i)
          BY <4>1, Zenon DEF Below
        <4> QED BY <3>1, <4>2, <1>0, FewerPositions
      <3>3. CASE ~(i <= a)
        <4>1. \A x \in S : x <= a => x <= i
          BY <3>0, <3>3
        <4>2. Below(Below(S, a), i) = Below(S, a)
          BY <4>1, Zenon DEF Below
        <4>3. Below(T, i) \subseteq T
          BY DEF Below
        <4>4. Cardinality(Below(T, i)) <= Cardinality(T)
          BY <3>1, <4>3, <1>0, FewerPositions
        <4> QED BY <4>2, <4>4, <1>1, <1>3
      <3> QED BY <3>2, <3>3
    <2> QED BY <1>2, <2>1, <2>2, Dominates
  <1> QED BY <1>1, <1>2, <1>3

\* A choice that covers is matched by as many of the largest, and those are a choice.
LEMMA PrefixesSuffice ==
    ASSUME NEW w, IsWallet(w), NEW S, Within(S, Len(w)), NEW target \in Int, NEW rate \in Nat
    PROVE  /\ \A T \in SUBSET S : T # {} /\ Covers(w, T, target, rate) =>
                    Cardinality(T) \in Prefixed(w, S, target, rate)
           /\ \A k \in Prefixed(w, S, target, rate) :
                /\ k \in Nat /\ Largest(S, k) \subseteq S /\ Cardinality(Largest(S, k)) = k
                /\ Largest(S, k) # {} /\ Covers(w, Largest(S, k), target, rate)
  <1>0. Len(w) \in Nat /\ IsFiniteSet(S) /\ Cardinality(S) \in Nat
    BY WalletCoins, FinitePositions
  <1>1. ASSUME NEW T \in SUBSET S, T # {}, Covers(w, T, target, rate)
        PROVE  Cardinality(T) \in Prefixed(w, S, target, rate)
    <2>1. /\ IsFiniteSet(T) /\ Cardinality(T) \in Nat
          /\ Cardinality(T) <= Cardinality(S)
      BY <1>0, FewerPositions
    <2>2. Cardinality(T) # 0
      BY <1>1, <2>1, FS_EmptySet
    <2> DEFINE k == Cardinality(T)
               top == Largest(S, k)
    <2>3. k \in 1 .. Cardinality(S)
      BY <1>0, <2>1, <2>2
    <2>4. Cardinality(top) = k /\ SumOf(w, T) <= SumOf(w, top)
      BY <2>1, LargestDominates
    <2>5. SumOf(w, T) \in Nat /\ SumOf(w, top) \in Nat
      BY SumType
    <2>6. k * rate \in Nat
      BY <2>1
    <2>7. SumOf(w, T) >= target + k * rate
      BY <1>1 DEF Covers, feeCeiling
    <2> DEFINE cost == k * rate
    <2> HIDE DEF top, k, cost
    <2>8. SumOf(w, top) >= target + cost
      BY <2>4, <2>5, <2>6, <2>7 DEF cost
    <2>9. Covers(w, top, target, rate)
      BY <2>4, <2>8 DEF Covers, feeCeiling, cost
    <2> QED BY <2>3, <2>9 DEF Prefixed, top, k
  <1>2. ASSUME NEW k \in Prefixed(w, S, target, rate)
        PROVE  /\ k \in Nat /\ Largest(S, k) \subseteq S /\ Cardinality(Largest(S, k)) = k
               /\ Largest(S, k) # {} /\ Covers(w, Largest(S, k), target, rate)
    <2>1. k \in Nat /\ 1 <= k /\ k <= Cardinality(S) /\ Covers(w, Largest(S, k), target, rate)
      BY <1>0 DEF Prefixed
    <2>2. Largest(S, k) \subseteq S /\ Cardinality(Largest(S, k)) = k
      BY <2>1, LargestDominates
    <2>3. Largest(S, k) # {}
      BY <2>1, <2>2, FS_EmptySet
    <2> QED BY <2>1, <2>2, <2>3
  <1> QED BY <1>1, <1>2

-----------------------------------------------------------------------------
(***************************************************************************)
(* selectInputs: no choice of confirmed coins is smaller than the one made,*)
(* a coin taken on its own is the smallest that will do, and a refusal     *)
(* means that nothing would have done.                                     *)
(***************************************************************************)
THEOREM PayoutChoiceIsOptimal ==
    ASSUME NEW w, IsWallet(w), NEW offered, Within(offered, Len(w)),
           NEW target \in Int, NEW rate \in Nat
    PROVE  PayoutChoiceIsBest(w, offered, target, rate)
  <1> DEFINE settled == offered \cap Confirmed(w)
             Fits(S) == S # {} /\ Covers(w, S, target, rate)
             alone == {i \in offered : Covers(w, {i}, target, rate)}
             counts == Prefixed(w, settled, target, rate)
             all == Prefixed(w, offered, target, rate)
             choice == selectInputs(w, offered, target, rate)
  <1>0. /\ Len(w) \in Nat /\ \A i \in offered : i \in 1 .. Len(w)
        /\ Within(settled, Len(w)) /\ settled \subseteq offered
    <2>1. Len(w) \in Nat
      BY WalletCoins
    <2>2. \A i \in offered : i \in 1 .. Len(w)
      BY <2>1 DEF Within
    <2>3. settled \subseteq offered
      OBVIOUS
    <2> HIDE DEF settled
    <2> QED BY <2>1, <2>2, <2>3, FewerPositions
  <1>1. /\ \A S \in SUBSET settled : Fits(S) => Cardinality(S) \in counts
        /\ \A k \in counts : /\ k \in Nat /\ Cardinality(Largest(settled, k)) = k
                             /\ Largest(settled, k) \subseteq settled /\ Fits(Largest(settled, k))
    <2> HIDE DEF settled
    <2> QED BY <1>0, PrefixesSuffice
  <1>2. /\ \A S \in SUBSET offered : Fits(S) => Cardinality(S) \in all
        /\ \A k \in all : Largest(offered, k) \subseteq offered /\ Fits(Largest(offered, k))
    BY PrefixesSuffice
  <1>3. \A i \in offered : Fits({i}) <=> i \in alone
    OBVIOUS
  <1>4. CASE alone # {}
    <2> DEFINE c == Max(alone)
    <2>1. c \in alone /\ \A i \in alone : i <= c
      <3>1. alone \in SUBSET Nat /\ \A i \in alone : i <= Len(w)
        BY <1>0
      <3> HIDE DEF alone
      <3> QED BY <3>1, <1>0, <1>4, Greatest
    <2>2. choice = [outcome |-> "ok", inputs |-> {c}]
      BY <1>4 DEF selectInputs
    <2>3. \A i \in alone : w[c].sats <= w[i].sats
      <3>1. c \in 1 .. Len(w) /\ \A i \in alone : i \in 1 .. Len(w)
        BY <2>1, <1>0
      <3>2. \A i, j \in 1 .. Len(w) : i <= j => w[i].sats >= w[j].sats
        BY WalletCoins
      <3>3. \A i \in 1 .. Len(w) : w[i].sats \in Nat
        BY WalletCoins
      <3> HIDE DEF c, alone
      <3> QED BY <2>1, <3>1, <3>2, <3>3
    <2>4. Fits({c}) /\ {c} \subseteq offered /\ Cardinality({c}) = 1
      BY <2>1, FS_Singleton
    <2>5. \A S \in SUBSET settled : Fits(S) => Cardinality(S) >= 1
      <3>1. ASSUME NEW S \in SUBSET settled, S # {} PROVE Cardinality(S) >= 1
        <4>1. IsFiniteSet(S) /\ Cardinality(S) \in Nat
          BY <1>0, FewerPositions
        <4> QED BY <3>1, <4>1, FS_EmptySet
      <3> QED BY <3>1
    <2> HIDE DEF c, alone, settled
    <2>6. choice.outcome = "ok" /\ choice.inputs = {c}
      BY <2>2
    <2> HIDE DEF choice
    <2>7. \A i \in offered, d \in choice.inputs :
                Fits({i}) => Fits({d}) /\ w[d].sats <= w[i].sats
      BY <1>3, <2>3, <2>4, <2>6
    <2>8. /\ Fits(choice.inputs) /\ choice.inputs \subseteq offered
          /\ Cardinality(choice.inputs) = 1
          /\ \A S \in SUBSET settled : Fits(S) => Cardinality(S) >= Cardinality(choice.inputs)
      BY <2>4, <2>5, <2>6
    <2> QED BY <2>6, <2>7, <2>8 DEF PayoutChoiceIsBest, choice, settled
  <1>5. CASE alone = {} /\ counts # {}
    <2> DEFINE k == Min(counts)
    <2>1. k \in counts /\ \A i \in counts : k <= i
      <3>1. counts \in SUBSET Nat
        BY <1>1
      <3> HIDE DEF counts
      <3> QED BY <3>1, <1>5, Least
    <2>2. choice = [outcome |-> "ok", inputs |-> Largest(settled, k)]
      BY <1>5 DEF selectInputs
    <2> HIDE DEF k, counts, alone, settled
    <2>3. choice.outcome = "ok" /\ choice.inputs = Largest(settled, k)
      BY <2>2
    <2> HIDE DEF choice
    <2>4. \A i \in offered : ~Fits({i})
      BY <1>3, <1>5
    <2>5. /\ Fits(choice.inputs) /\ choice.inputs \subseteq offered
          /\ choice.inputs \in SUBSET settled
          /\ \A S \in SUBSET settled : Fits(S) => Cardinality(S) >= Cardinality(choice.inputs)
      BY <2>1, <2>3, <1>0, <1>1
    <2> QED BY <2>3, <2>4, <2>5 DEF PayoutChoiceIsBest, choice, settled
  <1>6. CASE alone = {} /\ counts = {} /\ all # {}
    <2>1. choice = [outcome |-> "unconfirmed", inputs |-> {}]
      BY <1>6 DEF selectInputs
    <2>2. \A S \in SUBSET settled : ~Fits(S)
      BY <1>1, <1>6
    <2>3. \E S \in SUBSET offered : Fits(S)
      BY <1>2, <1>6
    <2>4. choice.outcome = "unconfirmed"
      BY <2>1
    <2> HIDE DEF choice, settled
    <2> QED BY <2>2, <2>3, <2>4 DEF PayoutChoiceIsBest, choice, settled
  <1>7. CASE alone = {} /\ counts = {} /\ all = {}
    <2>1. choice = [outcome |-> "insufficient", inputs |-> {}]
      BY <1>7 DEF selectInputs
    <2>2. \A S \in SUBSET offered : ~Fits(S)
      BY <1>2, <1>7
    <2>3. choice.outcome = "insufficient"
      BY <2>1
    <2> HIDE DEF choice, settled
    <2> QED BY <2>2, <2>3 DEF PayoutChoiceIsBest, choice, settled
  <1> QED BY <1>4, <1>5, <1>6, <1>7

-----------------------------------------------------------------------------
\* The j largest coins end at a, and the m smallest begin after b.
Mixed(S, j, m, a, b) ==
    /\ Largest(S, j) = Below(S, a) /\ Cardinality(Below(S, a)) = j
    /\ Smallest(S, m) = Above(S, b) /\ Cardinality(Above(S, b)) = m
    /\ Cardinality(Below(S, a) \cup Above(S, b)) = j + m
    /\ Below(S, a) \cup Above(S, b) \subseteq S

\* The largest and the smallest of a merge are different coins.
LEMMA MixShape ==
    ASSUME NEW n \in Nat, NEW S, Within(S, n), NEW j \in Nat, NEW m \in Nat,
           j + m <= Cardinality(S)
    PROVE  \E a, b \in 0 .. n : Mixed(S, j, m, a, b)
  <1>0. Cardinality(S) \in Nat /\ j <= Cardinality(S) /\ m <= Cardinality(S)
        /\ \A x \in S : x \in Int
    <2>1. Cardinality(S) \in Nat
      BY FinitePositions
    <2> QED BY <2>1 DEF Within
  <1>1. PICK a \in 0 .. n : Largest(S, j) = Below(S, a) /\ Cardinality(Below(S, a)) = j
    BY <1>0, LargestIsBelow
  <1>2. PICK b \in 0 .. n : Smallest(S, m) = Above(S, b) /\ Cardinality(Above(S, b)) = m
    BY <1>0, SmallestIsAbove
  <1>3. a \in Int /\ b \in Int
    OBVIOUS
  <1>4. /\ Within(Below(S, a), n) /\ IsFiniteSet(Below(S, a)) /\ Below(S, a) \subseteq S
        /\ Within(Above(S, b), n) /\ IsFiniteSet(Above(S, b)) /\ Above(S, b) \subseteq S
        /\ Cardinality(Below(S, b)) \in Nat
    BY <1>3, BelowAbove
  <1>5. Below(S, a) \cap Above(S, b) = {}
    <2> SUFFICES ASSUME NEW x \in S, x \in Below(S, a), x \in Above(S, b) PROVE FALSE
      BY <1>4
    <2>1. x <= a /\ x > b /\ ~(x <= b)
      BY <1>0, <1>3 DEF Below, Above
    <2>2. \A y \in S : y <= b => y <= a
      BY <2>1, <1>0, <1>3
    <2>3. Below(S, b) \subseteq Below(S, a)
      BY <2>2, Zenon DEF Below
    <2>4. Below(S, b) # Below(S, a)
      BY <2>1 DEF Below
    <2>5. Cardinality(Below(S, b)) < j
      BY <2>3, <2>4, <1>1, <1>4, FewerPositions
    <2>6. Cardinality(S) = Cardinality(Below(S, b)) + m
      BY <1>2, <1>3, Split
    <2> QED BY <2>5, <2>6, <1>0, <1>4
  <1>6. Cardinality(Below(S, a) \cup Above(S, b)) = j + m - Cardinality({})
    BY <1>1, <1>2, <1>4, <1>5, FS_Union
  <1>7. Cardinality(Below(S, a) \cup Above(S, b)) = j + m
    BY <1>6, FS_EmptySet
  <1>8. Mixed(S, j, m, a, b)
    BY <1>1, <1>2, <1>4, <1>7 DEF Mixed
  <1> QED BY <1>8

(***************************************************************************)
(* Among the choices of a given size that take the m smallest coins, the   *)
(* largest coins for the other slots sum to the most.                      *)
(***************************************************************************)
LEMMA MixDominates ==
    ASSUME NEW w, IsWallet(w), NEW S, Within(S, Len(w)), NEW j \in Nat, NEW m \in Nat,
           j + m <= Cardinality(S),
           NEW T \in SUBSET S, Cardinality(T) = j + m, Smallest(S, m) \subseteq T
    PROVE  SumOf(w, T) <= SumOf(w, Largest(S, j) \cup Smallest(S, m))
  <1> DEFINE n == Len(w)
  <1>0. n \in Nat /\ \A x \in S : x \in Int
    BY WalletCoins DEF Within
  <1>1. PICK a, b \in 0 .. n : Mixed(S, j, m, a, b)
    BY <1>0, MixShape
  <1>2. /\ Largest(S, j) = Below(S, a) /\ Smallest(S, m) = Above(S, b)
        /\ Cardinality(Below(S, a) \cup Above(S, b)) = j + m
        /\ Below(S, a) \cup Above(S, b) \subseteq S
    BY <1>1 DEF Mixed
  <1> DEFINE M == Below(S, a) \cup Above(S, b)
  <1>3. Within(M, n) /\ Within(T, n) /\ a \in Int /\ b \in Int
    BY <1>0, <1>2, FewerPositions
  <1>4. ASSUME NEW i \in 0 .. n
        PROVE  Cardinality(Below(T, i)) <= Cardinality(Below(M, i))
    <2>0. i \in Int
      OBVIOUS
    <2>1. Within(Below(M, i), n) /\ Within(Above(M, i), n)
          /\ Within(Below(T, i), n) /\ Within(Above(T, i), n)
          /\ Cardinality(Below(M, i)) \in Nat /\ Cardinality(Above(M, i)) \in Nat
          /\ Cardinality(Below(T, i)) \in Nat /\ Cardinality(Above(T, i)) \in Nat
      <3> HIDE DEF M
      <3> QED BY <1>0, <1>3, <2>0, BelowAbove
    <2>2. CASE i <= a
      <3>1. \A x \in S : x <= i => x <= a
        BY <1>0, <1>3, <2>0, <2>2
      <3>2. Below(T, i) \subseteq Below(M, i)
        BY <3>1, Zenon DEF Below
      <3> HIDE DEF M
      <3> QED BY <1>0, <2>1, <3>2, FewerPositions
    <2>3. CASE ~(i <= a)
      <3>1. \A x \in S : x <= a => ~(x > i)
        BY <1>0, <1>3, <2>0, <2>3
      <3>2. Above(M, i) \subseteq Above(T, i)
        <4>1. Above(S, b) \subseteq T
          BY <1>2
        <4> QED BY <3>1, <4>1, Zenon DEF Above, Below
      <3> HIDE DEF M
      <3>3. Cardinality(Above(M, i)) <= Cardinality(Above(T, i))
        BY <1>0, <2>1, <3>2, FewerPositions
      <3>4. Cardinality(M) = Cardinality(Below(M, i)) + Cardinality(Above(M, i))
        BY <1>0, <1>3, <2>0, Split
      <3>5. Cardinality(T) = Cardinality(Below(T, i)) + Cardinality(Above(T, i))
        BY <1>0, <1>3, <2>0, Split
      <3>6. Cardinality(M) = Cardinality(T)
        BY <1>2 DEF M
      <3> QED BY <2>1, <3>3, <3>4, <3>5, <3>6
    <2> QED BY <2>2, <2>3
  <1> HIDE DEF M
  <1>5. SumOf(w, T) <= SumOf(w, M)
    BY <1>3, <1>4, Dominates
  <1> QED BY <1>2, <1>5 DEF M

(***************************************************************************)
(* selectMergeInputs: the choice reaches the target whenever one of its    *)
(* size can, and then none that does sweeps up more of the smallest coins; *)
(* when none can, it is the most those inputs can carry.                   *)
(***************************************************************************)
THEOREM MergeChoiceIsOptimal ==
    ASSUME NEW w, IsWallet(w), NEW coins, Within(coins, Len(w)),
           NEW target \in Int, NEW maxInputs \in Nat, NEW rate \in Nat
    PROVE  MergeChoiceIsBest(w, coins, target, maxInputs, rate)
  <1> DEFINE size == Min({maxInputs, Cardinality(coins)})
             Mix(j) == Largest(coins, j) \cup Smallest(coins, size - j)
             J == {j \in 0 .. size : Covers(w, Mix(j), target, rate)}
             Sw(S) == {k \in 0 .. size : Smallest(coins, k) \subseteq S}
             Swept(S) == Max(Sw(S))
             reaching == {S \in kSubset(size, coins) : Covers(w, S, target, rate)}
             choice == selectMergeInputs(w, coins, target, maxInputs, rate)
  <1>1. size \in Nat /\ size <= Cardinality(coins) /\ Cardinality(coins) \in Nat
    <2>1. Cardinality(coins) \in Nat
      BY WalletCoins, FinitePositions
    <2> DEFINE both == {maxInputs, Cardinality(coins)}
    <2>2. both \in SUBSET Nat /\ both # {} /\ Cardinality(coins) \in both
      BY <2>1
    <2> HIDE DEF both
    <2>3. Min(both) \in both /\ \A y \in both : Min(both) <= y
      BY <2>2, Least
    <2> QED BY <2>1, <2>2, <2>3 DEF both
  <1> HIDE DEF size
  <1>2. \A S : S \in kSubset(size, coins) <=> S \in SUBSET coins /\ Cardinality(S) = size
    BY DEF kSubset
  <1>3. Smallest(coins, 0) = {}
    <2>1. ASSUME NEW i \in coins PROVE ~(Cardinality({j \in coins : j > i}) < 0)
      <3> DEFINE after == {j \in coins : j > i}
      <3>1. after \subseteq coins
        OBVIOUS
      <3> HIDE DEF after
      <3>2. Cardinality(after) \in Nat
        BY <3>1, WalletCoins, FewerPositions
      <3> QED BY <3>2 DEF after
    <2> QED BY <2>1 DEF Smallest
  <1>4. ASSUME NEW j \in 0 .. size
        PROVE  /\ Mix(j) \in kSubset(size, coins) /\ size - j \in Sw(Mix(j))
               /\ \A S \in kSubset(size, coins) :
                    Smallest(coins, size - j) \subseteq S => SumOf(w, S) <= SumOf(w, Mix(j))
    <2> DEFINE m == size - j
    <2>1. j \in Nat /\ m \in Nat /\ j + m = size /\ m \in 0 .. size
      BY <1>1
    <2> HIDE DEF m
    <2>2. j + m <= Cardinality(coins)
      BY <1>1, <2>1
    <2>3. PICK a, b \in 0 .. Len(w) : Mixed(coins, j, m, a, b)
      BY <2>1, <2>2, WalletCoins, MixShape
    <2> DEFINE M == Largest(coins, j) \cup Smallest(coins, m)
    <2>4. M \in SUBSET coins /\ Cardinality(M) = size
      BY <2>1, <2>3 DEF Mixed
    <2>5. m \in {k \in 0 .. size : Smallest(coins, k) \subseteq M}
      BY <2>1
    <2>6. ASSUME NEW S \in kSubset(size, coins), Smallest(coins, m) \subseteq S
          PROVE  SumOf(w, S) <= SumOf(w, M)
      BY <1>2, <2>1, <2>2, <2>6, MixDominates
    <2>7. Mix(j) = M
      BY DEF m
    <2> HIDE DEF M, Mix
    <2> QED BY <1>2, <2>4, <2>5, <2>6, <2>7 DEF m
  <1>5. ASSUME NEW S \in kSubset(size, coins), NEW T \in kSubset(size, coins),
               SumOf(w, S) <= SumOf(w, T), Covers(w, S, target, rate)
        PROVE  Covers(w, T, target, rate)
    <2>1. SumOf(w, S) \in Nat /\ SumOf(w, T) \in Nat
      BY SumType
    <2> DEFINE cost == size * rate
    <2>2. cost \in Nat
      BY <1>1
    <2>3. Cardinality(S) = size /\ Cardinality(T) = size
      BY <1>2
    <2>4. SumOf(w, S) >= target + cost
      BY <1>5, <2>3 DEF Covers, feeCeiling
    <2> HIDE DEF cost
    <2>5. SumOf(w, T) >= target + cost
      BY <1>5, <2>1, <2>2, <2>4
    <2> QED BY <2>3, <2>5 DEF Covers, feeCeiling, cost
  <1>6. \A S : /\ \A k \in Sw(S) : k \in 0 .. size /\ k <= Swept(S)
               /\ Sw(S) # {} => Swept(S) \in Sw(S)
    <2>1. ASSUME NEW S, Sw(S) # {}
          PROVE  Swept(S) \in Sw(S) /\ \A k \in Sw(S) : k <= Swept(S)
      <3>1. Sw(S) \in SUBSET Nat /\ \A k \in Sw(S) : k <= size
        BY <1>1
      <3> HIDE DEF Sw
      <3> QED BY <1>1, <2>1, <3>1, Greatest
    <2> QED BY <2>1
  <1>7. \A S : Swept(S) \in 0 .. size /\ Smallest(coins, Swept(S)) \subseteq S
    <2>1. \A S : 0 \in Sw(S)
      BY <1>1, <1>3
    <2>2. \A S : Swept(S) \in Sw(S)
      <3> HIDE DEF Sw
      <3> QED BY <1>6, <2>1
    <2> HIDE DEF Swept
    <2> QED BY <2>2
  <1>8. CASE J = {}
    <2>1. choice = [inputs |-> Largest(coins, size), reaches |-> FALSE]
      BY <1>8 DEF selectMergeInputs, size
    <2> DEFINE top == Largest(coins, size)
    <2>2. top \in kSubset(size, coins)
          /\ \A T \in kSubset(size, coins) : SumOf(w, T) <= SumOf(w, top)
      <3>1. top \subseteq coins /\ Cardinality(top) = size
            /\ \A T \in SUBSET coins : Cardinality(T) = size => SumOf(w, T) <= SumOf(w, top)
        BY <1>1, LargestDominates
      <3> HIDE DEF top
      <3> QED BY <1>2, <3>1
    <2>3. reaching = {}
      <3> SUFFICES ASSUME NEW S \in kSubset(size, coins), Covers(w, S, target, rate)
                   PROVE  FALSE
        OBVIOUS
      <3>1. size \in 0 .. size /\ size - size = 0
        BY <1>1
      <3>2. Smallest(coins, size - size) \subseteq S
        BY <3>1, <1>3
      <3> HIDE DEF Mix, Sw
      <3>3. Mix(size) \in kSubset(size, coins) /\ SumOf(w, S) <= SumOf(w, Mix(size))
        BY <1>4, <3>1, <3>2
      <3>4. Covers(w, Mix(size), target, rate)
        BY <1>5, <3>3
      <3> QED BY <3>1, <3>4, <1>8
    <2> DEFINE sums == {SumOf(w, S) : S \in kSubset(size, coins)}
    <2>4. SumOf(w, top) >= Max(sums)
      <3>1. SumOf(w, top) \in Nat /\ sums \in SUBSET Nat
        BY SumType
      <3>2. sums # {} /\ \A x \in sums : x <= SumOf(w, top)
        BY <2>2
      <3> HIDE DEF sums, top
      <3>3. Max(sums) \in sums
        BY <3>1, <3>2, Greatest
      <3> QED BY <3>1, <3>2, <3>3
    <2> HIDE DEF top, sums
    <2>5. choice.inputs = top /\ choice.reaches = FALSE
      BY <2>1 DEF top
    <2> HIDE DEF choice, reaching, Swept
    <2> QED BY <2>2, <2>3, <2>4, <2>5 DEF MergeChoiceIsBest, choice, reaching, sums, size
  <1>9. CASE J # {}
    <2> DEFINE k == Min(J)
    <2>1. choice = [inputs |-> Mix(k), reaches |-> TRUE]
      BY <1>9 DEF selectMergeInputs, size
    <2>2. k \in J /\ \A j \in J : k <= j
      <3>1. J \in SUBSET Nat
        BY <1>1
      <3> HIDE DEF J
      <3> QED BY <3>1, <1>9, Least
    <2> HIDE DEF k
    <2>3. k \in 0 .. size /\ Covers(w, Mix(k), target, rate)
      BY <2>2
    <2>4. Mix(k) \in kSubset(size, coins) /\ size - k <= Swept(Mix(k)) /\ Swept(Mix(k)) \in 0 .. size
      <3> HIDE DEF Mix, Sw, Swept
      <3> QED BY <1>4, <1>6, <1>7, <2>3
    <2>5. ASSUME NEW S \in kSubset(size, coins), Covers(w, S, target, rate)
          PROVE  Swept(S) <= Swept(Mix(k))
      <3> DEFINE m == Swept(S)
      <3>1. m \in 0 .. size /\ Smallest(coins, m) \subseteq S
        BY <1>7
      <3> HIDE DEF m, Mix, Sw, Swept
      <3>2. size - m \in 0 .. size /\ size - (size - m) = m
        BY <1>1, <3>1
      <3>3. Mix(size - m) \in kSubset(size, coins) /\ SumOf(w, S) <= SumOf(w, Mix(size - m))
        BY <1>4, <3>1, <3>2
      <3>4. Covers(w, Mix(size - m), target, rate)
        BY <1>5, <2>5, <3>3
      <3>5. k <= size - m
        BY <2>2, <3>2, <3>4
      <3>6. m <= Swept(Mix(k))
        BY <1>1, <2>3, <2>4, <3>1, <3>5
      <3> QED BY <3>6 DEF m
    <2>6. choice.inputs = Mix(k) /\ choice.reaches = TRUE
      BY <2>1
    <2>7. Mix(k) \in reaching
      BY <2>3, <2>4
    <2>8. \A S \in reaching : Swept(S) <= Swept(Mix(k))
      BY <2>5
    <2> HIDE DEF choice, reaching, Mix, Swept
    <2>9. /\ choice.inputs \in kSubset(size, coins) /\ choice.reaches /\ reaching # {}
          /\ choice.inputs \in reaching /\ \A S \in reaching : Swept(S) <= Swept(choice.inputs)
      BY <2>4, <2>6, <2>7, <2>8
    <2> QED BY <2>9 DEF MergeChoiceIsBest, choice, reaching, Swept, size
  <1> QED BY <1>8, <1>9
=============================================================================
