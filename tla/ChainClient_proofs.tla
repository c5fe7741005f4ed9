------------------------- MODULE ChainClient_proofs -------------------------
(***************************************************************************)
(* The chain client's promises for any providers, evonodes and liars among *)
(* them, whatever the bounds and however long the directory runs.          *)
(***************************************************************************)
EXTENDS ChainClient, FiniteSetTheorems, TLAPS

(***************************************************************************)
(* The strengthening.  What is being settled is held by nobody until a     *)
(* relay is asked, and as long as every relay said no.                     *)
(***************************************************************************)
Unsent ==
    /\ op.at \in {"idle", "heights", "fallbackHeights", "reading", "view", "offer"} => held = {}
    /\ op.at = "relay" /\ op.round = 1 /\ ~op.ambiguous => held = {}

OpAt == op.at \in {"idle", "heights", "fallbackHeights", "reading", "view", "offer",
                   "relay", "again", "lookup", "fallbackLookup", "settled"}

\* The fields of the two operations that are updated in place.
Shape ==
    /\ op.at = "reading" => op = [at |-> "reading", heights |-> op.heights, queue |-> op.queue,
                                  retried |-> op.retried, slow |-> op.slow]
    /\ op.at = "relay" => op = [at |-> "relay", round |-> op.round, asked |-> op.asked,
                                ambiguous |-> op.ambiguous]

(***************************************************************************)
(* What was surveyed: every primary, some evonodes, and the fallbacks only *)
(* where no evonode answered.                                              *)
(***************************************************************************)
Asked(S) == Range(Primaries) \subseteq S /\ S \subseteq Configured \cup Evonodes

Surveyed(h) ==
    /\ Asked(DOMAIN h) /\ h \in Surveys(DOMAIN h)
    /\ Answered(h, Evonodes) # {} /\ Fallbacks # {} => DOMAIN h \subseteq Range(Primaries) \cup Evonodes

Surveying ==
    /\ op.at = "heights" => Range(Primaries) \subseteq op.asked
                            /\ op.asked \subseteq Range(Primaries) \cup Evonodes
    /\ op.at = "fallbackHeights" =>
            /\ Surveyed(op.heights) /\ Answered(op.heights, Evonodes) = {}
            /\ DOMAIN op.heights \subseteq Range(Primaries) \cup Evonodes
    /\ op.at = "reading" =>
            /\ Surveyed(op.heights) /\ tipHeight(op.heights) # None
            /\ op.queue \subseteq eligible(op.heights) /\ op.queue \cap op.slow = {}
    /\ op.at = "view" =>
            /\ Surveyed(op.heights) /\ tipHeight(op.heights) # None
            /\ \E i \in eligible(op.heights) : op.source = Primaries[i]

-----------------------------------------------------------------------------
\* Every nonempty set of naturals has a least element.
LEMMA Least ==
    ASSUME NEW S \in SUBSET Nat, S # {}
    PROVE  Min(S) \in S /\ \A y \in S : Min(S) <= y
  <1>1. PICK x \in S : \A y \in S : ~(<<y, x>> \in OpToRel(<, Nat))
    BY NatLessThanWellFounded, WFMin
  <1>2. \A y \in S : ~(y < x)
    BY <1>1 DEF OpToRel
  <1>3. \E z \in S : \A y \in S : z <= y
    BY <1>2
  <1> QED BY <1>3 DEF Min

\* A bounded one has a greatest.
LEMMA Greatest ==
    ASSUME NEW S \in SUBSET Nat, S # {}, NEW b \in Nat, \A x \in S : x <= b
    PROVE  Max(S) \in S /\ \A y \in S : y <= Max(S)
  <1> DEFINE low == {n \in Nat : \A x \in S : x <= n}
  <1>1. PICK m \in low : \A n \in low : m <= n
    <2>1. low \in SUBSET Nat /\ b \in low
      OBVIOUS
    <2> HIDE DEF low
    <2> QED BY <2>1, Least
  <1>2. m \in S
    <2> SUFFICES ASSUME m \notin S PROVE FALSE
      OBVIOUS
    <2>1. \A x \in S : x <= m - 1 /\ x \in Nat
      BY <1>1
    <2>2. PICK x \in S : x <= m - 1 /\ x \in Nat
      BY <2>1
    <2>3. m - 1 \in low
      BY <2>1, <2>2
    <2> QED BY <2>3, <1>1
  <1>3. \E x \in S : \A y \in S : x >= y
    BY <1>1, <1>2
  <1>4. Max(S) \in S /\ \A y \in S : Max(S) >= y
    BY <1>3 DEF Max
  <1> QED BY <1>4

\* A set has a subset of every smaller size.
LEMMA SubsetOfSize ==
    ASSUME NEW S, IsFiniteSet(S), NEW k \in 0 .. Cardinality(S)
    PROVE  \E T \in SUBSET S : Cardinality(T) = k
  <1> DEFINE sizes == {Cardinality(T) : T \in {U \in SUBSET S : Cardinality(U) >= k}}
  <1>1. Cardinality(S) \in Nat /\ \A T \in SUBSET S : IsFiniteSet(T) /\ Cardinality(T) \in Nat
    BY FS_CardinalityType, FS_Subset
  <1>2. sizes \in SUBSET Nat /\ sizes # {}
    BY <1>1
  <1>3. Min(sizes) \in sizes /\ \A n \in sizes : Min(sizes) <= n
    <2> HIDE DEF sizes
    <2> QED BY <1>2, Least
  <1>4. PICK T \in SUBSET S : Cardinality(T) >= k
                              /\ \A U \in SUBSET S : Cardinality(U) >= k => Cardinality(T) <= Cardinality(U)
    BY <1>3
  <1>5. CASE Cardinality(T) = k
    BY <1>5
  <1>6. CASE Cardinality(T) > k
    <2>1. T # {}
      BY <1>6, FS_EmptySet
    <2>2. PICK x \in T : TRUE
      BY <2>1
    <2>3. Cardinality(T \ {x}) = Cardinality(T) - 1
      BY <2>2, <1>1, FS_RemoveElement
    <2>4. T \ {x} \in SUBSET S /\ Cardinality(T \ {x}) >= k
      BY <2>3, <1>6, <1>1
    <2> QED BY <2>3, <2>4, <1>4, <1>1
  <1> QED BY <1>1, <1>4, <1>5, <1>6

-----------------------------------------------------------------------------
\* There is a sample to draw whenever the list is not empty.
LEMMA SampleExists ==
    ASSUME NEW list \in SUBSET Evonodes, Cardinality(list) >= MIN_LISTED, NEW out
    PROVE  LET live == list \ out
               pool == IF live # {} THEN live ELSE list
           IN  kSubset(Min({SAMPLE, Cardinality(pool)}), pool) # {}
  <1> DEFINE pool == IF list \ out # {} THEN list \ out ELSE list
             size == Min({SAMPLE, Cardinality(pool)})
  <1>1. IsFiniteSet(pool) /\ Cardinality(pool) \in Nat
    BY ChainClientAssumption, FS_Subset, FS_CardinalityType
  <1>2. SAMPLE \in Nat
    BY ChainClientAssumption
  <1>3. size \in 0 .. Cardinality(pool)
    <2> DEFINE both == {SAMPLE, Cardinality(pool)}
    <2>1. both \in SUBSET Nat /\ both # {}
      BY <1>1, <1>2
    <2>2. Min(both) \in both /\ \A y \in both : Min(both) <= y
      <3> HIDE DEF both
      <3> QED BY <2>1, Least
    <2> QED BY <2>1, <2>2
  <1>4. PICK T \in SUBSET pool : Cardinality(T) = size
    <2> HIDE DEF pool, size
    <2> QED BY <1>1, <1>3, SubsetOfSize
  <1> QED BY <1>4 DEF kSubset

\* What is drawn are evonodes.
LEMMA SamplesAreEvonodes ==
    ASSUME TypeOK, NEW sample \in Samples
    PROVE  sample \subseteq Evonodes
  BY DEF TypeOK, Samples, kSubset
-----------------------------------------------------------------------------
(***************************************************************************)
(* Heights and the tip.                                                    *)
(***************************************************************************)
\* Who answered gave a height, and none above WILD.
LEMMA AnsweredHeights ==
    ASSUME NEW h, Surveyed(h), NEW S, NEW p \in Answered(h, S)
    PROVE  h[p] \in Nat /\ h[p] <= WILD /\ p \in DOMAIN h /\ h[p] \in Reports(p)
  <1>1. p \in DOMAIN h /\ h[p] # None
    BY DEF Answered
  <1>2. h[p] \in {0, TIP - 1, TIP, WILD, None} /\ h[p] \in Reports(p)
    BY <1>1 DEF Surveyed, Surveys
  <1> QED BY <1>1, <1>2, ChainClientAssumption

\* A configured provider or a truthful evonode never reports more than the true height.
LEMMA TruthfulHeights ==
    ASSUME NEW h, Surveyed(h), NEW S, NEW p \in Answered(h, S)
    PROVE  /\ p \notin Liars => h[p] <= TIP
           /\ p \in Evonodes \ Liars => h[p] >= TIP - 1
  <1>1. h[p] \in Nat /\ p \in DOMAIN h /\ h[p] \in Reports(p) /\ h[p] # None
    BY AnsweredHeights DEF Answered
  <1>2. TIP \in Nat \ {0} /\ Evonodes \cap Configured = {}
    BY ChainClientAssumption
  <1>3. CASE p \in Liars
    BY <1>3
  <1>4. CASE p \notin Liars
    <2>1. h[p] \in {0, TIP - 1, TIP}
      BY <1>1, <1>4 DEF Reports
    <2>2. p \in Evonodes => h[p] \in {TIP - 1, TIP}
      BY <1>1, <1>2, <1>4 DEF Reports
    <2> QED BY <1>2, <1>4, <2>1, <2>2
  <1> QED BY <1>3, <1>4

\* The evonodes that answered are finitely many.
LEMMA FiniteVoters ==
    ASSUME NEW h, NEW P \in SUBSET Answered(h, Evonodes)
    PROVE  IsFiniteSet(P) /\ Cardinality(P) \in Nat
                          /\ Cardinality(P) <= Cardinality(Answered(h, Evonodes))
                          /\ Cardinality(Answered(h, Evonodes)) \in Nat
  <1>1. Answered(h, Evonodes) \in SUBSET Evonodes
    BY DEF Answered
  <1>2. IsFiniteSet(Answered(h, Evonodes))
    BY <1>1, ChainClientAssumption, FS_Subset
  <1> QED BY <1>2, FS_Subset, FS_CardinalityType

(***************************************************************************)
(* The lower median: at least half of the evonodes are at or below it, and *)
(* it is the least of the heights of which that is so.                     *)
(***************************************************************************)
LEMMA Median ==
    ASSUME NEW h, Surveyed(h), Answered(h, Evonodes) # {}
    PROVE  LET who == Answered(h, Evonodes)
               AtMost(x) == Cardinality({e \in who : h[e] <= x})
           IN  /\ LowerMedian(h) \in Nat
               /\ 2 * AtMost(LowerMedian(h)) >= Cardinality(who)
               /\ \A d \in who : 2 * AtMost(h[d]) >= Cardinality(who) => LowerMedian(h) <= h[d]
  <1> DEFINE who == Answered(h, Evonodes)
             AtMost(x) == Cardinality({e \in who : h[e] <= x})
             all == {h[e] : e \in who}
             half == {h[e] : e \in {d \in who : 2 * AtMost(h[d]) >= Cardinality(who)}}
  <1>1. \A e \in who : h[e] \in Nat /\ h[e] <= WILD
    BY AnsweredHeights
  <1>2. all \in SUBSET Nat /\ all # {} /\ (\A x \in all : x <= WILD) /\ half \in SUBSET Nat
    BY <1>1
  <1>3. PICK top \in who : \A e \in who : h[e] <= h[top]
    <2>1. Max(all) \in all /\ \A x \in all : x <= Max(all)
      <3> HIDE DEF all
      <3> QED BY <1>2, Greatest, ChainClientAssumption
    <2> QED BY <2>1
  <1>4. {e \in who : h[e] <= h[top]} = who /\ Cardinality(who) \in Nat
    BY <1>3, FiniteVoters
  <1>5. half # {}
    <2>1. AtMost(h[top]) = Cardinality(who)
      BY <1>4
    <2> HIDE DEF AtMost
    <2>2. h[top] \in half
      BY <2>1, <1>3, <1>4
    <2> QED BY <2>2
  <1>6. Min(half) \in half /\ \A x \in half : Min(half) <= x
    <2> HIDE DEF half
    <2> QED BY <1>2, <1>5, Least
  <1>7. LowerMedian(h) = Min(half)
    BY DEF LowerMedian
  <1> HIDE DEF AtMost
  <1>8. \A x \in half : 2 * AtMost(x) >= Cardinality(who) /\ x \in Nat
    BY <1>2
  <1>9. \A d \in who : 2 * AtMost(h[d]) >= Cardinality(who) => h[d] \in half
    OBVIOUS
  <1> HIDE DEF half
  <1>10. LowerMedian(h) \in Nat /\ 2 * AtMost(LowerMedian(h)) >= Cardinality(who)
         /\ \A d \in who : 2 * AtMost(h[d]) >= Cardinality(who) => LowerMedian(h) <= h[d]
    BY <1>6, <1>7, <1>8, <1>9
  <1> QED BY <1>10 DEF AtMost

\* A height that most of the evonodes reach is at most their lower median.
LEMMA MostAreBelow ==
    ASSUME NEW h, Surveyed(h), NEW e \in Answered(h, Evonodes),
           2 * Cardinality({d \in Answered(h, Evonodes) : h[d] >= h[e]})
                > Cardinality(Answered(h, Evonodes))
    PROVE  h[e] <= LowerMedian(h)
  <1> DEFINE who == Answered(h, Evonodes)
             m == LowerMedian(h)
             low == {d \in who : h[d] <= m}
             high == {d \in who : h[d] >= h[e]}
  <1>1. m \in Nat /\ 2 * Cardinality(low) >= Cardinality(who)
    BY Median
  <1>2. \A d \in who : h[d] \in Nat
    BY AnsweredHeights
  <1>3. IsFiniteSet(who) /\ low \subseteq who /\ high \subseteq who
    BY FiniteVoters
  <1>4. Cardinality(low) \in Nat /\ Cardinality(high) \in Nat /\ Cardinality(who) \in Nat
    BY FiniteVoters
  <1>5. low \cap high # {}
    <2>1. Cardinality(low) + Cardinality(high) > Cardinality(who)
      BY <1>1, <1>4
    <2> HIDE DEF who, low, high
    <2> QED BY <2>1, <1>3, FS_MajoritiesIntersect
  <1> HIDE DEF m
  <1>6. h[e] <= m
    BY <1>1, <1>2, <1>5
  <1> QED BY <1>6 DEF m

(***************************************************************************)
(* The tip is at least what every configured provider reported, and, of    *)
(* two evonodes or more, at least their lower median.                      *)
(***************************************************************************)
LEMMA TipIsHigh ==
    ASSUME NEW h, Surveyed(h), tipHeight(h) # None
    PROVE  /\ tipHeight(h) \in Nat
           /\ \A p \in Answered(h, Configured) : h[p] <= tipHeight(h)
           /\ Cardinality(Answered(h, Evonodes)) > 1 => LowerMedian(h) <= tipHeight(h)
  <1> DEFINE evonodes == Answered(h, Evonodes)
             trusted == {h[p] : p \in Answered(h, Configured)}
             lone == Cardinality(evonodes) = 1 /\ trusted # {}
             vote == CASE evonodes = {} -> {}
                       [] lone -> {Min({LowerMedian(h), Max(trusted) + MAX_LAG})}
                       [] OTHER -> {LowerMedian(h)}
  <1>1. trusted \in SUBSET Nat /\ \A x \in trusted : x <= WILD
    BY AnsweredHeights
  <1>2. WILD \in Nat /\ MAX_LAG \in Nat
    BY ChainClientAssumption
  <1>3. trusted # {} => Max(trusted) \in Nat
    <2> HIDE DEF trusted
    <2> QED BY <1>1, <1>2, Greatest
  <1>4. evonodes # {} => LowerMedian(h) \in Nat
    BY Median
  <1>5. vote \in SUBSET Nat /\ (vote = {} \/ \E x \in Nat : vote = {x})
    <2>1. CASE evonodes = {}
      <3>1. vote = {}
        BY <2>1, FS_EmptySet
      <3> HIDE DEF vote
      <3> QED BY <3>1
    <2>2. CASE evonodes # {} /\ lone
      <3> DEFINE both == {LowerMedian(h), Max(trusted) + MAX_LAG}
      <3>1. both \in SUBSET Nat /\ both # {}
        BY <2>2, <1>3, <1>4, <1>2
      <3>2. Min(both) \in Nat
        <4> HIDE DEF both
        <4> QED BY <3>1, Least
      <3>3. vote = {Min(both)}
        BY <2>2
      <3> HIDE DEF both, vote
      <3> QED BY <3>2, <3>3
    <2>3. CASE evonodes # {} /\ ~lone
      <3>1. vote = {LowerMedian(h)}
        BY <2>3
      <3> HIDE DEF vote, evonodes
      <3> QED BY <3>1, <2>3, <1>4
    <2> QED BY <2>1, <2>2, <2>3
  <1>6. Cardinality(evonodes) > 1 => vote = {LowerMedian(h)}
    BY FS_EmptySet, FiniteVoters
  <1>7. tipHeight(h) = IF vote \cup trusted = {} THEN None ELSE Max(vote \cup trusted)
    BY DEF tipHeight
  <1> HIDE DEF vote, trusted
  <1>8. vote \cup trusted # {} /\ tipHeight(h) = Max(vote \cup trusted)
    BY <1>7
  <1>9. PICK b \in Nat : \A x \in vote \cup trusted : x <= b
    <2>1. CASE vote = {}
      BY <2>1, <1>1, <1>2
    <2>2. CASE \E x \in Nat : vote = {x}
      <3>1. PICK x \in Nat : vote = {x}
        BY <2>2
      <3>2. \A y \in vote \cup trusted : y <= x + WILD
        BY <3>1, <1>1, <1>2
      <3> QED BY <3>2, <1>2
    <2> QED BY <1>5, <2>1, <2>2
  <1>10. tipHeight(h) \in Nat /\ \A x \in vote \cup trusted : x <= tipHeight(h)
    BY <1>8, <1>9, <1>1, <1>5, Greatest
  <1>11. \A p \in Answered(h, Configured) : h[p] \in trusted
    BY DEF trusted
  <1> QED BY <1>10, <1>11, <1>6
-----------------------------------------------------------------------------
(***************************************************************************)
(* Whoever is eligible lags nobody that counts.                            *)
(***************************************************************************)
LEMMA EligibleIsCurrent ==
    ASSUME NEW h, Surveyed(h), tipHeight(h) # None, NEW i \in eligible(h)
    PROVE  NoStaleRead(h, Primaries[i])
  <1> DEFINE p == Primaries[i]
  <1>1. p \in Answered(h, Range(Primaries)) /\ tipHeight(h) - h[p] <= MAX_LAG
    BY DEF eligible, Answered, Surveyed, Asked, Range
  <1>2. h[p] \in Nat /\ tipHeight(h) \in Nat /\ MAX_LAG \in Nat
    BY <1>1, AnsweredHeights, TipIsHigh, ChainClientAssumption
  <1>3. ASSUME NEW q \in Answered(h, Configured) PROVE h[p] >= h[q] - MAX_LAG
    <2>1. h[q] \in Nat /\ h[q] <= tipHeight(h)
      BY <1>3, AnsweredHeights, TipIsHigh
    <2> QED BY <2>1, <1>1, <1>2
  <1>4. ASSUME Cardinality(Answered(h, Evonodes)) > 1, NEW e \in Answered(h, Evonodes),
               2 * Cardinality({d \in Answered(h, Evonodes) : h[d] >= h[e]})
                    > Cardinality(Answered(h, Evonodes))
        PROVE  h[p] >= h[e] - MAX_LAG
    <2>1. h[e] \in Nat /\ LowerMedian(h) \in Nat /\ h[e] <= LowerMedian(h)
      BY <1>4, AnsweredHeights, Median, MostAreBelow
    <2>2. LowerMedian(h) <= tipHeight(h)
      BY <1>4, TipIsHigh
    <2> QED BY <2>1, <2>2, <1>1, <1>2
  <1> HIDE DEF p
  <1>5. NoStaleRead(h, p)
    BY <1>3, <1>4 DEF NoStaleRead
  <1> QED BY <1>5 DEF p

\* Of two evonodes or more of which one lies, the lower median is no lie.
LEMMA MedianIsTrue ==
    ASSUME NEW h, Surveyed(h), Cardinality(Answered(h, Evonodes)) > 1,
           Cardinality(Answered(h, Liars)) <= 1
    PROVE  LowerMedian(h) \in Nat /\ LowerMedian(h) <= TIP
  <1> DEFINE who == Answered(h, Evonodes)
             true == {e \in who : h[e] <= TIP}
             heights == {h[e] : e \in true}
             lying == Answered(h, Liars)
  <1>1. IsFiniteSet(who) /\ who # {} /\ Cardinality(who) \in Nat
    BY FiniteVoters, FS_EmptySet
  <1>2. lying \subseteq who /\ who \ lying \subseteq true /\ true \subseteq who
    BY TruthfulHeights, ChainClientAssumption DEF Answered
  <1>3. Cardinality(true) \in Nat /\ Cardinality(who) - 1 <= Cardinality(true)
    <2>1. IsFiniteSet(lying) /\ IsFiniteSet(true) /\ IsFiniteSet(who \ lying)
      BY <1>1, <1>2, FS_Subset
    <2>2. Cardinality(who \ lying) = Cardinality(who) - Cardinality(lying)
      <3>1. who \cap lying = lying
        BY <1>2
      <3> HIDE DEF who, lying
      <3> QED BY <1>1, <3>1, FS_Difference
    <2>3. Cardinality(who \ lying) <= Cardinality(true)
      <3> HIDE DEF who, lying, true
      <3> QED BY <1>2, <2>1, FS_Subset
    <2>4. Cardinality(lying) \in Nat /\ Cardinality(true) \in Nat
      <3> HIDE DEF lying, true
      <3> QED BY <2>1, FS_CardinalityType
    <2> QED BY <2>2, <2>3, <2>4, <1>1
  <1>4. true # {}
    <2>1. Cardinality(who) > 1
      OBVIOUS
    <2> HIDE DEF true, who
    <2> QED BY <2>1, <1>1, <1>3, FS_EmptySet
  <1>5. heights \in SUBSET Nat /\ heights # {} /\ (\A x \in heights : x <= TIP) /\ TIP \in Nat
    BY <1>4, AnsweredHeights, ChainClientAssumption
  <1>6. PICK d \in true : \A e \in true : h[e] <= h[d]
    <2>1. Max(heights) \in heights /\ \A x \in heights : x <= Max(heights)
      <3> HIDE DEF heights
      <3> QED BY <1>5, Greatest
    <2> QED BY <2>1
  <1>7. Cardinality({e \in who : h[e] <= h[d]}) \in Nat
        /\ Cardinality(true) <= Cardinality({e \in who : h[e] <= h[d]})
    <2>1. true \subseteq {e \in who : h[e] <= h[d]} /\ {e \in who : h[e] <= h[d]} \subseteq who
      BY <1>6
    <2>2. IsFiniteSet({e \in who : h[e] <= h[d]})
      BY <2>1, <1>1, FS_Subset
    <2> QED BY <2>1, <2>2, FS_Subset, FS_CardinalityType
  <1>8. LowerMedian(h) \in Nat /\ LowerMedian(h) <= h[d]
    <2>1. 2 * Cardinality({e \in who : h[e] <= h[d]}) >= Cardinality(who)
      BY <1>1, <1>3, <1>7
    <2> QED BY <2>1, <1>1, <1>6, Median
  <1> QED BY <1>5, <1>6, <1>8, AnsweredHeights

(***************************************************************************)
(* Where one evonode at most lies, some primary that is current is         *)
(* eligible.                                                               *)
(***************************************************************************)
LEMMA CurrentIsEligible ==
    ASSUME NEW h, Surveyed(h), tipHeight(h) # None,
           Cardinality(Answered(h, Liars)) <= 1, Current(h) # {}
    PROVE  \E i \in eligible(h) : Primaries[i] \in Current(h)
  <1> DEFINE evonodes == Answered(h, Evonodes)
             trusted == {h[p] : p \in Answered(h, Configured)}
  <1>1. trusted \in SUBSET Nat /\ trusted # {} /\ (\A x \in trusted : x <= TIP)
    <2>1. Current(h) \subseteq Answered(h, Configured)
      BY DEF Current, Answered, Configured
    <2>2. \A p \in Answered(h, Configured) : p \notin Liars
      BY ChainClientAssumption DEF Answered
    <2> QED BY <2>1, <2>2, AnsweredHeights, TruthfulHeights
  <1>2. TIP \in Nat /\ MAX_LAG \in Nat /\ MAX_LAG >= 1
    BY ChainClientAssumption
  <1>3. Max(trusted) \in trusted /\ \A x \in trusted : x <= Max(trusted)
    <2> HIDE DEF trusted
    <2> QED BY <1>1, <1>2, Greatest
  <1>4. PICK p \in Current(h) : p \in Answered(h, Range(Primaries)) /\ h[p] >= TIP - 1 /\ h[p] \in Nat
    <2>1. \A p \in Current(h) : p \in Answered(h, Range(Primaries)) /\ h[p] >= TIP - 1
      BY DEF Current
    <2> QED BY <2>1, AnsweredHeights
  <1>5. \A q \in Answered(h, Range(Primaries)) : h[q] >= TIP - 1 /\ tipHeight(h) - h[q] <= MAX_LAG
            => \E i \in eligible(h) : Primaries[i] \in Current(h)
    BY DEF Current, eligible, Answered, Range
  <1>6. CASE Cardinality(evonodes) = 1
    <2>1. PICK q \in Answered(h, Configured) : h[q] = Max(trusted)
      BY <1>3
    <2>2. q \in Answered(h, Range(Primaries))
      <3>1. evonodes # {}
        BY <1>6, FS_EmptySet
      <3>2. q \in Range(Primaries) \cup Evonodes
        <4>1. CASE Fallbacks = {}
          BY <4>1 DEF Answered, Configured
        <4>2. CASE Fallbacks # {}
          BY <4>2, <3>1 DEF Surveyed, Answered
        <4> QED BY <4>1, <4>2
      <3> QED BY <3>2, ChainClientAssumption DEF Answered
    <2>3. h[q] \in Nat /\ h[q] >= TIP - 1
      <3>1. h[p] \in trusted
        BY <1>4 DEF Answered, Configured
      <3>2. Max(trusted) \in Nat /\ h[p] <= Max(trusted)
        BY <3>1, <1>1, <1>3
      <3> HIDE DEF trusted
      <3> QED BY <3>2, <2>1, <1>4, <1>2
    <2>4. tipHeight(h) <= h[q] + MAX_LAG /\ tipHeight(h) \in Nat
      <3> DEFINE both == {LowerMedian(h), Max(trusted) + MAX_LAG}
                 vote == {Min(both)}
      <3>0. evonodes # {}
        BY <1>6, FS_EmptySet
      <3>1. LowerMedian(h) \in Nat
        BY <3>0, Median
      <3>2. both \in SUBSET Nat /\ both # {} /\ Max(trusted) + MAX_LAG \in both
        BY <3>1, <1>1, <1>3, <1>2
      <3>3. Min(both) \in Nat /\ Min(both) <= Max(trusted) + MAX_LAG
        <4> HIDE DEF both
        <4> QED BY <3>2, Least
      <3>4. tipHeight(h) = Max(vote \cup trusted)
        BY <3>0, <1>1, <1>6 DEF tipHeight
      <3> HIDE DEF both
      <3>7. Max(trusted) \in Nat
        BY <2>1, <2>3
      <3> HIDE DEF trusted
      <3>6. Max(trusted) + MAX_LAG \in Nat
        BY <2>1, <2>3, <1>2
      <3>8. \A x \in vote : x \in Nat /\ x <= Max(trusted) + MAX_LAG
        BY <3>3
      <3>9. \A x \in trusted : x \in Nat /\ x <= Max(trusted) + MAX_LAG
        <4>1. \A x \in trusted : x \in Nat /\ x <= Max(trusted)
          BY <1>1, <1>3
        <4> QED BY <4>1, <3>7, <1>2
      <3> HIDE DEF vote
      <3>5. vote \cup trusted \in SUBSET Nat /\ vote \cup trusted # {}
            /\ \A x \in vote \cup trusted : x <= Max(trusted) + MAX_LAG
        BY <3>8, <3>9, <1>1
      <3> QED BY <3>4, <3>5, <3>6, <2>1, Greatest
    <2> QED BY <2>2, <2>3, <2>4, <1>2, <1>5
  <1>7. CASE Cardinality(evonodes) # 1
    <2>1. tipHeight(h) \in Nat /\ tipHeight(h) <= TIP
      <3> DEFINE vote == IF evonodes = {} THEN {} ELSE {LowerMedian(h)}
      <3>1. evonodes # {} => LowerMedian(h) \in Nat /\ LowerMedian(h) <= TIP
        <4>1. evonodes # {} => Cardinality(evonodes) > 1
          BY <1>7, FiniteVoters, FS_EmptySet
        <4> QED BY <4>1, MedianIsTrue
      <3>2. tipHeight(h) = Max(vote \cup trusted)
        BY <1>1, <1>7 DEF tipHeight
      <3>3. vote \cup trusted \in SUBSET Nat /\ vote \cup trusted # {}
            /\ \A x \in vote \cup trusted : x <= TIP
        BY <3>1, <1>1
      <3> HIDE DEF vote, trusted
      <3> QED BY <3>2, <3>3, <1>2, Greatest
    <2> QED BY <2>1, <1>2, <1>4, <1>5
  <1> QED BY <1>6, <1>7
-----------------------------------------------------------------------------
(***************************************************************************)
(* The initial state, and what a step preserves of each part.              *)
(***************************************************************************)
\* A primary is configured, and nobody configured is an evonode.
LEMMA Sources ==
    /\ Range(Primaries) \subseteq Configured /\ Fallbacks \subseteq Configured
    /\ Configured \cap Evonodes = {} /\ Configured \subseteq Honest
    /\ Configured \cap Liars = {}
  BY ChainClientAssumption DEF Configured, Honest

\* The parts of the strengthening hold at the start.
LEMMA InitInv == Init => TypeOK /\ OpAt /\ Shape /\ Unsent /\ Surveying
  <1> SUFFICES ASSUME Init PROVE TypeOK /\ OpAt /\ Shape /\ Unsent /\ Surveying
    OBVIOUS
  <1>1. Cardinality(Evonodes) >= MIN_LISTED
    BY ChainClientAssumption
  <1>2. nodes \subseteq Evonodes /\ Cardinality(nodes) >= MIN_LISTED
    BY <1>1 DEF Init
  <1>3. Samples # {}
    BY <1>2, SampleExists DEF Samples
  <1>4. TypeOK
    BY <1>2, <1>3 DEF TypeOK, Init
  <1>5. OpAt /\ Shape /\ Unsent /\ Surveying
    BY DEF Init, Idle, OpAt, Shape, Unsent, Surveying
  <1> QED BY <1>4, <1>5

\* What a step does to the directory's list and to the benches, and to verdicts.
LEMMA TypeStep == TypeOK /\ [Next]_vars => TypeOK'
  <1> SUFFICES ASSUME TypeOK, [Next]_vars PROVE TypeOK'
    OBVIOUS
  <1>1. nodes' \subseteq Evonodes /\ Cardinality(nodes') >= MIN_LISTED
    <2>1. CASE \E found \in Lists : Listed(found)
      BY <2>1, ChainClientAssumption DEF Listed, TypeOK
    <2>2. CASE nodes' = nodes
      BY <2>2 DEF TypeOK
    <2>3. nodes' = nodes \/ \E found \in Lists : Listed(found)
      BY DEF Next, Reads, Settles, Directory, vars, StartRead, Heights, FallbackHeights, Succeeds,
         NobodyLeft, Fails, Classify, Take, StartBroadcast, Rebroadcast, Relay, Heard, Lookup,
         FallbackLookup, Report, Spread, BenchEnds
    <2> QED BY <2>1, <2>2, <2>3
  <1>2. (Samples # {})'
    BY <1>1, SampleExists DEF Samples
  <1>3. refresh' \in {"quorums", "explorer", "rested"}
    <2>1. CASE \E found \in Lists : Listed(found)
      BY <2>1 DEF Listed
    <2>2. CASE UNCHANGED refresh
      BY <2>2 DEF TypeOK
    <2>3. CASE Drawn
      BY <2>3 DEF Drawn, TypeOK
    <2>4. UNCHANGED refresh \/ Drawn \/ \E found \in Lists : Listed(found)
      BY DEF Next, Reads, Settles, Directory, vars, StartRead, Heights, FallbackHeights, Succeeds,
         NobodyLeft, Fails, Classify, Take, StartBroadcast, Rebroadcast, Relay, Heard, Lookup,
         FallbackLookup, Report, Spread, BenchEnds
    <2> QED BY <2>1, <2>2, <2>3, <2>4
  <1>4. benched' \subseteq Evonodes
    <2>1. UNCHANGED benched \/ (\E S : Bench(S)) \/ \E e \in Evonodes : BenchEnds(e)
      BY DEF Next, Reads, Settles, Directory, vars, StartRead, Heights, FallbackHeights, Succeeds,
         NobodyLeft, Fails, Classify, Take, StartBroadcast, Rebroadcast, Relay, Heard, Lookup,
         FallbackLookup, Report, Spread, Listed
    <2> QED BY <2>1 DEF Bench, BenchEnds, TypeOK
  <1>5. held' \subseteq Honest
    <2>1. UNCHANGED held \/ (\E a, took : Heard(a, took)) \/ Report \/ \E p \in Honest : Spread(p)
      BY DEF Next, Reads, Settles, Directory, vars, StartRead, Heights, FallbackHeights, Succeeds,
         NobodyLeft, Fails, Classify, Take, StartBroadcast, Rebroadcast, Relay, Lookup,
         FallbackLookup, Listed, BenchEnds
    <2> QED BY <2>1 DEF Heard, Report, Spread, TypeOK
  <1>6. DOMAIN verdicts' = Range(Young) /\ \A t \in Range(Young) : verdicts'[t] \in BOOLEAN \cup {None}
    <2>1. UNCHANGED verdicts \/ \E sample \in Samples, found \in [LookedUp -> BOOLEAN \cup {None}],
                byEvonode \in SUBSET LookedUp : Classify(sample, found, byEvonode)
      BY DEF Next, Reads, Settles, Directory, vars, StartRead, Heights, FallbackHeights, Succeeds,
         NobodyLeft, Fails, Take, StartBroadcast, Rebroadcast, Relay, Heard, Lookup,
         FallbackLookup, Report, Spread, Listed, BenchEnds
    <2>2. CASE UNCHANGED verdicts
      BY <2>2 DEF TypeOK
    <2>3. ASSUME NEW sample \in Samples, NEW found \in [LookedUp -> BOOLEAN \cup {None}],
                 NEW byEvonode \in SUBSET LookedUp, Classify(sample, found, byEvonode)
          PROVE  DOMAIN verdicts' = Range(Young)
                 /\ \A t \in Range(Young) : verdicts'[t] \in BOOLEAN \cup {None}
      BY <2>3 DEF Classify, TypeOK
    <2> QED BY <2>1, <2>2, <2>3
  <1> QED BY <1>1, <1>2, <1>3, <1>4, <1>5, <1>6 DEF TypeOK

\* Updates in place keep the fields.
LEMMA ShapeStep == Shape /\ [Next]_vars => Shape'
  <1> SUFFICES ASSUME Shape, [Next]_vars PROVE Shape'
    OBVIOUS
  <1>1. ASSUME op'.at \notin {"reading", "relay"} PROVE Shape'
    BY <1>1 DEF Shape
  <1>2. ASSUME UNCHANGED op PROVE Shape'
    BY <1>2 DEF Shape
  <1>3. ASSUME NEW h, op' = Reading(h) PROVE Shape'
    <2>1. CASE tipHeight(h) = None
      BY <1>1, <1>3, <2>1 DEF Reading, Idle
    <2>2. CASE tipHeight(h) # None
      <3>1. op' = [at |-> "reading", heights |-> h, queue |-> eligible(h), retried |-> FALSE, slow |-> {}]
        BY <1>3, <2>2 DEF Reading
      <3> QED BY <3>1 DEF Shape
    <2> QED BY <2>1, <2>2
  <1>4. ASSUME NEW round, NEW asked, op' = Round(round, asked) PROVE Shape'
    BY <1>4 DEF Round, Shape
  <1>5. CASE Reads
    <2>1. ASSUME NEW s \in Samples, StartRead(s) PROVE op'.at \notin {"reading", "relay"}
      BY <2>1 DEF StartRead
    <2>2. ASSUME op.at = "heights", NEW h \in Surveys(op.asked), Heights(h) PROVE Shape'
      BY <1>1, <1>3, <2>2 DEF Heights
    <2>3. ASSUME NEW f \in Surveys(Fallbacks), FallbackHeights(f) PROVE Shape'
      BY <1>3, <2>3 DEF FallbackHeights
    <2>4. ASSUME Succeeds \/ NobodyLeft \/ Take PROVE op'.at \notin {"reading", "relay"}
      BY <2>4 DEF Succeeds, NobodyLeft, Take, Idle
    <2>5. ASSUME NEW timeout \in BOOLEAN, Fails(timeout) PROVE Shape'
      <3>1. op.at = "reading" /\ op' = Retried(timeout)
        BY <2>5 DEF Fails
      <3>2. op = [at |-> "reading", heights |-> op.heights, queue |-> op.queue,
                  retried |-> op.retried, slow |-> op.slow]
        BY <3>1 DEF Shape
      <3>3. op' = [at |-> "reading", heights |-> op'.heights, queue |-> op'.queue,
                   retried |-> op'.retried, slow |-> op'.slow]
        BY <3>1, <3>2 DEF Retried
      <3> QED BY <3>3 DEF Shape
    <2>6. ASSUME NEW sample \in Samples, NEW found \in [LookedUp -> BOOLEAN \cup {None}],
                 NEW byEvonode \in SUBSET LookedUp, Classify(sample, found, byEvonode)
          PROVE  op'.at \notin {"reading", "relay"}
      BY <2>6 DEF Classify
    <2> QED BY <1>1, <1>5, <2>1, <2>2, <2>3, <2>4, <2>5, <2>6 DEF Reads
  <1>6. CASE Settles
    <2>1. ASSUME NEW s \in Samples, StartBroadcast(s) \/ Rebroadcast(s) PROVE Shape'
      BY <1>4, <2>1 DEF StartBroadcast, Rebroadcast
    <2>2. ASSUME op.at = "relay", NEW a \in Replies(Relays(op.asked)),
                 NEW took \in SUBSET Saying(a, "silent"), Relay(a, took)
          PROVE  Shape'
      <3>1. op = [at |-> "relay", round |-> op.round, asked |-> op.asked, ambiguous |-> op.ambiguous]
        BY <2>2 DEF Shape
      <3>2. \/ op'.at \notin {"reading", "relay"}
            \/ op' = [op EXCEPT !.asked = Fallbacks, !.ambiguous = Ambiguous(a)]
        BY <2>2 DEF Relay, Settled, Unaccepted
      <3>3. ASSUME op' = [op EXCEPT !.asked = Fallbacks, !.ambiguous = Ambiguous(a)]
            PROVE  op' = [at |-> "relay", round |-> op'.round, asked |-> op'.asked,
                          ambiguous |-> op'.ambiguous]
        <4> DEFINE r == op.round
                   q == op.asked
                   m == op.ambiguous
                   A == Ambiguous(a)
        <4>1. op = [at |-> "relay", round |-> r, asked |-> q, ambiguous |-> m]
          BY <3>1
        <4> HIDE DEF r, q, m, A
        <4>2. op' = [at |-> "relay", round |-> r, asked |-> Fallbacks, ambiguous |-> A]
          BY <4>1, <3>3 DEF A
        <4> QED BY <4>2
      <3> QED BY <1>1, <3>2, <3>3 DEF Shape
    <2>3. ASSUME op.at = "lookup", NEW s \in Samples,
                 NEW k \in [Active(s) -> BOOLEAN \cup {None}], Lookup(s, k)
          PROVE  op'.at \notin {"reading", "relay"}
      BY <2>3 DEF Lookup, Settled
    <2>4. ASSUME NEW k \in [Fallbacks -> BOOLEAN \cup {None}], FallbackLookup(k)
          PROVE  op'.at \notin {"reading", "relay"}
      BY <2>4 DEF FallbackLookup, Settled
    <2>5. ASSUME Report PROVE op'.at \notin {"reading", "relay"}
      BY <2>5 DEF Report, Idle
    <2>6. ASSUME NEW p \in Honest, Spread(p) PROVE UNCHANGED op
      BY <2>6 DEF Spread
    <2> QED BY <1>1, <1>2, <1>6, <2>1, <2>2, <2>3, <2>4, <2>5, <2>6 DEF Settles
  <1>7. CASE Directory \/ UNCHANGED vars
    BY <1>2, <1>7 DEF Directory, Listed, BenchEnds, vars
  <1> QED BY <1>5, <1>6, <1>7 DEF Next

\* Nobody holds a transaction that was not broadcast, or that every relay refused.
LEMMA UnsentStep == TypeOK /\ OpAt /\ Shape /\ Unsent /\ [Next]_vars => OpAt' /\ Unsent'
  <1> SUFFICES ASSUME TypeOK, OpAt, Shape, Unsent, [Next]_vars PROVE OpAt' /\ Unsent'
    OBVIOUS
  <1>1. CASE Reads
    <2> DEFINE early == {"idle", "heights", "fallbackHeights", "reading", "view", "offer"}
               Quiet == UNCHANGED held /\ op.at \in early /\ op'.at \in early
    <2>1. ASSUME NEW sample \in Samples, StartRead(sample) PROVE Quiet
      BY <2>1 DEF StartRead, Idle
    <2>2. ASSUME op.at = "heights", NEW h \in Surveys(op.asked), Heights(h) PROVE Quiet
      BY <2>2 DEF Heights, Reading, Idle
    <2>3. ASSUME NEW f \in Surveys(Fallbacks), FallbackHeights(f) PROVE Quiet
      BY <2>3 DEF FallbackHeights, Reading, Idle
    <2>4. ASSUME Succeeds \/ NobodyLeft \/ Take PROVE Quiet
      BY <2>4 DEF Succeeds, NobodyLeft, Take, Idle
    <2>5. ASSUME NEW timeout \in BOOLEAN, Fails(timeout) PROVE Quiet
      BY <2>5 DEF Fails, Retried
    <2>6. ASSUME NEW sample \in Samples, NEW found \in [LookedUp -> BOOLEAN \cup {None}],
                 NEW byEvonode \in SUBSET LookedUp, Classify(sample, found, byEvonode)
          PROVE  Quiet
      BY <2>6 DEF Classify
    <2>7. Quiet
      <3> HIDE DEF Quiet
      <3> QED BY <1>1, <2>1, <2>2, <2>3, <2>4, <2>5, <2>6 DEF Reads
    <2> QED BY <2>7 DEF OpAt, Unsent
  <1>2. CASE Settles
    <2>1. ASSUME NEW sample \in Samples, StartBroadcast(sample) \/ Rebroadcast(sample)
          PROVE  OpAt' /\ Unsent'
      BY <2>1 DEF StartBroadcast, Rebroadcast, Round, Idle, OpAt, Unsent
    <2>2. ASSUME op.at = "relay", NEW a \in Replies(Relays(op.asked)),
                 NEW took \in SUBSET Saying(a, "silent"), Relay(a, took)
          PROVE  OpAt' /\ Unsent'
      <3>1. Heard(a, took)
        BY <2>2 DEF Relay
      <3>2. CASE Accepted(a)
        BY <2>2, <3>2 DEF Relay, Settled, OpAt, Unsent
      <3>3. CASE ~Accepted(a) /\ op.asked # Fallbacks /\ Fallbacks # {}
        <4>1. op' = [op EXCEPT !.asked = Fallbacks, !.ambiguous = Ambiguous(a)]
          BY <2>2, <3>3 DEF Relay
        <4>2. op'.at = "relay" /\ op'.round = op.round /\ op'.ambiguous = Ambiguous(a)
          BY <4>1, <2>2 DEF Shape
        <4>3. ~Ambiguous(a) => ~op.ambiguous /\ held' = held
          BY <3>1, <3>3 DEF Ambiguous, Heard, Saying
        <4> QED BY <2>2, <4>2, <4>3 DEF OpAt, Unsent
      <3>4. CASE ~Accepted(a) /\ ~(op.asked # Fallbacks /\ Fallbacks # {})
        BY <2>2, <3>4 DEF Relay, Unaccepted, Settled, OpAt, Unsent
      <3> QED BY <3>2, <3>3, <3>4
    <2>3. ASSUME op.at = "lookup", NEW sample \in Samples,
                 NEW k \in [Active(sample) -> BOOLEAN \cup {None}], Lookup(sample, k)
          PROVE  OpAt' /\ Unsent'
      BY <2>3 DEF Lookup, Settled, OpAt, Unsent
    <2>4. ASSUME NEW k \in [Fallbacks -> BOOLEAN \cup {None}], FallbackLookup(k)
          PROVE  OpAt' /\ Unsent'
      BY <2>4 DEF FallbackLookup, Settled, OpAt, Unsent
    <2>5. CASE Report
      BY <2>5 DEF Report, Idle, OpAt, Unsent
    <2>6. ASSUME NEW p \in Honest, Spread(p) PROVE OpAt' /\ Unsent'
      BY <2>6 DEF Spread, OpAt, Unsent
    <2> QED BY <1>2, <2>1, <2>2, <2>3, <2>4, <2>5, <2>6 DEF Settles
  <1>3. CASE Directory \/ UNCHANGED vars
    BY <1>3 DEF Directory, Listed, BenchEnds, vars, OpAt, Unsent
  <1> QED BY <1>1, <1>2, <1>3 DEF Next

\* What settleBroadcast concludes is so when it concludes it, and stays so.
LEMMA SettledStep == TypeOK /\ OpAt /\ Unsent /\ SettledTruly /\ [Next]_vars => SettledTruly'
  <1> SUFFICES ASSUME TypeOK, OpAt, Unsent, SettledTruly, [Next]_vars PROVE SettledTruly'
    OBVIOUS
  <1> USE Sources
  <1>1. CASE Reads
    <2>1. op'.at # "settled"
      <3>1. ASSUME NEW sample \in Samples, StartRead(sample) PROVE op'.at # "settled"
        BY <3>1 DEF StartRead
      <3>2. ASSUME op.at = "heights", NEW h \in Surveys(op.asked), Heights(h) PROVE op'.at # "settled"
        BY <3>2 DEF Heights, Reading, Idle
      <3>3. ASSUME NEW f \in Surveys(Fallbacks), FallbackHeights(f) PROVE op'.at # "settled"
        BY <3>3 DEF FallbackHeights, Reading, Idle
      <3>4. ASSUME Succeeds \/ NobodyLeft \/ Take PROVE op'.at # "settled"
        BY <3>4 DEF Succeeds, NobodyLeft, Take, Idle
      <3>5. ASSUME NEW timeout \in BOOLEAN, Fails(timeout) PROVE op'.at # "settled"
        BY <3>5 DEF Fails, Retried
      <3>6. ASSUME NEW sample \in Samples, NEW found \in [LookedUp -> BOOLEAN \cup {None}],
                   NEW byEvonode \in SUBSET LookedUp, Classify(sample, found, byEvonode)
            PROVE  op'.at # "settled"
        BY <3>6 DEF Classify
      <3> QED BY <1>1, <3>1, <3>2, <3>3, <3>4, <3>5, <3>6 DEF Reads
    <2> QED BY <2>1 DEF SettledTruly
  <1>2. CASE Settles
    <2>1. ASSUME NEW sample \in Samples, StartBroadcast(sample) \/ Rebroadcast(sample)
          PROVE  SettledTruly'
      BY <2>1 DEF StartBroadcast, Rebroadcast, Round, SettledTruly
    <2>2. ASSUME op.at = "relay", NEW a \in Replies(Relays(op.asked)),
                 NEW took \in SUBSET Saying(a, "silent"), Relay(a, took)
          PROVE  SettledTruly'
      <3>1. Heard(a, took)
        BY <2>2 DEF Relay
      <3>2. CASE Accepted(a)
        <4>1. op' = Settled("live")
          BY <2>2, <3>2 DEF Relay
        <4>2. held' \cap Configured # {}
          BY <3>1, <3>2 DEF Heard, Accepted
        <4> QED BY <4>1, <4>2 DEF Settled, SettledTruly
      <3>3. CASE ~Accepted(a) /\ op.asked # Fallbacks /\ Fallbacks # {}
        BY <2>2, <3>3 DEF Relay, SettledTruly
      <3>4. CASE ~Accepted(a) /\ ~(op.asked # Fallbacks /\ Fallbacks # {})
        <4>1. op' = Unaccepted(Ambiguous(a))
          BY <2>2, <3>4 DEF Relay
        <4>2. CASE op.round = 1 /\ ~Ambiguous(a)
          <5>1. ~op.ambiguous /\ held' = held
            BY <3>1, <4>2 DEF Ambiguous, Heard, Saying
          <5> QED BY <5>1, <2>2, <4>1, <4>2 DEF Unaccepted, Settled, SettledTruly, Unsent
        <4>3. CASE ~(op.round = 1 /\ ~Ambiguous(a))
          BY <4>1, <4>3 DEF Unaccepted, SettledTruly
        <4> QED BY <4>2, <4>3
      <3> QED BY <3>2, <3>3, <3>4
    <2>3. ASSUME op.at = "lookup", NEW sample \in Samples,
                 NEW k \in [Active(sample) -> BOOLEAN \cup {None}], Lookup(sample, k)
          PROVE  SettledTruly'
      <3>1. Known(k) => held \cap Configured # {}
        BY <2>3, ChainClientAssumption DEF Known, Lookup, Knows
      <3> QED BY <3>1, <2>3 DEF Lookup, Settled, SettledTruly
    <2>4. ASSUME NEW k \in [Fallbacks -> BOOLEAN \cup {None}], FallbackLookup(k)
          PROVE  SettledTruly'
      <3>1. Known(k) => held \cap Configured # {}
        BY <2>4, ChainClientAssumption DEF Known, FallbackLookup, Knows
      <3> QED BY <3>1, <2>4 DEF FallbackLookup, Settled, SettledTruly
    <2>5. CASE Report
      BY <2>5 DEF Report, Idle, SettledTruly
    <2>6. ASSUME NEW p \in Honest, Spread(p) PROVE SettledTruly'
      BY <2>6 DEF Spread, SettledTruly
    <2> QED BY <1>2, <2>1, <2>2, <2>3, <2>4, <2>5, <2>6 DEF Settles
  <1>3. CASE Directory \/ UNCHANGED vars
    BY <1>3 DEF Directory, Listed, BenchEnds, vars, SettledTruly
  <1> QED BY <1>1, <1>2, <1>3 DEF Next

\* What a classification offers is no coinbase, unless an evonode said so.
LEMMA ImmatureStep == TypeOK /\ ImmatureSitsOut /\ [Next]_vars => ImmatureSitsOut'
  <1> SUFFICES ASSUME TypeOK, ImmatureSitsOut, [Next]_vars PROVE ImmatureSitsOut'
    OBVIOUS
  <1>1. CASE UNCHANGED op
    BY <1>1 DEF ImmatureSitsOut
  <1>2. ASSUME NEW sample \in Samples, NEW found \in [LookedUp -> BOOLEAN \cup {None}],
               NEW byEvonode \in SUBSET LookedUp, Classify(sample, found, byEvonode)
        PROVE  ImmatureSitsOut'
    <2>1. op'.coins = Offered(verdicts') /\ op'.at = "offer"
          /\ op'.misled = {t \in Range(Young) : verdicts[t] = (t \notin Coinbases)} \cup byEvonode
      BY <1>2 DEF Classify
    <2>2. ASSUME NEW t \in Offered(verdicts'), t \in Coinbases
          PROVE  t \in op'.misled
      <3>1. t \in Range(Young) /\ verdicts'[t] = FALSE
        BY <2>2 DEF Offered
      <3>2. CASE t \in LookedUp
        <4>1. found[t] = FALSE /\ found[t] \in Finds(t, IF t \in byEvonode THEN sample ELSE {})
          BY <1>2, <3>1, <3>2 DEF Classify
        <4>2. t \in byEvonode
          BY <4>1, <2>2, ChainClientAssumption DEF Finds
        <4> QED BY <4>2, <2>1
      <3>3. CASE t \notin LookedUp
        BY <1>2, <2>1, <2>2, <3>1, <3>3 DEF Classify
      <3> QED BY <3>2, <3>3
    <2> QED BY <2>1, <2>2 DEF ImmatureSitsOut
  <1>3. ASSUME op'.at # "offer" PROVE ImmatureSitsOut'
    BY <1>3 DEF ImmatureSitsOut
  <1>4. CASE Reads
    <2>1. ASSUME NEW s \in Samples, StartRead(s) PROVE op'.at # "offer"
      BY <2>1 DEF StartRead
    <2>2. ASSUME op.at = "heights", NEW h \in Surveys(op.asked), Heights(h) PROVE op'.at # "offer"
      BY <2>2 DEF Heights, Reading, Idle
    <2>3. ASSUME NEW f \in Surveys(Fallbacks), FallbackHeights(f) PROVE op'.at # "offer"
      BY <2>3 DEF FallbackHeights, Reading, Idle
    <2>4. ASSUME Succeeds \/ NobodyLeft \/ Take PROVE op'.at # "offer"
      BY <2>4 DEF Succeeds, NobodyLeft, Take, Idle
    <2>5. ASSUME NEW timeout \in BOOLEAN, Fails(timeout) PROVE op'.at # "offer"
      BY <2>5 DEF Fails, Retried
    <2> QED BY <1>2, <1>3, <1>4, <2>1, <2>2, <2>3, <2>4, <2>5 DEF Reads
  <1>5. CASE Settles
    <2>1. ASSUME NEW s \in Samples, StartBroadcast(s) \/ Rebroadcast(s) PROVE op'.at # "offer"
      BY <2>1 DEF StartBroadcast, Rebroadcast, Round
    <2>2. ASSUME op.at = "relay", NEW a \in Replies(Relays(op.asked)),
                 NEW took \in SUBSET Saying(a, "silent"), Relay(a, took)
          PROVE  op'.at # "offer"
      BY <2>2 DEF Relay, Settled, Unaccepted
    <2>3. ASSUME op.at = "lookup", NEW s \in Samples,
                 NEW k \in [Active(s) -> BOOLEAN \cup {None}], Lookup(s, k)
          PROVE  op'.at # "offer"
      BY <2>3 DEF Lookup, Settled
    <2>4. ASSUME NEW k \in [Fallbacks -> BOOLEAN \cup {None}], FallbackLookup(k)
          PROVE  op'.at # "offer"
      BY <2>4 DEF FallbackLookup, Settled
    <2>5. ASSUME Report PROVE op'.at # "offer"
      BY <2>5 DEF Report, Idle
    <2>6. ASSUME NEW p \in Honest, Spread(p) PROVE UNCHANGED op
      BY <2>6 DEF Spread
    <2> QED BY <1>1, <1>3, <1>5, <2>1, <2>2, <2>3, <2>4, <2>5, <2>6 DEF Settles
  <1>6. CASE Directory \/ UNCHANGED vars
    BY <1>1, <1>6 DEF Directory, Listed, BenchEnds, vars
  <1> QED BY <1>4, <1>5, <1>6 DEF Next

(***************************************************************************)
(* A read goes by the survey it made, and a source that timed out has left *)
(* its queue.                                                              *)
(***************************************************************************)
\* A survey with an answer is what a read goes by.
LEMMA ReadingSurveyed ==
    ASSUME NEW h, Surveyed(h), op' = Reading(h)
    PROVE  Surveying'
  <1>1. CASE tipHeight(h) = None
    BY <1>1 DEF Reading, Idle, Surveying
  <1>2. CASE tipHeight(h) # None
    <2>1. op' = [at |-> "reading", heights |-> h, queue |-> eligible(h), retried |-> FALSE, slow |-> {}]
      BY <1>2 DEF Reading
    <2>2. op'.at = "reading" /\ op'.heights = h /\ op'.queue = eligible(h) /\ op'.slow = {}
      BY <2>1
    <2>3. op'.queue \subseteq eligible(op'.heights) /\ op'.queue \cap op'.slow = {}
      BY <2>2
    <2>4. Surveyed(op'.heights) /\ tipHeight(op'.heights) # None
      BY <2>2, <1>2
    <2> QED BY <2>2, <2>3, <2>4 DEF Surveying
  <1> QED BY <1>1, <1>2

\* The queue's turn, while there is one.
LEMMA InTurnIsQueued ==
    ASSUME Surveying, op.at = "reading", op.queue # {}
    PROVE  InTurn \in op.queue
  <1>1. op.queue \in SUBSET Nat
    <2>1. DOMAIN Primaries \subseteq Nat
      BY ChainClientAssumption
    <2> QED BY <2>1 DEF Surveying, eligible
  <1> QED BY <1>1, Least DEF InTurn

LEMMA SurveyingStep == TypeOK /\ Shape /\ Surveying /\ [Next]_vars => Surveying'
  <1> SUFFICES ASSUME TypeOK, Shape, Surveying, [Next]_vars PROVE Surveying'
    OBVIOUS
  <1> DEFINE surveys == {"heights", "fallbackHeights", "reading", "view"}
  <1>1. ASSUME op'.at \notin surveys PROVE Surveying'
    BY <1>1 DEF Surveying
  <1>2. ASSUME UNCHANGED op PROVE Surveying'
    BY <1>2 DEF Surveying
  <1> HIDE DEF surveys
  <1>3. CASE Reads
    <2>1. ASSUME NEW sample \in Samples, StartRead(sample) PROVE Surveying'
      <3>1. op'.at = "heights" /\ op'.asked = Range(Primaries) \cup sample
        BY <2>1 DEF StartRead, Active
      <3>2. sample \subseteq Evonodes
        BY SamplesAreEvonodes
      <3> QED BY <3>1, <3>2 DEF Surveying
    <2>2. ASSUME op.at = "heights", NEW h \in Surveys(op.asked), Heights(h) PROVE Surveying'
      <3>1. DOMAIN h = op.asked /\ Range(Primaries) \subseteq DOMAIN h
            /\ DOMAIN h \subseteq Range(Primaries) \cup Evonodes
        BY <2>2 DEF Surveying, Surveys
      <3>2. Surveyed(h)
        BY <3>1, <2>2, Sources DEF Surveyed, Asked
      <3>3. CASE Answered(h, Evonodes) # {} \/ Fallbacks = {}
        BY <3>2, <3>3, <2>2, ReadingSurveyed DEF Heights
      <3>4. CASE Answered(h, Evonodes) = {} /\ Fallbacks # {}
        <4>1. op' = [at |-> "fallbackHeights", heights |-> h]
          BY <2>2, <3>4 DEF Heights
        <4>2. op'.at = "fallbackHeights" /\ op'.heights = h
          BY <4>1
        <4> QED BY <4>2, <3>1, <3>2, <3>4 DEF Surveying
      <3> QED BY <3>3, <3>4
    <2>3. ASSUME NEW f \in Surveys(Fallbacks), FallbackHeights(f) PROVE Surveying'
      <3> DEFINE g == op.heights
                 h == [p \in DOMAIN g \cup Fallbacks |-> IF p \in Fallbacks THEN f[p] ELSE g[p]]
      <3>1. Surveyed(g) /\ Answered(g, Evonodes) = {} /\ DOMAIN g \subseteq Range(Primaries) \cup Evonodes
        BY <2>3 DEF FallbackHeights, Surveying
      <3>2. Asked(DOMAIN h)
        BY <3>1, Sources DEF Surveyed, Asked
      <3>3. h \in Surveys(DOMAIN h)
        BY <3>1, <2>3 DEF Surveyed, Surveys
      <3>4. Answered(h, Evonodes) = {}
        <4>1. \A p \in DOMAIN h \cap Evonodes : p \in DOMAIN g /\ h[p] = g[p]
          BY Sources
        <4> HIDE DEF h
        <4> QED BY <4>1, <3>1 DEF Answered
      <3>5. Surveyed(h)
        BY <3>2, <3>3, <3>4 DEF Surveyed
      <3>6. op' = Reading(h)
        BY <2>3 DEF FallbackHeights
      <3> HIDE DEF h
      <3> QED BY <3>5, <3>6, ReadingSurveyed
    <2>4. ASSUME Succeeds PROVE Surveying'
      <3>1. op'.at = "view" /\ op'.heights = op.heights /\ op'.source = Primaries[InTurn]
        BY <2>4 DEF Succeeds
      <3>2. InTurn \in eligible(op.heights) /\ Surveyed(op.heights) /\ tipHeight(op.heights) # None
        BY <2>4, InTurnIsQueued DEF Succeeds, Surveying
      <3> QED BY <3>1, <3>2 DEF Surveying
    <2>5. ASSUME NEW timeout \in BOOLEAN, Fails(timeout) PROVE Surveying'
      <3> DEFINE again == ~op.retried /\ ~timeout
      <3>1. op.at = "reading" /\ op.queue # {} /\ op' = Retried(timeout)
        BY <2>5 DEF Fails
      <3>2. op'.at = "reading" /\ op'.heights = op.heights
        BY <3>1 DEF Retried, Shape
      <3>3. \/ op'.queue = op.queue /\ op'.slow = op.slow
            \/ op'.queue = op.queue \ {InTurn} /\ op'.slow \subseteq op.slow \cup {InTurn}
        BY <3>1 DEF Retried, Shape
      <3>4. op'.queue \subseteq op.queue /\ op'.queue \cap op'.slow = {}
        BY <3>1, <3>3 DEF Surveying
      <3> QED BY <3>1, <3>2, <3>4 DEF Surveying
    <2>6. ASSUME NEW sample \in Samples, NEW found \in [LookedUp -> BOOLEAN \cup {None}],
                 NEW byEvonode \in SUBSET LookedUp, Classify(sample, found, byEvonode)
          PROVE  Surveying'
      BY <2>6, <1>1 DEF Classify, surveys
    <2>7. ASSUME NobodyLeft \/ Take PROVE Surveying'
      BY <2>7, <1>1 DEF NobodyLeft, Take, Idle, surveys
    <2> QED BY <1>3, <2>1, <2>2, <2>3, <2>4, <2>5, <2>6, <2>7 DEF Reads
  <1>4. CASE Settles
    <2>1. ASSUME NEW s \in Samples, StartBroadcast(s) \/ Rebroadcast(s) PROVE op'.at \notin surveys
      BY <2>1 DEF StartBroadcast, Rebroadcast, Round, surveys
    <2>2. ASSUME op.at = "relay", NEW a \in Replies(Relays(op.asked)),
                 NEW took \in SUBSET Saying(a, "silent"), Relay(a, took)
          PROVE  op'.at \notin surveys
      BY <2>2 DEF Relay, Settled, Unaccepted, surveys
    <2>3. ASSUME op.at = "lookup", NEW s \in Samples,
                 NEW k \in [Active(s) -> BOOLEAN \cup {None}], Lookup(s, k)
          PROVE  op'.at \notin surveys
      BY <2>3 DEF Lookup, Settled, surveys
    <2>4. ASSUME NEW k \in [Fallbacks -> BOOLEAN \cup {None}], FallbackLookup(k)
          PROVE  op'.at \notin surveys
      BY <2>4 DEF FallbackLookup, Settled, surveys
    <2>5. ASSUME Report PROVE op'.at \notin surveys
      BY <2>5 DEF Report, Idle, surveys
    <2>6. ASSUME NEW p \in Honest, Spread(p) PROVE UNCHANGED op
      BY <2>6 DEF Spread
    <2> QED BY <1>1, <1>2, <1>4, <2>1, <2>2, <2>3, <2>4, <2>5, <2>6 DEF Settles
  <1>5. CASE Directory \/ UNCHANGED vars
    BY <1>2, <1>5 DEF Directory, Listed, BenchEnds, vars
  <1> QED BY <1>3, <1>4, <1>5 DEF Next

-----------------------------------------------------------------------------
(***************************************************************************)
(* The theorems.                                                           *)
(***************************************************************************)
IInv == TypeOK /\ OpAt /\ Shape /\ Unsent /\ Surveying /\ SettledTruly /\ ImmatureSitsOut

LEMMA Invariance == Spec => []IInv
  <1>1. Init => IInv
    <2>1. Init => SettledTruly /\ ImmatureSitsOut
      BY DEF Init, Idle, SettledTruly, ImmatureSitsOut
    <2> QED BY <2>1, InitInv DEF IInv
  <1>2. IInv /\ [Next]_vars => IInv'
    BY TypeStep, ShapeStep, UnsentStep, SurveyingStep, SettledStep, ImmatureStep DEF IInv
  <1> QED BY <1>1, <1>2, PTL DEF Spec

(***************************************************************************)
(* The directory's list is never empty nor a handful, whatever its sources *)
(* list and whoever is benched, so that there is always a sample to draw   *)
(* (EvonodeDirectory.discover and sample).                                 *)
(***************************************************************************)
THEOREM TypeCorrect == Spec => []TypeOK
  <1>1. IInv => TypeOK
    BY DEF IInv
  <1> QED BY <1>1, Invariance, PTL

(***************************************************************************)
(* One lying evonode does not keep a current primary from being read,      *)
(* whoever else answers (tipHeight and getUtxos).                          *)
(***************************************************************************)
THEOREM LoneLieHarmlessHolds == Spec => []LoneLieHarmless
  <1>1. IInv => LoneLieHarmless
    BY CurrentIsEligible DEF IInv, Surveying, LoneLieHarmless
  <1> QED BY <1>1, Invariance, PTL

(***************************************************************************)
(* Coins are read from a source that lags no configured provider and no    *)
(* height most of the evonodes reached, and never a second time from one   *)
(* that timed out (getUtxos).                                              *)
(***************************************************************************)
THEOREM ReadsSoundlyHolds == Spec => []ReadsSoundly
  <1>1. IInv => ReadsSoundly
    <2> SUFFICES ASSUME IInv PROVE ReadsSoundly
      OBVIOUS
    <2>1. op.at = "view" => NoStaleRead(op.heights, op.source)
      BY EligibleIsCurrent DEF IInv, Surveying
    <2>2. op.at = "reading" /\ op.queue # {} => InTurn \notin op.slow
      BY InTurnIsQueued DEF IInv, Surveying
    <2> QED BY <2>1, <2>2 DEF ReadsSoundly
  <1> QED BY <1>1, Invariance, PTL

(***************************************************************************)
(* A coinbase is offered for spending only on an evonode's word            *)
(* (immatureTxids and isCoinbase).                                         *)
(***************************************************************************)
THEOREM ImmatureSitsOutHolds == Spec => []ImmatureSitsOut
  <1>1. IInv => ImmatureSitsOut
    BY DEF IInv
  <1> QED BY <1>1, Invariance, PTL

(***************************************************************************)
(* Whatever the evonodes say, a broadcast settled as made is on a          *)
(* configured provider, and one settled as refused on no truthful node     *)
(* (broadcast, relay, anyKnowsTx and settleBroadcast).                     *)
(***************************************************************************)
THEOREM SettledTrulyHolds == Spec => []SettledTruly
  <1>1. IInv => SettledTruly
    BY DEF IInv
  <1> QED BY <1>1, Invariance, PTL
=============================================================================
