--------------------------- MODULE CoinSelection ---------------------------
(***************************************************************************)
(* Which coins a transaction of the faucet spends (src/src/tx.ts), and what*)
(* the choice is supposed to achieve, over every choice there is.          *)
(*                                                                         *)
(* A wallet w is a sequence of coins, largest first, so a coin is its      *)
(* position and "largest" is "lowest".  Among equal coins the source takes *)
(* them as the view lists them; the order among equal coins is fixed here. *)
(* The worst-case fee is rate per input: the size of the outputs and of the*)
(* envelope is left out.                                                   *)
(***************************************************************************)
EXTENDS Integers, Sequences, FiniteSets, FiniteSetsExt

Coins(w) == DOMAIN w
Confirmed(w) == {i \in Coins(w) : w[i].confirmed}
SumOf(w, S) ==
    LET upTo[i \in 0 .. Len(w)] ==
            IF i = 0 THEN 0 ELSE upTo[i - 1] + (IF i \in S THEN w[i].sats ELSE 0)
    IN  upTo[Len(w)]

Largest(S, k) == {i \in S : Cardinality({j \in S : j < i}) < k}
Smallest(S, k) == {i \in S : Cardinality({j \in S : j > i}) < k}

feeCeiling(inputs, rate) == inputs * rate

Covers(w, S, target, rate) == SumOf(w, S) >= target + feeCeiling(Cardinality(S), rate)

-----------------------------------------------------------------------------
(***************************************************************************)
(* selectInputs: the smallest coin that covers the target alone, or the    *)
(* fewest of the largest confirmed ones.                                   *)
(***************************************************************************)
Prefixed(w, S, target, rate) ==
    {k \in 1 .. Cardinality(S) : Covers(w, Largest(S, k), target, rate)}

\* Deviation: coins still confirming are joined with the others.
selectAnyInputs(w, offered, target, rate) ==
    LET alone == {i \in offered : Covers(w, {i}, target, rate)}
        counts == Prefixed(w, offered, target, rate)
    IN  IF alone # {} THEN [outcome |-> "ok", inputs |-> {Max(alone)}]
        ELSE IF counts # {} THEN [outcome |-> "ok", inputs |-> Largest(offered, Min(counts))]
        ELSE [outcome |-> "insufficient", inputs |-> {}]

selectInputs(w, offered, target, rate) ==
    LET alone == {i \in offered : Covers(w, {i}, target, rate)}
        confirmed == offered \cap Confirmed(w)
        counts == Prefixed(w, confirmed, target, rate)
    IN  IF alone # {} THEN [outcome |-> "ok", inputs |-> {Max(alone)}]
        ELSE IF counts # {} THEN [outcome |-> "ok", inputs |-> Largest(confirmed, Min(counts))]
        ELSE IF Prefixed(w, offered, target, rate) # {}
             THEN [outcome |-> "unconfirmed", inputs |-> {}]
        ELSE [outcome |-> "insufficient", inputs |-> {}]

(***************************************************************************)
(* selectMergeInputs: the fewest largest coins that still reach the target,*)
(* the other slots given to the smallest.                                  *)
(***************************************************************************)
selectMergeInputs(w, coins, target, maxInputs, rate) ==
    LET size == Min({maxInputs, Cardinality(coins)})
        Mix(j) == Largest(coins, j) \cup Smallest(coins, size - j)
        reaching == {j \in 0 .. size : Covers(w, Mix(j), target, rate)}
    IN  [inputs |-> IF reaching = {} THEN Largest(coins, size) ELSE Mix(Min(reaching)),
         reaches |-> reaching # {}]

-----------------------------------------------------------------------------
(***************************************************************************)
(* The reference.                                                          *)
(***************************************************************************)
\* A payout spends as few coins as any choice of confirmed coins could, a coin
\* still confirming only on its own, and it is refused only when none covers it.
PayoutChoiceIsBest(w, offered, target, rate) ==
    LET choice == selectInputs(w, offered, target, rate)
        Fits(S) == S # {} /\ Covers(w, S, target, rate)
        settled == SUBSET (offered \cap Confirmed(w))
    IN  CASE choice.outcome = "ok" ->
                /\ Fits(choice.inputs) /\ choice.inputs \subseteq offered
                /\ choice.inputs \in settled \/ Cardinality(choice.inputs) = 1
                /\ \A S \in settled : Fits(S) => Cardinality(S) >= Cardinality(choice.inputs)
                /\ \A i \in offered, c \in choice.inputs :
                        Fits({i}) => Fits({c}) /\ w[c].sats <= w[i].sats
          [] choice.outcome = "unconfirmed" ->
                /\ \A S \in settled : ~Fits(S)
                /\ \E S \in SUBSET offered : Fits(S)
          [] choice.outcome = "insufficient" -> \A S \in SUBSET offered : ~Fits(S)

\* A merge reaches its target whenever that many coins can, and then no choice
\* that reaches it takes along more of the smallest coins.
MergeChoiceIsBest(w, coins, target, maxInputs, rate) ==
    LET choice == selectMergeInputs(w, coins, target, maxInputs, rate)
        size == Min({maxInputs, Cardinality(coins)})
        Swept(S) == Max({k \in 0 .. size : Smallest(coins, k) \subseteq S})
        reaching == {S \in kSubset(size, coins) : Covers(w, S, target, rate)}
    IN  /\ choice.inputs \in kSubset(size, coins)
        /\ choice.reaches <=> reaching # {}
        /\ choice.reaches =>
            /\ choice.inputs \in reaching
            /\ \A S \in reaching : Swept(S) <= Swept(choice.inputs)
        /\ ~choice.reaches => SumOf(w, choice.inputs) >= Max({SumOf(w, S) : S \in kSubset(size, coins)})
=============================================================================
