--------------------------- MODULE MCLpFeeQuotes ---------------------------
(* Values for model-checking LpFeeQuotes.                                  *)
EXTENDS LpFeeQuotes, TLC

(* The first order of (1 + apy)^(1/52) - 1.                                *)
MCWeeklyFee(apy) == apy \div 52

(* One token changes hands, the other may be listed late or never.         *)
MCRouteHistories ==
  {[bridged |-> [b \in Blocks |-> IF b < 3 THEN "weth" ELSE "usdc"],
    plain |-> [b \in Blocks |-> IF b < since THEN None ELSE "usdc"]] : since \in {3, 9}}

Kinked == [UBar |-> 500, R0 |-> 300, R1 |-> 200, R2 |-> 100]
Flat == [UBar |-> 0, R0 |-> 100, R1 |-> 0, R2 |-> 900]
MCRateModelAt ==
  [weth |-> [b \in Blocks |-> Kinked],
   usdc |-> [b \in Blocks |-> IF b = 1 THEN None ELSE IF b = 2 THEN Flat ELSE Kinked]]
MCUtilizationAt ==
  [weth |-> [b \in Blocks |-> 350 + 50 * b], usdc |-> [b \in Blocks |-> 800 - 100 * b]]

(* A quote of the past, of the block to come and of after it.              *)
D(token, t, amount, p) ==
  [inputToken |-> token, quoteTimestamp |-> t, inputAmount |-> amount, paid |-> p]
MCBatches ==
  {<<D("bridged", 2, 20, TRUE), D("bridged", 3, 20, TRUE)>>,
   <<D("bridged", 3, 10, TRUE), D("plain", 2, 20, FALSE)>>,
   <<D("plain", 4, 20, TRUE), D("plain", 4, 30, TRUE)>>}

QuoterSymmetry == Permutations(Quoters)

=============================================================================
