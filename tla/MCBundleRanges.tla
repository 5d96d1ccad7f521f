--------------------------- MODULE MCBundleRanges ---------------------------
(* Values for model-checking HubPoolClient and BundleRanges.               *)
EXTENDS BundleRanges

MCChainIdList == <<1, 10>>

(* Bundles before and after the second chain is added, and end blocks      *)
(* beyond what a number can hold.                                          *)
MCBundleForms ==
  {[leaves |-> 1, ends |-> <<1>>], [leaves |-> 2, ends |-> <<3, 2>>],
   [leaves |-> 1, ends |-> <<5, 2>>], [leaves |-> 1, ends |-> <<5, 999>>]}

(* One dispute or cancellation is as good as another, and token listings   *)
(* do not mix with bundles.                                                *)
Scenario(kinds, events, last, ends, f, t) ==
  [kinds |-> kinds, events |-> events, last |-> last, toBlocks |-> ends,
   failures |-> f, throws |-> t]
MCScenarios ==
  {Scenario({"ProposeRootBundle", "RootBundleExecuted", "RootBundleDisputed"}, 5, 4, {}, 0, 0),
   Scenario({"ProposeRootBundle", "RootBundleCanceled"}, 3, 5, {}, 0, 1),
   Scenario({"SetPoolRebalanceRoute"}, 3, 3, {2}, 1, 1),
   Scenario({"CrossChainContractsSet", "L1TokenEnabledForLiquidityProvision"}, 3, 3, {2}, 1, 1)}

(* Both chains enabled for good, or the second one up to a mainnet block.  *)
DisabledAfter(last) ==
  [chainIds |-> [b \in Blocks |-> MCChainIdList],
   enabled |-> [b \in 0..5 |-> IF b <= last THEN Chains ELSE {1}]]
LateListing ==
  [chainIds |-> [b \in Blocks |-> IF b <= 2 THEN <<1>> ELSE MCChainIdList],
   enabled |-> [b \in 0..5 |-> Chains]]
MCConfigs == {DisabledAfter(5), DisabledAfter(2), LateListing}

Symmetry == Permutations(L2Tokens) \cup Permutations(SpokePools)

=============================================================================
