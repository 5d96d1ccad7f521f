------------------------ MODULE MCConfigStoreClient ------------------------
(* Values for model-checking ConfigStoreClient.                            *)
EXTENDS ConfigStoreClient

MCBlockTime(b) == 12 * b
MCDefaultChainIds == <<1, 10>>

(* Lists that go on from the default one and from each other, one that     *)
(* does not, a repeated chain, and values that are no list.                *)
MCGlobalValues ==
  "CHAIN_ID_INDICES" :> {<<1, 10, 137>>, <<10, 1, 137>>, <<1, 10, 137, 42161>>, <<1, 10, 10>>, NotAList}
    @@ "DISABLED_CHAINS" :> {<<>>, <<1, 10>>, <<137>>, NotAList}
    @@ "LITE_CHAIN_ID_INDICES" :> {<<10>>, <<0>>, NotAList, LeadingZero}
    @@ "VERSION" :> {1, 2, 3, NotANumber}
    @@ "MAX_RELAYER_REPAYMENT_LEAF_SIZE" :> {1, NotANumber}

TokenConfig(m, t, r) ==
  [rateModel |-> m, targets |-> t, routes |-> r]
MCTokenConfigs ==
  {NotJson, TokenConfig(None, None, None),
   TokenConfig("low", None, None), TokenConfig("high", "some", None),
   TokenConfig("low", "some", [route |-> "1-10", model |-> "own"]),
   TokenConfig("high", NotANumber, [route |-> "1-10", model |-> "bad"])}

Mixes ==
  {{"CHAIN_ID_INDICES"}, {"DISABLED_CHAINS"}, {"VERSION"}} \X {3}
    \cup {{"CHAIN_ID_INDICES", "LITE_CHAIN_ID_INDICES"}, {"CHAIN_ID_INDICES", "DISABLED_CHAINS"},
          {"VERSION", "LITE_CHAIN_ID_INDICES", "MAX_RELAYER_REPAYMENT_LEAF_SIZE"},
          {"rateModel", "LITE_CHAIN_ID_INDICES"}} \X {2}

MCScenarios == [keys \in {m[1] : m \in Mixes} |-> (CHOOSE m \in Mixes : m[1] = keys)[2]]

CallerSymmetry == Permutations(Callers)

=============================================================================
