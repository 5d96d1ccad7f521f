---------------------------- MODULE BundleRanges ----------------------------
(***************************************************************************)
(* The block ranges of a root bundle, src/utils/BundleUtils.ts.  A bundle  *)
(* names the block it ends at on every chain and not where it starts: the  *)
(* start is implied by the last bundle executed before the proposal, and   *)
(* by the chains that the config store has enabled then.  The questions    *)
(* are asked of a HubPoolClient that is being updated, and of any of the   *)
(* configurations that the config store may hold.                          *)
(* A definition X_Variant is a deliberately wrong form of X.               *)
(***************************************************************************)
EXTENDS HubPoolClient

CONSTANT
  Configs   \* what the config store client may answer: the list of chains
            \* as of a block, and the chains enabled at a block

(* The list of chains only grows, see ChainIdsOnlyGrow of ConfigStoreClient.*)
ASSUME ConfigAssumption ==
  /\ \A config \in Configs :
       /\ DOMAIN config.chainIds = Blocks
       /\ \A b \in Blocks : config.chainIds[b] \in Seq(Chains)
       /\ \A b \in Blocks : IsPrefix(config.chainIds[b], ChainIdList)
       /\ \A b, d \in Blocks : b <= d => Len(config.chainIds[b]) <= Len(config.chainIds[d])
       /\ \A b \in DOMAIN config.enabled : b \in Nat /\ config.enabled[b] \subseteq Chains
  /\ None \notin Seq(Nat \X Nat)

(* getBlockForChain and getBlockRangeForChain: the entry of a chain, by    *)
(* its place in the list of chains; None where they throw.                 *)
EntryForChain(entries, c, chainIds) ==
  LET i == SelectInSeq(chainIds, LAMBDA d : d = c)
  IN IF i \in DOMAIN entries THEN entries[i] ELSE None
BlockForChain(ends, c, chainIds) == EntryForChain(ends, c, chainIds)
BlockRangeForChain(ranges, c, chainIds) == EntryForChain(ranges, c, chainIds)

(* The bundle that the ranges of p go on from.                             *)
PreviousBundle_Proposed(p) ==
  Latest({q \in ToSet(proposedRootBundles) : log[q].block < log[p].block})
PreviousBundle(p) == LatestFullyExecutedRootBundle(log[p].block)

(* The mainnet block as of which a chain is enabled or not.                *)
MainnetStartBlock(p) ==
  LET q == PreviousBundle(p) IN IF q = None THEN 0 ELSE log[q].ends[1]

IsEnabledAt(i, p, block, config) ==
  LET chainIds == config.chainIds[log[p].block]
  IN i \in DOMAIN chainIds /\ chainIds[i] \in config.enabled[block]
IsEnabled(i, p, config) == IsEnabledAt(i, p, MainnetStartBlock(p), config)

FromBlockOf(i, p) ==
  LET q == PreviousBundle(p)
  IN IF q # None /\ i \in DOMAIN log[q].ends THEN log[q].ends[i] + 1 ELSE 0

ImpliedRange(i, p, config) ==
  IF IsEnabled(i, p, config)
    THEN <<FromBlockOf(i, p), log[p].ends[i]>>
    ELSE <<log[p].ends[i], log[p].ends[i]>>

(* getImpliedBundleBlockRanges; None where it throws: an end block is too  *)
(* large for a number, or an enabled chain's range has one block or none.  *)
ImpliedBundleBlockRanges(p, config) ==
  LET ranges == [i \in DOMAIN log[p].ends |-> ImpliedRange(i, p, config)]
  IN IF Acceptable(p) /\ \A i \in DOMAIN ranges :
          IsEnabled(i, p, config) => ranges[i][1] < ranges[i][2]
       THEN ranges ELSE None

-----------------------------------------------------------------------------

(* A bundle as the chain's own history would have it: every chain enabled  *)
(* when the last executed bundle ended moves on by two blocks or more, and *)
(* every other chain stays where it was.                                   *)
AsAgreed(p, config) ==
  LET before == {q \in ExecutedInMemory(latestBlockSearched) : q < p}
      ends == IF before = {} THEN <<>> ELSE log[Max(before)].ends
      chainIds == config.chainIds[log[p].block]
  IN \A i \in DOMAIN log[p].ends :
       LET end == log[p].ends[i] IN
       IF i \in DOMAIN chainIds
            /\ chainIds[i] \in config.enabled[IF ends = <<>> THEN 0 ELSE ends[1]]
         THEN i \in DOMAIN ends => end > ends[i] + 1
         ELSE i \in DOMAIN ends /\ end = ends[i]

(* The executed bundles that have a chain, and those among them that had   *)
(* it enabled and whose range of it holds block n.                         *)
Having(c) ==
  {p \in ExecutedInMemory(latestBlockSearched) :
     BlockForChain(log[p].ends, c, ChainIdList) # None}
RangeOf(p, c, config) ==
  BlockRangeForChain(ImpliedBundleBlockRanges(p, config), c, config.chainIds[log[p].block])
InRange(range, n) == range[1] < range[2] /\ range[1] <= n /\ n <= range[2]
Covering(c, n, config) == {q \in Having(c) : InRange(RangeOf(q, c, config), n)}

(* The ranges of the bundles that were executed tile every chain: up to    *)
(* its last end block, each block is in exactly one bundle that had the    *)
(* chain enabled, whatever was disputed, cancelled, pending or added in    *)
(* between, and no range is refused.                                       *)
ImpliedRangesTile ==
  \A config \in Configs :
    (\A p \in ExecutedInMemory(latestBlockSearched) : AsAgreed(p, config)) =>
      /\ \A p \in ExecutedInMemory(latestBlockSearched) :
           ImpliedBundleBlockRanges(p, config) # None
      /\ \A c \in Chains : \A p \in Having(c) :
           \A n \in 0..BlockForChain(log[p].ends, c, ChainIdList) :
             Cardinality(Covering(c, n, config)) = 1

=============================================================================
