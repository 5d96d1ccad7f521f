--------------------------- MODULE HubPoolClient ---------------------------
(***************************************************************************)
(* The HubPoolClient of src/clients/HubPoolClient.ts: an in-memory copy of *)
(* the HubPool's events, and the questions the SDK asks of it.  Which root *)
(* bundles were executed is not recorded by the contract: the client tells *)
(* it from the order of proposals and leaf executions, block by block.     *)
(*                                                                         *)
(* The chain is a log of events; an event is named by its position in it.  *)
(* Queries return, page by page, the events of a window in that order.     *)
(* Events after the head are in a block that is not mined yet.  update()   *)
(* is called with its default argument, all events, and once at a time, as *)
(* everywhere in the SDK.  A call before the config store client's own     *)
(* update throws at once: it is no step.  Of the configuration, no block   *)
(* is ignored.  A definition X_Variant is a deliberately wrong form of X.  *)
(***************************************************************************)
EXTENDS Integers, SequencesExt

CONSTANTS
  DeploymentBlock,    \* block the HubPool was deployed in
  FromBlock,          \* eventSearchConfig.fromBlock
  ChainIdList,        \* the config store's list of chains, as a sequence
  BundleForms,        \* the leaf counts and end blocks of proposals
  L1Tokens, L2Tokens, SpokePools,
  UnsupportedTokens,  \* L1 tokens whose decimals are not in 1..18
  ReproposeInBlock,   \* may a bundle be proposed in the block of a dispute?
  None,               \* undefined, or a query that throws
  MaxSafeInteger,     \* what BigNumber.toNumber() can represent
  (* Bounds of the model. *)
  Scenarios,          \* the kinds of event that a log may mix, how many of them up to
                      \* which block, the blocks that callers give to toBlock, the
                      \* requests that are rejected, and the failures until an update
                      \* that must throw is given up
  LastBlock           \* number of blocks

Chains == ToSet(ChainIdList)

ASSUME BlockAssumption ==
  /\ DeploymentBlock \in Nat /\ FromBlock \in Nat /\ LastBlock \in Nat
  /\ DeploymentBlock <= FromBlock /\ FromBlock <= LastBlock
  /\ None \notin Nat
ASSUME ChainIdAssumption == ChainIdList \in Seq(Nat \ {0}) /\ IsInjective(ChainIdList)
ASSUME BundleAssumption ==
  /\ BundleForms \subseteq [leaves : Nat \ {0}, ends : Seq(Nat \ {0})]
  /\ ReproposeInBlock \in BOOLEAN /\ MaxSafeInteger \in Nat
  /\ None \notin [proposalBlockNumber : Nat, unclaimedPoolRebalanceLeafCount : Nat,
                   ends : Seq(Nat)]
ASSUME TokenAssumption ==
  UnsupportedTokens \subseteq L1Tokens /\ None \notin L1Tokens \cup L2Tokens \cup SpokePools
ASSUME BoundAssumption ==
  Scenarios \subseteq [kinds : SUBSET STRING, events : Nat, last : 0..LastBlock, toBlocks : SUBSET Nat,
                       failures : Nat, throws : Nat]

VARIABLES
  scenario,                             \* the one that is followed
  log, head,                            \* the chain
  firstBlockToSearch, latestBlockSearched, isUpdated, toBlock,
  proposedRootBundles, executedRootBundles, disputedRootBundles, canceledRootBundles,
  pendingRootBundle,
  crossChainContracts,                  \* the lists of all chains as one
  l1TokensToDestinationTokensWithBlock, \* the lists of all routes as one
  l1Tokens, lpTokens,
  update,                               \* where the call of update() stands
  failures                              \* spent bound

chain == <<scenario, log, head>>
window == <<firstBlockToSearch, latestBlockSearched, isUpdated>>
bundles == <<proposedRootBundles, executedRootBundles, disputedRootBundles,
             canceledRootBundles, pendingRootBundle>>
registry == <<crossChainContracts, l1TokensToDestinationTokensWithBlock>>
tokens == <<l1Tokens, lpTokens>>
client == <<window, bundles, registry, tokens>>
vars == <<chain, client, toBlock, update, failures>>

Blocks == 0..LastBlock
NoUpdate == [stage |-> "idle"]

-----------------------------------------------------------------------------
(* The HubPool contract.                                                   *)

EventsOf(name) == {p \in DOMAIN log : log[p].name = name}
UpTo(ps, b) == {p \in ps : log[p].block <= b}
Proposals == EventsOf("ProposeRootBundle")

(* What became of the proposal p.                                          *)
OutcomesOf(name, p) == {q \in EventsOf(name) : log[q].bundle = p}
LeavesOf(p) == OutcomesOf("RootBundleExecuted", p)
ClosersOf(p) == OutcomesOf("RootBundleDisputed", p) \cup OutcomesOf("RootBundleCanceled", p)

(* rootBundleProposal() as of block b, and its unclaimed leaf count.       *)
CurrentProposal(b) == LET ps == UpTo(Proposals, b) IN IF ps = {} THEN None ELSE Max(ps)
UnclaimedLeaves(b) ==
  LET p == CurrentProposal(b) IN
  IF p = None THEN 0
  ELSE IF UpTo(ClosersOf(p), b) # {} THEN 0
  ELSE log[p].leaves - Cardinality(UpTo(LeavesOf(p), b))

ExecutedBundles(b) ==
  {p \in Proposals : Cardinality(UpTo(LeavesOf(p), b)) = log[p].leaves}

(* A bundle whose end blocks go back, drop a chain or overflow is disputed *)
(* before its leaves can be executed.                                      *)
Acceptable(p) ==
  \A i \in 1..Len(log[p].ends) : log[p].ends[i] <= MaxSafeInteger
GoesOnFrom(q, p) ==
  /\ Len(log[q].ends) <= Len(log[p].ends)
  /\ \A i \in 1..Len(log[q].ends) : log[q].ends[i] <= log[p].ends[i]

NextBlock == head + 1
Unclaimed == UnclaimedLeaves(NextBlock)
Current == CurrentProposal(NextBlock)

Propose ==
  {[name |-> "ProposeRootBundle", block |-> NextBlock,
    leaves |-> form.leaves, ends |-> form.ends] : form \in BundleForms}
CanPropose ==
  /\ Unclaimed = 0
  /\ ReproposeInBlock \/ \A p \in Proposals : log[p].block < NextBlock

(* Leaves are executed after the challenge period, so in a later block.    *)
CanExecute ==
  /\ Unclaimed > 0
  /\ log[Current].block < NextBlock
  /\ Acceptable(Current)
  /\ \A q \in ExecutedBundles(NextBlock) : GoesOnFrom(q, Current)

(* Disputes and cancellations end with the challenge period.               *)
CanDispute == Unclaimed > 0 /\ LeavesOf(Current) = {}

SetRoute ==
  [name : {"SetPoolRebalanceRoute"}, block : {NextBlock}, l1Token : L1Tokens, chain : Chains, l2Token : L2Tokens]
SetSpokePool ==
  [name : {"CrossChainContractsSet"}, block : {NextBlock}, chain : Chains, spokePool : SpokePools]
EnableToken ==
  [name : {"L1TokenEnabledForLiquidityProvision"}, block : {NextBlock}, l1Token : L1Tokens]

Outcome(names) == [name : names, block : {NextBlock}, bundle : {Current}]

Possible ==
  UNION {IF CanPropose THEN Propose ELSE {},
         IF CanExecute THEN Outcome({"RootBundleExecuted"}) ELSE {},
         IF CanDispute THEN Outcome({"RootBundleDisputed", "RootBundleCanceled"}) ELSE {},
         SetRoute, SetSpokePool, EnableToken}

Found(name, from, to) ==
  {p \in EventsOf(name) : from <= log[p].block /\ log[p].block <= to}
InOrder(ps) ==
  [i \in 1..Cardinality(ps) |-> CHOOSE p \in ps : Cardinality({q \in ps : q <= p}) = i]

-----------------------------------------------------------------------------
(* The questions asked of the memory.  A query that throws, or returns     *)
(* undefined, returns None.                                                *)

HeldAs(list, Test(_)) == {p \in ToSet(list) : Test(log[p])}
Latest(ps) == IF ps = {} THEN None ELSE Max(ps)

(* getSpokePoolForBlock and getSpokePoolActivationBlock.                   *)
SpokePoolForBlock(c, b) ==
  LET p == Latest(HeldAs(crossChainContracts, LAMBDA e : e.chain = c /\ e.block <= b))
  IN IF p = None THEN None ELSE log[p].spokePool

SpokePoolActivationBlock(c, spokePool) ==
  LET i == SelectInSeq(crossChainContracts,
             LAMBDA p : log[p].chain = c /\ log[p].spokePool = spokePool)
  IN IF i = 0 THEN None ELSE log[crossChainContracts[i]].block

(* getL2TokenForL1TokenAtBlock and getL1TokenForL2TokenAtBlock.            *)
L2TokenForL1TokenAtBlock(l1, c, b) ==
  LET p == Latest(HeldAs(l1TokensToDestinationTokensWithBlock,
             LAMBDA e : e.l1Token = l1 /\ e.chain = c /\ e.block <= b))
  IN IF p = None THEN None ELSE log[p].l2Token

L1TokenForL2TokenAtBlock(l2, c, b) ==
  LET p == Latest(HeldAs(l1TokensToDestinationTokensWithBlock,
             LAMBDA e : e.l2Token = l2 /\ e.chain = c /\ e.block <= b))
  IN IF p = None THEN None ELSE log[p].l1Token

(* areTokensEquivalent.                                                    *)
TokensEquivalent_OneWay(l2A, cA, l2B, cB, b) ==
  LET l1A == L1TokenForL2TokenAtBlock(l2A, cA, b)
      l1B == L1TokenForL2TokenAtBlock(l2B, cB, b)
  IN l1A # None /\ l1A = l1B
TokensEquivalent(l2A, cA, l2B, cB, b) ==
  LET l1A == L1TokenForL2TokenAtBlock(l2A, cA, b)
      l1B == L1TokenForL2TokenAtBlock(l2B, cB, b)
  IN /\ l1A # None /\ l1A = l1B
     /\ L2TokenForL1TokenAtBlock(l1A, cA, b) = l2A
     /\ L2TokenForL1TokenAtBlock(l1B, cB, b) = l2B

(* getFollowingRootBundle: the one after the last of the same block.       *)
FollowingRootBundle(p) ==
  LET i == SelectLastInSeq(proposedRootBundles, LAMBDA q : log[q].block = log[p].block)
  IN IF i \in {0, Len(proposedRootBundles)} THEN None ELSE proposedRootBundles[i + 1]

(* getExecutedLeavesForRootBundle: the places in the list that it filters. *)
ExecutedLeavesForRootBundle_SameBlock(p, b) ==
  {i \in DOMAIN executedRootBundles :
     LET q == executedRootBundles[i] IN log[p].block <= log[q].block /\ log[q].block <= b}
ExecutedLeavesForRootBundle(p, b) ==
  {i \in DOMAIN executedRootBundles :
     LET q == executedRootBundles[i] IN log[p].block < log[q].block /\ log[q].block <= b}

IsRootBundleValid_ToLatest(p, latest) ==
  Cardinality(ExecutedLeavesForRootBundle(p, latest)) = log[p].leaves
IsRootBundleValid(p, latest) ==
  LET next == FollowingRootBundle(p)
      end == IF next = None THEN latest ELSE Min({log[next].block, latest})
  IN Cardinality(ExecutedLeavesForRootBundle(p, end)) = log[p].leaves

(* getLatestFullyExecutedRootBundle and getEarliestFullyExecutedRootBundle.*)
LatestFullyExecutedRootBundle(latest) ==
  LET i == SelectLastInSeq(proposedRootBundles,
             LAMBDA p : log[p].block <= latest /\ IsRootBundleValid(p, latest))
  IN IF i = 0 THEN None ELSE proposedRootBundles[i]

EarliestFullyExecutedRootBundle(latest, start) ==
  LET i == SelectInSeq(proposedRootBundles,
             LAMBDA p : /\ start <= log[p].block /\ log[p].block <= latest
                        /\ IsRootBundleValid(p, latest))
  IN IF i = 0 THEN None ELSE proposedRootBundles[i]

BlockOf(p) == IF p = None THEN 0 ELSE log[p].block

(* getNthFullyExecutedRootBundle(n) and (-n) for n > 0: the bundle that n  *)
(* steps of the loop end on.                                               *)
StartAfter(p) == Min({BlockOf(p) + 1, latestBlockSearched})
NthEarliestFullyExecuted(n) ==
  LET at[k \in 0..n] ==
        IF k = 0 THEN [bundle |-> None, start |-> 0]
        ELSE LET p == EarliestFullyExecutedRootBundle(latestBlockSearched, at[k - 1].start)
             IN [bundle |-> p, start |-> StartAfter(p)]
  IN at[n].bundle

NthLatestFullyExecuted(n) ==
  LET at[k \in 0..n] ==
        IF k = 0 THEN [bundle |-> None, latest |-> latestBlockSearched]
        ELSE LET p == LatestFullyExecutedRootBundle(at[k - 1].latest)
             IN [bundle |-> p, latest |-> Max({0, BlockOf(p) - 1})]
  IN at[n].bundle

(* getBundleEndBlockForChain: 0 for a chain the bundle does not have.      *)
BundleEndBlockForChain(p, c) ==
  LET i == SelectInSeq(ChainIdList, LAMBDA d : d = c)
  IN IF i = 0 \/ i > Len(log[p].ends) THEN 0 ELSE log[p].ends[i]

LatestBundleEndBlockForChain(latest, c) ==
  LET p == LatestFullyExecutedRootBundle(latest)
  IN IF p = None THEN 0 ELSE BundleEndBlockForChain(p, c)

NextBundleStartBlockNumber(latest, c) ==
  LET end == LatestBundleEndBlockForChain(latest, c) IN IF end > 0 THEN end + 1 ELSE 0

(* getRootBundleEvalBlockNumberContainingBlock: from the newest bundle to  *)
(* the oldest, the last end block before one that is below "block".        *)
EndIsOver_Reached(end, block) == end <= block
EndIsOver(end, block) == end < block
ValidThen(p, latest) ==
  LET next == FollowingRootBundle(p)
  IN IsRootBundleValid(p, IF next = None THEN latest ELSE log[next].block)
LowerEnd(found, end, block) ==
  IF EndIsOver(end, block) THEN [found EXCEPT !.stop = TRUE]
  ELSE [stop |-> end = block, end |-> end]
RootBundleEvalBlockNumberContainingBlock(latest, block, c) ==
  LET n == Len(proposedRootBundles)
      found[k \in 0..n] ==
        IF k = 0 THEN [stop |-> FALSE, end |-> None]
        ELSE LET before == found[k - 1]
                 p == proposedRootBundles[n + 1 - k]
             IN IF before.stop \/ ~ValidThen(p, latest) THEN before
                ELSE LowerEnd(before, BundleEndBlockForChain(p, c), block)
  IN found[n].end

-----------------------------------------------------------------------------

Init ==
  /\ scenario \in Scenarios
  /\ log = <<>> /\ head = DeploymentBlock
  /\ firstBlockToSearch = FromBlock /\ isUpdated = FALSE
  /\ latestBlockSearched = Min({DeploymentBlock - 1, 0})
  /\ toBlock = None
  /\ proposedRootBundles = <<>> /\ executedRootBundles = <<>>
  /\ disputedRootBundles = <<>> /\ canceledRootBundles = <<>>
  /\ pendingRootBundle = None
  /\ crossChainContracts = <<>> /\ l1TokensToDestinationTokensWithBlock = <<>>
  /\ l1Tokens = {} /\ lpTokens = <<>>
  /\ update = NoUpdate /\ failures = 0

Emit ==
  /\ Len(log) < scenario.events /\ head < scenario.last
  /\ \E e \in Possible : e.name \in scenario.kinds /\ log' = Append(log, e)
  /\ UNCHANGED <<scenario, head, client, toBlock, update, failures>>

MineBlock ==
  /\ head < scenario.last
  /\ head' = head + 1
  /\ UNCHANGED <<scenario, log, client, toBlock, update, failures>>

(* A caller fixes the block the next update ends at.                       *)
SetToBlock ==
  /\ \E b \in scenario.toBlocks : b <= head /\ toBlock' = b
  /\ UNCHANGED <<chain, client, update, failures>>

(* update() up to its first await, see BaseAbstractClient.                 *)
Start ==
  /\ update = NoUpdate
  /\ \/ /\ toBlock = None
        /\ update' = [stage |-> "blockNumber", from |-> firstBlockToSearch]
     \/ /\ toBlock # None /\ firstBlockToSearch <= toBlock
        /\ update' = [stage |-> "query", from |-> firstBlockToSearch, to |-> toBlock]
  /\ UNCHANGED <<chain, client, toBlock, failures>>

(* getBlockNumber is answered; with no new block there is nothing to do.   *)
BlockNumber ==
  /\ update.stage = "blockNumber"
  /\ \/ /\ head < update.from
        /\ update' = NoUpdate
     \/ /\ head >= update.from
        /\ update' = [stage |-> "query", from |-> update.from, to |-> head]
  /\ UNCHANGED <<chain, client, toBlock, failures>>

(* The contracts and routes have their full history on the first update.   *)
OverrideEvents_None == {}
OverrideEvents ==
  {"CrossChainContractsSet", "L1TokenEnabledForLiquidityProvision", "SetPoolRebalanceRoute"}
Answer(name) ==
  LET from == IF name \in OverrideEvents /\ ~isUpdated THEN DeploymentBlock ELSE update.from
  IN InOrder(Found(name, from, update.to))

(* All queries are answered: contracts and routes are stored, and the      *)
(* token contracts are asked next.                                         *)
Answers ==
  /\ update.stage = "query"
  /\ crossChainContracts' = crossChainContracts \o Answer("CrossChainContractsSet")
  /\ l1TokensToDestinationTokensWithBlock' =
       l1TokensToDestinationTokensWithBlock \o Answer("SetPoolRebalanceRoute")
  /\ update' = [update EXCEPT !.stage = "tokenInfo"]
  /\ UNCHANGED <<chain, window, bundles, tokens, toBlock, failures>>

EnabledTokens == {log[p].l1Token : p \in ToSet(Answer("L1TokenEnabledForLiquidityProvision"))}
Supported == EnabledTokens \cap UnsupportedTokens = {}

(* What toNumber() makes of an end block in the pending bundle.            *)
AsNumber(end) == IF end > MaxSafeInteger THEN 0 ELSE end

AppendBundles ==
  /\ proposedRootBundles' = proposedRootBundles \o Answer("ProposeRootBundle")
  /\ canceledRootBundles' = canceledRootBundles \o Answer("RootBundleCanceled")
  /\ disputedRootBundles' = disputedRootBundles \o Answer("RootBundleDisputed")
  /\ executedRootBundles' = executedRootBundles \o Answer("RootBundleExecuted")

StoreTokens ==
  /\ l1Tokens' = l1Tokens \cup EnabledTokens
  /\ lpTokens' = [t \in (DOMAIN lpTokens) \cup EnabledTokens |->
       IF t \in EnabledTokens THEN update.to ELSE lpTokens[t]]

(* The contract's proposal as of the end of the window, completed from the *)
(* last bundle in memory.                                                  *)
PendingRootBundle_Kept ==
  IF UnclaimedLeaves(update.to) = 0 THEN pendingRootBundle
  ELSE [proposalBlockNumber |-> log[Last(proposedRootBundles')].block,
        unclaimedPoolRebalanceLeafCount |-> UnclaimedLeaves(update.to),
        ends |-> [i \in DOMAIN log[Last(proposedRootBundles')].ends |->
                    AsNumber(log[Last(proposedRootBundles')].ends[i])]]
PendingRootBundle ==
  IF UnclaimedLeaves(update.to) = 0 THEN None
  ELSE [proposalBlockNumber |-> log[Last(proposedRootBundles')].block,
        unclaimedPoolRebalanceLeafCount |-> UnclaimedLeaves(update.to),
        ends |-> [i \in DOMAIN log[Last(proposedRootBundles')].ends |->
                    AsNumber(log[Last(proposedRootBundles')].ends[i])]]

(* The next update starts where this one ended.                            *)
NextStart_AfterHead == head + 1
NextStart == update.to + 1

(* The token contracts have answered: the rest is stored.                  *)
TokenInfo ==
  /\ update.stage = "tokenInfo"
  /\ Supported
  /\ StoreTokens
  /\ AppendBundles
  /\ UnclaimedLeaves(update.to) > 0 => proposedRootBundles' # <<>>
  /\ pendingRootBundle' = PendingRootBundle
  /\ latestBlockSearched' = update.to
  /\ firstBlockToSearch' = NextStart
  /\ toBlock' = None
  /\ isUpdated' = TRUE
  /\ update' = NoUpdate
  /\ UNCHANGED <<chain, registry, failures>>

(* The contract has a pending proposal that is older than the memory: all  *)
(* events are stored, and reading the last bundle throws.                  *)
NoBundleThrows ==
  /\ update.stage = "tokenInfo" /\ failures < scenario.throws
  /\ Supported
  /\ StoreTokens
  /\ AppendBundles
  /\ UnclaimedLeaves(update.to) > 0 /\ proposedRootBundles' = <<>>
  /\ update' = NoUpdate /\ failures' = failures + 1
  /\ UNCHANGED <<chain, window, toBlock, registry, pendingRootBundle>>

(* An unsupported token throws; those enabled before it are stored.        *)
TokenThrows ==
  /\ update.stage = "tokenInfo" /\ failures < scenario.throws
  /\ LET enabled == Answer("L1TokenEnabledForLiquidityProvision")
         i == SelectInSeq(enabled, LAMBDA p : log[p].l1Token \in UnsupportedTokens)
     IN /\ i # 0
        /\ l1Tokens' = l1Tokens \cup {log[enabled[j]].l1Token : j \in 1..(i - 1)}
  /\ update' = NoUpdate /\ failures' = failures + 1
  /\ UNCHANGED <<chain, window, toBlock, bundles, registry, lpTokens>>

(* An awaited request is rejected.  No token is asked for if none is new.  *)
Fail ==
  /\ update # NoUpdate /\ failures < scenario.failures
  /\ update.stage = "tokenInfo" => EnabledTokens # {}
  /\ update' = NoUpdate /\ failures' = failures + 1
  /\ UNCHANGED <<chain, client, toBlock>>

Next ==
  \/ Emit \/ MineBlock \/ SetToBlock
  \/ Start \/ BlockNumber \/ Answers \/ TokenInfo \/ NoBundleThrows \/ TokenThrows \/ Fail

Spec == Init /\ [][Next]_vars

-----------------------------------------------------------------------------

TypeOK ==
  /\ head \in Blocks
  /\ firstBlockToSearch \in Nat /\ latestBlockSearched \in Blocks \cup {-1}
  /\ isUpdated \in BOOLEAN /\ toBlock \in scenario.toBlocks \cup {None}
  /\ \A list \in {proposedRootBundles, executedRootBundles, disputedRootBundles,
                  canceledRootBundles, crossChainContracts,
                  l1TokensToDestinationTokensWithBlock} : list \in Seq(DOMAIN log)
  /\ pendingRootBundle # None =>
       /\ pendingRootBundle.proposalBlockNumber \in Blocks
       /\ pendingRootBundle.unclaimedPoolRebalanceLeafCount \in Nat \ {0}
       /\ ToSet(pendingRootBundle.ends) \subseteq 0..MaxSafeInteger
  /\ l1Tokens \subseteq L1Tokens /\ DOMAIN lpTokens \subseteq L1Tokens
  /\ update.stage \in {"idle", "blockNumber", "query", "tokenInfo"}
  /\ failures \in 0..Max({scenario.failures, scenario.throws})

(* The bundles in memory that the contract has seen all leaves of by b.    *)
ExecutedInMemory(b) == ExecutedBundles(b) \cap ToSet(proposedRootBundles)

(* The comment at isRootBundleValid: "Root bundles are valid if all of     *)
(* their pool rebalance leaves have been executed before the next bundle,  *)
(* or the latest mainnet block to search."  The client tells it from block *)
(* numbers alone; it is right for every bundle in memory and every block   *)
(* up to the one searched, whatever the neighbours share blocks with.      *)
ValidMeansExecuted ==
  \A p \in ToSet(proposedRootBundles), b \in 0..latestBlockSearched :
    IsRootBundleValid(p, b) <=> p \in ExecutedInMemory(b)

(* The next bundle starts right behind the last bundle that the contract   *)
(* executed by block b: bundles leave no gap and do not overlap, and an    *)
(* invalid bundle's end blocks are never built upon.                       *)
NextStartIsContiguous ==
  \A b \in 0..latestBlockSearched, c \in Chains :
    LET executed == ExecutedInMemory(b)
        end == IF executed = {} THEN 0 ELSE BundleEndBlockForChain(Max(executed), c)
    IN NextBundleStartBlockNumber(b, c) = (IF end = 0 THEN 0 ELSE end + 1)

(* The bundle that contains a block of a chain is the one with the lowest  *)
(* end block that is not below it: the search from the newest bundle may   *)
(* stop at the first that is, over disputed and pending bundles between.   *)
EvalBlockContains ==
  \A c \in Chains, block \in UNION {ToSet(form.ends) : form \in BundleForms} :
    LET ends == {BundleEndBlockForChain(p, c) : p \in ExecutedInMemory(latestBlockSearched)}
        containing == {e \in ends : e >= block}
    IN RootBundleEvalBlockNumberContainingBlock(latestBlockSearched, block, c)
         = (IF containing = {} THEN None ELSE Min(containing))

(* "the Nth earliest executed bundle" and "the Nth latest executed bundle" *)
(* (comment at getNthFullyExecutedRootBundle), as far as there are n.      *)
NthEarliestRight ==
  LET executed == ExecutedInMemory(latestBlockSearched) IN
  \A n \in 1..Cardinality(executed) : NthEarliestFullyExecuted(n) = InOrder(executed)[n]
NthLatestRight ==
  LET executed == ExecutedInMemory(latestBlockSearched) IN
  \A n \in 1..Cardinality(executed) :
    NthLatestFullyExecuted(n) = InOrder(executed)[Cardinality(executed) + 1 - n]

(* Both searches over the executed bundles, the one that looks for a block *)
(* and the one that counts from the earliest, find what they look for.     *)
BundleSearchesRight == EvalBlockContains /\ NthEarliestRight

(* Once updated, the client has a pending bundle exactly when the contract *)
(* had one at the searched block, and it joins the parts of one proposal:  *)
(* the counts come from the contract, block and ends from the memory.      *)
PendingMatches ==
  isUpdated =>
    LET p == CurrentProposal(latestBlockSearched)
        unclaimed == UnclaimedLeaves(latestBlockSearched)
    IN /\ pendingRootBundle = None <=> unclaimed = 0
       /\ pendingRootBundle # None =>
            /\ pendingRootBundle.proposalBlockNumber = log[p].block
            /\ pendingRootBundle.unclaimedPoolRebalanceLeafCount = unclaimed
            /\ Acceptable(p) => pendingRootBundle.ends = log[p].ends

(* What the chain's own history of routes says of one as of block b.       *)
RouteAmong(routes, l1, c, b) ==
  Latest({p \in UpTo(routes, b) : log[p].l1Token = l1 /\ log[p].chain = c})
Routed(routes, l1, l2, c, b) ==
  LET p == RouteAmong(routes, l1, c, b) IN p # None /\ log[p].l2Token = l2
Takers(routes, l2, c, b) ==
  {log[p].l1Token : p \in {q \in UpTo(routes, b) : log[q].l2Token = l2 /\ log[q].chain = c}}

(* A route as of any block up to the searched one is the chain's own, from *)
(* the deployment on, although fromBlock is later and a failed update has  *)
(* stored its routes before the retry stores them again.                   *)
RoutesAsOfBlock ==
  isUpdated =>
    LET routes == EventsOf("SetPoolRebalanceRoute") IN
    \A l1 \in L1Tokens, c \in Chains, b \in 0..latestBlockSearched :
      LET p == RouteAmong(routes, l1, c, b) IN
      L2TokenForL1TokenAtBlock(l1, c, b) = (IF p = None THEN None ELSE log[p].l2Token)

(* Tokens are equivalent only if both are routes of one L1 token at that   *)
(* block, and, unless another L1 token has taken one of them over, if they *)
(* are: a token that a route has left behind is not equivalent any more.   *)
EquivalentMeansSameL1Token ==
  isUpdated =>
    LET routes == EventsOf("SetPoolRebalanceRoute") IN
    \A l2A, l2B \in L2Tokens, cA, cB \in Chains, b \in 0..latestBlockSearched :
      LET TakenOver(l2, c) == Cardinality(Takers(routes, l2, c, b)) > 1
          same == \E l1 \in L1Tokens :
                    Routed(routes, l1, l2A, cA, b) /\ Routed(routes, l1, l2B, cB, b)
      IN /\ TokensEquivalent(l2A, cA, l2B, cB, b) => same
         /\ same /\ ~TakenOver(l2A, cA) /\ ~TakenOver(l2B, cB) =>
              TokensEquivalent(l2A, cA, l2B, cB, b)

(* The SpokePool of a chain as of any searched block is the chain's own,   *)
(* and it was activated by then, even if it is a pool that came back.      *)
SpokePoolsAsOfBlock ==
  isUpdated =>
    LET contracts == EventsOf("CrossChainContractsSet") IN
    \A c \in Chains, b \in 0..latestBlockSearched :
      LET p == Latest({q \in UpTo(contracts, b) : log[q].chain = c})
          pool == SpokePoolForBlock(c, b)
      IN IF p = None THEN pool = None
         ELSE pool = log[p].spokePool /\ SpokePoolActivationBlock(c, pool) <= log[p].block

(* Contracts and routes as of a block are those of the chain.              *)
RegistryAsOfBlock == RoutesAsOfBlock /\ SpokePoolsAsOfBlock

(* The bundles in memory mirror the chain, whatever fails in between.      *)
Mirrored(ps) == {[position |-> p, block |-> log[p].block] : p \in ps}
BundleMirror == INSTANCE EventMirror WITH
  FirstBlock <- FromBlock, horizon <- firstBlockToSearch - 1,
  events <- Mirrored(Proposals), mirror <- Mirrored(ToSet(proposedRootBundles))
MirrorsProposals == BundleMirror!Spec

=============================================================================
