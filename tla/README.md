# Verification of the Across SDK

TLA+ models of the core of this repository, the SDK that relayers, data workers
and API servers of the Across bridge are built on, with the TLC
configurations that check them and TLAPS proofs of what matters most. Paths
below are relative to the repository's root.

## The system

The SDK keeps in-memory copies of what contracts on several chains have emitted,
refreshes them by polling, and answers questions about them: which deposits are
unfilled, which bundles were executed, which token on which chain a deposit
stands for, what fee it pays. It is single-threaded TypeScript; concurrency
comes from `await`: between two awaits nothing else runs, at an await anything
may, including another call of the same method. Nothing is persisted, so there is no crash
recovery; what there is instead is an update that throws half-way and is
called again.

| component | state | operations | hard part |
| --- | --- | --- | --- |
| `BaseAbstractClient` (`src/clients/BaseAbstractClient.ts`) | `firstBlockToSearch`, `latestBlockSearched`, `isUpdated`, `eventSearchConfig.toBlock` | `updateSearchConfig` | the window is read before an await and moved after the last one |
| `SpokePoolClient` (`src/clients/SpokePoolClient.ts`) | deposits by ID, speed-ups, slow fill requests, fills, routes, bridged tokens, bundle relays, refunds, the clock, four bounds on deposit IDs | `update`, `findDeposit`, getters | events of one window are applied in a fixed order with an await in the middle; only some kinds are deduplicated |
| `HubPoolClient` (`src/clients/HubPoolClient.ts`) | proposed, executed, disputed and cancelled bundles, the pending bundle, token routes, spoke pool addresses, LP token data | `update`, queries over bundles, quotes of LP fees in batches over a cache of utilisations | whether a bundle is executed is inferred from the order of proposals and leaf executions; several events share a block |
| `AcrossConfigStoreClient` (`src/clients/AcrossConfigStoreClient`) | rate models, route rate models, chain ID indices, versions, disabled chains, lite chains, as of each block | `update`, "as of block" queries | malformed values must be skipped, the list of chains only grows |
| event queries (`src/utils/EventUtils.ts`) | none | pagination, retries, sorting | page boundaries, a retry of a query that failed in one page |
| SpokePool searches (`src/utils/SpokeUtils.ts`) | the two ends of a search | `getBlockRangeForDepositId`, `findFillBlock` | off-by-ones, blocks with several deposits, ending |
| block finder (`src/utils/BlockUtils.ts`) | a sorted cache of blocks | `getBlockForTimestamp`, cached look-ups | estimates that overshoot, shared timestamps, concurrent calls that share the cache |
| deposit queries (`src/utils/DepositUtils.ts`, `CachingUtils.ts`, `FlowUtils.ts`) | an external cache | `queryHistoricalDepositForFill`, validation of fills | the client's ID range decides between memory and a search of the chain |
| bundle ranges (`src/utils/BundleUtils.ts`) | none | implied block ranges of a bundle | contiguity with the previous executed bundle, chains that are added or disabled |
| LP fees (`src/lpFeeCalculator`) | none | rate, area and mean rate in fixed point | the difference of two rounded areas over a small deposit |
| relayer fees (`src/relayFeeCalculator`) | configuration | fee arithmetic over gas, prices and capital | rounding |
| prices (`src/priceClient`, `src/coingecko`) | a cache of prices with their age | prices of a set of tokens, falling back from source to source | a late or failing source, stale entries |
| pool client (`src/pool`) | pools, users and pending transactions, fed by events | joins and reads of contract state | reading while events arrive, transactions that are polled |
| gas prices (`src/gasPriceOracle`) | none | one adapter per chain | fallbacks |
| caches, HTTP, Merkle trees, contracts, mocks (`src/caching`, `src/apiClient`, `src/merkleDistributor`, `src/contracts`, `src/clients/mocks`) | external | I/O and encoding | none of their own |

The clients are layered: a `HubPoolClient` refuses to update before its
`AcrossConfigStoreClient` has, a `SpokePoolClient` before its `HubPoolClient`.
A `SpokePoolClient` asks the hub client for quote blocks and destination tokens
in the middle of its own update, which is the await that its partial failures
come from. All of them query events through `paginatedEventQuery`.


What makes each component correct, in a line:

* **clients:** what is in memory is what the chain has emitted between the first
  block of interest and `latestBlockSearched`, nothing missing and, except for
  lists the code does not deduplicate, nothing twice, after any failures and retries;
* **HubPoolClient:** its answers about bundles, routes and SpokePools as of a block are
  the contract's; the block ranges of executed bundles tile every chain;
* **AcrossConfigStoreClient:** its answers as of a block are those of one clean
  reading of the valid updates up to it;
* **searches, block finder, deposit queries:** the answer is the right block or
  deposit of a chain that goes on growing, and "none" is only said when there is none;
* **LP fee quotes:** each deposit is quoted at its own block and by its own token's
  utilisation, within rounding of the curve;
* **price client, pool client:** an answer is never made of a placeholder, of two
  moments that do not fit together, or of a transfer that was lost.

## Modules and the code they model

| module | what it is | code |
| --- | --- | --- |
| `LeftmostSearch` | abstract: what a search for the leftmost block with a monotone property promises | both searches of `SpokeUtils.ts` |
| `DepositIdSearch` | `getBlockRangeForDepositId`, one action per look-up | `src/utils/SpokeUtils.ts` |
| `DepositQueries` | extends it: `queryHistoricalDepositForFill`, from memory, cache or chain, with `findDeposit`, while the client is updated | `DepositUtils.ts`, `CachingUtils.ts`, `FlowUtils.ts`, `SpokePoolClient.ts` |
| `FillBlockSearch` | `findFillBlock`, over a chain that goes on growing | `src/utils/SpokeUtils.ts` |
| `EventMirror` | abstract: what a client promises of one kind of event | `update()` of the clients |
| `SpokePoolClient` | `update()` with its window, every kind of event and the memory it fills; overlapping callers and failures | `SpokePoolClient.ts`, `BaseAbstractClient.ts`, `assign` of `ObjectUtils.ts` |
| `HubPoolClient` | `update()`, and the queries over bundles, routes and SpokePools | `HubPoolClient.ts` |
| `BundleRanges` | extends it: the block ranges a bundle implies, given the chains a configuration enables | `BundleUtils.ts` |
| `EventQuery` | `getPaginatedBlockRanges`, `paginatedEventQuery` | `EventUtils.ts` |
| `ConfigStoreClient` | extends it: `update()` with valid and malformed values, overlapping calls, and the queries as of a block | `AcrossConfigStoreClient.ts` |
| `LpFeeCalculator` | operators: rate, area under the curve, mean rate | `lpFeeCalculator.ts` |
| `LpFeeQuotes` | extends it: batches of quotes over one cache | `HubPoolClient.ts`, `CachingUtils.ts` |
| `BlockFinder` | `getBlockForTimestamp` and its cached form, with averages, hints and concurrent callers | `BlockUtils.ts` |
| `PriceClient` | prices of one or all tokens over an ordered list of feeds with retries | `priceClient.ts` and its adapters |
| `PoolClient` | updates of a user and a pool, liquidity added and removed, transactions that are watched | `poolClient.ts`, `contracts/hubPool.ts`; the `TransactionManager` is that of `@uma/sdk` (`poolClient.ts:23`), external |
| `MC*` | values for TLC | |
| `*Proofs` | theorems about the module of that name; `HubPoolClientProofs` also about `BundleRanges`, `DepositQueriesProofs` about `DepositIdSearch`, `ConfigStoreClientProofs` about `EventQuery`, `PricingProofs` about `LpFeeQuotes`, `LpFeeCalculator` and `PriceClient` | |

A definition whose name has an underscore, `X_Variant`, is a deliberately wrong
form of `X`: a bug one could plausibly write there. `PROJECT.json` pairs every
checked property with one of them; with `X` replaced by it, TLC finds that
property violated. Nothing else uses these definitions.

### Composition

`DepositQueries` is built on `DepositIdSearch` itself: a query that reaches the
chain takes the search's own actions, so the search's properties and its
refinement of `LeftmostSearch` are checked, and the query's theorems proved, of
the search as it is called. The client it reads is reduced to its window and the
deposits it holds; that the range of IDs it keeps has no gap, for callers that
always ask for deposits, is `DepositIdRangeComplete` of `SpokePoolClient`.
`BundleRanges` asks its questions of the full `HubPoolClient` in every state, and
of several configurations. `ConfigStoreClient` reads its events through
`EventQuery`, page by page; the other clients take a query as one answer.
`LpFeeQuotes` takes routes and rate models "as of a block" from constants, which
is what `RegistryAsOfBlock` and `ConfigAsOfBlock` show the two clients to
answer, and the block of a timestamp as `BlockFinder` has it (`AnswersRight`).

### How state and actions correspond to the code

**Chain.** In the client modules the chain is a log of events and a head. An
event is its position in the log; positions order events as block number,
transaction and log index do. Events are added to the block after the head, so a
block may hold any number of them, and mined blocks are final. What the
contracts allow (deposit IDs without gaps, one fill per relay, one proposed
bundle at a time, leaves executed in a later block than the proposal) is in the
guards of `Emit`, marked external in `PROJECT.json`. The ConfigStore contract takes
any string, so there every value may be set at any time. In `BlockFinder` the chain
is a line of timestamps, in `LpFeeQuotes` functions of the block.

**Updates.** An asynchronous method is cut at its awaits and nowhere else; its
local variables are a record (`update`, `calls`) whose `stage` says which await it
is at.

| module | stage | await | continues with |
| --- | --- | --- | --- |
| `SpokePoolClient` | `firstDepositId` | `numberOfDeposits` at the deployment block (`SpokePoolClient.ts:435`) | `FirstDepositId` |
| both clients | `blockNumber` | `getBlockNumber` in `updateSearchConfig` | `BlockNumber` |
| both clients | `query` | `Promise.all` of multicall and event queries | `Answers` |
| `SpokePoolClient` | `quotes` | `batchComputeRealizedLpFeePct` (`SpokePoolClient.ts:542`) | `Quotes`, `DepositThrows` |
| `HubPoolClient` | `tokenInfo` | token contracts (`HubPoolClient.ts:867`) | `TokenInfo`, `NoBundleThrows`, `TokenThrows` |

`Fail` rejects whatever is awaited. The search window of `BaseAbstractClient` is
the variables `firstBlockToSearch`, `latestBlockSearched`, `isUpdated` and
`toBlock`. What the code stores before an await and what it stores after it are
kept apart: that is what partial failures are about. Requests of one
`Promise.all` are answered together, except where the order of answers matters
(`LpFeeQuotes` answers them one by one). `PriceClient`, `PoolClient` and
`BlockFinder` name the stages of their calls after the method that awaits.

**Memory.** `depositHashes` is keyed by the deposit's ID, which its hash stands
for on one chain. Lists that are only appended to are sequences of the batches
of each update. The two maps of fills, and the map of speed-ups, are partitions
of one such list and modelled as that list. `depositRoutes` keeps the four
values that `assign` can produce. In the `HubPoolClient` each array is a
sequence of positions; maps from chain or route to arrays are one sequence,
selected from by chain and token; `l1TokensToDestinationTokens`, which the
queries only use to see whether a route was ever set, follows from it. The
`AcrossConfigStoreClient`'s lists keep the order in which the code stores them,
newest first where it sorts that way. A query that throws or returns `undefined` is `None`.

**Queries** "as of a block" are operators with the name of the method and its
arguments; invariants evaluate them in every reachable state for every block.

**Searches.** `DepositIdSearch` and `FillBlockSearch` have one action for the
checks of arguments, one for the look-ups at both ends (the code awaits them
together), one for an iteration, and one for a look-up that fails. The chain is
a constant: every history of the counter, or of the status, is an initial state.

## What the runs check

| run | what it asks | bounds |
| --- | --- | --- |
| `deposit_queries` | is the deposit's block always in the range; is the search a `LeftmostSearch`; is what is found the fill's own deposit, what is called invalid invalid, and does the query throw only for want of a deposit | 7 blocks, 3 deposits in any distribution, every fill, every cache, a budget of 1 (two iterations, which leave up to two blocks), a client that starts anywhere and is updated in between |
| `fill_block_search` | is the result the block of the fill, is `undefined` right for the bound used, does it end; is it a `LeftmostSearch` | 8 blocks, every status history, head growing during the search |
| `spoke_pool_deposits` | nothing missed, nothing stored twice by updates that did not overlap, the range of IDs complete, the cheapest speed-up applied; is every mined block searched in the end | 3 events over 3 blocks, two depositors, two speed-up amounts, two callers, one overlap, one failure |
| `spoke_pool_mirror` | window never back, fills and slow fill requests mirror the chain, routes are those of the full history | 4 events over 4 blocks, `fromBlock` 2 blocks after deployment, a caller that fixes the end block or leaves deposits out, one failure |
| `hub_pool` | executed bundles told from others, next start and implied ranges contiguous, the two searches over bundles, pending bundle, routes and SpokePools as of a block, token equivalence, mirror of proposals | 5 events over 4 blocks of bundles with 1 or 2 leaves and 1 or 2 chains, or 3 events of routes, SpokePools and tokens with a failure; an end block too large for a number; three configurations of chains |
| `config_store` | chains, versions, enabled chains, rate models and settings as of a block are those of one clean reading; lists of chains only grow | 2 or 3 updates over 3 blocks, valid and malformed values of each key, two callers, one overlap, one failure, pages of 2 blocks |
| `block_finder` | is the shared list of blocks sorted, is each answer right as of a moment of its call, does each call end | 6 blocks in bursts or with a pause, two callers, three timestamps, with and without hints, an average that is held, sampled or a tick old |
| `pool_client` | is no transfer lost, are the fees of an undisturbed update right, is a mined transaction reflected or reported | 2 events over 3 blocks, one transaction that adds or removes liquidity, a call, a polled and a triggered update that may overlap, a rate that rises |
| `price_client` | does no call return a price that was never answered, does each call end | two tokens, two callers, a feed that answers for all and one that leaves some out, one retry, three calls, one expiry, clocks that are ahead |
| `lp_fee_quotes` | is each deposit quoted at its own block, by the utilisations of one token; is the fee within rounding of the curve | three batches of two deposits, two of them in flight, routes that change hands, a token listed late or never, a model without kink |
| `hub_pool_nth_latest` | violation, see Findings | 4 events over 5 blocks |
| `lp_fee_quotes_cached` | violation, see Findings | one caller, two batches |

Why these bounds suffice to be of use. A window of an update is told apart from
its neighbours by a block before, in and after it, so three or four blocks let an
event fall on either side of two consecutive windows and on both of their ends.
A deposit that is retried needs one failure and one other event; a duplicate
needs two updates. The hazards of bundles need a bundle before and one after the
one in question, and leaves that share a block with a proposal: five events. A
list of chains is accepted by comparison with the one before, so three updates
show what two wrong ones lead to. Two look-ups of the block finder meet in any
order within six blocks. The bounds on failures, overlaps and calls limit how often
a hazard happens in one behaviour, not where. Scenarios of the `HubPoolClient` and
the config store keep apart kinds of events that share no state.

The runs leave out a dispute and a new proposal in one block
(`ReproposeInBlock`), speed-ups before their deposit (`EarlySpeedUps`) and clients
that leave deposits out and ask for them again; what happens then is under
Findings.

`CHECK_DEADLOCK FALSE` is set where the model, not the program, comes to a stop:
the calls, the clock and the blocks are bounded in `LpFeeQuotes`, `PriceClient` and
`PoolClient`, and a `HubPoolClient` or config store update that throws on every
retry (a pending bundle older than the memory, an unsupported token, a list of
lite chains that does not parse) can not complete once its throws are spent.

**Symmetry** is used for callers, L2 tokens and SpokePools, which no definition
tells apart, and in no run with liveness.

**Fairness.** `spoke_pool_deposits`, `fill_block_search`, `block_finder` and
`price_client` assume some. The SDK's callers poll: they call `update()` again
whenever it has returned or thrown (weak fairness of `Start`). The provider, or a
price feed, answers or rejects every request in the end (weak fairness of the steps that
continue at an await); failures of updates are finitely many, those of the other
calls need not be, since a failure ends a call or a retry. The chain is not assumed to go on, and nothing
obliges it to fill a relay.

## Findings

With a run that shows it:

* **The nth latest executed bundle is wrong** (`hub_pool_nth_latest`) if the last
  leaf of the bundle before was executed in the block of the next proposal: the
  search goes on from one block before that proposal, and does not count the leaf.
* **The utilisation of a settled quote is never cached** (`lp_fee_quotes_cached`):
  `getUtilization` passes the current time as the time of the event and the quote's
  timestamp as the current time (`HubPoolClient.ts:304`, `CachingUtils.ts:9`), so only a
  quote that lies `timeToCache` in the future would be kept.

Met while modelling, without a run of their own:

* *SpokePoolClient.* `tokensBridged` is stored before the last await and stored
  again by a retry (`SpokePoolClient.ts:493`, 528). The full history of routes
  depends on `isUpdated`, which a first update of any other events sets (460). Of two
  overlapping updates the older can commit last and move `currentTime` and the
  window back past the check at 486; this, the two before and early speed-ups can
  be seen by widening the bounds of the runs. A speed-up found in an earlier update
  than its deposit is never applied, although the contract accepts one. A route that
  is enabled twice is held as an object (`ObjectUtils.ts:30`).
* *Searches.* The loop of `getBlockRangeForDepositId` makes `maxSearches + 1` searches
  (`SpokeUtils.ts:186`). `queryHistoricalDepositForFill` lets errors of `findDeposit`
  through. An empty pool lets a fill of ID 0 past its bounds. A client whose updates
  ask for deposits only now and then has a gap within its range of IDs, and calls a
  deposit in it invalid.
* *HubPoolClient.* A bundle that is disputed and proposed anew in one block counts
  as executed with its successor (584, 509). `getNthFullyExecutedRootBundle(n)` with
  `n` too large starts over and returns the first. Batched quotes look the HubPool
  token up before the blocks of the quotes are known, so by the latest route (229),
  while the comment at `getL1TokenForDeposit` speaks of the quote's.
  `getCurrentPoolUtilization` before the first update asks for a block that was not
  searched.
* *AcrossConfigStoreClient.* A lite chain list that is no JSON throws (459) on every
  retry, although malformed values are meant to be skipped (comment at 456); a token update
  with a target balance that is no number keeps its rate model. Overlapping calls
  store values twice, which no query can tell. `getEnabledChainsInBlockRange` is
  documented twice (`AcrossConfigStoreClient.ts:225`, 228): all chains enabled at some
  moment of the range, and, for a range of one block, those enabled at that block. With
  two `DISABLED_CHAINS` updates in the block, the first of which lists no chains, the code
  returns the chains in between as well, as 225 says and 228 does not: `EnabledInRange`
  asks for 228's answer where a block has at most one update. `ConfigStore.cfg` reaches the
  case; with that condition dropped TLC finds it. The answer is "sorted from lowest to
  highest" (232) only as far as the chain indices are; it follows their order (264).
* *LpFeeCalculator.* `UBar` = 1 divides by zero, and `UBar` = 0 with `R1` > 0 makes the area
  disagree with the rate at the kink: `Usable` excludes both. The fee of a dust deposit is
  rounding more than rate; `FeeWithinRates` says how much.
* *Block finder.* `??` binds differently from what the comment at `BlockUtils.ts:53` says;
  with shared timestamps "the latest block" (110) may be any of them.
* *Bundle ranges.* A chain that is disabled keeps the range of one block that the
  bundle names (`BundleUtils.ts:72`), whatever the bundle before ended at.
* *Price client.* Feeds are mixed within one update, which `priceClient.ts:32` speaks
  against. An unknown token that was asked for once keeps every later update
  incomplete (122). A time of 0 counts as recent on a clock younger than
  `maxPriceAge` (excluded by `AgeAssumption`). The branch at 174 can not be reached.
* *Pool client.* A repeated read returns no transfers when no block, or only one,
  was mined since the last (`endBlock <= startBlock`, 256), so the fees it reports are
  without them. Balance, stake and rate are read as of the head, so a block mined during
  an update mixes two moments (320). An update that fails after its transaction was
  mined is reported and not tried again (598).
  Claims are not divided by the fixed-point one (524). Of two overlapping updates the
  older may overwrite the newer state (738). `updateUserWithTransaction` before a full
  read counts from nothing. `validateWithdraw` swaps its arguments (664), and
  `getOrCreateUserService` never passes the address of the staking contract (496).
  The repository's own `TransactionManager.ts`, which nothing uses, iterates with
  `Object.keys` over a `Map` (60), which has none.

## What is proved

TLAPS proves these for every value of the constants that satisfies the modules'
assumptions: any length of the chain, any number of callers, tokens, feeds or retries.

**The searches** (`FillBlockSearchProofs`, the first part of `DepositQueriesProofs`). For every
chain length, every counter or status history and every argument: types; that
the target's block is in the range and in the range handed over; that the error
"SHOULD NEVER HAPPEN" is unreachable; that the two range errors are right; that
a returned block is the fill's, and `undefined` is right; and that both
implement `LeftmostSearch`. The inductive invariant says that the block before
the range has not passed the target and the last block of it has ("bracketed"),
and what each error witnesses. Bracketing is needed because the property itself
only speaks of the target's block; an iteration moves one end, and which block
is the target's follows from the monotone history.

**Deposit queries** (the second part of `DepositQueriesProofs`), from the search's invariant: a
deposit is returned only for a fill of exactly that deposit, a fill is called
invalid only for a reason that holds, and unless a request fails, the query throws
only where there is no deposit. The invariant `QInv` adds to the search's that
the client holds the deposits of one run of blocks (`HeldOK`): two consecutive
runs join to one (`IdsOfNextBlocks`), and an ID between the least and the greatest
of a run is in it (`NoGapInRange`), which is why "in range but not in memory" is
never answered. `StageOK` carries the pool's bound from the check at the start to
the search, which begins with a later window. `BudgetAssumption` says that the search has a
budget at all; without one `findDeposit` refuses its arguments.

**The SpokePoolClient** (`SpokePoolClientProofs`) rests on two invariants.

`IInv` is about nothing being missed. An update in flight commits a window that it
read before its awaits, while others commit theirs, so `NothingMissed` is not
inductive: `IInv` says of each window, the client's and those in flight, that every
event before its start is held (`CoverOK`) and that no new event can appear there,
because all of it is mined (`Final`); that memory is keyed by what it holds
(`MemoryOK`); and that a deposit ID, and a relay that asks for a slow fill, name one
event each (`LogOK`), without which keeping the first of two would lose the second. It
holds for the kinds of event that every caller asks for, since an update moves
the window for all kinds; `NoEventMissed` takes all callers to ask for everything
(`EventSets = {EventNames}`), which is what the SDK's default argument does.

`HInv` is about what is held: only what the chain has, in its order, and as long
as updates have not overlapped from before the window of the one in flight. From
both follow `StoredStaysInOrder`; `QueriedIdsAreHeld`, the range of IDs without a gap,
for overlapping callers that always ask for deposits; `CheapestIsApplied`, for such
callers and speed-ups that follow their deposit; `ClientMirrorsRelays`, that fills and
slow fill requests implement `EventMirror`; and `NeverSearchesBack`. The last two are
for updates that do not overlap (`Sequential`: one caller, or no overlap allowed).
`RoutesFollowTheChain` is for such updates that always ask for routes. `RoutesOK` says
that a route's state is that of its last change up to the last searched block: the first
update starts from its whole history, a later one from where the last update ended.
`RouteIsLastChange` is the lemma on the loop over events: the last one of a route decides. The
hypotheses are needed, what happens without them is under Findings.

**The HubPoolClient and bundle ranges** (`HubPoolClientProofs`), for every log of the
chain, every end block and failure. The chain's part of the invariant (`ChainOK`)
is what the contract guarantees: blocks only grow, outcomes are those of the last
proposal before them, a leaf is executed in a later block than its proposal, and no
more leaves than there are. `WindowOK` relates window, head and the update in flight.
`BundlesOK` says what the lists of bundles hold after failures: an update whose
pending bundle can not be completed stores its bundles and does not move the window, so
leaves may be held twice, or ahead of the window. That does no harm only because it
happens while the memory holds no proposal, so such a leaf is an `Orphan`: no
proposal from `fromBlock` on precedes it, and no range between a proposal and the next
counts it. `RegistryOK` (by `Complete`) says that contracts and routes, stored before
the update can fail and again by a retry, are all there, each after those that
precede it on the chain. From these follow:

* `ValidityIsExecution`: what the client calls valid as of a block is what the
  contract had executed by then. The places of the leaves that the client counts are
  matched with the leaves themselves, which needs that bundles do not share a block: the
  hypothesis is `~ReproposeInBlock` (see Findings). `NextStartIsRight` is built on it;
* `ExecutedRangesTile`: each block of a chain up to its last end is in the range of exactly
  one executed bundle, for every configuration whose list of chains only grows
  (which `ChainIdsOnlyGrow` says of the config store) and bundles that name at
  least one end block (`getImpliedBundleBlockRanges` reads the first one). `ProgressOK` says that a bundle
  with an executed leaf goes on from every complete one before it; the bundle of a block is then the first that
  ends at or after it, and two ranges are apart since the end before a range is no
  less than that of any earlier bundle;
* `BundlesAreFound`: the search for the bundle that contains a block, and the one that counts
  from the earliest, answer with the contract's bundles. The end blocks of executed
  bundles do not go back (`ProgressOK`), so a search from the newest bundle may stop at the first
  end that is low enough: after k bundles it has the least end of those that contain the
  block among them, or all of them are behind it (`SearchOK`). The count goes on from one block after
  the bundle it found, and skips none because no two share a block. Both loops are
  recursive functions on positions (`Recurses`, `CountUp`);
* `PendingIsTheContracts`, and `ClientMirrorsProposals`, the refinement of `EventMirror`;
* `RegistryIsRight` and `EquivalenceIsRight`, for routes that change hands.

**The config store** (`ConfigStoreClientProofs`), for every history of valid and malformed
values, every page size, any number of overlapping calls, failures and retries: the five
properties of its run, `ChainIdsAsOfBlock`, `ChainIdsOnlyGrow`, `VersionsAsOfBlock`,
`EnabledInRange` and `ConfigAsOfBlock`. Whether an update is accepted depends on what is
in memory when it is applied, and an update in flight was asked for when less was there.
The invariant therefore compares the memory with one reading of the log: up to some
position it holds exactly the updates that fit those of them that come before (`Fits`,
`GlobalsOK`, `TokensOK`), and that position is past every update of a block that is
`Known`: searched, or before the start of an update in flight. An answer from a start
that is `Known` then falls on a memory that has all before it. An update that is applied
again is refused, or stored a second time where no query can tell; one that is new comes after all that were
read (`OrderOK` for the two lists whose order matters). The position is not one for
both kinds of updates, as an update that throws stores one kind in full and the other in
part. What such an update does not touch (`rateModels`,
`hasLatestConfigStoreVersion`) is in `DerivedOK`. `QueryIs`, about `EventQuery`, says that
the pages of a query cover its range, and that each event is answered once and in order.
`filter()`, the two loops of an update and the reading of the history are recursive
functions on positions, which a proof can unfold with lemmas (`UpTo`, `Iterates`) that
speak of a set or a function where the library's induction takes an operator.
`ValueAssumption` gives the types of values, and says that `undefined` is not one of the
numbers; `TimeAssumption` that a later block has a later time.

**The block finder** (`BlockFinderProofs`): `ListStaysSorted` and `AnswersAreRight`, for
any chain whose timestamps do not fall, any number of concurrent callers and any
averages. The invariant says of every call in flight that the bounds it works with are
blocks of the list on either side of its timestamp, also while others insert blocks
between them. Answers are right as of a moment of
the call, because the chain may have gone on; for cached ones this needs that an answer is
cached only once no later block can have its timestamp (`LagAssumption`: the lag after
which the code caches is longer than the provider is behind).

**The pool client** (`PoolClientProofs`): `NoTransferLost`, that reads that overlap, fail, or set the
block back that they go on from lose no transfer below it in what the service holds;
`ReadsReturnAll`, that a read which gets past the early return (256) returns all of them up to
its block; and `MinedTransactionsAreReflected`, an action property, that the update which a mined
transaction starts ends with a state as new as its block, or with an emitted error. It says
nothing of later: an older update may end last, and nothing retries one that failed. The invariant
says of every read in flight which half of its transfers it has, and that the
block it read at is mined. `FeesAreRight` needs a second one, `FInv`: what a call that
began in the head's block has read so far is as of that block (`Current`), the events in
memory, those of receipts too, are mined, and a state read as of one block says the fees
of that block, which later events do not change. It takes `HasArchive`, without which the
code leaves the value of transfers out, and a user who does not stake (`NoStaking`), since claims
are added at their rate without being scaled down. `SumOver` is a recursive function on positions; the
lemmas `SumOfBoth` and `SumStays` say that it adds up over disjoint sets and is
not changed by what is appended.

**LP fee quotes** (first part of `PricingProofs`). `QuotesAreRight`: for every set of
callers and batches, every chain and every age to be cached, each deposit is
quoted at the block of its own timestamp, by a rate model of one token and the
contract's utilisations of that token there. The invariant `QuotesInv` says that
the cache holds what the contract answers for each key, and of each batch in
flight that its timestamps were resolved since it began, that the utilisation of every
deposit is known or still asked for, and later that every deposit has its quote or a
look-up of its own amount. "Known or asked for" is what rules out the lookup of a
missing utilisation. `FeesAreWithinRates`: the fee of a deposit lies between what
the rates without it and with it would charge, for every rate model, utilisation and
amount. It rests on lemmas about the calculator's fixed point arithmetic, which hold by
themselves: each area under the curve is a stretch or two (`AreaBelow`, `AreaAbove`);
doubled and without its divisions a stretch is exact, and each division loses less than
one (`StretchIs`); between two utilisations a rising line is bounded by its ends
(`LineAtMost`, `LineAtLeast`); and the cases below, above and across the kink
(`BetweenBelow`, `BetweenAbove`, `BetweenAcross`) give `MeanRateBetween`. `GroundInv` adds that a
batch in flight is of tokens, blocks and rate models that exist. The theorem takes
what is not in `src/`: the contract's utilisation without the deposit is at most all of the
pool (`AtMostFull`), and a higher yearly rate has no lower weekly fee (`FeeGrows`).

**The PriceClient** (second part of `PricingProofs`). `PricesAreSet`: however many calls overlap,
feeds fail or leave tokens out, and whenever the cache expires, no call returns the
placeholder that a token's entry starts with. The invariant says of each entry that its
time is 0 until it has a price, and of each call in flight what the feeds
have answered so far and for which tokens; a token may only be struck off the list
of missing ones with a price. `AgeAssumption` is needed: a clock younger than the
maximum age takes an entry of time 0 for a recent one.

**Only model-checked.** Liveness, under fairness, is beyond the prover: `ENABLED` and
fairness of actions have no backend here. `TypeOK` is part of the proved
invariants of the searches and the config store; in the other modules it documents the
types, and holds when it is added to the invariants of the module's run.

## What is not modelled

Stateless arithmetic and encoding (relayer fees, hashes, addresses, Merkle trees),
adapters of external services (gas prices, caches, HTTP), mocks and generated code.
Reorganisations of the chain: the code treats a searched block as final. Of the
`SpokePoolClient`, getters, and matching all fills with deposits at once. Of the
`HubPoolClient`, running balances and the throw on an array of them of the wrong length
(`HubPoolClient.ts:929`), overlapping updates (the SDK calls it once at
a time; overlapping ones would store leaves twice), and the blocks a configuration may
ignore. Of event queries, the retries of a page. Of the config store,
block 0 as another name of the latest block for rate models (`rateModel.ts:54`), the decimals of thresholds and UBA settings, which are never filled. Of the price
client, the Coingecko class with its own rate limit, and a second currency. Of
the pool client, yields, timers and a second user or pool. The contents of events beyond what
the properties tell apart.

## Plan

Done, in this order: searches; `SpokePoolClient` with `EventMirror`; `HubPoolClient`;
`ConfigStoreClient` on `EventQuery`; `BundleRanges`; `BlockFinder`; `DepositQueries`;
`LpFeeCalculator` and `LpFeeQuotes`; `PoolClient`; `PriceClient`; proofs about all of them.

Left, in order of importance:

1. overlapping updates of the `HubPoolClient`, and a `SpokePoolClient` whose hub client is
   the modelled one;
2. the retries of a page of an event query, the Coingecko client's rate limit;
3. the relayer fee calculator's arithmetic.
