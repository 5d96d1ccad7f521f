------------------------- MODULE ConfigStoreClient -------------------------
(***************************************************************************)
(* The AcrossConfigStoreClient of src/clients/AcrossConfigStoreClient: a   *)
(* copy of the ConfigStore's updates, and the questions the SDK asks of    *)
(* them as of a block.  The contract takes any string; the client alone    *)
(* decides which updates are valid, from those it accepted before.         *)
(*                                                                         *)
(* The chain is a log of updates; an update is named by its position,      *)
(* which is also the order sortEventsAscendingInPlace puts them in, and    *)
(* events after the head are in a block that is not mined yet.  update()   *)
(* has no lock: calls may overlap.  What it does with its answers has one  *)
(* await more, for the wording of a warning; no other call is let in       *)
(* there.  UBA configurations are never filled and are left out, and the   *)
(* end of an update is not fixed (see SpokePoolClient for that).           *)
(* A definition X_Variant is a deliberately wrong form of X.               *)
(***************************************************************************)
EXTENDS EventQuery

CONSTANTS
  ConfigStoreChain,   \* the chain the ConfigStore is on
  DefaultChainIds,    \* PROTOCOL_DEFAULT_CHAIN_ID_INDICES, as a sequence
  ConfigStoreVersion, \* the version the program supports
  BlockTime(_),       \* the timestamp of a block
  Callers,            \* calls of update() that can be in flight at once
  GlobalValues,       \* key -> the values it may be set to
  TokenConfigs,       \* the forms of a token's configuration
  L1Tokens, Routes,
  NotANumber,         \* a value Number() makes NaN or a fraction of
  NotAList,           \* a value that is no JSON list
  LeadingZero,        \* a list like [01], which is no JSON either
  NotJson,            \* a token configuration that does not parse
  None,               \* undefined
  (* Bounds of the model. *)
  Scenarios,          \* lists whose updates a log may mix -> its length
  LastBlock,          \* number of blocks
  MaxOverlaps,        \* calls that begin while another one is in flight
  MaxFailures         \* calls that fail or throw

ASSUME ChainAssumption ==
  /\ DefaultChainIds \in Seq(Nat \ {0}) /\ DefaultChainIds # <<>>
  /\ ConfigStoreChain \in Nat \ {0} /\ ConfigStoreVersion \in Nat
ASSUME ValueAssumption ==
  /\ None \notin Nat
  /\ \A key \in DOMAIN GlobalValues :
       /\ key = "CHAIN_ID_INDICES" => GlobalValues[key] \subseteq Seq(Int) \cup {NotAList, LeadingZero}
       /\ key = "VERSION" => GlobalValues[key] \subseteq Int \cup {NotANumber}
  /\ \A config \in TokenConfigs :
       config # NotJson /\ config.routes # None => config.routes.model # None
ASSUME TimeAssumption ==
  \A a, b \in 0..LastBlock : BlockTime(a) \in Nat /\ (a < b => BlockTime(a) < BlockTime(b))
ASSUME BoundAssumption ==
  /\ {LastBlock, MaxOverlaps, MaxFailures} \subseteq Nat
  /\ \A keys \in DOMAIN Scenarios : Scenarios[keys] \in Nat

VARIABLES
  log, head,          \* the chain
  firstBlockToSearch, latestBlockSearched, isUpdated, chainId,
  updates,            \* list -> the positions appended to it
  rateModels,         \* the rate models the dictionary was last made of
  hasLatestConfigStoreVersion,
  update,             \* caller -> where its call of update() stands
  overlaps, failures  \* spent bounds

chain == <<log, head>>
window == <<firstBlockToSearch, latestBlockSearched, isUpdated, chainId>>
client == <<window, updates, rateModels, hasLatestConfigStoreVersion>>
vars == <<chain, client, update, overlaps, failures>>

Blocks == 0..LastBlock
NoUpdate == [stage |-> "idle"]

GlobalKeys ==
  {"MAX_RELAYER_REPAYMENT_LEAF_SIZE", "MAX_POOL_REBALANCE_LEAF_SIZE", "VERSION",
   "DISABLED_CHAINS", "CHAIN_ID_INDICES", "LITE_CHAIN_ID_INDICES"}
TokenLists == {"rateModel", "spokeTargetBalances", "routeRateModel"}

-----------------------------------------------------------------------------
(* The ConfigStore contract.                                               *)

EventsOf(name) == {p \in DOMAIN log : log[p].name = name}
BlockAt(p) == log[p].block

GlobalUpdates ==
  {[name |-> "UpdatedGlobalConfig", block |-> head + 1, key |-> u[1], value |-> u[2]] :
     u \in UNION {{key} \X GlobalValues[key] : key \in DOMAIN GlobalValues}}
TokenUpdates ==
  [name : {"UpdatedTokenConfig"}, block : {head + 1}, key : {"rateModel"},
   l1Token : L1Tokens, config : TokenConfigs]

Answer(u, name) == PaginatedEventQuery(log, EventsOf(name), update[u].from, update[u].to)

-----------------------------------------------------------------------------
(* The questions asked of the memory.                                      *)

(* find() in sortEventsDescending: the last update that passes its test,   *)
(* which is to be of a block or a timestamp, or of an earlier one.         *)
Latest(ps) == IF ps = {} THEN None ELSE Max(ps)
AsOfBlock(b) == {p \in DOMAIN log : BlockAt(p) <= b}
AsOfTimestamp(t) == {p \in DOMAIN log : BlockTime(BlockAt(p)) <= t}
LatestOf(list, ps) == Latest(ToSet(updates[list]) \cap ps)
LatestOfToken(list, l1, ps) ==
  Latest({p \in ToSet(updates[list]) \cap ps : log[p].l1Token = l1})

ImplicitChainIds(id) == IF DefaultChainIds[1] = id THEN DefaultChainIds ELSE <<id>>

ChainIdIndicesForBlock(b) ==
  LET p == LatestOf("CHAIN_ID_INDICES", AsOfBlock(b))
  IN IF p = None THEN ImplicitChainIds(chainId) ELSE log[p].value

LiteChainIdIndicesForBlock(b) ==
  LET p == LatestOf("LITE_CHAIN_ID_INDICES", AsOfBlock(b))
  IN IF p = None THEN <<>> ELSE log[p].value
IsLiteChainAtTimestamp(c, t) ==
  LET p == LatestOf("LITE_CHAIN_ID_INDICES", AsOfTimestamp(t))
  IN p # None /\ c \in ToSet(log[p].value)

(* The counts of leaves, None where the code throws.                       *)
CountForBlock(key, b) ==
  LET p == LatestOf(key, AsOfBlock(b)) IN IF p = None THEN None ELSE log[p].value

(* filterDisabledChains: the chain 1 is never disabled.                    *)
FilterDisabled(ids) == ToSet(ids) \ {1}
DisabledChainsForBlock(b) ==
  LET p == LatestOf("DISABLED_CHAINS", AsOfBlock(b))
  IN IF p = None THEN {} ELSE FilterDisabled(log[p].value)
EnabledChains(b) ==
  LET disabled == DisabledChainsForBlock(b)
      ids == ChainIdIndicesForBlock(b)
  IN Filter(ids, ToSet(ids) \ disabled)

(* getEnabledChainsInBlockRange: the chains that were not disabled at the  *)
(* start, and those that an update of the range no longer disables.        *)
Reenabled_Never(from, to) == {}
Reenabled(from, to) ==
  {c \in DisabledChainsForBlock(from) :
     \E p \in ToSet(updates["DISABLED_CHAINS"]) :
       BlockAt(p) \in from..to /\ c \notin FilterDisabled(log[p].value)}
EnabledChainsInBlockRange(from, to) ==
  LET disabled == DisabledChainsForBlock(from) \ Reenabled(from, to)
      ids == ChainIdIndicesForBlock(to)
  IN Filter(ids, ToSet(ids) \ disabled)

(* Versions are prepended: the first that passes is the latest.            *)
DefaultVersion == 0
VersionOf(ps) ==
  LET i == SelectInSeq(updates["VERSION"], LAMBDA p : p \in ps)
  IN IF i = 0 THEN DefaultVersion ELSE log[updates["VERSION"][i]].value
VersionForBlock(b) == VersionOf(AsOfBlock(b))
VersionForTimestamp(t) == VersionOf(AsOfTimestamp(t))
HasValidVersionForTimestamp(t) == ConfigStoreVersion >= VersionForTimestamp(t)

SpokeTargetBalancesForBlock(l1, b) ==
  LET p == LatestOfToken("spokeTargetBalances", l1, AsOfBlock(b))
  IN IF p = None THEN None ELSE log[p].config.targets

(* getRateModelForBlockNumber: the model of the route, or else the token's *)
(* as the dictionary has it.  Without a block there is no route's model.   *)
RouteRateModelForBlock(l1, route, b) ==
  LET p == LatestOfToken("routeRateModel", l1, AsOfBlock(b))
  IN IF p = None \/ log[p].config.routes = None \/ log[p].config.routes.route # route
       THEN None ELSE log[p].config.routes.model
RateModelForBlock(l1, route, b) ==
  LET model == RouteRateModelForBlock(l1, route, b)
      p == Latest({q \in ToSet(rateModels) : log[q].l1Token = l1 /\ BlockAt(q) <= b})
  IN IF model # None THEN model ELSE IF p = None THEN None ELSE log[p].config.rateModel

-----------------------------------------------------------------------------
(* What update() makes of one event; "lists" is the memory so far.         *)

Pushed(lists, list, p) == [lists EXCEPT ![list] = Append(@, p)]

(* Without a rate model nothing is stored.  A target balance that is no    *)
(* number throws when the rate model is stored already, and the loop goes  *)
(* on with the next event.                                                 *)
BadTargets == NotANumber
StoreTokenConfig_TargetsFirst(lists, p) ==
  LET config == log[p].config IN
  IF config = NotJson \/ config.rateModel = None \/ config.targets = BadTargets THEN lists
  ELSE Pushed(Pushed(Pushed(lists, "rateModel", p), "spokeTargetBalances", p), "routeRateModel", p)
StoreTokenConfig(lists, p) ==
  LET config == log[p].config IN
  IF config = NotJson \/ config.rateModel = None THEN lists
  ELSE LET priced == Pushed(lists, "rateModel", p) IN
       IF config.targets = BadTargets THEN priced
       ELSE Pushed(Pushed(priced, "spokeTargetBalances", p), "routeRateModel", p)

IsListOfPositives(value) == \A i \in DOMAIN value : value[i] > 0
ValidList(value) == IsListOfPositives(value) /\ IsInjective(value)

(* A list of chains has to go on from the one accepted before it.          *)
PreviousChainIds_Implicit(lists) == ImplicitChainIds(ConfigStoreChain)
PreviousChainIds(lists) ==
  IF lists["CHAIN_ID_INDICES"] = <<>> THEN ImplicitChainIds(ConfigStoreChain)
  ELSE log[Last(lists["CHAIN_ID_INDICES"])].value

AcceptsChainIds_AnySuperset(lists, value) ==
  /\ value # NotAList /\ value # LeadingZero
  /\ ValidList(value)
  /\ ToSet(PreviousChainIds(lists)) \subseteq ToSet(value)
AcceptsChainIds(lists, value) ==
  /\ value # NotAList /\ value # LeadingZero
  /\ ValidList(value)
  /\ IsPrefix(PreviousChainIds(lists), value)

LastVersion_Oldest(lists) ==
  IF lists["VERSION"] = <<>> THEN DefaultVersion ELSE log[Last(lists["VERSION"])].value
LastVersion(lists) ==
  IF lists["VERSION"] = <<>> THEN DefaultVersion ELSE log[Head(lists["VERSION"])].value
AcceptsVersion(lists, value) == value # NotANumber /\ value > LastVersion(lists)

(* The regular expression lets [01] pass; JSON.parse() then throws.        *)
ParseThrows(p) == log[p].key = "LITE_CHAIN_ID_INDICES" /\ log[p].value = LeadingZero

Accepts(lists, key, value) ==
  CASE key = "CHAIN_ID_INDICES" -> AcceptsChainIds(lists, value)
    [] key = "VERSION" -> AcceptsVersion(lists, value)
    [] key = "LITE_CHAIN_ID_INDICES" -> value # NotAList /\ ValidList(value)
    [] key = "DISABLED_CHAINS" -> value # NotAList /\ value # LeadingZero
    [] key \in {"MAX_RELAYER_REPAYMENT_LEAF_SIZE", "MAX_POOL_REBALANCE_LEAF_SIZE"} ->
         value # NotANumber
    [] OTHER -> FALSE

StoreGlobalConfig(lists, p) ==
  LET key == log[p].key IN
  IF ~Accepts(lists, key, log[p].value) THEN lists
  ELSE IF key = "VERSION" THEN [lists EXCEPT !["VERSION"] = <<p>> \o @]
  ELSE Pushed(lists, key, p)

(* The global updates up to the first that throws.                         *)
UntilThrow(events) ==
  LET i == SelectInSeq(events, ParseThrows) IN IF i = 0 THEN events ELSE SubSeq(events, 1, i - 1)
Throws(u) == \E p \in ToSet(Answer(u, "UpdatedGlobalConfig")) : ParseThrows(p)

(* The memory after the events of a list, one by one.                      *)
TokensStored(lists, events) ==
  LET after[i \in 0..Len(events)] ==
        IF i = 0 THEN lists ELSE StoreTokenConfig(after[i - 1], events[i])
  IN after[Len(events)]
GlobalsStored(lists, events) ==
  LET after[i \in 0..Len(events)] ==
        IF i = 0 THEN lists ELSE StoreGlobalConfig(after[i - 1], events[i])
  IN after[Len(events)]

AfterTokens(u) == TokensStored(updates, Answer(u, "UpdatedTokenConfig"))
AfterAll(u) == GlobalsStored(AfterTokens(u), UntilThrow(Answer(u, "UpdatedGlobalConfig")))

-----------------------------------------------------------------------------

Init ==
  /\ log = <<>> /\ head = 0
  /\ firstBlockToSearch = 0 /\ latestBlockSearched = 0 /\ isUpdated = FALSE
  /\ chainId = None
  /\ updates = [list \in GlobalKeys \cup TokenLists |-> <<>>]
  /\ rateModels = <<>> /\ hasLatestConfigStoreVersion = FALSE
  /\ update = [u \in Callers |-> NoUpdate]
  /\ overlaps = 0 /\ failures = 0

Emit ==
  /\ head < LastBlock
  /\ \E e \in GlobalUpdates \cup TokenUpdates, keys \in DOMAIN Scenarios :
       /\ Len(log) < Scenarios[keys]
       /\ {e.key} \cup {log[p].key : p \in DOMAIN log} \subseteq keys
       /\ log' = Append(log, e)
  /\ UNCHANGED <<head, client, update, overlaps, failures>>

MineBlock ==
  /\ head < LastBlock
  /\ head' = head + 1
  /\ UNCHANGED <<log, client, update, overlaps, failures>>

(* update() up to the await of the chain's ID.                             *)
Start(u) ==
  /\ update[u] = NoUpdate
  /\ update' = [update EXCEPT ![u] = [stage |-> "chainId"]]
  /\ \/ /\ \A v \in Callers : update[v] = NoUpdate
        /\ UNCHANGED overlaps
     \/ /\ \E v \in Callers : update[v] # NoUpdate
        /\ overlaps < MaxOverlaps
        /\ overlaps' = overlaps + 1
  /\ UNCHANGED <<chain, client, failures>>

(* updateSearchConfig() reads the window's start and awaits the head.      *)
SearchConfig(u) ==
  /\ update[u].stage = "chainId"
  /\ update' = [update EXCEPT ![u] = [stage |-> "blockNumber", from |-> firstBlockToSearch]]
  /\ UNCHANGED <<chain, client, overlaps, failures>>

(* The head is answered: with no new block there is nothing to do.         *)
BlockNumber(u) ==
  /\ update[u].stage = "blockNumber"
  /\ \/ /\ head < update[u].from
        /\ update' = [update EXCEPT ![u] = NoUpdate]
     \/ /\ head >= update[u].from
        /\ update' = [update EXCEPT ![u] =
             [stage |-> "query", from |-> update[u].from, to |-> head]]
  /\ UNCHANGED <<chain, client, overlaps, failures>>

(* Both queries and the times of the blocks are answered.                  *)
NextStart(to) == to + 1
Answers(u) ==
  /\ update[u].stage = "query"
  /\ ~Throws(u)
  /\ updates' = AfterAll(u)
  /\ rateModels' = updates'["rateModel"]
  /\ hasLatestConfigStoreVersion' =
       (ConfigStoreVersion >= LastVersion(updates'))
  /\ latestBlockSearched' = update[u].to
  /\ firstBlockToSearch' = NextStart(update[u].to)
  /\ chainId' = IF chainId = None THEN ConfigStoreChain ELSE chainId
  /\ isUpdated' = TRUE
  /\ update' = [update EXCEPT ![u] = NoUpdate]
  /\ UNCHANGED <<chain, overlaps, failures>>

(* A list of lite chains cannot be parsed: what came before it is stored,  *)
(* and update() throws.                                                    *)
LiteChainsThrow(u) ==
  /\ update[u].stage = "query" /\ failures < MaxFailures
  /\ Throws(u)
  /\ updates' = AfterAll(u)
  /\ update' = [update EXCEPT ![u] = NoUpdate]
  /\ failures' = failures + 1
  /\ UNCHANGED <<chain, window, rateModels, hasLatestConfigStoreVersion, overlaps>>

(* An awaited request is rejected, for good after paginatedEventQuery's    *)
(* retries.                                                                *)
Fail(u) ==
  /\ update[u] # NoUpdate /\ failures < MaxFailures
  /\ update' = [update EXCEPT ![u] = NoUpdate]
  /\ failures' = failures + 1
  /\ UNCHANGED <<chain, client, overlaps>>

Next ==
  \/ Emit \/ MineBlock
  \/ \E u \in Callers : Start(u) \/ SearchConfig(u) \/ BlockNumber(u)
                          \/ Answers(u) \/ LiteChainsThrow(u) \/ Fail(u)

Spec == Init /\ [][Next]_vars

-----------------------------------------------------------------------------

TypeOK ==
  /\ head \in Blocks
  /\ firstBlockToSearch \in 0..(LastBlock + 1) /\ latestBlockSearched \in Blocks
  /\ isUpdated \in BOOLEAN /\ chainId \in {None, ConfigStoreChain}
  /\ updates \in [GlobalKeys \cup TokenLists -> Seq(DOMAIN log)]
  /\ rateModels \in Seq(DOMAIN log) /\ hasLatestConfigStoreVersion \in BOOLEAN
  /\ \A u \in Callers : update[u].stage \in {"idle", "chainId", "blockNumber", "query"}
  /\ overlaps \in 0..MaxOverlaps /\ failures \in 0..MaxFailures

(* The updates of a key as of block b.                                     *)
Sets(key, b) == {p \in EventsOf("UpdatedGlobalConfig") : log[p].key = key /\ BlockAt(p) <= b}

(* What one reading of the ConfigStore's history accepts.                  *)
GoesOn(list, value) ==
  value \notin {NotAList, LeadingZero} /\ ValidList(value) /\ IsPrefix(list, value)
ChainIdsInLog(b) ==
  LET list[p \in 0..Len(log)] ==
        IF p = 0 THEN ImplicitChainIds(ConfigStoreChain)
        ELSE IF p \in Sets("CHAIN_ID_INDICES", b) /\ GoesOn(list[p - 1], log[p].value)
               THEN log[p].value ELSE list[p - 1]
  IN list[Len(log)]
VersionInLog(b) ==
  Max({DefaultVersion} \cup ({log[p].value : p \in Sets("VERSION", b)} \ {NotANumber}))

(* Every client sees the same list of chains as of a block, the one that a *)
(* single reading of the history accepts, however often and in whatever    *)
(* overlap, failure and retry its updates were applied: bundles of         *)
(* different programs depend on the same indices.                          *)
ChainIdsAsOfBlock ==
  isUpdated => \A b \in 0..latestBlockSearched : ChainIdIndicesForBlock(b) = ChainIdsInLog(b)

(* The list of chains only grows at its end, as of all blocks, also those  *)
(* of an update that threw: "It must be a superset of the previous array". *)
ChainIdsOnlyGrow ==
  chainId # None =>
    \A b \in Blocks : b < LastBlock =>
      IsPrefix(ChainIdIndicesForBlock(b), ChainIdIndicesForBlock(b + 1))

(* As of every searched block and its time the version is the highest so   *)
(* far, and the program never says that it is up to date when it is not.   *)
VersionsAsOfBlock ==
  isUpdated =>
    /\ \A b \in 0..latestBlockSearched :
         /\ VersionForBlock(b) = VersionInLog(b)
         /\ VersionForTimestamp(BlockTime(b)) = VersionInLog(b)
         /\ HasValidVersionForTimestamp(BlockTime(b)) <=> ConfigStoreVersion >= VersionInLog(b)
    /\ ConfigStoreVersion < VersionInLog(latestBlockSearched) => ~hasLatestConfigStoreVersion

(* "Returns list of chains that have been enabled at least once in the     *)
(* block range" (AcrossConfigStoreClient.ts:225): the chains of the list   *)
(* at its end that were not disabled at some moment of the range, in the   *)
(* list's order.  The moments are the end of the first block and every     *)
(* update of the range.  So the chains that getEnabledChains lists for the *)
(* last block are among them.  "If fromBlock == toBlock then defaults to   *)
(* returning enabled chains at fromBlock" (228): so it does where that     *)
(* block has one update at most.  Of a block with several the two comments *)
(* disagree and the code follows the first: see the README.                *)
DisabledAt(p) == IF p = None THEN {} ELSE FilterDisabled(log[p].value)
ParsedDisabled(b) == {p \in Sets("DISABLED_CHAINS", b) : log[p].value \notin {NotAList, LeadingZero}}
EnabledInRange ==
  isUpdated =>
    \A to \in 0..latestBlockSearched : \A from \in 0..to :
      LET within == {p \in ParsedDisabled(to) : BlockAt(p) >= from}
          moments == {Latest(ParsedDisabled(from))} \cup within
          enabled == EnabledChainsInBlockRange(from, to)
      IN /\ ToSet(EnabledChains(to)) \subseteq ToSet(enabled)
         /\ from < to =>
              enabled = Filter(ChainIdsInLog(to), {c \in ToSet(ChainIdsInLog(to)) :
                \E p \in moments : c \notin DisabledAt(p)})
         /\ from = to /\ (\A p, q \in within : p = q) => enabled = EnabledChains(from)

(* The fees of a deposit as of a block are its route's own or else its     *)
(* token's, from the last update that has them, and a bad update does not  *)
(* keep the later ones from being read.                                    *)
TokenUpdatesBy(l1, b) ==
  {p \in EventsOf("UpdatedTokenConfig") :
     /\ log[p].l1Token = l1 /\ BlockAt(p) <= b
     /\ log[p].config # NotJson /\ log[p].config.rateModel # None}
RateModelsAsOfBlock ==
  isUpdated =>
    \A l1 \in L1Tokens, route \in Routes, b \in 0..latestBlockSearched :
      LET sets == TokenUpdatesBy(l1, b)
          whole == {p \in sets : log[p].config.targets # BadTargets}
          routes == IF whole = {} THEN None ELSE log[Max(whole)].config.routes
      IN RateModelForBlock(l1, route, b) =
           IF routes # None /\ routes.route = route THEN routes.model
           ELSE IF sets = {} THEN None ELSE log[Max(sets)].config.rateModel

(* The other settings as of a block are the last accepted ones: whether a  *)
(* chain is a lite chain, by the time of the update's own block, the leaf  *)
(* counts, and the target balances of a token.                             *)
LiteInLog(b) ==
  Latest({p \in Sets("LITE_CHAIN_ID_INDICES", b) :
            log[p].value \notin {NotAList, LeadingZero} /\ ValidList(log[p].value)})
CountInLog(key, b) == Latest({p \in Sets(key, b) : log[p].value # NotANumber})
SettingsAsOfBlock ==
  isUpdated =>
    \A b \in 0..latestBlockSearched :
      /\ LET p == LiteInLog(b) IN
         /\ LiteChainIdIndicesForBlock(b) = (IF p = None THEN <<>> ELSE log[p].value)
         /\ \A c \in ToSet(DefaultChainIds) :
              IsLiteChainAtTimestamp(c, BlockTime(b)) <=> p # None /\ c \in ToSet(log[p].value)
      /\ \A key \in {"MAX_RELAYER_REPAYMENT_LEAF_SIZE", "MAX_POOL_REBALANCE_LEAF_SIZE"} :
           LET p == CountInLog(key, b)
           IN CountForBlock(key, b) = (IF p = None THEN None ELSE log[p].value)
      /\ \A l1 \in L1Tokens :
           LET whole == {p \in TokenUpdatesBy(l1, b) : log[p].config.targets # BadTargets}
           IN SpokeTargetBalancesForBlock(l1, b) =
                IF whole = {} THEN None ELSE log[Max(whole)].config.targets

(* All of these together: what the configuration was as of a block.        *)
ConfigAsOfBlock == RateModelsAsOfBlock /\ SettingsAsOfBlock

=============================================================================
