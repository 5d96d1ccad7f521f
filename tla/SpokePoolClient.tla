-------------------------- MODULE SpokePoolClient --------------------------
(***************************************************************************)
(* The SpokePoolClient of src/clients/SpokePoolClient.ts with the search   *)
(* window of BaseAbstractClient: an in-memory copy of one SpokePool's      *)
(* events that update() brings up to date.  An update awaits its provider  *)
(* several times; other updates, and the chain, go on meanwhile.           *)
(*                                                                         *)
(* The chain is a log of events; an event is named by its position in it,  *)
(* which is also the order sortEventsAscendingInPlace puts events in.      *)
(* Events after the head are in a block that is not mined yet.             *)
(* A definition X_Variant is a deliberately wrong form of X.               *)
(***************************************************************************)
EXTENDS Integers, Sequences, FiniteSetsExt, TLC

CONSTANTS
  DeploymentBlock,    \* block the SpokePool was deployed in
  FromBlock,          \* eventSearchConfig.fromBlock
  BlockTime(_),       \* SpokePool.getCurrentTime as of a block
  Callers,            \* calls of update() that can be in flight at once
  EventSets,          \* the values callers give to eventsToQuery
  ToBlocks,           \* the values callers give to eventSearchConfig.toBlock
  Depositors, Relays, Routes,
  OutputAmount,       \* output amount of every deposit
  SpeedUpAmounts,     \* output amounts a depositor may sign instead
  EarlySpeedUps,      \* may a speed-up be placed before its deposit?
  NoBlock,            \* the value "undefined" of a block number
  MaxSafeInteger,     \* stands for "not known yet", as in the source
  (* Bounds of the model. *)
  Emitted,            \* the kinds of event the chain produces
  LastBlock,          \* number of blocks
  MaxEvents,          \* length of the log
  MaxOverlaps,        \* calls that begin while another one is in flight
  MaxFailures         \* calls that fail

ASSUME BlockAssumption ==
  /\ DeploymentBlock \in Nat /\ FromBlock \in Nat /\ LastBlock \in Nat
  /\ DeploymentBlock <= LastBlock
  /\ NoBlock \notin Nat /\ ToBlocks \subseteq Nat
ASSUME TimeAssumption ==
  \A a, b \in 0..LastBlock :
    /\ BlockTime(a) \in Nat \ {0}
    /\ a <= b => BlockTime(a) <= BlockTime(b)
ASSUME AmountAssumption ==
  OutputAmount \in Nat /\ SpeedUpAmounts \subseteq Nat /\ EarlySpeedUps \in BOOLEAN
ASSUME BoundAssumption ==
  /\ MaxEvents \in Nat /\ MaxOverlaps \in Nat /\ MaxFailures \in Nat
  /\ MaxSafeInteger \in Nat /\ MaxSafeInteger > MaxEvents

VARIABLES
  log, head,                              \* the chain
  firstBlockToSearch, latestBlockSearched, isUpdated, toBlock,
  currentTime, oldestTime,
  firstDepositIdForSpokePool, lastDepositIdForSpokePool,
  earliestDepositIdQueried, latestDepositIdQueried,
  depositHashes,      \* deposit id -> the deposit and the speed-up it carries
  stored,             \* event kind -> the batches appended, one per update
  slowFillRequests,   \* relay -> the request held for it
  depositRoutes,      \* route -> its value
  update,             \* caller -> where its call of update() stands
  overlaps, failures  \* spent bounds

chain == <<log, head>>
window == <<firstBlockToSearch, latestBlockSearched, isUpdated>>
clock == <<currentTime, oldestTime>>
poolIds == <<firstDepositIdForSpokePool, lastDepositIdForSpokePool>>
queriedIds == <<earliestDepositIdQueried, latestDepositIdQueried>>
memory == <<depositHashes, queriedIds, stored, slowFillRequests, depositRoutes>>
bounds == <<overlaps, failures>>
vars == <<chain, window, toBlock, clock, poolIds, memory, update, bounds>>

Blocks == 0..LastBlock
Positions == 1..MaxEvents
Ids == 0..MaxEvents

(* Kinds of event whose copies are appended to a list.  Fills are held in  *)
(* two maps of lists and speed-ups in one, each a partition of this list.  *)
AppendOnly == {"TokensBridged", "RelayedRootBundle", "ExecutedRelayerRefundRoot",
               "RequestedSpeedUpV3Deposit", "FilledV3Relay"}
EventNames ==
  AppendOnly \cup {"V3FundsDeposited", "RequestedV3SlowFill", "EnabledDepositRoute"}

NoSpeedUp == 0
NoUpdate == [stage |-> "idle"]

-----------------------------------------------------------------------------
(* The chain.                                                              *)

EventsOf(name) == {p \in DOMAIN log : log[p].name = name}

(* SpokePool.numberOfDeposits as of block b; ids are given out from zero.  *)
NumberOfDeposits(b) == Cardinality({p \in EventsOf("V3FundsDeposited") : log[p].block <= b})

NextBlock == {head + 1}

(* The next deposit's id, and the ids a speed-up may name: the contract    *)
(* checks the depositor's signature and not that there is such a deposit.  *)
NextDepositId == Cardinality(EventsOf("V3FundsDeposited"))
SpeedUpIds == 0..(IF EarlySpeedUps THEN NextDepositId ELSE NextDepositId - 1)

Deposits == [name : {"V3FundsDeposited"}, block : NextBlock,
             id : {NextDepositId}, depositor : Depositors]
SpeedUps == [name : {"RequestedSpeedUpV3Deposit"}, block : NextBlock,
             id : SpeedUpIds, depositor : Depositors, amount : SpeedUpAmounts]
RouteChanges == [name : {"EnabledDepositRoute"}, block : NextBlock,
                 route : Routes, enabled : BOOLEAN]
Others == [name : {"TokensBridged", "RelayedRootBundle", "ExecutedRelayerRefundRoot"},
           block : NextBlock]

(* A relay is filled once, and a slow fill is requested at most once,      *)
(* before the fill.                                                        *)
RelaysWith(names) == {log[p].relay : p \in UNION {EventsOf(n) : n \in names}}
SlowFillRequests ==
  [name : {"RequestedV3SlowFill"}, block : NextBlock,
   relay : Relays \ RelaysWith({"RequestedV3SlowFill", "FilledV3Relay"})]
Fills == [name : {"FilledV3Relay"}, block : NextBlock,
          relay : Relays \ RelaysWith({"FilledV3Relay"})]

Possible == Deposits \cup SpeedUps \cup RouteChanges \cup SlowFillRequests \cup Fills \cup Others

Found(name, from, to) ==
  {p \in EventsOf(name) : from <= log[p].block /\ log[p].block <= to}

-----------------------------------------------------------------------------
(* The memory after a batch of events.                                     *)

(* EnabledDepositRoute has the full history on the first update.           *)
WindowStart_NoOverride(u, name) == update[u].from
WindowStart(u, name) ==
  IF name = "EnabledDepositRoute" /\ update[u].fullHistory
    THEN DeploymentBlock
    ELSE update[u].from

Answer(u, name) ==
  IF name \in update[u].names
    THEN Found(name, WindowStart(u, name), update[u].to)
    ELSE {}

Pushed(u, names) ==
  [n \in AppendOnly |->
    IF n \in names /\ Answer(u, n) # {} THEN Append(stored[n], Answer(u, n)) ELSE stored[n]]

(* Deposits ps are stored unless their id is held already.                 *)
IdsOf(ps) == {log[p].id : p \in ps}
NewDeposit(ps, id) == [event |-> CHOOSE p \in ps : log[p].id = id, speedUp |-> NoSpeedUp]
WithDeposits(ps) ==
  [id \in (DOMAIN depositHashes) \cup IdsOf(ps) |->
    IF id \in DOMAIN depositHashes THEN depositHashes[id] ELSE NewDeposit(ps, id)]

IdsStored(ps) == IdsOf(ps) \ DOMAIN depositHashes
EarliestIdAfter(ps) == Min({earliestDepositIdQueried} \cup IdsStored(ps))
LatestIdAfter_FromCounter(ps) == Max({latestDepositIdQueried, NumberOfDeposits(head) - 1})
LatestIdAfter(ps) == Max({latestDepositIdQueried} \cup IdsStored(ps))

(* reduce() over the speed-ups held for a deposit: the lowest amount, the  *)
(* last of the list among equals.                                          *)
BestSpeedUp_Latest(batches, id, depositor) ==
  Max({NoSpeedUp} \cup {p \in UNION {batches[i] : i \in DOMAIN batches} :
                          log[p].id = id /\ log[p].depositor = depositor})
BestSpeedUp(batches, id, depositor) ==
  LET mine == {b \in (DOMAIN batches) \X Positions :
                 /\ b[2] \in batches[b[1]]
                 /\ log[b[2]].id = id /\ log[b[2]].depositor = depositor}
      Amount(b) == log[b[2]].amount
      After(a, b) == a[1] > b[1] \/ (a[1] = b[1] /\ a[2] > b[2])
  IN IF mine = {} THEN NoSpeedUp
     ELSE (CHOOSE b \in mine : \A a \in mine :
             Amount(b) < Amount(a) \/ (Amount(b) = Amount(a) /\ ~After(a, b)))[2]

(* appendMaxSpeedUpSignatureToDeposit.                                     *)
WithMaxSpeedUp(id, deposit, batches) ==
  LET best == BestSpeedUp(batches, id, log[deposit.event].depositor) IN
  IF best = NoSpeedUp \/ log[best].amount >= OutputAmount
    THEN deposit
    ELSE [deposit EXCEPT !.speedUp = best]

(* Only deposits that a speed-up of this batch names are looked at.        *)
SpedUp(deposits, u) ==
  LET named == {log[p].id : p \in Answer(u, "RequestedSpeedUpV3Deposit")}
      batches == Pushed(u, {"RequestedSpeedUpV3Deposit"})["RequestedSpeedUpV3Deposit"]
  IN [id \in DOMAIN deposits |->
       IF id \in named THEN WithMaxSpeedUp(id, deposits[id], batches) ELSE deposits[id]]

(* A relay's first request is kept.                                        *)
RelaysOf(ps) == {log[p].relay : p \in ps}
FirstRequest(ps, r) == Min({p \in ps : log[p].relay = r})
WithSlowFillRequests_Forgets(ps) == [r \in RelaysOf(ps) |-> FirstRequest(ps, r)]
WithSlowFillRequests(ps) ==
  [r \in (DOMAIN slowFillRequests) \cup RelaysOf(ps) |->
    IF r \in DOMAIN slowFillRequests THEN slowFillRequests[r] ELSE FirstRequest(ps, r)]

(* assign() of a boolean: over a truthy value, false is set and true is    *)
(* spread into an object.                                                  *)
Assigned(value, enabled) ==
  CASE ~enabled -> "false"
    [] enabled /\ value \in {"absent", "false"} -> "true"
    [] enabled /\ value \in {"true", "object"} -> "object"

(* One route after the other of its changes among the events ps.           *)
RouteAfter(r, ps) ==
  LET value[p \in 0..Len(log)] ==
        IF p = 0 THEN depositRoutes[r]
        ELSE IF p \in ps /\ log[p].route = r THEN Assigned(value[p - 1], log[p].enabled)
        ELSE value[p - 1]
  IN value[Len(log)]
WithRoutes(ps) == [r \in Routes |-> RouteAfter(r, ps)]

(* The next update starts where this one ended.                            *)
NextStart_SameBlock(to) == to
NextStart_AfterHead(to) == head + 1
NextStart(to) == to + 1

LastDepositId(b) == Max({NumberOfDeposits(b) - 1, 0})

-----------------------------------------------------------------------------

Init ==
  /\ log = <<>> /\ head = DeploymentBlock
  /\ firstBlockToSearch = FromBlock /\ latestBlockSearched = 0 /\ isUpdated = FALSE
  /\ toBlock = NoBlock
  /\ currentTime = 0 /\ oldestTime = 0
  /\ firstDepositIdForSpokePool = MaxSafeInteger
  /\ lastDepositIdForSpokePool = MaxSafeInteger
  /\ earliestDepositIdQueried = MaxSafeInteger /\ latestDepositIdQueried = 0
  /\ depositHashes = <<>> /\ slowFillRequests = <<>>
  /\ stored = [n \in AppendOnly |-> <<>>]
  /\ depositRoutes = [r \in Routes |-> "absent"]
  /\ update = [u \in Callers |-> NoUpdate]
  /\ overlaps = 0 /\ failures = 0

client == <<window, clock, poolIds, memory>>

Emit ==
  /\ Len(log) < MaxEvents /\ head < LastBlock
  /\ \E e \in Possible :
       /\ e.name \in Emitted
       /\ log' = Append(log, e)
  /\ UNCHANGED <<head, client, toBlock, update, bounds>>

MineBlock ==
  /\ head < LastBlock
  /\ head' = head + 1
  /\ UNCHANGED <<log, client, toBlock, update, bounds>>

(* A caller fixes the block the next update ends at.                       *)
SetToBlock ==
  /\ \E b \in ToBlocks : b <= head /\ toBlock' = b
  /\ UNCHANGED <<chain, client, update, bounds>>

InvalidConfig_Unchecked == FALSE
InvalidConfig == firstBlockToSearch > toBlock

(* updateSearchConfig() up to its await: the window's start is read here.  *)
(* Without a fixed end the head is asked for; a fixed end before the start *)
(* throws.                                                                 *)
Query(names, firstDepositId, from, to) ==
  [stage |-> "query", names |-> names, firstDepositId |-> firstDepositId,
   from |-> from, to |-> to, fullHistory |-> ~isUpdated]
SearchConfig(names, firstDepositId) ==
  IF toBlock = NoBlock
    THEN [stage |-> "blockNumber", names |-> names, firstDepositId |-> firstDepositId,
          from |-> firstBlockToSearch]
  ELSE IF InvalidConfig THEN NoUpdate
  ELSE Query(names, firstDepositId, firstBlockToSearch, toBlock)

(* update(eventsToQuery), up to the first await.                           *)
Start(u) ==
  /\ update[u] = NoUpdate
  /\ \E names \in EventSets :
       update' = [update EXCEPT ![u] =
         IF firstDepositIdForSpokePool = MaxSafeInteger
           THEN [stage |-> "firstDepositId", names |-> names]
           ELSE SearchConfig(names, firstDepositIdForSpokePool)]
  /\ \/ /\ \A v \in Callers : update[v] = NoUpdate
        /\ UNCHANGED overlaps
     \/ /\ \E v \in Callers : update[v] # NoUpdate
        /\ overlaps < MaxOverlaps
        /\ overlaps' = overlaps + 1
  /\ UNCHANGED <<chain, client, toBlock, failures>>

(* numberOfDeposits as of the deployment block is answered.                *)
FirstDepositId(u) ==
  /\ update[u].stage = "firstDepositId"
  /\ update' = [update EXCEPT ![u] =
       SearchConfig(update[u].names, NumberOfDeposits(DeploymentBlock))]
  /\ UNCHANGED <<chain, client, toBlock, bounds>>

AlreadyUpdated_AtHead(u) == head <= update[u].from
AlreadyUpdated(u) == head < update[u].from

(* getBlockNumber is answered; with no new block there is nothing to do.   *)
BlockNumber(u) ==
  /\ update[u].stage = "blockNumber"
  /\ \/ /\ AlreadyUpdated(u)
        /\ update' = [update EXCEPT ![u] = NoUpdate]
     \/ /\ ~AlreadyUpdated(u)
        /\ update' = [update EXCEPT ![u] =
             Query(update[u].names, update[u].firstDepositId, update[u].from, head)]
  /\ UNCHANGED <<chain, client, toBlock, bounds>>

(* Everything update() does once it has all its answers, except that the   *)
(* lists of "names" are the only ones that are appended to.                *)
Commit(u, names) ==
  LET ps == Answer(u, "V3FundsDeposited")
      to == update[u].to
  IN
  /\ depositHashes' = SpedUp(WithDeposits(ps), u)
  /\ earliestDepositIdQueried' = EarliestIdAfter(ps)
  /\ latestDepositIdQueried' = LatestIdAfter(ps)
  /\ stored' = Pushed(u, names)
  /\ slowFillRequests' = WithSlowFillRequests(Answer(u, "RequestedV3SlowFill"))
  /\ depositRoutes' = WithRoutes(Answer(u, "EnabledDepositRoute"))
  /\ currentTime' = BlockTime(to)
  /\ oldestTime' = IF oldestTime = 0 THEN BlockTime(Max({update[u].from, DeploymentBlock}))
                                     ELSE oldestTime
  /\ firstDepositIdForSpokePool' = update[u].firstDepositId
  /\ lastDepositIdForSpokePool' = LastDepositId(to)
  /\ latestBlockSearched' = to
  /\ firstBlockToSearch' = NextStart(to)
  /\ toBlock' = NoBlock
  /\ isUpdated' = TRUE
  /\ update' = [update EXCEPT ![u] = NoUpdate]

(* All queries are answered.  A time before the client's own throws; the   *)
(* bridged tokens are stored before the deposits' quotes are awaited.      *)
Answers(u) ==
  /\ update[u].stage = "query"
  /\ \/ /\ BlockTime(update[u].to) < currentTime
        /\ update' = [update EXCEPT ![u] = NoUpdate]
        /\ UNCHANGED <<client, toBlock>>
     \/ /\ BlockTime(update[u].to) >= currentTime
        /\ "V3FundsDeposited" \in update[u].names
        /\ stored' = Pushed(u, {"TokensBridged"})
        /\ update' = [update EXCEPT ![u].stage = "quotes"]
        /\ UNCHANGED <<window, toBlock, clock, poolIds, depositHashes, queriedIds,
                       slowFillRequests, depositRoutes>>
     \/ /\ BlockTime(update[u].to) >= currentTime
        /\ "V3FundsDeposited" \notin update[u].names
        /\ Commit(u, AppendOnly)
  /\ UNCHANGED <<chain, bounds>>

(* The HubPoolClient has answered for the deposits; the rest is stored.    *)
Quotes(u) ==
  /\ update[u].stage = "quotes"
  /\ Commit(u, AppendOnly \ {"TokensBridged"})
  /\ UNCHANGED <<chain, bounds>>

(* The destination token of a deposit is not known to the HubPoolClient:   *)
(* the deposits before it are stored, and the update throws.               *)
DepositThrows(u) ==
  /\ update[u].stage = "quotes" /\ failures < MaxFailures
  /\ \E p \in Answer(u, "V3FundsDeposited") :
       LET before == {q \in Answer(u, "V3FundsDeposited") : q < p} IN
       /\ depositHashes' = WithDeposits(before)
       /\ earliestDepositIdQueried' = EarliestIdAfter(before)
       /\ latestDepositIdQueried' = LatestIdAfter(before)
  /\ update' = [update EXCEPT ![u] = NoUpdate]
  /\ failures' = failures + 1
  /\ UNCHANGED <<chain, window, toBlock, clock, poolIds, stored, slowFillRequests,
                 depositRoutes, overlaps>>

(* An awaited request is rejected.  No quote is asked for without deposits.*)
Fail(u) ==
  /\ update[u] # NoUpdate /\ failures < MaxFailures
  /\ update[u].stage = "quotes" => Answer(u, "V3FundsDeposited") # {}
  /\ update' = [update EXCEPT ![u] = NoUpdate]
  /\ failures' = failures + 1
  /\ UNCHANGED <<chain, client, toBlock, overlaps>>

Proceed(u) == FirstDepositId(u) \/ BlockNumber(u) \/ Answers(u) \/ Quotes(u)

Next ==
  \/ Emit \/ MineBlock \/ SetToBlock
  \/ \E u \in Callers : Start(u) \/ Proceed(u) \/ DepositThrows(u) \/ Fail(u)

Spec == Init /\ [][Next]_vars

(* The provider answers in the end, and callers keep calling update().     *)
FairSpec == Spec /\ \A u \in Callers : WF_vars(Start(u)) /\ WF_vars(Proceed(u))

-----------------------------------------------------------------------------

TypeOK ==
  /\ head \in Blocks /\ Len(log) <= MaxEvents
  /\ \A p \in DOMAIN log : log[p].name \in Emitted /\ log[p].block \in 0..(head + 1)
  /\ firstBlockToSearch \in Nat /\ latestBlockSearched \in Blocks /\ isUpdated \in BOOLEAN
  /\ toBlock \in ToBlocks \cup {NoBlock}
  /\ currentTime \in Nat /\ oldestTime \in Nat
  /\ {firstDepositIdForSpokePool, lastDepositIdForSpokePool, earliestDepositIdQueried}
       \subseteq Ids \cup {MaxSafeInteger}
  /\ latestDepositIdQueried \in Ids
  /\ DOMAIN depositHashes \subseteq Ids
  /\ \A id \in DOMAIN depositHashes :
       depositHashes[id] \in [event : Positions, speedUp : Positions \cup {NoSpeedUp}]
  /\ stored \in [AppendOnly -> Seq(SUBSET Positions)]
  /\ DOMAIN slowFillRequests \subseteq Relays
  /\ depositRoutes \in [Routes -> {"absent", "true", "false", "object"}]
  /\ \A u \in Callers :
       update[u].stage \in {"idle", "firstDepositId", "blockNumber", "query", "quotes"}
  /\ overlaps \in 0..MaxOverlaps /\ failures \in 0..MaxFailures

(* The events of a kind the client holds.                                  *)
Held(name) ==
  CASE name \in AppendOnly -> UNION {stored[name][i] : i \in DOMAIN stored[name]}
    [] name = "V3FundsDeposited" -> {depositHashes[id].event : id \in DOMAIN depositHashes}
    [] name = "RequestedV3SlowFill" -> {slowFillRequests[r] : r \in DOMAIN slowFillRequests}

(* No event is lost between two updates: whatever fails, is retried or     *)
(* overlaps, all events from fromBlock to latestBlockSearched are held.    *)
NothingMissed ==
  isUpdated =>
    \A n \in EventNames \ {"EnabledDepositRoute"} :
      Found(n, FromBlock, latestBlockSearched) \subseteq Held(n)

(* Without overlapping updates each list holds each event once, in the     *)
(* order of the chain, although only some of the kinds are deduplicated.   *)
(* Bridged tokens are left out: a retry stores them twice (README).        *)
InOrder(batches) ==
  \A i, j \in DOMAIN batches : i < j => \A p \in batches[i], q \in batches[j] : p < q
StoredInOrder ==
  overlaps = 0 => \A n \in AppendOnly \ {"TokensBridged"} : InOrder(stored[n])

(* DepositUtils.queryHistoricalDepositForFill trusts that every deposit    *)
(* with an id between the earliest and the latest queried is in memory,    *)
(* also after an update that threw among its deposits.                     *)
DepositIdRangeComplete ==
  \A id \in earliestDepositIdQueried..latestDepositIdQueried : id \in DOMAIN depositHashes

(* A deposit carries the cheapest speed-up that the client holds and its   *)
(* own depositor signed, if that lowers the output amount.                 *)
CheapestSpeedUpApplied ==
  \A id \in DOMAIN depositHashes :
    LET offers == {p \in Held("RequestedSpeedUpV3Deposit") :
                     /\ log[p].id = id /\ log[p].amount < OutputAmount
                     /\ log[p].depositor = log[depositHashes[id].event].depositor}
        applied == depositHashes[id].speedUp
    IN /\ applied = NoSpeedUp <=> offers = {}
       /\ applied # NoSpeedUp => applied \in offers
       /\ \A p \in offers : log[applied].amount <= log[p].amount

(* A route is open exactly when the last event up to the searched block    *)
(* says so, wherever fromBlock is: its history is always read in full.     *)
LastChange(r) ==
  Max({0} \cup {p \in Found("EnabledDepositRoute", DeploymentBlock, latestBlockSearched) :
                  log[p].route = r})
RoutesCurrent ==
  isUpdated =>
    \A r \in Routes :
      depositRoutes[r] \in {"true", "object"} <=> LastChange(r) # 0 /\ log[LastChange(r)].enabled

(* Without overlapping updates the search window never moves back, even    *)
(* when a caller fixes the end of an update in the past.                   *)
NeverBack ==
  [][ /\ latestBlockSearched' >= latestBlockSearched
      /\ firstBlockToSearch' >= firstBlockToSearch ]_vars

(* Whatever failed or overlapped, the client has searched up to the head   *)
(* again and again; in the model the chain grows to LastBlock at most.     *)
CatchesUp == []<>(latestBlockSearched >= head)

(* What is filled on commit mirrors the chain, whatever fails in between.  *)
Mirrored(positions) == {[position |-> p, block |-> log[p].block] : p \in positions}

FillMirror == INSTANCE EventMirror WITH
  FirstBlock <- FromBlock, horizon <- firstBlockToSearch - 1,
  events <- Mirrored(EventsOf("FilledV3Relay")), mirror <- Mirrored(Held("FilledV3Relay"))
SlowFillMirror == INSTANCE EventMirror WITH
  FirstBlock <- FromBlock, horizon <- firstBlockToSearch - 1,
  events <- Mirrored(EventsOf("RequestedV3SlowFill")),
  mirror <- Mirrored(Held("RequestedV3SlowFill"))
MirrorsRelays == FillMirror!Spec /\ SlowFillMirror!Spec

=============================================================================
