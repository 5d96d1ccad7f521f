--------------------------- MODULE DepositQueries ---------------------------
(***************************************************************************)
(* queryHistoricalDepositForFill of src/utils/DepositUtils.ts: the deposit *)
(* a fill belongs to is looked for in the SpokePoolClient's memory, then   *)
(* in a cache, and at last on the chain by SpokePoolClient.findDeposit,    *)
(* which is DepositIdSearch and one event query.  The client goes on being *)
(* updated while the query awaits.                                         *)
(*                                                                         *)
(* A fill names a deposit ID and has a relay hash.  All that matters of    *)
(* the hash is where it differs from the hash of the deposit that has the  *)
(* ID: nowhere, in the depositor or destination, or in anything else.  The *)
(* origin chain is the client's: for any other the query throws at once.   *)
(* One query is followed; of the cache, what it has for its deposit.       *)
(* A client's callers may leave the deposits out of updates from some time *)
(* on, and do not ask for them again after that: see the README.           *)
(* A definition X_Variant is a deliberately wrong form of X.               *)
(***************************************************************************)
EXTENDS DepositIdSearch, FiniteSets

CONSTANTS
  FromBlocks,        \* the values of eventSearchConfig.fromBlock
  NotQueried         \* MAX_SAFE_INTEGER, the first ID before any is queried

ASSUME FromAssumption == FromBlocks \subseteq Blocks
ASSUME BudgetAssumption == MaxSearchBudget > 0
ASSUME NotQueriedAssumption == NotQueried \in Nat /\ NotQueried > MaxDeposits

VARIABLES
  fill,              \* what the query is about
  client,            \* the SpokePoolClient's fields that the query reads
  cached,            \* what the cache holds under the deposit's own key
  stage,             \* where the query stands
  result             \* what it has returned

search == <<call, pc, low, high, searches, queriedIds, error>>
queryVars == <<fill, client, cached, stage, result, vars>>

Differences == {"none", "depositor or destination", "other data"}
Ages == {"future", "fresh", "settled"}
Budget == MaxSearchBudget

Fills == [id : 0..MaxDeposits, difference : Differences, quoteAge : Ages]

(* The IDs of the deposits made from block a to block b.                   *)
CounterBefore(a) == IF a = DeploymentBlock THEN 0 ELSE numberOfDeposits[a - 1]
IdsMade(a, b) == {id \in 0..MaxDeposits : CounterBefore(a) <= id /\ id < numberOfDeposits[b]}
Least(S) == CHOOSE a \in S : \A b \in S : a <= b
Greatest(S) == CHOOSE a \in S : \A b \in S : a >= b

(* The range of IDs that the client keeps as it stores deposits one by one *)
(* (see SpokePoolClient), and the pool's first and last ID as of block b,  *)
(* of which the last is never below 0.                                     *)
LastPoolId(b) == Larger(numberOfDeposits[b] - 1, 0)
EarliestQueried(held) == IF held = {} THEN NotQueried ELSE Least(held)
LatestQueried_OfPool(held) == LastPoolId(client.latestBlockSearched)
LatestQueried(held) == IF held = {} THEN 0 ELSE Greatest(held)
FirstPoolId == numberOfDeposits[DeploymentBlock]

-----------------------------------------------------------------------------
(* The deposit is the fill's if their relay hashes agree, see FlowUtils.   *)
ValidFill == fill.difference = "none"

(* The key of the fill is the deposit's only if the hashes agree.          *)
CachedForFill == IF ValidFill THEN cached ELSE "nothing"

Found == [found |-> TRUE, code |-> "none"]
NotFound(code) == [found |-> FALSE, code |-> code]
Validated_ByIdOnly == Found
Validated == IF ValidFill THEN Found ELSE NotFound("FillMismatch")

(* The cache takes only deposits whose quote is as old as the safe lag.    *)
ShouldCache == fill.quoteAge = "settled"

QueryInit ==
  /\ numberOfDeposits \in DepositHistories
  /\ fill \in Fills
  /\ \E from \in FromBlocks, b \in Blocks, all \in BOOLEAN :
       /\ from <= b
       /\ client = [latestBlockSearched |-> b, queriesDeposits |-> all,
                    held |-> IF all THEN IdsMade(from, b) ELSE {}]
  /\ cached \in {"nothing", "deposit", "malformed"}
  /\ cached # "nothing" =>
       fill.id < numberOfDeposits[LastBlock]
  /\ call = [target |-> fill.id, initLow |-> DeploymentBlock, initHigh |-> DeploymentBlock,
             maxSearches |-> Budget, latestBlockSearched |-> DeploymentBlock, isUpdated |-> TRUE]
  /\ pc = "check" /\ low = 0 /\ high = 0 /\ searches = 0
  /\ queriedIds = {} /\ error = "none"
  /\ stage = "start" /\ result = NotFound("pending")

(* SpokePoolClient.update() commits: the window moves on, and the memory   *)
(* with it while the client's callers ask for deposits.                    *)
ClientUpdates ==
  /\ stage \notin {"returned", "threw", "failed"}
  /\ \E b \in Blocks, all \in {client.queriesDeposits, FALSE} :
       /\ b > client.latestBlockSearched
       /\ client' =
            [latestBlockSearched |-> b, queriesDeposits |-> all,
             held |-> IF all THEN client.held \cup IdsMade(client.latestBlockSearched + 1, b)
                             ELSE client.held]
  /\ UNCHANGED <<numberOfDeposits, fill, cached, stage, result, search>>

OutsidePool == fill.id < FirstPoolId \/ fill.id > LastPoolId(client.latestBlockSearched)
InRange == EarliestQueried(client.held) <= fill.id /\ fill.id <= LatestQueried(client.held)

(* Up to the first await: the pool's IDs, then the memory.                 *)
Return(r) == stage' = "returned" /\ result' = r
Start ==
  /\ stage = "start"
  /\ \/ /\ OutsidePool
        /\ Return(NotFound("DepositIdInvalid"))
     \/ /\ ~OutsidePool /\ InRange
        /\ Return(IF fill.id \in client.held THEN Validated ELSE NotFound("DepositIdNotFound"))
     \/ /\ ~OutsidePool /\ ~InRange
        /\ stage' = "cache" /\ UNCHANGED result
  /\ UNCHANGED <<numberOfDeposits, fill, client, cached, search>>

(* The cache is read; what is not formed correctly counts as missing.  The *)
(* search that starts then reads the client's window as it is now.         *)
Find ==
  /\ stage' = "search"
  /\ call' = [call EXCEPT !.initHigh = client.latestBlockSearched,
                          !.latestBlockSearched = client.latestBlockSearched]
CacheAnswers ==
  /\ stage = "cache"
  /\ \/ /\ CachedForFill = "deposit"
        /\ Return(Validated)
        /\ UNCHANGED call
     \/ /\ CachedForFill # "deposit"
        /\ Find
        /\ UNCHANGED result
  /\ UNCHANGED <<numberOfDeposits, fill, client, cached, pc, low, high, searches, queriedIds, error>>

(* The block range is searched for.                                        *)
Search ==
  /\ stage = "search"
  /\ CheckArguments \/ LookUpBounds \/ Probe \/ LookupFails
  /\ UNCHANGED <<fill, client, cached, stage, result>>

(* An error of the search rejects the query.                               *)
SearchThrew ==
  /\ stage = "search" /\ pc = "threw"
  /\ stage' = "threw"
  /\ UNCHANGED <<numberOfDeposits, fill, client, cached, result, search>>

(* The event query on the range, for the ID and the fill's destination and *)
(* depositor, and the quote of the event it finds.                         *)
EventInRange_OneBlock ==
  CounterBefore(low) <= fill.id /\ fill.id < numberOfDeposits[low]
EventInRange ==
  \E b \in low..high : CounterBefore(b) <= fill.id /\ fill.id < numberOfDeposits[b]
QueryFinds == EventInRange /\ fill.difference # "depositor or destination"
QueryEvents ==
  /\ stage = "search" /\ pc = "done"
  /\ stage' = IF QueryFinds THEN "found" ELSE "threw"
  /\ UNCHANGED <<numberOfDeposits, fill, client, cached, result, search>>

(* The deposit is put in the cache under its own key, unless it is young.  *)
KeepInCache ==
  /\ stage = "found"
  /\ cached' = IF ShouldCache THEN "deposit" ELSE cached
  /\ Return(Validated)
  /\ UNCHANGED <<numberOfDeposits, fill, client, search>>

(* The cache, the event query or the quote is rejected.                    *)
Fail ==
  /\ stage \in {"cache", "found"} \/ (stage = "search" /\ pc = "done")
  /\ stage' = "failed"
  /\ UNCHANGED <<numberOfDeposits, fill, client, cached, result, search>>

Ended == stage \in {"returned", "threw", "failed"} /\ UNCHANGED queryVars

QueryNext ==
  \/ ClientUpdates \/ Start \/ CacheAnswers \/ Search \/ SearchThrew
  \/ QueryEvents \/ KeepInCache \/ Fail \/ Ended

QuerySpec == QueryInit /\ [][QueryNext]_queryVars

-----------------------------------------------------------------------------

(* The fill's deposit exists by block b.                                   *)
DepositedBy(b) == fill.id < numberOfDeposits[b]
DeployedWith == fill.id < numberOfDeposits[DeploymentBlock]

(* Whichever of memory, cache and chain has answered, and whatever updates *)
(* came in between: a deposit is returned only for a fill of a deposit     *)
(* that was made, and of exactly that deposit.                             *)
FoundMeansDeposited ==
  stage = "returned" /\ result.found =>
    DepositedBy(LastBlock) /\ ValidFill

(* A fill is called invalid for its ID only if the deposit is not there    *)
(* (the code expects none in the deployment block), for a mismatch only if *)
(* it has one; and that an ID is in range but not in memory never happens. *)
InvalidIsRight ==
  stage = "returned" /\ ~result.found =>
    /\ result.code # "DepositIdNotFound"
    /\ result.code = "FillMismatch" => ~ValidFill /\ DepositedBy(client.latestBlockSearched)
    /\ result.code = "DepositIdInvalid" => DeployedWith \/ ~DepositedBy(client.latestBlockSearched)

(* As long as no request fails, the deposit of a fill is found on the      *)
(* chain, in whatever range of blocks the search was left with when its    *)
(* budget ran out: the query throws only if there is no deposit yet, if one was made  *)
(* in the deployment block, or if its depositor or destination differ.     *)
SearchFindsDeposit ==
  stage = "threw" /\ error # "lookup" =>
    \/ DeployedWith \/ numberOfDeposits[call.latestBlockSearched] = 0
    \/ fill.difference = "depositor or destination"

=============================================================================
