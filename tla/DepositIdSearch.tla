--------------------------- MODULE DepositIdSearch ---------------------------
(***************************************************************************)
(* getBlockRangeForDepositId of src/utils/SpokeUtils.ts: the bounded       *)
(* binary search over SpokePool.numberOfDeposits, one eth_call per probe,  *)
(* that SpokePoolClient.findDeposit uses to cut down the block range of    *)
(* its event query.  The chain is archived history: the blocks up to the   *)
(* client's latestBlockSearched do not change while the search runs, every *)
(* lookup may fail.                                                        *)
(* A definition X_Variant is a deliberately wrong form of X.               *)
(***************************************************************************)
EXTENDS Integers

CONSTANTS
  DeploymentBlock,   \* SpokePoolClient.deploymentBlock
  LastBlock,         \* last block of the modelled history
  MaxDeposits,       \* bound on the contract's deposit counter
  MaxSearchBudget    \* bound on the maxSearches argument

ASSUME DeploymentBlockAssumption == DeploymentBlock \in Nat
ASSUME LastBlockAssumption == LastBlock \in Nat /\ DeploymentBlock <= LastBlock
ASSUME MaxDepositsAssumption == MaxDeposits \in Nat
ASSUME MaxSearchBudgetAssumption == MaxSearchBudget \in Nat

VARIABLES
  numberOfDeposits,  \* the contract's counter as of each block
  call,              \* arguments, and the client's fields the search reads
  pc,                \* "check", "bounds", "search", "done" or "threw"
  low, high,         \* the two ends of the search
  searches,          \* completed iterations of the loop
  queriedIds,        \* blocks whose counter has been looked up
  error              \* which of its errors the call threw, or "none"

given == <<numberOfDeposits, call>>
vars == <<numberOfDeposits, call, pc, low, high, searches, queriedIds, error>>

Blocks == DeploymentBlock..LastBlock

(* A block can hold any number of deposits, none is ever undone.           *)
DepositHistories ==
  {n \in [Blocks -> 0..MaxDeposits] : \A a, b \in Blocks : a <= b => n[a] <= n[b]}

Calls ==
  [target      : -1..MaxDeposits,
   initLow     : 0..LastBlock,
   initHigh    : 0..LastBlock + 1,
   maxSearches : 0..MaxSearchBudget,
   latestBlockSearched : Blocks,
   isUpdated   : BOOLEAN]

Smaller(a, b) == IF a < b THEN a ELSE b
Larger(a, b) == IF a > b THEN a ELSE b

(* initHigh after it has been capped at the client's search window.        *)
CappedHigh == Smaller(call.initHigh, call.latestBlockSearched)

(* The block before the range, where the counter is the range's lowest ID. *)
BlockBeforeRange == Larger(DeploymentBlock, call.initLow - 1)

-----------------------------------------------------------------------------

Init ==
  /\ numberOfDeposits \in DepositHistories
  /\ call \in Calls
  /\ pc = "check"
  /\ low = 0 /\ high = 0
  /\ searches = 0
  /\ queriedIds = {}
  /\ error = "none"

Throw(e) ==
  /\ pc' = "threw"
  /\ error' = e
  /\ UNCHANGED <<given, low, high, searches>>

SaneArguments ==
  /\ call.isUpdated
  /\ call.initLow <= CappedHigh
  /\ call.initLow >= DeploymentBlock
  /\ call.maxSearches > 0

(* The synchronous sanity checks, which run before the first lookup.       *)
CheckArguments ==
  /\ pc = "check"
  /\ \/ /\ SaneArguments
        /\ pc' = "bounds"
        /\ UNCHANGED <<given, low, high, searches, queriedIds, error>>
     \/ /\ ~SaneArguments
        /\ Throw("arguments")
        /\ UNCHANGED queriedIds

(* Both ends are looked up in parallel, then compared with the target.     *)
LookUpBounds ==
  /\ pc = "bounds"
  /\ queriedIds' = queriedIds \cup {CappedHigh, BlockBeforeRange}
  /\ \/ /\ numberOfDeposits[CappedHigh] <= call.target
        /\ Throw("target above range")
     \/ /\ numberOfDeposits[CappedHigh] > call.target
        /\ numberOfDeposits[BlockBeforeRange] > call.target
        /\ Throw("target below range")
     \/ /\ numberOfDeposits[CappedHigh] > call.target
        /\ numberOfDeposits[BlockBeforeRange] <= call.target
        /\ pc' = "search"
        /\ low' = call.initLow
        /\ high' = CappedHigh
        /\ UNCHANGED <<given, searches, error>>

Mid == (low + high) \div 2

(* The target is at most accountedIdByMidBlock, the last ID of block b.    *)
MadeBy_CountAsId(b) == call.target <= numberOfDeposits[b]
MadeBy(b) == call.target <= numberOfDeposits[b] - 1

(* The loop goes on: ++searches <= maxSearches && low < high.              *)
Continues == searches' <= call.maxSearches /\ low' < high'

(* One iteration: look the midpoint up, keep one half, test the condition. *)
Probe ==
  LET mid == Mid IN
  /\ pc = "search"
  /\ queriedIds' = queriedIds \cup {mid}
  /\ \/ /\ MadeBy(mid)
        /\ high' = mid
        /\ low' = low
     \/ /\ ~MadeBy(mid)
        /\ low' = mid + 1
        /\ high' = high
  /\ searches' = searches + 1
  /\ \/ /\ Continues
        /\ UNCHANGED <<pc, error>>
     \/ /\ ~Continues
        /\ low' <= high'
        /\ pc' = "done"
        /\ UNCHANGED error
     \/ /\ ~Continues
        /\ low' > high'
        /\ pc' = "threw"
        /\ error' = "should never happen"
  /\ UNCHANGED given

(* A lookup rejects: the RPC failed, or the answer was no valid counter.   *)
LookupFails ==
  /\ pc \in {"bounds", "search"}
  /\ Throw("lookup")
  /\ UNCHANGED queriedIds

(* The promise is settled: nothing is left to do.                          *)
Settled == pc \in {"done", "threw"} /\ UNCHANGED vars

Next == CheckArguments \/ LookUpBounds \/ Probe \/ LookupFails \/ Settled

Spec == Init /\ [][Next]_vars

-----------------------------------------------------------------------------

TypeOK ==
  /\ numberOfDeposits \in DepositHistories
  /\ call \in Calls
  /\ pc \in {"check", "bounds", "search", "done", "threw"}
  /\ low \in 0..LastBlock
  /\ high \in 0..LastBlock
  /\ searches \in 0..MaxSearchBudget + 1
  /\ queriedIds \subseteq Blocks
  /\ error \in {"none", "arguments", "target above range", "target below range",
                "lookup", "should never happen"}

(* The target deposit was made in block b: the counter passed it there.    *)
MadeIn(b) ==
  /\ b \in Blocks
  /\ numberOfDeposits[b] > call.target
  /\ \A a \in Blocks : a < b => numberOfDeposits[a] <= call.target

(* From the moment the search has bounds until it hands the range over,    *)
(* the range is inside the caller's and the deposit's block is inside it:  *)
(* stopping early (maxSearches) or landing in a block with several         *)
(* deposits never loses the event findDeposit will query [low, high] for.  *)
DepositStaysInRange ==
  pc \in {"search", "done"} =>
    /\ call.initLow <= low /\ low <= high /\ high <= CappedHigh
    /\ \A b \in Blocks : MadeIn(b) => low <= b /\ b <= high
    /\ \E b \in low..high : MadeIn(b)

(* The error the code marks "SHOULD NEVER HAPPEN" does not happen.         *)
NeverInverted == error # "should never happen"

(* The two range errors are only thrown for a deposit that was not made in *)
(* the range asked for; the block of deployment is the one exception, as   *)
(* no deposit is expected in it.                                           *)
RefusalIsRight ==
  error \in {"target above range", "target below range"} =>
    \A b \in call.initLow..CappedHigh : MadeIn(b) => b = DeploymentBlock

(* The stage of the abstract search a stage of the call stands for.        *)
AbstractStatus ==
  CASE pc \in {"check", "bounds"} -> "idle"
    [] pc = "search" -> "searching"
    [] pc = "done" -> "ended"
    [] pc = "threw" -> "refused"

(* The call implements a search for the leftmost block whose counter has   *)
(* passed the target.                                                      *)
Abstract == INSTANCE LeftmostSearch WITH
  Blocks <- Blocks,
  holds <- [b \in Blocks |-> numberOfDeposits[b] > call.target],
  lo <- low, hi <- high,
  status <- AbstractStatus

ImplementsLeftmostSearch == Abstract!Spec

=============================================================================
