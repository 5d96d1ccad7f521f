--------------------------- MODULE FillBlockSearch ---------------------------
(***************************************************************************)
(* findFillBlock of src/utils/SpokeUtils.ts: the binary search over        *)
(* SpokePool.fillStatuses for the block in which a relay was completed.    *)
(* Unlike DepositIdSearch it has no budget: it runs until one block is     *)
(* left.  The chain goes on while the search runs; the status at a block   *)
(* that is already mined does not change.                                  *)
(* A definition X_Variant is a deliberately wrong form of X.               *)
(***************************************************************************)
EXTENDS Integers

CONSTANTS
  LastBlock,          \* last block of the modelled history
  NoBlock             \* the value "undefined" of a block number

ASSUME LastBlockAssumption == LastBlock \in Nat
ASSUME NoBlockAssumption == NoBlock \notin Nat

VARIABLES
  fillStatus,         \* the contract's status of the relay as of each block
  head,               \* the provider's current block number
  call,               \* the arguments
  pc,                 \* "start", "bounds", "search", "done" or "threw"
  lowBlockNumber, highBlockNumber,
  result              \* the block number returned, NoBlock when undefined

given == <<fillStatus, call>>
vars == <<fillStatus, head, call, pc, lowBlockNumber, highBlockNumber, result>>

Blocks == 0..LastBlock

(* FillStatus of src/interfaces/SpokePool.ts.                              *)
Unfilled == 0
RequestedSlowFill == 1
Filled == 2

(* A relay is filled at most once and never un-filled; a slow fill may     *)
(* have been requested before.                                             *)
StatusHistories ==
  {s \in [Blocks -> Unfilled..Filled] : \A a, b \in Blocks : a <= b => s[a] <= s[b]}

(* The caller's bounds; highBlock may be left out.  A block that is not    *)
(* mined yet cannot be a caller's bound: eth_call would refuse it.         *)
Calls == [low : Blocks, high : Blocks \cup {NoBlock}, sameChain : BOOLEAN]

-----------------------------------------------------------------------------

Init ==
  /\ fillStatus \in StatusHistories
  /\ head \in Blocks
  /\ call \in {c \in Calls : c.low <= head /\ (c.high # NoBlock => c.high <= head)}
  /\ pc = "start"
  /\ lowBlockNumber = 0 /\ highBlockNumber = 0
  /\ result = NoBlock

Threw == pc' = "threw" /\ UNCHANGED <<head, given, lowBlockNumber, highBlockNumber, result>>

(* The chain the relay lives on, up to the bound of the model.             *)
MineBlock ==
  /\ head < LastBlock
  /\ head' = head + 1
  /\ UNCHANGED <<given, pc, lowBlockNumber, highBlockNumber, result>>

HighBlock == IF call.high = NoBlock THEN head ELSE call.high

(* highBlockNumber ??= getBlockNumber(), then the two assertions.          *)
ResolveBounds ==
  LET high == HighBlock IN
  /\ pc = "start"
  /\ \/ /\ high > call.low /\ ~call.sameChain
        /\ pc' = "bounds"
        /\ lowBlockNumber' = call.low
        /\ highBlockNumber' = high
        /\ UNCHANGED <<given, head, result>>
     \/ /\ high <= call.low \/ call.sameChain
        /\ Threw

IsFilled_Requested(b) == fillStatus[b] # Unfilled
IsFilled_Swapped(b) == fillStatus[b] = RequestedSlowFill
IsFilled(b) == fillStatus[b] = Filled

(* The status at both ends, looked up in parallel.                         *)
LookUpBounds ==
  /\ pc = "bounds"
  /\ \/ /\ ~IsFilled(highBlockNumber)
        /\ pc' = "done"                    \* returns undefined
     \/ /\ IsFilled(highBlockNumber)
        /\ IsFilled(lowBlockNumber)
        /\ pc' = "threw"                   \* filled before the range
     \/ /\ IsFilled(highBlockNumber)
        /\ ~IsFilled(lowBlockNumber)
        /\ pc' = "search"
  /\ UNCHANGED <<given, head, lowBlockNumber, highBlockNumber, result>>

Mid_RoundedUp == (highBlockNumber + lowBlockNumber + 1) \div 2
Mid == (highBlockNumber + lowBlockNumber) \div 2

LeftToSearch_TwoBlocks == lowBlockNumber' + 1 < highBlockNumber'
LeftToSearch == lowBlockNumber' < highBlockNumber'

(* One iteration: the status at the midpoint, one half kept, the loop test.*)
Probe ==
  LET mid == Mid IN
  /\ pc = "search"
  /\ \/ /\ IsFilled(mid)
        /\ highBlockNumber' = mid
        /\ UNCHANGED lowBlockNumber
     \/ /\ ~IsFilled(mid)
        /\ lowBlockNumber' = mid + 1
        /\ UNCHANGED highBlockNumber
  /\ \/ /\ LeftToSearch
        /\ UNCHANGED <<pc, result>>
     \/ /\ ~LeftToSearch
        /\ pc' = "done"
        /\ result' = lowBlockNumber'
  /\ UNCHANGED <<given, head>>

(* A lookup rejects, or answers with a status the enum does not know.      *)
LookupFails == pc \in {"start", "bounds", "search"} /\ Threw

(* The promise is settled: nothing is left to do.                          *)
Settled == pc \in {"done", "threw"} /\ UNCHANGED vars

Next ==
  MineBlock \/ ResolveBounds \/ LookUpBounds \/ Probe \/ LookupFails \/ Settled

Spec == Init /\ [][Next]_vars /\ WF_vars(ResolveBounds \/ LookUpBounds \/ Probe)

-----------------------------------------------------------------------------

TypeOK ==
  /\ fillStatus \in StatusHistories
  /\ head \in Blocks
  /\ call \in Calls
  /\ pc \in {"start", "bounds", "search", "done", "threw"}
  /\ lowBlockNumber \in Blocks /\ highBlockNumber \in Blocks
  /\ result \in Blocks \cup {NoBlock}

(* The relay was completed in block b.                                     *)
FilledIn(b) ==
  /\ b \in Blocks
  /\ fillStatus[b] = Filled
  /\ \A a \in Blocks : a < b => fillStatus[a] # Filled

(* A block number that is returned is the block of the fill itself (not    *)
(* of the request for a slow fill, nor a later block), inside the          *)
(* caller's bounds.                                                        *)
ResultIsFillBlock ==
  result # NoBlock => FilledIn(result) /\ call.low < result /\ result <= head

(* "Undefined" is only returned for a relay that was not filled by the     *)
(* caller's upper bound.  The head may have moved on since it was read.    *)
UndefinedMeansUnfilled ==
  pc = "done" /\ result = NoBlock =>
    \A b \in Blocks : FilledIn(b) => b > highBlockNumber

(* With a provider that answers, the unbounded loop ends.                  *)
EventuallySettles == <>(pc \in {"done", "threw"})

(* The stage of the abstract search a stage of the call stands for, and    *)
(* its interval, which does not exist before the search has begun.         *)
AbstractStatus ==
  CASE pc \in {"start", "bounds"} -> "idle"
    [] pc = "search" -> "searching"
    [] pc = "done" /\ result # NoBlock -> "ended"
    [] pc = "threw" \/ (pc = "done" /\ result = NoBlock) -> "refused"

AbstractLow == IF pc \in {"start", "bounds"} THEN 0 ELSE lowBlockNumber
AbstractHigh == IF pc \in {"start", "bounds"} THEN 0 ELSE highBlockNumber

(* The call implements a search for the leftmost block at which the relay  *)
(* is filled.                                                              *)
Abstract == INSTANCE LeftmostSearch WITH
  Blocks <- Blocks,
  holds <- [b \in Blocks |-> fillStatus[b] = Filled],
  lo <- AbstractLow, hi <- AbstractHigh,
  status <- AbstractStatus

ImplementsLeftmostSearch == Abstract!Spec

=============================================================================
