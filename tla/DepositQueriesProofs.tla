------------------------ MODULE DepositQueriesProofs ------------------------
(***************************************************************************)
(* Proofs about DepositIdSearch and about DepositQueries, the query that   *)
(* calls it.  The first part is about the search alone, for every chain    *)
(* length, every history of the deposit counter and every budget; the      *)
(* second adds every client that is updated while the query awaits.        *)
(***************************************************************************)
EXTENDS DepositQueries, WellFoundedInduction, TLAPS

-----------------------------------------------------------------------------
(* The search.                                                             *)

USE DeploymentBlockAssumption, LastBlockAssumption, MaxDepositsAssumption,
    MaxSearchBudgetAssumption

(* What the search maintains: every block below low has a counter that has *)
(* not passed the target, the counter at high has.  It is inductive with   *)
(* the types; DepositStaysInRange follows from it.                         *)
Bracketed ==
  pc \in {"search", "done"} =>
    /\ SaneArguments
    /\ call.initLow <= low /\ low <= high /\ high <= CappedHigh
    /\ numberOfDeposits[high] > call.target
    /\ \A b \in Blocks : b < low => numberOfDeposits[b] <= call.target

(* The checks on the arguments have passed once a lookup is made.          *)
ArgumentsChecked == pc = "bounds" => SaneArguments

(* An iteration is only begun within the budget.                           *)
BudgetKept ==
  /\ pc \in {"check", "bounds"} => searches = 0
  /\ pc = "search" => searches <= call.maxSearches

(* A range error leaves the evidence it was thrown on.                     *)
RefusalEvidence ==
  error \in {"target above range", "target below range"} =>
    /\ SaneArguments
    /\ \/ numberOfDeposits[CappedHigh] <= call.target
       \/ numberOfDeposits[BlockBeforeRange] > call.target

IInv ==
  TypeOK /\ Bracketed /\ ArgumentsChecked /\ BudgetKept /\ NeverInverted /\ RefusalEvidence

-----------------------------------------------------------------------------

(* The midpoint of a range lies in it, and below its end if it has one.    *)
LEMMA MidpointInRange ==
  ASSUME NEW l \in Nat, NEW h \in Nat, l <= h
  PROVE  LET m == (l + h) \div 2
         IN  m \in Nat /\ l <= m /\ m <= h /\ (l < h => m < h)
  OBVIOUS

(* The counter, the arguments and the bounds as numbers.                   *)
LEMMA Numbers ==
  ASSUME TypeOK
  PROVE  /\ low \in Nat /\ high \in Nat /\ searches \in Nat
         /\ \A b \in Blocks : b \in Nat /\ numberOfDeposits[b] \in Nat
         /\ \A a, b \in Blocks : a <= b => numberOfDeposits[a] <= numberOfDeposits[b]
         /\ call.target \in Int /\ call.initLow \in Nat /\ call.initHigh \in Nat
         /\ call.maxSearches \in 0..MaxSearchBudget
         /\ call.latestBlockSearched \in Blocks
         /\ call.isUpdated \in BOOLEAN
<1>1. numberOfDeposits \in [Blocks -> 0..MaxDeposits]
  BY DEF TypeOK, DepositHistories
<1>2. \A a, b \in Blocks : a <= b => numberOfDeposits[a] <= numberOfDeposits[b]
  BY DEF TypeOK, DepositHistories
<1>3. \A b \in Blocks : b \in Nat
  BY DEF Blocks
<1>4. /\ call.target \in -1..MaxDeposits /\ call.initLow \in 0..LastBlock
      /\ call.initHigh \in 0..LastBlock + 1
      /\ call.maxSearches \in 0..MaxSearchBudget
      /\ call.latestBlockSearched \in Blocks
      /\ call.isUpdated \in BOOLEAN
  BY DEF TypeOK, Calls
<1>5. low \in 0..LastBlock /\ high \in 0..LastBlock /\ searches \in 0..MaxSearchBudget + 1
  BY DEF TypeOK
<1>6. low \in Nat /\ high \in Nat /\ searches \in Nat
  BY <1>5
<1> QED
  BY <1>1, <1>2, <1>3, <1>4, <1>6

(* The blocks the call looks at once its arguments have been accepted.     *)
LEMMA AcceptedBounds ==
  ASSUME TypeOK, SaneArguments
  PROVE  /\ CappedHigh \in Blocks /\ BlockBeforeRange \in Blocks
         /\ call.initLow \in Blocks /\ call.initLow <= CappedHigh
         /\ \A b \in Blocks : b < call.initLow => b <= BlockBeforeRange
  BY Numbers DEF SaneArguments, CappedHigh, BlockBeforeRange, Blocks, Smaller, Larger

(* A set of natural numbers that is not empty has a least element.         *)
LEMMA LeastNatural ==
  \A T \in SUBSET Nat : T # {} => \E m \in T : \A k \in T : m <= k
<1> DEFINE R == {ss \in Nat \X Nat : ss[1] < ss[2]}
<1> SUFFICES ASSUME NEW T \in SUBSET Nat, T # {}
             PROVE  \E m \in T : \A k \in T : m <= k
  OBVIOUS
<1>1. IsWellFoundedOn(R, Nat)
  BY NatLessThanWellFounded, Zenon DEF OpToRel
<1>2. \A x, y \in Nat : y < x => <<y, x>> \in R
  OBVIOUS
<1> HIDE DEF R
<1>3. PICK m \in T : \A k \in T : <<k, m>> \notin R
  BY <1>1, WFMin, Zenon
<1>4. \A k \in T : k \in Nat /\ m \in Nat /\ ~(k < m)
  BY <1>2, <1>3
<1> QED
  BY <1>4

(* If the counter has passed the target at a block, the target deposit was *)
(* made in that block or before.                                           *)
LEMMA CounterPassedMeansMade ==
  ASSUME TypeOK, NEW h \in Blocks, numberOfDeposits[h] > call.target
  PROVE  \E b \in Blocks : b <= h /\ MadeIn(b)
<1> DEFINE T == {b \in Blocks : numberOfDeposits[b] > call.target}
<1>1. T \in SUBSET Nat /\ h \in T
  BY DEF Blocks
<1>2. PICK m \in T : \A k \in T : m <= k
  BY <1>1, LeastNatural
<1>3. \A a \in Blocks : a < m => ~(numberOfDeposits[a] > call.target)
  BY <1>2, <1>1
<1>4. \A a \in Blocks : numberOfDeposits[a] \in Int /\ call.target \in Int
  BY Numbers
<1>5. \A a \in Blocks : a < m => numberOfDeposits[a] <= call.target
  BY <1>3, <1>4
<1> QED
  BY <1>1, <1>2, <1>5 DEF MadeIn
-----------------------------------------------------------------------------

(* The initial states satisfy the invariant.                               *)
LEMMA InitIInv == Init => IInv
  BY DEF Init, IInv, TypeOK, Bracketed, ArgumentsChecked, BudgetKept, NeverInverted,
         RefusalEvidence

(* Throwing leaves the search where it was: only the types, and the        *)
(* evidence of the error, are at stake.                                    *)
LEMMA ThrowIInv ==
  ASSUME IInv, NEW e, Throw(e), queriedIds' \subseteq Blocks,
         e \in {"arguments", "lookup", "target above range", "target below range"},
         e \in {"target above range", "target below range"} =>
           /\ SaneArguments
           /\ \/ numberOfDeposits[CappedHigh] <= call.target
              \/ numberOfDeposits[BlockBeforeRange] > call.target
  PROVE  IInv'
  BY DEF IInv, TypeOK, Bracketed, ArgumentsChecked, BudgetKept, NeverInverted,
         RefusalEvidence, Throw, given, SaneArguments, CappedHigh, BlockBeforeRange

(* The bounds are in range, and what is below the range has not passed.    *)
LEMMA LookUpBoundsIInv ==
  ASSUME IInv, LookUpBounds
  PROVE  IInv'
<1>1. SaneArguments
  BY DEF IInv, ArgumentsChecked, LookUpBounds
<1>2. /\ CappedHigh \in Blocks /\ BlockBeforeRange \in Blocks
      /\ call.initLow \in Blocks /\ call.initLow <= CappedHigh
      /\ \A b \in Blocks : b < call.initLow => b <= BlockBeforeRange
  BY <1>1, AcceptedBounds DEF IInv
<1>3. queriedIds' \subseteq Blocks
  BY <1>2 DEF LookUpBounds, IInv, TypeOK
<1>4. CASE numberOfDeposits[CappedHigh] <= call.target /\ Throw("target above range")
  BY <1>1, <1>3, <1>4, ThrowIInv
<1>5. CASE numberOfDeposits[BlockBeforeRange] > call.target /\ Throw("target below range")
  BY <1>1, <1>3, <1>5, ThrowIInv
<1>6. CASE /\ numberOfDeposits[CappedHigh] > call.target
           /\ numberOfDeposits[BlockBeforeRange] <= call.target
           /\ pc' = "search" /\ low' = call.initLow /\ high' = CappedHigh
           /\ UNCHANGED <<given, searches, error>>
  <2> TypeOK
    BY DEF IInv
  <2>1. TypeOK'
    <3>1. low' \in 0..LastBlock /\ high' \in 0..LastBlock
      BY <1>2, <1>6 DEF Blocks
    <3> QED
      BY <1>3, <1>6, <3>1 DEF TypeOK, given
  <2>2. \A b \in Blocks : b < call.initLow => numberOfDeposits[b] <= call.target
    BY <1>2, <1>6, Numbers DEF IInv
  <2>3. Bracketed'
    BY <1>1, <1>2, <1>6, <2>2 DEF Bracketed, given, SaneArguments, CappedHigh, Blocks
  <2>4. BudgetKept'
    <3>1. searches = 0
      BY DEF IInv, BudgetKept, LookUpBounds
    <3>2. searches <= call.maxSearches
      BY <1>1, <3>1, Numbers DEF SaneArguments
    <3> QED BY <1>6, <3>2 DEF BudgetKept, given
  <2>5. ArgumentsChecked' /\ NeverInverted' /\ RefusalEvidence'
    BY <1>1, <1>6 DEF IInv, ArgumentsChecked, NeverInverted, RefusalEvidence, given,
         SaneArguments, CappedHigh, BlockBeforeRange
  <2> QED BY <2>1, <2>3, <2>4, <2>5 DEF IInv
<1> QED
  BY <1>4, <1>5, <1>6 DEF LookUpBounds

(* Where an iteration starts from, and the midpoint it probes.             *)
LEMMA ProbeSetting ==
  ASSUME IInv, pc = "search"
  PROVE  LET mid == Mid
         IN  /\ SaneArguments
             /\ call.initLow <= low /\ low <= high /\ high <= CappedHigh
             /\ numberOfDeposits[high] > call.target
             /\ \A b \in Blocks : b < low => numberOfDeposits[b] <= call.target
             /\ low \in Blocks /\ high \in Blocks
             /\ mid \in Blocks /\ low <= mid /\ mid <= high /\ (low < high => mid < high)
<1> DEFINE mid == Mid
<1>1. /\ SaneArguments
      /\ call.initLow <= low /\ low <= high /\ high <= CappedHigh
      /\ numberOfDeposits[high] > call.target
      /\ \A b \in Blocks : b < low => numberOfDeposits[b] <= call.target
  BY DEF IInv, Bracketed
<1> TypeOK
  BY DEF IInv
<1>2. low \in Blocks /\ high \in Blocks
  <2>1. CappedHigh \in Blocks /\ call.initLow \in Blocks
    BY <1>1, AcceptedBounds
  <2>2. low \in Nat /\ high \in Nat
    BY Numbers
  <2> QED
    BY <1>1, <2>1, <2>2 DEF Blocks
<1>3. mid \in Blocks /\ low <= mid /\ mid <= high /\ (low < high => mid < high)
  BY <1>1, <1>2, MidpointInRange DEF Blocks, Mid
<1> QED
  BY <1>1, <1>2, <1>3

(* Either half keeps the bracket, and the loop cannot invert the bounds.   *)
LEMMA ProbeNarrows ==
  ASSUME IInv, Probe
  PROVE  /\ low <= low' /\ low' <= high' /\ high' <= high
         /\ low' \in Blocks /\ high' \in Blocks
         /\ numberOfDeposits[high'] > call.target
         /\ \A b \in Blocks : b < low' => numberOfDeposits[b] <= call.target
<1> DEFINE mid == Mid
<1>0. /\ pc = "search" /\ UNCHANGED given
      /\ searches' = searches + 1 /\ queriedIds' = queriedIds \cup {mid}
  BY DEF Probe
<1>1. /\ SaneArguments
      /\ call.initLow <= low /\ low <= high /\ high <= CappedHigh
      /\ numberOfDeposits[high] > call.target
      /\ \A b \in Blocks : b < low => numberOfDeposits[b] <= call.target
  BY <1>0, ProbeSetting
<1>2. low \in Blocks /\ high \in Blocks
  BY <1>0, ProbeSetting
<1>3. mid \in Blocks /\ low <= mid /\ mid <= high /\ (low < high => mid < high)
  BY <1>0, ProbeSetting
<1> TypeOK
  BY DEF IInv
<1> HIDE DEF mid
<1>4. /\ numberOfDeposits[mid] \in Nat /\ numberOfDeposits[high] \in Nat
      /\ call.target \in Int
  BY <1>2, <1>3, Numbers
<1>5. CASE MadeBy(mid) /\ high' = mid /\ low' = low
  <2>1. numberOfDeposits[mid] > call.target
    BY <1>4, <1>5 DEF MadeBy
  <2> QED
    BY <1>1, <1>2, <1>3, <1>5, <2>1 DEF Blocks
<1>6. CASE ~MadeBy(mid) /\ low' = mid + 1 /\ high' = high
  <2>1. numberOfDeposits[mid] <= call.target
    BY <1>4, <1>6 DEF MadeBy
  <2>2. mid < high
    BY <1>1, <1>2, <1>3, <1>4, <2>1 DEF Blocks
  <2>3. \A b \in Blocks : b < mid + 1 => b <= mid
    BY <1>3 DEF Blocks
  <2>4. \A b \in Blocks : b < mid + 1 => numberOfDeposits[b] <= call.target
    BY <1>3, <1>4, <2>1, <2>3, Numbers DEF IInv
  <2> QED
    BY <1>1, <1>2, <1>3, <1>6, <2>2, <2>4 DEF Blocks
<1> QED BY <1>5, <1>6 DEF Probe, mid

(* One iteration of the loop keeps the invariant.                          *)
LEMMA ProbeIInv ==
  ASSUME IInv, Probe
  PROVE  IInv'
<1> DEFINE mid == Mid
<1>0. /\ pc = "search" /\ UNCHANGED given
      /\ searches' = searches + 1 /\ queriedIds' = queriedIds \cup {mid}
  BY DEF Probe
<1>1. /\ SaneArguments
      /\ call.initLow <= low /\ low <= high /\ high <= CappedHigh
      /\ numberOfDeposits[high] > call.target
      /\ \A b \in Blocks : b < low => numberOfDeposits[b] <= call.target
  BY <1>0, ProbeSetting
<1>2. low \in Blocks /\ high \in Blocks
  BY <1>0, ProbeSetting
<1>3. mid \in Blocks /\ low <= mid /\ mid <= high /\ (low < high => mid < high)
  BY <1>0, ProbeSetting
<1> TypeOK
  BY DEF IInv
<1> HIDE DEF mid
<1>4. /\ numberOfDeposits[mid] \in Nat /\ numberOfDeposits[high] \in Nat
      /\ call.target \in Int
      /\ searches \in Nat /\ searches <= call.maxSearches
      /\ call.maxSearches \in 0..MaxSearchBudget
  <2>1. searches <= call.maxSearches
    BY <1>0 DEF IInv, BudgetKept
  <2> QED
    BY <1>2, <1>3, <2>1, Numbers
<1>5. /\ low <= low' /\ low' <= high' /\ high' <= high
      /\ low' \in Blocks /\ high' \in Blocks
      /\ numberOfDeposits[high'] > call.target
      /\ \A b \in Blocks : b < low' => numberOfDeposits[b] <= call.target
  BY ProbeNarrows
<1>6. pc' \in {"search", "done"} /\ error' = error
  <2>1. ~(low' > high')
    BY <1>5 DEF Blocks
  <2>2. \/ UNCHANGED <<pc, error>>
        \/ pc' = "done" /\ UNCHANGED error
        \/ low' > high'
    BY DEF Probe
  <2> QED BY <1>0, <2>1, <2>2
<1>7. numberOfDeposits' = numberOfDeposits /\ call' = call
  BY <1>0 DEF given
<1>8. TypeOK'
  <2>1. searches' \in 0..MaxSearchBudget + 1
    BY <1>0, <1>4
  <2>2. queriedIds' \subseteq Blocks
    BY <1>0, <1>3 DEF IInv, TypeOK
  <2>3. low' \in 0..LastBlock /\ high' \in 0..LastBlock
    BY <1>5 DEF Blocks
  <2> QED
    BY <1>6, <1>7, <2>1, <2>2, <2>3 DEF IInv, TypeOK
<1>9. Bracketed'
  <2>1. CappedHigh \in Int /\ call.initLow \in Int
    BY <1>1, AcceptedBounds DEF Blocks
  <2>2. call.initLow <= low' /\ high' <= CappedHigh
    BY <1>1, <1>2, <1>5, <2>1 DEF Blocks
  <2>3. SaneArguments' /\ CappedHigh' = CappedHigh
    BY <1>1, <1>7 DEF SaneArguments, CappedHigh
  <2> QED
    BY <1>5, <1>7, <2>2, <2>3 DEF Bracketed
<1>10. BudgetKept'
  <2>1. pc' = "search" => searches' <= call.maxSearches
    BY <1>0, Zenon DEF Probe, Continues
  <2> QED BY <1>6, <1>7, <2>1 DEF BudgetKept
<1>11. ArgumentsChecked' /\ NeverInverted' /\ RefusalEvidence'
  BY <1>6, <1>7 DEF IInv, ArgumentsChecked, NeverInverted, RefusalEvidence, given,
       SaneArguments, CappedHigh, BlockBeforeRange
<1> QED
  BY <1>8, <1>9, <1>10, <1>11 DEF IInv

(* The invariant is inductive.                                             *)
LEMMA NextIInv == IInv /\ [Next]_vars => IInv'
<1> SUFFICES ASSUME IInv, [Next]_vars
             PROVE  IInv'
  OBVIOUS
<1>1. queriedIds \subseteq Blocks
  BY DEF IInv, TypeOK
<1>2. CASE CheckArguments
  <2>1. CASE Throw("arguments") /\ UNCHANGED queriedIds
    BY <1>1, <2>1, ThrowIInv
  <2>2. CASE /\ SaneArguments /\ pc = "check" /\ pc' = "bounds"
             /\ UNCHANGED <<given, low, high, searches, queriedIds, error>>
    BY <2>2 DEF IInv, TypeOK, Bracketed, ArgumentsChecked, BudgetKept, NeverInverted,
         RefusalEvidence, given, SaneArguments, CappedHigh, BlockBeforeRange
  <2> QED BY <1>2, <2>1, <2>2 DEF CheckArguments
<1>3. CASE LookUpBounds
  BY <1>3, LookUpBoundsIInv
<1>4. CASE Probe
  BY <1>4, ProbeIInv
<1>5. CASE LookupFails
  BY <1>1, <1>5, ThrowIInv DEF LookupFails
<1>6. CASE UNCHANGED vars
  BY <1>6 DEF vars, IInv, TypeOK, Bracketed, ArgumentsChecked, BudgetKept, NeverInverted,
       RefusalEvidence, SaneArguments, CappedHigh, BlockBeforeRange
<1> QED
  BY <1>2, <1>3, <1>4, <1>5, <1>6 DEF Next, Settled

(* Every reachable state satisfies the invariant.                          *)
LEMMA Invariance == Spec => []IInv
  BY InitIInv, NextIInv, PTL DEF Spec

-----------------------------------------------------------------------------

(* The variables of the search keep their types.                           *)
THEOREM TypeCorrect == Spec => []TypeOK
  BY Invariance, PTL DEF IInv

(* A bracketed range is inside the caller's and holds the target's block.  *)
LEMMA BracketedMeansInRange == IInv => DepositStaysInRange
<1> SUFFICES ASSUME IInv, pc \in {"search", "done"}
             PROVE  /\ call.initLow <= low /\ low <= high /\ high <= CappedHigh
                    /\ \A b \in Blocks : MadeIn(b) => low <= b /\ b <= high
                    /\ \E b \in low..high : MadeIn(b)
  BY DEF DepositStaysInRange
<1> TypeOK
  BY DEF IInv
<1>1. /\ SaneArguments
      /\ call.initLow <= low /\ low <= high /\ high <= CappedHigh
      /\ numberOfDeposits[high] > call.target
      /\ \A b \in Blocks : b < low => numberOfDeposits[b] <= call.target
  BY DEF IInv, Bracketed
<1>2. high \in Blocks /\ low \in Nat
  <2>1. CappedHigh \in Blocks /\ call.initLow \in Blocks
    BY <1>1, AcceptedBounds
  <2> QED
    BY <1>1, <2>1, Numbers DEF Blocks
<1>3. ASSUME NEW b \in Blocks, MadeIn(b)
      PROVE  low <= b /\ b <= high
  <2>1. numberOfDeposits[b] > call.target /\ ~(numberOfDeposits[b] <= call.target)
    BY <1>3, Numbers DEF MadeIn
  <2>2. ~(b < low)
    BY <1>1, <2>1
  <2>3. ~(high < b)
    BY <1>1, <1>2, <1>3, Numbers DEF MadeIn
  <2> QED
    BY <1>2, <2>2, <2>3, Numbers
<1>4. PICK b \in Blocks : MadeIn(b)
  BY <1>1, <1>2, CounterPassedMeansMade
<1>5. b \in low..high
  BY <1>2, <1>3, <1>4 DEF Blocks
<1> QED
  BY <1>1, <1>3, <1>4, <1>5

(* Whatever the counter's history and whenever the search stops, the block *)
(* in which the target deposit was made is in the range that is searched   *)
(* and handed to findDeposit's event query.                                *)
THEOREM DepositFound == Spec => []DepositStaysInRange
  BY BracketedMeansInRange, Invariance, PTL

(* The error marked "SHOULD NEVER HAPPEN" is unreachable.                  *)
THEOREM InversionUnreachable == Spec => []NeverInverted
  BY Invariance, PTL DEF IInv

(* A range error is thrown only for deposits made outside the range.       *)
THEOREM RefusalsAreRight == Spec => []RefusalIsRight
<1>1. IInv => RefusalIsRight
  <2> SUFFICES ASSUME IInv, SaneArguments, NEW b \in call.initLow..CappedHigh, MadeIn(b),
                      \/ numberOfDeposits[CappedHigh] <= call.target
                      \/ numberOfDeposits[BlockBeforeRange] > call.target
               PROVE  b = DeploymentBlock
    BY DEF IInv, RefusalEvidence, RefusalIsRight
  <2> TypeOK
    BY DEF IInv
  <2>1. /\ CappedHigh \in Blocks /\ BlockBeforeRange \in Blocks
        /\ call.initLow \in Blocks /\ b \in Blocks
        /\ numberOfDeposits[b] > call.target
        /\ \A a \in Blocks : a < b => numberOfDeposits[a] <= call.target
    BY AcceptedBounds DEF MadeIn
  <2>2. ~(numberOfDeposits[CappedHigh] <= call.target)
    <3>1. numberOfDeposits[b] <= numberOfDeposits[CappedHigh]
      BY <2>1, Numbers
    <3> QED
      BY <2>1, <3>1, Numbers
  <2>3. numberOfDeposits[BlockBeforeRange] > call.target
    BY <2>2
  <2>4. ~(BlockBeforeRange < b)
    BY <2>1, <2>3, Numbers
  <2> QED
    BY <2>1, <2>4 DEF BlockBeforeRange, Larger, Blocks
<1> QED
  BY <1>1, Invariance, PTL

-----------------------------------------------------------------------------

(* A range that brackets the target's block is one of the abstract search. *)
LEMMA BracketsAbstractly ==
  ASSUME TypeOK, SaneArguments, NEW l \in Nat, NEW h \in Nat,
         call.initLow <= l, l <= h, h <= CappedHigh,
         numberOfDeposits[h] > call.target,
         \A b \in Blocks : b < l => numberOfDeposits[b] <= call.target
  PROVE  Abstract!Brackets(l, h)
<1>1. h \in Blocks
  BY AcceptedBounds DEF Blocks
<1>2. \A b \in Blocks : numberOfDeposits[b] > call.target => l <= b
  BY Numbers
<1> QED
  BY <1>1, <1>2 DEF Abstract!Brackets

(* The abstract status of every stage.                                     *)
LEMMA StatusValues ==
  /\ pc \in {"check", "bounds"} => AbstractStatus = "idle"
  /\ pc = "search" => AbstractStatus = "searching"
  /\ pc = "done" => AbstractStatus = "ended"
  /\ pc = "threw" => AbstractStatus = "refused"
  BY DEF AbstractStatus

(* A step that reaches the search or ends it hands over a bracketing range.*)
LEMMA StepBrackets ==
  ASSUME IInv, IInv', UNCHANGED given, pc' \in {"search", "done"}
  PROVE  Abstract!Brackets(low', high')
<1>1. TypeOK /\ TypeOK' /\ Bracketed'
  BY DEF IInv
<1>2. /\ SaneArguments' /\ call'.initLow <= low' /\ low' <= high' /\ high' <= CappedHigh'
      /\ numberOfDeposits'[high'] > call'.target
      /\ \A b \in Blocks : b < low' => numberOfDeposits'[b] <= call'.target
  BY <1>1 DEF Bracketed
<1>3. numberOfDeposits' = numberOfDeposits /\ call' = call
  BY DEF given
<1>4. SaneArguments /\ CappedHigh' = CappedHigh
  BY <1>2, <1>3 DEF SaneArguments, CappedHigh
<1>5. low' \in Nat /\ high' \in Nat
  <2>1. low' \in 0..LastBlock /\ high' \in 0..LastBlock
    BY <1>1 DEF TypeOK
  <2> QED BY <2>1
<1> QED
  BY <1>1, <1>2, <1>3, <1>4, <1>5, BracketsAbstractly

(* Every step of the call is a step of the abstract search or a stutter.   *)
LEMMA StepRefines ==
  ASSUME IInv, IInv', [Next]_vars
  PROVE  [Abstract!Next]_(Abstract!vars)
<1>1. CASE UNCHANGED vars
  BY <1>1 DEF vars, Abstract!vars, AbstractStatus
<1>2. UNCHANGED given
  BY DEF Next, vars, given, CheckArguments, LookUpBounds, Probe, LookupFails, Settled, Throw
<1>3. UNCHANGED [b \in Blocks |-> numberOfDeposits[b] > call.target]
  BY <1>2 DEF given
<1>4. CASE pc = "check" /\ pc' = "bounds" /\ UNCHANGED <<low, high>>
  BY <1>3, <1>4 DEF AbstractStatus, Abstract!vars
<1>5. CASE pc \in {"check", "bounds", "search"} /\ pc' = "threw"
  <2>1. AbstractStatus \in {"idle", "searching"} /\ AbstractStatus' = "refused"
    BY <1>5 DEF AbstractStatus
  <2> QED
    BY <1>3, <2>1 DEF Abstract!Next, Abstract!Refuse
<1>6. CASE pc = "bounds" /\ pc' = "search"
  <2>1. AbstractStatus = "idle" /\ AbstractStatus' = "searching"
    BY <1>6 DEF AbstractStatus
  <2>2. Abstract!Brackets(low', high')
    BY <1>2, <1>6, StepBrackets
  <2> QED
    BY <1>3, <2>1, <2>2 DEF Abstract!Next, Abstract!Begin
<1>7. CASE pc = "search" /\ pc' \in {"search", "done"} /\ low <= low' /\ high' <= high
  <2>1. AbstractStatus = "searching" /\ AbstractStatus' \in {"searching", "ended"}
    BY <1>7 DEF AbstractStatus
  <2>2. Abstract!Brackets(low', high')
    BY <1>2, <1>7, StepBrackets
  <2> QED
    BY <1>3, <1>7, <2>1, <2>2 DEF Abstract!Next, Abstract!Narrow
<1>8. CASE CheckArguments
  BY <1>4, <1>5, <1>8 DEF CheckArguments, Throw
<1>9. CASE LookUpBounds
  BY <1>5, <1>6, <1>9 DEF LookUpBounds, Throw
<1>10. CASE Probe
  <2>1. pc = "search" /\ pc' \in {"search", "done", "threw"}
    BY <1>10 DEF Probe
  <2>2. low <= low' /\ high' <= high
    BY <1>10, ProbeNarrows
  <2> QED
    BY <1>5, <1>7, <2>1, <2>2
<1>11. CASE LookupFails
  BY <1>5, <1>11 DEF LookupFails, Throw
<1> QED
  BY <1>1, <1>8, <1>9, <1>10, <1>11 DEF Next, Settled

(* The bounded binary search implements the search for the leftmost block  *)
(* whose counter has passed the target ID.                                 *)
THEOREM Refinement == Spec => ImplementsLeftmostSearch
<1>1. Init => Abstract!Init
  BY DEF Init, Abstract!Init, AbstractStatus
<1> QED
  BY <1>1, StepRefines, Invariance, PTL DEF Spec, ImplementsLeftmostSearch, Abstract!Spec

-----------------------------------------------------------------------------
(* The query.                                                              *)

USE FromAssumption, BudgetAssumption, NotQueriedAssumption

Latest == client.latestBlockSearched

(* What the client holds are the deposits of one run of blocks, which ends *)
(* at the last block searched for as long as its callers ask for deposits. *)
HeldOK ==
  \/ client.held = {} /\ client.queriesDeposits = FALSE
  \/ \E a, b \in Blocks :
       /\ a <= b /\ b <= Latest
       /\ client.held = IdsMade(a, b)
       /\ client.queriesDeposits => b = Latest
ClientOK ==
  /\ client = [latestBlockSearched |-> Latest, queriesDeposits |-> client.queriesDeposits,
               held |-> client.held]
  /\ Latest \in Blocks
  /\ client.queriesDeposits \in BOOLEAN
  /\ HeldOK

(* The cache has the deposit only if there is one.                         *)
CacheOK == cached # "nothing" => DepositedBy(LastBlock)

(* The call of the search: until it begins nothing has happened, and once  *)
(* it has, it looks for the fill's deposit up to a block that the client   *)
(* has searched.                                                           *)
CallOK ==
  /\ call.target = fill.id /\ call.initLow = DeploymentBlock
  /\ call.maxSearches = MaxSearchBudget /\ call.isUpdated = TRUE
  /\ stage \in {"start", "cache"} => pc = "check" /\ error = "none"
  /\ stage \in {"search", "found", "threw"} =>
       /\ call.initHigh = call.latestBlockSearched
       /\ call.latestBlockSearched <= Latest

(* The arguments are sane, and an error is recorded with its throw.        *)
ErrorOK ==
  stage = "search" => error # "arguments" /\ (pc = "threw" => error # "none")

(* The query goes on only for an ID that the pool had by then, or for ID 0 *)
(* of an empty pool; it finds only what was made.                          *)
StageOK ==
  /\ stage \in {"start", "cache", "search", "found", "returned", "threw", "failed"}
  /\ stage = "cache" => fill.id < numberOfDeposits[Latest] \/ fill.id = 0
  /\ stage = "search" =>
       fill.id < numberOfDeposits[call.latestBlockSearched] \/ fill.id = 0
  /\ stage = "found" => DepositedBy(Latest)

QInv ==
  /\ IInv /\ fill \in Fills
  /\ ClientOK /\ CacheOK /\ CallOK /\ ErrorOK /\ StageOK
  /\ FoundMeansDeposited /\ InvalidIsRight /\ SearchFindsDeposit

-----------------------------------------------------------------------------

LEMMA BlocksAreNumbers ==
  ASSUME numberOfDeposits \in DepositHistories
  PROVE  /\ Blocks \subseteq Nat /\ DeploymentBlock \in Blocks /\ LastBlock \in Blocks
         /\ \A b \in Blocks : DeploymentBlock <= b /\ b <= LastBlock
         /\ \A b \in Blocks : numberOfDeposits[b] \in 0..MaxDeposits
         /\ \A a, b \in Blocks : a <= b => numberOfDeposits[a] <= numberOfDeposits[b]
         /\ \A b \in Blocks : b # DeploymentBlock => b - 1 \in Blocks
         /\ \A b \in Blocks : CounterBefore(b) \in 0..MaxDeposits
         /\ \A b \in Blocks : CounterBefore(b) <= numberOfDeposits[b]
<1>1. /\ Blocks \subseteq Nat /\ DeploymentBlock \in Blocks /\ LastBlock \in Blocks
      /\ \A b \in Blocks : DeploymentBlock <= b /\ b <= LastBlock
      /\ \A b \in Blocks : b # DeploymentBlock => b - 1 \in Blocks /\ b - 1 <= b
  BY DEF Blocks
<1>2. /\ \A b \in Blocks : numberOfDeposits[b] \in 0..MaxDeposits
      /\ \A a, b \in Blocks : a <= b => numberOfDeposits[a] <= numberOfDeposits[b]
  BY DEF DepositHistories
<1>3. \A b \in Blocks : CounterBefore(b) \in 0..MaxDeposits /\ CounterBefore(b) <= numberOfDeposits[b]
  <2> TAKE b \in Blocks
  <2>1. CASE b = DeploymentBlock
    BY <1>2, <2>1 DEF CounterBefore
  <2>2. CASE b # DeploymentBlock
    BY <1>1, <1>2, <2>2 DEF CounterBefore
  <2> QED
    BY <2>1, <2>2
<1> QED
  BY <1>1, <1>2, <1>3

(* Two runs of blocks, one after the other, hold what one long run holds.  *)
LEMMA IdsOfNextBlocks ==
  ASSUME numberOfDeposits \in DepositHistories,
         NEW a \in Blocks, NEW b \in Blocks, NEW c \in Blocks, a <= b, b < c
  PROVE  IdsMade(a, b) \cup IdsMade(b + 1, c) = IdsMade(a, c)
<1>1. /\ b \in Nat /\ c \in Nat /\ a \in Nat /\ b + 1 # DeploymentBlock /\ b <= c
  BY BlocksAreNumbers
<1>2. CounterBefore(b + 1) = numberOfDeposits[b]
  BY <1>1 DEF CounterBefore
<1>3. /\ numberOfDeposits[b] \in Nat /\ numberOfDeposits[c] \in Nat /\ CounterBefore(a) \in Nat
      /\ numberOfDeposits[b] <= numberOfDeposits[c]
      /\ CounterBefore(a) <= numberOfDeposits[a] /\ numberOfDeposits[a] <= numberOfDeposits[b]
      /\ numberOfDeposits[a] \in Nat
  BY <1>1, BlocksAreNumbers
<1>4. \A id \in 0..MaxDeposits :
        (\/ CounterBefore(a) <= id /\ id < numberOfDeposits[b]
         \/ numberOfDeposits[b] <= id /\ id < numberOfDeposits[c])
        <=> CounterBefore(a) <= id /\ id < numberOfDeposits[c]
  BY <1>3
<1> QED
  BY <1>2, <1>4 DEF IdsMade

(* An ID between the least and the greatest of a run of blocks was made in *)
(* that run.                                                               *)
LEMMA NoGapInRange ==
  ASSUME numberOfDeposits \in DepositHistories, ClientOK, fill \in Fills, InRange
  PROVE  fill.id \in client.held
<1> DEFINE held == client.held
<1>1. fill.id \in 0..MaxDeposits /\ fill.id \in Nat
  BY DEF Fills
<1>2. held # {}
  <2> SUFFICES ASSUME held = {} PROVE FALSE
    OBVIOUS
  <2>1. NotQueried <= fill.id
    BY DEF InRange, EarliestQueried
  <2> QED
    BY <1>1, <2>1
<1>3. PICK a, b \in Blocks : held = IdsMade(a, b)
  BY <1>2 DEF ClientOK, HeldOK
<1>4. CounterBefore(a) \in 0..MaxDeposits /\ numberOfDeposits[b] \in 0..MaxDeposits
  BY BlocksAreNumbers
<1>5. held = {id \in 0..MaxDeposits : CounterBefore(a) <= id /\ id < numberOfDeposits[b]}
  BY <1>3 DEF IdsMade
<1>6. CounterBefore(a) \in held /\ numberOfDeposits[b] - 1 \in held
  <2>1. PICK id \in held : TRUE
    BY <1>2
  <2> QED
    BY <1>4, <1>5, <2>1
<1>7. Least(held) \in held
  <2>1. \A id \in held : CounterBefore(a) <= id
    BY <1>5
  <2> QED
    BY <1>6, <2>1 DEF Least
<1>8. Greatest(held) \in held
  <2>1. \A id \in held : numberOfDeposits[b] - 1 >= id
    BY <1>4, <1>5
  <2> QED
    BY <1>6, <2>1 DEF Greatest
<1>9. Least(held) <= fill.id /\ fill.id <= Greatest(held)
  BY <1>2 DEF InRange, EarliestQueried, LatestQueried
<1>10. CounterBefore(a) <= Least(held) /\ Greatest(held) < numberOfDeposits[b]
       /\ Least(held) \in Nat /\ Greatest(held) \in Nat
  BY <1>5, <1>7, <1>8
<1> QED
  BY <1>1, <1>4, <1>5, <1>9, <1>10

(* What the client holds was made by the last block it has searched.       *)
LEMMA HeldMeansDeposited ==
  ASSUME numberOfDeposits \in DepositHistories, ClientOK, fill.id \in client.held
  PROVE  DepositedBy(Latest)
<1>1. PICK a, b \in Blocks : b <= Latest /\ client.held = IdsMade(a, b)
  BY DEF ClientOK, HeldOK
<1>2. fill.id \in Nat /\ fill.id < numberOfDeposits[b]
  BY <1>1 DEF IdsMade
<1>3. numberOfDeposits[b] <= numberOfDeposits[Latest]
      /\ numberOfDeposits[b] \in Nat /\ numberOfDeposits[Latest] \in Nat
  BY <1>1, BlocksAreNumbers DEF ClientOK
<1> QED
  BY <1>2, <1>3 DEF DepositedBy

-----------------------------------------------------------------------------

(* The parts of the invariant that only the client's step can disturb.     *)
LEMMA Untouched ==
  ASSUME QInv, UNCHANGED <<numberOfDeposits, fill, client>>
  PROVE  fill' \in Fills /\ ClientOK' /\ (cached' = cached => CacheOK')
  BY DEF QInv, Fills, Differences, Ages, ClientOK, HeldOK, Latest, IdsMade, CounterBefore,
       CacheOK, DepositedBy

(* The search's own invariant, when the step leaves the search alone.      *)
LEMMA SearchUntouched ==
  ASSUME IInv, UNCHANGED vars
  PROVE  IInv'
  BY NextIInv

(* What was made by one block was made by every later one.                 *)
LEMMA StaysDeposited ==
  ASSUME numberOfDeposits \in DepositHistories, fill \in Fills,
         NEW a \in Blocks, NEW b \in Blocks, a <= b, DepositedBy(a)
  PROVE  DepositedBy(b)
<1>1. /\ fill.id \in Nat /\ numberOfDeposits[a] \in Nat /\ numberOfDeposits[b] \in Nat
      /\ numberOfDeposits[a] <= numberOfDeposits[b]
  BY BlocksAreNumbers DEF Fills
<1> QED
  BY <1>1 DEF DepositedBy

LEMMA QInvFacts ==
  ASSUME QInv
  PROVE  /\ numberOfDeposits \in DepositHistories /\ call \in Calls
         /\ fill.id \in 0..MaxDeposits /\ fill.id \in Nat /\ Latest \in Blocks
         /\ TypeOK
<1>1. TypeOK /\ Latest \in Blocks /\ fill \in Fills
  BY DEF QInv, IInv, ClientOK
<1>2. numberOfDeposits \in DepositHistories /\ call \in Calls
  BY <1>1 DEF TypeOK
<1>3. fill.id \in 0..MaxDeposits /\ fill.id \in Nat
  BY <1>1 DEF Fills
<1> QED
  BY <1>1, <1>2, <1>3

(* The initial states satisfy the invariant.                               *)
LEMMA QueryInitQInv == QueryInit => QInv
<1> SUFFICES ASSUME QueryInit
             PROVE  QInv
  OBVIOUS
<1>1. numberOfDeposits \in DepositHistories /\ fill \in Fills
  BY DEF QueryInit
<1>2. fill.id \in 0..MaxDeposits
  BY <1>1 DEF Fills
<1>3. call \in Calls
  BY <1>2, BlocksAreNumbers, <1>1 DEF QueryInit, Calls, Budget
<1>4. IInv
  BY <1>1, <1>3, InitIInv DEF Init, QueryInit
<1>5. ClientOK
  <2>1. PICK from \in FromBlocks, b \in Blocks, all \in BOOLEAN :
          /\ from <= b
          /\ client = [latestBlockSearched |-> b, queriesDeposits |-> all,
                       held |-> IF all THEN IdsMade(from, b) ELSE {}]
    BY DEF QueryInit
  <2>2. from \in Blocks /\ b <= b
    BY <1>1, BlocksAreNumbers
  <2>3. HeldOK
    BY <2>1, <2>2 DEF HeldOK, Latest
  <2> QED
    BY <2>1, <2>3 DEF ClientOK, Latest
<1>6. CacheOK /\ CallOK /\ ErrorOK /\ StageOK
  BY DEF QueryInit, CacheOK, DepositedBy, CallOK, ErrorOK, StageOK, Budget
<1>7. FoundMeansDeposited /\ InvalidIsRight /\ SearchFindsDeposit
  BY DEF QueryInit, FoundMeansDeposited, InvalidIsRight, SearchFindsDeposit
<1> QED
  BY <1>1, <1>4, <1>5, <1>6, <1>7 DEF QInv

(* An update moves the window on, and adds the deposits of its blocks.     *)
LEMMA ClientUpdatesQInv ==
  ASSUME QInv, ClientUpdates
  PROVE  QInv'
<1>1. PICK b \in Blocks, all \in {client.queriesDeposits, FALSE} :
        /\ b > Latest
        /\ client' =
             [latestBlockSearched |-> b, queriesDeposits |-> all,
              held |-> IF all THEN client.held \cup IdsMade(Latest + 1, b) ELSE client.held]
  BY DEF ClientUpdates, Latest
<1>2. UNCHANGED <<numberOfDeposits, fill, cached, stage, result, search>>
      /\ stage \notin {"returned", "threw", "failed"}
  BY DEF ClientUpdates
<1>3. Latest \in Blocks /\ Latest \in Nat /\ b \in Nat /\ Latest < b /\ Latest <= b
      /\ numberOfDeposits \in DepositHistories
  BY <1>1, QInvFacts, BlocksAreNumbers
<1>4. Latest' = b /\ client'.queriesDeposits = all /\ all \in BOOLEAN
  BY <1>1 DEF Latest, QInv, ClientOK
<1>5. HeldOK'
  <2>1. CASE client.held = {} /\ client.queriesDeposits = FALSE
    BY <1>1, <2>1 DEF HeldOK
  <2>2. ASSUME NEW a \in Blocks, NEW c \in Blocks, a <= c, c <= Latest,
               client.held = IdsMade(a, c), client.queriesDeposits => c = Latest
        PROVE  HeldOK'
    <3>1. CASE all = FALSE
      <4>1. client'.held = IdsMade(a, c)' /\ c <= Latest'
        BY <1>1, <1>2, <1>3, <1>4, <2>2, <3>1, BlocksAreNumbers DEF IdsMade, CounterBefore
      <4> QED
        BY <1>4, <2>2, <3>1, <4>1 DEF HeldOK
    <3>2. CASE all = TRUE
      <4>1. c = Latest
        BY <1>1, <2>2, <3>2
      <4>2. client'.held = IdsMade(a, b)
        BY <1>1, <1>3, <2>2, <3>2, <4>1, IdsOfNextBlocks
      <4>3. client'.held = IdsMade(a, b)' /\ a <= b
        BY <1>2, <1>3, <2>2, <4>1, <4>2, BlocksAreNumbers DEF IdsMade, CounterBefore
      <4> QED
        BY <1>3, <1>4, <4>3 DEF HeldOK
    <3> QED
      BY <1>4, <3>1, <3>2
  <2> QED
    BY <2>1, <2>2 DEF QInv, ClientOK, HeldOK
<1>6. ClientOK'
  BY <1>1, <1>4, <1>5 DEF ClientOK, Latest
<1>7. IInv' /\ fill' \in Fills /\ CacheOK'
  <2>1. IInv'
    BY <1>2, SearchUntouched DEF QInv, search, vars
  <2> QED
    BY <1>2, <2>1 DEF QInv, CacheOK, DepositedBy, Fills, Differences, Ages
<1>8. CallOK' /\ ErrorOK'
  <2>1. call.latestBlockSearched \in Nat
    BY QInvFacts, BlocksAreNumbers DEF Calls
  <2> QED
    BY <1>2, <1>3, <1>4, <2>1 DEF QInv, CallOK, ErrorOK, search
<1>9. StageOK'
  <2>1. /\ numberOfDeposits[Latest] \in Nat /\ numberOfDeposits[b] \in Nat
        /\ numberOfDeposits[Latest] <= numberOfDeposits[b] /\ fill.id \in Nat
    BY <1>3, BlocksAreNumbers, QInvFacts
  <2> QED
    BY <1>2, <1>4, <2>1 DEF QInv, StageOK, DepositedBy, search
<1>10. FoundMeansDeposited' /\ InvalidIsRight' /\ SearchFindsDeposit'
  BY <1>2 DEF FoundMeansDeposited, InvalidIsRight, SearchFindsDeposit
<1> QED
  BY <1>6, <1>7, <1>8, <1>9, <1>10 DEF QInv

(* The memory answers for what it holds, the pool's IDs for what is not    *)
(* there; otherwise the pool has the ID, or has none at all.               *)
LEMMA StartQInv ==
  ASSUME QInv, Start
  PROVE  QInv'
<1>1. /\ UNCHANGED <<numberOfDeposits, fill, client, cached, search>>
      /\ UNCHANGED vars /\ stage = "start"
  BY DEF Start, search, vars
<1>2. IInv' /\ fill' \in Fills /\ ClientOK' /\ CacheOK'
  BY <1>1, SearchUntouched, Untouched DEF QInv
<1>3. numberOfDeposits[Latest] \in Nat /\ fill.id \in Nat /\ numberOfDeposits[DeploymentBlock] \in Nat
  BY QInvFacts, BlocksAreNumbers
<1>4. CASE OutsidePool /\ Return(NotFound("DepositIdInvalid"))
  <2>1. DeployedWith \/ ~DepositedBy(Latest)
    BY <1>3, <1>4 DEF OutsidePool, FirstPoolId, LastPoolId, Larger, DeployedWith, DepositedBy, Latest
  <2>2. stage' = "returned" /\ result' = [found |-> FALSE, code |-> "DepositIdInvalid"]
    BY <1>4 DEF Return, NotFound
  <2>3. FoundMeansDeposited' /\ InvalidIsRight' /\ SearchFindsDeposit'
    BY <1>1, <2>1, <2>2 DEF FoundMeansDeposited, InvalidIsRight, SearchFindsDeposit,
         DeployedWith, DepositedBy, Latest
  <2>4. CallOK' /\ ErrorOK' /\ StageOK'
    BY <1>1, <2>2 DEF QInv, CallOK, ErrorOK, StageOK, search
  <2> QED
    BY <1>2, <2>3, <2>4 DEF QInv
<1>5. CASE /\ InRange
           /\ Return(IF fill.id \in client.held THEN Validated ELSE NotFound("DepositIdNotFound"))
  <2>1. fill.id \in client.held
    BY <1>5, NoGapInRange, QInvFacts DEF QInv
  <2>2. DepositedBy(Latest) /\ DepositedBy(LastBlock)
    <3>1. DepositedBy(Latest)
      BY <2>1, HeldMeansDeposited, QInvFacts DEF QInv
    <3>2. Latest \in Blocks /\ LastBlock \in Blocks /\ Latest <= LastBlock
      BY QInvFacts, BlocksAreNumbers
    <3> QED
      BY <3>1, <3>2, StaysDeposited, QInvFacts DEF QInv
  <2>3. stage' = "returned" /\ result' = Validated
    BY <1>5, <2>1 DEF Return
  <2>4. FoundMeansDeposited' /\ InvalidIsRight' /\ SearchFindsDeposit'
    BY <1>1, <2>2, <2>3 DEF FoundMeansDeposited, InvalidIsRight, SearchFindsDeposit,
         DepositedBy, Latest, Validated, ValidFill, Found, NotFound
  <2>5. CallOK' /\ ErrorOK' /\ StageOK'
    BY <1>1, <2>3 DEF QInv, CallOK, ErrorOK, StageOK, search
  <2> QED
    BY <1>2, <2>4, <2>5 DEF QInv
<1>6. CASE ~OutsidePool /\ stage' = "cache" /\ UNCHANGED result
  <2>1. fill.id < numberOfDeposits[Latest] \/ fill.id = 0
    BY <1>3, <1>6 DEF OutsidePool, LastPoolId, Larger, Latest
  <2>2. CallOK' /\ ErrorOK' /\ StageOK'
    BY <1>1, <1>6, <2>1 DEF QInv, CallOK, ErrorOK, StageOK, search, Latest
  <2>3. FoundMeansDeposited' /\ InvalidIsRight' /\ SearchFindsDeposit'
    BY <1>6 DEF FoundMeansDeposited, InvalidIsRight, SearchFindsDeposit
  <2> QED
    BY <1>2, <2>2, <2>3 DEF QInv
<1> QED
  BY <1>4, <1>5, <1>6 DEF Start

(* The cached deposit answers only for its own fill; the search that       *)
(* starts instead is one for the fill's deposit in what has been searched. *)
LEMMA CacheAnswersQInv ==
  ASSUME QInv, CacheAnswers
  PROVE  QInv'
<1>1. /\ UNCHANGED <<numberOfDeposits, fill, client, cached, pc, low, high, searches,
                     queriedIds, error>>
      /\ stage = "cache"
  BY DEF CacheAnswers
<1>2. fill' \in Fills /\ ClientOK' /\ CacheOK'
  BY <1>1, Untouched
<1>3. pc = "check" /\ error = "none"
  BY <1>1 DEF QInv, CallOK
<1>4. CASE CachedForFill = "deposit" /\ Return(Validated) /\ UNCHANGED call
  <2>1. ValidFill /\ cached = "deposit"
    BY <1>4 DEF CachedForFill
  <2>2. DepositedBy(LastBlock)
    BY <2>1 DEF QInv, CacheOK
  <2>3. stage' = "returned" /\ result' = [found |-> TRUE, code |-> "none"]
    BY <1>4, <2>1 DEF Return, Validated, Found
  <2>4. FoundMeansDeposited' /\ InvalidIsRight' /\ SearchFindsDeposit'
    BY <1>1, <2>1, <2>2, <2>3 DEF FoundMeansDeposited, InvalidIsRight, SearchFindsDeposit,
         DepositedBy, ValidFill
  <2>5. IInv'
    BY <1>1, <1>4, SearchUntouched DEF QInv, vars
  <2>6. CallOK' /\ ErrorOK' /\ StageOK'
    BY <1>1, <1>4, <2>3 DEF QInv, CallOK, ErrorOK, StageOK, Latest
  <2> QED
    BY <1>2, <2>4, <2>5, <2>6 DEF QInv
<1>5. CASE Find /\ UNCHANGED result
  <2>1. /\ call \in Calls /\ Latest \in Blocks /\ Latest \in 0..LastBlock + 1
        /\ Latest <= Latest
    BY QInvFacts, BlocksAreNumbers
  <2>2. /\ call' = [call EXCEPT !.initHigh = Latest, !.latestBlockSearched = Latest]
        /\ stage' = "search"
    BY <1>5 DEF Find, Latest
  <2>3. /\ call' \in Calls
        /\ call'.target = call.target /\ call'.initLow = call.initLow
        /\ call'.maxSearches = call.maxSearches /\ call'.isUpdated = call.isUpdated
        /\ call'.initHigh = Latest /\ call'.latestBlockSearched = Latest
    BY <2>1, <2>2 DEF Calls
  <2>4. IInv'
    BY <1>1, <1>3, <2>3 DEF QInv, IInv, TypeOK, Bracketed, ArgumentsChecked, BudgetKept,
         NeverInverted, RefusalEvidence
  <2>5. CallOK' /\ ErrorOK' /\ StageOK'
    BY <1>1, <1>3, <2>1, <2>2, <2>3 DEF QInv, CallOK, ErrorOK, StageOK, Latest
  <2>6. FoundMeansDeposited' /\ InvalidIsRight' /\ SearchFindsDeposit'
    BY <2>2 DEF FoundMeansDeposited, InvalidIsRight, SearchFindsDeposit
  <2> QED
    BY <1>2, <2>4, <2>5, <2>6 DEF QInv
<1> QED
  BY <1>4, <1>5 DEF CacheAnswers

(* The arguments that findDeposit makes up are sane.                       *)
LEMMA ArgumentsAreSane ==
  ASSUME QInv, stage \in {"search", "found", "threw"}
  PROVE  SaneArguments /\ CappedHigh = call.latestBlockSearched
         /\ call.latestBlockSearched \in Blocks /\ call.latestBlockSearched <= Latest
<1>1. /\ call.target = fill.id /\ call.initLow = DeploymentBlock
      /\ call.maxSearches = MaxSearchBudget /\ call.isUpdated = TRUE
      /\ call.initHigh = call.latestBlockSearched
      /\ call.latestBlockSearched <= Latest
  BY DEF QInv, CallOK
<1>2. call.latestBlockSearched \in Blocks
  BY QInvFacts DEF Calls
<1>3. CappedHigh = call.latestBlockSearched
  BY <1>1 DEF CappedHigh, Smaller
<1> QED
  BY <1>1, <1>2, <1>3 DEF SaneArguments, Blocks

(* A step of the search: the arguments never fail the checks.              *)
LEMMA SearchQInv ==
  ASSUME QInv, Search
  PROVE  QInv'
<1>1. /\ UNCHANGED <<numberOfDeposits, fill, client, cached, stage, result>>
      /\ stage = "search" /\ UNCHANGED call
      /\ CheckArguments \/ LookUpBounds \/ Probe \/ LookupFails
  BY DEF Search, CheckArguments, LookUpBounds, Probe, LookupFails, Throw, given
<1>2. IInv'
  BY <1>1, NextIInv DEF QInv, Next
<1>3. fill' \in Fills /\ ClientOK' /\ CacheOK'
  BY <1>1, Untouched
<1>4. ErrorOK'
  <2>1. SaneArguments /\ error # "arguments" /\ (pc = "threw" => error # "none")
    BY <1>1, ArgumentsAreSane DEF QInv, ErrorOK
  <2>2. CASE CheckArguments
    BY <2>1, <2>2 DEF CheckArguments, ErrorOK
  <2>3. CASE LookUpBounds
    BY <2>1, <2>3 DEF LookUpBounds, Throw, ErrorOK
  <2>4. CASE Probe
    BY <2>1, <2>4 DEF Probe, ErrorOK
  <2>5. CASE LookupFails
    BY <2>1, <2>5 DEF LookupFails, Throw, ErrorOK
  <2> QED
    BY <1>1, <2>2, <2>3, <2>4, <2>5
<1>5. CallOK' /\ StageOK'
  BY <1>1 DEF QInv, CallOK, StageOK, Latest
<1>6. FoundMeansDeposited' /\ InvalidIsRight' /\ SearchFindsDeposit'
  BY <1>1 DEF FoundMeansDeposited, InvalidIsRight, SearchFindsDeposit
<1> QED
  BY <1>2, <1>3, <1>4, <1>5, <1>6 DEF QInv

(* A step that only moves the query on to an end without an answer.        *)
LEMMA GivesUpQInv ==
  ASSUME QInv, UNCHANGED <<numberOfDeposits, fill, client, cached, result, search>>,
         stage' = "failed" \/ (stage = "search" /\ stage' = "threw" /\ SearchFindsDeposit')
  PROVE  QInv'
<1>1. IInv' /\ fill' \in Fills /\ ClientOK' /\ CacheOK'
  BY SearchUntouched, Untouched DEF QInv, search, vars
<1>2. CallOK' /\ ErrorOK' /\ StageOK'
  BY DEF QInv, CallOK, ErrorOK, StageOK, search, Latest
<1>3. FoundMeansDeposited' /\ InvalidIsRight' /\ SearchFindsDeposit'
  BY DEF FoundMeansDeposited, InvalidIsRight, SearchFindsDeposit
<1> QED
  BY <1>1, <1>2, <1>3 DEF QInv

(* The search throws for a range only if the pool is empty or the deposit  *)
(* was made with the deployment.                                           *)
LEMMA SearchThrewQInv ==
  ASSUME QInv, SearchThrew
  PROVE  QInv'
<1>1. /\ UNCHANGED <<numberOfDeposits, fill, client, cached, result, search>>
      /\ stage = "search" /\ pc = "threw" /\ stage' = "threw"
  BY DEF SearchThrew
<1>2. ASSUME error # "lookup"
      PROVE  DeployedWith \/ numberOfDeposits[call.latestBlockSearched] = 0
  <2>1. error \in {"target above range", "target below range"}
    BY <1>1, <1>2 DEF QInv, ErrorOK, IInv, TypeOK, NeverInverted
  <2>2. /\ CappedHigh = call.latestBlockSearched /\ call.target = fill.id
        /\ BlockBeforeRange = DeploymentBlock
    <3>1. CappedHigh = call.latestBlockSearched
      BY <1>1, ArgumentsAreSane
    <3>2. call.target = fill.id /\ call.initLow = DeploymentBlock
      BY DEF QInv, CallOK
    <3>3. BlockBeforeRange = DeploymentBlock
      BY <3>2 DEF BlockBeforeRange, Larger
    <3> QED
      BY <3>1, <3>2, <3>3
  <2>3. \/ numberOfDeposits[call.latestBlockSearched] <= fill.id
        \/ numberOfDeposits[DeploymentBlock] > fill.id
    BY <2>1, <2>2 DEF QInv, IInv, RefusalEvidence
  <2>4. fill.id < numberOfDeposits[call.latestBlockSearched] \/ fill.id = 0
    BY <1>1 DEF QInv, StageOK
  <2>5. /\ numberOfDeposits[call.latestBlockSearched] \in Nat /\ fill.id \in Nat
        /\ numberOfDeposits[DeploymentBlock] \in Nat
    BY <1>1, ArgumentsAreSane, QInvFacts, BlocksAreNumbers
  <2> QED
    BY <2>3, <2>4, <2>5 DEF DeployedWith
<1>3. SearchFindsDeposit'
  BY <1>1, <1>2 DEF SearchFindsDeposit, DeployedWith, search
<1> QED
  BY <1>1, <1>3, GivesUpQInv

(* The range the search hands over holds the deposit's event.              *)
LEMMA EventIsInRange ==
  ASSUME QInv, stage = "search", pc = "done"
  PROVE  EventInRange /\ DepositedBy(Latest)
<1>1. /\ call.initLow <= low /\ low <= high /\ high <= CappedHigh
      /\ \E b \in low..high : MadeIn(b)
  BY BracketedMeansInRange DEF QInv, DepositStaysInRange
<1>2. PICK b \in low..high : MadeIn(b)
  BY <1>1
<1>3. b \in Blocks /\ numberOfDeposits[b] > fill.id
      /\ \A a \in Blocks : a < b => numberOfDeposits[a] <= fill.id
  BY <1>2 DEF MadeIn, QInv, CallOK
<1>4. /\ fill.id \in Nat /\ numberOfDeposits[b] \in Nat /\ b \in Nat
      /\ b # DeploymentBlock => b - 1 \in Blocks /\ b - 1 < b
  BY <1>3, QInvFacts, BlocksAreNumbers
<1>5. CounterBefore(b) <= fill.id
  <2>1. CASE b = DeploymentBlock
    BY <1>4, <2>1 DEF CounterBefore
  <2>2. CASE b # DeploymentBlock
    BY <1>3, <1>4, <2>2 DEF CounterBefore
  <2> QED
    BY <2>1, <2>2
<1>6. EventInRange
  BY <1>2, <1>3, <1>4, <1>5 DEF EventInRange
<1>7. b <= Latest
  <2>1. high \in Nat /\ low \in Nat /\ CappedHigh \in Nat /\ CappedHigh <= Latest /\ Latest \in Nat
    BY QInvFacts, ArgumentsAreSane, BlocksAreNumbers, Numbers
  <2> QED
    BY <1>1, <1>2, <1>4, <2>1
<1>8. DepositedBy(b)
  BY <1>3, <1>4 DEF DepositedBy
<1> QED
  BY <1>3, <1>6, <1>7, <1>8, QInvFacts, StaysDeposited DEF QInv

LEMMA QueryEventsQInv ==
  ASSUME QInv, QueryEvents
  PROVE  QInv'
<1>1. /\ UNCHANGED <<numberOfDeposits, fill, client, cached, result, search>>
      /\ stage = "search" /\ pc = "done"
      /\ stage' = IF QueryFinds THEN "found" ELSE "threw"
  BY DEF QueryEvents
<1>2. EventInRange /\ DepositedBy(Latest)
  BY <1>1, EventIsInRange
<1>3. CASE ~QueryFinds
  <2>1. fill.difference = "depositor or destination"
    BY <1>2, <1>3 DEF QueryFinds
  <2> QED
    BY <1>1, <1>3, <2>1, GivesUpQInv DEF SearchFindsDeposit
<1>4. CASE QueryFinds
  <2>1. IInv' /\ fill' \in Fills /\ ClientOK' /\ CacheOK'
    BY <1>1, SearchUntouched, Untouched DEF QInv, search, vars
  <2>2. CallOK' /\ ErrorOK' /\ StageOK'
    BY <1>1, <1>2, <1>4 DEF QInv, CallOK, ErrorOK, StageOK, search, Latest, DepositedBy
  <2>3. FoundMeansDeposited' /\ InvalidIsRight' /\ SearchFindsDeposit'
    BY <1>1, <1>4 DEF FoundMeansDeposited, InvalidIsRight, SearchFindsDeposit
  <2> QED
    BY <2>1, <2>2, <2>3 DEF QInv
<1> QED
  BY <1>3, <1>4

(* What was found is kept and validated against the fill.                  *)
LEMMA KeepInCacheQInv ==
  ASSUME QInv, KeepInCache
  PROVE  QInv'
<1>1. /\ UNCHANGED <<numberOfDeposits, fill, client, search>>
      /\ stage = "found" /\ stage' = "returned" /\ result' = Validated
  BY DEF KeepInCache, Return
<1>2. IInv' /\ fill' \in Fills /\ ClientOK'
  BY <1>1, SearchUntouched, Untouched DEF QInv, search, vars
<1>3. DepositedBy(Latest) /\ DepositedBy(LastBlock)
  <2>1. DepositedBy(Latest) /\ Latest \in Blocks /\ LastBlock \in Blocks /\ Latest <= LastBlock
    BY <1>1, QInvFacts, BlocksAreNumbers DEF QInv, StageOK
  <2> QED
    BY <2>1, QInvFacts, StaysDeposited DEF QInv
<1>4. CacheOK' /\ CallOK' /\ ErrorOK' /\ StageOK'
  BY <1>1, <1>3 DEF QInv, CacheOK, CallOK, ErrorOK, StageOK, search, Latest, DepositedBy
<1>5. FoundMeansDeposited' /\ InvalidIsRight' /\ SearchFindsDeposit'
  BY <1>1, <1>3 DEF FoundMeansDeposited, InvalidIsRight, SearchFindsDeposit, DepositedBy,
       Latest, Validated, ValidFill, Found, NotFound
<1> QED
  BY <1>2, <1>4, <1>5 DEF QInv

(* Every step keeps the invariant.                                         *)
LEMMA QueryNextQInv == QInv /\ [QueryNext]_queryVars => QInv'
<1> SUFFICES ASSUME QInv, [QueryNext]_queryVars
             PROVE  QInv'
  OBVIOUS
<1>1. CASE Fail
  <2>1. /\ UNCHANGED <<numberOfDeposits, fill, client, cached, result, search>>
        /\ stage' = "failed"
    BY <1>1 DEF Fail
  <2> QED
    BY <2>1, GivesUpQInv
<1>2. CASE UNCHANGED queryVars
  <2>1. /\ UNCHANGED <<numberOfDeposits, fill, client, cached, stage, result, search>>
        /\ UNCHANGED vars
    BY <1>2 DEF queryVars, vars, search
  <2>2. IInv' /\ fill' \in Fills /\ ClientOK' /\ CacheOK'
    BY <2>1, SearchUntouched, Untouched DEF QInv
  <2>3. CallOK' /\ ErrorOK' /\ StageOK'
    BY <2>1 DEF QInv, CallOK, ErrorOK, StageOK, search, Latest, DepositedBy
  <2>4. FoundMeansDeposited' /\ InvalidIsRight' /\ SearchFindsDeposit'
    BY <2>1 DEF QInv, FoundMeansDeposited, InvalidIsRight, SearchFindsDeposit, search, Latest,
         DepositedBy, DeployedWith, ValidFill
  <2> QED
    BY <2>2, <2>3, <2>4 DEF QInv
<1> QED
  BY <1>1, <1>2, ClientUpdatesQInv, StartQInv, CacheAnswersQInv, SearchQInv, SearchThrewQInv,
     QueryEventsQInv, KeepInCacheQInv DEF QueryNext, Ended

LEMMA QueryInvariance == QuerySpec => []QInv
  BY QueryInitQInv, QueryNextQInv, PTL DEF QuerySpec

-----------------------------------------------------------------------------

(* Whichever of memory, cache and chain answers, a deposit is returned     *)
(* only for a fill of exactly that deposit.                                *)
THEOREM FoundIsDeposited == QuerySpec => []FoundMeansDeposited
  BY QueryInvariance, PTL DEF QInv

(* A fill is called invalid only for a reason that holds.                  *)
THEOREM InvalidAnswersAreRight == QuerySpec => []InvalidIsRight
  BY QueryInvariance, PTL DEF QInv

(* Unless a request fails, a deposit that was made after the deployment is *)
(* found on the chain, however small the search's budget.                  *)
THEOREM SearchFinds == QuerySpec => []SearchFindsDeposit
  BY QueryInvariance, PTL DEF QInv

=============================================================================
