------------------------ MODULE FillBlockSearchProofs ------------------------
(***************************************************************************)
(* Proofs about FillBlockSearch, for every chain length and every history  *)
(* of the relay's status.                                                  *)
(***************************************************************************)
EXTENDS FillBlockSearch, TLAPS

USE LastBlockAssumption, NoBlockAssumption

(* What the loop maintains: the relay is filled at the high bound and at   *)
(* no block below the low bound, and it was not at the caller's low bound. *)
Bracketed ==
  pc = "search" =>
    /\ call.low <= lowBlockNumber /\ lowBlockNumber < highBlockNumber
    /\ highBlockNumber <= head
    /\ fillStatus[highBlockNumber] = Filled
    /\ fillStatus[call.low] # Filled
    /\ \A b \in Blocks : b < lowBlockNumber => fillStatus[b] # Filled

(* Before the search the bounds are the caller's, and mined.               *)
BoundsResolved ==
  pc = "bounds" =>
    /\ lowBlockNumber = call.low /\ lowBlockNumber < highBlockNumber
    /\ highBlockNumber <= head

(* What a caller may pass: blocks that are mined.                          *)
CallMined == call.low <= head /\ (call.high # NoBlock => call.high <= head)

(* The block returned is where both bounds met.                            *)
ResultFound ==
  result # NoBlock =>
    /\ pc = "done" /\ lowBlockNumber = result /\ highBlockNumber = result
    /\ FilledIn(result) /\ call.low < result /\ result <= head

(* Nothing is returned only when the upper bound was not filled.           *)
UndefinedEvidence ==
  pc = "done" /\ result = NoBlock => fillStatus[highBlockNumber] # Filled

IInv ==
  TypeOK /\ Bracketed /\ BoundsResolved /\ CallMined /\ ResultFound /\ UndefinedEvidence

-----------------------------------------------------------------------------

(* The midpoint of a range lies in it, below its end.                      *)
LEMMA MidpointInRange ==
  ASSUME NEW l \in Nat, NEW h \in Nat, l < h
  PROVE  LET m == (h + l) \div 2
         IN  m \in Nat /\ l <= m /\ m < h
  OBVIOUS

(* Blocks are numbers, statuses are monotone in them.                      *)
LEMMA Numbers ==
  ASSUME TypeOK
  PROVE  /\ \A b \in Blocks : b \in Nat /\ fillStatus[b] \in 0..2
         /\ \A a, b \in Blocks : a <= b => fillStatus[a] <= fillStatus[b]
         /\ call.low \in Blocks /\ call.high \in Blocks \cup {NoBlock}
         /\ call.sameChain \in BOOLEAN
<1>1. fillStatus \in [Blocks -> Unfilled..Filled]
  BY DEF TypeOK, StatusHistories
<1>2. \A a, b \in Blocks : a <= b => fillStatus[a] <= fillStatus[b]
  BY DEF TypeOK, StatusHistories
<1>3. call.low \in Blocks /\ call.high \in Blocks \cup {NoBlock} /\ call.sameChain \in BOOLEAN
  BY DEF TypeOK, Calls
<1>4. \A b \in Blocks : b \in Nat
  BY DEF Blocks
<1> QED
  BY <1>1, <1>2, <1>3, <1>4 DEF Unfilled, Filled

(* Blocks are numbers, and none is the value undefined.                    *)
LEMMA BlocksAreNumbers == Blocks \subseteq Nat /\ NoBlock \notin Blocks
  BY DEF Blocks

(* The initial states satisfy the invariant.                               *)
LEMMA InitIInv == Init => IInv
  BY BlocksAreNumbers
     DEF Init, IInv, TypeOK, Bracketed, BoundsResolved, CallMined, ResultFound,
         UndefinedEvidence, Blocks

(* Throwing ends the call without a result.                                *)
LEMMA ThrewIInv ==
  ASSUME IInv, Threw, pc # "done"
  PROVE  IInv'
  BY DEF IInv, TypeOK, Bracketed, BoundsResolved, CallMined, ResultFound,
         UndefinedEvidence, Threw, given

(* A new block does not disturb a search that is under way.                *)
LEMMA MineBlockIInv ==
  ASSUME IInv, MineBlock
  PROVE  IInv'
<1>1. head \in Nat /\ head' = head + 1 /\ head' \in Blocks
  BY DEF IInv, TypeOK, MineBlock, Blocks
<1>2. UNCHANGED <<fillStatus, call, pc, lowBlockNumber, highBlockNumber, result>>
  BY DEF MineBlock, given
<1>3. \A n \in Nat : n <= head => n <= head'
  BY <1>1
<1>4. /\ lowBlockNumber \in Nat /\ highBlockNumber \in Nat /\ call.low \in Nat
      /\ call.high \in Nat \cup {NoBlock} /\ result \in Nat \cup {NoBlock}
  BY Numbers, BlocksAreNumbers DEF IInv, TypeOK
<1>5. TypeOK'
  BY <1>1, <1>2 DEF IInv, TypeOK
<1>6. Bracketed' /\ BoundsResolved'
  BY <1>2, <1>3, <1>4 DEF IInv, Bracketed, BoundsResolved
<1>7. CallMined' /\ UndefinedEvidence'
  BY <1>2, <1>3, <1>4 DEF IInv, CallMined, UndefinedEvidence
<1>8. ResultFound'
  BY <1>2, <1>3, <1>4 DEF IInv, ResultFound, FilledIn
<1> QED
  BY <1>5, <1>6, <1>7, <1>8 DEF IInv

(* Fixing the bounds keeps the invariant.                                  *)
LEMMA ResolveBoundsIInv ==
  ASSUME IInv, ResolveBounds
  PROVE  IInv'
<1> DEFINE high == HighBlock
<1>1. CASE Threw
  BY <1>1, ThrewIInv DEF ResolveBounds
<1>2. CASE /\ high > call.low /\ pc' = "bounds"
           /\ lowBlockNumber' = call.low /\ highBlockNumber' = high
           /\ UNCHANGED <<given, head, result>>
  <2>1. high \in Blocks /\ call.low \in Blocks /\ high <= head /\ head \in Blocks
    BY Numbers, BlocksAreNumbers DEF IInv, TypeOK, CallMined, HighBlock
  <2>2. call.low < high
    BY <1>2, <2>1, BlocksAreNumbers
  <2> HIDE DEF high
  <2>3. result = NoBlock
    BY DEF IInv, ResultFound, ResolveBounds
  <2> QED
    BY <1>2, <2>1, <2>2, <2>3
       DEF IInv, TypeOK, Bracketed, BoundsResolved, CallMined, ResultFound,
           UndefinedEvidence, given
<1> QED
  BY <1>1, <1>2 DEF ResolveBounds

(* The status at both bounds brackets the fill's block.                    *)
LEMMA LookUpBoundsIInv ==
  ASSUME IInv, LookUpBounds
  PROVE  IInv'
<1>1. /\ pc = "bounds" /\ pc' \in {"done", "threw", "search"}
      /\ UNCHANGED <<fillStatus, call, head, lowBlockNumber, highBlockNumber, result>>
      /\ pc' = "done" => fillStatus[highBlockNumber] # Filled
      /\ pc' = "search" => /\ fillStatus[highBlockNumber] = Filled
                           /\ fillStatus[lowBlockNumber] # Filled
  BY DEF LookUpBounds, given, IsFilled
<1>2. result = NoBlock /\ lowBlockNumber = call.low
  BY <1>1 DEF IInv, ResultFound, BoundsResolved
<1>3. ASSUME pc' = "search", NEW b \in Blocks, b < lowBlockNumber
      PROVE  fillStatus[b] # Filled
  <2>1. fillStatus[b] <= fillStatus[call.low] /\ fillStatus[call.low] \in 0..2
        /\ fillStatus[b] \in 0..2
    BY <1>2, <1>3, Numbers DEF IInv
  <2> QED
    BY <1>1, <1>2, <1>3, <2>1 DEF Filled
<1>4. /\ call.low <= lowBlockNumber
  BY <1>2, Numbers DEF IInv
<1> QED
  BY <1>1, <1>2, <1>3, <1>4
     DEF IInv, TypeOK, Bracketed, BoundsResolved, CallMined, ResultFound, UndefinedEvidence

(* What one iteration of the loop does to the bounds.                      *)
LEMMA ProbeNarrows ==
  ASSUME IInv, Probe
  PROVE  /\ call.low <= lowBlockNumber' /\ lowBlockNumber <= lowBlockNumber'
         /\ lowBlockNumber' <= highBlockNumber' /\ highBlockNumber' <= highBlockNumber
         /\ lowBlockNumber' \in Blocks /\ highBlockNumber' \in Blocks
         /\ highBlockNumber' <= head
         /\ fillStatus[highBlockNumber'] = Filled
         /\ fillStatus[call.low] # Filled
         /\ \A b \in Blocks : b < lowBlockNumber' => fillStatus[b] # Filled
<1> DEFINE mid == Mid
<1>1. /\ call.low <= lowBlockNumber /\ lowBlockNumber < highBlockNumber
      /\ highBlockNumber <= head
      /\ fillStatus[highBlockNumber] = Filled
      /\ fillStatus[call.low] # Filled
      /\ \A b \in Blocks : b < lowBlockNumber => fillStatus[b] # Filled
  BY DEF IInv, Bracketed, Probe
<1>2. /\ lowBlockNumber \in Blocks /\ highBlockNumber \in Blocks
      /\ head \in Blocks /\ call.low \in Blocks
  BY Numbers DEF IInv, TypeOK
<1>3. mid \in Blocks /\ lowBlockNumber <= mid /\ mid < highBlockNumber
  BY <1>1, <1>2, MidpointInRange DEF Blocks, Mid
<1> HIDE DEF mid
<1>4. CASE fillStatus[mid] = Filled /\ highBlockNumber' = mid /\ UNCHANGED lowBlockNumber
  BY <1>1, <1>2, <1>3, <1>4 DEF Blocks
<1>5. CASE fillStatus[mid] # Filled /\ lowBlockNumber' = mid + 1 /\ UNCHANGED highBlockNumber
  <2>1. ASSUME NEW b \in Blocks, b < mid + 1
        PROVE  fillStatus[b] # Filled
    <3>1. b <= mid
      BY <1>3, <2>1 DEF Blocks
    <3>2. /\ fillStatus[b] <= fillStatus[mid]
          /\ fillStatus[mid] \in 0..2 /\ fillStatus[b] \in 0..2
      BY <1>3, <3>1, Numbers DEF IInv
    <3> QED
      BY <1>5, <3>2 DEF Filled
  <2> QED
    BY <1>1, <1>2, <1>3, <1>5, <2>1 DEF Blocks
<1> QED
  BY <1>4, <1>5 DEF Probe, mid, IsFilled

(* One iteration of the loop keeps the invariant.                          *)
LEMMA ProbeIInv ==
  ASSUME IInv, Probe
  PROVE  IInv'
<1>1. /\ pc = "search" /\ UNCHANGED <<fillStatus, call, head>>
      /\ \/ lowBlockNumber' < highBlockNumber' /\ pc' = pc /\ result' = result
         \/ /\ ~(lowBlockNumber' < highBlockNumber')
            /\ pc' = "done" /\ result' = lowBlockNumber'
  BY DEF Probe, given, LeftToSearch
<1>2. /\ call.low <= lowBlockNumber'
      /\ lowBlockNumber' <= highBlockNumber'
      /\ lowBlockNumber' \in Blocks /\ highBlockNumber' \in Blocks
      /\ highBlockNumber' <= head
      /\ fillStatus[highBlockNumber'] = Filled
      /\ fillStatus[call.low] # Filled
      /\ \A b \in Blocks : b < lowBlockNumber' => fillStatus[b] # Filled
  BY ProbeNarrows
<1>3. result = NoBlock
  BY <1>1 DEF IInv, ResultFound
<1>4. CASE lowBlockNumber' < highBlockNumber' /\ pc' = pc /\ result' = result
  BY <1>1, <1>2, <1>3, <1>4
     DEF IInv, TypeOK, Bracketed, BoundsResolved, CallMined, ResultFound, UndefinedEvidence
<1>5. CASE /\ ~(lowBlockNumber' < highBlockNumber')
           /\ pc' = "done" /\ result' = lowBlockNumber'
  <2>1. lowBlockNumber' = highBlockNumber' /\ result' = highBlockNumber'
    BY <1>2, <1>5 DEF Blocks
  <2>2. result' # NoBlock /\ result' \in Blocks /\ FilledIn(result')
    BY <1>2, <1>5, <2>1, BlocksAreNumbers DEF FilledIn
  <2>3. call.low < result'
    <3>1. call.low \in Nat /\ lowBlockNumber' \in Nat
      BY <1>2, Numbers, BlocksAreNumbers DEF IInv
    <3>2. call.low # result'
      BY <1>2, <2>1
    <3> QED BY <1>2, <1>5, <3>1, <3>2
  <2>4. FilledIn(result)'
    BY <1>1, <2>2 DEF FilledIn
  <2> QED
    BY <1>1, <1>2, <1>5, <2>1, <2>2, <2>3, <2>4
       DEF IInv, TypeOK, Bracketed, BoundsResolved, CallMined, ResultFound, UndefinedEvidence
<1> QED
  BY <1>1, <1>4, <1>5

(* The invariant is inductive.                                             *)
LEMMA NextIInv == IInv /\ [Next]_vars => IInv'
<1> SUFFICES ASSUME IInv, [Next]_vars
             PROVE  IInv'
  OBVIOUS
<1>1. CASE MineBlock
  BY <1>1, MineBlockIInv
<1>2. CASE ResolveBounds
  BY <1>2, ResolveBoundsIInv
<1>3. CASE LookUpBounds
  BY <1>3, LookUpBoundsIInv
<1>4. CASE Probe
  BY <1>4, ProbeIInv
<1>5. CASE LookupFails
  BY <1>5, ThrewIInv DEF LookupFails
<1>6. CASE UNCHANGED vars
  BY <1>6 DEF vars, IInv, TypeOK, Bracketed, BoundsResolved, CallMined, ResultFound,
       UndefinedEvidence, FilledIn
<1> QED
  BY <1>1, <1>2, <1>3, <1>4, <1>5, <1>6 DEF Next, Settled

(* Every reachable state satisfies the invariant.                          *)
LEMMA Invariance == Spec => []IInv
  BY InitIInv, NextIInv, PTL DEF Spec

-----------------------------------------------------------------------------

(* The variables of the search keep their types.                           *)
THEOREM TypeCorrect == Spec => []TypeOK
  BY Invariance, PTL DEF IInv

(* A block number that is returned is the block of the fill, inside the    *)
(* caller's bounds.                                                        *)
THEOREM ResultCorrect == Spec => []ResultIsFillBlock
<1>1. IInv => ResultIsFillBlock
  BY DEF IInv, ResultFound, ResultIsFillBlock
<1> QED
  BY <1>1, Invariance, PTL

(* Undefined is returned only for a relay that was not filled by the upper *)
(* bound of the search.                                                    *)
THEOREM UndefinedCorrect == Spec => []UndefinedMeansUnfilled
<1>1. IInv => UndefinedMeansUnfilled
  <2> SUFFICES ASSUME IInv, pc = "done", result = NoBlock, NEW b \in Blocks, FilledIn(b)
               PROVE  b > highBlockNumber
    BY DEF UndefinedMeansUnfilled
  <2>1. /\ fillStatus[highBlockNumber] # Filled /\ highBlockNumber \in Blocks
        /\ fillStatus[b] = Filled
    BY DEF IInv, UndefinedEvidence, TypeOK, FilledIn
  <2>2. ~(b <= highBlockNumber)
    <3>1. b <= highBlockNumber => fillStatus[b] <= fillStatus[highBlockNumber]
      BY <2>1, Numbers DEF IInv
    <3>2. fillStatus[highBlockNumber] \in 0..2
      BY <2>1, Numbers DEF IInv
    <3> QED BY <2>1, <3>1, <3>2 DEF Filled
  <2> QED
    BY <2>1, <2>2, BlocksAreNumbers
<1> QED
  BY <1>1, Invariance, PTL

-----------------------------------------------------------------------------

(* Bounds around the fill are an interval of the abstract search.          *)
LEMMA BracketsAbstractly ==
  ASSUME NEW l \in Blocks, NEW h \in Blocks, l <= h,
         fillStatus[h] = Filled,
         \A b \in Blocks : b < l => fillStatus[b] # Filled
  PROVE  Abstract!Brackets(l, h)
<1>1. \A b \in Blocks : fillStatus[b] = Filled => l <= b
  BY BlocksAreNumbers
<1> QED
  BY <1>1 DEF Abstract!Brackets

(* Every step of the call is a step of the abstract search or a stutter.   *)
LEMMA StepRefines ==
  ASSUME IInv, IInv', [Next]_vars
  PROVE  [Abstract!Next]_(Abstract!vars)
<1>1. CASE UNCHANGED vars
  BY <1>1 DEF vars, Abstract!vars, AbstractStatus, AbstractLow, AbstractHigh
<1>2. UNCHANGED fillStatus
  BY DEF Next, vars, given, MineBlock, ResolveBounds, LookUpBounds, Probe, LookupFails,
         Settled, Threw
<1>3. CASE MineBlock
  BY <1>2, <1>3
     DEF MineBlock, Abstract!vars, AbstractStatus, AbstractLow, AbstractHigh
<1>4. CASE /\ pc \in {"start", "bounds", "search"} /\ result' = NoBlock
           /\ pc' \in {"threw", "done"}
  <2>1. AbstractStatus \in {"idle", "searching"} /\ AbstractStatus' = "refused"
    BY <1>4 DEF AbstractStatus
  <2> QED
    BY <1>2, <2>1 DEF Abstract!Next, Abstract!Refuse
<1>5. CASE pc = "start" /\ pc' = "bounds"
  BY <1>2, <1>5 DEF AbstractStatus, AbstractLow, AbstractHigh, Abstract!vars
<1>6. pc \in {"start", "bounds", "search"} => result = NoBlock
  BY DEF IInv, ResultFound
<1>7. CASE ResolveBounds
  BY <1>4, <1>5, <1>6, <1>7 DEF ResolveBounds, Threw
<1>8. CASE LookUpBounds
  <2>1. pc = "bounds" /\ result' = NoBlock /\ pc' \in {"threw", "done", "search"}
    BY <1>6, <1>8 DEF LookUpBounds
  <2>2. CASE pc' = "search"
    <3>1. AbstractStatus = "idle" /\ AbstractStatus' = "searching"
      BY <2>1, <2>2 DEF AbstractStatus
    <3>2. /\ lowBlockNumber' \in Blocks /\ highBlockNumber' \in Blocks
          /\ lowBlockNumber' <= highBlockNumber'
          /\ fillStatus[highBlockNumber'] = Filled
          /\ \A b \in Blocks : b < lowBlockNumber' => fillStatus[b] # Filled
      BY <1>2, <2>2, BlocksAreNumbers DEF IInv, Bracketed, TypeOK
    <3>3. Abstract!Brackets(lowBlockNumber', highBlockNumber')
      BY <3>2, BracketsAbstractly
    <3>4. AbstractLow' = lowBlockNumber' /\ AbstractHigh' = highBlockNumber'
      BY <2>2 DEF AbstractLow, AbstractHigh
    <3> QED
      BY <1>2, <3>1, <3>3, <3>4 DEF Abstract!Next, Abstract!Begin
  <2> QED
    BY <1>4, <2>1, <2>2
<1>9. CASE Probe
  <2>1. /\ lowBlockNumber <= lowBlockNumber' /\ highBlockNumber' <= highBlockNumber
        /\ lowBlockNumber' \in Blocks /\ highBlockNumber' \in Blocks
        /\ lowBlockNumber' <= highBlockNumber'
        /\ fillStatus[highBlockNumber'] = Filled
        /\ \A b \in Blocks : b < lowBlockNumber' => fillStatus[b] # Filled
    BY <1>9, ProbeNarrows
  <2>2. /\ pc = "search"
        /\ \/ pc' = "search"
           \/ pc' = "done" /\ result' = lowBlockNumber'
    BY <1>9 DEF Probe
  <2>3. AbstractStatus = "searching" /\ AbstractStatus' \in {"searching", "ended"}
    BY <2>1, <2>2, BlocksAreNumbers DEF AbstractStatus
  <2>4. /\ AbstractLow = lowBlockNumber /\ AbstractHigh = highBlockNumber
        /\ AbstractLow' = lowBlockNumber' /\ AbstractHigh' = highBlockNumber'
    BY <2>2 DEF AbstractLow, AbstractHigh
  <2>5. Abstract!Brackets(lowBlockNumber', highBlockNumber')
    BY <2>1, BracketsAbstractly
  <2> QED
    BY <1>2, <2>1, <2>3, <2>4, <2>5 DEF Abstract!Next, Abstract!Narrow
<1>10. CASE LookupFails
  BY <1>4, <1>6, <1>10 DEF LookupFails, Threw
<1> QED
  BY <1>1, <1>3, <1>7, <1>8, <1>9, <1>10 DEF Next, Settled

(* findFillBlock implements the search for the leftmost block at which the *)
(* relay is filled.                                                        *)
THEOREM Refinement == Spec => ImplementsLeftmostSearch
<1>1. Init => Abstract!Init
  BY DEF Init, Abstract!Init, AbstractStatus
<1> QED
  BY <1>1, StepRefines, Invariance, PTL DEF Spec, ImplementsLeftmostSearch, Abstract!Spec
=============================================================================
