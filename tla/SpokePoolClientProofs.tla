----------------------- MODULE SpokePoolClientProofs -----------------------
(***************************************************************************)
(* Theorems about SpokePoolClient, for every chain, any number of callers  *)
(* and failures wherever they fall.                                        *)
(*                                                                         *)
(* IInv: no event is missed.  An update in flight commits a window that it *)
(* read before its awaits; the invariant adds that all events before the   *)
(* start of every window in flight are held, that no new event can appear  *)
(* there, and that deposit ids and relays name one event each, which makes *)
(* the deduplication by id and by relay harmless.                          *)
(*                                                                         *)
(* HInv: what is held is of the chain's history, in its order, and as long *)
(* as updates do not overlap from before the window of the one in flight.  *)
(* On it rest the order of the lists, the range of queried ids, the speed- *)
(* ups, the search window that never moves back, the refinement of         *)
(* EventMirror, and RoutesOK: that routes are as their last change says.   *)
(***************************************************************************)
EXTENDS SpokePoolClient, FiniteSetTheorems, SequenceTheorems, WellFoundedInduction, TLAPS

(* The kinds that are stored as they are, and those every call asks for.   *)
Kinds == EventNames \ {"EnabledDepositRoute"}
Asked == {n \in Kinds : \A names \in EventSets : n \in names}

EventRecords ==
  [name : {"V3FundsDeposited"}, block : Nat, id : Nat, depositor : Depositors]
  \cup [name : {"RequestedSpeedUpV3Deposit"}, block : Nat, id : Nat,
        depositor : Depositors, amount : SpeedUpAmounts]
  \cup [name : {"EnabledDepositRoute"}, block : Nat, route : Routes, enabled : BOOLEAN]
  \cup [name : {"TokensBridged", "RelayedRootBundle", "ExecutedRelayerRefundRoot"},
        block : Nat]
  \cup [name : {"RequestedV3SlowFill", "FilledV3Relay"}, block : Nat, relay : Relays]

UpdateRecords ==
  {NoUpdate}
  \cup [stage : {"firstDepositId"}, names : EventSets]
  \cup [stage : {"blockNumber"}, names : EventSets, firstDepositId : Nat, from : Nat]
  \cup [stage : {"query", "quotes"}, names : EventSets, firstDepositId : Nat,
        from : Nat, to : Nat, fullHistory : BOOLEAN]

(* All events from fromBlock to b are held, of the kinds that every call   *)
(* asks for, and none can be added there.                                  *)
Covered(b) == \A n \in Asked : Found(n, FromBlock, b) \subseteq Held(n)
Final(b) == b <= head \/ b < FromBlock

(* A deposit id, and a relay that asked for a slow fill, name one event.   *)
LogOK ==
  /\ head \in Nat
  /\ log \in Seq(EventRecords)
  /\ \A p, q \in EventsOf("V3FundsDeposited") : log[p].id = log[q].id => p = q
  /\ \A p \in EventsOf("V3FundsDeposited") : log[p].id < NextDepositId
  /\ \A p, q \in EventsOf("RequestedV3SlowFill") : log[p].relay = log[q].relay => p = q

WindowOK ==
  /\ firstBlockToSearch \in Nat /\ latestBlockSearched \in Nat /\ isUpdated \in BOOLEAN
  /\ firstDepositIdForSpokePool \in Nat
  /\ toBlock # NoBlock => toBlock \in Nat /\ toBlock <= head
  /\ latestBlockSearched = IF isUpdated THEN firstBlockToSearch - 1 ELSE 0
  /\ Final(firstBlockToSearch - 1)

MemoryOK ==
  /\ depositHashes =
       [id \in DOMAIN depositHashes |->
         [event |-> depositHashes[id].event, speedUp |-> depositHashes[id].speedUp]]
  /\ \A id \in DOMAIN depositHashes :
       /\ depositHashes[id].event \in EventsOf("V3FundsDeposited")
       /\ log[depositHashes[id].event].id = id
  /\ slowFillRequests = [r \in DOMAIN slowFillRequests |-> slowFillRequests[r]]
  /\ \A r \in DOMAIN slowFillRequests :
       /\ slowFillRequests[r] \in EventsOf("RequestedV3SlowFill")
       /\ log[slowFillRequests[r]].relay = r
  /\ stored \in [AppendOnly -> Seq(SUBSET Nat)]

UpdatesOK ==
  /\ update \in [Callers -> UpdateRecords]
  /\ \A u \in Callers :
       /\ update[u].stage \in {"blockNumber", "query", "quotes"} => Final(update[u].from - 1)
       /\ update[u].stage \in {"query", "quotes"} => update[u].to <= head

(* Of an update that waits for its quotes, bridged tokens are held already.*)
CoverOK ==
  /\ Covered(firstBlockToSearch - 1)
  /\ \A u \in Callers :
       /\ update[u].stage \in {"blockNumber", "query", "quotes"} => Covered(update[u].from - 1)
       /\ update[u].stage = "quotes" => Answer(u, "TokensBridged") \subseteq Held("TokensBridged")

IInv == LogOK /\ WindowOK /\ MemoryOK /\ UpdatesOK /\ CoverOK

-----------------------------------------------------------------------------

(* The events of a kind are finitely many positions of the log.            *)
LEMMA EventsFinite ==
  ASSUME LogOK, NEW n
  PROVE  /\ EventsOf(n) \subseteq 1..Len(log)
         /\ EventsOf(n) \subseteq Nat
         /\ IsFiniteSet(EventsOf(n))
         /\ Cardinality(EventsOf(n)) \in Nat
<1>1. Len(log) \in Nat /\ DOMAIN log = 1..Len(log)
  BY DEF LogOK
<1>2. EventsOf(n) \subseteq 1..Len(log) /\ EventsOf(n) \subseteq Nat
  BY <1>1 DEF EventsOf
<1>3. IsFiniteSet(1..Len(log))
  BY <1>1, FS_Interval
<1>4. IsFiniteSet(EventsOf(n))
  BY <1>2, <1>3, FS_Subset
<1> QED
  BY <1>2, <1>4, FS_CardinalityType

(* The counter as of a block is a number.                                  *)
LEMMA CounterIsNumber ==
  ASSUME LogOK, NEW b
  PROVE  NumberOfDeposits(b) \in Nat
<1>1. {p \in EventsOf("V3FundsDeposited") : log[p].block <= b} \subseteq EventsOf("V3FundsDeposited")
  OBVIOUS
<1> QED
  BY <1>1, EventsFinite, FS_Subset, FS_CardinalityType DEF NumberOfDeposits

(* Every kind has a copy: what is held of it is one of three sets.         *)
LEMMA HeldByKind ==
  /\ \A n \in AppendOnly : Held(n) = UNION {stored[n][i] : i \in DOMAIN stored[n]}
  /\ Held("V3FundsDeposited") = {depositHashes[id].event : id \in DOMAIN depositHashes}
  /\ Held("RequestedV3SlowFill") = {slowFillRequests[r] : r \in DOMAIN slowFillRequests}
  /\ Kinds = AppendOnly \cup {"V3FundsDeposited", "RequestedV3SlowFill"}
  BY DEF Held, AppendOnly, Kinds, EventNames

(* Appending a batch adds its events, and nothing else, to what is held.   *)
LEMMA AppendedBatch ==
  ASSUME NEW s \in Seq(SUBSET Nat), NEW a \in SUBSET Nat
  PROVE  /\ Append(s, a) \in Seq(SUBSET Nat)
         /\ UNION {Append(s, a)[i] : i \in DOMAIN Append(s, a)}
              = (UNION {s[i] : i \in DOMAIN s}) \cup a
<1> DEFINE t == Append(s, a)
<1>1. /\ t \in Seq(SUBSET Nat) /\ Len(t) = Len(s) + 1 /\ Len(s) \in Nat
      /\ \A i \in 1..Len(s) : t[i] = s[i]
      /\ t[Len(s) + 1] = a
  BY AppendProperties
<1>2. DOMAIN s = 1..Len(s) /\ DOMAIN t = 1..(Len(s) + 1)
  BY <1>1
<1> HIDE DEF t
<1>3. ASSUME NEW x
      PROVE  (\E i \in DOMAIN t : x \in t[i]) <=> (\E i \in DOMAIN s : x \in s[i]) \/ x \in a
  BY <1>1, <1>2
<1>4. UNION {t[i] : i \in DOMAIN t} = (UNION {s[i] : i \in DOMAIN s}) \cup a
  BY <1>3
<1> QED
  BY <1>1, <1>4 DEF t


-----------------------------------------------------------------------------

LEMMA InitHolds ==
  Init => IInv
<1> SUFFICES ASSUME Init PROVE IInv
  OBVIOUS
<1> USE BlockAssumption, BoundAssumption
<1>1. \A n : EventsOf(n) = {}
  BY DEF Init, EventsOf
<1>2. \A n, a, b : Found(n, a, b) = {}
  BY <1>1 DEF Found
<1>3. LogOK
  <2>1. <<>> \in Seq(EventRecords)
    BY EmptySeq
  <2> QED
    BY <1>1, <2>1 DEF LogOK, Init
<1>4. WindowOK
  <2>1. isUpdated \in BOOLEAN /\ ~isUpdated
    BY DEF Init
  <2>2. Final(firstBlockToSearch - 1)
    BY DEF Init, Final
  <2>3. /\ firstBlockToSearch \in Nat /\ latestBlockSearched = 0
        /\ firstDepositIdForSpokePool \in Nat /\ toBlock = NoBlock
    BY DEF Init
  <2> QED
    BY <2>1, <2>2, <2>3 DEF WindowOK
<1>5. MemoryOK
  <2>1. DOMAIN depositHashes = {} /\ DOMAIN slowFillRequests = {}
    BY DEF Init
  <2>2. depositHashes = [id \in DOMAIN depositHashes |->
         [event |-> depositHashes[id].event, speedUp |-> depositHashes[id].speedUp]]
    BY DEF Init
  <2>3. slowFillRequests = [r \in DOMAIN slowFillRequests |-> slowFillRequests[r]]
    BY DEF Init
  <2>4. stored \in [AppendOnly -> Seq(SUBSET Nat)]
    BY DEF Init
  <2> QED
    BY <2>1, <2>2, <2>3, <2>4 DEF MemoryOK
<1>6. UpdatesOK
  BY DEF UpdatesOK, Init, UpdateRecords, NoUpdate
<1>7. CoverOK
  <2>1. \A b : Covered(b)
    BY <1>2 DEF Covered
  <2>2. \A u \in Callers : update[u].stage = "idle"
    BY DEF Init, NoUpdate
  <2> QED
    BY <2>1, <2>2 DEF CoverOK
<1> QED
  BY <1>3, <1>4, <1>5, <1>6, <1>7 DEF IInv

(* A step that only moves calls of update() on keeps the invariant if each *)
(* call it moves is over, or starts its window where all before is held.   *)
LEMMA UpdateStep ==
  ASSUME IInv,
         UNCHANGED <<chain, client, toBlock>>,
         update' \in [Callers -> UpdateRecords],
         \A u \in Callers :
           \/ update'[u] = update[u]
           \/ update'[u].stage \in {"idle", "firstDepositId"}
           \/ /\ update'[u].stage \in {"blockNumber", "query"}
              /\ Final(update'[u].from - 1) /\ Covered(update'[u].from - 1)
              /\ update'[u].stage = "query" => update'[u].to <= head
  PROVE  IInv'
<1>1. UNCHANGED <<log, head, firstBlockToSearch, latestBlockSearched, isUpdated, toBlock,
                  firstDepositIdForSpokePool, depositHashes, slowFillRequests, stored>>
  BY DEF chain, client, window, poolIds, memory
<1>2. LogOK' /\ WindowOK' /\ MemoryOK'
  BY <1>1 DEF IInv, LogOK, WindowOK, MemoryOK, EventsOf, NextDepositId, Final
<1>3. (\A n : Held(n)' = Held(n)) /\ (\A n, a, b : Found(n, a, b)' = Found(n, a, b))
  BY <1>1 DEF Held, Found, EventsOf
<1>4. UpdatesOK'
  BY <1>1 DEF IInv, UpdatesOK, Final
<1>5. CoverOK'
  <2>1. Covered(firstBlockToSearch - 1)'
    BY <1>1, <1>3 DEF IInv, CoverOK, Covered
  <2>2. ASSUME NEW u \in Callers
        PROVE  /\ update'[u].stage \in {"blockNumber", "query", "quotes"}
                    => Covered(update[u].from - 1)'
               /\ update'[u].stage = "quotes"
                    => (Answer(u, "TokensBridged") \subseteq Held("TokensBridged"))'
    <3>1. CASE update'[u] = update[u]
      BY <1>1, <1>3, <3>1 DEF IInv, CoverOK, Covered, Answer, WindowStart
    <3>2. CASE update'[u].stage \in {"idle", "firstDepositId"}
      BY <3>2
    <3>3. CASE /\ update'[u].stage \in {"blockNumber", "query"}
               /\ Covered(update'[u].from - 1)
      BY <1>1, <1>3, <3>3 DEF Covered
    <3> QED
      BY <3>1, <3>2, <3>3
  <2> QED
    BY <2>1, <2>2 DEF CoverOK
<1> QED
  BY <1>2, <1>4, <1>5 DEF IInv

(* What an event that is emitted can be.                                   *)
LEMMA Emittable ==
  ASSUME LogOK, NEW e \in Possible
  PROVE  /\ e \in EventRecords
         /\ e.block = head + 1
         /\ e.name = "V3FundsDeposited" => e.id = NextDepositId
         /\ e.name = "RequestedV3SlowFill" =>
              e.relay \notin RelaysWith({"RequestedV3SlowFill", "FilledV3Relay"})
<1>1. head + 1 \in Nat /\ NextDepositId \in Nat /\ SpeedUpIds \subseteq Nat
  BY EventsFinite DEF LogOK, NextDepositId, SpeedUpIds
<1>2. CASE e \in Deposits
  BY <1>1, <1>2 DEF Deposits, EventRecords, NextBlock
<1>3. CASE e \in SpeedUps
  BY <1>1, <1>3 DEF SpeedUps, EventRecords, NextBlock
<1>4. CASE e \in RouteChanges
  BY <1>1, <1>4 DEF RouteChanges, EventRecords, NextBlock
<1>5. CASE e \in SlowFillRequests
  BY <1>1, <1>5 DEF SlowFillRequests, EventRecords, NextBlock
<1>6. CASE e \in Fills
  BY <1>1, <1>6 DEF Fills, EventRecords, NextBlock
<1>7. CASE e \in Others
  BY <1>1, <1>7 DEF Others, EventRecords, NextBlock
<1> QED
  BY <1>2, <1>3, <1>4, <1>5, <1>6, <1>7 DEF Possible

(* A new event is after every block that is final, and changes no other.   *)
LEMMA EmitStep ==
  ASSUME IInv, Emit
  PROVE  IInv'
<1> DEFINE last == Len(log) + 1
<1>1. PICK e \in Possible : log' = Append(log, e)
  BY DEF Emit
<1>2. /\ e \in EventRecords /\ e.block = head + 1
      /\ e.name = "V3FundsDeposited" => e.id = NextDepositId
      /\ e.name = "RequestedV3SlowFill" =>
           e.relay \notin RelaysWith({"RequestedV3SlowFill", "FilledV3Relay"})
  BY Emittable DEF IInv
<1>3. UNCHANGED <<head, toBlock, update, firstBlockToSearch, latestBlockSearched, isUpdated,
                  firstDepositIdForSpokePool, depositHashes, slowFillRequests, stored>>
  BY DEF Emit, client, window, poolIds, memory
<1>4. head \in Nat /\ log \in Seq(EventRecords) /\ Len(log) \in Nat
  BY DEF IInv, LogOK
<1>5. /\ log' \in Seq(EventRecords) /\ DOMAIN log' = 1..last /\ DOMAIN log = 1..Len(log)
      /\ \A p \in 1..Len(log) : log'[p] = log[p]
      /\ log'[last] = e
  BY <1>1, <1>2, <1>4, AppendProperties
<1>6. last \in Nat /\ last \notin 1..Len(log) /\ 1..last = 1..Len(log) \cup {last}
  BY <1>4
<1> HIDE DEF last
<1>7. ASSUME NEW n
      PROVE  /\ EventsOf(n)' = IF e.name = n THEN EventsOf(n) \cup {last} ELSE EventsOf(n)
             /\ \A p \in EventsOf(n) : log'[p] = log[p]
             /\ last \notin EventsOf(n)
  BY <1>5, <1>6 DEF EventsOf
<1>8. ASSUME NEW n, NEW b \in Int, Final(b)
      PROVE  Found(n, FromBlock, b)' = Found(n, FromBlock, b)
  <2>1. ~(FromBlock <= log'[last].block /\ log'[last].block <= b)
    BY <1>2, <1>4, <1>5, <1>8, BlockAssumption DEF Final
  <2> QED
    BY <1>7, <2>1 DEF Found
<1>9. LogOK'
  <2>1. \A p, q \in EventsOf("V3FundsDeposited")' : log'[p].id = log'[q].id => p = q
    <3>1. \A p \in EventsOf("V3FundsDeposited") : log[p].id \in Nat /\ log[p].id < NextDepositId
      <4>1. \A p \in EventsOf("V3FundsDeposited") : log[p] \in EventRecords
        BY <1>4 DEF EventsOf
      <4>2. \A r \in EventRecords : r.name = "V3FundsDeposited" => r.id \in Nat
        BY DEF EventRecords
      <4> QED
        BY <4>1, <4>2 DEF IInv, LogOK, EventsOf
    <3>2. NextDepositId \in Nat
      BY EventsFinite DEF IInv, NextDepositId
    <3>3. CASE e.name = "V3FundsDeposited"
      <4>1. \A p \in EventsOf("V3FundsDeposited") : log'[p].id # log'[last].id
        BY <1>2, <1>5, <1>7, <3>1, <3>2, <3>3
      <4> QED
        BY <1>7, <3>3, <4>1 DEF IInv, LogOK
    <3>4. CASE e.name # "V3FundsDeposited"
      BY <1>7, <3>4 DEF IInv, LogOK
    <3> QED
      BY <3>3, <3>4
  <2>2. \A p \in EventsOf("V3FundsDeposited")' : log'[p].id < NextDepositId'
    <3>1. CASE e.name = "V3FundsDeposited"
      <4>1. NextDepositId' = NextDepositId + 1 /\ NextDepositId \in Nat
        BY <1>7, <3>1, EventsFinite, FS_AddElement DEF IInv, NextDepositId
      <4>2. \A p \in EventsOf("V3FundsDeposited") : log'[p].id \in Nat /\ log'[p].id < NextDepositId
        <5>1. \A p \in EventsOf("V3FundsDeposited") : log[p] \in EventRecords
          BY <1>4 DEF EventsOf
        <5>2. \A r \in EventRecords : r.name = "V3FundsDeposited" => r.id \in Nat
          BY DEF EventRecords
        <5> QED
          BY <1>7, <5>1, <5>2 DEF IInv, LogOK, EventsOf
      <4>3. log'[last].id = NextDepositId
        BY <1>2, <1>5, <3>1
      <4> QED
        BY <1>7, <3>1, <4>1, <4>2, <4>3
    <3>2. CASE e.name # "V3FundsDeposited"
      BY <1>7, <3>2 DEF IInv, LogOK, NextDepositId
    <3> QED
      BY <3>1, <3>2
  <2>3. \A p, q \in EventsOf("RequestedV3SlowFill")' : log'[p].relay = log'[q].relay => p = q
    <3>1. CASE e.name = "RequestedV3SlowFill"
      <4>1. \A p \in EventsOf("RequestedV3SlowFill") : log'[p].relay # log'[last].relay
        BY <1>2, <1>5, <1>7, <3>1 DEF RelaysWith
      <4> QED
        BY <1>7, <3>1, <4>1 DEF IInv, LogOK
    <3>2. CASE e.name # "RequestedV3SlowFill"
      BY <1>7, <3>2 DEF IInv, LogOK
    <3> QED
      BY <3>1, <3>2
  <2> QED
    BY <1>3, <1>4, <1>5, <2>1, <2>2, <2>3 DEF LogOK
<1>10. WindowOK'
  BY <1>3 DEF IInv, WindowOK, Final
<1>11. MemoryOK'
  BY <1>3, <1>7 DEF IInv, MemoryOK
<1>12. UpdatesOK'
  BY <1>3 DEF IInv, UpdatesOK, Final
<1>13. CoverOK'
  <2>1. \A n : Held(n)' = Held(n)
    BY <1>3 DEF Held
  <2>2. ASSUME NEW b \in Int, Final(b), Covered(b)
        PROVE  \A n \in Asked : Found(n, FromBlock, b)' \subseteq Held(n)'
    BY <1>8, <2>1, <2>2 DEF Covered
  <2>3. Covered(firstBlockToSearch - 1)'
    BY <1>3, <2>2 DEF IInv, CoverOK, WindowOK, Covered
  <2>4. ASSUME NEW u \in Callers, update[u].stage \in {"blockNumber", "query", "quotes"}
        PROVE  Covered(update[u].from - 1)'
    <3>1. update[u].from - 1 \in Int
      BY <2>4 DEF IInv, UpdatesOK, UpdateRecords, NoUpdate
    <3> QED
      BY <1>3, <2>2, <2>4, <3>1 DEF IInv, CoverOK, UpdatesOK, Covered
  <2>5. ASSUME NEW u \in Callers, update[u].stage = "quotes"
        PROVE  Answer(u, "TokensBridged")' \subseteq Held("TokensBridged")'
    <3>1. update[u].to \in Nat /\ update[u].to <= head
      BY <2>5 DEF IInv, UpdatesOK, UpdateRecords, NoUpdate
    <3>2. ~(log'[last].block <= update[u].to)
      BY <1>2, <1>4, <1>5, <3>1
    <3>3. \A a : Found("TokensBridged", a, update[u].to)' = Found("TokensBridged", a, update[u].to)
      BY <1>3, <1>7, <3>2 DEF Found
    <3>4. WindowStart(u, "TokensBridged") = update[u].from
      BY DEF WindowStart
    <3>5. WindowStart(u, "TokensBridged")' = update[u].from
      BY <1>3 DEF WindowStart
    <3>6. Answer(u, "TokensBridged")' = Answer(u, "TokensBridged")
      BY <1>3, <3>3, <3>4, <3>5 DEF Answer
    <3> QED
      BY <2>1, <2>5, <3>6 DEF IInv, CoverOK
  <2> QED
    BY <1>3, <2>3, <2>4, <2>5 DEF CoverOK
<1> QED
  BY <1>9, <1>10, <1>11, <1>12, <1>13 DEF IInv

LEMMA MineBlockStep ==
  ASSUME IInv, MineBlock
  PROVE  IInv'
<1>1. UNCHANGED <<log, toBlock, update, firstBlockToSearch, latestBlockSearched, isUpdated,
                  firstDepositIdForSpokePool, depositHashes, slowFillRequests, stored>>
  BY DEF MineBlock, client, window, poolIds, memory
<1>2. head \in Nat /\ head' = head + 1
  BY DEF IInv, LogOK, MineBlock
<1>3. (\A n : Held(n)' = Held(n)) /\ (\A n, a, b : Found(n, a, b)' = Found(n, a, b))
  BY <1>1 DEF Held, Found, EventsOf
<1>4. LogOK' /\ MemoryOK'
  BY <1>1, <1>2 DEF IInv, LogOK, MemoryOK, EventsOf, NextDepositId
<1>5. WindowOK'
  BY <1>1, <1>2 DEF IInv, WindowOK, Final
<1>6. UpdatesOK'
  <2>1. ASSUME NEW u \in Callers
        PROVE  /\ update[u].stage \in {"blockNumber", "query", "quotes"}
                    => Final(update[u].from - 1)'
               /\ update[u].stage \in {"query", "quotes"} => update[u].to <= head'
    <3>1. /\ update[u].stage \in {"blockNumber", "query", "quotes"} => update[u].from \in Nat
          /\ update[u].stage \in {"query", "quotes"} => update[u].to \in Nat
      BY DEF IInv, UpdatesOK, UpdateRecords, NoUpdate
    <3> QED
      BY <1>1, <1>2, <3>1 DEF IInv, UpdatesOK, Final
  <2> QED
    BY <1>1, <2>1 DEF IInv, UpdatesOK
<1>7. CoverOK'
  BY <1>1, <1>3 DEF IInv, CoverOK, Covered, Answer, WindowStart
<1> QED
  BY <1>4, <1>5, <1>6, <1>7 DEF IInv

LEMMA SetToBlockStep ==
  ASSUME IInv, SetToBlock
  PROVE  IInv'
<1>1. UNCHANGED <<log, head, update, firstBlockToSearch, latestBlockSearched, isUpdated,
                  firstDepositIdForSpokePool, depositHashes, slowFillRequests, stored>>
  BY DEF SetToBlock, chain, client, window, poolIds, memory
<1>2. toBlock' \in Nat /\ toBlock' <= head
  BY BlockAssumption DEF SetToBlock
<1>3. (\A n : Held(n)' = Held(n)) /\ (\A n, a, b : Found(n, a, b)' = Found(n, a, b))
  BY <1>1 DEF Held, Found, EventsOf
<1>4. LogOK' /\ WindowOK' /\ MemoryOK' /\ UpdatesOK'
  BY <1>1, <1>2
     DEF IInv, LogOK, WindowOK, MemoryOK, UpdatesOK, EventsOf, NextDepositId, Final
<1>5. CoverOK'
  BY <1>1, <1>3 DEF IInv, CoverOK, Covered, Answer, WindowStart
<1> QED
  BY <1>4, <1>5 DEF IInv

(* What an update that asks for its window takes from the client.          *)
LEMMA SearchConfigRecord ==
  ASSUME IInv, NEW names \in EventSets, NEW id \in Nat
  PROVE  LET s == SearchConfig(names, id) IN
         /\ s \in UpdateRecords
         /\ \/ s.stage = "idle"
            \/ /\ s.stage \in {"blockNumber", "query"} /\ s.from = firstBlockToSearch
               /\ s.stage = "query" => s.to <= head
<1>1. /\ firstBlockToSearch \in Nat /\ isUpdated \in BOOLEAN
      /\ toBlock # NoBlock => toBlock \in Nat /\ toBlock <= head
  BY DEF IInv, WindowOK
<1>2. (~isUpdated) \in BOOLEAN
  OBVIOUS
<1>3. CASE toBlock = NoBlock
  BY <1>1, <1>3 DEF SearchConfig, UpdateRecords
<1>4. CASE toBlock # NoBlock /\ InvalidConfig
  BY <1>4 DEF SearchConfig, UpdateRecords, NoUpdate
<1>5. CASE toBlock # NoBlock /\ ~InvalidConfig
  <2>1. SearchConfig(names, id) = Query(names, id, firstBlockToSearch, toBlock)
    BY <1>5 DEF SearchConfig
  <2>2. Query(names, id, firstBlockToSearch, toBlock)
          \in [stage : {"query", "quotes"}, names : EventSets, firstDepositId : Nat,
               from : Nat, to : Nat, fullHistory : BOOLEAN]
    BY <1>1, <1>2, <1>5 DEF Query
  <2> QED
    BY <1>1, <1>5, <2>1, <2>2 DEF UpdateRecords, Query
<1> QED
  BY <1>3, <1>4, <1>5

LEMMA StartStep ==
  ASSUME IInv, NEW u \in Callers, Start(u)
  PROVE  IInv'
<1>0. PICK names \in EventSets :
        \E s : /\ update' = [update EXCEPT ![u] = s]
              /\ \/ s = [stage |-> "firstDepositId", names |-> names]
                 \/ s = SearchConfig(names, firstDepositIdForSpokePool)
  BY DEF Start
<1>1. PICK s :
        /\ update' = [update EXCEPT ![u] = s]
        /\ \/ s = [stage |-> "firstDepositId", names |-> names]
           \/ s = SearchConfig(names, firstDepositIdForSpokePool)
  BY <1>0
<1>2. /\ s \in UpdateRecords
      /\ \/ s.stage \in {"idle", "firstDepositId"}
         \/ /\ s.stage \in {"blockNumber", "query"} /\ s.from = firstBlockToSearch
            /\ s.stage = "query" => s.to <= head
  <2>1. CASE s = [stage |-> "firstDepositId", names |-> names]
    BY <2>1 DEF UpdateRecords
  <2>2. CASE s = SearchConfig(names, firstDepositIdForSpokePool)
    BY <2>2, SearchConfigRecord DEF IInv, WindowOK
  <2> QED
    BY <1>1, <2>1, <2>2
<1>3. /\ update \in [Callers -> UpdateRecords]
      /\ Final(firstBlockToSearch - 1) /\ Covered(firstBlockToSearch - 1)
  BY DEF IInv, UpdatesOK, WindowOK, CoverOK
<1>4. /\ update' \in [Callers -> UpdateRecords]
      /\ update'[u] = s
      /\ \A v \in Callers : v # u => update'[v] = update[v]
  BY <1>1, <1>2, <1>3
<1>5. UNCHANGED <<chain, client, toBlock>>
  BY DEF Start
<1>6. \A v \in Callers :
        \/ update'[v] = update[v]
        \/ update'[v].stage \in {"idle", "firstDepositId"}
        \/ /\ update'[v].stage \in {"blockNumber", "query"}
           /\ Final(update'[v].from - 1) /\ Covered(update'[v].from - 1)
           /\ update'[v].stage = "query" => update'[v].to <= head
  BY <1>2, <1>3, <1>4
<1> QED
  BY <1>4, <1>5, <1>6, UpdateStep

LEMMA FirstDepositIdStep ==
  ASSUME IInv, NEW u \in Callers, FirstDepositId(u)
  PROVE  IInv'
<1> DEFINE id == NumberOfDeposits(DeploymentBlock)
           s == SearchConfig(update[u].names, id)
<1>1. /\ update \in [Callers -> UpdateRecords]
      /\ Final(firstBlockToSearch - 1) /\ Covered(firstBlockToSearch - 1)
      /\ update[u].stage = "firstDepositId"
  BY DEF IInv, UpdatesOK, WindowOK, CoverOK, FirstDepositId
<1>2. update[u].names \in EventSets
  BY <1>1 DEF UpdateRecords, NoUpdate
<1>3. update' = [update EXCEPT ![u] = s]
  BY <1>2 DEF FirstDepositId
<1>4. id \in Nat
  BY CounterIsNumber DEF IInv
<1>5. /\ s \in UpdateRecords
      /\ \/ s.stage = "idle"
         \/ /\ s.stage \in {"blockNumber", "query"} /\ s.from = firstBlockToSearch
            /\ s.stage = "query" => s.to <= head
  BY <1>2, <1>4, SearchConfigRecord
<1> HIDE DEF s
<1>6. /\ update' \in [Callers -> UpdateRecords]
      /\ update'[u] = s
      /\ \A v \in Callers : v # u => update'[v] = update[v]
  BY <1>1, <1>3, <1>5
<1>7. UNCHANGED <<chain, client, toBlock>>
  BY DEF FirstDepositId
<1>8. \A v \in Callers :
        \/ update'[v] = update[v]
        \/ update'[v].stage \in {"idle", "firstDepositId"}
        \/ /\ update'[v].stage \in {"blockNumber", "query"}
           /\ Final(update'[v].from - 1) /\ Covered(update'[v].from - 1)
           /\ update'[v].stage = "query" => update'[v].to <= head
  BY <1>1, <1>5, <1>6
<1> QED
  BY <1>6, <1>7, <1>8, UpdateStep

(* A call that ends without a result leaves everything else as it was.     *)
LEMMA GivesUp ==
  ASSUME IInv, NEW u \in Callers, UNCHANGED <<chain, client, toBlock>>,
         update' = [update EXCEPT ![u] = NoUpdate]
  PROVE  IInv'
<1>1. update \in [Callers -> UpdateRecords] /\ NoUpdate \in UpdateRecords
  BY DEF IInv, UpdatesOK, UpdateRecords
<1>2. /\ update' \in [Callers -> UpdateRecords]
      /\ update'[u] = NoUpdate
      /\ \A v \in Callers : v # u => update'[v] = update[v]
  BY <1>1
<1> QED
  BY <1>2, UpdateStep DEF NoUpdate

LEMMA BlockNumberStep ==
  ASSUME IInv, NEW u \in Callers, BlockNumber(u)
  PROVE  IInv'
<1>1. UNCHANGED <<chain, client, toBlock>> /\ update[u].stage = "blockNumber"
  BY DEF BlockNumber
<1>2. CASE update' = [update EXCEPT ![u] = NoUpdate]
  BY <1>1, <1>2, GivesUp
<1>3. CASE update' = [update EXCEPT ![u] =
             Query(update[u].names, update[u].firstDepositId, update[u].from, head)]
  <2> DEFINE s == Query(update[u].names, update[u].firstDepositId, update[u].from, head)
  <2>1. /\ update \in [Callers -> UpdateRecords] /\ head \in Nat /\ isUpdated \in BOOLEAN
        /\ Final(update[u].from - 1) /\ Covered(update[u].from - 1)
    BY <1>1 DEF IInv, LogOK, WindowOK, UpdatesOK, CoverOK
  <2>2. /\ update[u].names \in EventSets
        /\ update[u].firstDepositId \in Nat /\ update[u].from \in Nat
    BY <1>1, <2>1 DEF UpdateRecords, NoUpdate
  <2>3. s \in [stage : {"query", "quotes"}, names : EventSets, firstDepositId : Nat,
               from : Nat, to : Nat, fullHistory : BOOLEAN]
    BY <2>1, <2>2 DEF Query
  <2>4. s \in UpdateRecords /\ s.stage = "query" /\ s.from = update[u].from /\ s.to = head
    BY <2>3 DEF UpdateRecords, Query
  <2> HIDE DEF s
  <2>5. /\ update' \in [Callers -> UpdateRecords]
        /\ update'[u] = s
        /\ \A v \in Callers : v # u => update'[v] = update[v]
    BY <1>3, <2>1, <2>4 DEF s
  <2>6. \A v \in Callers :
          \/ update'[v] = update[v]
          \/ update'[v].stage \in {"idle", "firstDepositId"}
          \/ /\ update'[v].stage \in {"blockNumber", "query"}
             /\ Final(update'[v].from - 1) /\ Covered(update'[v].from - 1)
             /\ update'[v].stage = "query" => update'[v].to <= head
    BY <2>1, <2>4, <2>5
  <2> QED
    BY <1>1, <2>5, <2>6, UpdateStep
<1> QED
  BY <1>2, <1>3 DEF BlockNumber

(* A deposit id is held for the event it names, if it is held at all.      *)
LEMMA DepositsKept ==
  ASSUME IInv, NEW ps \in SUBSET EventsOf("V3FundsDeposited"), NEW m, m = WithDeposits(ps)
  PROVE  /\ m = [id \in DOMAIN m |-> [event |-> m[id].event, speedUp |-> m[id].speedUp]]
         /\ \A id \in DOMAIN m :
              m[id].event \in EventsOf("V3FundsDeposited") /\ log[m[id].event].id = id
         /\ {m[id].event : id \in DOMAIN m} = Held("V3FundsDeposited") \cup ps
<1>1. \A id \in IdsOf(ps) : \E p \in ps : log[p].id = id
  BY DEF IdsOf
<1>2. ASSUME NEW id \in IdsOf(ps)
      PROVE  /\ NewDeposit(ps, id).event \in ps /\ log[NewDeposit(ps, id).event].id = id
             /\ NewDeposit(ps, id) = [event |-> NewDeposit(ps, id).event,
                                      speedUp |-> NewDeposit(ps, id).speedUp]
  BY <1>1 DEF NewDeposit
<1>3. /\ DOMAIN m = (DOMAIN depositHashes) \cup IdsOf(ps)
      /\ \A id \in DOMAIN depositHashes : m[id] = depositHashes[id]
      /\ \A id \in DOMAIN m : id \notin DOMAIN depositHashes => m[id] = NewDeposit(ps, id)
      /\ m = [id \in DOMAIN m |-> m[id]]
  BY DEF WithDeposits
<1>4. /\ \A id \in DOMAIN depositHashes :
           /\ depositHashes[id] = [event |-> depositHashes[id].event,
                                   speedUp |-> depositHashes[id].speedUp]
           /\ depositHashes[id].event \in EventsOf("V3FundsDeposited")
           /\ log[depositHashes[id].event].id = id
      /\ \A p, q \in EventsOf("V3FundsDeposited") : log[p].id = log[q].id => p = q
  BY DEF IInv, MemoryOK, LogOK
<1>5. \A id \in DOMAIN m :
        /\ m[id] = [event |-> m[id].event, speedUp |-> m[id].speedUp]
        /\ m[id].event \in EventsOf("V3FundsDeposited") /\ log[m[id].event].id = id
  BY <1>2, <1>3, <1>4
<1>6. m = [id \in DOMAIN m |-> [event |-> m[id].event, speedUp |-> m[id].speedUp]]
  BY <1>3, <1>5
<1>7. ASSUME NEW p \in ps
      PROVE  log[p].id \in DOMAIN m /\ m[log[p].id].event = p
  <2>1. log[p].id \in DOMAIN m
    BY <1>3 DEF IdsOf
  <2>2. /\ m[log[p].id].event \in EventsOf("V3FundsDeposited")
        /\ log[m[log[p].id].event].id = log[p].id
    BY <1>5, <2>1
  <2> QED
    BY <1>4, <2>1, <2>2
<1>8. \A id \in DOMAIN m : m[id].event \in Held("V3FundsDeposited") \cup ps
  BY <1>2, <1>3, HeldByKind
<1>9. \A p \in Held("V3FundsDeposited") : \E id \in DOMAIN m : m[id].event = p
  BY <1>3, HeldByKind
<1>10. {m[id].event : id \in DOMAIN m} = Held("V3FundsDeposited") \cup ps
  BY <1>7, <1>8, <1>9
<1> QED
  BY <1>5, <1>6, <1>10

(* Applying speed-ups changes no deposit but for the speed-up it carries.  *)
LEMMA SpedUpKeepsDeposits ==
  ASSUME NEW m, NEW u,
         m = [id \in DOMAIN m |-> [event |-> m[id].event, speedUp |-> m[id].speedUp]]
  PROVE  LET s == SpedUp(m, u) IN
         /\ DOMAIN s = DOMAIN m
         /\ s = [id \in DOMAIN s |-> [event |-> s[id].event, speedUp |-> s[id].speedUp]]
         /\ \A id \in DOMAIN s : s[id].event = m[id].event
<1> DEFINE s == SpedUp(m, u)
<1>1. DOMAIN s = DOMAIN m /\ s = [id \in DOMAIN s |-> s[id]]
  BY DEF SpedUp
<1>2. ASSUME NEW id \in DOMAIN m
      PROVE  s[id] = m[id] \/ \E best : s[id] = [m[id] EXCEPT !.speedUp = best]
  <2>1. ASSUME NEW batches
        PROVE  \/ WithMaxSpeedUp(id, m[id], batches) = m[id]
               \/ \E best : WithMaxSpeedUp(id, m[id], batches) = [m[id] EXCEPT !.speedUp = best]
    BY DEF WithMaxSpeedUp
  <2>2. s[id] = m[id] \/ \E batches : s[id] = WithMaxSpeedUp(id, m[id], batches)
    BY DEF SpedUp
  <2> HIDE DEF s
  <2>3. ASSUME NEW batches, s[id] = WithMaxSpeedUp(id, m[id], batches)
        PROVE  s[id] = m[id] \/ \E best : s[id] = [m[id] EXCEPT !.speedUp = best]
    <3>1. CASE WithMaxSpeedUp(id, m[id], batches) = m[id]
      BY <2>3, <3>1
    <3>2. ASSUME NEW best, WithMaxSpeedUp(id, m[id], batches) = [m[id] EXCEPT !.speedUp = best]
          PROVE  s[id] = [m[id] EXCEPT !.speedUp = best]
      BY <2>3, <3>2
    <3> QED
      BY <2>1, <3>1, <3>2
  <2> QED
    BY <2>2, <2>3
<1>3. ASSUME NEW id \in DOMAIN m
      PROVE  s[id] = [event |-> s[id].event, speedUp |-> s[id].speedUp]
             /\ s[id].event = m[id].event
  <2>1. m[id] = [event |-> m[id].event, speedUp |-> m[id].speedUp]
    OBVIOUS
  <2>2. ASSUME NEW best
        PROVE  [m[id] EXCEPT !.speedUp = best] = [event |-> m[id].event, speedUp |-> best]
    BY <2>1
  <2> HIDE DEF s
  <2> QED
    BY <1>2, <2>1, <2>2
<1> HIDE DEF s
<1>4. s = [id \in DOMAIN s |-> [event |-> s[id].event, speedUp |-> s[id].speedUp]]
  BY <1>1, <1>3
<1> QED
  BY <1>1, <1>3, <1>4 DEF s

(* A relay asks for a slow fill once, so its first request is its only one.*)
LEMMA SlowFillRequestsKept ==
  ASSUME IInv, NEW ps \in SUBSET EventsOf("RequestedV3SlowFill"),
         NEW m, m = WithSlowFillRequests(ps)
  PROVE  /\ m = [r \in DOMAIN m |-> m[r]]
         /\ \A r \in DOMAIN m :
              m[r] \in EventsOf("RequestedV3SlowFill") /\ log[m[r]].relay = r
         /\ {m[r] : r \in DOMAIN m} = Held("RequestedV3SlowFill") \cup ps
<1>1. ASSUME NEW r \in RelaysOf(ps)
      PROVE  FirstRequest(ps, r) \in ps /\ log[FirstRequest(ps, r)].relay = r
  <2>1. PICK p \in ps : log[p].relay = r
    BY DEF RelaysOf
  <2>2. \A q \in ps : log[q].relay = r => q = p
    BY <2>1 DEF IInv, LogOK
  <2>3. p \in Nat
    BY EventsFinite DEF IInv
  <2>4. {q \in ps : log[q].relay = r} = {p}
    BY <2>1, <2>2
  <2>5. \E x \in {p} : \A y \in {p} : x <= y
    BY <2>3
  <2>6. FirstRequest(ps, r) = p
    BY <2>4, <2>5 DEF FirstRequest, Min
  <2> QED
    BY <2>1, <2>6
<1>2. /\ DOMAIN m = (DOMAIN slowFillRequests) \cup RelaysOf(ps)
      /\ \A r \in DOMAIN slowFillRequests : m[r] = slowFillRequests[r]
      /\ \A r \in DOMAIN m : r \notin DOMAIN slowFillRequests => m[r] = FirstRequest(ps, r)
      /\ m = [r \in DOMAIN m |-> m[r]]
  BY DEF WithSlowFillRequests
<1>3. /\ \A r \in DOMAIN slowFillRequests :
           /\ slowFillRequests[r] \in EventsOf("RequestedV3SlowFill")
           /\ log[slowFillRequests[r]].relay = r
      /\ \A p, q \in EventsOf("RequestedV3SlowFill") : log[p].relay = log[q].relay => p = q
  BY DEF IInv, MemoryOK, LogOK
<1>4. \A r \in DOMAIN m : m[r] \in EventsOf("RequestedV3SlowFill") /\ log[m[r]].relay = r
  BY <1>1, <1>2, <1>3
<1>5. ASSUME NEW p \in ps
      PROVE  log[p].relay \in DOMAIN m /\ m[log[p].relay] = p
  <2>1. log[p].relay \in DOMAIN m
    BY <1>2 DEF RelaysOf
  <2>2. /\ m[log[p].relay] \in EventsOf("RequestedV3SlowFill")
        /\ log[m[log[p].relay]].relay = log[p].relay
    BY <1>4, <2>1
  <2> QED
    BY <1>3, <2>1, <2>2
<1>6. \A r \in DOMAIN m : m[r] \in Held("RequestedV3SlowFill") \cup ps
  BY <1>1, <1>2, HeldByKind
<1>7. \A p \in Held("RequestedV3SlowFill") : \E r \in DOMAIN m : m[r] = p
  BY <1>2, HeldByKind
<1>8. {m[r] : r \in DOMAIN m} = Held("RequestedV3SlowFill") \cup ps
  BY <1>5, <1>6, <1>7
<1> QED
  BY <1>2, <1>4, <1>8

(* What an update that has its answers appends.                            *)
LEMMA PushedBatches ==
  ASSUME IInv, NEW u \in Callers, update[u].stage \in {"query", "quotes"},
         NEW names \in SUBSET AppendOnly, NEW m, m = Pushed(u, names)
  PROVE  /\ m \in [AppendOnly -> Seq(SUBSET Nat)]
         /\ \A n \in AppendOnly :
              UNION {m[n][i] : i \in DOMAIN m[n]}
                = Held(n) \cup (IF n \in names THEN Answer(u, n) ELSE {})
<1>1. stored \in [AppendOnly -> Seq(SUBSET Nat)]
  BY DEF IInv, MemoryOK
<1>2. ASSUME NEW n PROVE Answer(u, n) \in SUBSET Nat
  BY EventsFinite DEF IInv, Answer, Found
<1>3. ASSUME NEW n \in AppendOnly
      PROVE  /\ m[n] \in Seq(SUBSET Nat)
             /\ UNION {m[n][i] : i \in DOMAIN m[n]}
                  = Held(n) \cup (IF n \in names THEN Answer(u, n) ELSE {})
  <2>1. Held(n) = UNION {stored[n][i] : i \in DOMAIN stored[n]} /\ stored[n] \in Seq(SUBSET Nat)
    BY <1>1, HeldByKind
  <2>2. CASE n \in names /\ Answer(u, n) # {}
    <3>1. m[n] = Append(stored[n], Answer(u, n))
      BY <2>2 DEF Pushed
    <3>2. /\ Append(stored[n], Answer(u, n)) \in Seq(SUBSET Nat)
          /\ UNION {Append(stored[n], Answer(u, n))[i] :
                      i \in DOMAIN Append(stored[n], Answer(u, n))}
               = (UNION {stored[n][i] : i \in DOMAIN stored[n]}) \cup Answer(u, n)
      BY <1>2, <2>1, AppendedBatch
    <3>3. /\ m[n] \in Seq(SUBSET Nat)
          /\ UNION {m[n][i] : i \in DOMAIN m[n]}
               = (UNION {stored[n][i] : i \in DOMAIN stored[n]}) \cup Answer(u, n)
      BY <3>1, <3>2, Zenon
    <3> QED
      BY <2>1, <2>2, <3>3
  <2>3. CASE n \notin names \/ Answer(u, n) = {}
    <3>1. m[n] = stored[n]
      BY <2>3 DEF Pushed
    <3> QED
      BY <2>1, <2>3, <3>1
  <2> QED
    BY <2>2, <2>3
<1>4. m \in [AppendOnly -> Seq(SUBSET Nat)]
  BY <1>3 DEF Pushed
<1> QED
  BY <1>3, <1>4

(* What is held only grows, so what covered a block covers it still.       *)
LEMMA CoverStays ==
  ASSUME log' = log, \A n \in Kinds : Held(n) \subseteq Held(n)', NEW b, Covered(b)
  PROVE  \A n \in Asked : Found(n, FromBlock, b)' \subseteq Held(n)'
<1>1. \A n : Found(n, FromBlock, b)' = Found(n, FromBlock, b)
  BY DEF Found, EventsOf
<1> QED
  BY <1>1 DEF Covered, Asked

(* The window of an update, as it has been since the update read it.       *)
LEMMA WindowOf ==
  ASSUME IInv, NEW u \in Callers, update[u].stage \in {"query", "quotes"}
  PROVE  /\ update[u].names \in EventSets /\ update[u].firstDepositId \in Nat
         /\ update[u].from \in Nat /\ update[u].to \in Nat /\ update[u].to <= head
         /\ Covered(update[u].from - 1)
         /\ \A n \in Asked : Answer(u, n) = Found(n, update[u].from, update[u].to)
         /\ \A n \in Kinds : Answer(u, n) \subseteq Found(n, update[u].from, update[u].to)
<1>1. update[u] \in UpdateRecords /\ update[u].to <= head /\ Covered(update[u].from - 1)
  BY DEF IInv, UpdatesOK, CoverOK
<1>2. /\ update[u].names \in EventSets /\ update[u].firstDepositId \in Nat
      /\ update[u].from \in Nat /\ update[u].to \in Nat
  BY <1>1 DEF UpdateRecords, NoUpdate
<1>3. (\A n \in Asked : n \in update[u].names /\ n \in Kinds) /\ "EnabledDepositRoute" \notin Kinds
  BY <1>2 DEF Asked, Kinds
<1>4. \A n \in Asked : Answer(u, n) = Found(n, update[u].from, update[u].to)
  BY <1>2, <1>3 DEF Answer, WindowStart
<1>5. \A n \in Kinds : Answer(u, n) \subseteq Found(n, update[u].from, update[u].to)
  BY <1>2, <1>3 DEF Answer, WindowStart
<1> QED
  BY <1>1, <1>2, <1>4, <1>5

(* A step that only adds to what is held, and ends the call of u, keeps    *)
(* the invariant.                                                          *)
LEMMA Stores ==
  ASSUME IInv, NEW u \in Callers, UNCHANGED <<chain, window, toBlock, poolIds>>,
         MemoryOK', \A n \in Kinds : Held(n) \subseteq Held(n)',
         NEW s \in UpdateRecords, update' = [update EXCEPT ![u] = s],
         \/ s = NoUpdate
         \/ /\ s = [update[u] EXCEPT !.stage = "quotes"] /\ update[u].stage = "query"
            /\ Answer(u, "TokensBridged") \subseteq Held("TokensBridged")'
  PROVE  IInv'
<1>1. UNCHANGED <<log, head, firstBlockToSearch, latestBlockSearched, isUpdated, toBlock,
                  firstDepositIdForSpokePool>>
  BY DEF chain, window, poolIds
<1>2. LogOK' /\ WindowOK'
  BY <1>1 DEF IInv, LogOK, WindowOK, EventsOf, NextDepositId, Final
<1>3. /\ update \in [Callers -> UpdateRecords] /\ update' \in [Callers -> UpdateRecords]
      /\ update'[u] = s
      /\ \A v \in Callers : v # u => update'[v] = update[v]
  BY DEF IInv, UpdatesOK
<1>4. \/ s.stage = "idle"
      \/ /\ update[u].stage = "query" /\ s.stage = "quotes"
         /\ s.names = update[u].names /\ s.from = update[u].from /\ s.to = update[u].to
         /\ Answer(u, "TokensBridged") \subseteq Held("TokensBridged")'
  BY <1>3 DEF UpdateRecords, NoUpdate
<1>5. UpdatesOK'
  BY <1>1, <1>3, <1>4 DEF IInv, UpdatesOK, Final
<1>6. CoverOK'
  <2>1. Covered(firstBlockToSearch - 1)'
    BY <1>1, CoverStays DEF IInv, CoverOK, Covered
  <2>2. ASSUME NEW v \in Callers, update'[v].stage \in {"blockNumber", "query", "quotes"}
        PROVE  Covered(update[v].from - 1)'
    <3>1. update'[v].from = update[v].from
      BY <1>3, <1>4, <2>2
    <3>2. Covered(update[v].from - 1)
      BY <1>3, <1>4, <2>2 DEF IInv, CoverOK
    <3> QED
      BY <1>1, <3>1, <3>2, CoverStays DEF Covered
  <2>3. ASSUME NEW v \in Callers, update'[v].stage = "quotes"
        PROVE  Answer(v, "TokensBridged")' \subseteq Held("TokensBridged")'
    <3>1. /\ update'[v].names = update[v].names /\ update'[v].from = update[v].from
          /\ update'[v].to = update[v].to
      BY <1>3, <1>4, <2>3
    <3>2. Answer(v, "TokensBridged")' = Answer(v, "TokensBridged")
      BY <1>1, <3>1 DEF Answer, WindowStart, Found, EventsOf
    <3>3. "TokensBridged" \in Kinds
      BY DEF Kinds, EventNames, AppendOnly
    <3>4. Answer(v, "TokensBridged") \subseteq Held("TokensBridged")'
      BY <1>3, <1>4, <2>3, <3>3 DEF IInv, CoverOK
    <3> QED
      BY <3>2, <3>4
  <2> QED
    BY <2>1, <2>2, <2>3 DEF CoverOK
<1> QED
  BY <1>2, <1>5, <1>6 DEF IInv

(* What an update leaves when it throws among its deposits is kept.        *)
LEMMA ThrowHolds ==
  ASSUME IInv, UNCHANGED <<log, stored, slowFillRequests>>, NEW ps \in SUBSET EventsOf("V3FundsDeposited"),
         depositHashes' = WithDeposits(ps)
  PROVE  /\ MemoryOK'
         /\ \A n \in Kinds : Held(n)' = Held(n) \cup (IF n = "V3FundsDeposited" THEN ps ELSE {})
<1>1. /\ depositHashes' =
           [id \in DOMAIN depositHashes' |->
             [event |-> depositHashes'[id].event, speedUp |-> depositHashes'[id].speedUp]]
      /\ \A id \in DOMAIN depositHashes' :
           /\ depositHashes'[id].event \in EventsOf("V3FundsDeposited")
           /\ log[depositHashes'[id].event].id = id
      /\ {depositHashes'[id].event : id \in DOMAIN depositHashes'} = Held("V3FundsDeposited") \cup ps
  BY DepositsKept
<1>2. MemoryOK'
  BY <1>1 DEF IInv, MemoryOK, EventsOf
<1>3. Held("V3FundsDeposited")' = Held("V3FundsDeposited") \cup ps
  BY <1>1 DEF Held, AppendOnly
<1>4. \A n \in Kinds : n # "V3FundsDeposited" => Held(n)' = Held(n)
  BY DEF Held, AppendOnly, Kinds, EventNames
<1> QED
  BY <1>2, <1>3, <1>4

LEMMA DepositThrowsStep ==
  ASSUME IInv, NEW u \in Callers, DepositThrows(u)
  PROVE  IInv'
<1>1. PICK p \in Answer(u, "V3FundsDeposited") :
        depositHashes' = WithDeposits({q \in Answer(u, "V3FundsDeposited") : q < p})
  BY DEF DepositThrows
<1> DEFINE ps == {q \in Answer(u, "V3FundsDeposited") : q < p}
<1>2. /\ UNCHANGED <<chain, window, toBlock, poolIds, stored, slowFillRequests>> /\ UNCHANGED log
      /\ update' = [update EXCEPT ![u] = NoUpdate]
  BY DEF DepositThrows, chain
<1>3. ps \in SUBSET EventsOf("V3FundsDeposited")
  BY DEF Answer, Found
<1> HIDE DEF ps
<1>4. depositHashes' = WithDeposits(ps)
  BY <1>1 DEF ps
<1>5. MemoryOK' /\ \A n \in Kinds : Held(n) \subseteq Held(n)'
  BY <1>2, <1>3, <1>4, ThrowHolds
<1>6. NoUpdate \in UpdateRecords
  BY DEF UpdateRecords
<1> QED
  BY <1>2, <1>5, <1>6, Stores

(* A commit adds the answers to what is held, but for the lists that it    *)
(* leaves out, and nothing else.                                           *)
LEMMA CommitHolds ==
  ASSUME IInv, NEW u \in Callers, update[u].stage \in {"query", "quotes"}, UNCHANGED chain,
         NEW names \in SUBSET AppendOnly, Commit(u, names)
  PROVE  /\ MemoryOK'
         /\ \A n \in Kinds :
              Held(n)' = Held(n) \cup (IF n \in AppendOnly \ names THEN {} ELSE Answer(u, n))
<1> DEFINE ps == Answer(u, "V3FundsDeposited")
           rs == Answer(u, "RequestedV3SlowFill")
<1>1. UNCHANGED <<log, head>>
  BY DEF chain
<1>2. /\ depositHashes' = SpedUp(WithDeposits(ps), u)
      /\ slowFillRequests' = WithSlowFillRequests(rs)
      /\ stored' = Pushed(u, names)
  BY DEF Commit
<1>3. ps \in SUBSET EventsOf("V3FundsDeposited") /\ rs \in SUBSET EventsOf("RequestedV3SlowFill")
  BY DEF Answer, Found
<1>4. /\ depositHashes' =
           [id \in DOMAIN depositHashes' |->
             [event |-> depositHashes'[id].event, speedUp |-> depositHashes'[id].speedUp]]
      /\ \A id \in DOMAIN depositHashes' :
           /\ depositHashes'[id].event \in EventsOf("V3FundsDeposited")
           /\ log[depositHashes'[id].event].id = id
      /\ {depositHashes'[id].event : id \in DOMAIN depositHashes'} = Held("V3FundsDeposited") \cup ps
  <2> DEFINE m == WithDeposits(ps)
  <2>1. /\ m = [id \in DOMAIN m |-> [event |-> m[id].event, speedUp |-> m[id].speedUp]]
        /\ \A id \in DOMAIN m :
             m[id].event \in EventsOf("V3FundsDeposited") /\ log[m[id].event].id = id
        /\ {m[id].event : id \in DOMAIN m} = Held("V3FundsDeposited") \cup ps
    BY <1>3, DepositsKept
  <2> HIDE DEF m
  <2>2. /\ DOMAIN depositHashes' = DOMAIN m
        /\ depositHashes' =
             [id \in DOMAIN depositHashes' |->
               [event |-> depositHashes'[id].event, speedUp |-> depositHashes'[id].speedUp]]
        /\ \A id \in DOMAIN depositHashes' : depositHashes'[id].event = m[id].event
    BY <1>2, <2>1, SpedUpKeepsDeposits DEF m
  <2>3. {depositHashes'[id].event : id \in DOMAIN depositHashes'} = {m[id].event : id \in DOMAIN m}
    BY <2>2
  <2> QED
    BY <2>1, <2>2, <2>3
<1>5. /\ slowFillRequests' = [r \in DOMAIN slowFillRequests' |-> slowFillRequests'[r]]
      /\ \A r \in DOMAIN slowFillRequests' :
           /\ slowFillRequests'[r] \in EventsOf("RequestedV3SlowFill")
           /\ log[slowFillRequests'[r]].relay = r
      /\ {slowFillRequests'[r] : r \in DOMAIN slowFillRequests'} = Held("RequestedV3SlowFill") \cup rs
  BY <1>2, <1>3, SlowFillRequestsKept
<1>6. /\ stored' \in [AppendOnly -> Seq(SUBSET Nat)]
      /\ \A n \in AppendOnly :
           UNION {stored'[n][i] : i \in DOMAIN stored'[n]}
             = Held(n) \cup (IF n \in names THEN Answer(u, n) ELSE {})
  BY <1>2, PushedBatches
<1> HIDE DEF ps, rs
<1>7. ASSUME NEW n \in Kinds
      PROVE  Held(n)' = Held(n) \cup (IF n \in AppendOnly \ names THEN {} ELSE Answer(u, n))
  <2>1. CASE n \in AppendOnly
    <3>1. Held(n)' = UNION {stored'[n][i] : i \in DOMAIN stored'[n]}
      BY <2>1 DEF Held, AppendOnly
    <3> QED
      BY <1>6, <2>1, <3>1
  <2>2. CASE n = "V3FundsDeposited"
    BY <1>4, <2>2 DEF Held, AppendOnly, ps
  <2>3. CASE n = "RequestedV3SlowFill"
    BY <1>5, <2>3 DEF Held, AppendOnly, rs
  <2> QED
    BY <2>1, <2>2, <2>3, HeldByKind
<1>8. MemoryOK'
  BY <1>1, <1>4, <1>5, <1>6 DEF MemoryOK, EventsOf
<1> QED
  BY <1>7, <1>8

(* A commit holds all up to the end of its window, wherever the window of  *)
(* the client was moved to meanwhile.                                      *)
LEMMA CommitStep ==
  ASSUME IInv, NEW u \in Callers, update[u].stage \in {"query", "quotes"}, UNCHANGED chain,
         NEW names \in SUBSET AppendOnly, Commit(u, names), AppendOnly \ {"TokensBridged"} \subseteq names,
         "TokensBridged" \in names \/ Answer(u, "TokensBridged") \subseteq Held("TokensBridged")
  PROVE  IInv'
<1> DEFINE to == update[u].to
<1>1. UNCHANGED <<log, head>>
  BY DEF chain
<1>2. /\ update[u].firstDepositId \in Nat
      /\ update[u].from \in Nat /\ to \in Nat /\ to <= head
      /\ Covered(update[u].from - 1)
      /\ \A n \in Asked : Answer(u, n) = Found(n, update[u].from, to)
  BY WindowOf
<1>3. /\ MemoryOK'
      /\ \A n \in Kinds :
           Held(n)' = Held(n) \cup (IF n \in AppendOnly \ names THEN {} ELSE Answer(u, n))
  BY CommitHolds
<1>4. /\ firstBlockToSearch' = to + 1 /\ latestBlockSearched' = to
      /\ isUpdated' = TRUE /\ toBlock' = NoBlock
      /\ firstDepositIdForSpokePool' = update[u].firstDepositId
      /\ update' = [update EXCEPT ![u] = NoUpdate]
  BY DEF Commit, NextStart
<1> HIDE DEF to
<1>5. ASSUME NEW n \in Kinds
      PROVE  Held(n) \subseteq Held(n)' /\ Answer(u, n) \subseteq Held(n)'
  <2>1. n \in AppendOnly \ names => n = "TokensBridged" /\ Answer(u, n) \subseteq Held(n)
    OBVIOUS
  <2> QED
    BY <1>3, <2>1
<1>6. LogOK' /\ WindowOK'
  BY <1>1, <1>2, <1>4 DEF IInv, LogOK, WindowOK, EventsOf, NextDepositId, Final
<1>7. /\ update' \in [Callers -> UpdateRecords]
       /\ update'[u].stage = "idle"
       /\ \A v \in Callers : v # u => update'[v] = update[v]
  BY <1>4 DEF IInv, UpdatesOK, UpdateRecords, NoUpdate
<1>8. UpdatesOK'
  BY <1>1, <1>7 DEF IInv, UpdatesOK, Final
<1>9. CoverOK'
  <2>1. Covered(firstBlockToSearch - 1)'
    <3>1. ASSUME NEW n \in Asked
          PROVE  Found(n, FromBlock, to) \subseteq Held(n)'
      <4>1. Found(n, FromBlock, update[u].from - 1) \subseteq Held(n)'
        BY <1>2, <1>5 DEF Covered, Asked
      <4>2. Found(n, update[u].from, to) \subseteq Held(n)'
        BY <1>2, <1>5 DEF Asked
      <4>3. ASSUME NEW p \in Found(n, FromBlock, to)
            PROVE  p \in Found(n, FromBlock, update[u].from - 1) \cup Found(n, update[u].from, to)
        <5>1. log[p] \in EventRecords
          BY DEF IInv, LogOK, Found, EventsOf
        <5>2. log[p].block \in Nat
          BY <5>1 DEF EventRecords
        <5> QED
          BY <1>2, <5>2 DEF Found
      <4> QED
        BY <4>1, <4>2, <4>3
    <3>2. firstBlockToSearch' - 1 = to
      BY <1>2, <1>4 DEF to
    <3>3. \A n : Found(n, FromBlock, firstBlockToSearch - 1)' = Found(n, FromBlock, to)
      BY <1>1, <3>2 DEF Found, EventsOf
    <3> QED
      BY <3>1, <3>3 DEF Covered
  <2>2. ASSUME NEW v \in Callers, update'[v].stage \in {"blockNumber", "query", "quotes"}
        PROVE  Covered(update[v].from - 1)'
    <3>1. update'[v] = update[v]
      BY <1>7, <2>2
    <3>2. Covered(update[v].from - 1)
      BY <2>2, <3>1 DEF IInv, CoverOK
    <3> QED
      BY <1>1, <1>5, <3>1, <3>2, CoverStays DEF Covered
  <2>3. ASSUME NEW v \in Callers, update'[v].stage = "quotes"
        PROVE  Answer(v, "TokensBridged")' \subseteq Held("TokensBridged")'
    <3>1. update'[v] = update[v]
      BY <1>7, <2>3
    <3>2. Answer(v, "TokensBridged")' = Answer(v, "TokensBridged")
      BY <1>1, <3>1 DEF Answer, WindowStart, Found, EventsOf
    <3>3. "TokensBridged" \in Kinds
      BY DEF Kinds, EventNames, AppendOnly
    <3> QED
      BY <1>5, <2>3, <3>1, <3>2, <3>3 DEF IInv, CoverOK
  <2> QED
    BY <2>1, <2>2, <2>3 DEF CoverOK
<1> QED
  BY <1>3, <1>6, <1>8, <1>9 DEF IInv

(* Bridged tokens are stored before the quotes are awaited.                *)
LEMMA BridgedHolds ==
  ASSUME IInv, NEW u \in Callers, update[u].stage = "query", stored' = Pushed(u, {"TokensBridged"}),
         UNCHANGED <<log, depositHashes, slowFillRequests>>
  PROVE  /\ MemoryOK'
         /\ \A n \in Kinds : Held(n)' = Held(n) \cup (IF n = "TokensBridged" THEN Answer(u, n) ELSE {})
<1>1. {"TokensBridged"} \in SUBSET AppendOnly
  BY DEF AppendOnly
<1>2. /\ stored' \in [AppendOnly -> Seq(SUBSET Nat)]
      /\ \A n \in AppendOnly :
           UNION {stored'[n][i] : i \in DOMAIN stored'[n]}
             = Held(n) \cup (IF n \in {"TokensBridged"} THEN Answer(u, n) ELSE {})
  BY <1>1, PushedBatches
<1>3. \A n \in AppendOnly : Held(n)' = UNION {stored'[n][i] : i \in DOMAIN stored'[n]}
  BY DEF Held, AppendOnly
<1>4. /\ Held("V3FundsDeposited")' = Held("V3FundsDeposited")
      /\ Held("RequestedV3SlowFill")' = Held("RequestedV3SlowFill")
      /\ "TokensBridged" \notin {"V3FundsDeposited", "RequestedV3SlowFill"}
  BY DEF Held, AppendOnly
<1>5. MemoryOK'
  BY <1>2 DEF IInv, MemoryOK, EventsOf
<1> QED
  BY <1>2, <1>3, <1>4, <1>5, HeldByKind

LEMMA AnswersStep ==
  ASSUME IInv, NEW u \in Callers, Answers(u)
  PROVE  IInv'
<1>1. update[u].stage = "query" /\ UNCHANGED chain
  BY DEF Answers
<1>2. CASE update' = [update EXCEPT ![u] = NoUpdate] /\ UNCHANGED <<client, toBlock>>
  BY <1>1, <1>2, GivesUp
<1>3. CASE /\ stored' = Pushed(u, {"TokensBridged"})
           /\ update' = [update EXCEPT ![u].stage = "quotes"]
           /\ UNCHANGED <<window, toBlock, clock, poolIds, depositHashes, queriedIds,
                          slowFillRequests, depositRoutes>>
  <2> DEFINE s == [update[u] EXCEPT !.stage = "quotes"]
  <2>1. MemoryOK' /\ \A n \in Kinds : Held(n) \subseteq Held(n)'
    BY <1>1, <1>3, BridgedHolds DEF chain
  <2>2. Answer(u, "TokensBridged") \subseteq Held("TokensBridged")'
    <3>1. "TokensBridged" \in Kinds
      BY DEF Kinds, EventNames, AppendOnly
    <3> QED
      BY <1>1, <1>3, <3>1, BridgedHolds DEF chain
  <2>3. s \in UpdateRecords
    BY <1>1 DEF IInv, UpdatesOK, UpdateRecords, NoUpdate
  <2> QED
    BY <1>1, <1>3, <2>1, <2>2, <2>3, Stores
<1>4. CASE Commit(u, AppendOnly)
  <2>1. AppendOnly \in SUBSET AppendOnly /\ "TokensBridged" \in AppendOnly
    BY DEF AppendOnly
  <2> QED
    BY <1>1, <1>4, <2>1, CommitStep
<1> QED
  BY <1>2, <1>3, <1>4 DEF Answers

LEMMA QuotesStep ==
  ASSUME IInv, NEW u \in Callers, Quotes(u)
  PROVE  IInv'
<1>1. update[u].stage = "quotes" /\ UNCHANGED chain /\ Commit(u, AppendOnly \ {"TokensBridged"})
  BY DEF Quotes
<1>2. Answer(u, "TokensBridged") \subseteq Held("TokensBridged")
  BY <1>1 DEF IInv, CoverOK
<1> QED
  BY <1>1, <1>2, CommitStep

LEMMA NextKeepsIInv ==
  ASSUME IInv, [Next]_vars
  PROVE  IInv'
<1>1. CASE Emit
  BY <1>1, EmitStep
<1>2. CASE MineBlock
  BY <1>2, MineBlockStep
<1>3. CASE SetToBlock
  BY <1>3, SetToBlockStep
<1>4. ASSUME NEW u \in Callers, Start(u)
      PROVE  IInv'
  BY <1>4, StartStep
<1>5. ASSUME NEW u \in Callers, Proceed(u)
      PROVE  IInv'
  BY <1>5, FirstDepositIdStep, BlockNumberStep, AnswersStep, QuotesStep DEF Proceed
<1>6. ASSUME NEW u \in Callers, DepositThrows(u)
      PROVE  IInv'
  BY <1>6, DepositThrowsStep
<1>7. ASSUME NEW u \in Callers, Fail(u)
      PROVE  IInv'
  BY <1>7, GivesUp DEF Fail
<1>8. CASE UNCHANGED vars
  <2>1. UNCHANGED <<chain, client, toBlock>> /\ UNCHANGED update
    BY <1>8 DEF vars, client, memory, window
  <2> QED
    BY <2>1, UpdateStep DEF IInv, UpdatesOK
<1> QED
  BY <1>1, <1>2, <1>3, <1>4, <1>5, <1>6, <1>7, <1>8 DEF Next

LEMMA IInvHolds ==
  Spec => []IInv
<1>1. Init => IInv
  BY InitHolds
<1>2. IInv /\ [Next]_vars => IInv'
  BY NextKeepsIInv
<1> QED
  BY <1>1, <1>2, PTL DEF Spec

(* Whatever number of calls of update() overlap, fail, throw among their   *)
(* deposits, or have their end fixed by the caller, no event between       *)
(* fromBlock and latestBlockSearched is missing from memory, as long as    *)
(* each call queries every kind of event.                                  *)
THEOREM NoEventMissed ==
  ASSUME EventSets = {EventNames}
  PROVE  Spec => []NothingMissed
<1>1. Asked = Kinds
  BY DEF Asked, Kinds
<1>2. IInv => NothingMissed
  <2> SUFFICES ASSUME IInv, isUpdated
               PROVE  \A n \in Kinds : Found(n, FromBlock, latestBlockSearched) \subseteq Held(n)
    BY DEF NothingMissed, Kinds
  <2>1. firstBlockToSearch - 1 = latestBlockSearched
    BY DEF IInv, WindowOK
  <2> QED
    BY <1>1, <2>1 DEF IInv, CoverOK, Covered
<1> QED
  BY <1>2, IInvHolds, PTL

-----------------------------------------------------------------------------
(* What else is true of the chain's log: blocks do not fall, deposit ids   *)
(* are given out one by one, and a speed-up follows its deposit if the     *)
(* contract or its users see to that.                                      *)

HistoryOK ==
  /\ Len(log) <= MaxEvents
  /\ \A p \in DOMAIN log : log[p].block <= head + 1
  /\ \A p, q \in DOMAIN log : p <= q => log[p].block <= log[q].block
  /\ \A p, q \in EventsOf("V3FundsDeposited") : p < q => log[p].id < log[q].id
  /\ \A id \in 0..(NextDepositId - 1) : \E p \in EventsOf("V3FundsDeposited") : log[p].id = id
  /\ ~EarlySpeedUps =>
       \A s \in EventsOf("RequestedSpeedUpV3Deposit") :
         \E p \in EventsOf("V3FundsDeposited") : p < s /\ log[p].id = log[s].id

LEMMA LogFacts ==
  ASSUME LogOK
  PROVE  /\ head \in Nat /\ Len(log) \in Nat /\ DOMAIN log = 1..Len(log)
         /\ \A p \in DOMAIN log : log[p] \in EventRecords /\ log[p].block \in Nat
         /\ \A p \in EventsOf("V3FundsDeposited") : log[p].id \in Nat
         /\ \A p \in EventsOf("RequestedSpeedUpV3Deposit") :
              log[p].id \in Nat /\ log[p].amount \in Nat
         /\ NextDepositId \in Nat
<1>1. head \in Nat /\ Len(log) \in Nat /\ DOMAIN log = 1..Len(log)
  BY DEF LogOK
<1>2. \A p \in DOMAIN log : log[p] \in EventRecords
  BY DEF LogOK
<1>3. \A e \in EventRecords : e.block \in Nat
  BY DEF EventRecords
<1>4. \A e \in EventRecords : e.name = "V3FundsDeposited" => e.id \in Nat
  BY DEF EventRecords
<1>5. \A e \in EventRecords : e.name = "RequestedSpeedUpV3Deposit" => e.id \in Nat /\ e.amount \in Nat
  BY AmountAssumption DEF EventRecords
<1>6. NextDepositId \in Nat
  BY EventsFinite DEF NextDepositId
<1> QED
  BY <1>1, <1>2, <1>3, <1>4, <1>5, <1>6 DEF EventsOf

(* A new event is at the end of the log, in a block that is not mined yet. *)
LEMMA NewEvent ==
  ASSUME LogOK, Emit
  PROVE  \E e \in Possible :
           /\ log' = Append(log, e) /\ e.block = head + 1 /\ e \in EventRecords
           /\ DOMAIN log' = 1..(Len(log) + 1) /\ Len(log') = Len(log) + 1
           /\ \A p \in DOMAIN log : log'[p] = log[p]
           /\ log'[Len(log) + 1] = e
           /\ \A n : EventsOf(n)' = IF e.name = n THEN EventsOf(n) \cup {Len(log) + 1} ELSE EventsOf(n)
           /\ e.name = "V3FundsDeposited" => e.id = NextDepositId
           /\ e.name = "RequestedSpeedUpV3Deposit" => e.id \in SpeedUpIds
<1> DEFINE last == Len(log) + 1
<1>1. PICK e \in Possible : log' = Append(log, e)
  BY DEF Emit
<1>2. /\ e \in EventRecords /\ e.block = head + 1
      /\ e.name = "V3FundsDeposited" => e.id = NextDepositId
  BY Emittable
<1>3. e.name = "RequestedSpeedUpV3Deposit" => e.id \in SpeedUpIds
  BY <1>1 DEF Possible, Deposits, SpeedUps, RouteChanges, SlowFillRequests, Fills, Others
<1>4. /\ Len(log) \in Nat /\ DOMAIN log = 1..Len(log) /\ Len(log') = last
      /\ DOMAIN log' = 1..last
      /\ \A p \in 1..Len(log) : log'[p] = log[p]
      /\ log'[last] = e
  BY <1>1, <1>2, AppendProperties DEF LogOK
<1>5. last \in Nat /\ last \notin 1..Len(log) /\ 1..last = 1..Len(log) \cup {last}
  BY <1>4
<1> HIDE DEF last
<1>6. ASSUME NEW n
      PROVE  EventsOf(n)' = IF e.name = n THEN EventsOf(n) \cup {last} ELSE EventsOf(n)
  BY <1>4, <1>5 DEF EventsOf
<1> QED
  BY <1>1, <1>2, <1>3, <1>4, <1>6 DEF last

LEMMA EmitHistory ==
  ASSUME LogOK, HistoryOK, Emit
  PROVE  HistoryOK'
<1> DEFINE last == Len(log) + 1
<1>1. PICK e \in Possible :
        /\ e.block = head + 1
        /\ DOMAIN log' = 1..last /\ Len(log') = last
        /\ \A p \in DOMAIN log : log'[p] = log[p]
        /\ log'[last] = e
        /\ \A n : EventsOf(n)' = IF e.name = n THEN EventsOf(n) \cup {last} ELSE EventsOf(n)
        /\ e.name = "V3FundsDeposited" => e.id = NextDepositId
        /\ e.name = "RequestedSpeedUpV3Deposit" => e.id \in SpeedUpIds
  BY NewEvent
<1>2. /\ head \in Nat /\ Len(log) \in Nat /\ DOMAIN log = 1..Len(log) /\ NextDepositId \in Nat
      /\ \A p \in DOMAIN log : log[p].block \in Nat
      /\ \A p \in EventsOf("V3FundsDeposited") : log[p].id \in Nat /\ log[p].id < NextDepositId
      /\ \A n : EventsOf(n) \subseteq 1..Len(log)
  BY LogFacts, EventsFinite DEF LogOK
<1>3. last \in Nat /\ last \notin 1..Len(log) /\ 1..last = 1..Len(log) \cup {last}
  BY <1>2
<1>4. Len(log) < MaxEvents /\ head' = head
  BY DEF Emit
<1>5. Len(log') <= MaxEvents
  BY <1>1, <1>2, <1>4, BoundAssumption
<1> HIDE DEF last
<1>6. \A p \in DOMAIN log' : p = last \/ p \in DOMAIN log
  BY <1>1, <1>2, <1>3
<1>7. \A p \in DOMAIN log' : log'[p].block <= head' + 1 /\ log'[p].block \in Nat
  BY <1>1, <1>2, <1>4, <1>6 DEF HistoryOK
<1>8. ASSUME NEW p \in DOMAIN log', NEW q \in DOMAIN log', p <= q PROVE log'[p].block <= log'[q].block
  <2>1. CASE q = last
    BY <1>1, <1>4, <1>7, <2>1
  <2>2. CASE q # last
    <3>1. p # last /\ p \in DOMAIN log /\ q \in DOMAIN log
      BY <1>2, <1>6, <1>8, <2>2 DEF last
    <3> QED
      BY <1>1, <1>8, <3>1 DEF HistoryOK
  <2> QED
    BY <2>1, <2>2
<1>9. \A p, q \in EventsOf("V3FundsDeposited") : p < q => log'[p].id < log'[q].id
  BY <1>1, <1>2 DEF HistoryOK
<1>10. \A p, q \in EventsOf("V3FundsDeposited")' : p < q => log'[p].id < log'[q].id
  <2>1. CASE e.name = "V3FundsDeposited"
    <3>1. ASSUME NEW p \in EventsOf("V3FundsDeposited") PROVE log'[p].id < log'[last].id /\ ~(last < p)
      <4>1. p \in 1..Len(log) /\ log'[p].id = log[p].id /\ log'[last].id = NextDepositId
        BY <1>1, <1>2, <2>1
      <4> QED
        BY <1>2, <4>1 DEF last
    <3>2. EventsOf("V3FundsDeposited")' = EventsOf("V3FundsDeposited") \cup {last} /\ ~(last < last)
      BY <1>1, <1>3, <2>1
    <3> QED
      BY <1>9, <3>1, <3>2
  <2>2. CASE e.name # "V3FundsDeposited"
    BY <1>1, <1>9, <2>2
  <2> QED
    BY <2>1, <2>2
<1>11. \A id \in 0..(NextDepositId' - 1) : \E p \in EventsOf("V3FundsDeposited")' : log'[p].id = id
  <2>1. ASSUME NEW id \in 0..(NextDepositId - 1)
        PROVE  \E p \in EventsOf("V3FundsDeposited")' : log'[p].id = id
    <3>1. PICK p \in EventsOf("V3FundsDeposited") : log[p].id = id
      BY <2>1 DEF HistoryOK
    <3>2. log'[p].id = id /\ p \in EventsOf("V3FundsDeposited")'
      BY <1>1, <1>2, <3>1
    <3> QED
      BY <3>2
  <2>2. CASE e.name = "V3FundsDeposited"
    <3>1. NextDepositId' = NextDepositId + 1
      <4>1. last \notin EventsOf("V3FundsDeposited")
        BY <1>2, <1>3
      <4> QED
        BY <1>1, <2>2, <4>1, EventsFinite, FS_AddElement DEF NextDepositId
    <3>2. last \in EventsOf("V3FundsDeposited")' /\ log'[last].id = NextDepositId
      BY <1>1, <2>2
    <3>3. \A id \in 0..(NextDepositId' - 1) : id \in 0..(NextDepositId - 1) \/ id = NextDepositId
      BY <1>2, <3>1
    <3> QED
      BY <2>1, <3>2, <3>3
  <2>3. CASE e.name # "V3FundsDeposited"
    <3>1. NextDepositId' = NextDepositId
      BY <1>1, <2>3 DEF NextDepositId
    <3> QED
      BY <2>1, <3>1
  <2> QED
    BY <2>2, <2>3
<1>12. ASSUME ~EarlySpeedUps, NEW s \in EventsOf("RequestedSpeedUpV3Deposit")'
       PROVE  \E p \in EventsOf("V3FundsDeposited")' : p < s /\ log'[p].id = log'[s].id
  <2>1. CASE s \in EventsOf("RequestedSpeedUpV3Deposit")
    <3>1. PICK p \in EventsOf("V3FundsDeposited") : p < s /\ log[p].id = log[s].id
      BY <1>12, <2>1 DEF HistoryOK
    <3>2. p \in EventsOf("V3FundsDeposited")' /\ log'[p].id = log'[s].id
      BY <1>1, <1>2, <2>1, <3>1
    <3> QED
      BY <3>1, <3>2
  <2>2. CASE s \notin EventsOf("RequestedSpeedUpV3Deposit")
    <3>1. s = last /\ e.name = "RequestedSpeedUpV3Deposit"
      BY <1>1, <1>12, <2>2
    <3>2. log'[s].id \in 0..(NextDepositId - 1)
      BY <1>1, <1>12, <3>1 DEF SpeedUpIds
    <3>3. PICK p \in EventsOf("V3FundsDeposited") : log[p].id = log'[s].id
      BY <3>2 DEF HistoryOK
    <3>4. p \in EventsOf("V3FundsDeposited")' /\ log'[p].id = log'[s].id /\ p < s
      <4>1. p \in 1..Len(log)
        BY <1>2
      <4>2. p < s
        BY <1>2, <3>1, <4>1 DEF last
      <4>3. log'[p] = log[p] /\ p \in EventsOf("V3FundsDeposited")'
        BY <1>1, <1>2, <4>1
      <4> QED
        BY <3>3, <4>2, <4>3
    <3> QED
      BY <3>4
  <2> QED
    BY <2>1, <2>2
<1> QED
  BY <1>5, <1>7, <1>8, <1>10, <1>11, <1>12 DEF HistoryOK

(* Of a step, the log's part: nothing, a new event, or a new block.        *)
LEMMA LogSteps ==
  ASSUME [Next]_vars
  PROVE  \/ Emit
         \/ log' = log /\ head' = head + 1 /\ UNCHANGED <<client, update, bounds>>
         \/ UNCHANGED chain
<1>1. CASE Emit \/ MineBlock
  BY <1>1 DEF MineBlock
<1>2. CASE SetToBlock \/ UNCHANGED vars
  BY <1>2 DEF SetToBlock, vars
<1>3. ASSUME NEW u \in Callers, Start(u) \/ Proceed(u) \/ DepositThrows(u) \/ Fail(u)
      PROVE  UNCHANGED chain
  BY <1>3 DEF Start, Proceed, FirstDepositId, BlockNumber, Answers, Quotes, DepositThrows, Fail
<1> QED
  BY <1>1, <1>2, <1>3 DEF Next

LEMMA HistoryStep ==
  ASSUME LogOK, HistoryOK, [Next]_vars
  PROVE  HistoryOK'
<1>1. CASE Emit
  BY <1>1, EmitHistory
<1>2. CASE log' = log /\ head' = head + 1
  <2>1. \A p \in DOMAIN log : log[p].block <= head' + 1
    BY <1>2, LogFacts DEF HistoryOK
  <2> QED
    BY <1>2, <2>1 DEF HistoryOK, EventsOf, NextDepositId
<1>3. CASE UNCHANGED chain
  BY <1>3 DEF HistoryOK, EventsOf, NextDepositId, chain
<1> QED
  BY <1>1, <1>2, <1>3, LogSteps

(* What is in the log stays there.                                         *)
LEMMA LogGrows ==
  ASSUME LogOK, [Next]_vars
  PROVE  /\ \A p \in DOMAIN log : p \in DOMAIN log' /\ log'[p] = log[p]
         /\ \A n : EventsOf(n) \subseteq EventsOf(n)'
         /\ \A n : \A p \in EventsOf(n) : log'[p] = log[p]
<1>1. \A p \in DOMAIN log : p \in DOMAIN log' /\ log'[p] = log[p]
  <2>1. CASE Emit
    <3>1. /\ DOMAIN log' = 1..(Len(log) + 1)
          /\ \A p \in DOMAIN log : log'[p] = log[p]
      BY <2>1, NewEvent
    <3> QED
      BY <3>1, LogFacts
  <2>2. CASE log' = log
    BY <2>2
  <2> QED
    BY <2>1, <2>2, LogSteps DEF chain
<1> QED
  BY <1>1 DEF EventsOf

LEMMA InitHistory ==
  Init => HistoryOK
<1> SUFFICES ASSUME Init PROVE HistoryOK
  OBVIOUS
<1>1. \A n : EventsOf(n) = {}
  BY DEF Init, EventsOf
<1>2. NextDepositId = 0
  BY <1>1, FS_EmptySet DEF NextDepositId
<1> QED
  BY <1>1, <1>2, BoundAssumption DEF Init, HistoryOK

-----------------------------------------------------------------------------
(* Windows and the events they bring.  Every window starts at fromBlock or *)
(* later and ends no earlier than it starts.  As long as no two updates    *)
(* have overlapped at most one is in flight, its window starts where the   *)
(* client's does, and the lists hold no event from there on.               *)

WindowsOK ==
  /\ overlaps \in Nat
  /\ FromBlock <= firstBlockToSearch
  /\ \A u \in Callers :
       /\ update[u].stage \in {"blockNumber", "query", "quotes"} => FromBlock <= update[u].from
       /\ update[u].stage \in {"query", "quotes"} => update[u].from <= update[u].to

HeldOK ==
  \A n \in Kinds : \A p \in Held(n) : p \in EventsOf(n) /\ FromBlock <= log[p].block

AloneOK ==
  overlaps = 0 =>
    /\ \A u, v \in Callers : update[u].stage # "idle" /\ update[v].stage # "idle" => u = v
    /\ \A u \in Callers :
         update[u].stage \in {"blockNumber", "query", "quotes"} => update[u].from = firstBlockToSearch
    /\ \A n \in Kinds \ {"TokensBridged", "V3FundsDeposited"} :
         \A p \in Held(n) : log[p].block < firstBlockToSearch

HInv == HistoryOK /\ WindowsOK /\ HeldOK /\ AloneOK

(* How a step moves the calls of update() and the client's window.         *)
Began(u) ==
  \/ /\ \A v \in Callers : update[v].stage = "idle"
     /\ UNCHANGED overlaps
  \/ overlaps' = overlaps + 1
Reads(s) ==
  /\ s.stage \in {"blockNumber", "query"} /\ s.from = firstBlockToSearch
  /\ s.stage = "query" => s.from <= s.to
MovesOn(u, s) ==
  /\ update[u].stage \in {"blockNumber", "query"} /\ s.stage \in {"query", "quotes"}
  /\ s.from = update[u].from /\ s.from <= s.to
Moved(u, s) ==
  /\ update' = [update EXCEPT ![u] = s]
  /\ \/ /\ UNCHANGED firstBlockToSearch
        /\ s.stage \in {"idle", "firstDepositId"} \/ Reads(s) \/ MovesOn(u, s)
     \/ /\ s.stage = "idle" /\ update[u].stage \in {"query", "quotes"}
        /\ firstBlockToSearch' = update[u].to + 1
  /\ Began(u) \/ (update[u].stage # "idle" /\ UNCHANGED overlaps)

LEMMA ReadsWindow ==
  ASSUME firstBlockToSearch \in Nat, toBlock \in Nat \cup {NoBlock},
         NEW names, NEW id, NEW s, s = SearchConfig(names, id)
  PROVE  s = NoUpdate \/ Reads(s)
<1>1. CASE toBlock = NoBlock
  BY <1>1 DEF SearchConfig, Reads
<1>2. CASE toBlock # NoBlock /\ InvalidConfig
  BY <1>2 DEF SearchConfig
<1>3. CASE toBlock # NoBlock /\ ~InvalidConfig
  BY <1>3 DEF SearchConfig, Reads, InvalidConfig, Query
<1> QED
  BY <1>1, <1>2, <1>3

LEMMA CallMoves ==
  ASSUME IInv, WindowsOK, [Next]_vars
  PROVE  \/ UNCHANGED <<update, overlaps, firstBlockToSearch>>
         \/ \E u \in Callers : \E s : Moved(u, s)
<1> USE DEF Moved
<1>1. /\ firstBlockToSearch \in Nat /\ toBlock \in Nat \cup {NoBlock} /\ head \in Nat
      /\ NoUpdate.stage = "idle"
      /\ \A u \in Callers : update[u] \in UpdateRecords
  BY DEF IInv, WindowOK, LogOK, UpdatesOK, NoUpdate
<1>2. \A u \in Callers : update[u].stage = "idle" <=> update[u] = NoUpdate
  BY <1>1 DEF UpdateRecords, NoUpdate
<1>3. \A u \in Callers : update[u].stage \in {"query", "quotes"} => update[u].to \in Nat
  BY <1>1 DEF UpdateRecords, NoUpdate
<1>4. CASE Emit \/ MineBlock \/ SetToBlock \/ UNCHANGED vars
  BY <1>4 DEF Emit, MineBlock, SetToBlock, vars, client, window, bounds
<1>5. ASSUME NEW u \in Callers, Start(u)
      PROVE  \E s : Moved(u, s)
  <2>1. PICK names, s :
          /\ update' = [update EXCEPT ![u] = s]
          /\ \/ s = [stage |-> "firstDepositId", names |-> names]
             \/ s = SearchConfig(names, firstDepositIdForSpokePool)
    BY <1>5 DEF Start
  <2>2. UNCHANGED firstBlockToSearch /\ Began(u)
    BY <1>2, <1>5 DEF Start, client, window, Began
  <2>3. s.stage \in {"idle", "firstDepositId"} \/ Reads(s)
    BY <1>1, <2>1, ReadsWindow
  <2> QED
    BY <2>1, <2>2, <2>3
<1>6. ASSUME NEW u \in Callers, FirstDepositId(u)
      PROVE  \E s : Moved(u, s)
  <2> DEFINE s == SearchConfig(update[u].names, NumberOfDeposits(DeploymentBlock))
  <2>1. /\ update' = [update EXCEPT ![u] = s] /\ update[u].stage = "firstDepositId"
        /\ UNCHANGED <<firstBlockToSearch, overlaps>>
    BY <1>6 DEF FirstDepositId, client, window, bounds
  <2>2. s.stage = "idle" \/ Reads(s)
    BY <1>1, ReadsWindow
  <2> HIDE DEF s
  <2> QED
    BY <2>1, <2>2
<1>7. ASSUME NEW u \in Callers, BlockNumber(u)
      PROVE  \E s : Moved(u, s)
  <2> DEFINE s == Query(update[u].names, update[u].firstDepositId, update[u].from, head)
  <2>1. update[u].stage = "blockNumber" /\ UNCHANGED <<firstBlockToSearch, overlaps>>
    BY <1>7 DEF BlockNumber, client, window, bounds
  <2>2. update[u].from \in Nat
    BY <1>1, <2>1 DEF UpdateRecords, NoUpdate
  <2>3. ~AlreadyUpdated(u) => MovesOn(u, s)
    BY <1>1, <2>1, <2>2 DEF MovesOn, Query, AlreadyUpdated
  <2>4. \/ update' = [update EXCEPT ![u] = NoUpdate]
        \/ ~AlreadyUpdated(u) /\ update' = [update EXCEPT ![u] = s]
    BY <1>7 DEF BlockNumber
  <2> HIDE DEF s
  <2>5. Moved(u, NoUpdate) \/ Moved(u, s)
    BY <1>1, <2>1, <2>3, <2>4
  <2> QED
    BY <2>5
<1>8. ASSUME NEW u \in Callers, NEW names, update[u].stage \in {"query", "quotes"},
             Commit(u, names), UNCHANGED overlaps
      PROVE  \E s : Moved(u, s)
  <2>1. update' = [update EXCEPT ![u] = NoUpdate] /\ firstBlockToSearch' = update[u].to + 1
    BY <1>8 DEF Commit, NextStart
  <2> QED
    BY <1>1, <1>8, <2>1
<1>9. ASSUME NEW u \in Callers, update[u].stage # "idle", UNCHANGED <<firstBlockToSearch, overlaps>>,
             update' = [update EXCEPT ![u] = NoUpdate]
      PROVE  \E s : Moved(u, s)
  BY <1>1, <1>9
<1>10. ASSUME NEW u \in Callers, Answers(u)
       PROVE  \E s : Moved(u, s)
  <2>1. update[u].stage = "query" /\ UNCHANGED overlaps
    BY <1>10 DEF Answers, bounds
  <2>2. CASE update' = [update EXCEPT ![u] = NoUpdate] /\ UNCHANGED client
    BY <1>9, <2>1, <2>2 DEF client, window
  <2>3. CASE update' = [update EXCEPT ![u].stage = "quotes"] /\ UNCHANGED window
    <3> DEFINE s == [update[u] EXCEPT !.stage = "quotes"]
    <3>1. s.stage = "quotes" /\ s.from = update[u].from /\ s.to = update[u].to
      BY <1>1, <2>1 DEF UpdateRecords, NoUpdate
    <3>2. update' = [update EXCEPT ![u] = s]
      BY <2>3
    <3>3. update[u].from <= update[u].to /\ UNCHANGED firstBlockToSearch
      BY <2>1, <2>3 DEF WindowsOK, window
    <3> HIDE DEF s
    <3>4. MovesOn(u, s)
      BY <2>1, <3>1, <3>3 DEF MovesOn
    <3> QED
      BY <2>1, <3>2, <3>3, <3>4
  <2>4. CASE Commit(u, AppendOnly)
    BY <1>8, <2>1, <2>4
  <2> QED
    BY <1>10, <2>2, <2>3, <2>4 DEF Answers
<1>11. ASSUME NEW u \in Callers, Quotes(u)
       PROVE  \E s : Moved(u, s)
  BY <1>8, <1>11 DEF Quotes, bounds
<1>12. ASSUME NEW u \in Callers, DepositThrows(u) \/ Fail(u)
       PROVE  \E s : Moved(u, s)
  <2>1. update[u].stage # "idle"
    BY <1>2, <1>12 DEF DepositThrows, Fail
  <2> QED
    BY <1>9, <1>12, <2>1 DEF DepositThrows, Fail, client, window
<1>13. (\E u \in Callers : \E s : Moved(u, s)) \/ UNCHANGED <<update, overlaps, firstBlockToSearch>>
  BY <1>4, <1>5, <1>6, <1>7, <1>10, <1>11, <1>12 DEF Next, Proceed
<1> QED
  BY <1>13

LEMMA WindowsStep ==
  ASSUME IInv, WindowsOK, [Next]_vars
  PROVE  WindowsOK'
<1>1. CASE UNCHANGED <<update, overlaps, firstBlockToSearch>>
  BY <1>1 DEF WindowsOK
<1>2. ASSUME NEW u \in Callers, NEW s, Moved(u, s)
      PROVE  WindowsOK'
  <2>1. overlaps' \in Nat
    BY <1>2 DEF WindowsOK, Began, Moved
  <2>2. /\ update[u] \in UpdateRecords /\ FromBlock \in Nat
        /\ update'[u] = s /\ \A v \in Callers : v # u => update'[v] = update[v]
    BY <1>2, BlockAssumption DEF IInv, UpdatesOK, Moved
  <2>3. FromBlock <= firstBlockToSearch'
    <3>1. CASE UNCHANGED firstBlockToSearch
      BY <3>1 DEF WindowsOK
    <3>2. CASE update[u].stage \in {"query", "quotes"} /\ firstBlockToSearch' = update[u].to + 1
      <4>1. update[u].from \in Nat /\ update[u].to \in Nat
        BY <2>2, <3>2 DEF UpdateRecords, NoUpdate
      <4> QED
        BY <2>2, <3>2, <4>1 DEF WindowsOK
    <3> QED
      BY <1>2, <3>1, <3>2 DEF Moved
  <2>4. /\ s.stage \in {"blockNumber", "query", "quotes"} => FromBlock <= s.from
        /\ s.stage \in {"query", "quotes"} => s.from <= s.to
    BY <1>2, <2>2 DEF Reads, MovesOn, WindowsOK, Moved
  <2>5. ASSUME NEW v \in Callers
        PROVE  /\ update'[v].stage \in {"blockNumber", "query", "quotes"} => FromBlock <= update'[v].from
               /\ update'[v].stage \in {"query", "quotes"} => update'[v].from <= update'[v].to
    BY <2>2, <2>4 DEF WindowsOK
  <2> QED
    BY <2>1, <2>3, <2>5 DEF WindowsOK
<1> QED
  BY <1>1, <1>2, CallMoves

(* How a step changes what is held: not at all, by the bridged tokens of   *)
(* an update, by a commit, or by what is left of one that throws.          *)
Bridges(u) ==
  /\ update[u].stage = "query" /\ stored' = Pushed(u, {"TokensBridged"})
  /\ UNCHANGED <<chain, window, depositHashes, queriedIds, slowFillRequests>>
Commits(u, names) ==
  /\ update[u].stage \in {"query", "quotes"} /\ UNCHANGED chain
  /\ Commit(u, names)
Throws(u) ==
  /\ update[u].stage = "quotes"
  /\ UNCHANGED <<chain, window, stored, slowFillRequests>>
  /\ \E p \in Answer(u, "V3FundsDeposited") :
       LET before == {q \in Answer(u, "V3FundsDeposited") : q < p} IN
       /\ depositHashes' = WithDeposits(before)
       /\ earliestDepositIdQueried' = EarliestIdAfter(before)
       /\ latestDepositIdQueried' = LatestIdAfter(before)

LEMMA MemorySteps ==
  ASSUME [Next]_vars
  PROVE  \/ UNCHANGED <<memory, window>>
         \/ \E u \in Callers :
              \/ Bridges(u) \/ Throws(u)
              \/ \E names \in {AppendOnly, AppendOnly \ {"TokensBridged"}} : Commits(u, names)
<1>1. CASE Emit \/ MineBlock \/ SetToBlock \/ UNCHANGED vars
  BY <1>1 DEF Emit, MineBlock, SetToBlock, vars, client
<1>2. ASSUME NEW u \in Callers, Start(u) \/ FirstDepositId(u) \/ BlockNumber(u) \/ Fail(u)
      PROVE  UNCHANGED <<memory, window>>
  BY <1>2 DEF Start, FirstDepositId, BlockNumber, Fail, client
<1>3. ASSUME NEW u \in Callers, Answers(u)
      PROVE  UNCHANGED <<memory, window>> \/ Bridges(u) \/ Commits(u, AppendOnly)
  BY <1>3 DEF Answers, Bridges, Commits, client
<1>4. ASSUME NEW u \in Callers, Quotes(u)
      PROVE  Commits(u, AppendOnly \ {"TokensBridged"})
  BY <1>4 DEF Quotes, Commits
<1>5. ASSUME NEW u \in Callers, DepositThrows(u)
      PROVE  Throws(u)
  BY <1>5 DEF DepositThrows, Throws
<1> QED
  BY <1>1, <1>2, <1>3, <1>4, <1>5 DEF Next, Proceed

LEMMA SameMemory ==
  ASSUME UNCHANGED memory
  PROVE  /\ UNCHANGED <<depositHashes, earliestDepositIdQueried, latestDepositIdQueried, stored,
                        slowFillRequests>>
         /\ \A n : Held(n)' = Held(n)
  BY DEF memory, queriedIds, Held

LEMMA BatchHolds ==
  ASSUME IInv, NEW u \in Callers,
         \/ Bridges(u) \/ Throws(u)
         \/ \E names \in {AppendOnly, AppendOnly \ {"TokensBridged"}} : Commits(u, names)
  PROVE  /\ UNCHANGED chain /\ update[u].stage \in {"query", "quotes"}
         /\ \A n \in Kinds : Held(n)' \subseteq Held(n) \cup Answer(u, n)
         /\ \A n \in Kinds : Held(n) \subseteq Held(n)'
<1>1. CASE Bridges(u)
  BY <1>1, BridgedHolds DEF Bridges, chain
<1>2. CASE Throws(u)
  <2>1. PICK p \in Answer(u, "V3FundsDeposited") :
          depositHashes' = WithDeposits({q \in Answer(u, "V3FundsDeposited") : q < p})
    BY <1>2 DEF Throws
  <2> DEFINE ps == {q \in Answer(u, "V3FundsDeposited") : q < p}
  <2>2. ps \in SUBSET EventsOf("V3FundsDeposited") /\ ps \subseteq Answer(u, "V3FundsDeposited")
    BY DEF Answer, Found
  <2> HIDE DEF ps
  <2>3. \A n \in Kinds : Held(n)' = Held(n) \cup (IF n = "V3FundsDeposited" THEN ps ELSE {})
    BY <1>2, <2>1, <2>2, ThrowHolds DEF Throws, chain, ps
  <2> QED
    BY <1>2, <2>2, <2>3 DEF Throws
<1>3. ASSUME NEW names \in {AppendOnly, AppendOnly \ {"TokensBridged"}}, Commits(u, names)
      PROVE  /\ UNCHANGED chain /\ update[u].stage \in {"query", "quotes"}
             /\ \A n \in Kinds : Held(n)' \subseteq Held(n) \cup Answer(u, n)
             /\ \A n \in Kinds : Held(n) \subseteq Held(n)'
  <2>1. names \in SUBSET AppendOnly
    OBVIOUS
  <2> QED
    BY <1>3, <2>1, CommitHolds DEF Commits
<1> QED
  BY <1>1, <1>2, <1>3

LEMMA HeldStep ==
  ASSUME IInv, WindowsOK, HeldOK, [Next]_vars
  PROVE  HeldOK'
<1>1. CASE UNCHANGED memory
  <2>1. \A n : Held(n)' = Held(n)
    BY <1>1, SameMemory
  <2>2. ASSUME NEW n \in Kinds, NEW p \in Held(n)
        PROVE  p \in EventsOf(n)' /\ FromBlock <= log'[p].block
    <3>1. p \in EventsOf(n) /\ FromBlock <= log[p].block
      BY <2>2 DEF HeldOK
    <3> QED
      BY <3>1, LogGrows DEF IInv
  <2> QED
    BY <2>1, <2>2 DEF HeldOK
<1>2. ASSUME NEW u \in Callers,
             \/ Bridges(u) \/ Throws(u)
             \/ \E names \in {AppendOnly, AppendOnly \ {"TokensBridged"}} : Commits(u, names)
      PROVE  HeldOK'
  <2>1. /\ log' = log /\ update[u].stage \in {"query", "quotes"}
        /\ \A n \in Kinds : Held(n)' \subseteq Held(n) \cup Answer(u, n)
    BY <1>2, BatchHolds DEF chain
  <2>2. ASSUME NEW n \in Kinds, NEW p \in Answer(u, n)
        PROVE  p \in EventsOf(n) /\ FromBlock <= log[p].block
    <3>1. p \in Found(n, update[u].from, update[u].to) /\ FromBlock <= update[u].from
          /\ update[u].from \in Nat /\ FromBlock \in Nat
      BY <2>1, <2>2, WindowOf, BlockAssumption DEF WindowsOK
    <3>2. log[p].block \in Nat
      BY <3>1, LogFacts DEF IInv, Found, EventsOf
    <3> QED
      BY <3>1, <3>2 DEF Found
  <2>3. ASSUME NEW n \in Kinds, NEW p \in Held(n)'
        PROVE  p \in EventsOf(n) /\ FromBlock <= log[p].block
    BY <2>1, <2>2, <2>3 DEF HeldOK
  <2> QED
    BY <2>1, <2>3 DEF HeldOK, EventsOf
<1> QED
  BY <1>1, <1>2, MemorySteps

(* Only one call is in flight, and its window is the client's.             *)
LEMMA AloneStep ==
  ASSUME IInv, HistoryOK, WindowsOK, HeldOK, AloneOK, [Next]_vars
  PROVE  AloneOK'
<1> SUFFICES ASSUME overlaps' = 0 PROVE AloneOK'
  BY DEF AloneOK
<1>1. overlaps = 0 /\ overlaps' = overlaps
  BY CallMoves DEF WindowsOK, Moved, Began
<1>2. /\ \A u, v \in Callers : update[u].stage # "idle" /\ update[v].stage # "idle" => u = v
      /\ \A u \in Callers :
           update[u].stage \in {"blockNumber", "query", "quotes"} => update[u].from = firstBlockToSearch
      /\ \A n \in Kinds \ {"TokensBridged", "V3FundsDeposited"} :
           \A p \in Held(n) : log[p].block < firstBlockToSearch
  BY <1>1 DEF AloneOK
<1>3. update \in [Callers -> UpdateRecords]
  BY DEF IInv, UpdatesOK
<1>4. /\ \A u, v \in Callers : update'[u].stage # "idle" /\ update'[v].stage # "idle" => u = v
      /\ \A u \in Callers :
           update'[u].stage \in {"blockNumber", "query", "quotes"} => update'[u].from = firstBlockToSearch'
  <2>1. CASE UNCHANGED <<update, firstBlockToSearch>>
    BY <1>2, <2>1
  <2>2. ASSUME NEW u \in Callers, NEW s, Moved(u, s)
        PROVE  /\ \A v, w \in Callers : update'[v].stage # "idle" /\ update'[w].stage # "idle" => v = w
               /\ \A v \in Callers :
                    update'[v].stage \in {"blockNumber", "query", "quotes"} => update'[v].from = firstBlockToSearch'
    <3>1. update'[u] = s /\ \A v \in Callers : v # u => update'[v] = update[v]
      BY <1>3, <2>2 DEF Moved
    <3>2. \A v \in Callers : v # u => update[v].stage = "idle"
      BY <1>1, <1>2, <2>2 DEF Moved, Began, WindowsOK
    <3>3. s.stage \in {"blockNumber", "query", "quotes"} => s.from = firstBlockToSearch'
      BY <1>2, <2>2 DEF Moved, Reads, MovesOn
    <3> QED
      BY <3>1, <3>2, <3>3
  <2> QED
    BY <2>1, <2>2, CallMoves
<1>5. \A n \in Kinds \ {"TokensBridged", "V3FundsDeposited"} :
        \A p \in Held(n)' : log'[p].block < firstBlockToSearch'
  <2>1. CASE UNCHANGED <<memory, window>>
    <3>1. \A n : Held(n)' = Held(n)
      BY <2>1, SameMemory
    <3>2. firstBlockToSearch' = firstBlockToSearch
      BY <2>1 DEF window
    <3>3. \A n \in Kinds : \A p \in Held(n) : log'[p] = log[p]
      BY LogGrows DEF IInv, HeldOK
    <3> QED
      BY <1>2, <3>1, <3>2, <3>3
  <2>2. ASSUME NEW u \in Callers, Bridges(u)
        PROVE  \A n \in Kinds \ {"TokensBridged", "V3FundsDeposited"} :
                 \A p \in Held(n)' : log'[p].block < firstBlockToSearch'
    <3>1. \A n \in Kinds : n # "TokensBridged" => Held(n)' = Held(n)
      BY <2>2, BridgedHolds DEF Bridges, chain
    <3> QED
      BY <1>2, <2>2, <3>1 DEF Bridges, chain, window
  <2>3. ASSUME NEW u \in Callers, Throws(u)
        PROVE  \A n \in Kinds \ {"TokensBridged", "V3FundsDeposited"} :
                 \A p \in Held(n)' : log'[p].block < firstBlockToSearch'
    <3>1. \A n \in Kinds : n # "V3FundsDeposited" => Held(n)' = Held(n)
      BY <2>3 DEF Throws, Held, Kinds, EventNames, AppendOnly
    <3> QED
      BY <1>2, <2>3, <3>1 DEF Throws, chain, window
  <2>4. ASSUME NEW u \in Callers, NEW names \in {AppendOnly, AppendOnly \ {"TokensBridged"}},
               Commits(u, names)
        PROVE  \A n \in Kinds \ {"TokensBridged", "V3FundsDeposited"} :
                 \A p \in Held(n)' : log'[p].block < firstBlockToSearch'
    <3>1. /\ log' = log /\ update[u].stage \in {"query", "quotes"}
          /\ \A n \in Kinds : Held(n)' \subseteq Held(n) \cup Answer(u, n)
      BY <2>4, BatchHolds DEF chain
    <3>2. /\ update[u].from = firstBlockToSearch /\ firstBlockToSearch' = update[u].to + 1
          /\ update[u].from <= update[u].to
          /\ update[u].from \in Nat /\ update[u].to \in Nat
      BY <1>2, <2>4, <3>1, WindowOf DEF Commits, Commit, NextStart, WindowsOK
    <3>3. ASSUME NEW n \in Kinds, NEW p \in Answer(u, n)
          PROVE  log[p].block < firstBlockToSearch'
      <4>1. p \in Found(n, update[u].from, update[u].to)
        BY <3>1, <3>3, WindowOf
      <4>2. log[p].block \in Nat /\ log[p].block <= update[u].to
        BY <4>1, LogFacts DEF IInv, Found, EventsOf
      <4> QED
        BY <3>2, <4>2
    <3>4. ASSUME NEW n \in Kinds \ {"TokensBridged", "V3FundsDeposited"}, NEW p \in Held(n)
          PROVE  log[p].block < firstBlockToSearch'
      <4>1. log[p].block < firstBlockToSearch
        BY <1>2
      <4>2. log[p].block \in Nat
        BY LogFacts DEF IInv, HeldOK, EventsOf
      <4> QED
        BY <3>2, <4>1, <4>2
    <3> QED
      BY <3>1, <3>3, <3>4
  <2> QED
    BY <2>1, <2>2, <2>3, <2>4, MemorySteps
<1> QED
  BY <1>4, <1>5 DEF AloneOK

LEMMA HInvHolds ==
  Spec => [](IInv /\ HInv)
<1>1. Init => HInv
  <2> SUFFICES ASSUME Init PROVE HInv
    OBVIOUS
  <2>1. \A u \in Callers : update[u].stage = "idle"
    BY DEF Init, NoUpdate
  <2>2. \A n \in Kinds : Held(n) = {}
    BY HeldByKind DEF Init, AppendOnly
  <2>3. overlaps = 0 /\ FromBlock <= firstBlockToSearch
    BY BlockAssumption DEF Init
  <2>4. WindowsOK
    BY <2>1, <2>3 DEF WindowsOK
  <2>5. HeldOK
    BY <2>2 DEF HeldOK
  <2>6. AloneOK
    <3>1. \A u, v \in Callers : update[u].stage # "idle" /\ update[v].stage # "idle" => u = v
      BY <2>1
    <3> QED
      BY <2>1, <2>2, <3>1 DEF AloneOK
  <2> QED
    BY <2>4, <2>5, <2>6, InitHistory DEF HInv
<1>2. IInv /\ HInv /\ [Next]_vars => HInv'
  BY HistoryStep, WindowsStep, HeldStep, AloneStep DEF IInv, HInv
<1> QED
  BY <1>1, <1>2, IInvHolds, PTL DEF Spec

(* A list to which later events are appended stays in order.               *)
LEMMA AppendedInOrder ==
  ASSUME NEW bs \in Seq(SUBSET Nat), InOrder(bs), NEW ps \in SUBSET Nat,
         \A i \in DOMAIN bs : \A p \in bs[i], q \in ps : p < q
  PROVE  InOrder(Append(bs, ps))
<1> DEFINE t == Append(bs, ps)
<1>1. /\ Len(bs) \in Nat /\ DOMAIN bs = 1..Len(bs) /\ DOMAIN t = 1..(Len(bs) + 1)
      /\ \A i \in 1..Len(bs) : t[i] = bs[i]
      /\ t[Len(bs) + 1] = ps
  BY AppendProperties
<1> HIDE DEF t
<1>2. ASSUME NEW i \in DOMAIN t, NEW j \in DOMAIN t, i < j, NEW p \in t[i], NEW q \in t[j]
      PROVE  p < q
  <2>1. i \in DOMAIN bs /\ t[i] = bs[i]
    BY <1>1, <1>2
  <2>2. CASE j = Len(bs) + 1
    BY <1>1, <1>2, <2>1, <2>2
  <2>3. CASE j # Len(bs) + 1
    <3>1. j \in DOMAIN bs /\ t[j] = bs[j]
      BY <1>1, <2>3
    <3> QED
      BY <1>2, <2>1, <3>1 DEF InOrder
  <2> QED
    BY <2>2, <2>3
<1> QED
  BY <1>2 DEF InOrder, t

(* As long as no two updates overlap, and whichever kinds they ask for,    *)
(* every list holds each event once and in the order of the chain, though  *)
(* updates fail, throw among their deposits and are made again.            *)
THEOREM StoredStaysInOrder ==
  Spec => []StoredInOrder
<1>1. Init => StoredInOrder
  <2> SUFFICES ASSUME Init PROVE StoredInOrder
    OBVIOUS
  <2>1. \A n \in AppendOnly : DOMAIN stored[n] = {}
    BY DEF Init
  <2> QED
    BY <2>1 DEF StoredInOrder, InOrder
<1>2. ASSUME IInv, HInv, StoredInOrder, [Next]_vars, overlaps' = 0, NEW n \in AppendOnly \ {"TokensBridged"}
      PROVE  InOrder(stored[n])'
  <2>1. InOrder(stored[n]) /\ overlaps = 0
    <3>1. overlaps = 0
      BY <1>2, CallMoves DEF HInv, WindowsOK, Moved, Began
    <3> QED
      BY <1>2, <3>1 DEF StoredInOrder
  <2>2. stored[n] \in Seq(SUBSET Nat)
    BY <1>2 DEF IInv, MemoryOK
  <2>3. ASSUME stored'[n] = stored[n] PROVE InOrder(stored[n])'
    BY <2>1, <2>3 DEF InOrder
  <2>4. CASE UNCHANGED memory
    BY <2>3, <2>4 DEF memory
  <2>5. ASSUME NEW u \in Callers, Bridges(u) \/ Throws(u)
        PROVE  InOrder(stored[n])'
    BY <2>3, <2>5 DEF Bridges, Throws, Pushed
  <2>6. ASSUME NEW u \in Callers, NEW names \in {AppendOnly, AppendOnly \ {"TokensBridged"}},
               Commits(u, names)
        PROVE  InOrder(stored[n])'
    <3> DEFINE ps == Answer(u, n)
    <3>1. stored'[n] = IF ps # {} THEN Append(stored[n], ps) ELSE stored[n]
      BY <2>6 DEF Commits, Commit, Pushed
    <3>2. n \in Kinds /\ n \notin {"TokensBridged", "V3FundsDeposited"}
      BY DEF Kinds, EventNames, AppendOnly
    <3>3. /\ ps \subseteq Found(n, update[u].from, update[u].to) /\ update[u].from \in Nat
          /\ update[u].from = firstBlockToSearch
      BY <1>2, <2>1, <2>6, <3>2, WindowOf DEF Commits, HInv, AloneOK
    <3>4. ps \in SUBSET Nat
      BY <1>2, <3>3, EventsFinite DEF IInv, Found
    <3>5. ASSUME NEW i \in DOMAIN stored[n], NEW p \in stored[n][i], NEW q \in ps
          PROVE  p < q
      <4>1. p \in Held(n)
        BY HeldByKind
      <4>2. p \in EventsOf(n) /\ log[p].block < firstBlockToSearch
        BY <1>2, <2>1, <3>2, <4>1 DEF HInv, AloneOK, HeldOK
      <4>3. q \in EventsOf(n) /\ firstBlockToSearch <= log[q].block
        BY <3>3 DEF Found
      <4>4. p \in DOMAIN log /\ q \in DOMAIN log
        BY <4>2, <4>3 DEF EventsOf
      <4>5. log[p].block \in Nat /\ log[q].block \in Nat /\ p \in Nat /\ q \in Nat
        BY <1>2, <4>4, LogFacts DEF IInv
      <4>6. ~(q <= p)
        <5>1. q <= p => log[q].block <= log[p].block
          BY <1>2, <4>4 DEF HInv, HistoryOK
        <5> QED
          BY <3>3, <4>2, <4>3, <4>5, <5>1
      <4> QED
        BY <4>5, <4>6
    <3> HIDE DEF ps
    <3>6. InOrder(Append(stored[n], ps))
      BY <2>1, <2>2, <3>4, <3>5, AppendedInOrder
    <3>7. CASE ps # {}
      BY <3>1, <3>6, <3>7 DEF InOrder
    <3>8. CASE ps = {}
      BY <2>3, <3>1, <3>8
    <3> QED
      BY <3>7, <3>8
  <2> QED
    BY <1>2, <2>4, <2>5, <2>6, MemorySteps
<1>3. IInv /\ HInv /\ StoredInOrder /\ [Next]_vars => StoredInOrder'
  BY <1>2 DEF StoredInOrder
<1> QED
  BY <1>1, <1>3, HInvHolds, PTL DEF Spec

-----------------------------------------------------------------------------
(* The range of ids that have been queried.  Deposits come in the order of *)
(* their ids, so what is held is closed downwards to fromBlock, also when  *)
(* an update throws among its deposits.                                    *)

LEMMA LeastNumber ==
  \A T \in SUBSET Nat : T # {} => \E m \in T : \A k \in T : m <= k
<1> DEFINE R == {ss \in Nat \X Nat : ss[1] < ss[2]}
<1> SUFFICES ASSUME NEW T \in SUBSET Nat, T # {} PROVE \E m \in T : \A k \in T : m <= k
  OBVIOUS
<1>1. IsWellFoundedOn(R, Nat)
  BY NatLessThanWellFounded, Zenon DEF OpToRel
<1>2. \A x, y \in Nat : y < x => <<y, x>> \in R
  OBVIOUS
<1> HIDE DEF R
<1>3. PICK m \in T : \A k \in T : <<k, m>> \notin R
  BY <1>1, WFMin, Zenon
<1>4. \A k \in T : k \in Nat /\ m \in Nat /\ ~(k < m)
  BY <1>2, <1>3
<1> QED
  BY <1>4

LEMMA GreatestNumber ==
  ASSUME NEW T \in SUBSET Nat, T # {}, NEW b \in Nat, \A k \in T : k <= b
  PROVE  \E m \in T : \A k \in T : k <= m
<1> DEFINE D == {b - k : k \in T}
<1>1. D \in SUBSET Nat /\ D # {}
  <2>1. \A k \in T : b - k \in Nat
    OBVIOUS
  <2> QED
    BY <2>1
<1>2. PICK d \in D : \A e \in D : d <= e
  BY <1>1, LeastNumber
<1>3. PICK m \in T : d = b - m
  OBVIOUS
<1>4. \A k \in T : k <= m
  <2>1. \A k \in T : b - k \in D
    OBVIOUS
  <2> QED
    BY <1>2, <1>3, <2>1
<1> QED
  BY <1>3, <1>4

LEMMA Extremes ==
  ASSUME NEW T \in SUBSET Nat, T # {}, NEW b \in Nat, \A k \in T : k <= b
  PROVE  /\ Min(T) \in T /\ \A k \in T : Min(T) <= k
         /\ Max(T) \in T /\ \A k \in T : k <= Max(T)
<1>1. \E m \in T : \A k \in T : m <= k
  BY LeastNumber
<1>2. \E m \in T : \A k \in T : k <= m
  BY GreatestNumber
<1>3. \E m \in T : \A k \in T : m >= k
  BY <1>2
<1> QED
  BY <1>1, <1>3 DEF Min, Max

(* The ids that are given out are below the value of an unknown id.        *)
LEMMA IdsAreSmall ==
  ASSUME LogOK, HistoryOK
  PROVE  NextDepositId < MaxSafeInteger
<1>1. EventsOf("V3FundsDeposited") \subseteq 1..Len(log) /\ Len(log) \in Nat
  BY EventsFinite, LogFacts
<1>2. IsFiniteSet(1..Len(log)) /\ Cardinality(1..Len(log)) = Len(log)
  <2>1. 1 \in Int /\ Len(log) \in Int /\ 1..Len(log) = 1..Len(log)
    BY <1>1
  <2>2. /\ IsFiniteSet(1..Len(log))
        /\ Cardinality(1..Len(log)) = IF 1 > Len(log) THEN 0 ELSE Len(log) - 1 + 1
    BY <2>1, FS_Interval
  <2> QED
    BY <1>1, <2>2
<1>3. NextDepositId <= Len(log)
  BY <1>1, <1>2, FS_Subset DEF NextDepositId
<1> QED
  BY <1>1, <1>3, LogFacts, BoundAssumption DEF HistoryOK

ClosedBelow ==
  \A q \in Held("V3FundsDeposited"), p \in EventsOf("V3FundsDeposited") :
    p < q /\ FromBlock <= log[p].block => p \in Held("V3FundsDeposited")
QueriedIds ==
  /\ DOMAIN depositHashes = {} =>
       earliestDepositIdQueried = MaxSafeInteger /\ latestDepositIdQueried = 0
  /\ DOMAIN depositHashes # {} =>
       {earliestDepositIdQueried, latestDepositIdQueried} \subseteq DOMAIN depositHashes
RangeOK == ClosedBelow /\ QueriedIds

(* The deposits that an update stores: all of its answer, or those before  *)
(* the one it throws at.                                                   *)
LEMMA DepositSteps ==
  ASSUME IInv, NEW u \in Callers,
         \/ Bridges(u) \/ Throws(u)
         \/ \E names \in {AppendOnly, AppendOnly \ {"TokensBridged"}} : Commits(u, names)
  PROVE  /\ UNCHANGED log /\ update[u].stage \in {"query", "quotes"}
         /\ \/ /\ UNCHANGED <<depositHashes, earliestDepositIdQueried, latestDepositIdQueried>>
               /\ Held("V3FundsDeposited")' = Held("V3FundsDeposited")
            \/ \E ps \in SUBSET Answer(u, "V3FundsDeposited") :
                 /\ \A q \in ps, p \in Answer(u, "V3FundsDeposited") : p < q => p \in ps
                 /\ Held("V3FundsDeposited")' = Held("V3FundsDeposited") \cup ps
                 /\ DOMAIN depositHashes' = (DOMAIN depositHashes) \cup IdsOf(ps)
                 /\ earliestDepositIdQueried' = EarliestIdAfter(ps)
                 /\ latestDepositIdQueried' = LatestIdAfter(ps)
<1> DEFINE all == Answer(u, "V3FundsDeposited")
<1>1. CASE Bridges(u)
  BY <1>1 DEF Bridges, queriedIds, chain, Held, AppendOnly
<1>2. CASE Throws(u)
  <2>1. PICK r \in all :
          /\ depositHashes' = WithDeposits({q \in all : q < r})
          /\ earliestDepositIdQueried' = EarliestIdAfter({q \in all : q < r})
          /\ latestDepositIdQueried' = LatestIdAfter({q \in all : q < r})
    BY <1>2 DEF Throws
  <2> DEFINE ps == {q \in all : q < r}
  <2>2. ps \in SUBSET all /\ all \subseteq EventsOf("V3FundsDeposited") /\ all \subseteq Nat
    BY EventsFinite DEF IInv, Answer, Found
  <2>3. \A q \in ps, p \in all : p < q => p \in ps
    BY <2>1, <2>2
  <2> HIDE DEF ps
  <2>4. Held("V3FundsDeposited")' = Held("V3FundsDeposited") \cup ps
    <3>1. "V3FundsDeposited" \in Kinds
      BY DEF Kinds, EventNames
    <3> QED
      BY <1>2, <2>1, <2>2, <3>1, ThrowHolds DEF Throws, chain, ps
  <2>5. DOMAIN depositHashes' = (DOMAIN depositHashes) \cup IdsOf(ps)
    BY <2>1 DEF WithDeposits, ps
  <2>6. earliestDepositIdQueried' = EarliestIdAfter(ps) /\ latestDepositIdQueried' = LatestIdAfter(ps)
    BY <2>1 DEF ps
  <2> QED
    BY <1>2, <2>2, <2>3, <2>4, <2>5, <2>6 DEF Throws, chain
<1>3. ASSUME NEW names \in {AppendOnly, AppendOnly \ {"TokensBridged"}}, Commits(u, names)
      PROVE  /\ UNCHANGED log /\ update[u].stage \in {"query", "quotes"}
             /\ Held("V3FundsDeposited")' = Held("V3FundsDeposited") \cup all
             /\ DOMAIN depositHashes' = (DOMAIN depositHashes) \cup IdsOf(all)
             /\ earliestDepositIdQueried' = EarliestIdAfter(all)
             /\ latestDepositIdQueried' = LatestIdAfter(all)
  <2>1. names \in SUBSET AppendOnly
    OBVIOUS
  <2>2. "V3FundsDeposited" \in Kinds \ AppendOnly
    BY DEF Kinds, EventNames, AppendOnly
  <2>3. Held("V3FundsDeposited")' = Held("V3FundsDeposited") \cup all
    BY <1>3, <2>1, <2>2, CommitHolds DEF Commits
  <2>4. DOMAIN depositHashes' = (DOMAIN depositHashes) \cup IdsOf(all)
    BY <1>3 DEF Commits, Commit, SpedUp, WithDeposits
  <2> QED
    BY <1>3, <2>3, <2>4 DEF Commits, Commit, chain
<1> QED
  BY <1>1, <1>2, <1>3

LEMMA ClosedBelowStep ==
  ASSUME IInv, HInv, ClosedBelow, "V3FundsDeposited" \in Asked, [Next]_vars
  PROVE  ClosedBelow'
<1> DEFINE dep == "V3FundsDeposited"
<1>1. CASE UNCHANGED memory
  <2>1. Held(dep)' = Held(dep) /\ \A q \in Held(dep) : q \in EventsOf(dep) /\ log'[q] = log[q]
    BY <1>1, SameMemory, LogGrows DEF IInv, HInv, HeldOK, Asked
  <2>2. ASSUME NEW q \in Held(dep), NEW p \in EventsOf(dep)', p < q
        PROVE  p \in EventsOf(dep) /\ log'[p] = log[p]
    <3>1. CASE Emit
      <4>1. /\ Len(log) \in Nat /\ DOMAIN log = 1..Len(log) /\ q \in DOMAIN log
            /\ EventsOf(dep)' \subseteq EventsOf(dep) \cup {Len(log) + 1}
        BY <2>1, <3>1, LogFacts, NewEvent DEF IInv, EventsOf
      <4>2. p \in EventsOf(dep)
        BY <2>2, <4>1
      <4> QED
        BY <4>2, LogGrows DEF IInv
    <3>2. CASE log' = log
      BY <2>2, <3>2 DEF EventsOf
    <3> QED
      BY <3>1, <3>2, LogSteps DEF chain
  <2> QED
    BY <2>1, <2>2 DEF ClosedBelow
<1>2. ASSUME NEW u \in Callers, log' = log, update[u].stage \in {"query", "quotes"},
             NEW ps \in SUBSET Answer(u, dep),
             \A q \in ps, p \in Answer(u, dep) : p < q => p \in ps,
             Held(dep)' = Held(dep) \cup ps
      PROVE  ClosedBelow'
  <2>1. /\ Answer(u, dep) = Found(dep, update[u].from, update[u].to)
        /\ update[u].from \in Nat /\ update[u].to \in Nat /\ Covered(update[u].from - 1)
    BY <1>2, WindowOf
  <2>2. ASSUME NEW q \in ps, NEW p \in EventsOf(dep), p < q, FromBlock <= log[p].block
        PROVE  p \in Held(dep) \cup ps
    <3>1. q \in EventsOf(dep) /\ log[q].block <= update[u].to
      BY <2>1 DEF Found
    <3>2. /\ p \in DOMAIN log /\ q \in DOMAIN log /\ p \in Nat /\ q \in Nat
          /\ log[p].block \in Nat /\ log[q].block \in Nat
      BY <3>1, LogFacts DEF IInv, EventsOf
    <3>3. log[p].block <= log[q].block
      BY <2>2, <3>2 DEF HInv, HistoryOK
    <3>4. CASE update[u].from <= log[p].block
      <4>1. p \in Answer(u, dep)
        BY <2>1, <3>1, <3>2, <3>3, <3>4 DEF Found
      <4> QED
        BY <1>2, <2>2, <4>1
    <3>5. CASE ~(update[u].from <= log[p].block)
      <4>1. log[p].block <= update[u].from - 1
        BY <2>1, <3>2, <3>5
      <4>2. p \in Found(dep, FromBlock, update[u].from - 1)
        BY <2>2, <4>1 DEF Found
      <4> QED
        BY <2>1, <4>2 DEF Covered
    <3> QED
      BY <3>4, <3>5
  <2>3. EventsOf(dep)' = EventsOf(dep)
    BY <1>2 DEF EventsOf
  <2> QED
    BY <1>2, <2>2, <2>3 DEF ClosedBelow
<1>3. ASSUME UNCHANGED log, Held(dep)' = Held(dep)
      PROVE  ClosedBelow'
  BY <1>3 DEF ClosedBelow, EventsOf
<1> QED
  BY <1>1, <1>2, <1>3, MemorySteps, DepositSteps

LEMMA QueriedIdsStep ==
  ASSUME IInv, HistoryOK, QueriedIds, [Next]_vars
  PROVE  QueriedIds'
<1> DEFINE dep == "V3FundsDeposited"
           earliest == earliestDepositIdQueried
           latest == latestDepositIdQueried
<1>1. CASE UNCHANGED <<depositHashes, earliest, latest>>
  BY <1>1 DEF QueriedIds
<1>2. ASSUME NEW ps \in SUBSET EventsOf(dep),
             DOMAIN depositHashes' = (DOMAIN depositHashes) \cup IdsOf(ps),
             earliest' = EarliestIdAfter(ps), latest' = LatestIdAfter(ps)
      PROVE  QueriedIds'
  <2> DEFINE held == DOMAIN depositHashes
             new == IdsOf(ps)
             fresh == IdsStored(ps)
  <2>1. NextDepositId \in Nat /\ NextDepositId < MaxSafeInteger /\ MaxSafeInteger \in Nat
    BY IdsAreSmall, LogFacts, BoundAssumption DEF IInv
  <2>2. \A p \in EventsOf(dep) : log[p].id \in Nat /\ log[p].id < MaxSafeInteger
    BY <2>1, LogFacts DEF IInv, LogOK
  <2>3. \A id \in held \cup new : id \in Nat /\ id < MaxSafeInteger
    <3>1. \A id \in held : id \in Nat /\ id < MaxSafeInteger
      BY <2>2 DEF IInv, MemoryOK
    <3> QED
      BY <2>2, <3>1 DEF IdsOf
  <2>4. fresh = new \ held
    BY DEF IdsStored
  <2>5. /\ held = {} => earliest = MaxSafeInteger /\ latest = 0
        /\ held # {} => earliest \in held /\ latest \in held
    BY DEF QueriedIds
  <2>6. earliest \in Nat /\ latest \in Nat /\ earliest <= MaxSafeInteger /\ latest <= MaxSafeInteger
    BY <2>1, <2>3, <2>5
  <2>7. earliest' = Min({earliest} \cup fresh) /\ latest' = Max({latest} \cup fresh)
    BY <1>2 DEF EarliestIdAfter, LatestIdAfter
  <2> HIDE DEF held, new, fresh
  <2>8. earliest' \in {earliest} \cup fresh /\ \A k \in {earliest} \cup fresh : earliest' <= k
    <3>1. \A k \in {earliest} \cup fresh : k \in Nat /\ k <= MaxSafeInteger
      BY <2>1, <2>3, <2>4, <2>6
    <3> QED
      BY <2>1, <2>7, <3>1, Extremes
  <2>9. latest' \in {latest} \cup fresh /\ \A k \in {latest} \cup fresh : k <= latest'
    <3>1. \A k \in {latest} \cup fresh : k \in Nat /\ k <= MaxSafeInteger
      BY <2>1, <2>3, <2>4, <2>6
    <3> QED
      BY <2>1, <2>7, <3>1, Extremes
  <2>10. DOMAIN depositHashes' = held \cup new
    BY <1>2 DEF held, new
  <2>11. CASE held \cup new = {}
    BY <2>4, <2>5, <2>8, <2>9, <2>10, <2>11 DEF QueriedIds
  <2>12. CASE held # {}
    BY <2>4, <2>5, <2>8, <2>9, <2>10, <2>12 DEF QueriedIds
  <2>13. CASE held = {} /\ new # {}
    <3>1. fresh = new /\ earliest = MaxSafeInteger /\ latest = 0
      BY <2>4, <2>5, <2>13
    <3>2. PICK i \in new : TRUE
      BY <2>13
    <3>3. earliest' \in new
      BY <2>1, <2>3, <2>8, <3>1, <3>2
    <3>4. latest' \in new
      BY <2>1, <2>3, <2>9, <3>1, <3>2
    <3> QED
      BY <2>10, <3>3, <3>4 DEF QueriedIds
  <2> QED
    BY <2>11, <2>12, <2>13
<1>3. \A u \in Callers : Answer(u, dep) \subseteq EventsOf(dep)
  BY DEF Answer, Found
<1> QED
  BY <1>1, <1>2, <1>3, MemorySteps, SameMemory, DepositSteps

(* The ids between the earliest and the latest that were queried are all   *)
(* in memory, if every update asks for deposits: for overlapping updates,  *)
(* and for updates that fail or throw among their deposits.                *)
THEOREM QueriedIdsAreHeld ==
  ASSUME \A names \in EventSets : "V3FundsDeposited" \in names
  PROVE  Spec => []DepositIdRangeComplete
<1> DEFINE dep == "V3FundsDeposited"
<1>0. dep \in Asked
  BY DEF Asked, Kinds, EventNames
<1>1. Init => RangeOK
  <2> SUFFICES ASSUME Init PROVE RangeOK
    OBVIOUS
  <2>1. Held(dep) = {} /\ DOMAIN depositHashes = {}
    BY HeldByKind DEF Init
  <2> QED
    BY <2>1 DEF Init, RangeOK, ClosedBelow, QueriedIds
<1>2. IInv /\ HInv /\ RangeOK /\ [Next]_vars => RangeOK'
  BY <1>0, ClosedBelowStep, QueriedIdsStep DEF RangeOK, HInv
<1>3. ASSUME IInv, HInv, RangeOK
      PROVE  DepositIdRangeComplete
  <2> DEFINE earliest == earliestDepositIdQueried
             latest == latestDepositIdQueried
  <2>1. /\ \A p \in EventsOf(dep) : log[p].id \in Nat /\ p \in Nat /\ p \in DOMAIN log
                                    /\ log[p].block \in Nat /\ log[p].id < NextDepositId
        /\ NextDepositId \in Nat
    BY <1>3, LogFacts, EventsFinite DEF IInv, LogOK, EventsOf
  <2> SUFFICES ASSUME NEW id \in earliest..latest PROVE id \in DOMAIN depositHashes
    BY DEF DepositIdRangeComplete
  <2>2. DOMAIN depositHashes # {}
    <3>1. earliest = MaxSafeInteger /\ latest = 0 => FALSE
      BY BoundAssumption
    <3> QED
      BY <1>3, <3>1 DEF RangeOK, QueriedIds
  <2>3. earliest \in DOMAIN depositHashes /\ latest \in DOMAIN depositHashes
    BY <1>3, <2>2 DEF RangeOK, QueriedIds
  <2>4. PICK e \in Held(dep), q \in Held(dep) :
          /\ e \in EventsOf(dep) /\ q \in EventsOf(dep)
          /\ log[e].id = earliest /\ log[q].id = latest
    <3>1. \A i \in DOMAIN depositHashes : depositHashes[i].event \in Held(dep)
      BY HeldByKind
    <3> QED
      BY <1>3, <2>3, <3>1 DEF IInv, MemoryOK
  <2>5. id \in 0..(NextDepositId - 1) /\ earliest <= id /\ id <= latest /\ id \in Nat
        /\ earliest \in Nat /\ latest \in Nat
    BY <2>1, <2>4
  <2>6. PICK p \in EventsOf(dep) : log[p].id = id
    BY <1>3, <2>5 DEF HInv, HistoryOK
  <2>7. ~(q < p) /\ ~(p < e)
    BY <1>3, <2>1, <2>4, <2>5, <2>6 DEF HInv, HistoryOK
  <2>8. FromBlock <= log[p].block
    <3>1. e <= p
      BY <2>1, <2>4, <2>7
    <3>2. log[e].block <= log[p].block
      BY <1>3, <2>1, <2>4, <3>1 DEF HInv, HistoryOK
    <3>3. FromBlock <= log[e].block
      BY <1>3, <2>4, <1>0 DEF HInv, HeldOK, Asked
    <3> QED
      BY <2>1, <2>4, <3>2, <3>3, BlockAssumption
  <2>9. p \in Held(dep)
    <3>1. p < q \/ p = q
      BY <2>1, <2>4, <2>7
    <3> QED
      BY <1>3, <2>4, <2>8, <3>1 DEF RangeOK, ClosedBelow
  <2>10. PICK i \in DOMAIN depositHashes : p = depositHashes[i].event
    BY <2>9, HeldByKind
  <2> QED
    BY <1>3, <2>6, <2>10 DEF IInv, MemoryOK
<1> QED
  BY <1>1, <1>2, <1>3, HInvHolds, PTL DEF Spec

-----------------------------------------------------------------------------
(* Speed-ups.  A speed-up that is held has its deposit held with it, since *)
(* the deposit is earlier in the chain: so a deposit that is stored later  *)
(* has no speed-up among those held, and the others are looked at again    *)
(* when a speed-up for them arrives.                                       *)

SpeedUpsOK ==
  \A s \in Held("RequestedSpeedUpV3Deposit"), p \in EventsOf("V3FundsDeposited") :
    log[p].id = log[s].id /\ FromBlock <= log[p].block => p \in Held("V3FundsDeposited")

Offers(id, depositor) ==
  {p \in Held("RequestedSpeedUpV3Deposit") :
     log[p].id = id /\ log[p].amount < OutputAmount /\ log[p].depositor = depositor}
Right(applied, offers) ==
  /\ applied = NoSpeedUp <=> offers = {}
  /\ applied # NoSpeedUp => applied \in offers
  /\ \A p \in offers : log[applied].amount <= log[p].amount

Lists(batches, ps) ==
  /\ \A i \in DOMAIN batches : \A p \in batches[i] : p \in ps
  /\ \A p \in ps : \E i \in DOMAIN batches : p \in batches[i]

(* The reduce() over the speed-ups of a deposit finds a cheapest one.      *)
LEMMA BestIsCheapest ==
  ASSUME IInv, HistoryOK, NEW batches \in Seq(SUBSET Nat), NEW id, NEW depositor,
         NEW best, best = BestSpeedUp(batches, id, depositor),
         NEW offered, Lists(batches, offered),
         offered \subseteq EventsOf("RequestedSpeedUpV3Deposit")
  PROVE  /\ \A p \in offered :
              log[p].id = id /\ log[p].depositor = depositor
                => best # NoSpeedUp /\ log[best].amount <= log[p].amount
         /\ best # NoSpeedUp =>
              best \in offered /\ log[best].id = id /\ log[best].depositor = depositor
<1> USE DEF Lists
<1> DEFINE M == {p \in offered : log[p].id = id /\ log[p].depositor = depositor}
           mine == {b \in (DOMAIN batches) \X Positions :
                      /\ b[2] \in batches[b[1]]
                      /\ log[b[2]].id = id /\ log[b[2]].depositor = depositor}
           Amount(b) == log[b[2]].amount
           After(a, b) == a[1] > b[1] \/ (a[1] = b[1] /\ a[2] > b[2])
           Chosen(b) == \A a \in mine :
                          Amount(b) < Amount(a) \/ (Amount(b) = Amount(a) /\ ~After(a, b))
<1>1. best = IF mine = {} THEN NoSpeedUp ELSE (CHOOSE b \in mine : Chosen(b))[2]
  BY DEF BestSpeedUp
<1>2. /\ \A p \in M : log[p].amount \in Nat /\ p \in Positions /\ p # NoSpeedUp
      /\ DOMAIN batches \subseteq Nat /\ Len(batches) \in Nat /\ DOMAIN batches = 1..Len(batches)
  <2>1. \A p \in M : log[p].amount \in Nat /\ p \in DOMAIN log /\ DOMAIN log = 1..Len(log)
                     /\ Len(log) \in Nat
    BY LogFacts DEF IInv, EventsOf
  <2> QED
    BY <2>1, BoundAssumption DEF HistoryOK, Positions, NoSpeedUp
<1>3. \A b \in mine : b[1] \in DOMAIN batches /\ b[2] \in M /\ Amount(b) \in Nat
                      /\ b[1] \in Nat /\ b[2] \in Nat /\ b = <<b[1], b[2]>>
  BY <1>2 DEF Positions
<1>4. \A p \in M : \E i \in DOMAIN batches : <<i, p>> \in mine
  <2> SUFFICES ASSUME NEW p \in M PROVE \E i \in DOMAIN batches : <<i, p>> \in mine
    OBVIOUS
  <2>1. PICK i \in DOMAIN batches : p \in batches[i]
    OBVIOUS
  <2> QED
    BY <1>2, <2>1
<1> HIDE DEF mine
<1>5. CASE mine = {}
  BY <1>1, <1>4, <1>5
<1>6. CASE mine # {}
  <2>1. PICK least \in mine : \A a \in mine : Amount(least) <= Amount(a)
    <3> DEFINE T == {Amount(a) : a \in mine}
    <3>1. T \in SUBSET Nat /\ T # {}
      BY <1>3, <1>6
    <3>2. PICK m \in T : \A k \in T : m <= k
      BY <3>1, LeastNumber
    <3> QED
      BY <3>2
  <2> DEFINE cheap == {a \in mine : Amount(a) = Amount(least)}
  <2>2. PICK late \in cheap : \A a \in cheap : a[1] <= late[1]
    <3> DEFINE T == {a[1] : a \in cheap}
    <3>1. /\ T \in SUBSET Nat /\ T # {} /\ \A k \in T : k <= Len(batches)
      BY <1>2, <1>3, <2>1
    <3> HIDE DEF cheap
    <3>2. PICK m \in T : \A k \in T : k <= m
      BY <1>2, <3>1, GreatestNumber
    <3> QED
      BY <3>2
  <2>3. PICK last \in {a \in cheap : a[1] = late[1]} :
          \A a \in {a \in cheap : a[1] = late[1]} : a[2] <= last[2]
    <3> DEFINE S == {a \in cheap : a[1] = late[1]}
               T == {a[2] : a \in S}
    <3>1. T \in SUBSET Nat /\ T # {} /\ \A k \in T : k <= MaxEvents
      <4>1. late \in S
        BY <2>2
      <4>2. \A a \in S : a[2] \in Nat /\ a[2] \in Positions
        BY <1>2, <1>3
      <4> HIDE DEF S
      <4>3. \A a \in S : a[2] \in Nat /\ a[2] <= MaxEvents
        BY <4>2 DEF Positions
      <4> QED
        BY <4>1, <4>3
    <3> HIDE DEF S
    <3>2. PICK m \in T : \A k \in T : k <= m
      BY <3>1, GreatestNumber, BoundAssumption
    <3>3. \E last \in S : \A a \in S : a[2] <= last[2]
      BY <3>2
    <3> QED
      BY <3>3 DEF S
  <2>4. Chosen(last)
    <3> SUFFICES ASSUME NEW a \in mine
                 PROVE  Amount(last) < Amount(a) \/ (Amount(last) = Amount(a) /\ ~After(a, last))
      OBVIOUS
    <3>1. Amount(last) = Amount(least) /\ Amount(last) <= Amount(a) /\ last \in mine
      BY <2>1, <2>3
    <3>2. CASE a \notin cheap
      BY <1>3, <3>1, <3>2
    <3>3. CASE a \in cheap
      BY <1>3, <2>2, <2>3, <3>1, <3>3
    <3> QED
      BY <3>2, <3>3
  <2> HIDE DEF Chosen
  <2>5. \E b \in mine : Chosen(b)
    BY <2>3, <2>4
  <2> DEFINE c == CHOOSE b \in mine : Chosen(b)
  <2>6. c \in mine /\ Chosen(c)
    BY <2>5
  <2>7. best = c[2]
    BY <1>1, <1>6
  <2> HIDE DEF c
  <2>8. best \in M /\ best # NoSpeedUp
    BY <1>2, <1>3, <2>6, <2>7
  <2>9. ASSUME NEW p \in M PROVE log[best].amount <= log[p].amount
    <3>1. PICK i \in DOMAIN batches : <<i, p>> \in mine
      BY <1>4
    <3>2. Amount(c) < Amount(<<i, p>>) \/ Amount(c) = Amount(<<i, p>>)
      BY <2>6, <3>1 DEF Chosen
    <3>3. Amount(c) \in Nat /\ Amount(<<i, p>>) \in Nat
      BY <1>3, <2>6, <3>1
    <3>4. Amount(c) <= Amount(<<i, p>>)
      BY <3>2, <3>3
    <3> QED
      BY <2>7, <3>4
  <2> QED
    BY <2>8, <2>9
<1> QED
  BY <1>5, <1>6

LEMMA SpeedUpsStep ==
  ASSUME IInv, HInv, SpeedUpsOK, "V3FundsDeposited" \in Asked, ~EarlySpeedUps, [Next]_vars
  PROVE  SpeedUpsOK'
<1> DEFINE dep == "V3FundsDeposited"
           up == "RequestedSpeedUpV3Deposit"
<1>0. up \in Kinds /\ dep \in Kinds /\ up \in AppendOnly
  BY DEF Kinds, EventNames, AppendOnly
<1>1. CASE UNCHANGED memory
  <2>1. Held(dep)' = Held(dep) /\ Held(up)' = Held(up)
    BY <1>1, SameMemory
  <2>2. ASSUME NEW s \in Held(up), NEW p \in EventsOf(dep)', log'[p].id = log'[s].id
        PROVE  p \in EventsOf(dep) /\ log'[p] = log[p] /\ log'[s] = log[s]
    <3>1. s \in EventsOf(up) /\ log'[s] = log[s]
      BY <1>0, LogGrows DEF IInv, HInv, HeldOK
    <3>2. PICK q \in EventsOf(dep) : log[q].id = log[s].id
      BY <3>1 DEF HInv, HistoryOK
    <3>3. log'[q] = log[q] /\ q \in EventsOf(dep)'
      BY <3>2, LogGrows DEF IInv
    <3>4. IInv'
      BY NextKeepsIInv
    <3>5. p = q
      BY <2>2, <3>1, <3>2, <3>3, <3>4 DEF IInv, LogOK
    <3> QED
      BY <3>1, <3>2, <3>3, <3>5
  <2> QED
    BY <2>1, <2>2 DEF SpeedUpsOK
<1>2. ASSUME NEW u \in Callers, NEW names \in {AppendOnly, AppendOnly \ {"TokensBridged"}},
             Commits(u, names)
      PROVE  SpeedUpsOK'
  <2>1. /\ log' = log /\ update[u].stage \in {"query", "quotes"}
        /\ Held(dep)' = Held(dep) \cup Answer(u, dep)
        /\ Held(up)' \subseteq Held(up) \cup Answer(u, up)
    <3>1. names \in SUBSET AppendOnly
      OBVIOUS
    <3>2. dep \notin AppendOnly
      BY DEF AppendOnly
    <3> QED
      BY <1>0, <1>2, <3>1, <3>2, BatchHolds, CommitHolds DEF Commits, chain
  <2>2. /\ Answer(u, dep) = Found(dep, update[u].from, update[u].to)
        /\ Answer(u, up) \subseteq Found(up, update[u].from, update[u].to)
        /\ update[u].from \in Nat /\ update[u].to \in Nat /\ Covered(update[u].from - 1)
    BY <1>0, <2>1, WindowOf
  <2>3. ASSUME NEW s \in Answer(u, up), NEW p \in EventsOf(dep), log[p].id = log[s].id,
               FromBlock <= log[p].block
        PROVE  p \in Held(dep) \cup Answer(u, dep)
    <3>1. s \in EventsOf(up) /\ log[s].block <= update[u].to
      BY <2>2, <2>3 DEF Found
    <3>2. p < s
      BY <2>3, <3>1 DEF HInv, HistoryOK, IInv, LogOK
    <3>3. /\ p \in DOMAIN log /\ s \in DOMAIN log /\ p \in Nat /\ s \in Nat
          /\ log[p].block \in Nat /\ log[s].block \in Nat
      BY <3>1, LogFacts DEF IInv, EventsOf
    <3>4. log[p].block <= log[s].block
      BY <3>2, <3>3 DEF HInv, HistoryOK
    <3>5. CASE update[u].from <= log[p].block
      BY <2>2, <3>1, <3>3, <3>4, <3>5 DEF Found
    <3>6. CASE ~(update[u].from <= log[p].block)
      <4>1. log[p].block <= update[u].from - 1
        BY <2>2, <3>3, <3>6
      <4>2. p \in Found(dep, FromBlock, update[u].from - 1)
        BY <2>3, <4>1 DEF Found
      <4> QED
        BY <2>2, <4>2 DEF Covered
    <3> QED
      BY <3>5, <3>6
  <2>4. EventsOf(dep)' = EventsOf(dep)
    BY <2>1 DEF EventsOf
  <2> QED
    BY <2>1, <2>3, <2>4 DEF SpeedUpsOK
<1>3. ASSUME NEW u \in Callers, Bridges(u) \/ Throws(u)
      PROVE  SpeedUpsOK'
  <2>1. log' = log /\ Held(dep) \subseteq Held(dep)'
    BY <1>0, <1>3, BatchHolds DEF chain
  <2>2. stored'[up] = stored[up]
    BY <1>0, <1>3 DEF Bridges, Throws, Pushed
  <2>3. Held(up)' = Held(up)
    BY <1>0, <2>2 DEF Held
  <2> QED
    BY <2>1, <2>3 DEF SpeedUpsOK, EventsOf
<1> QED
  BY <1>1, <1>2, <1>3, MemorySteps

(* What a deposit carries stays right: when only later events come, when   *)
(* deposits are added, and when speed-ups are.                             *)
LEMMA CheapestStep ==
  ASSUME IInv, HInv, SpeedUpsOK, CheapestSpeedUpApplied, [Next]_vars
  PROVE  CheapestSpeedUpApplied'
<1> DEFINE dep == "V3FundsDeposited"
           up == "RequestedSpeedUpV3Deposit"
<1>0. up \in Kinds /\ dep \in Kinds /\ up \in AppendOnly /\ up # "TokensBridged"
  BY DEF Kinds, EventNames, AppendOnly
<1>1. \A id \in DOMAIN depositHashes :
        Right(depositHashes[id].speedUp, Offers(id, log[depositHashes[id].event].depositor))
  BY DEF CheapestSpeedUpApplied, Right, Offers
<1>2. SUFFICES ASSUME NEW id \in DOMAIN depositHashes'
               PROVE  Right(depositHashes[id].speedUp, Offers(id, log[depositHashes[id].event].depositor))'
  BY DEF CheapestSpeedUpApplied, Right, Offers
<1>3. /\ \A p \in Held(up) : p \in EventsOf(up) /\ log'[p] = log[p]
      /\ \A p \in Held(dep) : p \in EventsOf(dep) /\ log'[p] = log[p] /\ FromBlock <= log[p].block
  BY <1>0, LogGrows DEF IInv, HInv, HeldOK
<1>4. ASSUME UNCHANGED depositHashes, Held(up)' = Held(up)
      PROVE  Right(depositHashes[id].speedUp, Offers(id, log[depositHashes[id].event].depositor))'
  <2> DEFINE d == depositHashes[id]
             os == Offers(id, log[d.event].depositor)
  <2>1. Right(d.speedUp, os) /\ d.event \in Held(dep)
    BY <1>1, <1>4, HeldByKind
  <2>2. log'[d.event] = log[d.event]
    BY <1>3, <2>1
  <2>3. os' = os
    BY <1>3, <1>4, <2>2 DEF Offers
  <2>4. d.speedUp # NoSpeedUp => log'[d.speedUp] = log[d.speedUp]
    BY <1>3, <2>1 DEF Right, Offers
  <2>5. \A p \in os : log'[p] = log[p]
    BY <1>3 DEF Offers
  <2>6. (d.speedUp)' = d.speedUp
    BY <1>4
  <2> HIDE DEF os
  <2>7. Right(d.speedUp, os)'
    BY <2>1, <2>3, <2>4, <2>5, <2>6 DEF Right
  <2> QED
    BY <2>7 DEF os
<1>5. ASSUME NEW u \in Callers, UNCHANGED log, NEW ps \in SUBSET Answer(u, dep), NEW m, m = WithDeposits(ps),
             depositHashes'[id].event = m[id].event, id \in DOMAIN m,
             m[id].event \in Held(dep)',
             \A p \in Held(dep)' : FromBlock <= log[p].block
      PROVE  /\ id \in DOMAIN depositHashes => m[id] = depositHashes[id]
             /\ id \notin DOMAIN depositHashes =>
                  /\ m[id].speedUp = NoSpeedUp
                  /\ \A p \in Held(up) : log[p].id # id
  <2>1. /\ id \in DOMAIN depositHashes => m[id] = depositHashes[id]
        /\ id \notin DOMAIN depositHashes => m[id].speedUp = NoSpeedUp
    BY <1>5 DEF WithDeposits, NewDeposit
  <2>2. ps \in SUBSET EventsOf(dep)
    BY DEF Answer, Found
  <2>3. m[id].event \in EventsOf(dep) /\ log[m[id].event].id = id
    BY <1>5, <2>2, DepositsKept
  <2>4. ASSUME id \notin DOMAIN depositHashes, NEW p \in Held(up), log[p].id = id
        PROVE  FALSE
    <3>1. m[id].event \in Held(dep)
      BY <1>5, <2>3, <2>4 DEF SpeedUpsOK
    <3>2. PICK i \in DOMAIN depositHashes : m[id].event = depositHashes[i].event
      BY <3>1, HeldByKind
    <3> QED
      BY <2>3, <2>4, <3>2 DEF IInv, MemoryOK
  <2> QED
    BY <2>1, <2>4
<1>6. HeldOK'
  BY HeldStep DEF HInv
<1>7. ASSUME NEW u \in Callers, Throws(u)
      PROVE  Right(depositHashes[id].speedUp, Offers(id, log[depositHashes[id].event].depositor))'
  <2>1. PICK r \in Answer(u, dep) : depositHashes' = WithDeposits({q \in Answer(u, dep) : q < r})
    BY <1>7 DEF Throws
  <2> DEFINE ps == {q \in Answer(u, dep) : q < r}
             m == depositHashes'
  <2>2. log' = log /\ Held(up)' = Held(up) /\ ps \in SUBSET Answer(u, dep) /\ m = WithDeposits(ps)
    BY <1>0, <1>7, <2>1 DEF Throws, chain, Held
  <2> HIDE DEF ps
  <2>3. m[id].event \in Held(dep)'
    BY <1>2 DEF Held, AppendOnly
  <2>4. \A p \in Held(dep)' : FromBlock <= log[p].block
    BY <1>0, <1>6, <2>2 DEF HeldOK
  <2>5. /\ id \in DOMAIN depositHashes => m[id] = depositHashes[id]
        /\ id \notin DOMAIN depositHashes =>
             /\ m[id].speedUp = NoSpeedUp
             /\ \A p \in Held(up) : log[p].id # id
    BY <1>2, <1>5, <2>2, <2>3, <2>4
  <2>6. Offers(id, log[depositHashes[id].event].depositor)' = Offers(id, log[m[id].event].depositor)
    BY <2>2 DEF Offers
  <2>7. Right(m[id].speedUp, Offers(id, log[m[id].event].depositor))
    <3>1. CASE id \in DOMAIN depositHashes
      BY <1>1, <2>5, <3>1
    <3>2. CASE id \notin DOMAIN depositHashes
      <4>1. Offers(id, log[m[id].event].depositor) = {}
        BY <2>5, <3>2 DEF Offers
      <4> QED
        BY <2>5, <3>2, <4>1 DEF Right
    <3> QED
      BY <3>1, <3>2
  <2> QED
    BY <2>2, <2>6, <2>7 DEF Right
<1>8. ASSUME NEW u \in Callers, NEW names \in {AppendOnly, AppendOnly \ {"TokensBridged"}},
             Commits(u, names)
      PROVE  Right(depositHashes[id].speedUp, Offers(id, log[depositHashes[id].event].depositor))'
  <2> DEFINE ps == Answer(u, dep)
             m == WithDeposits(ps)
             ups == Answer(u, up)
             batches == Pushed(u, {up})[up]
             named == {log[p].id : p \in ups}
             d == depositHashes'[id]
             depositor == log[m[id].event].depositor
             best == BestSpeedUp(batches, id, depositor)
             all == {p \in Held(up) \cup ups : log[p].id = id /\ log[p].depositor = depositor}
             offers == {p \in all : log[p].amount < OutputAmount}
  <2>1. /\ log' = log /\ update[u].stage \in {"query", "quotes"}
        /\ depositHashes' = SpedUp(m, u) /\ stored' = Pushed(u, names)
    BY <1>8 DEF Commits, Commit, chain
  <2>2. /\ m = [i \in DOMAIN m |-> [event |-> m[i].event, speedUp |-> m[i].speedUp]]
        /\ DOMAIN depositHashes' = DOMAIN m /\ d.event = m[id].event
        /\ d = IF id \in named THEN WithMaxSpeedUp(id, m[id], batches) ELSE m[id]
    <3>1. ps \in SUBSET EventsOf(dep)
      BY DEF Answer, Found
    <3>2. m = [i \in DOMAIN m |-> [event |-> m[i].event, speedUp |-> m[i].speedUp]]
      BY <3>1, DepositsKept
    <3>3. DOMAIN SpedUp(m, u) = DOMAIN m /\ \A i \in DOMAIN m : SpedUp(m, u)[i].event = m[i].event
      BY <3>2, SpedUpKeepsDeposits
    <3>4. d = IF id \in named THEN WithMaxSpeedUp(id, m[id], batches) ELSE m[id]
      BY <1>2, <2>1, <3>3 DEF SpedUp
    <3> QED
      BY <1>2, <2>1, <3>2, <3>3, <3>4
  <2>3. Held(up)' = Held(up) \cup ups
    <3>1. names \in SUBSET AppendOnly /\ up \in names
      BY <1>0
    <3> QED
      BY <1>0, <1>8, <3>1, CommitHolds DEF Commits
  <2>4. /\ batches \in Seq(SUBSET Nat)
        /\ UNION {batches[i] : i \in DOMAIN batches} = Held(up) \cup ups
    <3>1. {up} \in SUBSET AppendOnly
      BY <1>0
    <3> QED
      BY <1>0, <2>1, <3>1, PushedBatches
  <2>5. Held(up) \cup ups \subseteq EventsOf(up)
    BY <1>3 DEF Answer, Found
  <2>6. /\ id \in DOMAIN depositHashes => m[id] = depositHashes[id]
        /\ id \notin DOMAIN depositHashes =>
             /\ m[id].speedUp = NoSpeedUp
             /\ \A p \in Held(up) : log[p].id # id
    <3>1. d.event \in Held(dep)'
      BY <1>2 DEF Held, AppendOnly
    <3>2. \A p \in Held(dep)' : FromBlock <= log[p].block
      BY <1>0, <1>6, <2>1 DEF HeldOK
    <3> HIDE DEF m, d
    <3>3. m = WithDeposits(ps) /\ ps \in SUBSET Answer(u, dep) /\ depositHashes'[id].event = m[id].event
      BY <2>2 DEF m, d
    <3> HIDE DEF ps
    <3> QED
      BY <1>2, <1>5, <2>1, <2>2, <3>1, <3>2, <3>3
  <2>7. \A p \in Held(up) \cup ups : log[p].amount \in Nat
    BY <2>5, LogFacts DEF IInv
  <2>8. /\ all = {} => best = NoSpeedUp
        /\ all # {} => best # NoSpeedUp /\ best \in all
                       /\ \A p \in all : log[best].amount <= log[p].amount
    <3> DEFINE offered == Held(up) \cup ups
    <3>1. Lists(batches, offered)
      BY <2>4 DEF Lists
    <3>2. offered \subseteq EventsOf(up) /\ batches \in Seq(SUBSET Nat)
      BY <2>4, <2>5
    <3> HIDE DEF batches, depositor, ups, offered
    <3>3. best = BestSpeedUp(batches, id, depositor) /\ HistoryOK
      BY DEF HInv
    <3> HIDE DEF best
    <3>4. /\ \A p \in offered :
               log[p].id = id /\ log[p].depositor = depositor
                 => best # NoSpeedUp /\ log[best].amount <= log[p].amount
          /\ best # NoSpeedUp =>
               best \in offered /\ log[best].id = id /\ log[best].depositor = depositor
      BY <3>1, <3>2, <3>3, BestIsCheapest
    <3> QED
      BY <3>4 DEF offered
  <2>9. Offers(id, log[depositHashes[id].event].depositor)' = offers
    BY <2>1, <2>2, <2>3 DEF Offers
  <2>10. \A p \in offers : log[p].amount \in Nat /\ log[p].amount < OutputAmount
    BY <2>7
  <2>11. id \in DOMAIN depositHashes =>
           /\ Right(m[id].speedUp, Offers(id, depositor)) /\ Offers(id, depositor) \subseteq offers
           /\ id \notin named => offers \subseteq Offers(id, depositor)
    <3> SUFFICES ASSUME id \in DOMAIN depositHashes
                 PROVE  /\ Right(m[id].speedUp, Offers(id, depositor))
                        /\ Offers(id, depositor) \subseteq offers
                        /\ id \notin named => offers \subseteq Offers(id, depositor)
      OBVIOUS
    <3>1. Right(m[id].speedUp, Offers(id, depositor))
      BY <1>1, <2>6
    <3>2. Offers(id, depositor) \subseteq offers
      BY DEF Offers
    <3>3. id \notin named => offers \subseteq Offers(id, depositor)
      BY DEF Offers
    <3> QED
      BY <3>1, <3>2, <3>3
  <2>12. CASE id \notin named
    <3>1. d = m[id]
      BY <2>2, <2>12
    <3>2. CASE id \in DOMAIN depositHashes
      <4>1. offers = Offers(id, depositor)
        BY <2>11, <2>12, <3>2
      <4>2. Right(d.speedUp, offers)
        BY <2>11, <3>1, <3>2, <4>1
      <4> QED
        BY <2>1, <2>9, <4>2 DEF Right
    <3>3. CASE id \notin DOMAIN depositHashes
      <4>1. offers = {} /\ d.speedUp = NoSpeedUp
        BY <2>6, <2>12, <3>1, <3>3
      <4> QED
        BY <2>9, <4>1 DEF Right
    <3> QED
      BY <3>2, <3>3
  <2>13. CASE id \in named
    <3>1. d = IF best = NoSpeedUp \/ log[best].amount >= OutputAmount
                THEN m[id] ELSE [m[id] EXCEPT !.speedUp = best]
      BY <2>2, <2>13 DEF WithMaxSpeedUp
    <3> HIDE DEF best, all, depositor, named, m, d, ups
    <3>2. CASE best = NoSpeedUp \/ log[best].amount >= OutputAmount
      <4>1. offers = {}
        <5>1. CASE best = NoSpeedUp
          BY <2>8, <5>1
        <5>2. CASE best # NoSpeedUp /\ log[best].amount >= OutputAmount
          <6> SUFFICES ASSUME NEW p \in offers PROVE FALSE
            OBVIOUS
          <6>1. p \in all /\ log[p].amount < OutputAmount /\ log[best].amount <= log[p].amount
            BY <2>8
          <6>2. best \in Held(up) \cup ups /\ p \in Held(up) \cup ups
            BY <2>8, <6>1 DEF all
          <6> QED
            BY <2>7, <5>2, <6>1, <6>2, AmountAssumption
        <5> QED
          BY <3>2, <5>1, <5>2
      <4>2. d.speedUp = NoSpeedUp
        <5>1. d = m[id]
          BY <3>1, <3>2
        <5>2. id \in DOMAIN depositHashes => m[id].speedUp = NoSpeedUp
          BY <2>11, <4>1 DEF Right
        <5> QED
          BY <2>6, <5>1, <5>2
      <4> QED
        BY <2>9, <4>1, <4>2 DEF Right, d
    <3>3. CASE best # NoSpeedUp /\ ~(log[best].amount >= OutputAmount)
      <4>1. best \in all /\ \A p \in all : log[best].amount <= log[p].amount
        BY <2>8, <3>3
      <4>2. best \in offers
        <5>1. log[best].amount \in Nat
          BY <2>7, <4>1 DEF all
        <5> QED
          BY <3>3, <4>1, <5>1, AmountAssumption
      <4>3. d.speedUp = best
        <5>1. d = [m[id] EXCEPT !.speedUp = best]
          BY <3>1, <3>3
        <5>2. m[id] = [event |-> m[id].event, speedUp |-> m[id].speedUp]
          BY <1>2, <2>2
        <5> QED
          BY <5>1, <5>2
      <4> QED
        BY <2>1, <2>9, <3>3, <4>1, <4>2, <4>3 DEF Right, d
    <3> QED
      BY <3>2, <3>3
  <2> QED
    BY <2>12, <2>13
<1>9. CASE UNCHANGED memory
  BY <1>4, <1>9, SameMemory
<1>10. ASSUME NEW u \in Callers, Bridges(u)
       PROVE  Right(depositHashes[id].speedUp, Offers(id, log[depositHashes[id].event].depositor))'
  <2>1. stored'[up] = stored[up] /\ depositHashes' = depositHashes
    BY <1>0, <1>10 DEF Bridges, Pushed
  <2>2. Held(up)' = Held(up)
    BY <1>0, <2>1 DEF Held
  <2> QED
    BY <1>4, <2>1, <2>2
<1> QED
  BY <1>7, <1>8, <1>9, <1>10, MemorySteps

(* Every deposit carries the cheapest speed-up that its depositor signed   *)
(* and the client holds, if every update asks for deposits and none speeds *)
(* up a deposit before it is made: for overlapping updates, updates that   *)
(* fail, and deposits that are stored by one that throws.                  *)
THEOREM CheapestIsApplied ==
  ASSUME \A names \in EventSets : "V3FundsDeposited" \in names, ~EarlySpeedUps
  PROVE  Spec => []CheapestSpeedUpApplied
<1>1. "V3FundsDeposited" \in Asked
  BY DEF Asked, Kinds, EventNames
<1>2. Init => SpeedUpsOK /\ CheapestSpeedUpApplied
  <2> SUFFICES ASSUME Init PROVE SpeedUpsOK /\ CheapestSpeedUpApplied
    OBVIOUS
  <2>1. Held("RequestedSpeedUpV3Deposit") = {} /\ DOMAIN depositHashes = {}
    BY HeldByKind DEF Init, AppendOnly
  <2> QED
    BY <2>1 DEF SpeedUpsOK, CheapestSpeedUpApplied
<1>3. IInv /\ HInv /\ SpeedUpsOK /\ CheapestSpeedUpApplied /\ [Next]_vars
        => (SpeedUpsOK /\ CheapestSpeedUpApplied)'
  BY <1>1, SpeedUpsStep, CheapestStep
<1> QED
  BY <1>2, <1>3, HInvHolds, PTL DEF Spec

-----------------------------------------------------------------------------
(* Updates one after the other: because callers wait for each other, or    *)
(* because there is only one.                                              *)

Sequential == MaxOverlaps = 0 \/ \E c : Callers = {c}

LEMMA NeverOverlaps ==
  ASSUME Sequential
  PROVE  Spec => [](overlaps = 0)
<1>1. Init => overlaps = 0
  BY DEF Init
<1>2. ASSUME overlaps = 0, [Next]_vars
      PROVE  overlaps' = 0
  <2>1. CASE Emit \/ MineBlock \/ SetToBlock \/ UNCHANGED vars
    BY <1>2, <2>1 DEF Emit, MineBlock, SetToBlock, vars, bounds
  <2>2. ASSUME NEW u \in Callers, Proceed(u) \/ DepositThrows(u) \/ Fail(u)
        PROVE  overlaps' = overlaps
    BY <2>2 DEF Proceed, FirstDepositId, BlockNumber, Answers, Quotes, DepositThrows, Fail, bounds
  <2>3. ASSUME NEW u \in Callers, Start(u)
        PROVE  overlaps' = overlaps
    <3>1. CASE UNCHANGED overlaps
      BY <3>1
    <3>2. ASSUME NEW v \in Callers, update[v] # NoUpdate, overlaps < MaxOverlaps
          PROVE  FALSE
      <4>1. CASE MaxOverlaps = 0
        BY <1>2, <3>2, <4>1
      <4>2. CASE \E c : Callers = {c}
        <5>1. u = v
          BY <4>2
        <5> QED
          BY <2>3, <3>2, <5>1 DEF Start
      <4> QED
        BY <4>1, <4>2 DEF Sequential
    <3> QED
      BY <2>3, <3>1, <3>2 DEF Start
  <2> QED
    BY <1>2, <2>1, <2>2, <2>3 DEF Next
<1>3. overlaps = 0 /\ [Next]_vars => (overlaps = 0)'
  BY <1>2
<1> QED
  BY <1>1, <1>3, PTL DEF Spec

(* Whatever an update asks for, fails at, or finds among its deposits, and *)
(* wherever callers fix its end, updates that do not overlap never search  *)
(* a block again, nor forget that they have searched one.                  *)
THEOREM NeverSearchesBack ==
  ASSUME Sequential
  PROVE  Spec => NeverBack
<1>1. ASSUME IInv, HInv, overlaps = 0, [Next]_vars
      PROVE  /\ latestBlockSearched' >= latestBlockSearched
             /\ firstBlockToSearch' >= firstBlockToSearch
  <2>1. /\ latestBlockSearched \in Nat /\ firstBlockToSearch \in Nat
        /\ latestBlockSearched <= firstBlockToSearch
    BY <1>1 DEF IInv, WindowOK
  <2>2. CASE UNCHANGED <<latestBlockSearched, firstBlockToSearch>>
    BY <2>1, <2>2
  <2>3. ASSUME NEW u \in Callers, NEW names \in {AppendOnly, AppendOnly \ {"TokensBridged"}},
               Commits(u, names)
        PROVE  /\ latestBlockSearched' >= latestBlockSearched
               /\ firstBlockToSearch' >= firstBlockToSearch
    <3>1. /\ latestBlockSearched' = update[u].to /\ firstBlockToSearch' = update[u].to + 1
          /\ update[u].stage \in {"query", "quotes"}
      BY <2>3 DEF Commits, Commit, NextStart
    <3>2. /\ update[u].from \in Nat /\ update[u].to \in Nat
          /\ update[u].from = firstBlockToSearch /\ update[u].from <= update[u].to
      BY <1>1, <3>1, WindowOf DEF HInv, AloneOK, WindowsOK
    <3> QED
      BY <2>1, <3>1, <3>2
  <2>4. UNCHANGED window => UNCHANGED <<latestBlockSearched, firstBlockToSearch>>
    BY DEF window
  <2> QED
    BY <1>1, <2>2, <2>3, <2>4, MemorySteps DEF Bridges, Throws
<1>2. IInv /\ HInv /\ overlaps = 0 /\ [Next]_vars =>
        [ /\ latestBlockSearched' >= latestBlockSearched
          /\ firstBlockToSearch' >= firstBlockToSearch ]_vars
  BY <1>1
<1> QED
  BY <1>2, NeverOverlaps, HInvHolds, PTL DEF Spec, NeverBack

(* Of a kind that is filled on commit, and that every update asks for, the *)
(* client holds exactly the events of the blocks it has searched.          *)
Appended == Asked \ {"TokensBridged", "V3FundsDeposited"}
Horizon == firstBlockToSearch - 1
Exact == \A n \in Appended : Held(n) = Found(n, FromBlock, Horizon)

LEMMA HoldsWhatItSearched ==
  ASSUME IInv, HInv, overlaps = 0
  PROVE  Exact
<1> SUFFICES ASSUME NEW n \in Appended PROVE Held(n) = Found(n, FromBlock, firstBlockToSearch - 1)
  BY DEF Exact, Horizon
<1> USE DEF Appended
<1>1. Found(n, FromBlock, firstBlockToSearch - 1) \subseteq Held(n)
  BY DEF IInv, CoverOK, Covered
<1>2. ASSUME NEW p \in Held(n)
      PROVE  p \in Found(n, FromBlock, firstBlockToSearch - 1)
  <2>1. n \in Kinds \ {"TokensBridged", "V3FundsDeposited"}
    BY DEF Asked
  <2>2. p \in EventsOf(n) /\ FromBlock <= log[p].block /\ log[p].block < firstBlockToSearch
    BY <2>1 DEF HInv, HeldOK, AloneOK
  <2>3. log[p].block \in Nat /\ firstBlockToSearch \in Nat
    BY <2>2, LogFacts DEF IInv, WindowOK, EventsOf
  <2> QED
    BY <2>2, <2>3 DEF Found
<1> QED
  BY <1>1, <1>2

(* A step of the mirror of the events of a kind, in the terms of           *)
(* EventMirror.                                                            *)
OnChain(n) == Mirrored(EventsOf(n))
Copied(n) == Mirrored(Held(n))

LEMMA MirrorStep ==
  ASSUME IInv, HInv, overlaps = 0, [Next]_vars, Exact', NEW n \in Appended
  PROVE  \/ /\ OnChain(n) \subseteq OnChain(n)'
            /\ \A e \in OnChain(n)' \ OnChain(n) : e.block > head
            /\ UNCHANGED <<head, Copied(n), Horizon>>
         \/ head' = head + 1 /\ UNCHANGED <<OnChain(n), Copied(n), Horizon>>
         \/ \E b \in Horizon..head :
              /\ Copied(n)' = {e \in OnChain(n) : FromBlock <= e.block /\ e.block <= b}
              /\ Horizon' = b
              /\ UNCHANGED <<OnChain(n), head>>
         \/ UNCHANGED <<OnChain(n), head, Copied(n), Horizon>>
<1>1. /\ \A p \in EventsOf(n) : p \in EventsOf(n)' /\ log'[p] = log[p]
      /\ \A p \in Held(n) : p \in EventsOf(n)
      /\ n \in Kinds /\ n \notin {"TokensBridged", "V3FundsDeposited"}
  BY LogGrows DEF IInv, HInv, HeldOK, Asked, Appended
<1>2. ASSUME Held(n)' = Held(n)
      PROVE  Copied(n)' = Copied(n)
  BY <1>1, <1>2 DEF Copied, Mirrored
<1>3. UNCHANGED client => UNCHANGED memory /\ UNCHANGED Horizon
  BY DEF client, window, Horizon
<1>4. CASE Emit
  <2>1. head' = head /\ UNCHANGED <<Copied(n), Horizon>>
    BY <1>2, <1>3, <1>4, SameMemory DEF Emit
  <2>2. PICK e \in Possible :
          /\ e.block = head + 1 /\ log'[Len(log) + 1] = e
          /\ EventsOf(n)' = IF e.name = n THEN EventsOf(n) \cup {Len(log) + 1} ELSE EventsOf(n)
    BY <1>4, NewEvent DEF IInv
  <2>3. ASSUME NEW p \in EventsOf(n)
        PROVE  [position |-> p, block |-> log[p].block] \in OnChain(n)'
    BY <1>1, <2>3 DEF OnChain, Mirrored
  <2>4. OnChain(n) \subseteq OnChain(n)'
    BY <2>3 DEF OnChain, Mirrored
  <2>5. ASSUME NEW x \in OnChain(n)', x \notin OnChain(n)
        PROVE  x.block > head
    <3>1. PICK p \in EventsOf(n)' : x = [position |-> p, block |-> log'[p].block]
      BY <2>5 DEF OnChain, Mirrored
    <3>2. p \notin EventsOf(n)
      BY <1>1, <2>5, <3>1 DEF OnChain, Mirrored
    <3>3. log'[p] = e
      BY <2>2, <3>2
    <3> QED
      BY <2>2, <3>1, <3>3, LogFacts DEF IInv
  <2> QED
    BY <2>1, <2>4, <2>5
<1>5. CASE log' = log /\ head' = head + 1 /\ UNCHANGED client
  BY <1>2, <1>3, <1>5, SameMemory DEF OnChain, Mirrored, EventsOf
<1>6. CASE UNCHANGED chain
  <2>1. OnChain(n)' = OnChain(n) /\ log' = log /\ head' = head
    BY <1>6 DEF chain, OnChain, Mirrored, EventsOf
  <2>2. CASE UNCHANGED <<memory, window>>
    BY <1>2, <2>1, <2>2, SameMemory DEF window, Horizon
  <2>3. ASSUME NEW u \in Callers, Bridges(u) \/ Throws(u)
        PROVE  UNCHANGED <<OnChain(n), head, Copied(n), Horizon>>
    <3>1. CASE Bridges(u)
      BY <1>1, <1>2, <2>1, <3>1, BridgedHolds DEF Bridges, chain, window, Horizon
    <3>2. CASE Throws(u)
      <4>1. Held(n)' = Held(n)
        BY <1>1, <3>2 DEF Throws, Held, Kinds, EventNames, AppendOnly
      <4> QED
        BY <1>2, <2>1, <3>2, <4>1 DEF Throws, window, Horizon
    <3> QED
      BY <2>3, <3>1, <3>2
  <2>4. ASSUME NEW u \in Callers, NEW names \in {AppendOnly, AppendOnly \ {"TokensBridged"}},
               Commits(u, names)
        PROVE  \E b \in Horizon..head :
                 /\ Copied(n)' = {e \in OnChain(n) : FromBlock <= e.block /\ e.block <= b}
                 /\ Horizon' = b
    <3> DEFINE b == update[u].to
    <3>1. firstBlockToSearch' = b + 1 /\ update[u].stage \in {"query", "quotes"}
      BY <2>4 DEF Commits, Commit, NextStart
    <3>2. /\ update[u].from \in Nat /\ b \in Nat /\ b <= head /\ head \in Nat
          /\ update[u].from = firstBlockToSearch /\ update[u].from <= b
      BY <3>1, WindowOf DEF HInv, AloneOK, WindowsOK, IInv, LogOK
    <3>3. b \in Horizon..head /\ Horizon' = b
      BY <3>1, <3>2 DEF Horizon
    <3>4. Held(n)' = Found(n, FromBlock, b)
      <4>1. Held(n)' = Found(n, FromBlock, firstBlockToSearch - 1)'
        BY DEF Exact, Horizon
      <4>2. firstBlockToSearch' - 1 = b
        BY <3>1, <3>2
      <4> QED
        BY <2>1, <4>1, <4>2 DEF Found, EventsOf
    <3>5. Copied(n)' = {e \in OnChain(n) : FromBlock <= e.block /\ e.block <= b}
      BY <2>1, <3>4 DEF Copied, OnChain, Mirrored, Found
    <3> QED
      BY <3>3, <3>5
  <2> QED
    BY <2>1, <2>2, <2>3, <2>4, MemorySteps
<1> QED
  BY <1>4, <1>5, <1>6, LogSteps

(* The fills and the slow-fill requests that the client holds are those of *)
(* the blocks it has searched, no more and no fewer, and what it has       *)
(* searched only grows: it implements EventMirror, for updates that do not *)
(* overlap and that ask for fills.                                         *)
THEOREM ClientMirrorsRelays ==
  ASSUME Sequential,
         \A names \in EventSets : {"FilledV3Relay", "RequestedV3SlowFill"} \subseteq names
  PROVE  Spec => MirrorsRelays
<1>1. "FilledV3Relay" \in Appended /\ "RequestedV3SlowFill" \in Appended
  BY DEF Appended, Asked, Kinds, EventNames, AppendOnly
<1>2. ASSUME Init, NEW n \in Kinds
      PROVE  OnChain(n) = {} /\ Copied(n) = {} /\ Horizon < FromBlock /\ head \in Nat
  <2>1. EventsOf(n) = {} /\ Held(n) = {}
    BY <1>2, HeldByKind DEF Init, EventsOf, AppendOnly
  <2> QED
    BY <1>2, <2>1, BlockAssumption DEF Init, OnChain, Copied, Mirrored, Horizon
<1>3. Init => FillMirror!Init /\ SlowFillMirror!Init
  BY <1>1, <1>2 DEF Appended, Asked, FillMirror!Init, SlowFillMirror!Init, OnChain, Copied, Horizon
<1>4. ASSUME IInv, HInv, overlaps = 0, [Next]_vars, Exact'
      PROVE  [FillMirror!Next]_(FillMirror!vars) /\ [SlowFillMirror!Next]_(SlowFillMirror!vars)
  <2>1. [FillMirror!Next]_(FillMirror!vars)
    <3> DEFINE n == "FilledV3Relay"
    <3> QED
      BY <1>1, <1>4, MirrorStep DEF FillMirror!Next, FillMirror!vars, FillMirror!Emit,
         FillMirror!MineBlock, FillMirror!Refresh, FillMirror!UpTo, OnChain, Copied, Horizon
  <2>2. [SlowFillMirror!Next]_(SlowFillMirror!vars)
    BY <1>1, <1>4, MirrorStep DEF SlowFillMirror!Next, SlowFillMirror!vars, SlowFillMirror!Emit,
       SlowFillMirror!MineBlock, SlowFillMirror!Refresh, SlowFillMirror!UpTo, OnChain, Copied, Horizon
  <2> QED
    BY <2>1, <2>2
<1>5. IInv /\ HInv /\ overlaps = 0 /\ [Next]_vars /\ Exact'
        => [FillMirror!Next]_(FillMirror!vars) /\ [SlowFillMirror!Next]_(SlowFillMirror!vars)
  BY <1>4
<1>6. IInv /\ HInv /\ overlaps = 0 => Exact
  BY HoldsWhatItSearched
<1> QED
  BY <1>3, <1>5, <1>6, NeverOverlaps, HInvHolds, PTL
  DEF Spec, MirrorsRelays, FillMirror!Spec, SlowFillMirror!Spec

-----------------------------------------------------------------------------
(* Routes.  A batch of changes leaves each route as its last change says,  *)
(* and untouched if there is none.  The first update reads them all; as    *)
(* long as updates do not overlap, each further one goes on from the last. *)

RouteValues == {"absent", "true", "false", "object"}
Open(value) == value \in {"true", "object"}
ChangesOf(r, ps) == {p \in ps : log[p].route = r}

LEMMA AssignedIs ==
  ASSUME NEW value \in RouteValues, NEW enabled \in BOOLEAN
  PROVE  Assigned(value, enabled) \in RouteValues /\ (Open(Assigned(value, enabled)) <=> enabled)
  BY DEF RouteValues, Open, Assigned

(* Induction up to n, for a set of numbers.                                *)
LEMMA CountUp ==
  ASSUME NEW n \in Nat, NEW T, 0 \in T, \A i \in 1..n : i - 1 \in T => i \in T
  PROVE  \A i \in 0..n : i \in T
<1> DEFINE U == {i \in 0..n : i \notin T}
<1>1. SUFFICES ASSUME U # {} PROVE FALSE
  OBVIOUS
<1>2. PICK m \in U : \A k \in U : m <= k
  <2>1. U \in SUBSET Nat
    OBVIOUS
  <2> HIDE DEF U
  <2> QED
    BY <1>1, <2>1, LeastNumber
<1>3. m # 0 /\ m - 1 \in 0..n /\ m - 1 \notin U
  BY <1>2
<1> QED
  BY <1>2, <1>3

(* There is a function that a recursion over 0..n defines.                 *)
Recurses(F, n, base, step) == F[0] = base /\ \A i \in 1..n : F[i] = step[i][F[i - 1]]

LEMMA Iterates ==
  ASSUME NEW n \in Nat, NEW S, NEW base \in S, NEW step \in [1..n -> [S -> S]]
  PROVE  \E F \in [0..n -> S] : Recurses(F, n, base, step)
<1> USE DEF Recurses
<1> DEFINE T == {k \in 0..n : \E F \in [0..k -> S] : Recurses(F, k, base, step)}
<1>1. 0 \in T
  <2> DEFINE G == [j \in 0..0 |-> base]
  <2>1. G \in [0..0 -> S] /\ Recurses(G, 0, base, step) /\ 0 \in 0..n
    OBVIOUS
  <2> HIDE DEF G
  <2> QED
    BY <2>1
<1>2. ASSUME NEW k \in 1..n, k - 1 \in T PROVE k \in T
  <2>1. PICK F \in [0..(k - 1) -> S] : Recurses(F, k - 1, base, step)
    BY <1>2
  <2> DEFINE G == [j \in 0..k |-> IF j = k THEN step[k][F[k - 1]] ELSE F[j]]
  <2>2. F[k - 1] \in S /\ step[k] \in [S -> S]
    OBVIOUS
  <2>3. G \in [0..k -> S]
    BY <2>2
  <2>4. \A i \in 0..(k - 1) : G[i] = F[i]
    OBVIOUS
  <2>5. G[k] = step[k][G[k - 1]]
    BY <2>4
  <2> HIDE DEF G
  <2>6. ASSUME NEW i \in 1..k PROVE G[i] = step[i][G[i - 1]]
    <3>1. CASE i = k
      BY <2>5, <3>1
    <3>2. CASE i # k
      <4>1. i \in 1..(k - 1) /\ i - 1 \in 0..(k - 1) /\ i \in 0..(k - 1)
        BY <3>2
      <4> QED
        BY <2>1, <2>4, <4>1
    <3> QED
      BY <3>1, <3>2
  <2>7. G[0] = base
    BY <2>1, <2>4
  <2> QED
    BY <2>3, <2>6, <2>7
<1> HIDE DEF T
<1>3. \A i \in 0..n : i \in T
  BY <1>1, <1>2, CountUp
<1>4. n \in T
  BY <1>3
<1> QED
  BY <1>4 DEF T

(* What RouteAfter computes, event by event.                               *)
Follows(value, r, ps) ==
  /\ value[0] = depositRoutes[r]
  /\ \A p \in 1..Len(log) :
       /\ p \in ChangesOf(r, ps) => value[p] = Assigned(value[p - 1], log[p].enabled)
       /\ p \notin ChangesOf(r, ps) => value[p] = value[p - 1]
  /\ RouteAfter(r, ps) = value[Len(log)]

LEMMA RouteSteps ==
  ASSUME LogOK, NEW r \in Routes, depositRoutes \in [Routes -> RouteValues],
         NEW ps \in SUBSET EventsOf("EnabledDepositRoute")
  PROVE  \E value \in [0..Len(log) -> RouteValues] : Follows(value, r, ps)
<1> DEFINE n == Len(log)
           step == [p \in 1..n |-> [v \in RouteValues |->
                      IF p \in ps /\ log[p].route = r THEN Assigned(v, log[p].enabled) ELSE v]]
           Rec(F) == [p \in 0..n |-> IF p = 0 THEN depositRoutes[r]
                        ELSE IF p \in ps /\ log[p].route = r THEN Assigned(F[p - 1], log[p].enabled)
                        ELSE F[p - 1]]
           value == CHOOSE F : F = Rec(F)
<1>1. n \in Nat /\ depositRoutes[r] \in RouteValues
  BY LogFacts
<1>2. \A p \in ps : log[p].enabled \in BOOLEAN
  <2>1. \A e \in EventRecords : e.name = "EnabledDepositRoute" => e.enabled \in BOOLEAN
    BY DEF EventRecords
  <2> QED
    BY <2>1, LogFacts DEF EventsOf
<1>3. step \in [1..n -> [RouteValues -> RouteValues]]
  BY <1>2, AssignedIs
<1>4. PICK F \in [0..n -> RouteValues] :
        F[0] = depositRoutes[r] /\ \A p \in 1..n : F[p] = step[p][F[p - 1]]
  <2> HIDE DEF n, step
  <2>1. \E F \in [0..n -> RouteValues] : Recurses(F, n, depositRoutes[r], step)
    BY <1>1, <1>3, Iterates
  <2> QED
    BY <2>1 DEF Recurses
<1>5. F = Rec(F)
  <2>1. ASSUME NEW p \in 0..n PROVE F[p] = Rec(F)[p]
    <3>1. CASE p = 0
      BY <1>4, <3>1
    <3>2. CASE p # 0
      <4>1. p \in 1..n /\ p - 1 \in 0..n /\ F[p - 1] \in RouteValues
        BY <1>1, <1>4, <3>2
      <4> QED
        BY <1>4, <3>2, <4>1
    <3> QED
      BY <3>1, <3>2
  <2>2. DOMAIN F = DOMAIN Rec(F)
    BY <1>4
  <2> QED
    BY <1>4, <2>1, <2>2
<1>6. value = Rec(value)
  BY <1>5
<1>7. RouteAfter(r, ps) = value[n]
  BY DEF RouteAfter
<1> HIDE DEF value
<1>8. /\ DOMAIN value = 0..n /\ value[0] = depositRoutes[r]
      /\ \A p \in 1..n : value[p] =
           IF p \in ps /\ log[p].route = r THEN Assigned(value[p - 1], log[p].enabled)
           ELSE value[p - 1]
  <2>1. \A p \in 0..n : value[p] = Rec(value)[p]
    BY <1>6
  <2>2. 0 \in 0..n /\ \A p \in 1..n : p \in 0..n /\ p # 0
    BY <1>1
  <2>3. DOMAIN value = DOMAIN Rec(value)
    BY <1>6
  <2> QED
    BY <2>1, <2>2, <2>3
<1> DEFINE T == {p \in 0..n : value[p] \in RouteValues}
<1>9. 0 \in T
  BY <1>1, <1>8
<1>10. ASSUME NEW p \in 1..n, p - 1 \in T PROVE p \in T
  <2>1. p \in 0..n /\ value[p - 1] \in RouteValues
    BY <1>1, <1>10
  <2> QED
    BY <1>2, <1>8, <2>1, AssignedIs
<1> HIDE DEF T
<1>11. \A p \in 0..n : p \in T
  BY <1>1, <1>9, <1>10, CountUp
<1>12. value \in [0..n -> RouteValues]
  BY <1>6, <1>8, <1>11 DEF T
<1>13. Follows(value, r, ps)
  BY <1>7, <1>8 DEF Follows, ChangesOf
<1> QED
  BY <1>12, <1>13

LEMMA RouteIsLastChange ==
  ASSUME LogOK, NEW r \in Routes, depositRoutes \in [Routes -> RouteValues],
         NEW ps \in SUBSET EventsOf("EnabledDepositRoute")
  PROVE  /\ RouteAfter(r, ps) \in RouteValues
         /\ ChangesOf(r, ps) = {} => RouteAfter(r, ps) = depositRoutes[r]
         /\ \A m \in ChangesOf(r, ps) : (\A p \in ChangesOf(r, ps) : p <= m) =>
              (Open(RouteAfter(r, ps)) <=> log[m].enabled)
<1> DEFINE n == Len(log)
           changes == ChangesOf(r, ps)
<1>1. PICK value \in [0..n -> RouteValues] : Follows(value, r, ps)
  BY RouteSteps
<1>2. /\ value[0] = depositRoutes[r]
      /\ \A p \in 1..n : p \in changes => value[p] = Assigned(value[p - 1], log[p].enabled)
      /\ \A p \in 1..n : p \notin changes => value[p] = value[p - 1]
      /\ RouteAfter(r, ps) = value[n]
  BY <1>1 DEF Follows
<1>3. n \in Nat /\ changes \subseteq 1..n
  BY LogFacts, EventsFinite DEF ChangesOf
<1>4. \A p \in changes : log[p].enabled \in BOOLEAN
  <2>1. \A e \in EventRecords : e.name = "EnabledDepositRoute" => e.enabled \in BOOLEAN
    BY DEF EventRecords
  <2> QED
    BY <2>1, LogFacts DEF EventsOf, ChangesOf
<1> HIDE DEF n, changes
<1>5. ASSUME changes = {} PROVE value[n] = depositRoutes[r]
  <2> DEFINE T == {p \in 0..n : value[p] = depositRoutes[r]}
  <2>1. 0 \in T
    BY <1>2, <1>3
  <2>2. \A p \in 1..n : p - 1 \in T => p \in T
    BY <1>2, <1>3, <1>5
  <2> HIDE DEF T
  <2>3. \A p \in 0..n : p \in T
    BY <1>3, <2>1, <2>2, CountUp
  <2> QED
    BY <1>3, <2>3 DEF T
<1>6. ASSUME NEW m \in changes, \A p \in changes : p <= m
      PROVE  Open(value[n]) <=> log[m].enabled
  <2> DEFINE T == {p \in 0..n : p >= m => (Open(value[p]) <=> log[m].enabled)}
  <2>1. m \in 1..n /\ m - 1 \in 0..n /\ value[m - 1] \in RouteValues
    BY <1>1, <1>3
  <2>2. Open(value[m]) <=> log[m].enabled
    BY <1>2, <1>4, <2>1, AssignedIs
  <2>3. 0 \in T
    BY <1>3, <2>1
  <2>4. ASSUME NEW p \in 1..n, p - 1 \in T PROVE p \in T
    <3>1. CASE p < m
      BY <3>1, <2>1
    <3>2. CASE p = m
      BY <3>2, <2>2, <2>1
    <3>3. CASE p > m
      <4>1. p \notin changes
        BY <1>6, <2>1, <3>3
      <4>2. value[p] = value[p - 1] /\ p - 1 >= m
        BY <1>2, <2>1, <3>3, <4>1
      <4> QED
        BY <2>4, <4>2
    <3> QED
      BY <2>1, <3>1, <3>2, <3>3
  <2> HIDE DEF T
  <2>5. n \in T
    <3>1. \A p \in 0..n : p \in T
      BY <1>3, <2>3, <2>4, CountUp
    <3> QED
      BY <1>3, <3>1
  <2> QED
    BY <1>3, <2>1, <2>5 DEF T
<1>7. value[n] \in RouteValues
  BY <1>1, <1>3
<1> QED
  BY <1>2, <1>5, <1>6, <1>7 DEF changes

(* The last of the changes up to a block, if there is one, opened the route. *)
Changes(r, b) == ChangesOf(r, Found("EnabledDepositRoute", DeploymentBlock, b))
OpenedBy(ps) == \E m \in ps : (\A p \in ps : p <= m) /\ log[m].enabled

AsksForRoutes == \A names \in EventSets : "EnabledDepositRoute" \in names

RoutesOK ==
  /\ DeploymentBlock <= head /\ \A p \in DOMAIN log : DeploymentBlock <= log[p].block
  /\ depositRoutes \in [Routes -> RouteValues]
  /\ isUpdated => latestBlockSearched <= head
  /\ \A u \in Callers :
       update[u].stage \in {"query", "quotes"} => update[u].fullHistory = ~isUpdated
  /\ IF isUpdated
       THEN \A r \in Routes : Open(depositRoutes[r]) <=> OpenedBy(Changes(r, latestBlockSearched))
       ELSE \A r \in Routes : depositRoutes[r] = "absent"

LEMMA InitRoutes ==
  Init => RoutesOK
<1>1. "absent" \in RouteValues /\ DeploymentBlock <= DeploymentBlock
  BY BlockAssumption DEF RouteValues
<1> QED
  BY <1>1, BlockAssumption DEF Init, RoutesOK, NoUpdate

(* The changes up to a block of the chain do not change any more.          *)
LEMMA ChangesStay ==
  ASSUME IInv, [Next]_vars, NEW r, NEW b \in Nat, b <= head
  PROVE  Changes(r, b)' = Changes(r, b) /\ OpenedBy(Changes(r, b))' = OpenedBy(Changes(r, b))
<1>1. head \in Nat /\ Len(log) \in Nat /\ DOMAIN log = 1..Len(log)
  BY LogFacts DEF IInv
<1>2. CASE Emit
  <2>1. /\ DOMAIN log' = 1..(Len(log) + 1)
        /\ \A p \in DOMAIN log : log'[p] = log[p]
        /\ log'[Len(log) + 1].block = head + 1
    BY <1>2, NewEvent DEF IInv
  <2>2. \A p : p \in Changes(r, b)' <=> p \in Changes(r, b)
    <3>1. ASSUME NEW p \in DOMAIN log PROVE p \in Changes(r, b)' <=> p \in Changes(r, b)
      <4>1. p \in DOMAIN log' /\ log'[p] = log[p]
        BY <1>1, <2>1
      <4> QED
        BY <4>1 DEF Changes, ChangesOf, Found, EventsOf
    <3>2. Len(log) + 1 \notin Changes(r, b)'
      BY <1>1, <2>1 DEF Changes, ChangesOf, Found
    <3>3. Changes(r, b)' \subseteq DOMAIN log' /\ Changes(r, b) \subseteq DOMAIN log
      BY DEF Changes, ChangesOf, Found, EventsOf
    <3> QED
      BY <1>1, <2>1, <3>1, <3>2, <3>3
  <2>3. Changes(r, b)' = Changes(r, b) /\ Changes(r, b) \subseteq DOMAIN log
    BY <2>2 DEF Changes, ChangesOf, Found, EventsOf
  <2> QED
    BY <2>1, <2>3 DEF OpenedBy
<1>3. CASE log' = log
  BY <1>3 DEF Changes, ChangesOf, Found, EventsOf, OpenedBy
<1> QED
  BY <1>2, <1>3, LogSteps DEF chain

LEMMA SameRoutes ==
  ASSUME IInv, RoutesOK, [Next]_vars, UNCHANGED <<depositRoutes, isUpdated, latestBlockSearched>>
  PROVE  IF isUpdated'
           THEN \A r \in Routes : Open(depositRoutes'[r]) <=> OpenedBy(Changes(r, latestBlockSearched))'
           ELSE \A r \in Routes : depositRoutes'[r] = "absent"
<1>1. CASE isUpdated
  <2>1. latestBlockSearched \in Nat /\ latestBlockSearched <= head
    BY <1>1 DEF RoutesOK, IInv, WindowOK
  <2>2. \A r \in Routes : OpenedBy(Changes(r, latestBlockSearched))' = OpenedBy(Changes(r, latestBlockSearched))
    <3> DEFINE b == latestBlockSearched
    <3>1. b \in Nat /\ b <= head /\ b' = b
      BY <2>1
    <3>2. \A r : Changes(r, latestBlockSearched)' = Changes(r, b)'
      BY DEF Changes, Found
    <3> QED
      BY <3>1, ChangesStay
  <2> QED
    BY <1>1, <2>2 DEF RoutesOK
<1> QED
  BY <1>1 DEF RoutesOK

(* The changes an update brings: all of them, or those after the others.   *)
LEMMA BroughtChanges ==
  ASSUME IInv, HInv, RoutesOK, AsksForRoutes, overlaps = 0,
         NEW u \in Callers, update[u].stage \in {"query", "quotes"}, NEW r
  PROVE  LET ps == Answer(u, "EnabledDepositRoute")
             to == update[u].to
         IN /\ ps \in SUBSET EventsOf("EnabledDepositRoute")
            /\ ~isUpdated => ChangesOf(r, ps) = Changes(r, to)
            /\ isUpdated =>
                 /\ Changes(r, to) = Changes(r, latestBlockSearched) \cup ChangesOf(r, ps)
                 /\ \A p \in Changes(r, latestBlockSearched), q \in ChangesOf(r, ps) : p < q
<1> DEFINE E == "EnabledDepositRoute"
           from == update[u].from
           to == update[u].to
           ps == Answer(u, E)
<1>1. /\ update[u].names \in EventSets /\ from \in Nat /\ to \in Nat /\ from <= to
      /\ E \in update[u].names
      /\ update[u].fullHistory = ~isUpdated /\ isUpdated \in BOOLEAN
  BY WindowOf DEF AsksForRoutes, RoutesOK, HInv, WindowsOK, IInv, WindowOK
<1>2. ps = Found(E, IF isUpdated THEN from ELSE DeploymentBlock, to)
  BY <1>1 DEF Answer, WindowStart
<1>3. \A p \in EventsOf(E) : log[p].block \in Nat /\ DeploymentBlock <= log[p].block /\ p \in Nat
  BY LogFacts, EventsFinite DEF RoutesOK, IInv, EventsOf
<1>4. ps \in SUBSET EventsOf(E)
  BY <1>2 DEF Found
<1>5. ASSUME ~isUpdated PROVE ChangesOf(r, ps) = Changes(r, to)
  BY <1>2, <1>5 DEF Changes
<1>6. ASSUME isUpdated
      PROVE  /\ Changes(r, to) = Changes(r, latestBlockSearched) \cup ChangesOf(r, ps)
             /\ \A p \in Changes(r, latestBlockSearched), q \in ChangesOf(r, ps) : p < q
  <2>1. /\ latestBlockSearched \in Nat /\ latestBlockSearched = firstBlockToSearch - 1
        /\ from = firstBlockToSearch
    BY <1>6 DEF IInv, WindowOK, HInv, AloneOK
  <2>2. ps = {p \in EventsOf(E) : latestBlockSearched < log[p].block /\ log[p].block <= to}
    BY <1>1, <1>2, <1>3, <1>6, <2>1 DEF Found
  <2>3. \A b \in Nat : Found(E, DeploymentBlock, b) = {p \in EventsOf(E) : log[p].block <= b}
    BY <1>3 DEF Found
  <2>4. Changes(r, to) = Changes(r, latestBlockSearched) \cup ChangesOf(r, ps)
    BY <1>1, <1>3, <2>1, <2>2, <2>3 DEF Changes, ChangesOf
  <2>5. ASSUME NEW p \in Changes(r, latestBlockSearched), NEW q \in ChangesOf(r, ps)
        PROVE  p < q
    <3>1. /\ p \in EventsOf(E) /\ log[p].block <= latestBlockSearched
          /\ q \in EventsOf(E) /\ latestBlockSearched < log[q].block
      BY <2>1, <2>2, <2>3 DEF Changes, ChangesOf
    <3>2. \A i, j \in DOMAIN log : i <= j => log[i].block <= log[j].block
      BY DEF HInv, HistoryOK
    <3> QED
      BY <1>3, <2>1, <3>1, <3>2 DEF EventsOf
  <2> QED
    BY <2>4, <2>5
<1> QED
  BY <1>1, <1>4, <1>5, <1>6

LEMMA RouteGreatest ==
  ASSUME LogOK, NEW ps \in SUBSET EventsOf("EnabledDepositRoute"), ps # {}
  PROVE  \E m \in ps : \A p \in ps : p <= m
<1>1. ps \in SUBSET Nat /\ Len(log) \in Nat /\ \A p \in ps : p <= Len(log)
  BY LogFacts, EventsFinite
<1> QED
  BY <1>1, GreatestNumber

LEMMA CommittedRoutes ==
  ASSUME IInv, HInv, RoutesOK, AsksForRoutes, overlaps = 0, NEW u \in Callers,
         NEW names \in {AppendOnly, AppendOnly \ {"TokensBridged"}}, Commits(u, names)
  PROVE  /\ depositRoutes' \in [Routes -> RouteValues] /\ isUpdated'
         /\ latestBlockSearched' <= head'
         /\ \A r \in Routes : Open(depositRoutes'[r]) <=> OpenedBy(Changes(r, latestBlockSearched))'
<1> DEFINE ps == Answer(u, "EnabledDepositRoute")
           to == update[u].to
<1>1. /\ depositRoutes' = [r \in Routes |-> RouteAfter(r, ps)] /\ isUpdated' = TRUE
      /\ latestBlockSearched' = to /\ UNCHANGED chain /\ update[u].stage \in {"query", "quotes"}
  BY DEF Commits, Commit, WithRoutes
<1>2. to <= head /\ to \in Nat /\ LogOK /\ depositRoutes \in [Routes -> RouteValues]
  BY <1>1, WindowOf DEF RoutesOK, IInv
<1>3. ps \in SUBSET EventsOf("EnabledDepositRoute")
  BY <1>1, BroughtChanges
<1>4. \A r \in Routes : RouteAfter(r, ps) \in RouteValues
  BY <1>2, <1>3, RouteIsLastChange
<1>5. \A r : OpenedBy(Changes(r, latestBlockSearched))' = OpenedBy(Changes(r, to))
  BY <1>1 DEF chain, OpenedBy, Changes, ChangesOf, Found, EventsOf
<1>6. ASSUME NEW r \in Routes PROVE Open(RouteAfter(r, ps)) <=> OpenedBy(Changes(r, to))
  <2> DEFINE new == ChangesOf(r, ps)
             old == Changes(r, latestBlockSearched)
             after == RouteAfter(r, ps)
             S == Changes(r, to)
  <2>1. /\ ~isUpdated => new = S
        /\ isUpdated => S = old \cup new /\ \A p \in old, q \in new : p < q
    BY <1>1, BroughtChanges
  <2>2. /\ new = {} => after = depositRoutes[r]
        /\ \A m \in new : (\A p \in new : p <= m) => (Open(after) <=> log[m].enabled)
    BY <1>2, <1>3, RouteIsLastChange
  <2>3. new \in SUBSET EventsOf("EnabledDepositRoute")
        /\ old \in SUBSET EventsOf("EnabledDepositRoute")
    BY <1>3 DEF ChangesOf, Changes, Found
  <2>4. new \subseteq Nat /\ old \subseteq Nat
    BY <1>2, <2>3, EventsFinite
  <2>5. new # {} => \E m \in new : \A p \in new : p <= m
    BY <1>2, <2>3, RouteGreatest
  <2>6. /\ isUpdated => (Open(depositRoutes[r]) <=> OpenedBy(old))
        /\ ~isUpdated => ~Open(depositRoutes[r])
    BY DEF RoutesOK, Open
  <2>7. S = (IF isUpdated THEN old ELSE {}) \cup new
    BY <2>1
  <2> HIDE DEF new, old, after, S
  <2>8. ASSUME new = {}
        PROVE  Open(after) <=> OpenedBy(S)
    <3>1. CASE isUpdated
      <4>1. S = old
        BY <2>7, <2>8, <3>1
      <4> QED
        BY <2>2, <2>6, <2>8, <3>1, <4>1
    <3>2. CASE ~isUpdated
      <4>1. S = {}
        BY <2>7, <2>8, <3>2
      <4> QED
        BY <2>2, <2>6, <2>8, <3>2, <4>1 DEF OpenedBy
    <3> QED
      BY <3>1, <3>2
  <2>9. ASSUME new # {}
        PROVE  Open(after) <=> OpenedBy(S)
    <3>1. PICK m \in new : \A p \in new : p <= m
      BY <2>5, <2>9
    <3>2. Open(after) <=> log[m].enabled
      BY <2>2, <3>1
    <3>3. m \in S /\ \A p \in S : p <= m
      BY <2>1, <2>4, <2>7, <3>1
    <3>4. \A k \in S : (\A p \in S : p <= k) => k = m
      BY <2>4, <2>7, <3>3
    <3>5. OpenedBy(S) <=> log[m].enabled
      BY <3>3, <3>4 DEF OpenedBy
    <3> QED
      BY <3>2, <3>5
  <2>10. Open(after) <=> OpenedBy(S)
    BY <2>8, <2>9
  <2> QED
    BY <2>10 DEF after, S
<1>7. head' = head
  BY <1>1 DEF chain
<1> QED
  BY <1>1, <1>2, <1>4, <1>5, <1>6, <1>7

(* Of the calls in flight, each still asks for what it has to.             *)
LEMMA HistoryFlag ==
  ASSUME IInv, HInv, RoutesOK, overlaps = 0, [Next]_vars,
         NEW v \in Callers, update'[v].stage \in {"query", "quotes"}
  PROVE  update'[v].fullHistory = ~isUpdated'
<1>1. /\ update \in [Callers -> UpdateRecords] /\ NoUpdate.stage = "idle"
      /\ update[v].stage \in {"query", "quotes"} => update[v].fullHistory = ~isUpdated
  BY DEF IInv, UpdatesOK, RoutesOK, NoUpdate
<1>2. CASE UNCHANGED <<update, isUpdated>>
  BY <1>1, <1>2
<1>3. \A names, id :
        LET s == SearchConfig(names, id)
        IN s.stage \in {"query", "quotes"} => s.fullHistory = ~isUpdated
  BY <1>1 DEF SearchConfig, Query
<1>4. ASSUME NEW u \in Callers, Start(u) \/ FirstDepositId(u)
      PROVE  update'[v].fullHistory = ~isUpdated'
  <2>1. PICK names, id, s :
          /\ update' = [update EXCEPT ![u] = s]
          /\ s = [stage |-> "firstDepositId", names |-> names] \/ s = SearchConfig(names, id)
    BY <1>4 DEF Start, FirstDepositId
  <2>2. isUpdated' = isUpdated
    BY <1>4 DEF Start, FirstDepositId, client, window
  <2>3. update'[v] = IF v = u THEN s ELSE update[v]
    BY <1>1, <2>1
  <2>4. CASE v = u
    <3>1. s.stage \in {"query", "quotes"}
      BY <2>3, <2>4
    <3>2. s = SearchConfig(names, id)
      BY <2>1, <3>1
    <3> QED
      BY <1>3, <2>2, <2>3, <2>4, <3>1, <3>2
  <2> QED
    BY <1>1, <2>2, <2>3, <2>4
<1>5. ASSUME NEW u \in Callers, BlockNumber(u)
      PROVE  update'[v].fullHistory = ~isUpdated'
  <2>1. PICK s : /\ update' = [update EXCEPT ![u] = s]
                 /\ \/ s = NoUpdate
                    \/ s = Query(update[u].names, update[u].firstDepositId, update[u].from, head)
    BY <1>5 DEF BlockNumber
  <2>2. isUpdated' = isUpdated
    BY <1>5 DEF BlockNumber, client, window
  <2>3. update'[v] = IF v = u THEN s ELSE update[v]
    BY <1>1, <2>1
  <2> QED
    BY <1>1, <2>1, <2>2, <2>3 DEF Query
<1>6. ASSUME NEW u \in Callers, update' = [update EXCEPT ![u] = NoUpdate], isUpdated' = isUpdated
      PROVE  update'[v].fullHistory = ~isUpdated'
  <2>1. update'[v] = IF v = u THEN NoUpdate ELSE update[v]
    BY <1>1, <1>6
  <2> QED
    BY <1>1, <1>6, <2>1
<1>7. ASSUME NEW u \in Callers, update[u].stage \in {"query", "quotes"},
             update' = [update EXCEPT ![u] = NoUpdate]
      PROVE  update'[v].fullHistory = ~isUpdated'
  <2>1. update'[v] = IF v = u THEN NoUpdate ELSE update[v]
    BY <1>1, <1>7
  <2>2. update[v].stage # "idle" /\ update[u].stage # "idle" /\ v # u
    BY <1>1, <1>7, <2>1
  <2> QED
    BY <2>2 DEF HInv, AloneOK
<1>8. ASSUME NEW u \in Callers, Answers(u)
      PROVE  update'[v].fullHistory = ~isUpdated'
  <2>1. CASE Commit(u, AppendOnly)
    BY <1>7, <1>8, <2>1 DEF Answers, Commit
  <2>2. CASE update' = [update EXCEPT ![u] = NoUpdate] /\ UNCHANGED client
    BY <1>6, <2>2 DEF client, window
  <2>3. CASE update' = [update EXCEPT ![u].stage = "quotes"] /\ UNCHANGED window
    <3>1. update[u].stage = "query"
      BY <1>8 DEF Answers
    <3>2. update[u] \in UpdateRecords /\ isUpdated' = isUpdated
      BY <1>1, <2>3 DEF window
    <3>3. update'[v] = IF v = u THEN [update[u] EXCEPT !.stage = "quotes"] ELSE update[v]
      BY <1>1, <2>3
    <3>4. [update[u] EXCEPT !.stage = "quotes"].fullHistory = update[u].fullHistory
      BY <3>1, <3>2 DEF UpdateRecords, NoUpdate
    <3> QED
      BY <1>1, <3>1, <3>2, <3>3, <3>4
  <2> QED
    BY <1>8, <2>1, <2>2, <2>3 DEF Answers
<1>9. ASSUME NEW u \in Callers, Quotes(u)
      PROVE  update'[v].fullHistory = ~isUpdated'
  BY <1>7, <1>9 DEF Quotes, Commit
<1>10. ASSUME NEW u \in Callers, DepositThrows(u) \/ Fail(u)
      PROVE  update'[v].fullHistory = ~isUpdated'
  BY <1>6, <1>10 DEF DepositThrows, Fail, client, window
<1>11. CASE Emit \/ MineBlock \/ SetToBlock \/ UNCHANGED vars
  BY <1>2, <1>11 DEF Emit, MineBlock, SetToBlock, vars, client, window
<1> QED
  BY <1>4, <1>5, <1>8, <1>9, <1>10, <1>11 DEF Next, Proceed

LEMMA RouteWrites ==
  ASSUME [Next]_vars
  PROVE  \/ UNCHANGED <<depositRoutes, isUpdated, latestBlockSearched>>
         \/ \E u \in Callers :
              \E names \in {AppendOnly, AppendOnly \ {"TokensBridged"}} : Commits(u, names)
<1>1. CASE Emit \/ MineBlock \/ SetToBlock \/ UNCHANGED vars
  BY <1>1 DEF Emit, MineBlock, SetToBlock, vars, client, window, memory
<1>2. ASSUME NEW u \in Callers,
             Start(u) \/ FirstDepositId(u) \/ BlockNumber(u) \/ DepositThrows(u) \/ Fail(u)
      PROVE  UNCHANGED <<depositRoutes, isUpdated, latestBlockSearched>>
  BY <1>2 DEF Start, FirstDepositId, BlockNumber, DepositThrows, Fail, client, window, memory
<1>3. ASSUME NEW u \in Callers, Answers(u)
      PROVE  \/ UNCHANGED <<depositRoutes, isUpdated, latestBlockSearched>>
             \/ Commits(u, AppendOnly)
  BY <1>3 DEF Answers, Commits, client, window, memory
<1>4. ASSUME NEW u \in Callers, Quotes(u)
      PROVE  Commits(u, AppendOnly \ {"TokensBridged"})
  BY <1>4 DEF Quotes, Commits
<1> QED
  BY <1>1, <1>2, <1>3, <1>4 DEF Next, Proceed

LEMMA RoutesStep ==
  ASSUME IInv, HInv, RoutesOK, AsksForRoutes, overlaps = 0, [Next]_vars
  PROVE  RoutesOK'
<1>1. DeploymentBlock <= head' /\ \A p \in DOMAIN log' : DeploymentBlock <= log'[p].block
  <2>1. DeploymentBlock \in Nat /\ head \in Nat /\ Len(log) \in Nat /\ DOMAIN log = 1..Len(log)
    BY LogFacts, BlockAssumption DEF IInv
  <2>2. CASE Emit
    <3>1. /\ DOMAIN log' = 1..(Len(log) + 1)
          /\ \A p \in DOMAIN log : log'[p] = log[p]
          /\ log'[Len(log) + 1].block = head + 1 /\ head' = head
      BY <2>2, NewEvent DEF IInv, Emit
    <3> QED
      BY <2>1, <3>1 DEF RoutesOK
  <2>3. CASE log' = log /\ head' = head + 1
    BY <2>1, <2>3 DEF RoutesOK
  <2>4. CASE UNCHANGED chain
    BY <2>4 DEF RoutesOK, chain
  <2> QED
    BY <2>2, <2>3, <2>4, LogSteps
<1>2. head \in Nat /\ head' \in Nat /\ head <= head'
  <2>1. head \in Nat
    BY LogFacts DEF IInv
  <2> QED
    BY <2>1, LogSteps DEF Emit, chain
<1>3. ASSUME NEW v \in Callers, update'[v].stage \in {"query", "quotes"}
      PROVE  update'[v].fullHistory = ~isUpdated'
  BY <1>3, HistoryFlag
<1>4. CASE UNCHANGED <<depositRoutes, isUpdated, latestBlockSearched>>
  <2>1. isUpdated' => latestBlockSearched' \in Nat /\ latestBlockSearched' <= head'
    BY <1>2, <1>4 DEF RoutesOK, IInv, WindowOK
  <2>2. depositRoutes' \in [Routes -> RouteValues]
    BY <1>4 DEF RoutesOK
  <2>3. IF isUpdated'
           THEN \A r \in Routes : Open(depositRoutes'[r]) <=> OpenedBy(Changes(r, latestBlockSearched))'
           ELSE \A r \in Routes : depositRoutes'[r] = "absent"
    BY <1>4, SameRoutes
  <2> QED
    BY <1>1, <1>3, <2>1, <2>2, <2>3 DEF RoutesOK
<1>5. ASSUME NEW u \in Callers, NEW names \in {AppendOnly, AppendOnly \ {"TokensBridged"}},
             Commits(u, names)
      PROVE  RoutesOK'
  <2>1. /\ depositRoutes' \in [Routes -> RouteValues] /\ isUpdated'
        /\ latestBlockSearched' <= head'
        /\ \A r \in Routes : Open(depositRoutes'[r]) <=> OpenedBy(Changes(r, latestBlockSearched))'
    BY <1>5, CommittedRoutes
  <2> QED
    BY <1>1, <1>3, <2>1 DEF RoutesOK
<1>6. \/ UNCHANGED <<depositRoutes, isUpdated, latestBlockSearched>>
      \/ \E u \in Callers : \E names \in {AppendOnly, AppendOnly \ {"TokensBridged"}} : Commits(u, names)
  BY RouteWrites
<1> QED
  BY <1>4, <1>5, <1>6

LEMMA RoutesFollow ==
  ASSUME IInv, RoutesOK
  PROVE  RoutesCurrent
<1> SUFFICES ASSUME isUpdated, NEW r \in Routes
             PROVE  Open(depositRoutes[r]) <=> LastChange(r) # 0 /\ log[LastChange(r)].enabled
  BY DEF RoutesCurrent, Open
<1> DEFINE S == Changes(r, latestBlockSearched)
           last == LastChange(r)
           T == {0} \cup S
<1>1. Open(depositRoutes[r]) <=> OpenedBy(S)
  BY DEF RoutesOK
<1>2. last = Max(T)
  BY DEF LastChange, Changes, ChangesOf
<1>3. S \subseteq 1..Len(log) /\ Len(log) \in Nat
  <2>1. S \subseteq EventsOf("EnabledDepositRoute")
    BY DEF Changes, ChangesOf, Found
  <2> QED
    BY <2>1, LogFacts, EventsFinite DEF IInv
<1> HIDE DEF S, last
<1>4. T \in SUBSET Nat /\ T # {} /\ \A p \in T : p <= Len(log)
  BY <1>3
<1> HIDE DEF T
<1>5. last \in T /\ \A p \in T : p <= last
  BY <1>2, <1>3, <1>4, Extremes
<1>6. last \in Nat
  BY <1>4, <1>5
<1>7. CASE last = 0
  <2>1. S = {}
    BY <1>3, <1>5, <1>7 DEF T
  <2> QED
    BY <1>1, <1>7, <2>1 DEF OpenedBy, last
<1>8. CASE last # 0
  <2>1. last \in S /\ \A p \in S : p <= last
    BY <1>5, <1>8 DEF T
  <2>2. ASSUME NEW m \in S, \A p \in S : p <= m
        PROVE  m = last
    <3>1. last <= m /\ m <= last /\ m \in Nat
      BY <1>3, <2>1, <2>2
    <3> QED
      BY <1>6, <3>1
  <2>3. OpenedBy(S) <=> log[last].enabled
    BY <2>1, <2>2 DEF OpenedBy
  <2> QED
    BY <1>1, <1>8, <2>3 DEF last
<1> QED
  BY <1>7, <1>8

(* Every route is open exactly if the last of its changes on the chain, up *)
(* to the searched block, says so, however many updates failed; for        *)
(* updates that do not overlap, each of which asks for the routes.         *)
THEOREM RoutesFollowTheChain ==
  ASSUME Sequential, AsksForRoutes
  PROVE  Spec => []RoutesCurrent
<1>1. IInv /\ HInv /\ overlaps = 0 /\ RoutesOK /\ [Next]_vars => RoutesOK'
  BY RoutesStep
<1>2. IInv /\ RoutesOK => RoutesCurrent
  BY RoutesFollow
<1> QED
  BY <1>1, <1>2, InitRoutes, NeverOverlaps, HInvHolds, PTL DEF Spec

=============================================================================
