------------------------ MODULE ConfigStoreClientProofs ------------------------
(***************************************************************************)
(* What the ConfigStore client answers is what one reading of the          *)
(* ConfigStore's history answers, for every history, page size, set of     *)
(* callers and interleaving of their updates, failures and retries.        *)
(*                                                                         *)
(* The argument.  An answer that starts at block "from" is applied when    *)
(* the memory already holds every update of the blocks before "from", so   *)
(* the memory is at each moment what one reading of the log accepts up to  *)
(* some position: an update that is applied again is refused or changes    *)
(* nothing but the order of a list, and one that is new comes after all    *)
(* that were read.  Whether an update is accepted depends on the stored    *)
(* ones before it only; Fits says so without the order of the lists, and   *)
(* the memory is a fixed point of it (GlobalsOK).  From there every        *)
(* question "as of a block" is about the stored updates up to the block.   *)
(*                                                                         *)
(* The module has, in this order: the invariant, recursive functions,      *)
(* filter() and the page-wise query, lists that go on from one another,    *)
(* one update and all updates of an answer, the steps, and what follows    *)
(* from the invariant.                                                     *)
(***************************************************************************)
EXTENDS ConfigStoreClient, SequenceTheorems, WellFoundedInduction, TLAPS

ChainIdValues == Seq(Int) \cup {NotAList, LeadingZero}

EventRecords ==
  {[name |-> "UpdatedGlobalConfig", block |-> b, key |-> u[1], value |-> u[2]] :
     b \in 1..LastBlock, u \in UNION {{key} \X GlobalValues[key] : key \in DOMAIN GlobalValues}}
  \cup [name : {"UpdatedTokenConfig"}, block : 1..LastBlock, key : {"rateModel"},
        l1Token : L1Tokens, config : TokenConfigs]

(* The log: blocks in order, none after the one that is about to be mined. *)
LogOK ==
  /\ head \in 0..LastBlock
  /\ log \in Seq(EventRecords)
  /\ \A p \in DOMAIN log : log[p].block <= head + 1
  /\ \A p, q \in DOMAIN log : p <= q => log[p].block <= log[q].block

(* A block whose updates the client has, or will not ask for again.        *)
Known(b) ==
  \/ b < firstBlockToSearch
  \/ isUpdated /\ b <= latestBlockSearched
  \/ \E u \in Callers : update[u].stage \in {"blockNumber", "query"} /\ b < update[u].from

UpdateRecords ==
  {NoUpdate} \cup [stage : {"chainId"}]
  \cup [stage : {"blockNumber"}, from : 0..(LastBlock + 1)]
  \cup [stage : {"query"}, from : 0..LastBlock, to : 0..LastBlock]

WindowOK ==
  /\ firstBlockToSearch \in 0..(head + 1) /\ latestBlockSearched \in 0..head
  /\ isUpdated \in BOOLEAN
  /\ chainId \in {None, ConfigStoreChain} /\ (isUpdated => chainId = ConfigStoreChain)
  /\ update \in [Callers -> UpdateRecords]
  /\ \A u \in Callers :
       /\ update[u].stage \in {"blockNumber", "query"} => update[u].from <= head + 1
       /\ update[u].stage = "query" => update[u].from <= update[u].to /\ update[u].to <= head

(* An update of a key that one reading of the history accepts, when it     *)
(* accepts those of the set "accepted" before it.                          *)
Valid(key, p) ==
  /\ p \in EventsOf("UpdatedGlobalConfig") /\ log[p].key = key
  /\ key = "VERSION" => log[p].value # NotANumber /\ log[p].value > DefaultVersion
  /\ key \in {"CHAIN_ID_INDICES", "LITE_CHAIN_ID_INDICES"} =>
       log[p].value \notin {NotAList, LeadingZero} /\ ValidList(log[p].value)
  /\ key = "CHAIN_ID_INDICES" => IsPrefix(ImplicitChainIds(ConfigStoreChain), log[p].value)
  /\ key = "DISABLED_CHAINS" => log[p].value \notin {NotAList, LeadingZero}
  /\ key \in {"MAX_RELAYER_REPAYMENT_LEAF_SIZE", "MAX_POOL_REBALANCE_LEAF_SIZE"} =>
       log[p].value # NotANumber
GoesBefore(key, q, p) ==
  /\ key = "CHAIN_ID_INDICES" => IsPrefix(log[q].value, log[p].value)
  /\ key = "VERSION" => log[q].value < log[p].value
Fits(key, p, accepted) ==
  Valid(key, p) /\ \A q \in accepted : q < p => GoesBefore(key, q, p)

(* The memory is that of one reading of the log up to the position m.      *)
GlobalsOK(lists, m) ==
  \A key \in GlobalKeys : ToSet(lists[key]) = {p \in 1..m : Fits(key, p, ToSet(lists[key]))}

(* The last list of chains goes on from all of them, and versions are      *)
(* listed from the last to the first.                                      *)
OrderOK(lists) ==
  /\ \A q \in ToSet(lists["CHAIN_ID_INDICES"]) :
       IsPrefix(log[q].value, log[Last(lists["CHAIN_ID_INDICES"])].value)
  /\ \A i, j \in 1..Len(lists["VERSION"]) : i < j =>
       /\ lists["VERSION"][j] < lists["VERSION"][i]
       /\ log[lists["VERSION"][j]].value < log[lists["VERSION"][i]].value

TokenFits(list, p) ==
  /\ p \in EventsOf("UpdatedTokenConfig")
  /\ log[p].config # NotJson /\ log[p].config.rateModel # None
  /\ list # "rateModel" => log[p].config.targets # BadTargets
TokensOK(lists, m) ==
  \A list \in TokenLists : ToSet(lists[list]) = {p \in 1..m : TokenFits(list, p)}

Reached(name, m) == \A p \in EventsOf(name) : Known(BlockAt(p)) => p <= m

MemoryOK ==
  /\ updates \in [GlobalKeys \cup TokenLists -> Seq(Nat)]
  /\ OrderOK(updates)
  /\ \E m \in 0..Len(log) : GlobalsOK(updates, m) /\ Reached("UpdatedGlobalConfig", m)
  /\ \E m \in 0..Len(log) : TokensOK(updates, m) /\ Reached("UpdatedTokenConfig", m)

(* What an update that throws does not touch.                              *)
DerivedOK ==
  /\ rateModels \in Seq(Nat)
  /\ \E m \in 0..Len(log) :
       /\ ToSet(rateModels) = {p \in 1..m : TokenFits("rateModel", p)}
       /\ isUpdated => \A p \in EventsOf("UpdatedTokenConfig") :
                         BlockAt(p) <= latestBlockSearched => p <= m
  /\ isUpdated /\ hasLatestConfigStoreVersion =>
       \A p \in Sets("VERSION", latestBlockSearched) :
         log[p].value # NotANumber => log[p].value <= ConfigStoreVersion

IInv == LogOK /\ WindowOK /\ MemoryOK /\ DerivedOK

-----------------------------------------------------------------------------
(* Numbers, and functions defined by recursion.                            *)

LEMMA LeastNumber ==
  \A T \in SUBSET Nat : T # {} => \E m \in T : \A k \in T : m <= k
<1> DEFINE R == {ss \in Nat \X Nat : ss[1] < ss[2]}
<1> SUFFICES ASSUME NEW T \in SUBSET Nat, T # {} PROVE \E m \in T : \A k \in T : m <= k
  OBVIOUS
<1>1. IsWellFoundedOn(R, Nat)
  BY NatLessThanWellFounded, Zenon DEF OpToRel
<1>2. \A x, y \in Nat : y < x => <<y, x>> \in R
  OBVIOUS
<1> HIDE DEF R
<1>3. PICK m \in T : \A k \in T : <<k, m>> \notin R
  BY <1>1, WFMin, Zenon
<1>4. \A k \in T : k \in Nat /\ m \in Nat /\ ~(k < m)
  BY <1>2, <1>3
<1> QED
  BY <1>4

(* Induction up to n, for a set of numbers.                                *)
LEMMA UpTo ==
  ASSUME NEW n \in Nat, NEW T, 0 \in T, \A i \in 1..n : i - 1 \in T => i \in T
  PROVE  \A i \in 0..n : i \in T
<1> DEFINE U == {i \in 0..n : i \notin T}
<1>1. SUFFICES ASSUME U # {} PROVE FALSE
  OBVIOUS
<1>2. PICK m \in U : \A k \in U : m <= k
  <2>1. U \in SUBSET Nat
    OBVIOUS
  <2> HIDE DEF U
  <2> QED
    BY <1>1, <2>1, LeastNumber
<1>3. m # 0 /\ m - 1 \in 0..n /\ m - 1 \notin U
  BY <1>2
<1> QED
  BY <1>2, <1>3

(* There is a function that a recursion over 0..n defines.                 *)
Recurses(F, n, base, step) == F[0] = base /\ \A i \in 1..n : F[i] = step[i][F[i - 1]]

LEMMA Iterates ==
  ASSUME NEW n \in Nat, NEW S, NEW base \in S, NEW step \in [1..n -> [S -> S]]
  PROVE  \E F \in [0..n -> S] : Recurses(F, n, base, step)
<1> USE DEF Recurses
<1> DEFINE Upto(F, k) == F[0] = base /\ \A i \in 1..k : F[i] = step[i][F[i - 1]]
           T == {k \in 0..n : \E F \in [0..k -> S] : Upto(F, k)}
<1>1. 0 \in T
  <2> DEFINE G == [j \in 0..0 |-> base]
  <2>1. G \in [0..0 -> S] /\ Upto(G, 0) /\ 0 \in 0..n
    OBVIOUS
  <2> HIDE DEF G
  <2> QED
    BY <2>1
<1>2. ASSUME NEW k \in 1..n, k - 1 \in T PROVE k \in T
  <2>1. PICK F \in [0..(k - 1) -> S] : Upto(F, k - 1)
    BY <1>2
  <2> DEFINE G == [j \in 0..k |-> IF j = k THEN step[k][F[k - 1]] ELSE F[j]]
  <2>2. F[k - 1] \in S /\ step[k] \in [S -> S]
    OBVIOUS
  <2>3. G \in [0..k -> S]
    BY <2>2
  <2>4. \A i \in 0..(k - 1) : G[i] = F[i]
    OBVIOUS
  <2>5. G[k] = step[k][G[k - 1]]
    BY <2>4
  <2> HIDE DEF G
  <2>6. ASSUME NEW i \in 1..k PROVE G[i] = step[i][G[i - 1]]
    <3>1. CASE i = k
      BY <2>5, <3>1
    <3>2. CASE i # k
      <4>1. i \in 1..(k - 1) /\ i - 1 \in 0..(k - 1) /\ i \in 0..(k - 1)
        BY <3>2
      <4> QED
        BY <2>1, <2>4, <4>1
    <3> QED
      BY <3>1, <3>2
  <2>7. G[0] = base
    BY <2>1, <2>4
  <2>8. Upto(G, k) /\ k \in 0..n
    BY <2>6, <2>7
  <2> HIDE DEF Upto
  <2> QED
    BY <2>3, <2>8
<1> HIDE DEF T
<1>3. \A i \in 0..n : i \in T
  BY <1>1, <1>2, UpTo
<1>4. n \in T
  BY <1>3
<1> QED
  BY <1>4 DEF T

-----------------------------------------------------------------------------
(* Lists.                                                                  *)

Increasing(s) == \A i, j \in 1..Len(s) : i < j => s[i] < s[j]

LEMMA Appended ==
  ASSUME NEW R, NEW s \in Seq(R), NEW x \in R
  PROVE  /\ Append(s, x) \in Seq(R) /\ Len(Append(s, x)) = Len(s) + 1
         /\ \A i \in 1..Len(s) : Append(s, x)[i] = s[i]
         /\ Append(s, x)[Len(s) + 1] = x
         /\ ToSet(Append(s, x)) = ToSet(s) \cup {x}
  BY DEF ToSet

(* What filter() computes, item by item.                                   *)
Filters(kept, list, items) ==
  /\ kept[0] = <<>>
  /\ \A i \in 1..Len(list) :
       kept[i] = IF list[i] \in items THEN Append(kept[i - 1], list[i]) ELSE kept[i - 1]
  /\ Filter(list, items) = kept[Len(list)]

LEMMA FilterSteps ==
  ASSUME NEW R, NEW list \in Seq(R), NEW items
  PROVE  \E kept \in [0..Len(list) -> Seq(R)] : Filters(kept, list, items)
<1> DEFINE n == Len(list)
           step == [i \in 1..n |-> [s \in Seq(R) |->
                      IF list[i] \in items THEN Append(s, list[i]) ELSE s]]
           Rec(F) == [i \in 0..n |-> IF i = 0 THEN <<>>
                        ELSE IF list[i] \in items THEN Append(F[i - 1], list[i]) ELSE F[i - 1]]
           kept == CHOOSE F : F = Rec(F)
<1>1. n \in Nat /\ <<>> \in Seq(R) /\ \A i \in 1..n : list[i] \in R
  OBVIOUS
<1>2. step \in [1..n -> [Seq(R) -> Seq(R)]]
  BY <1>1
<1>3. PICK F \in [0..n -> Seq(R)] : F[0] = <<>> /\ \A i \in 1..n : F[i] = step[i][F[i - 1]]
  <2> HIDE DEF n, step
  <2>1. \E F \in [0..n -> Seq(R)] : Recurses(F, n, <<>>, step)
    BY <1>1, <1>2, Iterates
  <2> QED
    BY <2>1 DEF Recurses
<1>4. F = Rec(F)
  <2>1. ASSUME NEW i \in 0..n PROVE F[i] = Rec(F)[i]
    <3>1. CASE i = 0
      BY <1>3, <3>1
    <3>2. CASE i # 0
      <4>1. i \in 1..n /\ i - 1 \in 0..n /\ F[i - 1] \in Seq(R)
        BY <1>1, <1>3, <3>2
      <4> QED
        BY <1>3, <3>2, <4>1
    <3> QED
      BY <3>1, <3>2
  <2>2. DOMAIN F = DOMAIN Rec(F)
    BY <1>3
  <2> QED
    BY <1>3, <2>1, <2>2
<1>5. kept = Rec(kept)
  BY <1>4
<1>6. Filter(list, items) = kept[n]
  BY DEF Filter
<1> HIDE DEF kept
<1>7. /\ DOMAIN kept = 0..n /\ kept[0] = <<>>
      /\ \A i \in 1..n : kept[i] =
           IF list[i] \in items THEN Append(kept[i - 1], list[i]) ELSE kept[i - 1]
  <2>1. \A i \in 0..n : kept[i] = Rec(kept)[i]
    BY <1>5
  <2>2. 0 \in 0..n /\ \A i \in 1..n : i \in 0..n /\ i # 0
    BY <1>1
  <2>3. DOMAIN kept = DOMAIN Rec(kept)
    BY <1>5
  <2>4. kept[0] = <<>>
    BY <2>1, <2>2
  <2>5. \A i \in 1..n : kept[i] =
           IF list[i] \in items THEN Append(kept[i - 1], list[i]) ELSE kept[i - 1]
    BY <2>1, <2>2
  <2> QED
    BY <2>3, <2>4, <2>5
<1>8. \A i \in 0..n : i \in {j \in 0..n : kept[j] \in Seq(R)}
  <2> DEFINE T == {j \in 0..n : kept[j] \in Seq(R)}
  <2>0. kept[0] = <<>> /\ 0 \in 0..n
    BY <1>1, <1>7
  <2>1. 0 \in T
    BY <1>1, <2>0
  <2>2. ASSUME NEW i \in 1..n, i - 1 \in T PROVE i \in T
    <3>1. i \in 0..n /\ list[i] \in R /\ kept[i - 1] \in Seq(R)
      BY <1>1, <2>2
    <3>2. kept[i] = IF list[i] \in items THEN Append(kept[i - 1], list[i]) ELSE kept[i - 1]
      BY <1>7
    <3>3. kept[i] \in Seq(R)
      BY <3>1, <3>2
    <3> QED
      BY <3>1, <3>3
  <2> HIDE DEF T
  <2> QED
    BY <1>1, <2>1, <2>2, UpTo DEF T
<1>9. kept \in [0..n -> Seq(R)]
  BY <1>5, <1>7, <1>8
<1> QED
  BY <1>6, <1>7, <1>9 DEF Filters

LEMMA FilterIs ==
  ASSUME NEW R, NEW list \in Seq(R), NEW items
  PROVE  /\ Filter(list, items) \in Seq(R)
         /\ ToSet(Filter(list, items)) = ToSet(list) \cap items
<1> DEFINE n == Len(list)
<1>0. PICK kept \in [0..n -> Seq(R)] : Filters(kept, list, items)
  BY FilterSteps
<1>1. /\ kept[0] = <<>>
      /\ \A i \in 1..n :
           kept[i] = IF list[i] \in items THEN Append(kept[i - 1], list[i]) ELSE kept[i - 1]
      /\ Filter(list, items) = kept[n]
  BY <1>0 DEF Filters
<1>2. n \in Nat /\ DOMAIN list = 1..n /\ \A i \in 1..n : list[i] \in R
  OBVIOUS
<1> HIDE DEF n
<1> DEFINE First(i) == {list[j] : j \in 1..i}
           T == {i \in 0..n : ToSet(kept[i]) = First(i) \cap items}
<1>3. 0 \in T
  <2>1. ToSet(<<>>) = {} /\ First(0) = {} /\ 0 \in 0..n
    BY <1>2 DEF ToSet
  <2> QED
    BY <1>1, <2>1
<1>4. ASSUME NEW i \in 1..n, i - 1 \in T PROVE i \in T
  <2>1. i \in 0..n /\ i - 1 \in 0..n /\ kept[i - 1] \in Seq(R) /\ list[i] \in R
    BY <1>1, <1>2
  <2>2. ToSet(kept[i - 1]) = First(i - 1) \cap items
    BY <1>4
  <2>3. First(i) = First(i - 1) \cup {list[i]}
    <3>1. 1..i = (1..(i - 1)) \cup {i}
      BY <1>2
    <3> QED
      BY <3>1
  <2> HIDE DEF First
  <2>4. CASE list[i] \in items
    <3>1. kept[i] = Append(kept[i - 1], list[i])
      BY <1>1, <2>4
    <3>2. ToSet(kept[i]) = ToSet(kept[i - 1]) \cup {list[i]}
      BY <2>1, <3>1, Appended
    <3> QED
      BY <2>1, <2>2, <2>3, <2>4, <3>2
  <2>5. CASE list[i] \notin items
    <3>1. kept[i] = kept[i - 1]
      BY <1>1, <2>5
    <3> QED
      BY <2>1, <2>2, <2>3, <2>5, <3>1
  <2> QED
    BY <2>4, <2>5
<1> HIDE DEF T
<1>5. n \in T
  <2>1. \A i \in 0..n : i \in T
    BY <1>2, <1>3, <1>4, UpTo
  <2> QED
    BY <1>2, <2>1
<1>6. ToSet(list) = First(n)
  BY <1>2 DEF ToSet
<1>7. kept[n] \in Seq(R)
  BY <1>1, <1>2
<1> HIDE DEF First
<1> QED
  BY <1>1, <1>5, <1>6, <1>7 DEF T

LEMMA AppendIncreasing ==
  ASSUME NEW s \in Seq(Nat), Increasing(s), NEW x \in Nat, \A y \in ToSet(s) : y < x
  PROVE  Increasing(Append(s, x))
<1>1. /\ Len(Append(s, x)) = Len(s) + 1
      /\ \A i \in 1..Len(s) : Append(s, x)[i] = s[i]
      /\ Append(s, x)[Len(s) + 1] = x
  BY Appended
<1>2. \A i \in 1..Len(s) : s[i] \in Nat /\ s[i] < x
  BY DEF ToSet
<1> DEFINE t == Append(s, x)
<1> HIDE DEF t
<1>3. ASSUME NEW i \in 1..Len(t), NEW j \in 1..Len(t), i < j PROVE t[i] < t[j]
  <2>1. i \in 1..Len(s) /\ (j \in 1..Len(s) \/ j = Len(s) + 1)
    BY <1>1, <1>3 DEF t
  <2>2. CASE j \in 1..Len(s)
    BY <1>1, <1>3, <2>1, <2>2 DEF t, Increasing
  <2>3. CASE j = Len(s) + 1
    BY <1>1, <1>2, <2>1, <2>3 DEF t
  <2> QED
    BY <2>1, <2>2, <2>3
<1> QED
  BY <1>3 DEF t, Increasing

LEMMA FilterIncreasing ==
  ASSUME NEW list \in Seq(Nat), Increasing(list), NEW items
  PROVE  Increasing(Filter(list, items))
<1> DEFINE n == Len(list)
<1>0. PICK kept \in [0..n -> Seq(Nat)] : Filters(kept, list, items)
  BY FilterSteps
<1>1. /\ kept[0] = <<>>
      /\ \A i \in 1..n :
           kept[i] = IF list[i] \in items THEN Append(kept[i - 1], list[i]) ELSE kept[i - 1]
      /\ Filter(list, items) = kept[n]
  BY <1>0 DEF Filters
<1>2. n \in Nat /\ DOMAIN list = 1..n /\ \A i \in 1..n : list[i] \in Nat
  OBVIOUS
<1>3. \A i, j \in 1..n : i < j => list[i] < list[j]
  BY DEF Increasing
<1> HIDE DEF n
<1> DEFINE T == {i \in 0..n : /\ Increasing(kept[i])
                              /\ ToSet(kept[i]) \subseteq {list[j] : j \in 1..i}}
<1>4. 0 \in T
  <2>1. ToSet(<<>>) = {} /\ Increasing(<<>>)
    BY DEF ToSet, Increasing
  <2>2. 0 \in 0..n
    BY <1>2
  <2>3. kept[0] = <<>>
    BY <1>1
  <2> QED
    BY <2>1, <2>2, <2>3
<1>5. ASSUME NEW i \in 1..n, i - 1 \in T PROVE i \in T
  <2>1. i \in 0..n /\ i - 1 \in 0..n /\ kept[i - 1] \in Seq(Nat) /\ list[i] \in Nat
    <3>1. i \in 0..n /\ i - 1 \in 0..n
      BY <1>2
    <3> HIDE DEF T
    <3> QED
      BY <1>0, <1>2, <3>1
  <2>2. Increasing(kept[i - 1]) /\ \A y \in ToSet(kept[i - 1]) : \E j \in 1..(i - 1) : y = list[j]
    BY <1>5
  <2>3. \A j \in 1..(i - 1) : j \in 1..i /\ list[j] < list[i]
    BY <1>2, <1>3
  <2>4. i \in 1..i
    BY <1>2
  <2>5. CASE list[i] \in items
    <3>1. kept[i] = Append(kept[i - 1], list[i])
      BY <1>1, <2>5
    <3>2. ToSet(kept[i]) = ToSet(kept[i - 1]) \cup {list[i]}
      BY <2>1, <3>1, Appended
    <3>3. Increasing(kept[i])
      BY <2>1, <2>2, <2>3, <3>1, AppendIncreasing
    <3> QED
      BY <2>1, <2>2, <2>3, <2>4, <3>2, <3>3
  <2>6. CASE list[i] \notin items
    <3>1. kept[i] = kept[i - 1]
      BY <1>1, <2>6
    <3> QED
      BY <2>1, <2>2, <2>3, <3>1
  <2> QED
    BY <2>5, <2>6
<1> HIDE DEF T
<1>6. n \in T
  <2>1. \A i \in 0..n : i \in T
    BY <1>2, <1>4, <1>5, UpTo
  <2> QED
    BY <1>2, <2>1
<1> QED
  BY <1>1, <1>6 DEF T

-----------------------------------------------------------------------------
(* An event query: every event of its range once and in order, although    *)
(* the pages it is read by cut the range and reach back before it.         *)

(* A log of events in the order of their blocks.                           *)
IsLog(events) ==
  /\ DOMAIN events = 1..Len(events) /\ Len(events) \in Nat
  /\ \A p \in DOMAIN events : events[p].block \in Nat
  /\ \A p, q \in DOMAIN events : p <= q => events[p].block <= events[q].block

Between(events, ps, a, b) == {p \in ps : a <= events[p].block /\ events[p].block <= b}

LEMMA ListedIs ==
  ASSUME NEW events, IsLog(events), NEW ps \in SUBSET DOMAIN events, NEW a \in Int, NEW b \in Int
  PROVE  /\ Listed(events, ps, a, b) \in Seq(Nat)
         /\ ToSet(Listed(events, ps, a, b)) = Between(events, ps, a, b)
         /\ Increasing(Listed(events, ps, a, b))
<1> DEFINE all == [p \in DOMAIN events |-> p]
           items == {p \in ps : events[p].block \in a..b}
<1>1. all \in Seq(Nat) /\ Len(all) = Len(events)
  BY DEF IsLog
<1>2. Increasing(all)
  BY <1>1 DEF Increasing, IsLog
<1>3. ToSet(all) = DOMAIN events
  BY <1>1 DEF ToSet
<1>4. \A p \in ps : events[p].block \in Nat
  BY DEF IsLog
<1>5. items = Between(events, ps, a, b) /\ items \subseteq DOMAIN events
  BY <1>4 DEF Between
<1>6. Listed(events, ps, a, b) = Filter(all, items)
  BY DEF Listed
<1> HIDE DEF all, items
<1>7. ToSet(Filter(all, items)) = items
  <2>1. ToSet(Filter(all, items)) = ToSet(all) \cap items
    BY <1>1, FilterIs
  <2> QED
    BY <1>3, <1>5, <2>1
<1>8. Filter(all, items) \in Seq(Nat) /\ Increasing(Filter(all, items))
  BY <1>1, <1>2, FilterIs, FilterIncreasing
<1> QED
  BY <1>5, <1>6, <1>7, <1>8

LEMMA Concatenated ==
  ASSUME NEW s \in Seq(Nat), NEW t \in Seq(Nat)
  PROVE  /\ s \o t \in Seq(Nat) /\ ToSet(s \o t) = ToSet(s) \cup ToSet(t)
         /\ (/\ Increasing(s) /\ Increasing(t)
             /\ \A x \in ToSet(s), y \in ToSet(t) : x < y) => Increasing(s \o t)
<1>1. /\ s \o t \in Seq(Nat) /\ Len(s \o t) = Len(s) + Len(t)
      /\ \A i \in 1..Len(s) : (s \o t)[i] = s[i]
      /\ \A i \in 1..Len(t) : (s \o t)[Len(s) + i] = t[i]
      /\ Len(s) \in Nat /\ Len(t) \in Nat /\ DOMAIN (s \o t) = 1..Len(s \o t)
  OBVIOUS
<1> DEFINE w == s \o t
<1>2. \A i \in 1..Len(w) : \/ i \in 1..Len(s) /\ w[i] = s[i]
                           \/ i - Len(s) \in 1..Len(t) /\ w[i] = t[i - Len(s)]
  <2>1. ASSUME NEW i \in 1..Len(w), i \notin 1..Len(s)
        PROVE  i - Len(s) \in 1..Len(t) /\ w[i] = t[i - Len(s)]
    <3>1. i - Len(s) \in 1..Len(t) /\ Len(s) + (i - Len(s)) = i
      BY <1>1, <2>1
    <3> QED
      BY <1>1, <3>1
  <2> QED
    BY <1>1, <2>1
<1>3. ToSet(w) = ToSet(s) \cup ToSet(t)
  <2>1. ASSUME NEW x \in ToSet(w) PROVE x \in ToSet(s) \cup ToSet(t)
    <3>1. PICK i \in 1..Len(w) : x = w[i]
      BY <1>1 DEF ToSet
    <3> QED
      BY <1>2, <3>1 DEF ToSet
  <2>2. ASSUME NEW x \in ToSet(s) PROVE x \in ToSet(w)
    <3>1. PICK i \in 1..Len(s) : x = s[i]
      BY DEF ToSet
    <3>2. i \in 1..Len(w) /\ w[i] = x
      BY <1>1, <3>1
    <3> QED
      BY <1>1, <3>2 DEF ToSet
  <2>3. ASSUME NEW x \in ToSet(t) PROVE x \in ToSet(w)
    <3>1. PICK i \in 1..Len(t) : x = t[i]
      BY DEF ToSet
    <3>2. Len(s) + i \in 1..Len(w) /\ w[Len(s) + i] = x
      BY <1>1, <3>1
    <3> QED
      BY <1>1, <3>2 DEF ToSet
  <2> QED
    BY <2>1, <2>2, <2>3
<1>4. ASSUME Increasing(s), Increasing(t), \A x \in ToSet(s), y \in ToSet(t) : x < y
      PROVE  Increasing(w)
  <2> SUFFICES ASSUME NEW i \in 1..Len(w), NEW j \in 1..Len(w), i < j PROVE w[i] < w[j]
    BY DEF Increasing
  <2> HIDE DEF w
  <2>1. CASE i \in 1..Len(s) /\ w[i] = s[i] /\ j \in 1..Len(s) /\ w[j] = s[j]
    BY <1>4, <2>1 DEF Increasing
  <2>2. CASE i \in 1..Len(s) /\ w[i] = s[i] /\ j - Len(s) \in 1..Len(t) /\ w[j] = t[j - Len(s)]
    <3>1. w[i] \in ToSet(s)
      BY <2>2 DEF ToSet
    <3>2. w[j] \in ToSet(t)
      BY <2>2 DEF ToSet
    <3> QED
      BY <1>4, <3>1, <3>2
  <2>3. CASE i - Len(s) \in 1..Len(t) /\ j - Len(s) \in 1..Len(t)
             /\ w[i] = t[i - Len(s)] /\ w[j] = t[j - Len(s)]
    <3>1. i - Len(s) < j - Len(s)
      BY <1>1
    <3> QED
      BY <1>4, <2>3, <3>1 DEF Increasing
  <2>4. ~(i - Len(s) \in 1..Len(t) /\ j \in 1..Len(s))
    BY <1>1
  <2> QED
    BY <1>2, <2>1, <2>2, <2>3, <2>4
<1> QED
  BY <1>1, <1>3, <1>4

(* flat() of lists that follow one another.                                *)
FollowEachOther(seqs) ==
  /\ \A i \in 1..Len(seqs) : Increasing(seqs[i])
  /\ \A i, j \in 1..Len(seqs) : i < j => \A x \in ToSet(seqs[i]), y \in ToSet(seqs[j]) : x < y

LEMMA FlattenSteps ==
  ASSUME NEW seqs \in Seq(Seq(Nat)), Len(seqs) # 0
  PROVE  \E flat : /\ FlattenSeq(seqs) = flat[Len(seqs)]
                   /\ flat[1] = seqs[1]
                   /\ \A i \in 2..Len(seqs) : flat[i] = flat[i - 1] \o seqs[i]
<1> DEFINE n == Len(seqs)
           step == [i \in 1..n |-> [s \in Seq(Nat) |-> s \o seqs[i]]]
           Rec(F) == [i \in 1..n |-> IF i = 1 THEN seqs[i] ELSE F[i - 1] \o seqs[i]]
           flat == CHOOSE F : F = Rec(F)
<1>1. n \in Nat \ {0} /\ <<>> \in Seq(Nat) /\ \A i \in 1..n : seqs[i] \in Seq(Nat)
  OBVIOUS
<1>2. step \in [1..n -> [Seq(Nat) -> Seq(Nat)]]
  BY <1>1
<1>3. PICK F \in [0..n -> Seq(Nat)] : F[0] = <<>> /\ \A i \in 1..n : F[i] = step[i][F[i - 1]]
  <2> HIDE DEF n, step
  <2>1. \E F \in [0..n -> Seq(Nat)] : Recurses(F, n, <<>>, step)
    BY <1>1, <1>2, Iterates
  <2> QED
    BY <2>1 DEF Recurses
<1> DEFINE G == [i \in 1..n |-> F[i]]
<1>4. ASSUME NEW i \in 1..n PROVE G[i] = IF i = 1 THEN seqs[i] ELSE G[i - 1] \o seqs[i]
  <2>0. i - 1 \in 0..n /\ G[i] = F[i]
    BY <1>1
  <2>1. i - 1 \in 0..n /\ F[i - 1] \in Seq(Nat) /\ G[i] = F[i]
    BY <1>3, <2>0
  <2>2. F[i] = F[i - 1] \o seqs[i]
    BY <1>3, <2>1
  <2>3. CASE i = 1
    <3>1. <<>> \o seqs[i] = seqs[i]
      BY <1>1
    <3>2. F[i - 1] = <<>>
      BY <1>3, <2>3
    <3>3. G[i] = seqs[i]
      BY <2>1, <2>2, <3>1, <3>2
    <3> HIDE DEF G
    <3> QED
      BY <2>3, <3>3
  <2>4. CASE i # 1
    <3>1. i - 1 \in 1..n
      BY <1>1, <2>4
    <3>2. G[i - 1] = F[i - 1]
      BY <3>1
    <3> QED
      BY <2>1, <2>2, <2>4, <3>2
  <2> QED
    BY <2>3, <2>4
<1>5. G = Rec(G)
  <2>1. DOMAIN G = 1..n /\ G = [i \in 1..n |-> G[i]]
    OBVIOUS
  <2> HIDE DEF G
  <2> QED
    BY <1>4, <2>1
<1>6. flat = Rec(flat)
  BY <1>5
<1>7. FlattenSeq(seqs) = flat[n]
  BY <1>1 DEF FlattenSeq
<1> HIDE DEF flat
<1>8. \A i \in 1..n : flat[i] = IF i = 1 THEN seqs[i] ELSE flat[i - 1] \o seqs[i]
  BY <1>6
<1>9. flat[1] = seqs[1]
  BY <1>1, <1>8
<1>10. \A i \in 2..n : flat[i] = flat[i - 1] \o seqs[i]
  <2>1. \A i \in 2..n : i \in 1..n /\ i # 1
    BY <1>1
  <2> QED
    BY <1>8, <2>1
<1> QED
  BY <1>7, <1>9, <1>10

LEMMA FlattenIs ==
  ASSUME NEW seqs \in Seq(Seq(Nat)), Len(seqs) # 0, FollowEachOther(seqs)
  PROVE  /\ FlattenSeq(seqs) \in Seq(Nat) /\ Increasing(FlattenSeq(seqs))
         /\ \A x : x \in ToSet(FlattenSeq(seqs)) <=> \E i \in 1..Len(seqs) : x \in ToSet(seqs[i])
<1> DEFINE n == Len(seqs)
<1>1. PICK flat : /\ FlattenSeq(seqs) = flat[n]
                  /\ flat[1] = seqs[1]
                  /\ \A i \in 2..n : flat[i] = flat[i - 1] \o seqs[i]
  BY FlattenSteps
<1>2. n \in Nat \ {0} /\ \A i \in 1..n : seqs[i] \in Seq(Nat) /\ Increasing(seqs[i])
  BY DEF FollowEachOther
<1>3. \A i, j \in 1..n : i < j => \A x \in ToSet(seqs[i]), y \in ToSet(seqs[j]) : x < y
  BY DEF FollowEachOther
<1> HIDE DEF n
<1> DEFINE Good(i) == /\ flat[i] \in Seq(Nat) /\ Increasing(flat[i])
                      /\ \A x : x \in ToSet(flat[i]) <=> \E j \in 1..i : x \in ToSet(seqs[j])
           T == {0} \cup {i \in 1..n : Good(i)}
<1>4. ASSUME NEW i \in 1..n, i - 1 \in T PROVE i \in T
  <2>1. CASE i = 1
    <3>1. \A x : x \in ToSet(flat[1]) <=> \E j \in 1..1 : x \in ToSet(seqs[j])
      <4>1. \A j : j \in 1..1 <=> j = 1
        OBVIOUS
      <4> QED
        BY <1>1, <4>1
    <3> QED
      BY <1>1, <1>2, <2>1, <3>1
  <2>2. CASE i # 1
    <3>1. i \in 2..n /\ i - 1 \in 1..n /\ i - 1 # 0
      BY <1>2, <2>2
    <3>2. Good(i - 1)
      BY <1>4, <3>1
    <3>3. flat[i] = flat[i - 1] \o seqs[i] /\ seqs[i] \in Seq(Nat) /\ Increasing(seqs[i])
      BY <1>1, <1>2, <3>1
    <3>4. \A x \in ToSet(flat[i - 1]), y \in ToSet(seqs[i]) : x < y
      <4>1. \A j \in 1..(i - 1) : j \in 1..n /\ j < i
        BY <1>2, <3>1
      <4> QED
        BY <1>3, <3>2, <4>1
    <3>5. /\ flat[i] \in Seq(Nat) /\ Increasing(flat[i])
          /\ ToSet(flat[i]) = ToSet(flat[i - 1]) \cup ToSet(seqs[i])
      BY <3>2, <3>3, <3>4, Concatenated
    <3>6. \A x : x \in ToSet(flat[i]) <=> \E j \in 1..i : x \in ToSet(seqs[j])
      <4>1. \A j : j \in 1..i <=> j \in 1..(i - 1) \/ j = i
        BY <3>1
      <4> QED
        BY <3>2, <3>5, <4>1
    <3> QED
      BY <3>5, <3>6
  <2> QED
    BY <2>1, <2>2
<1>5. \A i \in 0..n : i \in T
  <2>1. 0 \in T
    OBVIOUS
  <2> HIDE DEF T
  <2> QED
    BY <1>2, <1>4, <2>1, UpTo
<1>6. Good(n)
  <2>1. n \in 0..n /\ n # 0
    BY <1>2
  <2>2. n \in T
    BY <1>5, <2>1
  <2> HIDE DEF Good
  <2> QED
    BY <2>1, <2>2
<1> QED
  BY <1>1, <1>6 DEF n

(* The pages: the k-th one ends before the next begins, and one of them    *)
(* has any block of the range.                                             *)
LEMMA PagesCover ==
  ASSUME MaxBlockLookBack # 0, NEW from \in Nat, NEW to \in Nat, from <= to
  PROVE  /\ Iterations(from, to) \in Nat \ {0}
         /\ \A i \in 1..Iterations(from, to) :
              PageStart(from, i) \in Int /\ PageEnd(from, to, i) \in Int
         /\ \A i, j \in 1..Iterations(from, to) : i < j => PageEnd(from, to, i) < PageStart(from, j)
         /\ \A b \in from..to : \E i \in 1..Iterations(from, to) :
              PageStart(from, i) <= b /\ b <= PageEnd(from, to, i)
<1> DEFINE M == MaxBlockLookBack
           F == FlooredStart(from)
           n == Iterations(from, to)
<1>1. M \in Nat \ {0}
  BY LookBackAssumption
<1>2. \A x \in Nat : x \div M \in Nat /\ M * (x \div M) <= x /\ x < M * (x \div M) + M
  BY <1>1
<1>3. F \in Nat /\ F <= from /\ from < F + M
  BY <1>1, <1>2 DEF FlooredStart
<1>4. \A i, j \in Nat : i < j => M * i + M <= M * j
  <2> SUFFICES ASSUME NEW i \in Nat, NEW j \in Nat, i < j PROVE M * i + M <= M * j
    OBVIOUS
  <2>1. j = i + 1 + (j - i - 1) /\ j - i - 1 \in Nat
    OBVIOUS
  <2>2. \A k \in Nat : M * (i + 1 + k) = M * i + M + M * k /\ M * k >= 0
    BY <1>1
  <2> QED
    BY <1>1, <2>1, <2>2
<1>5. n = (to - F + M) \div M /\ to - F \in Nat
  BY <1>1, <1>3 DEF Iterations
<1>6. n \in Nat /\ M * n <= to - F + M /\ to - F + M < M * n + M
  BY <1>1, <1>2, <1>5
<1> HIDE DEF M, F, n
<1>7. \A i \in 1..n : PageStart(from, i) = F + M * (i - 1) /\ F + M * (i - 1) \in Nat
  BY <1>1, <1>3, <1>6 DEF PageStart, F, M
<1>8. \A i \in 1..n : /\ PageEnd(from, to, i) \in Int
                      /\ PageEnd(from, to, i) <= F + M * (i - 1) + M - 1
                      /\ PageEnd(from, to, i) = to \/ PageEnd(from, to, i) = F + M * (i - 1) + M - 1
  <2> SUFFICES ASSUME NEW i \in 1..n
               PROVE  /\ PageEnd(from, to, i) \in Int
                      /\ PageEnd(from, to, i) <= F + M * (i - 1) + M - 1
                      /\ \/ PageEnd(from, to, i) = to
                         \/ PageEnd(from, to, i) = F + M * (i - 1) + M - 1
    OBVIOUS
  <2> DEFINE e == F + M * (i - 1) + M - 1
  <2>1. e \in Int /\ PageStart(from, i) + M - 1 = e
    BY <1>1, <1>7
  <2>2. PageEnd(from, to, i) = Min({e, to})
    BY <2>1 DEF PageEnd, M
  <2> HIDE DEF e
  <2>3. Min({e, to}) = IF e <= to THEN e ELSE to
    BY <2>1 DEF Min
  <2> QED
    BY <2>1, <2>2, <2>3 DEF e
<1>9. ASSUME NEW b \in from..to
      PROVE  \E i \in 1..n : PageStart(from, i) <= b /\ b <= PageEnd(from, to, i)
  <2> DEFINE d == (b - F) \div M
  <2>1. b - F \in Nat /\ b \in Nat
    BY <1>3
  <2>2. d \in Nat /\ M * d <= b - F /\ b - F < M * d + M
    BY <1>2, <2>1 DEF M
  <2> HIDE DEF d
  <2>3. d < n
    <3>1. ~(n < d) /\ ~(n = d)
      BY <1>1, <1>3, <1>4, <1>6, <2>1, <2>2
    <3> QED
      BY <1>6, <2>2, <3>1
  <2>4. d + 1 \in 1..n /\ (d + 1) - 1 = d
    BY <1>6, <2>2, <2>3
  <2>5. PageStart(from, d + 1) <= b
    <3>1. PageStart(from, d + 1) = F + M * d /\ M * d \in Nat
      BY <1>1, <1>7, <2>2, <2>4
    <3> QED
      BY <1>3, <2>1, <2>2, <3>1
  <2>6. b <= PageEnd(from, to, d + 1)
    <3>1. \/ PageEnd(from, to, d + 1) = to
          \/ PageEnd(from, to, d + 1) = F + M * d + M - 1
      BY <1>8, <2>4
    <3>2. M * d \in Nat
      BY <1>1, <2>2
    <3> QED
      BY <1>1, <1>3, <2>1, <2>2, <3>1, <3>2
  <2> QED
    BY <2>4, <2>5, <2>6
<1>10. ASSUME NEW i \in 1..n, NEW j \in 1..n, i < j
       PROVE  PageEnd(from, to, i) < PageStart(from, j)
  <2>1. i - 1 \in Nat /\ j - 1 \in Nat /\ i - 1 < j - 1
    BY <1>6, <1>10
  <2>2. M * (i - 1) + M <= M * (j - 1) /\ M * (i - 1) \in Nat /\ M * (j - 1) \in Nat
    BY <1>1, <1>4, <2>1
  <2> QED
    BY <1>1, <1>3, <1>7, <1>8, <2>2
<1>11. n # 0
  <2>1. from \in from..to
    OBVIOUS
  <2>2. \E i \in 1..n : TRUE
    BY <1>9, <2>1
  <2> QED
    BY <1>6, <2>2
<1> QED
  BY <1>6, <1>7, <1>8, <1>9, <1>10, <1>11 DEF n

(* Every event of the range, once and in the order of the log.             *)
LEMMA QueryIs ==
  ASSUME NEW events, IsLog(events), NEW ps \in SUBSET DOMAIN events,
         NEW from \in Nat, NEW to \in Nat, from <= to
  PROVE  /\ PaginatedEventQuery(events, ps, from, to) \in Seq(Nat)
         /\ ToSet(PaginatedEventQuery(events, ps, from, to)) = Between(events, ps, from, to)
         /\ Increasing(PaginatedEventQuery(events, ps, from, to))
<1>1. CASE MaxBlockLookBack = 0
  <2>1. PaginatedEventQuery(events, ps, from, to) = Listed(events, ps, from, to)
    BY <1>1 DEF PaginatedEventQuery
  <2> QED
    BY <2>1, ListedIs
<1>2. CASE MaxBlockLookBack # 0
  <2> DEFINE n == Iterations(from, to)
             A(i) == PageStart(from, i)
             B(i) == PageEnd(from, to, i)
             page(i) == Listed(events, ps, A(i), B(i))
             pages == [i \in 1..n |-> page(i)]
             flat == FlattenSeq(pages)
             items == {p \in DOMAIN events : from <= events[p].block /\ events[p].block <= to}
  <2>1. /\ n \in Nat \ {0} /\ \A i \in 1..n : A(i) \in Int /\ B(i) \in Int
        /\ \A i, j \in 1..n : i < j => B(i) < A(j)
        /\ \A b \in from..to : \E i \in 1..n : A(i) <= b /\ b <= B(i)
    BY <1>2, PagesCover
  <2>2. PaginatedEventQuery(events, ps, from, to) = Filter(flat, items)
    <3>1. Pages(from, to) = 1..n
      BY DEF Pages
    <3>2. PaginatedEventQuery(events, ps, from, to) =
            WithinRange(events,
              FlattenSeq([i \in Pages(from, to) |->
                            Listed(events, ps, PageStart(from, i), PageEnd(from, to, i))]),
              from, to)
      BY <1>2 DEF PaginatedEventQuery
    <3> HIDE DEF n
    <3>3. PaginatedEventQuery(events, ps, from, to) = WithinRange(events, flat, from, to)
      BY <3>1, <3>2
    <3> HIDE DEF flat
    <3> QED
      BY <3>3 DEF WithinRange
  <2> HIDE DEF n, A, B
  <2>3. ASSUME NEW i \in 1..n
        PROVE  /\ page(i) \in Seq(Nat) /\ Increasing(page(i))
               /\ ToSet(page(i)) = Between(events, ps, A(i), B(i))
    BY <2>1, ListedIs
  <2> HIDE DEF page
  <2>4. pages \in Seq(Seq(Nat)) /\ Len(pages) = n /\ \A i \in 1..n : pages[i] = page(i)
    BY <2>1, <2>3
  <2> HIDE DEF pages
  <2>5. FollowEachOther(pages)
    <3> SUFFICES ASSUME NEW i \in 1..n, NEW j \in 1..n, i < j,
                        NEW x \in ToSet(page(i)), NEW y \in ToSet(page(j))
                 PROVE  x < y
      BY <2>3, <2>4 DEF FollowEachOther
    <3>1. /\ x \in DOMAIN events /\ events[x].block <= B(i)
          /\ y \in DOMAIN events /\ A(j) <= events[y].block
      BY <2>3 DEF Between
    <3>2. /\ B(i) < A(j) /\ B(i) \in Int /\ A(j) \in Int
          /\ events[x].block \in Nat /\ events[y].block \in Nat
      BY <2>1, <3>1 DEF IsLog
    <3>3. events[x].block < events[y].block
      BY <3>1, <3>2
    <3> QED
      BY <3>1, <3>2, <3>3 DEF IsLog
  <2>6. /\ flat \in Seq(Nat) /\ Increasing(flat)
        /\ \A x : x \in ToSet(flat) <=> \E i \in 1..n : x \in ToSet(page(i))
    BY <2>1, <2>4, <2>5, FlattenIs
  <2> HIDE DEF flat
  <2>7. /\ Filter(flat, items) \in Seq(Nat) /\ Increasing(Filter(flat, items))
        /\ ToSet(Filter(flat, items)) = ToSet(flat) \cap items
    BY <2>6, FilterIs, FilterIncreasing
  <2>8. ToSet(flat) \cap items = Between(events, ps, from, to)
    <3>1. ASSUME NEW p \in ToSet(flat), p \in items PROVE p \in Between(events, ps, from, to)
      BY <2>3, <2>6, <3>1 DEF Between
    <3>2. ASSUME NEW p \in Between(events, ps, from, to) PROVE p \in ToSet(flat) /\ p \in items
      <4>1. p \in ps /\ p \in items /\ events[p].block \in from..to
        BY DEF Between, IsLog
      <4>2. PICK i \in 1..n : A(i) <= events[p].block /\ events[p].block <= B(i)
        BY <2>1, <4>1
      <4>3. p \in ToSet(page(i))
        BY <2>3, <4>1, <4>2 DEF Between
      <4> QED
        BY <2>6, <4>1, <4>3
    <3> QED
      BY <3>1, <3>2
  <2> QED
    BY <2>2, <2>7, <2>8
<1> QED
  BY <1>1, <1>2

-----------------------------------------------------------------------------
(* What is in the log.                                                     *)

Lists == GlobalKeys \cup TokenLists

LEMMA LogFacts ==
  ASSUME LogOK
  PROVE  /\ IsLog(log) /\ DOMAIN log = 1..Len(log) /\ Len(log) \in Nat
         /\ \A p \in DOMAIN log : log[p] \in EventRecords /\ BlockAt(p) \in 1..LastBlock
  <1>1. LastBlock \in Nat
    BY BoundAssumption
  <1>2. DOMAIN log = 1..Len(log) /\ Len(log) \in Nat /\ \A p \in DOMAIN log : log[p] \in EventRecords
    BY DEF LogOK
  <1>3. \A e \in EventRecords : e.block \in 1..LastBlock
    BY DEF EventRecords
  <1> QED
    BY <1>1, <1>2, <1>3 DEF IsLog, LogOK, BlockAt

LEMMA GlobalFacts ==
  ASSUME LogOK, NEW p \in EventsOf("UpdatedGlobalConfig")
  PROVE  /\ p \in 1..Len(log)
         /\ log[p].key = "CHAIN_ID_INDICES" => log[p].value \in ChainIdValues
         /\ log[p].key = "VERSION" => log[p].value \in Int \cup {NotANumber}
<1>1. p \in 1..Len(log) /\ log[p] \in EventRecords /\ log[p].name = "UpdatedGlobalConfig"
  BY LogFacts DEF EventsOf
<1>2. PICK key \in DOMAIN GlobalValues : log[p].key = key /\ log[p].value \in GlobalValues[key]
  <2>1. PICK b \in 1..LastBlock, u \in UNION {{key} \X GlobalValues[key] : key \in DOMAIN GlobalValues} :
          log[p] = [name |-> "UpdatedGlobalConfig", block |-> b, key |-> u[1], value |-> u[2]]
    BY <1>1 DEF EventRecords
  <2>2. PICK key \in DOMAIN GlobalValues : u \in {key} \X GlobalValues[key]
    OBVIOUS
  <2>3. u[1] = key /\ u[2] \in GlobalValues[key]
    BY <2>2
  <2> QED
    BY <2>1, <2>3
<1> QED
  BY <1>1, <1>2, ValueAssumption DEF ChainIdValues

-----------------------------------------------------------------------------
(* Lists of chains that go on from one another.                            *)

LEMMA PrefixIs ==
  ASSUME NEW s \in Seq(Int), NEW t \in Seq(Int)
  PROVE  IsPrefix(s, t) <=> Len(s) <= Len(t) /\ \A i \in 1..Len(s) : s[i] = t[i]
<1>1. /\ Len(s) \in Nat /\ Len(t) \in Nat
      /\ \A i \in 1..Len(s) : s[i] \in Int
      /\ \A i \in 1..Len(t) : t[i] \in Int
  OBVIOUS
<1> DEFINE n == Len(s)
           a == SubSeq(s, 1, n)
           b == SubSeq(t, 1, n)
<1>2. CASE n <= Len(t)
  <2>1. Len(a) = n - 1 + 1 /\ \A j \in 1..(n - 1 + 1) : a[j] = s[1 + j - 1]
    BY <1>1, SubSeqProperties
  <2>2. Len(b) = n - 1 + 1 /\ \A j \in 1..(n - 1 + 1) : b[j] = t[1 + j - 1]
    <3>1. \A j \in 1..n : t[j] \in Int
      BY <1>1, <1>2
    <3> QED
      BY <1>1, <1>2, <3>1, SubSeqProperties
  <2>3. a \in Seq(Int) /\ b \in Seq(Int)
    <3>1. \A j \in 1..n : t[j] \in Int
      BY <1>1, <1>2
    <3> QED
      BY <1>1, <1>2, <3>1, SubSeqProperties
  <2>4. \A j \in 1..n : a[j] = s[j] /\ b[j] = t[j]
    BY <1>1, <2>1, <2>2
  <2>5. Len(a) = n /\ Len(b) = n
    BY <1>1, <2>1, <2>2
  <2> HIDE DEF a, b
  <2>6. a = b <=> \A j \in 1..n : s[j] = t[j]
    <3>1. (\A j \in 1..n : a[j] = b[j]) => a = b
      BY <2>3, <2>5, SeqEqual
    <3> QED
      BY <2>4, <3>1
  <2>7. IsPrefix(s, t) <=> n <= Len(t) /\ a = b
    BY DEF IsPrefix, a, b
  <2> QED
    BY <1>2, <2>6, <2>7
<1>3. CASE ~(n <= Len(t))
  BY <1>3 DEF IsPrefix
<1> QED
  BY <1>2, <1>3

LEMMA PrefixTransitive ==
  ASSUME NEW s \in Seq(Int), NEW t \in Seq(Int), NEW w \in Seq(Int), IsPrefix(s, t), IsPrefix(t, w)
  PROVE  IsPrefix(s, w)
<1>1. Len(s) \in Nat /\ Len(t) \in Nat /\ Len(w) \in Nat
  OBVIOUS
<1>2. Len(s) <= Len(t) /\ \A i \in 1..Len(s) : s[i] = t[i]
  BY PrefixIs
<1>3. Len(t) <= Len(w) /\ \A i \in 1..Len(t) : t[i] = w[i]
  BY PrefixIs
<1>4. \A i \in 1..Len(s) : i \in 1..Len(t)
  BY <1>1, <1>2
<1>5. Len(s) <= Len(w) /\ \A i \in 1..Len(s) : s[i] = w[i]
  BY <1>1, <1>2, <1>3, <1>4
<1> QED
  BY <1>5, PrefixIs

LEMMA PrefixReflexive ==
  ASSUME NEW s \in Seq(Int)
  PROVE  IsPrefix(s, s)
<1>1. Len(s) \in Nat
  OBVIOUS
<1> QED
  BY <1>1, PrefixIs

LEMMA ImplicitIsList ==
  ImplicitChainIds(ConfigStoreChain) \in Seq(Int)
<1>1. DefaultChainIds \in Seq(Int)
  <2>1. Nat \ {0} \subseteq Int
    OBVIOUS
  <2> QED
    BY <2>1, ChainAssumption, SeqMonotonic
<1>2. <<ConfigStoreChain>> \in Seq(Int)
  BY ChainAssumption
<1> QED
  BY <1>1, <1>2 DEF ImplicitChainIds

-----------------------------------------------------------------------------
(* One global update.                                                      *)

LEMMA SetOfNonempty ==
  ASSUME NEW list \in Seq(Nat)
  PROVE  /\ list = <<>> <=> ToSet(list) = {}
         /\ list # <<>> => Last(list) \in ToSet(list) /\ Head(list) \in ToSet(list)
         /\ \A x \in ToSet(list) : x \in Nat /\ \E i \in 1..Len(list) : x = list[i]
         /\ Len(list) \in Nat /\ \A i \in 1..Len(list) : list[i] \in ToSet(list)
<1>1. Len(list) \in Nat /\ DOMAIN list = 1..Len(list) /\ \A i \in 1..Len(list) : list[i] \in Nat
  OBVIOUS
<1>2. list = <<>> <=> Len(list) = 0
  BY <1>1
<1>3. ToSet(list) = {list[i] : i \in 1..Len(list)}
  BY <1>1 DEF ToSet
<1>4. list # <<>> => Len(list) \in 1..Len(list) /\ 1 \in 1..Len(list) /\ Head(list) = list[1]
  BY <1>1, <1>2
<1>5. \A i \in 1..Len(list) : list[i] \in ToSet(list)
  BY <1>3
<1>6. \A x \in ToSet(list) : x \in Nat /\ \E i \in 1..Len(list) : x = list[i]
  BY <1>1, <1>3
<1>7. list = <<>> <=> ToSet(list) = {}
  <2>1. list = <<>> => ToSet(list) = {}
    BY <1>2, <1>6
  <2>2. list # <<>> => ToSet(list) # {}
    BY <1>4, <1>5
  <2> QED
    BY <2>1, <2>2
<1>8. list # <<>> => Last(list) \in ToSet(list) /\ Head(list) \in ToSet(list)
  BY <1>4, <1>5 DEF Last
<1> QED
  BY <1>1, <1>5, <1>6, <1>7, <1>8

(* In a log that is read up to m, what the client accepts fits, and a new  *)
(* update that fits is accepted.                                           *)
Reading(lists, m) ==
  /\ lists \in [Lists -> Seq(Nat)] /\ m \in 0..Len(log)
  /\ GlobalsOK(lists, m) /\ OrderOK(lists)

LEMMA StoredFacts ==
  ASSUME LogOK, NEW lists, NEW m, Reading(lists, m), NEW key \in GlobalKeys
  PROVE  /\ lists[key] \in Seq(Nat)
         /\ \A q \in ToSet(lists[key]) :
              q \in 1..m /\ Fits(key, q, ToSet(lists[key])) /\ Valid(key, q)
              /\ q \in EventsOf("UpdatedGlobalConfig") /\ log[q].key = key
         /\ \A q \in 1..m : Fits(key, q, ToSet(lists[key])) => q \in ToSet(lists[key])
<1>1. lists[key] \in Seq(Nat)
  BY DEF Reading, Lists
<1>2. ToSet(lists[key]) = {q \in 1..m : Fits(key, q, ToSet(lists[key]))}
  BY DEF Reading, GlobalsOK
<1>3. \A q, A : Fits(key, q, A) =>
        Valid(key, q) /\ q \in EventsOf("UpdatedGlobalConfig") /\ log[q].key = key
  BY DEF Fits, Valid
<1> QED
  BY <1>1, <1>2, <1>3

LEMMA ChainIdsFit ==
  ASSUME LogOK, NEW lists, NEW m, Reading(lists, m),
         NEW p \in EventsOf("UpdatedGlobalConfig"), log[p].key = "CHAIN_ID_INDICES"
  PROVE  LET ids == lists["CHAIN_ID_INDICES"] IN
         /\ AcceptsChainIds(lists, log[p].value) =>
              /\ Fits("CHAIN_ID_INDICES", p, ToSet(ids))
              /\ \A q \in ToSet(ids) : IsPrefix(log[q].value, log[p].value)
              /\ IsPrefix(log[p].value, log[p].value)
         /\ m < p /\ Fits("CHAIN_ID_INDICES", p, ToSet(ids)) => AcceptsChainIds(lists, log[p].value)
<1> DEFINE ids == lists["CHAIN_ID_INDICES"]
           new == log[p].value
           first == ImplicitChainIds(ConfigStoreChain)
<1>1. "CHAIN_ID_INDICES" \in GlobalKeys
  BY DEF GlobalKeys
<1>2. /\ ids \in Seq(Nat)
      /\ \A q \in ToSet(ids) : /\ q \in 1..m /\ Valid("CHAIN_ID_INDICES", q)
                               /\ q \in EventsOf("UpdatedGlobalConfig")
                               /\ log[q].key = "CHAIN_ID_INDICES"
  BY <1>1, StoredFacts
<1>3. \A q \in ToSet(ids) : log[q].value \in Seq(Int) /\ IsPrefix(first, log[q].value)
  BY <1>2, GlobalFacts DEF Valid, ChainIdValues
<1>4. new \in ChainIdValues /\ first \in Seq(Int)
  BY GlobalFacts, ImplicitIsList
<1>5. \A q \in ToSet(ids) : IsPrefix(log[q].value, log[Last(ids)].value)
  BY DEF Reading, OrderOK
<1>6. /\ PreviousChainIds(lists) = IF ids = <<>> THEN first ELSE log[Last(ids)].value
      /\ ids = <<>> <=> ToSet(ids) = {}
      /\ ids # <<>> => Last(ids) \in ToSet(ids)
  BY <1>2, SetOfNonempty DEF PreviousChainIds
<1>7. AcceptsChainIds(lists, new)
        <=> new \notin {NotAList, LeadingZero} /\ ValidList(new) /\ IsPrefix(PreviousChainIds(lists), new)
  BY DEF AcceptsChainIds
<1>8. Fits("CHAIN_ID_INDICES", p, ToSet(ids))
        <=> /\ new \notin {NotAList, LeadingZero} /\ ValidList(new) /\ IsPrefix(first, new)
            /\ \A q \in ToSet(ids) : q < p => IsPrefix(log[q].value, new)
  BY DEF Fits, Valid, GoesBefore
<1> HIDE DEF ids, first
<1>9. ASSUME AcceptsChainIds(lists, new)
      PROVE  /\ Fits("CHAIN_ID_INDICES", p, ToSet(ids))
             /\ \A q \in ToSet(ids) : IsPrefix(log[q].value, new)
             /\ IsPrefix(new, new)
  <2>1. new \in Seq(Int)
    BY <1>4, <1>7, <1>9 DEF ChainIdValues
  <2>2. ASSUME NEW q \in ToSet(ids) PROVE IsPrefix(log[q].value, new)
    <3>1. IsPrefix(log[Last(ids)].value, new) /\ Last(ids) \in ToSet(ids)
      BY <1>6, <1>7, <1>9, <2>2
    <3> HIDE DEF new
    <3> QED
      BY <1>3, <1>5, <2>1, <3>1, PrefixTransitive
  <2>3. IsPrefix(first, new)
    <3>1. CASE ids = <<>>
      BY <1>6, <1>7, <1>9, <3>1
    <3>2. CASE ids # <<>>
      <4>1. Last(ids) \in ToSet(ids)
        BY <1>6, <3>2
      <4> HIDE DEF new
      <4> QED
        BY <1>3, <1>4, <2>1, <2>2, <4>1, PrefixTransitive
    <3> QED
      BY <3>1, <3>2
  <2>4. IsPrefix(new, new)
    <3> HIDE DEF new
    <3> QED
      BY <2>1, PrefixReflexive
  <2> QED
    BY <1>7, <1>8, <1>9, <2>2, <2>3, <2>4
<1>10. ASSUME m < p, Fits("CHAIN_ID_INDICES", p, ToSet(ids))
       PROVE  AcceptsChainIds(lists, new)
  <2>1. CASE ids = <<>>
    BY <1>6, <1>7, <1>8, <1>10, <2>1
  <2>2. CASE ids # <<>>
    <3>1. Last(ids) \in ToSet(ids) /\ Last(ids) \in 1..m
      BY <1>2, <1>6, <2>2
    <3>2. Last(ids) < p
      BY <1>10, <3>1, GlobalFacts DEF Reading
    <3> QED
      BY <1>6, <1>7, <1>8, <1>10, <2>2, <3>1, <3>2
  <2> QED
    BY <2>1, <2>2
<1> QED
  BY <1>9, <1>10 DEF ids

(* The version stored last is the highest, or the default one.             *)
LEMMA LastVersionIs ==
  ASSUME LogOK, NEW lists, NEW m, Reading(lists, m)
  PROVE  LET versions == lists["VERSION"] IN
         /\ versions \in Seq(Nat)
         /\ \A q \in ToSet(versions) :
              /\ q \in 1..m /\ Valid("VERSION", q)
              /\ q \in EventsOf("UpdatedGlobalConfig") /\ log[q].key = "VERSION"
              /\ log[q].value \in Int /\ log[q].value > 0 /\ log[q].value <= LastVersion(lists)
         /\ \A q \in 1..m : Fits("VERSION", q, ToSet(versions)) => q \in ToSet(versions)
         /\ LastVersion(lists) = IF versions = <<>> THEN 0 ELSE log[Head(versions)].value
         /\ LastVersion(lists) \in Int /\ LastVersion(lists) >= 0
         /\ versions = <<>> <=> ToSet(versions) = {}
         /\ versions # <<>> => Head(versions) \in ToSet(versions)
<1> DEFINE versions == lists["VERSION"]
<1>1. "VERSION" \in GlobalKeys
  BY DEF GlobalKeys
<1>2. /\ versions \in Seq(Nat)
      /\ \A q \in ToSet(versions) : /\ q \in 1..m /\ Valid("VERSION", q)
                                    /\ q \in EventsOf("UpdatedGlobalConfig") /\ log[q].key = "VERSION"
      /\ \A q \in 1..m : Fits("VERSION", q, ToSet(versions)) => q \in ToSet(versions)
  BY <1>1, StoredFacts
<1>3. \A q \in ToSet(versions) : log[q].value \in Int /\ log[q].value > 0
  BY <1>2, GlobalFacts DEF Valid, DefaultVersion
<1>4. /\ Len(versions) \in Nat /\ \A i \in 1..Len(versions) : versions[i] \in ToSet(versions)
      /\ versions = <<>> <=> ToSet(versions) = {}
      /\ versions # <<>> => Head(versions) \in ToSet(versions) /\ Head(versions) = versions[1]
      /\ \A q \in ToSet(versions) : \E i \in 1..Len(versions) : q = versions[i]
  <2>1. versions \in Seq(Nat)
    BY <1>2
  <2> HIDE DEF versions
  <2>2. versions # <<>> => Head(versions) = versions[1]
    BY <2>1
  <2> QED
    BY <2>1, <2>2, SetOfNonempty
<1>5. LastVersion(lists) = IF versions = <<>> THEN 0 ELSE log[Head(versions)].value
  BY DEF LastVersion, DefaultVersion
<1>6. \A i, j \in 1..Len(versions) : i < j => log[versions[j]].value < log[versions[i]].value
  BY DEF Reading, OrderOK
<1> HIDE DEF versions
<1>7. \A q \in ToSet(versions) : log[q].value <= LastVersion(lists)
  <2> SUFFICES ASSUME NEW q \in ToSet(versions) PROVE log[q].value <= LastVersion(lists)
    OBVIOUS
  <2>1. PICK i \in 1..Len(versions) : q = versions[i]
    BY <1>4
  <2>2. versions # <<>> /\ LastVersion(lists) = log[versions[1]].value
    BY <1>4, <1>5
  <2>3. CASE i = 1
    BY <1>3, <2>1, <2>2, <2>3
  <2>4. CASE i # 1
    <3>1. 1 \in 1..Len(versions) /\ 1 < i
      BY <1>4, <2>4
    <3>2. log[q].value < log[versions[1]].value /\ versions[1] \in ToSet(versions)
      BY <1>4, <1>6, <2>1, <3>1
    <3> QED
      BY <1>3, <2>2, <3>2
  <2> QED
    BY <2>3, <2>4
<1>8. LastVersion(lists) \in Int /\ LastVersion(lists) >= 0
  BY <1>3, <1>4, <1>5
<1> QED
  BY <1>2, <1>3, <1>4, <1>5, <1>7, <1>8 DEF versions

LEMMA VersionsFit ==
  ASSUME LogOK, NEW lists, NEW m, Reading(lists, m),
         NEW p \in EventsOf("UpdatedGlobalConfig"), log[p].key = "VERSION"
  PROVE  LET versions == lists["VERSION"] IN
         /\ AcceptsVersion(lists, log[p].value) =>
              /\ Fits("VERSION", p, ToSet(versions)) /\ m < p
              /\ \A q \in ToSet(versions) : q < p /\ log[q].value < log[p].value
         /\ m < p /\ Fits("VERSION", p, ToSet(versions)) => AcceptsVersion(lists, log[p].value)
<1> DEFINE versions == lists["VERSION"]
           new == log[p].value
<1>1. /\ versions \in Seq(Nat)
      /\ \A q \in ToSet(versions) :
           /\ q \in 1..m /\ log[q].value \in Int /\ log[q].value <= LastVersion(lists)
      /\ \A q \in 1..m : Fits("VERSION", q, ToSet(versions)) => q \in ToSet(versions)
      /\ LastVersion(lists) = IF versions = <<>> THEN 0 ELSE log[Head(versions)].value
      /\ LastVersion(lists) \in Int /\ LastVersion(lists) >= 0
      /\ versions # <<>> => Head(versions) \in ToSet(versions)
  BY LastVersionIs
<1>2. new \in Int \cup {NotANumber} /\ p \in 1..Len(log) /\ m \in Nat
  BY GlobalFacts, LogFacts DEF Reading
<1>3. /\ AcceptsVersion(lists, new) <=> new # NotANumber /\ new > LastVersion(lists)
      /\ Fits("VERSION", p, ToSet(versions))
           <=> /\ new # NotANumber /\ new > 0
               /\ \A q \in ToSet(versions) : q < p => log[q].value < new
  BY DEF AcceptsVersion, Fits, Valid, GoesBefore, DefaultVersion
<1> HIDE DEF versions, new
<1>4. ASSUME AcceptsVersion(lists, new)
      PROVE  /\ Fits("VERSION", p, ToSet(versions)) /\ m < p
             /\ \A q \in ToSet(versions) : q < p /\ log[q].value < new
  <2>1. new \in Int /\ new > LastVersion(lists)
    BY <1>2, <1>3, <1>4
  <2>2. \A q \in ToSet(versions) : log[q].value < new
    BY <1>1, <2>1
  <2>3. Fits("VERSION", p, ToSet(versions))
    BY <1>1, <1>3, <1>4, <2>1, <2>2
  <2>4. m < p
    <3>1. ASSUME p <= m PROVE FALSE
      <4>1. p \in ToSet(versions)
        BY <1>1, <1>2, <2>3, <3>1
      <4> QED
        BY <1>1, <2>2, <4>1 DEF new
    <3> QED
      BY <1>2, <3>1
  <2>5. \A q \in ToSet(versions) : q < p
    BY <1>1, <1>2, <2>4
  <2> QED
    BY <2>2, <2>3, <2>4, <2>5
<1>5. ASSUME m < p, Fits("VERSION", p, ToSet(versions))
      PROVE  AcceptsVersion(lists, new)
  <2>1. new \in Int /\ new > 0 /\ new # NotANumber
    BY <1>2, <1>3, <1>5
  <2>2. CASE versions = <<>>
    BY <1>1, <1>3, <2>1, <2>2
  <2>3. CASE versions # <<>>
    <3>1. Head(versions) \in ToSet(versions) /\ Head(versions) < p
      BY <1>1, <1>2, <1>5, <2>3
    <3> QED
      BY <1>1, <1>3, <1>5, <2>1, <2>3, <3>1
  <2> QED
    BY <2>2, <2>3
<1> QED
  BY <1>4, <1>5 DEF versions, new

LEMMA AcceptedFits ==
  ASSUME LogOK, NEW lists, NEW m, Reading(lists, m),
         NEW p \in EventsOf("UpdatedGlobalConfig"), ~ParseThrows(p)
  PROVE  LET key == log[p].key IN
         /\ Accepts(lists, key, log[p].value) =>
              key \in GlobalKeys /\ Fits(key, p, ToSet(lists[key]))
         /\ key \in GlobalKeys /\ m < p /\ Fits(key, p, ToSet(lists[key])) =>
              Accepts(lists, key, log[p].value)
<1> DEFINE key == log[p].key
<1>1. CASE key = "CHAIN_ID_INDICES"
  BY <1>1, ChainIdsFit DEF Accepts, GlobalKeys
<1>2. CASE key = "VERSION"
  BY <1>2, VersionsFit DEF Accepts, GlobalKeys
<1>3. CASE key = "LITE_CHAIN_ID_INDICES"
  BY <1>3 DEF Accepts, GlobalKeys, Fits, Valid, GoesBefore, ParseThrows
<1>4. CASE key = "DISABLED_CHAINS"
  BY <1>4 DEF Accepts, GlobalKeys, Fits, Valid, GoesBefore
<1>5. CASE key \in {"MAX_RELAYER_REPAYMENT_LEAF_SIZE", "MAX_POOL_REBALANCE_LEAF_SIZE"}
  BY <1>5 DEF Accepts, GlobalKeys, Fits, Valid, GoesBefore
<1>6. CASE key \notin GlobalKeys
  BY <1>6 DEF Accepts, GlobalKeys
<1> QED
  BY <1>1, <1>2, <1>3, <1>4, <1>5, <1>6 DEF GlobalKeys

(* What fits at q depends on what was accepted before q only.              *)
LEMMA FitsAtOnce ==
  ASSUME NEW key, NEW q \in Nat, NEW p \in Nat, q <= p, NEW accepted
  PROVE  Fits(key, q, accepted \cup {p}) <=> Fits(key, q, accepted)
  BY DEF Fits

LEMMA GlobalStored ==
  ASSUME LogOK, NEW lists, NEW m, Reading(lists, m),
         NEW p \in EventsOf("UpdatedGlobalConfig"), ~ParseThrows(p),
         Accepts(lists, log[p].key, log[p].value)
  PROVE  LET x == StoreGlobalConfig(lists, p)
             key == log[p].key IN
         /\ key \in GlobalKeys /\ x \in [Lists -> Seq(Nat)]
         /\ \A l \in Lists : l # key => x[l] = lists[l]
         /\ x[key] = IF key = "VERSION" THEN <<p>> \o lists[key] ELSE Append(lists[key], p)
         /\ ToSet(x[key]) = ToSet(lists[key]) \cup {p}
<1> DEFINE key == log[p].key
           x == StoreGlobalConfig(lists, p)
<1>1. key \in GlobalKeys /\ key \in Lists
  BY AcceptedFits DEF Lists
<1>2. lists \in [Lists -> Seq(Nat)] /\ lists[key] \in Seq(Nat) /\ p \in Nat
  BY <1>1, GlobalFacts DEF Reading
<1>3. x = IF key = "VERSION" THEN [lists EXCEPT !["VERSION"] = <<p>> \o @]
          ELSE [lists EXCEPT ![key] = Append(@, p)]
  BY DEF StoreGlobalConfig, Pushed
<1> DEFINE new == IF key = "VERSION" THEN <<p>> \o lists[key] ELSE Append(lists[key], p)
<1>4. x = [lists EXCEPT ![key] = new]
  BY <1>3
<1>5. new \in Seq(Nat) /\ ToSet(new) = ToSet(lists[key]) \cup {p}
  <2>1. CASE key = "VERSION"
    <3>1. <<p>> \in Seq(Nat) /\ ToSet(<<p>>) = {p}
      BY <1>2 DEF ToSet
    <3> DEFINE one == <<p>>
    <3> HIDE DEF one, key
    <3>2. one \o lists[key] \in Seq(Nat) /\ ToSet(one \o lists[key]) = ToSet(one) \cup ToSet(lists[key])
      BY <1>2, <3>1, Concatenated DEF one
    <3> QED
      BY <2>1, <3>1, <3>2 DEF one
  <2>2. CASE key # "VERSION"
    BY <1>2, <2>2, Appended
  <2> QED
    BY <2>1, <2>2
<1> HIDE DEF key, x, new
<1>6. x \in [Lists -> Seq(Nat)] /\ x[key] = new /\ \A l \in Lists : l # key => x[l] = lists[l]
  BY <1>1, <1>2, <1>4, <1>5
<1> QED
  BY <1>1, <1>5, <1>6 DEF key, x, new

Later(m, p) == IF p <= m THEN m ELSE p

LEMMA OrderStep ==
  ASSUME LogOK, NEW lists, NEW m, Reading(lists, m),
         NEW p \in EventsOf("UpdatedGlobalConfig"), ~ParseThrows(p),
         Accepts(lists, log[p].key, log[p].value)
  PROVE  OrderOK(StoreGlobalConfig(lists, p))
<1> DEFINE key == log[p].key
           x == StoreGlobalConfig(lists, p)
           ids == lists["CHAIN_ID_INDICES"]
           versions == lists["VERSION"]
<1>1. /\ x \in [Lists -> Seq(Nat)]
      /\ \A l \in Lists : l # key => x[l] = lists[l]
      /\ x[key] = IF key = "VERSION" THEN <<p>> \o lists[key] ELSE Append(lists[key], p)
      /\ ToSet(x[key]) = ToSet(lists[key]) \cup {p}
  BY GlobalStored
<1>2. "CHAIN_ID_INDICES" \in Lists /\ "VERSION" \in Lists
  BY DEF Lists, GlobalKeys
<1>3. lists \in [Lists -> Seq(Nat)] /\ OrderOK(lists) /\ p \in Nat
  BY GlobalFacts DEF Reading
<1>4. ids \in Seq(Nat) /\ versions \in Seq(Nat)
  BY <1>2, <1>3
<1> HIDE DEF x
<1>5. \A q \in ToSet(x["CHAIN_ID_INDICES"]) :
        IsPrefix(log[q].value, log[Last(x["CHAIN_ID_INDICES"])].value)
  <2>1. CASE key # "CHAIN_ID_INDICES"
    BY <1>1, <1>2, <1>3, <2>1 DEF OrderOK
  <2>2. CASE key = "CHAIN_ID_INDICES"
    <3>1. AcceptsChainIds(lists, log[p].value)
      BY <2>2 DEF Accepts
    <3>2. /\ \A q \in ToSet(ids) : IsPrefix(log[q].value, log[p].value)
          /\ IsPrefix(log[p].value, log[p].value)
      BY <2>2, <3>1, ChainIdsFit
    <3>3. x["CHAIN_ID_INDICES"] = Append(ids, p)
      BY <1>1, <2>2
    <3>4. Last(Append(ids, p)) = p
      BY <1>3, <1>4, Appended DEF Last
    <3>5. ToSet(x["CHAIN_ID_INDICES"]) = ToSet(ids) \cup {p}
      BY <1>1, <2>2
    <3> QED
      BY <3>2, <3>3, <3>4, <3>5
  <2> QED
    BY <2>1, <2>2
<1>6. \A i, j \in 1..Len(x["VERSION"]) : i < j =>
        /\ x["VERSION"][j] < x["VERSION"][i]
        /\ log[x["VERSION"][j]].value < log[x["VERSION"][i]].value
  <2>1. CASE key # "VERSION"
    BY <1>1, <1>2, <1>3, <2>1 DEF OrderOK
  <2>2. CASE key = "VERSION"
    <3>1. AcceptsVersion(lists, log[p].value)
      BY <2>2 DEF Accepts
    <3>2. \A q \in ToSet(versions) : q < p /\ log[q].value < log[p].value
      BY <2>2, <3>1, VersionsFit
    <3> DEFINE new == <<p>> \o versions
    <3>3. x["VERSION"] = new
      BY <1>1, <2>2
    <3>4. /\ Len(new) = 1 + Len(versions) /\ new[1] = p /\ Len(versions) \in Nat
          /\ \A i \in 1..Len(versions) : new[i + 1] = versions[i]
      BY <1>3, <1>4
    <3> HIDE DEF new
    <3>5. ASSUME NEW i \in 1..Len(new), NEW j \in 1..Len(new), i < j
          PROVE  new[j] < new[i] /\ log[new[j]].value < log[new[i]].value
      <4>1. j - 1 \in 1..Len(versions) /\ new[j] = versions[j - 1]
        <5>1. j - 1 \in 1..Len(versions) /\ (j - 1) + 1 = j
          BY <3>4, <3>5
        <5> QED
          BY <3>4, <5>1
      <4>2. CASE i = 1
        <5>1. versions[j - 1] \in ToSet(versions)
          BY <1>4, <4>1, SetOfNonempty
        <5> QED
          BY <3>2, <3>4, <4>1, <4>2, <5>1
      <4>3. CASE i # 1
        <5>1. i - 1 \in 1..Len(versions) /\ (i - 1) + 1 = i /\ i - 1 < j - 1
          BY <3>4, <3>5, <4>3
        <5>2. new[i] = versions[i - 1]
          BY <3>4, <5>1
        <5> QED
          BY <1>3, <4>1, <5>1, <5>2 DEF OrderOK
      <4> QED
        BY <4>2, <4>3
    <3> QED
      BY <3>3, <3>5
  <2> QED
    BY <2>1, <2>2
<1> QED
  BY <1>5, <1>6 DEF OrderOK, x

(* One update, when all before it are read.                                *)
LEMMA GlobalStep ==
  ASSUME LogOK, NEW lists, NEW m, Reading(lists, m),
         NEW p \in EventsOf("UpdatedGlobalConfig"), ~ParseThrows(p),
         \A q \in EventsOf("UpdatedGlobalConfig") : q < p => q <= m
  PROVE  /\ Reading(StoreGlobalConfig(lists, p), Later(m, p))
         /\ \A l \in TokenLists : StoreGlobalConfig(lists, p)[l] = lists[l]
<1> DEFINE key == log[p].key
           x == StoreGlobalConfig(lists, p)
           n == Later(m, p)
<1>1. p \in 1..Len(log) /\ m \in 0..Len(log) /\ Len(log) \in Nat
  BY GlobalFacts, LogFacts DEF Reading
<1>2. n \in 0..Len(log) /\ m <= n /\ p <= n /\ (n = m \/ (n = p /\ m < p))
  BY <1>1 DEF Later
<1>3. \A k \in GlobalKeys : k \notin TokenLists /\ k \in Lists
  BY DEF GlobalKeys, TokenLists, Lists
<1>4. \A l \in TokenLists : l \in Lists
  BY DEF Lists
<1>5. ASSUME NEW k, NEW accepted, NEW q \in 1..n, q \notin 1..m, Fits(k, q, accepted)
      PROVE  q = p /\ k = key /\ m < p
  <2>1. q \in EventsOf("UpdatedGlobalConfig") /\ log[q].key = k
    BY <1>5 DEF Fits, Valid
  <2>2. ~(q < p)
    BY <1>1, <1>2, <1>5, <2>1
  <2> QED
    BY <1>1, <1>2, <1>5, <2>1, <2>2
<1>6. ASSUME NEW k \in GlobalKeys, x[k] = lists[k], k # key \/ ~(m < p) \/ ~Fits(k, p, ToSet(lists[k]))
      PROVE  ToSet(x[k]) = {q \in 1..n : Fits(k, q, ToSet(x[k]))}
  <2>1. ToSet(lists[k]) = {q \in 1..m : Fits(k, q, ToSet(lists[k]))}
    BY DEF Reading, GlobalsOK
  <2>2. 1..m \subseteq 1..n
    BY <1>1, <1>2
  <2> QED
    BY <1>5, <1>6, <2>1, <2>2
<1>7. CASE ~Accepts(lists, key, log[p].value)
  <2>1. x = lists
    BY <1>7 DEF StoreGlobalConfig
  <2>2. \A k \in GlobalKeys : k # key \/ ~(m < p) \/ ~Fits(k, p, ToSet(lists[k]))
    BY <1>7, AcceptedFits
  <2>3. GlobalsOK(x, n)
    BY <1>6, <2>1, <2>2 DEF GlobalsOK
  <2> QED
    BY <1>2, <2>1, <2>3 DEF Reading
<1>8. CASE Accepts(lists, key, log[p].value)
  <2>1. /\ key \in GlobalKeys /\ x \in [Lists -> Seq(Nat)]
        /\ \A l \in Lists : l # key => x[l] = lists[l]
        /\ ToSet(x[key]) = ToSet(lists[key]) \cup {p}
    BY <1>8, GlobalStored
  <2>2. Fits(key, p, ToSet(lists[key]))
    BY <1>8, AcceptedFits
  <2>3. OrderOK(x)
    BY <1>8, OrderStep
  <2> HIDE DEF x, n
  <2>4. ToSet(lists[key]) = {q \in 1..m : Fits(key, q, ToSet(lists[key]))}
    BY <2>1 DEF Reading, GlobalsOK
  <2>5. ToSet(x[key]) = {q \in 1..n : Fits(key, q, ToSet(x[key]))}
    <3>1. CASE n = m
      <4>1. p \in ToSet(lists[key])
        <5>1. p \in 1..m
          BY <1>1, <1>2, <3>1
        <5> HIDE DEF key
        <5> QED
          BY <2>2, <2>4, <5>1
      <4>2. ToSet(x[key]) = ToSet(lists[key])
        BY <2>1, <4>1
      <4> QED
        BY <2>4, <3>1, <4>2
    <3>2. CASE n = p /\ m < p
      <4> DEFINE A == ToSet(lists[key])
      <4>1. \A q \in 1..n : q \in Nat /\ q <= p /\ p \in Nat
        BY <1>1, <3>2
      <4>2. \A q \in 1..n : Fits(key, q, A \cup {p}) <=> Fits(key, q, A)
        BY <4>1, FitsAtOnce
      <4>3. \A q \in 1..n : Fits(key, q, A) <=> q \in A \/ q = p
        <5>1. 1..m \subseteq 1..n
          BY <1>1, <3>2
        <5> QED
          BY <1>5, <2>2, <2>4, <5>1 DEF n
      <4>4. A \subseteq 1..n /\ p \in 1..n
        BY <1>1, <2>4, <3>2
      <4>5. ToSet(x[key]) = A \cup {p}
        BY <2>1
      <4> HIDE DEF A
      <4> QED
        BY <4>2, <4>3, <4>4, <4>5
    <3> QED
      BY <1>2, <3>1, <3>2 DEF n
  <2>6. \A k \in GlobalKeys : k # key => x[k] = lists[k]
    BY <1>3, <2>1
  <2>7. GlobalsOK(x, n)
    BY <1>6, <2>5, <2>6 DEF GlobalsOK, x, n
  <2>8. \A l \in TokenLists : x[l] = lists[l]
    BY <1>3, <1>4, <2>1
  <2> QED
    BY <1>2, <2>1, <2>3, <2>7, <2>8 DEF Reading, x, n
<1> QED
  BY <1>7, <1>8

-----------------------------------------------------------------------------
(* One token update.                                                       *)

TokenReading(lists, m) ==
  lists \in [Lists -> Seq(Nat)] /\ m \in 0..Len(log) /\ TokensOK(lists, m)

(* One list is longer by p, and the others are what they were.             *)
IsPushed(x, lists, l, p) ==
  /\ x \in [Lists -> Seq(Nat)] /\ x[l] = Append(lists[l], p)
  /\ \A k \in Lists : k # l => x[k] = lists[k]

LEMMA PushedIs ==
  ASSUME NEW lists \in [Lists -> Seq(Nat)], NEW l \in Lists, NEW p \in Nat
  PROVE  IsPushed(Pushed(lists, l, p), lists, l, p)
<1> DEFINE longer == Append(lists[l], p)
<1>1. longer \in Seq(Nat)
  OBVIOUS
<1>2. Pushed(lists, l, p) = [lists EXCEPT ![l] = longer]
  BY DEF Pushed
<1> HIDE DEF longer
<1>3. /\ Pushed(lists, l, p) \in [Lists -> Seq(Nat)] /\ Pushed(lists, l, p)[l] = longer
      /\ \A k \in Lists : k # l => Pushed(lists, l, p)[k] = lists[k]
  BY <1>1, <1>2
<1> QED
  BY <1>3 DEF IsPushed, longer

LEMMA TokenStored ==
  ASSUME NEW lists \in [Lists -> Seq(Nat)], NEW p \in EventsOf("UpdatedTokenConfig"), p \in Nat
  PROVE  LET x == StoreTokenConfig(lists, p) IN
         /\ x \in [Lists -> Seq(Nat)]
         /\ \A l \in GlobalKeys : x[l] = lists[l]
         /\ \A l \in TokenLists : x[l] = IF TokenFits(l, p) THEN Append(lists[l], p) ELSE lists[l]
<1> DEFINE config == log[p].config
           a == Pushed(lists, "rateModel", p)
           b == Pushed(a, "spokeTargetBalances", p)
           c == Pushed(b, "routeRateModel", p)
           Stored == config # NotJson /\ config.rateModel # None
           Whole == config.targets # BadTargets
<1>1. /\ "rateModel" \in Lists /\ "spokeTargetBalances" \in Lists /\ "routeRateModel" \in Lists
      /\ \A l \in TokenLists : l \in {"rateModel", "spokeTargetBalances", "routeRateModel"} /\ l \in Lists
      /\ \A l \in GlobalKeys : l \in Lists
      /\ \A l \in GlobalKeys : l \notin {"rateModel", "spokeTargetBalances", "routeRateModel"}
  BY DEF Lists, GlobalKeys, TokenLists
<1>2. /\ TokenFits("rateModel", p) <=> Stored
      /\ TokenFits("spokeTargetBalances", p) <=> Stored /\ Whole
      /\ TokenFits("routeRateModel", p) <=> Stored /\ Whole
  BY DEF TokenFits
<1>3. StoreTokenConfig(lists, p) = IF ~Stored THEN lists ELSE IF ~Whole THEN a ELSE c
  BY DEF StoreTokenConfig
<1>4. /\ a \in [Lists -> Seq(Nat)] /\ a["rateModel"] = Append(lists["rateModel"], p)
      /\ \A k \in Lists : k # "rateModel" => a[k] = lists[k]
  <2>1. IsPushed(a, lists, "rateModel", p)
    BY <1>1, PushedIs
  <2> HIDE DEF a
  <2> QED
    BY <2>1, Zenon DEF IsPushed
<1> HIDE DEF a
<1>5. /\ b \in [Lists -> Seq(Nat)] /\ b["spokeTargetBalances"] = Append(a["spokeTargetBalances"], p)
      /\ \A k \in Lists : k # "spokeTargetBalances" => b[k] = a[k]
  <2>1. a \in [Lists -> Seq(Nat)]
    BY <1>4
  <2>2. IsPushed(b, a, "spokeTargetBalances", p)
    BY <1>1, <2>1, PushedIs
  <2> HIDE DEF b
  <2> QED
    BY <2>2, Zenon DEF IsPushed
<1> HIDE DEF b
<1>6. /\ c \in [Lists -> Seq(Nat)] /\ c["routeRateModel"] = Append(b["routeRateModel"], p)
      /\ \A k \in Lists : k # "routeRateModel" => c[k] = b[k]
  <2>1. b \in [Lists -> Seq(Nat)]
    BY <1>5
  <2>2. IsPushed(c, b, "routeRateModel", p)
    BY <1>1, <2>1, PushedIs
  <2> HIDE DEF c
  <2> QED
    BY <2>2, Zenon DEF IsPushed
<1> HIDE DEF c, config, Stored, Whole
<1>7. CASE ~Stored
  BY <1>1, <1>2, <1>3, <1>7
<1>8. CASE Stored /\ ~Whole
  BY <1>1, <1>2, <1>3, <1>4, <1>8
<1>9. CASE Stored /\ Whole
  <2>1. StoreTokenConfig(lists, p) = c
    BY <1>3, <1>9
  <2>2. /\ c["rateModel"] = Append(lists["rateModel"], p)
        /\ c["spokeTargetBalances"] = Append(lists["spokeTargetBalances"], p)
        /\ c["routeRateModel"] = Append(lists["routeRateModel"], p)
    BY <1>1, <1>4, <1>5, <1>6
  <2>3. \A l \in GlobalKeys : c[l] = lists[l]
    BY <1>1, <1>4, <1>5, <1>6
  <2>4. \A l \in TokenLists : c[l] = IF TokenFits(l, p) THEN Append(lists[l], p) ELSE lists[l]
    BY <1>1, <1>2, <1>9, <2>2
  <2> QED
    BY <1>6, <2>1, <2>3, <2>4
<1> QED
  BY <1>7, <1>8, <1>9

LEMMA TokenStep ==
  ASSUME LogOK, NEW lists, NEW m, TokenReading(lists, m),
         NEW p \in EventsOf("UpdatedTokenConfig"),
         \A q \in EventsOf("UpdatedTokenConfig") : q < p => q <= m
  PROVE  /\ TokenReading(StoreTokenConfig(lists, p), Later(m, p))
         /\ \A l \in GlobalKeys : StoreTokenConfig(lists, p)[l] = lists[l]
<1> DEFINE x == StoreTokenConfig(lists, p)
           n == Later(m, p)
<1>1. p \in 1..Len(log) /\ m \in 0..Len(log) /\ Len(log) \in Nat
  BY LogFacts DEF EventsOf, TokenReading
<1>2. n \in 0..Len(log) /\ m <= n /\ p <= n /\ (n = m \/ (n = p /\ m < p))
  BY <1>1 DEF Later
<1>3. lists \in [Lists -> Seq(Nat)] /\ p \in Nat
  BY <1>1 DEF TokenReading
<1>4. /\ x \in [Lists -> Seq(Nat)]
      /\ \A l \in GlobalKeys : x[l] = lists[l]
      /\ \A l \in TokenLists : x[l] = IF TokenFits(l, p) THEN Append(lists[l], p) ELSE lists[l]
  BY <1>3, TokenStored
<1> HIDE DEF x, n
<1>5. ASSUME NEW l \in TokenLists PROVE ToSet(x[l]) = {q \in 1..n : TokenFits(l, q)}
  <2>1. ToSet(lists[l]) = {q \in 1..m : TokenFits(l, q)}
    BY DEF TokenReading, TokensOK
  <2>2. lists[l] \in Seq(Nat)
    BY <1>3 DEF Lists
  <2>3. \A q \in 1..n : TokenFits(l, q) => q \in 1..m \/ q = p
    <3>1. ASSUME NEW q \in 1..n, TokenFits(l, q), q # p PROVE q \in 1..m
      <4>1. q \in EventsOf("UpdatedTokenConfig")
        BY <3>1 DEF TokenFits
      <4> QED
        BY <1>1, <1>2, <3>1, <4>1
    <3> QED
      BY <3>1
  <2>4. 1..m \subseteq 1..n /\ p \in 1..n
    BY <1>1, <1>2
  <2>5. CASE TokenFits(l, p)
    <3>1. ToSet(x[l]) = ToSet(lists[l]) \cup {p}
      <4>1. x[l] = Append(lists[l], p)
        BY <1>4, <2>5
      <4>2. ToSet(Append(lists[l], p)) = ToSet(lists[l]) \cup {p}
        BY <1>3, <2>2, Appended
      <4> QED
        BY <4>1, <4>2
    <3> QED
      BY <2>1, <2>3, <2>4, <2>5, <3>1
  <2>6. CASE ~TokenFits(l, p)
    <3>1. x[l] = lists[l]
      BY <1>4, <2>6
    <3> QED
      BY <2>1, <2>3, <2>4, <2>6, <3>1
  <2> QED
    BY <2>5, <2>6
<1> QED
  BY <1>2, <1>4, <1>5 DEF TokenReading, TokensOK, x, n

-----------------------------------------------------------------------------
(* All updates of an answer.                                               *)

LEMMA GlobalTyped ==
  ASSUME NEW lists \in [Lists -> Seq(Nat)], NEW p \in Nat
  PROVE  StoreGlobalConfig(lists, p) \in [Lists -> Seq(Nat)]
<1> DEFINE key == log[p].key
<1>1. Accepts(lists, key, log[p].value) => key \in GlobalKeys
  BY DEF Accepts, GlobalKeys
<1>2. key \in GlobalKeys => key \in Lists
  BY DEF Lists
<1>3. "VERSION" \in Lists
  BY DEF Lists, GlobalKeys
<1>4. <<p>> \o lists["VERSION"] \in Seq(Nat)
  BY <1>3
<1> QED
  BY <1>1, <1>2, <1>4, PushedIs DEF StoreGlobalConfig, IsPushed

LEMMA GlobalsSteps ==
  ASSUME NEW lists \in [Lists -> Seq(Nat)], NEW events \in Seq(Nat)
  PROVE  \E after :
           /\ after[0] = lists /\ GlobalsStored(lists, events) = after[Len(events)]
           /\ \A i \in 1..Len(events) : after[i] = StoreGlobalConfig(after[i - 1], events[i])
<1> DEFINE n == Len(events)
           S == [Lists -> Seq(Nat)]
           step == [i \in 1..n |-> [s \in S |-> StoreGlobalConfig(s, events[i])]]
           Rec(F) == [i \in 0..n |-> IF i = 0 THEN lists ELSE StoreGlobalConfig(F[i - 1], events[i])]
           after == CHOOSE F : F = Rec(F)
<1>1. n \in Nat /\ \A i \in 1..n : events[i] \in Nat
  OBVIOUS
<1>2. step \in [1..n -> [S -> S]]
  <2> HIDE DEF S, n
  <2>1. \A i \in 1..n, s \in S : StoreGlobalConfig(s, events[i]) \in S
    BY <1>1, GlobalTyped DEF S
  <2> QED
    BY <2>1
<1>3. PICK F \in [0..n -> S] : F[0] = lists /\ \A i \in 1..n : F[i] = step[i][F[i - 1]]
  <2>1. lists \in S
    OBVIOUS
  <2> HIDE DEF n, step, S
  <2>2. \E F \in [0..n -> S] : Recurses(F, n, lists, step)
    BY <1>1, <1>2, <2>1, Iterates
  <2> QED
    BY <2>2 DEF Recurses
<1> HIDE DEF S
<1>4. F = Rec(F)
  <2>1. ASSUME NEW i \in 0..n PROVE F[i] = IF i = 0 THEN lists ELSE StoreGlobalConfig(F[i - 1], events[i])
    <3>1. CASE i = 0
      BY <1>3, <3>1
    <3>2. CASE i # 0
      <4>1. i \in 1..n /\ i - 1 \in 0..n
        BY <1>1, <3>2
      <4>2. F[i - 1] \in S
        BY <1>3, <4>1
      <4>3. F[i] = step[i][F[i - 1]]
        BY <1>3, <4>1
      <4>4. F[i] = StoreGlobalConfig(F[i - 1], events[i])
        BY <4>1, <4>2, <4>3
      <4> QED
        BY <3>2, <4>4
    <3> QED
      BY <3>1, <3>2
  <2>2. F = [i \in 0..n |-> F[i]]
    BY <1>3
  <2> QED
    BY <2>1, <2>2
<1>5. after = Rec(after)
  BY <1>4
<1>6. GlobalsStored(lists, events) = after[n]
  BY DEF GlobalsStored
<1> HIDE DEF after
<1>7. \A i \in 0..n : after[i] = IF i = 0 THEN lists ELSE StoreGlobalConfig(after[i - 1], events[i])
  BY <1>5
<1>8. 0 \in 0..n /\ \A i \in 1..n : i \in 0..n /\ i # 0
  BY <1>1
<1>9. after[0] = lists /\ \A i \in 1..n : after[i] = StoreGlobalConfig(after[i - 1], events[i])
  BY <1>7, <1>8
<1> QED
  BY <1>6, <1>9

LEMMA TokensSteps ==
  ASSUME NEW lists \in [Lists -> Seq(Nat)], NEW events \in Seq(Nat),
         \A i \in 1..Len(events) : events[i] \in EventsOf("UpdatedTokenConfig")
  PROVE  \E after :
           /\ after[0] = lists /\ TokensStored(lists, events) = after[Len(events)]
           /\ \A i \in 1..Len(events) : after[i] = StoreTokenConfig(after[i - 1], events[i])
<1> DEFINE n == Len(events)
           S == [Lists -> Seq(Nat)]
           step == [i \in 1..n |-> [s \in S |-> StoreTokenConfig(s, events[i])]]
           Rec(F) == [i \in 0..n |-> IF i = 0 THEN lists ELSE StoreTokenConfig(F[i - 1], events[i])]
           after == CHOOSE F : F = Rec(F)
<1>1. n \in Nat /\ \A i \in 1..n : events[i] \in Nat
  OBVIOUS
<1>2. step \in [1..n -> [S -> S]]
  <2>1. \A i \in 1..n : events[i] \in EventsOf("UpdatedTokenConfig")
    OBVIOUS
  <2> HIDE DEF S, n
  <2>2. \A i \in 1..n, s \in S : StoreTokenConfig(s, events[i]) \in S
    BY <1>1, <2>1, TokenStored DEF S
  <2> QED
    BY <2>2
<1>3. PICK F \in [0..n -> S] : F[0] = lists /\ \A i \in 1..n : F[i] = step[i][F[i - 1]]
  <2>1. lists \in S
    OBVIOUS
  <2> HIDE DEF n, step, S
  <2>2. \E F \in [0..n -> S] : Recurses(F, n, lists, step)
    BY <1>1, <1>2, <2>1, Iterates
  <2> QED
    BY <2>2 DEF Recurses
<1> HIDE DEF S
<1>4. F = Rec(F)
  <2>1. ASSUME NEW i \in 0..n PROVE F[i] = IF i = 0 THEN lists ELSE StoreTokenConfig(F[i - 1], events[i])
    <3>1. CASE i = 0
      BY <1>3, <3>1
    <3>2. CASE i # 0
      <4>1. i \in 1..n /\ i - 1 \in 0..n
        BY <1>1, <3>2
      <4>2. F[i - 1] \in S
        BY <1>3, <4>1
      <4>3. F[i] = step[i][F[i - 1]]
        BY <1>3, <4>1
      <4>4. F[i] = StoreTokenConfig(F[i - 1], events[i])
        BY <4>1, <4>2, <4>3
      <4> QED
        BY <3>2, <4>4
    <3> QED
      BY <3>1, <3>2
  <2>2. F = [i \in 0..n |-> F[i]]
    BY <1>3
  <2> QED
    BY <2>1, <2>2
<1>5. after = Rec(after)
  BY <1>4
<1>6. TokensStored(lists, events) = after[n]
  BY DEF TokensStored
<1> HIDE DEF after
<1>7. \A i \in 0..n : after[i] = IF i = 0 THEN lists ELSE StoreTokenConfig(after[i - 1], events[i])
  BY <1>5
<1>8. 0 \in 0..n /\ \A i \in 1..n : i \in 0..n /\ i # 0
  BY <1>1
<1>9. after[0] = lists /\ \A i \in 1..n : after[i] = StoreTokenConfig(after[i - 1], events[i])
  BY <1>7, <1>8
<1> QED
  BY <1>6, <1>9

(* What an answer has to be for its updates to be read in order: all that  *)
(* come before one of them are read up to m, or are before it in the list. *)
FollowsOn(name, events, m) ==
  \A i \in 1..Len(events) :
    /\ events[i] \in EventsOf(name)
    /\ \A q \in EventsOf(name) : q < events[i] => q <= m \/ \E j \in 1..(i - 1) : q = events[j]
ReadsOn(events, m, n) == n \in Nat /\ m <= n /\ \A i \in 1..Len(events) : events[i] <= n

GlobalsTo(lists, x, n) == Reading(x, n) /\ \A l \in TokenLists : x[l] = lists[l]
TokensTo(lists, x, n) == TokenReading(x, n) /\ \A l \in GlobalKeys : x[l] = lists[l]

LEMMA GlobalsRead ==
  ASSUME LogOK, NEW lists, NEW m, Reading(lists, m), NEW events \in Seq(Nat),
         FollowsOn("UpdatedGlobalConfig", events, m),
         \A i \in 1..Len(events) : ~ParseThrows(events[i])
  PROVE  \E n : GlobalsTo(lists, GlobalsStored(lists, events), n) /\ ReadsOn(events, m, n)
<1> DEFINE N == Len(events)
<1>1. N \in Nat /\ m \in Nat /\ lists \in [Lists -> Seq(Nat)]
  BY LogFacts DEF Reading
<1>2. PICK after : /\ after[0] = lists /\ GlobalsStored(lists, events) = after[N]
                   /\ \A i \in 1..N : after[i] = StoreGlobalConfig(after[i - 1], events[i])
  BY <1>1, GlobalsSteps DEF FollowsOn
<1> DEFINE At(k, n) == GlobalsTo(lists, after[k], n) /\ n \in Nat /\ m <= n /\ \A i \in 1..k : events[i] <= n
           T == {k \in 0..N : \E n : At(k, n)}
<1>3. 0 \in T
  <2>1. At(0, m)
    BY <1>1, <1>2 DEF GlobalsTo
  <2> QED
    BY <1>1, <2>1
<1>4. ASSUME NEW k \in 1..N, k - 1 \in T PROVE k \in T
  <2>1. PICK n : At(k - 1, n)
    BY <1>4
  <2> DEFINE p == events[k]
  <2>2. /\ p \in EventsOf("UpdatedGlobalConfig") /\ p \in Nat
      /\ ~ParseThrows(p)
        /\ \A q \in EventsOf("UpdatedGlobalConfig") : q < p => q <= m \/ \E j \in 1..(k - 1) : q = events[j]
    BY <1>4 DEF FollowsOn
  <2>3. \A q \in EventsOf("UpdatedGlobalConfig") : q < p => q <= n
    <3>1. \A q \in EventsOf("UpdatedGlobalConfig") : q \in Nat
      BY LogFacts DEF EventsOf
    <3>2. m \in Nat /\ n \in Nat /\ m <= n
      BY <1>1, <2>1
    <3>3. \A j \in 1..(k - 1) : events[j] <= n
      BY <2>1
    <3>4. ASSUME NEW q \in EventsOf("UpdatedGlobalConfig"), q < p PROVE q <= n
      <4>1. q <= m \/ \E j \in 1..(k - 1) : q = events[j]
        BY <2>2, <3>4
      <4>2. q \in Nat
        BY <3>1
      <4> QED
        BY <3>2, <3>3, <4>1, <4>2
    <3> QED
      BY <3>4
  <2>4. /\ Reading(after[k - 1], n) /\ n \in Nat /\ m <= n
        /\ \A i \in 1..(k - 1) : events[i] <= n
        /\ \A l \in TokenLists : after[k - 1][l] = lists[l]
    BY <2>1 DEF GlobalsTo
  <2>5. after[k] = StoreGlobalConfig(after[k - 1], p)
    BY <1>2, <1>4
  <2> HIDE DEF p, At
  <2>6. /\ Reading(StoreGlobalConfig(after[k - 1], p), Later(n, p))
        /\ \A l \in TokenLists : StoreGlobalConfig(after[k - 1], p)[l] = after[k - 1][l]
    BY <2>2, <2>3, <2>4, GlobalStep
  <2>7. Later(n, p) \in Nat /\ n <= Later(n, p) /\ p <= Later(n, p)
    BY <2>2, <2>4 DEF Later
  <2>8. GlobalsTo(lists, after[k], Later(n, p))
    BY <2>4, <2>5, <2>6 DEF GlobalsTo
  <2>9. \A i \in 1..k : events[i] <= Later(n, p)
    <3>1. \A i \in 1..k : i \in 1..(k - 1) \/ i = k
      BY <1>1, <1>4
    <3>2. \A i \in 1..k : events[i] \in Nat
      BY <1>1, <1>4
    <3>3. \A i \in 1..(k - 1) : i \in 1..k
      BY <1>1, <1>4
    <3> QED
      <4>1. ASSUME NEW i \in 1..(k - 1) PROVE events[i] <= Later(n, p)
        BY <2>4, <2>7, <3>2, <3>3
      <4>2. events[k] <= Later(n, p)
        BY <2>7 DEF p
      <4> QED
        BY <3>1, <4>1, <4>2
  <2>10. At(k, Later(n, p))
    BY <1>1, <2>4, <2>7, <2>8, <2>9 DEF At
  <2>11. k \in 0..N
    BY <1>1, <1>4
  <2> QED
    BY <2>10, <2>11
<1> HIDE DEF T
<1>5. N \in T
  <2> HIDE DEF N
  <2>1. \A k \in 0..N : k \in T
    BY <1>1, <1>3, <1>4, UpTo
  <2> QED
    BY <1>1, <2>1
<1>6. PICK n : At(N, n)
  BY <1>5 DEF T
<1> QED
  BY <1>2, <1>6 DEF ReadsOn

LEMMA TokensRead ==
  ASSUME LogOK, NEW lists, NEW m, TokenReading(lists, m), NEW events \in Seq(Nat),
         FollowsOn("UpdatedTokenConfig", events, m)
  PROVE  \E n : TokensTo(lists, TokensStored(lists, events), n) /\ ReadsOn(events, m, n)
<1> DEFINE N == Len(events)
<1>1. N \in Nat /\ m \in Nat /\ lists \in [Lists -> Seq(Nat)]
  BY LogFacts DEF TokenReading
<1>2. PICK after : /\ after[0] = lists /\ TokensStored(lists, events) = after[N]
                   /\ \A i \in 1..N : after[i] = StoreTokenConfig(after[i - 1], events[i])
  BY <1>1, TokensSteps DEF FollowsOn
<1> DEFINE At(k, n) == TokensTo(lists, after[k], n) /\ n \in Nat /\ m <= n /\ \A i \in 1..k : events[i] <= n
           T == {k \in 0..N : \E n : At(k, n)}
<1>3. 0 \in T
  <2>1. At(0, m)
    BY <1>1, <1>2 DEF TokensTo
  <2> QED
    BY <1>1, <2>1
<1>4. ASSUME NEW k \in 1..N, k - 1 \in T PROVE k \in T
  <2>1. PICK n : At(k - 1, n)
    BY <1>4
  <2> DEFINE p == events[k]
  <2>2. /\ p \in EventsOf("UpdatedTokenConfig") /\ p \in Nat
        /\ \A q \in EventsOf("UpdatedTokenConfig") : q < p => q <= m \/ \E j \in 1..(k - 1) : q = events[j]
    BY <1>4 DEF FollowsOn
  <2>3. \A q \in EventsOf("UpdatedTokenConfig") : q < p => q <= n
    <3>1. \A q \in EventsOf("UpdatedTokenConfig") : q \in Nat
      BY LogFacts DEF EventsOf
    <3>2. m \in Nat /\ n \in Nat /\ m <= n
      BY <1>1, <2>1
    <3>3. \A j \in 1..(k - 1) : events[j] <= n
      BY <2>1
    <3>4. ASSUME NEW q \in EventsOf("UpdatedTokenConfig"), q < p PROVE q <= n
      <4>1. q <= m \/ \E j \in 1..(k - 1) : q = events[j]
        BY <2>2, <3>4
      <4>2. q \in Nat
        BY <3>1
      <4> QED
        BY <3>2, <3>3, <4>1, <4>2
    <3> QED
      BY <3>4
  <2>4. /\ TokenReading(after[k - 1], n) /\ n \in Nat /\ m <= n
        /\ \A i \in 1..(k - 1) : events[i] <= n
        /\ \A l \in GlobalKeys : after[k - 1][l] = lists[l]
    BY <2>1 DEF TokensTo
  <2>5. after[k] = StoreTokenConfig(after[k - 1], p)
    BY <1>2, <1>4
  <2> HIDE DEF p, At
  <2>6. /\ TokenReading(StoreTokenConfig(after[k - 1], p), Later(n, p))
        /\ \A l \in GlobalKeys : StoreTokenConfig(after[k - 1], p)[l] = after[k - 1][l]
    BY <2>2, <2>3, <2>4, TokenStep
  <2>7. Later(n, p) \in Nat /\ n <= Later(n, p) /\ p <= Later(n, p)
    BY <2>2, <2>4 DEF Later
  <2>8. TokensTo(lists, after[k], Later(n, p))
    BY <2>4, <2>5, <2>6 DEF TokensTo
  <2>9. \A i \in 1..k : events[i] <= Later(n, p)
    <3>1. \A i \in 1..k : i \in 1..(k - 1) \/ i = k
      BY <1>1, <1>4
    <3>2. \A i \in 1..k : events[i] \in Nat
      BY <1>1, <1>4
    <3>3. \A i \in 1..(k - 1) : i \in 1..k
      BY <1>1, <1>4
    <3> QED
      <4>1. ASSUME NEW i \in 1..(k - 1) PROVE events[i] <= Later(n, p)
        BY <2>4, <2>7, <3>2, <3>3
      <4>2. events[k] <= Later(n, p)
        BY <2>7 DEF p
      <4> QED
        BY <3>1, <4>1, <4>2
  <2>10. At(k, Later(n, p))
    BY <1>1, <2>4, <2>7, <2>8, <2>9 DEF At
  <2>11. k \in 0..N
    BY <1>1, <1>4
  <2> QED
    BY <2>10, <2>11
<1> HIDE DEF T
<1>5. N \in T
  <2> HIDE DEF N
  <2>1. \A k \in 0..N : k \in T
    BY <1>1, <1>3, <1>4, UpTo
  <2> QED
    BY <1>1, <2>1
<1>6. PICK n : At(N, n)
  BY <1>5 DEF T
<1> QED
  BY <1>2, <1>6 DEF ReadsOn

(* The events before the first that throws.                                *)
LEMMA UntilThrowIs ==
  ASSUME NEW events \in Seq(Nat)
  PROVE  LET kept == UntilThrow(events) IN
         /\ kept \in Seq(Nat) /\ Len(kept) <= Len(events)
         /\ \A i \in 1..Len(kept) : kept[i] = events[i] /\ ~ParseThrows(kept[i])
         /\ (\A i \in 1..Len(events) : ~ParseThrows(events[i])) => kept = events
<1> DEFINE n == Len(events)
           I == {i \in 1..n : ParseThrows(events[i])}
           first == SelectInSeq(events, ParseThrows)
           kept == UntilThrow(events)
<1>1. n \in Nat /\ \A i \in 1..n : events[i] \in Nat
  OBVIOUS
<1>2. first = IF I # {} THEN Min(I) ELSE 0
  BY DEF SelectInSeq
<1>3. kept = IF first = 0 THEN events ELSE SubSeq(events, 1, first - 1)
  BY DEF UntilThrow
<1> HIDE DEF n, first, kept
<1>4. CASE I = {}
  <2>1. kept = events
    BY <1>2, <1>3, <1>4
  <2>2. \A i \in 1..n : ~ParseThrows(events[i])
    BY <1>4
  <2> HIDE DEF I
  <2> QED
    BY <1>1, <2>1, <2>2 DEF n, kept
<1>5. CASE I # {}
  <2>1. first \in I /\ \A i \in I : first <= i
    <3>1. \E x \in I : \A i \in I : x <= i
      <4>1. I \in SUBSET Nat
        BY <1>1
      <4> HIDE DEF I
      <4> QED
        BY <1>5, <4>1, LeastNumber
    <3>2. Min(I) \in I /\ \A i \in I : Min(I) <= i
      <4> HIDE DEF I
      <4> QED
        BY <3>1 DEF Min
    <3> HIDE DEF I
    <3> QED
      BY <1>2, <1>5, <3>2
  <2>2. first \in 1..n /\ ParseThrows(events[first])
    BY <2>1
  <2>3. \A i \in 1..n : i < first => ~ParseThrows(events[i])
    BY <1>1, <2>1, <2>2
  <2>4. kept = SubSeq(events, 1, first - 1)
    BY <1>1, <1>3, <2>2
  <2>5. /\ kept \in Seq(Nat) /\ Len(kept) = first - 1
        /\ \A i \in 1..(first - 1) : kept[i] = events[i]
    <3>1. \A i \in 1..(first - 1) : i \in 1..n /\ events[i] \in Nat
      BY <1>1, <2>2
    <3>2. first - 1 \in Nat /\ 1 \in Int /\ first - 1 \in Int
      BY <1>1, <2>2
    <3> DEFINE b == first - 1
    <3>3. b \in Nat
      BY <3>2
    <3>4. \A i \in 1..b : events[i] \in Nat
      BY <3>1
    <3> HIDE DEF b
    <3>5. SubSeq(events, 1, b) \in Seq(Nat) /\ Len(SubSeq(events, 1, b)) = b
          /\ \A i \in 1..b : SubSeq(events, 1, b)[i] = events[i]
      BY <3>3, <3>4
    <3> QED
      BY <2>4, <3>5 DEF b
  <2>6. \A i \in 1..Len(kept) : i \in 1..n /\ i < first
    BY <1>1, <2>2, <2>5
  <2> QED
    BY <1>1, <2>2, <2>3, <2>5, <2>6 DEF n, kept
<1> QED
  BY <1>4, <1>5

-----------------------------------------------------------------------------
(* An answer follows on from what is known.                                *)

LEMMA AnswerIs ==
  ASSUME LogOK, WindowOK, NEW u \in Callers, update[u].stage = "query",
         NEW name, NEW m \in 0..Len(log), Reached(name, m)
  PROVE  LET events == Answer(u, name) IN
         /\ events \in Seq(Nat) /\ FollowsOn(name, events, m)
         /\ \A p \in EventsOf(name) : BlockAt(p) <= update[u].to =>
              p <= m \/ \E i \in 1..Len(events) : p = events[i]
<1> DEFINE events == Answer(u, name)
           from == update[u].from
           to == update[u].to
           ps == EventsOf(name)
<1>1. from \in Nat /\ to \in Nat /\ from <= to
  <2>1. update[u] \in UpdateRecords /\ from <= to
    BY DEF WindowOK
  <2>2. update[u] \in [stage : {"query"}, from : 0..LastBlock, to : 0..LastBlock]
    BY <2>1 DEF UpdateRecords, NoUpdate
  <2>3. LastBlock \in Nat
    BY BoundAssumption
  <2> QED
    BY <2>1, <2>2, <2>3
<1>2. IsLog(log) /\ DOMAIN log = 1..Len(log) /\ Len(log) \in Nat
      /\ \A p \in DOMAIN log : BlockAt(p) \in Nat
  BY LogFacts DEF IsLog, BlockAt
<1>3. ps \in SUBSET DOMAIN log
  BY DEF EventsOf
<1>4. /\ events \in Seq(Nat) /\ Increasing(events)
      /\ ToSet(events) = {p \in ps : from <= BlockAt(p) /\ BlockAt(p) <= to}
  <2>1. events = PaginatedEventQuery(log, ps, from, to)
    BY DEF Answer
  <2> HIDE DEF ps, from, to, events
  <2>2. /\ events \in Seq(Nat) /\ Increasing(events)
        /\ ToSet(events) = Between(log, ps, from, to)
    BY <1>1, <1>2, <1>3, <2>1, QueryIs
  <2> QED
    BY <2>2 DEF Between, BlockAt
<1> HIDE DEF events
<1>5. /\ \A p \in ToSet(events) : \E i \in 1..Len(events) : p = events[i]
      /\ Len(events) \in Nat /\ \A i \in 1..Len(events) : events[i] \in ToSet(events)
  BY <1>4, SetOfNonempty
<1>6. ASSUME NEW p \in ps, BlockAt(p) <= to
      PROVE  p <= m \/ p \in ToSet(events)
  <2>1. CASE from <= BlockAt(p)
    BY <1>4, <1>6, <2>1
  <2>2. CASE ~(from <= BlockAt(p))
    <3>1. BlockAt(p) < from
      BY <1>1, <1>2, <1>3, <2>2
    <3>2. Known(BlockAt(p))
      BY <3>1 DEF Known
    <3> QED
      BY <3>2 DEF Reached
  <2> QED
    BY <2>1, <2>2
<1>7. FollowsOn(name, events, m)
  <2>1. SUFFICES ASSUME NEW i \in 1..Len(events)
                 PROVE  /\ events[i] \in ps
                        /\ \A q \in ps : q < events[i] =>
                             q <= m \/ \E j \in 1..(i - 1) : q = events[j]
    BY DEF FollowsOn
  <2>2. events[i] \in ps /\ BlockAt(events[i]) <= to
    BY <1>4, <1>5
  <2>3. ASSUME NEW q \in ps, q < events[i], ~(q <= m)
        PROVE  \E j \in 1..(i - 1) : q = events[j]
    <3>1. BlockAt(q) <= BlockAt(events[i])
      BY <1>2, <1>3, <2>2, <2>3 DEF IsLog, BlockAt
    <3>2. BlockAt(q) <= to
      BY <1>1, <1>2, <1>3, <2>2, <3>1
    <3>3. PICK j \in 1..Len(events) : q = events[j]
      BY <1>5, <1>6, <2>3, <3>2
    <3>4. j < i
      <4>1. events[i] \in Nat /\ q \in Nat
        BY <1>2, <1>3, <2>2
      <4>2. i < j => events[i] < events[j]
        BY <1>4 DEF Increasing
      <4> QED
        BY <1>5, <2>3, <3>3, <4>1, <4>2
    <3> QED
      BY <1>5, <3>3, <3>4
  <2> QED
    BY <2>2, <2>3
<1> QED
  BY <1>4, <1>5, <1>6, <1>7 DEF events

LEMMA PrefixFollowsOn ==
  ASSUME NEW events \in Seq(Nat), NEW name, NEW m, FollowsOn(name, events, m),
         NEW kept \in Seq(Nat), Len(kept) <= Len(events), \A i \in 1..Len(kept) : kept[i] = events[i]
  PROVE  FollowsOn(name, kept, m)
<1>1. Len(kept) \in Nat /\ Len(events) \in Nat
  OBVIOUS
<1>2. \A i \in 1..Len(kept) : i \in 1..Len(events) /\ \A j \in 1..(i - 1) : j \in 1..Len(kept)
  BY <1>1
<1>3. ASSUME NEW i \in 1..Len(kept)
      PROVE  /\ kept[i] \in EventsOf(name)
             /\ \A q \in EventsOf(name) :
                  q < kept[i] => q <= m \/ \E j \in 1..(i - 1) : q = kept[j]
  <2>1. kept[i] = events[i] /\ i \in 1..Len(events)
    BY <1>2
  <2>2. events[i] \in EventsOf(name)
    BY <2>1 DEF FollowsOn
  <2>3. \A j \in 1..(i - 1) : kept[j] = events[j]
    BY <1>2
  <2>4. ASSUME NEW q \in EventsOf(name), q < kept[i]
        PROVE  q <= m \/ \E j \in 1..(i - 1) : q = kept[j]
    <3>1. q < events[i]
      BY <2>1, <2>4
    <3>2. q <= m \/ \E j \in 1..(i - 1) : q = events[j]
      BY <2>1, <3>1 DEF FollowsOn
    <3> QED
      BY <2>3, <3>2
  <2> QED
    BY <2>1, <2>2, <2>4
<1> QED
  BY <1>3 DEF FollowsOn

(* The memory and the dictionary that an answer leaves behind.             *)
ReadUpTo(name, n, b) == \A p \in EventsOf(name) : BlockAt(p) <= b => p <= n

LEMMA AfterAnswer ==
  ASSUME LogOK, WindowOK, MemoryOK, NEW u \in Callers, update[u].stage = "query"
  PROVE  LET x == AfterAll(u) IN
         /\ \E n : /\ Reading(x, n) /\ Reached("UpdatedGlobalConfig", n)
                   /\ ~Throws(u) => ReadUpTo("UpdatedGlobalConfig", n, update[u].to)
         /\ \E n : /\ TokenReading(x, n) /\ Reached("UpdatedTokenConfig", n)
                   /\ ReadUpTo("UpdatedTokenConfig", n, update[u].to)
<1> DEFINE tokens == Answer(u, "UpdatedTokenConfig")
           globals == Answer(u, "UpdatedGlobalConfig")
           kept == UntilThrow(globals)
           y == AfterTokens(u)
           x == AfterAll(u)
           to == update[u].to
<1>1. PICK g \in 0..Len(log) : GlobalsOK(updates, g) /\ Reached("UpdatedGlobalConfig", g)
  BY DEF MemoryOK
<1>2. PICK t \in 0..Len(log) : TokensOK(updates, t) /\ Reached("UpdatedTokenConfig", t)
  BY DEF MemoryOK
<1>3. Reading(updates, g) /\ TokenReading(updates, t)
  BY <1>1, <1>2 DEF MemoryOK, Reading, TokenReading, Lists
<1>4. /\ tokens \in Seq(Nat) /\ FollowsOn("UpdatedTokenConfig", tokens, t)
      /\ \A p \in EventsOf("UpdatedTokenConfig") : BlockAt(p) <= to =>
           p <= t \/ \E i \in 1..Len(tokens) : p = tokens[i]
  BY <1>2, AnswerIs
<1>5. /\ globals \in Seq(Nat) /\ FollowsOn("UpdatedGlobalConfig", globals, g)
      /\ \A p \in EventsOf("UpdatedGlobalConfig") : BlockAt(p) <= to =>
           p <= g \/ \E i \in 1..Len(globals) : p = globals[i]
  BY <1>1, AnswerIs
<1>6. ~Throws(u) => \A i \in 1..Len(globals) : ~ParseThrows(globals[i])
  BY <1>5, SetOfNonempty DEF Throws
<1>7. y = TokensStored(updates, tokens) /\ x = GlobalsStored(y, kept)
  BY DEF AfterTokens, AfterAll
<1>8. /\ \A p \in EventsOf("UpdatedTokenConfig") : p \in Nat
      /\ \A p \in EventsOf("UpdatedGlobalConfig") : p \in Nat
      /\ Len(log) \in Nat
  BY LogFacts DEF EventsOf
<1> HIDE DEF tokens, globals, x, y, kept
<1>9. PICK n2 : TokensTo(updates, y, n2) /\ ReadsOn(tokens, t, n2)
  BY <1>3, <1>4, <1>7, TokensRead
<1>10. Reading(y, g)
  <2>1. y \in [Lists -> Seq(Nat)] /\ \A key \in GlobalKeys : y[key] = updates[key]
    BY <1>9 DEF TokensTo, TokenReading
  <2>2. "CHAIN_ID_INDICES" \in GlobalKeys /\ "VERSION" \in GlobalKeys
    BY DEF GlobalKeys
  <2> QED
    BY <1>3, <2>1, <2>2 DEF Reading, GlobalsOK, OrderOK
<1>11. /\ kept \in Seq(Nat) /\ Len(kept) <= Len(globals)
       /\ \A i \in 1..Len(kept) : kept[i] = globals[i] /\ ~ParseThrows(kept[i])
       /\ ~Throws(u) => kept = globals
  BY <1>5, <1>6, UntilThrowIs DEF kept
<1>12. FollowsOn("UpdatedGlobalConfig", kept, g)
  BY <1>5, <1>11, PrefixFollowsOn
<1>13. PICK n1 : GlobalsTo(y, x, n1) /\ ReadsOn(kept, g, n1)
  BY <1>7, <1>10, <1>11, <1>12, GlobalsRead
<1>14. Reading(x, n1) /\ g <= n1 /\ n1 \in Nat /\ \A i \in 1..Len(kept) : kept[i] <= n1
  BY <1>13 DEF GlobalsTo, ReadsOn
<1>15. Reached("UpdatedGlobalConfig", n1)
  BY <1>1, <1>8, <1>14 DEF Reached
<1>16. ~Throws(u) => ReadUpTo("UpdatedGlobalConfig", n1, to)
  <2>1. SUFFICES ASSUME ~Throws(u), NEW p \in EventsOf("UpdatedGlobalConfig"), BlockAt(p) <= to
                 PROVE  p <= n1
    BY DEF ReadUpTo
  <2>2. p <= g \/ \E i \in 1..Len(kept) : p = kept[i]
    BY <1>5, <1>11, <2>1
  <2> QED
    BY <1>8, <1>14, <2>2
<1>17. TokenReading(y, n2) /\ t <= n2 /\ n2 \in Nat /\ \A i \in 1..Len(tokens) : tokens[i] <= n2
  BY <1>9 DEF TokensTo, ReadsOn
<1>18. TokenReading(x, n2)
  BY <1>13, <1>14, <1>17 DEF GlobalsTo, TokenReading, TokensOK, Reading
<1>19. Reached("UpdatedTokenConfig", n2)
  BY <1>2, <1>8, <1>17 DEF Reached
<1>20. ReadUpTo("UpdatedTokenConfig", n2, to)
  <2>1. SUFFICES ASSUME NEW p \in EventsOf("UpdatedTokenConfig"), BlockAt(p) <= to
                 PROVE  p <= n2
    BY DEF ReadUpTo
  <2>2. p <= t \/ \E i \in 1..Len(tokens) : p = tokens[i]
    BY <1>4, <2>1
  <2> QED
    BY <1>8, <1>17, <2>2
<1> QED
  BY <1>14, <1>15, <1>16, <1>18, <1>19, <1>20 DEF x, to

(* No version up to a block that is read is above the last one stored.     *)
LEMMA VersionsBelow ==
  ASSUME LogOK, NEW lists, NEW m, Reading(lists, m),
         NEW p \in EventsOf("UpdatedGlobalConfig"), log[p].key = "VERSION", p <= m,
         log[p].value # NotANumber
  PROVE  /\ LastVersion(lists) \in Int /\ log[p].value \in Int
         /\ log[p].value <= LastVersion(lists)
<1> DEFINE versions == lists["VERSION"]
           new == log[p].value
<1>1. /\ \A q \in ToSet(versions) : log[q].value \in Int /\ log[q].value <= LastVersion(lists)
      /\ \A q \in 1..m : Fits("VERSION", q, ToSet(versions)) => q \in ToSet(versions)
      /\ LastVersion(lists) \in Int /\ LastVersion(lists) >= 0
  BY LastVersionIs
<1>2. new \in Int /\ p \in 1..m
  BY GlobalFacts, LogFacts DEF Reading
<1> HIDE DEF versions
<1>3. new <= LastVersion(lists)
  <2>1. CASE p \in ToSet(versions)
    BY <1>1, <2>1
  <2>2. CASE p \notin ToSet(versions)
    <3>1. ~Fits("VERSION", p, ToSet(versions))
      BY <1>1, <1>2, <2>2
    <3>2. ~(new > 0) \/ \E q \in ToSet(versions) : ~(log[q].value < new)
      BY <3>1 DEF Fits, Valid, GoesBefore, DefaultVersion
    <3> QED
      BY <1>1, <1>2, <3>2
  <2> QED
    BY <2>1, <2>2
<1> QED
  BY <1>1, <1>2, <1>3

-----------------------------------------------------------------------------
(* The steps.                                                              *)

LEMMA InitHolds == Init => IInv
<1> SUFFICES ASSUME Init PROVE IInv
  OBVIOUS
<1>1. LastBlock \in Nat
  BY BoundAssumption
<1>2. LogOK
  BY <1>1 DEF Init, LogOK
<1>3. WindowOK
  <2>1. NoUpdate \in UpdateRecords
    BY DEF UpdateRecords
  <2>2. NoUpdate.stage = "idle"
    BY DEF NoUpdate
  <2>3. update \in [Callers -> UpdateRecords] /\ \A u \in Callers : update[u].stage = "idle"
    BY <2>1, <2>2 DEF Init
  <2>4. \A u \in Callers : update[u].stage # "blockNumber" /\ update[u].stage # "query"
    BY <2>3
  <2>5. \A u \in Callers : update[u].stage \notin {"blockNumber", "query"}
    BY <2>4
  <2>6. 0 \in 0..(0 + 1) /\ 0 \in 0..0
    OBVIOUS
  <2>7. head = 0 /\ firstBlockToSearch = 0 /\ latestBlockSearched = 0 /\ isUpdated = FALSE /\ chainId = None
    BY DEF Init
  <2> HIDE DEF UpdateRecords
  <2> QED
    BY <2>3, <2>4, <2>5, <2>6, <2>7 DEF WindowOK
<1>4. DOMAIN log = {} /\ Len(log) = 0
  BY DEF Init
<1>5. \A name : EventsOf(name) = {}
  BY <1>4 DEF EventsOf
<1>6. \A l \in Lists : updates[l] = <<>> /\ ToSet(updates[l]) = {}
  <2>1. \A l \in Lists : updates[l] = <<>>
    BY DEF Init, Lists
  <2>2. ToSet(<<>>) = {}
    BY DEF ToSet
  <2> QED
    BY <2>1, <2>2
<1>7. \A l \in GlobalKeys \cup TokenLists : l \in Lists
  BY DEF Lists
<1>8. MemoryOK
  <2>1. updates \in [GlobalKeys \cup TokenLists -> Seq(Nat)]
    BY DEF Init
  <2>2. 1..0 = {} /\ 0 \in 0..Len(log)
    BY <1>4
  <2>3. GlobalsOK(updates, 0) /\ TokensOK(updates, 0)
    BY <1>6, <1>7, <2>2 DEF GlobalsOK, TokensOK
  <2>4. \A name : Reached(name, 0)
    BY <1>5 DEF Reached
  <2>5. OrderOK(updates)
    <3>1. "CHAIN_ID_INDICES" \in Lists /\ "VERSION" \in Lists
      BY DEF Lists, GlobalKeys
    <3>2. Len(updates["VERSION"]) = 0
      BY <1>6, <3>1
    <3> QED
      BY <1>6, <3>1, <3>2 DEF OrderOK
  <2> QED
    BY <2>1, <2>2, <2>3, <2>4, <2>5 DEF MemoryOK
<1>9. DerivedOK
  <2>1. rateModels = <<>> /\ ~isUpdated /\ ToSet(<<>>) = {}
    BY DEF Init, ToSet
  <2>2. 1..0 = {} /\ 0 \in 0..Len(log)
    BY <1>4
  <2> QED
    BY <2>1, <2>2 DEF DerivedOK
<1> QED
  BY <1>2, <1>3, <1>8, <1>9 DEF IInv

(* The new event is after all that the client knows, and the old ones are  *)
(* what they were.                                                         *)
LEMMA LogGrows ==
  ASSUME LogOK, Emit
  PROVE  /\ LogOK'
         /\ Len(log)' = Len(log) + 1 /\ Len(log) \in Nat
         /\ \A p \in 1..Len(log) : log'[p] = log[p]
         /\ \A p \in 1..Len(log)' : p \in 1..Len(log) \/ log'[p].block = head + 1
         /\ \A name, p : p \in EventsOf(name) => p \in EventsOf(name)' /\ p \in 1..Len(log)
         /\ \A name, p : p \in EventsOf(name)' =>
              \/ p \in EventsOf(name) /\ BlockAt(p)' = BlockAt(p)
              \/ p = Len(log) + 1 /\ BlockAt(p)' = head + 1
<1>1. PICK e \in GlobalUpdates \cup TokenUpdates : log' = Append(log, e)
  BY DEF Emit
<1>2. LastBlock \in Nat /\ head \in 0..LastBlock /\ head < LastBlock /\ head' = head
  BY BoundAssumption DEF LogOK, Emit
<1>3. e \in EventRecords /\ e.block = head + 1
  <2>1. head + 1 \in 1..LastBlock
    BY <1>2
  <2>2. CASE e \in GlobalUpdates
    BY <2>1, <2>2 DEF GlobalUpdates, EventRecords
  <2>3. CASE e \in TokenUpdates
    BY <2>1, <2>3 DEF TokenUpdates, EventRecords
  <2> QED
    BY <2>2, <2>3
<1>4. log \in Seq(EventRecords) /\ Len(log) \in Nat /\ DOMAIN log = 1..Len(log)
  BY DEF LogOK
<1>5. /\ log' \in Seq(EventRecords) /\ Len(log') = Len(log) + 1
      /\ \A p \in 1..Len(log) : log'[p] = log[p]
      /\ log'[Len(log) + 1] = e
  <2> HIDE DEF EventRecords
  <2> QED
    BY <1>1, <1>3, <1>4, Appended
<1>6. DOMAIN log' = 1..(Len(log) + 1)
  BY <1>5
<1>7. \A p \in 1..(Len(log) + 1) : p \in 1..Len(log) \/ p = Len(log) + 1
  BY <1>4
<1>8. \A p \in 1..Len(log) : log[p].block \in Nat /\ log[p].block <= head + 1
  BY <1>4, LogFacts DEF LogOK, BlockAt
<1>9. LogOK'
  <2>1. \A p \in DOMAIN log' : log'[p].block <= head + 1
    BY <1>2, <1>3, <1>5, <1>6, <1>7, <1>8
  <2>2. ASSUME NEW p \in DOMAIN log', NEW q \in DOMAIN log', p <= q
        PROVE  log'[p].block <= log'[q].block
    <3>1. CASE q \in 1..Len(log)
      <4>1. p \in 1..Len(log)
        BY <1>4, <1>6, <2>2, <3>1
      <4> QED
        BY <1>4, <1>5, <2>2, <3>1, <4>1 DEF LogOK
    <3>2. CASE q = Len(log) + 1
      BY <1>3, <1>5, <2>1, <3>2
    <3> QED
      BY <1>6, <1>7, <3>1, <3>2
  <2> QED
    BY <1>2, <1>5, <2>1, <2>2 DEF LogOK
<1>10. \A name, p : p \in EventsOf(name) => p \in EventsOf(name)' /\ p \in 1..Len(log)
  <2>1. \A p \in 1..Len(log) : p \in 1..(Len(log) + 1)
    BY <1>4
  <2> QED
    BY <1>4, <1>5, <1>6, <2>1 DEF EventsOf
<1>11. \A name, p : p \in EventsOf(name)' =>
         \/ p \in EventsOf(name) /\ BlockAt(p)' = BlockAt(p)
         \/ p = Len(log) + 1 /\ BlockAt(p)' = head + 1
  <2> SUFFICES ASSUME NEW name, NEW p, p \in EventsOf(name)'
               PROVE  \/ p \in EventsOf(name) /\ BlockAt(p)' = BlockAt(p)
                      \/ p = Len(log) + 1 /\ BlockAt(p)' = head + 1
    OBVIOUS
  <2>1. p \in 1..(Len(log) + 1) /\ log'[p].name = name
    BY <1>6 DEF EventsOf
  <2>2. CASE p \in 1..Len(log)
    BY <1>4, <1>5, <2>1, <2>2 DEF EventsOf, BlockAt
  <2>3. CASE p = Len(log) + 1
    BY <1>3, <1>5, <2>3 DEF BlockAt
  <2> QED
    BY <1>7, <2>1, <2>2, <2>3
<1>12. \A p \in 1..Len(log)' : p \in 1..Len(log) \/ log'[p].block = head + 1
  BY <1>3, <1>5, <1>7
<1> QED
  BY <1>4, <1>5, <1>9, <1>10, <1>11, <1>12

(* What is said of old events stays true.                                  *)
LEMMA OldEvents ==
  ASSUME LogOK, Emit, NEW p \in 1..Len(log)
  PROVE  /\ \A key : \A accepted \in SUBSET (1..Len(log)) : Fits(key, p, accepted)' <=> Fits(key, p, accepted)
         /\ \A l : TokenFits(l, p)' <=> TokenFits(l, p)
<1>1. /\ \A q \in 1..Len(log) : log'[q] = log[q]
      /\ \A name : p \in EventsOf(name)' <=> p \in EventsOf(name)
  <2>1. Len(log) \in Nat
    BY LogGrows
  <2>2. p # Len(log) + 1
    BY <2>1
  <2> QED
    BY <2>2, LogGrows
<1>2. \A key : Valid(key, p)' <=> Valid(key, p)
  BY <1>1 DEF Valid
<1>3. \A key : \A q \in 1..Len(log) : GoesBefore(key, q, p)' <=> GoesBefore(key, q, p)
  BY <1>1 DEF GoesBefore
<1>4. \A key : \A accepted \in SUBSET (1..Len(log)) : Fits(key, p, accepted)' <=> Fits(key, p, accepted)
  <2> SUFFICES ASSUME NEW key, NEW accepted \in SUBSET (1..Len(log))
               PROVE  Fits(key, p, accepted)' <=> Fits(key, p, accepted)
    OBVIOUS
  <2>1. \A q \in accepted : GoesBefore(key, q, p)' <=> GoesBefore(key, q, p)
    BY <1>3
  <2> QED
    BY <1>2, <2>1 DEF Fits
<1>5. \A l : TokenFits(l, p)' <=> TokenFits(l, p)
  BY <1>1 DEF TokenFits
<1> QED
  BY <1>4, <1>5

LEMMA NextBlockUnknown ==
  ASSUME LogOK, WindowOK
  PROVE  ~Known(head + 1)
<1>1. head \in Nat /\ firstBlockToSearch \in Int /\ latestBlockSearched \in Int
      /\ firstBlockToSearch <= head + 1 /\ latestBlockSearched <= head
  BY BoundAssumption DEF LogOK, WindowOK
<1>2. ASSUME NEW u \in Callers, update[u].stage \in {"blockNumber", "query"}
      PROVE  update[u].from \in Int /\ update[u].from <= head + 1
  <2>1. update[u] \in UpdateRecords /\ update[u].from <= head + 1
    BY <1>2 DEF WindowOK
  <2>2. LastBlock \in Nat
    BY BoundAssumption
  <2>3. update[u].from \in Int
    BY <1>2, <2>1, <2>2 DEF UpdateRecords, NoUpdate
  <2> QED
    BY <2>1, <2>3
<1> QED
  BY <1>1, <1>2 DEF Known

LEMMA EmitStep ==
  ASSUME IInv, Emit
  PROVE  IInv'
<1>1. LogOK /\ WindowOK /\ MemoryOK /\ DerivedOK
  BY DEF IInv
<1>2. UNCHANGED <<head, window, updates, rateModels, hasLatestConfigStoreVersion, update>>
  BY DEF Emit, client
<1>3. UNCHANGED <<firstBlockToSearch, latestBlockSearched, isUpdated, chainId>>
  BY <1>2 DEF window
<1>4. /\ LogOK' /\ Len(log)' = Len(log) + 1 /\ Len(log) \in Nat
      /\ \A p \in 1..Len(log) : log'[p] = log[p]
      /\ \A name, p : p \in EventsOf(name) => p \in EventsOf(name)' /\ p \in 1..Len(log)
      /\ \A name, p : p \in EventsOf(name)' =>
           \/ p \in EventsOf(name) /\ BlockAt(p)' = BlockAt(p)
           \/ p = Len(log) + 1 /\ BlockAt(p)' = head + 1
  BY <1>1, LogGrows
<1>5. WindowOK'
  BY <1>1, <1>2, <1>3 DEF WindowOK
<1>6. \A b : Known(b)' <=> Known(b)
  BY <1>2, <1>3 DEF Known
<1>7. \A m \in 0..Len(log) : m \in 0..Len(log)' /\ 1..m \subseteq 1..Len(log)
  BY <1>4
<1>8. ASSUME NEW name, NEW m, Reached(name, m) PROVE Reached(name, m)'
  <2>1. ~Known(head + 1)
    BY <1>1, NextBlockUnknown
  <2>2. SUFFICES ASSUME NEW p \in EventsOf(name)', Known(BlockAt(p))' PROVE p <= m
    BY DEF Reached
  <2>3. Known(BlockAt(p)')
    BY <1>2, <1>3, <2>2 DEF Known
  <2>4. p \in EventsOf(name) /\ BlockAt(p)' = BlockAt(p)
    BY <1>4, <2>1, <2>3
  <2> QED
    BY <1>8, <2>3, <2>4 DEF Reached
<1>9. MemoryOK'
  <2>1. PICK g \in 0..Len(log) : GlobalsOK(updates, g) /\ Reached("UpdatedGlobalConfig", g)
    BY <1>1 DEF MemoryOK
  <2>2. PICK t \in 0..Len(log) : TokensOK(updates, t) /\ Reached("UpdatedTokenConfig", t)
    BY <1>1 DEF MemoryOK
  <2>3. \A key \in GlobalKeys : ToSet(updates[key]) \subseteq 1..g
    BY <2>1 DEF GlobalsOK
  <2>4. GlobalsOK(updates, g)'
    <3>1. SUFFICES ASSUME NEW key \in GlobalKeys
                   PROVE  ToSet(updates[key]) = {p \in 1..g : Fits(key, p, ToSet(updates[key]))'}
      BY <1>2 DEF GlobalsOK
    <3> DEFINE A == ToSet(updates[key])
    <3>2. A \in SUBSET (1..Len(log)) /\ A' = A
      BY <1>2, <1>7, <2>3
    <3>3. \A p \in 1..g : p \in 1..Len(log)
      BY <1>7
    <3>4. \A p \in 1..g : Fits(key, p, A)' <=> Fits(key, p, A)
      <4> HIDE DEF A
      <4>1. \A p \in 1..g : \A accepted \in SUBSET (1..Len(log)) :
              Fits(key, p, accepted)' <=> Fits(key, p, accepted)
        BY <1>1, <3>3, OldEvents
      <4> QED
        BY <3>2, <4>1 DEF Fits
    <3> QED
      BY <2>1, <3>4 DEF GlobalsOK
  <2>5. TokensOK(updates, t)'
    <3>1. \A l, p : p \in 1..t => (TokenFits(l, p)' <=> TokenFits(l, p))
      BY <1>1, <1>7, OldEvents
    <3> QED
      BY <1>2, <2>2, <3>1 DEF TokensOK
  <2>6. OrderOK(updates)'
    <3>1. updates \in [Lists -> Seq(Nat)] /\ "CHAIN_ID_INDICES" \in GlobalKeys /\ "VERSION" \in GlobalKeys
          /\ \A key \in GlobalKeys : key \in Lists
      BY <1>1 DEF MemoryOK, Lists, GlobalKeys
    <3>2. \A key \in GlobalKeys : updates[key] \in Seq(Nat)
      BY <3>1
    <3>3. \A key \in GlobalKeys : \A q \in ToSet(updates[key]) : q \in 1..Len(log) /\ log'[q] = log[q]
      BY <1>4, <1>7, <2>3
    <3>4. \A key \in GlobalKeys : updates[key] # <<>> => Last(updates[key]) \in ToSet(updates[key])
      BY <3>2, SetOfNonempty
    <3>5. \A key \in GlobalKeys : \A i \in 1..Len(updates[key]) : updates[key][i] \in ToSet(updates[key])
      BY <3>2, SetOfNonempty
    <3>6. \A key \in GlobalKeys : \A q \in ToSet(updates[key]) : updates[key] # <<>>
      BY <3>2, SetOfNonempty
    <3>7. OrderOK(updates)
      BY <1>1 DEF MemoryOK
    <3>8. \A q \in ToSet(updates["CHAIN_ID_INDICES"]) :
            IsPrefix(log'[q].value, log'[Last(updates["CHAIN_ID_INDICES"])].value)
      BY <3>1, <3>3, <3>4, <3>6, <3>7 DEF OrderOK
    <3>9. \A i, j \in 1..Len(updates["VERSION"]) : i < j =>
            /\ updates["VERSION"][j] < updates["VERSION"][i]
            /\ log'[updates["VERSION"][j]].value < log'[updates["VERSION"][i]].value
      BY <3>1, <3>3, <3>5, <3>7 DEF OrderOK
    <3> QED
      BY <1>2, <3>8, <3>9 DEF OrderOK
  <2>7. updates' \in [GlobalKeys \cup TokenLists -> Seq(Nat)]
    BY <1>1, <1>2 DEF MemoryOK
  <2>8. Reached("UpdatedGlobalConfig", g)' /\ Reached("UpdatedTokenConfig", t)'
    BY <1>8, <2>1, <2>2
  <2>9. g \in 0..Len(log)' /\ t \in 0..Len(log)'
    BY <1>7
  <2> QED
    BY <2>4, <2>5, <2>6, <2>7, <2>8, <2>9 DEF MemoryOK
<1>10. \A name, p : p \in EventsOf(name)' /\ BlockAt(p)' <= latestBlockSearched =>
         p \in EventsOf(name) /\ BlockAt(p)' = BlockAt(p)
  <2>1. head \in Nat /\ latestBlockSearched \in 0..head
    BY <1>1, BoundAssumption DEF LogOK, WindowOK
  <2>2. ~(head + 1 <= latestBlockSearched)
    BY <2>1
  <2> QED
    BY <1>4, <2>2
<1>11. DerivedOK'
  <2>1. PICK m \in 0..Len(log) :
          /\ ToSet(rateModels) = {p \in 1..m : TokenFits("rateModel", p)}
          /\ isUpdated => \A p \in EventsOf("UpdatedTokenConfig") :
                            BlockAt(p) <= latestBlockSearched => p <= m
    BY <1>1 DEF DerivedOK
  <2>2. \A p \in 1..m : TokenFits("rateModel", p)' <=> TokenFits("rateModel", p)
    BY <1>1, <1>7, OldEvents
  <2>3. ToSet(rateModels) = {p \in 1..m : TokenFits("rateModel", p)'}
    BY <2>1, <2>2
  <2>4. isUpdated' => \A p \in EventsOf("UpdatedTokenConfig")' :
                        BlockAt(p)' <= latestBlockSearched => p <= m
    BY <1>3, <1>10, <2>1
  <2>5. m \in 0..Len(log)'
    BY <1>7
  <2>6. isUpdated /\ hasLatestConfigStoreVersion =>
          \A p \in Sets("VERSION", latestBlockSearched)' :
            log'[p].value # NotANumber => log'[p].value <= ConfigStoreVersion
    <3>1. \A p \in Sets("VERSION", latestBlockSearched)' :
            p \in Sets("VERSION", latestBlockSearched) /\ log'[p] = log[p]
      <4>1. \A p \in Sets("VERSION", latestBlockSearched)' :
              p \in EventsOf("UpdatedGlobalConfig")' /\ log'[p].key = "VERSION"
              /\ BlockAt(p)' <= latestBlockSearched
        BY <1>3 DEF Sets
      <4>2. \A p \in Sets("VERSION", latestBlockSearched)' :
              p \in EventsOf("UpdatedGlobalConfig") /\ BlockAt(p)' = BlockAt(p) /\ log'[p] = log[p]
        BY <1>4, <1>10, <4>1
      <4> QED
        BY <4>1, <4>2 DEF Sets
    <3> QED
      BY <1>1, <3>1 DEF DerivedOK
  <2>7. rateModels' = rateModels /\ rateModels \in Seq(Nat)
    BY <1>1, <1>2 DEF DerivedOK
  <2> QED
    BY <1>2, <1>3, <2>3, <2>4, <2>5, <2>6, <2>7 DEF DerivedOK
<1> QED
  BY <1>4, <1>5, <1>9, <1>11 DEF IInv

LEMMA MemoryKept ==
  ASSUME LogOK, MemoryOK, log' = log, updates' = updates,
         \A p \in DOMAIN log : Known(BlockAt(p))' => Known(BlockAt(p))
  PROVE  MemoryOK'
<1>1. PICK g \in 0..Len(log) : GlobalsOK(updates, g) /\ Reached("UpdatedGlobalConfig", g)
  BY DEF MemoryOK
<1>2. PICK t \in 0..Len(log) : TokensOK(updates, t) /\ Reached("UpdatedTokenConfig", t)
  BY DEF MemoryOK
<1>3. GlobalsOK(updates, g)' /\ TokensOK(updates, t)' /\ OrderOK(updates)'
  <2>1. \A key, p, accepted : Fits(key, p, accepted)' <=> Fits(key, p, accepted)
    BY DEF Fits, Valid, GoesBefore, EventsOf
  <2>2. \A l, p : TokenFits(l, p)' <=> TokenFits(l, p)
    BY DEF TokenFits, EventsOf
  <2>3. GlobalsOK(updates, g)'
    BY <1>1, <2>1 DEF GlobalsOK, Fits, Valid, GoesBefore, EventsOf
  <2>4. TokensOK(updates, t)'
    BY <1>2, <2>2 DEF TokensOK
  <2>5. OrderOK(updates)'
    BY DEF OrderOK, MemoryOK
  <2> QED
    BY <2>3, <2>4, <2>5
<1>4. ASSUME NEW name, NEW m, Reached(name, m) PROVE Reached(name, m)'
  <2>1. EventsOf(name)' = EventsOf(name) /\ EventsOf(name) \subseteq DOMAIN log
    BY DEF EventsOf
  <2> QED
    BY <1>4, <2>1 DEF Reached
<1> QED
  BY <1>1, <1>2, <1>3, <1>4 DEF MemoryOK

LEMMA DerivedKept ==
  ASSUME DerivedOK, log' = log,
         UNCHANGED <<isUpdated, latestBlockSearched, rateModels, hasLatestConfigStoreVersion>>
  PROVE  DerivedOK'
<1>1. \A l, p : TokenFits(l, p)' <=> TokenFits(l, p)
  BY DEF TokenFits, EventsOf
<1> QED
  BY <1>1 DEF DerivedOK, EventsOf, Sets, BlockAt

LEMMA MineStep ==
  ASSUME IInv, MineBlock
  PROVE  IInv'
<1>1. LogOK /\ WindowOK /\ MemoryOK /\ DerivedOK /\ LastBlock \in Nat
  BY BoundAssumption DEF IInv
<1>2. /\ UNCHANGED <<log, updates, rateModels, hasLatestConfigStoreVersion, update>>
      /\ UNCHANGED <<firstBlockToSearch, latestBlockSearched, isUpdated, chainId>>
      /\ head' = head + 1 /\ head \in 0..LastBlock /\ head < LastBlock
  BY <1>1 DEF MineBlock, client, window, LogOK
<1>3. LogOK'
  <2>1. \A p \in DOMAIN log : log[p].block \in Nat /\ log[p].block <= head + 1
    BY <1>1, LogFacts DEF LogOK, BlockAt
  <2>2. \A p \in DOMAIN log : log[p].block <= head + 1 + 1
    BY <1>1, <1>2, <2>1
  <2> QED
    BY <1>1, <1>2, <2>2 DEF LogOK
<1>4. WindowOK'
  <2>1. ASSUME NEW u \in Callers
        PROVE  /\ update[u].stage \in {"blockNumber", "query"} => update[u].from <= head + 2
               /\ update[u].stage = "query" => update[u].from <= update[u].to /\ update[u].to <= head + 1
    <3>1. update[u] \in UpdateRecords
      BY <1>1 DEF WindowOK
    <3>2. CASE update[u].stage = "blockNumber"
      <4>1. update[u].from \in Nat
        BY <1>1, <3>1, <3>2 DEF UpdateRecords, NoUpdate
      <4> QED
        BY <1>1, <1>2, <3>2, <4>1 DEF WindowOK
    <3>3. CASE update[u].stage = "query"
      <4>1. update[u].from \in Nat /\ update[u].to \in Nat
        BY <1>1, <3>1, <3>3 DEF UpdateRecords, NoUpdate
      <4> QED
        BY <1>1, <1>2, <3>3, <4>1 DEF WindowOK
    <3> QED
      BY <3>2, <3>3
  <2>2. head + 1 + 1 = head + 2
    BY <1>1, <1>2
  <2>3. firstBlockToSearch \in 0..(head + 2) /\ latestBlockSearched \in 0..(head + 1)
    BY <1>1, <1>2 DEF WindowOK
  <2> QED
    BY <1>1, <1>2, <2>1, <2>2, <2>3 DEF WindowOK
<1>5. \A b : Known(b)' <=> Known(b)
  BY <1>2 DEF Known
<1>6. \A p \in DOMAIN log : Known(BlockAt(p))' => Known(BlockAt(p))
  BY <1>2 DEF Known, BlockAt
<1>7. MemoryOK'
  BY <1>1, <1>2, <1>6, MemoryKept
<1>8. DerivedOK'
  BY <1>1, <1>2, DerivedKept
<1> QED
  BY <1>3, <1>4, <1>7, <1>8 DEF IInv

(* A call of update() before its answers, or that ends without them.       *)
LEMMA CallStep ==
  ASSUME IInv, UNCHANGED <<chain, client>>, NEW u \in Callers, NEW next \in UpdateRecords,
         update' = [update EXCEPT ![u] = next],
         /\ next.stage \in {"blockNumber", "query"} => next.from <= head + 1
         /\ next.stage = "query" => next.from <= next.to /\ next.to <= head,
         next.stage \in {"blockNumber", "query"} =>
           \A b \in Nat : b < next.from => Known(b)
  PROVE  IInv'
<1>1. LogOK /\ WindowOK /\ MemoryOK /\ DerivedOK
  BY DEF IInv
<1>2. /\ UNCHANGED <<log, head, updates, rateModels, hasLatestConfigStoreVersion>>
      /\ UNCHANGED <<firstBlockToSearch, latestBlockSearched, isUpdated, chainId>>
  BY DEF chain, client, window
<1>3. LogOK'
  BY <1>1, <1>2 DEF LogOK
<1>4. /\ update \in [Callers -> UpdateRecords] /\ update'[u] = next
      /\ \A v \in Callers : v # u => update'[v] = update[v]
  BY <1>1 DEF WindowOK
<1>5. WindowOK'
  <2>1. update' \in [Callers -> UpdateRecords]
    BY <1>4
  <2>2. \A v \in Callers :
          /\ update'[v].stage \in {"blockNumber", "query"} => update'[v].from <= head + 1
          /\ update'[v].stage = "query" => update'[v].from <= update'[v].to /\ update'[v].to <= head
    <3>1. ASSUME NEW v \in Callers, v # u
          PROVE  /\ update'[v].stage \in {"blockNumber", "query"} => update'[v].from <= head + 1
                 /\ update'[v].stage = "query" => update'[v].from <= update'[v].to /\ update'[v].to <= head
      BY <1>1, <1>4, <3>1 DEF WindowOK
    <3> QED
      BY <1>4, <3>1
  <2> QED
    BY <1>1, <1>2, <2>1, <2>2 DEF WindowOK
<1>6. ASSUME NEW b \in Nat, Known(b)' PROVE Known(b)
  <2>1. CASE b < firstBlockToSearch \/ (isUpdated /\ b <= latestBlockSearched)
    BY <2>1 DEF Known
  <2>2. CASE \E v \in Callers : update'[v].stage \in {"blockNumber", "query"} /\ b < update'[v].from
    <3>1. PICK v \in Callers : update'[v].stage \in {"blockNumber", "query"} /\ b < update'[v].from
      BY <2>2
    <3>2. CASE v = u
      BY <1>4, <3>1, <3>2
    <3>3. CASE v # u
      BY <1>4, <3>1, <3>3 DEF Known
    <3> QED
      BY <3>2, <3>3
  <2> QED
    BY <1>2, <1>6, <2>1, <2>2 DEF Known
<1>7. \A p \in DOMAIN log : Known(BlockAt(p))' => Known(BlockAt(p))
  <2>1. \A p \in DOMAIN log : BlockAt(p) \in Nat /\ BlockAt(p)' = BlockAt(p)
    BY <1>1, <1>2, LogFacts DEF BlockAt
  <2> QED
    BY <1>6, <2>1 DEF Known
<1>8. MemoryOK'
  BY <1>1, <1>2, <1>7, MemoryKept
<1>9. DerivedOK'
  BY <1>1, <1>2, DerivedKept
<1> QED
  BY <1>3, <1>5, <1>8, <1>9 DEF IInv

LEMMA StartStep ==
  ASSUME IInv, NEW u \in Callers, Start(u)
  PROVE  IInv'
<1> DEFINE next == [stage |-> "chainId"]
<1>1. next \in UpdateRecords /\ next.stage = "chainId"
  BY DEF UpdateRecords
<1>2. UNCHANGED <<chain, client>> /\ update' = [update EXCEPT ![u] = next]
  BY DEF Start
<1>3. next.stage \notin {"blockNumber", "query"} /\ next.stage # "query"
  BY <1>1
<1> HIDE DEF next
<1> QED
  BY <1>1, <1>2, <1>3, CallStep

LEMMA SearchConfigStep ==
  ASSUME IInv, NEW u \in Callers, SearchConfig(u)
  PROVE  IInv'
<1> DEFINE next == [stage |-> "blockNumber", from |-> firstBlockToSearch]
<1>1. firstBlockToSearch \in 0..(head + 1) /\ head \in 0..LastBlock /\ LastBlock \in Nat
  BY BoundAssumption DEF IInv, LogOK, WindowOK
<1>2. firstBlockToSearch \in 0..(LastBlock + 1) /\ firstBlockToSearch <= head + 1
  BY <1>1
<1>3. next \in UpdateRecords /\ next.stage = "blockNumber" /\ next.from = firstBlockToSearch
  BY <1>2 DEF UpdateRecords
<1>4. UNCHANGED <<chain, client>> /\ update' = [update EXCEPT ![u] = next]
  BY DEF SearchConfig
<1>5. \A b \in Nat : b < next.from => Known(b)
  BY <1>3 DEF Known
<1> HIDE DEF next
<1>6. next.from <= head + 1 /\ next.stage # "query"
  BY <1>2, <1>3
<1> QED
  BY <1>3, <1>4, <1>5, <1>6, CallStep

LEMMA IdleStep ==
  ASSUME IInv, NEW u \in Callers, UNCHANGED <<chain, client>>,
         update' = [update EXCEPT ![u] = NoUpdate]
  PROVE  IInv'
<1> DEFINE next == NoUpdate
<1>1. next \in UpdateRecords /\ next.stage = "idle"
  BY DEF UpdateRecords, NoUpdate
<1>2. next.stage \notin {"blockNumber", "query"} /\ next.stage # "query"
  BY <1>1
<1> HIDE DEF next
<1> QED
  BY <1>1, <1>2, CallStep DEF next

LEMMA BlockNumberStep ==
  ASSUME IInv, NEW u \in Callers, BlockNumber(u)
  PROVE  IInv'
<1>1. UNCHANGED <<chain, client>> /\ update[u].stage = "blockNumber"
  BY DEF BlockNumber
<1>2. CASE update' = [update EXCEPT ![u] = NoUpdate]
  BY <1>1, <1>2, IdleStep
<1>3. CASE /\ head >= update[u].from
           /\ update' = [update EXCEPT ![u] =
                [stage |-> "query", from |-> update[u].from, to |-> head]]
  <2> DEFINE next == [stage |-> "query", from |-> update[u].from, to |-> head]
  <2>1. update[u] \in UpdateRecords /\ head \in 0..LastBlock /\ LastBlock \in Nat
    BY BoundAssumption DEF IInv, LogOK, WindowOK
  <2>2. update[u].from \in 0..(LastBlock + 1)
    BY <1>1, <2>1 DEF UpdateRecords, NoUpdate
  <2>3. update[u].from \in 0..LastBlock /\ update[u].from <= head /\ head <= head
        /\ update[u].from <= head + 1
    BY <1>3, <2>1, <2>2
  <2>4. next \in [stage : {"query"}, from : 0..LastBlock, to : 0..LastBlock]
    BY <2>1, <2>3
  <2>5. next \in UpdateRecords /\ next.stage = "query" /\ next.from = update[u].from /\ next.to = head
    BY <2>4 DEF UpdateRecords
  <2>6. \A b \in Nat : b < next.from => Known(b)
    BY <1>1, <2>5 DEF Known
  <2>7. update' = [update EXCEPT ![u] = next]
    BY <1>3
  <2> HIDE DEF next
  <2>8. next.from <= head + 1 /\ next.from <= next.to /\ next.to <= head
    BY <2>3, <2>5
  <2> QED
    BY <1>1, <2>5, <2>6, <2>7, <2>8, CallStep
<1> QED
  BY <1>2, <1>3 DEF BlockNumber

LEMMA FailStep ==
  ASSUME IInv, NEW u \in Callers, Fail(u)
  PROVE  IInv'
  BY IdleStep DEF Fail

(* The end of a call leaves the other calls as they were.                  *)
LEMMA EndOfCall ==
  ASSUME WindowOK, head' = head, NEW u \in Callers, update' = [update EXCEPT ![u] = NoUpdate]
  PROVE  /\ update' \in [Callers -> UpdateRecords]
         /\ \A v \in Callers :
              /\ update'[v].stage \in {"blockNumber", "query"} => update'[v].from <= head + 1
              /\ update'[v].stage = "query" => update'[v].from <= update'[v].to /\ update'[v].to <= head
              /\ update'[v].stage \in {"blockNumber", "query"} => v # u /\ update'[v] = update[v]
<1>1. NoUpdate \in UpdateRecords /\ NoUpdate.stage = "idle"
  BY DEF UpdateRecords, NoUpdate
<1>2. update \in [Callers -> UpdateRecords]
  BY DEF WindowOK
<1>3. /\ update' \in [Callers -> UpdateRecords] /\ update'[u].stage = "idle"
      /\ \A v \in Callers : v # u => update'[v] = update[v]
  BY <1>1, <1>2
<1>4. update'[u].stage # "blockNumber" /\ update'[u].stage # "query"
  BY <1>3
<1>5. ASSUME NEW v \in Callers
      PROVE  /\ update'[v].stage \in {"blockNumber", "query"} => update'[v].from <= head + 1
             /\ update'[v].stage = "query" => update'[v].from <= update'[v].to /\ update'[v].to <= head
             /\ update'[v].stage \in {"blockNumber", "query"} => v # u /\ update'[v] = update[v]
  <2>1. CASE v = u
    BY <1>4, <2>1
  <2>2. CASE v # u
    BY <1>3, <2>2 DEF WindowOK
  <2> QED
    BY <2>1, <2>2
<1> QED
  BY <1>3, <1>5

LEMMA MemoryAfter ==
  ASSUME LogOK, log' = log, NEW n1, NEW n2, NEW x, x = updates', Reading(x, n1), TokenReading(x, n2),
         Reached("UpdatedGlobalConfig", n1)', Reached("UpdatedTokenConfig", n2)'
  PROVE  MemoryOK'
<1>1. \A key, p, accepted : Fits(key, p, accepted)' <=> Fits(key, p, accepted)
  BY DEF Fits, Valid, GoesBefore, EventsOf
<1>2. \A l, p : TokenFits(l, p)' <=> TokenFits(l, p)
  BY DEF TokenFits, EventsOf
<1>3. n1 \in 0..Len(log)' /\ n2 \in 0..Len(log)'
  BY DEF Reading, TokenReading
<1>4. GlobalsOK(updates, n1)'
  BY <1>1 DEF GlobalsOK, Reading, Fits, Valid, GoesBefore, EventsOf
<1>5. TokensOK(updates, n2)'
  BY <1>2 DEF TokensOK, TokenReading
<1>6. OrderOK(updates)'
  BY DEF OrderOK, Reading
<1>7. updates' \in [GlobalKeys \cup TokenLists -> Seq(Nat)]
  BY DEF Reading, Lists
<1> QED
  BY <1>3, <1>4, <1>5, <1>6, <1>7 DEF MemoryOK

LEMMA AnswersStep ==
  ASSUME IInv, NEW u \in Callers, Answers(u)
  PROVE  IInv'
<1> DEFINE x == AfterAll(u)
           to == update[u].to
<1>1. LogOK /\ WindowOK /\ MemoryOK /\ DerivedOK
  BY DEF IInv
<1>2. /\ update[u].stage = "query" /\ ~Throws(u)
      /\ updates' = x /\ rateModels' = updates'["rateModel"]
      /\ hasLatestConfigStoreVersion' = (ConfigStoreVersion >= LastVersion(updates'))
      /\ latestBlockSearched' = to /\ firstBlockToSearch' = to + 1
      /\ chainId' = IF chainId = None THEN ConfigStoreChain ELSE chainId
      /\ isUpdated' = TRUE /\ update' = [update EXCEPT ![u] = NoUpdate]
      /\ log' = log /\ head' = head
  BY DEF Answers, NextStart, chain
<1>3. to \in 0..head /\ head \in Nat
  <2>1. update[u] \in UpdateRecords /\ to <= head /\ head \in 0..LastBlock /\ LastBlock \in Nat
    BY <1>1, <1>2, BoundAssumption DEF WindowOK, LogOK
  <2>2. to \in 0..LastBlock
    BY <1>2, <2>1 DEF UpdateRecords, NoUpdate
  <2> QED
    BY <2>1, <2>2
<1>4. PICK n1 : /\ Reading(x, n1) /\ Reached("UpdatedGlobalConfig", n1)
                /\ ReadUpTo("UpdatedGlobalConfig", n1, to)
  BY <1>1, <1>2, AfterAnswer
<1>5. PICK n2 : /\ TokenReading(x, n2) /\ Reached("UpdatedTokenConfig", n2)
                /\ ReadUpTo("UpdatedTokenConfig", n2, to)
  BY <1>1, <1>2, AfterAnswer
<1> HIDE DEF x, to
<1>6. LogOK'
  BY <1>1, <1>2 DEF LogOK
<1>7. /\ update' \in [Callers -> UpdateRecords]
      /\ \A v \in Callers :
           /\ update'[v].stage \in {"blockNumber", "query"} => update'[v].from <= head + 1
           /\ update'[v].stage = "query" => update'[v].from <= update'[v].to /\ update'[v].to <= head
           /\ update'[v].stage \in {"blockNumber", "query"} => v # u /\ update'[v] = update[v]
  BY <1>1, <1>2, EndOfCall
<1>8. WindowOK'
  <2>1. firstBlockToSearch' \in 0..(head + 1) /\ latestBlockSearched' \in 0..head
    BY <1>2, <1>3
  <2>2. chainId' = ConfigStoreChain /\ isUpdated' \in BOOLEAN
    BY <1>1, <1>2 DEF WindowOK
  <2> QED
    BY <1>2, <1>7, <2>1, <2>2 DEF WindowOK
<1>9. ASSUME NEW p \in DOMAIN log, Known(BlockAt(p))' PROVE Known(BlockAt(p)) \/ BlockAt(p) <= to
  <2>1. BlockAt(p)' = BlockAt(p) /\ BlockAt(p) \in Nat
    BY <1>1, <1>2, LogFacts DEF BlockAt
  <2>2. CASE BlockAt(p) < firstBlockToSearch' \/ BlockAt(p) <= latestBlockSearched'
    BY <1>2, <1>3, <2>1, <2>2
  <2>3. CASE \E v \in Callers : update'[v].stage \in {"blockNumber", "query"} /\ BlockAt(p) < update'[v].from
    <3>1. PICK v \in Callers : update'[v].stage \in {"blockNumber", "query"} /\ BlockAt(p) < update'[v].from
      BY <2>3
    <3>2. update'[v] = update[v]
      BY <1>7, <3>1
    <3> QED
      BY <3>1, <3>2 DEF Known
  <2> QED
    BY <1>9, <2>1, <2>2, <2>3 DEF Known
<1>10. ASSUME NEW name, NEW n, Reached(name, n), ReadUpTo(name, n, to) PROVE Reached(name, n)'
  <2>1. EventsOf(name)' = EventsOf(name) /\ EventsOf(name) \subseteq DOMAIN log
    BY <1>2 DEF EventsOf
  <2> QED
    BY <1>9, <1>10, <2>1 DEF Reached, ReadUpTo
<1>11. MemoryOK'
  <2>1. Reached("UpdatedGlobalConfig", n1)' /\ Reached("UpdatedTokenConfig", n2)'
    BY <1>4, <1>5, <1>10
  <2> QED
    BY <1>1, <1>2, <1>4, <1>5, <2>1, MemoryAfter
<1>12. DerivedOK'
  <2>1. "rateModel" \in TokenLists /\ "rateModel" \in Lists
    BY DEF TokenLists, Lists
  <2>2. rateModels' = x["rateModel"] /\ x["rateModel"] \in Seq(Nat)
        /\ ToSet(x["rateModel"]) = {p \in 1..n2 : TokenFits("rateModel", p)} /\ n2 \in 0..Len(log)
    BY <1>2, <1>5, <2>1 DEF TokenReading, TokensOK
  <2>3. \A p : TokenFits("rateModel", p)' <=> TokenFits("rateModel", p)
    BY <1>2 DEF TokenFits, EventsOf
  <2>4. ToSet(rateModels') = {p \in 1..n2 : TokenFits("rateModel", p)'}
    BY <2>2, <2>3
  <2>5. \A p \in EventsOf("UpdatedTokenConfig")' : BlockAt(p)' <= latestBlockSearched' => p <= n2
    BY <1>2, <1>5 DEF ReadUpTo, EventsOf, BlockAt
  <2>6. hasLatestConfigStoreVersion' =>
          \A p \in Sets("VERSION", latestBlockSearched)' :
            log'[p].value # NotANumber => log'[p].value <= ConfigStoreVersion
    <3>1. SUFFICES ASSUME ConfigStoreVersion >= LastVersion(x),
                          NEW p \in Sets("VERSION", latestBlockSearched)', log[p].value # NotANumber
                   PROVE  log[p].value <= ConfigStoreVersion
      <4>1. hasLatestConfigStoreVersion' = (ConfigStoreVersion >= LastVersion(x))
        BY <1>2
      <4> QED
        BY <1>2, <4>1
    <3>2. p \in EventsOf("UpdatedGlobalConfig") /\ log[p].key = "VERSION" /\ BlockAt(p) <= to
      BY <1>2 DEF Sets, EventsOf, BlockAt
    <3>3. p <= n1
      BY <1>4, <3>2 DEF ReadUpTo
    <3>4. LastVersion(x) \in Int /\ log[p].value \in Int /\ log[p].value <= LastVersion(x)
      BY <1>1, <1>4, <3>1, <3>2, <3>3, VersionsBelow
    <3> QED
      BY <3>1, <3>4, ChainAssumption
  <2>7. rateModels' \in Seq(Nat) /\ n2 \in 0..Len(log)'
    BY <1>2, <2>2
  <2> QED
    BY <2>4, <2>5, <2>6, <2>7 DEF DerivedOK
<1> QED
  BY <1>6, <1>8, <1>11, <1>12 DEF IInv

LEMMA LiteChainsThrowStep ==
  ASSUME IInv, NEW u \in Callers, LiteChainsThrow(u)
  PROVE  IInv'
<1> DEFINE x == AfterAll(u)
<1>1. LogOK /\ WindowOK /\ MemoryOK /\ DerivedOK
  BY DEF IInv
<1>2. /\ update[u].stage = "query" /\ updates' = x
      /\ update' = [update EXCEPT ![u] = NoUpdate]
      /\ UNCHANGED <<log, head, rateModels, hasLatestConfigStoreVersion>>
      /\ UNCHANGED <<firstBlockToSearch, latestBlockSearched, isUpdated, chainId>>
  BY DEF LiteChainsThrow, chain, window
<1>3. PICK n1 : Reading(x, n1) /\ Reached("UpdatedGlobalConfig", n1)
  BY <1>1, <1>2, AfterAnswer
<1>4. PICK n2 : TokenReading(x, n2) /\ Reached("UpdatedTokenConfig", n2)
  BY <1>1, <1>2, AfterAnswer
<1> HIDE DEF x
<1>5. LogOK'
  BY <1>1, <1>2 DEF LogOK
<1>6. /\ update' \in [Callers -> UpdateRecords]
      /\ \A v \in Callers :
           /\ update'[v].stage \in {"blockNumber", "query"} => update'[v].from <= head + 1
           /\ update'[v].stage = "query" => update'[v].from <= update'[v].to /\ update'[v].to <= head
           /\ update'[v].stage \in {"blockNumber", "query"} => v # u /\ update'[v] = update[v]
  BY <1>1, <1>2, EndOfCall
<1>7. WindowOK'
  BY <1>1, <1>2, <1>6 DEF WindowOK
<1>8. ASSUME NEW p \in DOMAIN log, Known(BlockAt(p))' PROVE Known(BlockAt(p))
  <2>1. BlockAt(p)' = BlockAt(p)
    BY <1>2 DEF BlockAt
  <2>2. CASE \E v \in Callers : update'[v].stage \in {"blockNumber", "query"} /\ BlockAt(p) < update'[v].from
    <3>1. PICK v \in Callers : update'[v].stage \in {"blockNumber", "query"} /\ BlockAt(p) < update'[v].from
      BY <2>2
    <3>2. update'[v] = update[v]
      BY <1>6, <3>1
    <3> QED
      BY <3>1, <3>2 DEF Known
  <2> QED
    BY <1>2, <1>8, <2>1, <2>2 DEF Known
<1>9. ASSUME NEW name, NEW n, Reached(name, n) PROVE Reached(name, n)'
  <2>1. EventsOf(name)' = EventsOf(name) /\ EventsOf(name) \subseteq DOMAIN log
    BY <1>2 DEF EventsOf
  <2> QED
    BY <1>8, <1>9, <2>1 DEF Reached
<1>10. MemoryOK'
  <2>1. Reached("UpdatedGlobalConfig", n1)' /\ Reached("UpdatedTokenConfig", n2)'
    BY <1>3, <1>4, <1>9
  <2> QED
    BY <1>1, <1>2, <1>3, <1>4, <2>1, MemoryAfter
<1>11. DerivedOK'
  BY <1>1, <1>2, DerivedKept
<1> QED
  BY <1>5, <1>7, <1>10, <1>11 DEF IInv

LEMMA NextStep == IInv /\ [Next]_vars => IInv'
<1> SUFFICES ASSUME IInv, [Next]_vars PROVE IInv'
  OBVIOUS
<1>1. CASE Emit
  BY <1>1, EmitStep
<1>2. CASE MineBlock
  BY <1>2, MineStep
<1>3. ASSUME NEW u \in Callers, Start(u) \/ SearchConfig(u) \/ BlockNumber(u)
                                  \/ Answers(u) \/ LiteChainsThrow(u) \/ Fail(u)
      PROVE  IInv'
  BY <1>3, StartStep, SearchConfigStep, BlockNumberStep, AnswersStep, LiteChainsThrowStep, FailStep
<1>4. CASE UNCHANGED vars
  <2>1. /\ UNCHANGED <<log, head, updates, rateModels, hasLatestConfigStoreVersion, update>>
        /\ UNCHANGED <<firstBlockToSearch, latestBlockSearched, isUpdated, chainId>>
    BY <1>4 DEF vars, chain, client, window
  <2>2. LogOK /\ WindowOK /\ MemoryOK /\ DerivedOK
    BY DEF IInv
  <2>3. \A p \in DOMAIN log : Known(BlockAt(p))' => Known(BlockAt(p))
    BY <2>1 DEF Known, BlockAt
  <2>4. LogOK' /\ WindowOK'
    BY <2>1, <2>2 DEF LogOK, WindowOK
  <2>5. MemoryOK'
    BY <2>1, <2>2, <2>3, MemoryKept
  <2>6. DerivedOK'
    BY <2>1, <2>2, DerivedKept
  <2> QED
    BY <2>4, <2>5, <2>6 DEF IInv
<1> QED
  BY <1>1, <1>2, <1>3, <1>4 DEF Next

(* The inductive invariant: the chain, the calls in flight, the memory and *)
(* what is derived from it fit together at every step.                     *)
THEOREM Invariance == Spec => []IInv
  BY InitHolds, NextStep, PTL DEF Spec

(* The spent bounds and the answer whether the program is up to date.      *)
SpentOK ==
  /\ hasLatestConfigStoreVersion \in BOOLEAN
  /\ overlaps \in 0..MaxOverlaps /\ failures \in 0..MaxFailures

LEMMA Spent == Spec => []SpentOK
<1>1. MaxOverlaps \in Nat /\ MaxFailures \in Nat
  BY BoundAssumption
<1>2. Init => SpentOK
  <2> SUFFICES ASSUME Init PROVE SpentOK
    OBVIOUS
  <2>1. hasLatestConfigStoreVersion = FALSE /\ overlaps = 0 /\ failures = 0
    BY DEF Init
  <2>2. overlaps \in 0..MaxOverlaps /\ failures \in 0..MaxFailures
    BY <1>1, <2>1
  <2>3. FALSE \in BOOLEAN
    OBVIOUS
  <2>4. hasLatestConfigStoreVersion \in BOOLEAN
    BY <2>1, <2>3, Zenon
  <2> QED
    BY <2>2, <2>4 DEF SpentOK
<1>3. SpentOK /\ [Next]_vars => SpentOK'
  <2> SUFFICES ASSUME SpentOK, [Next]_vars PROVE SpentOK'
    OBVIOUS
  <2>1. ASSUME Emit \/ MineBlock \/ UNCHANGED vars PROVE SpentOK'
    BY <2>1 DEF SpentOK, Emit, MineBlock, client, vars
  <2>2. ASSUME NEW u \in Callers, Start(u) PROVE SpentOK'
    BY <1>1, <2>2 DEF SpentOK, Start, client
  <2>3. ASSUME NEW u \in Callers, SearchConfig(u) \/ BlockNumber(u) PROVE SpentOK'
    BY <2>3 DEF SpentOK, SearchConfig, BlockNumber, client
  <2>4. ASSUME NEW u \in Callers, Answers(u) PROVE SpentOK'
    <3>1. hasLatestConfigStoreVersion' \in BOOLEAN
      BY <2>4 DEF Answers
    <3> QED
      BY <2>4, <3>1 DEF SpentOK, Answers
  <2>5. ASSUME NEW u \in Callers, LiteChainsThrow(u) \/ Fail(u) PROVE SpentOK'
    BY <1>1, <2>5 DEF SpentOK, LiteChainsThrow, Fail, client
  <2> QED
    BY <2>1, <2>2, <2>3, <2>4, <2>5 DEF Next
<1> QED
  BY <1>2, <1>3, PTL DEF Spec

-----------------------------------------------------------------------------
(* Types.                                                                  *)

LEMMA SequenceOver ==
  ASSUME NEW s \in Seq(Nat), NEW S, ToSet(s) \subseteq S
  PROVE  s \in Seq(S)
<1>1. Len(s) \in Nat /\ DOMAIN s = 1..Len(s)
  OBVIOUS
<1>2. \A i \in 1..Len(s) : s[i] \in S
  BY SetOfNonempty
<1>3. s = [i \in 1..Len(s) |-> s[i]]
  BY <1>1
<1> QED
  BY <1>1, <1>2, <1>3

LEMMA TypesFollow == IInv /\ SpentOK => TypeOK
<1> SUFFICES ASSUME IInv, SpentOK PROVE TypeOK
  OBVIOUS
<1>1. LogOK /\ WindowOK /\ MemoryOK /\ DerivedOK /\ LastBlock \in Nat
  BY BoundAssumption DEF IInv
<1>2. head \in Blocks /\ firstBlockToSearch \in 0..(LastBlock + 1) /\ latestBlockSearched \in Blocks
  BY <1>1 DEF LogOK, WindowOK, Blocks
<1>3. DOMAIN log = 1..Len(log) /\ Len(log) \in Nat
  BY <1>1, LogFacts
<1>4. \A m \in 0..Len(log) : 1..m \subseteq DOMAIN log
  BY <1>3
<1>5. \A l \in Lists : ToSet(updates[l]) \subseteq DOMAIN log /\ updates[l] \in Seq(Nat)
  <2>1. PICK g \in 0..Len(log) : GlobalsOK(updates, g)
    BY <1>1 DEF MemoryOK
  <2>2. PICK t \in 0..Len(log) : TokensOK(updates, t)
    BY <1>1 DEF MemoryOK
  <2>3. \A l \in Lists : updates[l] \in Seq(Nat)
    BY <1>1 DEF MemoryOK, Lists
  <2>4. \A l \in Lists : ToSet(updates[l]) \subseteq 1..g \/ ToSet(updates[l]) \subseteq 1..t
    BY <2>1, <2>2 DEF GlobalsOK, TokensOK, Lists
  <2> QED
    BY <1>4, <2>3, <2>4
<1>6. \A l \in Lists : updates[l] \in Seq(DOMAIN log)
  BY <1>5, SequenceOver
<1>7. updates \in [GlobalKeys \cup TokenLists -> Seq(DOMAIN log)]
  BY <1>1, <1>6 DEF MemoryOK, Lists
<1>8. rateModels \in Seq(DOMAIN log)
  <2>1. PICK m \in 0..Len(log) : ToSet(rateModels) = {p \in 1..m : TokenFits("rateModel", p)}
    BY <1>1 DEF DerivedOK
  <2>2. ToSet(rateModels) \subseteq DOMAIN log /\ rateModels \in Seq(Nat)
    BY <1>1, <1>4, <2>1 DEF DerivedOK
  <2> QED
    BY <2>2, SequenceOver
<1>9. \A u \in Callers : update[u].stage \in {"idle", "chainId", "blockNumber", "query"}
  BY <1>1 DEF WindowOK, UpdateRecords, NoUpdate
<1>10. isUpdated \in BOOLEAN /\ chainId \in {None, ConfigStoreChain}
  BY <1>1 DEF WindowOK
<1> QED
  BY <1>2, <1>7, <1>8, <1>9, <1>10 DEF TypeOK, SpentOK

(* The client's state has the types it is declared with; each stored       *)
(* position is one of the log.                                             *)
THEOREM TypeCorrect == Spec => []TypeOK
  BY Invariance, Spent, TypesFollow, PTL

-----------------------------------------------------------------------------
(* The memory as of a block.                                               *)

LEMMA MaxIs ==
  ASSUME NEW n \in Nat, NEW S \in SUBSET (0..n), S # {}
  PROVE  Max(S) \in S /\ \A x \in S : x <= Max(S)
<1> DEFINE T == {n - x : x \in S}
<1>1. \A x \in S : x \in Int /\ n - x \in Nat
  OBVIOUS
<1>2. T \in SUBSET Nat /\ T # {}
  BY <1>1
<1>3. PICK y \in T : \A z \in T : y <= z
  <2> HIDE DEF T
  <2> QED
    BY <1>2, LeastNumber
<1>4. PICK x \in S : y = n - x
  OBVIOUS
<1>5. \A z \in S : n - x <= n - z
  BY <1>3, <1>4
<1>6. \A z \in S : x >= z
  BY <1>1, <1>5
<1>7. Max(S) \in S /\ \A z \in S : Max(S) >= z
  BY <1>6 DEF Max
<1> QED
  BY <1>1, <1>7

LEMMA LatestIs ==
  ASSUME LogOK, NEW S \in SUBSET DOMAIN log
  PROVE  /\ Latest(S) = None <=> S = {}
         /\ S # {} => Latest(S) \in S /\ \A x \in S : x <= Latest(S)
<1>1. DOMAIN log = 1..Len(log) /\ Len(log) \in Nat
  BY LogFacts
<1>2. S \in SUBSET (0..Len(log)) /\ \A x \in S : x \in Nat
  BY <1>1
<1>3. S # {} => Max(S) \in S /\ \A x \in S : x <= Max(S)
  BY <1>1, <1>2, MaxIs
<1> QED
  BY <1>2, <1>3, ValueAssumption DEF Latest

(* The events up to a block are a prefix of the log.                       *)
LEMMA AsOfIs ==
  ASSUME LogOK, NEW b
  PROVE  /\ AsOfBlock(b) \subseteq DOMAIN log
         /\ \A p : p \in AsOfBlock(b) <=> p \in DOMAIN log /\ BlockAt(p) <= b
  BY DEF AsOfBlock

LEMMA EarlierAsOf ==
  ASSUME LogOK, NEW b \in Nat, NEW p \in AsOfBlock(b), NEW q \in DOMAIN log, q <= p
  PROVE  q \in AsOfBlock(b)
<1>1. p \in DOMAIN log /\ BlockAt(p) <= b
  BY DEF AsOfBlock
<1>2. BlockAt(q) \in Nat /\ BlockAt(p) \in Nat /\ BlockAt(q) <= BlockAt(p)
  BY <1>1, LogFacts DEF LogOK, BlockAt
<1> QED
  BY <1>1, <1>2 DEF AsOfBlock

LEMMA AsOfTime ==
  ASSUME LogOK, NEW b \in 0..LastBlock
  PROVE  AsOfTimestamp(BlockTime(b)) = AsOfBlock(b)
<1>1. LastBlock \in Nat /\ \A p \in DOMAIN log : BlockAt(p) \in 0..LastBlock
  BY BoundAssumption, LogFacts
<1>2. ASSUME NEW c \in 0..LastBlock PROVE BlockTime(c) <= BlockTime(b) <=> c <= b
  <2>1. BlockTime(c) \in Nat /\ BlockTime(b) \in Nat
    BY TimeAssumption
  <2>2. /\ c < b => BlockTime(c) < BlockTime(b)
        /\ b < c => BlockTime(b) < BlockTime(c)
    BY TimeAssumption
  <2>3. c < b \/ c = b \/ b < c
    BY <1>1
  <2>4. CASE c < b
    BY <1>1, <2>1, <2>2, <2>4
  <2>5. CASE c = b
    BY <1>1, <2>1, <2>5
  <2>6. CASE b < c
    BY <1>1, <2>1, <2>2, <2>6
  <2> QED
    BY <2>3, <2>4, <2>5, <2>6
<1> QED
  BY <1>1, <1>2 DEF AsOfTimestamp, AsOfBlock

(* What is stored as of a searched block is what fits.                     *)
LEMMA StoredAsOf ==
  ASSUME IInv, isUpdated, NEW b \in 0..latestBlockSearched, NEW key \in GlobalKeys
  PROVE  ToSet(updates[key]) \cap AsOfBlock(b)
           = {p \in Sets(key, b) : Fits(key, p, ToSet(updates[key]))}
<1>1. LogOK /\ WindowOK /\ MemoryOK
  BY DEF IInv
<1>2. PICK m \in 0..Len(log) : GlobalsOK(updates, m) /\ Reached("UpdatedGlobalConfig", m)
  BY <1>1 DEF MemoryOK
<1> DEFINE A == ToSet(updates[key])
<1>3. A = {p \in 1..m : Fits(key, p, A)}
  BY <1>2 DEF GlobalsOK
<1> HIDE DEF A
<1>4. \A p : Fits(key, p, A) => p \in EventsOf("UpdatedGlobalConfig") /\ log[p].key = key
  BY DEF Fits, Valid
<1>5. \A p \in EventsOf("UpdatedGlobalConfig") : BlockAt(p) <= b => p \in 1..m
  <2>1. latestBlockSearched \in Nat /\ b \in Nat /\ b <= latestBlockSearched
    BY <1>1, BoundAssumption DEF WindowOK, LogOK
  <2>2. SUFFICES ASSUME NEW p \in EventsOf("UpdatedGlobalConfig"), BlockAt(p) <= b PROVE p \in 1..m
    OBVIOUS
  <2>3. p \in 1..Len(log) /\ BlockAt(p) \in Nat
    BY <1>1, LogFacts DEF EventsOf
  <2>4. BlockAt(p) <= latestBlockSearched
    BY <2>1, <2>2, <2>3
  <2>5. Known(BlockAt(p))
    BY <2>4 DEF Known
  <2> QED
    BY <1>2, <2>3, <2>5 DEF Reached
<1>6. \A p : p \in Sets(key, b) <=>
        p \in EventsOf("UpdatedGlobalConfig") /\ log[p].key = key /\ BlockAt(p) <= b
  BY DEF Sets
<1>7. \A p : p \in AsOfBlock(b) <=> p \in DOMAIN log /\ BlockAt(p) <= b
  BY DEF AsOfBlock
<1>8. \A p \in EventsOf("UpdatedGlobalConfig") : p \in DOMAIN log
  BY DEF EventsOf
<1>9. A \cap AsOfBlock(b) = {p \in Sets(key, b) : Fits(key, p, A)}
  BY <1>3, <1>4, <1>5, <1>6, <1>7, <1>8
<1> QED
  BY <1>9 DEF A

(* And so with the tokens' configurations.                                 *)
TokensAsOf(l, b) ==
  {p \in EventsOf("UpdatedTokenConfig") : BlockAt(p) <= b /\ TokenFits(l, p)}

LEMMA TokensStoredAsOf ==
  ASSUME IInv, isUpdated, NEW b \in 0..latestBlockSearched
  PROVE  /\ \A l \in TokenLists : ToSet(updates[l]) \cap AsOfBlock(b) = TokensAsOf(l, b)
         /\ ToSet(rateModels) \cap AsOfBlock(b) = TokensAsOf("rateModel", b)
<1>1. LogOK /\ WindowOK /\ MemoryOK /\ DerivedOK
  BY DEF IInv
<1>2. PICK t \in 0..Len(log) : TokensOK(updates, t) /\ Reached("UpdatedTokenConfig", t)
  BY <1>1 DEF MemoryOK
<1>3. PICK m \in 0..Len(log) :
        /\ ToSet(rateModels) = {p \in 1..m : TokenFits("rateModel", p)}
        /\ \A p \in EventsOf("UpdatedTokenConfig") : BlockAt(p) <= latestBlockSearched => p <= m
  BY <1>1 DEF DerivedOK
<1>4. \A p \in EventsOf("UpdatedTokenConfig") : BlockAt(p) <= b => p \in 1..t /\ p \in 1..m
  <2>1. latestBlockSearched \in Nat /\ b \in Nat /\ b <= latestBlockSearched
    BY <1>1, BoundAssumption DEF WindowOK, LogOK
  <2>2. SUFFICES ASSUME NEW p \in EventsOf("UpdatedTokenConfig"), BlockAt(p) <= b
                 PROVE  p \in 1..t /\ p \in 1..m
    OBVIOUS
  <2>3. p \in 1..Len(log) /\ BlockAt(p) \in Nat
    BY <1>1, LogFacts DEF EventsOf
  <2>4. BlockAt(p) <= latestBlockSearched
    BY <2>1, <2>2, <2>3
  <2>5. Known(BlockAt(p))
    BY <2>4 DEF Known
  <2> QED
    BY <1>2, <1>3, <2>3, <2>4, <2>5 DEF Reached
<1>5. \A p : p \in AsOfBlock(b) <=> p \in DOMAIN log /\ BlockAt(p) <= b
  BY DEF AsOfBlock
<1>6. \A l, p : TokenFits(l, p) => p \in EventsOf("UpdatedTokenConfig") /\ p \in DOMAIN log
  BY DEF TokenFits, EventsOf
<1>7. ASSUME NEW l \in TokenLists PROVE ToSet(updates[l]) \cap AsOfBlock(b) = TokensAsOf(l, b)
  <2>1. ToSet(updates[l]) = {p \in 1..t : TokenFits(l, p)}
    BY <1>2 DEF TokensOK
  <2> QED
    BY <1>4, <1>5, <1>6, <2>1 DEF TokensAsOf
<1>8. ToSet(rateModels) \cap AsOfBlock(b) = TokensAsOf("rateModel", b)
  BY <1>3, <1>4, <1>5, <1>6 DEF TokensAsOf
<1> QED
  BY <1>7, <1>8

LEMMA SearchedBlock ==
  ASSUME IInv, NEW b \in 0..latestBlockSearched
  PROVE  LogOK /\ b \in Nat /\ b \in 0..LastBlock
  BY BoundAssumption DEF IInv, LogOK, WindowOK

(* For the keys of which each valid update is accepted.                    *)
LEMMA AcceptedAlone ==
  ASSUME IInv, isUpdated, NEW b \in 0..latestBlockSearched
  PROVE  /\ LatestOf("LITE_CHAIN_ID_INDICES", AsOfBlock(b)) = LiteInLog(b)
         /\ ToSet(updates["DISABLED_CHAINS"]) \cap AsOfBlock(b) = ParsedDisabled(b)
         /\ \A key \in {"MAX_RELAYER_REPAYMENT_LEAF_SIZE", "MAX_POOL_REBALANCE_LEAF_SIZE"} :
              LatestOf(key, AsOfBlock(b)) = CountInLog(key, b)
<1>1. \A key \in GlobalKeys :
        ToSet(updates[key]) \cap AsOfBlock(b) = {p \in Sets(key, b) : Fits(key, p, ToSet(updates[key]))}
  BY StoredAsOf
<1>2. \A key : \A p \in Sets(key, b) : p \in EventsOf("UpdatedGlobalConfig") /\ log[p].key = key
  BY DEF Sets
<1>3. LatestOf("LITE_CHAIN_ID_INDICES", AsOfBlock(b)) = LiteInLog(b)
  <2> DEFINE key == "LITE_CHAIN_ID_INDICES"
  <2>1. \A p \in Sets(key, b) :
          Fits(key, p, ToSet(updates[key]))
            <=> log[p].value \notin {NotAList, LeadingZero} /\ ValidList(log[p].value)
    BY <1>2 DEF Fits, Valid, GoesBefore
  <2>2. key \in GlobalKeys
    BY DEF GlobalKeys
  <2>3. ToSet(updates[key]) \cap AsOfBlock(b)
          = {p \in Sets(key, b) : log[p].value \notin {NotAList, LeadingZero} /\ ValidList(log[p].value)}
    BY <1>1, <2>1, <2>2
  <2> QED
    BY <2>3 DEF LatestOf, LiteInLog
<1>4. ToSet(updates["DISABLED_CHAINS"]) \cap AsOfBlock(b) = ParsedDisabled(b)
  <2> DEFINE key == "DISABLED_CHAINS"
  <2>1. \A p \in Sets(key, b) :
          Fits(key, p, ToSet(updates[key])) <=> log[p].value \notin {NotAList, LeadingZero}
    BY <1>2 DEF Fits, Valid, GoesBefore
  <2>2. key \in GlobalKeys
    BY DEF GlobalKeys
  <2> QED
    BY <1>1, <2>1, <2>2 DEF ParsedDisabled
<1>5. ASSUME NEW key \in {"MAX_RELAYER_REPAYMENT_LEAF_SIZE", "MAX_POOL_REBALANCE_LEAF_SIZE"}
      PROVE  LatestOf(key, AsOfBlock(b)) = CountInLog(key, b)
  <2>1. \A p \in Sets(key, b) :
          Fits(key, p, ToSet(updates[key])) <=> log[p].value # NotANumber
    BY <1>2 DEF Fits, Valid, GoesBefore
  <2>2. key \in GlobalKeys
    BY DEF GlobalKeys
  <2>3. ToSet(updates[key]) \cap AsOfBlock(b) = {p \in Sets(key, b) : log[p].value # NotANumber}
    BY <1>1, <2>1, <2>2
  <2> QED
    BY <2>3 DEF LatestOf, CountInLog
<1> QED
  BY <1>3, <1>4, <1>5

LEMMA TokensBy ==
  ASSUME IInv, isUpdated, NEW b \in 0..latestBlockSearched, NEW l1
  PROVE  LET sets == TokenUpdatesBy(l1, b)
             whole == {p \in sets : log[p].config.targets # BadTargets} IN
         /\ sets \subseteq DOMAIN log /\ whole \subseteq DOMAIN log
         /\ \A p \in sets : log[p] \in EventRecords /\ log[p].config \in TokenConfigs
                            /\ log[p].config # NotJson
         /\ LatestOfToken("spokeTargetBalances", l1, AsOfBlock(b)) = Latest(whole)
         /\ LatestOfToken("routeRateModel", l1, AsOfBlock(b)) = Latest(whole)
         /\ {q \in ToSet(rateModels) : log[q].l1Token = l1 /\ BlockAt(q) <= b} = sets
<1> DEFINE sets == TokenUpdatesBy(l1, b)
           whole == {p \in sets : log[p].config.targets # BadTargets}
<1>1. LogOK /\ DerivedOK /\ "spokeTargetBalances" \in TokenLists /\ "routeRateModel" \in TokenLists
  BY DEF IInv, TokenLists
<1>2. /\ \A l \in TokenLists : ToSet(updates[l]) \cap AsOfBlock(b) = TokensAsOf(l, b)
      /\ ToSet(rateModels) \cap AsOfBlock(b) = TokensAsOf("rateModel", b)
  BY TokensStoredAsOf
<1>3. sets = {p \in TokensAsOf("rateModel", b) : log[p].l1Token = l1}
  BY DEF TokenUpdatesBy, TokensAsOf, TokenFits
<1>4. \A l \in {"spokeTargetBalances", "routeRateModel"} :
        whole = {p \in TokensAsOf(l, b) : log[p].l1Token = l1}
  BY DEF TokenUpdatesBy, TokensAsOf, TokenFits
<1>5. sets \subseteq DOMAIN log /\ whole \subseteq DOMAIN log
  BY DEF TokenUpdatesBy, EventsOf
<1>6. \A p \in sets : log[p] \in EventRecords /\ log[p].config \in TokenConfigs /\ log[p].config # NotJson
  <2>1. \A p \in sets : log[p] \in EventRecords /\ log[p].name = "UpdatedTokenConfig"
                        /\ log[p].config # NotJson
    BY <1>1, <1>5, LogFacts DEF TokenUpdatesBy, EventsOf
  <2>2. \A e \in EventRecords : e.name = "UpdatedTokenConfig" => e.config \in TokenConfigs
    BY DEF EventRecords
  <2> QED
    BY <2>1, <2>2
<1>7. \A l \in {"spokeTargetBalances", "routeRateModel"} :
        LatestOfToken(l, l1, AsOfBlock(b)) = Latest(whole)
  <2>1. SUFFICES ASSUME NEW l \in {"spokeTargetBalances", "routeRateModel"}
                 PROVE  LatestOfToken(l, l1, AsOfBlock(b)) = Latest(whole)
    OBVIOUS
  <2>2. ToSet(updates[l]) \cap AsOfBlock(b) = TokensAsOf(l, b) /\ whole = {p \in TokensAsOf(l, b) : log[p].l1Token = l1}
    BY <1>1, <1>2, <1>4
  <2> HIDE DEF whole
  <2> QED
    BY <2>2 DEF LatestOfToken
<1>8. {q \in ToSet(rateModels) : log[q].l1Token = l1 /\ BlockAt(q) <= b} = sets
  <2>1. \A q \in ToSet(rateModels) : q \in DOMAIN log
    BY <1>1, LogFacts DEF DerivedOK
  <2>2. \A q \in DOMAIN log : q \in AsOfBlock(b) <=> BlockAt(q) <= b
    BY DEF AsOfBlock
  <2> HIDE DEF sets
  <2> QED
    BY <1>2, <1>3, <2>1, <2>2
<1> QED
  BY <1>5, <1>6, <1>7, <1>8

LEMMA RateModelsFollow == IInv => RateModelsAsOfBlock
<1> SUFFICES ASSUME IInv, isUpdated, NEW l1 \in L1Tokens, NEW route \in Routes,
                    NEW b \in 0..latestBlockSearched
             PROVE  LET sets == TokenUpdatesBy(l1, b)
                        whole == {p \in sets : log[p].config.targets # BadTargets}
                        routes == IF whole = {} THEN None ELSE log[Max(whole)].config.routes
                    IN RateModelForBlock(l1, route, b) =
                         IF routes # None /\ routes.route = route THEN routes.model
                         ELSE IF sets = {} THEN None ELSE log[Max(sets)].config.rateModel
  BY DEF RateModelsAsOfBlock
<1> DEFINE sets == TokenUpdatesBy(l1, b)
           whole == {p \in sets : log[p].config.targets # BadTargets}
           routes == IF whole = {} THEN None ELSE log[Max(whole)].config.routes
           model == RouteRateModelForBlock(l1, route, b)
<1>1. /\ LogOK /\ sets \subseteq DOMAIN log /\ whole \subseteq sets
      /\ \A p \in sets : log[p].config \in TokenConfigs /\ log[p].config # NotJson
      /\ LatestOfToken("routeRateModel", l1, AsOfBlock(b)) = Latest(whole)
      /\ {q \in ToSet(rateModels) : log[q].l1Token = l1 /\ BlockAt(q) <= b} = sets
  BY TokensBy DEF IInv
<1> HIDE DEF sets, whole
<1>2. /\ Latest(sets) = None <=> sets = {}
      /\ Latest(whole) = None <=> whole = {}
      /\ whole # {} => Latest(whole) \in whole
      /\ whole # {} => Latest(whole) = Max(whole)
      /\ sets # {} => Latest(sets) = Max(sets)
  BY <1>1, LatestIs DEF Latest
<1>3. model = IF routes = None \/ routes.route # route THEN None ELSE routes.model
  <2>1. CASE whole = {}
    BY <1>1, <1>2, <2>1 DEF RouteRateModelForBlock
  <2>2. CASE whole # {}
    BY <1>1, <1>2, <2>2 DEF RouteRateModelForBlock
  <2> QED
    BY <2>1, <2>2
<1>4. routes # None => routes.model # None
  <2>1. whole # {} => Max(whole) \in sets
    BY <1>1, <1>2
  <2> QED
    BY <1>1, <2>1, ValueAssumption
<1> HIDE DEF routes, model
<1>5. RateModelForBlock(l1, route, b)
        = IF model # None THEN model ELSE IF Latest(sets) = None THEN None ELSE log[Latest(sets)].config.rateModel
  BY <1>1 DEF RateModelForBlock, model
<1>6. RateModelForBlock(l1, route, b) =
        IF routes # None /\ routes.route = route THEN routes.model
        ELSE IF sets = {} THEN None ELSE log[Max(sets)].config.rateModel
  BY <1>2, <1>3, <1>4, <1>5
<1> QED
  BY <1>6 DEF sets, whole, routes

LEMMA SettingsFollow == IInv => SettingsAsOfBlock
<1> SUFFICES ASSUME IInv, isUpdated, NEW b \in 0..latestBlockSearched
             PROVE
      /\ LET p == LiteInLog(b) IN
         /\ LiteChainIdIndicesForBlock(b) = (IF p = None THEN <<>> ELSE log[p].value)
         /\ \A c \in ToSet(DefaultChainIds) :
              IsLiteChainAtTimestamp(c, BlockTime(b)) <=> p # None /\ c \in ToSet(log[p].value)
      /\ \A key \in {"MAX_RELAYER_REPAYMENT_LEAF_SIZE", "MAX_POOL_REBALANCE_LEAF_SIZE"} :
           LET p == CountInLog(key, b)
           IN CountForBlock(key, b) = (IF p = None THEN None ELSE log[p].value)
      /\ \A l1 \in L1Tokens :
           LET whole == {p \in TokenUpdatesBy(l1, b) : log[p].config.targets # BadTargets}
           IN SpokeTargetBalancesForBlock(l1, b) =
                IF whole = {} THEN None ELSE log[Max(whole)].config.targets
  BY DEF SettingsAsOfBlock
<1>1. /\ LatestOf("LITE_CHAIN_ID_INDICES", AsOfBlock(b)) = LiteInLog(b)
      /\ \A key \in {"MAX_RELAYER_REPAYMENT_LEAF_SIZE", "MAX_POOL_REBALANCE_LEAF_SIZE"} :
           LatestOf(key, AsOfBlock(b)) = CountInLog(key, b)
  BY AcceptedAlone
<1>2. AsOfTimestamp(BlockTime(b)) = AsOfBlock(b)
  BY SearchedBlock, AsOfTime
<1>3. LET p == LiteInLog(b) IN
      /\ LiteChainIdIndicesForBlock(b) = (IF p = None THEN <<>> ELSE log[p].value)
      /\ \A c \in ToSet(DefaultChainIds) :
           IsLiteChainAtTimestamp(c, BlockTime(b)) <=> p # None /\ c \in ToSet(log[p].value)
  BY <1>1, <1>2 DEF LiteChainIdIndicesForBlock, IsLiteChainAtTimestamp
<1>4. \A key \in {"MAX_RELAYER_REPAYMENT_LEAF_SIZE", "MAX_POOL_REBALANCE_LEAF_SIZE"} :
        LET p == CountInLog(key, b)
        IN CountForBlock(key, b) = (IF p = None THEN None ELSE log[p].value)
  BY <1>1 DEF CountForBlock
<1>5. ASSUME NEW l1 \in L1Tokens
      PROVE  LET whole == {p \in TokenUpdatesBy(l1, b) : log[p].config.targets # BadTargets}
             IN SpokeTargetBalancesForBlock(l1, b) =
                  IF whole = {} THEN None ELSE log[Max(whole)].config.targets
  <2> DEFINE whole == {p \in TokenUpdatesBy(l1, b) : log[p].config.targets # BadTargets}
  <2>1. LogOK /\ whole \subseteq DOMAIN log
        /\ LatestOfToken("spokeTargetBalances", l1, AsOfBlock(b)) = Latest(whole)
    BY TokensBy DEF IInv
  <2> HIDE DEF whole
  <2>2. /\ Latest(whole) = None <=> whole = {}
        /\ whole # {} => Latest(whole) = Max(whole)
    BY <2>1, LatestIs DEF Latest
  <2>3. SpokeTargetBalancesForBlock(l1, b) = IF whole = {} THEN None ELSE log[Max(whole)].config.targets
    BY <2>1, <2>2 DEF SpokeTargetBalancesForBlock
  <2> QED
    BY <2>3 DEF whole
<1> QED
  BY <1>3, <1>4, <1>5

(* Rate models, target balances, lite chains and leaf counts as of each    *)
(* searched block are those of the last valid update up to it.             *)
THEOREM ConfigCurrent == Spec => []ConfigAsOfBlock
<1>1. IInv => ConfigAsOfBlock
  BY RateModelsFollow, SettingsFollow DEF ConfigAsOfBlock
<1> QED
  BY <1>1, Invariance, PTL

-----------------------------------------------------------------------------
(* Versions.                                                               *)

LEMMA MaxIsInt ==
  ASSUME NEW S \in SUBSET Int, NEW v \in S, \A x \in S : x <= v
  PROVE  Max(S) = v
<1>1. \A y \in S : y \in Int /\ v \in Int
  OBVIOUS
<1>2. \A y \in S : v >= y
  BY <1>1
<1>3. Max(S) \in S /\ \A y \in S : Max(S) >= y
  BY <1>2 DEF Max
<1>4. Max(S) >= v /\ v >= Max(S)
  BY <1>2, <1>3
<1>5. Max(S) \in Int /\ v \in Int
  BY <1>1, <1>3
<1> DEFINE x == Max(S)
<1> HIDE DEF x
<1>6. x >= v /\ v >= x /\ x \in Int /\ v \in Int
  BY <1>4, <1>5 DEF x
<1>7. x = v
  BY <1>6
<1> QED
  BY <1>7 DEF x

(* The memory that holds as of a searched block.                           *)
LEMMA SearchedReading ==
  ASSUME IInv, isUpdated
  PROVE  \E m : /\ Reading(updates, m)
                /\ \A p \in EventsOf("UpdatedGlobalConfig") : BlockAt(p) <= latestBlockSearched => p <= m
<1>1. PICK m \in 0..Len(log) : GlobalsOK(updates, m) /\ Reached("UpdatedGlobalConfig", m)
  BY DEF IInv, MemoryOK
<1>2. Reading(updates, m)
  BY <1>1 DEF IInv, MemoryOK, Reading, Lists
<1>3. \A p \in EventsOf("UpdatedGlobalConfig") : BlockAt(p) <= latestBlockSearched => p <= m
  BY <1>1 DEF Reached, Known
<1> QED
  BY <1>2, <1>3

LEMMA VersionIs ==
  ASSUME IInv, isUpdated, NEW b \in 0..latestBlockSearched
  PROVE  /\ VersionForBlock(b) = VersionInLog(b)
         /\ VersionInLog(b) \in {DefaultVersion}
              \cup ({log[p].value : p \in Sets("VERSION", b)} \ {NotANumber})
<1> DEFINE versions == updates["VERSION"]
           ps == AsOfBlock(b)
           S == {DefaultVersion} \cup ({log[p].value : p \in Sets("VERSION", b)} \ {NotANumber})
           I == {i \in 1..Len(versions) : versions[i] \in ps}
           first == SelectInSeq(versions, LAMBDA p : p \in ps)
           v == VersionForBlock(b)
<1>1. LogOK /\ b \in Nat /\ "VERSION" \in GlobalKeys
  BY SearchedBlock DEF GlobalKeys
<1>2. PICK m : Reading(updates, m)
  BY SearchedReading
<1>3. /\ versions \in Seq(Nat)
      /\ \A q \in ToSet(versions) : /\ Valid("VERSION", q) /\ q \in EventsOf("UpdatedGlobalConfig")
                                    /\ log[q].key = "VERSION" /\ q \in DOMAIN log
  BY <1>1, <1>2, StoredFacts DEF EventsOf
<1>4. ToSet(versions) \cap ps = {p \in Sets("VERSION", b) : Fits("VERSION", p, ToSet(versions))}
  BY <1>1, StoredAsOf
<1>5. /\ Len(versions) \in Nat /\ \A i \in 1..Len(versions) : versions[i] \in ToSet(versions)
      /\ \A q \in ToSet(versions) : \E i \in 1..Len(versions) : q = versions[i]
  BY <1>3, SetOfNonempty
<1>6. \A q \in ToSet(versions) : log[q].value \in Int /\ log[q].value > 0 /\ log[q].value # NotANumber
  BY <1>1, <1>3, GlobalFacts DEF Valid, DefaultVersion
<1>7. \A i, j \in 1..Len(versions) : i < j => log[versions[j]].value < log[versions[i]].value
  BY <1>2 DEF Reading, OrderOK
<1>8. first = IF I # {} THEN Min(I) ELSE 0
  BY DEF SelectInSeq
<1>9. v = IF first = 0 THEN 0 ELSE log[versions[first]].value
  BY DEF VersionForBlock, VersionOf, DefaultVersion
<1>10. \A p \in Sets("VERSION", b) : /\ p \in EventsOf("UpdatedGlobalConfig") /\ log[p].key = "VERSION"
                                     /\ p \in DOMAIN log /\ p \in ps /\ p \in Nat
  BY <1>1, LogFacts DEF Sets, EventsOf, AsOfBlock
<1>11. S \in SUBSET Int
  BY <1>1, <1>10, GlobalFacts DEF DefaultVersion
<1>12. VersionInLog(b) = Max(S)
  BY DEF VersionInLog
<1>13. \A q \in DOMAIN log : \A p \in ps : q <= p => q \in ps
  BY <1>1, EarlierAsOf
<1> HIDE DEF versions, ps, first, v
<1>14. v \in S /\ \A q \in ToSet(versions) \cap ps : log[q].value <= v
  <2>1. CASE I = {}
    <3>1. v = 0 /\ v \in S
      BY <1>8, <1>9, <2>1 DEF DefaultVersion
    <3>2. ToSet(versions) \cap ps = {}
      BY <1>5, <2>1
    <3> QED
      BY <3>1, <3>2
  <2>2. CASE I # {}
    <3>1. first \in I /\ \A i \in I : first <= i
      <4>1. I \in SUBSET Nat
        BY <1>5
      <4> HIDE DEF I
      <4>2. \E i \in I : \A j \in I : i <= j
        BY <2>2, <4>1, LeastNumber
      <4>3. Min(I) \in I /\ \A j \in I : Min(I) <= j
        BY <4>2 DEF Min
      <4> QED
        BY <1>8, <2>2, <4>3
    <3>2. first \in 1..Len(versions) /\ versions[first] \in ps /\ versions[first] \in ToSet(versions)
      BY <1>5, <3>1
    <3>3. v = log[versions[first]].value
      BY <1>9, <3>2
    <3>4. versions[first] \in Sets("VERSION", b)
      BY <1>4, <3>2
    <3>5. v \in S
      BY <1>6, <3>2, <3>3, <3>4
    <3>6. ASSUME NEW q \in ToSet(versions), q \in ps PROVE log[q].value <= v
      <4>1. PICK i \in 1..Len(versions) : q = versions[i]
        BY <1>5
      <4>2. i \in I
        BY <3>6, <4>1
      <4>3. first <= i /\ first \in Int /\ i \in Int
        BY <3>1, <3>2, <4>2
      <4>4. CASE i = first
        BY <1>6, <3>2, <3>3, <4>1, <4>4
      <4>5. CASE first < i
        <5>1. log[versions[i]].value < log[versions[first]].value
          BY <1>7, <3>2, <4>5
        <5> QED
          BY <1>6, <3>2, <3>3, <4>1, <5>1
      <4> QED
        BY <4>3, <4>4, <4>5
    <3> QED
      BY <3>5, <3>6
  <2> QED
    BY <2>1, <2>2
<1>15. 0 <= v /\ v \in Int
  <2>1. v \in Int
    BY <1>11, <1>14
  <2>2. CASE first = 0
    BY <1>9, <2>2
  <2>3. CASE first # 0
    <3>1. I # {} /\ first = Min(I)
      BY <1>8, <2>3
    <3>2. first \in I
      <4>1. I \in SUBSET Nat
        BY <1>5
      <4> HIDE DEF I
      <4>2. \E i \in I : \A j \in I : i <= j
        BY <3>1, <4>1, LeastNumber
      <4> QED
        BY <3>1, <4>2 DEF Min
    <3> QED
      BY <1>5, <1>6, <1>9, <2>3, <3>2
  <2> QED
    BY <2>1, <2>2, <2>3
<1>16. ASSUME NEW p \in Sets("VERSION", b), log[p].value # NotANumber PROVE log[p].value <= v
  <2>1. log[p].value \in Int
    BY <1>1, <1>10, <1>16, GlobalFacts
  <2>2. CASE p \in ToSet(versions)
    BY <1>10, <1>14, <2>2
  <2>3. CASE p \notin ToSet(versions)
    <3>1. ~Fits("VERSION", p, ToSet(versions))
      BY <1>4, <2>3
    <3>2. ~(log[p].value > 0) \/ \E q \in ToSet(versions) : q < p /\ ~(log[q].value < log[p].value)
      BY <1>10, <1>16, <3>1 DEF Fits, Valid, GoesBefore, DefaultVersion
    <3>3. CASE ~(log[p].value > 0)
      BY <1>15, <2>1, <3>3
    <3>4. CASE \E q \in ToSet(versions) : q < p /\ ~(log[q].value < log[p].value)
      <4>1. PICK q \in ToSet(versions) : q < p /\ ~(log[q].value < log[p].value)
        BY <3>4
      <4>2. q \in DOMAIN log /\ q \in Nat /\ p \in Nat
        BY <1>1, <1>3, <1>10, LogFacts
      <4>3. q \in ps
        BY <1>10, <1>13, <4>1, <4>2
      <4>4. log[q].value <= v /\ log[q].value \in Int
        BY <1>6, <1>14, <4>3
      <4> QED
        BY <1>15, <2>1, <4>1, <4>4
    <3> QED
      BY <3>2, <3>3, <3>4
  <2> QED
    BY <2>2, <2>3
<1>17. \A x \in S : x <= v
  BY <1>15, <1>16 DEF DefaultVersion
<1> HIDE DEF S
<1>18. Max(S) = v
  BY <1>11, <1>14, <1>17, MaxIsInt
<1> QED
  BY <1>12, <1>14, <1>18 DEF v, S

LEMMA VersionsFollow == IInv => VersionsAsOfBlock
<1> SUFFICES ASSUME IInv, isUpdated
             PROVE
      /\ \A b \in 0..latestBlockSearched :
           /\ VersionForBlock(b) = VersionInLog(b)
           /\ VersionForTimestamp(BlockTime(b)) = VersionInLog(b)
           /\ HasValidVersionForTimestamp(BlockTime(b)) <=> ConfigStoreVersion >= VersionInLog(b)
      /\ ConfigStoreVersion < VersionInLog(latestBlockSearched) => ~hasLatestConfigStoreVersion
  BY DEF VersionsAsOfBlock
<1>1. ASSUME NEW b \in 0..latestBlockSearched
      PROVE  /\ VersionForBlock(b) = VersionInLog(b)
             /\ VersionForTimestamp(BlockTime(b)) = VersionInLog(b)
             /\ HasValidVersionForTimestamp(BlockTime(b)) <=> ConfigStoreVersion >= VersionInLog(b)
  <2>1. VersionForBlock(b) = VersionInLog(b)
    BY VersionIs
  <2>2. AsOfTimestamp(BlockTime(b)) = AsOfBlock(b)
    BY SearchedBlock, AsOfTime
  <2>3. VersionForTimestamp(BlockTime(b)) = VersionForBlock(b)
    BY <2>2 DEF VersionForTimestamp, VersionForBlock
  <2> QED
    BY <2>1, <2>3 DEF HasValidVersionForTimestamp
<1>2. ASSUME hasLatestConfigStoreVersion
      PROVE  ~(ConfigStoreVersion < VersionInLog(latestBlockSearched))
  <2> DEFINE S == {DefaultVersion}
                    \cup ({log[p].value : p \in Sets("VERSION", latestBlockSearched)} \ {NotANumber})
  <2>1. latestBlockSearched \in 0..latestBlockSearched
    BY BoundAssumption DEF IInv, WindowOK, LogOK
  <2>2. LogOK /\ \A p \in Sets("VERSION", latestBlockSearched) :
          p \in EventsOf("UpdatedGlobalConfig") /\ log[p].key = "VERSION"
    BY DEF IInv, Sets
  <2>3. S \in SUBSET Int
    BY <2>2, GlobalFacts DEF DefaultVersion
  <2>4. \A x \in S : x <= ConfigStoreVersion
    <3>1. \A p \in Sets("VERSION", latestBlockSearched) :
            log[p].value # NotANumber => log[p].value <= ConfigStoreVersion
      BY <1>2 DEF IInv, DerivedOK
    <3> QED
      BY <3>1, ChainAssumption DEF DefaultVersion
  <2>5. VersionInLog(latestBlockSearched) \in S
    BY <2>1, VersionIs
  <2> HIDE DEF S
  <2>6. VersionInLog(latestBlockSearched) \in Int /\ VersionInLog(latestBlockSearched) <= ConfigStoreVersion
    BY <2>3, <2>4, <2>5
  <2>7. ConfigStoreVersion \in Int
    BY ChainAssumption
  <2> QED
    BY <2>6, <2>7
<1> QED
  BY <1>1, <1>2

(* The version as of a searched block, or as of its time, is the highest   *)
(* that was ever set up to it, and a program that is behind says so.       *)
THEOREM VersionsCurrent == Spec => []VersionsAsOfBlock
  BY VersionsFollow, Invariance, PTL

-----------------------------------------------------------------------------
(* Lists of chains.                                                        *)

LEMMA ChainIdsStored ==
  ASSUME IInv
  PROVE  LET ids == ToSet(updates["CHAIN_ID_INDICES"]) IN
         /\ LogOK /\ ids \subseteq DOMAIN log
         /\ \A q \in ids : /\ log[q].value \in Seq(Int)
                           /\ IsPrefix(ImplicitChainIds(ConfigStoreChain), log[q].value)
         /\ \A q, p \in ids : q < p => IsPrefix(log[q].value, log[p].value)
<1> DEFINE key == "CHAIN_ID_INDICES"
           ids == ToSet(updates[key])
<1>1. LogOK /\ key \in GlobalKeys
  BY DEF IInv, GlobalKeys
<1>2. PICK m : Reading(updates, m)
  BY DEF IInv, MemoryOK, Reading, Lists
<1>3. \A q \in ids : /\ q \in EventsOf("UpdatedGlobalConfig") /\ log[q].key = key
                     /\ Valid(key, q) /\ Fits(key, q, ids)
  BY <1>1, <1>2, StoredFacts
<1>4. ids \subseteq DOMAIN log
  BY <1>3 DEF EventsOf
<1>5. ASSUME NEW q \in ids
      PROVE  log[q].value \in Seq(Int) /\ IsPrefix(ImplicitChainIds(ConfigStoreChain), log[q].value)
  BY <1>1, <1>3, GlobalFacts DEF Valid, ChainIdValues
<1>6. \A q, p \in ids : q < p => IsPrefix(log[q].value, log[p].value)
  BY <1>3 DEF Fits, GoesBefore
<1> QED
  BY <1>1, <1>4, <1>5, <1>6

(* The list of chains as of a block, for whatever set of updates is there. *)
LEMMA ChainIdsIs ==
  ASSUME IInv, chainId # None, NEW b
  PROVE  LET A == ToSet(updates["CHAIN_ID_INDICES"]) \cap AsOfBlock(b) IN
         /\ A \subseteq DOMAIN log
         /\ A = {} => ChainIdIndicesForBlock(b) = ImplicitChainIds(ConfigStoreChain)
         /\ A # {} => /\ Latest(A) \in A /\ \A q \in A : q <= Latest(A)
                      /\ ChainIdIndicesForBlock(b) = log[Latest(A)].value
         /\ ChainIdIndicesForBlock(b) \in Seq(Int)
<1> DEFINE A == ToSet(updates["CHAIN_ID_INDICES"]) \cap AsOfBlock(b)
<1>1. LogOK /\ A \subseteq DOMAIN log /\ \A q \in A : log[q].value \in Seq(Int)
  BY ChainIdsStored
<1>2. ChainIdIndicesForBlock(b)
        = IF Latest(A) = None THEN ImplicitChainIds(chainId) ELSE log[Latest(A)].value
  BY DEF ChainIdIndicesForBlock, LatestOf
<1>3. chainId = ConfigStoreChain
  BY DEF IInv, WindowOK
<1> HIDE DEF A
<1>4. /\ Latest(A) = None <=> A = {}
      /\ A # {} => Latest(A) \in A /\ \A q \in A : q <= Latest(A)
  BY <1>1, LatestIs
<1>5. ImplicitChainIds(ConfigStoreChain) \in Seq(Int)
  BY ImplicitIsList
<1>6. /\ A = {} => ChainIdIndicesForBlock(b) = ImplicitChainIds(ConfigStoreChain)
      /\ A # {} => ChainIdIndicesForBlock(b) = log[Latest(A)].value
  BY <1>2, <1>3, <1>4
<1>7. ChainIdIndicesForBlock(b) \in Seq(Int)
  BY <1>1, <1>4, <1>5, <1>6
<1> QED
  BY <1>1, <1>4, <1>6, <1>7 DEF A

LEMMA ListsGrow == IInv => ChainIdsOnlyGrow
<1> SUFFICES ASSUME IInv, chainId # None, NEW b \in Blocks, b < LastBlock
             PROVE  IsPrefix(ChainIdIndicesForBlock(b), ChainIdIndicesForBlock(b + 1))
  BY DEF ChainIdsOnlyGrow
<1> DEFINE ids == ToSet(updates["CHAIN_ID_INDICES"])
           A == ids \cap AsOfBlock(b)
           B == ids \cap AsOfBlock(b + 1)
           x == ChainIdIndicesForBlock(b)
           y == ChainIdIndicesForBlock(b + 1)
           first == ImplicitChainIds(ConfigStoreChain)
<1>1. /\ LogOK /\ ids \subseteq DOMAIN log
      /\ \A q \in ids : log[q].value \in Seq(Int) /\ IsPrefix(first, log[q].value)
      /\ \A q, p \in ids : q < p => IsPrefix(log[q].value, log[p].value)
  BY ChainIdsStored
<1>2. /\ A = {} => x = first
      /\ A # {} => Latest(A) \in A /\ (\A q \in A : q <= Latest(A)) /\ x = log[Latest(A)].value
      /\ x \in Seq(Int)
  BY ChainIdsIs
<1>3. /\ B = {} => y = first
      /\ B # {} => Latest(B) \in B /\ (\A q \in B : q <= Latest(B)) /\ y = log[Latest(B)].value
      /\ y \in Seq(Int)
  BY ChainIdsIs
<1>4. A \subseteq B
  <2>1. \A p \in DOMAIN log : BlockAt(p) \in Nat
    BY <1>1, LogFacts
  <2>2. b \in Nat
    BY BoundAssumption DEF Blocks
  <2> QED
    BY <2>1, <2>2 DEF AsOfBlock
<1>5. \A q \in ids : q \in Nat
  BY <1>1, LogFacts
<1>6. A \subseteq ids /\ B \subseteq ids
  OBVIOUS
<1> HIDE DEF A, B, x, y, first, ids
<1>7. CASE B = {}
  <2>1. x = y
    BY <1>2, <1>3, <1>4, <1>7
  <2> QED
    BY <1>2, <2>1, PrefixReflexive DEF x, y
<1>8. CASE A = {} /\ B # {}
  BY <1>1, <1>2, <1>3, <1>6, <1>8 DEF x, y
<1>9. CASE A # {} /\ B # {}
  <2>1. Latest(A) \in ids /\ Latest(B) \in ids /\ Latest(A) <= Latest(B)
    BY <1>2, <1>3, <1>4, <1>6, <1>9
  <2>2. CASE Latest(A) = Latest(B)
    <3>1. x = y
      BY <1>2, <1>3, <1>9, <2>2
    <3> QED
      BY <1>2, <3>1, PrefixReflexive DEF x, y
  <2>3. CASE Latest(A) < Latest(B)
    BY <1>1, <1>2, <1>3, <1>9, <2>1, <2>3 DEF x, y
  <2> QED
    BY <1>5, <2>1, <2>2, <2>3
<1> QED
  BY <1>7, <1>8, <1>9

(* The lists of the client only grow, also after an update that threw.     *)
THEOREM ChainIdsGrow == Spec => []ChainIdsOnlyGrow
  BY ListsGrow, Invariance, PTL

(* The reading of the history, update by update.                           *)
ReadsChainIds(list, b) ==
  /\ list[0] = ImplicitChainIds(ConfigStoreChain)
  /\ \A p \in 1..Len(log) :
       list[p] = IF p \in Sets("CHAIN_ID_INDICES", b) /\ GoesOn(list[p - 1], log[p].value)
                   THEN log[p].value ELSE list[p - 1]
  /\ ChainIdsInLog(b) = list[Len(log)]

LEMMA ChainIdsSteps ==
  ASSUME LogOK, NEW b
  PROVE  \E list : ReadsChainIds(list, b)
<1> DEFINE n == Len(log)
           S == ChainIdValues
           sets == Sets("CHAIN_ID_INDICES", b)
           first == ImplicitChainIds(ConfigStoreChain)
           step == [i \in 1..n |-> [s \in S |->
                      IF i \in sets /\ GoesOn(s, log[i].value) THEN log[i].value ELSE s]]
           Rec(F) == [p \in 0..n |-> IF p = 0 THEN first
                        ELSE IF p \in sets /\ GoesOn(F[p - 1], log[p].value)
                               THEN log[p].value ELSE F[p - 1]]
           list == CHOOSE F : F = Rec(F)
<1>1. n \in Nat
  BY LogFacts
<1>2. first \in S
  BY ImplicitIsList DEF ChainIdValues
<1>3. \A i \in sets : log[i].value \in S
  BY GlobalFacts DEF Sets
<1>4. step \in [1..n -> [S -> S]]
  <2> HIDE DEF n, S, sets
  <2> QED
    BY <1>3
<1>5. PICK F \in [0..n -> S] : F[0] = first /\ \A i \in 1..n : F[i] = step[i][F[i - 1]]
  <2> HIDE DEF n, step, S, first
  <2>1. \E F \in [0..n -> S] : Recurses(F, n, first, step)
    BY <1>1, <1>2, <1>4, Iterates
  <2> QED
    BY <2>1 DEF Recurses
<1> HIDE DEF S, n, sets, first
<1>6. F = Rec(F)
  <2>1. ASSUME NEW i \in 0..n
        PROVE  F[i] = IF i = 0 THEN first
                      ELSE IF i \in sets /\ GoesOn(F[i - 1], log[i].value) THEN log[i].value ELSE F[i - 1]
    <3>1. CASE i = 0
      BY <1>5, <3>1
    <3>2. CASE i # 0
      <4>1. i \in 1..n /\ i - 1 \in 0..n
        BY <1>1, <3>2
      <4>2. F[i - 1] \in S
        BY <1>5, <4>1
      <4>3. F[i] = step[i][F[i - 1]]
        BY <1>5, <4>1
      <4>4. F[i] = IF i \in sets /\ GoesOn(F[i - 1], log[i].value) THEN log[i].value ELSE F[i - 1]
        BY <4>1, <4>2, <4>3
      <4> QED
        BY <3>2, <4>4
    <3> QED
      BY <3>1, <3>2
  <2>2. F = [i \in 0..n |-> F[i]]
    BY <1>5
  <2> QED
    BY <2>1, <2>2
<1>7. list = Rec(list)
  BY <1>6
<1>8. ChainIdsInLog(b) = list[n]
  BY DEF ChainIdsInLog, n, sets, first
<1> HIDE DEF list
<1>9. \A p \in 0..n : list[p] = IF p = 0 THEN first
                        ELSE IF p \in sets /\ GoesOn(list[p - 1], log[p].value)
                               THEN log[p].value ELSE list[p - 1]
  BY <1>7
<1>10. 0 \in 0..n /\ \A i \in 1..n : i \in 0..n /\ i # 0
  BY <1>1
<1>11. list[0] = first /\ \A p \in 1..n :
         list[p] = IF p \in sets /\ GoesOn(list[p - 1], log[p].value) THEN log[p].value ELSE list[p - 1]
  BY <1>9, <1>10
<1>12. ReadsChainIds(list, b)
  BY <1>8, <1>11 DEF ReadsChainIds, n, sets, first
<1> QED
  BY <1>12

LEMMA ListsFollow == IInv => ChainIdsAsOfBlock
<1> SUFFICES ASSUME IInv, isUpdated, NEW b \in 0..latestBlockSearched
             PROVE  ChainIdIndicesForBlock(b) = ChainIdsInLog(b)
  BY DEF ChainIdsAsOfBlock
<1> DEFINE key == "CHAIN_ID_INDICES"
           ids == ToSet(updates[key])
           A == ids \cap AsOfBlock(b)
           first == ImplicitChainIds(ConfigStoreChain)
           n == Len(log)
           Upto(k) == {q \in A : q <= k}
<1>1. LogOK /\ b \in Nat /\ key \in GlobalKeys /\ n \in Nat /\ DOMAIN log = 1..n
  BY SearchedBlock, LogFacts DEF GlobalKeys
<1>2. chainId # None
  BY ChainAssumption, ValueAssumption DEF IInv, WindowOK
<1>3. /\ ids \subseteq DOMAIN log
      /\ \A q \in ids : log[q].value \in Seq(Int) /\ IsPrefix(first, log[q].value)
      /\ \A q, p \in ids : q < p => IsPrefix(log[q].value, log[p].value)
  BY ChainIdsStored
<1>4. A = {p \in Sets(key, b) : Fits(key, p, ids)}
  BY <1>1, StoredAsOf
<1>5. PICK list : ReadsChainIds(list, b)
  BY <1>1, ChainIdsSteps
<1>6. /\ list[0] = first /\ ChainIdsInLog(b) = list[n]
      /\ \A p \in 1..n : list[p] = IF p \in Sets(key, b) /\ GoesOn(list[p - 1], log[p].value)
                                     THEN log[p].value ELSE list[p - 1]
  BY <1>5 DEF ReadsChainIds
<1>7. \A p \in Sets(key, b) : /\ p \in EventsOf("UpdatedGlobalConfig") /\ log[p].key = key
                              /\ p \in DOMAIN log /\ p \in AsOfBlock(b)
                              /\ log[p].value \in ChainIdValues
  BY <1>1, GlobalFacts DEF Sets, EventsOf, AsOfBlock
<1>8. \A p \in AsOfBlock(b) : \A q \in ids : q <= p => q \in A
  BY <1>1, <1>3, EarlierAsOf
<1>9. \A p \in Sets(key, b) :
        Fits(key, p, ids)
          <=> /\ log[p].value \notin {NotAList, LeadingZero} /\ ValidList(log[p].value)
              /\ IsPrefix(first, log[p].value)
              /\ \A q \in ids : q < p => IsPrefix(log[q].value, log[p].value)
  BY <1>7 DEF Fits, Valid, GoesBefore
<1>10. /\ A = {} => ChainIdIndicesForBlock(b) = first
       /\ A # {} => /\ Latest(A) \in A /\ \A q \in A : q <= Latest(A)
                    /\ ChainIdIndicesForBlock(b) = log[Latest(A)].value
  BY <1>2, ChainIdsIs
<1>11. first \in Seq(Int)
  BY ImplicitIsList
<1>12. A \subseteq ids /\ A \subseteq 1..n
  BY <1>1, <1>3
<1> DEFINE InForce(k) ==
             /\ Upto(k) = {} => list[k] = first
             /\ \A q \in Upto(k) : (\A r \in Upto(k) : r <= q) => list[k] = log[q].value
           T == {k \in 0..n : InForce(k)}
<1> HIDE DEF ids, A, first, n
<1>13. 0 \in T
  <2>1. Upto(0) = {}
    <3>1. \A q \in A : ~(q <= 0)
      BY <1>1, <1>12
    <3> QED
      BY <3>1
  <2> QED
    BY <1>1, <1>6, <2>1
<1>14. ASSUME NEW k \in 1..n, k - 1 \in T PROVE k \in T
  <2> DEFINE U == Upto(k - 1)
             v == log[k].value
             s == list[k - 1]
  <2>1. /\ U = {} => s = first
        /\ \A q \in U : (\A r \in U : r <= q) => s = log[q].value
    BY <1>14
  <2>2. \A q \in A : q \in 1..n /\ (q < k <=> q \in U)
    BY <1>1, <1>12, <1>14
  <2>3. U \subseteq A /\ U \subseteq ids
    BY <1>12
  <2>4. U # {} => \E M \in U : \A r \in U : r <= M
    <3>1. U \in SUBSET (0..n)
      <4>1. \A q \in A : q \in 0..n
        BY <1>1, <1>12
      <4> QED
        BY <2>3, <4>1
    <3> HIDE DEF U
    <3> QED
      BY <1>1, <3>1, MaxIs
  <2> HIDE DEF U
  <2>5. k \in A <=> k \in Sets(key, b) /\ GoesOn(s, v)
    <3>1. ASSUME k \in A PROVE k \in Sets(key, b) /\ GoesOn(s, v)
      <4>1. k \in Sets(key, b) /\ Fits(key, k, ids)
        BY <1>4, <3>1
      <4>2. /\ v \notin {NotAList, LeadingZero} /\ ValidList(v) /\ IsPrefix(first, v)
            /\ \A q \in ids : q < k => IsPrefix(log[q].value, v)
        BY <1>9, <4>1
      <4>3. IsPrefix(s, v)
        <5>1. CASE U = {}
          BY <2>1, <4>2, <5>1
        <5>2. CASE U # {}
          <6>1. PICK M \in U : \A r \in U : r <= M
            BY <2>4, <5>2
          <6>2. M \in ids /\ M < k /\ s = log[M].value
            BY <2>1, <2>2, <2>3, <6>1
          <6> QED
            BY <4>2, <6>2
        <5> QED
          BY <5>1, <5>2
      <4> QED
        BY <4>1, <4>2, <4>3 DEF GoesOn
    <3>2. ASSUME k \in Sets(key, b), GoesOn(s, v) PROVE k \in A
      <4>1. v \notin {NotAList, LeadingZero} /\ ValidList(v) /\ IsPrefix(s, v)
        BY <3>2 DEF GoesOn
      <4>2. v \in Seq(Int)
        BY <1>7, <3>2, <4>1 DEF ChainIdValues
      <4>3. \A q \in ids : q < k => q \in U
        <5>1. \A q \in ids : q \in 1..n
          BY <1>1, <1>3
        <5>2. \A q \in ids : q < k => q <= k
          BY <1>1, <1>14, <5>1
        <5> QED
          BY <1>7, <1>8, <2>2, <3>2, <5>2
      <4>4. IsPrefix(first, v) /\ \A q \in U : IsPrefix(log[q].value, v)
        <5>1. CASE U = {}
          BY <2>1, <4>1, <5>1
        <5>2. CASE U # {}
          <6>1. PICK M \in U : \A r \in U : r <= M
            BY <2>4, <5>2
          <6>2. M \in ids /\ s = log[M].value /\ log[M].value \in Seq(Int) /\ IsPrefix(first, log[M].value)
            BY <1>3, <2>1, <2>3, <6>1
          <6>3. IsPrefix(log[M].value, v)
            BY <4>1, <6>2
          <6> HIDE DEF v
          <6>4. IsPrefix(first, v)
            BY <1>11, <4>2, <6>2, <6>3, PrefixTransitive
          <6>5. ASSUME NEW q \in U PROVE IsPrefix(log[q].value, v)
            <7>1. q \in ids /\ q <= M /\ q \in 1..n /\ M \in 1..n
              BY <2>2, <2>3, <6>1
            <7>2. CASE q = M
              BY <6>3, <7>2
            <7>3. CASE q < M
              <8>1. IsPrefix(log[q].value, log[M].value) /\ log[q].value \in Seq(Int)
                BY <1>3, <6>2, <7>1, <7>3
              <8> QED
                BY <4>2, <6>2, <6>3, <8>1, PrefixTransitive
            <7> QED
              BY <1>1, <7>1, <7>2, <7>3
          <6> QED
            BY <6>4, <6>5
        <5> QED
          BY <5>1, <5>2
      <4>5. Fits(key, k, ids)
        BY <1>9, <3>2, <4>1, <4>3, <4>4
      <4> QED
        BY <1>4, <3>2, <4>5
    <3> QED
      BY <3>1, <3>2
  <2>6. list[k] = IF k \in A THEN v ELSE s
    BY <1>6, <1>14, <2>5
  <2>7. \A q \in 1..n : q <= k <=> q < k \/ q = k
    BY <1>1, <1>14
  <2>8. CASE k \in A
    <3>1. k \in Upto(k)
      BY <1>14, <2>8
    <3>2. \A q \in Upto(k) : (\A r \in Upto(k) : r <= q) => q = k
      BY <1>1, <1>12, <1>14, <3>1
    <3>3. InForce(k)
      BY <2>6, <2>8, <3>1, <3>2
    <3> QED
      BY <1>1, <1>14, <3>3
  <2>9. CASE k \notin A
    <3>1. Upto(k) = U
      BY <2>2, <2>3, <2>7, <2>9
    <3>2. list[k] = s
      BY <2>6, <2>9
    <3>3. InForce(k)
      BY <2>1, <3>1, <3>2
    <3> QED
      BY <1>1, <1>14, <3>3
  <2> QED
    BY <2>8, <2>9
<1>15. InForce(n)
  <2>1. \A k \in 0..n : k \in T
    <3> HIDE DEF T
    <3> QED
      BY <1>1, <1>13, <1>14, UpTo
  <2> QED
    BY <1>1, <2>1
<1>16. Upto(n) = A
  <2>1. \A q \in A : q <= n
    BY <1>1, <1>12
  <2> QED
    BY <2>1
<1>17. ChainIdIndicesForBlock(b) = list[n]
  <2>1. CASE A = {}
    BY <1>10, <1>15, <1>16, <2>1
  <2>2. CASE A # {}
    BY <1>10, <1>15, <1>16, <2>2
  <2> QED
    BY <2>1, <2>2
<1> QED
  BY <1>6, <1>17

(* The list of chains as of a searched block is the one that a single      *)
(* reading of the history ends with.                                       *)
THEOREM ChainIdsCurrent == Spec => []ChainIdsAsOfBlock
  BY ListsFollow, Invariance, PTL

-----------------------------------------------------------------------------
(* Chains that were enabled in a range of blocks.                          *)

LEMMA EnabledFollow == IInv => EnabledInRange
<1> SUFFICES ASSUME IInv, isUpdated, NEW to \in 0..latestBlockSearched, NEW from \in 0..to
             PROVE
      LET within == {p \in ParsedDisabled(to) : BlockAt(p) >= from}
          moments == {Latest(ParsedDisabled(from))} \cup within
          enabled == EnabledChainsInBlockRange(from, to)
      IN /\ ToSet(EnabledChains(to)) \subseteq ToSet(enabled)
         /\ from < to =>
              enabled = Filter(ChainIdsInLog(to), {c \in ToSet(ChainIdsInLog(to)) :
                \E p \in moments : c \notin DisabledAt(p)})
         /\ from = to /\ (\A p, q \in within : p = q) => enabled = EnabledChains(from)
  BY DEF EnabledInRange
<1> DEFINE within == {p \in ParsedDisabled(to) : BlockAt(p) >= from}
           moments == {Latest(ParsedDisabled(from))} \cup within
           ids == ChainIdIndicesForBlock(to)
           stored == ToSet(updates["DISABLED_CHAINS"])
           F == DisabledChainsForBlock(from)
           D == DisabledChainsForBlock(to)
           ever == {c \in ToSet(ids) : \E p \in moments : c \notin DisabledAt(p)}
<1>1. LogOK /\ from \in Nat /\ to \in Nat /\ from <= to /\ from \in 0..latestBlockSearched
  <2>1. LogOK /\ to \in Nat
    BY SearchedBlock
  <2>2. latestBlockSearched \in Nat
    BY BoundAssumption DEF IInv, WindowOK, LogOK
  <2> QED
    BY <2>1, <2>2
<1>2. ids = ChainIdsInLog(to) /\ ids \in Seq(Int)
  <2>1. chainId # None
    BY ChainAssumption, ValueAssumption DEF IInv, WindowOK
  <2> QED
    BY <2>1, ListsFollow, ChainIdsIs DEF ChainIdsAsOfBlock
<1>3. stored \cap AsOfBlock(from) = ParsedDisabled(from) /\ stored \cap AsOfBlock(to) = ParsedDisabled(to)
  BY <1>1, AcceptedAlone
<1>4. F = DisabledAt(Latest(ParsedDisabled(from))) /\ D = DisabledAt(Latest(ParsedDisabled(to)))
  BY <1>3 DEF DisabledChainsForBlock, LatestOf, DisabledAt
<1>5. /\ ParsedDisabled(from) \subseteq DOMAIN log /\ ParsedDisabled(to) \subseteq DOMAIN log
      /\ \A p \in ParsedDisabled(to) : BlockAt(p) <= to
      /\ \A p \in ParsedDisabled(to) : BlockAt(p) <= from => p \in ParsedDisabled(from)
      /\ \A p \in ParsedDisabled(from) : p \in ParsedDisabled(to)
  <2>1. \A p \in DOMAIN log : BlockAt(p) \in Nat
    BY <1>1, LogFacts
  <2> QED
    BY <1>1, <2>1 DEF ParsedDisabled, Sets, EventsOf
<1>6. \A p \in DOMAIN log : p # None /\ p \in Nat /\ BlockAt(p) \in Nat
  BY <1>1, LogFacts, ValueAssumption
<1>7. \A p \in DOMAIN log : DisabledAt(p) = FilterDisabled(log[p].value)
  BY <1>6 DEF DisabledAt
<1>8. Reenabled(from, to) = {c \in F : \E p \in ParsedDisabled(to) : BlockAt(p) >= from /\ c \notin DisabledAt(p)}
  <2>1. \A p \in stored : p \in DOMAIN log
    <3>1. PICK m \in 0..Len(log) : GlobalsOK(updates, m)
      BY DEF IInv, MemoryOK
    <3>2. "DISABLED_CHAINS" \in GlobalKeys
      BY DEF GlobalKeys
    <3>3. stored \subseteq 1..m
      BY <3>1, <3>2 DEF GlobalsOK
    <3> QED
      BY <1>1, <3>3, LogFacts
  <2>2. \A p \in DOMAIN log : BlockAt(p) \in from..to <=> p \in AsOfBlock(to) /\ BlockAt(p) >= from
    BY <1>1, <1>6 DEF AsOfBlock
  <2>3. \A p : p \in stored /\ BlockAt(p) \in from..to <=> p \in ParsedDisabled(to) /\ BlockAt(p) >= from
    BY <1>3, <1>5, <2>1, <2>2
  <2>4. Reenabled(from, to)
          = {c \in F : \E p \in stored : BlockAt(p) \in from..to /\ c \notin FilterDisabled(log[p].value)}
    BY DEF Reenabled
  <2> HIDE DEF stored, F
  <2> QED
    BY <1>5, <1>7, <2>3, <2>4
<1> HIDE DEF stored, F, D
<1>9. ToSet(ids) \ (F \ Reenabled(from, to)) = ever
  <2>1. ASSUME NEW c PROVE c \notin F \ Reenabled(from, to) <=> \E p \in moments : c \notin DisabledAt(p)
    <3>1. c \notin F \ Reenabled(from, to)
            <=> \/ c \notin F
                \/ \E p \in ParsedDisabled(to) : BlockAt(p) >= from /\ c \notin DisabledAt(p)
      BY <1>8
    <3> QED
      BY <1>4, <3>1
  <2> HIDE DEF ids, moments
  <2> QED
    BY <2>1 DEF ever
<1>10. EnabledChainsInBlockRange(from, to) = Filter(ids, ever)
  BY <1>9 DEF EnabledChainsInBlockRange, F
<1>11. EnabledChains(to) = Filter(ids, ToSet(ids) \ D)
  BY DEF EnabledChains, D
<1>12. \E p \in moments : DisabledAt(p) \subseteq D
  <2>1. CASE ParsedDisabled(to) = {}
    <3>1. ParsedDisabled(from) = ParsedDisabled(to)
      BY <1>5, <2>1
    <3>2. DisabledAt(Latest(ParsedDisabled(from))) = D
      BY <1>4, <3>1
    <3> QED
      BY <3>2
  <2>2. CASE ParsedDisabled(to) # {}
    <3> DEFINE M == Latest(ParsedDisabled(to))
    <3>1. M \in ParsedDisabled(to) /\ \A p \in ParsedDisabled(to) : p <= M
      BY <1>1, <1>5, <2>2, LatestIs
    <3> HIDE DEF M
    <3>2. CASE BlockAt(M) >= from
      <4>1. M \in moments /\ DisabledAt(M) = D
        BY <1>4, <3>1, <3>2 DEF M
      <4> QED
        BY <4>1
    <3>3. CASE ~(BlockAt(M) >= from)
      <4>1. M \in ParsedDisabled(from)
        BY <1>1, <1>5, <1>6, <3>1, <3>3
      <4> DEFINE L == Latest(ParsedDisabled(from))
      <4>2. L \in ParsedDisabled(from) /\ \A p \in ParsedDisabled(from) : p <= L
        BY <1>1, <1>5, <4>1, LatestIs
      <4> HIDE DEF L
      <4>3. L = M
        <5>1. L <= M /\ M <= L /\ L \in Nat /\ M \in Nat
          BY <1>5, <1>6, <3>1, <4>1, <4>2
        <5> QED
          BY <5>1
      <4>4. DisabledAt(L) = D
        BY <1>4, <4>3 DEF M
      <4> QED
        BY <4>4 DEF L
    <3> QED
      BY <3>2, <3>3
  <2> QED
    BY <2>1, <2>2
<1>13. ToSet(EnabledChains(to)) \subseteq ToSet(EnabledChainsInBlockRange(from, to))
  <2>1. ToSet(ids) \ D \subseteq ever
    <3> HIDE DEF ids, moments
    <3> QED
      BY <1>12 DEF ever
  <2> HIDE DEF ids, ever
  <2>2. /\ ToSet(Filter(ids, ToSet(ids) \ D)) = ToSet(ids) \cap (ToSet(ids) \ D)
        /\ ToSet(Filter(ids, ever)) = ToSet(ids) \cap ever
    BY <1>2, FilterIs
  <2> QED
    BY <1>10, <1>11, <2>1, <2>2
(* The one update of a block is the last up to it.                         *)
<1>14. ASSUME from = to, \A p, q \in within : p = q
       PROVE  EnabledChainsInBlockRange(from, to) = EnabledChains(from)
  <2> DEFINE M == Latest(ParsedDisabled(to))
  <2>1. ASSUME NEW p \in within PROVE p = M
    <3>1. p \in ParsedDisabled(to) /\ BlockAt(p) >= from
      OBVIOUS
    <3>2. M \in ParsedDisabled(to) /\ p <= M
      BY <1>1, <1>5, <3>1, LatestIs
    <3>3. BlockAt(p) <= BlockAt(M)
      BY <1>1, <1>5, <3>1, <3>2 DEF LogOK, BlockAt
    <3>4. BlockAt(M) >= from
      BY <1>1, <1>5, <1>6, <3>1, <3>2, <3>3
    <3> HIDE DEF M
    <3>5. M \in within
      BY <3>2, <3>4
    <3> HIDE DEF within
    <3> QED
      BY <1>14, <3>5
  <2>2. moments = {M}
    BY <1>14, <2>1
  <2>3. DisabledAt(M) = D
    BY <1>4
  <2> HIDE DEF M, moments
  <2>4. ever = ToSet(ids) \ D
    <3> HIDE DEF ids
    <3> QED
      BY <2>2, <2>3 DEF ever
  <2> HIDE DEF ids, ever
  <2> QED
    BY <1>10, <1>11, <1>14, <2>4
<1> QED
  BY <1>2, <1>10, <1>13, <1>14

(* The chains of a range are those that were enabled at some moment of it, *)
(* and of one block with no more than one update those enabled at its end  *)
(* (getEnabledChainsInBlockRange of AcrossConfigStoreClient.ts).           *)
THEOREM EnabledCurrent == Spec => []EnabledInRange
  BY EnabledFollow, Invariance, PTL
=============================================================================
