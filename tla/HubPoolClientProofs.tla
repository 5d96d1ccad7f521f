------------------------- MODULE HubPoolClientProofs -------------------------
(***************************************************************************)
(* Theorems about HubPoolClient and BundleRanges, for every chain,         *)
(* configuration of the client and failure of an update: which bundles     *)
(* were executed, where the next one starts, that the ranges of executed   *)
(* bundles tile every chain and the searches find them, what is pending,   *)
(* contracts, routes and token equivalence as of a block, and the mirror   *)
(* of proposals.                                                           *)
(*                                                                         *)
(* ChainOK is what the contract guarantees: blocks only grow, an outcome   *)
(* is that of the last proposal before it, and a leaf is executed in a     *)
(* later block than its proposal.  BundlesOK says what the lists of        *)
(* bundles hold although a failed update may store its events twice: the   *)
(* proposals are those of the searched blocks, and a leaf that is stored   *)
(* twice or too early belongs to no proposal that the client can hold.     *)
(* RegistryOK says it of the contracts and routes, which are stored before *)
(* the update can fail and again when it is repeated.  ProgressOK says     *)
(* that a bundle of which a leaf was executed goes on from every complete  *)
(* one before it.                                                          *)
(***************************************************************************)
EXTENDS BundleRanges, FiniteSetTheorems, SequenceTheorems, WellFoundedInduction, TLAPS

OutcomeNames == {"RootBundleExecuted", "RootBundleDisputed", "RootBundleCanceled"}

EventRecords ==
  [name : {"ProposeRootBundle"}, block : Nat, leaves : Nat \ {0}, ends : Seq(Nat \ {0})]
  \cup [name : OutcomeNames, block : Nat, bundle : Nat]
  \cup [name : {"SetPoolRebalanceRoute"}, block : Nat,
        l1Token : L1Tokens, chain : Chains, l2Token : L2Tokens]
  \cup [name : {"CrossChainContractsSet"}, block : Nat, chain : Chains, spokePool : SpokePools]
  \cup [name : {"L1TokenEnabledForLiquidityProvision"}, block : Nat, l1Token : L1Tokens]

UpdateRecords ==
  {NoUpdate}
  \cup [stage : {"blockNumber"}, from : Nat]
  \cup [stage : {"query", "tokenInfo"}, from : Nat, to : Nat]

(* The log: blocks in order, none before the deployment's and none after   *)
(* the one that is about to be mined.                                      *)
LogOK ==
  /\ scenario \in Scenarios
  /\ head \in Nat /\ DeploymentBlock <= head
  /\ log \in Seq(EventRecords)
  /\ \A i \in DOMAIN log : DeploymentBlock < log[i].block /\ log[i].block <= head + 1
  /\ \A i, j \in DOMAIN log : i <= j => log[i].block <= log[j].block

(* The contract has one proposal at a time, and no more of its leaves are  *)
(* executed than it has.                                                   *)
OutcomesOK ==
  /\ \A n \in OutcomeNames : \A q \in EventsOf(n) :
       /\ log[q].bundle \in Proposals
       /\ log[q].bundle < q
       /\ \A r \in Proposals : r <= log[q].bundle \/ q < r
  /\ \A q \in EventsOf("RootBundleExecuted") : log[log[q].bundle].block < log[q].block
  /\ \A p \in Proposals : Cardinality(LeavesOf(p)) <= log[p].leaves
  /\ ~ReproposeInBlock =>
       \A p, q \in Proposals : log[p].block = log[q].block => p = q

ChainOK == LogOK /\ OutcomesOK

(* The window: the client has searched up to the block before the next.    *)
WindowOK ==
  /\ firstBlockToSearch \in Nat /\ latestBlockSearched \in Int /\ isUpdated \in BOOLEAN
  /\ FromBlock <= firstBlockToSearch
  /\ isUpdated =>
       latestBlockSearched = firstBlockToSearch - 1 /\ firstBlockToSearch <= head + 1
  /\ ~isUpdated => firstBlockToSearch = FromBlock /\ latestBlockSearched <= 0
  /\ toBlock # None => toBlock \in Nat /\ toBlock <= head
  /\ update \in UpdateRecords
  /\ update # NoUpdate => update.from = firstBlockToSearch
  /\ update.stage \in {"query", "tokenInfo"} => update.from <= update.to /\ update.to <= head

(* An event that no proposal from fromBlock on precedes.                   *)
Orphan(q) == \A p \in Proposals : FromBlock <= log[p].block => log[q].block < log[p].block

Increasing(s) == \A i, j \in 1..Len(s) : i < j => s[i] < s[j]

BundlesOK ==
  /\ proposedRootBundles \in Seq(Nat) /\ Increasing(proposedRootBundles)
  /\ ToSet(proposedRootBundles) = Found("ProposeRootBundle", FromBlock, firstBlockToSearch - 1)
  /\ executedRootBundles \in Seq(Nat)
  /\ ToSet(executedRootBundles) \subseteq Found("RootBundleExecuted", FromBlock, head)
  /\ Found("RootBundleExecuted", FromBlock, firstBlockToSearch - 1)
       \subseteq ToSet(executedRootBundles)
  /\ \A i \in 1..Len(executedRootBundles) :
       firstBlockToSearch <= log[executedRootBundles[i]].block => Orphan(executedRootBundles[i])
  /\ \A i, j \in 1..Len(executedRootBundles) :
       executedRootBundles[i] = executedRootBundles[j] /\ i # j => Orphan(executedRootBundles[i])

(* A list that is appended to once more when an update is repeated: all    *)
(* events of a kind, each after those that precede it on the chain.        *)
Complete(list, name) ==
  /\ list \in Seq(Nat)
  /\ ToSet(list) \subseteq EventsOf(name)
  /\ \A i \in 1..Len(list) : \A r \in EventsOf(name) :
       r < list[i] => \E j \in 1..Len(list) : j < i /\ list[j] = r
  /\ isUpdated => Found(name, DeploymentBlock, firstBlockToSearch - 1) \subseteq ToSet(list)
  /\ update.stage = "tokenInfo" => Found(name, DeploymentBlock, update.to) \subseteq ToSet(list)

RegistryOK ==
  /\ Complete(crossChainContracts, "CrossChainContractsSet")
  /\ Complete(l1TokensToDestinationTokensWithBlock, "SetPoolRebalanceRoute")

-----------------------------------------------------------------------------

(* Numbers, and sequences of numbers.                                      *)

LEMMA LeastNumber ==
  \A T \in SUBSET Nat : T # {} => \E m \in T : \A k \in T : m <= k
<1> DEFINE R == {ss \in Nat \X Nat : ss[1] < ss[2]}
<1> SUFFICES ASSUME NEW T \in SUBSET Nat, T # {} PROVE \E m \in T : \A k \in T : m <= k
  OBVIOUS
<1>1. IsWellFoundedOn(R, Nat)
  BY NatLessThanWellFounded, Zenon DEF OpToRel
<1>2. \A x, y \in Nat : y < x => <<y, x>> \in R
  OBVIOUS
<1> HIDE DEF R
<1>3. PICK m \in T : \A k \in T : <<k, m>> \notin R
  BY <1>1, WFMin, Zenon
<1>4. \A k \in T : k \in Nat /\ m \in Nat /\ ~(k < m)
  BY <1>2, <1>3
<1> QED
  BY <1>4

LEMMA GreatestNumber ==
  ASSUME NEW T \in SUBSET Nat, T # {}, NEW b \in Nat, \A k \in T : k <= b
  PROVE  \E m \in T : \A k \in T : k <= m
<1> DEFINE D == {b - k : k \in T}
<1>1. D \in SUBSET Nat /\ D # {}
  <2>1. \A k \in T : b - k \in Nat
    OBVIOUS
  <2> QED
    BY <2>1
<1>2. PICK d \in D : \A e \in D : d <= e
  BY <1>1, LeastNumber
<1>3. PICK m \in T : d = b - m
  OBVIOUS
<1>4. \A k \in T : k <= m
  <2>1. \A k \in T : b - k \in D
    OBVIOUS
  <2> QED
    BY <1>2, <1>3, <2>1
<1> QED
  BY <1>3, <1>4

LEMMA Extremes ==
  ASSUME NEW T \in SUBSET Nat, T # {}, NEW b \in Nat, \A k \in T : k <= b
  PROVE  /\ Min(T) \in T /\ \A k \in T : Min(T) <= k
         /\ Max(T) \in T /\ \A k \in T : k <= Max(T)
<1>1. \E m \in T : \A k \in T : m <= k
  BY LeastNumber
<1>2. \E m \in T : \A k \in T : k <= m
  BY GreatestNumber
<1>3. \E m \in T : \A k \in T : m >= k
  BY <1>2
<1> QED
  BY <1>1, <1>3 DEF Min, Max

(* The greatest of a set is the number in it that is not below another.    *)
LEMMA MaxIs ==
  ASSUME NEW T \in SUBSET Nat, NEW m \in T, \A k \in T : k <= m
  PROVE  Max(T) = m
<1>1. \A k \in T : m >= k
  OBVIOUS
<1>2. Max(T) \in T /\ Max(T) >= m
  BY <1>1 DEF Max
<1>3. Max(T) \in Nat /\ m \in Nat /\ Max(T) <= m
  BY <1>2
<1> QED
  BY <1>2, <1>3

(* The place of a number in a set: how many are not above it.              *)
LEMMA Ranks ==
  ASSUME NEW b \in Nat, NEW ps \in SUBSET (1..b)
  PROVE  /\ IsFiniteSet(ps) /\ Cardinality(ps) \in Nat
         /\ \A p \in ps : Cardinality({q \in ps : q <= p}) \in 1..Cardinality(ps)
         /\ \A p, r \in ps :
              p < r => Cardinality({q \in ps : q <= p}) < Cardinality({q \in ps : q <= r})
         /\ \A i \in 1..Cardinality(ps) :
              \E p \in ps : Cardinality({q \in ps : q <= p}) = i
<1> DEFINE n == Cardinality(ps)
           rank == [p \in ps |-> Cardinality({q \in ps : q <= p})]
<1>1. IsFiniteSet(ps)
  <2>1. 1 \in Int /\ b \in Int
    OBVIOUS
  <2> QED
    BY <2>1, FS_Interval, FS_Subset
<1>2. n \in Nat
  BY <1>1, FS_CardinalityType
<1>3. ASSUME NEW p \in ps
      PROVE  /\ IsFiniteSet({q \in ps : q <= p})
             /\ Cardinality({q \in ps : q <= p}) \in 1..n
  <2> DEFINE T == {q \in ps : q <= p}
  <2>1. T \in SUBSET ps /\ p \in T
    OBVIOUS
  <2> HIDE DEF T
  <2>2. IsFiniteSet(T) /\ Cardinality(T) <= n
    BY <1>1, <2>1, FS_Subset
  <2>3. Cardinality(T) \in Nat /\ Cardinality(T) # 0
    BY <2>1, <2>2, FS_CardinalityType, FS_EmptySet
  <2> QED
    BY <1>2, <2>2, <2>3 DEF T
<1>4. ASSUME NEW p \in ps, NEW r \in ps, p < r
      PROVE  Cardinality({q \in ps : q <= p}) < Cardinality({q \in ps : q <= r})
  <2> DEFINE T == {q \in ps : q <= p}
             U == {q \in ps : q <= r}
  <2>1. T \in SUBSET (U \ {r}) /\ r \in U
    <3>1. p \in Nat /\ r \in Nat /\ \A q \in ps : q \in Nat
      OBVIOUS
    <3>2. r \in U
      BY <3>1
    <3>3. \A q \in ps : q <= p => q <= r /\ q # r
      BY <1>4, <3>1
    <3>4. \A q \in T : q \in U \ {r}
      BY <3>3
    <3> QED
      BY <3>2, <3>4
  <2>2. IsFiniteSet(T) /\ IsFiniteSet(U) /\ Cardinality(T) \in Nat /\ Cardinality(U) \in Nat
    BY <1>3, FS_CardinalityType
  <2> HIDE DEF T, U
  <2>3. IsFiniteSet(U \ {r}) /\ Cardinality(U \ {r}) = Cardinality(U) - 1
    BY <2>1, <2>2, FS_RemoveElement
  <2>4. Cardinality(T) <= Cardinality(U \ {r})
    BY <2>1, <2>3, FS_Subset
  <2>5. Cardinality(T) < Cardinality(U)
    BY <2>2, <2>3, <2>4
  <2> QED
    BY <2>5 DEF T, U
<1>5. \A i \in 1..n : \E p \in ps : rank[p] = i
  <2>1. rank \in [ps -> 1..n]
    BY <1>3
  <2>2. \A p, r \in ps : p # r => rank[p] # rank[r]
    <3>1. \A p, r \in ps : p < r => rank[p] < rank[r]
      BY <1>4
    <3>2. \A p \in ps : rank[p] \in Nat /\ p \in Nat
      BY <1>2, <2>1
    <3> HIDE DEF rank
    <3> QED
      BY <3>1, <3>2
  <2> HIDE DEF rank
  <2>3. rank \in Injection(ps, 1..n)
    BY <2>1, <2>2 DEF Injection, IsInjective
  <2>4. IsFiniteSet(1..n) /\ Cardinality(1..n) = n
    <3>1. 1 \in Int /\ n \in Int
      BY <1>2
    <3> QED
      BY <1>2, <3>1, FS_Interval
  <2>5. rank \in Surjection(ps, 1..n)
    BY <2>3, <2>4, FS_Injection
  <2> QED
    BY <2>5 DEF Surjection
<1> QED
  BY <1>1, <1>2, <1>3, <1>4, <1>5

(* The events of a set in the order of the log.                            *)
LEMMA Ordered ==
  ASSUME NEW b \in Nat, NEW ps \in SUBSET (1..b)
  PROVE  /\ InOrder(ps) \in Seq(Nat) /\ Len(InOrder(ps)) = Cardinality(ps)
         /\ ToSet(InOrder(ps)) = ps
         /\ Increasing(InOrder(ps))
<1> DEFINE n == Cardinality(ps)
           rank(p) == Cardinality({q \in ps : q <= p})
           s == InOrder(ps)
<1>1. /\ n \in Nat
      /\ \A p \in ps : rank(p) \in 1..n
      /\ \A p, r \in ps : p < r => rank(p) < rank(r)
      /\ \A i \in 1..n : \E p \in ps : rank(p) = i
  BY Ranks
<1>2. \A i \in 1..n : s[i] = CHOOSE p \in ps : rank(p) = i
  BY DEF InOrder
<1>3. DOMAIN s = 1..n /\ s = [i \in 1..n |-> s[i]]
  BY DEF InOrder
<1>4. \A p \in ps : p \in Nat
  OBVIOUS
<1> HIDE DEF n, rank, s
<1>5. \A i \in 1..n : s[i] \in ps /\ rank(s[i]) = i
  BY <1>1, <1>2
<1>6. \A p \in ps : s[rank(p)] = p
  <2>1. ASSUME NEW p \in ps PROVE s[rank(p)] = p
    <3>1. s[rank(p)] \in ps /\ rank(s[rank(p)]) = rank(p) /\ rank(p) \in Nat
      BY <1>1, <1>5
    <3>2. ~(rank(p) < rank(p))
      BY <3>1
    <3>3. ~(s[rank(p)] < p)
      BY <1>1, <3>1, <3>2
    <3>4. ~(p < s[rank(p)])
      BY <1>1, <3>1, <3>2
    <3>5. s[rank(p)] \in Nat /\ p \in Nat
      BY <1>4, <3>1
    <3> QED
      BY <3>3, <3>4, <3>5
  <2> QED
    BY <2>1
<1>7. s \in Seq(Nat) /\ Len(s) = n
  BY <1>1, <1>3, <1>4, <1>5
<1>8. ToSet(s) = ps
  BY <1>1, <1>3, <1>5, <1>6 DEF ToSet
<1>9. Increasing(s)
  <2>1. ASSUME NEW i \in 1..n, NEW j \in 1..n, i < j PROVE s[i] < s[j]
    <3>1. /\ s[i] \in ps /\ rank(s[i]) = i /\ s[i] \in Nat
          /\ s[j] \in ps /\ rank(s[j]) = j /\ s[j] \in Nat
      BY <1>4, <1>5
    <3>2. s[i] # s[j] /\ ~(s[j] < s[i])
      BY <1>1, <2>1, <3>1
    <3> QED
      BY <3>1, <3>2
  <2> QED
    BY <1>7, <2>1 DEF Increasing
<1> QED
  BY <1>7, <1>8, <1>9 DEF s, n

(* What is appended comes after what is there.                             *)
LEMMA Joined ==
  ASSUME NEW s \in Seq(Nat), NEW t \in Seq(Nat)
  PROVE  /\ s \o t \in Seq(Nat) /\ Len(s \o t) = Len(s) + Len(t)
         /\ Len(s) \in Nat /\ Len(t) \in Nat
         /\ ToSet(s \o t) = ToSet(s) \cup ToSet(t)
         /\ \A i \in 1..Len(s) : (s \o t)[i] = s[i]
         /\ \A i \in 1..Len(t) : (s \o t)[Len(s) + i] = t[i]
         /\ \A i \in 1..Len(s \o t) :
              i \in 1..Len(s) \/ \E j \in 1..Len(t) : i = Len(s) + j
<1> DEFINE u == s \o t
<1>1. /\ u \in Seq(Nat) /\ Len(u) = Len(s) + Len(t)
      /\ \A i \in 1..(Len(s) + Len(t)) : u[i] = IF i <= Len(s) THEN s[i] ELSE t[i - Len(s)]
  BY ConcatProperties
<1>2. Len(s) \in Nat /\ Len(t) \in Nat
  OBVIOUS
<1>3. DOMAIN s = 1..Len(s) /\ DOMAIN t = 1..Len(t) /\ DOMAIN u = 1..Len(u)
  BY <1>1
<1> HIDE DEF u
<1>4. \A i \in 1..Len(s) : u[i] = s[i] /\ i \in 1..Len(u)
  BY <1>1, <1>2
<1>5. \A i \in 1..Len(t) : u[Len(s) + i] = t[i] /\ Len(s) + i \in 1..Len(u)
  <2>1. ASSUME NEW i \in 1..Len(t)
        PROVE  u[Len(s) + i] = t[i] /\ Len(s) + i \in 1..Len(u)
    <3>1. Len(s) + i \in 1..(Len(s) + Len(t)) /\ ~(Len(s) + i <= Len(s)) /\ (Len(s) + i) - Len(s) = i
      BY <1>2
    <3> QED
      BY <1>1, <3>1
  <2> QED
    BY <2>1
<1>6. \A i \in 1..Len(u) : i \in 1..Len(s) \/ \E j \in 1..Len(t) : i = Len(s) + j
  <2>1. ASSUME NEW i \in 1..Len(u), i \notin 1..Len(s)
        PROVE  i - Len(s) \in 1..Len(t) /\ i = Len(s) + (i - Len(s))
    BY <1>1, <1>2, <2>1
  <2> QED
    BY <2>1
<1>7. ToSet(u) = ToSet(s) \cup ToSet(t)
  <2>1. \A x : (\E i \in 1..Len(u) : u[i] = x)
                 <=> (\E i \in 1..Len(s) : s[i] = x) \/ (\E i \in 1..Len(t) : t[i] = x)
    <3>1. ASSUME NEW i \in 1..Len(u)
          PROVE  (\E j \in 1..Len(s) : s[j] = u[i]) \/ (\E j \in 1..Len(t) : t[j] = u[i])
      <4>1. CASE i \in 1..Len(s)
        BY <1>4, <4>1
      <4>2. ASSUME NEW j \in 1..Len(t), i = Len(s) + j PROVE t[j] = u[i]
        BY <1>5, <4>2
      <4> QED
        BY <1>6, <4>1, <4>2
    <3>2. \A i \in 1..Len(s) : \E j \in 1..Len(u) : u[j] = s[i]
      BY <1>4
    <3>3. ASSUME NEW i \in 1..Len(t) PROVE \E j \in 1..Len(u) : u[j] = t[i]
      BY <1>5
    <3>4. ASSUME NEW x, NEW i \in 1..Len(u), u[i] = x
          PROVE  (\E j \in 1..Len(s) : s[j] = x) \/ (\E j \in 1..Len(t) : t[j] = x)
      BY <3>1, <3>4
    <3>5. ASSUME NEW x, NEW i \in 1..Len(s), s[i] = x PROVE \E j \in 1..Len(u) : u[j] = x
      BY <3>2, <3>5
    <3>6. ASSUME NEW x, NEW i \in 1..Len(t), t[i] = x PROVE \E j \in 1..Len(u) : u[j] = x
      BY <3>3, <3>6
    <3> HIDE DEF u
    <3> QED
      BY <3>4, <3>5, <3>6
  <2>2. \A x : x \in ToSet(u) <=> \E i \in 1..Len(u) : u[i] = x
    BY <1>3 DEF ToSet
  <2>3. \A x : x \in ToSet(s) <=> \E i \in 1..Len(s) : s[i] = x
    BY <1>3 DEF ToSet
  <2>4. \A x : x \in ToSet(t) <=> \E i \in 1..Len(t) : t[i] = x
    BY <1>3 DEF ToSet
  <2> QED
    BY <2>1, <2>2, <2>3, <2>4
<1> QED
  BY <1>1, <1>2, <1>4, <1>5, <1>6, <1>7 DEF u

LEMMA Members ==
  ASSUME NEW s \in Seq(Nat)
  PROVE  /\ \A x : x \in ToSet(s) <=> \E i \in 1..Len(s) : s[i] = x
         /\ ToSet(s) \subseteq Nat /\ Len(s) \in Nat /\ DOMAIN s = 1..Len(s)
<1>1. DOMAIN s = 1..Len(s) /\ Len(s) \in Nat /\ \A i \in 1..Len(s) : s[i] \in Nat
  OBVIOUS
<1> QED
  BY <1>1 DEF ToSet


-----------------------------------------------------------------------------
(* The contract's side: the log only grows, in order, at its end.          *)

LEMMA LogFacts ==
  ASSUME LogOK
  PROVE  /\ head \in Nat /\ Len(log) \in Nat /\ DOMAIN log = 1..Len(log)
         /\ \A p \in DOMAIN log : log[p] \in EventRecords /\ log[p].block \in Nat /\ p \in Nat
         /\ \A n : EventsOf(n) \in SUBSET (1..Len(log)) /\ EventsOf(n) \in SUBSET Nat
         /\ \A n : \A p \in EventsOf(n) :
              /\ p \in DOMAIN log /\ p \in 1..Len(log) /\ log[p].name = n
              /\ log[p].block \in Nat /\ log[p].block <= head + 1 /\ DeploymentBlock < log[p].block
         /\ \A p \in Proposals : log[p].leaves \in Nat \ {0} /\ log[p].ends \in Seq(Nat \ {0})
<1>1. head \in Nat /\ Len(log) \in Nat /\ DOMAIN log = 1..Len(log)
  BY DEF LogOK
<1>2. \A p \in DOMAIN log : log[p] \in EventRecords /\ p \in Nat
  BY <1>1 DEF LogOK
<1>3. \A e \in EventRecords : e.block \in Nat
  BY DEF EventRecords
<1>4. \A e \in EventRecords :
        e.name = "ProposeRootBundle" => e.leaves \in Nat \ {0} /\ e.ends \in Seq(Nat \ {0})
  BY DEF EventRecords, OutcomeNames
<1>5. \A n : \A p \in EventsOf(n) : p \in DOMAIN log /\ log[p].name = n
  BY DEF EventsOf
<1>6. \A n : EventsOf(n) \in SUBSET (1..Len(log)) /\ EventsOf(n) \in SUBSET Nat
  BY <1>1, <1>2, <1>5
<1>7. \A p \in DOMAIN log : DeploymentBlock < log[p].block /\ log[p].block <= head + 1
  BY DEF LogOK
<1> QED
  BY <1>1, <1>2, <1>3, <1>4, <1>5, <1>6, <1>7 DEF Proposals

(* The contract's current proposal is the last one.                        *)
LEMMA CurrentIs ==
  ASSUME LogOK, NEW b
  PROVE  /\ UpTo(Proposals, b) = {} <=> CurrentProposal(b) = None
         /\ UpTo(Proposals, b) # {} =>
              /\ CurrentProposal(b) \in UpTo(Proposals, b)
              /\ \A p \in UpTo(Proposals, b) : p <= CurrentProposal(b)
<1>1. UpTo(Proposals, b) \in SUBSET Nat /\ Len(log) \in Nat
      /\ \A p \in UpTo(Proposals, b) : p <= Len(log)
  BY LogFacts DEF UpTo, Proposals
<1>2. ASSUME UpTo(Proposals, b) # {}
      PROVE  /\ Max(UpTo(Proposals, b)) \in UpTo(Proposals, b)
             /\ \A p \in UpTo(Proposals, b) : p <= Max(UpTo(Proposals, b))
  <2> DEFINE T == UpTo(Proposals, b)
  <2> HIDE DEF T
  <2>1. T \in SUBSET Nat /\ T # {} /\ Len(log) \in Nat /\ \A p \in T : p <= Len(log)
    BY <1>1, <1>2 DEF T
  <2>2. Max(T) \in T /\ \A p \in T : p <= Max(T)
    BY <2>1, Extremes
  <2> QED
    BY <2>2 DEF T
<1>3. CurrentProposal(b) = IF UpTo(Proposals, b) = {} THEN None ELSE Max(UpTo(Proposals, b))
  BY DEF CurrentProposal
<1>4. \A p \in UpTo(Proposals, b) : p # None
  BY <1>1, BlockAssumption
<1> HIDE DEF UpTo
<1> QED
  BY <1>2, <1>3, <1>4

(* All that has happened is in blocks up to the next.                      *)
LEMMA AllIsUpToNext ==
  ASSUME LogOK, NEW n
  PROVE  \A ps \in SUBSET EventsOf(n) : UpTo(ps, NextBlock) = ps
  BY LogFacts DEF UpTo, NextBlock

(* While leaves are unclaimed, the last proposal is neither closed nor     *)
(* complete.                                                               *)
LEMMA UnclaimedMeans ==
  ASSUME LogOK, Unclaimed > 0
  PROVE  /\ Current \in Proposals
         /\ \A r \in Proposals : r <= Current
         /\ log[Current].leaves - Cardinality(LeavesOf(Current)) > 0
<1>1. Current # None
  BY DEF Unclaimed, Current, UnclaimedLeaves
<1>2. UpTo(Proposals, NextBlock) = Proposals
  BY AllIsUpToNext DEF Proposals
<1>3. Current \in Proposals /\ \A r \in Proposals : r <= Current
  BY <1>1, <1>2, CurrentIs DEF Current
<1>4. UpTo(LeavesOf(Current), NextBlock) = LeavesOf(Current)
  BY AllIsUpToNext DEF LeavesOf, OutcomesOf
<1>5. log[Current].leaves - Cardinality(UpTo(LeavesOf(Current), NextBlock)) > 0
  BY <1>1 DEF Unclaimed, Current, UnclaimedLeaves
<1> QED
  BY <1>3, <1>4, <1>5

LEMMA Emittable ==
  ASSUME LogOK, NEW e \in Possible
  PROVE  /\ e \in EventRecords /\ e.block = NextBlock
         /\ e.name = "ProposeRootBundle" => CanPropose /\ e \in Propose
         /\ e.name \in OutcomeNames => Unclaimed > 0 /\ e.bundle = Current
         /\ e.name = "RootBundleExecuted" => CanExecute
<1>1. NextBlock \in Nat
  BY LogFacts DEF NextBlock
<1>2. CASE CanPropose /\ e \in Propose
  <2>1. PICK form \in BundleForms :
          e = [name |-> "ProposeRootBundle", block |-> NextBlock,
               leaves |-> form.leaves, ends |-> form.ends]
    BY <1>2 DEF Propose
  <2>2. form.leaves \in Nat \ {0} /\ form.ends \in Seq(Nat \ {0})
    BY BundleAssumption
  <2>3. e \in EventRecords
    BY <1>1, <2>1, <2>2 DEF EventRecords
  <2> QED
    BY <1>2, <2>1, <2>3 DEF OutcomeNames
<1>3. CASE CanExecute /\ e \in Outcome({"RootBundleExecuted"})
  <2>1. Unclaimed > 0
    BY <1>3 DEF CanExecute
  <2>2. Current \in Nat
    BY <2>1, UnclaimedMeans, LogFacts DEF Proposals
  <2>3. e.name = "RootBundleExecuted" /\ e.block = NextBlock /\ e.bundle = Current
    BY <1>3 DEF Outcome
  <2>4. e \in EventRecords
    BY <1>1, <1>3, <2>2 DEF Outcome, EventRecords, OutcomeNames
  <2> QED
    BY <1>3, <2>1, <2>3, <2>4 DEF OutcomeNames
<1>4. CASE CanDispute /\ e \in Outcome({"RootBundleDisputed", "RootBundleCanceled"})
  <2>1. Unclaimed > 0
    BY <1>4 DEF CanDispute
  <2>2. Current \in Nat
    BY <2>1, UnclaimedMeans, LogFacts DEF Proposals
  <2>3. /\ e.name \in {"RootBundleDisputed", "RootBundleCanceled"}
        /\ e.block = NextBlock /\ e.bundle = Current
    BY <1>4 DEF Outcome
  <2>4. e \in EventRecords
    BY <1>1, <1>4, <2>2 DEF Outcome, EventRecords, OutcomeNames
  <2> QED
    BY <2>1, <2>3, <2>4 DEF OutcomeNames
<1>5. CASE e \in SetRoute
  BY <1>1, <1>5 DEF SetRoute, EventRecords, OutcomeNames
<1>6. CASE e \in SetSpokePool
  BY <1>1, <1>6 DEF SetSpokePool, EventRecords, OutcomeNames
<1>7. CASE e \in EnableToken
  BY <1>1, <1>7 DEF EnableToken, EventRecords, OutcomeNames
<1> QED
  BY <1>2, <1>3, <1>4, <1>5, <1>6, <1>7 DEF Possible

(* A new event is at the end of the log, in the block that is not mined.   *)
LEMMA NewEvent ==
  ASSUME LogOK, Emit
  PROVE  \E e \in Possible :
           /\ log' = Append(log, e) /\ e.block = head + 1 /\ e \in EventRecords
           /\ DOMAIN log' = 1..(Len(log) + 1) /\ Len(log') = Len(log) + 1
           /\ \A p \in DOMAIN log : log'[p] = log[p]
           /\ log'[Len(log) + 1] = e
           /\ \A n : EventsOf(n)' = IF e.name = n THEN EventsOf(n) \cup {Len(log) + 1} ELSE EventsOf(n)
<1> DEFINE last == Len(log) + 1
<1>1. PICK e \in Possible : log' = Append(log, e)
  BY DEF Emit
<1>2. e \in EventRecords /\ e.block = head + 1
  BY Emittable DEF NextBlock
<1>3. /\ Len(log) \in Nat /\ DOMAIN log = 1..Len(log) /\ Len(log') = last
      /\ DOMAIN log' = 1..last
      /\ \A p \in 1..Len(log) : log'[p] = log[p]
      /\ log'[last] = e
  BY <1>1, <1>2, AppendProperties DEF LogOK
<1>4. last \in Nat /\ last \notin 1..Len(log) /\ 1..last = 1..Len(log) \cup {last}
  BY <1>3
<1> HIDE DEF last
<1>5. ASSUME NEW n
      PROVE  EventsOf(n)' = IF e.name = n THEN EventsOf(n) \cup {last} ELSE EventsOf(n)
  BY <1>3, <1>4 DEF EventsOf
<1> QED
  BY <1>1, <1>2, <1>3, <1>5 DEF last

LEMMA EmitLog ==
  ASSUME LogOK, Emit
  PROVE  LogOK'
<1> DEFINE last == Len(log) + 1
<1>1. PICK e \in Possible :
        /\ log' = Append(log, e) /\ e.block = head + 1 /\ e \in EventRecords
        /\ DOMAIN log' = 1..last
        /\ \A p \in DOMAIN log : log'[p] = log[p]
        /\ log'[last] = e
  BY NewEvent
<1>2. head' = head /\ scenario' = scenario
  BY DEF Emit
<1>3. /\ head \in Nat /\ DeploymentBlock <= head /\ Len(log) \in Nat /\ DOMAIN log = 1..Len(log)
      /\ \A p \in DOMAIN log :
           log[p].block \in Nat /\ DeploymentBlock < log[p].block /\ log[p].block <= head + 1
  BY LogFacts DEF LogOK
<1>4. last \in Nat /\ 1..last = 1..Len(log) \cup {last} /\ \A p \in 1..Len(log) : p < last
  BY <1>3
<1> HIDE DEF last
<1>5. log' \in Seq(EventRecords)
  BY <1>1, AppendProperties DEF LogOK
<1>6. \A p \in DOMAIN log' : p = last \/ (p \in DOMAIN log /\ p < last)
  BY <1>1, <1>3, <1>4
<1>7. DeploymentBlock \in Nat
  BY BlockAssumption
<1>8. \A p \in DOMAIN log' :
        DeploymentBlock < log'[p].block /\ log'[p].block <= head' + 1 /\ log'[p].block \in Nat
  BY <1>1, <1>2, <1>3, <1>6, <1>7
<1>9. ASSUME NEW i \in DOMAIN log', NEW j \in DOMAIN log', i <= j
      PROVE  log'[i].block <= log'[j].block
  <2>1. CASE j = last
    BY <1>1, <1>2, <1>8, <2>1
  <2>2. CASE j # last
    <3>1. j \in DOMAIN log /\ j < last /\ i \in Nat /\ j \in Nat
      BY <1>1, <1>6, <2>2
    <3>2. i \in DOMAIN log
      BY <1>4, <1>6, <1>9, <3>1
    <3> QED
      BY <1>1, <1>9, <3>1, <3>2 DEF LogOK
  <2> QED
    BY <2>1, <2>2
<1> QED
  BY <1>2, <1>3, <1>5, <1>8, <1>9 DEF LogOK

LEMMA LogFinite ==
  ASSUME LogOK, NEW n, NEW ps \in SUBSET EventsOf(n)
  PROVE  IsFiniteSet(ps) /\ Cardinality(ps) \in Nat
<1>1. ps \in SUBSET (1..Len(log)) /\ Len(log) \in Nat
  BY LogFacts
<1> QED
  BY <1>1, Ranks

LEMMA EmitOutcomes ==
  ASSUME LogOK, OutcomesOK, Emit
  PROVE  OutcomesOK'
<1> DEFINE last == Len(log) + 1
<1>1. PICK e \in Possible :
        /\ e.block = head + 1
        /\ DOMAIN log' = 1..last
        /\ \A p \in DOMAIN log : log'[p] = log[p]
        /\ log'[last] = e
        /\ \A n : EventsOf(n)' = IF e.name = n THEN EventsOf(n) \cup {last} ELSE EventsOf(n)
  BY NewEvent
<1>2. last \in Nat /\ \A n : \A p \in EventsOf(n) :
        p \in Nat /\ p < last /\ log'[p] = log[p] /\ log[p].block \in Nat
  BY <1>1, LogFacts
<1>3. /\ e.name = "ProposeRootBundle" => CanPropose /\ e \in Propose
      /\ e.name \in OutcomeNames => Unclaimed > 0 /\ e.bundle = Current
      /\ e.name = "RootBundleExecuted" => CanExecute
  BY Emittable
<1>4. e.name \in OutcomeNames =>
        /\ Current \in Proposals
        /\ \A r \in Proposals : r <= Current
        /\ log[Current].leaves - Cardinality(LeavesOf(Current)) > 0
  BY <1>3, UnclaimedMeans
<1> HIDE DEF last
<1>5. "ProposeRootBundle" \notin OutcomeNames /\ "RootBundleExecuted" \in OutcomeNames
  BY DEF OutcomeNames
<1>6. Proposals' = IF e.name = "ProposeRootBundle" THEN Proposals \cup {last} ELSE Proposals
  BY <1>1 DEF Proposals
<1>7. ASSUME NEW n \in OutcomeNames, NEW q \in EventsOf(n)'
      PROVE  \/ q \in EventsOf(n) /\ log'[q] = log[q]
             \/ q = last /\ log'[q] = e /\ e.name = n
  BY <1>1, <1>2
<1>8. ASSUME NEW n \in OutcomeNames, NEW q \in EventsOf(n)'
      PROVE  /\ log'[q].bundle \in Proposals'
             /\ log'[q].bundle < q
             /\ \A r \in Proposals' : r <= log'[q].bundle \/ q < r
  <2>1. CASE q \in EventsOf(n) /\ log'[q] = log[q]
    BY <1>2, <1>6, <2>1 DEF OutcomesOK
  <2>2. CASE q = last /\ log'[q] = e /\ e.name = n
    <3>1. Current \in Proposals /\ e.bundle = Current /\ \A r \in Proposals : r <= Current
      BY <1>3, <1>4, <2>2
    <3>2. Proposals' = Proposals
      BY <1>5, <1>6, <2>2
    <3> QED
      BY <1>2, <2>2, <3>1, <3>2 DEF Proposals
  <2> QED
    BY <1>7, <2>1, <2>2
<1>9. ASSUME NEW q \in EventsOf("RootBundleExecuted")'
      PROVE  log'[log'[q].bundle].block < log'[q].block
  <2>1. CASE q \in EventsOf("RootBundleExecuted") /\ log'[q] = log[q]
    <3>1. log[q].bundle \in Proposals /\ log[log[q].bundle].block < log[q].block
      BY <1>5, <2>1 DEF OutcomesOK
    <3>2. log'[log[q].bundle] = log[log[q].bundle]
      BY <1>2, <3>1 DEF Proposals
    <3> QED
      BY <2>1, <3>1, <3>2
  <2>2. CASE q = last /\ log'[q] = e /\ e.name = "RootBundleExecuted"
    <3>1. Current \in Proposals /\ e.bundle = Current /\ log[Current].block < head + 1
      BY <1>3, <1>4, <1>5, <2>2 DEF CanExecute, NextBlock
    <3>2. log'[Current] = log[Current]
      BY <1>2, <3>1 DEF Proposals
    <3> QED
      BY <1>1, <2>2, <3>1, <3>2
  <2> QED
    BY <1>5, <1>7, <2>1, <2>2
<1>10. ASSUME NEW p \in Proposals'
       PROVE  Cardinality(LeavesOf(p)') <= log'[p].leaves
  <2>1. CASE p \in Proposals /\ e.name = "RootBundleExecuted" /\ e.bundle = p
    <3>1. LeavesOf(p)' = LeavesOf(p) \cup {last}
      BY <1>1, <1>2, <2>1 DEF LeavesOf, OutcomesOf
    <3>2. p = Current /\ log'[p] = log[p]
      BY <1>2, <1>3, <1>5, <2>1 DEF Proposals
    <3>3. LeavesOf(p) \in SUBSET EventsOf("RootBundleExecuted")
      BY DEF LeavesOf, OutcomesOf
    <3>4. IsFiniteSet(LeavesOf(p)) /\ Cardinality(LeavesOf(p)) \in Nat /\ last \notin LeavesOf(p)
      BY <1>2, <3>3, LogFinite
    <3>5. Cardinality(LeavesOf(p)') = Cardinality(LeavesOf(p)) + 1
      <4> HIDE DEF LeavesOf
      <4> QED
        BY <3>1, <3>4, FS_AddElement
    <3>6. log[p].leaves \in Nat /\ log[p].leaves - Cardinality(LeavesOf(p)) > 0
      BY <1>4, <1>5, <2>1, <3>2, LogFacts
    <3> QED
      BY <3>2, <3>4, <3>5, <3>6
  <2>2. CASE p \in Proposals /\ ~(e.name = "RootBundleExecuted" /\ e.bundle = p)
    <3>1. LeavesOf(p)' = LeavesOf(p)
      BY <1>1, <1>2, <2>2 DEF LeavesOf, OutcomesOf
    <3>2. log'[p] = log[p] /\ Cardinality(LeavesOf(p)) <= log[p].leaves
      BY <1>2, <2>2 DEF Proposals, OutcomesOK
    <3> QED
      BY <3>1, <3>2
  <2>3. CASE p = last /\ e.name = "ProposeRootBundle"
    <3>1. EventsOf("RootBundleExecuted")' = EventsOf("RootBundleExecuted")
      BY <1>1, <2>3
    <3>2. \A q \in EventsOf("RootBundleExecuted") : log'[q].bundle # last
      <4>1. \A q \in EventsOf("RootBundleExecuted") : log[q].bundle \in Proposals
        BY <1>5 DEF OutcomesOK
      <4>2. \A r \in Proposals : r # last
        BY <1>2 DEF Proposals
      <4> QED
        BY <1>2, <4>1, <4>2
    <3>3. LeavesOf(p)' = {}
      BY <2>3, <3>1, <3>2 DEF LeavesOf, OutcomesOf
    <3>4. PICK form \in BundleForms : e.leaves = form.leaves
      BY <1>3, <2>3 DEF Propose
    <3>5. e.leaves \in Nat
      BY <3>4, BundleAssumption
    <3> QED
      BY <1>1, <2>3, <3>3, <3>5, FS_EmptySet
  <2> QED
    BY <1>6, <2>1, <2>2, <2>3
<1>11. ASSUME ~ReproposeInBlock, NEW p \in Proposals', NEW q \in Proposals',
              log'[p].block = log'[q].block
       PROVE  p = q
  <2>1. CASE e.name = "ProposeRootBundle"
    <3>1. \A r \in Proposals : log[r].block < head + 1 /\ log[r].block \in Nat
      BY <1>2, <1>3, <1>11, <2>1 DEF CanPropose, NextBlock, Proposals
    <3>2. head \in Nat
      BY LogFacts
    <3>3. \A r \in Proposals : log'[r].block # head + 1
      BY <1>2, <3>1, <3>2 DEF Proposals
    <3>4. \A r, t \in Proposals : log'[r].block = log'[t].block => r = t
      BY <1>2, <1>11 DEF OutcomesOK, Proposals
    <3> QED
      BY <1>1, <1>6, <1>11, <2>1, <3>3, <3>4
  <2>2. CASE e.name # "ProposeRootBundle"
    BY <1>2, <1>6, <1>11, <2>2 DEF OutcomesOK, Proposals
  <2> QED
    BY <2>1, <2>2
<1> QED
  BY <1>8, <1>9, <1>10, <1>11 DEF OutcomesOK


(* The steps of the chain: an event, a block, or nothing.                  *)
LEMMA ChainSteps ==
  ASSUME [Next]_vars
  PROVE  \/ Emit
         \/ MineBlock
         \/ UNCHANGED chain
  BY DEF Next, vars, SetToBlock, Start, BlockNumber, Answers, TokenInfo, NoBundleThrows,
         TokenThrows, Fail

LEMMA ChainStep ==
  ASSUME ChainOK, [Next]_vars
  PROVE  ChainOK'
<1>1. CASE Emit
  BY <1>1, EmitLog, EmitOutcomes DEF ChainOK
<1>2. CASE log' = log /\ scenario' = scenario /\ (head' = head \/ head' = head + 1)
  <2>1. LogOK'
    <3>1. head \in Nat /\ DeploymentBlock <= head
          /\ \A i \in DOMAIN log : log[i].block <= head + 1 /\ log[i].block \in Nat
      BY LogFacts DEF ChainOK, LogOK
    <3>2. head' \in Nat /\ head <= head'
      BY <1>2, <3>1
    <3>3. DeploymentBlock <= head' /\ \A i \in DOMAIN log : log[i].block <= head' + 1
      BY <3>1, <3>2, BlockAssumption
    <3> QED
      BY <1>2, <3>2, <3>3 DEF ChainOK, LogOK
  <2>2. OutcomesOK'
    BY <1>2 DEF ChainOK, OutcomesOK, EventsOf, Proposals, LeavesOf, OutcomesOf
  <2> QED
    BY <2>1, <2>2 DEF ChainOK
<1> QED
  BY <1>1, <1>2, ChainSteps DEF MineBlock, chain

LEMMA ChainInit == Init => ChainOK
<1> SUFFICES ASSUME Init PROVE ChainOK
  OBVIOUS
<1>1. log = <<>> /\ head = DeploymentBlock /\ scenario \in Scenarios
  BY DEF Init
<1>2. log \in Seq(EventRecords) /\ DOMAIN log = {}
  BY <1>1
<1>3. \A n : EventsOf(n) = {}
  BY <1>2 DEF EventsOf
<1> QED
  BY <1>1, <1>2, <1>3, BlockAssumption DEF ChainOK, LogOK, OutcomesOK, Proposals

LEMMA ChainHolds == Spec => []ChainOK
<1>1. ChainOK /\ [Next]_vars => ChainOK'
  BY ChainStep
<1> QED
  BY <1>1, ChainInit, PTL DEF Spec

(* What is in the log stays there, and the blocks up to the head are final.*)
LEMMA Settled ==
  ASSUME ChainOK, [Next]_vars
  PROVE  /\ head' \in Nat /\ head <= head' /\ head' <= head + 1
         /\ \A n : \A p \in EventsOf(n) : p \in EventsOf(n)' /\ log'[p] = log[p]
         /\ \A n : \A p \in EventsOf(n)' :
              p \in EventsOf(n) \/ (head < log'[p].block /\ Len(log) < p)
         /\ \A n, a : \A b \in Int : b <= head => Found(n, a, b)' = Found(n, a, b)
         /\ \A b \in Int : b <= head =>
              /\ CurrentProposal(b)' = CurrentProposal(b)
              /\ UnclaimedLeaves(b)' = UnclaimedLeaves(b)
<1>0. LogOK
  BY DEF ChainOK
<1>1. /\ head' \in Nat /\ head <= head' /\ head' <= head + 1
  <2>1. head' = head \/ head' = head + 1
    BY ChainSteps DEF Emit, MineBlock, chain
  <2> QED
    BY <1>0, <2>1, LogFacts
<1>2. /\ \A n : \A p \in EventsOf(n) : p \in EventsOf(n)' /\ log'[p] = log[p]
      /\ \A n : \A p \in EventsOf(n)' :
           p \in EventsOf(n) \/ (head < log'[p].block /\ Len(log) < p)
  <2>1. CASE Emit
    <3> DEFINE last == Len(log) + 1
    <3>1. PICK e \in Possible :
            /\ e.block = head + 1
            /\ \A p \in DOMAIN log : log'[p] = log[p]
            /\ log'[last] = e
            /\ \A n : EventsOf(n)' = IF e.name = n THEN EventsOf(n) \cup {last} ELSE EventsOf(n)
      BY <1>0, <2>1, NewEvent
    <3>2. head \in Nat /\ \A n : \A p \in EventsOf(n) : p \in DOMAIN log
      BY <1>0, LogFacts
    <3>3. head < log'[last].block /\ Len(log) < last
      BY <1>0, <3>1, <3>2, LogFacts
    <3> HIDE DEF last
    <3> QED
      BY <3>1, <3>2, <3>3
  <2>2. CASE log' = log
    BY <2>2 DEF EventsOf
  <2> QED
    BY <2>1, <2>2, ChainSteps DEF MineBlock, chain
<1>3. /\ head \in Nat
      /\ \A n : \A p \in EventsOf(n) : log[p].block \in Nat
  BY <1>0, LogFacts
<1>4. \A n : \A p \in EventsOf(n)' : log'[p].block \in Nat
  <2>1. LogOK'
    BY ChainStep DEF ChainOK
  <2>2. \A p \in DOMAIN log' : log'[p].block \in Nat
    <3>1. log' \in Seq(EventRecords)
      BY <2>1 DEF LogOK
    <3>2. \A p \in DOMAIN log' : log'[p] \in EventRecords
      BY <3>1
    <3>3. \A e \in EventRecords : e.block \in Nat
      BY DEF EventRecords
    <3> QED
      BY <3>2, <3>3
  <2> QED
    BY <2>2 DEF EventsOf
<1>5. \A b \in Int : b <= head =>
        \A n : \A p : p \in EventsOf(n)' /\ log'[p].block <= b
                        <=> p \in EventsOf(n) /\ log[p].block <= b
  BY <1>2, <1>3, <1>4
<1>6. \A n, a : \A b \in Int : b <= head => Found(n, a, b)' = Found(n, a, b)
  <2>1. ASSUME NEW n, NEW a, NEW b \in Int, b <= head
        PROVE  Found(n, a, b)' = Found(n, a, b)
    <3>1. \A p : p \in EventsOf(n)' /\ log'[p].block <= b
                        <=> p \in EventsOf(n) /\ log[p].block <= b
      BY <1>5, <2>1
    <3>2. \A p \in EventsOf(n) : log'[p] = log[p]
      BY <1>2
    <3> QED
      BY <3>1, <3>2 DEF Found
  <2> QED
    BY <2>1
<1>7. ASSUME NEW b \in Int, b <= head
      PROVE  /\ CurrentProposal(b)' = CurrentProposal(b)
             /\ UnclaimedLeaves(b)' = UnclaimedLeaves(b)
  <2>1. \A n : \A p : p \in EventsOf(n)' /\ log'[p].block <= b
                        <=> p \in EventsOf(n) /\ log[p].block <= b
    BY <1>5, <1>7
  <2>2. UpTo(Proposals, b)' = UpTo(Proposals, b)
    BY <2>1 DEF UpTo, Proposals
  <2>3. CurrentProposal(b)' = CurrentProposal(b)
    BY <2>2 DEF CurrentProposal
  <2>4. ASSUME NEW n, NEW p
        PROVE  UpTo(OutcomesOf(n, p), b)' = UpTo(OutcomesOf(n, p), b)
    <3>1. \A q \in EventsOf(n) : log'[q] = log[q]
      BY <1>2
    <3> QED
      BY <2>1, <3>1 DEF UpTo, OutcomesOf
  <2>5. ASSUME NEW p
        PROVE  UpTo(LeavesOf(p), b)' = UpTo(LeavesOf(p), b)
    BY <2>4 DEF LeavesOf
  <2>6. ASSUME NEW p
        PROVE  UpTo(ClosersOf(p), b)' = UpTo(ClosersOf(p), b)
    <3>1. \A n : UpTo(OutcomesOf(n, p), b)' = UpTo(OutcomesOf(n, p), b)
      BY <2>4
    <3>2. UpTo(ClosersOf(p), b) = UpTo(OutcomesOf("RootBundleDisputed", p), b)
                                    \cup UpTo(OutcomesOf("RootBundleCanceled", p), b)
      BY DEF UpTo, ClosersOf
    <3>3. UpTo(ClosersOf(p), b)' = UpTo(OutcomesOf("RootBundleDisputed", p), b)'
                                    \cup UpTo(OutcomesOf("RootBundleCanceled", p), b)'
      BY DEF UpTo, ClosersOf
    <3> QED
      BY <3>1, <3>2, <3>3
  <2>7. UnclaimedLeaves(b)' = UnclaimedLeaves(b)
    <3> DEFINE p == CurrentProposal(b)
    <3>1. p # None => log'[p] = log[p]
      <4>1. p # None => p \in Proposals
        BY <1>0, CurrentIs DEF UpTo
      <4> QED
        BY <1>2, <4>1 DEF Proposals
    <3>2. /\ UpTo(LeavesOf(p), b)' = UpTo(LeavesOf(p), b)
          /\ UpTo(ClosersOf(p), b)' = UpTo(ClosersOf(p), b)
      BY <2>3, <2>5, <2>6
    <3>3. UnclaimedLeaves(b) =
            IF p = None THEN 0
            ELSE IF UpTo(ClosersOf(p), b) # {} THEN 0
            ELSE log[p].leaves - Cardinality(UpTo(LeavesOf(p), b))
      BY DEF UnclaimedLeaves
    <3>4. UnclaimedLeaves(b)' =
            IF p' = None THEN 0
            ELSE IF UpTo(ClosersOf(p), b)' # {} THEN 0
            ELSE log'[p'].leaves - Cardinality(UpTo(LeavesOf(p), b)')
      BY DEF UnclaimedLeaves
    <3>5. p' = p
      BY <2>3
    <3> HIDE DEF p
    <3> QED
      BY <3>1, <3>2, <3>3, <3>4, <3>5
  <2> QED
    BY <2>3, <2>7
<1> QED
  BY <1>1, <1>2, <1>6, <1>7

(* Of a proposal there are never more leaves executed than it has.         *)
LEMMA UnclaimedIsNumber ==
  ASSUME ChainOK, NEW b
  PROVE  UnclaimedLeaves(b) \in Nat
<1> DEFINE p == CurrentProposal(b)
<1>1. CASE p = None \/ UpTo(ClosersOf(p), b) # {}
  BY <1>1 DEF UnclaimedLeaves
<1>2. CASE p # None /\ UpTo(ClosersOf(p), b) = {}
  <2>1. p \in Proposals
    BY <1>2, CurrentIs DEF UpTo, ChainOK
  <2>2. LeavesOf(p) \in SUBSET EventsOf("RootBundleExecuted") /\ UpTo(LeavesOf(p), b) \in SUBSET LeavesOf(p)
    BY DEF UpTo, LeavesOf, OutcomesOf
  <2>3. UnclaimedLeaves(b) = log[p].leaves - Cardinality(UpTo(LeavesOf(p), b))
    BY <1>2 DEF UnclaimedLeaves
  <2>4. log[p].leaves \in Nat /\ Cardinality(LeavesOf(p)) <= log[p].leaves
    BY <2>1, LogFacts DEF ChainOK, OutcomesOK
  <2> DEFINE L == LeavesOf(p)
             U == UpTo(LeavesOf(p), b)
  <2> HIDE DEF p, L, U
  <2>5. IsFiniteSet(L) /\ Cardinality(L) \in Nat
    BY <2>2, LogFinite DEF L, ChainOK
  <2>6. Cardinality(U) <= Cardinality(L) /\ Cardinality(U) \in Nat
    BY <2>2, <2>5, FS_Subset, FS_CardinalityType DEF L, U
  <2> QED
    BY <2>3, <2>4, <2>5, <2>6 DEF L, U
<1> QED
  BY <1>1, <1>2


-----------------------------------------------------------------------------
(* The window.                                                             *)

(* An update that waits has the fields its stage needs.                    *)
LEMMA UpdateFields ==
  ASSUME WindowOK
  PROVE  /\ update = NoUpdate \/ update # NoUpdate
         /\ update.stage # "idle" => update # NoUpdate
         /\ update # NoUpdate =>
              update.from = firstBlockToSearch /\ update.from \in Nat
         /\ update.stage \in {"query", "tokenInfo"} =>
              /\ update \in [stage : {"query", "tokenInfo"}, from : Nat, to : Nat]
              /\ update.to \in Nat /\ update.from \in Nat /\ update.from = firstBlockToSearch
              /\ update.from <= update.to /\ update.to <= head
         /\ update.stage = "blockNumber" =>
              update \in [stage : {"blockNumber"}, from : Nat] /\ update.from = firstBlockToSearch
<1>1. update.stage # "idle" => update # NoUpdate
  BY DEF NoUpdate
<1>2. update.stage \in {"query", "tokenInfo"} =>
              /\ update \in [stage : {"query", "tokenInfo"}, from : Nat, to : Nat]
              /\ update.to \in Nat /\ update.from \in Nat
  BY DEF WindowOK, UpdateRecords, NoUpdate
<1>3. update.stage = "blockNumber" => update \in [stage : {"blockNumber"}, from : Nat]
  BY DEF WindowOK, UpdateRecords, NoUpdate
<1> QED
  BY <1>1, <1>2, <1>3 DEF WindowOK

LEMMA WindowInit == Init => WindowOK
<1> SUFFICES ASSUME Init PROVE WindowOK
  OBVIOUS
<1>1. DeploymentBlock \in Nat /\ FromBlock \in Nat
  BY BlockAssumption
<1>2. Min({DeploymentBlock - 1, 0}) \in Int /\ Min({DeploymentBlock - 1, 0}) <= 0
  <2> DEFINE S == {DeploymentBlock - 1, 0}
  <2>1. \E x \in S : \A y \in S : x =< y
    BY <1>1
  <2>2. S \subseteq Int /\ 0 \in S
    BY <1>1
  <2> HIDE DEF S
  <2>3. Min(S) \in S /\ \A y \in S : Min(S) =< y
    BY <2>1 DEF Min
  <2> QED
    BY <2>2, <2>3 DEF S
<1>3. /\ firstBlockToSearch = FromBlock /\ isUpdated = FALSE /\ toBlock = None /\ update = NoUpdate
      /\ latestBlockSearched \in Int /\ latestBlockSearched <= 0
  BY <1>2 DEF Init
<1>4. FromBlock <= firstBlockToSearch /\ firstBlockToSearch \in Nat
  BY <1>1, <1>3
<1>5. update \in UpdateRecords /\ update.stage \notin {"query", "tokenInfo"}
  BY <1>3 DEF UpdateRecords, NoUpdate
<1> QED
  BY <1>3, <1>4, <1>5 DEF WindowOK

LEMMA WindowStep ==
  ASSUME ChainOK, WindowOK, [Next]_vars
  PROVE  WindowOK'
<1>1. head' \in Nat /\ head \in Nat /\ head <= head'
  BY Settled, LogFacts DEF ChainOK
<1>2. CASE UNCHANGED <<client, update, toBlock>>
  <2>1. firstBlockToSearch' = firstBlockToSearch /\ latestBlockSearched' = latestBlockSearched
        /\ isUpdated' = isUpdated /\ update' = update /\ toBlock' = toBlock
    BY <1>2 DEF client, window
  <2>2. update.stage \in {"query", "tokenInfo"} => update.to \in Nat
    BY UpdateFields
  <2>3. isUpdated => firstBlockToSearch <= head' + 1
    <3>1. SUFFICES ASSUME isUpdated PROVE firstBlockToSearch <= head' + 1
      OBVIOUS
    <3>2. firstBlockToSearch <= head + 1 /\ firstBlockToSearch \in Nat
      BY <3>1 DEF WindowOK
    <3>3. \A f, h, k \in Nat : f <= h + 1 /\ h <= k => f <= k + 1
      OBVIOUS
    <3> QED
      BY <1>1, <3>2, <3>3
  <2>4. toBlock # None => toBlock <= head'
    BY <1>1 DEF WindowOK
  <2>5. update.stage \in {"query", "tokenInfo"} => update.to <= head'
    BY <1>1, <2>2 DEF WindowOK
  <2> QED
    BY <2>1, <2>3, <2>4, <2>5 DEF WindowOK
<1>3. CASE SetToBlock
  <2>1. toBlock' \in Nat /\ toBlock' <= head /\ UNCHANGED <<chain, client, update>>
    <3>1. scenario.toBlocks \subseteq Nat
      BY BoundAssumption DEF ChainOK, LogOK
    <3> QED
      BY <1>3, <3>1 DEF SetToBlock
  <2> QED
    BY <2>1 DEF WindowOK, chain, client, window
<1>4. CASE Start
  <2>1. UNCHANGED <<chain, client, toBlock>>
    BY <1>4 DEF Start
  <2>2. CASE update' = [stage |-> "blockNumber", from |-> firstBlockToSearch]
    BY <2>1, <2>2 DEF WindowOK, UpdateRecords, NoUpdate, chain, client, window
  <2>3. CASE /\ toBlock # None /\ firstBlockToSearch <= toBlock
             /\ update' = [stage |-> "query", from |-> firstBlockToSearch, to |-> toBlock]
    BY <2>1, <2>3 DEF WindowOK, UpdateRecords, NoUpdate, chain, client, window
  <2> QED
    BY <1>4, <2>2, <2>3 DEF Start
<1>5. CASE UNCHANGED <<chain, window, toBlock>> /\ update' = NoUpdate
  BY <1>5 DEF WindowOK, UpdateRecords, NoUpdate, chain, window
<1>6. CASE BlockNumber
  <2>1. UNCHANGED <<chain, client, toBlock>> /\ update.stage = "blockNumber"
    BY <1>6 DEF BlockNumber
  <2>2. CASE update' = NoUpdate
    BY <1>5, <2>1, <2>2 DEF client
  <2>3. CASE head >= update.from /\ update' = [stage |-> "query", from |-> update.from, to |-> head]
    <3>1. update.from = firstBlockToSearch /\ update.from \in Nat
      BY <2>1, UpdateFields
    <3>2. update.from <= head
      BY <1>1, <2>3, <3>1
    <3> QED
      BY <1>1, <2>1, <2>3, <3>1, <3>2 DEF WindowOK, UpdateRecords, NoUpdate, chain, client, window
  <2> QED
    BY <1>6, <2>2, <2>3 DEF BlockNumber
<1>7. CASE Answers
  <2>1. UNCHANGED <<chain, window, toBlock>> /\ update.stage = "query"
        /\ update' = [update EXCEPT !.stage = "tokenInfo"]
    BY <1>7 DEF Answers
  <2>2. /\ update \in [stage : {"query", "tokenInfo"}, from : Nat, to : Nat]
        /\ update.from = firstBlockToSearch /\ update.from <= update.to /\ update.to <= head
    BY <2>1, UpdateFields
  <2>3. /\ update' \in [stage : {"query", "tokenInfo"}, from : Nat, to : Nat]
        /\ update'.from = update.from /\ update'.to = update.to
    BY <2>1, <2>2
  <2> QED
    BY <2>1, <2>2, <2>3 DEF WindowOK, UpdateRecords, chain, window
<1>8. CASE TokenInfo
  <2>1. /\ UNCHANGED chain /\ update.stage = "tokenInfo" /\ update' = NoUpdate
        /\ latestBlockSearched' = update.to /\ firstBlockToSearch' = update.to + 1
        /\ toBlock' = None /\ isUpdated' = TRUE
    BY <1>8 DEF TokenInfo, NextStart
  <2>2. /\ update.to \in Nat /\ update.from \in Nat /\ update.from = firstBlockToSearch
        /\ update.from <= update.to /\ update.to <= head
    BY <2>1, UpdateFields
  <2>3. FromBlock <= update.to + 1 /\ update.to <= head' /\ update.to + 1 <= head' + 1
    BY <1>1, <2>2, BlockAssumption DEF WindowOK
  <2> QED
    BY <2>1, <2>2, <2>3 DEF WindowOK, UpdateRecords, NoUpdate
<1> QED
  BY <1>2, <1>3, <1>4, <1>5, <1>6, <1>7, <1>8
     DEF Next, vars, Emit, MineBlock, NoBundleThrows, TokenThrows, Fail, client

LEMMA WindowHolds == Spec => [](ChainOK /\ WindowOK)
<1>1. ChainOK /\ WindowOK /\ [Next]_vars => WindowOK'
  BY WindowStep
<1> QED
  BY <1>1, ChainHolds, WindowInit, PTL DEF Spec


-----------------------------------------------------------------------------
(* The lists of bundles.                                                   *)

(* What a query returns: the events of its window, once and in order.      *)
LEMMA AnswerIs ==
  ASSUME ChainOK, WindowOK, update.stage \in {"query", "tokenInfo"}, NEW name
  PROVE  /\ Answer(name) \in Seq(Nat) /\ Increasing(Answer(name))
         /\ name \in OverrideEvents /\ ~isUpdated =>
              ToSet(Answer(name)) = Found(name, DeploymentBlock, update.to)
         /\ ~(name \in OverrideEvents /\ ~isUpdated) =>
              ToSet(Answer(name)) = Found(name, firstBlockToSearch, update.to)
<1>1. update.from = firstBlockToSearch
  BY UpdateFields
<1>2. \A a : Found(name, a, update.to) \in SUBSET (1..Len(log)) /\ Len(log) \in Nat
  BY LogFacts DEF Found, ChainOK
<1>3. \A a : /\ InOrder(Found(name, a, update.to)) \in Seq(Nat)
             /\ Increasing(InOrder(Found(name, a, update.to)))
             /\ ToSet(InOrder(Found(name, a, update.to))) = Found(name, a, update.to)
  BY <1>2, Ordered
<1>4. CASE name \in OverrideEvents /\ ~isUpdated
  <2>1. Answer(name) = InOrder(Found(name, DeploymentBlock, update.to))
    BY <1>4 DEF Answer
  <2> QED
    BY <1>3, <1>4, <2>1
<1>5. CASE ~(name \in OverrideEvents /\ ~isUpdated)
  <2>1. Answer(name) = InOrder(Found(name, firstBlockToSearch, update.to))
    BY <1>1, <1>5 DEF Answer
  <2> QED
    BY <1>3, <1>5, <2>1
<1> QED
  BY <1>4, <1>5

(* A later block is further on in the log.                                 *)
LEMMA LaterBlock ==
  ASSUME LogOK
  PROVE  \A p, q \in DOMAIN log : log[p].block < log[q].block => p < q
<1>1. ASSUME NEW p \in DOMAIN log, NEW q \in DOMAIN log, log[p].block < log[q].block
      PROVE  p < q
  <2>1. p \in Nat /\ q \in Nat /\ log[p].block \in Nat /\ log[q].block \in Nat
    BY LogFacts
  <2>2. q <= p => log[q].block <= log[p].block
    BY DEF LogOK
  <2> QED
    BY <1>1, <2>1, <2>2
<1> QED
  BY <1>1

(* One window after another.                                               *)
LEMMA FoundParts ==
  ASSUME LogOK, NEW name, NEW a \in Nat, NEW f \in Nat, NEW b \in Nat, a <= f, f <= b
  PROVE  /\ Found(name, a, f - 1) \cup Found(name, f, b) = Found(name, a, b)
         /\ \A p \in Found(name, a, f - 1), q \in Found(name, f, b) : p < q
<1>1. \A p \in EventsOf(name) : log[p].block \in Nat /\ p \in DOMAIN log
  BY LogFacts
<1>2. \A k \in Nat : k <= f - 1 <=> k < f
  OBVIOUS
<1>3. Found(name, a, f - 1) \cup Found(name, f, b) = Found(name, a, b)
  <2>1. \A p \in EventsOf(name) :
          (a <= log[p].block /\ log[p].block <= f - 1) \/ (f <= log[p].block /\ log[p].block <= b)
             <=> a <= log[p].block /\ log[p].block <= b
    BY <1>1
  <2> QED
    BY <2>1 DEF Found
<1>4. ASSUME NEW p \in Found(name, a, f - 1), NEW q \in Found(name, f, b)
      PROVE  p < q
  <2>1. p \in DOMAIN log /\ q \in DOMAIN log /\ log[p].block < log[q].block
    BY <1>1 DEF Found
  <2> QED
    BY <2>1, LaterBlock
<1> QED
  BY <1>3, <1>4

(* Before the first update there is nothing to hold.                       *)
LEMMA SearchedIsFinal ==
  ASSUME ChainOK, WindowOK, [Next]_vars, firstBlockToSearch' = firstBlockToSearch, NEW n
  PROVE  Found(n, FromBlock, firstBlockToSearch - 1)' = Found(n, FromBlock, firstBlockToSearch - 1)
<1>1. CASE firstBlockToSearch - 1 <= head
  <2>1. firstBlockToSearch - 1 \in Int
    BY DEF WindowOK
  <2> QED
    BY <1>1, <2>1, Settled
<1>2. CASE ~(firstBlockToSearch - 1 <= head)
  <2>1. firstBlockToSearch = FromBlock
    <3>1. firstBlockToSearch \in Nat /\ head \in Nat
      BY LogFacts DEF WindowOK, ChainOK
    <3>2. ~(firstBlockToSearch <= head + 1)
      BY <1>2, <3>1
    <3> QED
      BY <3>2 DEF WindowOK
  <2>2. \A m, p : ~(p \in Found(m, FromBlock, FromBlock - 1))
    BY LogFacts, BlockAssumption DEF Found, ChainOK
  <2>3. LogOK'
    BY ChainStep DEF ChainOK
  <2>4. \A m, p : ~(p \in Found(m, FromBlock, FromBlock - 1)')
    <3>1. \A m : \A p \in EventsOf(m)' : log'[p].block \in Nat
      <4>1. \A p \in DOMAIN log' : log'[p] \in EventRecords
        BY <2>3 DEF LogOK
      <4>2. \A e \in EventRecords : e.block \in Nat
        BY DEF EventRecords
      <4> QED
        BY <4>1, <4>2 DEF EventsOf
    <3> QED
      BY <3>1, BlockAssumption DEF Found
  <2> QED
    BY <2>1, <2>2, <2>4
<1> QED
  BY <1>1, <1>2

LEMMA BundlesInit == Init => BundlesOK
<1> SUFFICES ASSUME Init PROVE BundlesOK
  OBVIOUS
<1>1. /\ proposedRootBundles = <<>> /\ executedRootBundles = <<>> /\ log = <<>>
  BY DEF Init
<1>2. \A n, a, b : Found(n, a, b) = {}
  BY <1>1 DEF Found, EventsOf
<1>3. <<>> \in Seq(Nat) /\ Len(<<>>) = 0 /\ DOMAIN <<>> = {} /\ 1..0 = {}
  OBVIOUS
<1>4. ToSet(<<>>) = {} /\ Increasing(<<>>)
  BY <1>3 DEF ToSet, Increasing
<1> QED
  BY <1>1, <1>2, <1>3, <1>4 DEF BundlesOK

(* Events of other kinds, and new blocks, change nothing of the lists.     *)
LEMMA BundlesKept ==
  ASSUME ChainOK, WindowOK, BundlesOK, [Next]_vars, UNCHANGED <<window, bundles>>
  PROVE  BundlesOK'
<1>1. /\ firstBlockToSearch' = firstBlockToSearch
      /\ proposedRootBundles' = proposedRootBundles /\ executedRootBundles' = executedRootBundles
  BY DEF window, bundles
<1>2. \A n : Found(n, FromBlock, firstBlockToSearch - 1)' = Found(n, FromBlock, firstBlockToSearch - 1)
  BY <1>1, SearchedIsFinal
<1>3. \A q \in ToSet(executedRootBundles) :
        /\ q \in EventsOf("RootBundleExecuted") /\ FromBlock <= log[q].block /\ log[q].block <= head
        /\ log[q].block \in Nat
  BY LogFacts DEF BundlesOK, Found, ChainOK
<1>4. /\ head' \in Nat /\ head \in Nat /\ head <= head'
      /\ \A n : \A p \in EventsOf(n) : p \in EventsOf(n)' /\ log'[p] = log[p]
      /\ \A n : \A p \in EventsOf(n)' : p \in EventsOf(n) \/ head < log'[p].block
  BY Settled, LogFacts DEF ChainOK
<1>5. ToSet(executedRootBundles) \subseteq Found("RootBundleExecuted", FromBlock, head)'
  <2>1. ASSUME NEW q \in ToSet(executedRootBundles)
        PROVE  /\ q \in EventsOf("RootBundleExecuted")'
               /\ FromBlock <= log'[q].block /\ log'[q].block <= head'
    <3>1. q \in EventsOf("RootBundleExecuted")' /\ log'[q] = log[q]
      BY <1>3, <1>4
    <3>2. log[q].block <= head'
      BY <1>3, <1>4
    <3> QED
      BY <1>3, <3>1, <3>2
  <2> QED
    BY <2>1 DEF Found
<1>6. ASSUME NEW q \in ToSet(executedRootBundles), Orphan(q)
      PROVE  Orphan(q)'
  <2>1. log'[q] = log[q] /\ log[q].block <= head /\ log[q].block \in Nat
    BY <1>3, <1>4
  <2>2. ASSUME NEW p \in Proposals', FromBlock <= log'[p].block
        PROVE  log[q].block < log'[p].block
    <3>1. CASE p \in Proposals
      BY <1>4, <1>6, <2>2, <3>1 DEF Proposals, Orphan
    <3>2. CASE head < log'[p].block
      <4>1. LogOK'
        BY ChainStep DEF ChainOK
      <4>2. log'[p] \in EventRecords
        BY <4>1 DEF LogOK, Proposals, EventsOf
      <4>3. log'[p].block \in Nat
        BY <4>2 DEF EventRecords
      <4> QED
        BY <1>4, <2>1, <3>2, <4>3
    <3> QED
      BY <1>4, <3>1, <3>2 DEF Proposals
  <2> QED
    BY <2>1, <2>2 DEF Orphan
<1>7. ASSUME NEW i \in 1..Len(executedRootBundles)
      PROVE  executedRootBundles[i] \in ToSet(executedRootBundles)
             /\ log'[executedRootBundles[i]] = log[executedRootBundles[i]]
  <2>1. executedRootBundles[i] \in ToSet(executedRootBundles)
    BY Members DEF BundlesOK
  <2> QED
    BY <1>3, <1>4, <2>1
<1>8. \A i \in 1..Len(executedRootBundles) :
       firstBlockToSearch' <= log'[executedRootBundles[i]].block => Orphan(executedRootBundles[i])'
  BY <1>1, <1>6, <1>7 DEF BundlesOK
<1>9. \A i, j \in 1..Len(executedRootBundles) :
       executedRootBundles[i] = executedRootBundles[j] /\ i # j => Orphan(executedRootBundles[i])'
  <2>1. ASSUME NEW i \in 1..Len(executedRootBundles), NEW j \in 1..Len(executedRootBundles),
               executedRootBundles[i] = executedRootBundles[j], i # j
        PROVE  Orphan(executedRootBundles[i])'
    <3>1. Orphan(executedRootBundles[i])
      BY <2>1 DEF BundlesOK
    <3> QED
      BY <1>1, <1>6, <1>7, <3>1
  <2> QED
    BY <2>1
<1>10. (firstBlockToSearch - 1)' = firstBlockToSearch - 1
  BY <1>1
<1>11. /\ proposedRootBundles \in Seq(Nat) /\ Increasing(proposedRootBundles)
       /\ executedRootBundles \in Seq(Nat)
       /\ ToSet(proposedRootBundles) = Found("ProposeRootBundle", FromBlock, firstBlockToSearch - 1)'
       /\ Found("RootBundleExecuted", FromBlock, firstBlockToSearch - 1)'
            \subseteq ToSet(executedRootBundles)
  BY <1>2 DEF BundlesOK
<1> QED
  BY <1>1, <1>5, <1>8, <1>9, <1>11 DEF BundlesOK


(* The lists once the answers of an update are appended.                   *)
LEMMA BundlesAppended ==
  ASSUME ChainOK, WindowOK, BundlesOK, update.stage = "tokenInfo", AppendBundles
  PROVE  /\ proposedRootBundles' \in Seq(Nat) /\ Increasing(proposedRootBundles')
         /\ ToSet(proposedRootBundles') = Found("ProposeRootBundle", FromBlock, update.to)
         /\ executedRootBundles' \in Seq(Nat)
         /\ ToSet(executedRootBundles') \subseteq Found("RootBundleExecuted", FromBlock, head)
         /\ Found("RootBundleExecuted", FromBlock, update.to) \subseteq ToSet(executedRootBundles')
         /\ \A i \in 1..Len(executedRootBundles') :
              \/ /\ i \in 1..Len(executedRootBundles)
                 /\ executedRootBundles'[i] = executedRootBundles[i]
              \/ log[executedRootBundles'[i]].block <= update.to
         /\ \A i, j \in 1..Len(executedRootBundles') :
              executedRootBundles'[i] = executedRootBundles'[j] /\ i # j =>
                Orphan(executedRootBundles'[i])
<1> DEFINE P == Answer("ProposeRootBundle")
           E == Answer("RootBundleExecuted")
           pL == proposedRootBundles
           eL == executedRootBundles
           f == firstBlockToSearch
           to == update.to
<1>1. proposedRootBundles' = pL \o P /\ executedRootBundles' = eL \o E
  BY DEF AppendBundles
<1>2. "ProposeRootBundle" \notin OverrideEvents /\ "RootBundleExecuted" \notin OverrideEvents
  BY DEF OverrideEvents
<1>3. /\ P \in Seq(Nat) /\ Increasing(P) /\ ToSet(P) = Found("ProposeRootBundle", f, to)
      /\ E \in Seq(Nat) /\ Increasing(E) /\ ToSet(E) = Found("RootBundleExecuted", f, to)
  BY <1>2, AnswerIs
<1>4. FromBlock \in Nat /\ f \in Nat /\ to \in Nat /\ head \in Nat /\ FromBlock <= f /\ f <= to /\ to <= head
  BY UpdateFields, BlockAssumption, LogFacts DEF WindowOK, ChainOK
<1>5. \A n : /\ Found(n, FromBlock, f - 1) \cup Found(n, f, to) = Found(n, FromBlock, to)
             /\ \A p \in Found(n, FromBlock, f - 1), q \in Found(n, f, to) : p < q
  BY <1>4, FoundParts DEF ChainOK
<1>6. \A n, a, b : \A p \in Found(n, a, b) :
        p \in EventsOf(n) /\ p \in Nat /\ log[p].block \in Nat /\ a <= log[p].block /\ log[p].block <= b
  BY LogFacts DEF Found, ChainOK
<1>7. /\ pL \in Seq(Nat) /\ Increasing(pL) /\ ToSet(pL) = Found("ProposeRootBundle", FromBlock, f - 1)
      /\ eL \in Seq(Nat) /\ ToSet(eL) \subseteq Found("RootBundleExecuted", FromBlock, head)
      /\ Found("RootBundleExecuted", FromBlock, f - 1) \subseteq ToSet(eL)
      /\ \A i \in 1..Len(eL) : f <= log[eL[i]].block => Orphan(eL[i])
      /\ \A i, j \in 1..Len(eL) : eL[i] = eL[j] /\ i # j => Orphan(eL[i])
  BY DEF BundlesOK
<1> HIDE DEF P, E, pL, eL, f, to
<1>8. /\ pL \o P \in Seq(Nat) /\ ToSet(pL \o P) = Found("ProposeRootBundle", FromBlock, to)
  BY <1>3, <1>5, <1>7, Joined
<1>9. Increasing(pL \o P)
  <2> DEFINE u == pL \o P
  <2>1. /\ Len(pL) \in Nat /\ Len(P) \in Nat
        /\ \A i \in 1..Len(pL) : u[i] = pL[i]
        /\ \A i \in 1..Len(P) : u[Len(pL) + i] = P[i]
        /\ \A i \in 1..Len(u) : i \in 1..Len(pL) \/ \E j \in 1..Len(P) : i = Len(pL) + j
    BY <1>3, <1>7, Joined
  <2> HIDE DEF u
  <2>2. ASSUME NEW i \in 1..Len(u), NEW j \in 1..Len(u), i < j
        PROVE  u[i] < u[j]
    <3>1. CASE j \in 1..Len(pL)
      <4>1. i \in 1..Len(pL)
        BY <2>1, <2>2, <3>1
      <4> QED
        BY <1>7, <2>1, <2>2, <3>1, <4>1 DEF Increasing
    <3>2. ASSUME NEW k \in 1..Len(P), j = Len(pL) + k
          PROVE  u[i] < u[j]
      <4>1. u[j] = P[k] /\ P[k] \in ToSet(P)
        BY <1>3, <2>1, <3>2, Members
      <4>2. CASE i \in 1..Len(pL)
        <5>1. u[i] = pL[i] /\ pL[i] \in ToSet(pL)
          BY <1>7, <2>1, <4>2, Members
        <5> QED
          BY <1>3, <1>5, <1>7, <4>1, <5>1
      <4>3. ASSUME NEW l \in 1..Len(P), i = Len(pL) + l
            PROVE  u[i] < u[j]
        <5>1. l < k /\ u[i] = P[l]
          BY <2>1, <2>2, <3>2, <4>3
        <5> QED
          BY <1>3, <4>1, <5>1 DEF Increasing
      <4> QED
        BY <2>1, <4>2, <4>3
    <3> QED
      BY <2>1, <3>1, <3>2
  <2>3. Increasing(u)
    BY <2>2 DEF Increasing
  <2> QED
    BY <2>3 DEF u
<1> DEFINE w == eL \o E
<1>10. /\ w \in Seq(Nat) /\ Len(eL) \in Nat /\ Len(E) \in Nat
       /\ ToSet(w) = ToSet(eL) \cup ToSet(E)
       /\ \A i \in 1..Len(eL) : w[i] = eL[i]
       /\ \A i \in 1..Len(E) : w[Len(eL) + i] = E[i]
       /\ \A i \in 1..Len(w) : i \in 1..Len(eL) \/ \E j \in 1..Len(E) : i = Len(eL) + j
  BY <1>3, <1>7, Joined
<1> HIDE DEF w
<1>11. \A k \in 1..Len(E) : /\ E[k] \in ToSet(E) /\ E[k] \in Nat /\ log[E[k]].block \in Nat
                           /\ f <= log[E[k]].block /\ log[E[k]].block <= to
  <2>1. \A k \in 1..Len(E) : E[k] \in ToSet(E)
    BY <1>3, Members
  <2> QED
    BY <1>3, <1>6, <2>1
<1>12. ToSet(w) \subseteq Found("RootBundleExecuted", FromBlock, head)
  <2>1. Found("RootBundleExecuted", f, to) \subseteq Found("RootBundleExecuted", FromBlock, head)
    <3>1. \A q \in EventsOf("RootBundleExecuted") : log[q].block \in Nat
      BY LogFacts DEF ChainOK
    <3> QED
      BY <1>4, <3>1 DEF Found
  <2> QED
    BY <1>3, <1>7, <1>10, <2>1
<1>13. Found("RootBundleExecuted", FromBlock, to) \subseteq ToSet(w)
  <2>1. Found("RootBundleExecuted", FromBlock, to)
          = Found("RootBundleExecuted", FromBlock, f - 1) \cup Found("RootBundleExecuted", f, to)
    BY <1>5
  <2> QED
    BY <1>3, <1>7, <1>10, <2>1
<1>14. ASSUME NEW i \in 1..Len(w)
       PROVE  (i \in 1..Len(eL) /\ w[i] = eL[i]) \/ log[w[i]].block <= to
  BY <1>10, <1>11
<1>15. ASSUME NEW i \in 1..Len(w), NEW j \in 1..Len(w), w[i] = w[j], i # j
       PROVE  Orphan(w[i])
  <2>1. CASE i \in 1..Len(eL) /\ j \in 1..Len(eL)
    BY <1>7, <1>10, <1>15, <2>1
  <2>2. ASSUME NEW a \in 1..Len(eL), NEW k \in 1..Len(E), eL[a] = E[k]
        PROVE  Orphan(eL[a])
    BY <1>7, <1>11, <2>2
  <2>3. ASSUME NEW k \in 1..Len(E), NEW l \in 1..Len(E), i = Len(eL) + k, j = Len(eL) + l
        PROVE  FALSE
    <3>1. w[i] = E[k] /\ w[j] = E[l] /\ E[k] \in Nat /\ E[l] \in Nat
      BY <1>10, <1>11, <2>3
    <3>2. k < l \/ l < k
      BY <1>15, <2>3
    <3>3. E[k] < E[l] \/ E[l] < E[k]
      BY <1>3, <3>2 DEF Increasing
    <3>4. E[k] = E[l]
      BY <1>15, <3>1
    <3>5. \A x, y \in Nat : x = y => ~(x < y) /\ ~(y < x)
      OBVIOUS
    <3> QED
      BY <3>1, <3>3, <3>4, <3>5
  <2>4. CASE i \in 1..Len(eL) /\ j \notin 1..Len(eL)
    BY <1>10, <1>15, <2>2, <2>4
  <2>5. CASE j \in 1..Len(eL) /\ i \notin 1..Len(eL)
    BY <1>10, <1>15, <2>2, <2>5
  <2>6. CASE i \notin 1..Len(eL) /\ j \notin 1..Len(eL)
    BY <1>10, <2>3, <2>6
  <2> QED
    BY <2>1, <2>4, <2>5, <2>6
<1>16. proposedRootBundles' = pL \o P /\ executedRootBundles' = w
  BY <1>1 DEF pL, P, eL, E, w
<1>17. /\ \A i \in 1..Len(w) : (i \in 1..Len(eL) /\ w[i] = eL[i]) \/ log[w[i]].block <= to
       /\ \A i, j \in 1..Len(w) : w[i] = w[j] /\ i # j => Orphan(w[i])
  BY <1>14, <1>15
<1> QED
  BY <1>8, <1>9, <1>10, <1>12, <1>13, <1>16, <1>17 DEF eL, to

LEMMA BundlesStep ==
  ASSUME ChainOK, WindowOK, BundlesOK, [Next]_vars
  PROVE  BundlesOK'
<1>1. CASE UNCHANGED <<window, bundles>>
  BY <1>1, BundlesKept
<1>2. CASE /\ update.stage = "tokenInfo" /\ AppendBundles /\ UNCHANGED chain
           /\ \/ firstBlockToSearch' = update.to + 1
              \/ firstBlockToSearch' = firstBlockToSearch /\ proposedRootBundles' = <<>>
  <2>1. /\ log' = log /\ head' = head
        /\ \A n, a, b : Found(n, a, b)' = Found(n, a, b)
        /\ \A q : Orphan(q)' <=> Orphan(q)
    BY <1>2 DEF chain, Found, EventsOf, Orphan, Proposals
  <2> DEFINE pL == proposedRootBundles'
             eL == executedRootBundles'
  <2>2. /\ pL \in Seq(Nat) /\ Increasing(pL)
        /\ ToSet(pL) = Found("ProposeRootBundle", FromBlock, update.to)
        /\ eL \in Seq(Nat)
        /\ ToSet(eL) \subseteq Found("RootBundleExecuted", FromBlock, head)
        /\ Found("RootBundleExecuted", FromBlock, update.to) \subseteq ToSet(eL)
        /\ \A i \in 1..Len(eL) :
              \/ i \in 1..Len(executedRootBundles) /\ eL[i] = executedRootBundles[i]
              \/ log[eL[i]].block <= update.to
        /\ \A i, j \in 1..Len(eL) : eL[i] = eL[j] /\ i # j => Orphan(eL[i])
    BY <1>2, BundlesAppended
  <2>3. /\ update.to \in Nat /\ firstBlockToSearch \in Nat /\ FromBlock \in Nat
        /\ firstBlockToSearch <= update.to /\ FromBlock <= firstBlockToSearch
    BY <1>2, UpdateFields, BlockAssumption DEF WindowOK
  <2>4. \A i \in 1..Len(eL) : eL[i] \in EventsOf("RootBundleExecuted") /\ log[eL[i]].block \in Nat
    <3>1. \A i \in 1..Len(eL) : eL[i] \in ToSet(eL)
      BY <2>2, Members
    <3> QED
      BY <2>2, <3>1, LogFacts DEF Found, ChainOK
  <2>5. \A i \in 1..Len(executedRootBundles) :
          firstBlockToSearch <= log[executedRootBundles[i]].block => Orphan(executedRootBundles[i])
    BY DEF BundlesOK
  <2> HIDE DEF pL, eL
  <2>6. CASE firstBlockToSearch' = update.to + 1
    <3>1. ASSUME NEW i \in 1..Len(eL), update.to + 1 <= log[eL[i]].block
          PROVE  Orphan(eL[i])
      <4>1. ~(log[eL[i]].block <= update.to) /\ firstBlockToSearch <= log[eL[i]].block
        BY <2>3, <2>4, <3>1
      <4> QED
        BY <2>2, <2>5, <4>1
    <3>2. firstBlockToSearch' - 1 = update.to
      BY <2>3, <2>6
    <3> QED
      BY <2>1, <2>2, <2>6, <3>1, <3>2 DEF BundlesOK, pL, eL
  <2>7. CASE firstBlockToSearch' = firstBlockToSearch /\ proposedRootBundles' = <<>>
    <3>1. Found("ProposeRootBundle", FromBlock, update.to) = {}
      BY <2>2, <2>7 DEF pL, ToSet
    <3>2. \A p \in Proposals : log[p].block \in Nat
      BY LogFacts DEF Proposals, ChainOK
    <3>3. \A p \in Proposals : FromBlock <= log[p].block => update.to < log[p].block
      BY <2>3, <3>1, <3>2 DEF Found, Proposals
    <3>4. ASSUME NEW i \in 1..Len(eL), firstBlockToSearch <= log[eL[i]].block
          PROVE  Orphan(eL[i])
      <4>1. CASE log[eL[i]].block <= update.to
        BY <2>3, <2>4, <3>2, <3>3, <4>1 DEF Orphan
      <4>2. CASE i \in 1..Len(executedRootBundles) /\ eL[i] = executedRootBundles[i]
        BY <2>5, <3>4, <4>2
      <4> QED
        BY <2>2, <4>1, <4>2
    <3>5. Found("ProposeRootBundle", FromBlock, firstBlockToSearch - 1) = {}
      <4>1. \A k \in Nat : k <= firstBlockToSearch - 1 => k <= update.to
        BY <2>3
      <4> QED
        BY <3>1, <3>2, <4>1 DEF Found, Proposals
    <3>6. Found("RootBundleExecuted", FromBlock, firstBlockToSearch - 1) \subseteq ToSet(eL)
      <4>1. \A k \in Nat : k <= firstBlockToSearch - 1 => k <= update.to
        BY <2>3
      <4>2. \A q \in EventsOf("RootBundleExecuted") : log[q].block \in Nat
        BY LogFacts DEF ChainOK
      <4> QED
        BY <2>2, <4>1, <4>2 DEF Found
    <3>7. ToSet(pL) = {}
      BY <2>2, <3>1
    <3> QED
      BY <2>1, <2>2, <2>7, <3>4, <3>5, <3>6, <3>7 DEF BundlesOK, pL, eL
  <2> QED
    BY <1>2, <2>6, <2>7
<1>3. CASE TokenInfo
  BY <1>2, <1>3 DEF TokenInfo, NextStart
<1>4. CASE NoBundleThrows
  BY <1>2, <1>4 DEF NoBundleThrows, window
<1> QED
  BY <1>1, <1>3, <1>4
     DEF Next, vars, client, Emit, MineBlock, SetToBlock, Start, BlockNumber, Answers,
         TokenThrows, Fail


LEMMA BundlesHolds == Spec => [](ChainOK /\ WindowOK /\ BundlesOK)
<1>1. ChainOK /\ WindowOK /\ BundlesOK /\ [Next]_vars => BundlesOK'
  BY BundlesStep
<1> QED
  BY <1>1, WindowHolds, BundlesInit, PTL DEF Spec

-----------------------------------------------------------------------------
(* The lists of contracts and routes.                                      *)

Registered == {"CrossChainContractsSet", "SetPoolRebalanceRoute"}

(* A list that an action leaves alone stays complete.                      *)
LEMMA CompleteKept ==
  ASSUME ChainOK, WindowOK, [Next]_vars, NEW list, NEW name, Complete(list, name),
         UNCHANGED window, update'.stage = "tokenInfo" => update' = update
  PROVE  /\ \A i \in 1..Len(list) : \A r \in EventsOf(name)' :
               r < list[i] => \E j \in 1..Len(list) : j < i /\ list[j] = r
         /\ ToSet(list) \subseteq EventsOf(name)'
         /\ isUpdated' => Found(name, DeploymentBlock, firstBlockToSearch - 1)' \subseteq ToSet(list)
         /\ update'.stage = "tokenInfo" =>
              Found(name, DeploymentBlock, update.to)' \subseteq ToSet(list)
<1>1. /\ \A n : \A p \in EventsOf(n) : p \in EventsOf(n)' /\ log'[p] = log[p]
      /\ \A n : \A p \in EventsOf(n)' : p \in EventsOf(n) \/ Len(log) < p
      /\ \A n, a : \A b \in Int : b <= head => Found(n, a, b)' = Found(n, a, b)
  BY Settled
<1>2. /\ list \in Seq(Nat) /\ ToSet(list) \subseteq EventsOf(name)
      /\ \A i \in 1..Len(list) : \A r \in EventsOf(name) :
           r < list[i] => \E j \in 1..Len(list) : j < i /\ list[j] = r
      /\ isUpdated => Found(name, DeploymentBlock, firstBlockToSearch - 1) \subseteq ToSet(list)
      /\ update.stage = "tokenInfo" => Found(name, DeploymentBlock, update.to) \subseteq ToSet(list)
  BY DEF Complete
<1>3. ASSUME NEW i \in 1..Len(list), NEW r \in EventsOf(name)', r < list[i]
      PROVE  \E j \in 1..Len(list) : j < i /\ list[j] = r
  <2>1. list[i] \in ToSet(list)
    BY <1>2, Members
  <2>2. list[i] \in Nat /\ list[i] <= Len(log) /\ Len(log) \in Nat
    BY <1>2, <2>1, LogFacts DEF ChainOK
  <2>3. r \in EventsOf(name) \/ Len(log) < r
    BY <1>1
  <2>4. r \in Nat
    <3>1. LogOK'
      BY ChainStep DEF ChainOK
    <3>2. DOMAIN log' = 1..Len(log') /\ Len(log') \in Nat
      BY <3>1 DEF LogOK
    <3> QED
      BY <3>2 DEF EventsOf
  <2>5. ~(Len(log) < r)
    BY <1>3, <2>2, <2>4
  <2> QED
    BY <1>2, <1>3, <2>3, <2>5
<1>4. ToSet(list) \subseteq EventsOf(name)'
  BY <1>1, <1>2
<1>5. firstBlockToSearch' = firstBlockToSearch /\ isUpdated' = isUpdated
  BY DEF window
<1>6. ASSUME isUpdated'
      PROVE  Found(name, DeploymentBlock, firstBlockToSearch - 1)' \subseteq ToSet(list)
  <2>1. isUpdated /\ firstBlockToSearch - 1 \in Int /\ firstBlockToSearch \in Nat
    BY <1>5, <1>6 DEF WindowOK
  <2>2. firstBlockToSearch <= head + 1 /\ head \in Nat
    BY <2>1, LogFacts DEF WindowOK, ChainOK
  <2>3. firstBlockToSearch - 1 <= head
    BY <2>1, <2>2
  <2>4. Found(name, DeploymentBlock, firstBlockToSearch - 1)'
          = Found(name, DeploymentBlock, firstBlockToSearch - 1)
    BY <1>1, <1>5, <2>1, <2>3
  <2> QED
    BY <1>2, <2>1, <2>4
<1>7. ASSUME update'.stage = "tokenInfo"
      PROVE  Found(name, DeploymentBlock, update.to)' \subseteq ToSet(list)
  <2>1. update' = update /\ update.stage = "tokenInfo"
    BY <1>7
  <2>2. update.to \in Int /\ update.to <= head
    BY <2>1, UpdateFields
  <2>3. Found(name, DeploymentBlock, update.to)' = Found(name, DeploymentBlock, update.to)
    BY <1>1, <2>1, <2>2
  <2> QED
    BY <1>2, <2>1, <2>3
<1> QED
  BY <1>3, <1>4, <1>6, <1>7

(* A query's answer may hold again what is there, and misses nothing.      *)
LEMMA CompleteAppended ==
  ASSUME ChainOK, WindowOK, Answers, NEW list, NEW name \in Registered, Complete(list, name)
  PROVE  /\ list \o Answer(name) \in Seq(Nat)
         /\ ToSet(list \o Answer(name)) \subseteq EventsOf(name)
         /\ \A i \in 1..Len(list \o Answer(name)) : \A r \in EventsOf(name) :
              r < (list \o Answer(name))[i] =>
                \E j \in 1..Len(list \o Answer(name)) : j < i /\ (list \o Answer(name))[j] = r
         /\ isUpdated => Found(name, DeploymentBlock, firstBlockToSearch - 1)
                           \subseteq ToSet(list \o Answer(name))
         /\ Found(name, DeploymentBlock, update.to) \subseteq ToSet(list \o Answer(name))
<1> DEFINE A == Answer(name)
           u == list \o A
<1>1. name \in OverrideEvents
  BY DEF Registered, OverrideEvents
<1>2. update.stage = "query"
  BY DEF Answers
<1>3. /\ A \in Seq(Nat) /\ Increasing(A)
      /\ ~isUpdated => ToSet(A) = Found(name, DeploymentBlock, update.to)
      /\ isUpdated => ToSet(A) = Found(name, firstBlockToSearch, update.to)
  BY <1>1, <1>2, AnswerIs
<1>4. /\ DeploymentBlock \in Nat /\ firstBlockToSearch \in Nat /\ update.to \in Nat
      /\ DeploymentBlock <= firstBlockToSearch /\ firstBlockToSearch <= update.to
  BY <1>2, UpdateFields, BlockAssumption DEF WindowOK
<1>5. Found(name, DeploymentBlock, firstBlockToSearch - 1) \cup Found(name, firstBlockToSearch, update.to)
        = Found(name, DeploymentBlock, update.to)
  BY <1>4, FoundParts DEF ChainOK
<1>6. /\ list \in Seq(Nat) /\ ToSet(list) \subseteq EventsOf(name)
      /\ \A i \in 1..Len(list) : \A r \in EventsOf(name) :
           r < list[i] => \E j \in 1..Len(list) : j < i /\ list[j] = r
      /\ isUpdated => Found(name, DeploymentBlock, firstBlockToSearch - 1) \subseteq ToSet(list)
  BY DEF Complete
<1>7. \A r \in EventsOf(name) : /\ r \in Nat /\ r \in DOMAIN log /\ log[r].block \in Nat
                               /\ DeploymentBlock <= log[r].block
  BY <1>4, LogFacts DEF ChainOK
<1> HIDE DEF A
<1>8. /\ u \in Seq(Nat) /\ Len(u) = Len(list) + Len(A)
      /\ Len(list) \in Nat /\ Len(A) \in Nat
      /\ ToSet(u) = ToSet(list) \cup ToSet(A)
      /\ \A i \in 1..Len(list) : u[i] = list[i]
      /\ \A i \in 1..Len(A) : u[Len(list) + i] = A[i]
      /\ \A i \in 1..Len(u) : i \in 1..Len(list) \/ \E j \in 1..Len(A) : i = Len(list) + j
  BY <1>3, <1>6, Joined
<1> HIDE DEF u
<1>9. Found(name, DeploymentBlock, update.to) \subseteq ToSet(u)
  BY <1>3, <1>5, <1>6, <1>8 DEF WindowOK
<1>10. ToSet(u) \subseteq EventsOf(name)
  BY <1>3, <1>6, <1>8 DEF Found, WindowOK
<1>11. ASSUME isUpdated
       PROVE  Found(name, DeploymentBlock, firstBlockToSearch - 1) \subseteq ToSet(u)
  BY <1>6, <1>8, <1>11
<1>12. ASSUME NEW i \in 1..Len(u), NEW r \in EventsOf(name), r < u[i]
       PROVE  \E j \in 1..Len(u) : j < i /\ u[j] = r
  <2>1. CASE i \in 1..Len(list)
    <3>1. PICK j \in 1..Len(list) : j < i /\ list[j] = r
      BY <1>6, <1>8, <1>12, <2>1
    <3>2. j \in 1..Len(u) /\ u[j] = r
      BY <1>8, <3>1
    <3> QED
      BY <3>1, <3>2
  <2>2. ASSUME NEW k \in 1..Len(A), i = Len(list) + k
        PROVE  \E j \in 1..Len(u) : j < i /\ u[j] = r
    <3>1. u[i] = A[k] /\ A[k] \in ToSet(A)
      BY <1>3, <1>8, <2>2, Members
    <3>2. A[k] \in EventsOf(name) /\ log[A[k]].block <= update.to
      BY <1>3, <3>1 DEF Found, WindowOK
    <3>3. log[r].block <= log[A[k]].block
      <4>1. r \in DOMAIN log /\ A[k] \in DOMAIN log /\ r <= A[k]
        BY <1>7, <1>12, <3>1, <3>2
      <4> QED
        BY <4>1 DEF ChainOK, LogOK
    <3>4. r \in Found(name, DeploymentBlock, update.to)
      <4>1. log[r].block <= update.to
        BY <1>4, <1>7, <3>2, <3>3
      <4> QED
        BY <1>7, <4>1 DEF Found
    <3>5. CASE r \in ToSet(A)
      <4>1. PICK l \in 1..Len(A) : A[l] = r
        BY <1>3, <3>5, Members
      <4>2. l < k
        <5>1. A[l] \in Nat /\ A[k] \in Nat /\ A[l] < A[k]
          BY <1>7, <1>12, <3>1, <3>2, <4>1
        <5>2. ~(k < l) /\ k # l
          BY <1>3, <5>1 DEF Increasing
        <5> QED
          BY <1>8, <5>2
      <4>3. Len(list) + l \in 1..Len(u) /\ Len(list) + l < i /\ u[Len(list) + l] = r
        <5>1. u[Len(list) + l] = A[l]
          BY <1>8
        <5>2. Len(list) \in Nat /\ Len(A) \in Nat /\ Len(u) = Len(list) + Len(A)
          BY <1>8
        <5>3. Len(list) + l \in 1..Len(u) /\ Len(list) + l < i
          BY <2>2, <4>2, <5>2
        <5> QED
          BY <4>1, <5>1, <5>3
      <4> QED
        BY <4>3
    <3>6. CASE r \in ToSet(list)
      <4>1. PICK j \in 1..Len(list) : list[j] = r
        BY <1>6, <3>6, Members
      <4>2. j \in 1..Len(u) /\ j < i /\ u[j] = r
        <5>1. u[j] = r
          BY <1>8, <4>1
        <5>2. Len(list) \in Nat /\ Len(A) \in Nat /\ Len(u) = Len(list) + Len(A)
          BY <1>8
        <5>3. j \in 1..Len(u) /\ j < i
          BY <2>2, <5>2
        <5> QED
          BY <5>1, <5>3
      <4> QED
        BY <4>2
    <3> QED
      BY <1>8, <1>9, <3>4, <3>5, <3>6
  <2> QED
    BY <1>8, <2>1, <2>2
<1> QED
  BY <1>8, <1>9, <1>10, <1>11, <1>12 DEF u, A

LEMMA RegistryInit == Init => RegistryOK
<1> SUFFICES ASSUME Init PROVE RegistryOK
  OBVIOUS
<1>1. /\ crossChainContracts = <<>> /\ l1TokensToDestinationTokensWithBlock = <<>>
      /\ isUpdated = FALSE /\ update = NoUpdate
  BY DEF Init
<1>2. <<>> \in Seq(Nat) /\ Len(<<>>) = 0 /\ DOMAIN <<>> = {} /\ 1..0 = {}
  OBVIOUS
<1>3. ToSet(<<>>) = {}
  BY <1>2 DEF ToSet
<1>4. update.stage # "tokenInfo"
  BY <1>1 DEF NoUpdate
<1> QED
  BY <1>1, <1>2, <1>3, <1>4 DEF RegistryOK, Complete

LEMMA RegistryStep ==
  ASSUME ChainOK, WindowOK, RegistryOK, [Next]_vars
  PROVE  RegistryOK'
<1>1. CASE UNCHANGED <<window, registry>> /\ (update'.stage = "tokenInfo" => update' = update)
  <2>1. /\ crossChainContracts' = crossChainContracts
        /\ l1TokensToDestinationTokensWithBlock' = l1TokensToDestinationTokensWithBlock
        /\ UNCHANGED window
    BY <1>1 DEF registry
  <2>2. ASSUME NEW list, NEW name, Complete(list, name)
        PROVE  /\ list \in Seq(Nat)
               /\ \A i \in 1..Len(list) : \A r \in EventsOf(name)' :
                     r < list[i] => \E j \in 1..Len(list) : j < i /\ list[j] = r
               /\ ToSet(list) \subseteq EventsOf(name)'
               /\ isUpdated' =>
                    Found(name, DeploymentBlock, firstBlockToSearch - 1)' \subseteq ToSet(list)
               /\ update'.stage = "tokenInfo" =>
                    Found(name, DeploymentBlock, update.to)' \subseteq ToSet(list)
    <3>1. list \in Seq(Nat)
      BY <2>2 DEF Complete
    <3>2. (update'.stage = "tokenInfo" => update' = update) /\ UNCHANGED window
      BY <1>1
    <3> QED
      BY <2>2, <3>1, <3>2, CompleteKept
  <2>3. Complete(crossChainContracts, "CrossChainContractsSet")'
    <3> DEFINE list == crossChainContracts
               name == "CrossChainContractsSet"
    <3>1. Complete(list, name)
      BY DEF RegistryOK
    <3>2. /\ list \in Seq(Nat)
          /\ \A i \in 1..Len(list) : \A r \in EventsOf(name)' :
                r < list[i] => \E j \in 1..Len(list) : j < i /\ list[j] = r
          /\ ToSet(list) \subseteq EventsOf(name)'
          /\ isUpdated' =>
               Found(name, DeploymentBlock, firstBlockToSearch - 1)' \subseteq ToSet(list)
          /\ update'.stage = "tokenInfo" =>
               Found(name, DeploymentBlock, update.to)' \subseteq ToSet(list)
      <4> HIDE DEF list, name
      <4> QED
        BY <2>2, <3>1
    <3> QED
      BY <2>1, <3>2 DEF Complete
  <2>4. Complete(l1TokensToDestinationTokensWithBlock, "SetPoolRebalanceRoute")'
    <3> DEFINE list == l1TokensToDestinationTokensWithBlock
               name == "SetPoolRebalanceRoute"
    <3>1. Complete(list, name)
      BY DEF RegistryOK
    <3>2. /\ list \in Seq(Nat)
          /\ \A i \in 1..Len(list) : \A r \in EventsOf(name)' :
                r < list[i] => \E j \in 1..Len(list) : j < i /\ list[j] = r
          /\ ToSet(list) \subseteq EventsOf(name)'
          /\ isUpdated' =>
               Found(name, DeploymentBlock, firstBlockToSearch - 1)' \subseteq ToSet(list)
          /\ update'.stage = "tokenInfo" =>
               Found(name, DeploymentBlock, update.to)' \subseteq ToSet(list)
      <4> HIDE DEF list, name
      <4> QED
        BY <2>2, <3>1
    <3> QED
      BY <2>1, <3>2 DEF Complete
  <2> QED
    BY <2>3, <2>4 DEF RegistryOK
<1>2. CASE Answers
  <2>1. /\ crossChainContracts' = crossChainContracts \o Answer("CrossChainContractsSet")
        /\ l1TokensToDestinationTokensWithBlock' =
             l1TokensToDestinationTokensWithBlock \o Answer("SetPoolRebalanceRoute")
        /\ UNCHANGED <<chain, window>> /\ update' = [update EXCEPT !.stage = "tokenInfo"]
    BY <1>2 DEF Answers
  <2>2. /\ firstBlockToSearch' = firstBlockToSearch /\ isUpdated' = isUpdated
        /\ \A n : EventsOf(n)' = EventsOf(n)
        /\ \A n, a, b : Found(n, a, b)' = Found(n, a, b)
    BY <2>1 DEF chain, window, EventsOf, Found
  <2>3. update'.to = update.to
    <3>1. update \in [stage : {"query", "tokenInfo"}, from : Nat, to : Nat]
      BY <1>2, UpdateFields DEF Answers
    <3> QED
      BY <2>1, <3>1
  <2>4. Complete(crossChainContracts, "CrossChainContractsSet")'
    <3> DEFINE list == crossChainContracts
               name == "CrossChainContractsSet"
               u == list \o Answer(name)
    <3>1. name \in Registered /\ Complete(list, name)
      BY DEF Registered, RegistryOK
    <3>2. /\ u \in Seq(Nat) /\ ToSet(u) \subseteq EventsOf(name)
          /\ \A i \in 1..Len(u) : \A r \in EventsOf(name) :
                r < u[i] => \E j \in 1..Len(u) : j < i /\ u[j] = r
          /\ isUpdated => Found(name, DeploymentBlock, firstBlockToSearch - 1) \subseteq ToSet(u)
          /\ Found(name, DeploymentBlock, update.to) \subseteq ToSet(u)
      <4> HIDE DEF list, name
      <4> QED
        BY <1>2, <3>1, CompleteAppended
    <3>3. crossChainContracts' = u
      BY <2>1
    <3> HIDE DEF u
    <3> QED
      BY <2>2, <2>3, <3>2, <3>3 DEF Complete
  <2>5. Complete(l1TokensToDestinationTokensWithBlock, "SetPoolRebalanceRoute")'
    <3> DEFINE list == l1TokensToDestinationTokensWithBlock
               name == "SetPoolRebalanceRoute"
               u == list \o Answer(name)
    <3>1. name \in Registered /\ Complete(list, name)
      BY DEF Registered, RegistryOK
    <3>2. /\ u \in Seq(Nat) /\ ToSet(u) \subseteq EventsOf(name)
          /\ \A i \in 1..Len(u) : \A r \in EventsOf(name) :
                r < u[i] => \E j \in 1..Len(u) : j < i /\ u[j] = r
          /\ isUpdated => Found(name, DeploymentBlock, firstBlockToSearch - 1) \subseteq ToSet(u)
          /\ Found(name, DeploymentBlock, update.to) \subseteq ToSet(u)
      <4> HIDE DEF list, name
      <4> QED
        BY <1>2, <3>1, CompleteAppended
    <3>3. l1TokensToDestinationTokensWithBlock' = u
      BY <2>1
    <3> HIDE DEF u
    <3> QED
      BY <2>2, <2>3, <3>2, <3>3 DEF Complete
  <2> QED
    BY <2>4, <2>5 DEF RegistryOK
<1>3. CASE TokenInfo
  <2>1. /\ UNCHANGED <<chain, registry>> /\ update.stage = "tokenInfo" /\ update' = NoUpdate
        /\ firstBlockToSearch' = update.to + 1 /\ isUpdated' = TRUE
    BY <1>3 DEF TokenInfo, NextStart
  <2>2. update.to \in Nat /\ firstBlockToSearch' - 1 = update.to
    BY <2>1, UpdateFields
  <2>3. /\ \A n : EventsOf(n)' = EventsOf(n)
        /\ \A n, a, b : Found(n, a, b)' = Found(n, a, b)
        /\ crossChainContracts' = crossChainContracts
        /\ l1TokensToDestinationTokensWithBlock' = l1TokensToDestinationTokensWithBlock
        /\ update'.stage # "tokenInfo"
    BY <2>1 DEF chain, registry, EventsOf, Found, NoUpdate
  <2> QED
    BY <2>1, <2>2, <2>3 DEF RegistryOK, Complete
<1>4. CASE Start \/ BlockNumber
  <2>1. UNCHANGED client /\ update'.stage # "tokenInfo"
    BY <1>4 DEF Start, BlockNumber, NoUpdate
  <2> QED
    BY <1>1, <2>1 DEF client
<1>5. CASE UNCHANGED <<window, registry>> /\ update' = NoUpdate
  BY <1>1, <1>5 DEF NoUpdate
<1> QED
  BY <1>1, <1>2, <1>3, <1>4, <1>5
     DEF Next, vars, client, Emit, MineBlock, SetToBlock, NoBundleThrows, TokenThrows, Fail

LEMMA RegistryHolds == Spec => [](ChainOK /\ WindowOK /\ RegistryOK)
<1>1. ChainOK /\ WindowOK /\ RegistryOK /\ [Next]_vars => RegistryOK'
  BY RegistryStep
<1> QED
  BY <1>1, WindowHolds, RegistryInit, PTL DEF Spec


(* Up to the searched block, what is held of the contracts and routes is   *)
(* what the chain has.                                                     *)
LEMMA HeldUpTo ==
  ASSUME ChainOK, WindowOK, isUpdated, NEW list, NEW name, Complete(list, name),
         NEW b \in 0..latestBlockSearched
  PROVE  /\ {p \in ToSet(list) : log[p].block <= b} = UpTo(EventsOf(name), b)
         /\ ToSet(list) \subseteq EventsOf(name)
<1>1. /\ latestBlockSearched = firstBlockToSearch - 1 /\ firstBlockToSearch \in Nat
      /\ DeploymentBlock \in Nat
  BY BlockAssumption DEF WindowOK
<1>2. /\ ToSet(list) \subseteq EventsOf(name)
      /\ Found(name, DeploymentBlock, latestBlockSearched) \subseteq ToSet(list)
  BY <1>1 DEF Complete
<1>3. \A p \in EventsOf(name) : log[p].block \in Nat /\ DeploymentBlock <= log[p].block
  BY <1>1, LogFacts DEF ChainOK
<1>4. \A p \in EventsOf(name) : log[p].block <= b => p \in ToSet(list)
  BY <1>1, <1>2, <1>3 DEF Found
<1> QED
  BY <1>2, <1>4 DEF UpTo

(* The last event of a set of events.                                      *)
LEMMA LatestIs ==
  ASSUME LogOK, NEW name, NEW ps \in SUBSET EventsOf(name)
  PROVE  /\ Latest(ps) = None <=> ps = {}
         /\ ps # {} => Latest(ps) \in ps /\ \A p \in ps : p <= Latest(ps)
<1>1. ps \in SUBSET Nat /\ Len(log) \in Nat /\ \A p \in ps : p <= Len(log)
  BY LogFacts
<1>2. ps # {} => Max(ps) \in ps /\ \A p \in ps : p <= Max(ps)
  BY <1>1, Extremes
<1> QED
  BY <1>1, <1>2, BlockAssumption DEF Latest

LEMMA RegistryRecords ==
  ASSUME LogOK
  PROVE  /\ \A p \in EventsOf("SetPoolRebalanceRoute") :
              /\ log[p].l1Token \in L1Tokens /\ log[p].l1Token # None
              /\ log[p].l2Token \in L2Tokens /\ log[p].l2Token # None
         /\ \A p \in EventsOf("CrossChainContractsSet") :
              log[p].spokePool \in SpokePools /\ log[p].spokePool # None
<1>1. /\ \A e \in EventRecords : e.name = "SetPoolRebalanceRoute" =>
           e.l1Token \in L1Tokens /\ e.l2Token \in L2Tokens
      /\ \A e \in EventRecords : e.name = "CrossChainContractsSet" => e.spokePool \in SpokePools
  BY DEF EventRecords, OutcomeNames
<1> QED
  BY <1>1, LogFacts, TokenAssumption DEF EventsOf

LEMMA RoutesRight ==
  ASSUME ChainOK, WindowOK, RegistryOK
  PROVE  RoutesAsOfBlock
<1> DEFINE routes == EventsOf("SetPoolRebalanceRoute")
<1> SUFFICES ASSUME isUpdated, NEW l1 \in L1Tokens, NEW c \in Chains, NEW b \in 0..latestBlockSearched
    PROVE  L2TokenForL1TokenAtBlock(l1, c, b) =
             (IF RouteAmong(routes, l1, c, b) = None THEN None
              ELSE log[RouteAmong(routes, l1, c, b)].l2Token)
  BY DEF RoutesAsOfBlock
<1> DEFINE list == l1TokensToDestinationTokensWithBlock
<1>1. {p \in ToSet(list) : log[p].block <= b} = UpTo(routes, b)
  BY HeldUpTo DEF RegistryOK
<1>2. HeldAs(list, LAMBDA e : e.l1Token = l1 /\ e.chain = c /\ e.block <= b)
        = {p \in UpTo(routes, b) : log[p].l1Token = l1 /\ log[p].chain = c}
  <2>1. HeldAs(list, LAMBDA e : e.l1Token = l1 /\ e.chain = c /\ e.block <= b)
          = {p \in ToSet(list) : log[p].l1Token = l1 /\ log[p].chain = c /\ log[p].block <= b}
    BY DEF HeldAs
  <2> QED
    BY <1>1, <2>1
<1> QED
  BY <1>2 DEF L2TokenForL1TokenAtBlock, RouteAmong

LEMMA SpokePoolsRight ==
  ASSUME ChainOK, WindowOK, RegistryOK
  PROVE  SpokePoolsAsOfBlock
<1> DEFINE contracts == EventsOf("CrossChainContractsSet")
           list == crossChainContracts
           Set(c, b) == {q \in UpTo(contracts, b) : log[q].chain = c}
<1> SUFFICES ASSUME isUpdated, NEW c \in Chains, NEW b \in 0..latestBlockSearched
    PROVE  IF Latest(Set(c, b)) = None THEN SpokePoolForBlock(c, b) = None
           ELSE /\ SpokePoolForBlock(c, b) = log[Latest(Set(c, b))].spokePool
                /\ SpokePoolActivationBlock(c, SpokePoolForBlock(c, b)) <= log[Latest(Set(c, b))].block
  BY DEF SpokePoolsAsOfBlock
<1> DEFINE p == Latest(Set(c, b))
           pool == SpokePoolForBlock(c, b)
<1>1. /\ {q \in ToSet(list) : log[q].block <= b} = UpTo(contracts, b)
      /\ ToSet(list) \subseteq contracts
  BY HeldUpTo DEF RegistryOK
<1>2. HeldAs(list, LAMBDA e : e.chain = c /\ e.block <= b) = Set(c, b)
  <2>1. HeldAs(list, LAMBDA e : e.chain = c /\ e.block <= b)
          = {q \in ToSet(list) : log[q].chain = c /\ log[q].block <= b}
    BY DEF HeldAs
  <2> QED
    BY <1>1, <2>1
<1>3. pool = IF p = None THEN None ELSE log[p].spokePool
  BY <1>2 DEF SpokePoolForBlock
<1>4. Set(c, b) \in SUBSET contracts
  BY DEF UpTo
<1>5. ASSUME p # None
      PROVE  SpokePoolActivationBlock(c, pool) <= log[p].block
  <2>1. p \in Set(c, b)
    <3> HIDE DEF Set, p
    <3> QED
      BY <1>4, <1>5, LatestIs DEF p, ChainOK
  <2>2. p \in ToSet(list) /\ log[p].chain = c /\ log[p].spokePool = pool /\ p \in contracts
    BY <1>1, <1>3, <1>4, <1>5, <2>1
  <2>3. /\ list \in Seq(Nat)
        /\ \A i \in 1..Len(list) : \A r \in contracts :
             r < list[i] => \E j \in 1..Len(list) : j < i /\ list[j] = r
    BY DEF RegistryOK, Complete
  <2> HIDE DEF list, contracts, p, pool
  <2> DEFINE I == {i \in 1..Len(list) : log[list[i]].chain = c /\ log[list[i]].spokePool = pool}
  <2>4. PICK k \in 1..Len(list) : list[k] = p
    BY <2>2, <2>3, Members
  <2>5. I \in SUBSET Nat /\ I # {} /\ Len(list) \in Nat /\ \A i \in I : i <= Len(list)
    BY <2>2, <2>3, <2>4
  <2>6. SpokePoolActivationBlock(c, pool) =
          IF (IF I # {} THEN Min(I) ELSE 0) = 0 THEN None
          ELSE log[list[IF I # {} THEN Min(I) ELSE 0]].block
    BY DEF SpokePoolActivationBlock, SelectInSeq, list
  <2> DEFINE i == Min(I)
  <2>7. i \in I /\ \A j \in I : i <= j
    <3> HIDE DEF I
    <3> QED
      BY <2>5, Extremes
  <2>8. i \in 1..Len(list) /\ i # 0
    <3>1. I \subseteq 1..Len(list)
      OBVIOUS
    <3> HIDE DEF I, i
    <3> QED
      BY <2>5, <2>7, <3>1
  <2>9. list[i] \in contracts /\ list[i] \in Nat /\ p \in Nat
    <3>1. list[i] \in ToSet(list)
      BY <2>3, <2>8, Members
    <3> QED
      BY <1>1, <2>2, <3>1, LogFacts DEF list, contracts, ChainOK
  <2>10. ~(p < list[i])
    <3>1. SUFFICES ASSUME p < list[i] PROVE FALSE
      OBVIOUS
    <3>2. PICK j \in 1..Len(list) : j < i /\ list[j] = p
      BY <2>2, <2>3, <2>8, <3>1
    <3>3. j \in I /\ j \in Nat /\ i \in Nat
      BY <2>2, <2>3, <2>8, <3>2
    <3> HIDE DEF i, I
    <3> QED
      BY <2>7, <3>2, <3>3
  <2>11. log[list[i]].block <= log[p].block
    <3>1. list[i] \in DOMAIN log /\ p \in DOMAIN log /\ list[i] <= p
      BY <2>2, <2>9, <2>10 DEF contracts, EventsOf
    <3> HIDE DEF i
    <3> QED
      BY <3>1 DEF ChainOK, LogOK
  <2>12. SpokePoolActivationBlock(c, pool) = log[list[i]].block
    <3> HIDE DEF I
    <3> QED
      BY <2>5, <2>6, <2>8
  <2> QED
    BY <2>11, <2>12
<1> QED
  BY <1>3, <1>5

(* Contracts and routes as of any searched block are those of the chain,   *)
(* although a failed update has stored some of them before: routes and     *)
(* SpokePools are found by chain and block, and the first block that a     *)
(* SpokePool was set in is not lost in what is stored twice.               *)
THEOREM RegistryIsRight == Spec => []RegistryAsOfBlock
<1>1. ChainOK /\ WindowOK /\ RegistryOK => RegistryAsOfBlock
  BY RoutesRight, SpokePoolsRight DEF RegistryAsOfBlock
<1> QED
  BY <1>1, RegistryHolds, PTL

(* More than one of a kind.                                                *)
LEMMA OnlyOne ==
  ASSUME NEW S, IsFiniteSet(S), ~(Cardinality(S) > 1), NEW x \in S, NEW y \in S
  PROVE  x = y
<1> SUFFICES ASSUME x # y PROVE FALSE
  OBVIOUS
<1>1. IsFiniteSet({x}) /\ Cardinality({x}) = 1
  BY FS_Singleton
<1>2. {x} \cup {y} \in SUBSET S
  OBVIOUS
<1>3. Cardinality({x} \cup {y}) = 2
  BY <1>1, FS_AddElement
<1>4. Cardinality({x} \cup {y}) <= Cardinality(S) /\ Cardinality(S) \in Nat
  BY <1>2, FS_Subset, FS_CardinalityType
<1> QED
  BY <1>3, <1>4

LEMMA EquivalentRight ==
  ASSUME ChainOK, WindowOK, RegistryOK
  PROVE  EquivalentMeansSameL1Token
<1> DEFINE routes == EventsOf("SetPoolRebalanceRoute")
           list == l1TokensToDestinationTokensWithBlock
           Of(l2, c, b) == {q \in UpTo(routes, b) : log[q].l2Token = l2 /\ log[q].chain = c}
<1> SUFFICES ASSUME isUpdated, NEW l2A \in L2Tokens, NEW l2B \in L2Tokens,
                    NEW cA \in Chains, NEW cB \in Chains, NEW b \in 0..latestBlockSearched
    PROVE  /\ TokensEquivalent(l2A, cA, l2B, cB, b) =>
                \E l1 \in L1Tokens : Routed(routes, l1, l2A, cA, b) /\ Routed(routes, l1, l2B, cB, b)
           /\ /\ \E l1 \in L1Tokens : Routed(routes, l1, l2A, cA, b) /\ Routed(routes, l1, l2B, cB, b)
              /\ ~(Cardinality(Takers(routes, l2A, cA, b)) > 1) /\ ~(Cardinality(Takers(routes, l2B, cB, b)) > 1)
              => TokensEquivalent(l2A, cA, l2B, cB, b)
  BY DEF EquivalentMeansSameL1Token
<1>1. {p \in ToSet(list) : log[p].block <= b} = UpTo(routes, b)
  BY HeldUpTo DEF RegistryOK
<1>2. ASSUME NEW l2, NEW c
      PROVE  L1TokenForL2TokenAtBlock(l2, c, b)
               = IF Latest(Of(l2, c, b)) = None THEN None ELSE log[Latest(Of(l2, c, b))].l1Token
  <2>1. HeldAs(list, LAMBDA e : e.l2Token = l2 /\ e.chain = c /\ e.block <= b)
          = {p \in ToSet(list) : log[p].l2Token = l2 /\ log[p].chain = c /\ log[p].block <= b}
    BY DEF HeldAs
  <2>2. HeldAs(list, LAMBDA e : e.l2Token = l2 /\ e.chain = c /\ e.block <= b) = Of(l2, c, b)
    BY <1>1, <2>1
  <2> QED
    BY <2>2 DEF L1TokenForL2TokenAtBlock
<1>3. ASSUME NEW l1 \in L1Tokens, NEW c \in Chains
      PROVE  L2TokenForL1TokenAtBlock(l1, c, b) =
               IF RouteAmong(routes, l1, c, b) = None THEN None
               ELSE log[RouteAmong(routes, l1, c, b)].l2Token
  BY <1>3, RoutesRight DEF RoutesAsOfBlock
<1>4. ASSUME NEW l2, NEW c
      PROVE  /\ Of(l2, c, b) \in SUBSET routes
             /\ Latest(Of(l2, c, b)) = None <=> Of(l2, c, b) = {}
             /\ Of(l2, c, b) # {} => Latest(Of(l2, c, b)) \in Of(l2, c, b)
  <2>1. Of(l2, c, b) \in SUBSET routes
    BY DEF UpTo
  <2> HIDE DEF Of
  <2> QED
    BY <2>1, LatestIs DEF ChainOK
<1>5. \A p \in routes : /\ log[p].l1Token \in L1Tokens /\ log[p].l1Token # None
                        /\ log[p].l2Token \in L2Tokens /\ log[p].l2Token # None
  BY RegistryRecords DEF ChainOK
<1>6. ASSUME NEW l2 \in L2Tokens, NEW c \in Chains, NEW l1 \in L1Tokens,
             L2TokenForL1TokenAtBlock(l1, c, b) = l2
      PROVE  Routed(routes, l1, l2, c, b)
  BY <1>3, <1>6, TokenAssumption DEF Routed
<1>7. ASSUME NEW l2 \in L2Tokens, NEW c \in Chains, NEW l1 \in L1Tokens, Routed(routes, l1, l2, c, b)
      PROVE  /\ L2TokenForL1TokenAtBlock(l1, c, b) = l2
             /\ \E p \in Of(l2, c, b) : log[p].l1Token = l1
  <2> DEFINE ps == {p \in UpTo(routes, b) : log[p].l1Token = l1 /\ log[p].chain = c}
  <2>1. RouteAmong(routes, l1, c, b) = Latest(ps)
    BY DEF RouteAmong
  <2>2. ps \in SUBSET routes
    BY DEF UpTo
  <2>3. Latest(ps) # None /\ log[Latest(ps)].l2Token = l2
    BY <1>7, <2>1 DEF Routed
  <2>4. Latest(ps) \in ps
    <3> HIDE DEF ps
    <3> QED
      BY <2>2, <2>3, LatestIs DEF ChainOK
  <2>5. Latest(ps) \in Of(l2, c, b) /\ log[Latest(ps)].l1Token = l1
    BY <2>3, <2>4
  <2> QED
    BY <1>3, <2>1, <2>3, <2>5
<1>8. ASSUME NEW l2 \in L2Tokens, NEW c \in Chains, NEW l1 \in L1Tokens, Routed(routes, l1, l2, c, b),
             ~(Cardinality(Takers(routes, l2, c, b)) > 1)
      PROVE  L1TokenForL2TokenAtBlock(l2, c, b) = l1
  <2>1. PICK p \in Of(l2, c, b) : log[p].l1Token = l1
    BY <1>7, <1>8
  <2> DEFINE q == Latest(Of(l2, c, b))
             T == Of(l2, c, b)
             S == {log[r].l1Token : r \in T}
             g == [r \in T |-> log[r].l1Token]
  <2>2. q \in T /\ q # None
    <3> HIDE DEF Of
    <3> QED
      BY <1>4, <2>1
  <2>3. IsFiniteSet(T)
    <3>1. T \in SUBSET routes
      BY <1>4
    <3> HIDE DEF T
    <3> QED
      BY <3>1, LogFinite DEF ChainOK
  <2>4. g \in Surjection(T, S)
    <3>1. g \in [T -> S] /\ \A s \in S : \E r \in T : g[r] = s
      OBVIOUS
    <3> HIDE DEF g, S, T
    <3> QED
      BY <3>1 DEF Surjection
  <2>5. log[q].l1Token \in S /\ l1 \in S
    BY <2>1, <2>2
  <2>6. IsFiniteSet(S)
    <3> HIDE DEF g, S, T
    <3> QED
      BY <2>3, <2>4, FS_Surjection
  <2>7. log[q].l1Token = l1
    <3>1. ~(Cardinality(S) > 1)
      BY <1>8 DEF Takers
    <3> HIDE DEF S, q
    <3> QED
      BY <2>5, <2>6, <3>1, OnlyOne
  <2> QED
    BY <1>2, <2>2, <2>7
<1> DEFINE l1A == L1TokenForL2TokenAtBlock(l2A, cA, b)
           l1B == L1TokenForL2TokenAtBlock(l2B, cB, b)
<1>9. TokensEquivalent(l2A, cA, l2B, cB, b) <=>
        /\ l1A # None /\ l1A = l1B
        /\ L2TokenForL1TokenAtBlock(l1A, cA, b) = l2A
        /\ L2TokenForL1TokenAtBlock(l1B, cB, b) = l2B
  BY DEF TokensEquivalent
<1>10. l1A # None => l1A \in L1Tokens
  <2>1. Latest(Of(l2A, cA, b)) # None => Latest(Of(l2A, cA, b)) \in routes
    <3> HIDE DEF Of
    <3> QED
      BY <1>4
  <2> HIDE DEF Of, routes
  <2> QED
    BY <1>2, <1>5, <2>1
<1>11. \A l1 \in L1Tokens : l1 # None
  BY TokenAssumption
<1>12. TokensEquivalent(l2A, cA, l2B, cB, b) =>
                \E l1 \in L1Tokens : Routed(routes, l1, l2A, cA, b) /\ Routed(routes, l1, l2B, cB, b)
  <2>1. SUFFICES ASSUME TokensEquivalent(l2A, cA, l2B, cB, b)
        PROVE  l1A \in L1Tokens /\ Routed(routes, l1A, l2A, cA, b) /\ Routed(routes, l1A, l2B, cB, b)
    OBVIOUS
  <2> HIDE DEF l1A, l1B
  <2> QED
    BY <1>6, <1>9, <1>10, <2>1
<1>13. ASSUME NEW l1 \in L1Tokens, Routed(routes, l1, l2A, cA, b), Routed(routes, l1, l2B, cB, b),
              ~(Cardinality(Takers(routes, l2A, cA, b)) > 1), ~(Cardinality(Takers(routes, l2B, cB, b)) > 1)
       PROVE  TokensEquivalent(l2A, cA, l2B, cB, b)
  <2>1. l1A = l1 /\ l1B = l1
    BY <1>8, <1>13
  <2>2. L2TokenForL1TokenAtBlock(l1, cA, b) = l2A /\ L2TokenForL1TokenAtBlock(l1, cB, b) = l2B
    BY <1>7, <1>13
  <2> HIDE DEF l1A, l1B
  <2> QED
    BY <1>9, <1>11, <2>1, <2>2
<1> QED
  BY <1>12, <1>13

(* Two tokens are called equivalent only if they are routes of one L1      *)
(* token as of that block, and always if no other L1 token has taken one   *)
(* of them over.                                                           *)
THEOREM EquivalenceIsRight == Spec => []EquivalentMeansSameL1Token
<1>1. ChainOK /\ WindowOK /\ RegistryOK => EquivalentMeansSameL1Token
  BY EquivalentRight
<1> QED
  BY <1>1, RegistryHolds, PTL


-----------------------------------------------------------------------------
(* The pending bundle.                                                     *)

(* If leaves are unclaimed as of the end of the window and a bundle is     *)
(* held, the last one held is the contract's.                              *)
LEMMA LastIsCurrent ==
  ASSUME ChainOK, WindowOK, BundlesOK, update.stage = "tokenInfo", AppendBundles,
         UnclaimedLeaves(update.to) > 0, proposedRootBundles' # <<>>
  PROVE  Last(proposedRootBundles') = CurrentProposal(update.to)
         /\ CurrentProposal(update.to) \in Proposals
<1> DEFINE u == proposedRootBundles'
           p == CurrentProposal(update.to)
           q == Last(u)
<1>1. /\ u \in Seq(Nat) /\ Increasing(u)
      /\ ToSet(u) = Found("ProposeRootBundle", FromBlock, update.to)
  BY BundlesAppended
<1>2. Len(u) \in Nat \ {0} /\ q = u[Len(u)]
  BY <1>1, EmptySeq DEF Last
<1>3. q \in ToSet(u)
  <2>1. Len(u) \in 1..Len(u)
    BY <1>2
  <2> HIDE DEF u
  <2> QED
    BY <1>1, <1>2, <2>1, Members
<1>4. q \in Proposals /\ FromBlock <= log[q].block /\ log[q].block <= update.to
  BY <1>1, <1>3 DEF Found, Proposals
<1>5. p # None
  BY DEF UnclaimedLeaves
<1>6. p \in UpTo(Proposals, update.to) /\ \A r \in UpTo(Proposals, update.to) : r <= p
  BY <1>5, CurrentIs DEF ChainOK
<1>7. p \in Proposals /\ log[p].block <= update.to /\ q <= p
  BY <1>4, <1>6 DEF UpTo
<1>8. FromBlock <= log[p].block
  <2>1. p \in DOMAIN log /\ q \in DOMAIN log
    BY <1>4, <1>7 DEF Proposals, EventsOf
  <2>2. log[q].block <= log[p].block /\ log[q].block \in Nat /\ log[p].block \in Nat
    BY <1>7, <2>1, LogFacts DEF ChainOK, LogOK
  <2> QED
    BY <1>4, <2>2, BlockAssumption
<1>9. p \in ToSet(u)
  BY <1>1, <1>7, <1>8 DEF Found, Proposals
<1> HIDE DEF u, p, q
<1>10. PICK k \in 1..Len(u) : u[k] = p
  BY <1>1, <1>9, Members
<1>11. k = Len(u)
  <2>1. p \in Nat /\ q \in Nat
    BY <1>4, <1>7, LogFacts DEF Proposals, ChainOK
  <2>2. k < Len(u) => p < q
    BY <1>1, <1>2, <1>10 DEF Increasing
  <2> QED
    BY <1>2, <1>7, <1>10, <2>1, <2>2
<1> QED
  BY <1>2, <1>7, <1>10, <1>11 DEF u, p, q

LEMMA PendingStep ==
  ASSUME ChainOK, WindowOK, BundlesOK, PendingMatches, [Next]_vars
  PROVE  PendingMatches'
<1>1. CASE UNCHANGED <<window, pendingRootBundle>>
  <2> SUFFICES ASSUME isUpdated' PROVE PendingMatches'
    BY DEF PendingMatches
  <2>1. /\ latestBlockSearched' = latestBlockSearched /\ isUpdated' = isUpdated
        /\ pendingRootBundle' = pendingRootBundle /\ isUpdated
    BY <1>1 DEF window
  <2>2. latestBlockSearched \in Int /\ latestBlockSearched <= head
    <3>1. /\ latestBlockSearched = firstBlockToSearch - 1 /\ firstBlockToSearch <= head + 1
          /\ firstBlockToSearch \in Nat /\ head \in Nat
      BY <2>1, LogFacts DEF WindowOK, ChainOK
    <3> QED
      BY <3>1
  <2> DEFINE p == CurrentProposal(latestBlockSearched)
             n == UnclaimedLeaves(latestBlockSearched)
  <2>3. p' = p /\ n' = n
    BY <2>1, <2>2, Settled
  <2>4. /\ pendingRootBundle = None <=> n = 0
        /\ pendingRootBundle # None =>
             /\ pendingRootBundle.proposalBlockNumber = log[p].block
             /\ pendingRootBundle.unclaimedPoolRebalanceLeafCount = n
             /\ Acceptable(p) => pendingRootBundle.ends = log[p].ends
    BY <2>1 DEF PendingMatches
  <2>5. n # 0 => log'[p] = log[p]
    <3>1. n # 0 => p # None
      BY DEF UnclaimedLeaves
    <3>2. n # 0 => p \in Proposals
      BY <3>1, CurrentIs DEF UpTo, ChainOK
    <3> QED
      BY <3>2, Settled DEF Proposals
  <2>6. PendingMatches' <=>
          /\ pendingRootBundle' = None <=> n' = 0
          /\ pendingRootBundle' # None =>
               /\ pendingRootBundle'.proposalBlockNumber = log'[p'].block
               /\ pendingRootBundle'.unclaimedPoolRebalanceLeafCount = n'
               /\ Acceptable(p)' => pendingRootBundle'.ends = log'[p'].ends
    BY <2>1 DEF PendingMatches
  <2>7. n # 0 => (Acceptable(p)' <=> Acceptable(p))
    <3> HIDE DEF p, n
    <3> QED
      BY <2>3, <2>5 DEF Acceptable
  <2> HIDE DEF p, n
  <2> QED
    BY <2>1, <2>3, <2>4, <2>5, <2>6, <2>7
<1>2. CASE TokenInfo
  <2> DEFINE to == update.to
             p == CurrentProposal(to)
             n == UnclaimedLeaves(to)
             last == Last(proposedRootBundles')
  <2>1. /\ update.stage = "tokenInfo" /\ AppendBundles /\ UNCHANGED chain
        /\ n > 0 => proposedRootBundles' # <<>>
        /\ latestBlockSearched' = to /\ isUpdated' = TRUE
    BY <1>2 DEF TokenInfo
  <2>2. pendingRootBundle' =
          IF n = 0 THEN None
          ELSE [proposalBlockNumber |-> log[last].block,
                unclaimedPoolRebalanceLeafCount |-> n,
                ends |-> [i \in DOMAIN log[last].ends |-> AsNumber(log[last].ends[i])]]
    BY <1>2 DEF TokenInfo, PendingRootBundle
  <2>3. n \in Nat
    BY UnclaimedIsNumber
  <2>4. log' = log
    BY <2>1 DEF chain
  <2>5. CurrentProposal(latestBlockSearched)' = p /\ UnclaimedLeaves(latestBlockSearched)' = n
    <3>1. \A b : CurrentProposal(b)' = CurrentProposal(b) /\ UnclaimedLeaves(b)' = UnclaimedLeaves(b)
      BY <2>4 DEF CurrentProposal, UnclaimedLeaves, UpTo, Proposals, EventsOf,
                  LeavesOf, ClosersOf, OutcomesOf
    <3> QED
      BY <2>1, <3>1
  <2>7. ASSUME n # 0
        PROVE  /\ pendingRootBundle' # None
               /\ pendingRootBundle'.proposalBlockNumber = log[p].block
               /\ pendingRootBundle'.unclaimedPoolRebalanceLeafCount = n
               /\ Acceptable(p) => pendingRootBundle'.ends = log[p].ends
    <3>1. last = p /\ p \in Proposals
      <4>1. n > 0
        BY <2>3, <2>7
      <4> QED
        BY <2>1, <4>1, LastIsCurrent
    <3>2. log[p].block \in Nat /\ log[p].ends \in Seq(Nat \ {0})
      BY <3>1, LogFacts DEF ChainOK, Proposals
    <3> DEFINE ends == log[p].ends
               asNumbers == [i \in DOMAIN ends |-> AsNumber(ends[i])]
    <3> HIDE DEF p, n, last, ends
    <3>3. /\ ends \in Seq(Nat \ {0}) /\ DOMAIN ends = 1..Len(ends) /\ Len(ends) \in Nat
          /\ \A i \in 1..Len(ends) : ends[i] \in Nat
      BY <3>2 DEF ends
    <3>4. asNumbers \in Seq(Nat)
      <4>1. \A i \in 1..Len(ends) : AsNumber(ends[i]) \in Nat
        BY <3>3 DEF AsNumber
      <4>2. asNumbers \in [1..Len(ends) -> Nat]
        BY <3>3, <4>1
      <4> HIDE DEF asNumbers
      <4> QED
        BY <3>3, <4>2, SeqDef
    <3>5. pendingRootBundle' = [proposalBlockNumber |-> log[p].block,
                                unclaimedPoolRebalanceLeafCount |-> n, ends |-> asNumbers]
      BY <2>2, <2>7, <3>1 DEF ends
    <3>6. Acceptable(p) => asNumbers = ends
      <4>1. SUFFICES ASSUME Acceptable(p) PROVE asNumbers = ends
        OBVIOUS
      <4>2. MaxSafeInteger \in Nat
        BY BundleAssumption
      <4>3. \A i \in 1..Len(ends) : AsNumber(ends[i]) = ends[i]
        BY <3>3, <4>1, <4>2 DEF Acceptable, AsNumber, ends
      <4>4. asNumbers = [i \in 1..Len(ends) |-> ends[i]]
        BY <3>3, <4>3
      <4> HIDE DEF asNumbers
      <4> QED
        BY <3>3, <4>4
    <3> HIDE DEF asNumbers
    <3>7. pendingRootBundle' # None
      BY <2>3, <3>2, <3>4, <3>5, BundleAssumption
    <3> QED
      BY <3>5, <3>6, <3>7 DEF ends
  <2>8. PendingMatches' <=>
          /\ pendingRootBundle' = None <=> UnclaimedLeaves(latestBlockSearched)' = 0
          /\ pendingRootBundle' # None =>
               /\ pendingRootBundle'.proposalBlockNumber
                    = log'[CurrentProposal(latestBlockSearched)'].block
               /\ pendingRootBundle'.unclaimedPoolRebalanceLeafCount
                    = UnclaimedLeaves(latestBlockSearched)'
               /\ Acceptable(CurrentProposal(latestBlockSearched))' =>
                    pendingRootBundle'.ends = log'[CurrentProposal(latestBlockSearched)'].ends
    BY <2>1 DEF PendingMatches
  <2>9. Acceptable(CurrentProposal(latestBlockSearched))' <=> Acceptable(p)
    BY <2>4, <2>5 DEF Acceptable
  <2> HIDE DEF p, n
  <2> QED
    BY <2>2, <2>4, <2>5, <2>7, <2>8, <2>9
<1> QED
  BY <1>1, <1>2
     DEF Next, vars, client, bundles, Emit, MineBlock, SetToBlock, Start, BlockNumber, Answers,
         NoBundleThrows, TokenThrows, Fail

(* Once updated, the client has a pending bundle exactly when the contract *)
(* had one at the searched block, and joins the parts of one proposal: the *)
(* last bundle held is the contract's, even if memory starts at fromBlock. *)
THEOREM PendingIsTheContracts == Spec => []PendingMatches
<1>1. Init => PendingMatches
  BY DEF Init, PendingMatches
<1>2. ChainOK /\ WindowOK /\ BundlesOK /\ PendingMatches /\ [Next]_vars => PendingMatches'
  BY PendingStep
<1> QED
  BY <1>1, <1>2, BundlesHolds, PTL DEF Spec

-----------------------------------------------------------------------------
(* The refinement of EventMirror.                                          *)

OnChain == Mirrored(Proposals)
Copied == Mirrored(ToSet(proposedRootBundles))
Horizon == firstBlockToSearch - 1

LEMMA MirrorStep ==
  ASSUME ChainOK, WindowOK, BundlesOK, [Next]_vars
  PROVE  \/ /\ OnChain \subseteq OnChain'
            /\ \A e \in OnChain' \ OnChain : e.block > head
            /\ UNCHANGED <<head, Copied, Horizon>>
         \/ head' = head + 1 /\ UNCHANGED <<OnChain, Copied, Horizon>>
         \/ \E b \in Horizon..head :
              /\ Copied' = {e \in OnChain : FromBlock <= e.block /\ e.block <= b}
              /\ Horizon' = b
              /\ UNCHANGED <<OnChain, head>>
         \/ UNCHANGED <<OnChain, head, Copied, Horizon>>
<1>1. \A p \in Proposals : p \in Proposals' /\ log'[p] = log[p]
  BY Settled DEF Proposals
<1>2. ASSUME proposedRootBundles' = proposedRootBundles
      PROVE  Copied' = Copied
  <2>1. \A p \in ToSet(proposedRootBundles) : log'[p] = log[p]
    BY <1>1 DEF BundlesOK, Found, Proposals
  <2> QED
    BY <1>2, <2>1 DEF Copied, Mirrored
<1>3. CASE Emit
  <2>1. head' = head /\ UNCHANGED <<Copied, Horizon>>
    BY <1>2, <1>3 DEF Emit, client, window, bundles, Horizon
  <2>2. PICK e \in Possible :
          /\ e.block = head + 1 /\ log'[Len(log) + 1] = e
          /\ Proposals' = IF e.name = "ProposeRootBundle" THEN Proposals \cup {Len(log) + 1} ELSE Proposals
    BY <1>3, NewEvent DEF ChainOK, Proposals
  <2>3. ASSUME NEW p \in Proposals
        PROVE  [position |-> p, block |-> log[p].block] \in OnChain'
    BY <1>1, <2>3 DEF OnChain, Mirrored
  <2>4. OnChain \subseteq OnChain'
    BY <2>3 DEF OnChain, Mirrored
  <2>5. ASSUME NEW x \in OnChain', x \notin OnChain
        PROVE  x.block > head
    <3>1. PICK p \in Proposals' : x = [position |-> p, block |-> log'[p].block]
      BY <2>5 DEF OnChain, Mirrored
    <3>2. p \notin Proposals
      BY <1>1, <2>5, <3>1 DEF OnChain, Mirrored
    <3>3. log'[p] = e
      BY <2>2, <3>2
    <3> QED
      BY <2>2, <3>1, <3>3, LogFacts DEF ChainOK
  <2> QED
    BY <2>1, <2>4, <2>5
<1>4. CASE MineBlock
  BY <1>2, <1>4 DEF MineBlock, client, window, bundles, Horizon, OnChain, Mirrored, Proposals, EventsOf
<1>5. CASE UNCHANGED chain
  <2>1. OnChain' = OnChain /\ log' = log /\ head' = head
    BY <1>5 DEF chain, OnChain, Mirrored, Proposals, EventsOf
  <2>2. CASE UNCHANGED <<proposedRootBundles, firstBlockToSearch>>
    BY <1>2, <2>1, <2>2 DEF Horizon
  <2>3. CASE TokenInfo
    <3> DEFINE b == update.to
    <3>1. firstBlockToSearch' = b + 1 /\ update.stage = "tokenInfo" /\ AppendBundles
      BY <2>3 DEF TokenInfo, NextStart
    <3>2. /\ b \in Nat /\ b <= head /\ head \in Nat
          /\ firstBlockToSearch \in Nat /\ firstBlockToSearch <= b
      BY <3>1, UpdateFields, LogFacts DEF WindowOK, ChainOK
    <3>3. b \in Horizon..head /\ Horizon' = b
      BY <3>1, <3>2 DEF Horizon
    <3>4. ToSet(proposedRootBundles') = Found("ProposeRootBundle", FromBlock, b)
      BY <3>1, BundlesAppended
    <3>5. Copied' = {e \in OnChain : FromBlock <= e.block /\ e.block <= b}
      BY <2>1, <3>4 DEF Copied, OnChain, Mirrored, Found, Proposals
    <3> QED
      BY <2>1, <3>3, <3>5
  <2>4. CASE NoBundleThrows
    <3>1. proposedRootBundles' = proposedRootBundles \o Answer("ProposeRootBundle")
          /\ proposedRootBundles' = <<>> /\ update.stage = "tokenInfo"
          /\ firstBlockToSearch' = firstBlockToSearch
      BY <2>4 DEF NoBundleThrows, AppendBundles, window
    <3>2. proposedRootBundles \in Seq(Nat) /\ Answer("ProposeRootBundle") \in Seq(Nat)
      BY <3>1, AnswerIs DEF BundlesOK
    <3>3. proposedRootBundles = <<>>
      <4> DEFINE s == proposedRootBundles
                 t == Answer("ProposeRootBundle")
      <4>1. s \o t = <<>> /\ s \in Seq(Nat) /\ t \in Seq(Nat)
        BY <3>1, <3>2
      <4> HIDE DEF s, t
      <4>2. Len(s) + Len(t) = 0 /\ Len(s) \in Nat /\ Len(t) \in Nat
        BY <4>1, Joined, EmptySeq
      <4>3. s = <<>>
        BY <4>1, <4>2, EmptySeq
      <4> QED
        BY <4>3 DEF s
    <3> QED
      BY <2>2, <3>1, <3>3
  <2> QED
    BY <2>2, <2>3, <2>4
       DEF Next, vars, client, window, bundles, Emit, MineBlock, SetToBlock, Start, BlockNumber,
           Answers, TokenThrows, Fail, chain
<1> QED
  BY <1>3, <1>4, <1>5, ChainSteps

(* The bundles in memory are those of the blocks that the client has       *)
(* searched, no more and no fewer, and what it has searched only grows,    *)
(* whatever fails between: the client implements EventMirror.              *)
THEOREM ClientMirrorsProposals == Spec => MirrorsProposals
<1>1. Init => BundleMirror!Init
  <2> SUFFICES ASSUME Init PROVE OnChain = {} /\ Copied = {} /\ Horizon < FromBlock /\ head \in Nat
    BY DEF BundleMirror!Init, OnChain, Copied, Horizon
  <2>1. log = <<>> /\ proposedRootBundles = <<>> /\ firstBlockToSearch = FromBlock /\ head = DeploymentBlock
    BY DEF Init
  <2>2. Proposals = {} /\ ToSet(proposedRootBundles) = {}
    BY <2>1 DEF Proposals, EventsOf, ToSet
  <2> QED
    BY <2>1, <2>2, BlockAssumption DEF OnChain, Copied, Mirrored, Horizon
<1>2. ChainOK /\ WindowOK /\ BundlesOK /\ [Next]_vars => [BundleMirror!Next]_(BundleMirror!vars)
  <2> SUFFICES ASSUME ChainOK, WindowOK, BundlesOK, [Next]_vars
      PROVE  [BundleMirror!Next]_(BundleMirror!vars)
    OBVIOUS
  <2> QED
    BY MirrorStep DEF BundleMirror!Next, BundleMirror!vars, BundleMirror!Emit,
       BundleMirror!MineBlock, BundleMirror!Refresh, BundleMirror!UpTo, OnChain, Copied, Horizon
<1> QED
  BY <1>1, <1>2, BundlesHolds, PTL DEF Spec, MirrorsProposals, BundleMirror!Spec


-----------------------------------------------------------------------------
(* Which bundles were executed.                                            *)

LEMMA LesserOfTwo ==
  ASSUME NEW x \in Nat, NEW y \in Nat
  PROVE  Min({x, y}) \in Nat /\ Min({x, y}) = IF x <= y THEN x ELSE y
<1> DEFINE S == {x, y}
<1>1. S \in SUBSET Nat /\ S # {} /\ x + y \in Nat /\ \A k \in S : k <= x + y
  OBVIOUS
<1>2. Min(S) \in S /\ \A k \in S : Min(S) <= k
  <2> HIDE DEF S
  <2> QED
    BY <1>1, Extremes
<1> QED
  BY <1>2

(* What is held can only be held once an update has succeeded.             *)
LEMMA HeldMeansUpdated ==
  ASSUME ChainOK, WindowOK, BundlesOK, NEW p \in ToSet(proposedRootBundles)
  PROVE  /\ isUpdated /\ latestBlockSearched = firstBlockToSearch - 1 /\ latestBlockSearched \in Nat
         /\ p \in Proposals /\ p \in Nat /\ p \in DOMAIN log
         /\ log[p].block \in Nat /\ FromBlock <= log[p].block /\ log[p].block <= latestBlockSearched
<1>1. /\ p \in Proposals /\ p \in Nat /\ p \in DOMAIN log
      /\ log[p].block \in Nat /\ FromBlock <= log[p].block /\ log[p].block <= firstBlockToSearch - 1
  BY LogFacts DEF BundlesOK, Found, Proposals, ChainOK
<1>2. isUpdated
  <2>1. SUFFICES ASSUME ~isUpdated PROVE FALSE
    OBVIOUS
  <2>2. firstBlockToSearch = FromBlock
    BY <2>1 DEF WindowOK
  <2> QED
    BY <1>1, <2>2, BlockAssumption
<1>3. latestBlockSearched = firstBlockToSearch - 1 /\ firstBlockToSearch \in Nat
  BY <1>2 DEF WindowOK
<1> QED
  BY <1>1, <1>2, <1>3, BlockAssumption

(* The next bundle in memory is the next proposal, if blocks tell          *)
(* proposals apart.                                                        *)
LEMMA FollowingIs ==
  ASSUME ChainOK, WindowOK, BundlesOK, ~ReproposeInBlock, NEW p \in ToSet(proposedRootBundles)
  PROVE  /\ FollowingRootBundle(p) = None => \A r \in ToSet(proposedRootBundles) : r <= p
         /\ FollowingRootBundle(p) # None =>
              /\ FollowingRootBundle(p) \in ToSet(proposedRootBundles)
              /\ p < FollowingRootBundle(p)
              /\ \A r \in ToSet(proposedRootBundles) : r <= p \/ FollowingRootBundle(p) <= r
<1> DEFINE u == proposedRootBundles
           I == {j \in 1..Len(u) : log[u[j]].block = log[p].block}
<1>1. u \in Seq(Nat) /\ Increasing(u)
  BY DEF BundlesOK
<1>2. PICK k \in 1..Len(u) : u[k] = p
  BY <1>1, Members
<1>3. \A j \in 1..Len(u) : u[j] \in ToSet(u) /\ u[j] \in Nat
  BY <1>1, Members
<1>4. \A j \in 1..Len(u) : log[u[j]].block = log[p].block => j = k
  <2>1. ASSUME NEW j \in 1..Len(u), log[u[j]].block = log[p].block
        PROVE  j = k
    <3>1. u[j] = p
      BY <1>3, <2>1, HeldMeansUpdated DEF ChainOK, OutcomesOK
    <3>2. ~(j < k) /\ ~(k < j)
      BY <1>1, <1>2, <1>3, <3>1 DEF Increasing
    <3> QED
      BY <1>1, <3>2
  <2> QED
    BY <2>1
<1>5. I = {k}
  BY <1>2, <1>4
<1>6. Len(u) \in Nat /\ k \in Nat
  BY <1>1
<1>7. SelectLastInSeq(u, LAMBDA q : log[q].block = log[p].block) = k
  <2>1. SelectLastInSeq(u, LAMBDA q : log[q].block = log[p].block) = IF I # {} THEN Max(I) ELSE 0
    BY DEF SelectLastInSeq
  <2>2. Max({k}) = k
    BY <1>6, MaxIs
  <2> QED
    BY <1>5, <2>1, <2>2
<1>8. FollowingRootBundle(p) = IF k \in {0, Len(u)} THEN None ELSE u[k + 1]
  BY <1>7 DEF FollowingRootBundle
<1> HIDE DEF u, I
<1>9. CASE k = Len(u)
  <2>1. \A j \in 1..Len(u) : u[j] <= p
    <3>1. \A j \in 1..Len(u) : j < k \/ j = k
      BY <1>6, <1>9
    <3> QED
      BY <1>1, <1>2, <1>3, <3>1 DEF Increasing
  <2>2. \A r \in ToSet(u) : r <= p
    BY <1>1, <2>1, Members
  <2> QED
    BY <1>8, <1>9, <2>2 DEF u
<1>10. CASE k # Len(u)
  <2>1. k + 1 \in 1..Len(u) /\ k < k + 1 /\ k \notin {0, Len(u)}
    BY <1>2, <1>6, <1>10
  <2>2. FollowingRootBundle(p) = u[k + 1]
    BY <1>8, <2>1
  <2>3. u[k + 1] \in ToSet(u) /\ p < u[k + 1] /\ u[k + 1] # None
    BY <1>1, <1>2, <1>3, <2>1, BlockAssumption DEF Increasing
  <2>4. \A j \in 1..Len(u) : u[j] <= p \/ u[k + 1] <= u[j]
    <3>1. \A j \in 1..Len(u) : j < k \/ j = k \/ j = k + 1 \/ k + 1 < j
      BY <1>6
    <3> QED
      BY <1>1, <1>2, <1>3, <2>1, <3>1 DEF Increasing
  <2>5. \A r \in ToSet(u) : r <= p \/ u[k + 1] <= r
    BY <1>1, <2>4, Members
  <2> QED
    BY <2>2, <2>3, <2>5 DEF u
<1> QED
  BY <1>9, <1>10

(* The block up to which the leaves of a bundle are counted.               *)
CountedUpTo(p, b) ==
  IF FollowingRootBundle(p) = None THEN b ELSE Min({log[FollowingRootBundle(p)].block, b})

(* The leaves that are counted are those of the bundle, each once.         *)
LEMMA LeavesCounted ==
  ASSUME ChainOK, WindowOK, BundlesOK, ~ReproposeInBlock,
         NEW p \in ToSet(proposedRootBundles), NEW b \in 0..latestBlockSearched
  PROVE  Cardinality(ExecutedLeavesForRootBundle(p, CountedUpTo(p, b)))
           = Cardinality(UpTo(LeavesOf(p), b))
<1> DEFINE e == executedRootBundles
           X == EventsOf("RootBundleExecuted")
           next == FollowingRootBundle(p)
           end == CountedUpTo(p, b)
           I == ExecutedLeavesForRootBundle(p, end)
           T == UpTo(LeavesOf(p), b)
           h == [i \in I |-> e[i]]
<1>0. LogOK
  BY DEF ChainOK
<1>1. /\ latestBlockSearched = firstBlockToSearch - 1 /\ latestBlockSearched \in Nat /\ b \in Nat
      /\ p \in Proposals /\ p \in Nat /\ log[p].block \in Nat /\ FromBlock <= log[p].block
      /\ firstBlockToSearch \in Nat /\ FromBlock \in Nat /\ p \in DOMAIN log
  BY HeldMeansUpdated, BlockAssumption DEF WindowOK
<1>2. \A r \in Proposals : r \in Nat /\ r \in DOMAIN log /\ log[r].block \in Nat
  BY LogFacts DEF ChainOK, Proposals
<1>3. \A q \in X : q \in Nat /\ q \in DOMAIN log /\ log[q].block \in Nat
  BY LogFacts DEF ChainOK
<1>4. \A q \in X : /\ log[q].bundle \in Proposals /\ log[q].bundle < q
                   /\ \A r \in Proposals : r <= log[q].bundle \/ q < r
                   /\ log[log[q].bundle].block < log[q].block
  BY DEF ChainOK, OutcomesOK, OutcomeNames
<1>5. \A q, r \in DOMAIN log : q < r => log[q].block <= log[r].block
  BY <1>0, LogFacts DEF LogOK
<1>6. next # None => next \in Proposals /\ p < next /\ log[next].block \in Nat
  BY <1>2, FollowingIs, HeldMeansUpdated
<1>7. /\ end \in Nat /\ end <= b
      /\ next # None => end <= log[next].block
      /\ next = None => end = b
      /\ next # None => end = b \/ end = log[next].block
  BY <1>1, <1>6, LesserOfTwo DEF CountedUpTo
<1>8. /\ e \in Seq(Nat) /\ ToSet(e) \subseteq X
      /\ \A q \in X : FromBlock <= log[q].block /\ log[q].block <= firstBlockToSearch - 1 => q \in ToSet(e)
      /\ \A i, j \in 1..Len(e) : e[i] = e[j] /\ i # j => Orphan(e[i])
  BY DEF BundlesOK, Found
<1>9. /\ \A i \in 1..Len(e) : e[i] \in ToSet(e)
      /\ \A q \in ToSet(e) : \E i \in 1..Len(e) : e[i] = q
      /\ DOMAIN e = 1..Len(e) /\ Len(e) \in Nat
  BY <1>8, Members
<1>10. I = {i \in 1..Len(e) : log[p].block < log[e[i]].block /\ log[e[i]].block <= end}
  BY <1>9 DEF ExecutedLeavesForRootBundle
<1>11. \A q : q \in T <=> q \in X /\ log[q].bundle = p /\ log[q].block <= b
  BY DEF UpTo, LeavesOf, OutcomesOf
<1> HIDE DEF e, X, next, end, I, T
(* A leaf of the bundle is in memory, and before the next bundle.          *)
<1>12. ASSUME NEW q \in T
       PROVE  q \in ToSet(e) /\ log[p].block < log[q].block /\ log[q].block <= end
  <2>1. q \in X /\ log[q].bundle = p /\ log[q].block <= b /\ log[q].block \in Nat
    BY <1>3, <1>11
  <2>2. log[p].block < log[q].block /\ p < q
    BY <1>4, <2>1
  <2>3. q \in ToSet(e)
    <3>1. FromBlock <= log[q].block /\ log[q].block <= firstBlockToSearch - 1
      BY <1>1, <2>1, <2>2
    <3> QED
      BY <1>8, <2>1, <3>1
  <2>4. ASSUME next # None
        PROVE  log[q].block <= log[next].block
    <3>1. next \in Proposals /\ p < next /\ next \in Nat
      BY <1>2, <1>6, <2>4
    <3>2. ~(next <= p)
      BY <1>1, <3>1
    <3>3. q < next
      BY <1>4, <2>1, <3>1, <3>2
    <3> QED
      BY <1>2, <1>3, <1>5, <2>1, <3>1, <3>3
  <2>5. log[q].block <= end
    BY <1>7, <2>1, <2>4
  <2> QED
    BY <2>2, <2>3, <2>5
(* What is counted is of no other bundle.                                  *)
<1>13. ASSUME NEW i \in I
       PROVE  e[i] \in T
  <2> DEFINE q == e[i]
             r == log[q].bundle
  <2>1. i \in 1..Len(e) /\ q \in X /\ log[p].block < log[q].block /\ log[q].block <= end
    BY <1>8, <1>9, <1>10
  <2>2. /\ q \in Nat /\ q \in DOMAIN log /\ log[q].block \in Nat
        /\ r \in Proposals /\ r < q /\ r \in Nat /\ r \in DOMAIN log /\ log[r].block \in Nat
        /\ log[r].block < log[q].block
        /\ p <= r \/ q < p
    BY <1>1, <1>2, <1>3, <1>4, <2>1
  <2> HIDE DEF q
  <2>3. ~(q < p)
    <3>1. SUFFICES ASSUME q < p PROVE FALSE
      OBVIOUS
    <3>2. log[q].block <= log[p].block
      BY <1>1, <1>5, <2>2, <3>1
    <3> QED
      BY <1>1, <2>1, <2>2, <3>2
  <2>4. ~(p < r)
    <3>1. SUFFICES ASSUME p < r PROVE FALSE
      OBVIOUS
    <3>2. log[p].block <= log[r].block
      BY <1>1, <1>5, <2>2, <3>1
    <3>3. log[r].block <= firstBlockToSearch - 1 /\ FromBlock <= log[r].block
      <4> DEFINE rb == log[r].block
                 pb == log[p].block
                 qb == log[q].block
      <4>1. /\ rb \in Nat /\ pb \in Nat /\ qb \in Nat /\ b \in Nat /\ end \in Nat
            /\ firstBlockToSearch \in Nat /\ FromBlock \in Nat
        BY <1>1, <1>7, <2>2
      <4>2. FromBlock <= pb /\ pb <= rb /\ rb < qb /\ qb <= end /\ end <= b
        BY <1>1, <1>7, <2>1, <2>2, <3>2
      <4>3. b <= firstBlockToSearch - 1
        BY <1>1
      <4> HIDE DEF rb, pb, qb
      <4>4. rb <= firstBlockToSearch - 1 /\ FromBlock <= rb
        BY <4>1, <4>2, <4>3
      <4> QED
        BY <4>4 DEF rb
    <3>4. r \in ToSet(proposedRootBundles)
      BY <2>2, <3>3 DEF BundlesOK, Found, Proposals
    <3>5. ~(r <= p)
      BY <1>1, <2>2, <3>1
    <3>6. next # None /\ next <= r
      BY <3>4, <3>5, FollowingIs DEF next
    <3>7. next \in Proposals /\ next \in DOMAIN log /\ next \in Nat /\ log[next].block \in Nat
      BY <1>2, <1>6, <3>6
    <3>8. log[next].block <= log[r].block
      BY <1>0, <2>2, <3>6, <3>7 DEF LogOK
    <3>9. end <= log[next].block
      BY <1>7, <3>6
    <3> QED
      BY <1>7, <2>1, <2>2, <3>7, <3>8, <3>9
  <2>5. r = p
    BY <1>1, <2>2, <2>3, <2>4
  <2>6. log[q].block <= b
    BY <1>1, <1>7, <2>1, <2>2
  <2> QED
    BY <1>11, <2>1, <2>5, <2>6 DEF q
(* No leaf of the bundle is stored twice.                                  *)
<1>14. ASSUME NEW i \in I, NEW j \in I, e[i] = e[j]
       PROVE  i = j
  <2>1. SUFFICES ASSUME i # j PROVE FALSE
    OBVIOUS
  <2>2. i \in 1..Len(e) /\ j \in 1..Len(e) /\ log[p].block < log[e[i]].block
    BY <1>10
  <2>3. Orphan(e[i])
    BY <1>8, <1>14, <2>1, <2>2
  <2>4. log[e[i]].block < log[p].block
    BY <1>1, <2>3 DEF Orphan
  <2>5. log[e[i]].block \in Nat
    BY <1>3, <1>8, <1>9, <2>2
  <2> QED
    BY <1>1, <2>2, <2>4, <2>5
<1>15. h \in Bijection(I, T)
  <2>1. h \in [I -> T]
    BY <1>13
  <2>2. \A i, j \in I : h[i] = h[j] => i = j
    BY <1>14
  <2>3. ASSUME NEW q \in T
        PROVE  \E i \in I : h[i] = q
    <3>1. PICK i \in 1..Len(e) : e[i] = q
      BY <1>9, <1>12
    <3>2. i \in I
      BY <1>10, <1>12, <3>1
    <3> QED
      BY <3>1, <3>2
  <2> HIDE DEF h
  <2> QED
    BY <2>1, <2>2, <2>3 DEF Bijection, Injection, Surjection, IsInjective
<1>16. IsFiniteSet(I)
  <2>1. I \in SUBSET (1..Len(e)) /\ Len(e) \in Nat
    BY <1>9, <1>10
  <2> QED
    BY <2>1, Ranks
<1> HIDE DEF h
<1>17. ExistsBijection(I, T)
  BY <1>15 DEF ExistsBijection
<1>18. Cardinality(T) = Cardinality(I)
  BY <1>16, <1>17, FS_Bijection
<1> QED
  BY <1>18 DEF I, T, end

LEMMA ValidRight ==
  ASSUME ChainOK, WindowOK, BundlesOK, ~ReproposeInBlock
  PROVE  ValidMeansExecuted
<1> SUFFICES ASSUME NEW p \in ToSet(proposedRootBundles), NEW b \in 0..latestBlockSearched
             PROVE  IsRootBundleValid(p, b) <=> p \in ExecutedInMemory(b)
  BY DEF ValidMeansExecuted
<1>1. IsRootBundleValid(p, b)
        <=> Cardinality(ExecutedLeavesForRootBundle(p, CountedUpTo(p, b))) = log[p].leaves
  BY DEF IsRootBundleValid, CountedUpTo
<1>2. p \in Proposals
  BY HeldMeansUpdated
<1>3. p \in ExecutedInMemory(b) <=> Cardinality(UpTo(LeavesOf(p), b)) = log[p].leaves
  BY <1>2 DEF ExecutedInMemory, ExecutedBundles
<1> QED
  BY <1>1, <1>3, LeavesCounted

(* A bundle in memory counts as executed by block b exactly if the chain   *)
(* had executed all its leaves by then, whatever is disputed, proposed and *)
(* executed in neighbouring blocks, unless a bundle is proposed in the     *)
(* very block in which its predecessor was disputed.                       *)
THEOREM ValidityIsExecution ==
  ASSUME ~ReproposeInBlock
  PROVE  Spec => []ValidMeansExecuted
<1>1. ChainOK /\ WindowOK /\ BundlesOK => ValidMeansExecuted
  BY ValidRight
<1> QED
  BY <1>1, BundlesHolds, PTL


(* Executed is only what was proposed before.                              *)
LEMMA ExecutedIsProposedBefore ==
  ASSUME ChainOK, NEW b \in Nat, NEW p \in ExecutedBundles(b)
  PROVE  log[p].block < b
<1> DEFINE T == UpTo(LeavesOf(p), b)
<1>1. p \in Proposals /\ Cardinality(T) = log[p].leaves
  BY DEF ExecutedBundles
<1>2. log[p].leaves \in Nat \ {0} /\ log[p].block \in Nat
  BY <1>1, LogFacts DEF ChainOK, Proposals
<1>3. T # {}
  <2> HIDE DEF T
  <2> QED
    BY <1>1, <1>2, FS_EmptySet
<1>4. PICK q \in EventsOf("RootBundleExecuted") : log[q].bundle = p /\ log[q].block <= b
  BY <1>3 DEF UpTo, LeavesOf, OutcomesOf
<1>5. log[p].block < log[q].block /\ log[q].block \in Nat
  BY <1>4, LogFacts DEF ChainOK, OutcomesOK
<1> QED
  BY <1>2, <1>4, <1>5

(* The latest executed bundle that the client finds is the contract's.     *)
LEMMA LatestExecutedIs ==
  ASSUME ChainOK, WindowOK, BundlesOK, ~ReproposeInBlock, NEW b \in 0..latestBlockSearched
  PROVE  LatestFullyExecutedRootBundle(b) = Latest(ExecutedInMemory(b))
<1> DEFINE u == proposedRootBundles
           E == ExecutedInMemory(b)
           I == {i \in 1..Len(u) : log[u[i]].block <= b /\ IsRootBundleValid(u[i], b)}
<1>1. u \in Seq(Nat) /\ Increasing(u) /\ Len(u) \in Nat
  BY DEF BundlesOK
<1>2. /\ \A i \in 1..Len(u) : u[i] \in ToSet(u) /\ u[i] \in Nat
      /\ \A p \in ToSet(u) : \E i \in 1..Len(u) : u[i] = p
  BY <1>1, Members
<1>3. E \subseteq ToSet(u) /\ E \in SUBSET Nat
  BY <1>1, Members DEF ExecutedInMemory
<1>4. ASSUME NEW i \in 1..Len(u)
      PROVE  i \in I <=> u[i] \in E
  <2>1. IsRootBundleValid(u[i], b) <=> u[i] \in E
    BY <1>2, ValidRight DEF ValidMeansExecuted
  <2>2. u[i] \in E => log[u[i]].block <= b
    <3>1. SUFFICES ASSUME u[i] \in E PROVE log[u[i]].block <= b
      OBVIOUS
    <3>2. u[i] \in ExecutedBundles(b) /\ b \in Nat
      BY <3>1, HeldMeansUpdated DEF ExecutedInMemory
    <3>3. log[u[i]].block < b /\ log[u[i]].block \in Nat
      BY <1>2, <3>2, ExecutedIsProposedBefore, HeldMeansUpdated
    <3> QED
      BY <3>2, <3>3
  <2> QED
    BY <2>1, <2>2
<1>5. LatestFullyExecutedRootBundle(b) = IF (IF I # {} THEN Max(I) ELSE 0) = 0 THEN None
                                          ELSE u[IF I # {} THEN Max(I) ELSE 0]
  BY DEF LatestFullyExecutedRootBundle, SelectLastInSeq
<1>6. I \in SUBSET Nat /\ \A i \in I : i <= Len(u) /\ i \in 1..Len(u)
  BY <1>1
<1> HIDE DEF u, E, I
<1>7. CASE I = {}
  <2>1. E = {}
    BY <1>2, <1>3, <1>4, <1>7
  <2> QED
    BY <1>5, <1>7, <2>1 DEF Latest, E
<1>8. CASE I # {}
  <2>1. Max(I) \in I /\ \A i \in I : i <= Max(I)
    BY <1>1, <1>6, <1>8, Extremes
  <2>2. u[Max(I)] \in E
    BY <1>4, <1>6, <2>1
  <2>3. ASSUME NEW p \in E
        PROVE  p <= u[Max(I)]
    <3>1. PICK i \in 1..Len(u) : u[i] = p
      BY <1>2, <1>3
    <3>2. i \in I /\ i <= Max(I) /\ Max(I) \in 1..Len(u)
      BY <1>4, <1>6, <2>1, <3>1
    <3>3. i = Max(I) \/ i < Max(I)
      BY <1>1, <3>2
    <3> QED
      BY <1>1, <1>2, <3>1, <3>2, <3>3 DEF Increasing
  <2>4. Max(E) = u[Max(I)]
    BY <1>3, <2>2, <2>3, MaxIs
  <2>5. Max(I) # 0
    BY <1>1, <1>6, <2>1
  <2> QED
    BY <1>5, <1>8, <2>2, <2>4, <2>5 DEF Latest, E
<1> QED
  BY <1>7, <1>8

(* The place of a chain in the list of chains.                             *)
Place(list, c) == SelectInSeq(list, LAMBDA d : d = c)

LEMMA PlaceOfChain ==
  ASSUME NEW list \in Seq(Nat), IsInjective(list), NEW c
  PROVE  /\ Place(list, c) \in 0..Len(list) /\ Len(list) \in Nat
         /\ Place(list, c) = 0 => \A j \in 1..Len(list) : list[j] # c
         /\ Place(list, c) # 0 =>
              Place(list, c) \in 1..Len(list) /\ list[Place(list, c)] = c
         /\ \A j \in 1..Len(list) : list[j] = c => j = Place(list, c)
<1> DEFINE I == {j \in 1..Len(list) : list[j] = c}
           i == Place(list, c)
<1>1. i = IF I # {} THEN Min(I) ELSE 0
  BY DEF SelectInSeq, Place
<1>2. Len(list) \in Nat /\ DOMAIN list = 1..Len(list)
  OBVIOUS
<1>3. I \in SUBSET Nat /\ \A j \in I : j <= Len(list)
  BY <1>2
<1>4. \A j, k \in I : j = k
  BY <1>2 DEF IsInjective
<1>5. I # {} => Min(I) \in I
  <2> HIDE DEF I
  <2> QED
    BY <1>2, <1>3, Extremes
<1>6. ASSUME I # {}
      PROVE  i \in 1..Len(list) /\ list[i] = c /\ i # 0
  BY <1>1, <1>2, <1>5, <1>6
<1>7. \A j \in 1..Len(list) : list[j] = c => j \in I
  OBVIOUS
<1>8. I = {} => i = 0
  BY <1>1
<1>9. I # {} => i \in I
  BY <1>1, <1>5
<1> HIDE DEF I, i
<1>10. \A j \in 1..Len(list) : list[j] = c => j = i
  BY <1>4, <1>7, <1>9
<1>11. i \in 0..Len(list)
  BY <1>2, <1>6, <1>8
<1>12. i = 0 => \A j \in 1..Len(list) : list[j] # c
  BY <1>6, <1>7
<1>13. i # 0 => i \in 1..Len(list) /\ list[i] = c
  BY <1>6, <1>8
<1> QED
  BY <1>2, <1>10, <1>11, <1>12, <1>13 DEF i

(* The next bundle starts right behind the last one that the contract      *)
(* executed: on every chain, as of every block that was searched.          *)
THEOREM NextStartIsRight ==
  ASSUME ~ReproposeInBlock
  PROVE  Spec => []NextStartIsContiguous
<1>1. ASSUME ChainOK, WindowOK, BundlesOK
      PROVE  NextStartIsContiguous
  <2> DEFINE end(b, c) == IF ExecutedInMemory(b) = {} THEN 0
                          ELSE BundleEndBlockForChain(Max(ExecutedInMemory(b)), c)
  <2> SUFFICES ASSUME NEW b \in 0..latestBlockSearched, NEW c \in Chains
      PROVE  NextBundleStartBlockNumber(b, c) = (IF end(b, c) = 0 THEN 0 ELSE end(b, c) + 1)
    BY DEF NextStartIsContiguous
  <2> DEFINE E == ExecutedInMemory(b)
             m == Max(E)
  <2>1. E \in SUBSET ToSet(proposedRootBundles) /\ ToSet(proposedRootBundles) \in SUBSET Proposals
        /\ Proposals \in SUBSET Nat
    BY <1>1, LogFacts DEF ExecutedInMemory, BundlesOK, Found, Proposals, ChainOK
  <2>2. LatestFullyExecutedRootBundle(b) = IF E = {} THEN None ELSE m
    BY <1>1, LatestExecutedIs DEF Latest
  <2>3. ASSUME E # {}
        PROVE  m \in Proposals /\ m # None
    <3>1. E \in SUBSET Proposals
      BY <2>1
    <3>2. Latest(E) \in E
      <4> HIDE DEF E
      <4> QED
        BY <1>1, <2>3, <3>1, LatestIs DEF ChainOK, Proposals
    <3>3. Latest(E) = m
      BY <2>3 DEF Latest
    <3> QED
      BY <2>1, <3>2, <3>3, BlockAssumption
  <2>4. ASSUME NEW p \in Proposals
        PROVE  BundleEndBlockForChain(p, c) \in Nat
    <3> DEFINE i == Place(ChainIdList, c)
    <3>1. ChainIdList \in Seq(Nat) /\ IsInjective(ChainIdList)
      BY ChainIdAssumption, SeqMonotonic
    <3>2. i \in Nat
      BY <3>1, PlaceOfChain
    <3>3. log[p].ends \in Seq(Nat \ {0})
      BY <1>1, LogFacts DEF ChainOK
    <3>4. BundleEndBlockForChain(p, c) =
            IF i = 0 \/ i > Len(log[p].ends) THEN 0 ELSE log[p].ends[i]
      BY DEF BundleEndBlockForChain, Place
    <3> HIDE DEF i
    <3> QED
      BY <3>2, <3>3, <3>4
  <2>5. end(b, c) \in Nat
    BY <2>3, <2>4
  <2>6. LatestBundleEndBlockForChain(b, c) = end(b, c)
    BY <2>2, <2>3 DEF LatestBundleEndBlockForChain
  <2> HIDE DEF end
  <2> QED
    BY <2>5, <2>6 DEF NextBundleStartBlockNumber
<1>2. ChainOK /\ WindowOK /\ BundlesOK => NextStartIsContiguous
  BY <1>1
<1> QED
  BY <1>2, BundlesHolds, PTL


-----------------------------------------------------------------------------
(* The ranges that executed bundles imply.                                 *)

(* A bundle that is executed in part goes on from all that were complete   *)
(* before it, as the data workers check that dispute others.               *)
ProgressOK ==
  \A p \in Proposals : LeavesOf(p) # {} =>
    /\ Acceptable(p)
    /\ \A q \in Proposals :
         q < p /\ Cardinality(LeavesOf(q)) = log[q].leaves => GoesOnFrom(q, p)

HeadOK == head <= LastBlock
FormsOK == \A p \in Proposals : \E form \in BundleForms : log[p].ends = form.ends

LEMMA ProgressStep ==
  ASSUME ChainOK, ProgressOK, [Next]_vars
  PROVE  ProgressOK'
<1>0. LogOK /\ LogOK' /\ OutcomesOK
  BY ChainStep DEF ChainOK
<1>1. CASE log' = log
  BY <1>1 DEF ProgressOK, Proposals, LeavesOf, OutcomesOf, EventsOf, Acceptable, GoesOnFrom
<1>2. CASE Emit
  <2>0. PICK last \in Nat : last = Len(log) + 1
    BY <1>0, LogFacts
  <2> DEFINE X == EventsOf("RootBundleExecuted")
  <2>1. PICK e \in Possible :
          /\ \A p \in DOMAIN log : log'[p] = log[p]
          /\ log'[last] = e
          /\ \A n : EventsOf(n)' = IF e.name = n THEN EventsOf(n) \cup {last} ELSE EventsOf(n)
    BY <1>0, <1>2, <2>0, NewEvent
  <2>2. /\ \A p \in Proposals : p \in DOMAIN log /\ p \in Nat /\ p < last
        /\ \A q \in X : q \in DOMAIN log /\ q \in Nat /\ q < last
    BY <1>0, <2>0, LogFacts DEF Proposals
  <2>3. /\ \A p : LeavesOf(p) = {q \in X : log[q].bundle = p}
        /\ \A p : LeavesOf(p)' = {q \in X' : log'[q].bundle = p}
    BY DEF LeavesOf, OutcomesOf
  <2>4. X' = IF e.name = "RootBundleExecuted" THEN X \cup {last} ELSE X
    BY <2>1
  <2>5. Proposals' = IF e.name = "ProposeRootBundle" THEN Proposals \cup {last} ELSE Proposals
    BY <2>1 DEF Proposals
  <2>6. \A q \in X : log[q].bundle \in Proposals
    BY <1>0 DEF OutcomesOK, OutcomeNames
  <2>7. ASSUME e.name = "RootBundleExecuted"
        PROVE  /\ CanExecute /\ Unclaimed > 0 /\ e.bundle = Current
               /\ Current \in Proposals /\ \A r \in Proposals : r <= Current
    <3>1. CanExecute /\ Unclaimed > 0 /\ e.bundle = Current
      BY <1>0, <2>7, Emittable DEF OutcomeNames
    <3> QED
      BY <1>0, <3>1, UnclaimedMeans
  <2> HIDE DEF X
  <2>8. ASSUME NEW p \in Proposals, ~(e.name = "RootBundleExecuted" /\ e.bundle = p)
        PROVE  LeavesOf(p)' = LeavesOf(p)
    <3>1. \A q \in X : log'[q] = log[q]
      BY <2>1, <2>2
    <3> QED
      BY <2>1, <2>3, <2>4, <2>8, <3>1
  <2>9. \A p \in Proposals : log'[p] = log[p]
    BY <2>1, <2>2
  <2>10. ASSUME e.name = "ProposeRootBundle" PROVE LeavesOf(last)' = {}
    <3>1. \A q \in X : log'[q].bundle # last
      BY <2>1, <2>2, <2>6
    <3> QED
      BY <2>3, <2>4, <2>10, <3>1
  <2> SUFFICES ASSUME NEW p \in Proposals', LeavesOf(p)' # {}
      PROVE  /\ Acceptable(p)'
             /\ \A q \in Proposals' :
                  q < p /\ Cardinality(LeavesOf(q)') = log'[q].leaves => GoesOnFrom(q, p)'
    BY DEF ProgressOK
  <2>11. p \in Proposals
    BY <2>5, <2>10
  <2>12. Acceptable(p)' = Acceptable(p)
    BY <2>9, <2>11 DEF Acceptable
  <2>13. \A q \in Proposals : GoesOnFrom(q, p)' = GoesOnFrom(q, p)
    BY <2>9, <2>11 DEF GoesOnFrom
  <2>14. \A q \in Proposals' : q < p => q \in Proposals
    BY <2>2, <2>5, <2>11
  <2>15. CASE e.name = "RootBundleExecuted" /\ e.bundle = p
    <3>1. p = Current /\ Acceptable(p)
          /\ \A q \in ExecutedBundles(NextBlock) : GoesOnFrom(q, p)
      BY <2>7, <2>15 DEF CanExecute
    <3>2. ASSUME NEW q \in Proposals, q < p, Cardinality(LeavesOf(q)') = log'[q].leaves
          PROVE  GoesOnFrom(q, p)
      <4>1. LeavesOf(q)' = LeavesOf(q) /\ log'[q] = log[q]
        BY <2>2, <2>8, <2>9, <2>15, <3>2
      <4>2. UpTo(LeavesOf(q), NextBlock) = LeavesOf(q)
        <5>1. LeavesOf(q) \in SUBSET EventsOf("RootBundleExecuted")
          BY DEF LeavesOf, OutcomesOf
        <5> QED
          BY <1>0, <5>1, AllIsUpToNext
      <4>3. q \in ExecutedBundles(NextBlock)
        BY <3>2, <4>1, <4>2 DEF ExecutedBundles
      <4> QED
        BY <3>1, <4>3
    <3> QED
      BY <2>12, <2>13, <2>14, <3>1, <3>2
  <2>16. CASE ~(e.name = "RootBundleExecuted" /\ e.bundle = p)
    <3>1. LeavesOf(p) # {}
      BY <2>8, <2>11, <2>16
    <3>2. ASSUME NEW q \in Proposals, q < p
          PROVE  LeavesOf(q)' = LeavesOf(q) /\ log'[q] = log[q]
      <4>1. e.name = "RootBundleExecuted" => p <= e.bundle
        BY <2>7, <2>11
      <4>2. ~(e.name = "RootBundleExecuted" /\ e.bundle = q)
        BY <2>2, <2>11, <3>2, <4>1
      <4> QED
        BY <2>8, <2>9, <4>2
    <3>3. /\ Acceptable(p)
          /\ \A q \in Proposals :
               q < p /\ Cardinality(LeavesOf(q)) = log[q].leaves => GoesOnFrom(q, p)
      BY <2>11, <3>1 DEF ProgressOK
    <3> QED
      BY <2>12, <2>13, <2>14, <3>2, <3>3
  <2> QED
    BY <2>15, <2>16
<1> QED
  BY <1>1, <1>2, ChainSteps DEF MineBlock, chain

LEMMA FormsStep ==
  ASSUME ChainOK, FormsOK, [Next]_vars
  PROVE  FormsOK'
<1>0. LogOK
  BY DEF ChainOK
<1>1. CASE log' = log
  BY <1>1 DEF FormsOK, Proposals, EventsOf
<1>2. CASE Emit
  <2>0. PICK last \in Nat : last = Len(log) + 1
    BY <1>0, LogFacts
  <2>1. PICK e \in Possible :
          /\ \A p \in DOMAIN log : log'[p] = log[p]
          /\ log'[last] = e
          /\ \A n : EventsOf(n)' = IF e.name = n THEN EventsOf(n) \cup {last} ELSE EventsOf(n)
    BY <1>0, <1>2, <2>0, NewEvent
  <2>2. \A p \in Proposals : log'[p] = log[p]
    BY <1>0, <2>1, LogFacts DEF Proposals
  <2>3. e.name = "ProposeRootBundle" => \E form \in BundleForms : e.ends = form.ends
    <3>1. SUFFICES ASSUME e.name = "ProposeRootBundle"
                   PROVE  \E form \in BundleForms : e.ends = form.ends
      OBVIOUS
    <3>2. e \in Propose
      BY <1>0, <3>1, Emittable
    <3> QED
      BY <3>2 DEF Propose
  <2>4. Proposals' = IF e.name = "ProposeRootBundle" THEN Proposals \cup {last} ELSE Proposals
    BY <2>1 DEF Proposals
  <2> QED
    BY <2>1, <2>2, <2>3, <2>4 DEF FormsOK
<1> QED
  BY <1>1, <1>2, ChainSteps DEF MineBlock, chain

LEMMA ProgressHolds == Spec => [](ChainOK /\ ProgressOK /\ FormsOK /\ HeadOK)
<1>1. Init => ProgressOK /\ FormsOK /\ HeadOK
  <2> SUFFICES ASSUME Init PROVE ProgressOK /\ FormsOK /\ HeadOK
    OBVIOUS
  <2>1. log = <<>> /\ head = DeploymentBlock /\ scenario \in Scenarios
    BY DEF Init
  <2>2. Proposals = {}
    BY <2>1 DEF Proposals, EventsOf
  <2> QED
    BY <2>1, <2>2, BlockAssumption DEF ProgressOK, FormsOK, HeadOK
<1>2. ChainOK /\ ProgressOK /\ FormsOK /\ HeadOK /\ [Next]_vars => ProgressOK' /\ FormsOK' /\ HeadOK'
  <2> SUFFICES ASSUME ChainOK, ProgressOK, FormsOK, HeadOK, [Next]_vars
               PROVE  ProgressOK' /\ FormsOK' /\ HeadOK'
    OBVIOUS
  <2>1. head \in Nat /\ LastBlock \in Nat /\ scenario.last \in 0..LastBlock
    BY LogFacts, BoundAssumption, BlockAssumption DEF ChainOK, LogOK
  <2>2. HeadOK'
    BY <2>1, ChainSteps DEF HeadOK, Emit, MineBlock, chain
  <2> QED
    BY <2>2, ProgressStep, FormsStep
<1> QED
  BY <1>1, <1>2, ChainHolds, PTL DEF Spec

(* All leaves of an executed bundle are executed.                          *)
LEMMA CompleteMeans ==
  ASSUME ChainOK, NEW b, NEW p \in ExecutedBundles(b)
  PROVE  /\ UpTo(LeavesOf(p), b) = LeavesOf(p)
         /\ Cardinality(LeavesOf(p)) = log[p].leaves
         /\ LeavesOf(p) # {}
<1> DEFINE T == UpTo(LeavesOf(p), b)
           S == LeavesOf(p)
<1>1. p \in Proposals /\ Cardinality(T) = log[p].leaves
  BY DEF ExecutedBundles
<1>2. log[p].leaves \in Nat \ {0} /\ Cardinality(S) <= log[p].leaves
  BY <1>1, LogFacts DEF ChainOK, OutcomesOK, Proposals
<1>3. T \in SUBSET S /\ S \in SUBSET EventsOf("RootBundleExecuted")
  BY DEF UpTo, LeavesOf, OutcomesOf
<1> HIDE DEF S, T
<1>4. IsFiniteSet(S) /\ Cardinality(S) \in Nat
  BY <1>3, LogFinite DEF ChainOK
<1>5. Cardinality(T) <= Cardinality(S) /\ (Cardinality(S) = Cardinality(T) => S = T)
  BY <1>3, <1>4, FS_Subset
<1>6. Cardinality(S) = log[p].leaves
  BY <1>1, <1>2, <1>4, <1>5
<1>7. S # {}
  BY <1>2, <1>6, FS_EmptySet
<1> QED
  BY <1>1, <1>5, <1>6, <1>7 DEF S, T

Executed == ExecutedInMemory(latestBlockSearched)
Before(p) == {q \in Executed : q < p}
RangesOK == ChainOK /\ WindowOK /\ BundlesOK /\ ProgressOK /\ FormsOK /\ HeadOK

LEMMA ExecutedFacts ==
  ASSUME RangesOK, NEW p \in Executed
  PROVE  /\ p \in ToSet(proposedRootBundles) /\ p \in Proposals /\ p \in Nat /\ p # None
         /\ latestBlockSearched \in Nat /\ log[p].block \in 0..latestBlockSearched
         /\ log[p].block \in Blocks
         /\ log[p].ends \in Seq(Nat \ {0})
         /\ Acceptable(p)
         /\ \A q \in Executed : q < p => GoesOnFrom(q, p)
<1>1. p \in ToSet(proposedRootBundles) /\ p \in ExecutedBundles(latestBlockSearched)
  BY DEF Executed, ExecutedInMemory
<1>2. /\ isUpdated /\ latestBlockSearched = firstBlockToSearch - 1 /\ latestBlockSearched \in Nat
      /\ p \in Proposals /\ p \in Nat
      /\ log[p].block \in Nat /\ log[p].block <= latestBlockSearched
  BY <1>1, HeldMeansUpdated DEF RangesOK
<1>3. log[p].block \in Blocks
  <2>1. firstBlockToSearch <= head + 1 /\ firstBlockToSearch \in Nat /\ head \in Nat
        /\ head <= LastBlock /\ LastBlock \in Nat
    BY <1>2, LogFacts, BlockAssumption DEF RangesOK, ChainOK, WindowOK, HeadOK
  <2> QED
    BY <1>2, <2>1 DEF Blocks
<1>4. log[p].ends \in Seq(Nat \ {0})
  BY <1>2, LogFacts DEF RangesOK, ChainOK, Proposals
<1>5. LeavesOf(p) # {}
  BY <1>1, CompleteMeans DEF RangesOK
<1>6. ASSUME NEW q \in Executed
      PROVE  q \in Proposals /\ Cardinality(LeavesOf(q)) = log[q].leaves
  <2>1. q \in ExecutedBundles(latestBlockSearched)
    BY DEF Executed, ExecutedInMemory
  <2> QED
    BY <2>1, CompleteMeans DEF RangesOK, ExecutedBundles
<1>7. Acceptable(p) /\ \A q \in Executed : q < p => GoesOnFrom(q, p)
  BY <1>2, <1>5, <1>6 DEF RangesOK, ProgressOK
<1> QED
  BY <1>1, <1>2, <1>3, <1>4, <1>7, BlockAssumption

(* The bundle that the ranges of an executed one go on from is the last    *)
(* one executed before it.                                                 *)
LEMMA PreviousIs ==
  ASSUME RangesOK, ~ReproposeInBlock, NEW p \in Executed
  PROVE  /\ PreviousBundle(p) = None <=> Before(p) = {}
         /\ Before(p) # {} => PreviousBundle(p) = Max(Before(p))
         /\ PreviousBundle(p) # None =>
              /\ PreviousBundle(p) \in Executed /\ PreviousBundle(p) < p
              /\ \A q \in Executed : q < p => q <= PreviousBundle(p)
<1> DEFINE b == log[p].block
<1>1. p \in Proposals /\ p \in Nat /\ b \in 0..latestBlockSearched /\ latestBlockSearched \in Nat
  BY ExecutedFacts
<1>2. \A q \in Executed :
        q \in Proposals /\ q \in Nat /\ q \in ToSet(proposedRootBundles) /\ log[q].block \in Nat
  BY ExecutedFacts
<1>3. LogOK /\ \A q, r \in DOMAIN log : q <= r => log[q].block <= log[r].block
  BY DEF RangesOK, ChainOK, LogOK
<1>4. ASSUME NEW q \in ExecutedInMemory(b)
      PROVE  q \in Before(p)
  <2>1. q \in ExecutedBundles(b) /\ b \in Nat /\ q \in ToSet(proposedRootBundles)
    BY <1>1 DEF ExecutedInMemory
  <2>2. log[q].block < b
    BY <2>1, ExecutedIsProposedBefore DEF RangesOK
  <2>3. q \in Proposals
    BY <2>1 DEF ExecutedBundles
  <2>4. q < p
    BY <1>1, <1>3, <2>2, <2>3, LaterBlock DEF Proposals, EventsOf
  <2>5. UpTo(LeavesOf(q), latestBlockSearched) = UpTo(LeavesOf(q), b)
    <3>1. UpTo(LeavesOf(q), b) = LeavesOf(q)
      BY <2>1, CompleteMeans DEF RangesOK
    <3>2. \A r \in LeavesOf(q) : log[r].block \in Nat
      BY <1>3, LogFacts DEF LeavesOf, OutcomesOf
    <3> QED
      BY <1>1, <3>1, <3>2 DEF UpTo
  <2>6. q \in ExecutedBundles(latestBlockSearched)
    BY <2>1, <2>5 DEF ExecutedBundles
  <2> QED
    BY <2>1, <2>4, <2>6 DEF Before, Executed, ExecutedInMemory
<1>5. ASSUME NEW q \in Before(p)
      PROVE  q \in ExecutedInMemory(b)
  <2>1. q \in Executed /\ q < p /\ q \in ExecutedBundles(latestBlockSearched)
    BY DEF Before, Executed, ExecutedInMemory
  <2>2. \A r \in LeavesOf(q) : r \in DOMAIN log /\ r < p /\ r \in Nat
    <3>1. \A r \in LeavesOf(q) : r \in EventsOf("RootBundleExecuted") /\ log[r].bundle = q
      BY DEF LeavesOf, OutcomesOf
    <3>2. \A r \in EventsOf("RootBundleExecuted") : p <= log[r].bundle \/ r < p
      BY <1>1 DEF RangesOK, ChainOK, OutcomesOK, OutcomeNames
    <3>3. \A r \in EventsOf("RootBundleExecuted") : r \in DOMAIN log /\ r \in Nat
      BY <1>3, LogFacts
    <3> QED
      BY <1>1, <1>2, <2>1, <3>1, <3>2, <3>3
  <2>3. \A r \in LeavesOf(q) : log[r].block <= b
    <3>1. p \in DOMAIN log
      BY <1>1 DEF Proposals, EventsOf
    <3> QED
      BY <1>1, <1>3, <2>2, <3>1
  <2>4. UpTo(LeavesOf(q), b) = LeavesOf(q)
    BY <2>3 DEF UpTo
  <2>5. Cardinality(LeavesOf(q)) = log[q].leaves /\ q \in Proposals
    BY <1>2, <2>1, CompleteMeans DEF RangesOK
  <2> QED
    BY <1>2, <2>1, <2>4, <2>5 DEF ExecutedInMemory, ExecutedBundles
<1>6. ExecutedInMemory(b) = Before(p)
  BY <1>4, <1>5
<1>7. PreviousBundle(p) = Latest(Before(p))
  BY <1>1, <1>6, LatestExecutedIs DEF RangesOK, PreviousBundle
<1>8. Before(p) \in SUBSET EventsOf("ProposeRootBundle")
  BY <1>2 DEF Before, Proposals
<1>9. /\ Latest(Before(p)) = None <=> Before(p) = {}
      /\ Before(p) # {} => Latest(Before(p)) \in Before(p) /\ \A q \in Before(p) : q <= Latest(Before(p))
  BY <1>3, <1>8, LatestIs
<1>10. Before(p) # {} => Latest(Before(p)) = Max(Before(p))
  BY DEF Latest
<1>11. \A q \in Before(p) : q \in Executed /\ q < p
  BY DEF Before
<1>12. \A q \in Executed : q < p => q \in Before(p)
  BY DEF Before
<1> QED
  BY <1>7, <1>9, <1>10, <1>11, <1>12

(* The range of an executed bundle whose ends are as agreed.               *)
Agreed(config) ==
  /\ config \in Configs
  /\ \A form \in BundleForms : form.ends # <<>>
  /\ \A p \in Executed : AsAgreed(p, config)

EndBefore(p, i) ==
  IF PreviousBundle(p) # None /\ i \in DOMAIN log[PreviousBundle(p)].ends
    THEN log[PreviousBundle(p)].ends[i] ELSE None

LEMMA EndsBefore ==
  ASSUME RangesOK, ~ReproposeInBlock, NEW p \in Executed, NEW i
  PROVE  /\ EndBefore(p, i) # None =>
              /\ PreviousBundle(p) \in Executed /\ PreviousBundle(p) < p
              /\ i \in DOMAIN log[PreviousBundle(p)].ends
              /\ EndBefore(p, i) = log[PreviousBundle(p)].ends[i]
              /\ EndBefore(p, i) \in Nat \ {0}
         /\ EndBefore(p, i) = None =>
              ~(PreviousBundle(p) # None /\ i \in DOMAIN log[PreviousBundle(p)].ends)
         /\ \A q \in Executed : q < p /\ i \in DOMAIN log[q].ends =>
              /\ EndBefore(p, i) # None
              /\ log[q].ends[i] <= EndBefore(p, i)
<1> DEFINE r == PreviousBundle(p)
<1>1. /\ r # None => r \in Executed /\ r < p /\ \A q \in Executed : q < p => q <= r
      /\ r = None => \A q \in Executed : ~(q < p)
  BY PreviousIs DEF Before
<1>2. \A q \in Executed :
        /\ q \in Nat /\ log[q].ends \in Seq(Nat \ {0})
        /\ \A s \in Executed : s < q => GoesOnFrom(s, q)
  BY ExecutedFacts
<1>3. \A q \in Executed : \A j \in DOMAIN log[q].ends : log[q].ends[j] \in Nat \ {0}
  BY <1>2
<1>4. None \notin Nat
  BY BlockAssumption
<1> HIDE DEF r
<1>5. r # None /\ i \in DOMAIN log[r].ends =>
        EndBefore(p, i) = log[r].ends[i] /\ EndBefore(p, i) \in Nat \ {0} /\ EndBefore(p, i) # None
  BY <1>1, <1>3, <1>4 DEF EndBefore, r
<1>6. ~(r # None /\ i \in DOMAIN log[r].ends) => EndBefore(p, i) = None
  BY DEF EndBefore, r
<1>7. ASSUME NEW q \in Executed, q < p, i \in DOMAIN log[q].ends
      PROVE  EndBefore(p, i) # None /\ log[q].ends[i] <= EndBefore(p, i)
  <2>1. r # None /\ r \in Executed /\ q <= r
    BY <1>1, <1>7
  <2>2. CASE q = r
    <3>1. log[q].ends[i] \in Nat
      BY <1>3, <1>7
    <3> QED
      BY <1>5, <1>7, <2>1, <2>2, <3>1
  <2>3. CASE q # r
    <3>1. q < r
      BY <1>2, <2>1, <2>3
    <3>2. GoesOnFrom(q, r)
      BY <1>2, <2>1, <3>1
    <3>3. log[q].ends \in Seq(Nat \ {0}) /\ log[r].ends \in Seq(Nat \ {0})
      BY <1>2, <2>1
    <3>4. /\ DOMAIN log[q].ends = 1..Len(log[q].ends) /\ DOMAIN log[r].ends = 1..Len(log[r].ends)
          /\ Len(log[q].ends) \in Nat /\ Len(log[r].ends) \in Nat
      BY <3>3
    <3>5. Len(log[q].ends) <= Len(log[r].ends) /\ i \in 1..Len(log[q].ends)
          /\ log[q].ends[i] <= log[r].ends[i]
      BY <1>7, <3>2, <3>4 DEF GoesOnFrom
    <3>6. i \in DOMAIN log[r].ends
      BY <3>4, <3>5
    <3> QED
      BY <1>5, <2>1, <3>5, <3>6
  <2> QED
    BY <2>2, <2>3
<1> QED
  BY <1>1, <1>5, <1>6, <1>7 DEF r

LEMMA RangeIs ==
  ASSUME RangesOK, ~ReproposeInBlock, NEW config, Agreed(config), NEW p \in Executed,
         NEW i \in DOMAIN log[p].ends
  PROVE  /\ IsEnabled(i, p, config) =>
              /\ i \in DOMAIN config.chainIds[log[p].block]
              /\ ImpliedRange(i, p, config) = <<FromBlockOf(i, p), log[p].ends[i]>>
              /\ FromBlockOf(i, p) \in Nat /\ FromBlockOf(i, p) < log[p].ends[i]
              /\ FromBlockOf(i, p) =
                   IF EndBefore(p, i) = None THEN 0 ELSE EndBefore(p, i) + 1
         /\ ~IsEnabled(i, p, config) =>
              /\ ImpliedRange(i, p, config) = <<log[p].ends[i], log[p].ends[i]>>
              /\ EndBefore(p, i) # None /\ log[p].ends[i] = EndBefore(p, i)
<1> DEFINE r == PreviousBundle(p)
           before == {q \in ExecutedInMemory(latestBlockSearched) : q < p}
           ends == IF before = {} THEN <<>> ELSE log[Max(before)].ends
           chainIds == config.chainIds[log[p].block]
           start == IF ends = <<>> THEN 0 ELSE ends[1]
           enabled == i \in DOMAIN chainIds /\ chainIds[i] \in config.enabled[start]
<1>1. before = Before(p)
  BY DEF Before, Executed
<1>2. /\ r = None <=> before = {}
      /\ before # {} => r = Max(before)
      /\ r # None => r \in Executed
  BY <1>1, PreviousIs
<1>3. r # None => log[r].ends # <<>>
  <2>1. r # None => r \in Proposals
    BY <1>2, ExecutedFacts
  <2> QED
    BY <2>1 DEF RangesOK, FormsOK, Agreed
<1>4. AsAgreed(p, config)
  BY DEF Agreed
<1>5. IF enabled THEN i \in DOMAIN ends => log[p].ends[i] > ends[i] + 1
                 ELSE i \in DOMAIN ends /\ log[p].ends[i] = ends[i]
  BY <1>4 DEF AsAgreed
<1>6. ends = IF r = None THEN <<>> ELSE log[r].ends
  BY <1>2
<1>7. start = MainnetStartBlock(p)
  BY <1>3, <1>6 DEF MainnetStartBlock
<1>8. IsEnabled(i, p, config) <=> enabled
  BY <1>7 DEF IsEnabled, IsEnabledAt
<1>9. enabled => i \in DOMAIN chainIds
  OBVIOUS
<1>10. IF i \in DOMAIN ends THEN r # None /\ i \in DOMAIN log[r].ends /\ ends[i] = log[r].ends[i]
                           ELSE ~(r # None /\ i \in DOMAIN log[r].ends)
  <2>1. DOMAIN <<>> = {}
    OBVIOUS
  <2> HIDE DEF before, r
  <2> QED
    BY <1>6, <2>1
<1>11. log[p].ends[i] \in Nat \ {0}
  <2>1. log[p].ends \in Seq(Nat \ {0})
    BY ExecutedFacts
  <2> QED
    BY <2>1
<1> HIDE DEF before, ends, start, enabled
<1>12. IF i \in DOMAIN ends THEN EndBefore(p, i) = ends[i] /\ EndBefore(p, i) \in Nat \ {0} /\ EndBefore(p, i) # None
                            ELSE EndBefore(p, i) = None
  <2>1. IF i \in DOMAIN ends THEN EndBefore(p, i) = ends[i] ELSE EndBefore(p, i) = None
    BY <1>10 DEF EndBefore
  <2>2. i \in DOMAIN ends => ends[i] \in Nat \ {0}
    <3>1. r \in Executed => log[r].ends \in Seq(Nat \ {0})
      BY ExecutedFacts
    <3>2. r \in Executed /\ i \in DOMAIN log[r].ends => log[r].ends[i] \in Nat \ {0}
      BY <3>1
    <3> HIDE DEF r
    <3> QED
      BY <1>2, <1>10, <3>2
  <2> QED
    BY <2>1, <2>2, BlockAssumption
<1>13. FromBlockOf(i, p) = IF EndBefore(p, i) = None THEN 0 ELSE EndBefore(p, i) + 1
  BY <1>10, <1>12 DEF FromBlockOf
<1>14. ASSUME enabled
       PROVE  FromBlockOf(i, p) \in Nat /\ FromBlockOf(i, p) < log[p].ends[i]
  BY <1>5, <1>11, <1>12, <1>13, <1>14
<1>15. ~enabled => EndBefore(p, i) # None /\ log[p].ends[i] = EndBefore(p, i)
  BY <1>5, <1>12
<1>16. enabled => i \in DOMAIN config.chainIds[log[p].block]
  BY <1>9
<1>17. ImpliedRange(i, p, config) = IF enabled THEN <<FromBlockOf(i, p), log[p].ends[i]>>
                                    ELSE <<log[p].ends[i], log[p].ends[i]>>
  BY <1>8 DEF ImpliedRange
<1> QED
  BY <1>8, <1>13, <1>14, <1>15, <1>16, <1>17

LEMMA NoRangeRefused ==
  ASSUME RangesOK, ~ReproposeInBlock, NEW config, Agreed(config), NEW p \in Executed
  PROVE  /\ ImpliedBundleBlockRanges(p, config) # None
         /\ ImpliedBundleBlockRanges(p, config)
              = [i \in DOMAIN log[p].ends |-> ImpliedRange(i, p, config)]
<1> DEFINE ranges == [i \in DOMAIN log[p].ends |-> ImpliedRange(i, p, config)]
<1>1. log[p].ends \in Seq(Nat \ {0}) /\ Acceptable(p)
  BY ExecutedFacts
<1>2. \A i \in DOMAIN log[p].ends : log[p].ends[i] \in Nat
  BY <1>1
<1>3. \A i \in DOMAIN log[p].ends :
        /\ ImpliedRange(i, p, config) \in Nat \X Nat
        /\ IsEnabled(i, p, config) =>
             ImpliedRange(i, p, config)[1] < ImpliedRange(i, p, config)[2]
  BY <1>2, RangeIs
<1>4. ranges \in Seq(Nat \X Nat)
  <2>1. DOMAIN log[p].ends = 1..Len(log[p].ends) /\ Len(log[p].ends) \in Nat
    BY <1>1
  <2>2. ranges \in [1..Len(log[p].ends) -> Nat \X Nat]
    BY <1>3, <2>1
  <2> HIDE DEF ranges
  <2> QED
    BY <2>1, <2>2
<1>5. ranges # None
  BY <1>4, ConfigAssumption
<1>6. \A i \in DOMAIN ranges : IsEnabled(i, p, config) => ranges[i][1] < ranges[i][2]
  BY <1>3
<1> QED
  BY <1>1, <1>5, <1>6 DEF ImpliedBundleBlockRanges

LEMMA EntryIs ==
  ASSUME NEW list \in Seq(Nat), IsInjective(list), NEW c, NEW i \in 1..Len(list), list[i] = c,
         NEW entries
  PROVE  EntryForChain(entries, c, list) = IF i \in DOMAIN entries THEN entries[i] ELSE None
<1>1. Place(list, c) = i
  BY PlaceOfChain
<1> QED
  BY <1>1 DEF EntryForChain, Place

(* A chain has one place, in the list of every configuration that has it.  *)
LEMMA PlaceIn ==
  ASSUME NEW config \in Configs, NEW b \in Blocks, NEW i \in 1..Len(ChainIdList),
         i \in DOMAIN config.chainIds[b]
  PROVE  /\ config.chainIds[b] \in Seq(Nat) /\ IsInjective(config.chainIds[b])
         /\ i \in 1..Len(config.chainIds[b]) /\ config.chainIds[b][i] = ChainIdList[i]
<1> DEFINE list == config.chainIds[b]
<1>1. ChainIdList \in Seq(Nat) /\ IsInjective(ChainIdList) /\ Len(ChainIdList) \in Nat
  BY ChainIdAssumption, SeqMonotonic
<1>2. list \in Seq(Chains) /\ IsPrefix(list, ChainIdList)
  BY ConfigAssumption
<1>3. Chains \subseteq Nat
  BY <1>1, Members DEF Chains
<1>4. list \in Seq(Nat) /\ Len(list) \in Nat /\ DOMAIN list = 1..Len(list)
  <2>1. list \in Seq(Nat)
    <3> HIDE DEF list
    <3> QED
      BY <1>2, <1>3, SeqMonotonic
  <2> QED
    BY <2>1
<1>5. Len(list) <= Len(ChainIdList) /\ SubSeq(list, 1, Len(list)) = SubSeq(ChainIdList, 1, Len(list))
  BY <1>2 DEF IsPrefix
<1> HIDE DEF list
<1>6. \A j \in 1..Len(list) : list[j] = ChainIdList[j]
  <2>1. \A j \in 1..Len(list) : list[j] \in Nat /\ ChainIdList[j] \in Nat
    BY <1>1, <1>4, <1>5
  <2>2. \A j \in 1..(Len(list) - 1 + 1) : SubSeq(list, 1, Len(list))[j] = list[1 + j - 1]
    BY <1>4, <2>1, SubSeqProperties
  <2>3. \A j \in 1..(Len(list) - 1 + 1) : SubSeq(ChainIdList, 1, Len(list))[j] = ChainIdList[1 + j - 1]
    BY <1>4, <2>1, SubSeqProperties
  <2> QED
    BY <1>4, <1>5, <2>2, <2>3
<1>7. IsInjective(list)
  <2>1. \A j \in 1..Len(list) : j \in DOMAIN ChainIdList
    BY <1>1, <1>4, <1>5
  <2> QED
    BY <1>1, <1>4, <1>6, <2>1 DEF IsInjective
<1> QED
  BY <1>4, <1>6, <1>7 DEF list

LEMMA HavingIs ==
  ASSUME RangesOK, NEW i \in 1..Len(ChainIdList)
  PROVE  /\ \A p : p \in Having(ChainIdList[i]) <=> p \in Executed /\ i \in DOMAIN log[p].ends
         /\ \A p \in Having(ChainIdList[i]) :
              /\ BlockForChain(log[p].ends, ChainIdList[i], ChainIdList) = log[p].ends[i]
              /\ log[p].ends[i] \in Nat
<1> DEFINE c == ChainIdList[i]
<1>1. ChainIdList \in Seq(Nat) /\ IsInjective(ChainIdList)
  BY ChainIdAssumption, SeqMonotonic
<1>2. \A entries : BlockForChain(entries, c, ChainIdList)
                     = IF i \in DOMAIN entries THEN entries[i] ELSE None
  BY <1>1, EntryIs DEF BlockForChain
<1>3. \A p \in Executed : i \in DOMAIN log[p].ends => log[p].ends[i] \in Nat /\ log[p].ends[i] # None
  <2>1. \A p \in Executed : log[p].ends \in Seq(Nat \ {0})
    BY ExecutedFacts
  <2> QED
    BY <2>1, BlockAssumption
<1> HIDE DEF c
<1>4. \A p : p \in Having(c) <=> p \in Executed /\ i \in DOMAIN log[p].ends
  BY <1>2, <1>3 DEF Having, Executed
<1> QED
  BY <1>2, <1>3, <1>4 DEF c

(* A chain is listed from the first executed bundle on that has it.        *)
LEMMA ListedWhereHad ==
  ASSUME RangesOK, ~ReproposeInBlock, NEW config, Agreed(config),
         NEW i \in 1..Len(ChainIdList), NEW p \in Having(ChainIdList[i])
  PROVE  i \in DOMAIN config.chainIds[log[p].block]
<1> DEFINE H == Having(ChainIdList[i])
           len(b) == Len(config.chainIds[b])
<1>1. \A q : q \in H <=> q \in Executed /\ i \in DOMAIN log[q].ends
  BY HavingIs
<1>2. \A q \in H : q \in Nat /\ log[q].block \in Blocks /\ q \in Proposals
  BY <1>1, ExecutedFacts
<1>3. PICK m \in H : \A q \in H : m <= q
  BY <1>2, LeastNumber
<1>4. EndBefore(m, i) = None
  <2>1. SUFFICES ASSUME EndBefore(m, i) # None PROVE FALSE
    OBVIOUS
  <2>2. /\ PreviousBundle(m) \in Executed /\ PreviousBundle(m) < m
        /\ i \in DOMAIN log[PreviousBundle(m)].ends
    BY <1>1, <1>3, <2>1, EndsBefore
  <2>3. PreviousBundle(m) \in H /\ PreviousBundle(m) \in Nat /\ m \in Nat
    BY <1>1, <1>2, <2>2
  <2> QED
    BY <1>3, <2>2, <2>3
<1>5. i \in DOMAIN config.chainIds[log[m].block]
  BY <1>1, <1>3, <1>4, RangeIs
<1>6. log[m].block <= log[p].block
  BY <1>2, <1>3 DEF RangesOK, ChainOK, LogOK, Proposals, EventsOf
<1>7. config \in Configs
  BY DEF Agreed
<1>8. \A b \in Blocks : len(b) \in Nat /\ DOMAIN config.chainIds[b] = 1..len(b)
  <2>1. \A b \in Blocks : config.chainIds[b] \in Seq(Chains)
    BY <1>7, ConfigAssumption
  <2> QED
    BY <2>1
<1>9. len(log[m].block) <= len(log[p].block)
  BY <1>2, <1>3, <1>6, <1>7, ConfigAssumption
<1> HIDE DEF len
<1> QED
  BY <1>2, <1>3, <1>5, <1>8, <1>9

LEMMA RangeOfIs ==
  ASSUME RangesOK, ~ReproposeInBlock, NEW config, Agreed(config),
         NEW i \in 1..Len(ChainIdList), NEW p \in Having(ChainIdList[i])
  PROVE  RangeOf(p, ChainIdList[i], config) = ImpliedRange(i, p, config)
<1> DEFINE list == config.chainIds[log[p].block]
           ranges == ImpliedBundleBlockRanges(p, config)
<1>1. p \in Executed /\ i \in DOMAIN log[p].ends
  BY HavingIs
<1>2. i \in DOMAIN list
  BY ListedWhereHad
<1>3. /\ list \in Seq(Nat) /\ IsInjective(list)
      /\ i \in 1..Len(list) /\ list[i] = ChainIdList[i]
  BY <1>1, <1>2, ExecutedFacts, PlaceIn DEF Agreed
<1>4. ranges = [j \in DOMAIN log[p].ends |-> ImpliedRange(j, p, config)]
  BY <1>1, NoRangeRefused
<1>5. i \in DOMAIN ranges /\ ranges[i] = ImpliedRange(i, p, config)
  BY <1>1, <1>4
<1> HIDE DEF list, ranges
<1>6. EntryForChain(ranges, ChainIdList[i], list) = ranges[i]
  BY <1>3, <1>5, EntryIs
<1> QED
  BY <1>5, <1>6 DEF RangeOf, BlockRangeForChain, list, ranges

(* Each block up to an end belongs to the range of one bundle.             *)
LEMMA RangesTile ==
  ASSUME RangesOK, ~ReproposeInBlock, NEW config, Agreed(config),
         NEW i \in 1..Len(ChainIdList), NEW p \in Having(ChainIdList[i]),
         NEW n \in 0..log[p].ends[i]
  PROVE  Cardinality(Covering(ChainIdList[i], n, config)) = 1
<1> DEFINE c == ChainIdList[i]
           H == Having(c)
           end(q) == log[q].ends[i]
           S == {q \in H : n <= end(q)}
<1>1. \A q : q \in H <=> q \in Executed /\ i \in DOMAIN log[q].ends
  BY HavingIs
<1>2. \A q \in H : end(q) \in Nat /\ q \in Nat
  BY <1>1, HavingIs, ExecutedFacts
<1>3. \A q : q \in Covering(c, n, config)
               <=> q \in H /\ InRange(ImpliedRange(i, q, config), n)
  BY RangeOfIs DEF Covering
<1>4. ASSUME NEW q \in H
      PROVE  InRange(ImpliedRange(i, q, config), n)
               <=> /\ IsEnabled(i, q, config)
                   /\ FromBlockOf(i, q) <= n /\ n <= end(q)
  <2>1. IsEnabled(i, q, config) =>
          /\ ImpliedRange(i, q, config) = <<FromBlockOf(i, q), end(q)>>
          /\ FromBlockOf(i, q) \in Nat /\ FromBlockOf(i, q) < end(q)
    BY <1>1, RangeIs
  <2>2. ~IsEnabled(i, q, config) => ImpliedRange(i, q, config) = <<end(q), end(q)>>
    BY <1>1, RangeIs
  <2>3. end(q) \in Nat
    BY <1>2
  <2> HIDE DEF end, H, S, c
  <2>4. CASE IsEnabled(i, q, config)
    BY <2>1, <2>4 DEF InRange
  <2>5. CASE ~IsEnabled(i, q, config)
    BY <2>2, <2>3, <2>5 DEF InRange
  <2> QED
    BY <2>4, <2>5
<1>5. ASSUME NEW q \in H
      PROVE  /\ IsEnabled(i, q, config) =>
                  FromBlockOf(i, q) = IF EndBefore(q, i) = None THEN 0 ELSE EndBefore(q, i) + 1
             /\ ~IsEnabled(i, q, config) => EndBefore(q, i) # None /\ end(q) = EndBefore(q, i)
  BY <1>1, RangeIs
<1>6. ASSUME NEW q \in H
      PROVE  /\ EndBefore(q, i) # None =>
                  /\ PreviousBundle(q) \in H /\ PreviousBundle(q) < q
                  /\ EndBefore(q, i) = end(PreviousBundle(q))
                  /\ EndBefore(q, i) \in Nat
             /\ \A r \in H : r < q => EndBefore(q, i) # None /\ end(r) <= EndBefore(q, i)
  BY <1>1, EndsBefore
<1>7. n \in Nat /\ n <= end(p)
  BY <1>2
<1> HIDE DEF c, H, end
<1>8. S \in SUBSET Nat /\ S # {}
  BY <1>2, <1>7 DEF H, c
<1>9. PICK m \in S : \A q \in S : m <= q
  BY <1>8, LeastNumber
<1>10. m \in H /\ n <= end(m) /\ m \in Nat /\ end(m) \in Nat
  BY <1>2, <1>9
<1>11. ASSUME EndBefore(m, i) # None
       PROVE  EndBefore(m, i) < n /\ EndBefore(m, i) \in Nat
  <2>1. /\ PreviousBundle(m) \in H /\ PreviousBundle(m) < m
        /\ EndBefore(m, i) = end(PreviousBundle(m)) /\ EndBefore(m, i) \in Nat
    BY <1>6, <1>10, <1>11
  <2>2. PreviousBundle(m) \in Nat
    BY <1>2, <2>1
  <2>3. PreviousBundle(m) \notin S
    BY <1>9, <1>10, <2>1, <2>2
  <2> QED
    BY <1>7, <2>1, <2>3
<1>12. m \in Covering(c, n, config)
  <2>1. IsEnabled(i, m, config)
    BY <1>5, <1>7, <1>10, <1>11
  <2>2. FromBlockOf(i, m) <= n
    BY <1>5, <1>7, <1>10, <1>11, <2>1
  <2> QED
    BY <1>3, <1>4, <1>10, <2>1, <2>2
<1>13. ASSUME NEW q \in Covering(c, n, config), NEW r \in Covering(c, n, config), r < q
       PROVE  FALSE
  <2>1. q \in H /\ r \in H /\ IsEnabled(i, q, config) /\ FromBlockOf(i, q) <= n /\ n <= end(r)
    BY <1>3, <1>4
  <2>2. EndBefore(q, i) # None /\ end(r) <= EndBefore(q, i) /\ EndBefore(q, i) \in Nat
    BY <1>6, <1>13, <2>1
  <2>3. FromBlockOf(i, q) = EndBefore(q, i) + 1
    BY <1>5, <2>1, <2>2
  <2>4. end(r) \in Nat
    BY <1>2, <2>1
  <2> QED
    BY <1>7, <2>1, <2>2, <2>3, <2>4
<1>14. Covering(c, n, config) = {m}
  <2>1. ASSUME NEW q \in Covering(c, n, config)
        PROVE  q = m
    <3>1. q \in Nat
      BY <1>2, <1>3
    <3>2. q < m \/ m < q \/ q = m
      BY <1>10, <3>1
    <3> QED
      BY <1>12, <1>13, <3>2
  <2> QED
    BY <1>12, <2>1
<1> QED
  BY <1>14, FS_Singleton DEF c

(* The block ranges of executed bundles tile every chain.                  *)
THEOREM ExecutedRangesTile ==
  ASSUME ~ReproposeInBlock, \A form \in BundleForms : form.ends # <<>>
  PROVE  Spec => []ImpliedRangesTile
<1>1. ASSUME RangesOK
      PROVE  ImpliedRangesTile
  <2> SUFFICES ASSUME NEW config \in Configs,
                      \A p \in ExecutedInMemory(latestBlockSearched) : AsAgreed(p, config)
      PROVE  /\ \A p \in ExecutedInMemory(latestBlockSearched) :
                  ImpliedBundleBlockRanges(p, config) # None
             /\ \A c \in Chains : \A p \in Having(c) :
                  \A n \in 0..BlockForChain(log[p].ends, c, ChainIdList) :
                    Cardinality(Covering(c, n, config)) = 1
    BY DEF ImpliedRangesTile
  <2>1. Agreed(config)
    BY DEF Agreed, Executed
  <2>2. \A p \in ExecutedInMemory(latestBlockSearched) : ImpliedBundleBlockRanges(p, config) # None
    BY <1>1, <2>1, NoRangeRefused DEF Executed
  <2>3. ASSUME NEW c \in Chains, NEW p \in Having(c),
               NEW n \in 0..BlockForChain(log[p].ends, c, ChainIdList)
        PROVE  Cardinality(Covering(c, n, config)) = 1
    <3>1. ChainIdList \in Seq(Nat)
      BY ChainIdAssumption, SeqMonotonic
    <3>2. PICK i \in 1..Len(ChainIdList) : ChainIdList[i] = c
      BY <3>1, Members DEF Chains
    <3>3. BlockForChain(log[p].ends, c, ChainIdList) = log[p].ends[i]
      BY <1>1, <3>2, HavingIs
    <3> QED
      BY <1>1, <2>1, <3>2, <3>3, RangesTile
  <2> QED
    BY <2>2, <2>3
<1>2. ChainOK /\ WindowOK /\ BundlesOK /\ ProgressOK /\ FormsOK /\ HeadOK => ImpliedRangesTile
  BY <1>1 DEF RangesOK
<1> QED
  BY <1>2, BundlesHolds, ProgressHolds, PTL


-----------------------------------------------------------------------------
(* The searches over executed bundles.                                     *)

(* Induction up to n, for a set of numbers.                                *)
LEMMA CountUp ==
  ASSUME NEW n \in Nat, NEW T, 0 \in T, \A i \in 1..n : i - 1 \in T => i \in T
  PROVE  \A i \in 0..n : i \in T
<1> DEFINE U == {i \in 0..n : i \notin T}
<1>1. SUFFICES ASSUME U # {} PROVE FALSE
  OBVIOUS
<1>2. PICK m \in U : \A k \in U : m <= k
  <2>1. U \in SUBSET Nat
    OBVIOUS
  <2> HIDE DEF U
  <2> QED
    BY <1>1, <2>1, LeastNumber
<1>3. m # 0 /\ m - 1 \in 0..n /\ m - 1 \notin U
  BY <1>2
<1> QED
  BY <1>2, <1>3

(* There is a function that a recursion over 0..n defines.                 *)
Recurses(F, n, base, step) == F[0] = base /\ \A i \in 1..n : F[i] = step[i][F[i - 1]]

LEMMA Iterates ==
  ASSUME NEW n \in Nat, NEW S, NEW base \in S, NEW step \in [1..n -> [S -> S]]
  PROVE  \E F \in [0..n -> S] : Recurses(F, n, base, step)
<1> USE DEF Recurses
<1> DEFINE T == {k \in 0..n : \E F \in [0..k -> S] : Recurses(F, k, base, step)}
<1>1. 0 \in T
  <2> DEFINE G == [j \in 0..0 |-> base]
  <2>1. G \in [0..0 -> S] /\ Recurses(G, 0, base, step) /\ 0 \in 0..n
    OBVIOUS
  <2> HIDE DEF G
  <2> QED
    BY <2>1
<1>2. ASSUME NEW k \in 1..n, k - 1 \in T PROVE k \in T
  <2>1. PICK F \in [0..(k - 1) -> S] : Recurses(F, k - 1, base, step)
    BY <1>2
  <2> DEFINE G == [j \in 0..k |-> IF j = k THEN step[k][F[k - 1]] ELSE F[j]]
  <2>2. F[k - 1] \in S /\ step[k] \in [S -> S]
    OBVIOUS
  <2>3. G \in [0..k -> S]
    BY <2>2
  <2>4. \A i \in 0..(k - 1) : G[i] = F[i]
    OBVIOUS
  <2>5. G[k] = step[k][G[k - 1]]
    BY <2>4
  <2> HIDE DEF G
  <2>6. ASSUME NEW i \in 1..k PROVE G[i] = step[i][G[i - 1]]
    <3>1. CASE i = k
      BY <2>5, <3>1
    <3>2. CASE i # k
      <4>1. i \in 1..(k - 1) /\ i - 1 \in 0..(k - 1) /\ i \in 0..(k - 1)
        BY <3>2
      <4> QED
        BY <2>1, <2>4, <4>1
    <3> QED
      BY <3>1, <3>2
  <2>7. G[0] = base
    BY <2>1, <2>4
  <2> QED
    BY <2>3, <2>6, <2>7
<1> HIDE DEF T
<1>3. \A i \in 0..n : i \in T
  BY <1>1, <1>2, CountUp
<1>4. n \in T
  BY <1>3
<1> QED
  BY <1>4 DEF T

LEMMA MinIs ==
  ASSUME NEW T \in SUBSET Nat, NEW m \in T, \A k \in T : m <= k
  PROVE  Min(T) = m
<1>1. \A k \in T : k \in Nat /\ (k <= m /\ m <= k => k = m)
  OBVIOUS
<1> QED
  BY <1>1 DEF Min

(* A bundle counts as executed by the block of the next one exactly if it  *)
(* does by the last searched block.                                        *)
LEMMA ValidThenMeans ==
  ASSUME RangesOK, ~ReproposeInBlock, NEW p \in ToSet(proposedRootBundles)
  PROVE  ValidThen(p, latestBlockSearched) <=> p \in Executed
<1> DEFINE next == FollowingRootBundle(p)
           b == latestBlockSearched
<1>1. b \in Nat /\ b \in 0..b
  BY HeldMeansUpdated DEF RangesOK
<1>2. IsRootBundleValid(p, b) <=> p \in Executed
  BY <1>1, ValidRight DEF RangesOK, ValidMeansExecuted, Executed
<1>3. CASE next = None
  BY <1>2, <1>3 DEF ValidThen
<1>4. CASE next # None
  <2> DEFINE nb == log[next].block
  <2>1. next \in ToSet(proposedRootBundles)
    BY <1>4, FollowingIs DEF RangesOK
  <2>2. nb \in Nat /\ nb <= b
    BY <2>1, HeldMeansUpdated DEF RangesOK
  <2>3. Min({nb, nb}) = Min({nb, b})
    <3> HIDE DEF nb, b
    <3> QED
      BY <1>1, <2>2, LesserOfTwo
  <2>4. IsRootBundleValid(p, nb) <=> IsRootBundleValid(p, b)
    BY <1>4, <2>3 DEF IsRootBundleValid
  <2> QED
    BY <1>2, <1>4, <2>4 DEF ValidThen
<1> QED
  BY <1>3, <1>4

(* The end blocks of executed bundles do not go back.                      *)
LEMMA EndsOfExecuted ==
  ASSUME RangesOK, NEW c, NEW p \in Executed
  PROVE  /\ BundleEndBlockForChain(p, c) \in Nat
         /\ \A q \in Executed :
              q < p => BundleEndBlockForChain(q, c) <= BundleEndBlockForChain(p, c)
<1> DEFINE i == Place(ChainIdList, c)
           End(q) == IF i = 0 \/ i > Len(log[q].ends) THEN 0 ELSE log[q].ends[i]
<1>1. ChainIdList \in Seq(Nat) /\ IsInjective(ChainIdList)
  BY ChainIdAssumption, SeqMonotonic
<1>2. i \in Nat
  BY <1>1, PlaceOfChain
<1>3. \A q : BundleEndBlockForChain(q, c) = End(q)
  BY DEF BundleEndBlockForChain, Place
<1> HIDE DEF i
<1>4. ASSUME NEW q \in Executed PROVE log[q].ends \in Seq(Nat) /\ End(q) \in Nat
  <2>1. log[q].ends \in Seq(Nat)
    BY ExecutedFacts, SeqMonotonic
  <2> QED
    BY <1>2, <2>1
<1>5. ASSUME NEW q \in Executed, q < p PROVE End(q) <= End(p)
  <2>1. GoesOnFrom(q, p)
    BY <1>5, ExecutedFacts
  <2>2. Len(log[q].ends) \in Nat /\ Len(log[p].ends) \in Nat
    BY <1>4
  <2>3. End(p) \in Nat
    BY <1>4
  <2> QED
    BY <1>2, <2>1, <2>2, <2>3 DEF GoesOnFrom
<1> QED
  BY <1>3, <1>4, <1>5

(* What the search for a block keeps, bundle by bundle from the newest.    *)
FoundRecords == [stop : BOOLEAN, end : Nat \cup {None}]
SearchedBundle(k) == proposedRootBundles[Len(proposedRootBundles) + 1 - k]
AfterBundle(before, p, block, c) ==
  IF before.stop \/ ~ValidThen(p, latestBlockSearched) THEN before
  ELSE LowerEnd(before, BundleEndBlockForChain(p, c), block)
Searches(found, block, c) ==
  /\ found[0] = [stop |-> FALSE, end |-> None]
  /\ \A k \in 1..Len(proposedRootBundles) :
       found[k] = AfterBundle(found[k - 1], SearchedBundle(k), block, c)
  /\ RootBundleEvalBlockNumberContainingBlock(latestBlockSearched, block, c)
       = found[Len(proposedRootBundles)].end

LEMMA SearchedIs ==
  ASSUME RangesOK, NEW k \in 1..Len(proposedRootBundles)
  PROVE  SearchedBundle(k) \in ToSet(proposedRootBundles)
<1>1. proposedRootBundles \in Seq(Nat)
  BY DEF RangesOK, BundlesOK
<1>2. Len(proposedRootBundles) + 1 - k \in 1..Len(proposedRootBundles)
  BY <1>1
<1> QED
  BY <1>1, <1>2, Members DEF SearchedBundle

LEMMA AfterIs ==
  ASSUME RangesOK, ~ReproposeInBlock, NEW before \in FoundRecords,
         NEW p \in ToSet(proposedRootBundles), NEW block \in Nat, NEW c
  PROVE  AfterBundle(before, p, block, c) \in FoundRecords
<1>1. CASE p \in Executed
  <2>1. BundleEndBlockForChain(p, c) \in Nat
    BY <1>1, EndsOfExecuted
  <2> QED
    BY <2>1 DEF AfterBundle, LowerEnd, FoundRecords
<1>2. CASE p \notin Executed
  BY <1>2, ValidThenMeans DEF AfterBundle
<1> QED
  BY <1>1, <1>2

LEMMA SearchSteps ==
  ASSUME RangesOK, ~ReproposeInBlock, NEW block \in Nat, NEW c
  PROVE  \E found \in [0..Len(proposedRootBundles) -> FoundRecords] : Searches(found, block, c)
<1> DEFINE n == Len(proposedRootBundles)
           base == [stop |-> FALSE, end |-> None]
           step == [k \in 1..n |-> [x \in FoundRecords |-> AfterBundle(x, SearchedBundle(k), block, c)]]
           Rec(F) == [k \in 0..n |->
             IF k = 0 THEN [stop |-> FALSE, end |-> None]
             ELSE LET before == F[k - 1]
                      p == proposedRootBundles[n + 1 - k]
                  IN IF before.stop \/ ~ValidThen(p, latestBlockSearched) THEN before
                     ELSE LowerEnd(before, BundleEndBlockForChain(p, c), block)]
           found == CHOOSE F : F = Rec(F)
<1>1. n \in Nat /\ base \in FoundRecords
  BY DEF RangesOK, BundlesOK, FoundRecords
<1>2. step \in [1..n -> [FoundRecords -> FoundRecords]]
  BY AfterIs, SearchedIs
<1>3. \A F : Rec(F) = [k \in 0..n |->
        IF k = 0 THEN base ELSE AfterBundle(F[k - 1], SearchedBundle(k), block, c)]
  BY DEF AfterBundle, SearchedBundle
<1>4. PICK F \in [0..n -> FoundRecords] :
        F[0] = base /\ \A k \in 1..n : F[k] = step[k][F[k - 1]]
  <2> HIDE DEF n, step, base
  <2>1. \E F \in [0..n -> FoundRecords] : Recurses(F, n, base, step)
    BY <1>1, <1>2, Iterates
  <2> QED
    BY <2>1 DEF Recurses
<1>5. RootBundleEvalBlockNumberContainingBlock(latestBlockSearched, block, c) = found[n].end
  BY DEF RootBundleEvalBlockNumberContainingBlock
<1>6. \A k \in 1..n : step[k][F[k - 1]] = AfterBundle(F[k - 1], SearchedBundle(k), block, c)
  <2>1. \A k \in 1..n : k - 1 \in 0..n
    BY <1>1
  <2> QED
    BY <1>4, <2>1
<1> HIDE DEF Rec, base, step, n
<1>7. F = Rec(F)
  <2> DEFINE R == [k \in 0..n |->
        IF k = 0 THEN base ELSE AfterBundle(F[k - 1], SearchedBundle(k), block, c)]
  <2>1. Rec(F) = R
    BY <1>3
  <2>2. \A k \in 0..n : F[k] = R[k]
    <3>1. \A k \in 0..n : k = 0 \/ k \in 1..n
      BY <1>1
    <3> QED
      BY <1>4, <1>6, <3>1
  <2>3. DOMAIN F = 0..n /\ DOMAIN R = 0..n
    BY <1>4
  <2> QED
    BY <1>4, <2>1, <2>2, <2>3
<1>8. found = Rec(found)
  BY <1>7
<1> HIDE DEF found
<1>9. /\ DOMAIN found = 0..n
      /\ found[0] = base
      /\ \A k \in 1..n : found[k] = AfterBundle(found[k - 1], SearchedBundle(k), block, c)
  <2> DEFINE R == [k \in 0..n |->
        IF k = 0 THEN base ELSE AfterBundle(found[k - 1], SearchedBundle(k), block, c)]
  <2>1. found = R
    BY <1>3, <1>8
  <2>2. \A k \in 0..n : R[k] =
          IF k = 0 THEN base ELSE AfterBundle(found[k - 1], SearchedBundle(k), block, c)
    OBVIOUS
  <2>3. 0 \in 0..n /\ \A k \in 1..n : k \in 0..n /\ k # 0
    BY <1>1
  <2>4. DOMAIN R = 0..n
    OBVIOUS
  <2> HIDE DEF R
  <2> QED
    BY <2>1, <2>2, <2>3, <2>4
<1> DEFINE T == {k \in 0..n : found[k] \in FoundRecords}
<1>10. 0 \in T
  BY <1>1, <1>9
<1>11. ASSUME NEW k \in 1..n, k - 1 \in T PROVE k \in T
  <2>1. k \in 0..n /\ found[k - 1] \in FoundRecords
    BY <1>1, <1>11
  <2>2. SearchedBundle(k) \in ToSet(proposedRootBundles)
    BY SearchedIs DEF n
  <2> QED
    BY <1>9, <2>1, <2>2, AfterIs
<1> HIDE DEF T
<1>12. \A k \in 0..n : k \in T
  BY <1>1, <1>10, <1>11, CountUp
<1>13. found = [k \in 0..n |-> found[k]]
  <2> DEFINE R == [k \in 0..n |->
        IF k = 0 THEN base ELSE AfterBundle(found[k - 1], SearchedBundle(k), block, c)]
  <2>1. found = R
    BY <1>3, <1>8
  <2>2. R = [k \in 0..n |-> R[k]]
    OBVIOUS
  <2> HIDE DEF R
  <2> QED
    BY <2>1, <2>2
<1>14. found \in [0..n -> FoundRecords]
  BY <1>12, <1>13 DEF T
<1> QED
  BY <1>5, <1>9, <1>14 DEF Searches, n, base

(* The executed bundles among the newest k, and the others before them.    *)
SearchedOf(k) == {p \in Executed : \E j \in 1..k : SearchedBundle(j) = p}

LEMMA SearchedParts ==
  ASSUME RangesOK, NEW k \in 1..Len(proposedRootBundles)
  PROVE  /\ SearchedOf(k) = SearchedOf(k - 1) \cup (Executed \cap {SearchedBundle(k)})
         /\ \A q \in SearchedOf(k - 1) : SearchedBundle(k) < q
         /\ \A q \in Executed : q \in SearchedOf(k - 1) \/ q <= SearchedBundle(k)
<1> DEFINE u == proposedRootBundles
           n == Len(u)
<1>1. u \in Seq(Nat) /\ Increasing(u) /\ n \in Nat
  BY DEF RangesOK, BundlesOK
<1>2. \A j \in 1..n : n + 1 - j \in 1..n /\ SearchedBundle(j) = u[n + 1 - j] /\ u[n + 1 - j] \in Nat
  BY <1>1 DEF SearchedBundle
<1> HIDE DEF u, n
<1>3. \A j \in 1..(k - 1) : j \in 1..k /\ j \in 1..n /\ n + 1 - k < n + 1 - j
  BY <1>1 DEF n, u
<1>4. k \in 1..n /\ k \in 1..k /\ \A j \in 1..k : j = k \/ j \in 1..(k - 1)
  BY <1>1 DEF n, u
<1>5. SearchedOf(k) = SearchedOf(k - 1) \cup (Executed \cap {SearchedBundle(k)})
  BY <1>3, <1>4 DEF SearchedOf
<1>6. \A q \in SearchedOf(k - 1) : SearchedBundle(k) < q
  BY <1>1, <1>2, <1>3, <1>4 DEF SearchedOf, Increasing, n
<1>7. ASSUME NEW q \in Executed, q \notin SearchedOf(k - 1) PROVE q <= SearchedBundle(k)
  <2>1. q \in ToSet(u)
    BY ExecutedFacts DEF u
  <2>2. PICK i \in 1..n : u[i] = q
    BY <1>1, <2>1, Members DEF n
  <2>3. n + 1 - i \in 1..n /\ n + 1 - (n + 1 - i) = i /\ i \in Nat
    BY <1>1
  <2>4. SearchedBundle(n + 1 - i) = q
    BY <1>2, <2>2, <2>3
  <2>5. ~(n + 1 - i \in 1..(k - 1))
    BY <1>7, <2>4 DEF SearchedOf
  <2>6. i = n + 1 - k \/ i < n + 1 - k
    BY <1>1, <1>4, <2>3, <2>5
  <2>7. i < n + 1 - k => u[i] < u[n + 1 - k]
    BY <1>1, <1>2, <1>4 DEF Increasing, n
  <2> QED
    BY <1>1, <1>2, <1>4, <2>2, <2>6, <2>7
<1> QED
  BY <1>5, <1>6, <1>7

(* The least end block of some bundles, None if there are none.            *)
LeastEnd(S, end, c) ==
  IF S = {} THEN end = None
  ELSE \E p \in S : /\ end = BundleEndBlockForChain(p, c)
                    /\ \A q \in S : end <= BundleEndBlockForChain(q, c)
Containing(block, c) == {p \in Executed : BundleEndBlockForChain(p, c) >= block}
SearchOK(found, S, block, c) ==
  IF found.stop THEN LeastEnd(Containing(block, c), found.end, c)
  ELSE S \subseteq Containing(block, c) /\ LeastEnd(S, found.end, c)

LEMMA SearchKept ==
  ASSUME RangesOK, ~ReproposeInBlock, NEW block \in Nat, NEW c,
         NEW k \in 1..Len(proposedRootBundles), NEW before \in FoundRecords,
         SearchOK(before, SearchedOf(k - 1), block, c)
  PROVE  SearchOK(AfterBundle(before, SearchedBundle(k), block, c), SearchedOf(k), block, c)
<1> DEFINE p == SearchedBundle(k)
           S == SearchedOf(k - 1)
           X == SearchedOf(k)
           G == Containing(block, c)
           End(q) == BundleEndBlockForChain(q, c)
           after == AfterBundle(before, p, block, c)
<1>1. /\ X = S \cup (Executed \cap {p})
      /\ \A q \in S : p < q
      /\ \A q \in Executed : q \in S \/ q <= p
      /\ S \subseteq Executed
  BY SearchedParts DEF SearchedOf
<1>2. p \in ToSet(proposedRootBundles) /\ (ValidThen(p, latestBlockSearched) <=> p \in Executed)
  BY SearchedIs, ValidThenMeans
<1>3. \A q \in Executed : End(q) \in Nat /\ q \in Nat
  BY EndsOfExecuted, ExecutedFacts
<1>4. \A q, r \in Executed : q < r => End(q) <= End(r)
  BY EndsOfExecuted
<1>5. G = {q \in Executed : End(q) >= block}
  BY DEF Containing
<1>6. before.stop \in BOOLEAN
  BY DEF FoundRecords
<1>7. CASE before.stop
  BY <1>7 DEF SearchOK, AfterBundle
<1>8. CASE ~before.stop /\ p \notin Executed
  <2>1. X = S
    BY <1>1, <1>8
  <2>2. after = before
    BY <1>2, <1>8 DEF AfterBundle
  <2> QED
    BY <1>8, <2>1, <2>2
<1>9. CASE ~before.stop /\ p \in Executed
  <2>1. S \subseteq G /\ LeastEnd(S, before.end, c)
    BY <1>9 DEF SearchOK
  <2>2. after = LowerEnd(before, End(p), block)
    BY <1>2, <1>9 DEF AfterBundle
  <2>3. X = S \cup {p} /\ p \in X
    BY <1>1, <1>9
  <2>4. End(p) \in Nat /\ \A q \in S : End(p) <= End(q)
    BY <1>1, <1>3, <1>4, <1>9
  <2>5. CASE End(p) < block
    <3>1. after.stop /\ after.end = before.end
      BY <2>2, <2>5 DEF LowerEnd, EndIsOver, FoundRecords
    <3>2. \A q \in Executed : q <= p => ~(End(q) >= block)
      <4>1. \A q \in Executed : q <= p => End(q) <= End(p)
        BY <1>3, <1>4, <1>9, <2>4
      <4> QED
        BY <1>3, <2>4, <2>5, <4>1
    <3>3. G = S
      BY <1>1, <1>5, <2>1, <3>2
    <3> HIDE DEF after, G, S
    <3>4. LeastEnd(G, after.end, c)
      BY <2>1, <3>1, <3>3
    <3> QED
      BY <3>1, <3>4 DEF SearchOK, after, G
  <2>6. CASE End(p) = block
    <3>1. after.stop /\ after.end = End(p)
      <4>1. (End(p) = block) = TRUE /\ ~(End(p) < block)
        BY <2>4, <2>6
      <4>2. after = [stop |-> TRUE, end |-> End(p)]
        BY <2>2, <4>1, Zenon DEF LowerEnd, EndIsOver
      <4> HIDE DEF after, End
      <4> QED
        BY <4>2
    <3>2. p \in G /\ \A q \in G : End(p) <= End(q)
      BY <1>3, <1>5, <1>9, <2>4, <2>6
    <3>3. LeastEnd(G, after.end, c)
      BY <3>1, <3>2 DEF LeastEnd
    <3> QED
      BY <3>1, <3>3 DEF SearchOK
  <2>7. CASE End(p) > block
    <3>1. ~after.stop /\ after.end = End(p)
      <4>1. (End(p) = block) = FALSE /\ ~(End(p) < block)
        BY <2>4, <2>7
      <4>2. after = [stop |-> FALSE, end |-> End(p)]
        BY <2>2, <4>1, Zenon DEF LowerEnd, EndIsOver
      <4> HIDE DEF after, End
      <4> QED
        BY <4>2
    <3>2. X \subseteq G
      BY <1>5, <1>9, <2>1, <2>3, <2>4, <2>7
    <3>3. \A q \in X : End(p) <= End(q)
      BY <2>3, <2>4
    <3>4. LeastEnd(X, after.end, c)
      BY <2>3, <3>1, <3>3 DEF LeastEnd
    <3> QED
      BY <3>1, <3>2, <3>4 DEF SearchOK
  <2> QED
    BY <2>4, <2>5, <2>6, <2>7
<1> QED
  BY <1>6, <1>7, <1>8, <1>9

LEMMA SearchEndsAt ==
  ASSUME RangesOK, ~ReproposeInBlock, NEW block \in Nat, NEW c
  PROVE  LeastEnd(Containing(block, c),
           RootBundleEvalBlockNumberContainingBlock(latestBlockSearched, block, c), c)
<1> DEFINE n == Len(proposedRootBundles)
<1>1. PICK found \in [0..n -> FoundRecords] : Searches(found, block, c)
  BY SearchSteps
<1>2. /\ found[0] = [stop |-> FALSE, end |-> None]
      /\ \A k \in 1..n : found[k] = AfterBundle(found[k - 1], SearchedBundle(k), block, c)
      /\ RootBundleEvalBlockNumberContainingBlock(latestBlockSearched, block, c) = found[n].end
  BY <1>1 DEF Searches
<1>3. n \in Nat
  BY DEF RangesOK, BundlesOK
<1> DEFINE T == {k \in 0..n : SearchOK(found[k], SearchedOf(k), block, c)}
<1>4. 0 \in T
  <2>1. SearchedOf(0) = {}
    BY DEF SearchedOf
  <2> QED
    BY <1>2, <1>3, <2>1 DEF SearchOK, LeastEnd
<1>5. ASSUME NEW k \in 1..n, k - 1 \in T PROVE k \in T
  <2>1. k \in 0..n /\ k - 1 \in 0..n /\ found[k - 1] \in FoundRecords
    BY <1>1, <1>3
  <2> QED
    BY <1>2, <1>5, <2>1, SearchKept
<1> HIDE DEF T
<1>6. SearchOK(found[n], SearchedOf(n), block, c)
  <2>1. \A k \in 0..n : k \in T
    BY <1>3, <1>4, <1>5, CountUp
  <2> QED
    BY <1>3, <2>1 DEF T
<1>7. Containing(block, c) \subseteq SearchedOf(n)
  <2>1. ASSUME NEW p \in Executed PROVE p \in SearchedOf(n)
    <3>1. proposedRootBundles \in Seq(Nat) /\ p \in ToSet(proposedRootBundles)
      BY ExecutedFacts DEF RangesOK, BundlesOK
    <3>2. PICK i \in 1..n : proposedRootBundles[i] = p
      BY <3>1, Members
    <3>3. n + 1 - i \in 1..n /\ n + 1 - (n + 1 - i) = i
      BY <1>3
    <3> QED
      BY <3>2, <3>3 DEF SearchedOf, SearchedBundle
  <2> QED
    BY <2>1 DEF Containing
<1>8. ~found[n].stop => SearchedOf(n) = Containing(block, c)
  BY <1>6, <1>7 DEF SearchOK
<1> QED
  BY <1>2, <1>6, <1>8 DEF SearchOK

LEMMA EvalRight ==
  ASSUME RangesOK, ~ReproposeInBlock
  PROVE  EvalBlockContains
<1> SUFFICES ASSUME NEW c \in Chains, NEW block \in UNION {ToSet(form.ends) : form \in BundleForms}
             PROVE  LET ends == {BundleEndBlockForChain(p, c) : p \in Executed}
                        containing == {e \in ends : e >= block}
                    IN RootBundleEvalBlockNumberContainingBlock(latestBlockSearched, block, c)
                         = (IF containing = {} THEN None ELSE Min(containing))
  BY DEF EvalBlockContains, Executed
<1> DEFINE End(p) == BundleEndBlockForChain(p, c)
           G == Containing(block, c)
           containing == {e \in {End(p) : p \in Executed} : e >= block}
           answer == RootBundleEvalBlockNumberContainingBlock(latestBlockSearched, block, c)
<1>1. block \in Nat
  <2>1. PICK form \in BundleForms : block \in ToSet(form.ends)
    OBVIOUS
  <2>2. form.ends \in Seq(Nat)
    BY BundleAssumption, SeqMonotonic
  <2> QED
    BY <2>1, <2>2, Members
<1>2. \A p \in Executed : End(p) \in Nat
  BY EndsOfExecuted
<1>3. containing \in SUBSET Nat /\ containing = {End(p) : p \in G}
  BY <1>2 DEF Containing
<1>4. LeastEnd(G, answer, c)
  BY <1>1, SearchEndsAt
<1> HIDE DEF G, containing, answer
<1>5. CASE G = {}
  BY <1>3, <1>4, <1>5 DEF LeastEnd, containing, answer
<1>6. CASE G # {}
  <2>1. answer \in containing /\ \A e \in containing : answer <= e
    BY <1>3, <1>4, <1>6 DEF LeastEnd
  <2>2. Min(containing) = answer
    BY <1>3, <2>1, MinIs
  <2> QED
    BY <2>1, <2>2 DEF containing, answer
<1> QED
  BY <1>5, <1>6

(* The first executed bundle from a block on is the least of them.         *)
LEMMA EarliestExecutedIs ==
  ASSUME RangesOK, ~ReproposeInBlock, NEW start \in Nat, NEW p \in Executed,
         start <= log[p].block,
         \A q \in Executed : start <= log[q].block => p <= q
  PROVE  EarliestFullyExecutedRootBundle(latestBlockSearched, start) = p
<1> DEFINE u == proposedRootBundles
           b == latestBlockSearched
           Asked(q) == /\ start <= log[q].block /\ log[q].block <= b
                       /\ IsRootBundleValid(q, b)
           I == {i \in 1..Len(u) : Asked(u[i])}
<1>1. u \in Seq(Nat) /\ Increasing(u) /\ Len(u) \in Nat
  BY DEF RangesOK, BundlesOK
<1>2. /\ \A i \in 1..Len(u) : u[i] \in ToSet(u) /\ u[i] \in Nat
      /\ \A q \in ToSet(u) : \E i \in 1..Len(u) : u[i] = q
  BY <1>1, Members
<1>3. b \in Nat /\ b \in 0..b
  BY ExecutedFacts
<1>4. \A q \in ToSet(u) : Asked(q) <=> q \in Executed /\ start <= log[q].block
  <2>1. \A q \in ToSet(u) : IsRootBundleValid(q, b) <=> q \in Executed
    BY <1>3, ValidRight DEF RangesOK, ValidMeansExecuted, Executed
  <2>2. \A q \in ToSet(u) : log[q].block <= b
    BY HeldMeansUpdated DEF RangesOK
  <2> QED
    BY <2>1, <2>2
<1>5. p \in ToSet(u) /\ p \in Nat
  BY ExecutedFacts
<1>6. EarliestFullyExecutedRootBundle(b, start)
        = IF (IF I # {} THEN Min(I) ELSE 0) = 0 THEN None ELSE u[IF I # {} THEN Min(I) ELSE 0]
  BY DEF EarliestFullyExecutedRootBundle, SelectInSeq
<1>7. \A i \in 1..Len(u) : i \in I <=> Asked(u[i])
  OBVIOUS
<1>8. I \in SUBSET Nat /\ \A i \in I : i \in 1..Len(u)
  BY <1>1
<1> HIDE DEF u, b, I, Asked
<1>9. PICK m \in 1..Len(u) : u[m] = p
  BY <1>2, <1>5
<1>10. m \in I
  BY <1>4, <1>5, <1>7, <1>9
<1>11. ASSUME NEW i \in I PROVE m <= i
  <2>1. i \in 1..Len(u) /\ u[i] \in Executed /\ start <= log[u[i]].block
    BY <1>2, <1>4, <1>7, <1>8
  <2>2. p <= u[i] /\ u[i] \in Nat
    BY <1>2, <2>1
  <2>3. i < m => u[i] < u[m]
    BY <1>1, <2>1 DEF Increasing
  <2> QED
    BY <1>1, <1>5, <1>9, <2>1, <2>2, <2>3
<1>12. Min(I) = m /\ m # 0
  BY <1>8, <1>10, <1>11, MinIs
<1> QED
  BY <1>6, <1>9, <1>10, <1>12 DEF b

(* The loop that counts from the earliest, step by step.                   *)
AtRecords == [bundle : ToSet(proposedRootBundles) \cup {None}, start : Nat]
NextAt(before) ==
  LET p == EarliestFullyExecutedRootBundle(latestBlockSearched, before.start)
  IN [bundle |-> p, start |-> StartAfter(p)]
Counts(at, n) ==
  /\ at[0] = [bundle |-> None, start |-> 0]
  /\ \A k \in 1..n : at[k] = NextAt(at[k - 1])
  /\ NthEarliestFullyExecuted(n) = at[n].bundle

LEMMA NextAtIs ==
  ASSUME RangesOK, latestBlockSearched \in Nat, NEW before \in AtRecords
  PROVE  NextAt(before) \in AtRecords
<1> DEFINE u == proposedRootBundles
           p == EarliestFullyExecutedRootBundle(latestBlockSearched, before.start)
           I == {i \in 1..Len(u) :
                   /\ before.start <= log[u[i]].block /\ log[u[i]].block <= latestBlockSearched
                   /\ IsRootBundleValid(u[i], latestBlockSearched)}
<1>1. u \in Seq(Nat) /\ Len(u) \in Nat
  BY DEF RangesOK, BundlesOK
<1>2. \A i \in 1..Len(u) : u[i] \in ToSet(u)
  BY <1>1, Members
<1>3. p = IF (IF I # {} THEN Min(I) ELSE 0) = 0 THEN None ELSE u[IF I # {} THEN Min(I) ELSE 0]
  BY DEF EarliestFullyExecutedRootBundle, SelectInSeq
<1>4. I \in SUBSET Nat /\ \A i \in I : i \in 1..Len(u) /\ i <= Len(u)
  BY <1>1
<1> HIDE DEF u, p, I
<1>5. p \in ToSet(u) \cup {None}
  <2>1. CASE I = {}
    BY <1>3, <2>1
  <2>2. CASE I # {}
    <3>1. Min(I) \in I
      BY <1>1, <1>4, <2>2, Extremes
    <3> QED
      BY <1>2, <1>3, <1>4, <2>2, <3>1
  <2> QED
    BY <2>1, <2>2
<1>6. BlockOf(p) \in Nat
  BY <1>5, HeldMeansUpdated DEF BlockOf, RangesOK, u
<1>7. StartAfter(p) \in Nat
  <2>1. BlockOf(p) + 1 \in Nat
    BY <1>6
  <2> QED
    BY <2>1, LesserOfTwo DEF StartAfter
<1> QED
  BY <1>5, <1>7 DEF NextAt, AtRecords, p, u

LEMMA CountSteps ==
  ASSUME RangesOK, latestBlockSearched \in Nat, NEW n \in Nat
  PROVE  \E at \in [0..n -> AtRecords] : Counts(at, n)
<1> DEFINE base == [bundle |-> None, start |-> 0]
           step == [k \in 1..n |-> [x \in AtRecords |-> NextAt(x)]]
           Rec(F) == [k \in 0..n |->
             IF k = 0 THEN [bundle |-> None, start |-> 0]
             ELSE LET p == EarliestFullyExecutedRootBundle(latestBlockSearched, F[k - 1].start)
                  IN [bundle |-> p, start |-> StartAfter(p)]]
           at == CHOOSE F : F = Rec(F)
<1>1. base \in AtRecords
  BY DEF AtRecords
<1>2. step \in [1..n -> [AtRecords -> AtRecords]]
  BY NextAtIs
<1>3. \A F : Rec(F) = [k \in 0..n |-> IF k = 0 THEN base ELSE NextAt(F[k - 1])]
  BY DEF NextAt
<1>4. PICK F \in [0..n -> AtRecords] :
        F[0] = base /\ \A k \in 1..n : F[k] = step[k][F[k - 1]]
  <2> HIDE DEF step, base
  <2>1. \E F \in [0..n -> AtRecords] : Recurses(F, n, base, step)
    BY <1>1, <1>2, Iterates
  <2> QED
    BY <2>1 DEF Recurses
<1>5. NthEarliestFullyExecuted(n) = at[n].bundle
  BY DEF NthEarliestFullyExecuted
<1>6. \A k \in 1..n : step[k][F[k - 1]] = NextAt(F[k - 1])
  <2>1. \A k \in 1..n : k - 1 \in 0..n
    OBVIOUS
  <2> QED
    BY <1>4, <2>1
<1> HIDE DEF Rec, base, step
<1>7. F = Rec(F)
  <2> DEFINE R == [k \in 0..n |-> IF k = 0 THEN base ELSE NextAt(F[k - 1])]
  <2>1. Rec(F) = R
    BY <1>3
  <2>2. \A k \in 0..n : F[k] = R[k]
    <3>1. \A k \in 0..n : k = 0 \/ k \in 1..n
      OBVIOUS
    <3> QED
      BY <1>4, <1>6, <3>1
  <2>3. DOMAIN F = 0..n /\ DOMAIN R = 0..n
    BY <1>4
  <2> QED
    BY <1>4, <2>1, <2>2, <2>3
<1>8. at = Rec(at)
  BY <1>7
<1> HIDE DEF at
<1>9. /\ at = [k \in 0..n |-> at[k]]
      /\ at[0] = base
      /\ \A k \in 1..n : at[k] = NextAt(at[k - 1])
  <2> DEFINE R == [k \in 0..n |-> IF k = 0 THEN base ELSE NextAt(at[k - 1])]
  <2>1. at = R
    BY <1>3, <1>8
  <2>2. \A k \in 0..n : R[k] = IF k = 0 THEN base ELSE NextAt(at[k - 1])
    OBVIOUS
  <2>3. 0 \in 0..n /\ \A k \in 1..n : k \in 0..n /\ k # 0
    OBVIOUS
  <2>4. R = [k \in 0..n |-> R[k]]
    OBVIOUS
  <2> HIDE DEF R
  <2> QED
    BY <2>1, <2>2, <2>3, <2>4
<1> DEFINE T == {k \in 0..n : at[k] \in AtRecords}
<1>10. 0 \in T
  BY <1>1, <1>9
<1>11. ASSUME NEW k \in 1..n, k - 1 \in T PROVE k \in T
  <2>1. k \in 0..n /\ at[k - 1] \in AtRecords
    BY <1>11
  <2> QED
    BY <1>9, <2>1, NextAtIs
<1> HIDE DEF T
<1>12. \A k \in 0..n : k \in T
  BY <1>10, <1>11, CountUp
<1>13. at \in [0..n -> AtRecords]
  BY <1>9, <1>12 DEF T
<1> QED
  BY <1>5, <1>9, <1>13 DEF Counts, base

(* Of two executed bundles the later one has the later block.              *)
LEMMA LaterIsHigher ==
  ASSUME RangesOK, ~ReproposeInBlock, NEW p \in Executed, NEW q \in Executed
  PROVE  q < p <=> log[q].block < log[p].block
<1>1. /\ p \in Proposals /\ p \in Nat /\ log[p].block \in Nat /\ p \in DOMAIN log
      /\ q \in Proposals /\ q \in Nat /\ log[q].block \in Nat /\ q \in DOMAIN log
  BY ExecutedFacts, LogFacts DEF RangesOK, ChainOK, Proposals
<1>2. q <= p => log[q].block <= log[p].block
  BY <1>1 DEF RangesOK, ChainOK, LogOK
<1>3. p <= q => log[p].block <= log[q].block
  BY <1>1 DEF RangesOK, ChainOK, LogOK
<1>4. log[p].block = log[q].block => p = q
  BY <1>1 DEF RangesOK, ChainOK, OutcomesOK
<1> QED
  BY <1>1, <1>2, <1>3, <1>4

LEMMA NthRight ==
  ASSUME RangesOK, ~ReproposeInBlock
  PROVE  NthEarliestRight
<1> DEFINE s == InOrder(Executed)
           N == Cardinality(Executed)
<1> SUFFICES ASSUME NEW n \in 1..N PROVE NthEarliestFullyExecuted(n) = s[n]
  BY DEF NthEarliestRight, Executed
<1>1. Len(log) \in Nat /\ Executed \in SUBSET (1..Len(log))
  BY ExecutedFacts, LogFacts DEF RangesOK, ChainOK, Proposals
<1>2. /\ s \in Seq(Nat) /\ Len(s) = N /\ ToSet(s) = Executed /\ Increasing(s)
      /\ N \in Nat
  BY <1>1, Ordered, Ranks
<1> HIDE DEF s, N
<1>3. /\ \A i \in 1..N : s[i] \in Executed /\ s[i] \in Nat
      /\ \A q \in Executed : \E i \in 1..N : s[i] = q
      /\ \A i, j \in 1..N : i < j => s[i] < s[j]
  BY <1>2, Members DEF Increasing
<1>4. \A q \in Executed : log[q].block \in 0..latestBlockSearched /\ q # None
  BY ExecutedFacts
<1>5. n \in Nat /\ latestBlockSearched \in Nat
  <2>1. n \in Nat
    BY <1>2
  <2>2. s[n] \in Executed
    BY <1>3
  <2> QED
    BY <2>1, <2>2, ExecutedFacts
<1>6. PICK at \in [0..n -> AtRecords] : Counts(at, n)
  BY <1>5, CountSteps
<1>7. /\ at[0] = [bundle |-> None, start |-> 0]
      /\ \A k \in 1..n : at[k] = NextAt(at[k - 1])
      /\ NthEarliestFullyExecuted(n) = at[n].bundle
  BY <1>6 DEF Counts
<1> DEFINE First(k) == IF k = 0 THEN 0 ELSE Min({log[s[k]].block + 1, latestBlockSearched})
           T == {k \in 0..n : at[k].start = First(k) /\ (k # 0 => at[k].bundle = s[k])}
<1>8. 0 \in T
  BY <1>5, <1>7
<1>9. ASSUME NEW k \in 1..n, k - 1 \in T PROVE k \in T
  <2>1. k \in 1..N /\ k \in 0..n /\ k \in Nat
    BY <1>2
  <2> DEFINE p == s[k]
             start == at[k - 1].start
  <2>2. p \in Executed /\ p \in Nat /\ log[p].block \in 0..latestBlockSearched
    BY <1>3, <1>4, <2>1
  <2>3. /\ start \in Nat /\ start <= log[p].block
        /\ \A q \in Executed : start <= log[q].block => p <= q
    <3>1. CASE k = 1
      <4>1. start = 0
        BY <1>9, <3>1
      <4>2. ASSUME NEW q \in Executed PROVE p <= q
        <5>1. PICK i \in 1..N : s[i] = q
          BY <1>3
        <5>2. i = 1 \/ 1 < i
          BY <1>2
        <5> QED
          BY <1>3, <2>1, <3>1, <5>1, <5>2
      <4> QED
        BY <2>2, <4>1, <4>2
    <3>2. CASE k # 1
      <4> DEFINE r == s[k - 1]
      <4>1. k - 1 \in 1..N /\ k - 1 < k /\ k - 1 # 0
        BY <1>2, <2>1, <3>2
      <4>2. r \in Executed /\ r \in Nat /\ r < p
        BY <1>3, <2>1, <4>1
      <4>3. log[r].block < log[p].block /\ log[r].block \in Nat
        BY <1>4, <2>2, <4>2, LaterIsHigher
      <4>4. start = log[r].block + 1
        <5>1. start = Min({log[r].block + 1, latestBlockSearched})
          BY <1>9, <4>1
        <5>2. log[r].block + 1 \in Nat /\ log[r].block + 1 <= latestBlockSearched
          <6>1. \A x, y, z \in Nat : x < y /\ y \in 0..z => x + 1 \in Nat /\ x + 1 <= z
            OBVIOUS
          <6>2. log[p].block \in Nat
            BY <2>2
          <6> HIDE DEF p, r, start
          <6> QED
            BY <1>5, <2>2, <4>3, <6>1, <6>2
        <5> HIDE DEF start, r
        <5> QED
          BY <1>5, <5>1, <5>2, LesserOfTwo
      <4>5. ASSUME NEW q \in Executed, start <= log[q].block PROVE p <= q
        <5>1. PICK i \in 1..N : s[i] = q
          BY <1>3
        <5>2. log[r].block < log[q].block
          BY <1>4, <4>3, <4>4, <4>5
        <5>3. r < q
          BY <4>2, <5>2, LaterIsHigher
        <5>4. ~(i < k - 1) /\ i # k - 1
          <6>1. i < k - 1 => q < r
            BY <1>3, <4>1, <5>1
          <6>2. q \in Nat
            BY <1>3, <5>1
          <6> QED
            BY <4>2, <5>1, <5>3, <6>1, <6>2
        <5>5. i = k \/ k < i
          BY <1>2, <2>1, <5>4
        <5> QED
          BY <1>3, <2>1, <2>2, <5>1, <5>5
      <4> QED
        BY <2>2, <4>3, <4>4, <4>5
    <3> QED
      BY <3>1, <3>2
  <2>4. EarliestFullyExecutedRootBundle(latestBlockSearched, start) = p
    <3> HIDE DEF p, start
    <3> QED
      BY <2>2, <2>3, EarliestExecutedIs
  <2>5. at[k] = [bundle |-> p, start |-> StartAfter(p)]
    BY <1>7, <2>4 DEF NextAt
  <2>6. StartAfter(p) = First(k)
    <3>1. p # None /\ k # 0
      BY <1>4, <2>1, <2>2
    <3>2. BlockOf(p) = log[p].block
      BY <3>1 DEF BlockOf
    <3> QED
      BY <3>1, <3>2 DEF StartAfter
  <2> QED
    BY <2>1, <2>5, <2>6
<1> HIDE DEF T
<1>10. \A k \in 0..n : k \in T
  BY <1>5, <1>8, <1>9, CountUp
<1>11. n # 0 /\ n \in 0..n /\ n \in T
  BY <1>2, <1>10
<1> QED
  BY <1>7, <1>11 DEF T

(* The two searches over the executed bundles find what they look for:     *)
(* getRootBundleEvalBlockNumberContainingBlock may stop at the first end    *)
(* block that is low enough, and getNthFullyExecutedRootBundle neither     *)
(* skips a bundle nor counts one twice, unless a bundle is proposed in the *)
(* very block in which its predecessor was disputed.                       *)
THEOREM BundlesAreFound ==
  ASSUME ~ReproposeInBlock
  PROVE  Spec => []BundleSearchesRight
<1>1. RangesOK => BundleSearchesRight
  BY EvalRight, NthRight DEF BundleSearchesRight
<1>2. ChainOK /\ WindowOK /\ BundlesOK /\ ProgressOK /\ FormsOK /\ HeadOK => BundleSearchesRight
  BY <1>1 DEF RangesOK
<1> QED
  BY <1>2, BundlesHolds, ProgressHolds, PTL

=============================================================================
