-------------------------- MODULE BlockFinderProofs --------------------------
(***************************************************************************)
(* Proofs about BlockFinder, for every chain whose timestamps never fall,  *)
(* any number of calls that share a finder and any average block times:    *)
(* the list they share stays sorted, and every answer is right.            *)
(***************************************************************************)
EXTENDS BlockFinder, FiniteSetTheorems, SequenceTheorems, WellFoundedInduction, TLAPS

(* A list of blocks, in order, of which all are shown.                     *)
Ordered(bs) == \A i, j \in DOMAIN bs : i < j => bs[i] < bs[j]
IsList(bs) == bs \in Seq(0..head) /\ Ordered(bs)
Among(n, bs) == \E i \in DOMAIN bs : bs[i] = n

(* Block r was the latest at time t as of a moment from "since" on.        *)
Right(t, since, r) ==
  \/ r = Thrown /\ t < time[0]
  \/ /\ r \in 0..head /\ time[r] <= t
     /\ \E h \in since..head : r <= h /\ \A n \in 0..h : time[n] <= t => time[n] <= time[r]

(* Block r will be the latest at time t for good.                          *)
Final(t, r) ==
  /\ r \in 0..head /\ time[r] <= t
  /\ \A n \in Blocks : time[n] <= t => time[n] <= time[r]

-----------------------------------------------------------------------------
(* The inductive invariant.                                                *)

ChainOK ==
  /\ time \in TimeLines /\ now \in Nat /\ head \in Blocks
  /\ \A n \in Blocks : time[n] + MaxDelay < now => n <= head

AveragesOK ==
  /\ Optimism \in DOMAIN blockTimes
  /\ \A c \in DOMAIN blockTimes : blockTimes[c].seconds \in Nat /\ blockTimes[c].blocks \in Nat

CacheOK == \A t \in DOMAIN cache : Final(t, cache[t])

(* What a call knows of the blocks it works with: bs is the shared list.   *)
Fields == DOMAIN NoCall
BaseOK(c) ==
  /\ c.timestamp \in Nat /\ c.since \in 0..head /\ c.keep \in BOOLEAN
  /\ c.keep => \A n \in Blocks : time[n] <= c.timestamp => n <= c.since

StageOK(c, bs) ==
  /\ c.stage \in {"idle", "cache", "latest", "hints", "average", "sample", "back", "find", "done"}
  /\ c.stage \in {"cache", "latest"} => c.hints \subseteq 0..head
  /\ c.stage = "hints" =>
       /\ c.wanted \subseteq 0..head
       /\ \E n \in 0..head : Among(n, bs) /\ time[n] >= c.timestamp
  /\ c.stage \in {"average", "sample", "back"} =>
       c.initial \in 0..head /\ Among(c.initial, bs) /\ time[c.initial] > c.timestamp
  /\ c.stage = "back" => c.number \in 0..head /\ c.distance \in Nat /\ c.multiplier \in Nat
  /\ c.stage = "find" =>
       /\ c.start \in 0..head /\ c.number \in 0..head /\ c.end \in 0..head
       /\ c.start < c.number /\ c.number < c.end
       /\ time[c.start] < c.timestamp /\ c.timestamp < time[c.end]
  /\ c.stage = "done" => Right(c.timestamp, c.since, c.result)

CallOK(c, bs) ==
  /\ DOMAIN c = Fields
  /\ c.stage # "idle" => BaseOK(c)
  /\ StageOK(c, bs)

CallsOK == DOMAIN call = Callers /\ \A u \in Callers : CallOK(call[u], blocks)

IInv == ChainOK /\ IsList(blocks) /\ AveragesOK /\ CacheOK /\ CallsOK
-----------------------------------------------------------------------------
(* Numbers and lists.                                                      *)

(* A set of natural numbers that is not empty has a least element, and if  *)
(* it is bounded a greatest.                                               *)
LEMMA LeastNumber ==
  \A T \in SUBSET Nat : T # {} => \E m \in T : \A k \in T : m <= k
<1> DEFINE R == {ss \in Nat \X Nat : ss[1] < ss[2]}
<1> SUFFICES ASSUME NEW T \in SUBSET Nat, T # {} PROVE \E m \in T : \A k \in T : m <= k
  OBVIOUS
<1>1. IsWellFoundedOn(R, Nat)
  BY NatLessThanWellFounded, Zenon DEF OpToRel
<1>2. \A x, y \in Nat : y < x => <<y, x>> \in R
  OBVIOUS
<1> HIDE DEF R
<1>3. PICK m \in T : \A k \in T : <<k, m>> \notin R
  BY <1>1, WFMin, Zenon
<1>4. \A k \in T : k \in Nat /\ m \in Nat /\ ~(k < m)
  BY <1>2, <1>3
<1>. QED BY <1>4

LEMMA GreatestNumber ==
  ASSUME NEW T \in SUBSET Nat, T # {}, NEW b \in Nat, \A k \in T : k <= b
  PROVE  Max(T) \in T /\ \A k \in T : k <= Max(T)
<1> DEFINE D == {b - k : k \in T}
<1>1. D \in SUBSET Nat /\ D # {}
  <2>1. \A k \in T : b - k \in Nat
    OBVIOUS
  <2>. QED BY <2>1
<1>2. PICK d \in D : \A e \in D : d <= e
  BY <1>1, LeastNumber
<1>3. PICK m \in T : d = b - m
  OBVIOUS
<1>4. \A k \in T : m >= k
  <2>1. \A k \in T : b - k \in D
    OBVIOUS
  <2>. QED BY <1>2, <1>3, <2>1
<1>. QED BY <1>3, <1>4 DEF Max

LEMMA MaxOfTwo ==
  ASSUME NEW a \in Int, NEW b \in Int PROVE Max({a, b}) = IF a >= b THEN a ELSE b
  BY DEF Max
LEMMA MinOfTwo ==
  ASSUME NEW a \in Int, NEW b \in Int PROVE Min({a, b}) = IF a <= b THEN a ELSE b
  BY DEF Min

(* The numbers up to some point are counted by the last of them.           *)
LEMMA CountedPrefix ==
  ASSUME NEW n \in Nat, NEW D \in SUBSET (1..n), \A i \in D : \A j \in 1..i : j \in D
  PROVE  Cardinality(D) \in 0..n /\ D = 1..Cardinality(D)
<1>1. PICK k \in 0..n : D = 1..k
  <2>1. CASE D = {}
    BY <2>1
  <2>2. CASE D # {}
    <3>1. PICK m \in D : \A i \in D : i <= m
      <4>1. D \in SUBSET Nat /\ \A i \in D : i <= n
        OBVIOUS
      <4>. QED BY <2>2, <4>1, GreatestNumber
    <3>2. m \in 1..n /\ \A j \in 1..m : j \in D
      OBVIOUS
    <3>3. \A i \in D : i \in 1..m
      BY <3>1
    <3>4. D = 1..m
      BY <3>2, <3>3
    <3>. QED BY <3>2, <3>4
  <2>. QED BY <2>1, <2>2
<1>2. Cardinality(1..k) = k
  BY FS_Interval
<1>. QED BY <1>1, <1>2

LEMMA Inserted ==
  ASSUME NEW S, NEW s \in Seq(S), NEW e \in S, NEW i \in 1..(Len(s) + 1)
  PROVE  /\ InsertAt(s, i, e) \in Seq(S)
         /\ Len(InsertAt(s, i, e)) = Len(s) + 1
         /\ \A j \in 1..(Len(s) + 1) :
              InsertAt(s, i, e)[j] = IF j < i THEN s[j] ELSE IF j = i THEN e ELSE s[j - 1]
<1> DEFINE a == SubSeq(s, 1, i - 1)
           b == SubSeq(s, i, Len(s))
<1>1. Len(s) \in Nat /\ DOMAIN s = 1..Len(s) /\ \A j \in 1..Len(s) : s[j] \in S
  BY LenProperties, ElementOfSeq
<1>2. a \in Seq(S) /\ Len(a) = i - 1 /\ \A j \in 1..(i - 1) : a[j] = s[j]
  <2>1. /\ a \in Seq(S) /\ Len(a) = (IF 1 <= i - 1 THEN i - 1 - 1 + 1 ELSE 0)
        /\ \A j \in 1..(i - 1 - 1 + 1) : a[j] = s[1 + j - 1]
    BY <1>1, SubSeqProperties
  <2>. QED BY <2>1
<1>3. b \in Seq(S) /\ Len(b) = Len(s) - i + 1 /\ \A j \in 1..(Len(s) - i + 1) : b[j] = s[i + j - 1]
  <2>1. /\ b \in Seq(S) /\ Len(b) = (IF i <= Len(s) THEN Len(s) - i + 1 ELSE 0)
        /\ \A j \in 1..(Len(s) - i + 1) : b[j] = s[i + j - 1]
    BY <1>1, SubSeqProperties
  <2>. QED BY <1>1, <2>1
<1> HIDE DEF a, b
<1>4. <<e>> \in Seq(S) /\ Len(<<e>>) = 1 /\ <<e>>[1] = e
  OBVIOUS
<1>5. /\ a \o <<e>> \in Seq(S) /\ Len(a \o <<e>>) = i
      /\ \A j \in 1..i : (a \o <<e>>)[j] = IF j < i THEN s[j] ELSE e
  <2>1. /\ a \o <<e>> \in Seq(S) /\ Len(a \o <<e>>) = Len(a) + Len(<<e>>)
        /\ \A j \in 1..(Len(a) + Len(<<e>>)) :
             (a \o <<e>>)[j] = IF j <= Len(a) THEN a[j] ELSE <<e>>[j - Len(a)]
    BY <1>2, <1>4, ConcatProperties
  <2>. QED BY <1>2, <1>4, <2>1
<1> DEFINE c == a \o <<e>>
<1>8. c \in Seq(S) /\ Len(c) = i /\ \A j \in 1..i : c[j] = IF j < i THEN s[j] ELSE e
  BY <1>5
<1>7. InsertAt(s, i, e) = c \o b
  BY DEF InsertAt, a, b, c
<1> HIDE DEF c
<1>6. /\ c \o b \in Seq(S) /\ Len(c \o b) = Len(c) + Len(b)
      /\ \A j \in 1..(Len(c) + Len(b)) :
           (c \o b)[j] = IF j <= Len(c) THEN c[j] ELSE b[j - Len(c)]
  BY <1>3, <1>8, ConcatProperties
<1>9. \A j \in 1..(Len(s) + 1) :
        (c \o b)[j] = IF j < i THEN s[j] ELSE IF j = i THEN e ELSE s[j - 1]
  <2> TAKE j \in 1..(Len(s) + 1)
  <2>1. CASE j <= i
    <3>1. j \in 1..i /\ (c \o b)[j] = c[j]
      BY <1>1, <1>3, <1>6, <1>8, <2>1
    <3>. QED BY <1>8, <2>1, <3>1
  <2>2. CASE j > i
    <3>1. j - i \in 1..(Len(s) - i + 1) /\ i + (j - i) - 1 = j - 1
      BY <1>1, <2>2
    <3>2. b[j - i] = s[j - 1]
      BY <1>3, <3>1
    <3>3. j \in 1..(Len(c) + Len(b)) /\ ~(j <= Len(c)) /\ j - Len(c) = j - i
      BY <1>1, <1>3, <1>8, <2>2
    <3>4. (c \o b)[j] = b[j - i]
      BY <1>6, <3>3
    <3>5. ~(j < i) /\ j # i
      BY <1>1, <2>2
    <3>. QED BY <3>2, <3>4, <3>5, Zenon
  <2>3. j <= i \/ j > i
    BY <1>1
  <2>. QED BY <2>1, <2>2, <2>3, Zenon
<1>. QED BY <1>1, <1>3, <1>6, <1>7, <1>8, <1>9

(* The place of a block in a list that is in order: those before it are    *)
(* below, the others not.  Its timestamp places it the same way.           *)
LEMMA PlaceOfNumber ==
  ASSUME head \in Nat, NEW bs, IsList(bs), NEW n \in Nat
  PROVE  /\ IndexOfNumber(bs, n) \in 1..(Len(bs) + 1)
         /\ \A j \in 1..Len(bs) : bs[j] < n <=> j < IndexOfNumber(bs, n)
<1> DEFINE D == {i \in DOMAIN bs : bs[i] < n}
<1>1. Len(bs) \in Nat /\ DOMAIN bs = 1..Len(bs) /\ \A i \in DOMAIN bs : bs[i] \in 0..head
  BY LenProperties, ElementOfSeq DEF IsList
<1>2. D \in SUBSET (1..Len(bs)) /\ \A i \in D : \A j \in 1..i : j \in D
  <2>1. ASSUME NEW i \in D, NEW j \in 1..i PROVE j \in D
    <3>1. j \in DOMAIN bs /\ (j = i \/ bs[j] < bs[i])
      <4>1. i \in DOMAIN bs /\ j \in DOMAIN bs /\ (j = i \/ j < i)
        BY <1>1
      <4>2. Ordered(bs)
        BY DEF IsList
      <4> HIDE DEF D
      <4>. QED BY <4>1, <4>2 DEF Ordered
    <3>2. bs[i] < n /\ bs[i] \in Nat /\ bs[j] \in Nat
      BY <1>1, <3>1
    <3>3. bs[j] < n
      BY <3>1, <3>2
    <3>. QED BY <3>1, <3>3
  <2>. QED BY <1>1, <2>1
<1>3. Cardinality(D) \in 0..Len(bs) /\ D = 1..Cardinality(D)
  BY <1>1, <1>2, CountedPrefix
<1>4. IndexOfNumber(bs, n) = 1 + Cardinality(D)
  BY DEF IndexOfNumber
<1>5. \A j \in 1..Len(bs) : bs[j] < n <=> j \in D
  BY <1>1
<1> HIDE DEF D
<1>. QED BY <1>1, <1>3, <1>4, <1>5

LEMMA TimeFacts ==
  ASSUME ChainOK
  PROVE  /\ LastBlock \in Nat /\ head \in Nat /\ 0..head \subseteq Blocks /\ time[0] <= StartTime
         /\ \A a \in Blocks : time[a] \in Nat
         /\ \A a, b \in Blocks : a <= b => time[a] <= time[b]
  BY TimeAssumption DEF ChainOK, Blocks

LEMMA ListFacts ==
  ASSUME NEW bs, IsList(bs)
  PROVE  Len(bs) \in Nat /\ DOMAIN bs = 1..Len(bs) /\ \A i \in 1..Len(bs) : bs[i] \in 0..head
  BY LenProperties, ElementOfSeq DEF IsList

LEMMA PlaceOfTime ==
  ASSUME ChainOK, NEW bs, IsList(bs), NEW t \in Nat
  PROVE  /\ IndexOfTime(bs, t) \in 1..(Len(bs) + 1)
         /\ \A j \in 1..Len(bs) : time[bs[j]] < t <=> j < IndexOfTime(bs, t)
<1> DEFINE D == {i \in DOMAIN bs : time[bs[i]] < t}
<1>1. Len(bs) \in Nat /\ DOMAIN bs = 1..Len(bs) /\ \A i \in 1..Len(bs) : bs[i] \in 0..head
  BY ListFacts
<1>2. D \in SUBSET (1..Len(bs)) /\ \A i \in D : \A j \in 1..i : j \in D
  <2>1. ASSUME NEW i \in D, NEW j \in 1..i PROVE j \in D
    <3>1. j \in DOMAIN bs /\ i \in DOMAIN bs /\ (j = i \/ bs[j] < bs[i])
      BY <1>1 DEF IsList, Ordered
    <3>2. bs[i] \in Blocks /\ bs[j] \in Blocks /\ bs[j] <= bs[i]
      BY <1>1, <3>1, TimeFacts DEF Blocks
    <3>3. time[bs[j]] <= time[bs[i]] /\ time[bs[j]] \in Nat /\ time[bs[i]] \in Nat
      BY <3>2, TimeFacts
    <3>. QED BY <3>1, <3>3
  <2>. QED BY <1>1, <2>1
<1>3. Cardinality(D) \in 0..Len(bs) /\ D = 1..Cardinality(D)
  BY <1>1, <1>2, CountedPrefix
<1>4. IndexOfTime(bs, t) = 1 + Cardinality(D)
  BY DEF IndexOfTime
<1>5. \A j \in 1..Len(bs) : time[bs[j]] < t <=> j \in D
  BY <1>1
<1> HIDE DEF D
<1>. QED BY <1>1, <1>3, <1>4, <1>5

(* A block is held if and only if it is in the list; getBlock puts it      *)
(* there, in its place, and leaves the others.                             *)
LEMMA HoldsMeansAmong ==
  ASSUME head \in Nat, NEW bs, IsList(bs), NEW n \in Nat PROVE Holds(bs, n) <=> Among(n, bs)
<1> DEFINE k == IndexOfNumber(bs, n)
<1>1. k \in 1..(Len(bs) + 1) /\ \A j \in 1..Len(bs) : bs[j] < n <=> j < k
  BY PlaceOfNumber
<1>2. Len(bs) \in Nat /\ DOMAIN bs = 1..Len(bs) /\ \A i \in 1..Len(bs) : bs[i] \in 0..head
  BY ListFacts
<1>3. Holds(bs, n) <=> (k \in DOMAIN bs /\ bs[k] = n)
  BY DEF Holds
<1> HIDE DEF k
<1>4. ASSUME NEW j \in DOMAIN bs, bs[j] = n PROVE k \in DOMAIN bs /\ bs[k] = n
  <2>1. ~(j < k) /\ k \in DOMAIN bs
    BY <1>1, <1>2, <1>4
  <2>2. ~(bs[k] < n)
    BY <1>1, <1>2, <2>1
  <2>3. k = j \/ bs[k] < bs[j]
    BY <1>1, <1>2, <2>1 DEF IsList, Ordered
  <2>. QED BY <1>2, <1>4, <2>1, <2>2, <2>3
<1>. QED BY <1>3, <1>4 DEF Among

LEMMA WithBlockOK ==
  ASSUME head \in Nat, IsList(blocks), NEW n \in 0..head
  PROVE  /\ IsList(WithBlock(n)) /\ Among(n, WithBlock(n))
         /\ \A m : Among(m, blocks) => Among(m, WithBlock(n))
<1>1. CASE Holds(blocks, n)
  BY <1>1, HoldsMeansAmong DEF WithBlock
<1>2. CASE ~Holds(blocks, n)
  <2> DEFINE k == IndexOfNumber(blocks, n)
             bs == InsertAt(blocks, k, n)
  <2>1. k \in 1..(Len(blocks) + 1) /\ \A j \in 1..Len(blocks) : blocks[j] < n <=> j < k
    BY PlaceOfNumber
  <2>2. /\ Len(blocks) \in Nat /\ DOMAIN blocks = 1..Len(blocks)
        /\ \A i \in 1..Len(blocks) : blocks[i] \in 0..head
    BY ListFacts
  <2>3. WithBlock(n) = bs
    BY <1>2 DEF WithBlock
  <2> HIDE DEF k
  <2>4. /\ bs \in Seq(0..head) /\ Len(bs) = Len(blocks) + 1
        /\ \A j \in 1..(Len(blocks) + 1) :
             bs[j] = IF j < k THEN blocks[j] ELSE IF j = k THEN n ELSE blocks[j - 1]
    <3> DEFINE S == 0..head
    <3>1. blocks \in Seq(S) /\ n \in S /\ k \in 1..(Len(blocks) + 1)
      BY <2>1 DEF IsList
    <3> HIDE DEF S, bs
    <3>2. /\ InsertAt(blocks, k, n) \in Seq(S) /\ Len(InsertAt(blocks, k, n)) = Len(blocks) + 1
          /\ \A j \in 1..(Len(blocks) + 1) :
               InsertAt(blocks, k, n)[j] = IF j < k THEN blocks[j] ELSE IF j = k THEN n ELSE blocks[j - 1]
      BY <3>1, Inserted
    <3>. QED BY <3>2, Zenon DEF S, bs
  <2> HIDE DEF bs
  <2>5. DOMAIN bs = 1..(Len(blocks) + 1)
    BY <2>4, LenProperties
  <2>6. \A j \in 1..Len(blocks) : j >= k => blocks[j] > n
    <3>1. ASSUME NEW j \in 1..Len(blocks), j >= k PROVE blocks[j] # n /\ ~(blocks[j] < n)
      BY <1>2, <2>1, <2>2, <3>1, HoldsMeansAmong DEF Among
    <3>. QED BY <2>2, <3>1
  <2>7. Ordered(bs)
    <3> SUFFICES ASSUME NEW i \in DOMAIN bs, NEW j \in DOMAIN bs, i < j PROVE bs[i] < bs[j]
      BY DEF Ordered
    <3>1. \A x, y \in 1..Len(blocks) : x < y => blocks[x] < blocks[y]
      BY <2>2 DEF IsList, Ordered
    <3>2. CASE j < k
      <4>1. /\ i \in 1..(Len(blocks) + 1) /\ j \in 1..(Len(blocks) + 1)
            /\ i \in 1..Len(blocks) /\ j \in 1..Len(blocks) /\ i < k
        BY <2>1, <2>2, <2>5, <3>2
      <4>2. bs[i] = blocks[i] /\ bs[j] = blocks[j]
        BY <2>4, <3>2, <4>1
      <4>. QED BY <3>1, <4>1, <4>2
    <3>3. CASE j = k
      <4>1. /\ i \in 1..(Len(blocks) + 1) /\ j \in 1..(Len(blocks) + 1)
            /\ i \in 1..Len(blocks) /\ i < k
        BY <2>1, <2>2, <2>5, <3>3
      <4>2. bs[i] = blocks[i] /\ bs[j] = n
        BY <2>4, <3>3, <4>1
      <4>. QED BY <2>1, <4>1, <4>2
    <3>4. CASE j > k
      <4>1. j - 1 \in 1..Len(blocks) /\ j - 1 >= k /\ bs[j] = blocks[j - 1] /\ blocks[j - 1] > n
        <5>1. /\ j - 1 \in 1..Len(blocks) /\ j - 1 >= k /\ j \in 1..(Len(blocks) + 1)
              /\ ~(j < k) /\ j # k
          BY <2>1, <2>2, <2>5, <3>4
        <5>2. bs[j] = blocks[j - 1]
          BY <2>4, <5>1
        <5>. QED BY <2>6, <5>1, <5>2
      <4>2. CASE i < k
        <5>1. i \in 1..Len(blocks) /\ i \in 1..(Len(blocks) + 1) /\ i < j - 1
          BY <2>1, <2>2, <2>5, <4>1, <4>2
        <5>2. bs[i] = blocks[i]
          BY <2>4, <4>2, <5>1
        <5>. QED BY <3>1, <4>1, <5>1, <5>2
      <4>3. CASE i = k
        BY <2>1, <2>4, <2>5, <4>1, <4>3
      <4>4. CASE i > k
        <5>1. i - 1 \in 1..Len(blocks) /\ bs[i] = blocks[i - 1] /\ i - 1 < j - 1
          <6>1. /\ i \in 1..(Len(blocks) + 1) /\ j \in 1..(Len(blocks) + 1) /\ i < j
                /\ k \in 1..(Len(blocks) + 1) /\ Len(blocks) \in Nat
            BY <2>1, <2>2, <2>5
          <6>2. i - 1 \in 1..Len(blocks) /\ i - 1 < j - 1 /\ ~(i < k) /\ i # k
            BY <4>4, <6>1
          <6>3. bs[i] = blocks[i - 1]
            BY <2>4, <6>1, <6>2
          <6>. QED BY <6>2, <6>3
        <5>. QED BY <3>1, <4>1, <5>1
      <4>. QED BY <2>1, <2>2, <2>5, <4>2, <4>3, <4>4
    <3>. QED BY <2>1, <2>2, <2>5, <3>2, <3>3, <3>4
  <2>8. Among(n, bs)
    BY <2>1, <2>4, <2>5 DEF Among
  <2>9. ASSUME NEW m, Among(m, blocks) PROVE Among(m, bs)
    <3>1. PICK i \in 1..Len(blocks) : blocks[i] = m
      BY <2>2, <2>9 DEF Among
    <3>2. CASE i < k /\ i \in DOMAIN bs /\ bs[i] = blocks[i]
      BY <3>1, <3>2 DEF Among
    <3>3. CASE i + 1 \in DOMAIN bs /\ bs[i + 1] = blocks[i]
      BY <3>1, <3>3 DEF Among
    <3>4. ASSUME i < k PROVE i \in DOMAIN bs /\ bs[i] = blocks[i]
      <4>1. i \in 1..(Len(blocks) + 1)
        BY <2>2
      <4>. QED BY <2>4, <2>5, <3>4, <4>1
    <3>5. ASSUME ~(i < k) PROVE i + 1 \in DOMAIN bs /\ bs[i + 1] = blocks[i]
      <4>1. i + 1 \in 1..(Len(blocks) + 1) /\ ~(i + 1 < k) /\ i + 1 # k /\ (i + 1) - 1 = i
        BY <2>1, <2>2, <3>5
      <4>2. bs[i + 1] = blocks[(i + 1) - 1]
        BY <2>4, <4>1
      <4>. QED BY <2>5, <4>1, <4>2
    <3>. QED BY <3>2, <3>3, <3>4, <3>5
  <2>. QED BY <2>3, <2>4, <2>7, <2>8, <2>9 DEF IsList
<1>. QED BY <1>1, <1>2

-----------------------------------------------------------------------------
(* Where a call can stand.                                                 *)

LEMMA StandFields ==
  ASSUME NEW c, NEW stage
  PROVE  /\ DOMAIN Stand(c, stage) = Fields /\ Stand(c, stage).stage = stage
         /\ Stand(c, stage).timestamp = c.timestamp /\ Stand(c, stage).since = c.since
         /\ Stand(c, stage).keep = c.keep /\ Stand(c, stage).sent = FALSE
  BY DEF Stand, NoCall, Fields

LEMMA NoCallOK == ASSUME NEW bs PROVE CallOK(NoCall, bs)
  BY DEF CallOK, StageOK, NoCall, Fields

LEMMA FieldNames ==
  Fields = {"stage", "timestamp", "since", "keep", "hints", "wanted", "initial", "distance",
            "multiplier", "start", "end", "number", "sent", "result"}
  BY DEF Fields, NoCall

LEMMA SameBase ==
  ASSUME NEW c, BaseOK(c), NEW d, d.timestamp = c.timestamp, d.since = c.since, d.keep = c.keep
  PROVE  BaseOK(d)
  BY DEF BaseOK

LEMMA DoneOK ==
  ASSUME NEW c, BaseOK(c), NEW r, Right(c.timestamp, c.since, r), NEW bs
  PROVE  CallOK(Done(c, r), bs)
<1> DEFINE d == Done(c, r)
<1>1. /\ DOMAIN d = Fields /\ d.stage = "done" /\ d.timestamp = c.timestamp
      /\ d.since = c.since /\ d.keep = c.keep /\ d.result = r
  BY StandFields, FieldNames DEF Done
<1> HIDE DEF d
<1>2. BaseOK(d)
  BY <1>1, SameBase
<1>3. StageOK(d, bs)
  BY <1>1 DEF StageOK
<1>4. CallOK(d, bs)
  BY <1>1, <1>2, <1>3 DEF CallOK
<1>. QED BY <1>4 DEF d

(* The next block to get lies strictly between the two.                    *)
LEMMA ClampedBetween ==
  ASSUME ChainOK, NEW a \in 0..head, NEW b \in 0..head, a + 1 < b, time[a] < time[b],
         NEW t \in Nat
  PROVE  Clamped(a, b, Estimated(a, b, t)) \in (a + 1)..(b - 1)
<1> DEFINE e == Estimated(a, b, t)
<1>1. e \in Int
  <2> DEFINE w == time[b] - time[a]
             x == 2 * (t - time[a]) * (b - a) + w
  <2>1. a \in Int /\ b \in Int /\ time[a] \in Int /\ time[b] \in Int
    BY TimeFacts DEF Blocks
  <2>2. w \in Nat \ {0} /\ x \in Int
    BY <2>1
  <2>3. e = a + x \div (2 * w)
    BY DEF Estimated
  <2> HIDE DEF w, x, e
  <2>4. 2 * w \in Nat \ {0}
    BY <2>2
  <2>5. x \div (2 * w) \in Int
    BY <2>2, <2>4
  <2>. QED BY <2>1, <2>3, <2>5
<1> HIDE DEF e
<1>2. a + 1 \in Int /\ b - 1 \in Int /\ head \in Nat
  BY TimeFacts
<1>3. Min({e, b - 1}) = IF e <= b - 1 THEN e ELSE b - 1
  BY <1>1, <1>2, MinOfTwo
<1>4. Min({e, b - 1}) \in Int /\ Min({e, b - 1}) <= b - 1
  BY <1>1, <1>2, <1>3
<1>5. Max({a + 1, Min({e, b - 1})}) = IF a + 1 >= Min({e, b - 1}) THEN a + 1 ELSE Min({e, b - 1})
  BY <1>2, <1>4, MaxOfTwo
<1>. QED BY <1>2, <1>4, <1>5 DEF Clamped, e

LEMMA FindFields ==
  ASSUME NEW c, NEW a, NEW b, NEW k
  PROVE  LET d == [Stand(c, "find") EXCEPT !.start = a, !.end = b, !.number = k]
         IN  /\ DOMAIN d = Fields /\ d.stage = "find" /\ d.timestamp = c.timestamp
             /\ d.since = c.since /\ d.keep = c.keep /\ d.start = a /\ d.end = b /\ d.number = k
<1> DEFINE s == Stand(c, "find")
<1>1. /\ DOMAIN s = Fields /\ s.timestamp = c.timestamp /\ s.since = c.since /\ s.keep = c.keep
  BY StandFields
<1>5. s.stage = "find"
  BY DEF Stand, NoCall
<1> HIDE DEF s
<1> DEFINE d == [s EXCEPT !.start = a, !.end = b, !.number = k]
<1>2. DOMAIN d = Fields
  BY <1>1
<1>3. d.stage = "find" /\ d.timestamp = c.timestamp /\ d.since = c.since /\ d.keep = c.keep
  BY <1>1, <1>5, FieldNames
<1>4. d.start = a /\ d.end = b /\ d.number = k
  BY <1>1, FieldNames
<1>. QED BY <1>2, <1>3, <1>4 DEF s

(* Between two blocks around the timestamp the answer is found, or a block *)
(* between them is asked for.                                              *)
LEMMA FindOK ==
  ASSUME ChainOK, NEW c, BaseOK(c), NEW a \in 0..head, NEW b \in 0..head, a < b,
         time[a] < c.timestamp, c.timestamp <= time[b], NEW bs
  PROVE  CallOK(Find(c, a, b), bs)
<1>1. /\ head \in Nat /\ a \in Blocks /\ b \in Blocks /\ 0..head \subseteq Blocks
      /\ c.timestamp \in Nat /\ time[a] \in Nat /\ time[b] \in Nat /\ c.since \in 0..head
  BY TimeFacts DEF BaseOK
<1>2. head \in c.since..head
  BY <1>1
<1>3. CASE time[b] = c.timestamp
  <2>1. Right(c.timestamp, c.since, b)
    BY <1>1, <1>2, <1>3 DEF Right
  <2>. QED BY <1>3, <2>1, DoneOK DEF Find
<1>4. CASE time[b] # c.timestamp /\ b = a + 1
  <2>1. ASSUME NEW n \in 0..head, time[n] <= c.timestamp PROVE time[n] <= time[a]
    <3>1. n \in Blocks /\ time[n] \in Nat
      BY <1>1, TimeFacts
    <3>2. ~(b <= n)
      <4>1. b <= n => time[b] <= time[n]
        BY <1>1, <3>1, TimeFacts
      <4>. QED BY <1>1, <1>4, <2>1, <3>1, <4>1
    <3>3. n <= a
      BY <1>1, <1>4, <3>2
    <3>. QED BY <1>1, <3>1, <3>3, TimeFacts
  <2>2. Right(c.timestamp, c.since, a)
    BY <1>1, <1>2, <2>1 DEF Right
  <2>. QED BY <1>4, <2>2, DoneOK DEF Find
<1>5. CASE time[b] # c.timestamp /\ b # a + 1
  <2> DEFINE k == Clamped(a, b, Estimated(a, b, c.timestamp))
             d == [Stand(c, "find") EXCEPT !.start = a, !.end = b, !.number = k]
  <2>1. k \in (a + 1)..(b - 1)
    BY <1>1, <1>5, ClampedBetween
  <2>2. /\ DOMAIN d = Fields /\ d.stage = "find" /\ d.timestamp = c.timestamp
        /\ d.since = c.since /\ d.keep = c.keep /\ d.start = a /\ d.end = b /\ d.number = k
    BY FindFields
  <2>3. Find(c, a, b) = d
    BY <1>1, <1>5 DEF Find
  <2> HIDE DEF k, d
  <2>4. /\ a < k /\ k < b /\ k \in 0..head /\ c.timestamp < time[b]
    BY <1>1, <1>5, <2>1
  <2>5. BaseOK(d)
    BY <2>2, SameBase
  <2>6. StageOK(d, bs)
    BY <2>2, <2>4 DEF StageOK
  <2>. QED BY <2>2, <2>3, <2>5, <2>6 DEF CallOK
<1>. QED BY <1>3, <1>4, <1>5

LEMMA FindAmongOK ==
  ASSUME ChainOK, NEW c, BaseOK(c), NEW bs, IsList(bs),
         \E n \in 0..head : Among(n, bs) /\ time[n] <= c.timestamp,
         \E n \in 0..head : Among(n, bs) /\ time[n] >= c.timestamp
  PROVE  CallOK(FindAmong(c, bs), bs)
<1> DEFINE t == c.timestamp
           i == IndexOfTime(bs, t)
<1>1. /\ Len(bs) \in Nat /\ DOMAIN bs = 1..Len(bs) /\ \A j \in 1..Len(bs) : bs[j] \in 0..head
      /\ t \in Nat /\ head \in Nat /\ 0..head \subseteq Blocks
  BY ListFacts, TimeFacts DEF BaseOK
<1>2. i \in 1..(Len(bs) + 1) /\ \A j \in 1..Len(bs) : time[bs[j]] < t <=> j < i
  BY <1>1, PlaceOfTime
<1>3. PICK lo \in 1..Len(bs) : time[bs[lo]] <= t
  BY <1>1 DEF Among
<1>4. PICK hi \in 1..Len(bs) : time[bs[hi]] >= t
  BY <1>1 DEF Among
<1>5. \A j \in 1..Len(bs) : time[bs[j]] \in Nat
  BY <1>1, TimeFacts
<1>6. FindAmong(c, bs) = IF time[bs[i]] = t THEN Done(c, bs[i]) ELSE Find(c, bs[i - 1], bs[i])
  BY DEF FindAmong
<1> HIDE DEF i, t
<1>7. i \in 1..Len(bs) /\ time[bs[i]] >= t
  <2>1. ~(hi < i)
    BY <1>1, <1>2, <1>4, <1>5
  <2>2. i \in 1..Len(bs)
    BY <1>1, <1>2, <2>1
  <2>. QED BY <1>1, <1>2, <1>5, <2>2
<1>8. CASE time[bs[i]] = t
  <2>1. Right(t, c.since, bs[i])
    <3>1. head \in c.since..head
      BY <1>1 DEF BaseOK
    <3>. QED BY <1>1, <1>7, <1>8, <3>1 DEF Right
  <2>. QED BY <1>6, <1>8, <2>1, DoneOK DEF t
<1>9. CASE time[bs[i]] # t
  <2>1. i # 1
    <3>1. i = 1 => time[bs[1]] <= time[bs[lo]]
      <4>1. bs[1] <= bs[lo]
        <5>1. lo = 1 \/ 1 < lo
          BY <1>1
        <5>2. bs[1] \in 0..head /\ bs[lo] \in 0..head /\ 1 \in DOMAIN bs /\ lo \in DOMAIN bs
          BY <1>1
        <5>3. 1 < lo => bs[1] < bs[lo]
          BY <5>2 DEF IsList, Ordered
        <5>. QED BY <1>1, <5>1, <5>2, <5>3
      <4>. QED BY <1>1, <1>7, <4>1, TimeFacts
    <3>2. time[bs[1]] \in Nat /\ time[bs[lo]] \in Nat /\ t \in Nat
      <4>1. 1 \in 1..Len(bs)
        BY <1>1, <1>7
      <4>. QED BY <1>1, <1>5, <4>1
    <3>3. time[bs[lo]] <= t
      BY <1>3
    <3>4. i = 1 => time[bs[1]] >= t /\ time[bs[1]] # t
      BY <1>7, <1>9
    <3>. QED BY <3>1, <3>2, <3>3, <3>4
  <2>2. i - 1 \in 1..Len(bs) /\ i - 1 < i
    BY <1>1, <1>7, <2>1
  <2>3. time[bs[i - 1]] < t /\ bs[i - 1] < bs[i]
    BY <1>1, <1>2, <1>7, <2>2 DEF IsList, Ordered
  <2>4. bs[i - 1] \in 0..head /\ bs[i] \in 0..head
    BY <1>1, <1>7, <2>2
  <2>. QED BY <1>6, <1>7, <1>9, <2>3, <2>4, FindOK DEF t
<1>. QED BY <1>8, <1>9
LEMMA CacheFields ==
  ASSUME NEW c, NEW hints
  PROVE  LET d == [Stand(c, "cache") EXCEPT !.hints = hints]
         IN  /\ DOMAIN d = Fields /\ d.stage = "cache" /\ d.timestamp = c.timestamp
             /\ d.since = c.since /\ d.keep = c.keep
             /\ d.hints = hints
<1> DEFINE s == Stand(c, "cache")
<1>1. /\ DOMAIN s = Fields /\ s.timestamp = c.timestamp /\ s.since = c.since /\ s.keep = c.keep
  BY StandFields
<1>2. s.stage = "cache"
  BY DEF Stand, NoCall
<1> HIDE DEF s
<1> DEFINE d == [s EXCEPT !.hints = hints]
<1>3. DOMAIN d = Fields
  BY <1>1
<1>4. d.stage = "cache" /\ d.timestamp = c.timestamp /\ d.since = c.since /\ d.keep = c.keep
  BY <1>1, <1>2, FieldNames
<1>5. d.hints = hints
  BY <1>1, FieldNames
<1>. QED BY <1>3, <1>4, <1>5 DEF s

LEMMA LatestFields ==
  ASSUME NEW c, NEW hints
  PROVE  LET d == [Stand(c, "latest") EXCEPT !.hints = hints]
         IN  /\ DOMAIN d = Fields /\ d.stage = "latest" /\ d.timestamp = c.timestamp
             /\ d.since = c.since /\ d.keep = c.keep
             /\ d.hints = hints
<1> DEFINE s == Stand(c, "latest")
<1>1. /\ DOMAIN s = Fields /\ s.timestamp = c.timestamp /\ s.since = c.since /\ s.keep = c.keep
  BY StandFields
<1>2. s.stage = "latest"
  BY DEF Stand, NoCall
<1> HIDE DEF s
<1> DEFINE d == [s EXCEPT !.hints = hints]
<1>3. DOMAIN d = Fields
  BY <1>1
<1>4. d.stage = "latest" /\ d.timestamp = c.timestamp /\ d.since = c.since /\ d.keep = c.keep
  BY <1>1, <1>2, FieldNames
<1>5. d.hints = hints
  BY <1>1, FieldNames
<1>. QED BY <1>3, <1>4, <1>5 DEF s

LEMMA HintFields ==
  ASSUME NEW c, NEW wanted
  PROVE  LET d == [Stand(c, "hints") EXCEPT !.wanted = wanted]
         IN  /\ DOMAIN d = Fields /\ d.stage = "hints" /\ d.timestamp = c.timestamp
             /\ d.since = c.since /\ d.keep = c.keep
             /\ d.wanted = wanted
<1> DEFINE s == Stand(c, "hints")
<1>1. /\ DOMAIN s = Fields /\ s.timestamp = c.timestamp /\ s.since = c.since /\ s.keep = c.keep
  BY StandFields
<1>2. s.stage = "hints"
  BY DEF Stand, NoCall
<1> HIDE DEF s
<1> DEFINE d == [s EXCEPT !.wanted = wanted]
<1>3. DOMAIN d = Fields
  BY <1>1
<1>4. d.stage = "hints" /\ d.timestamp = c.timestamp /\ d.since = c.since /\ d.keep = c.keep
  BY <1>1, <1>2, FieldNames
<1>5. d.wanted = wanted
  BY <1>1, FieldNames
<1>. QED BY <1>3, <1>4, <1>5 DEF s

LEMMA AverageFields ==
  ASSUME NEW c, NEW initial
  PROVE  LET d == [Stand(c, "average") EXCEPT !.initial = initial]
         IN  /\ DOMAIN d = Fields /\ d.stage = "average" /\ d.timestamp = c.timestamp
             /\ d.since = c.since /\ d.keep = c.keep
             /\ d.initial = initial
<1> DEFINE s == Stand(c, "average")
<1>1. /\ DOMAIN s = Fields /\ s.timestamp = c.timestamp /\ s.since = c.since /\ s.keep = c.keep
  BY StandFields
<1>2. s.stage = "average"
  BY DEF Stand, NoCall
<1> HIDE DEF s
<1> DEFINE d == [s EXCEPT !.initial = initial]
<1>3. DOMAIN d = Fields
  BY <1>1
<1>4. d.stage = "average" /\ d.timestamp = c.timestamp /\ d.since = c.since /\ d.keep = c.keep
  BY <1>1, <1>2, FieldNames
<1>5. d.initial = initial
  BY <1>1, FieldNames
<1>. QED BY <1>3, <1>4, <1>5 DEF s

LEMMA BackFields ==
  ASSUME NEW c, NEW initial, NEW distance, NEW multiplier, NEW number
  PROVE  LET d == [Stand(c, "back") EXCEPT !.initial = initial, !.distance = distance, !.multiplier = multiplier,
                                           !.number = number]
         IN  /\ DOMAIN d = Fields /\ d.stage = "back" /\ d.timestamp = c.timestamp
             /\ d.since = c.since /\ d.keep = c.keep
             /\ d.initial = initial /\ d.distance = distance /\ d.multiplier = multiplier /\ d.number = number
<1> DEFINE s == Stand(c, "back")
<1>1. /\ DOMAIN s = Fields /\ s.timestamp = c.timestamp /\ s.since = c.since /\ s.keep = c.keep
  BY StandFields
<1>2. s.stage = "back"
  BY DEF Stand, NoCall
<1> HIDE DEF s
<1> DEFINE d == [s EXCEPT !.initial = initial, !.distance = distance, !.multiplier = multiplier,
                                           !.number = number]
<1>3. DOMAIN d = Fields
  BY <1>1
<1>4. d.stage = "back" /\ d.timestamp = c.timestamp /\ d.since = c.since /\ d.keep = c.keep
  BY <1>1, <1>2, FieldNames
<1>5. d.initial = initial /\ d.distance = distance /\ d.multiplier = multiplier /\ d.number = number
  BY <1>1, FieldNames
<1>. QED BY <1>3, <1>4, <1>5 DEF s

LEMMA CheckFirstOK ==
  ASSUME ChainOK, NEW c, BaseOK(c), NEW bs, IsList(bs),
         \E n \in 0..head : Among(n, bs) /\ time[n] >= c.timestamp
  PROVE  CallOK(CheckFirst(c, bs), bs)
<1>1. /\ Len(bs) \in Nat /\ DOMAIN bs = 1..Len(bs) /\ \A j \in 1..Len(bs) : bs[j] \in 0..head
      /\ 0..head \subseteq Blocks /\ c.timestamp \in Nat
  BY ListFacts, TimeFacts DEF BaseOK
<1>2. 1 \in DOMAIN bs /\ bs[1] \in 0..head /\ Among(bs[1], bs) /\ time[bs[1]] \in Nat
  <2>1. 1 \in DOMAIN bs
    BY <1>1 DEF Among
  <2>. QED BY <1>1, <2>1, TimeFacts DEF Among
<1>3. CASE time[bs[1]] > c.timestamp
  <2> DEFINE d == [Stand(c, "average") EXCEPT !.initial = bs[1]]
  <2>1. /\ DOMAIN d = Fields /\ d.stage = "average" /\ d.timestamp = c.timestamp
        /\ d.since = c.since /\ d.keep = c.keep /\ d.initial = bs[1]
    BY AverageFields
  <2>2. CheckFirst(c, bs) = d
    BY <1>3 DEF CheckFirst
  <2> HIDE DEF d
  <2>3. BaseOK(d)
    BY <2>1, SameBase
  <2>4. StageOK(d, bs)
    BY <1>2, <1>3, <2>1 DEF StageOK
  <2>. QED BY <2>1, <2>2, <2>3, <2>4 DEF CallOK
<1>4. CASE ~(time[bs[1]] > c.timestamp)
  <2>1. time[bs[1]] <= c.timestamp
    BY <1>1, <1>2, <1>4
  <2>2. CheckFirst(c, bs) = FindAmong(c, bs)
    BY <1>4 DEF CheckFirst
  <2>. QED BY <1>2, <2>1, <2>2, FindAmongOK
<1>. QED BY <1>3, <1>4

LEMMA AskHintsOK ==
  ASSUME ChainOK, NEW c, BaseOK(c), NEW bs, IsList(bs), NEW hints \in SUBSET (0..head),
         \E n \in 0..head : Among(n, bs) /\ time[n] >= c.timestamp
  PROVE  CallOK(AskHints(c, bs, hints), bs)
<1> DEFINE wanted == {n \in hints : ~Holds(bs, n)}
           d == [Stand(c, "hints") EXCEPT !.wanted = wanted]
<1>1. CASE wanted = {}
  BY <1>1, CheckFirstOK DEF AskHints
<1>2. CASE wanted # {}
  <2>1. /\ DOMAIN d = Fields /\ d.stage = "hints" /\ d.timestamp = c.timestamp
        /\ d.since = c.since /\ d.keep = c.keep /\ d.wanted = wanted
    BY HintFields
  <2>2. AskHints(c, bs, hints) = d
    BY <1>2 DEF AskHints
  <2>3. wanted \subseteq 0..head
    OBVIOUS
  <2> HIDE DEF d, wanted
  <2>4. BaseOK(d)
    BY <2>1, SameBase
  <2>5. StageOK(d, bs)
    BY <2>1, <2>3 DEF StageOK
  <2>. QED BY <2>1, <2>2, <2>4, <2>5 DEF CallOK
<1>. QED BY <1>1, <1>2

LEMMA ResolveOK ==
  ASSUME ChainOK, IsList(blocks), NEW c, BaseOK(c), NEW hints \in SUBSET (0..head)
  PROVE  CallOK(Resolve(c, hints), blocks)
<1>1. CASE NeedsLatest(blocks, c.timestamp)
  <2> DEFINE d == [Stand(c, "latest") EXCEPT !.hints = hints]
  <2>1. /\ DOMAIN d = Fields /\ d.stage = "latest" /\ d.timestamp = c.timestamp
        /\ d.since = c.since /\ d.keep = c.keep /\ d.hints = hints
    BY LatestFields
  <2>2. Resolve(c, hints) = d
    BY <1>1 DEF Resolve
  <2> HIDE DEF d
  <2>3. BaseOK(d)
    BY <2>1, SameBase
  <2>4. StageOK(d, blocks)
    BY <2>1 DEF StageOK
  <2>. QED BY <2>1, <2>2, <2>3, <2>4 DEF CallOK
<1>2. CASE ~NeedsLatest(blocks, c.timestamp)
  <2>1. \E n \in 0..head : Among(n, blocks) /\ time[n] >= c.timestamp
    <3>1. /\ blocks # <<>> /\ blocks \in Seq(0..head) /\ c.timestamp \in Nat
          /\ ~(time[blocks[Len(blocks)]] < c.timestamp)
      BY <1>2 DEF NeedsLatest, Last, IsList, BaseOK
    <3>2. Len(blocks) \in DOMAIN blocks
      BY <3>1, EmptySeq, LenProperties
    <3>3. blocks[Len(blocks)] \in 0..head /\ time[blocks[Len(blocks)]] \in Nat
      BY <3>2, ListFacts, TimeFacts
    <3>. QED BY <3>1, <3>2, <3>3 DEF Among
  <2>2. Resolve(c, hints) = AskHints(c, blocks, hints)
    BY <1>2 DEF Resolve
  <2>. QED BY <2>1, <2>2, AskHintsOK
<1>. QED BY <1>1, <1>2

LEMMA StepBackOK ==
  ASSUME ChainOK, NEW c, BaseOK(c), NEW bs, NEW initial \in 0..head, Among(initial, bs),
         time[initial] > c.timestamp, NEW distance \in Nat, NEW multiplier \in Nat
  PROVE  CallOK(StepBack(c, initial, distance, multiplier), bs)
<1> DEFINE number == Max({0, initial - multiplier * distance})
           d == [Stand(c, "back") EXCEPT !.initial = initial, !.distance = distance,
                                         !.multiplier = multiplier, !.number = number]
<1>1. number \in 0..head
  <2>1. multiplier * distance \in Nat /\ head \in Nat
    BY TimeFacts
  <2> DEFINE x == initial - multiplier * distance
  <2>2. x \in Int /\ x <= initial
    BY <2>1
  <2>3. Max({0, x}) = IF 0 >= x THEN 0 ELSE x
    BY <2>2, MaxOfTwo
  <2> HIDE DEF x
  <2>4. Max({0, x}) \in 0..head
    BY <2>1, <2>2, <2>3
  <2>. QED BY <2>4 DEF x
<1>2. StepBack(c, initial, distance, multiplier) = d
  BY DEF StepBack
<1> HIDE DEF number
<1>3. /\ DOMAIN d = Fields /\ d.stage = "back" /\ d.timestamp = c.timestamp
      /\ d.since = c.since /\ d.keep = c.keep
      /\ d.initial = initial /\ d.distance = distance /\ d.multiplier = multiplier
      /\ d.number = number
  BY BackFields
<1> HIDE DEF d
<1>4. BaseOK(d)
  BY <1>3, SameBase
<1>5. StageOK(d, bs)
  BY <1>1, <1>3 DEF StageOK
<1>. QED BY <1>2, <1>3, <1>4, <1>5 DEF CallOK

(* The search goes on from the block it was waiting for.                   *)
LEMMA GoOnOK ==
  ASSUME ChainOK, NEW bs, IsList(bs), NEW c, CallOK(c, bs), c.stage \in {"back", "find"},
         Among(c.number, bs)
  PROVE  CallOK(GoOn(c, bs), bs)
<1>1. BaseOK(c) /\ StageOK(c, bs) /\ c.timestamp \in Nat
  BY DEF CallOK, BaseOK
<1>2. CASE c.stage = "find"
  <2>1. /\ c.start \in 0..head /\ c.number \in 0..head /\ c.end \in 0..head
        /\ c.start < c.number /\ c.number < c.end
        /\ time[c.start] < c.timestamp /\ c.timestamp < time[c.end]
    BY <1>1, <1>2 DEF StageOK
  <2>2. time[c.number] \in Nat /\ time[c.end] \in Nat
    BY <2>1, TimeFacts
  <2>3. GoOn(c, bs) = IF time[c.number] < c.timestamp THEN Find(c, c.number, c.end)
                                                      ELSE Find(c, c.start, c.number)
    BY <1>2 DEF GoOn, Narrowed
  <2>4. CASE time[c.number] < c.timestamp
    <3>1. c.timestamp <= time[c.end]
      BY <1>1, <2>1, <2>2
    <3>. QED BY <1>1, <2>1, <2>3, <2>4, <3>1, FindOK
  <2>5. CASE ~(time[c.number] < c.timestamp)
    <3>1. c.timestamp <= time[c.number]
      BY <1>1, <2>2, <2>5
    <3>. QED BY <1>1, <2>1, <2>3, <2>5, <3>1, FindOK
  <2>. QED BY <2>4, <2>5
<1>3. CASE c.stage = "back"
  <2>1. /\ c.initial \in 0..head /\ Among(c.initial, bs) /\ time[c.initial] > c.timestamp
        /\ c.number \in 0..head /\ c.distance \in Nat /\ c.multiplier \in Nat
    BY <1>1, <1>3 DEF StageOK
  <2>2. time[c.number] \in Nat /\ time[c.initial] \in Nat /\ time[c.initial] >= c.timestamp
    BY <1>1, <2>1, TimeFacts
  <2>3. CASE time[c.number] <= c.timestamp
    <3>1. GoOn(c, bs) = FindAmong(c, bs)
      BY <1>3, <2>3 DEF GoOn
    <3>. QED BY <1>1, <2>1, <2>2, <2>3, <3>1, FindAmongOK
  <2>4. CASE ~(time[c.number] <= c.timestamp) /\ c.number = 0
    <3>1. GoOn(c, bs) = Done(c, Thrown)
      BY <1>3, <2>4 DEF GoOn
    <3>2. Right(c.timestamp, c.since, Thrown)
      BY <1>1, <2>2, <2>4 DEF Right
    <3>. QED BY <1>1, <3>1, <3>2, DoneOK
  <2>5. CASE ~(time[c.number] <= c.timestamp) /\ c.number # 0
    <3> DEFINE m == Min({c.multiplier + 1, LastBlock + 1})
    <3>1. m \in Nat
      <4>1. c.multiplier + 1 \in Nat /\ LastBlock + 1 \in Nat
        BY <2>1, TimeFacts
      <4>2. m = IF c.multiplier + 1 <= LastBlock + 1 THEN c.multiplier + 1 ELSE LastBlock + 1
        BY <4>1, MinOfTwo
      <4> HIDE DEF m
      <4>. QED BY <4>1, <4>2
    <3>2. GoOn(c, bs) = StepBack(c, c.initial, c.distance, m)
      BY <1>3, <2>5 DEF GoOn
    <3> HIDE DEF m
    <3>. QED BY <1>1, <2>1, <3>1, <3>2, StepBackOK
  <2>. QED BY <2>3, <2>4, <2>5
<1>. QED BY <1>2, <1>3

-----------------------------------------------------------------------------
(* Every action keeps the invariant.                                       *)

LEMMA ListStays == ASSUME ChainOK, ChainOK', head <= head', NEW bs, IsList(bs) PROVE IsList(bs)'
<1>1. 0..head \subseteq 0..head'
  BY DEF ChainOK, Blocks
<1>2. bs \in Seq(0..head')
  BY <1>1, SeqMonotonic DEF IsList
<1>. QED BY <1>2 DEF IsList, Ordered

LEMMA RightStays ==
  ASSUME ChainOK, ChainOK', UNCHANGED time, head <= head', NEW t, NEW since, NEW r,
         Right(t, since, r)
  PROVE  Right(t, since, r)'
<1>1. head \in Nat /\ head' \in Nat
  BY TimeFacts DEF ChainOK, Blocks
<1>2. \A h \in since..head : h \in since..head'
  BY <1>1
<1>. QED BY <1>1, <1>2 DEF Right

LEMMA CallStays ==
  ASSUME ChainOK, ChainOK', UNCHANGED time, head <= head', NEW c, NEW bs, NEW more,
         \A m : Among(m, bs) => Among(m, more), CallOK(c, bs)
  PROVE  CallOK(c, more)'
<1>1. head \in Nat /\ head' \in Nat /\ 0..head \subseteq 0..head'
  BY DEF ChainOK, Blocks
<1>2. c.stage # "idle" => BaseOK(c)'
  BY <1>1 DEF CallOK, BaseOK
<1>3. StageOK(c, more)'
  <2>1. c.stage = "done" => Right(c.timestamp, c.since, c.result)'
    BY RightStays DEF CallOK, StageOK
  <2>2. \A m : Among(m, more)' <=> Among(m, more)
    BY DEF Among
  <2>3. StageOK(c, bs)
    BY DEF CallOK
  <2>4. c.stage \in {"idle", "cache", "latest", "hints", "average", "sample", "back", "find",
                     "done"}
    BY <2>3 DEF StageOK
  <2>5. c.stage \in {"cache", "latest"} => c.hints \subseteq 0..head'
    BY <1>1, <2>3 DEF StageOK
  <2>6. c.stage = "hints" =>
          /\ c.wanted \subseteq 0..head'
          /\ \E n \in 0..head' : Among(n, more) /\ time[n] >= c.timestamp
    BY <1>1, <2>3 DEF StageOK
  <2>7. c.stage \in {"average", "sample", "back"} =>
          c.initial \in 0..head' /\ Among(c.initial, more) /\ time[c.initial] > c.timestamp
    BY <1>1, <2>3 DEF StageOK
  <2>8. c.stage = "back" => c.number \in 0..head' /\ c.distance \in Nat /\ c.multiplier \in Nat
    BY <1>1, <2>3 DEF StageOK
  <2>9. c.stage = "find" =>
          /\ c.start \in 0..head' /\ c.number \in 0..head' /\ c.end \in 0..head'
          /\ c.start < c.number /\ c.number < c.end
          /\ time[c.start] < c.timestamp /\ c.timestamp < time[c.end]
    BY <1>1, <2>3 DEF StageOK
  <2>. QED BY <2>1, <2>2, <2>4, <2>5, <2>6, <2>7, <2>8, <2>9 DEF StageOK
<1>. QED BY <1>2, <1>3 DEF CallOK, Fields, NoCall

(* One call moves, and may have inserted a block.                          *)
LEMMA OneCallMoves ==
  ASSUME IInv, UNCHANGED chain, NEW u \in Callers, NEW c, call' = [call EXCEPT ![u] = c],
         CallOK(c, blocks'), IsList(blocks'),
         \A m : Among(m, blocks) => Among(m, blocks')
  PROVE  ChainOK' /\ IsList(blocks)' /\ CallsOK'
<1>1. ChainOK /\ ChainOK' /\ time' = time /\ head' = head /\ head <= head'
  BY TimeFacts DEF IInv, ChainOK, chain, Blocks
<1>2. IsList(blocks)'
  BY <1>1 DEF IsList, Ordered
<1>3. ASSUME NEW v \in Callers PROVE CallOK(call[v], blocks)'
  <2>1. CASE v = u
    <3>1. call'[v] = c
      BY <2>1 DEF IInv, CallsOK
    <3>2. CallOK(c, blocks') /\ \A m : Among(m, blocks') => Among(m, blocks')
      OBVIOUS
    <3>. QED BY <1>1, <3>1, <3>2, CallStays
  <2>2. CASE v # u
    <3>1. call'[v] = call[v] /\ CallOK(call[v], blocks)
      BY <2>2 DEF IInv, CallsOK
    <3>. QED BY <1>1, <3>1, CallStays
  <2>. QED BY <2>1, <2>2
<1>. QED BY <1>1, <1>2, <1>3 DEF IInv, CallsOK

LEMMA CacheStays ==
  ASSUME CacheOK, ChainOK, ChainOK', UNCHANGED <<time, cache>>, head <= head'
  PROVE  CacheOK'
<1>1. 0..head \subseteq 0..head'
  BY DEF ChainOK, Blocks
<1>. QED BY <1>1 DEF CacheOK, Final

(* The clock and the chain go on.                                          *)
LEMMA ChainMoves ==
  ASSUME IInv, ChainOK', UNCHANGED <<time, blocks, blockTimes, cache, call>>, head <= head'
  PROVE  IInv'
<1>1. IsList(blocks)'
  BY ListStays DEF IInv
<1>2. CacheOK' /\ AveragesOK'
  BY CacheStays DEF IInv, AveragesOK
<1>3. ASSUME NEW u \in Callers PROVE CallOK(call[u], blocks)'
  BY CallStays DEF IInv, CallsOK
<1>. QED BY <1>1, <1>2, <1>3 DEF IInv, CallsOK

LEMMA InitOK == Init => IInv
<1> SUFFICES ASSUME Init PROVE IInv
  OBVIOUS
<1>1. ChainOK
  <2> DEFINE T == {n \in Blocks : time[n] <= now}
  <2>1. /\ time \in TimeLines /\ now = StartTime /\ head = Max(T)
        /\ LastBlock \in Nat /\ StartTime \in Nat /\ MaxDelay \in Nat
    BY TimeAssumption, CallAssumption DEF Init
  <2>2. \A n \in Blocks : time[n] \in Nat
    BY <2>1, TimeAssumption
  <2>3. 0 \in T
    BY <2>1, TimeAssumption DEF Blocks
  <2>4. T \in SUBSET Nat /\ \A n \in T : n <= LastBlock
    BY <2>1 DEF Blocks
  <2>5. head \in T /\ \A n \in T : n <= head
    BY <2>1, <2>3, <2>4, GreatestNumber
  <2>6. ASSUME NEW n \in Blocks, time[n] + MaxDelay < now PROVE n <= head
    <3>1. n \in T
      BY <2>1, <2>2, <2>6
    <3>. QED BY <2>5, <3>1
  <2>. QED BY <2>1, <2>5, <2>6 DEF ChainOK
<1>2. IsList(blocks)
  BY DEF Init, IsList, Ordered
<1>3. AveragesOK
  BY AverageAssumption DEF Init, AveragesOK
<1>4. CacheOK
  BY DEF Init, CacheOK
<1>5. CallsOK
  BY NoCallOK DEF Init, CallsOK
<1>. QED BY <1>1, <1>2, <1>3, <1>4, <1>5 DEF IInv

LEMMA TickOK == ASSUME IInv, Tick PROVE IInv'
<1>1. ChainOK'
  <2>1. ASSUME NEW n \in Blocks, time[n] + MaxDelay < now + 1 PROVE n <= head
    <3>1. time[n] \in Nat /\ MaxDelay \in Nat /\ now \in Nat
      BY TimeFacts, CallAssumption DEF IInv, ChainOK
    <3>. QED BY <2>1, <3>1 DEF Tick
  <2>. QED BY <2>1 DEF IInv, ChainOK, Tick
<1>2. head <= head'
  BY TimeFacts DEF IInv, Tick
<1>. QED BY <1>1, <1>2, ChainMoves DEF Tick

LEMMA MineBlockOK == ASSUME IInv, MineBlock PROVE IInv'
<1>1. head \in Nat /\ LastBlock \in Nat /\ ChainOK
  BY TimeFacts DEF IInv
<1>2. ChainOK' /\ head <= head'
  BY <1>1 DEF ChainOK, MineBlock, Blocks
<1>. QED BY <1>2, ChainMoves DEF MineBlock

(* A call that moves, with the list, the averages or the cache it leaves.  *)
LEMMA Moves ==
  ASSUME IInv, UNCHANGED <<chain, blocks, blockTimes, cache>>, NEW u \in Callers, NEW c,
         call' = [call EXCEPT ![u] = c], CallOK(c, blocks)
  PROVE  IInv'
<1>1. ChainOK' /\ IsList(blocks)' /\ CallsOK'
  BY OneCallMoves DEF IInv
<1>2. CacheOK' /\ AveragesOK'
  <2>1. head <= head'
    BY TimeFacts DEF IInv, chain
  <2>. QED BY <1>1, <2>1, CacheStays DEF IInv, AveragesOK, chain
<1>. QED BY <1>1, <1>2 DEF IInv

LEMMA MovesWithBlock ==
  ASSUME IInv, UNCHANGED <<chain, blockTimes, cache>>, NEW u \in Callers, NEW c,
         call' = [call EXCEPT ![u] = c], NEW n \in 0..head, blocks' = WithBlock(n),
         CallOK(c, blocks')
  PROVE  IInv'
<1>1. IsList(blocks') /\ \A m : Among(m, blocks) => Among(m, blocks')
  BY WithBlockOK, TimeFacts DEF IInv
<1>2. ChainOK' /\ IsList(blocks)' /\ CallsOK'
  BY <1>1, OneCallMoves
<1>3. CacheOK' /\ AveragesOK'
  <2>1. head <= head'
    BY TimeFacts DEF IInv, chain
  <2>. QED BY <1>2, <2>1, CacheStays DEF IInv, AveragesOK, chain
<1>. QED BY <1>2, <1>3 DEF IInv

(* What a call knows stays true as the list grows.                         *)
LEMMA MoreBlocks ==
  ASSUME NEW c, NEW bs, CallOK(c, bs), NEW more, \A m : Among(m, bs) => Among(m, more)
  PROVE  CallOK(c, more)
<1>1. StageOK(c, bs)
  BY DEF CallOK
<1>2. StageOK(c, more)
  <2>1. c.stage = "hints" => \E n \in 0..head : Among(n, more) /\ time[n] >= c.timestamp
    BY <1>1 DEF StageOK
  <2>2. c.stage \in {"average", "sample", "back"} => Among(c.initial, more)
    BY <1>1 DEF StageOK
  <2>. QED BY <1>1, <2>1, <2>2 DEF StageOK
<1>. QED BY <1>2 DEF CallOK

(* A call is made: an answer that it may cache is final, for the blocks    *)
(* up to its timestamp are all shown by then.                              *)
LEMMA NewCall ==
  ASSUME ChainOK, NEW t \in Timestamps, NEW keep, keep = ShouldCache(t)
  PROVE  BaseOK([NoCall EXCEPT !.timestamp = t, !.since = head, !.keep = keep])
<1> DEFINE c == [NoCall EXCEPT !.timestamp = t, !.since = head, !.keep = keep]
<1>1. c.timestamp = t /\ c.since = head /\ c.keep = keep
  BY DEF NoCall
<1>2. /\ t \in Nat /\ head \in 0..head /\ keep \in BOOLEAN
      /\ now \in Nat /\ Lag \in Nat /\ MaxDelay \in Nat /\ MaxDelay < Lag
  BY CallAssumption, LagAssumption, TimeFacts DEF ChainOK, ShouldCache
<1>3. ASSUME keep, NEW n \in Blocks, time[n] <= t PROVE n <= head
  <2>1. now - t >= Lag /\ time[n] \in Nat
    BY <1>3, TimeFacts DEF ShouldCache
  <2>2. time[n] + MaxDelay < now
    BY <1>2, <1>3, <2>1
  <2>. QED BY <2>2 DEF ChainOK
<1> HIDE DEF c
<1>4. BaseOK(c)
  BY <1>1, <1>2, <1>3 DEF BaseOK
<1>. QED BY <1>4 DEF c

LEMMA StartOK == ASSUME IInv, NEW u \in Callers, Start(u) PROVE IInv'
<1>1. PICK t \in Timestamps, hints \in Hints :
        LET c == [NoCall EXCEPT !.timestamp = t, !.since = head, !.keep = ShouldCache(t)]
        IN  /\ t <= now /\ \A n \in hints : n <= head
            /\ call' = [call EXCEPT ![u] =
                 IF c.keep THEN [Stand(c, "cache") EXCEPT !.hints = hints] ELSE Resolve(c, hints)]
  BY DEF Start
<1> DEFINE c == [NoCall EXCEPT !.timestamp = t, !.since = head, !.keep = ShouldCache(t)]
           d == [Stand(c, "cache") EXCEPT !.hints = hints]
<1>2. ChainOK /\ IsList(blocks) /\ UNCHANGED <<chain, blocks, blockTimes, cache>>
  BY DEF IInv, Start
<1>3. BaseOK(c)
  BY <1>2, NewCall
<1>4. hints \in SUBSET (0..head)
  BY <1>1, <1>2, CallAssumption, TimeFacts DEF Blocks
<1>5. call' = [call EXCEPT ![u] = IF c.keep THEN d ELSE Resolve(c, hints)]
  BY <1>1
<1>6. /\ DOMAIN d = Fields /\ d.stage = "cache" /\ d.timestamp = c.timestamp
      /\ d.since = c.since /\ d.keep = c.keep /\ d.hints = hints
  BY CacheFields
<1> HIDE DEF c, d
<1>7. CallOK(d, blocks)
  <2>1. BaseOK(d)
    BY <1>3, <1>6, SameBase
  <2>2. StageOK(d, blocks)
    BY <1>4, <1>6 DEF StageOK
  <2>. QED BY <1>6, <2>1, <2>2 DEF CallOK
<1>8. CallOK(Resolve(c, hints), blocks)
  BY <1>2, <1>3, <1>4, ResolveOK
<1> DEFINE e == IF c.keep THEN d ELSE Resolve(c, hints)
<1>9. CallOK(e, blocks) /\ call' = [call EXCEPT ![u] = e]
  BY <1>5, <1>7, <1>8
<1> HIDE DEF e
<1>. QED BY <1>2, <1>9, Moves

(* An answer whose keep is no longer set.                                  *)
LEMMA Kept ==
  ASSUME NEW c, NEW bs, CallOK(c, bs), c.stage = "done"
  PROVE  CallOK([c EXCEPT !.keep = FALSE], bs)
<1> DEFINE d == [c EXCEPT !.keep = FALSE]
<1>1. DOMAIN c = Fields /\ BaseOK(c) /\ Right(c.timestamp, c.since, c.result)
  BY DEF CallOK, StageOK
<1>2. DOMAIN d = Fields
  BY <1>1
<1>3. /\ d.stage = "done" /\ d.timestamp = c.timestamp /\ d.since = c.since /\ d.keep = FALSE
      /\ d.result = c.result
  BY <1>1, FieldNames
<1> HIDE DEF d
<1>4. BaseOK(d)
  BY <1>1, <1>3 DEF BaseOK
<1>5. StageOK(d, bs)
  BY <1>1, <1>3 DEF StageOK
<1>6. CallOK(d, bs)
  BY <1>2, <1>4, <1>5 DEF CallOK
<1>. QED BY <1>6 DEF d

LEMMA FromCacheOK == ASSUME IInv, NEW u \in Callers, FromCache(u) PROVE IInv'
<1> DEFINE c == call[u]
           r == cache[c.timestamp]
           d == Done(c, r)
<1>1. /\ ChainOK /\ IsList(blocks) /\ CallOK(c, blocks) /\ c.stage = "cache"
      /\ UNCHANGED <<chain, blocks, blockTimes, cache>>
      /\ call' = [call EXCEPT ![u] = IF c.timestamp \in DOMAIN cache THEN [d EXCEPT !.keep = FALSE]
                                     ELSE Resolve(c, c.hints)]
  BY DEF IInv, CallsOK, FromCache
<1>2. BaseOK(c) /\ c.hints \in SUBSET (0..head) /\ CacheOK
  BY <1>1 DEF IInv, CallOK, StageOK
<1> HIDE DEF c
<1>3. CASE c.timestamp \in DOMAIN cache
  <2>1. Final(c.timestamp, r)
    BY <1>2, <1>3 DEF CacheOK
  <2>2. Right(c.timestamp, c.since, r)
    <3>1. head \in c.since..head /\ 0..head \subseteq Blocks /\ head \in Nat
      BY <1>1, <1>2, TimeFacts DEF BaseOK
    <3>. QED BY <2>1, <3>1 DEF Right, Final
  <2>3. CallOK(d, blocks)
    BY <1>2, <2>2, DoneOK
  <2>4. d.stage = "done"
    BY DEF Done, Stand, NoCall
  <2> HIDE DEF d
  <2>5. CallOK([d EXCEPT !.keep = FALSE], blocks)
    BY <2>3, <2>4, Kept
  <2>6. call' = [call EXCEPT ![u] = [d EXCEPT !.keep = FALSE]]
    BY <1>1, <1>3
  <2>. QED BY <1>1, <2>5, <2>6, Moves
<1>4. CASE ~(c.timestamp \in DOMAIN cache)
  <2>1. call' = [call EXCEPT ![u] = Resolve(c, c.hints)]
    BY <1>1, <1>4
  <2>2. CallOK(Resolve(c, c.hints), blocks)
    BY <1>1, <1>2, ResolveOK
  <2>. QED BY <1>1, <2>1, <2>2, Moves
<1>. QED BY <1>3, <1>4

LEMMA LatestBlockOK == ASSUME IInv, NEW u \in Callers, LatestBlock(u) PROVE IInv'
<1> DEFINE c == call[u]
<1>1. /\ ChainOK /\ CallOK(c, blocks) /\ c.stage = "latest" /\ blocks' = WithBlock(head)
      /\ UNCHANGED <<chain, blockTimes, cache>>
      /\ call' = [call EXCEPT ![u] = IF c.timestamp >= time[head] THEN Done(c, head)
                                     ELSE AskHints(c, blocks', c.hints)]
  BY DEF IInv, CallsOK, LatestBlock
<1>2. BaseOK(c) /\ c.hints \in SUBSET (0..head)
  BY <1>1 DEF CallOK, StageOK
<1>3. head \in Nat /\ head \in 0..head /\ head \in Blocks /\ time[head] \in Nat /\ c.timestamp \in Nat
  BY <1>1, <1>2, TimeFacts DEF BaseOK
<1>4. IsList(blocks') /\ Among(head, blocks')
  BY <1>1, <1>3, WithBlockOK DEF IInv
<1> HIDE DEF c
<1>5. CASE c.timestamp >= time[head]
  <2>1. Right(c.timestamp, c.since, head)
    <3>1. \A n \in 0..head : time[n] <= time[head]
      BY <1>1, <1>3, TimeFacts
    <3>2. head \in c.since..head
      BY <1>2, <1>3 DEF BaseOK
    <3>. QED BY <1>3, <1>5, <3>1, <3>2 DEF Right
  <2>2. CallOK(Done(c, head), blocks')
    BY <1>2, <2>1, DoneOK
  <2>3. call' = [call EXCEPT ![u] = Done(c, head)]
    BY <1>1, <1>5
  <2>. QED BY <1>1, <1>3, <2>2, <2>3, MovesWithBlock
<1>6. CASE ~(c.timestamp >= time[head])
  <2>1. time[head] >= c.timestamp
    BY <1>3, <1>6
  <2>2. CallOK(AskHints(c, blocks', c.hints), blocks')
    BY <1>1, <1>2, <1>3, <1>4, <2>1, AskHintsOK
  <2>3. call' = [call EXCEPT ![u] = AskHints(c, blocks', c.hints)]
    BY <1>1, <1>6
  <2>. QED BY <1>1, <1>3, <2>2, <2>3, MovesWithBlock
<1>. QED BY <1>5, <1>6

LEMMA HintBlockOK == ASSUME IInv, NEW u \in Callers, HintBlock(u) PROVE IInv'
<1> DEFINE c == call[u]
<1>1. PICK n \in c.wanted :
        /\ blocks' = WithBlock(n)
        /\ call' = [call EXCEPT ![u] = IF c.wanted = {n} THEN CheckFirst(c, blocks')
                                       ELSE [c EXCEPT !.wanted = @ \ {n}]]
  BY DEF HintBlock
<1>2. /\ ChainOK /\ CallOK(c, blocks) /\ c.stage = "hints" /\ UNCHANGED <<chain, blockTimes, cache>>
  BY DEF IInv, CallsOK, HintBlock
<1>3. BaseOK(c) /\ DOMAIN c = Fields /\ c.wanted \subseteq 0..head /\ n \in 0..head
  BY <1>2 DEF CallOK, StageOK
<1>4. IsList(blocks') /\ \A m : Among(m, blocks) => Among(m, blocks')
  BY <1>1, <1>2, <1>3, WithBlockOK, TimeFacts DEF IInv
<1> HIDE DEF c
<1>5. CallOK(c, blocks')
  BY <1>2, <1>4, MoreBlocks
<1>6. \E m \in 0..head : Among(m, blocks') /\ time[m] >= c.timestamp
  BY <1>2, <1>5 DEF CallOK, StageOK
<1>7. CASE c.wanted = {n}
  <2>1. CallOK(CheckFirst(c, blocks'), blocks')
    BY <1>2, <1>3, <1>4, <1>6, CheckFirstOK
  <2>2. call' = [call EXCEPT ![u] = CheckFirst(c, blocks')]
    BY <1>1, <1>7
  <2>. QED BY <1>1, <1>2, <1>3, <2>1, <2>2, MovesWithBlock
<1>8. CASE c.wanted # {n}
  <2> DEFINE d == [c EXCEPT !.wanted = @ \ {n}]
  <2>1. DOMAIN d = Fields
    BY <1>3
  <2>2. /\ d.stage = "hints" /\ d.timestamp = c.timestamp /\ d.since = c.since /\ d.keep = c.keep
        /\ d.wanted = c.wanted \ {n}
    BY <1>2, <1>3, FieldNames
  <2> HIDE DEF d
  <2>3. BaseOK(d)
    BY <1>3, <2>2, SameBase
  <2>4. StageOK(d, blocks')
    BY <1>3, <1>6, <2>2 DEF StageOK
  <2>5. CallOK(d, blocks')
    BY <2>1, <2>3, <2>4 DEF CallOK
  <2>6. call' = [call EXCEPT ![u] = d]
    BY <1>1, <1>8 DEF d
  <2>. QED BY <1>1, <1>2, <1>3, <2>5, <2>6, MovesWithBlock
<1>. QED BY <1>7, <1>8

(* The search goes back by one block at least.                             *)
LEMMA DistanceOK ==
  ASSUME ChainOK, NEW seconds \in Nat, NEW average, average.seconds \in Nat, average.blocks \in Nat
  PROVE  IncrementDistance(seconds, average) \in Nat
<1>1. BlocksElapsed(seconds, average) \in Int
  <2>1. CASE average.seconds = 0
    BY <2>1, TimeFacts DEF BlocksElapsed
  <2>2. CASE average.seconds # 0
    <3> DEFINE x == 2 * seconds * average.blocks
               y == average.seconds
    <3>1. x \in Nat /\ y \in Nat \ {0}
      BY <2>2
    <3>2. BlocksElapsed(seconds, average) = x \div y
      BY <2>2 DEF BlocksElapsed
    <3> HIDE DEF x, y
    <3>. QED BY <3>1, <3>2
  <2>. QED BY <2>1, <2>2
<1> DEFINE e == BlocksElapsed(seconds, average)
<1> HIDE DEF e
<1>2. e \in Int
  BY <1>1 DEF e
<1>3. Max({1, e}) = IF 1 >= e THEN 1 ELSE e
  BY <1>2, MaxOfTwo
<1>4. Max({1, e}) \in Nat
  BY <1>2, <1>3
<1>. QED BY <1>4 DEF IncrementDistance, e

LEMMA SearchBackOK ==
  ASSUME ChainOK, NEW c, CallOK(c, blocks), c.stage \in {"average", "sample"},
         NEW average, average.seconds \in Nat, average.blocks \in Nat
  PROVE  CallOK(StepBack(c, c.initial, IncrementDistance(time[c.initial] - c.timestamp, average), 1),
                blocks)
<1>1. /\ BaseOK(c) /\ c.initial \in 0..head /\ Among(c.initial, blocks)
      /\ time[c.initial] > c.timestamp
  BY DEF CallOK, StageOK
<1>2. time[c.initial] - c.timestamp \in Nat
  <2>1. time[c.initial] \in Nat /\ c.timestamp \in Nat
    BY <1>1, TimeFacts DEF BaseOK
  <2>. QED BY <1>1, <2>1
<1>3. IncrementDistance(time[c.initial] - c.timestamp, average) \in Nat
  BY <1>2, DistanceOK
<1>. QED BY <1>1, <1>3, StepBackOK

LEMMA HeldAverageOK == ASSUME IInv, NEW u \in Callers, HeldAverage(u) PROVE IInv'
<1> DEFINE c == call[u]
<1>1. /\ ChainOK /\ CallOK(c, blocks) /\ c.stage = "average"
      /\ UNCHANGED <<chain, blocks, blockTimes, cache>>
  BY DEF IInv, CallsOK, HeldAverage
<1>2. CASE Fresh(CachedAverage) /\ SearchBack(u, CachedAverage)
  <2> DEFINE d == StepBack(c, c.initial, IncrementDistance(time[c.initial] - c.timestamp, CachedAverage), 1)
  <2>1. CachedAverage = blockTimes[Optimism]
    BY <1>2 DEF Fresh, CachedAverage
  <2>2. CachedAverage.seconds \in Nat /\ CachedAverage.blocks \in Nat
    BY <2>1 DEF IInv, AveragesOK
  <2>3. CallOK(d, blocks)
    BY <1>1, <2>2, SearchBackOK
  <2>4. call' = [call EXCEPT ![u] = d]
    BY <1>2 DEF SearchBack
  <2> HIDE DEF d
  <2>. QED BY <1>1, <2>3, <2>4, Moves
<1>3. CASE ~Fresh(CachedAverage) /\ call' = [call EXCEPT ![u].stage = "sample"]
  <2> HIDE DEF c
  <2> DEFINE d == [c EXCEPT !.stage = "sample"]
  <2>1. DOMAIN c = Fields /\ BaseOK(c) /\ StageOK(c, blocks)
    BY <1>1 DEF CallOK
  <2>2. DOMAIN d = Fields
    BY <2>1
  <2>3. /\ d.stage = "sample" /\ d.timestamp = c.timestamp /\ d.since = c.since /\ d.keep = c.keep
        /\ d.initial = c.initial
    BY <2>1, FieldNames
  <2>4. call' = [call EXCEPT ![u] = d]
    BY <1>3 DEF c
  <2> HIDE DEF d
  <2>5. BaseOK(d)
    BY <2>1, <2>3, SameBase
  <2>6. StageOK(d, blocks)
    BY <1>1, <2>1, <2>3 DEF StageOK
  <2>7. CallOK(d, blocks)
    BY <2>2, <2>5, <2>6 DEF CallOK
  <2>. QED BY <1>1, <2>4, <2>7, Moves
<1>. QED BY <1>2, <1>3 DEF HeldAverage

LEMMA SampleAverageOK == ASSUME IInv, NEW u \in Callers, SampleAverage(u) PROVE IInv'
<1> DEFINE c == call[u]
           high == head - HighBlockOffset
           low == high - BlockRange
           average == [seconds |-> time[high] - time[low], blocks |-> BlockRange, timestamp |-> now]
           d == StepBack(c, c.initial, IncrementDistance(time[c.initial] - c.timestamp, average), 1)
<1>1. /\ ChainOK /\ CallOK(c, blocks) /\ c.stage = "sample" /\ low >= 0 /\ SearchBack(u, average)
      /\ blockTimes' = With(blockTimes, Chain, average) /\ UNCHANGED <<chain, blocks, cache>>
  BY DEF IInv, CallsOK, SampleAverage
<1>2. average.seconds \in Nat /\ average.blocks \in Nat
  <2>1. high \in 0..head /\ low \in 0..head /\ low <= high /\ BlockRange \in Nat
    BY <1>1, AverageAssumption, TimeFacts
  <2>2. time[high] \in Nat /\ time[low] \in Nat /\ time[low] <= time[high]
    BY <1>1, <2>1, TimeFacts
  <2>. QED BY <2>1, <2>2
<1> HIDE DEF average
<1>3. CallOK(d, blocks)
  BY <1>1, <1>2, SearchBackOK
<1>4. call' = [call EXCEPT ![u] = d]
  BY <1>1 DEF SearchBack
<1> HIDE DEF d
<1>5. ChainOK' /\ IsList(blocks)' /\ CallsOK'
  <2>1. blocks' = blocks /\ IsList(blocks') /\ CallOK(d, blocks')
    BY <1>1, <1>3 DEF IInv
  <2>. QED BY <1>1, <1>4, <2>1, OneCallMoves
<1>6. CacheOK'
  <2>1. head <= head'
    BY <1>1, TimeFacts DEF chain
  <2>. QED BY <1>1, <1>5, <2>1, CacheStays DEF IInv, chain
<1>7. AveragesOK'
  <2>1. ASSUME NEW x \in DOMAIN blockTimes \cup {Chain}
        PROVE  blockTimes'[x].seconds \in Nat /\ blockTimes'[x].blocks \in Nat
    <3>1. CASE x = Chain
      BY <1>1, <1>2, <3>1 DEF With
    <3>2. CASE x # Chain
      BY <1>1, <3>2 DEF With, IInv, AveragesOK
    <3>. QED BY <3>1, <3>2
  <2>. QED BY <1>1, <2>1 DEF With, IInv, AveragesOK
<1>. QED BY <1>5, <1>6, <1>7 DEF IInv

LEMMA GetBlockOK == ASSUME IInv, NEW u \in Callers, GetBlock(u) PROVE IInv'
<1> DEFINE c == call[u]
<1>1. /\ ChainOK /\ IsList(blocks) /\ CallOK(c, blocks) /\ c.stage \in {"back", "find"}
      /\ UNCHANGED <<chain, blocks, blockTimes, cache>>
      /\ call' = [call EXCEPT ![u] = IF Holds(blocks, c.number) THEN GoOn(c, blocks)
                                     ELSE [c EXCEPT !.sent = TRUE]]
  BY DEF IInv, CallsOK, GetBlock
<1> HIDE DEF c
<1>2. DOMAIN c = Fields /\ BaseOK(c) /\ StageOK(c, blocks) /\ c.number \in 0..head /\ head \in Nat
  BY <1>1, TimeFacts DEF CallOK, StageOK
<1>3. CASE Holds(blocks, c.number)
  <2>1. Among(c.number, blocks)
    BY <1>1, <1>2, <1>3, HoldsMeansAmong
  <2>2. CallOK(GoOn(c, blocks), blocks)
    BY <1>1, <2>1, GoOnOK
  <2>3. call' = [call EXCEPT ![u] = GoOn(c, blocks)]
    BY <1>1, <1>3
  <2>. QED BY <1>1, <2>2, <2>3, Moves
<1>4. CASE ~Holds(blocks, c.number)
  <2> DEFINE d == [c EXCEPT !.sent = TRUE]
  <2>1. DOMAIN d = Fields
    BY <1>2
  <2>2. /\ d.stage = c.stage /\ d.timestamp = c.timestamp /\ d.since = c.since /\ d.keep = c.keep
        /\ d.initial = c.initial /\ d.distance = c.distance /\ d.multiplier = c.multiplier
        /\ d.number = c.number /\ d.start = c.start /\ d.end = c.end
    BY <1>2, FieldNames
  <2>3. call' = [call EXCEPT ![u] = d]
    BY <1>1, <1>4
  <2> HIDE DEF d
  <2>4. BaseOK(d)
    BY <1>2, <2>2, SameBase
  <2>5. StageOK(d, blocks)
    BY <1>1, <1>2, <2>2 DEF StageOK
  <2>6. CallOK(d, blocks)
    BY <2>1, <2>4, <2>5 DEF CallOK
  <2>. QED BY <1>1, <2>3, <2>6, Moves
<1>. QED BY <1>3, <1>4

LEMMA GotBlockOK == ASSUME IInv, NEW u \in Callers, GotBlock(u) PROVE IInv'
<1> DEFINE c == call[u]
<1>1. /\ ChainOK /\ CallOK(c, blocks) /\ c.stage \in {"back", "find"}
      /\ UNCHANGED <<chain, blockTimes, cache>> /\ blocks' = WithBlock(c.number)
      /\ call' = [call EXCEPT ![u] = GoOn(c, blocks')]
  BY DEF IInv, CallsOK, GotBlock
<1> HIDE DEF c
<1>2. c.number \in 0..head /\ head \in Nat
  BY <1>1, TimeFacts DEF CallOK, StageOK
<1>3. IsList(blocks') /\ Among(c.number, blocks') /\ \A m : Among(m, blocks) => Among(m, blocks')
  BY <1>1, <1>2, WithBlockOK DEF IInv
<1>4. CallOK(c, blocks')
  BY <1>1, <1>3, MoreBlocks
<1>5. CallOK(GoOn(c, blocks'), blocks')
  BY <1>1, <1>3, <1>4, GoOnOK
<1>. QED BY <1>1, <1>2, <1>5, MovesWithBlock

(* What is cached is final: the blocks up to its timestamp were all shown  *)
(* when the call was made.                                                 *)
LEMMA StoreInCacheOK == ASSUME IInv, NEW u \in Callers, StoreInCache(u) PROVE IInv'
<1> DEFINE c == call[u]
           d == [c EXCEPT !.keep = FALSE]
<1>1. /\ ChainOK /\ CallOK(c, blocks) /\ c.stage = "done" /\ c.keep /\ c.result # Thrown
      /\ UNCHANGED <<chain, blocks, blockTimes>> /\ cache' = With(cache, c.timestamp, c.result)
      /\ call' = [call EXCEPT ![u] = d]
  BY DEF IInv, CallsOK, StoreInCache
<1> HIDE DEF c
<1>2. CallOK(d, blocks)
  BY <1>1, Kept
<1> HIDE DEF d
<1>3. Final(c.timestamp, c.result)
  <2>1. BaseOK(c) /\ Right(c.timestamp, c.since, c.result)
    BY <1>1 DEF CallOK, StageOK
  <2>2. PICK h \in c.since..head : \A n \in 0..h : time[n] <= c.timestamp => time[n] <= time[c.result]
    BY <1>1, <2>1 DEF Right
  <2>3. c.result \in 0..head /\ time[c.result] <= c.timestamp
    BY <1>1, <2>1 DEF Right
  <2>4. ASSUME NEW n \in Blocks, time[n] <= c.timestamp PROVE time[n] <= time[c.result]
    <3>1. n <= c.since
      BY <1>1, <2>1, <2>4 DEF BaseOK
    <3>2. n \in 0..h
      BY <1>1, <2>1, <3>1, TimeFacts DEF BaseOK, Blocks
    <3>. QED BY <2>2, <2>4, <3>2
  <2>. QED BY <2>3, <2>4 DEF Final
<1>4. ChainOK' /\ IsList(blocks)' /\ CallsOK'
  <2>1. blocks' = blocks /\ IsList(blocks') /\ CallOK(d, blocks')
    BY <1>1, <1>2 DEF IInv
  <2>. QED BY <1>1, <2>1, OneCallMoves
<1>5. AveragesOK'
  BY <1>1 DEF IInv, AveragesOK
<1>6. CacheOK'
  <2>1. time' = time /\ head' = head
    BY <1>1 DEF chain
  <2>2. DOMAIN cache' = DOMAIN cache \cup {c.timestamp}
    BY <1>1 DEF With
  <2>3. ASSUME NEW t \in DOMAIN cache' PROVE Final(t, cache'[t])
    <3>1. CASE t = c.timestamp
      <4>1. cache'[t] = c.result
        BY <1>1, <3>1 DEF With
      <4>. QED BY <1>3, <3>1, <4>1
    <3>2. CASE t # c.timestamp
      <4>1. t \in DOMAIN cache /\ cache'[t] = cache[t]
        BY <1>1, <2>2, <3>2 DEF With
      <4>. QED BY <4>1 DEF IInv, CacheOK
    <3>. QED BY <3>1, <3>2
  <2>. QED BY <2>1, <2>3 DEF CacheOK, Final
<1>. QED BY <1>4, <1>5, <1>6 DEF IInv

LEMMA FailOK == ASSUME IInv, NEW u \in Callers, Fail(u) PROVE IInv'
  BY NoCallOK, Moves DEF Fail

LEMMA NextOK == IInv /\ [Next]_vars => IInv'
<1> SUFFICES ASSUME IInv, [Next]_vars PROVE IInv'
  OBVIOUS
<1>1. CASE UNCHANGED vars
  <2>1. UNCHANGED <<time, now, head, blocks, blockTimes, cache, call>>
    BY <1>1 DEF vars, chain
  <2>2. ChainOK' /\ head <= head'
    BY <2>1, TimeFacts DEF IInv, ChainOK
  <2>. QED BY <2>1, <2>2, ChainMoves
<1>2. CASE Tick
  BY <1>2, TickOK
<1>3. CASE MineBlock
  BY <1>3, MineBlockOK
<1>4. ASSUME NEW u \in Callers, Start(u) \/ Proceed(u) \/ Fail(u) PROVE IInv'
  <2>1. CASE Start(u)
    BY <2>1, StartOK
  <2>2. CASE FromCache(u)
    BY <2>2, FromCacheOK
  <2>3. CASE LatestBlock(u)
    BY <2>3, LatestBlockOK
  <2>4. CASE HintBlock(u)
    BY <2>4, HintBlockOK
  <2>5. CASE HeldAverage(u)
    BY <2>5, HeldAverageOK
  <2>6. CASE SampleAverage(u)
    BY <2>6, SampleAverageOK
  <2>7. CASE GetBlock(u)
    BY <2>7, GetBlockOK
  <2>8. CASE GotBlock(u)
    BY <2>8, GotBlockOK
  <2>9. CASE StoreInCache(u)
    BY <2>9, StoreInCacheOK
  <2>10. CASE Fail(u)
    BY <2>10, FailOK
  <2>. QED BY <1>4, <2>1, <2>2, <2>3, <2>4, <2>5, <2>6, <2>7, <2>8, <2>9, <2>10 DEF Proceed
<1>. QED BY <1>1, <1>2, <1>3, <1>4 DEF Next

LEMMA InvariantHolds == Spec => []IInv
  BY InitOK, NextOK, PTL DEF Spec

-----------------------------------------------------------------------------

(* Whatever calls insert into the shared list while others await their     *)
(* answers, it is in order and holds no block twice.                       *)
THEOREM ListStaysSorted == Spec => []BlocksSorted
<1>1. IInv => BlocksSorted
  BY DEF IInv, IsList, Ordered, BlocksSorted
<1>. QED BY <1>1, InvariantHolds, PTL

(* The largest block up to h that is not later than t.                     *)
LEMMA LatestIsLargest ==
  ASSUME ChainOK, NEW h \in 0..head, NEW t, NEW r \in 0..h, time[r] <= t,
         \A n \in 0..h : time[n] <= t => time[n] <= time[r]
  PROVE  time[r] = time[LatestAt(t, h)]
<1> DEFINE T == {n \in 0..h : time[n] <= t}
           l == Max(T)
<1>1. h \in Nat /\ T \in SUBSET Nat /\ r \in T /\ \A n \in T : n <= h
  BY TimeFacts
<1>2. l \in T /\ \A n \in T : n <= l
  BY <1>1, GreatestNumber
<1>3. LatestAt(t, h) = l
  BY DEF LatestAt
<1>4. l \in 0..h /\ time[l] <= t
  BY <1>2
<1> HIDE DEF l
<1>5. r \in Blocks /\ l \in Blocks /\ r <= l
  BY <1>1, <1>2, <1>4, TimeFacts DEF Blocks
<1>6. time[r] <= time[l] /\ time[l] <= time[r] /\ time[r] \in Nat /\ time[l] \in Nat
  BY <1>4, <1>5, TimeFacts
<1>. QED BY <1>3, <1>6

(* Every answer is the latest block at its timestamp as of a moment during *)
(* the call, or that there is none, whether it was searched for, cached or *)
(* the head.                                                               *)
THEOREM AnswersAreRight == Spec => []AnswersRight
<1>1. IInv => AnswersRight
  <2> SUFFICES ASSUME IInv, NEW u \in Callers, call[u].stage = "done"
               PROVE  \/ call[u].result = Thrown /\ call[u].timestamp < time[0]
                      \/ /\ call[u].result \in 0..head
                         /\ time[call[u].result] <= call[u].timestamp
                         /\ \E h \in call[u].since..head :
                              time[call[u].result] = time[LatestAt(call[u].timestamp, h)]
    BY DEF AnswersRight
  <2> DEFINE t == call[u].timestamp
             s == call[u].since
             r == call[u].result
  <2>1. Right(t, s, r) /\ ChainOK /\ s \in 0..head
    BY DEF IInv, CallsOK, CallOK, StageOK, BaseOK
  <2> HIDE DEF t, s, r
  <2>2. ASSUME r \in 0..head, time[r] <= t, NEW h \in s..head, r <= h,
               \A n \in 0..h : time[n] <= t => time[n] <= time[r]
        PROVE  time[r] = time[LatestAt(t, h)]
    <3>1. h \in 0..head /\ r \in 0..h
      BY <2>1, <2>2, TimeFacts
    <3>. QED BY <2>1, <2>2, <3>1, LatestIsLargest
  <2>3. \/ r = Thrown /\ t < time[0]
        \/ /\ r \in 0..head /\ time[r] <= t
           /\ \E h \in s..head : time[r] = time[LatestAt(t, h)]
    BY <2>1, <2>2 DEF Right
  <2>. QED BY <2>3 DEF t, s, r
<1>. QED BY <1>1, InvariantHolds, PTL

=============================================================================
