---------------------------- MODULE PricingProofs ----------------------------
(***************************************************************************)
(* Proofs about what deposits are priced with.                             *)
(* The first part is about LpFeeQuotes, for every set of callers and of    *)
(* batches, every chain that its assumptions allow, and every age that a   *)
(* utilisation has to reach to be cached.  The second is about             *)
(* PriceClient, for every set of tokens and callers, every list of feeds,  *)
(* every age a price may have, and every clock.                            *)
(***************************************************************************)
EXTENDS PriceClient, LpFeeQuotes, TLAPS

BatchFields ==
  {"stage", "batch", "tokens", "since", "head", "blocks", "utilization", "basis", "quotes", "lookUps"}
LookUpFields == {"for", "token", "block", "amount", "timestamp", "timeToCache", "answer", "at"}

BlockOf(c, d) == c.blocks[d.quoteTimestamp]

LookUpOK(l) ==
  DOMAIN l = LookUpFields /\ (l.at = "set" => l.answer = At(l.token, l.block, l.amount))

(* Timestamps were resolved since the call began, by a head up to h.       *)
BlocksOK(c, h) ==
  /\ \A t \in DOMAIN c.blocks : \E k \in c.head..h : c.blocks[t] = Min({t, k})
  /\ c.stage # "blocks" => DOMAIN c.blocks = Timestamps(c.batch)

(* What is known of utilisations is the contract's.                        *)
UtilizationOK(c) == \A k \in DOMAIN c.utilization : c.utilization[k] = At(k[1], k[2], 0)

(* The utilisation of each deposit is known or still asked for.            *)
PreparedOK(c) ==
  /\ \A l \in c.lookUps : l.amount = 0
  /\ \A i \in DOMAIN c.batch :
       LET t == HubPoolToken(c, c.batch[i])  k == BlockOf(c, c.batch[i])
       IN <<t, k>> \in DOMAIN c.utilization \/ \E l \in c.lookUps : l.token = t /\ l.block = k

(* The rate model of a deposit is one in memory since the call began.      *)
BasisOK(c, i, b) ==
  LET t == HubPoolToken(c, c.batch[i])  k == BlockOf(c, c.batch[i])
  IN /\ c.basis[i].before = At(t, k, 0) /\ c.basis[i].model # None
     /\ \E s \in c.since..b : c.basis[i].model = RateModelAt[t][Min({k, s})]

FeeAsked(c, l) ==
  /\ l.for \in Paid(c.batch)
  /\ l.token = HubPoolToken(c, c.batch[l.for]) /\ l.block = BlockOf(c, c.batch[l.for])
  /\ l.amount = c.batch[l.for].inputAmount

QuoteOK(c, i) ==
  LET d == c.batch[i]  q == c.quotes[i]
  IN /\ q.quoteBlock = BlockOf(c, d)
     /\ i \in Paid(c.batch) => q.realizedLpFeePct =
          RealizedLpFeePct(c.basis[i].model, c.basis[i].before,
                           At(HubPoolToken(c, d), BlockOf(c, d), d.inputAmount))
     /\ i \notin Paid(c.batch) => q.realizedLpFeePct = 0

(* Each deposit is quoted or its fee still asked for.                      *)
FeesOK(c, b) ==
  /\ \A i \in Paid(c.batch) : BasisOK(c, i, b)
  /\ \A l \in c.lookUps : FeeAsked(c, l)
  /\ \A i \in DOMAIN c.batch : i \in DOMAIN c.quotes \/ \E l \in c.lookUps : l.for = i
  /\ \A i \in DOMAIN c.quotes : QuoteOK(c, i)

BatchOK(c, h, b) ==
  /\ DOMAIN c = BatchFields
  /\ c.stage \in {"blocks", "utilization", "fees", "returned"}
  /\ c.since \in Nat /\ c.since <= b /\ c.head \in Nat /\ c.head <= h
  /\ BlocksOK(c, h) /\ UtilizationOK(c)
  /\ \A l \in c.lookUps : LookUpOK(l)
  /\ c.stage = "utilization" => PreparedOK(c)
  /\ c.stage \in {"fees", "returned"} => FeesOK(c, b)
  /\ c.stage = "returned" => c.lookUps = {}

CurrentOK(c) ==
  /\ DOMAIN c = {"stage", "current", "lookUps"} /\ c.stage \in {"current", "returned"}
  /\ \A l \in c.lookUps : LookUpOK(l)

NoBatch(c) ==
  c = NotQuoting \/ \E reason \in {"currentTime", "route", "rateModel", "request"} : c = Threw(reason)

BatchCallOK(c, h, b) == BatchOK(c, h, b) \/ CurrentOK(c) \/ NoBatch(c)

(* A key of the cache names a token, a block and, of a deposit, its amount.*)
CacheOK == \A k \in DOMAIN cache : cache[k] = At(k[1], k[2], IF Len(k) = 2 THEN 0 ELSE k[3])

QuotesInv ==
  /\ head \in Nat /\ latestBlockSearched \in Nat
  /\ CacheOK
  /\ quoting = [u \in Quoters |-> quoting[u]]
  /\ \A u \in Quoters : BatchCallOK(quoting[u], head, latestBlockSearched)

(* A new look-up has what it was asked with and no answer yet.            *)
LEMMA LookUpIs ==
  ASSUME NEW for, NEW token, NEW block, NEW amount, NEW timestamp, NEW timeToCache
  PROVE  LET l == LookUp(for, token, block, amount, timestamp, timeToCache)
         IN /\ LookUpOK(l)
            /\ l.for = for /\ l.token = token /\ l.block = block /\ l.amount = amount
  BY DEF LookUp, LookUpOK, LookUpFields

(* A call stays as it should be while the chain and the clients go on.     *)
LEMMA BatchKept ==
  ASSUME NEW c, NEW h \in Nat, NEW b \in Nat, BatchCallOK(c, h, b),
         NEW i \in Nat, NEW d \in Nat, h <= i, b <= d
  PROVE  BatchCallOK(c, i, d)
<1>1. CASE CurrentOK(c) \/ NoBatch(c)
  BY <1>1 DEF BatchCallOK
<1>2. CASE BatchOK(c, h, b)
  <2>1. c.head \in Nat /\ c.since \in Nat
    BY <1>2 DEF BatchOK
  <2>2. c.head..h \subseteq c.head..i /\ c.since..b \subseteq c.since..d
    BY <2>1
  <2>3. BlocksOK(c, i)
    BY <1>2, <2>2 DEF BatchOK, BlocksOK
  <2>4. FeesOK(c, b) => FeesOK(c, d)
    BY <2>2 DEF FeesOK, BasisOK
  <2>5. BatchOK(c, i, d)
    BY <1>2, <2>1, <2>3, <2>4 DEF BatchOK
  <2> QED
    BY <2>5 DEF BatchCallOK
<1> QED
  BY <1>1, <1>2 DEF BatchCallOK

(* A key of the cache tells of which token, block and amount its entry is.*)
LEMMA KeyIs ==
  ASSUME NEW l
  PROVE  At(Key(l)[1], Key(l)[2], IF Len(Key(l)) = 2 THEN 0 ELSE Key(l)[3])
           = At(l.token, l.block, l.amount)
<1>1. CASE l.amount = 0
  <2>1. Key(l) = <<l.token, l.block>>
    BY <1>1 DEF Key
  <2>2. Len(Key(l)) = 2 /\ Key(l)[1] = l.token /\ Key(l)[2] = l.block
    BY <2>1
  <2> QED
    BY <1>1, <2>2
<1>2. CASE l.amount # 0
  <2>1. Key(l) = <<l.token, l.block, l.amount>>
    BY <1>2 DEF Key
  <2>2. Len(Key(l)) = 3 /\ Key(l)[1] = l.token /\ Key(l)[2] = l.block /\ Key(l)[3] = l.amount
    BY <2>1
  <2> QED
    BY <2>2
<1> QED
  BY <1>1, <1>2

(* The quotes that need no fee, and the look-ups of the others.            *)
LEMMA QuotePhaseRight ==
  ASSUME NEW c, NEW h \in Nat, BatchOK(c, h, latestBlockSearched), latestBlockSearched \in Nat,
         c.stage = "utilization", c.lookUps = {}
  PROVE  BatchCallOK(QuotePhase(c), h, latestBlockSearched)
<1> DEFINE b == latestBlockSearched
           batch == c.batch
           t(i) == HubPoolToken(c, batch[i])
           k(i) == BlockOf(c, batch[i])
           new == [c EXCEPT !.stage = IF Paid(c.batch) = {} THEN "returned" ELSE "fees",
                   !.lookUps = FeeLookUps(c),
                   !.basis = [i \in Paid(c.batch) |-> Basis(c, c.batch[i])],
                   !.quotes = [i \in DOMAIN c.batch \ Paid(c.batch) |-> QuoteOf(c, i, 0)]]
<1>1. \A i \in DOMAIN batch : <<t(i), k(i)>> \in DOMAIN c.utilization
  BY DEF BatchOK, PreparedOK
<1>2. Paid(batch) \subseteq DOMAIN batch
  BY DEF Paid
<1>3. FeeLookUps(c) = {LookUp(i, t(i), k(i), batch[i].inputAmount, batch[i].quoteTimestamp, TimeToCache)
                         : i \in Paid(batch)}
  BY DEF FeeLookUps, BlockOf
<1>4. \A l \in FeeLookUps(c) : \E i \in Paid(batch) :
        /\ LookUpOK(l)
        /\ l.for = i /\ l.token = t(i) /\ l.block = k(i) /\ l.amount = batch[i].inputAmount
  <2> HIDE DEF t, k, batch
  <2> QED
    BY <1>3, LookUpIs
<1>5. \A i \in Paid(batch) : \E l \in FeeLookUps(c) : l.for = i
  <2> HIDE DEF t, k, batch
  <2>1. ASSUME NEW i \in Paid(batch) PROVE \E l \in FeeLookUps(c) : l.for = i
    <3> DEFINE l == LookUp(i, t(i), k(i), batch[i].inputAmount, batch[i].quoteTimestamp, TimeToCache)
    <3>1. l \in FeeLookUps(c)
      BY <1>3
    <3>2. l.for = i
      BY LookUpIs
    <3> QED
      BY <3>1, <3>2
  <2> QED
    BY <2>1
<1>6. ~\E l \in FeeLookUps(c) : <<l.token, l.block>> \notin DOMAIN c.utilization
  BY <1>1, <1>2, <1>4
<1>7. CASE \E i \in Paid(c.batch) : RateModelFor(c, c.batch[i]) = None
  <2>1. QuotePhase(c) = Threw("rateModel")
    BY <1>7 DEF QuotePhase
  <2> QED
    BY <2>1 DEF BatchCallOK, NoBatch
<1>8. CASE ~\E i \in Paid(c.batch) : RateModelFor(c, c.batch[i]) = None
  <2>1. QuotePhase(c) = new
    BY <1>6, <1>8, Zenon DEF QuotePhase
  <2>2. DOMAIN c = BatchFields
    BY DEF BatchOK
  <2>3. /\ DOMAIN new = BatchFields
        /\ new.stage = (IF Paid(batch) = {} THEN "returned" ELSE "fees")
        /\ new.lookUps = FeeLookUps(c)
        /\ new.basis = [i \in Paid(batch) |-> Basis(c, batch[i])]
        /\ new.quotes = [i \in DOMAIN batch \ Paid(batch) |-> QuoteOf(c, i, 0)]
        /\ new.batch = batch /\ new.tokens = c.tokens /\ new.since = c.since /\ new.head = c.head
        /\ new.blocks = c.blocks /\ new.utilization = c.utilization
    BY <2>2 DEF BatchFields
  <2> HIDE DEF new
  <2>4. \A d : HubPoolToken(new, d) = HubPoolToken(c, d) /\ BlockOf(new, d) = BlockOf(c, d)
    BY <2>3 DEF HubPoolToken, BlockOf
  <2>5. ASSUME NEW i \in Paid(batch) PROVE BasisOK(new, i, b)
    <3>1. new.basis[i] = Basis(c, batch[i])
      BY <2>3
    <3>2. new.basis[i].before = c.utilization[<<t(i), k(i)>>]
      BY <3>1 DEF Basis, BlockOf
    <3>3. c.utilization[<<t(i), k(i)>>] = At(t(i), k(i), 0)
      <4> HIDE DEF t, k, batch
      <4>1. <<t(i), k(i)>> \in DOMAIN c.utilization
        BY <1>1, <1>2
      <4> QED
        BY <4>1 DEF BatchOK, UtilizationOK
    <3>4. new.basis[i].model = RateModelFor(c, batch[i]) /\ RateModelFor(c, batch[i]) # None
      BY <1>8, <3>1 DEF Basis
    <3>5. RateModelFor(c, batch[i]) = RateModelAt[t(i)][Min({k(i), b})]
      BY DEF RateModelFor, BlockOf
    <3>6. b \in c.since..b
      BY DEF BatchOK
    <3>7. HubPoolToken(new, new.batch[i]) = t(i) /\ BlockOf(new, new.batch[i]) = k(i)
      BY <2>3, <2>4
    <3> HIDE DEF t, k, batch, b
    <3>8. \E s \in new.since..b : new.basis[i].model = RateModelAt[t(i)][Min({k(i), s})]
      BY <2>3, <3>4, <3>5, <3>6
    <3> QED
      BY <3>2, <3>3, <3>4, <3>7, <3>8 DEF BasisOK
  <2>6. \A l \in new.lookUps : FeeAsked(new, l) /\ LookUpOK(l)
    BY <1>4, <2>3, <2>4 DEF FeeAsked
  <2>7. \A i \in DOMAIN new.batch : i \in DOMAIN new.quotes \/ \E l \in new.lookUps : l.for = i
    BY <1>5, <2>3
  <2>8. ASSUME NEW i \in DOMAIN new.quotes PROVE QuoteOK(new, i)
    <3>1. i \notin Paid(new.batch) /\ new.quotes[i] = QuoteOf(c, i, 0)
      BY <2>3
    <3>2. new.quotes[i].quoteBlock = k(i) /\ new.quotes[i].realizedLpFeePct = 0
      BY <3>1 DEF QuoteOf, BlockOf
    <3> QED
      BY <2>3, <2>4, <3>1, <3>2 DEF QuoteOK
  <2>9. FeesOK(new, b)
    BY <2>3, <2>5, <2>6, <2>7, <2>8 DEF FeesOK
  <2>10. new.stage = "returned" => new.lookUps = {}
    BY <1>4, <2>3
  <2>11. BlocksOK(new, h) /\ UtilizationOK(new)
    <3>1. BlocksOK(c, h) /\ UtilizationOK(c)
      BY DEF BatchOK
    <3>2. UtilizationOK(new)
      BY <2>3, <3>1 DEF UtilizationOK
    <3>3. \A ts \in DOMAIN c.blocks : \E j \in c.head..h : c.blocks[ts] = Min({ts, j})
      BY <3>1 DEF BlocksOK
    <3>4. c.stage # "blocks" /\ c.batch = batch
      OBVIOUS
    <3>5. DOMAIN c.blocks = Timestamps(new.batch)
      BY <2>3, <3>1, <3>4 DEF BlocksOK
    <3>6. new.blocks = c.blocks /\ new.head = c.head
      BY <2>3
    <3> HIDE DEF batch
    <3>7. BlocksOK(new, h)
      BY <3>3, <3>5, <3>6 DEF BlocksOK
    <3> QED
      BY <3>2, <3>7
  <2>12. BatchOK(new, h, b)
    BY <2>3, <2>6, <2>9, <2>10, <2>11 DEF BatchOK
  <2> QED
    BY <2>1, <2>12 DEF BatchCallOK
<1> QED
  BY <1>7, <1>8

(* A look-up has its utilisation.                                          *)
LEMMA FinishRight ==
  ASSUME NEW c, NEW h \in Nat, latestBlockSearched \in Nat,
         BatchCallOK(c, h, latestBlockSearched),
         c.stage \in {"utilization", "fees", "current"}, NEW l \in c.lookUps,
         NEW u, u = At(l.token, l.block, l.amount)
  PROVE  BatchCallOK(Finish(c, l, u), h, latestBlockSearched)
<1> DEFINE b == latestBlockSearched
<1>1. ~NoBatch(c)
  BY DEF NoBatch, NotQuoting, Threw
<1>2. CASE c.stage = "utilization"
  <2>1. BatchOK(c, h, b)
    BY <1>1, <1>2 DEF BatchCallOK, CurrentOK
  <2> DEFINE new == [c EXCEPT !.lookUps = @ \ {l},
                              !.utilization = With(@, <<l.token, l.block>>, u)]
  <2>2. DOMAIN c = BatchFields
    BY <2>1 DEF BatchOK
  <2>3. /\ DOMAIN new = BatchFields
        /\ new.lookUps = c.lookUps \ {l}
        /\ new.utilization = With(c.utilization, <<l.token, l.block>>, u)
        /\ new.stage = c.stage /\ new.batch = c.batch /\ new.tokens = c.tokens
        /\ new.since = c.since /\ new.head = c.head /\ new.blocks = c.blocks
    BY <2>2 DEF BatchFields
  <2>4. Finish(c, l, u) = IF new.lookUps = {} THEN QuotePhase(new) ELSE new
    BY <1>2, Zenon DEF Finish, FinishUtilization
  <2> HIDE DEF new
  <2>5. \A d : HubPoolToken(new, d) = HubPoolToken(c, d) /\ BlockOf(new, d) = BlockOf(c, d)
    BY <2>3 DEF HubPoolToken, BlockOf
  <2>6. l.amount = 0
    BY <1>2, <2>1 DEF BatchOK, PreparedOK
  <2>7. UtilizationOK(new)
    <3> DEFINE key == <<l.token, l.block>>
    <3>1. u = At(key[1], key[2], 0)
      BY <2>6
    <3>2. \A k \in DOMAIN c.utilization : c.utilization[k] = At(k[1], k[2], 0)
      BY <2>1 DEF BatchOK, UtilizationOK
    <3> HIDE DEF key
    <3>3. new.utilization = With(c.utilization, key, u)
      BY <2>3 DEF key
    <3> QED
      BY <3>1, <3>2, <3>3 DEF UtilizationOK, With
  <2>8. PreparedOK(new)
    <3>1. \A m \in new.lookUps : m.amount = 0
      BY <1>2, <2>1, <2>3 DEF BatchOK, PreparedOK
    <3>2. DOMAIN new.utilization = {<<l.token, l.block>>} \cup DOMAIN c.utilization
      BY <2>3 DEF With
    <3>3. ASSUME NEW i \in DOMAIN new.batch, NEW t, NEW k,
                 t = HubPoolToken(c, c.batch[i]), k = BlockOf(c, c.batch[i])
          PROVE  <<t, k>> \in DOMAIN new.utilization
                   \/ \E m \in new.lookUps : m.token = t /\ m.block = k
      <4>1. <<t, k>> \in DOMAIN c.utilization \/ \E m \in c.lookUps : m.token = t /\ m.block = k
        BY <1>2, <2>1, <2>3, <3>3 DEF BatchOK, PreparedOK
      <4> QED
        BY <2>3, <3>2, <4>1
    <3> QED
      BY <2>3, <2>5, <3>1, <3>3 DEF PreparedOK
  <2>9. BlocksOK(new, h)
    BY <2>1, <2>3 DEF BatchOK, BlocksOK
  <2>10. BatchOK(new, h, b)
    BY <1>2, <2>1, <2>3, <2>7, <2>8, <2>9 DEF BatchOK
  <2>11. CASE new.lookUps = {}
    BY <1>2, <2>3, <2>4, <2>10, <2>11, QuotePhaseRight
  <2>12. CASE new.lookUps # {}
    BY <2>4, <2>10, <2>12 DEF BatchCallOK
  <2> QED
    BY <2>11, <2>12
<1>3. CASE c.stage = "fees"
  <2>1. BatchOK(c, h, b)
    BY <1>1, <1>3 DEF BatchCallOK, CurrentOK
  <2> DEFINE fee == RealizedLpFeePct(c.basis[l.for].model, c.basis[l.for].before, u)
             new == [c EXCEPT !.lookUps = @ \ {l}, !.quotes = With(@, l.for, QuoteOf(c, l.for, fee)),
                              !.stage = IF c.lookUps = {l} THEN "returned" ELSE @]
  <2>2. DOMAIN c = BatchFields
    BY <2>1 DEF BatchOK
  <2>3. /\ DOMAIN new = BatchFields
        /\ new.lookUps = c.lookUps \ {l}
        /\ new.quotes = With(c.quotes, l.for, QuoteOf(c, l.for, fee))
        /\ new.stage = (IF c.lookUps = {l} THEN "returned" ELSE c.stage)
        /\ new.batch = c.batch /\ new.tokens = c.tokens /\ new.basis = c.basis
        /\ new.since = c.since /\ new.head = c.head /\ new.blocks = c.blocks
        /\ new.utilization = c.utilization
    <3> HIDE DEF fee
    <3> QED
      BY <2>2 DEF BatchFields
  <2>4. Finish(c, l, u) = new
    BY <1>3, Zenon DEF Finish, FinishFee
  <2> HIDE DEF new
  <2>5. \A d : HubPoolToken(new, d) = HubPoolToken(c, d) /\ BlockOf(new, d) = BlockOf(c, d)
    BY <2>3 DEF HubPoolToken, BlockOf
  <2>6. FeesOK(c, b) /\ FeeAsked(c, l)
    BY <1>3, <2>1 DEF BatchOK, FeesOK
  <2>7. \A i \in Paid(new.batch) : BasisOK(new, i, b)
    <3>1. ASSUME NEW i \in Paid(new.batch) PROVE BasisOK(new, i, b)
      <4>1. BasisOK(c, i, b)
        BY <2>3, <2>6 DEF FeesOK
      <4> QED
        BY <2>3, <2>5, <4>1 DEF BasisOK
    <3> QED
      BY <3>1
  <2>8. \A m \in new.lookUps : FeeAsked(new, m)
    BY <2>3, <2>5, <2>6 DEF FeesOK, FeeAsked
  <2>9. \A i \in DOMAIN new.batch : i \in DOMAIN new.quotes \/ \E m \in new.lookUps : m.for = i
    <3>1. DOMAIN new.quotes = {l.for} \cup DOMAIN c.quotes
      BY <2>3 DEF With
    <3> QED
      BY <2>3, <2>6, <3>1 DEF FeesOK
  <2>10. ASSUME NEW i \in DOMAIN new.quotes PROVE QuoteOK(new, i)
    <3>1. DOMAIN new.quotes = {l.for} \cup DOMAIN c.quotes
      BY <2>3 DEF With
    <3>2. CASE i = l.for
      <4> HIDE DEF fee
      <4>1. new.quotes[i] = QuoteOf(c, i, fee)
        BY <2>3, <3>2 DEF With
      <4>2. new.quotes[i].quoteBlock = BlockOf(c, c.batch[i])
            /\ new.quotes[i].realizedLpFeePct = fee
        BY <4>1 DEF QuoteOf, BlockOf
      <4>3. i \in Paid(c.batch)
            /\ u = At(HubPoolToken(c, c.batch[i]), BlockOf(c, c.batch[i]), c.batch[i].inputAmount)
        BY <2>6, <3>2 DEF FeeAsked
      <4>4. fee = RealizedLpFeePct(c.basis[i].model, c.basis[i].before, u)
        BY <3>2 DEF fee
      <4> QED
        BY <2>3, <2>5, <4>2, <4>3, <4>4 DEF QuoteOK
    <3>3. CASE i # l.for
      <4>1. new.quotes[i] = c.quotes[i] /\ i \in DOMAIN c.quotes
        <5> HIDE DEF fee
        <5> QED
          BY <2>3, <3>1, <3>3 DEF With
      <4> QED
        BY <2>3, <2>5, <2>6, <4>1 DEF FeesOK, QuoteOK
    <3> QED
      BY <3>2, <3>3
  <2>11. FeesOK(new, b)
    BY <2>7, <2>8, <2>9, <2>10 DEF FeesOK
  <2>12. BlocksOK(new, h) /\ UtilizationOK(new)
    <3>1. BlocksOK(c, h) /\ UtilizationOK(c)
      BY <2>1 DEF BatchOK
    <3>2. new.stage # "blocks" /\ c.stage # "blocks"
      BY <1>3, <2>3
    <3>3. new.blocks = c.blocks /\ new.head = c.head /\ new.batch = c.batch
      BY <2>3
    <3>4. new.utilization = c.utilization
      BY <2>3
    <3>5. BlocksOK(new, h)
      BY <3>1, <3>2, <3>3 DEF BlocksOK
    <3> QED
      BY <3>1, <3>4, <3>5 DEF UtilizationOK
  <2>13. BatchOK(new, h, b)
    BY <1>3, <2>1, <2>3, <2>11, <2>12 DEF BatchOK
  <2> QED
    BY <2>4, <2>13 DEF BatchCallOK
<1>4. CASE c.stage = "current"
  <2>1. CurrentOK(c)
    BY <1>1, <1>4 DEF BatchCallOK, BatchOK
  <2>2. Finish(c, l, u) = [c EXCEPT !.stage = "returned", !.lookUps = {}, !.current = u]
    BY <1>4, Zenon DEF Finish, FinishCurrent
  <2>3. CurrentOK(Finish(c, l, u))
    BY <2>1, <2>2 DEF CurrentOK
  <2> QED
    BY <2>3 DEF BatchCallOK
<1> QED
  BY <1>2, <1>3, <1>4

(* Nothing of the other calls, and nothing that the invariant speaks of,   *)
(* changes but one call.                                                   *)
LEMMA OneCall ==
  ASSUME QuotesInv, NEW u \in Quoters, NEW c,
         quoting' = [quoting EXCEPT ![u] = c],
         UNCHANGED <<head, latestBlockSearched>>, CacheOK',
         BatchCallOK(c, head, latestBlockSearched)
  PROVE  QuotesInv'
<1>1. quoting = [v \in Quoters |-> quoting[v]]
  BY DEF QuotesInv
<1>2. quoting' = [v \in Quoters |-> IF v = u THEN c ELSE quoting[v]]
  BY <1>1
<1>3. \A v \in Quoters : quoting'[v] = IF v = u THEN c ELSE quoting[v]
  BY <1>2
<1>4. quoting' = [v \in Quoters |-> quoting'[v]]
  BY <1>2
<1>5. \A v \in Quoters : BatchCallOK(quoting'[v], head', latestBlockSearched')
  BY <1>3 DEF QuotesInv
<1> QED
  BY <1>4, <1>5 DEF QuotesInv

(* Nothing is cached and nobody quotes at first.                          *)
LEMMA QuotesStart == QuotesInit => QuotesInv
<1> SUFFICES ASSUME QuotesInit PROVE QuotesInv
  OBVIOUS
<1>1. CacheOK
  BY DEF QuotesInit, CacheOK
<1>2. \A u \in Quoters : BatchCallOK(quoting[u], head, latestBlockSearched)
  BY DEF QuotesInit, BatchCallOK, NoBatch
<1>3. quoting = [u \in Quoters |-> quoting[u]]
  BY DEF QuotesInit
<1>4. head \in Nat /\ latestBlockSearched \in Nat
  BY DEF QuotesInit
<1> QED
  BY <1>1, <1>2, <1>3, <1>4 DEF QuotesInv

(* A block or an update of the clients leaves every call right.           *)
LEMMA ChainGoesOn ==
  ASSUME QuotesInv, head' \in Nat, latestBlockSearched' \in Nat, head <= head',
         latestBlockSearched <= latestBlockSearched', UNCHANGED <<cache, quoting>>
  PROVE  QuotesInv'
<1>1. head \in Nat /\ latestBlockSearched \in Nat
  BY DEF QuotesInv
<1>2. \A u \in Quoters : BatchCallOK(quoting[u], head', latestBlockSearched')
  BY <1>1, BatchKept DEF QuotesInv
<1>3. CacheOK'
  BY DEF QuotesInv, CacheOK
<1> QED
  BY <1>2, <1>3 DEF QuotesInv

(* A batch begins with tokens and without blocks, or throws.              *)
LEMMA StartRight ==
  ASSUME QuotesInv, NEW u \in Quoters, Start(u)
  PROVE  QuotesInv'
<1>1. PICK batch \in Batches :
        Begin(u,
          IF latestBlockSearched = 0 THEN Threw("currentTime")
          ELSE IF \E i \in DOMAIN batch : L1TokenForDeposit(batch[i]) = None THEN Threw("route")
          ELSE [stage |-> "blocks", batch |-> batch, tokens |-> HubPoolTokens(batch),
                since |-> latestBlockSearched, head |-> head,
                blocks |-> <<>>, utilization |-> <<>>, basis |-> <<>>, quotes |-> <<>>,
                lookUps |-> {}])
  BY DEF Start
<1> DEFINE new == [stage |-> "blocks", batch |-> batch, tokens |-> HubPoolTokens(batch),
                   since |-> latestBlockSearched, head |-> head,
                   blocks |-> <<>>, utilization |-> <<>>, basis |-> <<>>, quotes |-> <<>>,
                   lookUps |-> {}]
           c == IF latestBlockSearched = 0 THEN Threw("currentTime")
                ELSE IF \E i \in DOMAIN batch : L1TokenForDeposit(batch[i]) = None
                  THEN Threw("route") ELSE new
<1>2. Begin(u, c)
  BY <1>1
<1>3. head \in Nat /\ latestBlockSearched \in Nat
  BY DEF QuotesInv
<1>4. BatchOK(new, head, latestBlockSearched)
  <2>1. /\ DOMAIN new = BatchFields /\ new.stage = "blocks"
        /\ new.since = latestBlockSearched /\ new.head = head
        /\ new.blocks = <<>> /\ new.utilization = <<>> /\ new.lookUps = {}
    BY DEF BatchFields
  <2> HIDE DEF new
  <2>2. BlocksOK(new, head) /\ UtilizationOK(new)
    BY <2>1 DEF BlocksOK, UtilizationOK
  <2> QED
    BY <1>3, <2>1, <2>2 DEF BatchOK
<1>5. BatchCallOK(c, head, latestBlockSearched)
  <2> HIDE DEF new
  <2>1. c \in {Threw("currentTime"), Threw("route"), new}
    BY Zenon
  <2> HIDE DEF c
  <2> QED
    BY <1>4, <2>1 DEF BatchCallOK, NoBatch
<1> HIDE DEF c, new
<1>6. quoting' = [quoting EXCEPT ![u] = c] /\ UNCHANGED <<head, latestBlockSearched, cache>>
  BY <1>2 DEF Begin
<1>7. CacheOK'
  BY <1>6 DEF QuotesInv, CacheOK
<1> QED
  BY <1>5, <1>6, <1>7, OneCall

(* So does a look-up of the current utilisation.                          *)
LEMMA CurrentRight ==
  ASSUME QuotesInv, NEW u \in Quoters, StartCurrent(u)
  PROVE  QuotesInv'
<1>1. PICK token \in L1Tokens :
        Begin(u, [stage |-> "current", current |-> None,
                  lookUps |-> {LookUp("current", token, latestBlockSearched, 0, head, 0)}])
  BY DEF StartCurrent
<1> DEFINE l == LookUp("current", token, latestBlockSearched, 0, head, 0)
           c == [stage |-> "current", current |-> None, lookUps |-> {l}]
<1>2. Begin(u, c)
  BY <1>1
<1>3. LookUpOK(l)
  BY LookUpIs
<1> HIDE DEF l
<1>4. CurrentOK(c)
  BY <1>3 DEF CurrentOK
<1> HIDE DEF c
<1>5. quoting' = [quoting EXCEPT ![u] = c] /\ UNCHANGED <<head, latestBlockSearched, cache>>
  BY <1>2 DEF Begin
<1>6. CacheOK'
  BY <1>5 DEF QuotesInv, CacheOK
<1> QED
  BY <1>4, <1>5, <1>6, OneCall DEF BatchCallOK

(* The last timestamp resolved asks for the utilisation of every deposit. *)
LEMMA ResolveRight ==
  ASSUME QuotesInv, NEW u \in Quoters, ResolveTimestamp(u)
  PROVE  QuotesInv'
<1> DEFINE c == quoting[u]
<1>1. c.stage = "blocks"
  BY DEF ResolveTimestamp
<1>2. BatchOK(c, head, latestBlockSearched)
  BY <1>1 DEF QuotesInv, BatchCallOK, CurrentOK, NoBatch, NotQuoting, Threw
<1>3. PICK t : quoting' = [quoting EXCEPT ![u] =
        LET d == [quoting[u] EXCEPT !.blocks = With(@, t, Min({t, head}))]
        IN IF DOMAIN d.blocks = Timestamps(d.batch)
             THEN [d EXCEPT !.stage = "utilization", !.lookUps = UtilizationLookUps(d)]
             ELSE d]
  BY DEF ResolveTimestamp
<1> DEFINE d == [c EXCEPT !.blocks = With(@, t, Min({t, head}))]
           e == [d EXCEPT !.stage = "utilization", !.lookUps = UtilizationLookUps(d)]
           new == IF DOMAIN d.blocks = Timestamps(d.batch) THEN e ELSE d
<1>4. quoting' = [quoting EXCEPT ![u] = new]
  BY <1>3
<1>5. DOMAIN c = BatchFields
  BY <1>2 DEF BatchOK
<1>6. /\ DOMAIN d = BatchFields
      /\ d.blocks = With(c.blocks, t, Min({t, head}))
      /\ d.stage = "blocks" /\ d.batch = c.batch /\ d.tokens = c.tokens /\ d.lookUps = c.lookUps
      /\ d.since = c.since /\ d.head = c.head /\ d.utilization = c.utilization
  BY <1>1, <1>5 DEF BatchFields
<1> HIDE DEF c, d
<1>7. /\ DOMAIN e = BatchFields
      /\ e.stage = "utilization" /\ e.lookUps = UtilizationLookUps(d)
      /\ e.blocks = d.blocks /\ e.batch = d.batch /\ e.tokens = d.tokens
      /\ e.since = d.since /\ e.head = d.head /\ e.utilization = d.utilization
  BY <1>6 DEF BatchFields
<1> HIDE DEF e
<1>8. head \in Nat /\ c.head \in Nat /\ c.head <= head
  BY <1>2 DEF QuotesInv, BatchOK
<1>9. \A k \in DOMAIN d.blocks : \E j \in d.head..head : d.blocks[k] = Min({k, j})
  <2>1. head \in c.head..head
    BY <1>8
  <2>2. \A k \in DOMAIN c.blocks : \E j \in c.head..head : c.blocks[k] = Min({k, j})
    BY <1>2 DEF BatchOK, BlocksOK
  <2> QED
    <3>1. ASSUME NEW k \in DOMAIN d.blocks
          PROVE  \E j \in d.head..head : d.blocks[k] = Min({k, j})
      <4>1. d.head = c.head
        BY <1>6
      <4>2. CASE k = t
        <5>1. d.blocks[k] = Min({k, head})
          BY <1>6, <4>2 DEF With
        <5> QED
          BY <2>1, <4>1, <5>1
      <4>3. CASE k # t
        <5>1. k \in DOMAIN c.blocks /\ d.blocks[k] = c.blocks[k]
          BY <1>6, <4>3 DEF With
        <5> QED
          BY <2>2, <4>1, <5>1
      <4> QED
        BY <4>2, <4>3
    <3> QED
      BY <3>1
<1>10. UtilizationOK(d) /\ UtilizationOK(e)
  BY <1>2, <1>6, <1>7 DEF BatchOK, UtilizationOK
<1>11. BatchOK(d, head, latestBlockSearched)
  <2>1. BlocksOK(d, head)
    BY <1>6, <1>9 DEF BlocksOK
  <2> QED
    BY <1>2, <1>6, <1>10, <2>1 DEF BatchOK
<1>12. ASSUME DOMAIN d.blocks = Timestamps(d.batch)
       PROVE  BatchOK(e, head, latestBlockSearched)
  <2>1. BlocksOK(e, head)
    BY <1>7, <1>9, <1>12 DEF BlocksOK
  <2> DEFINE asked(i) == LookUp("utilization", d.tokens[d.batch[i].inputToken],
                           d.blocks[d.batch[i].quoteTimestamp], 0,
                           d.batch[i].quoteTimestamp, TimeToCache)
  <2>2. e.lookUps = {asked(i) : i \in DOMAIN d.batch}
    BY <1>7 DEF UtilizationLookUps
  <2>3. \A i \in DOMAIN d.batch :
          /\ LookUpOK(asked(i)) /\ asked(i).amount = 0
          /\ asked(i).token = HubPoolToken(e, e.batch[i])
          /\ asked(i).block = BlockOf(e, e.batch[i])
    BY <1>7, LookUpIs DEF HubPoolToken, BlockOf
  <2> HIDE DEF asked
  <2>4. \A l \in e.lookUps : LookUpOK(l) /\ l.amount = 0
    BY <2>2, <2>3
  <2>5. PreparedOK(e)
    <3>1. \A i \in DOMAIN e.batch : \E l \in e.lookUps :
            l.token = HubPoolToken(e, e.batch[i]) /\ l.block = BlockOf(e, e.batch[i])
      BY <1>7, <2>2, <2>3
    <3> QED
      BY <2>4, <3>1 DEF PreparedOK
  <2> QED
    BY <1>2, <1>6, <1>7, <1>10, <2>1, <2>4, <2>5 DEF BatchOK
<1>13. BatchCallOK(new, head, latestBlockSearched)
  BY <1>11, <1>12 DEF BatchCallOK
<1> HIDE DEF new
<1>14. UNCHANGED <<head, latestBlockSearched, cache>>
  BY DEF ResolveTimestamp
<1>15. CacheOK'
  BY <1>14 DEF QuotesInv, CacheOK
<1> QED
  BY <1>4, <1>13, <1>14, <1>15, OneCall

(* What a look-up that goes on changes is where it stands.                 *)
LEMMA GoesOnRight ==
  ASSUME QuotesInv, NEW u \in Quoters, LookingUp(u), NEW l \in quoting[u].lookUps,
         NEW at, NEW answer, at = "set" => answer = At(l.token, l.block, l.amount),
         GoesOn(u, l, at, answer), UNCHANGED <<head, latestBlockSearched, cache>>
  PROVE  QuotesInv'
<1> DEFINE c == quoting[u]
           m == [l EXCEPT !.at = at, !.answer = answer]
           new == [c EXCEPT !.lookUps = (@ \ {l}) \cup {m}]
<1>1. quoting' = [quoting EXCEPT ![u] = new]
  BY DEF GoesOn
<1>2. BatchOK(c, head, latestBlockSearched) \/ CurrentOK(c)
  BY DEF LookingUp, QuotesInv, BatchCallOK, NoBatch, NotQuoting, Threw
<1>3. c.stage \in {"utilization", "fees", "current"}
  BY DEF LookingUp
<1>4. LookUpOK(l)
  BY <1>2 DEF BatchOK, CurrentOK
<1>5. LookUpOK(m) /\ m.for = l.for /\ m.token = l.token /\ m.block = l.block /\ m.amount = l.amount
  BY <1>4 DEF LookUpOK, LookUpFields
<1> HIDE DEF m
<1>6. BatchCallOK(new, head, latestBlockSearched)
  <2>1. CASE CurrentOK(c)
    <3>1. CurrentOK(new)
      BY <1>5, <2>1 DEF CurrentOK
    <3> QED
      BY <3>1 DEF BatchCallOK
  <2>2. CASE BatchOK(c, head, latestBlockSearched)
    <3>1. DOMAIN c = BatchFields
      BY <2>2 DEF BatchOK
    <3>2. /\ DOMAIN new = BatchFields
          /\ new.lookUps = (c.lookUps \ {l}) \cup {m}
          /\ new.stage = c.stage /\ new.batch = c.batch /\ new.tokens = c.tokens
          /\ new.since = c.since /\ new.head = c.head /\ new.blocks = c.blocks
          /\ new.utilization = c.utilization /\ new.basis = c.basis /\ new.quotes = c.quotes
      BY <3>1 DEF BatchFields
    <3> HIDE DEF new, c
    <3>3. \A d : HubPoolToken(new, d) = HubPoolToken(c, d) /\ BlockOf(new, d) = BlockOf(c, d)
      BY <3>2 DEF HubPoolToken, BlockOf
    <3>4. BlocksOK(new, head) /\ UtilizationOK(new)
      <4>1. BlocksOK(c, head) /\ UtilizationOK(c)
        BY <2>2 DEF BatchOK
      <4> QED
        BY <3>2, <4>1 DEF BlocksOK, UtilizationOK
    <3>5. c.stage = "utilization" => PreparedOK(new)
      <4>1. SUFFICES ASSUME PreparedOK(c) PROVE PreparedOK(new)
        BY <2>2 DEF BatchOK
      <4>2. \A j \in new.lookUps : j.amount = 0
        BY <1>5, <3>2, <4>1 DEF PreparedOK, c
      <4>3. ASSUME NEW i \in DOMAIN new.batch, NEW t, NEW k,
                   t = HubPoolToken(c, c.batch[i]), k = BlockOf(c, c.batch[i])
            PROVE  <<t, k>> \in DOMAIN new.utilization
                     \/ \E j \in new.lookUps : j.token = t /\ j.block = k
        <5>1. <<t, k>> \in DOMAIN c.utilization \/ \E j \in c.lookUps : j.token = t /\ j.block = k
          BY <3>2, <4>1, <4>3 DEF PreparedOK
        <5> QED
          BY <1>5, <3>2, <5>1
      <4> QED
        BY <3>2, <3>3, <4>2, <4>3 DEF PreparedOK
    <3>6. c.stage = "fees" => FeesOK(new, latestBlockSearched)
      <4>1. SUFFICES ASSUME FeesOK(c, latestBlockSearched)
                     PROVE  FeesOK(new, latestBlockSearched)
        BY <2>2 DEF BatchOK
      <4>2. ASSUME NEW i \in Paid(new.batch) PROVE BasisOK(new, i, latestBlockSearched)
        <5>1. BasisOK(c, i, latestBlockSearched)
          BY <3>2, <4>1 DEF FeesOK
        <5> QED
          BY <3>2, <3>3, <5>1 DEF BasisOK
      <4>3. ASSUME NEW j \in new.lookUps PROVE FeeAsked(new, j)
        <5>1. FeeAsked(c, j) \/ (j = m /\ FeeAsked(c, l))
          BY <3>2, <4>1 DEF FeesOK, c
        <5> QED
          BY <1>5, <3>2, <3>3, <5>1 DEF FeeAsked
      <4>4. \A i \in DOMAIN new.batch : i \in DOMAIN new.quotes \/ \E j \in new.lookUps : j.for = i
        BY <1>5, <3>2, <4>1 DEF FeesOK
      <4>5. ASSUME NEW i \in DOMAIN new.quotes PROVE QuoteOK(new, i)
        <5>1. QuoteOK(c, i)
          BY <3>2, <4>1 DEF FeesOK
        <5> QED
          BY <3>2, <3>3, <5>1 DEF QuoteOK
      <4> QED
        BY <4>2, <4>3, <4>4, <4>5 DEF FeesOK
    <3>7. \A j \in new.lookUps : LookUpOK(j)
      BY <1>5, <2>2, <3>2 DEF BatchOK
    <3>8. BatchOK(new, head, latestBlockSearched)
      BY <1>3, <2>2, <3>2, <3>4, <3>5, <3>6, <3>7 DEF BatchOK, c
    <3> QED
      BY <3>8 DEF BatchCallOK
  <2> QED
    BY <1>2, <2>1, <2>2
<1> HIDE DEF new
<1>7. CacheOK'
  BY DEF QuotesInv, CacheOK
<1> QED
  BY <1>1, <1>6, <1>7, OneCall

(* A look-up that is answered is answered rightly, from the cache, by the  *)
(* contract, or by the contract a while ago.                               *)
LEMMA FinishStep ==
  ASSUME QuotesInv, NEW u \in Quoters, LookingUp(u), NEW l \in quoting[u].lookUps, NEW x,
         x = At(l.token, l.block, l.amount),
         quoting' = [quoting EXCEPT ![u] = Finish(quoting[u], l, x)],
         UNCHANGED <<head, latestBlockSearched>>, CacheOK'
  PROVE  QuotesInv'
<1>1. /\ head \in Nat /\ latestBlockSearched \in Nat
      /\ BatchCallOK(quoting[u], head, latestBlockSearched)
  BY DEF QuotesInv
<1>2. quoting[u].stage \in {"utilization", "fees", "current"}
  BY DEF LookingUp
<1>3. BatchCallOK(Finish(quoting[u], l, x), head, latestBlockSearched)
  BY <1>1, <1>2, FinishRight
<1> QED
  BY <1>3, OneCall

(* A look-up finds its answer in the cache, or goes on to the contract.   *)
LEMMA CacheAnswersRight ==
  ASSUME QuotesInv, NEW u \in Quoters, CacheAnswers(u)
  PROVE  QuotesInv'
<1>1. LookingUp(u) /\ UNCHANGED <<head, latestBlockSearched, cache>>
  BY DEF CacheAnswers
<1>2. PICK l \in quoting[u].lookUps :
        \/ /\ Key(l) \in DOMAIN cache
           /\ quoting' = [quoting EXCEPT ![u] = Finish(quoting[u], l, cache[Key(l)])]
        \/ GoesOn(u, l, "resolve", None)
  BY DEF CacheAnswers
<1>3. CASE Key(l) \in DOMAIN cache
           /\ quoting' = [quoting EXCEPT ![u] = Finish(quoting[u], l, cache[Key(l)])]
  <2>1. cache[Key(l)] = At(l.token, l.block, l.amount)
    BY <1>3, KeyIs DEF QuotesInv, CacheOK
  <2>2. CacheOK'
    BY <1>1 DEF QuotesInv, CacheOK
  <2> QED
    BY <1>1, <1>3, <2>1, <2>2, FinishStep
<1>4. CASE GoesOn(u, l, "resolve", None)
  BY <1>1, <1>4, GoesOnRight
<1> QED
  BY <1>2, <1>3, <1>4

(* The contract answers a look-up, which keeps the answer or ends with it.*)
LEMMA ContractAnswersRight ==
  ASSUME QuotesInv, NEW u \in Quoters, ContractAnswers(u)
  PROVE  QuotesInv'
<1>1. LookingUp(u) /\ UNCHANGED <<head, latestBlockSearched, cache>>
  BY DEF ContractAnswers
<1>2. PICK l \in quoting[u].lookUps :
        \/ GoesOn(u, l, "set", OnChain(l))
        \/ quoting' = [quoting EXCEPT ![u] = Finish(quoting[u], l, OnChain(l))]
  BY DEF ContractAnswers
<1>3. OnChain(l) = At(l.token, l.block, l.amount)
  BY DEF OnChain, At
<1>4. CASE GoesOn(u, l, "set", OnChain(l))
  BY <1>1, <1>3, <1>4, GoesOnRight
<1>5. CASE quoting' = [quoting EXCEPT ![u] = Finish(quoting[u], l, OnChain(l))]
  <2>1. CacheOK'
    BY <1>1 DEF QuotesInv, CacheOK
  <2> QED
    BY <1>1, <1>3, <1>5, <2>1, FinishStep
<1> QED
  BY <1>2, <1>4, <1>5

(* What is stored under a key is what the contract says of it.            *)
LEMMA CacheStoresRight ==
  ASSUME QuotesInv, NEW u \in Quoters, CacheStores(u)
  PROVE  QuotesInv'
<1>1. LookingUp(u) /\ UNCHANGED <<head, latestBlockSearched>>
  BY DEF CacheStores
<1>2. PICK l \in quoting[u].lookUps :
        /\ l.at = "set"
        /\ cache' = With(cache, Key(l), l.answer)
        /\ quoting' = [quoting EXCEPT ![u] = Finish(quoting[u], l, l.answer)]
  BY DEF CacheStores
<1>3. BatchOK(quoting[u], head, latestBlockSearched) \/ CurrentOK(quoting[u])
  BY <1>1 DEF LookingUp, QuotesInv, BatchCallOK, NoBatch, NotQuoting, Threw
<1>4. l.answer = At(l.token, l.block, l.amount)
  BY <1>2, <1>3 DEF BatchOK, CurrentOK, LookUpOK
<1>5. CacheOK'
  <2>1. At(Key(l)[1], Key(l)[2], IF Len(Key(l)) = 2 THEN 0 ELSE Key(l)[3]) = l.answer
    BY <1>4, KeyIs
  <2>2. \A k \in DOMAIN cache : cache[k] = At(k[1], k[2], IF Len(k) = 2 THEN 0 ELSE k[3])
    BY DEF QuotesInv, CacheOK
  <2>3. ASSUME NEW k \in DOMAIN cache'
        PROVE  cache'[k] = At(k[1], k[2], IF Len(k) = 2 THEN 0 ELSE k[3])
    <3>1. CASE k = Key(l)
      <4>1. cache'[k] = l.answer
        BY <1>2, <3>1 DEF With
      <4> QED
        BY <2>1, <3>1, <4>1
    <3>2. CASE k # Key(l)
      <4>1. k \in DOMAIN cache /\ cache'[k] = cache[k]
        BY <1>2, <3>2 DEF With
      <4> QED
        BY <2>2, <4>1
    <3> QED
      BY <3>1, <3>2
  <2> QED
    BY <2>3 DEF CacheOK, At
<1> QED
  BY <1>1, <1>2, <1>4, <1>5, FinishStep

(* A call that fails or is taken leaves nothing behind.                   *)
LEMMA EndRight ==
  ASSUME QuotesInv, NEW u \in Quoters, Fail(u) \/ TakeQuotes(u)
  PROVE  QuotesInv'
<1>1. UNCHANGED <<head, latestBlockSearched, cache>>
  BY DEF Fail, TakeQuotes
<1>2. PICK c \in {Threw("request"), NotQuoting} : quoting' = [quoting EXCEPT ![u] = c]
  BY DEF Fail, TakeQuotes
<1>3. BatchCallOK(c, head, latestBlockSearched)
  BY DEF BatchCallOK, NoBatch
<1>4. CacheOK'
  BY <1>1 DEF QuotesInv, CacheOK
<1> QED
  BY <1>1, <1>2, <1>3, <1>4, OneCall

(* Every step of the calls, the clients and the chain keeps the invariant.*)
LEMMA QuotesStep == QuotesInv /\ [QuotesNext]_quotesVars => QuotesInv'
<1> SUFFICES ASSUME QuotesInv, [QuotesNext]_quotesVars PROVE QuotesInv'
  OBVIOUS
<1>1. head \in Nat /\ latestBlockSearched \in Nat
  BY DEF QuotesInv
<1>2. CASE MineBlock
  <2>1. head' \in Nat /\ head <= head' /\ UNCHANGED <<latestBlockSearched, cache, quoting>>
    BY <1>1, <1>2 DEF MineBlock
  <2> QED
    BY <1>1, <2>1, ChainGoesOn
<1>3. CASE ClientsUpdate
  <2>1. latestBlockSearched' \in Nat /\ latestBlockSearched <= latestBlockSearched'
        /\ UNCHANGED <<head, cache, quoting>>
    BY <1>1, <1>3 DEF ClientsUpdate
  <2> QED
    BY <1>1, <2>1, ChainGoesOn
<1>4. ASSUME NEW u \in Quoters, Start(u) PROVE QuotesInv'
  BY <1>4, StartRight
<1>5. ASSUME NEW u \in Quoters, ResolveTimestamp(u) PROVE QuotesInv'
  BY <1>5, ResolveRight
<1>6. ASSUME NEW u \in Quoters, StartCurrent(u) PROVE QuotesInv'
  BY <1>6, CurrentRight
<1>7. ASSUME NEW u \in Quoters, CacheAnswers(u) PROVE QuotesInv'
  BY <1>7, CacheAnswersRight
<1>8. ASSUME NEW u \in Quoters, ContractAnswers(u) PROVE QuotesInv'
  BY <1>8, ContractAnswersRight
<1>9. ASSUME NEW u \in Quoters, CacheStores(u) PROVE QuotesInv'
  BY <1>9, CacheStoresRight
<1>10. ASSUME NEW u \in Quoters, Fail(u) \/ TakeQuotes(u) PROVE QuotesInv'
  BY <1>10, EndRight
<1>11. CASE UNCHANGED quotesVars
  <2>1. UNCHANGED <<head, latestBlockSearched, cache, quoting>>
    BY <1>11 DEF quotesVars
  <2> QED
    BY <1>1, <2>1, ChainGoesOn
<1> QED
  BY <1>2, <1>3, <1>4, <1>5, <1>6, <1>7, <1>8, <1>9, <1>10, <1>11 DEF QuotesNext

(* The invariant is what a returned quote needs to be right.              *)
LEMMA QuotesMeans == QuotesInv => QuotesRight
<1> SUFFICES ASSUME QuotesInv, NEW u \in Quoters
             PROVE  /\ quoting[u].stage = "threw" => quoting[u].reason # "utilization"
                    /\ Quoted(u) => \A i \in DOMAIN quoting[u].batch :
                         LET c == quoting[u]  d == c.batch[i]  q == c.quotes[i]
                         IN /\ \E h \in c.head..head : q.quoteBlock = Min({d.quoteTimestamp, h})
                            /\ d.paid =>
                                 \E s \in c.since..latestBlockSearched :
                                   LET t == c.tokens[d.inputToken]
                                       model == RateModelAt[t][Min({q.quoteBlock, s})]
                                   IN /\ model # None
                                      /\ q.realizedLpFeePct =
                                           RealizedLpFeePct(model, At(t, q.quoteBlock, 0),
                                                            At(t, q.quoteBlock, d.inputAmount))
                            /\ ~d.paid => q.realizedLpFeePct = 0
  BY DEF QuotesRight
<1> DEFINE c == quoting[u]
<1>1. BatchCallOK(c, head, latestBlockSearched)
  BY DEF QuotesInv
<1>2. c.stage = "threw" => c.reason # "utilization"
  BY <1>1 DEF BatchCallOK, BatchOK, CurrentOK, NoBatch, NotQuoting, Threw
<1>3. ASSUME Quoted(u), NEW i \in DOMAIN c.batch
      PROVE  LET d == c.batch[i]  q == c.quotes[i]
             IN /\ \E h \in c.head..head : q.quoteBlock = Min({d.quoteTimestamp, h})
                /\ d.paid =>
                     \E s \in c.since..latestBlockSearched :
                       LET t == c.tokens[d.inputToken]
                           model == RateModelAt[t][Min({q.quoteBlock, s})]
                       IN /\ model # None
                          /\ q.realizedLpFeePct =
                               RealizedLpFeePct(model, At(t, q.quoteBlock, 0),
                                                At(t, q.quoteBlock, d.inputAmount))
                /\ ~d.paid => q.realizedLpFeePct = 0
  <2> DEFINE d == c.batch[i]
             q == c.quotes[i]
             t == c.tokens[d.inputToken]
  <2>1. BatchOK(c, head, latestBlockSearched) /\ c.stage = "returned"
    BY <1>1, <1>3 DEF Quoted, BatchCallOK, CurrentOK, NoBatch, NotQuoting, Threw
  <2>2. FeesOK(c, latestBlockSearched) /\ c.lookUps = {} /\ BlocksOK(c, head)
    BY <2>1 DEF BatchOK
  <2>3. QuoteOK(c, i) /\ (i \in Paid(c.batch) => BasisOK(c, i, latestBlockSearched))
    BY <2>2 DEF FeesOK
  <2>4. t = HubPoolToken(c, d) /\ q.quoteBlock = BlockOf(c, d)
    BY <2>3 DEF HubPoolToken, QuoteOK
  <2>5. d.quoteTimestamp \in DOMAIN c.blocks
    BY <2>1, <2>2 DEF BlocksOK, Timestamps
  <2>6. \E h \in c.head..head : q.quoteBlock = Min({d.quoteTimestamp, h})
    BY <2>2, <2>4, <2>5 DEF BlocksOK, BlockOf
  <2>7. (i \in Paid(c.batch)) <=> d.paid
    BY DEF Paid
  <2>8. ~d.paid => q.realizedLpFeePct = 0
    BY <2>3, <2>7 DEF QuoteOK
  <2>9. ASSUME d.paid
        PROVE  \E s \in c.since..latestBlockSearched :
                 /\ RateModelAt[t][Min({q.quoteBlock, s})] # None
                 /\ q.realizedLpFeePct =
                      RealizedLpFeePct(RateModelAt[t][Min({q.quoteBlock, s})],
                                       At(t, q.quoteBlock, 0), At(t, q.quoteBlock, d.inputAmount))
    <3>1. i \in Paid(c.batch) /\ BasisOK(c, i, latestBlockSearched)
      BY <2>3, <2>7, <2>9
    <3>2. c.basis[i].before = At(t, q.quoteBlock, 0) /\ c.basis[i].model # None
      BY <2>4, <3>1 DEF BasisOK
    <3>3. PICK s \in c.since..latestBlockSearched :
            c.basis[i].model = RateModelAt[t][Min({q.quoteBlock, s})]
      BY <2>4, <3>1 DEF BasisOK
    <3>4. q.realizedLpFeePct =
            RealizedLpFeePct(c.basis[i].model, c.basis[i].before, At(t, q.quoteBlock, d.inputAmount))
      BY <2>3, <2>4, <3>1 DEF QuoteOK
    <3> HIDE DEF c, d, q, t
    <3> QED
      BY <3>2, <3>3, <3>4
  <2> QED
    BY <2>6, <2>8, <2>9
<1> QED
  BY <1>2, <1>3

(* Whatever was cached, by whom, and however batches, their requests and   *)
(* updates mix: batchComputeRealizedLpFeePct quotes each deposit at its    *)
(* own block, by the utilisations and a rate model of one token, and never *)
(* misses a utilisation that it did not prepare.                           *)
THEOREM QuotesAreRight == QuotesSpec => []QuotesRight
<1>1. QuotesInit => QuotesInv
  BY QuotesStart
<1>2. QuotesInv /\ [QuotesNext]_quotesVars => QuotesInv'
  BY QuotesStep
<1>3. QuotesInv => QuotesRight
  BY QuotesMeans
<1> QED
  BY <1>1, <1>2, <1>3, PTL DEF QuotesSpec

-----------------------------------------------------------------------------
(* What LpFeeCalculator computes, for all rate models and utilisations.   *)

(* Integer division.                                                       *)
LEMMA Quotient ==
  ASSUME NEW n \in Nat, NEW k \in Nat \ {0}
  PROVE  n \div k \in Nat /\ k * (n \div k) <= n /\ n < k * (n \div k) + k
OBVIOUS

(* A quotient grows with its dividend.                                    *)
LEMMA QuotientGrows ==
  ASSUME NEW m \in Nat, NEW n \in Nat, m <= n, NEW k \in Nat \ {0}
  PROVE  m \div k <= n \div k
OBVIOUS

(* What is at most a multiple and a rest.                                 *)
LEMMA QuotientAtMost ==
  ASSUME NEW n \in Nat \ {0}, NEW q \in Int, NEW m \in Nat, NEW z \in Int, z <= n * q + m
  PROVE  z \div n <= q + m \div n
OBVIOUS

(* What is at least a multiple less a rest.                               *)
LEMMA QuotientAtLeast ==
  ASSUME NEW n \in Nat \ {0}, NEW q \in Int, NEW m \in Nat, NEW z \in Int, z >= n * q - m
  PROVE  z \div n >= q - m \div n - 1
OBVIOUS

(* A product grows with its factors.                                      *)
LEMMA ProductGrows ==
  ASSUME NEW a \in Nat, NEW b \in Nat, NEW x \in Nat, NEW y \in Nat, a <= b, x <= y
  PROVE  a * x <= b * y /\ a * x \in Nat
OBVIOUS

(* One is even, so its half is exact.                                     *)
LEMMA HalfIs == Half \in Nat /\ 2 * Half = One
BY OneAssumption DEF Half

(* A stretch of the curve: a rectangle and the triangle on top of it.      *)
Stretch(width, base, height) == Rectangle(width, base) + Triangle(width, height)

(* Its area but for rounding: two of its three divisions are nested.      *)
LEMMA StretchIs ==
  ASSUME NEW width \in Nat, NEW base \in Nat, NEW height \in Nat
  PROVE  /\ Stretch(width, base, height) \in Nat
         /\ 2 * One * Stretch(width, base, height) <= width * (2 * base + height)
         /\ width * (2 * base + height) < 2 * One * Stretch(width, base, height) + 4 * One
<1> DEFINE r == Rectangle(width, base)
           p == Half * height * width
           s == p \div One
           t == s \div One
<1>1. One \in Nat \ {0} /\ Half \in Nat /\ 2 * Half = One
  BY OneAssumption, HalfIs
<1>2. width * base \in Nat /\ height * width \in Nat /\ p \in Nat
  BY <1>1, ProductGrows
<1>3. r \in Nat /\ One * r <= width * base /\ width * base < One * r + One
  BY <1>1, <1>2, Quotient DEF Rectangle
<1>4. s \in Nat /\ One * s <= p /\ p < One * s + One
  BY <1>1, <1>2, Quotient
<1>5. t \in Nat /\ One * t <= s /\ s < One * t + One
  BY <1>1, <1>4, Quotient
<1>6. Stretch(width, base, height) = r + t
  BY DEF Stretch, Triangle
<1>7. 2 * p = One * (height * width)
  BY <1>1, <1>2
<1> HIDE DEF r, p, s, t
<1>8. 2 * s <= height * width /\ height * width < 2 * s + 2
  BY <1>1, <1>2, <1>4, <1>7
<1>9. 2 * (One * t) <= height * width /\ height * width < 2 * (One * t) + 2 * One
  <2> DEFINE w == height * width
             o == One * t
  <2>1. w \in Nat /\ o \in Nat /\ 2 * s <= w /\ w < 2 * s + 2 /\ o <= s /\ s < o + One
    BY <1>1, <1>2, <1>5, <1>8
  <2> HIDE DEF w, o
  <2>2. 2 * o <= w /\ w < 2 * o + 2 * One
    BY <1>1, <1>4, <2>1
  <2> QED
    BY <2>2 DEF w, o
<1>10. width * (2 * base + height) = 2 * (width * base) + height * width
  OBVIOUS
<1>11. 2 * One * (r + t) = 2 * (One * r) + 2 * (One * t)
  BY <1>1, <1>3, <1>5
<1> QED
  BY <1>1, <1>2, <1>3, <1>5, <1>6, <1>9, <1>10, <1>11

(* A wider and higher stretch has no smaller area.                        *)
LEMMA StretchGrows ==
  ASSUME NEW x \in Nat, NEW y \in Nat, x <= y, NEW base \in Nat,
         NEW g \in Nat, NEW h \in Nat, g <= h
  PROVE  Stretch(x, base, g) <= Stretch(y, base, h)
<1>1. One \in Nat \ {0} /\ Half \in Nat
  BY OneAssumption, HalfIs
<1>2. x * base <= y * base /\ x * base \in Nat /\ y * base \in Nat
  BY ProductGrows
<1>3. Rectangle(x, base) <= Rectangle(y, base)
  BY <1>1, <1>2, QuotientGrows DEF Rectangle
<1>4. Half * g <= Half * h /\ Half * g \in Nat /\ Half * h \in Nat
  BY <1>1, ProductGrows
<1> DEFINE p == Half * g * x
           q == Half * h * y
<1>5. p <= q /\ p \in Nat /\ q \in Nat
  BY <1>4, ProductGrows
<1> HIDE DEF p, q
<1>6. p \div One <= q \div One /\ p \div One \in Nat /\ q \div One \in Nat
  BY <1>1, <1>5, Quotient, QuotientGrows
<1>7. (p \div One) \div One <= (q \div One) \div One
  BY <1>1, <1>6, QuotientGrows
<1>8. (p \div One) \div One \in Nat /\ (q \div One) \div One \in Nat
  BY <1>1, <1>6, Quotient
<1>9. Rectangle(x, base) \in Nat /\ Rectangle(y, base) \in Nat
  BY <1>1, <1>2, Quotient DEF Rectangle
<1> QED
  BY <1>3, <1>7, <1>8, <1>9 DEF Stretch, Triangle, p, q

(* A line that rises by r over d, rounded down.                            *)
LEMMA LineAtMost ==
  ASSUME NEW d \in Nat \ {0}, NEW x \in Nat, NEW y \in Nat, x <= y, NEW r \in Nat,
         NEW g \in Nat, NEW h \in Nat,
         d * g <= x * r, x * r < d * g + d, d * h <= y * r, y * r < d * h + d
  PROVE  x * (h - g) <= (y - x) * (h + 1) + x
OBVIOUS

(* The same from below.                                                   *)
LEMMA LineAtLeast ==
  ASSUME NEW d \in Nat \ {0}, NEW x \in Nat, NEW y \in Nat, x <= y, NEW r \in Nat,
         NEW g \in Nat, NEW h \in Nat,
         d * g <= x * r, x * r < d * g + d, d * h <= y * r, y * r < d * h + d
  PROVE  x * (h - g) >= (y - x) * g - x
OBVIOUS

(* Of a stretch of the curve the part from x to y lies between the rates   *)
(* at its ends, but for what is rounded.                                   *)
LEMMA StretchBetween ==
  ASSUME NEW d \in Nat \ {0}, NEW x \in Nat, NEW y \in Nat, x <= y, x <= One,
         NEW r \in Nat, NEW base \in Nat
  PROVE  LET g == (x * r) \div d
             h == (y * r) \div d
             area == Stretch(y, base, h) - Stretch(x, base, g)
         IN /\ g \in Nat /\ h \in Nat /\ area \in Nat
            /\ One * area <= (y - x) * (base + h + 1) + 4 * One
            /\ One * area >= (y - x) * (base + g) - 4 * One
<1> DEFINE g == (x * r) \div d
           h == (y * r) \div d
           low == Stretch(x, base, g)
           high == Stretch(y, base, h)
<1>1. One \in Nat \ {0}
  BY OneAssumption
<1>2. x * r \in Nat /\ y * r \in Nat /\ x * r <= y * r
  BY ProductGrows
<1>3. g \in Nat /\ d * g <= x * r /\ x * r < d * g + d
  BY <1>2, Quotient
<1>4. h \in Nat /\ d * h <= y * r /\ y * r < d * h + d
  BY <1>2, Quotient
<1>5. g <= h
  BY <1>2, QuotientGrows
<1> HIDE DEF g, h
<1>6. /\ low \in Nat
      /\ 2 * One * low <= x * (2 * base + g) /\ x * (2 * base + g) < 2 * One * low + 4 * One
  BY <1>3, StretchIs
<1>7. /\ high \in Nat
      /\ 2 * One * high <= y * (2 * base + h) /\ y * (2 * base + h) < 2 * One * high + 4 * One
  BY <1>4, StretchIs
<1>8. low <= high
  BY <1>3, <1>4, <1>5, StretchGrows
<1> HIDE DEF low, high
<1>9. x * (h - g) <= (y - x) * (h + 1) + x
  BY <1>3, <1>4, LineAtMost
<1>10. x * (h - g) >= (y - x) * g - x
  BY <1>3, <1>4, LineAtLeast
<1>11. y * (2 * base + h) - x * (2 * base + g) = 2 * ((y - x) * base) + (y - x) * h + x * (h - g)
  BY <1>3, <1>4
<1>12. (y - x) * g <= (y - x) * h
  BY <1>3, <1>4, <1>5, ProductGrows
<1>13. /\ (y - x) * (base + h + 1) = (y - x) * base + (y - x) * h + (y - x)
       /\ (y - x) * (h + 1) = (y - x) * h + (y - x)
       /\ (y - x) * (base + g) = (y - x) * base + (y - x) * g
  BY <1>3, <1>4
<1>14. 2 * One * high - 2 * One * low = 2 * (One * (high - low))
  BY <1>1, <1>6, <1>7
<1>15. (y - x) * base \in Int /\ (y - x) * h \in Int /\ (y - x) * g \in Int /\ x * (h - g) \in Int
       /\ One * (high - low) \in Int
  BY <1>1, <1>3, <1>4, <1>6, <1>7
<1>16. 2 * (One * (high - low)) < 2 * ((y - x) * base) + (y - x) * h + x * (h - g) + 4 * One
  BY <1>1, <1>3, <1>4, <1>6, <1>7, <1>11, <1>14
<1>17. 2 * (One * (high - low)) > 2 * ((y - x) * base) + (y - x) * h + x * (h - g) - 4 * One
  BY <1>1, <1>3, <1>4, <1>6, <1>7, <1>11, <1>14
<1>18. One * (high - low) <= (y - x) * (base + h + 1) + 4 * One
  BY <1>1, <1>9, <1>13, <1>15, <1>16
<1>19. One * (high - low) >= (y - x) * (base + g) - 4 * One
  BY <1>1, <1>10, <1>12, <1>13, <1>15, <1>17
<1> QED
  BY <1>3, <1>4, <1>6, <1>7, <1>8, <1>18, <1>19 DEF g, h, low, high

(* A line up to its end, where nothing is rounded.                        *)
LEMMA LineToItsEnd ==
  ASSUME NEW d \in Nat \ {0}, NEW x \in Nat, x <= d, NEW r \in Nat, NEW g \in Nat,
         d * g <= x * r, x * r < d * g + d
  PROVE  g <= r /\ x * (r - g) >= (d - x) * g /\ x * (r - g) <= (d - x) * r + d
OBVIOUS

(* The part of a stretch from x to its end, and that from its start to x.  *)
LEMMA StretchToItsEnd ==
  ASSUME NEW d \in Nat \ {0}, d <= One, NEW x \in Nat, x <= d, NEW r \in Nat, NEW base \in Nat
  PROVE  LET g == (x * r) \div d
             area == Stretch(d, base, r) - Stretch(x, base, g)
         IN /\ g \in Nat /\ g <= r /\ area \in Nat
            /\ One * area <= (d - x) * (base + r) + 3 * One
            /\ One * area >= (d - x) * (base + g) - 2 * One
<1> DEFINE g == (x * r) \div d
           low == Stretch(x, base, g)
           high == Stretch(d, base, r)
<1>1. One \in Nat \ {0}
  BY OneAssumption
<1>2. x * r \in Nat
  BY ProductGrows
<1>3. g \in Nat /\ d * g <= x * r /\ x * r < d * g + d
  BY <1>2, Quotient
<1> HIDE DEF g
<1>4. g <= r /\ x * (r - g) >= (d - x) * g /\ x * (r - g) <= (d - x) * r + d
  BY <1>3, LineToItsEnd
<1>5. /\ low \in Nat
      /\ 2 * One * low <= x * (2 * base + g) /\ x * (2 * base + g) < 2 * One * low + 4 * One
  BY <1>3, StretchIs
<1>6. /\ high \in Nat
      /\ 2 * One * high <= d * (2 * base + r) /\ d * (2 * base + r) < 2 * One * high + 4 * One
  BY StretchIs
<1>7. low <= high
  BY <1>3, <1>4, StretchGrows
<1> HIDE DEF low, high
<1>8. d * (2 * base + r) - x * (2 * base + g) = 2 * ((d - x) * base) + (d - x) * r + x * (r - g)
  BY <1>3
<1>9. /\ (d - x) * (base + r) = (d - x) * base + (d - x) * r
      /\ (d - x) * (base + g) = (d - x) * base + (d - x) * g
  BY <1>3
<1>10. (d - x) * g <= (d - x) * r
  BY <1>3, <1>4, ProductGrows
<1>11. 2 * One * high - 2 * One * low = 2 * (One * (high - low))
  BY <1>1, <1>5, <1>6
<1>12. /\ (d - x) * base \in Int /\ (d - x) * r \in Int /\ (d - x) * g \in Int /\ x * (r - g) \in Int
       /\ One * (high - low) \in Int
  BY <1>1, <1>3, <1>5, <1>6
<1>13. 2 * (One * (high - low)) < 2 * ((d - x) * base) + (d - x) * r + x * (r - g) + 4 * One
  BY <1>1, <1>3, <1>5, <1>6, <1>8, <1>11
<1>14. 2 * (One * (high - low)) > 2 * ((d - x) * base) + (d - x) * r + x * (r - g) - 4 * One
  BY <1>1, <1>3, <1>5, <1>6, <1>8, <1>11
<1>15. One * (high - low) <= (d - x) * (base + r) + 3 * One
  BY <1>1, <1>4, <1>9, <1>12, <1>13
<1>16. One * (high - low) >= (d - x) * (base + g) - 2 * One
  BY <1>1, <1>4, <1>9, <1>10, <1>12, <1>14
<1> QED
  BY <1>3, <1>4, <1>5, <1>6, <1>7, <1>15, <1>16 DEF g, low, high

(* A stretch from its start on.                                           *)
LEMMA StretchFromStart ==
  ASSUME NEW x \in Nat, NEW base \in Nat, NEW h \in Nat
  PROVE  /\ Stretch(x, base, h) \in Nat
         /\ One * Stretch(x, base, h) <= x * (base + h)
         /\ One * Stretch(x, base, h) >= x * base - 2 * One
<1> DEFINE area == Stretch(x, base, h)
<1>1. One \in Nat \ {0}
  BY OneAssumption
<1>2. /\ area \in Nat
      /\ 2 * One * area <= x * (2 * base + h) /\ x * (2 * base + h) < 2 * One * area + 4 * One
  BY StretchIs
<1> HIDE DEF area
<1>3. /\ x * (2 * base + h) = 2 * (x * base) + x * h /\ x * (base + h) = x * base + x * h
      /\ 2 * One * area = 2 * (One * area)
  BY <1>1, <1>2
<1>4. x * base \in Nat /\ x * h \in Nat /\ One * area \in Nat
  BY <1>1, <1>2, ProductGrows
<1>5. One * area <= x * (base + h) /\ One * area >= x * base - 2 * One
  BY <1>1, <1>2, <1>3, <1>4
<1> QED
  BY <1>2, <1>5 DEF area

(* The lesser of two numbers.                                             *)
LEMMA MinOfTwo ==
  ASSUME NEW a \in Int, NEW b \in Int, a <= b
  PROVE  Min({a, b}) = a /\ Min({b, a}) = a
<1>1. \A m \in {a, b} : (\A k \in {a, b} : m <= k) => m = a
  OBVIOUS
<1>2. \A k \in {a, b} : a <= k
  OBVIOUS
<1>3. Min({a, b}) = a
  BY <1>1, <1>2 DEF Min
<1> QED
  BY <1>3

(* The greater of two numbers.                                            *)
LEMMA MaxOfTwo ==
  ASSUME NEW a \in Int, NEW b \in Int, a <= b
  PROVE  Max({a, b}) = b /\ Max({b, a}) = b
<1>1. \A m \in {a, b} : (\A k \in {a, b} : m >= k) => m = b
  OBVIOUS
<1>2. \A k \in {a, b} : b >= k
  OBVIOUS
<1>3. Max({a, b}) = b
  BY <1>1, <1>2 DEF Max
<1> QED
  BY <1>3

(* What the curve rises by over width, where it rises by rise over length. *)
Line(width, rise, length) == (width * rise) \div length

(* A line begins at zero and ends at its rise.                            *)
LEMMA LineIs ==
  ASSUME NEW w \in Nat, NEW r \in Nat, NEW d \in Nat \ {0}
  PROVE  Line(w, r, d) \in Nat /\ Line(0, r, d) = 0 /\ Line(d, r, d) = r
<1>1. w * r \in Nat /\ 0 * r = 0
  BY ProductGrows
<1>2. Line(w, r, d) \in Nat
  BY <1>1, Quotient DEF Line
<1>3. 0 \div d = 0
  OBVIOUS
<1>4. (d * r) \div d = r
  OBVIOUS
<1> QED
  BY <1>1, <1>2, <1>3, <1>4 DEF Line

(* The parts of a rate model with which nothing divides by zero.          *)
LEMMA UsableIs ==
  ASSUME NEW model, Usable(model)
  PROVE  /\ model.UBar \in Nat /\ model.UBar < One /\ One - model.UBar \in Nat \ {0}
         /\ model.R0 \in Nat /\ model.R1 \in Nat /\ model.R2 \in Nat
         /\ model.UBar = 0 => model.R1 = 0
<1>1. model.UBar \in 0..(One - 1) /\ model.R0 \in Nat /\ model.R1 \in Nat /\ model.R2 \in Nat
  BY DEF Usable, RateModel
<1> QED
  BY <1>1, OneAssumption DEF Usable

(* Below the kink.                                                         *)
LEMMA RateBelow ==
  ASSUME NEW model, Usable(model), NEW u \in Nat, u <= model.UBar
  PROVE  /\ BeforeKink(model, u) = u /\ AfterKink(model, u) = 0
         /\ InstantaneousRate(model, u) =
              model.R0 + IF model.UBar = 0 THEN 0 ELSE Line(u, model.R1, model.UBar)
<1> DEFINE ubar == model.UBar
           rest == One - model.UBar
           rise == IF ubar = 0 THEN 0 ELSE Line(u, model.R1, ubar)
<1>1. ubar \in Nat /\ rest \in Nat \ {0} /\ model.R0 \in Nat /\ model.R1 \in Nat /\ model.R2 \in Nat
  BY UsableIs
<1>2. BeforeKink(model, u) = u
  BY <1>1, MinOfTwo DEF BeforeKink
<1>3. AfterKink(model, u) = 0
  BY <1>1, MaxOfTwo DEF AfterKink
<1>4. Line(0, model.R2, rest) = 0
  BY <1>1, LineIs
<1>5. rise \in Nat
  BY <1>1, LineIs
<1>6. InstantaneousRate(model, u) = model.R0 + rise + Line(0, model.R2, rest)
  BY <1>2, <1>3 DEF InstantaneousRate, Line
<1> HIDE DEF rise
<1>7. InstantaneousRate(model, u) = model.R0 + rise
  BY <1>1, <1>4, <1>5, <1>6
<1> QED
  BY <1>2, <1>3, <1>7 DEF rise

(* From the kink on.                                                       *)
LEMMA RateAbove ==
  ASSUME NEW model, Usable(model), NEW u \in Nat, u >= model.UBar
  PROVE  /\ BeforeKink(model, u) = model.UBar /\ AfterKink(model, u) = u - model.UBar
         /\ InstantaneousRate(model, u) =
              model.R0 + model.R1 + Line(u - model.UBar, model.R2, One - model.UBar)
<1> DEFINE ubar == model.UBar
           rise == IF ubar = 0 THEN 0 ELSE Line(ubar, model.R1, ubar)
<1>1. ubar \in Nat /\ model.R0 \in Nat /\ model.R1 \in Nat /\ (ubar = 0 => model.R1 = 0)
  BY UsableIs
<1>2. BeforeKink(model, u) = ubar
  BY <1>1, MinOfTwo DEF BeforeKink
<1>3. AfterKink(model, u) = u - ubar
  BY <1>1, MaxOfTwo DEF AfterKink
<1>4. ubar # 0 => Line(ubar, model.R1, ubar) = model.R1
  BY <1>1, LineIs
<1>5. rise = model.R1
  BY <1>1, <1>4
<1>6. InstantaneousRate(model, u) = model.R0 + rise + Line(u - ubar, model.R2, One - ubar)
  BY <1>2, <1>3 DEF InstantaneousRate, Line
<1> QED
  BY <1>2, <1>3, <1>5, <1>6

(* A part of no width has no area.                                         *)
LEMMA NoWidth ==
  ASSUME NEW base \in Int, NEW height \in Int
  PROVE  Rectangle(0, base) = 0 /\ Triangle(0, height) = 0
<1>1. One \in Nat \ {0} /\ Half \in Nat
  BY OneAssumption, HalfIs
<1>2. 0 * base = 0 /\ Half * height \in Int /\ 0 \div One = 0
  BY <1>1
<1>3. Half * height * 0 = 0
  BY <1>2
<1> QED
  BY <1>2, <1>3 DEF Rectangle, Triangle

(* The area up to a utilisation below the kink is one stretch.            *)
LEMMA AreaBelow ==
  ASSUME NEW model, Usable(model), NEW u \in Nat, u <= model.UBar
  PROVE  AreaUnderRateCurve(model, u) =
           Stretch(u, model.R0, IF model.UBar = 0 THEN 0 ELSE Line(u, model.R1, model.UBar))
<1> DEFINE rise == IF model.UBar = 0 THEN 0 ELSE Line(u, model.R1, model.UBar)
           rate == InstantaneousRate(model, u)
<1>1. model.UBar \in Nat /\ model.R0 \in Nat /\ model.R1 \in Nat
  BY UsableIs
<1>2. rise \in Nat
  BY <1>1, LineIs
<1>3. BeforeKink(model, u) = u /\ AfterKink(model, u) = 0 /\ rate = model.R0 + rise
  BY RateBelow
<1>4. AreaUnderRateCurve(model, u) =
        Rectangle(u, model.R0) + Triangle(u, rate - model.R0)
          + Rectangle(0, RateAtKink(model)) + Triangle(0, rate - RateAtKink(model))
  BY <1>3 DEF AreaUnderRateCurve
<1> HIDE DEF rise, rate
<1>5. RateAtKink(model) \in Int /\ rate - RateAtKink(model) \in Int
  BY <1>1, <1>2, <1>3 DEF RateAtKink
<1>6. Rectangle(0, RateAtKink(model)) = 0 /\ Triangle(0, rate - RateAtKink(model)) = 0
  BY <1>5, NoWidth
<1>7. rate - model.R0 = rise
  BY <1>1, <1>2, <1>3
<1>8. Stretch(u, model.R0, rise) \in Nat
  BY <1>1, <1>2, StretchIs
<1>9. AreaUnderRateCurve(model, u) = Stretch(u, model.R0, rise) + 0 + 0
  BY <1>4, <1>6, <1>7 DEF Stretch
<1> QED
  BY <1>8, <1>9 DEF rise

(* From the kink on it is two, of which the first is whole.               *)
LEMMA AreaAbove ==
  ASSUME NEW model, Usable(model), NEW u \in Nat, u >= model.UBar
  PROVE  AreaUnderRateCurve(model, u) =
           Stretch(model.UBar, model.R0, model.R1)
             + Stretch(u - model.UBar, model.R0 + model.R1,
                       Line(u - model.UBar, model.R2, One - model.UBar))
<1> DEFINE ubar == model.UBar
           rise == Line(u - ubar, model.R2, One - ubar)
           rate == InstantaneousRate(model, u)
<1>1. /\ ubar \in Nat /\ One - ubar \in Nat \ {0} /\ (ubar = 0 => model.R1 = 0)
      /\ model.R0 \in Nat /\ model.R1 \in Nat /\ model.R2 \in Nat
  BY UsableIs
<1>2. u - ubar \in Nat
  BY <1>1
<1>3. rise \in Nat
  BY <1>1, <1>2, LineIs
<1>4. BeforeKink(model, u) = ubar /\ AfterKink(model, u) = u - ubar /\ rate = RateAtKink(model) + rise
  BY RateAbove DEF RateAtKink
<1>5. InstantaneousRate(model, ubar) = model.R0 + IF ubar = 0 THEN 0 ELSE Line(ubar, model.R1, ubar)
  BY <1>1, RateBelow
<1>6. ubar # 0 => Line(ubar, model.R1, ubar) = model.R1
  BY <1>1, LineIs
<1>7. InstantaneousRate(model, ubar) - model.R0 = model.R1
  BY <1>1, <1>5, <1>6
<1>8. AreaUnderRateCurve(model, u) =
        Rectangle(ubar, model.R0) + Triangle(ubar, InstantaneousRate(model, ubar) - model.R0)
          + Rectangle(u - ubar, RateAtKink(model)) + Triangle(u - ubar, rate - RateAtKink(model))
  BY <1>4 DEF AreaUnderRateCurve
<1> HIDE DEF rise, rate
<1>9. RateAtKink(model) = model.R0 + model.R1 /\ rate - RateAtKink(model) = rise
  BY <1>1, <1>3, <1>4 DEF RateAtKink
<1>10. AreaUnderRateCurve(model, u) =
         Rectangle(ubar, model.R0) + Triangle(ubar, model.R1)
           + Rectangle(u - ubar, model.R0 + model.R1) + Triangle(u - ubar, rise)
  BY <1>7, <1>8, <1>9
<1> DEFINE r1 == Rectangle(ubar, model.R0)
           t1 == Triangle(ubar, model.R1)
           r2 == Rectangle(u - ubar, model.R0 + model.R1)
           t2 == Triangle(u - ubar, rise)
<1>11. r1 \in Int /\ t1 \in Int /\ r2 \in Int /\ t2 \in Int
  <2>1. One \in Nat \ {0} /\ Half \in Nat
    BY OneAssumption, HalfIs
  <2>2. \A w \in Nat, h \in Nat : Rectangle(w, h) \in Int
    BY <2>1, ProductGrows, Quotient DEF Rectangle
  <2>3. ASSUME NEW w \in Nat, NEW h \in Nat PROVE Triangle(w, h) \in Int
    <3>1. Half * h * w \in Nat
      BY <2>1, ProductGrows
    <3> QED
      BY <2>1, <3>1, Quotient DEF Triangle
  <2> QED
    BY <1>1, <1>2, <1>3, <2>2, <2>3
<1>12. AreaUnderRateCurve(model, u) = r1 + t1 + r2 + t2
  BY <1>10
<1> HIDE DEF r1, t1, r2, t2
<1>13. AreaUnderRateCurve(model, u) = (r1 + t1) + (r2 + t2)
  BY <1>11, <1>12
<1> QED
  BY <1>13 DEF Stretch, r1, t1, r2, t2, rise

(* A rate is never negative.                                              *)
LEMMA RateIs ==
  ASSUME NEW model, Usable(model), NEW u \in Nat
  PROVE  InstantaneousRate(model, u) \in Nat
<1>1. /\ model.UBar \in Nat /\ One - model.UBar \in Nat \ {0}
      /\ model.R0 \in Nat /\ model.R1 \in Nat /\ model.R2 \in Nat
  BY UsableIs
<1>2. CASE u <= model.UBar
  <2>1. model.UBar # 0 => Line(u, model.R1, model.UBar) \in Nat
    BY <1>1, LineIs
  <2>2. InstantaneousRate(model, u) =
          model.R0 + IF model.UBar = 0 THEN 0 ELSE Line(u, model.R1, model.UBar)
    BY <1>2, RateBelow
  <2>3. CASE model.UBar = 0
    BY <1>1, <2>2, <2>3
  <2>4. CASE model.UBar # 0
    BY <1>1, <2>1, <2>2, <2>4
  <2> QED
    BY <2>3, <2>4
<1>3. CASE u > model.UBar
  <2>1. u - model.UBar \in Nat /\ u >= model.UBar
    BY <1>1, <1>3
  <2>2. Line(u - model.UBar, model.R2, One - model.UBar) \in Nat
    BY <1>1, <2>1, LineIs
  <2>3. InstantaneousRate(model, u) =
          model.R0 + model.R1 + Line(u - model.UBar, model.R2, One - model.UBar)
    BY <2>1, RateAbove
  <2> QED
    BY <1>1, <2>2, <2>3
<1> QED
  BY <1>1, <1>2, <1>3

(* The area between two utilisations lies between the rates at both, but   *)
(* for what is rounded: below the kink, above it, and across it.           *)
Between(model, x, y) ==
  LET area == AreaUnderRateCurve(model, y) - AreaUnderRateCurve(model, x)
  IN /\ area \in Nat
     /\ One * area <= (y - x) * (InstantaneousRate(model, y) + 1) + 4 * One
     /\ One * area >= (y - x) * InstantaneousRate(model, x) - 4 * One

(* Two utilisations below the kink.                                       *)
LEMMA BetweenBelow ==
  ASSUME NEW model, Usable(model), NEW x \in Nat, NEW y \in Nat, x < y, y <= model.UBar
  PROVE  Between(model, x, y)
<1> DEFINE ubar == model.UBar
           g == Line(x, model.R1, ubar)
           h == Line(y, model.R1, ubar)
<1>1. ubar \in Nat \ {0} /\ ubar < One /\ One \in Nat /\ model.R0 \in Nat /\ model.R1 \in Nat
  BY UsableIs, OneAssumption
<1>2. x <= y /\ x <= One /\ x <= ubar
  BY <1>1
<1>3. LET area == Stretch(y, model.R0, h) - Stretch(x, model.R0, g)
      IN /\ g \in Nat /\ h \in Nat /\ area \in Nat
         /\ One * area <= (y - x) * (model.R0 + h + 1) + 4 * One
         /\ One * area >= (y - x) * (model.R0 + g) - 4 * One
  BY <1>1, <1>2, StretchBetween DEF Line
<1>4. InstantaneousRate(model, x) = model.R0 + g /\ InstantaneousRate(model, y) = model.R0 + h
  BY <1>1, <1>2, RateBelow
<1>5. /\ AreaUnderRateCurve(model, x) = Stretch(x, model.R0, g)
      /\ AreaUnderRateCurve(model, y) = Stretch(y, model.R0, h)
  BY <1>1, <1>2, AreaBelow
<1> QED
  BY <1>3, <1>4, <1>5 DEF Between

(* Two utilisations above the kink: the stretch before it cancels out.    *)
LEMMA BetweenAbove ==
  ASSUME NEW model, Usable(model), NEW x \in Nat, NEW y \in Nat, x < y, x <= One,
         x >= model.UBar
  PROVE  Between(model, x, y)
<1> DEFINE ubar == model.UBar
           base == model.R0 + model.R1
           a == x - ubar
           b == y - ubar
           g == Line(a, model.R2, One - ubar)
           h == Line(b, model.R2, One - ubar)
           foot == Stretch(ubar, model.R0, model.R1)
           low == Stretch(a, base, g)
           high == Stretch(b, base, h)
<1>1. /\ ubar \in Nat /\ One - ubar \in Nat \ {0} /\ One \in Nat /\ base \in Nat
      /\ model.R0 \in Nat /\ model.R1 \in Nat /\ model.R2 \in Nat
  BY UsableIs, OneAssumption
<1>2. a \in Nat /\ b \in Nat /\ a <= b /\ a <= One /\ b - a = y - x /\ y >= ubar
  BY <1>1
<1>3. InstantaneousRate(model, x) = base + g /\ InstantaneousRate(model, y) = base + h
  BY <1>2, RateAbove
<1>4. AreaUnderRateCurve(model, x) = foot + low /\ AreaUnderRateCurve(model, y) = foot + high
  BY <1>2, AreaAbove
<1> HIDE DEF base, a, b
<1>5. g \in Nat /\ h \in Nat
  BY <1>1, <1>2, LineIs
<1>6. LET area == high - low
      IN /\ area \in Nat
         /\ One * area <= (b - a) * (base + h + 1) + 4 * One
         /\ One * area >= (b - a) * (base + g) - 4 * One
  BY <1>1, <1>2, StretchBetween DEF Line
<1>7. foot \in Nat /\ low \in Nat /\ high \in Nat
  BY <1>1, <1>2, <1>5, StretchIs
<1> HIDE DEF foot, low, high, g, h
<1>8. AreaUnderRateCurve(model, y) - AreaUnderRateCurve(model, x) = high - low
  BY <1>4, <1>7
<1> QED
  BY <1>2, <1>3, <1>6, <1>8 DEF Between

(* One below and one above: the end of a stretch and the start of one.    *)
LEMMA BetweenAcross ==
  ASSUME NEW model, Usable(model), NEW x \in Nat, NEW y \in Nat, x < model.UBar, y > model.UBar
  PROVE  Between(model, x, y)
<1> DEFINE ubar == model.UBar
           base == model.R0 + model.R1
           a == ubar - x
           b == y - ubar
           g == Line(x, model.R1, ubar)
           h == Line(b, model.R2, One - ubar)
           foot == Stretch(ubar, model.R0, model.R1)
           low == Stretch(x, model.R0, g)
           high == Stretch(b, base, h)
           below == model.R0 + g
           above == base + h
<1>1. /\ ubar \in Nat \ {0} /\ ubar <= One /\ One - ubar \in Nat \ {0} /\ One \in Nat
      /\ base \in Nat /\ model.R0 \in Nat /\ model.R1 \in Nat /\ model.R2 \in Nat
  BY UsableIs, OneAssumption
<1>2. a \in Nat /\ b \in Nat /\ a + b = y - x /\ x <= ubar /\ y >= ubar
  BY <1>1
<1>3. InstantaneousRate(model, x) = below /\ InstantaneousRate(model, y) = above
  BY <1>1, <1>2, RateBelow, RateAbove
<1>4. AreaUnderRateCurve(model, x) = low /\ AreaUnderRateCurve(model, y) = foot + high
  BY <1>1, <1>2, AreaBelow, AreaAbove
<1>5. /\ g \in Nat /\ g <= model.R1 /\ foot - low \in Nat
      /\ One * (foot - low) <= a * base + 3 * One
      /\ One * (foot - low) >= a * below - 2 * One
  BY <1>1, <1>2, StretchToItsEnd DEF Line
<1>6. h \in Nat
  BY <1>1, <1>2, LineIs
<1>7. high \in Nat /\ One * high <= b * above /\ One * high >= b * base - 2 * One
  BY <1>1, <1>2, <1>6, StretchFromStart
<1>8. foot \in Nat /\ low \in Nat
  BY <1>1, <1>5, StretchIs
<1>9. below \in Nat /\ above \in Nat /\ below <= base /\ base <= above
  BY <1>1, <1>5, <1>6
<1> HIDE DEF base, a, b, g, h, foot, low, high, below, above
<1> DEFINE area == foot + high - low
<1>10. area \in Nat /\ One * area = One * (foot - low) + One * high
  BY <1>1, <1>5, <1>7, <1>8
<1>11. a * base <= a * above /\ b * below <= b * base
  BY <1>1, <1>2, <1>9, ProductGrows
<1>12. (y - x) * (above + 1) = a * above + b * above + (y - x)
  <2>1. (a + b) * (above + 1) = a * above + b * above + (a + b)
    BY <1>2, <1>9
  <2> QED
    BY <1>2, <2>1
<1>13. (y - x) * below = a * below + b * below
  <2>1. (a + b) * below = a * below + b * below
    BY <1>2, <1>9
  <2> QED
    BY <1>2, <2>1
<1>14. /\ a * base \in Nat /\ a * above \in Nat /\ b * above \in Nat /\ b * base \in Nat
       /\ a * below \in Nat /\ b * below \in Nat
       /\ One * (foot - low) \in Nat /\ One * high \in Nat
  BY <1>1, <1>2, <1>5, <1>7, <1>9, ProductGrows
<1>15. One * area <= (y - x) * (above + 1) + 4 * One
  BY <1>1, <1>5, <1>7, <1>10, <1>11, <1>12, <1>14
<1>16. One * area >= (y - x) * below - 4 * One
  BY <1>1, <1>5, <1>7, <1>10, <1>11, <1>13, <1>14
<1>17. AreaUnderRateCurve(model, y) - AreaUnderRateCurve(model, x) = area
  BY <1>4, <1>7, <1>8
<1> HIDE DEF area
<1> QED
  BY <1>3, <1>10, <1>15, <1>16, <1>17 DEF Between

(* The mean rate between two utilisations lies between the rates at both,  *)
(* but for the tolerance: calculateApyFromUtilization for every rate model *)
(* and every two utilisations.                                             *)
LEMMA MeanRateBetween ==
  ASSUME NEW model, Usable(model), NEW x \in Nat, NEW y \in Nat, x <= y, x <= One
  PROVE  /\ ApyFromUtilization(model, x, y) \in Nat
         /\ ApyFromUtilization(model, x, y) >= InstantaneousRate(model, x) - Tolerance(x, y)
         /\ ApyFromUtilization(model, x, y) <= InstantaneousRate(model, y) + Tolerance(x, y)
<1> DEFINE low == InstantaneousRate(model, x)
           high == InstantaneousRate(model, y)
<1>1. low \in Nat /\ high \in Nat
  BY RateIs
<1>2. CASE x = y
  BY <1>1, <1>2 DEF ApyFromUtilization, Tolerance
<1>3. CASE x # y
  <2> DEFINE n == y - x
             area == AreaUnderRateCurve(model, y) - AreaUnderRateCurve(model, x)
             m == 4 * One
             z == area * One
  <2>1. One \in Nat \ {0} /\ m \in Nat /\ model.UBar \in Nat
    BY OneAssumption, UsableIs
  <2>2. n \in Nat \ {0} /\ x < y
    BY <1>3
  <2>3. Between(model, x, y)
    <3>1. CASE y <= model.UBar
      BY <2>2, <3>1, BetweenBelow
    <3>2. CASE x >= model.UBar
      BY <2>2, <3>2, BetweenAbove
    <3>3. CASE x < model.UBar /\ y > model.UBar
      BY <3>3, BetweenAcross
    <3> QED
      BY <2>1, <3>1, <3>2, <3>3
  <2>4. area \in Nat /\ One * area <= n * (high + 1) + m /\ One * area >= n * low - m
    BY <2>3 DEF Between
  <2>5. ApyFromUtilization(model, x, y) = z \div n /\ Tolerance(x, y) = 1 + m \div n
    BY <1>3 DEF ApyFromUtilization, Tolerance
  <2> HIDE DEF low, high, n, area, m
  <2>6. z \in Nat /\ z = One * area
    BY <2>1, <2>4
  <2> HIDE DEF z
  <2>7. z \div n <= high + 1 + m \div n
    BY <1>1, <2>1, <2>2, <2>4, <2>6, QuotientAtMost
  <2>8. z \div n >= low - m \div n - 1
    BY <1>1, <2>1, <2>2, <2>4, <2>6, QuotientAtLeast
  <2>9. z \div n \in Nat /\ m \div n \in Nat
    BY <2>1, <2>2, <2>6, Quotient
  <2>10. /\ z \div n \in Nat /\ z \div n >= low - (1 + m \div n)
         /\ z \div n <= high + (1 + m \div n)
    BY <1>1, <2>7, <2>8, <2>9
  <2> QED
    BY <2>5, <2>10 DEF low, high
<1> QED
  BY <1>2, <1>3

-----------------------------------------------------------------------------

(* What a batch was begun with it keeps to its end: its deposits, their    *)
(* tokens, and the blocks it began at.                                     *)
HasBatch(c) == "batch" \in DOMAIN c
Kept(new, c) ==
  HasBatch(new) => /\ HasBatch(c) /\ new.batch = c.batch /\ new.tokens = c.tokens
                   /\ new.since = c.since /\ new.head = c.head

(* It was begun with deposits that are routed to tokens of the HubPool, by *)
(* clients that had been updated.                                          *)
Grounded(c) ==
  /\ c.batch \in Batches
  /\ \A i \in DOMAIN c.batch : HubPoolToken(c, c.batch[i]) \in L1Tokens
  /\ c.since \in Nat \ {0} /\ c.head \in Nat \ {0}

GroundInv ==
  /\ routes \in RouteHistories
  /\ head \in Blocks /\ latestBlockSearched \in 0..head
  /\ \A u \in Quoters : HasBatch(quoting[u]) => Grounded(quoting[u])

(* Going on to the fees changes nothing of it.                            *)
LEMMA QuotePhaseKeeps ==
  ASSUME NEW c, DOMAIN c = BatchFields
  PROVE  Kept(QuotePhase(c), c)
<1> DEFINE new == [c EXCEPT !.stage = IF Paid(c.batch) = {} THEN "returned" ELSE "fees",
                            !.lookUps = FeeLookUps(c),
                            !.basis = [i \in Paid(c.batch) |-> Basis(c, c.batch[i])],
                            !.quotes = [i \in DOMAIN c.batch \ Paid(c.batch) |-> QuoteOf(c, i, 0)]]
           stage == IF Paid(c.batch) = {} THEN "returned" ELSE "fees"
           asked == FeeLookUps(c)
           basis == [i \in Paid(c.batch) |-> Basis(c, c.batch[i])]
           quotes == [i \in DOMAIN c.batch \ Paid(c.batch) |-> QuoteOf(c, i, 0)]
<1>1. QuotePhase(c) \in {Threw("rateModel"), Threw("utilization"), new}
  BY Zenon DEF QuotePhase
<1>2. new = [c EXCEPT !.stage = stage, !.lookUps = asked, !.basis = basis, !.quotes = quotes]
  OBVIOUS
<1> HIDE DEF new, stage, asked, basis, quotes
<1>3. /\ HasBatch(c) /\ new.batch = c.batch /\ new.tokens = c.tokens
      /\ new.since = c.since /\ new.head = c.head
  BY <1>2 DEF BatchFields, HasBatch
<1>4. \A reason : ~HasBatch(Threw(reason))
  BY DEF HasBatch, Threw
<1> QED
  BY <1>1, <1>3, <1>4 DEF Kept

(* Nor does the answer to a look-up.                                      *)
LEMMA FinishKeeps ==
  ASSUME NEW c, NEW h, NEW b, BatchCallOK(c, h, b),
         c.stage \in {"utilization", "fees", "current"}, NEW l, NEW x
  PROVE  Kept(Finish(c, l, x), c)
<1>1. ~NoBatch(c)
  BY DEF NoBatch, NotQuoting, Threw
<1>2. CASE c.stage = "utilization"
  <2> DEFINE new == [c EXCEPT !.lookUps = @ \ {l},
                              !.utilization = With(@, <<l.token, l.block>>, x)]
  <2>1. DOMAIN c = BatchFields
    BY <1>1, <1>2 DEF BatchCallOK, BatchOK, CurrentOK
  <2>2. /\ DOMAIN new = BatchFields /\ new.batch = c.batch /\ new.tokens = c.tokens
        /\ new.since = c.since /\ new.head = c.head
    BY <2>1 DEF BatchFields
  <2>3. Finish(c, l, x) = IF new.lookUps = {} THEN QuotePhase(new) ELSE new
    BY <1>2, Zenon DEF Finish, FinishUtilization
  <2>4. HasBatch(c) /\ HasBatch(new)
    BY <2>1, <2>2 DEF HasBatch, BatchFields
  <2> HIDE DEF new
  <2>5. Kept(QuotePhase(new), new)
    BY <2>2, QuotePhaseKeeps
  <2>6. CASE new.lookUps = {}
    <3>1. Finish(c, l, x) = QuotePhase(new)
      BY <2>3, <2>6
    <3> QED
      BY <2>2, <2>4, <2>5, <3>1 DEF Kept
  <2>7. CASE new.lookUps # {}
    <3>1. Finish(c, l, x) = new
      BY <2>3, <2>7
    <3> QED
      BY <2>2, <2>4, <3>1 DEF Kept
  <2> QED
    BY <2>6, <2>7
<1>3. CASE c.stage = "fees"
  <2> DEFINE fee == RealizedLpFeePct(c.basis[l.for].model, c.basis[l.for].before, x)
             quote == QuoteOf(c, l.for, fee)
             new == [c EXCEPT !.lookUps = @ \ {l}, !.quotes = With(@, l.for, quote),
                              !.stage = IF c.lookUps = {l} THEN "returned" ELSE @]
  <2>1. DOMAIN c = BatchFields
    BY <1>1, <1>3 DEF BatchCallOK, BatchOK, CurrentOK
  <2>2. Finish(c, l, x) = new
    BY <1>3, Zenon DEF Finish, FinishFee
  <2> HIDE DEF fee, quote
  <2>3. /\ new.batch = c.batch /\ new.tokens = c.tokens
        /\ new.since = c.since /\ new.head = c.head
    BY <2>1 DEF BatchFields
  <2>4. HasBatch(c)
    BY <2>1 DEF HasBatch, BatchFields
  <2> QED
    BY <2>2, <2>3, <2>4 DEF Kept
<1>4. CASE c.stage = "current"
  <2>1. Finish(c, l, x) = [c EXCEPT !.stage = "returned", !.lookUps = {}, !.current = x]
    BY <1>4, Zenon DEF Finish, FinishCurrent
  <2>2. DOMAIN c = {"stage", "current", "lookUps"}
    BY <1>1, <1>4 DEF BatchCallOK, BatchOK, CurrentOK
  <2>3. ~HasBatch(Finish(c, l, x))
    BY <2>1, <2>2 DEF HasBatch
  <2> QED
    BY <2>3 DEF Kept
<1> QED
  BY <1>2, <1>3, <1>4

(* A step that changes one call, and nothing of what its batch was begun   *)
(* with, keeps the ground of all.                                          *)
LEMMA OneCallKept ==
  ASSUME GroundInv, QuotesInv, NEW u \in Quoters, NEW c,
         quoting' = [quoting EXCEPT ![u] = c],
         Kept(c, quoting[u]) \/ (HasBatch(c) => Grounded(c)),
         UNCHANGED <<routes, head, latestBlockSearched>>
  PROVE  GroundInv'
<1>1. quoting = [v \in Quoters |-> quoting[v]]
  BY DEF QuotesInv
<1>2. \A v \in Quoters : quoting'[v] = IF v = u THEN c ELSE quoting[v]
  BY <1>1
<1>3. HasBatch(c) => Grounded(c)
  <2>1. SUFFICES ASSUME HasBatch(c), Kept(c, quoting[u]) PROVE Grounded(c)
    OBVIOUS
  <2>2. Grounded(quoting[u])
    BY <2>1 DEF GroundInv, Kept
  <2> QED
    BY <2>1, <2>2 DEF Kept, Grounded, HubPoolToken
<1>4. \A v \in Quoters : HasBatch(quoting'[v]) => Grounded(quoting'[v])
  BY <1>2, <1>3 DEF GroundInv
<1> QED
  BY <1>4 DEF GroundInv

(* At first there is no batch.                                            *)
LEMMA GroundStart == QuotesInit => GroundInv
<1> SUFFICES ASSUME QuotesInit PROVE GroundInv
  OBVIOUS
<1>1. \A u \in Quoters : ~HasBatch(quoting[u])
  BY DEF QuotesInit, NotQuoting, HasBatch
<1>2. head \in Blocks /\ latestBlockSearched \in 0..head
  BY BoundAssumption DEF QuotesInit, Blocks
<1> QED
  BY <1>1, <1>2 DEF QuotesInit, GroundInv

(* A batch begins only where every token is routed.                       *)
LEMMA StartGrounds ==
  ASSUME GroundInv, QuotesInv, NEW u \in Quoters, Start(u)
  PROVE  GroundInv'
<1>1. PICK batch \in Batches :
        Begin(u,
          IF latestBlockSearched = 0 THEN Threw("currentTime")
          ELSE IF \E i \in DOMAIN batch : L1TokenForDeposit(batch[i]) = None THEN Threw("route")
          ELSE [stage |-> "blocks", batch |-> batch, tokens |-> HubPoolTokens(batch),
                since |-> latestBlockSearched, head |-> head,
                blocks |-> <<>>, utilization |-> <<>>, basis |-> <<>>, quotes |-> <<>>,
                lookUps |-> {}])
  BY DEF Start
<1> DEFINE new == [stage |-> "blocks", batch |-> batch, tokens |-> HubPoolTokens(batch),
                   since |-> latestBlockSearched, head |-> head,
                   blocks |-> <<>>, utilization |-> <<>>, basis |-> <<>>, quotes |-> <<>>,
                   lookUps |-> {}]
           unrouted == \E i \in DOMAIN batch : L1TokenForDeposit(batch[i]) = None
           c == IF latestBlockSearched = 0 THEN Threw("currentTime")
                ELSE IF unrouted THEN Threw("route") ELSE new
<1>2. Begin(u, c)
  BY <1>1
<1>3. ASSUME latestBlockSearched # 0, ~unrouted
      PROVE  Grounded(new)
  <2> DEFINE tokens == HubPoolTokens(batch)
  <2>1. latestBlockSearched \in Blocks /\ latestBlockSearched \in Nat \ {0} /\ head \in Nat \ {0}
    BY <1>3, BoundAssumption DEF GroundInv, Blocks
  <2>2. /\ new.batch = batch /\ new.tokens = tokens
        /\ new.since = latestBlockSearched /\ new.head = head
    OBVIOUS
  <2>3. ASSUME NEW i \in DOMAIN batch
        PROVE  tokens[batch[i].inputToken] \in L1Tokens
    <3> DEFINE token == batch[i].inputToken
    <3>1. token \in InputTokens
      BY BatchAssumption DEF Deposit
    <3>2. tokens[token] = routes[token][latestBlockSearched]
      BY DEF HubPoolTokens
    <3>3. routes[token][latestBlockSearched] # None
      BY <1>3 DEF L1TokenForDeposit
    <3>4. routes \in [InputTokens -> [Blocks -> L1Tokens \cup {None}]]
      BY ChainAssumption DEF GroundInv
    <3>5. routes[token][latestBlockSearched] \in L1Tokens \cup {None}
      BY <2>1, <3>1, <3>4
    <3> QED
      BY <3>2, <3>3, <3>5
  <2> HIDE DEF tokens, new
  <2> QED
    BY <2>1, <2>2, <2>3 DEF Grounded, HubPoolToken
<1>4. HasBatch(c) => Grounded(c)
  <2>1. \A reason : ~HasBatch(Threw(reason))
    BY DEF HasBatch, Threw
  <2> HIDE DEF new, unrouted
  <2> QED
    BY <1>3, <2>1
<1> HIDE DEF c
<1>5. quoting' = [quoting EXCEPT ![u] = c] /\ UNCHANGED <<routes, head, latestBlockSearched>>
  BY <1>2 DEF Begin
<1> QED
  BY <1>4, <1>5, OneCallKept

(* A look-up of the current utilisation has no batch.                     *)
LEMMA CurrentGrounds ==
  ASSUME GroundInv, QuotesInv, NEW u \in Quoters, StartCurrent(u)
  PROVE  GroundInv'
<1>1. PICK token \in L1Tokens :
        Begin(u, [stage |-> "current", current |-> None,
                  lookUps |-> {LookUp("current", token, latestBlockSearched, 0, head, 0)}])
  BY DEF StartCurrent
<1> DEFINE asked == {LookUp("current", token, latestBlockSearched, 0, head, 0)}
           c == [stage |-> "current", current |-> None, lookUps |-> asked]
<1>2. Begin(u, c)
  BY <1>1
<1> HIDE DEF asked
<1>3. ~HasBatch(c)
  BY DEF HasBatch
<1> HIDE DEF c
<1>4. quoting' = [quoting EXCEPT ![u] = c] /\ UNCHANGED <<routes, head, latestBlockSearched>>
  BY <1>2 DEF Begin
<1> QED
  BY <1>3, <1>4, OneCallKept

(* A timestamp that is resolved changes nothing of it.                    *)
LEMMA ResolveGrounds ==
  ASSUME GroundInv, QuotesInv, NEW u \in Quoters, ResolveTimestamp(u)
  PROVE  GroundInv'
<1> DEFINE c == quoting[u]
<1>1. DOMAIN c = BatchFields
  BY DEF ResolveTimestamp, QuotesInv, BatchCallOK, BatchOK, CurrentOK, NoBatch, NotQuoting, Threw
<1>2. PICK t : quoting' = [quoting EXCEPT ![u] =
        LET d == [quoting[u] EXCEPT !.blocks = With(@, t, Min({t, head}))]
        IN IF DOMAIN d.blocks = Timestamps(d.batch)
             THEN [d EXCEPT !.stage = "utilization", !.lookUps = UtilizationLookUps(d)]
             ELSE d]
  BY DEF ResolveTimestamp
<1> DEFINE d == [c EXCEPT !.blocks = With(@, t, Min({t, head}))]
           e == [d EXCEPT !.stage = "utilization", !.lookUps = UtilizationLookUps(d)]
           new == IF DOMAIN d.blocks = Timestamps(d.batch) THEN e ELSE d
<1>3. quoting' = [quoting EXCEPT ![u] = new]
  BY <1>2
<1>4. /\ DOMAIN d = BatchFields /\ d.batch = c.batch /\ d.tokens = c.tokens
      /\ d.since = c.since /\ d.head = c.head
  BY <1>1 DEF BatchFields
<1> HIDE DEF c, d
<1>5. /\ e.batch = d.batch /\ e.tokens = d.tokens /\ e.since = d.since /\ e.head = d.head
  BY <1>4 DEF BatchFields
<1>6. HasBatch(c)
  BY <1>1 DEF HasBatch, BatchFields
<1> HIDE DEF e
<1>7. Kept(new, c)
  BY <1>4, <1>5, <1>6 DEF Kept
<1> HIDE DEF new
<1>8. UNCHANGED <<routes, head, latestBlockSearched>>
  BY DEF ResolveTimestamp
<1> QED
  BY <1>3, <1>7, <1>8, OneCallKept DEF c

(* Nor do the cache and the contract.                                     *)
LEMMA LookUpGrounds ==
  ASSUME GroundInv, QuotesInv, NEW u \in Quoters, LookingUp(u), NEW l,
         UNCHANGED <<routes, head, latestBlockSearched>>,
         \/ \E x : quoting' = [quoting EXCEPT ![u] = Finish(quoting[u], l, x)]
         \/ \E at, answer : GoesOn(u, l, at, answer)
  PROVE  GroundInv'
<1>1. /\ quoting[u].stage \in {"utilization", "fees", "current"}
      /\ BatchCallOK(quoting[u], head, latestBlockSearched)
  BY DEF LookingUp, QuotesInv
<1>2. ASSUME NEW x, quoting' = [quoting EXCEPT ![u] = Finish(quoting[u], l, x)]
      PROVE  GroundInv'
  <2>1. Kept(Finish(quoting[u], l, x), quoting[u])
    BY <1>1, FinishKeeps
  <2> QED
    BY <1>2, <2>1, OneCallKept
<1>3. ASSUME NEW at, NEW answer, GoesOn(u, l, at, answer)
      PROVE  GroundInv'
  <2> DEFINE c == quoting[u]
             lookUps == (c.lookUps \ {l}) \cup {[l EXCEPT !.at = at, !.answer = answer]}
             new == [c EXCEPT !.lookUps = lookUps]
  <2>1. quoting' = [quoting EXCEPT ![u] = new]
    BY <1>3 DEF GoesOn
  <2> HIDE DEF lookUps
  <2>2. Kept(new, c)
    BY DEF Kept, HasBatch
  <2> HIDE DEF new
  <2> QED
    BY <2>1, <2>2, OneCallKept
<1> QED
  BY <1>2, <1>3

(* Every step keeps the ground of all batches.                            *)
LEMMA GroundStep == GroundInv /\ QuotesInv /\ [QuotesNext]_quotesVars => GroundInv'
<1> SUFFICES ASSUME GroundInv, QuotesInv, [QuotesNext]_quotesVars PROVE GroundInv'
  OBVIOUS
<1>1. CASE MineBlock
  <2>1. head' \in Blocks /\ latestBlockSearched' \in 0..head'
    BY <1>1, BoundAssumption DEF MineBlock, GroundInv, Blocks
  <2> QED
    BY <1>1, <2>1 DEF MineBlock, GroundInv, Grounded
<1>2. CASE ClientsUpdate
  <2>1. latestBlockSearched' \in 0..head'
    BY <1>2 DEF ClientsUpdate, GroundInv, Blocks
  <2> QED
    BY <1>2, <2>1 DEF ClientsUpdate, GroundInv, Grounded
<1>3. ASSUME NEW u \in Quoters, Start(u) PROVE GroundInv'
  BY <1>3, StartGrounds
<1>4. ASSUME NEW u \in Quoters, ResolveTimestamp(u) PROVE GroundInv'
  BY <1>4, ResolveGrounds
<1>5. ASSUME NEW u \in Quoters, StartCurrent(u) PROVE GroundInv'
  BY <1>5, CurrentGrounds
<1>6. ASSUME NEW u \in Quoters, CacheAnswers(u) PROVE GroundInv'
  <2>1. PICK l \in quoting[u].lookUps :
          \/ quoting' = [quoting EXCEPT ![u] = Finish(quoting[u], l, cache[Key(l)])]
          \/ GoesOn(u, l, "resolve", None)
    BY <1>6, Zenon DEF CacheAnswers
  <2>2. LookingUp(u) /\ UNCHANGED <<routes, head, latestBlockSearched>>
    BY <1>6 DEF CacheAnswers
  <2> QED
    BY <2>1, <2>2, LookUpGrounds, Zenon
<1>7. ASSUME NEW u \in Quoters, ContractAnswers(u) PROVE GroundInv'
  <2>1. PICK l \in quoting[u].lookUps :
          \/ quoting' = [quoting EXCEPT ![u] = Finish(quoting[u], l, OnChain(l))]
          \/ GoesOn(u, l, "set", OnChain(l))
    BY <1>7, Zenon DEF ContractAnswers
  <2>2. LookingUp(u) /\ UNCHANGED <<routes, head, latestBlockSearched>>
    BY <1>7 DEF ContractAnswers
  <2> QED
    BY <2>1, <2>2, LookUpGrounds, Zenon
<1>8. ASSUME NEW u \in Quoters, CacheStores(u) PROVE GroundInv'
  <2>1. PICK l \in quoting[u].lookUps :
          quoting' = [quoting EXCEPT ![u] = Finish(quoting[u], l, l.answer)]
    BY <1>8, Zenon DEF CacheStores
  <2>2. LookingUp(u) /\ UNCHANGED <<routes, head, latestBlockSearched>>
    BY <1>8 DEF CacheStores
  <2> QED
    BY <2>1, <2>2, LookUpGrounds, Zenon
<1>9. ASSUME NEW u \in Quoters, Fail(u) \/ TakeQuotes(u) PROVE GroundInv'
  <2>1. PICK c \in {Threw("request"), NotQuoting} : quoting' = [quoting EXCEPT ![u] = c]
    BY <1>9 DEF Fail, TakeQuotes
  <2>2. ~HasBatch(c)
    BY DEF HasBatch, Threw, NotQuoting
  <2>3. UNCHANGED <<routes, head, latestBlockSearched>>
    BY <1>9 DEF Fail, TakeQuotes
  <2> QED
    BY <2>1, <2>2, <2>3, OneCallKept
<1>10. CASE UNCHANGED quotesVars
  BY <1>10 DEF quotesVars, GroundInv, Grounded
<1> QED
  BY <1>1, <1>2, <1>3, <1>4, <1>5, <1>6, <1>7, <1>8, <1>9, <1>10 DEF QuotesNext

(* What the contract and the yearly rates are.  A utilisation is what a    *)
(* pool has lent of all it has, and a higher yearly rate makes no lower    *)
(* weekly fee.                                                             *)
AtMostFull == \A t \in L1Tokens, b \in Blocks : UtilizationAt[t][b] <= One
FeeGrows ==
  \A x, y \in Nat : WeeklyFee(x) \in Int /\ (x <= y => WeeklyFee(x) <= WeeklyFee(y))

(* So the weekly fee lies between the fees of both rates.                 *)
LEMMA FeeBetween ==
  ASSUME FeeGrows, NEW model, Usable(model), NEW x \in Nat, NEW y \in Nat, x <= y, x <= One
  PROVE  /\ RealizedLpFeePct(model, x, y)
              >= WeeklyFee(Max({0, InstantaneousRate(model, x) - Tolerance(x, y)}))
         /\ RealizedLpFeePct(model, x, y) <= WeeklyFee(InstantaneousRate(model, y) + Tolerance(x, y))
<1> DEFINE apy == ApyFromUtilization(model, x, y)
           tolerance == Tolerance(x, y)
           low == InstantaneousRate(model, x) - tolerance
           high == InstantaneousRate(model, y) + tolerance
<1>1. InstantaneousRate(model, x) \in Nat /\ InstantaneousRate(model, y) \in Nat
  BY RateIs
<1>2. apy \in Nat /\ apy >= low /\ apy <= high
  BY MeanRateBetween
<1>3. tolerance \in Nat
  <2>1. One \in Nat
    BY OneAssumption
  <2>2. x # y => (4 * One) \div (y - x) \in Nat
    BY <2>1, Quotient
  <2> QED
    BY <2>2 DEF Tolerance
<1>4. RealizedLpFeePct(model, x, y) = WeeklyFee(apy)
  BY DEF RealizedLpFeePct
<1> HIDE DEF apy, tolerance
<1>5. low \in Int /\ high \in Nat
  BY <1>1, <1>3
<1>6. Max({0, low}) \in Nat /\ Max({0, low}) <= apy
  <2>1. CASE low <= 0
    BY <1>2, <1>5, <2>1, MaxOfTwo
  <2>2. CASE low > 0
    BY <1>2, <1>5, <2>2, MaxOfTwo
  <2> QED
    BY <1>5, <2>1, <2>2
<1> HIDE DEF low, high
<1>7. WeeklyFee(Max({0, low})) <= WeeklyFee(apy) /\ WeeklyFee(apy) <= WeeklyFee(high)
  BY <1>2, <1>5, <1>6 DEF FeeGrows
<1>8. WeeklyFee(Max({0, low})) \in Int /\ WeeklyFee(apy) \in Int
  BY <1>2, <1>6 DEF FeeGrows
<1> QED
  BY <1>4, <1>7, <1>8 DEF low, high, tolerance

(* The block of a quote is one of the chain.                               *)
LEMMA BlockInChain ==
  ASSUME NEW t \in Nat \ {0}, NEW h \in Blocks
  PROVE  Min({t, h}) \in Blocks
<1>1. h \in Nat \ {0} /\ h <= LastBlock /\ LastBlock \in Nat
  BY BoundAssumption DEF Blocks
<1>2. CASE t <= h
  BY <1>1, <1>2, MinOfTwo DEF Blocks
<1>3. CASE h <= t
  BY <1>1, <1>3, MinOfTwo DEF Blocks
<1> QED
  BY <1>1, <1>2, <1>3

(* What a deposit is charged by: a usable rate model, and the contract's   *)
(* utilisation of one token at one block.                                  *)
LEMMA BasisGrounded ==
  ASSUME QuotesInv, GroundInv, NEW u \in Quoters, Quoted(u), NEW i \in Paid(quoting[u].batch)
  PROVE  LET c == quoting[u]  d == c.batch[i]
             t == HubPoolToken(c, d)  k == BlockOf(c, d)
         IN /\ t \in L1Tokens /\ k \in Blocks /\ d.inputAmount \in Nat
            /\ c.basis[i].before = At(t, k, 0) /\ Usable(c.basis[i].model)
            /\ c.quotes[i].realizedLpFeePct =
                 RealizedLpFeePct(c.basis[i].model, c.basis[i].before, At(t, k, d.inputAmount))
<1> DEFINE c == quoting[u]
           b == latestBlockSearched
           d == c.batch[i]
           t == HubPoolToken(c, d)
           k == BlockOf(c, d)
<1>1. HasBatch(c) /\ BatchOK(c, head, b) /\ c.stage = "returned"
  <2>1. BatchOK(c, head, b) /\ c.stage = "returned"
    BY DEF Quoted, QuotesInv, BatchCallOK, CurrentOK, NoBatch, NotQuoting, Threw
  <2> QED
    BY <2>1 DEF BatchOK, BatchFields, HasBatch
<1>2. Grounded(c)
  BY <1>1 DEF GroundInv
<1>3. FeesOK(c, b) /\ BlocksOK(c, head) /\ c.lookUps = {}
  BY <1>1 DEF BatchOK
<1>4. i \in DOMAIN c.batch
  BY DEF Paid
<1>5. d \in Deposit
  BY <1>2, <1>4, BatchAssumption DEF Grounded
<1>6. d.quoteTimestamp \in Nat \ {0} /\ d.inputAmount \in Nat
  BY <1>5 DEF Deposit
<1>7. t \in L1Tokens
  BY <1>2, <1>4 DEF Grounded
<1>8. head \in Blocks /\ b \in Nat /\ b <= head /\ Blocks \subseteq Nat
  BY BoundAssumption DEF GroundInv, Blocks
<1>9. \A h \in Nat \ {0} : h <= head => h \in Blocks
  BY <1>8, BoundAssumption DEF Blocks
<1>10. k \in Blocks
  <2>1. d.quoteTimestamp \in DOMAIN c.blocks
    BY <1>1, <1>3, <1>4 DEF BlocksOK, Timestamps
  <2>2. PICK h \in c.head..head : c.blocks[d.quoteTimestamp] = Min({d.quoteTimestamp, h})
    BY <1>3, <2>1 DEF BlocksOK
  <2>3. c.head \in Nat \ {0}
    BY <1>2 DEF Grounded
  <2>4. h \in Blocks
    BY <1>8, <1>9, <2>3
  <2>5. Min({d.quoteTimestamp, h}) \in Blocks
    BY <1>6, <2>4, BlockInChain
  <2> QED
    BY <2>2, <2>5 DEF BlockOf
<1>11. BasisOK(c, i, b)
  BY <1>3 DEF FeesOK
<1>12. Usable(c.basis[i].model)
  <2>1. PICK s \in c.since..b : c.basis[i].model = RateModelAt[t][Min({k, s})]
    BY <1>11 DEF BasisOK
  <2>2. c.basis[i].model # None
    BY <1>11 DEF BasisOK
  <2>3. c.since \in Nat \ {0}
    BY <1>2 DEF Grounded
  <2>4. s \in Blocks
    BY <1>8, <1>9, <2>3
  <2>5. k \in Nat \ {0}
    BY <1>10 DEF Blocks
  <2>6. Min({k, s}) \in Blocks
    BY <2>4, <2>5, BlockInChain
  <2> HIDE DEF t, k, d, c
  <2> QED
    BY <1>7, <2>1, <2>2, <2>6, ChainAssumption
<1>13. c.basis[i].before = At(t, k, 0)
  BY <1>11 DEF BasisOK
<1>14. QuoteOK(c, i)
  BY <1>3, <1>4 DEF FeesOK
<1>15. c.quotes[i].realizedLpFeePct =
         RealizedLpFeePct(c.basis[i].model, c.basis[i].before, At(t, k, d.inputAmount))
  BY <1>14 DEF QuoteOK
<1> QED
  BY <1>6, <1>7, <1>10, <1>12, <1>13, <1>15

(* The fee of a quote is of its own utilisations, before and after it.    *)
LEMMA FeesMean == FeeGrows /\ AtMostFull /\ QuotesInv /\ GroundInv => FeeWithinRates
<1> SUFFICES ASSUME FeeGrows, AtMostFull, QuotesInv, GroundInv, NEW u \in Quoters, Quoted(u),
                    NEW i \in Paid(quoting[u].batch)
             PROVE  LET c == quoting[u]  model == c.basis[i].model
                        before == c.basis[i].before
                        after == before + (c.batch[i].inputAmount * One) \div PoolSize
                        fee == c.quotes[i].realizedLpFeePct
                    IN /\ fee >= WeeklyFee(Max({0, InstantaneousRate(model, before)
                                                     - Tolerance(before, after)}))
                       /\ fee <= WeeklyFee(InstantaneousRate(model, after) + Tolerance(before, after))
  BY DEF FeeWithinRates
<1> DEFINE c == quoting[u]
           d == c.batch[i]
           t == HubPoolToken(c, d)
           k == BlockOf(c, d)
           model == c.basis[i].model
           before == c.basis[i].before
           more == (d.inputAmount * One) \div PoolSize
           fee == c.quotes[i].realizedLpFeePct
<1>1. /\ t \in L1Tokens /\ k \in Blocks /\ d.inputAmount \in Nat
      /\ before = At(t, k, 0) /\ Usable(model)
      /\ fee = RealizedLpFeePct(model, before, At(t, k, d.inputAmount))
  BY BasisGrounded
<1>2. UtilizationAt[t][k] \in Nat /\ UtilizationAt[t][k] <= One
  BY <1>1, ChainAssumption DEF AtMostFull
<1> HIDE DEF t, k, model, before, fee
<1>3. One \in Nat /\ PoolSize \in Nat \ {0}
  BY OneAssumption, BoundAssumption
<1>4. more \in Nat
  <2>1. d.inputAmount * One \in Nat
    BY <1>1, <1>3, ProductGrows
  <2> QED
    BY <1>3, <2>1, Quotient
<1>5. before = UtilizationAt[t][k]
  <2>1. 0 * One = 0 /\ 0 \div PoolSize = 0
    BY <1>3
  <2> QED
    BY <1>1, <1>2, <2>1 DEF At
<1>6. At(t, k, d.inputAmount) = before + more
  BY <1>5 DEF At
<1> HIDE DEF more
<1>7. before \in Nat /\ before <= One /\ before + more \in Nat /\ before <= before + more
  BY <1>2, <1>3, <1>4, <1>5
<1>8. /\ fee >= WeeklyFee(Max({0, InstantaneousRate(model, before) - Tolerance(before, before + more)}))
      /\ fee <= WeeklyFee(InstantaneousRate(model, before + more) + Tolerance(before, before + more))
  BY <1>1, <1>6, <1>7, FeeBetween
<1> QED
  BY <1>8 DEF model, before, more, fee

(* computeRealizedLpFeePct for every rate model, every utilisation of a    *)
(* pool and every amount: the fee that a deposit is quoted lies between    *)
(* what the rates of the pool without it and with it would charge, but for *)
(* the rounding that Tolerance bounds.                                     *)
THEOREM FeesAreWithinRates ==
  ASSUME FeeGrows, AtMostFull
  PROVE  QuotesSpec => []FeeWithinRates
<1>1. QuotesInit => QuotesInv /\ GroundInv
  BY QuotesStart, GroundStart
<1>2. QuotesInv /\ GroundInv /\ [QuotesNext]_quotesVars => QuotesInv' /\ GroundInv'
  BY QuotesStep, GroundStep
<1>3. QuotesInv /\ GroundInv => FeeWithinRates
  BY FeesMean
<1> QED
  BY <1>1, <1>2, <1>3, PTL DEF QuotesSpec

-----------------------------------------------------------------------------
(* PriceClient.                                                            *)

USE FeedAssumption, AgeAssumption

(* The clock never goes back behind its start, and is read as it is.       *)
ClockOK ==
  /\ now \in Nat /\ now >= StartTime
  /\ DOMAIN call = Callers
  /\ \A u \in Callers :
       call[u].stage = "query" =>
         /\ call[u].feed \in DOMAIN PriceFeeds
         /\ call[u].asked \in Nat /\ call[u].asked >= StartTime

(* A price that was never answered has never been stored, and counts as    *)
(* too old for as long as it is there.                                     *)
UnsetMeansExpired ==
  \A t \in DOMAIN prices :
    /\ prices[t].timestamp \in Nat
    /\ prices[t].price = NoPrice => prices[t].timestamp = 0

(* What a call still needs is what it asks for: every other token of its   *)
(* own has a price already, whoever has stored it.                         *)
Priced(t) == t \in DOMAIN prices /\ prices[t].price # NoPrice
CallOK(u) ==
  /\ call[u].stage = "query" =>
       /\ call[u].left \subseteq DOMAIN prices
       /\ call[u].tokens \subseteq DOMAIN prices
       /\ \A t \in call[u].tokens : t \in call[u].left \/ Priced(t)
  /\ call[u].stage = "return" => \A t \in call[u].tokens : Priced(t)
  /\ call[u].stage = "done" => \A t \in call[u].tokens : call[u].result[t].price # NoPrice

IInv == ClockOK /\ UnsetMeansExpired /\ \A u \in Callers : CallOK(u)

-----------------------------------------------------------------------------

LEMMA InitIInv == Init => IInv
<1> SUFFICES ASSUME Init PROVE IInv
  OBVIOUS
<1>1. DOMAIN prices = {}
  BY DEF Init
<1>2. \A u \in Callers : call[u].stage = "idle"
  BY DEF Init, NoCall
<1>3. ClockOK
  BY <1>2 DEF Init, ClockOK
<1> QED
  BY <1>1, <1>2, <1>3 DEF IInv, UnsetMeansExpired, CallOK

(* A step of one caller: the others keep what they have, as long as no     *)
(* price is taken away.                                                    *)
LEMMA OtherCalls ==
  ASSUME IInv, NEW u \in Callers, NEW c, call' = [call EXCEPT ![u] = c], now' = now,
         \A t \in DOMAIN prices : t \in DOMAIN prices' /\ (Priced(t) => prices'[t].price # NoPrice),
         UnsetMeansExpired',
         c.stage = "query" => c.feed \in DOMAIN PriceFeeds /\ c.asked \in Nat /\ c.asked >= StartTime,
         CallOK(u)'
  PROVE  IInv'
<1>1. /\ DOMAIN call' = Callers /\ call'[u] = c
      /\ \A v \in Callers : v # u => call'[v] = call[v]
  BY DEF IInv, ClockOK
<1>2. ClockOK'
  BY <1>1 DEF IInv, ClockOK
<1>3. ASSUME NEW v \in Callers, v # u PROVE CallOK(v)'
  <2>1. call'[v] = call[v] /\ CallOK(v)
    BY <1>1, <1>3 DEF IInv
  <2>2. \A t : Priced(t) => Priced(t)'
    BY DEF Priced
  <2> QED
    BY <2>1, <2>2 DEF CallOK
<1> QED
  BY <1>2, <1>3 DEF IInv

(* A quote that a feed may answer with is of the feed and of no time       *)
(* before 0.                                                               *)
LEMMA AnswersAreQuotes ==
  ASSUME ClockOK, NEW u \in Callers, call[u].stage = "query",
         NEW answer \in AnswersOf(call[u])
  PROVE  /\ DOMAIN answer \subseteq call[u].left
         /\ \A t \in DOMAIN answer : answer[t].price # NoPrice /\ answer[t].timestamp \in Int
                                      /\ answer[t].timestamp >= 0
<1> DEFINE c == call[u]
<1>1. c.feed # NoPrice /\ c.asked \in Nat /\ c.asked >= StartTime
  BY DEF ClockOK
<1>2. CASE PriceFeeds[c.feed] = "across"
  <2>1. answer = [t \in c.left |-> Quote(c.feed, c.asked - AssumedAge)]
    BY <1>2 DEF AnswersOf, AcrossAnswers
  <2>2. c.asked - AssumedAge \in Int /\ c.asked - AssumedAge >= 0
    BY <1>1
  <2> HIDE DEF c
  <2>3. QED
    BY <1>1, <2>1, <2>2 DEF Quote, c
<1>3. CASE PriceFeeds[c.feed] # "across"
  <2>1. PICK known \in SUBSET c.left :
          answer \in [known -> {Quote(c.feed, now - age) : age \in PossibleAges}]
    BY <1>3 DEF AnswersOf, PartialAnswers
  <2>2. ASSUME NEW age \in PossibleAges
        PROVE  now - age \in Int /\ now - age >= 0
    <3>1. age \in Int /\ age <= StartTime /\ StartTime \in Nat
      BY AgeAssumption
    <3>2. now \in Nat /\ now >= StartTime
      BY DEF ClockOK
    <3> QED
      BY <3>1, <3>2
  <2>3. ASSUME NEW t \in known
        PROVE  answer[t].price # NoPrice /\ answer[t].timestamp \in Int /\ answer[t].timestamp >= 0
    <3>1. PICK age \in PossibleAges : answer[t] = Quote(c.feed, now - age)
      BY <2>1
    <3> QED
      BY <3>1, <2>2, <1>1 DEF Quote
  <2> QED
    BY <2>1, <2>3
<1> QED
  BY <1>2, <1>3

(* Going on to the next feed, with what it is still to be asked for.       *)
LEMMA NextFeedOK ==
  ASSUME NEW c, NEW left, c.feed \in DOMAIN PriceFeeds, now \in Nat, now >= StartTime
  PROVE  LET d == NextFeed(c, left) IN
         /\ d.stage \in {"query", "return", "thrown"}
         /\ d.stage = "query" =>
              /\ d.feed \in DOMAIN PriceFeeds /\ d.asked \in Nat /\ d.asked >= StartTime
              /\ d.left = left /\ d.tokens = c.tokens
         /\ d.stage = "return" => left = {} /\ d.tokens = c.tokens
<1>1. DOMAIN PriceFeeds = 1..Len(PriceFeeds) /\ Len(PriceFeeds) \in Nat
  OBVIOUS
<1> QED
  BY <1>1 DEF NextFeed, Asking, Thrown

(* A feed answers: what it answers with is stored unless the cache has     *)
(* something newer, which is then a price as well.                         *)
LEMMA AnswerIInv ==
  ASSUME IInv, NEW u \in Callers, Answer(u)
  PROVE  IInv'
<1> DEFINE c == call[u]
<1>1. PICK answer \in AnswersOf(c) :
        /\ prices' = Updated(c, answer)
        /\ call' = [call EXCEPT ![u] = NextFeed(c, Skipped(c, answer))]
  BY DEF Answer
<1>2. c.stage = "query" /\ now' = now /\ now \in Nat /\ now >= StartTime
      /\ c.feed \in DOMAIN PriceFeeds
  BY DEF Answer, IInv, ClockOK
<1>3. /\ DOMAIN answer \subseteq c.left
      /\ \A t \in DOMAIN answer : answer[t].price # NoPrice /\ answer[t].timestamp \in Int
                                   /\ answer[t].timestamp >= 0
  BY <1>1, <1>2, AnswersAreQuotes DEF IInv
<1>4. /\ c.left \subseteq DOMAIN prices /\ c.tokens \subseteq DOMAIN prices
      /\ \A t \in c.tokens : t \in c.left \/ Priced(t)
  BY <1>2 DEF IInv, CallOK
<1>5. DOMAIN prices' = DOMAIN prices
  BY <1>1 DEF Updated
<1>6. \A t \in DOMAIN prices : prices[t].timestamp \in Nat
                             /\ (prices[t].price = NoPrice => prices[t].timestamp = 0)
  BY DEF IInv, UnsetMeansExpired
<1>7. ASSUME NEW t \in DOMAIN prices
      PROVE  \/ prices'[t] = prices[t]
             \/ t \in DOMAIN answer /\ prices'[t] = answer[t]
  BY <1>1 DEF Updated, IsStored
<1>8. UnsetMeansExpired'
  BY <1>3, <1>5, <1>6, <1>7 DEF UnsetMeansExpired
<1>9. \A t \in DOMAIN prices : t \in DOMAIN prices' /\ (Priced(t) => prices'[t].price # NoPrice)
  BY <1>3, <1>5, <1>7 DEF Priced
<1>10. ASSUME NEW t \in c.tokens, t \notin Skipped(c, answer)
       PROVE  Priced(t)'
  <2>1. t \in DOMAIN prices
    BY <1>4
  <2>2. CASE t \notin c.left
    BY <1>4, <1>9, <2>1, <2>2 DEF Priced
  <2>3. CASE t \in c.left
    <3>1. t \in DOMAIN answer /\ ~(answer[t].timestamp > now)
      BY <1>10, <2>3 DEF Skipped
    <3>2. answer[t].timestamp <= now
      BY <3>1, <1>2, <1>3
    <3>3. CASE IsNewer(t, answer[t])
      BY <1>1, <1>3, <1>5, <2>1, <2>3, <3>1, <3>2, <3>3 DEF Updated, IsStored, Priced
    <3>4. CASE ~IsNewer(t, answer[t])
      <4>1. prices[t].timestamp # 0
        BY <1>3, <1>6, <2>1, <3>1, <3>4 DEF IsNewer
      <4> QED
        BY <1>6, <1>9, <2>1, <4>1 DEF Priced
    <3> QED
      BY <3>3, <3>4
  <2> QED
    BY <2>2, <2>3
<1>11. Skipped(c, answer) \subseteq DOMAIN prices'
  BY <1>4, <1>5 DEF Skipped
<1> DEFINE d == NextFeed(c, Skipped(c, answer))
<1>12. /\ d.stage \in {"query", "return", "thrown"}
       /\ d.stage = "query" =>
            /\ d.feed \in DOMAIN PriceFeeds /\ d.asked \in Nat /\ d.asked >= StartTime
            /\ d.left = Skipped(c, answer) /\ d.tokens = c.tokens
       /\ d.stage = "return" => Skipped(c, answer) = {} /\ d.tokens = c.tokens
  BY <1>2, NextFeedOK
<1>13. call'[u] = d
  BY <1>1 DEF IInv, ClockOK
<1> HIDE DEF d
<1>14. CallOK(u)'
  <2>1. call'[u].stage = "query" =>
          /\ call'[u].left \subseteq DOMAIN prices'
          /\ call'[u].tokens \subseteq DOMAIN prices'
          /\ \A t \in call'[u].tokens : t \in call'[u].left \/ Priced(t)'
    BY <1>4, <1>5, <1>10, <1>11, <1>12, <1>13
  <2>2. call'[u].stage = "return" => \A t \in call'[u].tokens : Priced(t)'
    BY <1>10, <1>12, <1>13
  <2>3. call'[u].stage # "done"
    BY <1>12, <1>13
  <2> QED
    BY <2>1, <2>2, <2>3 DEF CallOK
<1> QED
  BY <1>1, <1>2, <1>8, <1>9, <1>12, <1>14, OtherCalls DEF d

(* A try fails: the same tokens are asked for once more, or of the next    *)
(* feed.                                                                   *)
LEMMA TryFailsIInv ==
  ASSUME IInv, NEW u \in Callers, TryFails(u)
  PROVE  IInv'
<1> DEFINE c == call[u]
           again == [c EXCEPT !.tries = @ + 1]
           d == IF c.tries < Retries THEN again ELSE NextFeed(c, c.left)
<1>1. /\ c.stage = "query" /\ prices' = prices /\ now' = now
      /\ call' = [call EXCEPT ![u] = d]
  BY DEF TryFails
<1>2. /\ now \in Nat /\ now >= StartTime /\ c.feed \in DOMAIN PriceFeeds
      /\ c.asked \in Nat /\ c.asked >= StartTime
  BY <1>1 DEF IInv, ClockOK
<1>3. /\ c.left \subseteq DOMAIN prices /\ c.tokens \subseteq DOMAIN prices
      /\ \A t \in c.tokens : t \in c.left \/ Priced(t)
  BY <1>1 DEF IInv, CallOK
<1>4. /\ again.stage = "query" /\ again.feed = c.feed /\ again.asked = c.asked
      /\ again.left = c.left /\ again.tokens = c.tokens
  BY <1>1
<1>5. /\ d.stage \in {"query", "return", "thrown"}
      /\ d.stage = "query" =>
           /\ d.feed \in DOMAIN PriceFeeds /\ d.asked \in Nat /\ d.asked >= StartTime
           /\ d.left = c.left /\ d.tokens = c.tokens
      /\ d.stage = "return" => c.left = {} /\ d.tokens = c.tokens
  <2>1. CASE c.tries < Retries
    BY <1>2, <1>4, <2>1
  <2>2. CASE ~(c.tries < Retries)
    BY <1>2, <2>2, NextFeedOK
  <2> QED
    BY <2>1, <2>2
<1>6. call'[u] = d
  BY <1>1 DEF IInv, ClockOK
<1> HIDE DEF d
<1>7. CallOK(u)'
  BY <1>1, <1>3, <1>5, <1>6 DEF CallOK, Priced
<1>8. UnsetMeansExpired'
  BY <1>1 DEF IInv, UnsetMeansExpired
<1> QED
  BY <1>1, <1>5, <1>7, <1>8, OtherCalls DEF Priced

(* A call whose tokens have prices is answered with them, whatever the     *)
(* cache is like by then.                                                  *)
LEMMA ReturnIInv ==
  ASSUME IInv, NEW u \in Callers, Return(u)
  PROVE  IInv'
<1> DEFINE d == Answered(call[u], prices)
<1>1. /\ call[u].stage = "return" /\ prices' = prices /\ now' = now
      /\ call' = [call EXCEPT ![u] = d]
  BY DEF Return
<1>2. d.stage = "done" /\ d.tokens = call[u].tokens
      /\ \A t \in d.tokens : d.result[t] = prices[t]
  BY DEF Answered
<1>3. call'[u] = d
  BY <1>1 DEF IInv, ClockOK
<1> HIDE DEF d
<1>4. CallOK(u)'
  BY <1>1, <1>2, <1>3 DEF IInv, CallOK, Priced
<1>5. UnsetMeansExpired'
  BY <1>1 DEF IInv, UnsetMeansExpired
<1> QED
  BY <1>1, <1>2, <1>4, <1>5, OtherCalls DEF Priced

LEMMA LeaveIInv ==
  ASSUME IInv, NEW u \in Callers, Leave(u)
  PROVE  IInv'
<1>1. prices' = prices /\ now' = now /\ call' = [call EXCEPT ![u] = NoCall]
  BY DEF Leave
<1>2. call'[u] = NoCall /\ NoCall.stage = "idle"
  BY <1>1 DEF IInv, ClockOK, NoCall
<1>3. CallOK(u)'
  BY <1>2 DEF CallOK
<1>4. UnsetMeansExpired'
  BY <1>1 DEF IInv, UnsetMeansExpired
<1> QED
  BY <1>1, <1>2, <1>3, <1>4, OtherCalls DEF Priced

(* A call begins: what it registers is unset and expired, so that what is  *)
(* recent enough to be answered at once has been answered before.          *)
LEMMA RequestIInv ==
  ASSUME IInv, NEW u \in Callers, Request(u)
  PROVE  IInv'
<1>1. PICK tokens \in (SUBSET Tokens) \ {{}} :
        LET c == [tokens |-> tokens] IN
        /\ prices' = Registered(tokens)
        /\ call' = [call EXCEPT ![u] =
             IF Missed(prices', tokens) = {} THEN Answered(c, prices')
                                             ELSE Asking(c, 1, DOMAIN prices')]
  BY DEF Request
<1>2. now' = now /\ now \in Nat /\ now >= StartTime
  BY DEF Request, IInv, ClockOK
<1> DEFINE c == [tokens |-> tokens]
           d == IF Missed(prices', tokens) = {} THEN Answered(c, prices')
                                                ELSE Asking(c, 1, DOMAIN prices')
<1>3. /\ DOMAIN prices' = (DOMAIN prices) \cup tokens
      /\ \A t \in DOMAIN prices : prices'[t] = prices[t]
      /\ \A t \in tokens \ DOMAIN prices : prices'[t] = Quote(NoPrice, 0)
  BY <1>1 DEF Registered
<1>4. UnsetMeansExpired'
  <2>1. UnsetMeansExpired
    BY DEF IInv
  <2> QED
    BY <1>3, <2>1 DEF UnsetMeansExpired, Quote
<1>5. call'[u] = d /\ call' = [call EXCEPT ![u] = d]
  BY <1>1 DEF IInv, ClockOK
<1>6. 1 \in DOMAIN PriceFeeds
  OBVIOUS
<1>7. CASE Missed(prices', tokens) = {}
  <2>1. d.stage = "done" /\ d.tokens = tokens /\ \A t \in tokens : d.result[t] = prices'[t]
    BY <1>7 DEF Answered
  <2>2. ASSUME NEW t \in tokens PROVE prices'[t].price # NoPrice
    <3>1. ~(now - prices'[t].timestamp > MaxPriceAge)
      BY <1>7 DEF Missed
    <3>2. t \in DOMAIN prices' /\ prices'[t].timestamp \in Nat
      BY <1>3, <1>4 DEF UnsetMeansExpired
    <3>3. prices'[t].timestamp # 0
      BY <1>2, <3>1, <3>2
    <3> QED
      BY <1>4, <3>2, <3>3 DEF UnsetMeansExpired
  <2> HIDE DEF d
  <2>3. CallOK(u)'
    BY <1>5, <2>1, <2>2 DEF CallOK
  <2> QED
    BY <1>2, <1>3, <1>4, <1>5, <2>1, <2>3, OtherCalls DEF Priced
<1>8. CASE Missed(prices', tokens) # {}
  <2>1. /\ d.stage = "query" /\ d.tokens = tokens /\ d.left = DOMAIN prices'
        /\ d.feed = 1 /\ d.asked = now
    BY <1>8 DEF Asking
  <2> HIDE DEF d
  <2>2. CallOK(u)'
    BY <1>3, <1>5, <2>1 DEF CallOK
  <2> QED
    BY <1>2, <1>3, <1>4, <1>5, <1>6, <2>1, <2>2, OtherCalls DEF Priced
<1> QED
  BY <1>7, <1>8

(* Expiring the cache takes the age of the prices, not the prices.         *)
LEMMA ExpireCacheIInv ==
  ASSUME IInv, ExpireCache
  PROVE  IInv'
<1>1. /\ DOMAIN prices' = DOMAIN prices /\ call' = call /\ now' = now
      /\ \A t \in DOMAIN prices : prices'[t].price = prices[t].price /\ prices'[t].timestamp = 0
  BY DEF ExpireCache, Quote
<1>2. ClockOK'
  BY <1>1 DEF IInv, ClockOK
<1>3. UnsetMeansExpired'
  BY <1>1 DEF UnsetMeansExpired
<1>4. \A t : Priced(t) => Priced(t)'
  BY <1>1 DEF Priced
<1>5. ASSUME NEW u \in Callers PROVE CallOK(u)'
  BY <1>1, <1>4 DEF IInv, CallOK
<1> QED
  BY <1>2, <1>3, <1>5 DEF IInv

LEMMA TickIInv ==
  ASSUME IInv, Tick
  PROVE  IInv'
  BY DEF Tick, bounds, IInv, ClockOK, UnsetMeansExpired, CallOK, Priced

LEMMA NextIInv == IInv /\ [Next]_vars => IInv'
<1> SUFFICES ASSUME IInv, [Next]_vars PROVE IInv'
  OBVIOUS
<1>1. CASE UNCHANGED vars
  BY <1>1 DEF vars, IInv, ClockOK, UnsetMeansExpired, CallOK, Priced
<1>2. CASE Tick
  BY <1>2, TickIInv
<1>3. CASE ExpireCache
  BY <1>3, ExpireCacheIInv
<1>4. ASSUME NEW u \in Callers, Request(u) PROVE IInv'
  BY <1>4, RequestIInv
<1>5. ASSUME NEW u \in Callers, Proceed(u) PROVE IInv'
  BY <1>5, AnswerIInv, TryFailsIInv, ReturnIInv, LeaveIInv DEF Proceed
<1> QED
  BY <1>1, <1>2, <1>3, <1>4, <1>5 DEF Next

(* However calls overlap, feeds leave tokens out, fail or answer late, and *)
(* the cache is expired meanwhile: a call of getPricesByAddress that       *)
(* returns has a feed's price for each of its tokens.                      *)
THEOREM PricesAreSet == Spec => []NeverPlaceholder
<1>1. IInv => NeverPlaceholder
  BY DEF IInv, CallOK, NeverPlaceholder
<1> QED
  BY <1>1, InitIInv, NextIInv, PTL DEF Spec

=============================================================================
