---------------------------- MODULE LpFeeQuotes ----------------------------
(***************************************************************************)
(* The LP fee quotes of src/clients/HubPoolClient.ts.  A batch of deposits *)
(* is quoted in four phases: the HubPool token of each deposit, the block  *)
(* of each quote timestamp, the utilisation of each token at those blocks, *)
(* and the fee of each deposit.  All but the first await their requests,   *)
(* which are in flight together, while the chain goes on, the clients are  *)
(* updated, and other batches are quoted over the same cache.              *)
(*                                                                         *)
(* The HubPoolClient's routes and the ConfigStoreClient's rate models are  *)
(* taken as of blocks, as their modules show them to be, and the block of  *)
(* a timestamp as BlockFinder has it.  A block's number is its time.  A    *)
(* request left behind by a call that threw is not followed any more.      *)
(* A definition X_Variant is a deliberately wrong form of X.               *)
(***************************************************************************)
EXTENDS LpFeeCalculator, Sequences

CONSTANTS
  L1Tokens, InputTokens,
  RouteHistories,   \* [InputTokens -> [Blocks -> the L1 token mapped, or None]]
  RateModelAt,      \* L1 token -> block -> its rate model then, or None
  UtilizationAt,    \* L1 token -> block -> the pool's utilisation then
  PoolSize,         \* by which an amount raises the utilisation
  Batches,          \* the sequences of deposits to be quoted together
  TimeToCache,      \* configOverride.timeToCache
  Quoters, None,
  (* Bounds of the model. *)
  LastBlock, MaxQuotes

Blocks == 1..LastBlock
Deposit == [inputToken : InputTokens, quoteTimestamp : Nat \ {0}, inputAmount : Nat, paid : BOOLEAN]

ASSUME ChainAssumption ==
  /\ RouteHistories \subseteq [InputTokens -> [Blocks -> L1Tokens \cup {None}]]
  /\ \A t \in L1Tokens, b \in Blocks :
       /\ RateModelAt[t][b] = None \/ Usable(RateModelAt[t][b])
       /\ UtilizationAt[t][b] \in Nat
ASSUME BatchAssumption ==
  \A batch \in Batches : batch # <<>> /\ \A i \in DOMAIN batch : batch[i] \in Deposit
ASSUME BoundAssumption ==
  TimeToCache \in Nat /\ PoolSize \in Nat \ {0} /\ LastBlock \in Nat \ {0} /\ MaxQuotes \in Nat

VARIABLES
  routes,               \* the history of the routes
  head,                 \* the latest block, and the time
  latestBlockSearched,  \* of both clients; 0 before their first update
  cache,                \* key -> utilisation
  quoting,              \* caller -> where its call stands
  begun                 \* spent bound

quotesVars == <<routes, head, latestBlockSearched, cache, quoting, begun>>

-----------------------------------------------------------------------------
(* getUtilization.  shouldCache() is called with its first two arguments   *)
(* the other way round: it is not the past but the future that is cached.  *)

ShouldCache(timestamp, timeToCache) == timestamp - head >= timeToCache

(* The contract's answer, without a deposit or after one.                  *)
OnChain(l) == UtilizationAt[l.token][l.block] + (l.amount * One) \div PoolSize

Key_WithoutAmount(l) == <<l.token, l.block>>
Key(l) == IF l.amount = 0 THEN <<l.token, l.block>> ELSE <<l.token, l.block, l.amount>>

(* A look-up is one call of it: what it is for, where it stands, and the   *)
(* answer of the contract once it has one.                                 *)
LookUp(for, token, block, amount, timestamp, timeToCache) ==
  [for |-> for, token |-> token, block |-> block, amount |-> amount,
   timestamp |-> timestamp, timeToCache |-> timeToCache, answer |-> None,
   at |-> IF ShouldCache(timestamp, timeToCache) THEN "get" ELSE "resolve"]

-----------------------------------------------------------------------------
(* A batch.                                                                *)

(* A mapping with one more entry, or a new value for an old one.           *)
With(f, key, value) ==
  [k \in {key} \cup DOMAIN f |-> IF k = key THEN value ELSE f[k]]

NotQuoting == [stage |-> "idle"]
Threw(reason) == [stage |-> "threw", reason |-> reason]

Timestamps(batch) == {batch[i].quoteTimestamp : i \in DOMAIN batch}

(* The quote block is not known yet when the token is asked for, and the   *)
(* latest mapping in memory is taken.                                      *)
L1TokenForDeposit(d) == routes[d.inputToken][latestBlockSearched]
HubPoolTokens(batch) ==
  [t \in {batch[i].inputToken : i \in DOMAIN batch} |-> routes[t][latestBlockSearched]]

(* Each token with the timestamps of its deposits.                         *)
UtilizationLookUps(c) ==
  {LookUp("utilization", c.tokens[c.batch[i].inputToken], c.blocks[c.batch[i].quoteTimestamp],
          0, c.batch[i].quoteTimestamp, TimeToCache) : i \in DOMAIN c.batch}

(* The token of a deposit is remembered for the whole batch.               *)
HubPoolToken(c, d) == c.tokens[d.inputToken]
RateModelFor(c, d) ==
  RateModelAt[HubPoolToken(c, d)][Min({c.blocks[d.quoteTimestamp], latestBlockSearched})]

Paid(batch) == {i \in DOMAIN batch : batch[i].paid}
FeeLookUps(c) ==
  {LookUp(i, HubPoolToken(c, c.batch[i]), c.blocks[c.batch[i].quoteTimestamp],
          c.batch[i].inputAmount, c.batch[i].quoteTimestamp, TimeToCache) : i \in Paid(c.batch)}

QuoteOf(c, i, fee) == [quoteBlock |-> c.blocks[c.batch[i].quoteTimestamp], realizedLpFeePct |-> fee]

(* What a deposit's quote is made of but its utilisation after it.         *)
Basis(c, d) ==
  [model |-> RateModelFor(c, d),
   before |-> c.utilization[<<HubPoolToken(c, d), c.blocks[d.quoteTimestamp]>>]]

QuotePhase(c) ==
  IF \E i \in Paid(c.batch) : RateModelFor(c, c.batch[i]) = None
    THEN Threw("rateModel")
  ELSE IF \E l \in FeeLookUps(c) : <<l.token, l.block>> \notin DOMAIN c.utilization
    THEN Threw("utilization")
  ELSE [c EXCEPT !.stage = IF Paid(c.batch) = {} THEN "returned" ELSE "fees",
                 !.lookUps = FeeLookUps(c),
                 !.basis = [i \in Paid(c.batch) |-> Basis(c, c.batch[i])],
                 !.quotes = [i \in DOMAIN c.batch \ Paid(c.batch) |-> QuoteOf(c, i, 0)]]

(* A look-up has its utilisation; the last of a phase ends it.             *)
FinishUtilization(c, l, u) ==
  LET d == [c EXCEPT !.lookUps = @ \ {l}, !.utilization = With(@, <<l.token, l.block>>, u)]
  IN IF d.lookUps = {} THEN QuotePhase(d) ELSE d
FinishFee(c, l, u) ==
  LET fee == RealizedLpFeePct(c.basis[l.for].model, c.basis[l.for].before, u)
  IN [c EXCEPT !.lookUps = @ \ {l}, !.quotes = With(@, l.for, QuoteOf(c, l.for, fee)),
               !.stage = IF c.lookUps = {l} THEN "returned" ELSE @]
FinishCurrent(c, l, u) == [c EXCEPT !.stage = "returned", !.lookUps = {}, !.current = u]
Finish(c, l, u) ==
  CASE c.stage = "utilization" -> FinishUtilization(c, l, u)
    [] c.stage = "fees" -> FinishFee(c, l, u)
    [] c.stage = "current" -> FinishCurrent(c, l, u)

-----------------------------------------------------------------------------

QuotesInit ==
  /\ routes \in RouteHistories
  /\ head = 1 /\ latestBlockSearched = 0
  /\ cache = <<>> /\ begun = 0
  /\ quoting = [u \in Quoters |-> NotQuoting]

MineBlock ==
  /\ head < LastBlock /\ head' = head + 1
  /\ UNCHANGED <<routes, latestBlockSearched, cache, quoting, begun>>

(* The clients are updated.                                                *)
ClientsUpdate ==
  /\ latestBlockSearched < head /\ latestBlockSearched' = head
  /\ UNCHANGED <<routes, head, cache, quoting, begun>>

Begin(u, c) ==
  /\ quoting[u] = NotQuoting /\ begun < MaxQuotes
  /\ begun' = begun + 1
  /\ quoting' = [quoting EXCEPT ![u] = c]
  /\ UNCHANGED <<routes, head, latestBlockSearched, cache>>

(* batchComputeRealizedLpFeePct up to its first await.                     *)
Start(u) ==
  \E batch \in Batches :
    Begin(u,
      IF latestBlockSearched = 0 THEN Threw("currentTime")
      ELSE IF \E i \in DOMAIN batch : L1TokenForDeposit(batch[i]) = None THEN Threw("route")
      ELSE [stage |-> "blocks", batch |-> batch, tokens |-> HubPoolTokens(batch),
            since |-> latestBlockSearched, head |-> head,
            blocks |-> <<>>, utilization |-> <<>>, basis |-> <<>>, quotes |-> <<>>,
            lookUps |-> {}])

(* A timestamp is resolved: to the head if it has not passed yet.          *)
ResolveTimestamp(u) ==
  /\ quoting[u].stage = "blocks"
  /\ \E t \in Timestamps(quoting[u].batch) \ DOMAIN quoting[u].blocks :
       LET c == [quoting[u] EXCEPT !.blocks = With(@, t, Min({t, head}))]
       IN quoting' = [quoting EXCEPT ![u] =
            IF DOMAIN c.blocks = Timestamps(c.batch)
              THEN [c EXCEPT !.stage = "utilization", !.lookUps = UtilizationLookUps(c)]
              ELSE c]
  /\ UNCHANGED <<routes, head, latestBlockSearched, cache, begun>>

(* getCurrentPoolUtilization: the same look-up without any age to reach.   *)
StartCurrent(u) ==
  /\ latestBlockSearched > 0
  /\ \E token \in L1Tokens :
       Begin(u, [stage |-> "current", current |-> None,
                 lookUps |-> {LookUp("current", token, latestBlockSearched, 0, head, 0)}])

LookingUp(u) == quoting[u].stage \in {"utilization", "fees", "current"}
GoesOn(u, l, at, answer) ==
  quoting' = [quoting EXCEPT ![u].lookUps = (@ \ {l}) \cup {[l EXCEPT !.at = at, !.answer = answer]}]

(* The cache has the utilisation or not.                                   *)
CacheAnswers(u) ==
  /\ LookingUp(u)
  /\ \E l \in quoting[u].lookUps :
       /\ l.at = "get"
       /\ \/ /\ Key(l) \in DOMAIN cache
             /\ quoting' = [quoting EXCEPT ![u] = Finish(quoting[u], l, cache[Key(l)])]
          \/ /\ Key(l) \notin DOMAIN cache
             /\ GoesOn(u, l, "resolve", None)
  /\ UNCHANGED <<routes, head, latestBlockSearched, cache, begun>>

(* The contract answers; whether to keep it is decided once more.          *)
ContractAnswers(u) ==
  /\ LookingUp(u)
  /\ \E l \in quoting[u].lookUps :
       /\ l.at = "resolve"
       /\ \/ /\ ShouldCache(l.timestamp, l.timeToCache)
             /\ GoesOn(u, l, "set", OnChain(l))
          \/ /\ ~ShouldCache(l.timestamp, l.timeToCache)
             /\ quoting' = [quoting EXCEPT ![u] = Finish(quoting[u], l, OnChain(l))]
  /\ UNCHANGED <<routes, head, latestBlockSearched, cache, begun>>

CacheStores(u) ==
  /\ LookingUp(u)
  /\ \E l \in quoting[u].lookUps :
       /\ l.at = "set"
       /\ cache' = With(cache, Key(l), l.answer)
       /\ quoting' = [quoting EXCEPT ![u] = Finish(quoting[u], l, l.answer)]
  /\ UNCHANGED <<routes, head, latestBlockSearched, begun>>

(* A request of any phase is rejected.                                     *)
Fail(u) ==
  /\ quoting[u].stage = "blocks" \/ LookingUp(u)
  /\ quoting' = [quoting EXCEPT ![u] = Threw("request")]
  /\ UNCHANGED <<routes, head, latestBlockSearched, cache, begun>>

TakeQuotes(u) ==
  /\ quoting[u].stage \in {"returned", "threw"}
  /\ quoting' = [quoting EXCEPT ![u] = NotQuoting]
  /\ UNCHANGED <<routes, head, latestBlockSearched, cache, begun>>

QuotesNext ==
  \/ MineBlock \/ ClientsUpdate
  \/ \E u \in Quoters :
       \/ Start(u) \/ ResolveTimestamp(u) \/ StartCurrent(u)
       \/ CacheAnswers(u) \/ ContractAnswers(u) \/ CacheStores(u)
       \/ Fail(u) \/ TakeQuotes(u)

QuotesSpec == QuotesInit /\ [][QuotesNext]_quotesVars

-----------------------------------------------------------------------------

Quoted(u) == quoting[u].stage = "returned" /\ "quotes" \in DOMAIN quoting[u]
At(token, block, amount) == UtilizationAt[token][block] + (amount * One) \div PoolSize

(* Whatever was cached, by whom, and however the requests of the batches   *)
(* and the updates of the clients mix: every quote is of the block of its  *)
(* own timestamp, and its fee of the utilisations of one token there and   *)
(* of its own amount.  No look-up meets a token that was not prepared.     *)
QuotesRight ==
  \A u \in Quoters :
    /\ quoting[u].stage = "threw" => quoting[u].reason # "utilization"
    /\ Quoted(u) =>
         \A i \in DOMAIN quoting[u].batch :
           LET c == quoting[u]  d == c.batch[i]  q == c.quotes[i]
           IN /\ \E h \in c.head..head : q.quoteBlock = Min({d.quoteTimestamp, h})
              /\ d.paid =>
                   \E s \in c.since..latestBlockSearched :
                     LET t == c.tokens[d.inputToken]
                         model == RateModelAt[t][Min({q.quoteBlock, s})]
                     IN /\ model # None
                        /\ q.realizedLpFeePct =
                             RealizedLpFeePct(model, At(t, q.quoteBlock, 0),
                                              At(t, q.quoteBlock, d.inputAmount))
              /\ ~d.paid => q.realizedLpFeePct = 0

(* A deposit pays no less than the rate of the pool without it and no more *)
(* than the rate with it, but for the rounding of the areas, of which a    *)
(* deposit feels the more the smaller it is.                               *)
FeeWithinRates ==
  \A u \in Quoters : Quoted(u) =>
    \A i \in Paid(quoting[u].batch) :
      LET c == quoting[u]  model == c.basis[i].model
          before == c.basis[i].before
          after == before + (c.batch[i].inputAmount * One) \div PoolSize
          fee == c.quotes[i].realizedLpFeePct
      IN /\ fee >= WeeklyFee(Max({0, InstantaneousRate(model, before) - Tolerance(before, after)}))
         /\ fee <= WeeklyFee(InstantaneousRate(model, after) + Tolerance(before, after))

(* The comment in getUtilization: "If there is no cache or the timestamp   *)
(* is not old enough to be cached, just resolve the function."  So what is *)
(* old enough as a batch begins is in the cache once the batch is quoted.  *)
OldEnoughIsCached ==
  \A u \in Quoters : Quoted(u) =>
    \A i \in DOMAIN quoting[u].batch :
      LET c == quoting[u]  d == c.batch[i]
      IN c.head - d.quoteTimestamp >= TimeToCache =>
           <<c.tokens[d.inputToken], c.blocks[d.quoteTimestamp]>> \in DOMAIN cache

=============================================================================
