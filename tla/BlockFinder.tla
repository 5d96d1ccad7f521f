---------------------------- MODULE BlockFinder ----------------------------
(***************************************************************************)
(* The BlockFinder of src/utils/BlockUtils.ts: which block was the latest  *)
(* at a time?  Calls share the blocks they fetched, the average block      *)
(* times and, through getCachedBlockForTimestamp, a cache of answers; each *)
(* awaits its provider many times, and other calls and the chain go on     *)
(* meanwhile.  Time is counted in ticks.  The provider shows a block at    *)
(* most MaxDelay ticks after its timestamp.  An answer is never expired    *)
(* from the cache (90 days).                                               *)
(* A definition X_Variant is a deliberately wrong form of X.               *)
(***************************************************************************)
EXTENDS Integers, SequencesExt

CONSTANTS
  TimeLines,          \* timestamps of the chain's blocks, as functions
  Chain,              \* the chain of the finder's provider
  Optimism, IsOPStack,
  SeededAverages,     \* blockTimes as the module is loaded
  Callers,            \* calls that can be in flight at once
  Timestamps,         \* the timestamps asked for
  Hints,              \* the sets of block numbers given as hints
  Lag,                \* DEFAULT_CACHING_SAFE_LAG
  CacheTTL,           \* how long an average block time is used
  HighBlockOffset, BlockRange,  \* defaults of averageBlockTime
  None,               \* undefined, or null
  Thrown,             \* the outcome of a call that throws
  (* Bounds of the model. *)
  StartTime,          \* the time at first
  LastTime,           \* the last tick
  LastBlock,
  MaxDelay

Blocks == 0..LastBlock

ASSUME TimeAssumption ==
  /\ LastBlock \in Nat /\ StartTime \in Nat /\ LastTime \in Nat
  /\ \A line \in TimeLines :
       /\ DOMAIN line = Blocks /\ line[0] <= StartTime
       /\ \A a, b \in Blocks : line[a] \in Nat \ {0} /\ (a <= b => line[a] <= line[b])
ASSUME CallAssumption ==
  /\ Timestamps \subseteq Nat /\ Lag \in Nat /\ MaxDelay \in Nat /\ CacheTTL \in Nat
  /\ Hints \subseteq SUBSET Blocks
(* The lag after which an answer is cached outlasts the provider's delay.   *)
ASSUME LagAssumption == MaxDelay < Lag
ASSUME AverageAssumption ==
  /\ HighBlockOffset \in Nat /\ BlockRange \in Nat \ {0} /\ IsOPStack \in BOOLEAN
  /\ Optimism \in DOMAIN SeededAverages
  /\ \A c \in DOMAIN SeededAverages : SeededAverages[c].seconds \in Nat /\ SeededAverages[c].blocks \in Nat \ {0}
  /\ None \notin Nat /\ Thrown \notin Nat

VARIABLES
  time,        \* timestamps of the blocks, also of those to come
  now, head,   \* the clock, and the latest block the provider shows
  blocks,      \* the numbers of the blocks fetched, as a sequence
  blockTimes,  \* chain -> its average block time, for all providers
  cache,       \* timestamp -> the block number cached for it
  call         \* caller -> where its call stands

chain == <<time, now, head>>
vars == <<chain, blocks, blockTimes, cache, call>>

(* A table with an entry set.                                              *)
With(f, x, v) == [y \in DOMAIN f \cup {x} |-> IF y = x THEN v ELSE f[y]]

-----------------------------------------------------------------------------
(* The list of blocks.  sortedIndexBy gives the place of the first block   *)
(* that is not below, counted from one here.                               *)

IndexOfNumber(bs, n) == 1 + Cardinality({i \in DOMAIN bs : bs[i] < n})
IndexOfTime(bs, t) == 1 + Cardinality({i \in DOMAIN bs : time[bs[i]] < t})
Holds(bs, n) == IndexOfNumber(bs, n) \in DOMAIN bs /\ bs[IndexOfNumber(bs, n)] = n

(* What getBlock does with an answer, looking anew after its await.        *)
WithBlock_NoRecheck(n) == InsertAt(blocks, IndexOfNumber(blocks, n), n)
WithBlock(n) ==
  IF Holds(blocks, n) THEN blocks ELSE InsertAt(blocks, IndexOfNumber(blocks, n), n)

-----------------------------------------------------------------------------
(* averageBlockTime.                                                       *)

OwnAverage == IF Chain \in DOMAIN blockTimes THEN blockTimes[Chain] ELSE None

(* "??" binds closer than "?": any average of the chain selects Optimism's.*)
CachedAverage ==
  IF OwnAverage # None \/ IsOPStack THEN blockTimes[Optimism] ELSE None

Fresh(average) == average # None /\ now < average.timestamp + CacheTTL

(* estimateBlocksElapsed with a cushion of one; blocks without any time    *)
(* between them are infinitely many.                                       *)
BlocksElapsed(seconds, average) ==
  IF average.seconds = 0 THEN LastBlock + 1
                         ELSE (2 * seconds * average.blocks) \div average.seconds

-----------------------------------------------------------------------------
(* A call: the timestamp asked for, the head when it was made, where it    *)
(* stands, and whether its answer is to be cached.                         *)

NoCall ==
  [stage |-> "idle", timestamp |-> 0, since |-> 0, keep |-> FALSE, hints |-> {}, wanted |-> {},
   initial |-> 0, distance |-> 0, multiplier |-> 0, start |-> 0, end |-> 0, number |-> 0,
   sent |-> FALSE, result |-> None]
Stand(c, stage) ==
  [NoCall EXCEPT !.stage = stage, !.timestamp = c.timestamp, !.since = c.since, !.keep = c.keep]
Done(c, result) == [Stand(c, "done") EXCEPT !.result = result]

(* findBlock between two blocks: an answer, or the next block to get.      *)
Estimated(a, b, t) ==
  a + (2 * (t - time[a]) * (b - a) + (time[b] - time[a])) \div (2 * (time[b] - time[a]))
Clamped(a, b, n) == Max({a + 1, Min({n, b - 1})})

Find(c, a, b) ==
  IF time[b] = c.timestamp THEN Done(c, b)
  ELSE IF b = a + 1 THEN Done(c, a)
  ELSE IF b = a \/ ~(time[a] < c.timestamp /\ c.timestamp < time[b]) THEN Done(c, Thrown)
  ELSE [Stand(c, "find") EXCEPT !.start = a, !.end = b,
                                !.number = Clamped(a, b, Estimated(a, b, c.timestamp))]

FindAmong(c, bs) ==
  LET i == IndexOfTime(bs, c.timestamp)
  IN IF time[bs[i]] = c.timestamp THEN Done(c, bs[i]) ELSE Find(c, bs[i - 1], bs[i])

(* The first block held may be too late: an earlier one is looked for.     *)
CheckFirst(c, bs) ==
  IF time[bs[1]] > c.timestamp
    THEN [Stand(c, "average") EXCEPT !.initial = bs[1]]
    ELSE FindAmong(c, bs)

(* The hints that are held already need no answer.                         *)
AskHints(c, bs, hints) ==
  LET wanted == {n \in hints : ~Holds(bs, n)}
  IN IF wanted = {} THEN CheckFirst(c, bs) ELSE [Stand(c, "hints") EXCEPT !.wanted = wanted]

(* The latest block is asked for unless one held is late enough.           *)
NeedsLatest(bs, t) == bs = <<>> \/ time[Last(bs)] < t
Resolve(c, hints) ==
  IF NeedsLatest(blocks, c.timestamp)
    THEN [Stand(c, "latest") EXCEPT !.hints = hints]
    ELSE AskHints(c, blocks, hints)

StepBack(c, initial, distance, multiplier) ==
  [Stand(c, "back") EXCEPT !.initial = initial, !.distance = distance, !.multiplier = multiplier,
                           !.number = Max({0, initial - multiplier * distance})]

(* getBlock has returned c.number: the search goes on.  A multiplier above *)
(* the bound would reach block 0 all the same.                             *)
Narrowed(c) ==
  IF time[c.number] < c.timestamp THEN Find(c, c.number, c.end) ELSE Find(c, c.start, c.number)
GoOn(c, bs) ==
  IF c.stage = "find" THEN Narrowed(c)
  ELSE IF time[c.number] <= c.timestamp THEN FindAmong(c, bs)
  ELSE IF c.number = 0 THEN Done(c, Thrown)
  ELSE StepBack(c, c.initial, c.distance, Min({c.multiplier + 1, LastBlock + 1}))

-----------------------------------------------------------------------------

Init ==
  /\ time \in TimeLines /\ now = StartTime
  /\ head = Max({n \in Blocks : time[n] <= now})
  /\ blocks = <<>> /\ blockTimes = SeededAverages /\ cache = <<>>
  /\ call = [u \in Callers |-> NoCall]

Tick ==
  /\ now < LastTime
  /\ \A n \in Blocks : time[n] + MaxDelay <= now => n <= head
  /\ now' = now + 1
  /\ UNCHANGED <<time, head, blocks, blockTimes, cache, call>>

MineBlock ==
  /\ head < LastBlock /\ time[head + 1] <= now
  /\ head' = head + 1
  /\ UNCHANGED <<time, now, blocks, blockTimes, cache, call>>

(* shouldCache: is the timestamp old enough for its block to be final?     *)
ShouldCache_Always(t) == TRUE
ShouldCache(t) == now - t >= Lag

(* getCachedBlockForTimestamp, up to its first await.                      *)
Start(u) ==
  /\ call[u].stage \in {"idle", "done"}
  /\ \E t \in Timestamps, hints \in Hints :
       LET c == [NoCall EXCEPT !.timestamp = t, !.since = head, !.keep = ShouldCache(t)]
       IN /\ t <= now /\ \A n \in hints : n <= head
          /\ call' = [call EXCEPT ![u] =
               IF c.keep THEN [Stand(c, "cache") EXCEPT !.hints = hints] ELSE Resolve(c, hints)]
  /\ UNCHANGED <<chain, blocks, blockTimes, cache>>

FromCache(u) ==
  /\ call[u].stage = "cache"
  /\ call' = [call EXCEPT ![u] =
       IF call[u].timestamp \in DOMAIN cache
         THEN [Done(call[u], cache[call[u].timestamp]) EXCEPT !.keep = FALSE]
         ELSE Resolve(call[u], call[u].hints)]
  /\ UNCHANGED <<chain, blocks, blockTimes, cache>>

(* getLatestBlock is answered.                                             *)
LatestBlock(u) ==
  /\ call[u].stage = "latest"
  /\ blocks' = WithBlock(head)
  /\ call' = [call EXCEPT ![u] =
       IF call[u].timestamp >= time[head]
         THEN Done(call[u], head)
         ELSE AskHints(call[u], blocks', call[u].hints)]
  /\ UNCHANGED <<chain, blockTimes, cache>>

(* The hints are asked for together, and answered in any order.            *)
HintBlock(u) ==
  /\ call[u].stage = "hints"
  /\ \E n \in call[u].wanted :
       /\ blocks' = WithBlock(n)
       /\ call' = [call EXCEPT ![u] =
            IF call[u].wanted = {n}
              THEN CheckFirst(call[u], blocks')
              ELSE [call[u] EXCEPT !.wanted = @ \ {n}]]
  /\ UNCHANGED <<chain, blockTimes, cache>>

(* The search goes back in steps of one block at least.                    *)
IncrementDistance_AsEstimated(seconds, average) == BlocksElapsed(seconds, average)
IncrementDistance(seconds, average) == Max({1, BlocksElapsed(seconds, average)})

SearchBack(u, average) ==
  LET c == call[u]
      distance == IncrementDistance(time[c.initial] - c.timestamp, average)
  IN call' = [call EXCEPT ![u] = StepBack(c, c.initial, distance, 1)]

(* The average is held, or two blocks are sampled for it.                  *)

HeldAverage(u) ==
  /\ call[u].stage = "average"
  /\ \/ /\ Fresh(CachedAverage)
        /\ SearchBack(u, CachedAverage)
     \/ /\ ~Fresh(CachedAverage)
        /\ call' = [call EXCEPT ![u].stage = "sample"]
  /\ UNCHANGED <<chain, blocks, blockTimes, cache>>

SampleAverage(u) ==
  /\ call[u].stage = "sample"
  /\ LET high == head - HighBlockOffset
         low == high - BlockRange
         average == [seconds |-> time[high] - time[low], blocks |-> BlockRange, timestamp |-> now]
     IN /\ low >= 0
        /\ blockTimes' = With(blockTimes, Chain, average)
        /\ SearchBack(u, average)
  /\ UNCHANGED <<chain, blocks, cache>>

(* getBlock: a block that is held is returned, any other is asked for.     *)
GetBlock(u) ==
  /\ call[u].stage \in {"back", "find"} /\ ~call[u].sent
  /\ call' = [call EXCEPT ![u] =
       IF Holds(blocks, call[u].number)
         THEN GoOn(call[u], blocks)
         ELSE [call[u] EXCEPT !.sent = TRUE]]
  /\ UNCHANGED <<chain, blocks, blockTimes, cache>>

GotBlock(u) ==
  /\ call[u].stage \in {"back", "find"} /\ call[u].sent
  /\ blocks' = WithBlock(call[u].number)
  /\ call' = [call EXCEPT ![u] = GoOn(call[u], blocks')]
  /\ UNCHANGED <<chain, blockTimes, cache>>

(* The answer is cached; the call's result is out with it.                 *)
StoreInCache(u) ==
  /\ call[u].stage = "done" /\ call[u].keep /\ call[u].result # Thrown
  /\ cache' = With(cache, call[u].timestamp, call[u].result)
  /\ call' = [call EXCEPT ![u].keep = FALSE]
  /\ UNCHANGED <<chain, blocks, blockTimes>>

(* An awaited request is rejected.                                         *)
Fail(u) ==
  /\ call[u].stage \notin {"idle", "done"}
  /\ call' = [call EXCEPT ![u] = NoCall]
  /\ UNCHANGED <<chain, blocks, blockTimes, cache>>

Proceed(u) ==
  \/ FromCache(u) \/ LatestBlock(u) \/ HintBlock(u) \/ HeldAverage(u) \/ SampleAverage(u)
  \/ GetBlock(u) \/ GotBlock(u) \/ StoreInCache(u)

Next == Tick \/ MineBlock \/ \E u \in Callers : Start(u) \/ Proceed(u) \/ Fail(u)

Spec == Init /\ [][Next]_vars

(* The provider answers in the end.                                        *)
FairSpec == Spec /\ \A u \in Callers : WF_vars(Proceed(u))

-----------------------------------------------------------------------------

TypeOK ==
  /\ time \in TimeLines /\ now \in StartTime..LastTime /\ head \in Blocks
  /\ blocks \in Seq(0..head)
  /\ \A t \in DOMAIN cache : t \in Timestamps /\ cache[t] \in 0..head
  /\ \A u \in Callers :
       call[u].stage \in {"idle", "cache", "latest", "hints", "average", "sample", "back",
                          "find", "done"}

(* The list of blocks that all calls share is in order and holds no block  *)
(* twice, whatever calls insert into it while others await their answers:  *)
(* sortedIndexBy relies on it.                                             *)
BlocksSorted == \A i, j \in DOMAIN blocks : i < j => blocks[i] < blocks[j]

(* "Gets the latest block whose timestamp is <= the provided timestamp",   *)
(* as of a moment during the call, whether it is searched for, cached or   *)
(* the head: the result has the timestamp of that block.                   *)
LatestAt(t, h) == Max({n \in 0..h : time[n] <= t})
AnswersRight ==
  \A u \in Callers :
    call[u].stage = "done" =>
      \/ /\ call[u].result = Thrown
         /\ call[u].timestamp < time[0]
      \/ /\ call[u].result \in 0..head
         /\ time[call[u].result] <= call[u].timestamp
         /\ \E h \in call[u].since..head : time[call[u].result] = time[LatestAt(call[u].timestamp, h)]

(* Every call ends: the search goes back until block 0 and then narrows.   *)
SearchEnds == \A u \in Callers : call[u].stage \notin {"idle", "done"} ~> call[u].stage \in {"idle", "done"}

=============================================================================
