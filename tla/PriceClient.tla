----------------------------- MODULE PriceClient -----------------------------
(***************************************************************************)
(* The PriceClient of src/priceClient: a cache of token prices over an     *)
(* ordered list of price feeds.  A call whose prices are not all recent    *)
(* updates the prices of every token ever asked for, feed by feed, each    *)
(* feed with its retries; other calls, and expireCache, go on while it     *)
(* waits.  A price is named by the feed it came from.  One currency is     *)
(* modelled: the caches of two currencies share nothing.                   *)
(* A definition X_Variant is a deliberately wrong form of X.               *)
(***************************************************************************)
EXTENDS Integers, Sequences, TLC

CONSTANTS
  Tokens,             \* lower-case addresses, the keys of the cache
  Callers,            \* calls that can be in flight at once
  PriceFeeds,         \* the feeds' kinds, in the order they are tried
  Retries,            \* retries of a feed's query
  MaxPriceAge,
  AssumedAge,         \* how old the Across API's prices are taken to be
  PossibleAges,       \* ages of the prices the other feeds answer with
  NoPrice,            \* the price of a token that was never answered
  (* Bounds of the model. *)
  StartTime, LastTime,
  MaxCalls, MaxExpiries

(* The clock is past the age of a price: a price of time 0 is never recent.*)
ASSUME FeedAssumption ==
  /\ PriceFeeds \in Seq({"across", "partial"}) /\ PriceFeeds # <<>> /\ Retries \in Nat
  /\ NoPrice \notin DOMAIN PriceFeeds
ASSUME AgeAssumption ==
  /\ MaxPriceAge \in Nat /\ AssumedAge \in Nat /\ PossibleAges \subseteq Int
  /\ StartTime \in Nat /\ LastTime \in Nat /\ StartTime > MaxPriceAge /\ StartTime >= AssumedAge
  /\ \A age \in PossibleAges : age <= StartTime
  /\ MaxCalls \in Nat /\ MaxExpiries \in Nat

VARIABLES
  now,                \* the clock, in ticks
  prices,             \* token -> the price in the cache and its timestamp
  call,               \* caller -> where its call stands
  calls, expiries     \* spent bounds

bounds == <<calls, expiries>>
vars == <<now, prices, call, bounds>>

Quote(price, timestamp) == [price |-> price, timestamp |-> timestamp]
NoCall == [stage |-> "idle"]
Thrown(c) == [stage |-> "thrown", tokens |-> c.tokens]

Init ==
  /\ now = StartTime /\ prices = <<>>
  /\ call = [c \in Callers |-> NoCall]
  /\ calls = 0 /\ expiries = 0

-----------------------------------------------------------------------------
(* getPricesByAddress.                                                     *)

(* Every token asked for has an entry from then on.                        *)
Registered(tokens) ==
  [t \in tokens \cup DOMAIN prices |->
    IF t \in DOMAIN prices THEN prices[t] ELSE Quote(NoPrice, 0)]

Missed(cache, tokens) == {t \in tokens : now - cache[t].timestamp > MaxPriceAge}

(* updatePrices asks the next feed for the tokens that are left.           *)
Asking(c, feed, left) ==
  [stage |-> "query", tokens |-> c.tokens, feed |-> feed, left |-> left,
   asked |-> now, tries |-> 0]

Answered(c, cache) == [stage |-> "done", tokens |-> c.tokens, result |-> [t \in c.tokens |-> cache[t]]]

Request(u) ==
  /\ call[u] = NoCall /\ calls < MaxCalls
  /\ \E tokens \in (SUBSET Tokens) \ {{}} :
       LET c == [tokens |-> tokens] IN
       /\ prices' = Registered(tokens)
       /\ call' = [call EXCEPT ![u] =
            IF Missed(prices', tokens) = {} THEN Answered(c, prices')
                                            ELSE Asking(c, 1, DOMAIN prices')]
  /\ calls' = calls + 1
  /\ UNCHANGED <<now, expiries>>

-----------------------------------------------------------------------------
(* A feed's answers.  The Across API is asked for each token on its own    *)
(* and one failure fails them all; its prices get the time of the question,*)
(* less a minute.  The other feeds leave out tokens they do not know or    *)
(* are not confident of, and their clocks may be ahead of the client's.    *)

AcrossAnswers(c) == {[t \in c.left |-> Quote(c.feed, c.asked - AssumedAge)]}
PartialAnswers(c) ==
  UNION {[known -> {Quote(c.feed, now - age) : age \in PossibleAges}] : known \in SUBSET c.left}
AnswersOf(c) == IF PriceFeeds[c.feed] = "across" THEN AcrossAnswers(c) ELSE PartialAnswers(c)

(* updateCache: what is stored, and the tokens the next feed is asked for. *)
(* A price older than the cache's is neither stored nor asked for again.   *)
IsNewer(t, quote) == quote.timestamp >= prices[t].timestamp
IsStored(answer, t) ==
  t \in DOMAIN answer /\ answer[t].timestamp <= now /\ IsNewer(t, answer[t])
Updated(c, answer) ==
  [t \in DOMAIN prices |-> IF t \in c.left /\ IsStored(answer, t) THEN answer[t] ELSE prices[t]]
Skipped_TooNewOnly(c, answer) == {t \in c.left : t \in DOMAIN answer /\ answer[t].timestamp > now}
Skipped(c, answer) == {t \in c.left : t \notin DOMAIN answer \/ answer[t].timestamp > now}

(* The tokens that are left go to the next feed; after the last, it throws.*)
NextFeed_Wraps(c, left) ==
  IF left = {} THEN [stage |-> "return", tokens |-> c.tokens]
  ELSE Asking(c, 1 + (c.feed % Len(PriceFeeds)), left)
NextFeed(c, left) ==
  IF left = {} THEN [stage |-> "return", tokens |-> c.tokens]
  ELSE IF c.feed = Len(PriceFeeds) THEN Thrown(c)
  ELSE Asking(c, c.feed + 1, left)

Answer(u) ==
  /\ call[u].stage = "query"
  /\ \E answer \in AnswersOf(call[u]) :
       /\ prices' = Updated(call[u], answer)
       /\ call' = [call EXCEPT ![u] = NextFeed(call[u], Skipped(call[u], answer))]
  /\ UNCHANGED <<now, bounds>>

(* A try fails: after the last retry the feed throws, and the next feed is *)
(* asked for the same tokens.  The Across API reads the clock once.        *)
TryFails(u) ==
  /\ call[u].stage = "query"
  /\ call' = [call EXCEPT ![u] =
       IF call[u].tries < Retries
         THEN [call[u] EXCEPT !.tries = @ + 1]
         ELSE NextFeed(call[u], call[u].left)]
  /\ UNCHANGED <<now, prices, bounds>>

(* Once the update is over the call goes on with the cache as it is then.  *)
Return(u) ==
  /\ call[u].stage = "return"
  /\ call' = [call EXCEPT ![u] = Answered(call[u], prices)]
  /\ UNCHANGED <<now, prices, bounds>>

(* The caller takes what it got.                                           *)
Leave(u) ==
  /\ call[u].stage \in {"done", "thrown"}
  /\ call' = [call EXCEPT ![u] = NoCall]
  /\ UNCHANGED <<now, prices, bounds>>

(* expireCache: the prices stay, with a timestamp of 0.                    *)
ExpireCache ==
  /\ expiries < MaxExpiries /\ prices # <<>>
  /\ prices' = [t \in DOMAIN prices |-> Quote(prices[t].price, 0)]
  /\ expiries' = expiries + 1
  /\ UNCHANGED <<now, call, calls>>

Tick ==
  /\ now < LastTime /\ now' = now + 1
  /\ UNCHANGED <<prices, call, bounds>>

Proceed(u) == Answer(u) \/ TryFails(u) \/ Return(u) \/ Leave(u)

Next == Tick \/ ExpireCache \/ \E u \in Callers : Request(u) \/ Proceed(u)

Spec == Init /\ [][Next]_vars

(* A feed's query answers or times out.                                    *)
FairSpec == Spec /\ \A u \in Callers : WF_vars(Proceed(u))

-----------------------------------------------------------------------------

(* The types of the clock, the cache and the calls.                        *)
TypeOK ==
  /\ now \in StartTime..LastTime
  /\ DOMAIN prices \subseteq Tokens
  /\ \A t \in DOMAIN prices :
       prices[t].price \in (DOMAIN PriceFeeds) \cup {NoPrice} /\ prices[t].timestamp \in 0..now
  /\ \A u \in Callers : call[u].stage \in {"idle", "query", "return", "done", "thrown"}
  /\ calls \in 0..MaxCalls /\ expiries \in 0..MaxExpiries

(* A call that does not throw has a price of some feed for every token,    *)
(* never the zero its entry starts with: not when another call registered  *)
(* the token, not when the cache was expired while it waited.              *)
NeverPlaceholder ==
  \A u \in Callers : call[u].stage = "done" =>
    \A t \in call[u].tokens : call[u].result[t].price # NoPrice

(* However feeds fail and calls overlap, no call goes on for ever.         *)
CallsEnd == []<>(\A u \in Callers : call[u].stage \notin {"query", "return"})

=============================================================================
