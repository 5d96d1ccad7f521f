----------------------------- MODULE PoolClient -----------------------------
(***************************************************************************)
(* The pool Client of src/pool/poolClient.ts: what a liquidity provider    *)
(* holds, deposited and earned, and the transactions that add and remove   *)
(* liquidity.  One L1 token and one user; the Client keeps the same state  *)
(* for each of them.  An update awaits the provider many times and reads   *)
(* some values as of its block and others as of the head; other updates    *)
(* and the chain go on meanwhile.                                          *)
(*                                                                         *)
(* The chain is a log of the user's events; each moves LpAmount LP tokens, *)
(* which are worth the exchange rate of its block, in units of Unit (the   *)
(* fixed-point one).  An event is named by its position, which is also its *)
(* place in every list that is sorted.  Historical rates are the chain's   *)
(* own whenever they are read, so the table of them is not kept.           *)
(* A definition X_Variant is a deliberately wrong form of X.               *)
(***************************************************************************)
EXTENDS Integers, Sequences, FiniteSets

CONSTANTS
  Callers,            \* calls of updateUser, updatePool and of removals in flight
  Transactions,       \* transactions the user may request
  ExchangeRate(_),    \* exchangeRateCurrent as of a block
  Unit, LpAmount,
  Confirmations,      \* confirmations that make a transaction mined
  HasArchive,         \* config.hasArchive
  None,
  (* Bounds of the model. *)
  Emitted,            \* the kinds of event that happen by themselves
  LastBlock, MaxEvents

ASSUME BoundAssumption ==
  /\ LastBlock \in Nat /\ MaxEvents \in Nat
  /\ Unit \in Nat \ {0} /\ LpAmount \in Nat \ {0} /\ Confirmations \in Nat \ {0}
  /\ HasArchive \in BOOLEAN /\ Callers \cap Transactions = {}
ASSUME RateAssumption == \A b \in 0..LastBlock : ExchangeRate(b) \in Nat \ {0}

VARIABLES
  log, head,        \* the chain
  pools,            \* state.pools of the token: block and rate
  users,            \* state.users: the user's state and the block it was read at, if any
  transactions,     \* state.transactions: transaction -> its state
  poolEvents,       \* PoolEventState: the events it has seen
  userService,      \* UserState: its events and the block it goes on from
  call,             \* caller -> where its call stands
  errors            \* transactions whose update was given up with an error

chain == <<log, head>>
vars == <<chain, pools, users, transactions, poolEvents, userService, call, errors>>

Slots == Callers \cup Transactions

-----------------------------------------------------------------------------
(* The chain.                                                              *)

Events(names, b) == {p \in DOMAIN log : log[p].name \in names /\ log[p].block <= b}
Net(plus, minus, b) == Cardinality(Events(plus, b)) - Cardinality(Events(minus, b))

BalanceOf(b) ==
  LpAmount * Net({"LiquidityAdded", "Received", "Unstaked"},
                 {"LiquidityRemoved", "Sent", "Staked"}, b)
CumulativeBalance(b) == LpAmount * Net({"Staked", "Claimed"}, {"Unstaked"}, b)

Moves(name) ==
  CASE name \in {"LiquidityRemoved", "Sent", "Self", "Staked"} -> BalanceOf(head + 1) >= LpAmount
    [] name = "Unstaked" -> CumulativeBalance(head + 1) >= LpAmount
    [] OTHER -> TRUE

(* The sum of the values at some positions.                                *)
SumOver(values, ps) ==
  LET total[p \in 0..Len(values)] ==
        IF p = 0 THEN 0 ELSE total[p - 1] + (IF p \in ps THEN values[p] ELSE 0)
  IN total[Len(values)]

(* The L1 tokens that an event's LP tokens were worth.                     *)
ValueOf(p) == (LpAmount * ExchangeRate(log[p].block)) \div Unit
Sum(ps) == SumOver([p \in DOMAIN log |-> ValueOf(p)], ps)

-----------------------------------------------------------------------------
(* The memories of events.                                                 *)

(* getEventState of the HubPool's events: what the user deposited, less    *)
(* what was taken out again.                                               *)
TokenBalance(ps) ==
  Sum({p \in ps : log[p].name = "LiquidityAdded"})
    - Sum({p \in ps : log[p].name = "LiquidityRemoved"})

HubPoolEvents(b) == Events({"LiquidityAdded", "LiquidityRemoved"}, b)

(* The LP token's transfers from and to the user.                          *)
Outgoing(from, to) ==
  {p \in Events({"LiquidityRemoved", "Sent", "Self", "Staked"}, to) : log[p].block >= from}
Incoming(from, to) ==
  {p \in Events({"LiquidityAdded", "Received", "Self", "Unstaked"}, to) : log[p].block >= from}

(* Mints, burns and transfers to oneself are left out.  Those from and to  *)
(* the AcceleratingDistributor would be, if the user's service were given  *)
(* its address.                                                            *)
Ignored == {"LiquidityAdded", "LiquidityRemoved", "Self"}
Kept(ps) == {p \in ps : log[p].name \notin Ignored}

(* calculateLpTransferValue: what came in, less what went out.             *)
LpTransferValue(ps) ==
  Sum({p \in ps : log[p].name \in {"Received", "Unstaked"}})
    - Sum({p \in ps : log[p].name \in {"Sent", "Staked"}})

(* resolveStakingData: claims at their block's rate, not scaled down.      *)
AmountAirdropped ==
  SumOver([p \in DOMAIN log |-> LpAmount * ExchangeRate(log[p].block)],
          Events({"Claimed"}, head))

(* joinUserState.                                                          *)
PositionValue(rate, balance, stake) == (rate * (balance + stake)) \div Unit
JoinUserState(c, stake, airdropped) ==
  LET position == PositionValue(c.rate, c.balance, stake)
      deposited == c.deposited + airdropped
      transferred == IF HasArchive THEN LpTransferValue(c.transfers) ELSE 0
  IN [lpTokens |-> c.balance, positionValue |-> position, totalDeposited |-> deposited,
      feesEarned |-> position - (deposited + transferred)]

-----------------------------------------------------------------------------

(* What a call keeps across its awaits.                                    *)
NoCall ==
  [stage |-> "idle", kind |-> None, began |-> 0, end |-> 0, rate |-> 0, deposited |-> 0,
   from |-> 0, out |-> {}, transfers |-> {}, again |-> FALSE, balance |-> 0]
NextBlock == head + 1

Init ==
  /\ log = <<>> /\ head = 0
  /\ pools = None /\ users = {}
  /\ transactions = [t \in Transactions |-> [state |-> "none"]]
  /\ poolEvents = {} /\ userService = [seen |-> {}, events |-> {}, startBlock |-> 0]
  /\ call = [s \in Slots |-> NoCall]
  /\ errors = {}

memory == <<pools, users, poolEvents, userService>>

Happens(name) == Append(log, [name |-> name, block |-> NextBlock])

Emit ==
  /\ Len(log) < MaxEvents /\ head < LastBlock
  /\ \E name \in Emitted : Moves(name) /\ log' = Happens(name)
  /\ UNCHANGED <<head, memory, transactions, call, errors>>

MineBlock ==
  /\ head < LastBlock
  /\ head' = head + 1
  /\ UNCHANGED <<log, memory, transactions, call, errors>>

-----------------------------------------------------------------------------
(* updatePool, updateUser and updateUserWithTransaction, await by await.   *)

(* A call reads "latest" first; began is the head it was made at.  The one *)
(* that removes liquidity validates it first, and for that updates the     *)
(* pool.                                                                   *)
Start(u) ==
  /\ call[u] = NoCall
  /\ \E kind \in {"pool", "user", "removal"} :
       call' = [call EXCEPT ![u] = [NoCall EXCEPT !.kind = kind, !.stage = "block", !.began = head]]
  /\ UNCHANGED <<chain, memory, transactions, errors>>

(* An update that throws rejects its call; that of a mined transaction     *)
(* emits an error.                                                         *)
GivenUp(s) ==
  /\ call' = [call EXCEPT ![s] = NoCall]
  /\ errors' = IF s \in Transactions THEN errors \cup {s} ELSE errors

(* The block an update is as of.                                           *)
EndBlock_OfPool == IF pools = None THEN head ELSE pools.latestBlock
EndBlock == head

(* The block is answered.  A receipt's events are kept; without any there  *)
(* is no token to update.                                                  *)
LatestBlock(s) ==
  /\ call[s].stage = "block"
  /\ LET c == [call[s] EXCEPT !.stage = "rate", !.end = EndBlock]
         receipt == IF c.kind = "transaction" THEN transactions[s].receipt ELSE {}
     IN /\ poolEvents' = poolEvents \cup receipt
        /\ IF c.kind = "transaction" /\ receipt = {}
             THEN GivenUp(s)
             ELSE call' = [call EXCEPT ![s] = c] /\ UNCHANGED errors
  /\ UNCHANGED <<chain, pools, users, userService, transactions>>

(* exchangeRateCurrent is answered as of the head, the rest with it.       *)
Rate(s) ==
  /\ call[s].stage = "rate"
  /\ call' = [call EXCEPT ![s] = [@ EXCEPT !.stage = "rateModel", !.rate = ExchangeRate(head)]]
  /\ UNCHANGED <<chain, memory, transactions, errors>>

(* readEvents, up to its await: it returns nothing unless the call is two  *)
(* blocks or more behind the last.                                         *)
AskTransfers(c, deposited) ==
  IF c.end <= userService.startBlock
    THEN [c EXCEPT !.deposited = deposited, !.stage = "balance", !.again = TRUE]
    ELSE [c EXCEPT !.deposited = deposited, !.stage = "out", !.from = userService.startBlock]

(* validateWithdraw, on the pool and the user as they are in memory.  For  *)
(* a user who is not, updateUser is called with its arguments swapped and  *)
(* throws: only users in memory come this far.                             *)
ValidWithdrawal(pool) ==
  /\ (LpAmount * pool.exchangeRateCurrent) \div Unit > 0
  /\ \E user \in users : LpAmount <= user.state.lpTokens

(* The rate model is answered, or is not: the pool is updated either way.  *)
RateModel(s) ==
  /\ call[s].stage = "rateModel"
  /\ LET c == call[s] IN
     /\ pools' = [latestBlock |-> c.end, exchangeRateCurrent |-> c.rate]
     /\ call' = [call EXCEPT ![s] =
          CASE c.kind = "pool" -> NoCall
            [] c.kind = "user" -> [c EXCEPT !.stage = "poolEvents"]
            [] c.kind = "removal" ->
                 IF ValidWithdrawal(pools') THEN [c EXCEPT !.stage = "request"] ELSE NoCall
            [] c.kind = "transaction" -> AskTransfers(c, TokenBalance(poolEvents))]
  /\ UNCHANGED <<chain, users, poolEvents, userService, transactions, errors>>

(* The HubPool's events up to the block are answered.                      *)
ReadPoolEvents(s) ==
  /\ call[s].stage = "poolEvents"
  /\ poolEvents' = poolEvents \cup HubPoolEvents(call[s].end)
  /\ call' = [call EXCEPT ![s] = AskTransfers(call[s], TokenBalance(poolEvents'))]
  /\ UNCHANGED <<chain, pools, users, userService, transactions, errors>>

(* The transfers from the user are answered; those to the user are asked   *)
(* for from where the service has got to by then.                          *)
ReadOutgoing(s) ==
  /\ call[s].stage = "out"
  /\ call' = [call EXCEPT ![s] =
       [@ EXCEPT !.stage = "in", !.from = userService.startBlock,
                 !.out = Outgoing(call[s].from, call[s].end)]]
  /\ UNCHANGED <<chain, memory, transactions, errors>>

NextStart_AfterHead(c) == head + 1
NextStart(c) == c.end + 1

Returned_OnlyNew(new) == new
Returned(new) == userService.events \cup new

ReadIncoming(s) ==
  /\ call[s].stage = "in"
  /\ LET c == call[s]
         found == (c.out \cup Incoming(c.from, c.end)) \ userService.seen
     IN /\ userService' = [seen |-> userService.seen \cup found,
                           events |-> userService.events \cup Kept(found),
                           startBlock |-> NextStart(c)]
        /\ call' = [call EXCEPT ![s] =
             [@ EXCEPT !.stage = "balance", !.transfers = Returned(Kept(found))]]
  /\ UNCHANGED <<chain, pools, users, poolEvents, transactions, errors>>

(* balanceOf is answered as of the head.                                   *)
Balance(s) ==
  /\ call[s].stage = "balance"
  /\ call' = [call EXCEPT ![s] = [@ EXCEPT !.stage = "stake", !.balance = BalanceOf(head)]]
  /\ UNCHANGED <<chain, memory, transactions, errors>>

(* Claims and stake are answered as of the head, and the user's state is   *)
(* set.  "asOf" records for FeesRight whether it was read as of one block. *)
Stake(s) ==
  /\ call[s].stage = "stake"
  /\ LET c == call[s] IN
     users' = {[state |-> JoinUserState(c, CumulativeBalance(head), AmountAirdropped),
                readAt |-> c.end,
                asOf |-> IF c.began = head /\ c.kind = "user" /\ ~c.again THEN head ELSE None]}
  /\ call' = [call EXCEPT ![s] = NoCall]
  /\ UNCHANGED <<chain, pools, poolEvents, userService, transactions, errors>>

(* An awaited request is rejected.                                         *)
Fail(s) ==
  /\ call[s] # NoCall
  /\ GivenUp(s)
  /\ UNCHANGED <<chain, memory, transactions>>

Proceed(s) ==
  \/ LatestBlock(s) \/ Rate(s) \/ RateModel(s) \/ ReadPoolEvents(s)
  \/ ReadOutgoing(s) \/ ReadIncoming(s) \/ Balance(s) \/ Stake(s)

-----------------------------------------------------------------------------
(* Transactions.  The TransactionManager is the external one of @uma/sdk:  *)
(* it sends each request once and reports a transaction once as mined.     *)

(* addEthLiquidity and addTokenLiquidity.                                  *)
AddLiquidity(t) ==
  /\ transactions[t].state = "none"
  /\ transactions' = [transactions EXCEPT ![t] = [state |-> "requested", type |-> "LiquidityAdded"]]
  /\ UNCHANGED <<chain, memory, call, errors>>

(* removeEthliquidity and removeTokenLiquidity, once the withdrawal is     *)
(* valid: the request is populated, whatever has changed since.            *)
RemoveLiquidity(u) ==
  /\ call[u].stage = "request"
  /\ \E t \in Transactions :
       /\ transactions[t].state = "none"
       /\ transactions' =
            [transactions EXCEPT ![t] = [state |-> "requested", type |-> "LiquidityRemoved"]]
  /\ call' = [call EXCEPT ![u] = NoCall]
  /\ UNCHANGED <<chain, memory, errors>>

(* The request is sent, or refused.                                        *)
Submitted(t) ==
  /\ transactions[t].state = "requested"
  /\ \E state \in {"submitted", "error"} : transactions' = [transactions EXCEPT ![t].state = state]
  /\ UNCHANGED <<chain, memory, call, errors>>

(* The chain executes a submitted transaction, or reverts it.              *)
Execute(t) ==
  /\ transactions[t].state = "submitted" /\ "block" \notin DOMAIN transactions[t]
  /\ Len(log) < MaxEvents /\ head < LastBlock
  /\ LET succeeds == Moves(transactions[t].type) IN
     /\ log' = IF succeeds THEN Happens(transactions[t].type) ELSE log
     /\ transactions' = [transactions EXCEPT ![t] =
          [state |-> "submitted", type |-> @.type, block |-> NextBlock,
           receipt |-> IF succeeds THEN {Len(log')} ELSE {}]]
  /\ UNCHANGED <<head, memory, call, errors>>

(* The manager, polled every 30 seconds, finds the receipt: the user is    *)
(* updated.                                                                *)
UserUpdate == [NoCall EXCEPT !.kind = "transaction", !.stage = "block", !.began = head]
Mined(t) ==
  /\ transactions[t].state = "submitted" /\ "block" \in DOMAIN transactions[t]
  /\ head - transactions[t].block + 1 >= Confirmations
  /\ transactions' = [transactions EXCEPT ![t].state = "mined"]
  /\ call' = [call EXCEPT ![t] = UserUpdate]
  /\ UNCHANGED <<chain, memory, errors>>

Next ==
  \/ Emit \/ MineBlock
  \/ \E u \in Callers : Start(u) \/ RemoveLiquidity(u)
  \/ \E s \in Slots : Proceed(s) \/ Fail(s)
  \/ \E t \in Transactions :
       AddLiquidity(t) \/ Submitted(t) \/ Execute(t) \/ Mined(t)

Spec == Init /\ [][Next]_vars

-----------------------------------------------------------------------------

TypeOK ==
  /\ head \in 0..LastBlock /\ Len(log) <= MaxEvents
  /\ poolEvents \subseteq HubPoolEvents(head)
  /\ userService.events \subseteq userService.seen /\ userService.seen \subseteq DOMAIN log
  /\ userService.startBlock \in 0..(LastBlock + 1)
  /\ \A t \in Transactions :
       transactions[t].state \in {"none", "requested", "submitted", "mined", "error"}
  /\ errors \subseteq Transactions

(* The user's service holds every transfer below the block it goes on      *)
(* from, although overlapping reads move that block while others ask for   *)
(* the second half of their transfers, and set it back when they end.      *)
TransfersComplete ==
  LET transfers == Kept(Outgoing(0, head) \cup Incoming(0, head)) IN
  /\ userService.events \subseteq transfers
  /\ \A p \in transfers : log[p].block < userService.startBlock => p \in userService.events

(* Of a user who did not stake, the fees earned are what the LP tokens are *)
(* worth, less what they were worth when they came and plus when they      *)
(* went: whatever other updates read, missed or left behind.  Asked of an  *)
(* update that no block was mined in and whose transfers were read.        *)
FeesAt(b) ==
  PositionValue(ExchangeRate(b), BalanceOf(b), 0)
    - Sum(Events({"LiquidityAdded", "Received"}, b)) + Sum(Events({"LiquidityRemoved", "Sent"}, b))
FeesRight ==
  \A user \in users : user.asOf # None => user.state.feesEarned = FeesAt(user.asOf)

(* The update that a mined transaction starts ends with a user state that  *)
(* was read in the transaction's block or later, or with an emitted error, *)
(* whatever overlaps with it.  (Not that it stays: an older update that    *)
(* ends later overwrites it.)                                              *)
MinedIsReflected ==
  [][\A t \in Transactions :
       call[t] # NoCall /\ call'[t] = NoCall =>
         \/ t \in errors'
         \/ \E user \in users' : user.readAt >= transactions[t].block]_vars

=============================================================================
