-------------------------- MODULE PoolClientProofs --------------------------
(***************************************************************************)
(* Proofs about PoolClient, for any number of overlapping calls, any       *)
(* exchange rates and any events: no transfer of LP tokens is lost, a      *)
(* mined transaction is reflected in the user's state or in an error, and  *)
(* the fees of a user who does not stake are right.                        *)
(***************************************************************************)
EXTENDS PoolClient, SequenceTheorems, FiniteSetTheorems, WellFoundedInduction, TLAPS

Types == {"LiquidityAdded", "LiquidityRemoved"}
OutNames == {"LiquidityRemoved", "Sent", "Self", "Staked"}
InNames == {"LiquidityAdded", "Received", "Self", "Unstaked"}

(* What a call keeps.                                                      *)
Fields ==
  {"stage", "kind", "began", "end", "rate", "deposited", "from", "out", "transfers", "again",
   "balance"}

(* Every transfer below block b is in the service's memory.                *)
Held(b) ==
  \A p \in DOMAIN log :
    log[p].name \in OutNames \cup InNames /\ log[p].block < b => p \in userService.seen

-----------------------------------------------------------------------------
(* The inductive invariant.                                                *)

LogOK ==
  /\ head \in Nat
  /\ log \in Seq([name : Emitted \cup Types, block : Nat])
  /\ \A p \in DOMAIN log : log[p].block \in 0..(head + 1)

(* What the service has seen are transfers of mined blocks, and it goes on *)
(* from a block that it holds everything below.                            *)
ServiceOK ==
  /\ DOMAIN userService = {"seen", "events", "startBlock"}
  /\ userService.seen \subseteq DOMAIN log
  /\ \A p \in userService.seen :
       log[p].name \in OutNames \cup InNames /\ log[p].block <= head
  /\ userService.events = Kept(userService.seen)
  /\ userService.startBlock \in 0..(head + 1)
  /\ Held(userService.startBlock)

(* A call in flight: whatever the others do, everything below the block    *)
(* its next question starts from is held, and once the first half has been *)
(* answered the outgoing transfers up to its end are held or in hand.      *)
CallOK(s) ==
  /\ DOMAIN call[s] = Fields
  /\ call[s] # NoCall => call[s].kind \in {"pool", "user", "removal", "transaction"}
  /\ call[s].end \in 0..head
  /\ call[s].from \in 0..(head + 1)
  /\ Held(call[s].from)
  /\ call[s].out \subseteq DOMAIN log
  /\ \A p \in call[s].out : log[p].name \in OutNames /\ log[p].block <= head
  /\ call[s].stage = "in" =>
       \A p \in DOMAIN log :
         log[p].name \in OutNames /\ log[p].block <= call[s].end =>
           p \in userService.seen \cup call[s].out

(* A transaction is one of these records; the update of a mined one is as  *)
(* of its block or later.                                                  *)
TransactionRecord ==
  [state : {"none"}]
    \cup [state : {"requested", "submitted", "error"}, type : Types]
    \cup [state : {"submitted", "mined"}, type : Types, block : Nat, receipt : SUBSET Nat]

UpdateOK(t) ==
  call[t] # NoCall =>
    /\ call[t].kind = "transaction"
    /\ transactions[t].state = "mined"
    /\ transactions[t].block \in 0..head
    /\ call[t].stage # "block" => transactions[t].block <= call[t].end

CallsOK == DOMAIN call = Slots /\ \A s \in Slots : CallOK(s)
TransactionsOK ==
  /\ DOMAIN transactions = Transactions
  /\ \A t \in Transactions : transactions[t] \in TransactionRecord /\ UpdateOK(t)

IInv == LogOK /\ ServiceOK /\ CallsOK /\ TransactionsOK
-----------------------------------------------------------------------------
(* The chain only grows, and what is added is in a block above the head.   *)

Grows ==
  /\ LogOK'
  /\ head <= head'
  /\ DOMAIN log \subseteq DOMAIN log'
  /\ \A p \in DOMAIN log : log'[p] = log[p]
  /\ \A p \in DOMAIN log' : p \in DOMAIN log \/ log'[p].block > head

LEMMA LogStays == ASSUME LogOK, UNCHANGED chain PROVE Grows
  BY DEF LogOK, Grows, chain

LEMMA HeadGrows == ASSUME LogOK, MineBlock PROVE Grows
  BY DEF LogOK, Grows, MineBlock

LEMMA LogAppends ==
  ASSUME LogOK, head' = head, NEW n \in Emitted \cup Types, log' = Happens(n)
  PROVE  Grows /\ Len(log) + 1 \in DOMAIN log' /\ Len(log') = Len(log) + 1
               /\ log'[Len(log) + 1] = [name |-> n, block |-> head + 1]
<1> DEFINE e == [name |-> n, block |-> head + 1]
           E == [name : Emitted \cup Types, block : Nat]
<1>1. e \in E /\ log \in Seq(E) /\ log' = Append(log, e)
  BY DEF LogOK, Happens, NextBlock
<1> HIDE DEF e, E
<1>2. /\ log' \in Seq(E) /\ Len(log') = Len(log) + 1
      /\ log'[Len(log) + 1] = e
      /\ \A p \in 1..Len(log) : log'[p] = log[p]
  BY <1>1, AppendProperties
<1>3. DOMAIN log = 1..Len(log) /\ DOMAIN log' = 1..Len(log') /\ Len(log) \in Nat
  BY <1>1, <1>2, LenProperties
<1>4. \A p \in DOMAIN log' : p \in DOMAIN log \/ p = Len(log) + 1
  BY <1>2, <1>3
<1>5. e.block = head + 1
  BY DEF e
<1>6. LogOK'
  <2>1. \A p \in DOMAIN log' : log'[p].block \in 0..(head + 1)
    BY <1>2, <1>3, <1>4, <1>5 DEF LogOK
  <2>. QED BY <2>1, <1>2 DEF LogOK, E
<1>7. Grows
  BY <1>2, <1>3, <1>4, <1>5, <1>6 DEF Grows, LogOK
<1>. QED BY <1>2, <1>3, <1>7 DEF e

(* What is held and kept stays so when the chain and the memory grow.      *)
LEMMA HeldStays ==
  ASSUME LogOK, Grows, userService.seen \subseteq userService'.seen,
         NEW b \in 0..(head + 1), Held(b)
  PROVE  Held(b)'
<1>1. ASSUME NEW p \in DOMAIN log', log'[p].block < b PROVE p \in DOMAIN log /\ log'[p] = log[p]
  <2>1. head \in Nat /\ log'[p].block \in Nat
    BY DEF LogOK, Grows
  <2>2. ~(log'[p].block > head)
    BY <1>1, <2>1
  <2> QED
    BY <2>2 DEF Grows
<1> QED
  BY <1>1 DEF Held

(* So do the events of mined blocks.                                       *)
LEMMA PlacesStay ==
  ASSUME LogOK, Grows
  PROVE  \A p \in DOMAIN log : /\ p \in DOMAIN log' /\ log'[p] = log[p]
                               /\ log[p].block <= head => log'[p].block <= head'
<1>1. head \in Nat /\ head' \in Nat /\ head <= head' /\ \A p \in DOMAIN log : log[p].block \in Nat
  BY DEF LogOK, Grows
<1>2. \A p \in DOMAIN log : p \in DOMAIN log' /\ log'[p] = log[p]
  BY DEF Grows
<1> QED
  BY <1>1, <1>2

(* A block number that was in range is in range of a later head.           *)
LEMMA WiderRange ==
  ASSUME NEW a \in Nat, NEW c \in Nat, a <= c
  PROVE  \A b \in 0..(a + 1) : b \in 0..(c + 1)
  OBVIOUS

(* So the blocks a call may ask from stay blocks it may ask from.          *)
LEMMA BoundsStay ==
  ASSUME LogOK, Grows
  PROVE  \A b \in 0..(head + 1) : b \in 0..(head' + 1)
<1>1. head \in Nat /\ head' \in Nat /\ head <= head'
  BY DEF LogOK, Grows
<1> QED
  BY <1>1, WiderRange

LEMMA KeptStays ==
  ASSUME LogOK, Grows, NEW ps, ps \subseteq DOMAIN log
  PROVE  Kept(ps)' = Kept(ps)
  BY DEF Grows, Kept, Ignored

LEMMA ServiceStays ==
  ASSUME LogOK, ServiceOK, Grows, UNCHANGED userService
  PROVE  ServiceOK'
<1>1. Held(userService.startBlock)'
  BY HeldStays DEF ServiceOK
<1>2. Kept(userService.seen)' = Kept(userService.seen)
  BY KeptStays DEF ServiceOK
<1>3. \A p \in userService.seen :
        p \in DOMAIN log' /\ log'[p].name \in OutNames \cup InNames /\ log'[p].block <= head'
  BY PlacesStay DEF ServiceOK
<1>4. userService.startBlock \in 0..(head' + 1)
  BY BoundsStay DEF ServiceOK
<1>. QED BY <1>1, <1>2, <1>3, <1>4 DEF ServiceOK

LEMMA CallStays ==
  ASSUME LogOK, Grows, userService.seen \subseteq userService'.seen,
         NEW s \in Slots, CallOK(s), call'[s] = call[s]
  PROVE  CallOK(s)'
<1>1. Held(call[s].from)'
  BY HeldStays DEF CallOK
<1>2. \A p \in DOMAIN log' :
        log'[p].name \in OutNames /\ log'[p].block <= call'[s].end => p \in DOMAIN log
  BY DEF CallOK, Grows, LogOK
<1>3. call[s].stage = "in" =>
        \A p \in DOMAIN log' :
          log'[p].name \in OutNames /\ log'[p].block <= call'[s].end =>
            p \in userService'.seen \cup call'[s].out
  BY <1>2 DEF CallOK, Grows
<1>4. \A p \in call'[s].out : p \in DOMAIN log' /\ log'[p].name \in OutNames /\ log'[p].block <= head'
  BY PlacesStay DEF CallOK
<1>5. call'[s].end \in 0..head' /\ call'[s].from \in 0..(head' + 1)
  BY DEF CallOK, Grows, LogOK
<1>. QED BY <1>1, <1>3, <1>4, <1>5 DEF CallOK

(* A call that goes on with the same questions behind it.                  *)
LEMMA CallMoves ==
  ASSUME LogOK, Grows, userService.seen \subseteq userService'.seen,
         NEW s \in Slots, CallOK(s),
         DOMAIN call'[s] = Fields, call'[s].end \in 0..head',
         call'[s].from = call[s].from, call'[s].out = call[s].out,
         call'[s].stage # "in", call[s] # NoCall, call'[s].kind = call[s].kind
  PROVE  CallOK(s)'
<1>1. Held(call[s].from)'
  BY HeldStays DEF CallOK
<1>2. \A p \in call'[s].out : p \in DOMAIN log' /\ log'[p].name \in OutNames /\ log'[p].block <= head'
  BY PlacesStay DEF CallOK
<1>3. call'[s].from \in 0..(head' + 1) /\ call'[s].kind \in {"pool", "user", "removal", "transaction"}
  BY DEF CallOK, Grows, LogOK
<1>4. call'[s].out \subseteq DOMAIN log'
  BY <1>2
<1>. QED BY <1>1, <1>2, <1>3, <1>4 DEF CallOK

LEMMA ZeroIsBlock == ASSUME NEW h \in Nat PROVE 0 \in 0..h /\ 0 \in 0..(h + 1)
  OBVIOUS

LEMMA NoCallOK ==
  ASSUME LogOK', NEW s \in Slots, call'[s].from = 0, call'[s].out = {}, call'[s].end = 0,
         call'[s].stage # "in", DOMAIN call'[s] = Fields,
         call'[s] # NoCall => call'[s].kind \in {"pool", "user", "removal", "transaction"}
  PROVE  CallOK(s)'
<1>1. Held(call[s].from)'
  BY DEF LogOK, Held
<1>2. call'[s].end \in 0..head' /\ call'[s].from \in 0..(head' + 1)
  BY ZeroIsBlock, Zenon DEF LogOK
<1>3. (call[s] # NoCall => call[s].kind \in {"pool", "user", "removal", "transaction"})'
  BY DEF NoCall
<1>. QED BY <1>1, <1>2, <1>3 DEF CallOK

LEMMA NoCallFields ==
  /\ DOMAIN NoCall = Fields /\ NoCall.stage = "idle" /\ NoCall.from = 0 /\ NoCall.out = {}
  /\ NoCall.end = 0
  BY DEF NoCall, Fields

-----------------------------------------------------------------------------
(* The step, conjunct by conjunct.                                         *)

(* One call moves.                                                         *)
LEMMA OneCallMoves ==
  ASSUME IInv, Grows, userService.seen \subseteq userService'.seen,
         NEW s \in Slots, NEW c, call' = [call EXCEPT ![s] = c], CallOK(s)'
  PROVE  CallsOK'
<1>1. DOMAIN call' = Slots /\ \A r \in Slots \ {s} : call'[r] = call[r]
  BY DEF IInv, CallsOK
<1>2. ASSUME NEW r \in Slots PROVE CallOK(r)'
  <2>1. CASE r = s
    BY <2>1
  <2>2. CASE r # s
    BY <1>1, <2>2, CallStays DEF IInv, CallsOK
  <2>. QED BY <2>1, <2>2
<1>. QED BY <1>1, <1>2 DEF CallsOK

LEMMA CallsStay ==
  ASSUME IInv, Grows, userService.seen \subseteq userService'.seen, UNCHANGED call
  PROVE  CallsOK'
<1>1. \A s \in Slots : CallOK(s)'
  BY CallStays DEF IInv, CallsOK
<1>. QED BY <1>1 DEF CallsOK, IInv

(* A call ends, or goes on with what it has asked for.                     *)
LEMMA CallEnds ==
  ASSUME IInv, Grows, UNCHANGED userService, NEW s \in Slots, call' = [call EXCEPT ![s] = NoCall]
  PROVE  CallsOK'
<1>1. call'[s] = NoCall /\ LogOK'
  BY DEF IInv, CallsOK, Grows
<1>2. CallOK(s)'
  BY <1>1, NoCallFields, NoCallOK
<1>. QED BY <1>2, OneCallMoves, NoCallFields

LEMMA CallGoesOn ==
  ASSUME IInv, Grows, userService.seen \subseteq userService'.seen, NEW s \in Slots, NEW c,
         call' = [call EXCEPT ![s] = c], DOMAIN c = Fields, c.end \in 0..head',
         c.from = call[s].from, c.out = call[s].out, c.stage # "in",
         call[s] # NoCall, c.kind = call[s].kind
  PROVE  CallsOK'
<1>1. call'[s] = c
  BY DEF IInv, CallsOK
<1>2. CallOK(s)'
  BY <1>1, CallMoves DEF IInv, CallsOK
<1>. QED BY <1>2, OneCallMoves

(* The transactions stay, and the update of one moves or ends.             *)
LEMMA TransactionsStay ==
  ASSUME IInv, Grows, UNCHANGED <<transactions, call>>
  PROVE  TransactionsOK'
<1>1. ASSUME NEW t \in Transactions PROVE UpdateOK(t)'
  <2>1. UpdateOK(t) /\ NoCall' = NoCall /\ call'[t] = call[t]
    BY DEF IInv, TransactionsOK, NoCall
  <2>. QED BY <2>1 DEF UpdateOK, Grows, LogOK, IInv
<1>. QED BY <1>1 DEF IInv, TransactionsOK

LEMMA UpdateMoves ==
  ASSUME IInv, Grows, UNCHANGED transactions, NEW s \in Slots, NEW c,
         call' = [call EXCEPT ![s] = c], call[s] # NoCall,
         c # NoCall => /\ c.kind = call[s].kind
                       /\ c.stage = "block" \/ call[s].stage = "block" \/ c.end = call[s].end
                       /\ c.stage # "block" /\ call[s].stage = "block" => c.end = head
  PROVE  TransactionsOK'
<1>1. \A t \in Transactions : transactions'[t] \in TransactionRecord
  BY DEF IInv, TransactionsOK
<1>2. ASSUME NEW t \in Transactions PROVE UpdateOK(t)'
  <2>1. UpdateOK(t) /\ t \in Slots /\ NoCall' = NoCall
    BY DEF IInv, TransactionsOK, Slots, NoCall
  <2>2. CASE t # s
    <3>1. call'[t] = call[t]
      BY <2>1, <2>2 DEF IInv, CallsOK
    <3>. QED BY <2>1, <3>1 DEF UpdateOK, Grows, LogOK, IInv
  <2>3. CASE t = s
    <3>1. call'[t] = c
      BY <2>1, <2>3 DEF IInv, CallsOK
    <3>. QED BY <2>1, <2>3, <3>1 DEF UpdateOK, Grows, LogOK, IInv
  <2>. QED BY <2>2, <2>3
<1>. QED BY <1>1, <1>2 DEF IInv, TransactionsOK
-----------------------------------------------------------------------------
(* Every action keeps the invariant.                                       *)

LEMMA InitOK == Init => IInv
<1> SUFFICES ASSUME Init PROVE IInv
  OBVIOUS
<1>1. LogOK
  <2>1. log = <<>> /\ head = 0 /\ DOMAIN log = {}
    BY DEF Init
  <2>. QED BY <2>1 DEF LogOK
<1>2. ServiceOK
  BY DEF Init, ServiceOK, Held, Kept
<1>3. ASSUME NEW s \in Slots PROVE CallOK(s)
  <2>1. call[s] = NoCall /\ log = <<>> /\ head = 0
    BY <1>3 DEF Init
  <2>. QED BY <2>1, NoCallFields DEF CallOK, Held
<1>4. ASSUME NEW t \in Transactions
      PROVE  transactions[t] \in TransactionRecord /\ UpdateOK(t)
  <2>1. transactions[t] = [state |-> "none"] /\ call[t] = NoCall
    BY DEF Init, Slots
  <2>. QED BY <2>1 DEF TransactionRecord, UpdateOK
<1>5. DOMAIN call = Slots /\ DOMAIN transactions = Transactions
  BY DEF Init
<1>. QED BY <1>1, <1>2, <1>3, <1>4, <1>5 DEF IInv, CallsOK, TransactionsOK

LEMMA GrowsOK ==
  ASSUME Grows, ServiceOK', CallsOK', TransactionsOK'
  PROVE  IInv'
  BY DEF Grows, IInv

LEMMA OthersStay ==
  ASSUME IInv, Grows, UNCHANGED <<userService, transactions, call>>
  PROVE  IInv'
  BY ServiceStays, CallsStay, TransactionsStay, GrowsOK DEF IInv, ServiceOK

LEMMA EmitOK == ASSUME IInv, Emit PROVE IInv'
<1>1. PICK name \in Emitted : log' = Happens(name)
  BY DEF Emit
<1>2. Grows
  BY <1>1, LogAppends DEF Emit, IInv
<1>. QED BY <1>2, OthersStay DEF Emit, memory

LEMMA MineBlockOK == ASSUME IInv, MineBlock PROVE IInv'
  BY HeadGrows, OthersStay DEF IInv, MineBlock, memory

(* The service and the transactions stay, and one call goes on or ends.    *)
LEMMA GoesOn ==
  ASSUME IInv, UNCHANGED <<chain, userService, transactions>>, NEW s \in Slots, NEW c,
         call' = [call EXCEPT ![s] = c], call[s] # NoCall,
         DOMAIN c = Fields, c.end \in 0..head, c.from = call[s].from, c.out = call[s].out,
         c.stage \notin {"in", "block"}, c.kind = call[s].kind,
         IF call[s].stage = "block" THEN c.end = head ELSE c.end = call[s].end
  PROVE  IInv'
<1>1. Grows /\ head' = head
  BY LogStays DEF IInv, chain
<1>2. ServiceOK'
  BY <1>1, ServiceStays DEF IInv
<1>3. CallsOK'
  BY <1>1, CallGoesOn
<1>4. TransactionsOK'
  BY <1>1, UpdateMoves
<1>. QED BY <1>1, <1>2, <1>3, <1>4, GrowsOK

LEMMA Ends ==
  ASSUME IInv, UNCHANGED <<chain, userService, transactions>>, NEW s \in Slots,
         call' = [call EXCEPT ![s] = NoCall], call[s] # NoCall
  PROVE  IInv'
<1>1. Grows
  BY LogStays DEF IInv
<1>2. ServiceOK' /\ CallsOK'
  BY <1>1, ServiceStays, CallEnds DEF IInv
<1>3. TransactionsOK'
  BY <1>1, UpdateMoves
<1>. QED BY <1>1, <1>2, <1>3, GrowsOK

LEMMA StartOK == ASSUME IInv, NEW u \in Callers, Start(u) PROVE IInv'
<1>1. PICK kind \in {"pool", "user", "removal"} :
        call' = [call EXCEPT ![u] = [NoCall EXCEPT !.kind = kind, !.stage = "block", !.began = head]]
  BY DEF Start
<1> DEFINE c == [NoCall EXCEPT !.kind = kind, !.stage = "block", !.began = head]
<1>2. /\ DOMAIN c = Fields /\ c.stage = "block" /\ c.from = 0 /\ c.out = {} /\ c.end = 0
      /\ c.kind = kind
  BY NoCallFields DEF Fields
<1> HIDE DEF c
<1>3. Grows /\ ServiceOK'
  BY LogStays, ServiceStays DEF Start, IInv, memory
<1>4. u \in Slots /\ call'[u] = c /\ call[u] = NoCall
  BY <1>1 DEF Slots, IInv, CallsOK, c, Start
<1>5. CallsOK'
  <2>1. CallOK(u)'
    BY <1>2, <1>3, <1>4, NoCallOK DEF Grows
  <2>. QED BY <2>1, <1>1, <1>3, <1>4, OneCallMoves DEF c, Start, memory
<1>6. TransactionsOK'
  <2>1. ASSUME NEW t \in Transactions PROVE UpdateOK(t)'
    <3>1. call'[t] = call[t] /\ UpdateOK(t) /\ NoCall' = NoCall
      BY <1>1, BoundAssumption DEF Slots, IInv, CallsOK, TransactionsOK, NoCall
    <3>. QED BY <3>1, <1>3 DEF UpdateOK, Grows, LogOK, IInv, Start
  <2>. QED BY <2>1 DEF TransactionsOK, IInv, Start
<1>. QED BY <1>3, <1>5, <1>6, GrowsOK

LEMMA FailOK == ASSUME IInv, NEW s \in Slots, Fail(s) PROVE IInv'
  BY Ends DEF Fail, GivenUp, memory
LEMMA NotIdle == ASSUME NEW s, call[s].stage # "idle" PROVE call[s] # NoCall
  BY NoCallFields

LEMMA LatestBlockOK == ASSUME IInv, NEW s \in Slots, LatestBlock(s) PROVE IInv'
<1> DEFINE c == [call[s] EXCEPT !.stage = "rate", !.end = EndBlock]
<1>1. CASE call' = [call EXCEPT ![s] = NoCall]
  BY <1>1, NotIdle, Ends DEF LatestBlock
<1>2. CASE call' = [call EXCEPT ![s] = c]
  <2>1. CallOK(s) /\ head \in Nat
    BY DEF IInv, CallsOK, LogOK
  <2>2. /\ DOMAIN c = Fields /\ c.end = head /\ c.from = call[s].from /\ c.out = call[s].out
        /\ c.stage = "rate" /\ c.kind = call[s].kind /\ c.end \in 0..head
    BY <2>1 DEF CallOK, Fields, EndBlock
  <2> HIDE DEF c
  <2>3. call[s] # NoCall /\ call[s].stage = "block"
    BY NotIdle DEF LatestBlock
  <2>4. UNCHANGED <<chain, userService, transactions>>
    BY DEF LatestBlock
  <2>. QED BY <1>2, <2>1, <2>2, <2>3, <2>4, GoesOn
<1>. QED BY <1>1, <1>2 DEF LatestBlock, GivenUp

LEMMA RateOK == ASSUME IInv, NEW s \in Slots, Rate(s) PROVE IInv'
<1> DEFINE c == [call[s] EXCEPT !.stage = "rateModel", !.rate = ExchangeRate(head)]
<1>1. CallOK(s) /\ call' = [call EXCEPT ![s] = c]
  BY DEF IInv, CallsOK, Rate
<1>2. /\ DOMAIN c = Fields /\ c.end = call[s].end /\ c.from = call[s].from /\ c.out = call[s].out
      /\ c.stage = "rateModel" /\ c.kind = call[s].kind /\ c.end \in 0..head
  BY <1>1 DEF CallOK, Fields
<1> HIDE DEF c
<1>. QED BY <1>1, <1>2, GoesOn, NotIdle DEF Rate, memory

LEMMA BalanceOK == ASSUME IInv, NEW s \in Slots, Balance(s) PROVE IInv'
<1> DEFINE c == [call[s] EXCEPT !.stage = "stake", !.balance = BalanceOf(head)]
<1>1. CallOK(s) /\ call' = [call EXCEPT ![s] = c]
  BY DEF IInv, CallsOK, Balance
<1>2. /\ DOMAIN c = Fields /\ c.end = call[s].end /\ c.from = call[s].from /\ c.out = call[s].out
      /\ c.stage = "stake" /\ c.kind = call[s].kind /\ c.end \in 0..head
  BY <1>1 DEF CallOK, Fields
<1> HIDE DEF c
<1>. QED BY <1>1, <1>2, GoesOn, NotIdle DEF Balance, memory

LEMMA StakeOK == ASSUME IInv, NEW s \in Slots, Stake(s) PROVE IInv'
  BY Ends, NotIdle DEF Stake

(* A call with one question answered and the same block as of asks for the *)
(* transfers from where the service has got to, or for none of them.       *)
LEMMA AskTransfersOK ==
  ASSUME IInv, UNCHANGED <<chain, userService, transactions>>, NEW s \in Slots, NEW c, NEW d,
         call' = [call EXCEPT ![s] = AskTransfers(c, d)], c = call[s],
         call[s].stage \notin {"idle", "block"}
  PROVE  IInv'
<1> DEFINE a == AskTransfers(c, d)
<1>1. Grows /\ ServiceOK' /\ call'[s] = a /\ CallOK(s)
  BY LogStays, ServiceStays DEF IInv, CallsOK
<1>2. /\ DOMAIN a = Fields /\ a.end = c.end /\ a.out = c.out /\ a.kind = c.kind
      /\ a.from \in {c.from, userService.startBlock} /\ a.stage \in {"balance", "out"}
  BY <1>1 DEF AskTransfers, CallOK, Fields
<1> HIDE DEF a
<1>3. CallOK(s)'
  <2>1. a.from \in 0..(head + 1) /\ Held(a.from)
    BY <1>1, <1>2 DEF CallOK, ServiceOK, IInv
  <2>2. Held(call[s].from)'
    BY <2>1, <1>1, HeldStays DEF IInv, Held
  <2>3. call'[s].kind \in {"pool", "user", "removal", "transaction"}
    BY <1>1, <1>2, NotIdle DEF CallOK
  <2>4. call'[s].end \in 0..head' /\ call'[s].from \in 0..(head' + 1)
    BY <1>1, <1>2, <2>1 DEF CallOK, chain
  <2>. QED BY <1>1, <1>2, <2>2, <2>3, <2>4 DEF CallOK, chain
<1>4. CallsOK'
  BY <1>1, <1>3, OneCallMoves DEF a
<1>5. TransactionsOK'
  BY <1>1, <1>2, NotIdle, UpdateMoves DEF a
<1>. QED BY <1>1, <1>4, <1>5, GrowsOK

LEMMA RateModelOK == ASSUME IInv, NEW s \in Slots, RateModel(s) PROVE IInv'
<1> DEFINE c == [call[s] EXCEPT !.stage = "poolEvents"]
<1>1. CallOK(s) /\ UNCHANGED <<chain, userService, transactions>>
      /\ call[s].stage = "rateModel" /\ call[s] # NoCall
  BY NotIdle DEF IInv, CallsOK, RateModel
<1>2. CASE call' = [call EXCEPT ![s] = NoCall]
  BY <1>1, <1>2, Ends
<1>3. CASE call' = [call EXCEPT ![s] = c]
  <2>1. /\ DOMAIN c = Fields /\ c.end = call[s].end /\ c.from = call[s].from
        /\ c.out = call[s].out /\ c.stage = "poolEvents" /\ c.kind = call[s].kind
        /\ c.end \in 0..head
    BY <1>1 DEF CallOK, Fields
  <2> HIDE DEF c
  <2>. QED BY <1>1, <1>3, <2>1, GoesOn
<1>4. CASE call' = [call EXCEPT ![s] = AskTransfers(call[s], TokenBalance(poolEvents))]
  BY <1>1, <1>4, AskTransfersOK
<1>5. CASE call' = [call EXCEPT ![s] = [call[s] EXCEPT !.stage = "request"]]
  <2> DEFINE r == [call[s] EXCEPT !.stage = "request"]
  <2>1. /\ DOMAIN r = Fields /\ r.end = call[s].end /\ r.from = call[s].from
        /\ r.out = call[s].out /\ r.stage = "request" /\ r.kind = call[s].kind
        /\ r.end \in 0..head
    BY <1>1 DEF CallOK, Fields
  <2>2. call' = [call EXCEPT ![s] = r]
    BY <1>5
  <2> HIDE DEF r
  <2>. QED BY <1>1, <2>1, <2>2, GoesOn
<1>. QED BY <1>1, <1>2, <1>3, <1>4, <1>5 DEF RateModel, CallOK

LEMMA ReadPoolEventsOK == ASSUME IInv, NEW s \in Slots, ReadPoolEvents(s) PROVE IInv'
  BY AskTransfersOK DEF ReadPoolEvents

(* The outgoing transfers up to the call's end are in hand now: those      *)
(* below the block they were asked from are held.                          *)
LEMMA ReadOutgoingOK == ASSUME IInv, NEW s \in Slots, ReadOutgoing(s) PROVE IInv'
<1> DEFINE o == Outgoing(call[s].from, call[s].end)
           c == [call[s] EXCEPT !.stage = "in", !.from = userService.startBlock, !.out = o]
<1>1. /\ Grows /\ ServiceOK' /\ CallOK(s) /\ ServiceOK /\ LogOK /\ call[s] # NoCall
      /\ call' = [call EXCEPT ![s] = c] /\ call'[s] = c
      /\ UNCHANGED <<log, head, userService, transactions>>
  BY LogStays, ServiceStays, NotIdle DEF IInv, CallsOK, ReadOutgoing, chain, memory
<1>2. /\ DOMAIN c = Fields /\ c.end = call[s].end /\ c.out = o /\ c.kind = call[s].kind
      /\ c.from = userService.startBlock /\ c.stage = "in"
  BY <1>1 DEF CallOK, Fields
<1>3. o \subseteq DOMAIN log /\ \A p \in o : log[p].name \in OutNames /\ log[p].block <= head
  BY <1>1 DEF Outgoing, Events, OutNames, CallOK, LogOK
<1>4. ASSUME NEW p \in DOMAIN log, log[p].name \in OutNames, log[p].block <= call[s].end
      PROVE  p \in userService.seen \cup o
  <2>1. CASE log[p].block < call[s].from
    BY <1>1, <1>4, <2>1 DEF CallOK, Held
  <2>2. CASE log[p].block >= call[s].from
    BY <1>4, <2>2 DEF Outgoing, Events, OutNames
  <2>. QED BY <1>1, <2>1, <2>2 DEF CallOK, LogOK
<1> HIDE DEF c, o
<1>5. CallOK(s)'
  <2>1. Held(call[s].from)'
    BY <1>1, <1>2 DEF ServiceOK, Held
  <2>2. call'[s].stage = "in" =>
          \A p \in DOMAIN log' :
            log'[p].name \in OutNames /\ log'[p].block <= call'[s].end =>
              p \in userService'.seen \cup call'[s].out
    BY <1>1, <1>2, <1>4
  <2>3. call'[s].kind \in {"pool", "user", "removal", "transaction"}
    BY <1>1, <1>2 DEF CallOK
  <2>4. call'[s].end \in 0..head' /\ call'[s].from \in 0..(head' + 1)
    BY <1>1, <1>2 DEF CallOK, ServiceOK
  <2>. QED BY <1>1, <1>2, <1>3, <2>1, <2>2, <2>3, <2>4 DEF CallOK
<1>6. CallsOK'
  BY <1>1, <1>5, OneCallMoves
<1>7. TransactionsOK'
  BY <1>1, <1>2, UpdateMoves DEF ReadOutgoing
<1>. QED BY <1>1, <1>6, <1>7, GrowsOK

(* Both halves together are every transfer up to the call's end.           *)
LEMMA ReadIncomingOK == ASSUME IInv, NEW s \in Slots, ReadIncoming(s) PROVE IInv'
<1> DEFINE in == Incoming(call[s].from, call[s].end)
           found == (call[s].out \cup in) \ userService.seen
           c == [call[s] EXCEPT !.stage = "balance", !.transfers = Returned(Kept(found))]
<1>1. /\ Grows /\ CallOK(s) /\ ServiceOK /\ LogOK
      /\ call[s] # NoCall /\ call[s].stage = "in" /\ call' = [call EXCEPT ![s] = c]
      /\ userService' = [seen |-> userService.seen \cup found,
                         events |-> userService.events \cup Kept(found),
                         startBlock |-> NextStart(call[s])]
      /\ UNCHANGED <<log, head, transactions>>
  BY LogStays, NotIdle DEF IInv, CallsOK, ReadIncoming, chain
<1>2. /\ DOMAIN c = Fields /\ c.end = call[s].end /\ c.out = call[s].out /\ c.kind = call[s].kind
      /\ c.from = call[s].from /\ c.stage = "balance" /\ c.end \in 0..head'
  BY <1>1 DEF CallOK, Fields
<1>3. in \subseteq DOMAIN log /\ \A p \in in : log[p].name \in InNames /\ log[p].block <= head
  BY <1>1 DEF Incoming, Events, InNames, CallOK, LogOK
<1>4. ServiceOK'
  <2>1. userService'.seen \subseteq DOMAIN log'
    BY <1>1, <1>3 DEF CallOK, ServiceOK
  <2>2. \A p \in userService'.seen :
          log'[p].name \in OutNames \cup InNames /\ log'[p].block <= head'
    BY <1>1, <1>3 DEF CallOK, ServiceOK
  <2>3. (userService.events = Kept(userService.seen))'
    BY <1>1 DEF ServiceOK, Kept, Ignored
  <2>4. userService'.startBlock = call[s].end + 1 /\ userService'.startBlock \in 0..(head' + 1)
    BY <1>1 DEF NextStart, CallOK, LogOK
  <2>5. Held(userService.startBlock)'
    <3>1. ASSUME NEW p \in DOMAIN log, log[p].name \in OutNames \cup InNames,
                 log[p].block <= call[s].end
          PROVE  p \in userService.seen \cup found
      <4>1. CASE log[p].name \in OutNames
        BY <1>1, <3>1, <4>1 DEF CallOK
      <4>2. CASE log[p].name \in InNames /\ log[p].block < call[s].from
        BY <1>1, <4>2 DEF CallOK, Held
      <4>3. CASE log[p].name \in InNames /\ log[p].block >= call[s].from
        BY <3>1, <4>3 DEF Incoming, Events, InNames
      <4>. QED BY <1>1, <3>1, <4>1, <4>2, <4>3 DEF CallOK, LogOK
    <3>2. userService'.seen = userService.seen \cup found /\ log' = log
      BY <1>1
    <3>3. call[s].end \in Nat /\ \A p \in DOMAIN log : log[p].block \in Nat
      BY <1>1 DEF CallOK, LogOK
    <3> HIDE DEF found
    <3>4. \A p \in DOMAIN log : log[p].block < userService'.startBlock => log[p].block <= call[s].end
      BY <2>4, <3>3
    <3>. QED BY <3>1, <3>2, <3>4 DEF Held
  <2>6. DOMAIN userService' = {"seen", "events", "startBlock"}
    BY <1>1
  <2>. QED BY <2>1, <2>2, <2>3, <2>4, <2>5, <2>6 DEF ServiceOK
<1>5. userService.seen \subseteq userService'.seen
  BY <1>1
<1> HIDE DEF c, found, in
<1>6. CallsOK'
  BY <1>1, <1>2, <1>5, CallGoesOn
<1>7. TransactionsOK'
  BY <1>1, <1>2, UpdateMoves
<1>. QED BY <1>1, <1>4, <1>6, <1>7, GrowsOK

LEMMA ProceedOK == ASSUME IInv, NEW s \in Slots, Proceed(s) PROVE IInv'
  BY LatestBlockOK, RateOK, RateModelOK, ReadPoolEventsOK, ReadOutgoingOK, ReadIncomingOK,
     BalanceOK, StakeOK DEF Proceed

(* A transaction of which no update runs changes.                          *)
LEMMA TransactionChanges ==
  ASSUME IInv, Grows, UNCHANGED <<userService, call>>, NEW t \in Transactions,
         NEW r \in TransactionRecord, transactions' = [transactions EXCEPT ![t] = r],
         transactions[t].state # "mined"
  PROVE  IInv'
<1>1. ServiceOK' /\ CallsOK'
  BY ServiceStays, CallsStay DEF IInv, ServiceOK
<1>2. TransactionsOK'
  <2>1. DOMAIN transactions' = Transactions
    BY DEF IInv, TransactionsOK
  <2>2. ASSUME NEW x \in Transactions
        PROVE  transactions'[x] \in TransactionRecord /\ UpdateOK(x)'
    <3>1. transactions[x] \in TransactionRecord /\ UpdateOK(x) /\ NoCall' = NoCall
      BY DEF IInv, TransactionsOK, NoCall
    <3>2. CASE x = t
      BY <3>1, <3>2 DEF IInv, TransactionsOK, UpdateOK
    <3>3. CASE x # t
      <4>1. transactions'[x] = transactions[x]
        BY <3>3 DEF IInv, TransactionsOK
      <4>. QED BY <3>1, <4>1 DEF UpdateOK, IInv, Grows, LogOK
    <3>. QED BY <3>2, <3>3
  <2>. QED BY <2>1, <2>2 DEF TransactionsOK
<1>. QED BY <1>1, <1>2, GrowsOK

(* The records that a transaction's state, or the fields it has, single    *)
(* out.                                                                    *)
LEMMA RequestedRecord ==
  ASSUME NEW r \in TransactionRecord, r.state = "requested"
  PROVE  r \in [state : {"requested", "submitted", "error"}, type : Types]
  BY DEF TransactionRecord

LEMMA SubmittedRecord ==
  ASSUME NEW r \in TransactionRecord, r.state = "submitted"
  PROVE  /\ r.type \in Types
         /\ "block" \in DOMAIN r =>
              r \in [state : {"submitted", "mined"}, type : Types, block : Nat,
                     receipt : SUBSET Nat]
<1>1. CASE r \in [state : {"requested", "submitted", "error"}, type : Types]
  <2>1. DOMAIN r = {"state", "type"}
    BY <1>1
  <2>. QED BY <1>1, <2>1
<1>. QED BY <1>1 DEF TransactionRecord

LEMMA AddLiquidityOK == ASSUME IInv, NEW t \in Transactions, AddLiquidity(t) PROVE IInv'
<1>1. [state |-> "requested", type |-> "LiquidityAdded"] \in TransactionRecord
  BY DEF TransactionRecord, Types
<1>. QED BY <1>1, LogStays, TransactionChanges DEF AddLiquidity, IInv, memory

LEMMA RemoveLiquidityOK == ASSUME IInv, NEW u \in Callers, RemoveLiquidity(u) PROVE IInv'
<1> DEFINE r == [state |-> "requested", type |-> "LiquidityRemoved"]
<1>1. PICK t \in Transactions :
        transactions[t].state = "none" /\ transactions' = [transactions EXCEPT ![t] = r]
  BY DEF RemoveLiquidity
<1>2. r \in TransactionRecord
  BY DEF TransactionRecord, Types
<1> HIDE DEF r
<1>3. Grows /\ u \in Slots /\ head' = head
  BY LogStays DEF IInv, RemoveLiquidity, Slots, chain
<1>4. ServiceOK' /\ CallsOK'
  BY <1>3, ServiceStays, CallEnds DEF RemoveLiquidity, IInv, memory
<1>5. ASSUME NEW x \in Transactions
      PROVE  transactions'[x] \in TransactionRecord /\ UpdateOK(x)'
  <2>1. /\ transactions[x] \in TransactionRecord /\ UpdateOK(x) /\ NoCall' = NoCall
        /\ call'[x] = call[x]
    BY BoundAssumption DEF IInv, TransactionsOK, CallsOK, Slots, RemoveLiquidity, NoCall
  <2>2. CASE x = t
    BY <1>1, <1>2, <2>1, <2>2 DEF IInv, TransactionsOK, UpdateOK
  <2>3. CASE x # t
    <3>1. transactions'[x] = transactions[x]
      BY <1>1, <2>3 DEF IInv, TransactionsOK
    <3>. QED BY <2>1, <3>1, <1>3 DEF UpdateOK
  <2>. QED BY <2>2, <2>3
<1>6. TransactionsOK'
  BY <1>1, <1>5 DEF IInv, TransactionsOK
<1>. QED BY <1>3, <1>4, <1>6, GrowsOK

LEMMA SubmittedOK == ASSUME IInv, NEW t \in Transactions, Submitted(t) PROVE IInv'
<1>1. PICK state \in {"submitted", "error"} :
        transactions' = [transactions EXCEPT ![t].state = state]
  BY DEF Submitted
<1> DEFINE r == [transactions[t] EXCEPT !.state = state]
<1>2. transactions[t] \in [state : {"requested", "submitted", "error"}, type : Types]
  BY RequestedRecord DEF Submitted, IInv, TransactionsOK
<1>3. r \in TransactionRecord /\ transactions' = [transactions EXCEPT ![t] = r]
  BY <1>1, <1>2 DEF TransactionRecord
<1>4. Grows
  BY LogStays DEF IInv, Submitted
<1> HIDE DEF r
<1>. QED BY <1>3, <1>4, TransactionChanges DEF Submitted, memory

LEMMA ExecuteOK == ASSUME IInv, NEW t \in Transactions, Execute(t) PROVE IInv'
<1> DEFINE type == transactions[t].type
           r == [state |-> "submitted", type |-> type, block |-> NextBlock,
                 receipt |-> IF Moves(type) THEN {Len(log')} ELSE {}]
<1>1. type \in Types /\ head \in Nat /\ Len(log) \in Nat
  BY SubmittedRecord, LenProperties DEF Execute, IInv, TransactionsOK, LogOK
<1>2. Grows /\ Len(log') \in Nat
  <2>1. CASE Moves(type)
    <3>1. log' = Happens(type) /\ head' = head
      BY <2>1 DEF Execute
    <3>2. PICK n \in Emitted \cup Types : n = type
      BY <1>1
    <3>3. LogOK /\ log' = Happens(n)
      BY <3>1, <3>2 DEF IInv
    <3>4. Grows /\ Len(log') = Len(log) + 1
      BY <3>1, <3>3, LogAppends
    <3>. QED BY <1>1, <3>4
  <2>2. CASE ~Moves(type)
    <3>1. log' = log /\ head' = head
      BY <2>2 DEF Execute
    <3>. QED BY <1>1, <3>1, LogStays DEF IInv, chain
  <2>. QED BY <2>1, <2>2
<1>3. r \in TransactionRecord
  BY <1>1, <1>2 DEF TransactionRecord, NextBlock
<1>4. transactions' = [transactions EXCEPT ![t] = r]
  BY DEF Execute
<1> HIDE DEF r
<1>. QED BY <1>2, <1>3, <1>4, TransactionChanges DEF Execute, memory

LEMMA MinedOK == ASSUME IInv, NEW t \in Transactions, Mined(t) PROVE IInv'
<1> DEFINE b == transactions[t].block
<1>1. /\ transactions[t] \in [state : {"submitted", "mined"}, type : Types, block : Nat,
                              receipt : SUBSET Nat]
      /\ head \in Nat /\ t \in Slots
  BY SubmittedRecord DEF Mined, IInv, TransactionsOK, LogOK, Slots
<1>2. b \in 0..head
  BY <1>1, BoundAssumption DEF Mined
<1>3. /\ transactions'[t] \in [state : {"submitted", "mined"}, type : Types, block : Nat,
                               receipt : SUBSET Nat]
      /\ transactions'[t].state = "mined" /\ transactions'[t].block = b
  BY <1>1 DEF Mined, IInv, TransactionsOK
<1>4. Grows /\ ServiceOK' /\ head' = head
  BY LogStays, ServiceStays DEF IInv, Mined, chain, memory
<1>5. /\ DOMAIN UserUpdate = Fields /\ UserUpdate.stage = "block" /\ UserUpdate.from = 0
      /\ UserUpdate.out = {} /\ UserUpdate.end = 0 /\ UserUpdate.kind = "transaction"
  BY NoCallFields DEF UserUpdate, Fields
<1>6. call'[t] = UserUpdate
  BY <1>1 DEF Mined, IInv, CallsOK
<1>7. CallsOK'
  <2>1. CallOK(t)'
    BY <1>1, <1>4, <1>5, <1>6, NoCallOK DEF Grows
  <2>. QED BY <2>1, <1>1, <1>4, OneCallMoves DEF Mined, memory
<1>8. TransactionsOK'
  <2>1. ASSUME NEW x \in Transactions
        PROVE  transactions'[x] \in TransactionRecord /\ UpdateOK(x)'
    <3>1. CASE x = t
      BY <3>1, <1>2, <1>3, <1>4, <1>5, <1>6 DEF TransactionRecord, UpdateOK
    <3>2. CASE x # t
      <4>1. /\ transactions'[x] = transactions[x] /\ call'[x] = call[x] /\ NoCall' = NoCall
            /\ transactions[x] \in TransactionRecord /\ UpdateOK(x)
        BY <1>1, <3>2 DEF Mined, IInv, TransactionsOK, CallsOK, Slots, NoCall
      <4>. QED BY <4>1, <1>4 DEF UpdateOK
    <3>. QED BY <3>1, <3>2
  <2>. QED BY <2>1 DEF TransactionsOK, IInv, Mined
<1>. QED BY <1>4, <1>7, <1>8, GrowsOK

LEMMA NextOK == IInv /\ [Next]_vars => IInv'
<1> SUFFICES ASSUME IInv, [Next]_vars PROVE IInv'
  OBVIOUS
<1>1. CASE Next
  BY <1>1, EmitOK, MineBlockOK, StartOK, ProceedOK, FailOK, AddLiquidityOK, RemoveLiquidityOK,
     SubmittedOK, ExecuteOK, MinedOK DEF Next
<1>2. CASE UNCHANGED vars
  <2>1. Grows
    BY <1>2, LogStays DEF vars, IInv
  <2>. QED BY <1>2, <2>1, OthersStay DEF vars
<1>. QED BY <1>1, <1>2

LEMMA InvariantHolds == Spec => []IInv
  BY InitOK, NextOK, PTL DEF Spec

-----------------------------------------------------------------------------
(* No transfer is lost: the service that calls share (UserState.readEvents *)
(* of src/pool/poolClient.ts) holds every transfer of the user's LP tokens *)
(* below the block it goes on from, however reads of it overlap, move that *)
(* block on or set it back, fail or are given up.                          *)
THEOREM NoTransferLost == Spec => []TransfersComplete
<1>1. IInv => TransfersComplete
  <2> SUFFICES ASSUME IInv PROVE TransfersComplete
    OBVIOUS
  <2> DEFINE transfers == Kept(Outgoing(0, head) \cup Incoming(0, head))
  <2>1. LogOK /\ ServiceOK
    BY DEF IInv
  <2>2. userService.events \subseteq transfers
    BY <2>1 DEF ServiceOK, LogOK, Kept, Outgoing, Incoming, Events, OutNames, InNames
  <2>3. ASSUME NEW p \in transfers, log[p].block < userService.startBlock
        PROVE  p \in userService.events
    <3>1. /\ p \in DOMAIN log /\ log[p].name \in OutNames \cup InNames
          /\ log[p].name \notin Ignored
      BY <2>3 DEF Kept, Outgoing, Incoming, Events, OutNames, InNames
    <3>2. p \in userService.seen
      BY <2>1, <2>3, <3>1 DEF ServiceOK, Held
    <3>. QED BY <2>1, <3>1, <3>2 DEF ServiceOK, Kept
  <2>. QED BY <2>2, <2>3 DEF TransfersComplete
<1>. QED BY <1>1, InvariantHolds, PTL

(* What a read returns when its questions are answered: every transfer up  *)
(* to its own block, those that other reads stored meanwhile with its own. *)
ReadReturnsAll(s) ==
  ReadIncoming(s) =>
    Kept(Outgoing(0, call[s].end) \cup Incoming(0, call[s].end)) \subseteq call'[s].transfers

(* A read of the transfers that asks for any (readEvents of UserState in   *)
(* src/pool/poolClient.ts, past its early return) returns all of the user  *)
(* up to the block it was called with, however other reads change the      *)
(* service between its two halves.                                         *)
THEOREM ReadsReturnAll == Spec => [][\A s \in Slots : ReadReturnsAll(s)]_vars
<1>1. ASSUME IInv, IInv', NEW s \in Slots PROVE ReadReturnsAll(s)
  <2> DEFINE found == (call[s].out \cup Incoming(call[s].from, call[s].end)) \ userService.seen
             end == call[s].end
  <2> SUFFICES ASSUME ReadIncoming(s)
               PROVE  Kept(Outgoing(0, end) \cup Incoming(0, end)) \subseteq call'[s].transfers
    BY DEF ReadReturnsAll
  <2>1. /\ CallOK(s) /\ UNCHANGED chain
        /\ userService'.seen = userService.seen \cup found
        /\ userService'.startBlock = end + 1
        /\ userService.events = Kept(userService.seen)
    BY <1>1 DEF ReadIncoming, NextStart, IInv, ServiceOK, CallsOK
  <2>2. call'[s].transfers = Kept(userService'.seen)
    <3>1. call'[s].transfers = Returned(Kept(found))
      BY <1>1, <2>1 DEF ReadIncoming, CallOK, Fields, IInv, CallsOK
    <3> HIDE DEF found
    <3> QED
      BY <2>1, <3>1 DEF Returned, Kept
  <2>3. ASSUME NEW p \in DOMAIN log, log[p].name \in OutNames \cup InNames, log[p].block <= end
        PROVE  p \in userService'.seen
    <3>1. Held(userService.startBlock)'
      BY <1>1 DEF IInv, ServiceOK
    <3>2. log[p].block \in Nat /\ end \in Nat
      BY <1>1, <2>1 DEF IInv, LogOK, CallOK
    <3>3. log[p].block < userService'.startBlock /\ log' = log
      BY <2>1, <2>3, <3>2 DEF chain
    <3> HIDE DEF found, end
    <3> QED
      BY <2>3, <3>1, <3>3 DEF Held
  <2> HIDE DEF found, end
  <2> QED
    BY <2>2, <2>3 DEF Kept, Outgoing, Incoming, Events, OutNames, InNames
<1>2. IInv /\ IInv' /\ [Next]_vars => [\A s \in Slots : ReadReturnsAll(s)]_vars
  BY <1>1
<1>. QED BY <1>2, InvariantHolds, PTL DEF Spec

-----------------------------------------------------------------------------
(* How the update of a mined transaction ends.                             *)

Reflected(t) ==
  call[t] # NoCall /\ call'[t] = NoCall =>
    \/ t \in errors'
    \/ \E user \in users' : user.readAt >= transactions[t].block

(* A call that moves and does not end leaves all updates running.          *)
LEMMA MovesOn ==
  ASSUME IInv, NEW s \in Slots, NEW c, call' = [call EXCEPT ![s] = c], c.stage # "idle",
         NEW t \in Transactions
  PROVE  Reflected(t)
<1>1. t \in Slots /\ c # NoCall
  BY NoCallFields DEF Slots
<1>. QED BY <1>1 DEF IInv, CallsOK, Reflected

LEMMA CallsUntouched ==
  ASSUME UNCHANGED call, NEW t \in Transactions PROVE Reflected(t)
  BY DEF Reflected

LEMMA GivenUpReflected ==
  ASSUME IInv, NEW s \in Slots, GivenUp(s), NEW t \in Transactions PROVE Reflected(t)
<1>1. t \in Slots
  BY DEF Slots
<1>. QED BY <1>1 DEF IInv, CallsOK, Reflected, GivenUp

LEMMA StakeReflected ==
  ASSUME IInv, NEW s \in Slots, Stake(s), NEW t \in Transactions PROVE Reflected(t)
<1>1. t \in Slots
  BY DEF Slots
<1>2. CASE t # s
  BY <1>1, <1>2 DEF IInv, CallsOK, Reflected, Stake
<1>3. CASE t = s
  <2>1. call[t] # NoCall /\ call[t].stage # "block"
    BY <1>3, NotIdle DEF Stake
  <2>2. /\ transactions[t].block \in 0..head /\ transactions[t].block <= call[t].end
    BY <2>1 DEF IInv, TransactionsOK, UpdateOK
  <2>3. \E user \in users' : user.readAt = call[t].end
    BY <1>3 DEF Stake
  <2>4. call[t].end \in 0..head /\ head \in Nat
    BY <1>1 DEF IInv, CallsOK, CallOK, LogOK
  <2>. QED BY <2>2, <2>3, <2>4 DEF Reflected
<1>. QED BY <1>2, <1>3

LEMMA ProceedReflected ==
  ASSUME IInv, NEW s \in Slots, Proceed(s), NEW t \in Transactions PROVE Reflected(t)
<1>1. CallOK(s) /\ DOMAIN call[s] = Fields
  BY DEF IInv, CallsOK, CallOK
<1>2. ASSUME NEW d PROVE AskTransfers(call[s], d).stage # "idle"
  BY <1>1 DEF AskTransfers, Fields
<1>3. CASE LatestBlock(s)
  <2> DEFINE c == [call[s] EXCEPT !.stage = "rate", !.end = EndBlock]
  <2>1. c.stage = "rate"
    BY <1>1 DEF Fields
  <2>2. GivenUp(s) \/ call' = [call EXCEPT ![s] = c]
    BY <1>3 DEF LatestBlock
  <2> HIDE DEF c
  <2>. QED BY <2>1, <2>2, MovesOn, GivenUpReflected
<1>4. CASE Rate(s)
  <2> DEFINE c == [call[s] EXCEPT !.stage = "rateModel", !.rate = ExchangeRate(head)]
  <2>1. c.stage = "rateModel" /\ call' = [call EXCEPT ![s] = c]
    BY <1>1, <1>4 DEF Fields, Rate, IInv, CallsOK
  <2> HIDE DEF c
  <2>. QED BY <2>1, MovesOn
<1>5. CASE RateModel(s)
  <2>1. CASE call[s].kind = "pool"
    <3>1. s # t
      BY <2>1, <1>5, NotIdle DEF IInv, TransactionsOK, UpdateOK, RateModel
    <3>. QED BY <3>1, <1>5, <2>1 DEF Reflected, RateModel, IInv, CallsOK, Slots
  <2>2. CASE call[s].kind = "user"
    <3> DEFINE c == [call[s] EXCEPT !.stage = "poolEvents"]
    <3>1. c.stage = "poolEvents" /\ call' = [call EXCEPT ![s] = c]
      BY <1>1, <1>5, <2>2 DEF Fields, RateModel
    <3> HIDE DEF c
    <3>. QED BY <3>1, MovesOn
  <2>3. CASE call[s].kind = "transaction"
    <3>1. call' = [call EXCEPT ![s] = AskTransfers(call[s], TokenBalance(poolEvents))]
      BY <1>5, <2>3 DEF RateModel
    <3>. QED BY <3>1, <1>2, MovesOn
  <2>4. CASE call[s].kind = "removal"
    <3> DEFINE c == [call[s] EXCEPT !.stage = "request"]
    <3>1. call' = [call EXCEPT ![s] = NoCall] \/ call' = [call EXCEPT ![s] = c]
      BY <1>5, <2>4 DEF RateModel
    <3>2. c.stage = "request"
      BY <1>1 DEF Fields
    <3>3. s # t
      BY <2>4, <1>5, NotIdle DEF IInv, TransactionsOK, UpdateOK, RateModel
    <3>4. CASE call' = [call EXCEPT ![s] = NoCall]
      BY <3>3, <3>4 DEF Reflected, IInv, CallsOK, Slots
    <3> HIDE DEF c
    <3>. QED BY <3>1, <3>2, <3>4, MovesOn
  <2>5. call[s] # NoCall
    BY <1>5, NotIdle DEF RateModel
  <2>. QED BY <1>1, <2>1, <2>2, <2>3, <2>4, <2>5 DEF CallOK
<1>6. CASE ReadPoolEvents(s)
  BY <1>2, <1>6, MovesOn DEF ReadPoolEvents
<1>7. CASE ReadOutgoing(s)
  <2> DEFINE c == [call[s] EXCEPT !.stage = "in", !.from = userService.startBlock,
                                  !.out = Outgoing(call[s].from, call[s].end)]
  <2>1. c.stage = "in" /\ call' = [call EXCEPT ![s] = c]
    BY <1>1, <1>7 DEF Fields, ReadOutgoing, IInv, CallsOK
  <2> HIDE DEF c
  <2>. QED BY <2>1, MovesOn
<1>8. CASE ReadIncoming(s)
  <2> DEFINE found == (call[s].out \cup Incoming(call[s].from, call[s].end)) \ userService.seen
             c == [call[s] EXCEPT !.stage = "balance", !.transfers = Returned(Kept(found))]
  <2>1. c.stage = "balance" /\ call' = [call EXCEPT ![s] = c]
    BY <1>1, <1>8 DEF Fields, ReadIncoming, IInv, CallsOK
  <2> HIDE DEF c
  <2>. QED BY <2>1, MovesOn
<1>9. CASE Balance(s)
  <2> DEFINE c == [call[s] EXCEPT !.stage = "stake", !.balance = BalanceOf(head)]
  <2>1. c.stage = "stake" /\ call' = [call EXCEPT ![s] = c]
    BY <1>1, <1>9 DEF Fields, Balance, IInv, CallsOK
  <2> HIDE DEF c
  <2>. QED BY <2>1, MovesOn
<1>. QED BY <1>3, <1>4, <1>5, <1>6, <1>7, <1>8, <1>9, StakeReflected DEF Proceed

LEMMA NextReflected == ASSUME IInv, [Next]_vars, NEW t \in Transactions PROVE Reflected(t)
<1>1. CASE \E u \in Callers : Start(u)
  <2>1. PICK u \in Callers, kind \in {"pool", "user", "removal"} :
          call' = [call EXCEPT ![u] = [NoCall EXCEPT !.kind = kind, !.stage = "block", !.began = head]]
    BY <1>1 DEF Start
  <2> DEFINE c == [NoCall EXCEPT !.kind = kind, !.stage = "block", !.began = head]
  <2>2. c.stage = "block" /\ u \in Slots
    BY NoCallFields DEF Fields, Slots
  <2> HIDE DEF c
  <2>. QED BY <2>1, <2>2, MovesOn DEF c
<1>2. CASE \E x \in Transactions : Mined(x)
  <2>1. PICK x \in Transactions : Mined(x)
    BY <1>2
  <2>2. UserUpdate.stage = "block" /\ x \in Slots
    BY NoCallFields DEF UserUpdate, Fields, Slots
  <2>. QED BY <2>1, <2>2, MovesOn DEF Mined
<1>3. CASE \E s \in Slots : Proceed(s) \/ Fail(s)
  BY <1>3, ProceedReflected, GivenUpReflected DEF Fail
<1>4. CASE UNCHANGED call
  BY <1>4, CallsUntouched
<1>5. CASE \E u \in Callers : RemoveLiquidity(u)
  BY <1>5, BoundAssumption DEF RemoveLiquidity, Reflected, IInv, CallsOK, Slots
<1>. QED
  BY <1>1, <1>2, <1>3, <1>4, <1>5
  DEF Next, vars, Emit, MineBlock, AddLiquidity, Submitted, Execute

(* The update that a mined transaction starts (updateUserWithTransaction)  *)
(* ends with a state of the user that was read in the transaction's block  *)
(* or later, or with an emitted error, for any number of transactions and  *)
(* of updates that overlap with it.                                        *)
THEOREM MinedTransactionsAreReflected == Spec => MinedIsReflected
<1>1. IInv /\ [Next]_vars => [\A t \in Transactions : Reflected(t)]_vars
  BY NextReflected
<1>2. MinedIsReflected <=> [][\A t \in Transactions : Reflected(t)]_vars
  BY PTL DEF MinedIsReflected, Reflected
<1>. QED BY <1>1, <1>2, InvariantHolds, PTL DEF Spec

-----------------------------------------------------------------------------
(* Sums.  SumOver adds up the values at some positions, one by one.        *)

LEMMA LeastNumber ==
  \A T \in SUBSET Nat : T # {} => \E m \in T : \A k \in T : m <= k
<1> DEFINE R == {ss \in Nat \X Nat : ss[1] < ss[2]}
<1> SUFFICES ASSUME NEW T \in SUBSET Nat, T # {} PROVE \E m \in T : \A k \in T : m <= k
  OBVIOUS
<1>1. IsWellFoundedOn(R, Nat)
  BY NatLessThanWellFounded, Zenon DEF OpToRel
<1>2. \A x, y \in Nat : y < x => <<y, x>> \in R
  OBVIOUS
<1> HIDE DEF R
<1>3. PICK m \in T : \A k \in T : <<k, m>> \notin R
  BY <1>1, WFMin, Zenon
<1>4. \A k \in T : k \in Nat /\ m \in Nat /\ ~(k < m)
  BY <1>2, <1>3
<1> QED
  BY <1>4

(* Induction up to n, for a set of numbers.                                *)
LEMMA CountUp ==
  ASSUME NEW n \in Nat, NEW T, 0 \in T, \A i \in 1..n : i - 1 \in T => i \in T
  PROVE  \A i \in 0..n : i \in T
<1> DEFINE U == {i \in 0..n : i \notin T}
<1>1. SUFFICES ASSUME U # {} PROVE FALSE
  OBVIOUS
<1>2. PICK m \in U : \A k \in U : m <= k
  <2>1. U \in SUBSET Nat
    OBVIOUS
  <2> HIDE DEF U
  <2> QED
    BY <1>1, <2>1, LeastNumber
<1>3. m # 0 /\ m - 1 \in 0..n /\ m - 1 \notin U
  BY <1>2
<1> QED
  BY <1>2, <1>3

(* The running totals of values that a recursion over 0..n defines.        *)
Totals(total, n, values) ==
  total[0] = 0 /\ \A i \in 1..n : total[i] = total[i - 1] + values[i]

LEMMA TotalsExist ==
  ASSUME NEW n \in Nat, NEW values \in [1..n -> Int]
  PROVE  \E total \in [0..n -> Int] : Totals(total, n, values)
<1> USE DEF Totals
<1> DEFINE T == {k \in 0..n : \E F \in [0..k -> Int] : Totals(F, k, values)}
<1>1. 0 \in T
  <2> DEFINE G == [j \in 0..0 |-> 0]
  <2>1. G \in [0..0 -> Int] /\ Totals(G, 0, values) /\ 0 \in 0..n
    OBVIOUS
  <2> HIDE DEF G
  <2> QED
    BY <2>1
<1>2. ASSUME NEW k \in 1..n, k - 1 \in T PROVE k \in T
  <2>1. PICK F \in [0..(k - 1) -> Int] : Totals(F, k - 1, values)
    BY <1>2
  <2> DEFINE G == [j \in 0..k |-> IF j = k THEN F[k - 1] + values[k] ELSE F[j]]
  <2>2. F[k - 1] \in Int /\ values[k] \in Int
    OBVIOUS
  <2>3. G \in [0..k -> Int]
    BY <2>2
  <2>4. \A i \in 0..(k - 1) : G[i] = F[i]
    OBVIOUS
  <2>5. G[k] = G[k - 1] + values[k]
    BY <2>4
  <2> HIDE DEF G
  <2>6. ASSUME NEW i \in 1..k PROVE G[i] = G[i - 1] + values[i]
    <3>1. CASE i = k
      BY <2>5, <3>1
    <3>2. CASE i # k
      <4>1. i \in 1..(k - 1) /\ i - 1 \in 0..(k - 1) /\ i \in 0..(k - 1)
        BY <3>2
      <4> QED
        BY <2>1, <2>4, <4>1
    <3> QED
      BY <3>1, <3>2
  <2>7. G[0] = 0
    BY <2>1, <2>4
  <2>8. Totals(G, k, values)
    BY <2>6, <2>7
  <2>9. k \in 0..n
    OBVIOUS
  <2> QED
    BY <2>3, <2>8, <2>9
<1> HIDE DEF T
<1>3. \A i \in 0..n : i \in T
  BY <1>1, <1>2, CountUp
<1>4. n \in T
  BY <1>3
<1> QED
  BY <1>4 DEF T

(* What counts of the values at some positions.                            *)
At(values, ps) == [p \in DOMAIN values |-> IF p \in ps THEN values[p] ELSE 0]
SumIs(total, n, values, ps) == Totals(total, n, At(values, ps)) /\ SumOver(values, ps) = total[n]

LEMMA SumSteps ==
  ASSUME NEW n \in Nat, NEW values \in [1..n -> Int], NEW ps
  PROVE  \E total \in [0..n -> Int] : SumIs(total, n, values, ps)
<1> DEFINE Rec(F) == [p \in 0..n |->
              IF p = 0 THEN 0 ELSE F[p - 1] + (IF p \in ps THEN values[p] ELSE 0)]
           total == CHOOSE F : F = Rec(F)
<1>1. At(values, ps) \in [1..n -> Int]
      /\ \A p \in 1..n : At(values, ps)[p] = IF p \in ps THEN values[p] ELSE 0
  BY DEF At
<1>2. PICK F \in [0..n -> Int] : Totals(F, n, At(values, ps))
  BY <1>1, TotalsExist
<1>3. F = Rec(F)
  <2>1. ASSUME NEW p \in 0..n PROVE F[p] = Rec(F)[p]
    <3>1. CASE p = 0
      BY <1>2, <3>1 DEF Totals
    <3>2. CASE p # 0
      <4>1. p \in 1..n /\ p - 1 \in 0..n /\ F[p - 1] \in Int
        BY <3>2
      <4> QED
        BY <1>1, <1>2, <3>2, <4>1 DEF Totals
    <3> QED
      BY <3>1, <3>2
  <2>2. DOMAIN F = DOMAIN Rec(F)
    OBVIOUS
  <2> QED
    BY <2>1, <2>2
<1>4. total = Rec(total)
  BY <1>3
<1>5. Len(values) = n
  BY LenProperties, values \in Seq(Int)
<1>6. SumOver(values, ps) = total[n]
  BY <1>5 DEF SumOver
<1> HIDE DEF total
<1>7. /\ DOMAIN total = 0..n /\ total[0] = 0
      /\ \A p \in 1..n : total[p] = total[p - 1] + At(values, ps)[p]
  <2>1. \A p \in 0..n : total[p] = Rec(total)[p]
    BY <1>4
  <2>2. 0 \in 0..n /\ \A p \in 1..n : p \in 0..n /\ p # 0
    OBVIOUS
  <2>3. DOMAIN total = DOMAIN Rec(total)
    BY <1>4
  <2> QED
    BY <1>1, <2>1, <2>2, <2>3
<1> DEFINE T == {p \in 0..n : total[p] \in Int}
<1>8. 0 \in T
  BY <1>7
<1>9. ASSUME NEW p \in 1..n, p - 1 \in T PROVE p \in T
  BY <1>1, <1>7, <1>9
<1> HIDE DEF T
<1>10. \A p \in 0..n : p \in T
  BY <1>8, <1>9, CountUp
<1>11. total \in [0..n -> Int]
  BY <1>4, <1>7, <1>10 DEF T
<1> QED
  BY <1>6, <1>7, <1>11 DEF SumIs, Totals

LEMMA SumType ==
  ASSUME NEW n \in Nat, NEW values \in [1..n -> Int], NEW ps
  PROVE  SumOver(values, ps) \in Int
<1>1. PICK total \in [0..n -> Int] : SumIs(total, n, values, ps)
  BY SumSteps
<1> QED
  BY <1>1 DEF SumIs

LEMMA SumOfNone ==
  ASSUME NEW n \in Nat, NEW values \in [1..n -> Int]
  PROVE  SumOver(values, {}) = 0
<1>1. PICK total \in [0..n -> Int] : SumIs(total, n, values, {})
  BY SumSteps
<1> DEFINE T == {p \in 0..n : total[p] = 0}
<1>2. 0 \in T
  BY <1>1 DEF SumIs, Totals
<1>3. ASSUME NEW p \in 1..n, p - 1 \in T PROVE p \in T
  BY <1>1, <1>3 DEF SumIs, Totals, At
<1> HIDE DEF T
<1>4. \A p \in 0..n : p \in T
  BY <1>2, <1>3, CountUp
<1> QED
  BY <1>1, <1>4 DEF T, SumIs

(* The sum over two sets without a common position is that of the sums.    *)
LEMMA SumOfBoth ==
  ASSUME NEW n \in Nat, NEW values \in [1..n -> Int], NEW ps, NEW qs, ps \cap qs = {}
  PROVE  SumOver(values, ps \cup qs) = SumOver(values, ps) + SumOver(values, qs)
<1>1. PICK t \in [0..n -> Int] : SumIs(t, n, values, ps \cup qs)
  BY SumSteps
<1>2. PICK f \in [0..n -> Int] : SumIs(f, n, values, ps)
  BY SumSteps
<1>3. PICK g \in [0..n -> Int] : SumIs(g, n, values, qs)
  BY SumSteps
<1> DEFINE T == {p \in 0..n : t[p] = f[p] + g[p]}
<1>4. 0 \in T
  BY <1>1, <1>2, <1>3 DEF SumIs, Totals
<1>5. ASSUME NEW p \in 1..n, p - 1 \in T PROVE p \in T
  <2>1. /\ At(values, ps)[p] \in Int /\ At(values, qs)[p] \in Int
        /\ At(values, ps \cup qs)[p] = At(values, ps)[p] + At(values, qs)[p]
    BY DEF At
  <2>2. /\ t[p] = t[p - 1] + At(values, ps \cup qs)[p]
        /\ f[p] = f[p - 1] + At(values, ps)[p]
        /\ g[p] = g[p - 1] + At(values, qs)[p]
    BY <1>1, <1>2, <1>3 DEF SumIs, Totals
  <2>3. t[p - 1] = f[p - 1] + g[p - 1] /\ f[p - 1] \in Int /\ g[p - 1] \in Int
    BY <1>5
  <2> HIDE DEF T
  <2> DEFINE a == At(values, ps)[p]
             b == At(values, qs)[p]
             x == f[p - 1]
             y == g[p - 1]
  <2>4. /\ t[p] = (x + y) + (a + b) /\ f[p] = x + a /\ g[p] = y + b
        /\ x \in Int /\ y \in Int /\ a \in Int /\ b \in Int
    BY <2>1, <2>2, <2>3
  <2> HIDE DEF a, b, x, y
  <2>5. t[p] = f[p] + g[p]
    BY <2>4
  <2> QED
    BY <2>5 DEF T
<1> HIDE DEF T
<1>6. \A p \in 0..n : p \in T
  BY <1>4, <1>5, CountUp
<1>7. t[n] = f[n] + g[n]
  BY <1>6 DEF T
<1> QED
  BY <1>1, <1>2, <1>3, <1>7 DEF SumIs

(* Values that are appended do not count.                                  *)
LEMMA SumStays ==
  ASSUME NEW n \in Nat, NEW m \in Nat, n <= m, NEW ps, ps \subseteq 1..n,
         NEW values \in [1..n -> Int], NEW more \in [1..m -> Int],
         \A p \in 1..n : more[p] = values[p]
  PROVE  SumOver(more, ps) = SumOver(values, ps)
<1>1. PICK f \in [0..n -> Int] : SumIs(f, n, values, ps)
  BY SumSteps
<1>2. PICK g \in [0..m -> Int] : SumIs(g, m, more, ps)
  BY SumSteps
<1> DEFINE T == {p \in 0..m : g[p] = f[IF p <= n THEN p ELSE n]}
<1>3. 0 \in T
  BY <1>1, <1>2 DEF SumIs, Totals
<1>4. ASSUME NEW p \in 1..m, p - 1 \in T PROVE p \in T
  <2>1. g[p] = g[p - 1] + At(more, ps)[p] /\ g[p - 1] \in Int
    BY <1>2 DEF SumIs, Totals
  <2>2. CASE p <= n
    <3>1. f[p] = f[p - 1] + At(values, ps)[p] /\ At(more, ps)[p] = At(values, ps)[p]
      BY <1>1, <2>2 DEF SumIs, Totals, At
    <3> QED
      BY <1>4, <2>1, <2>2, <3>1
  <2>3. CASE p > n
    <3>1. At(more, ps)[p] = 0
      BY <2>3 DEF At
    <3>2. g[p - 1] = f[n]
      <4>1. g[p - 1] = f[IF p - 1 <= n THEN p - 1 ELSE n]
        BY <1>4
      <4>2. (IF p - 1 <= n THEN p - 1 ELSE n) = n
        BY <2>3
      <4> QED
        BY <4>1, <4>2
    <3> QED
      BY <2>1, <2>3, <3>1, <3>2
  <2> QED
    BY <2>2, <2>3
<1> HIDE DEF T
<1>5. \A p \in 0..m : p \in T
  BY <1>3, <1>4, CountUp
<1>6. g[m] = f[n]
  BY <1>5 DEF T
<1> QED
  BY <1>1, <1>2, <1>6 DEF SumIs

-----------------------------------------------------------------------------
(* The fees.  Of a user who does not stake, an update that no block is     *)
(* mined in reads everything as of the block it began in.                  *)

NoStaking == Emitted \cap {"Staked", "Unstaked", "Claimed"} = {}

BlocksOK ==
  /\ head \in 0..LastBlock
  /\ \A p \in DOMAIN log : log[p].block \in 0..LastBlock

(* The events of the pool in memory, from the chain and from the receipts  *)
(* of transactions, are mined.                                             *)
PoolEventsOK ==
  /\ poolEvents \subseteq HubPoolEvents(head)
  /\ \A t \in Transactions : "block" \in DOMAIN transactions[t] =>
       transactions[t].receipt \subseteq HubPoolEvents(transactions[t].block)

AfterRate == {"rateModel", "poolEvents", "out", "in", "balance", "stake"}
AfterEvents == {"out", "in", "balance", "stake"}
AllTransfers == Kept(Outgoing(0, head) \cup Incoming(0, head))

(* What a call that began in the head's block has read so far.             *)
Current(c) ==
  /\ c.stage \in AfterRate => c.rate = ExchangeRate(head)
  /\ c.stage \in AfterEvents => c.deposited = TokenBalance(HubPoolEvents(head))
  /\ c.stage \in {"balance", "stake"} /\ ~c.again => c.transfers = AllTransfers
  /\ c.stage = "stake" => c.balance = BalanceOf(head)

ReadOK(s) ==
  call[s] # NoCall =>
    /\ call[s].kind = "transaction" => s \in Transactions
    /\ call[s].began \in 0..head
    /\ call[s].stage \in {"rate"} \cup AfterRate => call[s].began <= call[s].end
    /\ call[s].kind = "user" /\ call[s].began = head => Current(call[s])

UsersOK ==
  \A user \in users : user.asOf # None =>
    user.asOf \in 0..head /\ user.state.feesEarned = FeesAt(user.asOf)

FInv == BlocksOK /\ PoolEventsOK /\ (\A s \in Slots : ReadOK(s)) /\ UsersOK

LEMMA InitFees == Init => FInv
<1> SUFFICES ASSUME Init PROVE FInv
  OBVIOUS
<1>1. BlocksOK
  <2>1. DOMAIN log = {} /\ head = 0
    BY DEF Init
  <2> QED
    BY <2>1, BoundAssumption DEF BlocksOK
<1>2. PoolEventsOK /\ UsersOK /\ \A s \in Slots : ReadOK(s)
  BY DEF Init, PoolEventsOK, UsersOK, ReadOK
<1> QED
  BY <1>1, <1>2 DEF FInv

LEMMA RateValues ==
  ASSUME NEW b \in 0..LastBlock
  PROVE  (LpAmount * ExchangeRate(b)) \div Unit \in Int
<1>1. ExchangeRate(b) \in Nat /\ LpAmount \in Nat /\ Unit \in Nat \ {0}
  BY RateAssumption, BoundAssumption
<1>2. LpAmount * ExchangeRate(b) \in Int
  BY <1>1
<1> QED
  BY <1>1, <1>2

LEMMA ValuesAre ==
  ASSUME LogOK, BlocksOK
  PROVE  /\ Len(log) \in Nat /\ DOMAIN log = 1..Len(log)
         /\ [p \in DOMAIN log |-> ValueOf(p)] \in [1..Len(log) -> Int]
<1>1. Len(log) \in Nat /\ DOMAIN log = 1..Len(log)
  BY LenProperties DEF LogOK
<1>2. \A p \in DOMAIN log : ValueOf(p) \in Int
  BY RateValues DEF ValueOf, BlocksOK
<1> QED
  BY <1>1, <1>2

(* What is mined stays, and what it was worth.                             *)
LEMMA EventsStay ==
  ASSUME LogOK, Grows, NEW names, NEW b \in 0..head
  PROVE  Events(names, b)' = Events(names, b)
<1>1. ASSUME NEW p \in DOMAIN log PROVE p \in Events(names, b)' <=> p \in Events(names, b)
  BY DEF Events, Grows
<1>2. ASSUME NEW p \in DOMAIN log', p \notin DOMAIN log PROVE p \notin Events(names, b)'
  <2>1. log'[p].block > head /\ log'[p].block \in Nat /\ head \in Nat
    BY <1>2 DEF Grows, LogOK
  <2> QED
    BY <2>1 DEF Events
<1> QED
  BY <1>1, <1>2 DEF Events, Grows

LEMMA SumsStay ==
  ASSUME LogOK, BlocksOK, Grows, BlocksOK', NEW ps, ps \subseteq DOMAIN log
  PROVE  Sum(ps)' = Sum(ps)
<1> DEFINE n == Len(log)
           m == Len(log')
           values == [p \in DOMAIN log |-> ValueOf(p)]
           more == [p \in DOMAIN log' |-> (LpAmount * ExchangeRate(log'[p].block)) \div Unit]
<1>1. n \in Nat /\ DOMAIN log = 1..n /\ values \in [1..n -> Int]
  BY ValuesAre
<1>2. m \in Nat /\ DOMAIN log' = 1..m
  BY LenProperties DEF LogOK, Grows
<1>3. more \in [1..m -> Int]
  <2>1. \A p \in DOMAIN log' : (LpAmount * ExchangeRate(log'[p].block)) \div Unit \in Int
    BY RateValues DEF BlocksOK
  <2> QED
    BY <1>2, <2>1
<1>4. \A p \in 1..n : p \in 1..m /\ more[p] = values[p]
  BY <1>1, <1>2 DEF Grows, ValueOf
<1>5. n <= m
  <2>1. \A p \in 1..n : p \in 1..m
    BY <1>4
  <2> HIDE DEF n, m
  <2> QED
    BY <1>1, <1>2, <2>1
<1>6. Sum(ps)' = SumOver(more, ps) /\ Sum(ps) = SumOver(values, ps)
  BY DEF Sum, ValueOf
<1> HIDE DEF n, m, values, more
<1>7. SumOver(more, ps) = SumOver(values, ps)
  BY <1>1, <1>2, <1>3, <1>4, <1>5, SumStays
<1> QED
  BY <1>6, <1>7

LEMMA FeesStay ==
  ASSUME LogOK, BlocksOK, Grows, BlocksOK', NEW b \in 0..head
  PROVE  FeesAt(b)' = FeesAt(b) /\ BalanceOf(b)' = BalanceOf(b)
<1>1. /\ Sum(Events({"LiquidityAdded", "Received"}, b))' = Sum(Events({"LiquidityAdded", "Received"}, b))
      /\ Sum(Events({"LiquidityRemoved", "Sent"}, b))' = Sum(Events({"LiquidityRemoved", "Sent"}, b))
  <2>1. ASSUME NEW names PROVE Sum(Events(names, b))' = Sum(Events(names, b))
    <3> DEFINE ps == Events(names, b)
    <3>1. ps' = ps /\ ps \subseteq DOMAIN log
      BY EventsStay DEF Events
    <3> HIDE DEF ps
    <3>2. \A qs : qs \subseteq DOMAIN log => Sum(qs)' = Sum(qs)
      BY SumsStay
    <3>3. Sum(ps)' = Sum(ps)
      BY <3>1, <3>2 DEF Sum, ValueOf
    <3> QED
      BY <3>3 DEF ps
  <2> QED
    BY <2>1
<1>2. BalanceOf(b)' = BalanceOf(b)
  BY EventsStay DEF BalanceOf, Net
<1> QED
  BY <1>1, <1>2 DEF FeesAt

(* What a call has read stays current while no block is mined.             *)
LEMMA MinedStay ==
  ASSUME LogOK, Grows, head' = head
  PROVE  /\ HubPoolEvents(head)' = HubPoolEvents(head)
         /\ AllTransfers' = AllTransfers
<1>1. ASSUME NEW p \in DOMAIN log' PROVE p \in DOMAIN log \/ ~(log'[p].block <= head')
  BY DEF Grows, LogOK
<1>2. HubPoolEvents(head)' = HubPoolEvents(head)
  BY <1>1 DEF HubPoolEvents, Events, Grows
<1>3. \A p : p \in AllTransfers' <=> p \in AllTransfers
  <2>1. AllTransfers' \subseteq DOMAIN log /\ AllTransfers \subseteq DOMAIN log
    BY <1>1 DEF AllTransfers, Kept, Outgoing, Incoming, Events
  <2>2. ASSUME NEW p \in DOMAIN log PROVE p \in AllTransfers' <=> p \in AllTransfers
    <3>1. p \in DOMAIN log' /\ log'[p] = log[p]
      BY DEF Grows
    <3> QED
      BY <3>1 DEF AllTransfers, Kept, Outgoing, Incoming, Events
  <2> QED
    BY <2>1, <2>2
<1> QED
  BY <1>2, <1>3

LEMMA CurrentStays ==
  ASSUME LogOK, BlocksOK, Grows, BlocksOK', head' = head, NEW c, Current(c)
  PROVE  Current(c)'
<1>1. TokenBalance(HubPoolEvents(head))' = TokenBalance(HubPoolEvents(head))
  <2> DEFINE P(name) == {p \in HubPoolEvents(head) : log[p].name = name}
  <2>1. ASSUME NEW name PROVE Sum(P(name))' = Sum(P(name))
    <3> DEFINE ps == P(name)
    <3>1. ps' = ps /\ ps \subseteq DOMAIN log
      BY MinedStay DEF HubPoolEvents, Events, Grows
    <3> HIDE DEF ps
    <3>2. \A qs : qs \subseteq DOMAIN log => Sum(qs)' = Sum(qs)
      BY SumsStay
    <3>3. Sum(ps)' = Sum(ps)
      BY <3>1, <3>2 DEF Sum, ValueOf
    <3> QED
      BY <3>3 DEF ps
  <2> QED
    BY <2>1 DEF TokenBalance
<1>2. BalanceOf(head)' = BalanceOf(head)
  <2>1. \A names \in {{"LiquidityAdded", "Received", "Unstaked"}, {"LiquidityRemoved", "Sent", "Staked"}} :
          Events(names, head)' = Events(names, head)
    BY DEF Events, Grows, LogOK
  <2> QED
    BY <2>1 DEF BalanceOf, Net
<1> QED
  BY <1>1, <1>2, MinedStay DEF Current

LEMMA ReadStays ==
  ASSUME IInv, BlocksOK, Grows, BlocksOK', head' \in {head, head + 1},
         NEW s \in Slots, ReadOK(s), call'[s] = call[s]
  PROVE  ReadOK(s)'
<1>1. head \in Nat /\ NoCall' = NoCall
  BY DEF IInv, LogOK, NoCall
<1>2. CASE call[s] = NoCall
  BY <1>1, <1>2 DEF ReadOK
<1>3. CASE call[s] # NoCall /\ head' = head + 1
  <2>1. call[s].began \in 0..head' /\ call[s].began # head'
    BY <1>1, <1>3 DEF ReadOK
  <2> QED
    BY <1>1, <1>3, <2>1 DEF ReadOK
<1>4. CASE call[s] # NoCall /\ head' = head
  <2> DEFINE c == call[s]
  <2>1. c' = c
    OBVIOUS
  <2>2. ASSUME c.kind = "user", c.began = head PROVE Current(c)'
    <3>1. Current(c)
      BY <1>4, <2>2 DEF ReadOK
    <3> HIDE DEF c
    <3>2. \A d : Current(d) => Current(d)'
      BY <1>4, CurrentStays DEF IInv
    <3> QED
      BY <2>1, <3>1, <3>2 DEF Current
  <2> QED
    BY <1>1, <1>4, <2>2 DEF ReadOK
<1> QED
  BY <1>2, <1>3, <1>4

(* The chain in one step.                                                  *)
LEMMA ChainSteps ==
  ASSUME IInv, BlocksOK, [Next]_vars
  PROVE  /\ Grows /\ BlocksOK' /\ head' \in {head, head + 1}
         /\ head' # head => UNCHANGED <<memory, transactions, call>>
<1>1. CASE UNCHANGED chain
  BY <1>1, LogStays DEF IInv, BlocksOK, chain
<1>2. CASE MineBlock
  BY <1>2, HeadGrows, BoundAssumption DEF IInv, BlocksOK, MineBlock
<1>3. ASSUME NEW n \in Emitted \cup Types, log' = Happens(n), head' = head, head < LastBlock
      PROVE  Grows /\ BlocksOK' /\ head' = head
  <2>1. Grows /\ log'[Len(log) + 1] = [name |-> n, block |-> head + 1]
        /\ Len(log') = Len(log) + 1
    BY <1>3, LogAppends DEF IInv
  <2>2. DOMAIN log = 1..Len(log) /\ DOMAIN log' = 1..Len(log') /\ Len(log) \in Nat
    BY <2>1, LenProperties DEF Grows, LogOK, IInv
  <2>3. ASSUME NEW p \in DOMAIN log' PROVE log'[p].block \in 0..LastBlock
    <3>1. CASE p \in DOMAIN log
      BY <2>1, <3>1 DEF BlocksOK, Grows
    <3>2. CASE p = Len(log) + 1
      BY <1>3, <2>1, <3>2, BoundAssumption DEF BlocksOK
    <3> QED
      BY <2>1, <2>2, <3>1, <3>2
  <2> QED
    BY <1>3, <2>1, <2>3 DEF BlocksOK
<1>4. CASE Emit
  BY <1>3, <1>4 DEF Emit
<1>5. ASSUME NEW t \in Transactions, Execute(t)
      PROVE  Grows /\ BlocksOK' /\ head' = head
  <2>1. transactions[t].type \in Types
    BY <1>5, SubmittedRecord DEF Execute, IInv, TransactionsOK
  <2>2. CASE log' = Happens(transactions[t].type)
    BY <1>3, <1>5, <2>1, <2>2 DEF Execute
  <2>3. CASE log' = log
    BY <1>1, <1>5, <2>3 DEF Execute, chain
  <2> QED
    BY <1>5, <2>2, <2>3 DEF Execute
<1>6. UNCHANGED chain \/ MineBlock \/ Emit \/ \E t \in Transactions : Execute(t)
  BY DEF Next, vars, Start, Proceed, LatestBlock, Rate, RateModel, ReadPoolEvents, ReadOutgoing,
         ReadIncoming, Balance, Stake, Fail, AddLiquidity, RemoveLiquidity, Submitted, Mined, chain
<1> QED
  BY <1>1, <1>2, <1>4, <1>5, <1>6 DEF MineBlock, chain

LEMMA MinedGrow ==
  ASSUME IInv, Grows, NEW b \in Nat
  PROVE  HubPoolEvents(b) \subseteq HubPoolEvents(b)'
  BY DEF HubPoolEvents, Events, Grows

(* A receipt holds what the transaction's block has of it.                 *)
ReceiptOK(t) ==
  "block" \in DOMAIN transactions[t] =>
    transactions[t].receipt \subseteq HubPoolEvents(transactions[t].block)

LEMMA ReceiptStays ==
  ASSUME IInv, Grows, NEW t \in Transactions, ReceiptOK(t), transactions'[t] = transactions[t]
  PROVE  ReceiptOK(t)'
<1> DEFINE r == transactions[t]
<1>1. CASE "block" \in DOMAIN r
  <2>1. HubPoolEvents(r.block) \subseteq HubPoolEvents(r.block)'
    BY DEF HubPoolEvents, Events, Grows
  <2> QED
    BY <1>1, <2>1 DEF ReceiptOK, HubPoolEvents, Events
<1>2. CASE "block" \notin DOMAIN r
  BY <1>2 DEF ReceiptOK
<1> QED
  BY <1>1, <1>2

LEMMA ReceiptSteps ==
  ASSUME IInv, FInv, [Next]_vars, NEW t \in Transactions
  PROVE  ReceiptOK(t)'
<1>1. Grows /\ ReceiptOK(t)
  BY ChainSteps DEF FInv, PoolEventsOK, ReceiptOK
<1>2. CASE transactions'[t] = transactions[t]
  BY <1>1, <1>2, ReceiptStays
<1>3. DOMAIN transactions = Transactions /\ transactions[t] \in TransactionRecord
  BY DEF IInv, TransactionsOK
<1>4. ASSUME NEW type \in Types,
             transactions' = [transactions EXCEPT ![t] = [state |-> "requested", type |-> type]]
      PROVE  ReceiptOK(t)'
  <2>1. DOMAIN [state |-> "requested", type |-> type] = {"state", "type"}
    OBVIOUS
  <2> QED
    BY <1>3, <1>4, <2>1 DEF ReceiptOK
<1>5. CASE Submitted(t)
  <2>1. transactions[t] \in [state : {"requested", "submitted", "error"}, type : Types]
    BY <1>3, <1>5, RequestedRecord DEF Submitted
  <2>2. "block" \notin DOMAIN transactions'[t]
    BY <1>3, <1>5, <2>1 DEF Submitted
  <2> QED
    BY <2>2 DEF ReceiptOK
<1>6. CASE Execute(t)
  <2>1. /\ head' = head /\ head \in Nat
        /\ transactions'[t].block = head + 1
        /\ transactions'[t].receipt \in {{}, {Len(log')}}
        /\ transactions'[t].receipt # {} => log' = Happens(transactions[t].type)
    BY <1>3, <1>6 DEF Execute, NextBlock, IInv, LogOK
  <2>2. transactions[t].type \in Types
    BY <1>3, <1>6, SubmittedRecord DEF Execute
  <2>3. CASE transactions'[t].receipt # {}
    <3>1. Len(log) + 1 \in DOMAIN log' /\ Len(log') = Len(log) + 1
          /\ log'[Len(log) + 1] = [name |-> transactions[t].type, block |-> head + 1]
      BY <2>1, <2>2, <2>3, LogAppends DEF IInv
    <3>2. Len(log') \in HubPoolEvents(transactions[t].block)'
      BY <2>1, <2>2, <3>1 DEF HubPoolEvents, Events, Types
    <3> QED
      BY <2>1, <3>2 DEF ReceiptOK
  <2> QED
    BY <2>3 DEF ReceiptOK
<1>7. CASE Mined(t)
  <2>1. /\ DOMAIN transactions'[t] = DOMAIN transactions[t]
        /\ transactions'[t].block = transactions[t].block
        /\ transactions'[t].receipt = transactions[t].receipt
    BY <1>3, <1>7 DEF Mined
  <2>2. UNCHANGED log
    BY <1>7 DEF Mined, chain
  <2> QED
    BY <1>1, <2>1, <2>2 DEF ReceiptOK, HubPoolEvents, Events
<1> DEFINE Requested(x) ==
             \E type \in Types :
               transactions' = [transactions EXCEPT ![x] = [state |-> "requested", type |-> type]]
           A(x) == Requested(x) \/ Submitted(x) \/ Execute(x) \/ Mined(x)
<1>8. UNCHANGED transactions \/ \E x \in Transactions : A(x)
  BY DEF Next, vars, Emit, MineBlock, Start, Proceed, LatestBlock, Rate, RateModel,
    ReadPoolEvents, ReadOutgoing, ReadIncoming, Balance, Stake, Fail, AddLiquidity,
    RemoveLiquidity, Types
<1>9. ASSUME NEW x \in Transactions, A(x), x # t PROVE transactions'[t] = transactions[t]
  BY <1>3, <1>9 DEF Submitted, Execute, Mined
<1>10. transactions'[t] = transactions[t] \/ A(t)
  BY <1>8, <1>9
<1> QED
  BY <1>2, <1>4, <1>5, <1>6, <1>7, <1>10

LEMMA PoolEventSteps ==
  ASSUME IInv, FInv, [Next]_vars
  PROVE  PoolEventsOK'
<1>1. Grows /\ head \in Nat /\ head <= head'
  BY ChainSteps DEF IInv, LogOK, Grows, FInv
<1>2. HubPoolEvents(head) \subseteq HubPoolEvents(head)'
  BY <1>1 DEF HubPoolEvents, Events, Grows, LogOK, IInv
<1>3. ASSUME poolEvents' = poolEvents PROVE poolEvents' \subseteq HubPoolEvents(head)'
  BY <1>2, <1>3 DEF FInv, PoolEventsOK
<1>4. ASSUME NEW s \in Slots, LatestBlock(s)
      PROVE  poolEvents' \subseteq HubPoolEvents(head)'
  <2>1. CASE call[s].kind = "transaction"
    <3>1. call[s] # NoCall
      BY <1>4, NotIdle DEF LatestBlock
    <3>2. s \in Transactions
      BY <2>1, <3>1 DEF FInv, ReadOK
    <3>3. transactions[s].state = "mined" /\ transactions[s].block \in 0..head
          /\ transactions[s] \in TransactionRecord
      BY <3>1, <3>2 DEF IInv, TransactionsOK, UpdateOK
    <3>4. "block" \in DOMAIN transactions[s]
      BY <3>3 DEF TransactionRecord
    <3>5. transactions[s].receipt \subseteq HubPoolEvents(transactions[s].block)
      BY <3>2, <3>4 DEF FInv, PoolEventsOK
    <3>6. HubPoolEvents(transactions[s].block) \subseteq HubPoolEvents(head)
      BY <3>3 DEF HubPoolEvents, Events, IInv, LogOK
    <3>7. poolEvents' = poolEvents \cup transactions[s].receipt
      BY <1>4, <2>1 DEF LatestBlock
    <3> QED
      BY <1>2, <3>5, <3>6, <3>7 DEF FInv, PoolEventsOK
  <2>2. CASE call[s].kind # "transaction"
    <3>1. poolEvents' = poolEvents
      BY <1>4, <2>2 DEF LatestBlock
    <3> QED
      BY <1>2, <3>1 DEF FInv, PoolEventsOK
  <2> QED
    BY <2>1, <2>2
<1>5. ASSUME NEW s \in Slots, ReadPoolEvents(s)
      PROVE  poolEvents' \subseteq HubPoolEvents(head)'
  <2>1. call[s].end \in 0..head
    BY DEF IInv, CallsOK, CallOK
  <2>2. HubPoolEvents(call[s].end) \subseteq HubPoolEvents(head)
    BY <2>1 DEF HubPoolEvents, Events, IInv, LogOK
  <2> QED
    BY <1>2, <1>5, <2>2 DEF FInv, PoolEventsOK, ReadPoolEvents
<1>6. poolEvents' = poolEvents \/ \E s \in Slots : LatestBlock(s) \/ ReadPoolEvents(s)
  BY DEF Next, vars, Emit, MineBlock, Start, Proceed, Rate, RateModel, ReadOutgoing,
    ReadIncoming, Balance, Stake, Fail, AddLiquidity, RemoveLiquidity, Submitted, Execute,
    Mined, memory
<1>7. poolEvents' \subseteq HubPoolEvents(head)'
  BY <1>2, <1>3, <1>4, <1>5, <1>6 DEF FInv, PoolEventsOK
<1>8. \A t \in Transactions : ReceiptOK(t)'
  BY ReceiptSteps
<1> QED
  BY <1>7, <1>8 DEF PoolEventsOK, ReceiptOK

(* One call moves, and what it has read is current if it began in the      *)
(* head's block.                                                           *)
LEMMA ReadMoves ==
  ASSUME IInv, FInv, UNCHANGED chain, NEW s \in Slots, NEW c,
         call' = [call EXCEPT ![s] = c],
         c # NoCall =>
           /\ c.kind = "transaction" => s \in Transactions
           /\ c.began \in 0..head
           /\ c.stage \in {"rate"} \cup AfterRate => c.began <= c.end
           /\ c.kind = "user" /\ c.began = head => Current(c)
  PROVE  \A r \in Slots : ReadOK(r)'
<1>1. Grows /\ BlocksOK /\ BlocksOK' /\ head' = head /\ NoCall' = NoCall
  BY LogStays DEF IInv, FInv, BlocksOK, chain, NoCall
<1>2. call'[s] = c /\ \A r \in Slots : r # s => call'[r] = call[r]
  BY DEF IInv, CallsOK
<1>3. ASSUME NEW r \in Slots, r # s PROVE ReadOK(r)'
  BY <1>1, <1>2, <1>3, ReadStays DEF FInv
<1>4. ReadOK(s)'
  <2>1. \A d : Current(d) => Current(d)'
    BY <1>1, CurrentStays DEF IInv
  <2>2. ASSUME c # NoCall, c.kind = "user", c.began = head PROVE Current(call[s])'
    BY <1>2, <2>1, <2>2 DEF Current
  <2> QED
    BY <1>1, <1>2, <2>2 DEF ReadOK
<1> QED
  BY <1>3, <1>4

LEMMA AsOfHead ==
  ASSUME IInv, FInv, NEW s \in Slots, call[s] # NoCall, call[s].began = head,
         call[s].stage \in {"rate"} \cup AfterRate
  PROVE  call[s].end = head /\ head \in Nat
<1>1. head \in Nat /\ call[s].end \in 0..head /\ head <= call[s].end
  BY DEF IInv, LogOK, CallsOK, CallOK, FInv, ReadOK
<1> QED
  BY <1>1

LEMMA StartReads ==
  ASSUME IInv, FInv, NEW u \in Callers, Start(u) PROVE \A r \in Slots : ReadOK(r)'
<1>1. PICK kind \in {"pool", "user", "removal"} :
        call' = [call EXCEPT ![u] = [NoCall EXCEPT !.kind = kind, !.stage = "block", !.began = head]]
  BY DEF Start
<1> DEFINE c == [NoCall EXCEPT !.kind = kind, !.stage = "block", !.began = head]
<1>2. c.stage = "block" /\ c.kind = kind /\ c.began = head /\ head \in 0..head
  BY NoCallFields DEF Fields, IInv, LogOK
<1>3. Current(c)
  BY <1>2 DEF Current, AfterRate, AfterEvents
<1>4. u \in Slots /\ UNCHANGED chain /\ call' = [call EXCEPT ![u] = c]
  BY <1>1 DEF Slots, Start
<1> HIDE DEF c
<1> QED
  BY <1>2, <1>3, <1>4, ReadMoves DEF AfterRate

LEMMA MinedReads ==
  ASSUME IInv, FInv, NEW t \in Transactions, Mined(t) PROVE \A r \in Slots : ReadOK(r)'
<1>1. /\ UserUpdate.stage = "block" /\ UserUpdate.kind = "transaction"
      /\ UserUpdate.began = head /\ head \in 0..head
  BY NoCallFields DEF UserUpdate, Fields, IInv, LogOK
<1>2. t \in Slots /\ UNCHANGED chain /\ call' = [call EXCEPT ![t] = UserUpdate]
  BY DEF Slots, Mined
<1> QED
  BY <1>1, <1>2, ReadMoves DEF AfterRate

LEMMA EndReads ==
  ASSUME IInv, FInv, NEW s \in Slots, UNCHANGED chain, call' = [call EXCEPT ![s] = NoCall]
  PROVE  \A r \in Slots : ReadOK(r)'
  BY ReadMoves

LEMMA CallFacts ==
  ASSUME IInv, FInv, NEW s \in Slots, call[s] # NoCall
  PROVE  /\ DOMAIN call[s] = Fields /\ head \in Nat /\ call[s].end \in 0..head
         /\ call[s].kind = "transaction" => s \in Transactions
         /\ call[s].began \in 0..head
         /\ call[s].stage \in {"rate"} \cup AfterRate => call[s].began <= call[s].end
         /\ call[s].kind = "user" /\ call[s].began = head => Current(call[s])
  BY DEF IInv, LogOK, CallsOK, CallOK, FInv, ReadOK

LEMMA LatestBlockReads ==
  ASSUME IInv, FInv, NEW s \in Slots, LatestBlock(s) PROVE \A r \in Slots : ReadOK(r)'
<1> DEFINE c == [call[s] EXCEPT !.stage = "rate", !.end = EndBlock]
<1>1. call[s] # NoCall /\ UNCHANGED chain
  BY NotIdle DEF LatestBlock
<1>2. CASE call' = [call EXCEPT ![s] = NoCall]
  BY <1>1, <1>2, EndReads
<1>3. CASE call' = [call EXCEPT ![s] = c]
  <2>1. c.stage = "rate" /\ c.end = head /\ c.kind = call[s].kind /\ c.began = call[s].began
    BY <1>1, CallFacts DEF Fields, EndBlock
  <2> HIDE DEF c
  <2>2. Current(c)
    BY <2>1 DEF Current, AfterRate, AfterEvents
  <2>3. c.began \in 0..head /\ c.began <= c.end /\ (c.kind = "transaction" => s \in Transactions)
    BY <1>1, <2>1, CallFacts
  <2> QED
    BY <1>1, <1>3, <2>2, <2>3, ReadMoves
<1> QED
  BY <1>2, <1>3 DEF LatestBlock, GivenUp

LEMMA RateReads ==
  ASSUME IInv, FInv, NEW s \in Slots, Rate(s) PROVE \A r \in Slots : ReadOK(r)'
<1> DEFINE c == [call[s] EXCEPT !.stage = "rateModel", !.rate = ExchangeRate(head)]
<1>1. call[s] # NoCall /\ UNCHANGED chain /\ call[s].stage = "rate" /\ call' = [call EXCEPT ![s] = c]
  BY NotIdle DEF Rate, IInv, CallsOK
<1>2. /\ c.stage = "rateModel" /\ c.rate = ExchangeRate(head)
      /\ c.kind = call[s].kind /\ c.began = call[s].began /\ c.end = call[s].end
  BY <1>1, CallFacts DEF Fields
<1> HIDE DEF c
<1>3. Current(c)
  BY <1>2 DEF Current, AfterEvents
<1>4. c.began \in 0..head /\ c.began <= c.end /\ (c.kind = "transaction" => s \in Transactions)
  BY <1>1, <1>2, CallFacts
<1> QED
  BY <1>1, <1>3, <1>4, ReadMoves

(* The pool's events as of the head are what the user deposited.           *)
LEMMA AskTransfersReads ==
  ASSUME IInv, FInv, NEW s \in Slots, NEW d, UNCHANGED chain,
         call[s] # NoCall, call[s].stage \in {"rateModel", "poolEvents"},
         call' = [call EXCEPT ![s] = AskTransfers(call[s], d)],
         call[s].kind = "user" /\ call[s].began = head => d = TokenBalance(HubPoolEvents(head))
  PROVE  \A r \in Slots : ReadOK(r)'
<1> DEFINE c == AskTransfers(call[s], d)
<1>1. /\ c.stage \in {"balance", "out"} /\ c.rate = call[s].rate /\ c.deposited = d
      /\ c.kind = call[s].kind /\ c.began = call[s].began /\ c.end = call[s].end
      /\ c.stage = "balance" => c.again
  BY CallFacts DEF Fields, AskTransfers
<1> HIDE DEF c
<1>2. ASSUME c.kind = "user", c.began = head PROVE Current(c)
  <2>1. Current(call[s])
    BY <1>1, <1>2, CallFacts
  <2> QED
    BY <1>1, <1>2, <2>1 DEF Current, AfterRate
<1>3. c.began \in 0..head /\ c.began <= c.end /\ (c.kind = "transaction" => s \in Transactions)
  BY <1>1, CallFacts DEF AfterRate
<1>4. call' = [call EXCEPT ![s] = c]
  BY DEF c
<1> QED
  BY <1>2, <1>3, <1>4, ReadMoves

LEMMA RateModelReads ==
  ASSUME IInv, FInv, NEW s \in Slots, RateModel(s) PROVE \A r \in Slots : ReadOK(r)'
<1> DEFINE c == [call[s] EXCEPT !.stage = "poolEvents"]
           r == [call[s] EXCEPT !.stage = "request"]
<1>1. call[s] # NoCall /\ UNCHANGED chain /\ call[s].stage = "rateModel"
  BY NotIdle DEF RateModel
<1>2. CASE call' = [call EXCEPT ![s] = NoCall]
  BY <1>1, <1>2, EndReads
<1>3. CASE call' = [call EXCEPT ![s] = c]
  <2>1. /\ c.stage = "poolEvents" /\ c.rate = call[s].rate
        /\ c.kind = call[s].kind /\ c.began = call[s].began /\ c.end = call[s].end
    BY <1>1, CallFacts DEF Fields
  <2> HIDE DEF c
  <2>2. ASSUME c.kind = "user", c.began = head PROVE Current(c)
    <3>1. Current(call[s])
      BY <1>1, <2>1, <2>2, CallFacts
    <3> QED
      BY <1>1, <2>1, <3>1 DEF Current, AfterRate, AfterEvents
  <2>3. c.began \in 0..head /\ c.began <= c.end /\ (c.kind = "transaction" => s \in Transactions)
    BY <1>1, <2>1, CallFacts DEF AfterRate
  <2> QED
    BY <1>1, <1>3, <2>2, <2>3, ReadMoves
<1>4. CASE call[s].kind = "transaction"
           /\ call' = [call EXCEPT ![s] = AskTransfers(call[s], TokenBalance(poolEvents))]
  BY <1>1, <1>4, AskTransfersReads
<1>5. CASE call[s].kind = "removal" /\ call' = [call EXCEPT ![s] = r]
  <2>1. r.stage = "request" /\ r.kind = "removal" /\ r.began = call[s].began
    BY <1>1, <1>5, CallFacts DEF Fields
  <2>2. r.began \in 0..head
    BY <1>1, <2>1, CallFacts
  <2>3. call' = [call EXCEPT ![s] = r]
    BY <1>5
  <2> HIDE DEF r
  <2> QED
    BY <1>1, <2>1, <2>2, <2>3, ReadMoves DEF AfterRate
<1>6. call[s].kind \in {"pool", "user", "removal", "transaction"}
  BY <1>1 DEF IInv, CallsOK, CallOK
<1> QED
  BY <1>2, <1>3, <1>4, <1>5, <1>6 DEF RateModel

LEMMA ReadPoolEventsReads ==
  ASSUME IInv, FInv, NEW s \in Slots, ReadPoolEvents(s) PROVE \A r \in Slots : ReadOK(r)'
<1>1. call[s] # NoCall /\ UNCHANGED chain /\ call[s].stage = "poolEvents"
  BY NotIdle DEF ReadPoolEvents
<1>2. ASSUME call[s].began = head
      PROVE  TokenBalance(poolEvents)' = TokenBalance(HubPoolEvents(head))
  <2>1. poolEvents' = HubPoolEvents(head)
    <3>1. call[s].end = head
      BY <1>1, <1>2, AsOfHead DEF AfterRate
    <3> QED
      BY <3>1 DEF ReadPoolEvents, FInv, PoolEventsOK
  <2>2. log' = log
    BY <1>1 DEF chain
  <2> QED
    BY <2>1, <2>2 DEF TokenBalance, Sum, ValueOf, HubPoolEvents, Events
<1> DEFINE d == TokenBalance(poolEvents)'
<1>3. call' = [call EXCEPT ![s] = AskTransfers(call[s], d)]
  BY <1>1 DEF ReadPoolEvents, TokenBalance, Sum, ValueOf, chain
<1> HIDE DEF d
<1>4. call[s].began = head => d = TokenBalance(HubPoolEvents(head))
  BY <1>2 DEF d
<1> QED
  BY <1>1, <1>3, <1>4, AskTransfersReads

LEMMA ReadOutgoingReads ==
  ASSUME IInv, FInv, NEW s \in Slots, ReadOutgoing(s) PROVE \A r \in Slots : ReadOK(r)'
<1> DEFINE c == [call[s] EXCEPT !.stage = "in", !.from = userService.startBlock,
                                !.out = Outgoing(call[s].from, call[s].end)]
<1>1. call[s] # NoCall /\ UNCHANGED chain /\ call[s].stage = "out" /\ call' = [call EXCEPT ![s] = c]
  BY NotIdle DEF ReadOutgoing, IInv, CallsOK
<1>2. /\ c.stage = "in" /\ c.rate = call[s].rate /\ c.deposited = call[s].deposited
      /\ c.kind = call[s].kind /\ c.began = call[s].began /\ c.end = call[s].end
  BY <1>1, CallFacts DEF Fields
<1> HIDE DEF c
<1>3. ASSUME c.kind = "user", c.began = head PROVE Current(c)
  <2>1. Current(call[s])
    BY <1>1, <1>2, <1>3, CallFacts
  <2> QED
    BY <1>1, <1>2, <2>1 DEF Current, AfterRate, AfterEvents
<1>4. c.began \in 0..head /\ c.began <= c.end /\ (c.kind = "transaction" => s \in Transactions)
  BY <1>1, <1>2, CallFacts DEF AfterRate
<1> QED
  BY <1>1, <1>3, <1>4, ReadMoves

LEMMA BalanceReads ==
  ASSUME IInv, FInv, NEW s \in Slots, Balance(s) PROVE \A r \in Slots : ReadOK(r)'
<1> DEFINE c == [call[s] EXCEPT !.stage = "stake", !.balance = BalanceOf(head)]
<1>1. call[s] # NoCall /\ UNCHANGED chain /\ call[s].stage = "balance"
      /\ call' = [call EXCEPT ![s] = c]
  BY NotIdle DEF Balance, IInv, CallsOK
<1>2. /\ c.stage = "stake" /\ c.rate = call[s].rate /\ c.deposited = call[s].deposited
      /\ c.kind = call[s].kind /\ c.began = call[s].began /\ c.end = call[s].end
      /\ c.again = call[s].again /\ c.transfers = call[s].transfers /\ c.balance = BalanceOf(head)
  BY <1>1, CallFacts DEF Fields
<1> HIDE DEF c
<1>3. ASSUME c.kind = "user", c.began = head PROVE Current(c)
  <2>1. Current(call[s])
    BY <1>1, <1>2, <1>3, CallFacts
  <2> QED
    BY <1>1, <1>2, <2>1 DEF Current, AfterRate, AfterEvents
<1>4. c.began \in 0..head /\ c.began <= c.end /\ (c.kind = "transaction" => s \in Transactions)
  BY <1>1, <1>2, CallFacts DEF AfterRate
<1> QED
  BY <1>1, <1>3, <1>4, ReadMoves

(* With the second half of the transfers, a call as of the head has them   *)
(* all: the service holds each below the block after its end.              *)
LEMMA AllAreRead ==
  ASSUME IInv, IInv', NEW s \in Slots, ReadIncoming(s), call[s].end = head,
         NEW found, found = (call[s].out \cup Incoming(call[s].from, call[s].end)) \ userService.seen
  PROVE  Returned(Kept(found)) = AllTransfers
<1>1. /\ UNCHANGED chain
      /\ userService'.seen = userService.seen \cup found
      /\ userService'.startBlock = head + 1
      /\ userService.events = Kept(userService.seen)
  BY DEF ReadIncoming, NextStart, IInv, ServiceOK
<1>2. Returned(Kept(found)) = Kept(userService'.seen)
  BY <1>1 DEF Returned, Kept
<1>3. \A p \in userService'.seen :
        p \in DOMAIN log /\ log[p].name \in OutNames \cup InNames /\ log[p].block <= head
  BY <1>1 DEF IInv, ServiceOK, chain
<1>4. \A p \in DOMAIN log :
        log[p].name \in OutNames \cup InNames /\ log[p].block <= head => p \in userService'.seen
  <2>1. Held(userService.startBlock)'
    BY DEF IInv, ServiceOK
  <2>2. \A p \in DOMAIN log : log[p].block \in Nat /\ head \in Nat
    BY DEF IInv, LogOK
  <2> QED
    BY <1>1, <2>1, <2>2 DEF Held, chain
<1>5. \A p \in DOMAIN log : log[p].block \in Nat
  BY DEF IInv, LogOK
<1>6. \A p : p \in AllTransfers <=> p \in Kept(userService'.seen)
  BY <1>3, <1>4, <1>5 DEF AllTransfers, Kept, Outgoing, Incoming, Events, OutNames, InNames
<1> QED
  BY <1>2, <1>6

LEMMA ReadIncomingReads ==
  ASSUME IInv, IInv', FInv, NEW s \in Slots, ReadIncoming(s) PROVE \A r \in Slots : ReadOK(r)'
<1> DEFINE found == (call[s].out \cup Incoming(call[s].from, call[s].end)) \ userService.seen
           c == [call[s] EXCEPT !.stage = "balance", !.transfers = Returned(Kept(found))]
<1>1. call[s] # NoCall /\ UNCHANGED chain /\ call[s].stage = "in" /\ call' = [call EXCEPT ![s] = c]
  BY NotIdle DEF ReadIncoming, IInv, CallsOK
<1>2. /\ c.stage = "balance" /\ c.rate = call[s].rate /\ c.deposited = call[s].deposited
      /\ c.kind = call[s].kind /\ c.began = call[s].began /\ c.end = call[s].end
      /\ c.transfers = Returned(Kept(found))
  BY <1>1, CallFacts DEF Fields
<1> HIDE DEF c
<1>3. ASSUME c.kind = "user", c.began = head PROVE Current(c)
  <2>1. Current(call[s])
    BY <1>1, <1>2, <1>3, CallFacts
  <2>2. call[s].end = head
    BY <1>1, <1>2, <1>3, AsOfHead DEF AfterRate
  <2>3. c.transfers = AllTransfers
    <3> HIDE DEF found
    <3>1. found = (call[s].out \cup Incoming(call[s].from, call[s].end)) \ userService.seen
      BY DEF found
    <3> QED
      BY <1>2, <2>2, <3>1, AllAreRead
  <2> QED
    BY <1>1, <1>2, <2>1, <2>3 DEF Current, AfterRate, AfterEvents
<1>4. c.began \in 0..head /\ c.began <= c.end /\ (c.kind = "transaction" => s \in Transactions)
  BY <1>1, <1>2, CallFacts DEF AfterRate
<1> HIDE DEF found
<1> QED
  BY <1>1, <1>3, <1>4, ReadMoves

LEMMA ReadSteps ==
  ASSUME IInv, IInv', FInv, [Next]_vars PROVE \A r \in Slots : ReadOK(r)'
<1>1. CASE UNCHANGED call
  BY <1>1, ChainSteps, ReadStays DEF FInv
<1>2. ASSUME NEW s \in Slots, Proceed(s) PROVE \A r \in Slots : ReadOK(r)'
  <2>1. CASE Stake(s)
    BY <2>1, EndReads DEF Stake
  <2> QED
    BY <1>2, <2>1, LatestBlockReads, RateReads, RateModelReads, ReadPoolEventsReads,
       ReadOutgoingReads, ReadIncomingReads, BalanceReads DEF Proceed
<1>3. ASSUME NEW s \in Slots, Fail(s) PROVE \A r \in Slots : ReadOK(r)'
  BY <1>3, EndReads DEF Fail, GivenUp
<1>4. ASSUME NEW u \in Callers, RemoveLiquidity(u) PROVE \A r \in Slots : ReadOK(r)'
  BY <1>4, EndReads DEF RemoveLiquidity, Slots
<1> QED
  BY <1>1, <1>2, <1>3, <1>4, StartReads, MinedReads
  DEF Next, vars, Emit, MineBlock, AddLiquidity, Submitted, Execute

-----------------------------------------------------------------------------
(* What the user's state says of the fees when it is set.                  *)
LEMMA NothingStaked ==
  ASSUME IInv, FInv, NoStaking
  PROVE  CumulativeBalance(head) = 0 /\ AmountAirdropped = 0
<1>1. \A p \in DOMAIN log : log[p].name \notin {"Staked", "Unstaked", "Claimed"}
  <2>1. \A p \in DOMAIN log : log[p].name \in Emitted \cup Types
    <3> DEFINE E == [name : Emitted \cup Types, block : Nat]
    <3>1. log \in Seq(E)
      BY DEF IInv, LogOK
    <3>2. \A p \in DOMAIN log : log[p] \in E
      <4> HIDE DEF E
      <4> QED
        BY <3>1, LenProperties, ElementOfSeq
    <3> QED
      BY <3>2
  <2> QED
    BY <2>1 DEF NoStaking, Types
<1>2. Events({"Staked", "Claimed"}, head) = {} /\ Events({"Unstaked"}, head) = {}
      /\ Events({"Claimed"}, head) = {}
  BY <1>1 DEF Events
<1>3. CumulativeBalance(head) = 0
  BY <1>2, BoundAssumption, FS_EmptySet DEF CumulativeBalance, Net
<1> DEFINE values == [p \in DOMAIN log |-> LpAmount * ExchangeRate(log[p].block)]
           n == Len(log)
<1>4. n \in Nat /\ values \in [1..n -> Int]
  <2>1. n \in Nat /\ DOMAIN log = 1..n
    BY ValuesAre DEF IInv, FInv
  <2>2. \A p \in DOMAIN log : LpAmount * ExchangeRate(log[p].block) \in Int
    <3>1. \A p \in DOMAIN log : ExchangeRate(log[p].block) \in Nat /\ LpAmount \in Nat
      BY RateAssumption, BoundAssumption DEF FInv, BlocksOK
    <3> QED
      BY <3>1
  <2> QED
    BY <2>1, <2>2
<1>5. AmountAirdropped = SumOver(values, {})
  BY <1>2 DEF AmountAirdropped
<1> HIDE DEF values, n
<1>6. AmountAirdropped = 0
  BY <1>4, <1>5, SumOfNone
<1> QED
  BY <1>3, <1>6

LEMMA SumsOfEvents ==
  ASSUME IInv, FInv, NEW ps \in SUBSET DOMAIN log, NEW qs \in SUBSET DOMAIN log
  PROVE  /\ Sum(ps) \in Int
         /\ ps \cap qs = {} => Sum(ps \cup qs) = Sum(ps) + Sum(qs)
<1> DEFINE values == [p \in DOMAIN log |-> ValueOf(p)]
           n == Len(log)
<1>1. n \in Nat /\ values \in [1..n -> Int]
  BY ValuesAre DEF IInv, FInv
<1>2. \A xs : Sum(xs) = SumOver(values, xs)
  BY DEF Sum
<1> HIDE DEF values, n
<1> QED
  BY <1>1, <1>2, SumType, SumOfBoth

LEMMA BalancesAre ==
  ASSUME IInv, FInv PROVE BalanceOf(head) \in Int
<1>1. \A names : IsFiniteSet(Events(names, head))
  <2>1. DOMAIN log = 1..Len(log) /\ Len(log) \in Nat
    BY ValuesAre DEF IInv, FInv
  <2>2. IsFiniteSet(1..Len(log))
    BY <2>1, FS_Interval
  <2>3. \A names : Events(names, head) \subseteq 1..Len(log)
    BY <2>1 DEF Events
  <2> QED
    BY <2>2, <2>3, FS_Subset
<1>2. \A names : Cardinality(Events(names, head)) \in Nat
  BY <1>1, FS_CardinalityType
<1> DEFINE x == Cardinality(Events({"LiquidityAdded", "Received", "Unstaked"}, head))
           y == Cardinality(Events({"LiquidityRemoved", "Sent", "Staked"}, head))
<1>3. x \in Nat /\ y \in Nat /\ BalanceOf(head) = LpAmount * (x - y)
  BY <1>2 DEF BalanceOf, Net
<1> HIDE DEF x, y
<1>4. x - y \in Int /\ LpAmount \in Int
  BY <1>3, BoundAssumption
<1> QED
  BY <1>3, <1>4

(* Deposits and transfers add up to what came, less what went.             *)
LEMMA FeesAdd ==
  ASSUME IInv, FInv, NoStaking
  PROVE  LET position == PositionValue(ExchangeRate(head), BalanceOf(head), 0)
         IN position - (TokenBalance(HubPoolEvents(head)) + 0 + LpTransferValue(AllTransfers))
              = FeesAt(head)
<1> DEFINE position == PositionValue(ExchangeRate(head), BalanceOf(head), 0)
           On(name) == Events({name}, head)
           a == Sum(On("LiquidityAdded"))
           r == Sum(On("Received"))
           w == Sum(On("LiquidityRemoved"))
           s == Sum(On("Sent"))
<1>1. position \in Int
  <2>1. ExchangeRate(head) \in Nat /\ Unit \in Nat \ {0}
    BY RateAssumption, BoundAssumption DEF FInv, BlocksOK
  <2>2. BalanceOf(head) \in Int
    BY BalancesAre
  <2>3. BalanceOf(head) + 0 \in Int
    BY <2>2
  <2>4. ExchangeRate(head) * (BalanceOf(head) + 0) \in Int
    BY <2>1, <2>3
  <2> QED
    BY <2>1, <2>4 DEF PositionValue
<1>2. \A name : On(name) \in SUBSET DOMAIN log
  BY DEF Events
<1>3. \A x, y : x # y => On(x) \cap On(y) = {}
  BY DEF Events
<1>4. \A x, y : Events({x, y}, head) = On(x) \cup On(y)
  BY DEF Events
<1>5. a \in Int /\ r \in Int /\ w \in Int /\ s \in Int
  BY <1>2, SumsOfEvents
<1>6. Sum(Events({"LiquidityAdded", "Received"}, head)) = a + r
  <2> DEFINE ps == On("LiquidityAdded")
             qs == On("Received")
  <2>1. /\ ps \in SUBSET DOMAIN log /\ qs \in SUBSET DOMAIN log /\ ps \cap qs = {}
        /\ Events({"LiquidityAdded", "Received"}, head) = ps \cup qs
    BY <1>2, <1>3, <1>4
  <2> HIDE DEF ps, qs
  <2>2. Sum(ps \cup qs) = Sum(ps) + Sum(qs)
    BY <2>1, SumsOfEvents
  <2> QED
    BY <2>1, <2>2 DEF ps, qs
<1>7. Sum(Events({"LiquidityRemoved", "Sent"}, head)) = w + s
  <2> DEFINE ps == On("LiquidityRemoved")
             qs == On("Sent")
  <2>1. /\ ps \in SUBSET DOMAIN log /\ qs \in SUBSET DOMAIN log /\ ps \cap qs = {}
        /\ Events({"LiquidityRemoved", "Sent"}, head) = ps \cup qs
    BY <1>2, <1>3, <1>4
  <2> HIDE DEF ps, qs
  <2>2. Sum(ps \cup qs) = Sum(ps) + Sum(qs)
    BY <2>1, SumsOfEvents
  <2> QED
    BY <2>1, <2>2 DEF ps, qs
<1>8. TokenBalance(HubPoolEvents(head)) = a - w
  <2>1. /\ {p \in HubPoolEvents(head) : log[p].name = "LiquidityAdded"} = On("LiquidityAdded")
        /\ {p \in HubPoolEvents(head) : log[p].name = "LiquidityRemoved"} = On("LiquidityRemoved")
    BY DEF HubPoolEvents, Events
  <2> QED
    BY <2>1 DEF TokenBalance
<1>9. LpTransferValue(AllTransfers) = r - s
  <2>1. \A p \in DOMAIN log : log[p].name \notin {"Staked", "Unstaked"} /\ log[p].block \in Nat
    <3> DEFINE E == [name : Emitted \cup Types, block : Nat]
    <3>1. log \in Seq(E)
      BY DEF IInv, LogOK
    <3>2. \A p \in DOMAIN log : log[p] \in E
      <4> HIDE DEF E
      <4> QED
        BY <3>1, LenProperties, ElementOfSeq
    <3> QED
      BY <3>2 DEF NoStaking, Types
  <2>2. {p \in AllTransfers : log[p].name \in {"Received", "Unstaked"}} = On("Received")
    BY <2>1 DEF AllTransfers, Kept, Ignored, Outgoing, Incoming, Events
  <2>3. {p \in AllTransfers : log[p].name \in {"Sent", "Staked"}} = On("Sent")
    BY <2>1 DEF AllTransfers, Kept, Ignored, Outgoing, Incoming, Events
  <2> QED
    BY <2>2, <2>3 DEF LpTransferValue
<1>10. FeesAt(head) = position - (a + r) + (w + s)
  BY <1>6, <1>7 DEF FeesAt
<1> HIDE DEF position, a, r, w, s
<1>11. position - (a - w + 0 + (r - s)) = position - (a + r) + (w + s)
  BY <1>1, <1>5
<1> QED
  BY <1>8, <1>9, <1>10, <1>11 DEF position

LEMMA StakeUsers ==
  ASSUME IInv, FInv, NoStaking, HasArchive, NEW s \in Slots, Stake(s)
  PROVE  UsersOK'
<1> DEFINE c == call[s]
<1>1. call[s] # NoCall /\ UNCHANGED chain /\ c.stage = "stake"
  BY NotIdle DEF Stake
<1>2. CASE c.began = head /\ c.kind = "user" /\ ~c.again
  <2>1. Current(c)
    BY <1>1, <1>2, CallFacts
  <2>2. /\ c.rate = ExchangeRate(head) /\ c.balance = BalanceOf(head)
        /\ c.deposited = TokenBalance(HubPoolEvents(head)) /\ c.transfers = AllTransfers
    BY <1>1, <1>2, <2>1 DEF Current, AfterRate, AfterEvents
  <2>3. CumulativeBalance(head) = 0 /\ AmountAirdropped = 0
    BY NothingStaked
  <2> HIDE DEF c
  <2>4. JoinUserState(c, 0, 0).feesEarned = FeesAt(head)
    BY <2>2, FeesAdd DEF JoinUserState
  <2>5. ASSUME NEW user \in users'
        PROVE  user.asOf = head /\ user.state.feesEarned = FeesAt(head)
    BY <1>2, <2>3, <2>4 DEF Stake, c
  <2>6. FeesAt(head)' = FeesAt(head) /\ head \in 0..head' /\ head' = head
    BY <1>1 DEF FeesAt, chain, Sum, ValueOf, Events, BalanceOf, Net, IInv, LogOK
  <2>7. \A b \in 0..head : FeesAt(b)' = FeesAt(b)
    BY <1>1 DEF FeesAt, chain, Sum, ValueOf, Events, BalanceOf, Net
  <2> QED
    BY <2>5, <2>6, <2>7 DEF UsersOK
<1>3. CASE ~(c.began = head /\ c.kind = "user" /\ ~c.again)
  BY <1>3 DEF Stake, UsersOK
<1> QED
  BY <1>2, <1>3

LEMMA UsersStay ==
  ASSUME IInv, FInv, [Next]_vars, users' = users PROVE UsersOK'
<1>1. Grows /\ BlocksOK' /\ head \in Nat /\ head <= head' /\ head' \in Nat
  BY ChainSteps DEF FInv, IInv, LogOK, Grows
<1>2. \A b \in 0..head : FeesAt(b)' = FeesAt(b)
  BY <1>1, FeesStay DEF IInv, FInv
<1>3. ASSUME NEW user \in users, user.asOf # None
      PROVE  user.asOf \in 0..head' /\ user.state.feesEarned = FeesAt(user.asOf)'
  <2>1. user.asOf \in 0..head /\ user.state.feesEarned = FeesAt(user.asOf)
    BY <1>3 DEF FInv, UsersOK
  <2>2. FeesAt(user.asOf)' = FeesAt(user.asOf)
    BY <1>2, <2>1
  <2> QED
    BY <1>1, <2>1, <2>2
<1> QED
  BY <1>3 DEF UsersOK

LEMMA FeesStep ==
  ASSUME IInv, IInv', FInv, [Next]_vars, NoStaking, HasArchive PROVE FInv'
<1>1. BlocksOK' /\ PoolEventsOK' /\ \A r \in Slots : ReadOK(r)'
  BY ChainSteps, PoolEventSteps, ReadSteps DEF FInv
<1>2. UsersOK'
  <2>1. users' = users \/ \E s \in Slots : Stake(s)
    BY DEF Next, vars, Emit, MineBlock, Start, Proceed, LatestBlock, Rate, RateModel,
      ReadPoolEvents, ReadOutgoing, ReadIncoming, Balance, Fail, AddLiquidity, RemoveLiquidity,
      Submitted, Execute, Mined, memory
  <2> QED
    BY <2>1, UsersStay, StakeUsers
<1> QED
  BY <1>1, <1>2 DEF FInv

(* Of a user who did not stake, an update that no block was mined in and   *)
(* that read the transfers reports the fees earned (joinUserState and      *)
(* calculateLpTransferValue of src/pool/poolClient.ts): what the LP tokens *)
(* are worth, less what they were worth when they came and plus when they  *)
(* went.  So it does for any exchange rates, events, number of updates     *)
(* that overlap with it and transactions, and whatever these read, missed  *)
(* or left behind.                                                         *)
THEOREM FeesAreRight ==
  ASSUME NoStaking, HasArchive
  PROVE  Spec => []FeesRight
<1>1. FInv => FeesRight
  BY DEF FInv, UsersOK, FeesRight
<1>2. IInv /\ IInv' /\ FInv /\ [Next]_vars => FInv'
  BY FeesStep
<1> QED
  BY <1>1, <1>2, InitFees, InvariantHolds, PTL DEF Spec
=============================================================================
