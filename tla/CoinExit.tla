------------------------------- MODULE CoinExit -------------------------------
(***************************************************************************)
(* One coin between Upbit's account and Redis.  Two processes sell it:     *)
(* position_exit_runner polls the balances and reconciles the position     *)
(* with them, upbit_ws_exit_monitor reacts to each ticker with a position  *)
(* it cached up to 30 s ago; exit_lock stands between them.  The executor  *)
(* buys, the order watcher books what Upbit says was executed, and         *)
(* position_engine books the sales the runner infers.  The account may     *)
(* hold coins of its owner that claw never bought.  Coins share no key, so *)
(* one is enough.  A fill is booked in one step here, as in ExitSync.      *)
(***************************************************************************)
EXTENDS Integers, Sequences, FiniteSets, FiniteSetsExt

CONSTANTS
  Scenario,    \* the environments considered, one of which is drawn at Init
  MaxOrders    \* bound: orders placed in any of them

Weakness == {
  "partial",     \* Upbit fills an order in pieces
  "lock_expiry", \* a SELL is still open when exit_lock's 60 s are over
  "pending_expiry", \* a BUY is still open when buy_pending's 300 s are over
  "early_rebuy", \* a BUY so soon after a sale that something of it is left
  "slow_engine"} \* position_engine or the watcher is behind by the 60 s of
                 \* a removed position

(* What is given and never changes.                                        *)
Environment ==
  [own : Nat,                \* coins of the account's owner
   lot : Nat \ {0},          \* quantity of a BUY order
   buys : Nat,               \* bound: BUY orders
   crashes : Nat,            \* bound: kills, of any process
   outages : Nat,            \* bound: requests and SELLs that fail at Upbit
   monitor : BOOLEAN,        \* upbit_ws_exit_monitor is deployed
   weak : SUBSET Weakness]

ASSUME CoinConstants == MaxOrders \in Nat /\ Scenario \subseteq Environment

OrderId == 1..MaxOrders
Seller == {"runner", "monitor"}
Smaller(a, b) == IF a <= b THEN a ELSE b

VARIABLES
  env,        \* the environment of this behaviour
  held,       \* coins in the account
  locked,     \* coins of it that open SELLs have locked
  order,      \* Upbit's orders: side, unfilled and filled volume, state
  placed,     \* how many orders Upbit has taken
  inBuy,      \* order the executor has placed and not yet recorded; 0: none
  stat,       \* order:COIN:{id}; "none": no key
  pending,    \* claw:buy_pending:COIN:{symbol}
  posq,       \* position hash qty; 0: no key
  dying,      \* the position hash has the 60 s TTL of a removed position
  idx,        \* the symbol is in position_index:COIN
  gen,        \* which position it is (opened_ts): the count of openings
  due,        \* the last position that has been held for time_limit_max
  hwm,        \* claw:trail_hwm:COIN:{symbol}: the position its high is of
  hwmTs,      \* claw:trail_hwm_ts:COIN:{symbol}: the position at its time
  lock,       \* claw:exit_lock:COIN:{symbol}
  exitOrder,  \* claw:exit_order:COIN:{symbol}; 0: no key
  claimed,    \* claw:fill_dedupe:* keys
  queue,      \* claw:fill:queue, oldest first
  pc,         \* where each seller is
  qty,        \* quantity each seller sells, or books as sold
  sellId,     \* the SELL each has placed and not yet recorded
  seen,       \* balance the runner fetched
  fid,        \* id of the fill the runner pushes
  cache,      \* the position the monitor goes by; qty 0: none
  rested,     \* the runner cleaned up after the monitor forgot the last sale
  buys, crashes, outages,   \* BUYs, kills and failed requests so far
  booked,     \* trade ids of position_engine
  sold, bookSell,           \* history: quantity sold, and booked as sold
  unpriced    \* history: quantity booked as sold at the average price

upbit == <<held, locked, order, placed>>
position == <<posq, dying, idx, gen, due>>
high == <<hwm, hwmTs>>
guards == <<pending, lock, exitOrder>>
fills == <<claimed, queue>>
sellers == <<pc, qty, sellId>>
poll == <<seen, fid>>
budgets == <<buys, crashes, outages>>
books == <<booked, bookSell, unpriced>>
vars == <<env, upbit, inBuy, stat, position, high, guards, fills, sellers, poll,
          cache, rested, budgets, books, sold>>

Weak == env.weak

NoOrder == [side |-> "BUY", left |-> 0, done |-> 0, state |-> "none"]
NoFill == <<"none", 0>>
NoPosition == [qty |-> 0, gen |-> 0]

Init ==
  /\ env \in Scenario
  /\ held = env.own /\ locked = 0 /\ placed = 0 /\ inBuy = 0
  /\ order = [o \in OrderId |-> NoOrder]
  /\ stat = [o \in OrderId |-> "none"]
  /\ posq = 0 /\ dying = FALSE /\ idx = FALSE /\ gen = 0 /\ due = 0
  /\ hwm = 0 /\ hwmTs = 0
  /\ pending = FALSE /\ lock = FALSE /\ exitOrder = 0
  /\ claimed = {} /\ queue = <<>>
  /\ pc = [p \in Seller |-> "idle"]
  /\ qty = [p \in Seller |-> 0] /\ sellId = [p \in Seller |-> 0]
  /\ seen = 0 /\ fid = NoFill /\ cache = NoPosition /\ rested = TRUE
  /\ buys = 0 /\ crashes = 0 /\ outages = 0
  /\ booked = {} /\ bookSell = 0 /\ unpriced = 0 /\ sold = 0

-----------------------------------------------------------------------------
(* Upbit.                                                                  *)

OpenSells == {o \in 1..placed : order[o].side = "SELL" /\ order[o].state = "wait"}
Free == held - locked

(* Upbit takes an order; a SELL locks coins, so it must find them free.    *)
Take(side, n) ==
  /\ placed < MaxOrders
  /\ side = "SELL" => n <= Free
  /\ placed' = placed + 1
  /\ order' = [order EXCEPT ![placed + 1] =
                 [side |-> side, left |-> n, done |-> 0, state |-> "wait"]]
  /\ locked' = IF side = "SELL" THEN locked + n ELSE locked
  /\ UNCHANGED held

(* An execution, of the whole rest or of a part of it.                     *)
FillOrder(o) ==
  /\ order[o].state = "wait"
  /\ \E n \in IF "partial" \in Weak THEN 1..order[o].left ELSE {order[o].left} :
       /\ order' = [order EXCEPT ![o] =
            [side |-> order[o].side, left |-> order[o].left - n,
             done |-> order[o].done + n,
             state |-> IF n = order[o].left THEN "done" ELSE "wait"]]
       /\ IF order[o].side = "BUY"
          THEN held' = held + n /\ UNCHANGED <<locked, sold>>
          ELSE held' = held - n /\ locked' = locked - n /\ sold' = sold + n
  /\ UNCHANGED <<env, placed, inBuy, stat, position, high, guards, fills,
                 sellers, poll, cache, rested, budgets, books>>

(* A SELL it closes itself counts as a failed request.                     *)
CancelSell(o) ==
  /\ o \in OpenSells /\ outages < env.outages
  /\ order' = [order EXCEPT ![o].state = "cancel"]
  /\ locked' = locked - order[o].left
  /\ outages' = outages + 1
  /\ UNCHANGED <<env, held, placed, inBuy, stat, position, high, guards, fills,
                 sellers, poll, cache, rested, buys, crashes, books, sold>>

-----------------------------------------------------------------------------
(* The executor.                                                           *)

(* Mutant: a sale sets no symbol_cooldown.                                 *)
PlaceBuy_AtOnce ==
  /\ inBuy = 0 /\ posq = 0 /\ buys < env.buys
  /\ \A o \in 1..placed : order[o].side = "BUY" =>
       order[o].state # "wait" /\ stat[o] # "SUBMITTED"
  /\ Take("BUY", env.lot)
  /\ inBuy' = placed + 1 /\ buys' = buys + 1
  /\ rested' = FALSE
  /\ UNCHANGED <<env, stat, position, high, guards, fills, sellers, poll,
                 cache, crashes, outages, books, sold>>

(* execute_signal up to place_order.  Rule 1 refuses a symbol with a       *)
(* position.  symbol_cooldown (at least 30 min after a sale, 1 h after a   *)
(* cancel) outlasts the clean-up of what came before unless "early_rebuy". *)
PlaceBuy ==
  /\ inBuy = 0 /\ posq = 0 /\ buys < env.buys
  /\ "early_rebuy" \in Weak \/ rested
  /\ \A o \in 1..placed : order[o].side = "BUY" =>
       order[o].state # "wait" /\ stat[o] # "SUBMITTED"
  /\ Take("BUY", env.lot)
  /\ inBuy' = placed + 1 /\ buys' = buys + 1
  /\ rested' = FALSE
  /\ UNCHANGED <<env, stat, position, high, guards, fills, sellers, poll,
                 cache, crashes, outages, books, sold>>

(* execute_signal after place_order: buy_pending, the order key, its meta. *)
RecordBuy ==
  /\ inBuy # 0
  /\ stat' = [stat EXCEPT ![inBuy] = "SUBMITTED"]
  /\ pending' = TRUE /\ inBuy' = 0
  /\ UNCHANGED <<env, upbit, position, high, lock, exitOrder, fills, sellers,
                 poll, cache, rested, budgets, books, sold>>

(* Killed, or place_order raised, after Upbit took the order.              *)
LoseBuy ==
  /\ inBuy # 0 /\ crashes < env.crashes
  /\ inBuy' = 0 /\ crashes' = crashes + 1
  /\ UNCHANGED <<env, upbit, stat, position, high, guards, fills, sellers,
                 poll, cache, rested, buys, outages, books, sold>>

-----------------------------------------------------------------------------
(* position_engine and the watcher.                                        *)

(* Mutant: a SELL books its whole quantity.                                *)
Book_Unclamped(f) ==
  IF f.id \in booked \/ (f.side = "SELL" /\ posq = 0)
  THEN UNCHANGED <<position, high, books>>
  ELSE /\ booked' = booked \cup {f.id}
       /\ dying' = FALSE /\ UNCHANGED <<due, hwmTs>>
       /\ posq' = posq + (IF f.side = "BUY" THEN f.qty ELSE -f.qty)
       /\ idx' = (posq' # 0)
       /\ gen' = IF posq = 0 THEN gen + 1 ELSE gen
       /\ hwm' = IF posq = 0 THEN gen' ELSE hwm
       /\ bookSell' = bookSell + (IF f.side = "BUY" THEN 0 ELSE f.qty)
       /\ UNCHANGED unpriced

(* apply_fill: a known trade id changes nothing, a SELL books at most the  *)
(* position, and without a position it goes to the dead-letter list.  A    *)
(* new position starts with its average price for a high.                  *)
Book(f) ==
  IF f.id \in booked \/ (f.side = "SELL" /\ posq = 0)
  THEN UNCHANGED <<position, high, books>>
  ELSE /\ booked' = booked \cup {f.id}
       /\ dying' = FALSE /\ UNCHANGED <<due, hwmTs>>
       /\ IF f.side = "BUY"
          THEN /\ posq' = posq + f.qty /\ idx' = TRUE
               /\ IF posq = 0 THEN gen' = gen + 1 /\ hwm' = gen'
                  ELSE UNCHANGED <<gen, hwm>>
               /\ UNCHANGED <<bookSell, unpriced>>
          ELSE LET n == Smaller(f.qty, posq) IN
               /\ posq' = posq - n /\ idx' = (posq' > 0)
               /\ bookSell' = bookSell + n
               /\ unpriced' = IF f.priced THEN unpriced ELSE unpriced + n
               /\ UNCHANGED <<gen, hwm>>

(* position_engine takes the oldest fill.                                  *)
ApplyFill ==
  /\ queue # <<>>
  /\ queue' = Tail(queue)
  /\ Book(Head(queue))
  /\ UNCHANGED <<env, upbit, inBuy, stat, guards, claimed, sellers, poll,
                 cache, rested, budgets, sold>>

(* The watcher polls Upbit each second.  A done order is booked with the   *)
(* volume and the price Upbit executed, under coin_fill_{id} ...           *)
WatchDone(o) ==
  /\ stat[o] = "SUBMITTED" /\ order[o].state = "done"
  /\ Book([id |-> <<"order", o>>, side |-> order[o].side, qty |-> order[o].done,
           priced |-> TRUE])
  /\ stat' = [stat EXCEPT ![o] = "FILLED"]
  /\ UNCHANGED <<env, upbit, inBuy, guards, fills, sellers, poll, cache,
                 rested, budgets, sold>>

(* ... a cancelled one is only marked, and a BUY still open after 15 s is  *)
(* cancelled, whatever was executed of it.  A SELL is never cancelled.     *)
WatchCanceled(o) ==
  /\ stat[o] = "SUBMITTED"
  /\ \/ order[o].state = "cancel" /\ UNCHANGED order
     \/ /\ order[o].state = "wait" /\ order[o].side = "BUY"
        /\ order' = [order EXCEPT ![o].state = "cancel"]
  /\ stat' = [stat EXCEPT ![o] = "CANCELED"]
  /\ UNCHANGED <<env, held, locked, placed, inBuy, position, high, guards,
                 fills, sellers, poll, cache, rested, budgets, books, sold>>

-----------------------------------------------------------------------------
(* position_exit_runner: _sync_positions for COIN.                         *)

Goto(p, label) == pc' = [pc EXCEPT ![p] = label]

(* The account's balances, without what open orders have locked.           *)
Balances ==
  /\ pc["runner"] = "idle"
  /\ seen' = Free
  /\ Goto("runner", "index")
  /\ UNCHANGED <<env, upbit, inBuy, stat, position, high, guards, fills, qty,
                 sellId, fid, cache, rested, budgets, books, sold>>

(* The request fails: the poll goes on with the cached position.           *)
BalancesFail ==
  /\ pc["runner"] = "idle" /\ outages < env.outages
  /\ outages' = outages + 1
  /\ qty' = [qty EXCEPT !["runner"] = posq]
  /\ Goto("runner", IF idx /\ posq > 0 THEN "evaluate" ELSE "idle")
  /\ UNCHANGED <<env, upbit, inBuy, stat, position, high, guards, fills,
                 sellId, poll, cache, rested, buys, crashes, books, sold>>

(* SMEMBERS of the index.  A coin outside it is not claw's: no BUY is      *)
(* discovered, nothing is written.                                         *)
ReadIndex ==
  /\ pc["runner"] = "index"
  /\ Goto("runner", IF ~idx THEN "idle" ELSE IF seen > 0 THEN "write" ELSE "missing")
  /\ UNCHANGED <<env, upbit, inBuy, stat, position, high, guards, fills, qty,
                 sellId, poll, cache, rested, budgets, books, sold>>

(* HSET of the position from the balance, EXPIRE 7 d, SADD of the index.   *)
WriteHolding ==
  /\ pc["runner"] = "write"
  /\ posq' = seen /\ dying' = FALSE /\ idx' = TRUE
  /\ qty' = [qty EXCEPT !["runner"] = seen]
  /\ Goto("runner", "evaluate")
  /\ UNCHANGED <<env, upbit, inBuy, stat, gen, due, high, guards, fills,
                 sellId, poll, cache, rested, budgets, books, sold>>

(* Mutant: buy_pending is not looked at.                                   *)
Missing_AnyTime ==
  /\ pc["runner"] = "missing"
  /\ qty' = [qty EXCEPT !["runner"] = posq]
  /\ fid' = IF exitOrder # 0 THEN <<"order", exitOrder>> ELSE <<"sold", 0>>
  /\ IF posq > 0 /\ fid' \notin claimed
     THEN claimed' = claimed \cup {fid'} /\ Goto("runner", "push")
     ELSE Goto("runner", "remove") /\ UNCHANGED claimed
  /\ UNCHANGED <<env, upbit, inBuy, stat, position, high, guards, queue,
                 sellId, seen, cache, rested, budgets, books, sold>>

(* An indexed coin that is not held: skipped while a BUY is pending, else  *)
(* sold, by the exit order or by an order nobody knows (an id made of      *)
(* symbol and date): SET NX of the sale's fill_dedupe key ...              *)
Missing ==
  /\ pc["runner"] = "missing"
  /\ IF pending
     THEN Goto("runner", "idle") /\ UNCHANGED <<qty, fid, claimed>>
     ELSE /\ qty' = [qty EXCEPT !["runner"] = posq]
          /\ fid' = IF exitOrder # 0 THEN <<"order", exitOrder>> ELSE <<"sold", 0>>
          /\ IF posq > 0 /\ fid' \notin claimed
             THEN claimed' = claimed \cup {fid'} /\ Goto("runner", "push")
             ELSE Goto("runner", "remove") /\ UNCHANGED claimed
  /\ UNCHANGED <<env, upbit, inBuy, stat, position, high, guards, queue,
                 sellId, seen, cache, rested, budgets, books, sold>>

(* ... LPUSH of the SELL, at the order's price or at the average price ... *)
PushSale ==
  /\ pc["runner"] = "push"
  /\ queue' = Append(queue, [id |-> fid, side |-> "SELL", qty |-> qty["runner"],
                             priced |-> fid[1] = "order"])
  /\ Goto("runner", "remove")
  /\ UNCHANGED <<env, upbit, inBuy, stat, position, high, guards, claimed, qty,
                 sellId, poll, cache, rested, budgets, books, sold>>

(* ... and the pipeline: EXPIRE 60 of the hash, SREM of the index, DEL of  *)
(* trail_hwm, exit_order and exit_lock.                                    *)
RemovePosition ==
  /\ pc["runner"] = "remove"
  /\ dying' = (posq > 0)
  /\ idx' = FALSE /\ hwm' = 0 /\ exitOrder' = 0 /\ lock' = FALSE
  /\ Goto("runner", "idle")
  /\ UNCHANGED <<env, hwmTs, upbit, inBuy, stat, posq, gen, due, pending,
                 fills, qty, sellId, poll, cache, rested, budgets, books,
                 sold>>

(* The last position is sold and booked, and the monitor has forgotten it. *)
AllGone ==
  /\ ~idx /\ posq = 0 /\ inBuy = 0 /\ queue = <<>>
  /\ cache = NoPosition /\ pc["monitor"] = "idle"
  /\ \A o \in 1..placed : order[o].state # "wait" /\ stat[o] # "SUBMITTED"

(* trail_hwm and trail_hwm_ts of a coin outside the index go.              *)
DropHigh ==
  /\ hwm' = IF idx THEN hwm ELSE 0
  /\ hwmTs' = IF idx \/ hwm = 0 THEN hwmTs ELSE 0

(* Once a minute: DEL of the trail_hwm of a coin outside the index.        *)
OrphanScan ==
  /\ pc["runner"] = "idle"
  /\ rested' = AllGone
  /\ DropHigh
  /\ UNCHANGED <<env, upbit, inBuy, stat, position, guards, fills, sellers,
                 poll, cache, budgets, books, sold>>

-----------------------------------------------------------------------------
(* What the two sellers have in common: the high, exit_lock, _place_sell.  *)

(* trail_hwm becomes the higher of itself and the price.  The runner takes *)
(* one from before opened_ts for none.                                     *)
RaiseHigh(g, none) == hwm' \in IF none THEN {g} ELSE {hwm, g}
StaleHigh == hwmTs \notin {0, gen}

(* The SELL that exit_lock stands for was CANCELED.                        *)
Retry == exitOrder # 0 /\ stat[exitOrder] = "CANCELED"

(* The price decides on an exit; time_limit_max decides at any price.      *)
ExitNow(p, g) ==
  \E exit \in BOOLEAN : /\ due >= g => exit
                        /\ Goto(p, IF exit THEN "lock" ELSE "idle")

(* A lock that is held stops a seller, unless it may sell again: DEL.      *)
PassLock(p, next) ==
  IF lock /\ ~Retry THEN Goto(p, "idle") /\ UNCHANGED lock
  ELSE lock' = FALSE /\ next

(* The runner looks at the lock ...                                        *)
Evaluate ==
  /\ pc["runner"] = "evaluate"
  /\ PassLock("runner", Goto("runner", "raise"))
  /\ UNCHANGED <<env, upbit, inBuy, stat, position, high, pending, exitOrder,
                 fills, qty, sellId, poll, cache, rested, budgets, books, sold>>

(* ... and then raises the high.                                           *)
Raise ==
  /\ pc["runner"] = "raise"
  /\ RaiseHigh(gen, hwm = 0 \/ StaleHigh) /\ hwmTs' = gen
  /\ ExitNow("runner", gen)
  /\ UNCHANGED <<env, upbit, inBuy, stat, position, guards, fills, qty, sellId,
                 poll, cache, rested, budgets, books, sold>>

(* The monitor: each 30 s it reads the positions ...                       *)
Scan ==
  /\ env.monitor /\ pc["monitor"] = "idle"
  /\ cache' = IF idx /\ posq > 0 THEN [qty |-> posq, gen |-> gen] ELSE NoPosition
  /\ UNCHANGED <<env, upbit, inBuy, stat, position, high, guards, fills,
                 sellers, poll, rested, budgets, books, sold>>

(* ... a ticker raises the high ...                                        *)
Ticker ==
  /\ pc["monitor"] = "idle" /\ cache # NoPosition
  /\ RaiseHigh(cache.gen, hwm = 0) /\ UNCHANGED hwmTs
  /\ qty' = [qty EXCEPT !["monitor"] = cache.qty]
  /\ Goto("monitor", "look")
  /\ UNCHANGED <<env, upbit, inBuy, stat, position, guards, fills, sellId,
                 poll, cache, rested, budgets, books, sold>>

(* ... and only then is the lock looked at.                                *)
Look ==
  /\ pc["monitor"] = "look"
  /\ PassLock("monitor", ExitNow("monitor", cache.gen))
  /\ UNCHANGED <<env, upbit, inBuy, stat, position, high, pending, exitOrder,
                 fills, qty, sellId, poll, cache, rested, budgets, books, sold>>

(* SET exit_lock NX EX 60.                                                 *)
TakeLock(p) ==
  /\ pc[p] = "lock"
  /\ lock' = TRUE
  /\ Goto(p, IF lock THEN "idle" ELSE "place")
  /\ UNCHANGED <<env, upbit, inBuy, stat, position, high, pending, exitOrder,
                 fills, qty, sellId, poll, cache, rested, budgets, books,
                 sold>>

(* Mutant: a refused order leaves the lock to its TTL and the poll ends    *)
(* before the order is placed.                                             *)
PlaceSell_Never(p) ==
  /\ pc[p] = "place"
  /\ Goto(p, "idle") /\ lock' = FALSE
  /\ UNCHANGED <<env, upbit, inBuy, stat, position, high, pending, exitOrder,
                 fills, qty, sellId, poll, cache, rested, budgets, books,
                 sold>>

(* The market SELL.  When Upbit refuses it, or place_order raises although *)
(* Upbit took it, the lock goes.                                           *)
PlaceSell(p) ==
  /\ pc[p] = "place"
  /\ \/ /\ Take("SELL", qty[p])
        /\ Goto(p, "record") /\ sellId' = [sellId EXCEPT ![p] = placed']
        /\ UNCHANGED <<lock, outages>>
     \/ /\ outages < env.outages /\ outages' = outages + 1
        /\ Take("SELL", qty[p]) \/ UNCHANGED upbit
        /\ Goto(p, "idle") /\ lock' = FALSE /\ UNCHANGED sellId
     \/ /\ qty[p] > Free
        /\ Goto(p, "idle") /\ lock' = FALSE
        /\ UNCHANGED <<upbit, sellId, outages>>
  /\ UNCHANGED <<env, inBuy, stat, position, high, pending, exitOrder, fills,
                 qty, poll, cache, rested, buys, crashes, books, sold>>

(* Mutant: exit_order is not set.                                          *)
RecordSell_NoExitOrder(p) ==
  /\ pc[p] = "record"
  /\ stat' = [stat EXCEPT ![sellId[p]] = "SUBMITTED"]
  /\ Goto(p, IF p = "monitor" THEN "clean" ELSE "idle")
  /\ sellId' = [sellId EXCEPT ![p] = 0]
  /\ UNCHANGED <<env, upbit, inBuy, position, high, guards, fills, qty, poll,
                 cache, rested, budgets, books, sold>>

(* The order key, its meta and exit_order.                                 *)
RecordSell(p) ==
  /\ pc[p] = "record"
  /\ stat' = [stat EXCEPT ![sellId[p]] = "SUBMITTED"]
  /\ exitOrder' = sellId[p]
  /\ Goto(p, IF p = "monitor" THEN "clean" ELSE "idle")
  /\ sellId' = [sellId EXCEPT ![p] = 0]
  /\ UNCHANGED <<env, upbit, inBuy, position, high, pending, lock, fills, qty,
                 poll, cache, rested, budgets, books, sold>>

(* The monitor deletes trail_hwm and exit_order right after its sale.      *)
CleanUp ==
  /\ pc["monitor"] = "clean"
  /\ hwm' = 0 /\ exitOrder' = 0
  /\ Goto("monitor", "idle")
  /\ UNCHANGED <<env, hwmTs, upbit, inBuy, stat, position, pending, lock,
                 fills, qty, sellId, poll, cache, rested, budgets, books,
                 sold>>

(* SIGKILL and restart of a seller: _startup_cleanup drops the keys of     *)
(* coins outside the index.                                                *)
CrashSeller(p) ==
  /\ pc[p] # "idle" /\ crashes < env.crashes
  /\ crashes' = crashes + 1
  /\ Goto(p, "idle") /\ sellId' = [sellId EXCEPT ![p] = 0]
  /\ cache' = IF p = "monitor" THEN NoPosition ELSE cache
  /\ lock' = (lock /\ idx)
  /\ hwm' = IF idx THEN hwm ELSE 0
  /\ hwmTs' = IF idx \/ p = "monitor" THEN hwmTs ELSE 0
  /\ exitOrder' = IF idx THEN exitOrder ELSE 0
  /\ UNCHANGED <<env, upbit, inBuy, stat, position, pending, fills, qty, poll,
                 rested, buys, outages, books, sold>>

-----------------------------------------------------------------------------
(* Time.                                                                   *)

(* 60 s cover place_order; without the weakness of their name, exit_lock   *)
(* and buy_pending outlive their order and the poll under way.             *)
LockExpires ==
  /\ lock /\ \A p \in Seller : pc[p] \notin {"place", "record"}
  /\ "lock_expiry" \in Weak \/ (OpenSells = {} /\ pc["runner"] = "idle")
  /\ lock' = FALSE
  /\ UNCHANGED <<env, upbit, inBuy, stat, position, high, pending, exitOrder,
                 fills, sellers, poll, cache, rested, budgets, books, sold>>

OpenBuys == {o \in 1..placed : order[o].side = "BUY" /\ stat[o] = "SUBMITTED"}

PendingExpires ==
  /\ pending
  /\ "pending_expiry" \in Weak \/ (OpenBuys = {} /\ pc["runner"] = "idle")
  /\ pending' = FALSE
  /\ UNCHANGED <<env, upbit, inBuy, stat, position, high, lock, exitOrder,
                 fills, sellers, poll, cache, rested, budgets, books, sold>>

(* position_engine and the watcher have handled all there was.             *)
KeptUp ==
  queue = <<>> /\ \A o \in 1..placed : stat[o] = "SUBMITTED" => order[o].state = "wait"

HashExpires ==
  /\ dying /\ ("slow_engine" \in Weak \/ KeptUp)
  /\ posq' = 0 /\ dying' = FALSE
  /\ UNCHANGED <<env, upbit, inBuy, stat, idx, gen, due, high, guards, fills,
                 sellers, poll, cache, rested, budgets, books, sold>>

(* The position has been held for time_limit_max.                          *)
TimeUp ==
  /\ idx /\ due < gen
  /\ due' = gen
  /\ UNCHANGED <<env, upbit, inBuy, stat, posq, dying, idx, gen, high, guards,
                 fills, sellers, poll, cache, rested, budgets, books, sold>>

Sync == Balances \/ ReadIndex \/ WriteHolding \/ Missing \/ PushSale \/ RemovePosition
SellSteps(p) == TakeLock(p) \/ PlaceSell(p) \/ RecordSell(p)
RunnerSteps == Sync \/ Evaluate \/ Raise \/ SellSteps("runner")
MonitorGoesOn == Look \/ SellSteps("monitor") \/ CleanUp
MonitorSteps == Ticker \/ MonitorGoesOn
Watch == \E o \in OrderId : WatchDone(o) \/ WatchCanceled(o)

Next ==
  \/ \E o \in OrderId : FillOrder(o) \/ CancelSell(o)
  \/ PlaceBuy \/ RecordBuy \/ LoseBuy
  \/ ApplyFill \/ Watch
  \/ RunnerSteps \/ BalancesFail \/ OrphanScan
  \/ Scan \/ MonitorSteps
  \/ \E p \in Seller : CrashSeller(p)
  \/ LockExpires \/ PendingExpires \/ HashExpires \/ TimeUp

Spec == Init /\ [][Next]_vars

(* The processes run, time passes and Upbit executes market SELLs at once; *)
(* between two tickers the monitor gets to its scan.  Nothing obliges the  *)
(* strategy to buy or the price to reach an exit.                          *)
SellsFill == \E o \in OpenSells : FillOrder(o)

Fairness ==
  /\ WF_vars(RunnerSteps) /\ WF_vars(MonitorGoesOn)
  /\ WF_vars(ApplyFill) /\ WF_vars(Watch) /\ WF_vars(RecordBuy)
  /\ WF_vars(SellsFill) /\ WF_vars(TimeUp)
  /\ SF_vars(LockExpires) /\ SF_vars(PendingExpires)
  /\ SF_vars(Scan /\ cache' # cache)
FairSpec == Spec /\ Fairness

-----------------------------------------------------------------------------
(* Properties.                                                             *)

FillIds == {NoFill, <<"sold", 0>>} \cup ({"order"} \X Nat)
Fills == [id : FillIds, side : {"SELL"}, qty : Nat, priced : BOOLEAN]

(* Type invariant; the account is never overdrawn.                         *)
TypeOK ==
  /\ env \in Environment
  /\ held \in Nat /\ locked \in 0..held /\ placed \in 0..MaxOrders
  /\ order \in [OrderId -> [side : {"BUY", "SELL"}, left : Nat, done : Nat,
                            state : {"none", "wait", "done", "cancel"}]]
  /\ inBuy \in 0..placed /\ exitOrder \in 0..placed
  /\ sellId \in [Seller -> 0..placed]
  /\ stat \in [OrderId -> {"none", "SUBMITTED", "FILLED", "CANCELED"}]
  /\ {pending, dying, idx, lock, rested} \subseteq BOOLEAN
  /\ {posq, seen, hwm, hwmTs, gen, due, buys, crashes, outages} \subseteq Nat
  /\ qty \in [Seller -> Nat] /\ cache \in [qty : Nat, gen : 0..gen]
  /\ claimed \subseteq FillIds /\ booked \subseteq FillIds /\ fid \in FillIds
  /\ queue \in Seq(Fills)
  /\ pc \in [Seller -> {"idle", "index", "write", "missing", "push", "remove",
                        "evaluate", "raise", "look", "lock", "place", "record",
                        "clean"}]
  /\ {sold, bookSell, unpriced} \subseteq Nat

(* Nothing is under way.                                                   *)
Quiet ==
  /\ inBuy = 0 /\ queue = <<>> /\ \A p \in Seller : pc[p] = "idle"
  /\ \A o \in 1..placed : order[o].state # "wait" /\ stat[o] # "SUBMITTED"

(* Every coin claw bought is watched until it is sold: what the account    *)
(* holds is an indexed position.  It is promised where BUYs fill at once   *)
(* and the owner has none of the coin: a BUY cancelled after a part of it  *)
(* was executed is never booked, and a balance read before all of it was   *)
(* executed shrinks the position to what there was.  A SELL Upbit closes   *)
(* after the balances were read gives the coins back to a position the     *)
(* poll removes.                                                           *)
BoughtIsWatched ==
  (/\ Quiet /\ env.own = 0 /\ env.crashes = 0 /\ env.outages = 0
   /\ Weak \cap {"partial", "pending_expiry", "early_rebuy"} = {})
    => (held > 0 => idx)

(* Where a BUY comes before the last sale is polled and booked, the poll   *)
(* takes its coins for unsold ones, and that sale closes its position.     *)
SalesExact ==
  /\ ~env.monitor /\ env.outages = 0
  /\ Weak \cap {"pending_expiry", "early_rebuy"} = {}

(* The watcher books a sale from Upbit's answer, the runner from the       *)
(* balance: together they book no more than the SELL orders sold or have   *)
(* still locked.                                                           *)
SalesBookedOnce == SalesExact => bookSell <= sold + locked

(* A sale is booked at a price of its own order, not at the average price, *)
(* which would hide its loss from the killswitch.                          *)
SalesPriced == (SalesExact /\ env.crashes = 0) => unpriced = 0

(* A new position never starts with the high of an earlier one: a trailing *)
(* stop below that high would sell it at once.                             *)
FreshHigh == "early_rebuy" \notin Weak /\ idx => hwm \in {0, gen}

(* Every position ends, at the latest through time_limit_max, whatever     *)
(* locks, stale caches and failures come between.                          *)
PositionEnds == idx ~> ~idx
=============================================================================
