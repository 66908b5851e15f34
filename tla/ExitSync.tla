------------------------------- MODULE ExitSync -------------------------------
(***************************************************************************)
(* One symbol of a stock market (KR through KIS, US through IBKR) between  *)
(* the broker's account and Redis: the executor buys, position_exit_runner *)
(* polls the holdings, copies them to position:{market}:{symbol}, turns    *)
(* what appeared or vanished into fills and sells under exit_lock, the     *)
(* order watcher closes order keys, and position_engine books the fills.   *)
(* Symbols share no key, so one of them is enough.  A fill is booked in    *)
(* one step here; FillLedger takes that step apart.                        *)
(***************************************************************************)
EXTENDS Integers, Sequences, FiniteSets, FiniteSetsExt

CONSTANTS
  Scenario,    \* the environments considered, one of which is drawn at Init
  MaxOrders    \* bound: orders placed in any of them

Weakness == {
  "partial",     \* the broker fills an order in pieces
  "lag",         \* the holdings request may still show the state before a fill
  "lock_expiry", \* a SELL is still open when exit_lock's 60 s are over
  "pending_expiry", \* a BUY is still open when buy_pending's 300 s are over
  "two_buys",    \* a second BUY is placed while one is open
  "lost_reply",  \* place_order raises although the broker took the order
  "slow_engine", \* position_engine or the watcher is behind by a poll (30 s)
  "sell_cancel"} \* the broker closes a SELL that is not filled

(* What is given and never changes: the market and its sizing, and what    *)
(* may go wrong.                                                           *)
Environment ==
  [market : {"KR", "US"},
   lot : Nat \ {0},          \* quantity of a BUY order
   orders : 0..MaxOrders,    \* bound: orders placed
   crashes : Nat,            \* bound: kills of the runner or of the exit runner
   outages : Nat,            \* bound: polls whose holdings request fails
   weak : SUBSET Weakness]

ASSUME SyncConstants == MaxOrders \in Nat /\ Scenario \subseteq Environment

OrderId == 1..MaxOrders
Smaller(a, b) == IF a <= b THEN a ELSE b

VARIABLES
  env,        \* the environment of this behaviour
  held,       \* quantity in the broker's account (negative: sold short)
  listed,     \* quantity the holdings request shows
  order,      \* the broker's orders: side, unfilled and filled quantity, open
  placed,     \* how many orders the broker has taken
  inBuy,      \* order the executor has placed and not yet recorded; 0: none
  stat,       \* order:{market}:{id}; "none": no key
  pending,    \* claw:buy_pending:{market}:{symbol}
  posq,       \* position hash qty; 0: no key
  dying,      \* the position hash has the 60 s TTL of a removed position
  idx,        \* the symbol is in position_index:{market}
  lock,       \* claw:exit_lock:{market}:{symbol}
  exitOrder,  \* claw:exit_order:{market}:{symbol}; 0: no key
  claimed,    \* claw:fill_dedupe:* keys of _push_fill_event
  queue,      \* claw:fill:queue, oldest first
  pc,         \* where the exit runner is in its poll
  seen,       \* quantity in the holdings it fetched
  qty,        \* quantity it sells, or books as sold
  fid,        \* id of the fill it pushes
  sellId,     \* the SELL it has placed and not yet recorded
  found,      \* how many BUYs it discovered (the time stamps in their ids)
  failures,   \* _ibkr_fallback_count
  outages,    \* failed polls so far
  crashes,    \* kills so far
  booked,     \* trade ids of position_engine
  bought, sold,      \* history: quantity the broker bought and sold
  bookBuy, bookSell  \* history: quantity booked as bought and as sold

broker == <<held, listed, order, placed>>
position == <<posq, dying, idx>>
guards == <<pending, lock, exitOrder>>
fills == <<claimed, queue>>
poll == <<pc, seen, qty, fid, sellId, found, failures, outages>>
books == <<booked, bookBuy, bookSell>>
trade == <<bought, sold>>
vars == <<env, broker, inBuy, stat, position, guards, fills, poll, crashes, books,
          trade>>

Market == env.market
Weak == env.weak

NoOrder == [side |-> "BUY", left |-> 0, done |-> 0, open |-> FALSE]
NoFill == <<"none", 0>>

Init ==
  /\ env \in Scenario
  /\ held = 0 /\ listed = 0 /\ placed = 0 /\ inBuy = 0
  /\ order = [o \in OrderId |-> NoOrder]
  /\ stat = [o \in OrderId |-> "none"]
  /\ posq = 0 /\ dying = FALSE /\ idx = FALSE
  /\ pending = FALSE /\ lock = FALSE /\ exitOrder = 0
  /\ claimed = {} /\ queue = <<>>
  /\ pc = "idle" /\ seen = 0 /\ qty = 0 /\ fid = NoFill /\ sellId = 0
  /\ found = 0 /\ failures = 0 /\ outages = 0 /\ crashes = 0
  /\ booked = {} /\ bookBuy = 0 /\ bookSell = 0 /\ bought = 0 /\ sold = 0

-----------------------------------------------------------------------------
(* The broker.                                                             *)

(* KIS refuses a SELL beyond what is held and not promised to an open SELL *)
(* already; IBKR sells short.                                              *)
OpenSells == {o \in 1..placed : order[o].side = "SELL" /\ order[o].open}
Promised == MapThenSumSet(LAMBDA o : order[o].left, OpenSells)
Orderable(n) == Market = "KR" => n <= held /\ n + Promised <= held

Take(side, n) ==
  /\ placed < env.orders
  /\ placed' = placed + 1
  /\ order' = [order EXCEPT ![placed + 1] =
                 [side |-> side, left |-> n, done |-> 0, open |-> TRUE]]
  /\ UNCHANGED <<held, listed>>

(* An execution, of the whole rest or of a part of it.                     *)
FillOrder(o) ==
  /\ order[o].open
  /\ \E n \in IF "partial" \in Weak THEN 1..order[o].left ELSE {order[o].left} :
       /\ order' = [order EXCEPT ![o] =
                      [side |-> @.side, left |-> @.left - n, done |-> @.done + n,
                       open |-> n < @.left]]
       /\ held' = IF order[o].side = "BUY" THEN held + n ELSE held - n
       /\ IF order[o].side = "BUY"
          THEN bought' = bought + n /\ UNCHANGED sold
          ELSE sold' = sold + n /\ UNCHANGED bought
  /\ listed' = IF "lag" \in Weak THEN listed ELSE held'
  /\ UNCHANGED <<env, placed, inBuy, stat, position, guards, fills, poll,
                 crashes, books>>

(* The holdings request catches up.                                        *)
Settle ==
  /\ listed # held /\ listed' = held
  /\ UNCHANGED <<env, held, order, placed, inBuy, stat, position, guards,
                 fills, poll, crashes, books, trade>>

(* A day order the broker did not fill ends; so may a SELL.                *)
EndOrder(o) ==
  /\ order[o].open
  /\ order[o].side = "SELL" => "sell_cancel" \in Weak
  /\ order' = [order EXCEPT ![o].open = FALSE]
  /\ UNCHANGED <<env, held, listed, placed, inBuy, stat, position, guards,
                 fills, poll, crashes, books, trade>>

-----------------------------------------------------------------------------
(* The executor.                                                           *)

(* execute_signal up to place_order; rule 1 refuses a held symbol.  The    *)
(* strategy's cooldown outlasts a BUY order unless "two_buys".             *)
OpenBuys == {o \in 1..placed : order[o].side = "BUY" /\ order[o].open}

PlaceBuy ==
  /\ inBuy = 0 /\ posq = 0
  /\ "two_buys" \in Weak \/ (OpenBuys = {} /\ held = 0 /\ listed = 0)
  /\ Take("BUY", env.lot)
  /\ inBuy' = placed + 1
  /\ UNCHANGED <<env, stat, position, guards, fills, poll, crashes, books,
                 trade>>

(* execute_signal after place_order: buy_pending, the order key and meta   *)
(* and, when IBKR had answered Filled, the fill with its execution id.     *)
RecordBuy ==
  /\ inBuy # 0
  /\ \E filled \in BOOLEAN :
       /\ filled => Market = "US" /\ order[inBuy].left = 0
       /\ stat' = [stat EXCEPT ![inBuy] = IF filled THEN "FILLED" ELSE "SUBMITTED"]
       /\ queue' = IF filled
                   THEN Append(queue, [id |-> <<"exec", inBuy>>, side |-> "BUY",
                                       qty |-> order[inBuy].done])
                   ELSE queue
  /\ pending' = TRUE /\ inBuy' = 0
  /\ UNCHANGED <<env, broker, position, lock, exitOrder, claimed, poll,
                 crashes, books, trade>>

CrashExecutor ==
  /\ inBuy # 0 /\ crashes < env.crashes
  /\ inBuy' = 0 /\ crashes' = crashes + 1
  /\ UNCHANGED <<env, broker, stat, position, guards, fills, poll, books,
                 trade>>

-----------------------------------------------------------------------------
(* position_engine, and the watcher where it books by itself.              *)

(* Mutant: a SELL books its whole quantity.                                *)
Book_Unclamped(f) ==
  IF f.id \in booked \/ (f.side = "SELL" /\ posq = 0)
  THEN UNCHANGED <<position, books>>
  ELSE /\ booked' = booked \cup {f.id}
       /\ dying' = FALSE
       /\ posq' = posq + (IF f.side = "BUY" THEN f.qty ELSE -f.qty)
       /\ idx' = (posq' # 0)
       /\ bookBuy' = bookBuy + (IF f.side = "BUY" THEN f.qty ELSE 0)
       /\ bookSell' = bookSell + (IF f.side = "SELL" THEN f.qty ELSE 0)

(* apply_fill: a known trade id changes nothing, a SELL books at most the  *)
(* position, and without a position it goes to the dead-letter list.       *)
Book(f) ==
  IF f.id \in booked \/ (f.side = "SELL" /\ posq = 0)
  THEN UNCHANGED <<position, books>>
  ELSE /\ booked' = booked \cup {f.id}
       /\ dying' = FALSE
       /\ IF f.side = "BUY"
          THEN /\ posq' = posq + f.qty /\ idx' = TRUE
               /\ bookBuy' = bookBuy + f.qty /\ UNCHANGED bookSell
          ELSE /\ posq' = posq - Smaller(f.qty, posq) /\ idx' = (posq' > 0)
               /\ bookSell' = bookSell + Smaller(f.qty, posq)
               /\ UNCHANGED bookBuy

(* position_engine takes the oldest fill.                                  *)
ApplyFill ==
  /\ queue # <<>>
  /\ queue' = Tail(queue)
  /\ Book(Head(queue))
  /\ UNCHANGED <<env, broker, inBuy, stat, guards, claimed, poll, crashes,
                 trade>>

(* _kr_has_later_sell_meta *)
LaterSell(o) ==
  \E p \in o + 1..MaxOrders : stat[p] # "none" /\ order[p].side = "SELL"

(* The watcher's poll of a SUBMITTED order.  KR: it never asks KIS but     *)
(* infers the outcome from the position, and cancels a BUY that got old.   *)
(* US: IBKR's status decides, and a FILLED order is booked; cancel_order   *)
(* knows only orders its own process placed, so a BUY is never cancelled.  *)
WatchKR(o) ==
  /\ Market = "KR" /\ stat[o] = "SUBMITTED"
  /\ \/ /\ \/ order[o].side = "SELL" /\ posq = 0
           \/ order[o].side = "BUY" /\ posq > 0
           \/ order[o].side = "BUY" /\ LaterSell(o)
        /\ stat' = [stat EXCEPT ![o] = "FILLED"]
        /\ UNCHANGED order
     \/ /\ order[o].side = "BUY" /\ posq = 0 /\ ~LaterSell(o) /\ order[o].open
        /\ order' = [order EXCEPT ![o].open = FALSE]
        /\ stat' = [stat EXCEPT ![o] = "CANCELED"]
  /\ UNCHANGED <<env, held, listed, placed, inBuy, position, guards, fills,
                 poll, crashes, books, trade>>

WatchUS(o) ==
  /\ Market = "US" /\ stat[o] = "SUBMITTED" /\ ~order[o].open
  /\ IF order[o].left = 0
     THEN /\ stat' = [stat EXCEPT ![o] = "FILLED"]
          /\ Book([id |-> <<"exec", o>>, side |-> order[o].side,
                   qty |-> order[o].done])
     ELSE /\ stat' = [stat EXCEPT ![o] = "CANCELED"]
          /\ UNCHANGED <<position, books>>
  /\ UNCHANGED <<env, broker, inBuy, guards, fills, poll, crashes, trade>>

-----------------------------------------------------------------------------
(* position_exit_runner: _sync_positions.                                  *)

Goto(label) == pc' = label

(* position_engine and the watcher have handled all there was.             *)
KeptUp ==
  /\ queue = <<>>
  /\ Market = "US" =>
       \A o \in OrderId : stat[o] = "SUBMITTED" => order[o].open

(* _fetch_holdings: IBKR and KIS report only positive quantities.          *)
Fetch ==
  /\ pc = "idle"
  /\ "slow_engine" \in Weak \/ KeptUp
  /\ seen' = IF listed > 0 THEN listed ELSE 0
  /\ failures' = 0
  /\ Goto("index")
  /\ UNCHANGED <<env, broker, inBuy, stat, position, guards, fills, qty, fid,
                 sellId, found, outages, crashes, books, trade>>

(* SMEMBERS of the index, once the holdings are there.                     *)
ReadIndex ==
  /\ pc = "index"
  /\ Goto(IF seen > 0 THEN (IF idx THEN "write" ELSE "discover")
          ELSE IF idx THEN "missing" ELSE "idle")
  /\ UNCHANGED <<env, broker, inBuy, stat, position, guards, fills, seen, qty,
                 fid, sellId, found, failures, outages, crashes, books, trade>>

(* The holdings request fails: the poll goes on with the cached position,  *)
(* for US at most twice in a row.                                          *)
FetchFails ==
  /\ pc = "idle" /\ outages < env.outages
  /\ outages' = outages + 1
  /\ failures' = IF Market = "US" THEN Smaller(failures + 1, 3) ELSE failures
  /\ qty' = posq
  /\ Goto(IF idx /\ posq > 0 /\ failures' < 3 THEN "evaluate" ELSE "idle")
  /\ UNCHANGED <<env, broker, inBuy, stat, position, guards, fills, seen, fid,
                 sellId, found, crashes, books, trade>>

(* A holding that is not in the index: unless the hash already tracks it,  *)
(* a BUY fill with a fresh id is pushed.                                   *)
Discover ==
  /\ pc = "discover"
  /\ IF posq > 0 THEN UNCHANGED <<claimed, queue, sellId, found>>
     ELSE /\ found' = found + 1
          /\ claimed' = claimed \cup {<<"bought", found'>>}
          /\ queue' = Append(queue, [id |-> <<"bought", found'>>, side |-> "BUY",
                                     qty |-> seen])
  /\ Goto("write")
  /\ UNCHANGED <<env, broker, inBuy, stat, position, guards, seen, qty, fid,
                 sellId, failures, outages, crashes, books, trade>>

(* HSET of the position from the holdings ...                              *)
WriteHolding ==
  /\ pc = "write"
  /\ posq' = seen
  /\ Goto("add")
  /\ UNCHANGED <<env, broker, inBuy, stat, dying, idx, guards, fills, seen, qty,
                 fid, sellId, found, failures, outages, crashes, books, trade>>

(* Mutant: EXPIRE is not renewed.                                          *)
AddIndex_KeepTTL ==
  /\ pc = "add"
  /\ idx' = TRUE
  /\ qty' = seen
  /\ Goto("evaluate")
  /\ UNCHANGED <<env, broker, inBuy, stat, posq, dying, guards, fills, seen,
                 fid, sellId, found, failures, outages, crashes, books, trade>>

(* ... EXPIRE 7 d, SADD of the index.                                      *)
AddIndex ==
  /\ pc = "add"
  /\ dying' = FALSE /\ idx' = TRUE
  /\ qty' = seen
  /\ Goto("evaluate")
  /\ UNCHANGED <<env, broker, inBuy, stat, posq, guards, fills, seen, fid,
                 sellId, found, failures, outages, crashes, books, trade>>

(* Mutant: every sale of a day has the same id.                            *)
SaleId_ByDate == <<"sold", 0>>

(* The id of the sale: the exit order's, or one made of symbol and date.   *)
SaleId == IF exitOrder # 0 THEN <<"order", exitOrder>> ELSE <<"sold", 0>>

(* An indexed symbol that is not held is skipped while a BUY is pending ... *)
Missing ==
  /\ pc = "missing"
  /\ Goto(IF pending THEN "idle" ELSE "gone")
  /\ UNCHANGED <<env, broker, inBuy, stat, position, guards, fills, seen, qty,
                 fid, sellId, found, failures, outages, crashes, books, trade>>

(* ... and else sold: the quantity of the hash ...                         *)
Gone ==
  /\ pc = "gone"
  /\ qty' = posq
  /\ Goto(IF posq > 0 THEN "claim" ELSE "remove")
  /\ UNCHANGED <<env, broker, inBuy, stat, position, guards, fills, seen, fid,
                 sellId, found, failures, outages, crashes, books, trade>>

(* ... SET NX of the fill_dedupe key of the sale.                          *)
ClaimSale ==
  /\ pc = "claim"
  /\ fid' = SaleId /\ claimed' = claimed \cup {fid'}
  /\ Goto(IF fid' \in claimed THEN "remove" ELSE "push")
  /\ UNCHANGED <<env, broker, inBuy, stat, position, guards, queue, seen, qty,
                 sellId, found, failures, outages, crashes, books, trade>>

(* ... LPUSH of the SELL fill ...                                          *)
PushSale ==
  /\ pc = "push"
  /\ queue' = Append(queue, [id |-> fid, side |-> "SELL", qty |-> qty])
  /\ Goto("remove")
  /\ UNCHANGED <<env, broker, inBuy, stat, position, guards, claimed, seen,
                 qty, fid, sellId, found, failures, outages, crashes, books,
                 trade>>

(* Mutant: the position hash keeps its 7 d TTL.                            *)
RemovePosition_NoTTL ==
  /\ pc = "remove"
  /\ idx' = FALSE /\ exitOrder' = 0 /\ lock' = FALSE
  /\ Goto("idle")
  /\ UNCHANGED <<env, broker, inBuy, stat, posq, dying, pending, fills, seen,
                 qty, fid, sellId, found, failures, outages, crashes, books,
                 trade>>

(* ... and the pipeline: EXPIRE 60 of the hash, SREM of the index, DEL of  *)
(* exit_order and exit_lock.                                               *)
RemovePosition ==
  /\ pc = "remove"
  /\ dying' = (posq > 0)
  /\ idx' = FALSE /\ exitOrder' = 0 /\ lock' = FALSE
  /\ Goto("idle")
  /\ UNCHANGED <<env, broker, inBuy, stat, posq, pending, fills, seen, qty,
                 fid, sellId, found, failures, outages, crashes, books, trade>>

-----------------------------------------------------------------------------
(* position_exit_runner: the exit of _run_market and _place_sell.          *)

(* Mutant: a held lock does not stop the poll.                             *)
Evaluate_NoLock ==
  /\ pc = "evaluate"
  /\ lock' = FALSE
  /\ \E exit \in BOOLEAN : Goto(IF exit THEN "lock" ELSE "idle")
  /\ UNCHANGED <<env, broker, inBuy, stat, position, pending, exitOrder, fills,
                 seen, qty, fid, sellId, found, failures, outages, crashes,
                 books, trade>>

(* exit_lock stops the poll unless the SELL it stands for is CANCELED; the *)
(* price decides whether to exit.                                          *)
Evaluate ==
  /\ pc = "evaluate"
  /\ LET canceled == exitOrder # 0 /\ stat[exitOrder] = "CANCELED" IN
       \/ /\ lock /\ ~canceled
          /\ Goto("idle") /\ UNCHANGED lock
       \/ /\ lock => canceled
          /\ lock' = FALSE
          /\ \E exit \in BOOLEAN : Goto(IF exit THEN "lock" ELSE "idle")
  /\ UNCHANGED <<env, broker, inBuy, stat, position, pending, exitOrder, fills,
                 seen, qty, fid, sellId, found, failures, outages, crashes,
                 books, trade>>

(* SET exit_lock NX EX 60.                                                 *)
TakeLock ==
  /\ pc = "lock"
  /\ lock' = TRUE
  /\ Goto(IF lock THEN "idle" ELSE "place")
  /\ UNCHANGED <<env, broker, inBuy, stat, position, pending, exitOrder, fills,
                 seen, qty, fid, sellId, found, failures, outages, crashes,
                 books, trade>>

(* The SELL order.  If it is refused, or place_order raised, the lock goes. *)
PlaceSell ==
  /\ pc = "place"
  /\ \/ /\ Orderable(qty) /\ Take("SELL", qty)
        /\ \/ Goto("record") /\ sellId' = placed' /\ UNCHANGED lock
           \/ /\ "lost_reply" \in Weak
              /\ Goto("idle") /\ lock' = FALSE /\ UNCHANGED sellId
     \/ /\ Goto("idle") /\ lock' = FALSE
        /\ UNCHANGED <<broker, sellId>>
  /\ UNCHANGED <<env, inBuy, stat, position, pending, exitOrder, fills, seen,
                 qty, fid, found, failures, outages, crashes, books, trade>>

(* The order key, its meta and exit_order.  Every answer but REJECTED is   *)
(* recorded as SUBMITTED, IBKR's immediate FILLED or CANCELED included:    *)
(* such an order was filled or closed at the broker before this step.      *)
RecordSell ==
  /\ pc = "record"
  /\ stat' = [stat EXCEPT ![sellId] = "SUBMITTED"]
  /\ exitOrder' = sellId
  /\ Goto("idle") /\ sellId' = 0
  /\ UNCHANGED <<env, broker, inBuy, position, pending, lock, fills, seen, qty,
                 fid, found, failures, outages, crashes, books, trade>>

(* SIGKILL, at any point of the poll or between two.                       *)
CrashExitRunner ==
  /\ pc # "down" /\ crashes < env.crashes
  /\ Goto("down") /\ crashes' = crashes + 1 /\ failures' = 0 /\ sellId' = 0
  /\ UNCHANGED <<env, broker, inBuy, stat, position, guards, fills, seen, qty,
                 fid, found, outages, books, trade>>

(* Started again, once exit_runner:lock of the dead process has run out    *)
(* (120 s): _startup_cleanup.                                              *)
Restart ==
  /\ pc = "down"
  /\ Goto("idle")
  /\ lock' = (lock /\ idx)
  /\ exitOrder' = IF idx THEN exitOrder ELSE 0
  /\ UNCHANGED <<env, broker, inBuy, stat, position, pending, fills, seen, qty,
                 fid, sellId, found, failures, outages, crashes, books, trade>>

-----------------------------------------------------------------------------
(* TTLs.  60 s cover the HTTP request of place_order; without the          *)
(* weakness of their name, exit_lock and buy_pending outlive their order,  *)
(* the lag of the holdings and the poll under way.  Where nobody is slow a *)
(* hash does not expire while its fill is on the way, nor between the      *)
(* poll's HSET and its EXPIRE.                                             *)

Calm == listed = held /\ pc \in {"idle", "down"}

LockExpires ==
  /\ lock /\ pc \notin {"place", "record"}
  /\ "lock_expiry" \in Weak \/ (OpenSells = {} /\ Calm)
  /\ lock' = FALSE
  /\ UNCHANGED <<env, broker, inBuy, stat, position, pending, exitOrder, fills,
                 poll, crashes, books, trade>>

PendingExpires ==
  /\ pending
  /\ "pending_expiry" \in Weak \/ (OpenBuys = {} /\ Calm)
  /\ pending' = FALSE
  /\ UNCHANGED <<env, broker, inBuy, stat, position, lock, exitOrder, fills,
                 poll, crashes, books, trade>>

HashExpires ==
  /\ dying /\ ("slow_engine" \in Weak \/ (KeptUp /\ pc # "add"))
  /\ posq' = 0 /\ dying' = FALSE
  /\ UNCHANGED <<env, broker, inBuy, stat, idx, guards, fills, poll, crashes,
                 books, trade>>

Sync ==
  \/ Fetch \/ ReadIndex \/ Discover \/ WriteHolding \/ AddIndex
  \/ Missing \/ Gone \/ ClaimSale \/ PushSale \/ RemovePosition
Exit == Evaluate \/ TakeLock \/ PlaceSell \/ RecordSell

Next ==
  \/ \E o \in OrderId : FillOrder(o) \/ EndOrder(o) \/ WatchKR(o) \/ WatchUS(o)
  \/ Settle
  \/ PlaceBuy \/ RecordBuy \/ CrashExecutor
  \/ ApplyFill
  \/ Sync \/ FetchFails \/ Exit \/ CrashExitRunner \/ Restart
  \/ LockExpires \/ PendingExpires \/ HashExpires

Spec == Init /\ [][Next]_vars

(* The processes run and TTLs end.  Nothing obliges the strategy to buy,   *)
(* the broker to fill or the price to reach an exit.                       *)
Fairness ==
  /\ WF_vars(Sync \/ Exit \/ Restart) /\ WF_vars(ApplyFill)
  /\ WF_vars(RecordBuy) /\ WF_vars(Settle)
  /\ SF_vars(PendingExpires) /\ SF_vars(HashExpires)
FairSpec == Spec /\ Fairness

-----------------------------------------------------------------------------
(* Properties.                                                             *)

FillIds == {NoFill, <<"sold", 0>>} \cup ({"exec", "order", "bought"} \X Nat)
Fills == [id : FillIds, side : {"BUY", "SELL"}, qty : Nat]

(* Type invariant.  Only IBKR can leave a negative holding behind.         *)
TypeOK ==
  /\ env \in Environment
  /\ held \in Int /\ listed \in Int /\ placed \in 0..MaxOrders
  /\ order \in [OrderId -> [side : {"BUY", "SELL"}, left : Nat, done : Nat,
                            open : BOOLEAN]]
  /\ inBuy \in 0..placed /\ exitOrder \in 0..placed /\ sellId \in 0..placed
  /\ stat \in [OrderId -> {"none", "SUBMITTED", "FILLED", "CANCELED"}]
  /\ {pending, dying, idx, lock} \subseteq BOOLEAN
  /\ {posq, seen, qty, found, failures, outages, crashes} \subseteq Nat
  /\ claimed \subseteq FillIds /\ booked \subseteq FillIds /\ fid \in FillIds
  /\ queue \in Seq(Fills)
  /\ pc \in {"idle", "index", "discover", "write", "add", "missing", "gone",
             "claim", "push", "remove", "evaluate", "lock", "place", "record", "down"}
  /\ {bought, sold, bookBuy, bookSell} \subseteq Nat

(* What exit_lock rests on: it outlives its SELL and every reply arrives;  *)
(* IBKR does not cancel the rest of a SELL it filled in part, for the poll *)
(* under way would sell the quantity from before; and nobody is restarted  *)
(* and no holdings request fails, for a restart frees the lock of a symbol *)
(* it finds outside the index, and the position in Redis is not always the *)
(* broker's.  KR, where the holdings and the engine do not lag, bears a    *)
(* kill, or several when no request fails.                                 *)
Prompt == Market = "KR" /\ Weak \cap {"lag", "slow_engine"} = {}
LockHolds ==
  /\ Weak \cap {"lock_expiry", "lost_reply"} = {}
  /\ Market = "US" => ~({"partial", "sell_cancel"} \subseteq Weak)
  /\ IF Prompt THEN env.crashes <= 1 \/ env.outages = 0
     ELSE env.crashes = 0 /\ env.outages = 0

(* exit_lock (README: "SET NX TTL 60s" against duplicate exits): one SELL  *)
(* at a time is open at the broker.                                        *)
OneOpenSell == Cardinality(OpenSells) <= 1

(* Cash-only: the account is never sold short.  KIS refuses such an order; *)
(* IBKR does not, there it rests on the lock alone.                        *)
NeverOversold == held >= 0

(* As long as exit_lock has what it rests on, it keeps sales apart and     *)
(* covered by the holding.                                                 *)
LockGuardsSales == LockHolds => OneOpenSell /\ NeverOversold

(* Nothing is under way and the symbol is sold out.                        *)
Flat ==
  /\ held = 0 /\ listed = 0 /\ posq = 0 /\ ~idx
  /\ pc = "idle" /\ inBuy = 0 /\ queue = <<>>
  /\ \A o \in OrderId : ~order[o].open /\ (Market = "US" => stat[o] # "SUBMITTED")

(* No sale is missing from the books when the symbol is sold out: the      *)
(* realized PnL the killswitch reads has seen every executed SELL.  It is  *)
(* promised where orders fill at once, every process keeps up, nobody is   *)
(* killed and the position is one BUY (two SELLs may empty a larger one,   *)
(* and only the last of them is exit_order).  For US exit_lock has to hold *)
(* as well: IBKR takes a SELL of what is sold already, and when it fills   *)
(* against the next BUY there is no position yet to book it on.            *)
Steady ==
  /\ Weak \cap {"partial", "slow_engine", "lost_reply", "two_buys"} = {}
  /\ env.crashes = 0
  /\ Market = "US" => LockHolds
NoSaleMissed == Steady /\ Flat => bookSell >= sold

(* No BUY is booked twice, under the broker's execution id and under the   *)
(* id of a discovered holding.                                             *)
BuysBookedOnce == bookBuy <= bought

(* The hash of an indexed symbol is not about to expire: the 60 s of a     *)
(* removed position never take one that was opened again.                  *)
IndexedIsKept == idx => ~dying

(* Whatever was doubled or lost on the way, a kill and failing polls       *)
(* included, KR's polling ends with the position Redis shows equal to the  *)
(* broker's holding.  Orders fill at once here and the engine keeps up.    *)
Converges ==
  (Market = "KR" /\ Weak \cap {"partial", "slow_engine"} = {})
    => <>[](posq = held /\ idx = (held > 0))
=============================================================================
