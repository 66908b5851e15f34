------------------------------ MODULE FillLedger ------------------------------
(***************************************************************************)
(* The fill pipeline of one market: the Redis list claw:fill:queue, its    *)
(* dead-letter list, and the processes that book fills into position:*,    *)
(* trade:* and pnl:{market}.                                               *)
(*                                                                         *)
(*   "engine"   scripts/position_engine.py, the consumer of the queue      *)
(*   "watcher"  app/order_watcher.py, which books the fill of an order it  *)
(*              sees FILLED by calling PositionEngine.apply_fill itself    *)
(*   "updater"  market_data/updater.py, which only calls                   *)
(*              recalc_unrealized after it refreshed the mark prices       *)
(*                                                                         *)
(* position_exit_runner.py writes the same position hashes: its poll puts  *)
(* the broker's holding in place of what was booked.  When it does, and    *)
(* with which quantity, is the subject of ExitSync; here it may at any     *)
(* time.                                                                   *)
(*                                                                         *)
(* apply_fill is a sequence of Redis commands with no transaction around   *)
(* them, so every command that reads or writes a key another process       *)
(* writes is a step of its own.  Prices, fees and quantities are integers: *)
(* the unit is the smallest one the deployment trades.                     *)
(***************************************************************************)
EXTENDS Integers, Sequences, FiniteSets

CONSTANTS
  Symbol,       \* the symbols of the market
  TradeId,      \* deterministic trade ids (exec_id or FillEvent.trade_id())
  QueueFills,   \* fills that reach the queue (executor, position_exit_runner)
  OrderFills,   \* fills of orders the watcher sees FILLED
  Holdings,     \* quantities and average prices the broker may report
  Scenario,     \* the environments considered, one of which is drawn at Init
  MaxRetry,     \* MAX_RETRY of position_engine.py
  NoItem        \* "nothing in hand"

Engine  == "engine"
Watcher == "watcher"
Updater == "updater"
Proc    == {Engine, Watcher, Updater}

Smaller(a, b) == IF a <= b THEN a ELSE b

Pnl == "pnl"    \* the key pnl:{market}, beside the positions' symbols

(* FillEvent; ok is FALSE for a payload model_validate refuses.            *)
Fill == [ref : STRING, tid : TradeId, sym : Symbol, side : {"BUY", "SELL"},
         qty : Nat \ {0}, price : Nat, fee : Nat, ok : BOOLEAN]
Item == [fill : Fill, retry : Nat]
Holding == [qty : Nat, avg : Nat]

(* What is given and never changes while the processes run: the fills that *)
(* arrive, whether the updater runs in this market, and what may go wrong. *)
Environment ==
  [fills : SUBSET QueueFills,  \* fills the producers push
   orders : SUBSET OrderFills, \* fills of orders the watcher sees FILLED
   marking : BOOLEAN,          \* the market data updater runs
   mirror : SUBSET Symbol,     \* symbols whose holding the exit poll writes
   faults : BOOLEAN,           \* a Redis command of apply_fill may raise
   crashes : Nat,              \* bound: kills between two commands
   redrives : Nat]             \* bound: fills moved back with retry_dlq.py

ASSUME LedgerConstants ==
  /\ QueueFills \subseteq Fill
  /\ OrderFills \subseteq Fill
  /\ \A f \in OrderFills : f.ok
  /\ Scenario \subseteq Environment
  /\ MaxRetry \in Nat
  /\ NoItem \notin Item
  /\ Holdings \subseteq {h \in Holding : h.qty > 0}
  /\ Pnl \notin Symbol

VARIABLES
  env,       \* the environment of this behaviour
  queue,     \* claw:fill:queue, head first: LPUSH prepends, BRPOP takes the last
  dlq,       \* claw:fill:dlq, head first: LPUSH prepends, LPOP takes the first
  hand,      \* the item retry_dlq.py holds between its LPOP and its LPUSH
  redrives,  \* how many items retry_dlq.py has taken
  pushed,    \* fills already pushed by their producers
  crashes,   \* how many kills so far
  closed,    \* order fills whose order the watcher has set to FILLED
  dedupe,    \* trade_dedupe:{market}:{trade_id} keys
  trades,    \* trade:{market}:{trade_id}: realized PnL by recorded trade id
  pos,       \* position:{market}:{symbol}; qty 0 stands for "no key"
  index,     \* position_index:{market}
  realized,  \* pnl:{market}.realized_pnl
  streak,    \* claw:streak:{market}
  sizePct,   \* claw:config:{market}.size_cash_pct, in percent
  adding,    \* the exit poll: the holding it has written and not yet SADDed
  expiring,  \* positions the exit poll gave 60 s to live
  pc, cur, snap, delta, reg,   \* locals of each process
  saves,     \* history: how often a trade's position write was executed
  net,       \* history: the broker's word on a symbol plus what was booked since
  settled,   \* history: trades whose delta update_pnl has written
  earned,    \* history: sum of those deltas
  raced      \* history: keys written while another process held a read of
             \* them that it has yet to write back

ledger == <<dedupe, trades, pos, index, realized>>
locals == <<pc, cur, snap, delta, reg>>
history == <<saves, net, settled, earned, raced, crashes>>
lists == <<queue, dlq, hand, redrives, pushed, closed>>
sizing == <<streak, sizePct>>
poll == <<adding, expiring>>
vars == <<env, lists, ledger, sizing, poll, locals, history>>

Flat == [qty |-> 0, avg |-> 0]

Init ==
  /\ env \in Scenario
  /\ queue = <<>> /\ dlq = <<>> /\ hand = NoItem /\ redrives = 0
  /\ pushed = {} /\ closed = {} /\ crashes = 0
  /\ dedupe = {} /\ trades = [t \in {} |-> 0]
  /\ pos = [s \in Symbol |-> Flat] /\ index = {} /\ realized = 0
  /\ streak = 0 /\ sizePct = 20
  /\ adding = {} /\ expiring = {}
  /\ pc = [p \in Proc |-> "idle"]
  /\ cur = [p \in Proc |-> NoItem]
  /\ snap = [p \in Proc |-> Flat]
  /\ delta = [p \in Proc |-> 0]
  /\ reg = [p \in Proc |-> 0]
  /\ saves = [t \in TradeId |-> 0]
  /\ net = [s \in Symbol |-> 0]
  /\ settled = {} /\ earned = 0 /\ raced = {}

-----------------------------------------------------------------------------
(* Helpers of apply_fill.                                                  *)

FillOf(p) == cur[p].fill
Goto(p, label) == pc' = [pc EXCEPT ![p] = label]

(* Mutant: the SELL is not limited to the position.                        *)
SellQty_Unclamped(f, held) == f.qty

(* Cash-only: a SELL never books more than the position it read.           *)
SellQty(f, held) == Smaller(f.qty, held.qty)

(* realized_delta = (price - avg) * sell_qty - fee                         *)
RealizedDelta(f, held) == (f.price - held.avg) * SellQty(f, held) - f.fee

(* The signed quantity the fill adds to the position it was computed from. *)
QtyChange(f, held) == IF f.side = "BUY" THEN f.qty ELSE -SellQty(f, held)

(* The average price after the fill.  The quotient is rounded down to the  *)
(* model's unit where Decimal rounds it at 28 digits.                      *)
NewAvg(f, held) ==
  IF f.side = "BUY"
  THEN IF held.qty = 0 THEN f.price
       ELSE (held.qty * held.avg + f.qty * f.price) \div (held.qty + f.qty)
  ELSE IF held.qty - SellQty(f, held) > 0 THEN held.avg ELSE 0

(* Mutant: the new quantity forgets that the SELL was limited.             *)
NewPosition_FullSell(f, held) ==
  [qty |-> IF f.side = "BUY" THEN held.qty + f.qty ELSE held.qty - f.qty,
   avg |-> NewAvg(f, held)]

NewPosition(f, held) ==
  [qty |-> held.qty + QtyChange(f, held), avg |-> NewAvg(f, held)]

-----------------------------------------------------------------------------
(* Races, for the history variable.  A process holds a read of a key from  *)
(* the step that reads it to the last one that uses what it read.          *)

Holds(q, s) ==
  /\ pc[q] \in {"claim", "record", "save", "index"}
  /\ FillOf(q).sym = s
HoldsPnl(q) == pc[q] \in {"pnl_write", "recalc_write"}

Race(key, held) == IF held THEN raced \cup {key} ELSE raced

-----------------------------------------------------------------------------
(* The queue, its producers and retry_dlq.py.                              *)

(* A producer LPUSHes the fill.                                            *)
PushFill(f) ==
  /\ f \in env.fills \ pushed
  /\ queue' = <<[fill |-> f, retry |-> 0]>> \o queue
  /\ pushed' = pushed \cup {f}
  /\ UNCHANGED <<env, dlq, hand, redrives, closed, ledger, sizing, poll,
                 locals, history>>

(* BRPOP of the engine's loop; a payload that does not validate goes to    *)
(* the dead-letter list and the loop goes on.                              *)
PopFill ==
  /\ pc[Engine] = "idle" /\ queue # <<>>
  /\ LET item == queue[Len(queue)] IN
       /\ queue' = SubSeq(queue, 1, Len(queue) - 1)
       /\ \/ /\ item.fill.ok
             /\ cur' = [cur EXCEPT ![Engine] = item]
             /\ Goto(Engine, "dedup")
             /\ UNCHANGED dlq
          \/ /\ ~item.fill.ok
             /\ dlq' = <<item>> \o dlq
             /\ UNCHANGED <<pc, cur>>
  /\ UNCHANGED <<env, hand, redrives, pushed, closed, ledger, sizing, poll,
                 snap, delta, reg, history>>

(* retry_dlq.py: LPOP the dead-letter list ...                             *)
TakeDead ==
  /\ hand = NoItem /\ dlq # <<>> /\ redrives < env.redrives
  /\ hand' = Head(dlq) /\ dlq' = Tail(dlq) /\ redrives' = redrives + 1
  /\ UNCHANGED <<env, queue, pushed, closed, ledger, sizing, poll, locals,
                 history>>

(* ... and LPUSH the queue, with --reset-retry or without it.              *)
RequeueDead ==
  /\ hand # NoItem
  /\ \E r \in {0, hand.retry} :
       queue' = <<[hand EXCEPT !.retry = r]>> \o queue
  /\ hand' = NoItem
  /\ UNCHANGED <<env, dlq, redrives, pushed, closed, ledger, sizing, poll,
                 locals, history>>

-----------------------------------------------------------------------------
(* PositionEngine.apply_fill, one Redis command at a time.                 *)

(* The watcher found the order FILLED and builds its fill.  If it is       *)
(* killed before the status is written it finds the order again.           *)
WatchFill(f) ==
  /\ pc[Watcher] = "idle" /\ f \in env.orders \ closed
  /\ cur' = [cur EXCEPT ![Watcher] = [fill |-> f, retry |-> 0]]
  /\ Goto(Watcher, "dedup")
  /\ UNCHANGED <<env, lists, ledger, sizing, poll, snap, delta, reg, history>>

(* trade_exists: a known trade id ends the call with None.                 *)
CheckDup(p) ==
  /\ pc[p] = "dedup"
  /\ IF FillOf(p).tid \in dedupe THEN Goto(p, "none") ELSE Goto(p, "read")
  /\ UNCHANGED <<env, lists, ledger, sizing, poll, cur, snap, delta, reg,
                 history>>

(* Mutant: a SELL without a position is skipped, not dead-lettered.        *)
ReadPosition_Skip(p) ==
  /\ pc[p] = "read"
  /\ LET f == FillOf(p)
         held == pos[f.sym] IN
       /\ snap' = [snap EXCEPT ![p] = held]
       /\ delta' = [delta EXCEPT ![p] =
                      IF f.side = "SELL" THEN RealizedDelta(f, held) ELSE 0]
       /\ Goto(p, IF f.side = "SELL" /\ SellQty(f, held) <= 0
                  THEN "none" ELSE "claim")
  /\ UNCHANGED <<env, lists, ledger, sizing, poll, cur, reg, history>>

(* get_position, then the checks that need no other key: a SELL without a  *)
(* position goes to the dead-letter list and returns None.                 *)
ReadPosition(p) ==
  /\ pc[p] = "read"
  /\ LET f == FillOf(p)
         held == pos[f.sym] IN
       /\ snap' = [snap EXCEPT ![p] = held]
       /\ delta' = [delta EXCEPT ![p] =
                      IF f.side = "SELL" THEN RealizedDelta(f, held) ELSE 0]
       /\ \/ /\ f.side = "SELL" /\ SellQty(f, held) <= 0
             /\ dlq' = <<cur[p]>> \o dlq
             /\ Goto(p, "none")
          \/ /\ f.side = "BUY" \/ SellQty(f, held) > 0
             /\ Goto(p, "claim")
             /\ UNCHANGED dlq
  /\ UNCHANGED <<env, queue, hand, redrives, pushed, closed, ledger, sizing,
                 poll, cur, reg, history>>

(* Mutant: SET without NX, trusting the earlier trade_exists.              *)
ClaimTrade_NoNX(p) ==
  /\ pc[p] = "claim"
  /\ dedupe' = dedupe \cup {FillOf(p).tid}
  /\ Goto(p, "record")
  /\ UNCHANGED <<env, lists, trades, pos, index, realized, sizing, poll, cur,
                 snap, delta, reg, history>>

(* record_trade: SET trade_dedupe NX decides who books the trade.  The key *)
(* lives TRADE_TTL, 30 days: a fill that is delivered again later than     *)
(* that, by a redrive of an old dead letter, is not modelled.              *)
ClaimTrade(p) ==
  /\ pc[p] = "claim"
  /\ LET t == FillOf(p).tid IN
       \/ /\ t \notin dedupe
          /\ dedupe' = dedupe \cup {t}
          /\ Goto(p, "record")
       \/ /\ t \in dedupe
          /\ Goto(p, "none")
          /\ UNCHANGED dedupe
  /\ UNCHANGED <<env, lists, trades, pos, index, realized, sizing, poll, cur,
                 snap, delta, reg, history>>

(* record_trade: the trade hash and its index.                             *)
RecordTrade(p) ==
  /\ pc[p] = "record"
  /\ trades' = [t \in DOMAIN trades \cup {FillOf(p).tid} |->
                  IF t = FillOf(p).tid THEN delta[p] ELSE trades[t]]
  /\ Goto(p, "save")
  /\ UNCHANGED <<env, lists, dedupe, pos, index, realized, sizing, poll, cur,
                 snap, delta, reg, history>>

(* save_position: HSET of the new position and its TTL, or DEL when it is  *)
(* flat, both computed from the position read before the claim.            *)
SavePosition(p) ==
  /\ pc[p] = "save"
  /\ LET f == FillOf(p) IN
       /\ pos' = [pos EXCEPT ![f.sym] = NewPosition(f, snap[p])]
       /\ expiring' = expiring \ {f.sym}
       /\ net' = [net EXCEPT ![f.sym] = @ + QtyChange(f, snap[p])]
       /\ saves' = [saves EXCEPT ![f.tid] = @ + 1]
       /\ raced' = Race(f.sym, \E q \in Proc \ {p} : Holds(q, f.sym))
  /\ Goto(p, "index")
  /\ UNCHANGED <<env, lists, dedupe, trades, index, realized, sizing, adding,
                 cur, snap, delta, reg, settled, earned, crashes>>

(* save_position: SADD or SREM of the index.  A BUY has no PnL to book.    *)
IndexPosition(p) ==
  /\ pc[p] = "index"
  /\ LET f == FillOf(p) IN
       /\ index' = IF NewPosition(f, snap[p]).qty = 0
                   THEN index \ {f.sym} ELSE index \cup {f.sym}
       /\ Goto(p, IF f.side = "SELL" THEN "pnl_read" ELSE "recalc_read")
  /\ UNCHANGED <<env, lists, dedupe, trades, pos, realized, sizing, poll, cur,
                 snap, delta, reg, history>>

(* update_pnl: HGETALL ...                                                 *)
ReadPnl(p) ==
  /\ pc[p] = "pnl_read"
  /\ reg' = [reg EXCEPT ![p] = realized]
  /\ Goto(p, "pnl_write")
  /\ UNCHANGED <<env, lists, ledger, sizing, poll, cur, snap, delta, history>>

(* What the history notes of it.                                           *)
Settle(p) ==
  /\ settled' = settled \cup {FillOf(p).tid}
  /\ earned' = earned + delta[p]
  /\ raced' = Race(Pnl, \E q \in Proc \ {p} : HoldsPnl(q))

(* Mutant: the delta replaces the sum.                                     *)
WritePnl_Overwrite(p) ==
  /\ pc[p] = "pnl_write"
  /\ realized' = delta[p]
  /\ Settle(p)
  /\ Goto(p, "recalc_read")
  /\ UNCHANGED <<env, lists, dedupe, trades, pos, index, sizing, poll, cur,
                 snap, delta, reg, saves, net, crashes>>

(* ... and HSET of the sum.                                                *)
WritePnl(p) ==
  /\ pc[p] = "pnl_write"
  /\ realized' = reg[p] + delta[p]
  /\ Settle(p)
  /\ Goto(p, "recalc_read")
  /\ UNCHANGED <<env, lists, dedupe, trades, pos, index, sizing, poll, cur,
                 snap, delta, reg, saves, net, crashes>>

(* Mutant: the total update_pnl has read is taken again.                   *)
ReadForRecalc_Cached(p) ==
  /\ pc[p] = "recalc_read"
  /\ reg' = [reg EXCEPT ![p] = IF p = Updater THEN realized ELSE @]
  /\ Goto(p, "recalc_write")
  /\ UNCHANGED <<env, lists, ledger, sizing, poll, cur, snap, delta, history>>

(* recalc_unrealized: it reads pnl:{market} ...                            *)
ReadForRecalc(p) ==
  /\ pc[p] = "recalc_read"
  /\ reg' = [reg EXCEPT ![p] = realized]
  /\ Goto(p, "recalc_write")
  /\ UNCHANGED <<env, lists, ledger, sizing, poll, cur, snap, delta, history>>

(* ... and writes back realized_pnl with the new unrealized_pnl.           *)
WriteRecalc(p) ==
  /\ pc[p] = "recalc_write"
  /\ realized' = reg[p]
  /\ Goto(p, IF p = Updater THEN "idle" ELSE "applied")
  /\ UNCHANGED <<env, lists, dedupe, trades, pos, index, sizing, poll, cur,
                 snap, delta, reg, history>>

(* update_market: the updater refreshed a mark price and recalculates.     *)
StartRecalc ==
  /\ env.marking /\ pc[Updater] = "idle"
  /\ Goto(Updater, "recalc_read")
  /\ UNCHANGED <<env, lists, ledger, sizing, poll, cur, snap, delta, reg,
                 history>>

-----------------------------------------------------------------------------
(* _sync_positions of position_exit_runner.py, as far as it writes here.   *)

(* A holding of the broker: HSET of its quantity and average price and     *)
(* EXPIRE ...                                                              *)
MirrorHolding(s, h) ==
  /\ s \in env.mirror /\ adding = {}
  /\ pos' = [pos EXCEPT ![s] = h]
  /\ adding' = {s} /\ expiring' = expiring \ {s}
  /\ net' = [net EXCEPT ![s] = h.qty]
  /\ raced' = Race(s, \E q \in Proc : Holds(q, s))
  /\ UNCHANGED <<env, lists, dedupe, trades, index, realized, sizing, locals,
                 saves, settled, earned, crashes>>

(* ... then SADD.                                                          *)
ListHolding ==
  /\ adding # {}
  /\ index' = index \cup adding /\ adding' = {}
  /\ UNCHANGED <<env, lists, dedupe, trades, pos, realized, sizing, expiring,
                 locals, history>>

(* The broker no longer has it: SREM, and the hash gets 60 s, in one       *)
(* transaction.                                                            *)
DropHolding(s) ==
  /\ s \in env.mirror \cap index /\ adding = {}
  /\ index' = index \ {s}
  /\ expiring' = IF pos[s].qty > 0 THEN expiring \cup {s} ELSE expiring
  /\ UNCHANGED <<env, lists, dedupe, trades, pos, realized, sizing, adding,
                 locals, history>>

HashLapses(s) ==
  /\ s \in expiring
  /\ pos' = [pos EXCEPT ![s] = Flat] /\ expiring' = expiring \ {s}
  /\ net' = [net EXCEPT ![s] = 0]
  /\ raced' = Race(s, \E q \in Proc : Holds(q, s))
  /\ UNCHANGED <<env, lists, dedupe, trades, index, realized, sizing, adding,
                 locals, saves, settled, earned, crashes>>

(* Killed between the HSET and the SADD.                                   *)
CrashPoll ==
  /\ crashes < env.crashes /\ adding # {}
  /\ crashes' = crashes + 1 /\ adding' = {}
  /\ UNCHANGED <<env, lists, ledger, sizing, expiring, locals, saves, net,
                 settled, earned, raced>>

SyncPositions ==
  \/ \E s \in Symbol, h \in Holdings : MirrorHolding(s, h)
  \/ ListHolding \/ CrashPoll
  \/ \E s \in Symbol : DropHolding(s) \/ HashLapses(s)

-----------------------------------------------------------------------------
(* After apply_fill.                                                       *)

Finish(p) ==
  /\ Goto(p, "idle")
  /\ cur' = [cur EXCEPT ![p] = NoItem]

(* _LUA_UPDATE_STREAK                                                      *)
NextStreak(sign) ==
  IF sign > 0 THEN (IF streak > 0 THEN streak + 1 ELSE 1)
  ELSE (IF streak < 0 THEN streak - 1 ELSE -1)

(* _update_streak: three in a row move size_cash_pct.                      *)
UpdateStreak(pnl) ==
  IF pnl = 0 THEN UNCHANGED sizing
  ELSE /\ streak' = NextStreak(pnl)
       /\ sizePct' = IF streak' >= 3 THEN Smaller(sizePct + 5, 50)
                     ELSE IF streak' > -3 THEN sizePct
                     ELSE IF sizePct - 10 >= 10 THEN sizePct - 10 ELSE 10

(* The engine's loop after apply_fill returned; a SELL that returned None  *)
(* is skipped, a booked one updates the streak.                            *)
EngineReturn ==
  /\ pc[Engine] \in {"none", "applied"}
  /\ IF pc[Engine] = "applied" /\ FillOf(Engine).side = "SELL"
     THEN UpdateStreak(delta[Engine]) ELSE UNCHANGED sizing
  /\ Finish(Engine)
  /\ UNCHANGED <<env, lists, ledger, poll, snap, delta, reg, history>>

(* _process_fill_on_filled returned: the watcher sets the order FILLED.    *)
WatcherReturn ==
  /\ pc[Watcher] \in {"none", "applied"}
  /\ closed' = closed \cup {FillOf(Watcher)}
  /\ Finish(Watcher)
  /\ UNCHANGED <<env, queue, dlq, hand, redrives, pushed, ledger, sizing,
                 poll, snap, delta, reg, history>>

InApply(p) == pc[p] \notin {"idle", "none", "applied"}

EngineMayFail ==
  \/ InApply(Engine) \/ pc[Engine] = "applied"
  \/ (pc[Engine] = "none" /\ FillOf(Engine).side = "BUY")

(* Mutant: the requeued fill keeps its retry count.                        *)
EngineFails_NoCount ==
  /\ env.faults /\ EngineMayFail
  /\ LET item == cur[Engine] IN
       IF item.retry >= MaxRetry
       THEN /\ dlq' = <<item>> \o dlq
            /\ UNCHANGED queue
       ELSE /\ queue' = <<item>> \o queue
            /\ UNCHANGED dlq
  /\ Finish(Engine)
  /\ UNCHANGED <<env, hand, redrives, pushed, closed, ledger, sizing, poll,
                 snap, delta, reg, history>>

(* A command of apply_fill, or of the bookkeeping after it, raised in the  *)
(* engine: requeue with retry + 1, or dead-letter it after MAX_RETRY.      *)
EngineFails ==
  /\ env.faults /\ EngineMayFail
  /\ LET item == cur[Engine] IN
       IF item.retry >= MaxRetry
       THEN /\ dlq' = <<item>> \o dlq
            /\ UNCHANGED queue
       ELSE /\ queue' = <<[item EXCEPT !.retry = @ + 1]>> \o queue
            /\ UNCHANGED dlq
  /\ Finish(Engine)
  /\ UNCHANGED <<env, hand, redrives, pushed, closed, ledger, sizing, poll,
                 snap, delta, reg, history>>

(* A command of apply_fill raised in the watcher: the error is recorded    *)
(* and the order is set to FILLED all the same.                            *)
WatcherFails ==
  /\ env.faults /\ InApply(Watcher)
  /\ closed' = closed \cup {FillOf(Watcher)}
  /\ Finish(Watcher)
  /\ UNCHANGED <<env, queue, dlq, hand, redrives, pushed, ledger, sizing,
                 poll, snap, delta, reg, history>>

(* SIGKILL: what the process had in hand is gone; supervisord restarts it. *)
(* A new engine exits at once until position_engine:lock, which nobody     *)
(* renews now, lapses within 120 s: that is an engine that stays idle for  *)
(* a while, as any process here may, and one that cannot wait forever.     *)
Crash(p) ==
  /\ crashes < env.crashes /\ pc[p] # "idle"
  /\ crashes' = crashes + 1
  /\ Finish(p)
  /\ UNCHANGED <<env, lists, ledger, sizing, poll, snap, delta, reg, saves,
                 net, settled, earned, raced>>

Apply(p) ==
  \/ CheckDup(p) \/ ReadPosition(p) \/ ClaimTrade(p) \/ RecordTrade(p)
  \/ SavePosition(p) \/ IndexPosition(p) \/ ReadPnl(p) \/ WritePnl(p)
  \/ ReadForRecalc(p) \/ WriteRecalc(p)

Next ==
  \/ \E f \in QueueFills : PushFill(f)
  \/ PopFill \/ TakeDead \/ RequeueDead
  \/ \E f \in OrderFills : WatchFill(f)
  \/ \E p \in Proc : Apply(p)
  \/ StartRecalc \/ EngineReturn \/ WatcherReturn
  \/ EngineFails \/ WatcherFails
  \/ \E p \in Proc : Crash(p)
  \/ SyncPositions

Spec == Init /\ [][Next]_vars

(* The engine and the watcher keep running and retry_dlq.py finishes what  *)
(* it began; nothing obliges a producer, the updater, the exit poll or the *)
(* operator to act.                                                        *)
Fairness ==
  /\ WF_vars(RequeueDead)
  /\ WF_vars(PopFill) /\ WF_vars(EngineReturn) /\ WF_vars(Apply(Engine))
  /\ WF_vars(WatcherReturn) /\ WF_vars(Apply(Watcher))
  /\ \A f \in OrderFills : WF_vars(WatchFill(f))
FairSpec == Spec /\ Fairness

-----------------------------------------------------------------------------
(* Properties.                                                             *)

Labels == {"idle", "dedup", "read", "claim", "record", "save", "index",
           "pnl_read", "pnl_write", "recalc_read", "recalc_write", "none",
           "applied"}

ListsOK ==
  /\ queue \in Seq(Item) /\ dlq \in Seq(Item) /\ hand \in Item \cup {NoItem}
  /\ redrives \in Nat /\ pushed \subseteq QueueFills /\ closed \subseteq Fill

LedgerOK ==
  /\ dedupe \subseteq TradeId /\ DOMAIN trades \subseteq TradeId
  /\ \A t \in DOMAIN trades : trades[t] \in Int
  /\ pos \in [Symbol -> Holding] /\ index \subseteq Symbol /\ realized \in Int
  /\ streak \in Int /\ sizePct \in Int
  /\ adding \subseteq env.mirror /\ expiring \subseteq env.mirror

LocalsOK ==
  /\ pc \in [Proc -> Labels] /\ cur \in [Proc -> Item \cup {NoItem}]
  /\ snap \in [Proc -> Holding] /\ delta \in [Proc -> Int] /\ reg \in [Proc -> Int]
  /\ pc[Updater] \in {"idle", "recalc_read", "recalc_write"}
  /\ \A p \in {Engine, Watcher} : pc[p] # "idle" => cur[p] \in Item

HistoryOK ==
  /\ saves \in [TradeId -> Nat] /\ net \in [Symbol -> Int]
  /\ settled \subseteq TradeId /\ earned \in Int
  /\ raced \subseteq Symbol \cup {Pnl} /\ crashes \in Nat
  /\ env \in Environment

(* Type invariant.  The updater never enters apply_fill, and a process in  *)
(* apply_fill holds a fill.                                                *)
TypeOK == ListsOK /\ LedgerOK /\ LocalsOK /\ HistoryOK

(* Idempotency (redis_keys.md: trade_dedupe "SET NX"): however often a     *)
(* fill is delivered, and by whichever process, its trade id changes the   *)
(* position at most once, and never before the id has been claimed.        *)
AtMostOnce ==
  \A t \in TradeId : saves[t] <= 1 /\ (saves[t] = 1 => t \in dedupe)

(* The strengthening that makes AtMostOnce inductive: a process between    *)
(* its claim and its position write owns an id nobody has booked, and no   *)
(* other process owns the same one.                                        *)
Owns(p) == pc[p] \in {"record", "save"}
ClaimInv ==
  /\ AtMostOnce
  /\ \A p \in {Engine, Watcher} : Owns(p) =>
       FillOf(p).tid \in dedupe /\ saves[FillOf(p).tid] = 0
  /\ Owns(Engine) /\ Owns(Watcher) => FillOf(Engine).tid # FillOf(Watcher).tid

(* Cash-only: no sequence of fills, duplicated, reordered or raced, leaves *)
(* a short position, and a flat one has no average price left behind.      *)
NeverShort ==
  \A s \in Symbol : pos[s].qty >= 0 /\ (pos[s].qty = 0 => pos[s].avg = 0)

(* No command raises and no process is killed.                             *)
Undisturbed == ~env.faults /\ env.crashes = 0

(* What a booked sale has yet to add to realized_pnl.                      *)
Owed(t) ==
  IF saves[t] > 0 /\ t \in DOMAIN trades \ settled THEN trades[t] ELSE 0

(* The symbols of which the ledger alone decides what the index says.      *)
Sure == Symbol \ (raced \cup env.mirror)

(* Both bookers are between two fills.                                     *)
AtRest == \A p \in {Engine, Watcher} : pc[p] \in {"idle", "none", "applied"}

(* The read-modify-writes of apply_fill, recalc_unrealized and             *)
(* _sync_positions lose nothing unless two of them meet: as long as no     *)
(* other process held a read of the same key when a key was written, the   *)
(* position is the broker's last word plus all that was booked since, and  *)
(* realized_pnl (which the killswitch reads) the sum of every delta handed *)
(* to update_pnl, whatever fails and is killed and whatever other keys     *)
(* race.  It takes two: a position is raced only where the watcher books   *)
(* as well or the exit poll writes, realized_pnl only where the watcher    *)
(* books or the updater recalculates.  Where nothing fails, a booking is   *)
(* whole once it returns: nothing is owed to realized_pnl and the index    *)
(* lists what is held.                                                     *)
OnlyRacesLose ==
  /\ \A s \in Symbol \ raced : pos[s].qty = net[s]
  /\ Pnl \notin raced => realized = earned
  /\ \A s \in Symbol \cap raced : env.orders # {} \/ s \in env.mirror
  /\ Pnl \in raced => env.orders # {} \/ env.marking
  /\ Undisturbed /\ AtRest =>
       /\ \A t \in TradeId : Owed(t) = 0
       /\ \A s \in Sure : s \in index <=> pos[s].qty > 0

(* What the processes implement together, in every environment: FillBook,  *)
(* the same variables seen one whole booking at a time.  save_position is  *)
(* the step that books.                                                    *)
Ledger == INSTANCE FillBook WITH
  Fills <- QueueFills \cup OrderFills,
  booked <- {t \in TradeId : saves[t] > 0},
  owed <- [t \in TradeId |-> Owed(t)],
  held <- index,
  mirrored <- env.mirror

ImplementsBook == Ledger!Spec

InFlight(t) ==
  \/ \E i \in 1..Len(queue) : queue[i].fill.tid = t
  \/ \E i \in 1..Len(dlq) : dlq[i].fill.tid = t
  \/ hand # NoItem /\ hand.fill.tid = t
  \/ \E p \in {Engine, Watcher} : cur[p] # NoItem /\ FillOf(p).tid = t

(* No fill is lost (position_engine.py: "DLQ/Retry"): a fill that was      *)
(* pushed is queued, dead-lettered, in a process's hands, or booked.       *)
NothingLost ==
  \A f \in pushed : InFlight(f.tid) \/ saves[f.tid] = 1

(* What retrying does guarantee.  Undisturbed, no fill is lost.  Where     *)
(* commands fail, one can get lost only after its id was claimed: an error *)
(* before that leaves it in the queue or dead-lettered.                    *)
LostOnlyAfterClaim ==
  \A f \in pushed :
    \/ InFlight(f.tid) \/ saves[f.tid] = 1
    \/ env.faults /\ f.tid \in dedupe
    \/ crashes > 0

(* Whatever keeps failing, MAX_RETRY ends it: every pushed fill is in the  *)
(* end claimed or dead-lettered, unless a kill took it.                    *)
EveryFillSettles ==
  \A f \in QueueFills :
    f \in pushed ~> \/ f.tid \in dedupe \/ crashes > 0
                    \/ \E i \in 1..Len(dlq) : dlq[i].fill = f
=============================================================================
