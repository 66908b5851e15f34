# A formal model of claw-trader

claw-trader is a cash-only trading engine for three markets: KR (KIS), US (IBKR)
and COIN (Upbit). It is a dozen processes under supervisord that share one Redis
and nothing else. A position, a lock, a queue or a counter is a Redis key that
several processes read and write, most of them one command at a time. What is
hard about this code is therefore less the trading rules than the order in which
the commands of different processes reach Redis and the broker, what a kill
leaves behind, and what an expiring key allows. That is what is modelled here,
and beside it the rules themselves where they exist in several copies.

Paths below are relative to the repository; `src/...` is its Python source.

## 1. The system

| Component | Code | State it keeps | Operations |
|---|---|---|---|
| AI evaluation | `app/ai_dual_eval_runner.py`, `ai/*` | verdicts `ai:dual:last:*`, call counts, a pause at the call cap | evaluate a symbol, store the verdict |
| Consensus signal runner | `app/consensus_signal_runner.py` | `consensus:seen`, cooldowns, daily counters, canary | verdict to Type A signal, trend to Type B signal, LPUSH `claw:signal:queue` |
| Signal runner | `app/runner.py` | `app:runner:lock` | BRPOP, strategy check, execution |
| Strategy engine | `strategy/engine.py` | `strategy:dedupe/cooldown/daily_count` | check |
| Risk engine | `executor/risk.py` | `claw:pause:*` | rules 0-4, killswitch |
| Executor | `executor/core.py` | `claw:idempo`, `order:*`, `claw:order_meta:*`, `claw:buy_pending` | lock the signal, build, place, record |
| Order watcher | `app/order_watcher.py` | order status, `first_seen_ts`, cancel back-off | poll every second: reconcile (KR), query (US, COIN), book fills (US, COIN), cancel old BUYs |
| Position exit runner | `app/position_exit_runner.py` | position hash and index, `exit_lock`, `exit_order`, `fill_dedupe`, `trail_hwm` | poll every 30 s: copy holdings, discover fills, sell |
| Upbit exit monitor | `app/upbit_ws_exit_monitor.py` | the same keys, for COIN | sell on a ticker |
| Position engine | `scripts/position_engine.py`, `portfolio/*` | `claw:fill:queue`, `trade_dedupe`, position, PnL, DLQ, streak | book a fill, retry, DLQ |
| DLQ redrive | `scripts/retry_dlq.py` | DLQ | requeue |
| Market data | `market_data/*` | marks, volumes, unrealized PnL | fetch, recalculate |
| Telegram bot | `app/openclaw_bot.py` | offset, `ops:tg:seen`, pause, config keys | pause on/off, set, reports |
| Daily report | `scripts/daily_report_runner.py`, `app/performance_reporter.py` | reset and report marks, `perf:daily`, realized PnL | daily reset, PnL sync, report, tuning |
| Broker clients | `exchange/*`, `market_data/kis_feed.py` | `kis:access_token` and its lock and block | orders, holdings, account |
| COIN shadow and research | `app/coin_shadow.py`, `app/coin_type_b_*.py`, `app/coin_research.py` | shadow positions, alternative profiles | replay a signal that was not traded |
| News, watchlists, backtester, scripts | `news/*`, `app/*watchlist*`, `app/backtester.py`, `scripts/*` | their own keys | feed prompts and symbols, report |

How they interact: verdicts and trends become signals, signals flow through
`claw:signal:queue` to the runner, orders to the broker, executions back through
the broker's holdings or order query into fills, and fills through
`claw:fill:queue` (or a direct call from the watcher) into positions and PnL.
Positions and PnL feed back into the risk rules and the exits, and exits set the
cooldowns the signal runner reads. No process waits for another; every coupling
is a key, a TTL or a poll.

What must be true of each:

- **signals**: one per verdict, within the caps of the day, not during a
  cooldown, a daily stop or a pause; no verdict left unread;
- **order path**: one order per signal, one position per symbol, no more
  positions, signals or losses than configured, a pause stops trading, and a
  kill does not stop it for good;
- **exits**: one sale at a time, never more than is held, every sale is booked
  once and at its price, Redis follows the broker's holdings, every position ends;
- **fill ledger**: a fill is booked once, none is lost, quantity and PnL are the
  sums of what was booked, a position is never negative, the index names the
  held symbols, and every fill ends booked or in the DLQ;
- **days**: the killswitch outlives midnight, the realized PnL returns to the sum
  of the day, tuning happens once a day;
- **token**: what is shared is accepted by KIS, and no process loses it for good.

The hazards are listed with their lines in `PROJECT.json`.

## 2. The modules

| Module | Models | Size of the step |
|---|---|---|
| `SignalFeed` | dual evaluator and consensus runner, and who writes the runner's keys | one Redis command another process can tell apart; one call to Upbit or Claude |
| `TradeRules` | the evaluator's and the runner's gates, order size, exit rules, and their copies | one decision |
| `OrderGate` | runner, strategy engine, risk engine, executor, and what moves around them: watcher, bookings, reset, operator | one Redis command or request |
| `ExitSync` | exit runner, watcher, executor and broker around one symbol of KR or US | one Redis command or broker request that another process can tell apart; a fill is booked in one step |
| `CoinExit` | the same for a coin, with the Upbit exit monitor as a second seller | as in `ExitSync` |
| `FillLedger` | position engine, repository, DLQ, redrive, and everyone else who writes the same hashes: the watcher that books too, `recalc_unrealized` of the updater, the exit poll that copies holdings | one Redis command |
| `FillBook` | what they promise together: a trade is booked whole, once, and only keys two processes met at may change otherwise | one booking |
| `DayBooks` | daily report, the bookers (position engine; the watcher for COIN), the updater (KR), risk engine and bot around the PnL hash and the pause key | one command on a key that is shared |
| `KisToken` | `KisClient` and `KisFeed` sharing one token | one Redis command or request |
| `MC*` | values of the constants for TLC | |
| `*Proofs` | theorems about the module they are named after | |

They cut the loop signal - order - execution - fill - position at the two queues
and at the broker. `ExitSync` and `CoinExit` use the result of `FillLedger` (a
fill is booked once, in one step) and take the quantities it books apart;
`OrderGate` uses the result of both (positions open and close) and takes the
decisions before the order apart; `SignalFeed` takes over where the signals come
from, and `TradeRules` says which of its free choices the rules allow. What each
module treats as one step or as a free choice is said at its top.

Common conventions. `pc` says which command a process issues next; what it has
read lives in a variable of its own, so a read and the write that depends on it
are two steps. Redis keys are variables; a TTL is an action that removes the
key. Every module has a variable `env`, drawn at `Init` from the constant
`Scenario` and never changed: the market and the limits a process reads when it
starts, what arrives, the bounds, and what may go wrong. One run therefore
checks several environments, and a property that is only promised in some of
them says so in its text (`SentOnce => ...`, `LockHolds => ...`). Except in
`SignalFeed`, `TradeRules`, `DayBooks` and `KisToken`, where the order of a few
times matters and is kept with small numbers, times are not counted: an
assumption about time (a poll is faster than a TTL, an answer is not late) is a
member of the set `Weakness`, and `env.weak` says which of them are given up. The
definitions named `X_Something` before a definition `Something` are variants of
it with one typical mistake; they show that the runs would find it.

### SignalFeed

The evaluator's `EvalLoop` / `EvalSave` (daily call cap, verdict stored for seven
days) and the runner's loop: the mark `consensus:seen`, the limits and gates, the
cooldown, LPUSH, the undo when LPUSH raises, the counters; then Type B with its
ticker, the canary and the question to Claude. Exits of every reason and
cancelled BUYs write the cooldown, the daily stop and the stop count between any
two steps; a pause, a midnight, a kill or an LPUSH whose reply is lost can come
anywhere. `CountRaises` is the snapshot or INCR that raises after the LPUSH: main
logs it and the signal stays uncounted. Time passes while the gates ask the
broker for the cash and while Claude is asked. Keys with a TTL hold the ticks
they have left.

### TradeRules

One trade after the other in one market: `EvalPrefilter`, the Type A gates
(`SurgeThreshold`, `VolumeGates`, `MomentumGates`), Type B's `TrendGates`,
`TickGates`, `TypeBGate`, the size of the order, then the exit rules of both
sellers over the prices of the position, and `coin_shadow`'s replay of the same
prices (its own sampling of the price history, and what it reports of one without
an end, is left out). Rates are in basis points, rules are lists of condition and reason of
which the first that applies decides, as in the code.

### OrderGate

`Start`, `Loop`, `Pop`, then `StrategyEngine.check` (`Dedupe`, `Cooldown`, `Cap`,
`Mark`), `RiskEngine.check` (rule 0's two reads `PauseRule` and `MarketPauseRule`;
`Held`, the family mode and rule 1; `CountHeld` and `Scan`, the two reads of rule
2; `Loss`, `Cash`) and `execute_signal` (`Idempo`, `Build`, `Place`, `RecordKey`,
`RecordMeta`). IBKR's `place_order` may answer FILLED or CANCELED at once, and the
order key then says so (`at_once`): nobody watches such an order. Around
it: kills and SIGTERM, the lock's TTL, duplicates of a signal, executions,
bookings, exits, the watcher's `See` and `Close`, cooldown TTLs, the operator,
midnight and the daily reset. `trading:paused`, the third key rule 0 reads, is
written nowhere in the repository and therefore never set. The account's answer to rule 4, the signal's age
and the family mode are free choices.

### ExitSync and CoinExit

The poll is taken apart into the commands others can come between. In `ExitSync`:
`Fetch` or `FetchFails` (the holdings request), `ReadIndex` (SMEMBERS), then
for a symbol that is held `Discover` - `WriteHolding` (HSET) - `AddIndex` (EXPIRE,
SADD), and for one that is not `Missing` (`buy_pending`) - `Gone` (the hash) -
`ClaimSale` (SET NX) - `PushSale` - `RemovePosition`; then `Evaluate` - `TakeLock` -
`PlaceSell` - `RecordSell`. `RecordSell` writes SUBMITTED whatever IBKR answered,
as `_place_sell` does (`app/position_exit_runner.py:557-566` tells only REJECTED
apart). `CrashExitRunner` leaves the process down, because the next one exits until
`exit_runner:lock` of the dead one has run out; `Restart` is the cleanup of the one
that stays. Beside the poll run the executor's `PlaceBuy`/`RecordBuy`, the watcher's
`WatchKR` and `WatchUS`, the broker's `FillOrder`, `Settle` (the holdings request
catches up) and `EndOrder`, and the TTLs `LockExpires`, `PendingExpires`,
`HashExpires`. Which exit rule fires is a free choice: a sale can be decided at any
poll.

`CoinExit` has the same for a coin. The runner looks at the lock (`Evaluate`) and
then raises the trailing high (`Raise`); the monitor, which goes by a position it
`Scan`ned up to 30 s ago, raises it first (`Ticker`) and looks then (`Look`). A
booking that opens a position sets the high as `save_position` does. There are
the watcher that books what Upbit executed, and coins of the account's owner that
claw never bought.

### FillLedger and FillBook

`PushFill` (LPUSH), `PopFill` (BRPOP and parse, junk to the DLQ), then
`apply_fill` command by command: `CheckDup`, `ReadPosition`, `ClaimTrade`
(`trade_dedupe` SET NX), `RecordTrade`, `SavePosition`, `IndexPosition`,
`ReadPnl`, `WritePnl`, and for the engine `UpdateStreak`. `EngineFails` is the
exception path with retry and DLQ, `Crash` a kill, `TakeDead`/`RequeueDead` the
redrive. Three more processes write the same hashes: the watcher runs the same
`apply_fill` for US and COIN orders, the updater's recalculation reads and
rewrites the PnL hash, and the exit poll (`SyncPositions`: `MirrorHolding`,
`ListHolding`, `DropHolding`, `HashLapses`) puts what the broker reports in place of
what was booked, at any time and with any of the `Holdings`; when it does so and
with what is the subject of `ExitSync`. Quantities, prices and fees are small
integers; the average price is rounded down, where the code keeps decimals.

The code takes no lock around these read-modify-writes, so bookings can get lost.
The history variable `raced` names the keys (a symbol's position, or the PnL) that
one process wrote while another held a read of it, and the properties say that
nothing else loses anything: `OnlyRacesLose` compares each position that is not
raced with `net`, the broker's last word plus everything booked since, and
`realized_pnl` with `earned`.

`FillBook` books a trade in one step. `FillLedger` implements it
(`ImplementsBook`) in every environment, with failures, kills and all writers: the
abstract booking is `SavePosition`; what a booked sale has still to add to
`realized_pnl` is `owed`, and paid once; the index may only be changed to agree
with the position; and a step of other processes may change a position or the PnL
only where the key is raced, or the exit poll mirrors the symbol.

### DayBooks

Days of five slots (00:00, the morning, 08:55, the session, from 15:40). The
report runner's branches (`SyncCompute`, `SyncWrite`, `SendReport`, `MarkSent`,
`AutoTune`, `ResetDailyCap`, `ZeroRealized`), `RecordTrade`, `ReadPnl` and `WritePnl`
of a sale booked by position_engine or, for COIN, by the watcher (each reads and
writes the sums twice: `update_pnl`, then `recalc_unrealized`), the updater's
`RecalcRead`/`RecalcWrite` in KR (it polls no coins), the risk engine's `Rule0` and
`Rule3` with the killswitch, the generator's `AutoPause`, and the bot's
`GetUpdates`, `SeenUpdate`, `Dispatch` with Telegram's redelivery. What may raise is
in `env.failing`: a sync that raises is logged at the top of the loop and ends the
midnight branch, a report of COIN that raises ends that branch before the reset
and the second sync, one of KR is followed by the tuning all the same.

### KisToken

A request goes through `EnsureToken`, `TakeLock` or `WaitForShared`, `PostToken`,
`Denied`, `StoreToken`, `Call` and, when refused, `Reread`. A SET in `StoreToken` that
raises is swallowed, and the process goes on with a token of its own. The lock is
the process that took it last: with `env.slow` a POST outlasts its 15 s (`timeout=10`
is 10 s to connect and 10 s for each read), a second process asks too, and either
deletes whichever lock there is. A token is its age in hours; `Tick` is an hour, in
which every process ends a request at least.

## 3. What the runs show

| Run | Properties | Environments |
|---|---|---|
| `ledger` | `TypeOK`, `AtMostOnce`, `NeverShort`, `OnlyRacesLose`, `LostOnlyAfterClaim`, `EveryFillSettles`, `ImplementsBook` | the engine alone, four fills in every order and one redriven; every command may fail, a junk item; kills; three processes and one trade delivered to two of them, with a kill; two booking processes whose commands fail; the exit poll that writes the broker's holding, and is killed, beside engine and updater |
| `exit_sync` | `TypeOK`, `LockGuardsSales`, `NoSaleMissed`, `IndexedIsKept`, `Converges` | KR with partial fills, a kill and an outage; KR with partial fills and a slow engine; KR with an expiring lock and two SELLs; US with lag and a slow engine; US with lag and a BUY that outlives `buy_pending`; US with outages; US with a kill; KR with two BUYs at once, lost replies and a kill; KR with nearly everything at once |
| `order_gate` | `TypeOK`, `SignalOrderedOnce`, `DailyCapKept`, `OneBuyPerSymbol`, `LimitKept`, `TradingStops`, `QueueServed` | two runners with a lapsing lock, a kill, lost replies; the same with a brief cooldown; two runners at the cap over midnight; BUY, EXIT and BUY of one symbol; rule 2 at its limit; pauses and resumes; a pause, and a loss on a position held from the start; orders executed or cancelled at once; two kills |
| `signal_feed` | `TypeOK`, `VerdictSentOnce`, `CapsKept`, `CooldownsStand`, `StoppedOut`, `PauseEndsLoop`, `VerdictsHandled` | Type A under kills, pushes and counts that raise; exits of every kind; Type B and the canary under stops and kills; the same with pushes that raise; both families, a pause and midnight; Type A and a pause while time passes; shadow mode |
| `coin_exit` | `TypeOK`, `BoughtIsWatched`, `SalesBookedOnce`, `SalesPriced`, `FreshHigh`, `PositionEnds` | the runner alone with partial fills; alone and everything late; alone and BUYs early; both sellers; both with a kill and a failing request; the owner's coins |
| `rules` | `EntryIsSound`, `CopiesAgree`, `StopNeverLoosens` | KR, US, COIN with rates and prices on both sides of every threshold, and what an operator may set |
| `day_books` | `KillswitchHolds`, `TunedOnce`, `RealizedSettles` | two sales beside the report runner with a kill; one of position_engine and one of the watcher; syncs and reports that raise; a sale in KR beside the updater; a loss at the limit with the operator and the generator; commands redelivered to a killed bot; KR's reports and tuning with kills, with reports that raise, with syncs that raise and a kill, at a weekend |
| `kis_token` | `TokenIsShared`, `TokenReturns` | two clients and a feed: a lost request or answer, or a SET that raises; a kill; a revocation; a POST that outlasts the lock |

All invariants of these runs are theorems too, and so are `StopNeverLoosens` and
`ImplementsBook` (section 4); the liveness properties are not.

Runs that end in a violation are statements of the repository's docs, comments
or tests that the code does not keep; `PROJECT.json` quotes each under
`findings`:

- `ledger_loss`: a command that fails after the claim of `trade_dedupe` loses the
  fill, retried or not;
- `exit_us_buy_twice`: one execution is booked twice under two ids;
- `gate_retry`: `place_order` of KIS is posted again after a timeout;
- `coin_volume`: the day's volume of a coin is the text of a float, which the
  volume filter cannot read and lets pass, also for a coin without history.

### What giving up an assumption does

Tried on the models and not kept as runs. In the ledger:

- without the exception for raced keys `OnlyRacesLose` fails: two processes that
  book overwrite each other's position, the poll overwrites a booking with the
  holding from before it, and `recalc_unrealized` writes an old `realized_pnl` back
  over a booked delta.

In KR and US exits:

- a SELL that is still open when the 60 s of `exit_lock` are over gets a second
  one beside it; IBKR, which has no TTL for SELLs in the watcher, sells short;
- a discovered KR holding shows twice its quantity until the next poll, and is
  booked doubled if it is sold before that;
- the US lock is released on Redis' word alone, and TLC finds three ways to a
  second SELL, which `LockHolds` excludes: a SELL that is cancelled after a part of
  it was executed is CANCELED for the runner, which sells the whole cached
  quantity again (`partial` with `sell_cancel`); a poll that falls back to Redis
  because the holdings request fails sells a quantity Redis still shows; a restart
  while the holdings lag finds the symbol outside the index and deletes the lock
  of an open SELL. In KR one kill with failing requests, or any number of kills
  without, are harmless while the engine keeps up (`Prompt`); with two kills, a
  failing request and a BUY filled in three pieces TLC finds two open SELLs;
- a sale may be missing from the books of a symbol that is sold out
  (`NoSaleMissed`) where its position is not one BUY (`two_buys`: two SELLs empty
  it, and only the last of them is `exit_order`), and in the US where the lock does
  not hold (`lock_expiry`, or failing requests): IBKR takes a SELL of what is sold
  already and fills it against the next BUY, before there is a position to book it
  on. TLC needs six orders for that, more than the run has; `Steady` excludes it;
- with partial fills or an engine a poll behind, Redis need not come to rest at
  the holding (`Converges`); a partly filled KR BUY is closed as FILLED and its
  rest left open.

In COIN exits:

- the monitor deletes `exit_order` right after its sale, so a poll that comes
  before the watcher has booked it books the sale at the average price: PnL 0,
  and the killswitch does not see the loss (`SalesPriced` without `~monitor`);
- a BUY cancelled after a part of it was executed is never booked, and a balance
  read between two parts shrinks the position to the first; so does one read
  before the BUY where the owner has coins of the kind: claw sells as many as the
  owner had, and the rest of the BUY leaves the index (`BoughtIsWatched` without
  `own = 0`: own 1, lot 2);
- a BUY whose `buy_pending` runs out before it is booked is taken for a sale
  (`pending_expiry`), and a BUY placed before the last sale is polled and booked
  lets that poll take the new coins for unsold ones and that sale close the new
  position (`early_rebuy`: with a third BUY more is booked than was sold);
  `SalesBookedOnce` and `SalesPriced` exclude both (`SalesExact`);
- a SELL Upbit closes after the balances were read gives the coins back to a
  position the same poll removes: they stay in the account, outside the index
  (`BoughtIsWatched` without `outages = 0`);
- once a coin is indexed, coins of the account's owner are sold with it; Upbit
  refuses what exceeds the free balance;
- a BUY booked before the monitor's clean-up of the last sale loses the high its
  booking set, and the monitor's next ticker writes one from the position it still
  has cached (`early_rebuy` of `FreshHigh`, with the monitor); the monitor's
  stop-loss does not set the long cooldown the runner's does.

In the order path:

- rule 2 does not count an order nobody polled yet (`unseen`), nor one booked
  between its two reads (`booking`), nor one whose key IBKR's answer made FILLED
  and whose fill is not booked yet (`at_once`);
- the global pause, the market's and the loss limit are read one after the other,
  and `TradingStops` counts each by itself: whoever replaces the market's pause by
  the global one lets a runner that is between the two reads place an order, after
  the one that was past the market's pause already;
- a runner whose pass outlasts 120 s gets company (`slow_loop`), and a reset after
  the day's first signals starts the count again (`reset`).

Before the signal:

- an exit that falls between the runner's check of the cooldown and its last
  write has its longer cooldown overwritten, or deleted when LPUSH raises
  (`raced`); Type B does not look at the cooldown exits set;
- an LPUSH whose reply is lost, a kill before INCR, or a snapshot or INCR that
  raises, leaves a signal uncounted (`ghosts`, `crashes` in `CapsKept`); a DEL of a verdict found stale can delete
  the fresh one that has replaced it.

In the rules:

- a stop 1.5 % below a US price of up to 33 cents is rounded to the price itself, so
  that the position may be stopped out at its entry price (`NoCentBelow`);
- 7-day volume keys of KR live 25 h, so there is at most yesterday's sample;
- KR's take-profit at +3 % never fires: trail-only mode switches it off at +2 %;
  only a `take_pct` set below that can;
- a trailing width below the tightened one, set by an operator, makes passing
  +5 % loosen the stop, which `StopNeverLoosens` excludes;
- the smallest COIN order, 4000 won, is below Upbit's minimum of 5000.

Of the day:

- `auto_tune` raises a stop of 1.5 % to 2.5 % where its message says tightened,
  counts a day without trades as one without wins, and runs every minute if KR's
  report raises;
- `pause on` over the killswitch's pause replaces it by one that ends at midnight;
- a trade dated yesterday that is booked after the 00:00 report reaches neither
  day; `<>[]` instead of `[]<>` in `RealizedSettles` fails, because every new
  price can write an old sum back; a kill between the reset's mark and its zero
  skips the reset of that day; a kill between `seen` and the command loses it.

Of the token:

- the token KIS refuses stays in `kis:access_token` until its 23 h are over: the
  retry after a 401 takes it again, so that after a revocation every process
  waits for the TTL;
- the retry of 30 s is shorter than KIS's minute: a lost answer leads to a 403 and
  to the hour in which nobody asks; the lock stays after a failure; a client's
  own retry looks at neither of the two keys.

### Bounds

Every unbounded thing has a bound, in `env` or as a constant: `fills`, `orders`,
`crashes`, `redrives`, `Holdings` (what the broker may report), `MaxRetry` (the
code's 3 cut to 1) in the ledger; `orders`,
`lot`, `crashes`, `outages` in `ExitSync`, and `buys` in `CoinExit`; `pushes`,
`orders`, `moves`, `switches`, `crashes` in `OrderGate`; `MaxEval`, `LastDay`,
`ticks`, `exits`, `fails`, `pauses`, `midnights` in `SignalFeed`; `LastDay`,
`fills`, `sends`, `crashes`, `raises` in `DayBooks`; `losses`, `crashes`,
`revokes` in `KisToken`. They are chosen so that each race has room: two
processes for a race on one key; a fill, its duplicate and one more of the same
symbol; a buy, its sale and the next buy of the symbol; one signal more than the
limit allows; a verdict that outlives the mark that it was handled; three
processes, one of which asks for a token, one waits and one has the old one.
`lot = 2` is the smallest quantity that can fill in part. A single symbol is
enough in `ExitSync`, `CoinExit` and `SignalFeed` because symbols share no key
there but the canary's and the evaluator's counters, which one symbol can bring
to their caps as well; more are used where an index or a limit spans
them. `TradeRules` is bounded by the rates and prices it considers, one on each
side of every threshold. The theorems of section 4 do without any of these
bounds.

`CHECK_DEADLOCK FALSE` stands in the configurations whose inputs are a finite
set and whose processes have nothing left to do when they are used up: the
two of the ledger and `MCFeed`. The other models poll for ever and are checked for
deadlock.

### Fairness

Liveness is checked under weak fairness of what supervisord and the loops keep
running: the engine's and the watcher's commands in `FillLedger`; the exit
runner's poll and restart, and the steps that book a fill, in `ExitSync`; both sellers, the
watcher and the engine in `CoinExit`; the start and the work of each runner, the
TTL of its lock and the watcher's poll in `OrderGate`; evaluator and runner in
`SignalFeed`; the report runner, the engine and the updater in `DayBooks`; each
process, the TTLs and the hours in `KisToken`. The TTLs of `ExitSync` and
`CoinExit` get strong fairness, because every poll may set the key again, and so
does the monitor's `Scan` that changes its cache: it runs every 30 s, between two
tickers. `CoinExit` also assumes that Upbit executes market SELLs and that the
time limit of a position comes. No fairness is assumed of failures, kills, the
operator, KIS's and IBKR's executions, prices or the arrival of signals. A TTL that
the code sets does expire; nothing is assumed about when.

### Assumptions about time

Each is a member of `Weakness`, and is assumed unless `env.weak` gives it up.

| Name | What is otherwise assumed |
|---|---|
| `lock_expiry` | a SELL ends within `exit_lock`'s 60 s |
| `pending_expiry` | a BUY ends within `buy_pending`'s 300 s |
| `slow_engine` | a fill is booked before the next poll, 30 s later (COIN: within the 60 s of a removed position) |
| `early_rebuy` | no coin is bought before everything of its last sale is gone |
| `lag` | holdings show every execution at once |
| `partial`, `lost_reply`, `sell_cancel` | see the comments in `ExitSync` and `CoinExit` |
| `slow_loop` | a pass of the runner takes less than 120 s |
| `unseen` | the watcher has polled an order (1 s) before the next rule 2 |
| `booking` | nothing is booked between the two reads of rule 2 |
| `at_once` | `place_order` answers SUBMITTED (IBKR may say FILLED or CANCELED) |
| `short_cooldown` | an order ends within its symbol's cooldown |
| `reset` | the daily reset runs before the day's first signal passes |

`SignalFeed` and `KisToken` state the order of their times as ASSUMEs
(`FeedTimes`, `TokenConstants`).

## 4. What is proved

The theorems hold for every value of the constants; tlapm checks them. They
assume the named ASSUMEs of the modules and nothing else: the constants and
environments have their types, `None` is no number (`RuleConstants`), the runners
are finitely many (`GateConstants`), and the times of the token and of the signals
are in the order the code sets them in (`TokenConstants`; `FeedTimes`, which also
says that the age limit for emitting a verdict is at most that for holding it). A
property that is promised under a condition (`SentOnce => ...`) is proved under
that condition, because the condition is part of it.

The proofs have one shape. `EnvFixed`: the environment never changes. Then an
inductive invariant, proved for each action of `Next`, with the type invariant as
its first part. The property follows from it. What makes each of the others
inductive is told here; their text is in the proof modules.

`FillLedgerProofs`:

- `TypeCorrect`: `TypeOK`, with what a process has in hand at each label.
- `BookedAtMostOnce`: `AtMostOnce`. `ClaimInv`: a process between the claim and the
  end of the booking owns the trade_id it claimed, no two own the same, and what
  has been booked is claimed. SET NX hands an id to one process; nothing removes
  it.
- `CashOnly`: `NeverShort`, from the clamp in `_apply_sell`, whatever the snapshot
  is worth.
- `BooksUnlessRaced`: `OnlyRacesLose`, with all four processes and every environment.
  `BooksInv`: what a process read of a key nobody raced is still there until it
  writes (`PositionKept`, `PnlKept`); the PnL to be booked is the one the sale
  earns on what was read; a claimed trade is settled once, by the process that
  claimed it, and with the amount its own hash says (`Unsettled`, which needs
  `ClaimInv`: no two bookers own the same id); and where nothing fails, what is
  missing in `realized_pnl` or in the index is on its way (`OnItsWay`). A write
  of another process while such a read is held puts the key into `raced`, which is
  the case where the invariant says nothing, so what remains to be shown of each
  step is that it leaves every other key alone. That realized_pnl may be raced only
  where the watcher books or the updater runs, and a position only where the
  watcher books or the poll mirrors it, is part of it: the engine alone, however it
  fails or is killed, never races.
- `LostAfterClaimOnly`: `LostOnlyAfterClaim`. `ReachInv`: until its id is claimed a
  pushed fill is on a list, between two lists, or with the engine; and where no
  command raises, a claimed id is booked or owned.
- `LedgerImplementsBook`: `Spec => ImplementsBook`, the refinement of `FillBook` by
  all processes in every environment. It rests on the three invariants above and
  on `FillsKnown` (whatever is on a list or in hand is a fill that arrived).
  `SavePosition` is the abstract booking, on the position as it stands where the key
  is not raced; `WritePnl` is the payment of what is owed; `IndexPosition` brings
  the index to the position; the poll's steps are steps of a mirrored symbol;
  every other step is a stutter.

`OrderGateProofs`:

- `TypeCorrect`: `TypeOK`; a runner past BRPOP has a signal, and every order stems
  from one.
- `NoDuplicateOrders`: `SignalOrderedOnce`. `SignalInv`: a runner past SET
  `strategy:dedupe` NX owns its signal alone, and no order for it exists until that
  runner places it. Neither the runner's lock nor the executor's idempotency key
  (which is deleted when `place_order` raises) is needed. With two requests TLC
  refutes it (`gate_retry`).
- `CapHolds`: `DailyCapKept`. `CapInv`: what passed today is in the count.
- `OneBuy`: `OneBuyPerSymbol`. `BuyInv`: one runner at a time (`Mutex`); a symbol with
  an outstanding BUY is in its cooldown and not held; past the cooldown check the
  runner's symbol has no outstanding BUY, past rule 1 it is not held, and from
  `_set_cooldown` on its cooldown runs.
- `StopsTrading`: `TradingStops`. `StopInv`, once for each of the three stops (the
  global pause, the market's pause, the loss limit): the LONG orders placed since the
  stop and the runners that are past the read of that rule with a LONG signal
  (`Late`) are together at most all runners, because nobody comes past the read
  while the stop stands (`Enters`) and each late order uses one of them up
  (`Spent`).
- `PositionsLimited`: `LimitKept`. `LimitInv`: every BUY on the way has both its keys,
  or the one runner is at writing them, so rule 2 counts it; between its two reads
  the count of the first still holds; a LONG signal past
  rule 2 leaves room for one more symbol.

`SignalFeedProofs`:

- `TypeCorrect`: `TypeOK`, the TTLs and the calls of every day included.
- `VerdictOnce`: `VerdictSentOnce`. `VerdictInv`: a verdict of which a signal was
  pushed or is being made is marked; once its mark has expired it is too old,
  because its age and what is left of the mark never add up to less than the
  mark's TTL.
- `CapsHold`: `CapsKept`. `CapInv` and `CanaryInv`: who may still send has one left,
  and what was sent is counted, is about to be, or fell to a kill, a lost reply or a
  count that raised.
- `CooldownsHold`: `CooldownsStand`. `CoolInv`: past its check of the key the runner
  works on a symbol that nothing holds back, unless an exit came since (`raced`).
- `StopsOut`: `StoppedOut`, and `PauseHolds`: `PauseEndsLoop`. A late push is the
  first one: `LateInv` says that the runner took the symbol up below the stop
  count, `PauseInv` that a symbol the loop has published is off its list.

`ExitSyncProofs`:

- `TypeCorrect`: `TypeOK`; a SELL books no more than the position.
- `IndexKept`: `IndexedIsKept`, unconditionally. `OrderInv`: the 60 s TTL is set with
  the removal from the index and lifted before the symbol is added again, and a
  fill of a BUY is positive.
- `SalesGuarded`: `LockGuardsSales`. Two invariants. `LockInv`: an open SELL has the
  lock and the holding behind it, is the only one, in the US is the one
  `exit_order` names, and no poll that looked before it is about to sell again;
  `listed` exceeds `held` only while that SELL's execution has not been seen.
  `PromptInv`, for KR with kills and outages: as long as a kill may still come or the
  exit runner is down, an open SELL's symbol is indexed, so the restart does not
  take the lock for a leftover.
- `SalesCounted`: `NoSaleMissed`. `MissInv`, one argument per market. In KR `WayKR`
  is the way of a position: bought and `Unseen`, written but not yet in the index
  (`Indexing`), `Holding`, `SoldOut` but still
  indexed with an exit order nobody has claimed, `Leaving` while the fill of the
  claimed sale is on its way, `Waiting` for the next BUY; what is sold and not
  booked (`Debt`) is positive in `SoldOut` and `Leaving` only, and the fill that ends
  `Leaving` books it. KIS' refusal is what keeps a second SELL away in `Holding`
  (`PromisedOne` computes its sum over open SELLs). In the US `LedgerUS`, on top
  of `LockInv`: a SELL that is open, or filled and not seen by the watcher, finds
  the position it will be booked on, and no other sale is in the queue.

`CoinExitProofs`:

- `TypeCorrect`: `TypeOK`. That the account is never overdrawn needs the sum of what
  open SELLs have locked, over any number of orders: `locked` is the `Total` of
  `LentBy`, with the running sums as its witness, so that one order's change moves
  the total by as much (`OneChanges`); no recursion is involved.
- `HighIsFresh`: `FreshHigh`. `FreshStart`: from the clean-up to the booking of the
  next BUY nothing of the last position is left (no index entry, no high, no
  cached position, no sale in the queue, no seller that would go on), and one BUY
  at a time is awaited; so the booking that opens a position sets its high, and
  no seller has an older one in hand.
- `SalesOnce`: `SalesBookedOnce`. `SaleInv`: while a BUY is alive there is nothing
  else (`BuyAlone`); the poll goes by a balance that is not above what is free and
  infers a sale only of coins that are gone (`PollSound`); and what SELLs may still
  be booked with by their own ids, summed with the same `Total`, is at most what
  was sold or is locked and is not booked (`Covered`). A sale inferred from the
  balance is clamped to the position, which is never more than that rest either.
- `SalesArePriced`: `SalesPriced`, on top of it. `Priced`: when nothing is free and
  a position is left, some order is on its way to be booked for all of it
  (`Carrier`): it is being recorded, or `exit_order` names it and its id is not
  claimed, or its fill is in the queue; a fill without a price stands behind such
  a one, so it finds the position at zero.
- `BuysAreWatched`: `BoughtIsWatched`. `WatchedInv`: one lot is bought, held and sold
  as a whole (`AllOrNothing`, `WholePosition`), the watcher alone books a BUY, and
  once (`BuysUnbooked`); so while coins are free the position is indexed or its BUY
  is still to be booked, and no sale is under way or inferred (`Unsold`).

`TradeRulesProofs`:

- `CopiesSaySame`: `CopiesAgree`, for every average, mark, high, age and settable
  parameter, not only those of the runs. `ReplayInStep`: where nobody sets
  parameters `coin_shadow`'s replay has the high of the position and ends with it.
- `StopHolds`: the action property `StopNeverLoosens`: the price at which a position
  is sold never moves away from it, by the lemma that a higher high never lowers
  the trailing stop.
- `EntrySound`: `EntryIsSound`. `EntryInv`: a verdict that waits has passed the
  evaluator's prefilter, whose thresholds are the runner's. That the stop is
  strictly below the entry follows from `NormalizePrice` market by market: KR's
  ticks round down, COIN's price is not rounded, and 1.5 % of a US price is more
  than half a cent above 33 cents; at 33 cents and below the stop is shown to be
  the entry.

`DayBooksProofs`:

- `KillswitchStays`: `KillswitchHolds`. `KillInv`: a command is remembered before it
  acts, so none acts twice, and nothing else ends a pause without a TTL.
- `TunedOnceADay`: `TunedOnce`. `TuneInv`, where KR's report does not raise: a day that
  is not marked as reported has not been tuned, and the pass that marked it is the
  only one that tunes.

`KisTokenProofs`:

- `TokenShared`: `TokenIsShared`, for any number of clients and feeds. `TokenInv` has
  two halves. While KIS has revoked nothing, a token in Redis is at most as old as
  the key, and a client's token at most as old as the client believes (`Dated`), so
  the TTLs end before KIS's 24 h do. And the token of the last minute is on its way
  to Redis, there, or lost (`Accounted`): a 403 without a token in Redis therefore
  follows a loss or precedes a SET that clears the block. The lock has no part in
  either: it may lapse while its holder asks.

Only model-checked: the liveness properties (`EveryFillSettles`, `Converges`,
`QueueServed`, `VerdictsHandled`, `PositionEnds`, `RealizedSettles`,
`TokenReturns`), since liveness under fairness and ENABLED are beyond the proof
system's backends.

The proofs also corrected the model. `SalesBookedOnce`, `BoughtIsWatched` and
`NoSaleMissed` were first stated under conditions too weak for more orders than a
run has; the step that could not be proved showed which, TLC confirmed it in a
larger environment, and section 3 names what is excluded now.

## 5. What is not modelled

- The news pipeline only feeds prompts with text; the watchlist selectors rank
  symbols by price data and write a set that the signal runners read. Neither
  reads back anything the core writes.
- `ai_eval_runner` and the advisor only log; `signal_generator_runner` is an older
  producer of the same queue. Prompts, answers and their parsing are free choices.
- The statistics of `coin_research`, the reject insights, the backtester, the
  reports and the operation scripts observe and hold no trading state.
- Fetching of prices is I/O: the models take prices, rates and marks as given.
  The readers of the price history differ between generator, runner and gates in
  how they pick the sample of five minutes ago; here it is one rate.
- Of the KIS client, the back-off of prices; of the watcher, the back-off of
  cancels; of the repository, the TTL clean-up of the index and the 30 days of
  `trade_dedupe`: a fill delivered again later than that, by the redrive of an old
  dead letter, would be booked twice.
- `position_engine:lock`, which a killed engine leaves for up to 120 s, is an engine
  that is idle for a while, which any process in `FillLedger` may be.
- Reads stay in one step where no writer of the model can tell the difference:
  the family mode and rule 1 in `Held` (the mode is a free choice), HSET and EXPIRE
  of the poll in `FillLedger` (in `ExitSync` they are apart), the poll's reads of
  `exit_order` and its metadata with SET NX in `ClaimSale` (only the exit runner
  itself writes the former in KR and US). A hash that is about to expire is not
  taken between the poll's HSET and its EXPIRE, a window of one command within 60 s,
  unless `slow_engine` gives that up.
- When `position_engine` empties a position between the poll's HSET and SADD, the
  symbol is indexed without a hash until the next poll, in the code and here.
- Errors of Redis are modelled in the ledger, the signal runner, the daily report
  and the token, where the code catches them and goes on in the middle of its work;
  elsewhere only kills cut a sequence of commands short.
- Formats, logging and notifications are left out throughout. Decimal arithmetic
  is integer arithmetic; tick tables, which differ between the signal runner and
  the KIS client, are not modelled. Redis is taken as reliable and sequential: a
  command happens or raises.

## 6. Plan

What is left, in this order:

1. Proofs: an abstract specification of a position's life, with the phases of
   `WayKR` as its states, that `ExitSync` implements where `Steady` holds, as
   `FillLedger` does `FillBook`; and the conditions under which a KR BUY is booked
   once.
2. The cancel back-off of the watcher, and a cancel that races an execution.
3. `SignalFeed` and `OrderGate` composed at the signal queue.
