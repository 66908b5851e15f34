------------------------------- MODULE OrderGate -------------------------------
(***************************************************************************)
(* From claw:signal:queue to the broker, for one market: the runner pops a *)
(* signal, the strategy engine (dedupe, cooldown, daily cap) and the risk  *)
(* engine (pause, held symbol, concurrent positions, killswitch, cash)     *)
(* judge it with one Redis command after the other, and the executor       *)
(* places the order.  Beside it run the order watcher, the booking of      *)
(* fills, the daily reset, and the operator who pauses and resumes.        *)
(* Left out: reject records and counters nobody's decision reads, the AI   *)
(* advisor (its answer is logged), the wording of rejections.              *)
(***************************************************************************)
EXTENDS Integers, Sequences, FiniteSets, FiniteSetsExt

CONSTANTS
  Runner,      \* runner processes
  Symbol,
  Signal,      \* signal ids
  Long,        \* the signals whose direction is LONG; the others are EXITs
  LossLimit,   \* -daily_loss_limit
  MaxOrders,   \* bound: orders the broker takes
  Scenario     \* the environments considered, one of which is drawn at Init

Weakness == {
  "slow_loop",   \* a pass of the runner takes longer than its lock's 120 s
  "lost_reply",  \* the broker's answer to an order is lost
  "unseen",      \* rule 2 runs before the watcher's poll (1 s) saw an order
  "booking",     \* a fill is booked between rule 2's two reads
  "short_cooldown", \* an order is open for longer than the symbol's cooldown
  "at_once",     \* place_order may answer FILLED or CANCELED (IBKR)
  "reset"}         \* _reset_daily_cap runs after signals of its day have passed

(* What is given and never changes: the processes, the limits they read at *)
(* their start, what arrives and what may go wrong.                        *)
Environment ==
  [runners : SUBSET Runner,      \* the runners that may be started
   signals : SUBSET Signal,      \* the signals that may be pushed
   symOf : [Signal -> Symbol],
   held : SUBSET Symbol,         \* positions held at the start
   maxPos : Nat \ {0},           \* max_concurrent_positions
   dailyCap : Nat \ {0},         \* daily_cap
   attempts : Nat \ {0},         \* requests of one place_order: KIS 3, others 1
   pushes : Nat,                 \* bound: signals pushed, duplicates included
   orders : 0..MaxOrders,        \* bound: orders the broker takes
   moves : Nat,                  \* bound: changes of realized_pnl
   switches : Nat,               \* bound: pauses, resumes and days
   crashes : Nat,                \* bound: ends of a runner
   weak : SUBSET Weakness]       \* what may go wrong

ASSUME GateConstants ==
  /\ Long \subseteq Signal /\ IsFiniteSet(Symbol) /\ IsFiniteSet(Runner)
  /\ LossLimit \in Nat \ {0} /\ MaxOrders \in Nat
  /\ Scenario \subseteq Environment

OrderId == 1..MaxOrders

VARIABLES
  env,         \* the environment of this behaviour
  lock,        \* app:runner:lock
  lockTTL,     \* the lock key has a TTL
  queue,       \* claw:signal:queue, oldest first
  dedupe,      \* strategy:dedupe:* keys
  cooldown,    \* symbols with a strategy:cooldown key
  count,       \* strategy:daily_count of today
  idempo,      \* claw:idempo:* keys
  pause,       \* claw:pause:global: "none", "midnight" (has a TTL), "latched"
  marketPause, \* claw:pause:{market}
  pos,         \* symbols with a position, which is also the index
  realized,    \* pnl:{market} realized_pnl
  order,       \* orders: the broker's side and the order key and meta
  placed,      \* how many orders the broker has taken
  pc, sig,     \* of each runner: its next command, the signal at hand,
  open,        \*   SCARD of the index that rule 2 read,
  try,         \*   attempts of place_order so far,
  oid,         \*   the order it has placed
  pushes, moves, switches, crashes, \* counters of the bounds
  dayDone,     \* claw:daily_reset of today
  passedToday, \* history: signals the strategy engine let pass today
  afterPause,  \* history: LONG orders since the global pause was set,
  afterMarket, \* history: since the market's was,
  afterLoss    \* history: and since the loss limit was reached

strategy == <<dedupe, cooldown, count>>
risk == <<pause, marketPause, pos, realized>>
broker == <<order, placed>>
local == <<sig, open, try, oid>>
bounds == <<pushes, moves, switches, crashes>>
afters == <<afterPause, afterMarket, afterLoss>>
history == <<dayDone, passedToday, afters>>
vars == <<env, lock, lockTTL, queue, strategy, idempo, risk, broker, pc, local, bounds,
          history>>

SymOf == env.symOf
Weak == env.weak

NoOrder == [sig |-> 0, buy |-> FALSE, state |-> "free", key |-> "none",
            meta |-> FALSE, seen |-> FALSE]

Init ==
  /\ env \in Scenario
  /\ lock = FALSE /\ lockTTL = FALSE /\ queue = <<>>
  /\ dedupe = {} /\ cooldown = {} /\ count = 0 /\ idempo = {}
  /\ pause = "none" /\ marketPause = FALSE /\ pos = env.held /\ realized = 0
  /\ order = [o \in OrderId |-> NoOrder] /\ placed = 0
  /\ pc = [p \in Runner |-> "down"]
  /\ sig = [p \in Runner |-> 0] /\ open = [p \in Runner |-> 0]
  /\ try = [p \in Runner |-> 0] /\ oid = [p \in Runner |-> 0]
  /\ pushes = 0 /\ moves = 0 /\ switches = 0 /\ crashes = 0
  /\ dayDone = FALSE /\ passedToday = 0
  /\ afterPause = 0 /\ afterMarket = 0 /\ afterLoss = 0

Sym(p) == SymOf[sig[p]]
SymOfOrder(o) == SymOf[order[o].sig]
IsLong(p) == sig[p] \in Long

(* BUYs the broker works on, or has executed and nobody has booked yet.    *)
Outstanding ==
  {o \in 1..placed : order[o].buy /\ order[o].state \in {"working", "executed"}}

Goto(p, label) == pc' = [pc EXCEPT ![p] = label]

(* A signal is rejected, or done with: back to the top of the loop.        *)
Next_(p, ok, label) == Goto(p, IF ok THEN label ELSE "loop")

-----------------------------------------------------------------------------
(* The runner's loop.                                                      *)

(* Mutant: the lock is set without a TTL.                                  *)
Start_NoTTL(p) ==
  /\ pc[p] = "down" /\ p \in env.runners
  /\ IF lock THEN UNCHANGED <<lock, lockTTL, pc>>
     ELSE lock' = TRUE /\ lockTTL' = FALSE /\ Goto(p, "loop")
  /\ UNCHANGED <<env, queue, strategy, idempo, risk, broker, local, bounds,
                 history>>

(* main: SET app:runner:lock NX EX 120; a second process exits.            *)
Start(p) ==
  /\ pc[p] = "down" /\ p \in env.runners
  /\ IF lock THEN UNCHANGED <<lock, lockTTL, pc>>
     ELSE lock' = TRUE /\ lockTTL' = TRUE /\ Goto(p, "loop")
  /\ UNCHANGED <<env, queue, strategy, idempo, risk, broker, local, bounds,
                 history>>

(* EXPIRE of the lock, which a lapsed one does not have, and the early     *)
(* check of the global pause, which sleeps.                                *)
Loop(p) ==
  /\ pc[p] = "loop"
  /\ lockTTL' = lock
  /\ Next_(p, pause = "none", "pop")
  /\ UNCHANGED <<env, lock, queue, strategy, idempo, risk, broker, local,
                 bounds, history>>

(* BRPOP.  An invalid signal, one older than 300 s and one that DataGuard  *)
(* blocks are dropped.                                                     *)
Pop(p) ==
  /\ pc[p] = "pop"
  /\ IF queue = <<>> THEN Goto(p, "loop") /\ UNCHANGED <<queue, sig>>
     ELSE /\ queue' = Tail(queue)
          /\ sig' = [sig EXCEPT ![p] = Head(queue)]
          /\ \E fresh \in BOOLEAN : Next_(p, fresh, "dedupe")
  /\ UNCHANGED <<env, lock, lockTTL, strategy, idempo, risk, broker, open, try,
                 oid, bounds, history>>

-----------------------------------------------------------------------------
(* StrategyEngine.check.                                                   *)

(* Mutant: the result of SET NX is not looked at.                          *)
Dedupe_Blind(p) ==
  /\ pc[p] = "dedupe"
  /\ dedupe' = dedupe \cup {sig[p]}
  /\ Goto(p, "cooldown")
  /\ UNCHANGED <<env, lock, lockTTL, queue, cooldown, count, idempo, risk,
                 broker, local, bounds, history>>

(* SET strategy:dedupe NX, 7 d.                                            *)
Dedupe(p) ==
  /\ pc[p] = "dedupe"
  /\ dedupe' = dedupe \cup {sig[p]}
  /\ Next_(p, sig[p] \notin dedupe, "cooldown")
  /\ UNCHANGED <<env, lock, lockTTL, queue, cooldown, count, idempo, risk,
                 broker, local, bounds, history>>

(* Mutant: the cooldown is not looked at.                                  *)
Cooldown_Skip(p) ==
  /\ pc[p] = "cooldown"
  /\ Goto(p, "cap")
  /\ UNCHANGED <<env, lock, lockTTL, queue, strategy, idempo, risk, broker,
                 local, bounds, history>>

Cooldown(p) ==
  /\ pc[p] = "cooldown"
  /\ Next_(p, Sym(p) \notin cooldown, "cap")
  /\ UNCHANGED <<env, lock, lockTTL, queue, strategy, idempo, risk, broker,
                 local, bounds, history>>

(* Mutant: the count before INCR is compared.                              *)
Cap_Before(p) ==
  /\ pc[p] = "cap"
  /\ IF count > env.dailyCap THEN Goto(p, "loop") /\ UNCHANGED <<count, passedToday>>
     ELSE count' = count + 1 /\ passedToday' = passedToday + 1 /\ Goto(p, "mark")
  /\ UNCHANGED <<env, lock, lockTTL, queue, dedupe, cooldown, idempo, risk,
                 broker, local, bounds, dayDone, afters>>

(* The Lua script: INCR, and DECR again beyond the cap.                    *)
Cap(p) ==
  /\ pc[p] = "cap"
  /\ IF count + 1 > env.dailyCap THEN Goto(p, "loop") /\ UNCHANGED <<count, passedToday>>
     ELSE count' = count + 1 /\ passedToday' = passedToday + 1 /\ Goto(p, "mark")
  /\ UNCHANGED <<env, lock, lockTTL, queue, dedupe, cooldown, idempo, risk,
                 broker, local, bounds, dayDone, afters>>

(* _set_cooldown, for a signal that passed.                                *)
Mark(p) ==
  /\ pc[p] = "mark"
  /\ cooldown' = cooldown \cup {Sym(p)}
  /\ Goto(p, "pause")
  /\ UNCHANGED <<env, lock, lockTTL, queue, dedupe, count, idempo, risk,
                 broker, local, bounds, history>>

-----------------------------------------------------------------------------
(* RiskEngine.check.                                                       *)

(* Rule 0: the global pause.  trading:paused, which it reads too, is       *)
(* written nowhere.                                                        *)
PauseRule(p) ==
  /\ pc[p] = "pause"
  /\ Next_(p, pause = "none", "market")
  /\ UNCHANGED <<env, lock, lockTTL, queue, strategy, idempo, risk, broker,
                 local, bounds, history>>

(* Mutant: the market's pause is forgotten.                                *)
MarketPauseRule_Skip(p) ==
  /\ pc[p] = "market"
  /\ Goto(p, "held")
  /\ UNCHANGED <<env, lock, lockTTL, queue, strategy, idempo, risk, broker,
                 local, bounds, history>>

(* Its next read: the market's pause, which an EXIT passes.  A canary      *)
(* family with a bypass counts as another market.                          *)
MarketPauseRule(p) ==
  /\ pc[p] = "market"
  /\ Next_(p, IsLong(p) => ~marketPause, "held")
  /\ UNCHANGED <<env, lock, lockTTL, queue, strategy, idempo, risk, broker,
                 local, bounds, history>>

(* The mode of the signal's family, which may be shadow or off, and rule   *)
(* 1, HGET of the symbol's position.  An EXIT skips both.                  *)
Held(p) ==
  /\ pc[p] = "held"
  /\ \E live \in BOOLEAN :
       Next_(p, IsLong(p) => live /\ Sym(p) \notin pos, "count")
  /\ UNCHANGED <<env, lock, lockTTL, queue, strategy, idempo, risk, broker,
                 local, bounds, history>>

(* The first read of rule 2, SCARD of the index.                           *)
CountHeld(p) ==
  /\ pc[p] = "count"
  /\ open' = [open EXCEPT ![p] = Cardinality(pos)]
  /\ Goto(p, "scan")
  /\ UNCHANGED <<env, lock, lockTTL, queue, strategy, idempo, risk, broker,
                 sig, try, oid, bounds, history>>

(* _recent_submitted_buy_orders: the BUYs with an order key, a complete    *)
(* meta and the watcher's first_seen_ts (their 900 s are never over).      *)
PendingBuys ==
  {o \in 1..placed : order[o].buy /\ order[o].key = "SUBMITTED"
                     /\ order[o].meta /\ order[o].seen}

(* Mutant: pending BUYs do not count.                                      *)
Scan_IndexOnly(p) ==
  /\ pc[p] = "scan"
  /\ Next_(p, IsLong(p) => open[p] < env.maxPos, "loss")
  /\ UNCHANGED <<env, lock, lockTTL, queue, strategy, idempo, risk, broker,
                 local, bounds, history>>

(* The second read of rule 2, and its verdict.                             *)
Scan(p) ==
  /\ pc[p] = "scan"
  /\ "unseen" \in Weak \/ \A o \in 1..placed : order[o].key = "SUBMITTED" => order[o].seen
  /\ Next_(p, IsLong(p) => open[p] + Cardinality(PendingBuys) < env.maxPos, "loss")
  /\ UNCHANGED <<env, lock, lockTTL, queue, strategy, idempo, risk, broker,
                 local, bounds, history>>

(* Rule 3, for EXITs too: apply_killswitch sets the global pause NX and    *)
(* without a TTL.                                                          *)
Loss(p) ==
  /\ pc[p] = "loss"
  /\ IF realized <= -LossLimit
     THEN /\ pause' = IF pause = "none" THEN "latched" ELSE pause
          /\ Goto(p, "loop")
     ELSE Goto(p, "cash") /\ UNCHANGED pause
  /\ UNCHANGED <<env, lock, lockTTL, queue, strategy, idempo, marketPause, pos,
                 realized, broker, local, bounds, history>>

(* Rule 4 asks the broker for the account: any answer, for a LONG.         *)
Cash(p) ==
  /\ pc[p] = "cash"
  /\ \E enough \in BOOLEAN : Next_(p, IsLong(p) => enough, "idempo")
  /\ UNCHANGED <<env, lock, lockTTL, queue, strategy, idempo, risk, broker,
                 local, bounds, history>>

-----------------------------------------------------------------------------
(* Executor.execute_signal.                                                *)

(* SET claw:idempo NX.                                                     *)
Idempo(p) ==
  /\ pc[p] = "idempo"
  /\ idempo' = idempo \cup {sig[p]}
  /\ Next_(p, sig[p] \notin idempo, "build")
  /\ UNCHANGED <<env, lock, lockTTL, queue, strategy, risk, broker, local,
                 bounds, history>>

(* build_order_from_signal raises for less than one share: DEL of idempo.  *)
Build(p) ==
  /\ pc[p] = "build"
  /\ try' = [try EXCEPT ![p] = 0]
  /\ \/ Goto(p, "place") /\ UNCHANGED idempo
     \/ Goto(p, "loop") /\ idempo' = idempo \ {sig[p]}
  /\ UNCHANGED <<env, lock, lockTTL, queue, strategy, risk, broker, sig, open,
                 oid, bounds, history>>

AtLimit == realized <= -LossLimit

Accept(p) ==
  /\ placed < env.orders
  /\ placed' = placed + 1
  /\ order' = [order EXCEPT ![placed + 1] =
                 [NoOrder EXCEPT !.sig = sig[p], !.buy = IsLong(p), !.state = "working"]]
  /\ afterPause' = afterPause + (IF pause # "none" /\ IsLong(p) THEN 1 ELSE 0)
  /\ afterMarket' = afterMarket + (IF marketPause /\ IsLong(p) THEN 1 ELSE 0)
  /\ afterLoss' = afterLoss + (IF AtLimit /\ IsLong(p) THEN 1 ELSE 0)

(* One request of place_order.  The broker takes the order or refuses it.  *)
(* When the answer is lost the request is sent again, and after the last   *)
(* attempt place_order raises: DEL of idempo.  (An order that IBKR answers *)
(* REJECTED leaves keys that nobody reads.)                                *)
Place(p) ==
  /\ pc[p] = "place"
  /\ \/ /\ Accept(p)
        /\ oid' = [oid EXCEPT ![p] = placed'] /\ Goto(p, "record")
        /\ UNCHANGED <<idempo, try>>
     \/ /\ Goto(p, "loop")
        /\ UNCHANGED <<idempo, try, oid, broker, afters>>
     \/ /\ "lost_reply" \in Weak
        /\ Accept(p) \/ UNCHANGED <<broker, afters>>
        /\ try' = [try EXCEPT ![p] = @ + 1]
        /\ IF try'[p] < env.attempts
           THEN Goto(p, "place") /\ UNCHANGED idempo
           ELSE Goto(p, "loop") /\ idempo' = idempo \ {sig[p]}
        /\ UNCHANGED oid
  /\ UNCHANGED <<env, lock, lockTTL, queue, strategy, risk, sig, open, bounds,
                 dayDone, passedToday>>

(* The order key: the status that place_order answered.  It is SUBMITTED,  *)
(* except that IBKR's may already be FILLED or CANCELED ...                *)
RecordKey(p) ==
  LET o == oid[p]
  IN /\ pc[p] = "record"
     /\ \/ order' = [order EXCEPT ![o].key = "SUBMITTED"]
        \/ /\ "at_once" \in Weak /\ order[o].state \in {"executed", "booked"}
           /\ order' = [order EXCEPT ![o].key = "FILLED"]
        \/ /\ "at_once" \in Weak /\ order[o].state = "working"
           /\ order' = [order EXCEPT ![o].key = "CANCELED", ![o].state = "canceled"]
     /\ Goto(p, "meta")
     /\ UNCHANGED <<env, lock, lockTTL, queue, strategy, idempo, risk, placed,
                    local, bounds, history>>

(* ... and its meta.                                                       *)
RecordMeta(p) ==
  /\ pc[p] = "meta"
  /\ order' = [order EXCEPT ![oid[p]].meta = TRUE]
  /\ Goto(p, "loop")
  /\ UNCHANGED <<env, lock, lockTTL, queue, strategy, idempo, risk, placed,
                 local, bounds, history>>

-----------------------------------------------------------------------------
(* Ends of a runner, and of its lock.                                      *)

(* SIGKILL; the lock stays.                                                *)
Crash(p) ==
  /\ pc[p] # "down" /\ crashes < env.crashes
  /\ crashes' = crashes + 1 /\ Goto(p, "down")
  /\ UNCHANGED <<env, lock, lockTTL, queue, strategy, idempo, risk, broker,
                 local, pushes, moves, switches, history>>

(* SIGTERM: DEL of the lock, whoever holds it.                             *)
Stop(p) ==
  /\ pc[p] # "down" /\ crashes < env.crashes
  /\ crashes' = crashes + 1 /\ Goto(p, "down")
  /\ lock' = FALSE /\ lockTTL' = FALSE
  /\ UNCHANGED <<env, queue, strategy, idempo, risk, broker, local, pushes,
                 moves, switches, history>>

LockLapses ==
  /\ lock /\ lockTTL
  /\ "slow_loop" \in Weak \/ \A p \in Runner : pc[p] = "down"
  /\ lock' = FALSE /\ lockTTL' = FALSE
  /\ UNCHANGED <<env, queue, strategy, idempo, risk, broker, pc, local, bounds,
                 history>>

-----------------------------------------------------------------------------
(* Around the runner.                                                      *)

(* The signal runners LPUSH; a signal may be pushed twice.                 *)
Push(s) ==
  /\ s \in env.signals /\ pushes < env.pushes
  /\ pushes' = pushes + 1 /\ queue' = Append(queue, s)
  /\ UNCHANGED <<env, lock, lockTTL, strategy, idempo, risk, broker, pc, local,
                 moves, switches, crashes, history>>

(* The broker executes an order ...                                        *)
Execute(o) ==
  /\ order[o].state = "working"
  /\ order' = [order EXCEPT ![o].state = "executed"]
  /\ UNCHANGED <<env, lock, lockTTL, queue, strategy, idempo, risk, placed, pc,
                 local, bounds, history>>

(* ... and its fill is booked (FillLedger, ExitSync): the position opens   *)
(* or closes.  A closed one changes realized_pnl.                          *)
Move(d) ==
  /\ moves < env.moves /\ moves' = moves + 1
  /\ realized' = realized + d
  /\ afterLoss' = IF AtLimit' THEN afterLoss ELSE 0

Book(o) ==
  /\ order[o].state = "executed"
  /\ "booking" \in Weak \/ \A p \in Runner : pc[p] # "scan"
  /\ order' = [order EXCEPT ![o].state = "booked"]
  /\ IF order[o].buy
     THEN pos' = pos \cup {SymOfOrder(o)} /\ UNCHANGED <<realized, moves, afterLoss>>
     ELSE pos' = pos \ {SymOfOrder(o)} /\ \E d \in {-1, 1} : Move(d)
  /\ UNCHANGED <<env, lock, lockTTL, queue, strategy, idempo, pause,
                 marketPause, placed, pc, local, pushes, switches, crashes,
                 dayDone, passedToday, afterPause, afterMarket>>

(* An exit of position_exit_runner.                                        *)
ClosePosition(s) ==
  /\ s \in pos /\ pos' = pos \ {s}
  /\ \E d \in {-1, 1} : Move(d)
  /\ UNCHANGED <<env, lock, lockTTL, queue, strategy, idempo, pause,
                 marketPause, broker, pc, local, pushes, switches, crashes,
                 dayDone, passedToday, afterPause, afterMarket>>

(* The watcher's poll of a SUBMITTED order: first_seen_ts in its meta.     *)
See(o) ==
  /\ order[o].key = "SUBMITTED" /\ ~order[o].seen
  /\ order' = [order EXCEPT ![o].seen = TRUE]
  /\ UNCHANGED <<env, lock, lockTTL, queue, strategy, idempo, risk, placed, pc,
                 local, bounds, history>>

(* It closes the key of a booked order, and cancels an old BUY.            *)
Close(o) ==
  /\ order[o].key = "SUBMITTED" /\ order[o].seen
  /\ "booking" \in Weak \/ \A p \in Runner : pc[p] # "scan"
  /\ \/ /\ order[o].state = "booked"
        /\ order' = [order EXCEPT ![o].key = "FILLED"]
     \/ /\ order[o].state = "working" /\ order[o].buy
        /\ order' = [order EXCEPT ![o].key = "CANCELED", ![o].state = "canceled"]
  /\ UNCHANGED <<env, lock, lockTTL, queue, strategy, idempo, risk, placed, pc,
                 local, bounds, history>>

(* The cooldown's TTL.                                                     *)
CooldownEnds(s) ==
  /\ s \in cooldown
  /\ \/ "short_cooldown" \in Weak
     \/ /\ \A o \in Outstanding : SymOfOrder(o) # s
        /\ \A p \in Runner : pc[p] \notin {"down", "loop", "pop"} => Sym(p) # s
  /\ cooldown' = cooldown \ {s}
  /\ UNCHANGED <<env, lock, lockTTL, queue, dedupe, count, idempo, risk,
                 broker, pc, local, bounds, history>>

(* /claw pause on overwrites the key and gives it a TTL; pause off deletes *)
(* it; claw:pause:{market} is set by hand.                                 *)
Switch == switches < env.switches /\ switches' = switches + 1

Operate ==
  /\ Switch
  /\ \/ pause' = "midnight" /\ UNCHANGED marketPause
     \/ pause # "none" /\ pause' = "none" /\ UNCHANGED marketPause
     \/ marketPause' = ~marketPause /\ UNCHANGED pause
  /\ afterPause' = IF pause' # "none" THEN afterPause ELSE 0
  /\ afterMarket' = IF marketPause' THEN afterMarket ELSE 0
  /\ UNCHANGED <<env, lock, lockTTL, queue, strategy, idempo, pos, realized,
                 broker, pc, local, pushes, moves, crashes, dayDone,
                 passedToday, afterLoss>>

(* Midnight: daily_count has a new key, and a pause with a TTL is over.    *)
Midnight ==
  /\ Switch
  /\ count' = 0 /\ passedToday' = 0 /\ dayDone' = FALSE
  /\ pause' = IF pause = "midnight" THEN "none" ELSE pause
  /\ UNCHANGED marketPause
  /\ afterPause' = IF pause' # "none" THEN afterPause ELSE 0
  /\ UNCHANGED <<env, lock, lockTTL, queue, dedupe, cooldown, idempo, pos,
                 realized, broker, pc, local, pushes, moves, crashes,
                 afterMarket, afterLoss>>

(* _reset_daily_cap, once a day: DEL of today's count, realized_pnl 0.     *)
Reset ==
  /\ ~dayDone /\ dayDone' = TRUE
  /\ "reset" \in Weak \/ passedToday = 0
  /\ count' = 0 /\ realized' = 0
  /\ afterLoss' = 0
  /\ UNCHANGED <<env, lock, lockTTL, queue, dedupe, cooldown, idempo, pause,
                 marketPause, pos, broker, pc, local, bounds, passedToday,
                 afterPause, afterMarket>>

-----------------------------------------------------------------------------
Judge(p) ==
  \/ Dedupe(p) \/ Cooldown(p) \/ Cap(p) \/ Mark(p)
  \/ PauseRule(p) \/ MarketPauseRule(p) \/ Held(p) \/ CountHeld(p)
  \/ Scan(p) \/ Loss(p) \/ Cash(p)
Work(p) ==
  \/ Loop(p) \/ Pop(p) \/ Judge(p)
  \/ Idempo(p) \/ Build(p) \/ Place(p) \/ RecordKey(p) \/ RecordMeta(p)

Next ==
  \/ \E p \in Runner : Start(p) \/ Work(p) \/ Crash(p) \/ Stop(p)
  \/ LockLapses
  \/ \E s \in Signal : Push(s)
  \/ \E o \in 1..placed : Execute(o) \/ Book(o) \/ See(o) \/ Close(o)
  \/ \E s \in Symbol : ClosePosition(s) \/ CooldownEnds(s)
  \/ Operate \/ Midnight \/ Reset

Spec == Init /\ [][Next]_vars

(* supervisord starts the runner, the runner runs, its lock expires, and   *)
(* the watcher polls.  Nobody has to push, to pause or to resume.          *)
Fairness ==
  /\ \A p \in Runner : WF_vars(Start(p)) /\ WF_vars(Work(p))
  /\ WF_vars(LockLapses)
  /\ WF_vars(\E o \in 1..placed : See(o))
FairSpec == Spec /\ Fairness

-----------------------------------------------------------------------------
(* Properties.                                                             *)

Labels == {"down", "loop", "pop", "dedupe", "cooldown", "cap", "mark", "pause",
           "market", "held", "count", "scan", "loss", "cash", "idempo", "build",
           "place", "record", "meta"}

Order == [sig : Signal \cup {0}, buy : BOOLEAN,
          state : {"free", "working", "executed", "booked", "canceled"},
          key : {"none", "SUBMITTED", "FILLED", "CANCELED"},
          meta : BOOLEAN, seen : BOOLEAN]

RunnersOK ==
  /\ lock \in BOOLEAN /\ lockTTL \in BOOLEAN
  /\ queue \in Seq(Signal)
  /\ pc \in [Runner -> Labels] /\ sig \in [Runner -> Signal \cup {0}]
  /\ \A p \in Runner : pc[p] \notin {"down", "loop", "pop"} => sig[p] \in Signal
  /\ open \in [Runner -> Nat] /\ try \in [Runner -> Nat]
  /\ oid \in [Runner -> 0..MaxOrders]

KeysOK ==
  /\ dedupe \subseteq Signal /\ idempo \subseteq Signal
  /\ cooldown \subseteq Symbol /\ pos \subseteq Symbol /\ IsFiniteSet(pos)
  /\ count \in 0..env.dailyCap
  /\ pause \in {"none", "midnight", "latched"} /\ marketPause \in BOOLEAN
  /\ realized \in Int

OrdersOK ==
  /\ placed \in 0..MaxOrders
  /\ order \in [OrderId -> Order]
  /\ \A o \in 1..placed : order[o].sig \in Signal

CountersOK ==
  /\ env \in Environment
  /\ pushes \in Nat /\ moves \in Nat /\ switches \in Nat /\ crashes \in Nat
  /\ dayDone \in BOOLEAN
  /\ passedToday \in Nat
  /\ afterPause \in Nat /\ afterMarket \in Nat /\ afterLoss \in Nat

(* Type invariant: beside the types, a runner past BRPOP has a signal at   *)
(* hand, and every order the broker took stems from a signal.              *)
TypeOK == RunnersOK /\ KeysOK /\ OrdersOK /\ CountersOK

(* order state machine, "no duplicate orders": a signal leads to one order *)
(* at the broker, however often it is pushed, whatever is killed and       *)
(* however many runners are up.  It is promised where place_order sends    *)
(* its request once.                                                       *)
OneOrderPerSignal ==
  \A o1, o2 \in 1..placed : order[o1].sig = order[o2].sig => o1 = o2
SentOnce == env.attempts = 1
SignalOrderedOnce == SentOnce => OneOrderPerSignal

(* Why: the runner past SET strategy:dedupe NX owns the signal, and nobody *)
(* has placed an order for it before that runner does.                     *)
Owns(p) == pc[p] \notin {"down", "loop", "pop", "dedupe"}
SignalInv ==
  /\ \A p \in Runner : Owns(p) => sig[p] \in dedupe
  /\ \A p, q \in Runner : Owns(p) /\ Owns(q) /\ p # q => sig[p] # sig[q]
  /\ \A o \in 1..placed : order[o].sig \in dedupe
  /\ \A p \in Runner : Owns(p) /\ pc[p] \notin {"record", "meta"} =>
       \A o \in 1..placed : order[o].sig # sig[p]
  /\ OneOrderPerSignal

(* daily_cap: the signals let pass on one day.  It is promised where the   *)
(* daily reset comes before the first signal of its day.                   *)
WithinDailyCap == passedToday <= env.dailyCap
DailyCapKept == "reset" \notin Weak => WithinDailyCap

(* rule 1 and the cooldown: a symbol that is held or being bought is not   *)
(* bought again, as long as the lock keeps a second runner out and a BUY   *)
(* does not outlast the cooldown.                                          *)
OneBuyPerSymbol ==
  Weak \cap {"slow_loop", "short_cooldown"} = {} /\ SentOnce =>
    \A s \in Symbol :
      LET buys == {o \in Outstanding : SymOfOrder(o) = s}
      IN Cardinality(buys) + (IF s \in pos THEN 1 ELSE 0) <= 1

(* rule 2: held symbols and BUYs on the way stay within the limit.  It is  *)
(* promised where rule 2 sees every BUY: one runner, the watcher ahead of  *)
(* it, no booking between its reads, no order without its keys, none that  *)
(* is FILLED before the watcher could see it.                              *)
WithinMaxPositions ==
  Cardinality(pos \cup {SymOfOrder(o) : o \in Outstanding}) <= env.maxPos
AllSeen ==
  /\ Weak \cap {"slow_loop", "lost_reply", "unseen", "booking", "at_once"} = {}
  /\ env.crashes = 0
LimitKept == AllSeen /\ Cardinality(env.held) <= env.maxPos => WithinMaxPositions

(* A pause stops trading, and so does the loss limit even if the operator  *)
(* resumes: of each runner, only the signal that was past rule 0's read of *)
(* that pause, or past rule 3, can still become a LONG order.              *)
TradingStops ==
  SentOnce => /\ afterPause <= Cardinality(env.runners)
              /\ afterMarket <= Cardinality(env.runners)
              /\ afterLoss <= Cardinality(env.runners)

(* A queued signal is taken unless trading is paused: no kill leaves the   *)
(* runner locked out.                                                      *)
QueueServed == queue # <<>> ~> (queue = <<>> \/ pause # "none")
=============================================================================
