------------------------------ MODULE SignalFeed ------------------------------
(***************************************************************************)
(* Where signals come from.  ai_dual_eval_runner.py (the evaluator) stores *)
(* Claude's verdict on a symbol in ai:dual:last:claude:*;                  *)
(* consensus_signal_runner.py (the runner) turns a fresh verdict into a    *)
(* Type A signal, looks at the trend of COIN symbols for Type B signals    *)
(* and their canary variant, and LPUSHes claw:signal:queue.  The exit      *)
(* processes and the order watcher write the cooldown, the daily stop and  *)
(* the stop count the runner reads in between.                             *)
(*                                                                         *)
(* One symbol is handled in a few Redis commands; a command that reads or  *)
(* writes a key another process writes, and every call to Upbit or Claude, *)
(* ends a step.  Keys with a TTL hold the number of ticks they have left.  *)
(* The price and volume gates are in TradeRules; here a candidate passes   *)
(* them or does not.                                                       *)
(***************************************************************************)
EXTENDS Integers, FiniteSets

CONSTANTS
  Symbol,
  Scenario,     \* the environments considered, one of which is drawn at Init
  MaxEval,      \* bound: evaluations stored in a behaviour
  LastDay,      \* the days are 0..LastDay
  EmitStale, HoldStale, SeenTtl,       \* EMIT_STALE_SEC, EVAL_STALE_SEC, 600 s
  CoolA, CoolB, CoolAlt,               \* the runner's own cooldowns
  ExitCool, LongCool, CancelCool,      \* those the exits and the watcher set
  StopWait,                            \* 7200 s after a stop-loss
  SymbolCap, StopCap, CanaryCap, CallCap

EvalId == 1..MaxEval
Day == 0..LastDay
Mode == {"live", "shadow", "off"}
Reason == {"stop", "wsStop", "early", "stagnant", "time", "gain", "cancel"}

(* What is given and never changes while the processes run.                *)
Environment ==
  [modeA : Mode, modeB : Mode, alt : Mode,  \* get_signal_family_mode
   reasons : SUBSET Reason,  \* what may write the runner's keys
   exits : Nat,              \* bound: how often
   ticks : Nat,              \* bound: ticks of the clock
   crashes : Nat,            \* bound: kills of the runner
   fails : Nat,              \* bound: LPUSHes and counts that raise
   pauses : Nat,             \* bound: pauses
   midnights : Day,          \* bound: midnights
   replyLost : BOOLEAN,      \* an LPUSH that raised may have been executed
   bearish : BOOLEAN]        \* _get_regime may say "bearish"

ASSUME FeedConstants ==
  /\ Scenario \subseteq Environment
  /\ MaxEval \in Nat /\ LastDay \in Nat
  /\ EmitStale \in Nat /\ HoldStale \in Nat /\ SeenTtl \in Nat \ {0}
  /\ CoolA \in Nat \ {0} /\ CoolB \in Nat \ {0} /\ CoolAlt \in Nat \ {0}
  /\ ExitCool \in Nat /\ LongCool \in Nat /\ CancelCool \in Nat
  /\ StopWait \in Nat
  /\ SymbolCap \in Nat /\ StopCap \in Nat \ {0} /\ CanaryCap \in Nat
  /\ CallCap \in Nat

(* The order of the deployed times the properties rest on: a verdict is    *)
(* too old to emit before the runner forgets that it has handled it (300 s *)
(* and 600 s) and before a HOLD is stale (1800 s), and whoever overwrites  *)
(* a cooldown gives it at least Type A's.                                  *)
ASSUME FeedTimes ==
  /\ EmitStale < SeenTtl /\ EmitStale <= HoldStale
  /\ CoolA <= ExitCool /\ CoolA <= LongCool /\ CoolA <= CancelCool

VARIABLES
  env, day, ticks,
  eval,      \* ai:dual:last:claude:{symbol}; id 0 stands for "no key"
  made,      \* evaluations stored so far: their ts_ms
  calls,     \* ai:dual_call_count:{day}
  ev,        \* the evaluator: the day its loop read, and whom it asks about
  seen,      \* consensus:seen:{ts_ms}
  cool, coolB, coolAlt,  \* the three cooldown keys of a symbol
  stop,      \* claw:daily_stop:{symbol}:{day}: 0, or 1 + ticks until recovery
  stopCount, \* claw:stop_count:{symbol}:{day}
  used,      \* consensus:symbol_daily:{symbol}:{day}
  canary,    \* consensus:coin_alt_canary_daily:{day}
  paused,    \* claw:pause:global
  pc, sym, got, rday, todoA, todoB,     \* locals of the runner
  exits, crashes, fails, pauses,        \* how much of each bound is spent
  sentEval, sentDay, sentAlt,  \* history: pushes per verdict, symbol-day, canary day
  late,      \* history: pushes after the stop count reached its cap
  afterPause,\* history: pushes per family and symbol since a pause
  owedA, owedB, owedExit,  \* history: ticks the last push or exit asks to wait
  raced,     \* history: the last exit met the runner between check and write
  ghosts     \* history: signals Redis took in a step that raised

keys == <<seen, cool, coolB, coolAlt, stop, stopCount, used, canary>>
evaluator == <<made, calls, ev>>
locals == <<pc, sym, got, rday, todoA, todoB>>
spent == <<exits, crashes, fails, pauses>>
sent == <<sentEval, sentDay, sentAlt, late, afterPause>>
owed == <<owedA, owedB, owedExit, raced>>
vars == <<env, day, ticks, eval, evaluator, keys, paused, locals, spent, sent,
          owed, ghosts>>

NoEval == [id |-> 0, emit |-> FALSE, age |-> 0]
Nothing == [id |-> 0, emit |-> FALSE]
Idle == [sym |-> "none", day |-> 0]
Zero == [s \in Symbol |-> 0]

Init ==
  /\ env \in Scenario /\ day = 0 /\ ticks = 0
  /\ eval = [s \in Symbol |-> NoEval] /\ made = 0
  /\ calls = [d \in Day |-> 0] /\ ev = Idle
  /\ seen = [i \in EvalId |-> 0]
  /\ cool = Zero /\ coolB = Zero /\ coolAlt = Zero
  /\ stop = [d \in Day |-> Zero] /\ stopCount = [d \in Day |-> Zero]
  /\ used = [d \in Day |-> Zero] /\ canary = [d \in Day |-> 0]
  /\ paused = FALSE
  /\ pc = "idle" /\ sym = "none" /\ got = Nothing /\ rday = 0
  /\ todoA = {} /\ todoB = {}
  /\ exits = 0 /\ crashes = 0 /\ fails = 0 /\ pauses = 0
  /\ sentEval = [i \in EvalId |-> 0] /\ sentDay = [d \in Day |-> Zero]
  /\ sentAlt = [d \in Day |-> 0] /\ late = [d \in Day |-> Zero]
  /\ afterPause = [f \in {"A", "B"} |-> Zero]
  /\ owedA = Zero /\ owedB = Zero /\ owedExit = Zero
  /\ raced = [s \in Symbol |-> FALSE] /\ ghosts = 0

-----------------------------------------------------------------------------
(* The evaluator.                                                          *)

(* _is_last_eval_stale, and the same test in run_once.                     *)
Stale(e) == e.age > (IF e.emit THEN EmitStale ELSE HoldStale)

(* The head of the loop: the day the call cap is charged to.               *)
EvalLoop ==
  /\ ev.sym = "none" /\ ev.day # day
  /\ ev' = [ev EXCEPT !.day = day]
  /\ UNCHANGED <<env, day, ticks, eval, made, calls, keys, paused, locals,
                 spent, sent, owed, ghosts>>

(* _eval_symbol skips a symbol its prefilter refuses; a stale verdict goes.*)
EvalSkip(s) ==
  /\ env.modeA # "off" /\ ev.sym = "none"
  /\ eval[s].id # 0 /\ Stale(eval[s])
  /\ eval' = [eval EXCEPT ![s] = NoEval]
  /\ UNCHANGED <<env, day, ticks, evaluator, keys, paused, locals, spent, sent,
                 owed, ghosts>>

(* Mutant: the calls are counted and not capped.                           *)
EvalCall_NoCap(s) ==
  /\ env.modeA # "off" /\ ev.sym = "none" /\ made < MaxEval
  /\ calls' = [calls EXCEPT ![ev.day] = @ + 1]
  /\ ev' = [ev EXCEPT !.sym = s]
  /\ UNCHANGED <<env, day, ticks, eval, made, keys, paused, locals, spent,
                 sent, owed, ghosts>>

(* The symbol passes the prefilter and the call cap: Claude is asked.      *)
EvalCall(s) ==
  /\ env.modeA # "off" /\ ev.sym = "none" /\ made < MaxEval
  /\ calls[ev.day] < CallCap
  /\ calls' = [calls EXCEPT ![ev.day] = @ + 1]
  /\ ev' = [ev EXCEPT !.sym = s]
  /\ UNCHANGED <<env, day, ticks, eval, made, keys, paused, locals, spent,
                 sent, owed, ghosts>>

(* Claude answered, or failed, which stores a HOLD: _save_provider.        *)
EvalSave ==
  /\ ev.sym # "none"
  /\ \E emit \in BOOLEAN :
       eval' = [eval EXCEPT ![ev.sym] =
                  [id |-> made + 1, emit |-> emit, age |-> 0]]
  /\ made' = made + 1
  /\ ev' = [ev EXCEPT !.sym = "none"]
  /\ UNCHANGED <<env, day, ticks, calls, keys, paused, locals, spent, sent,
                 owed, ghosts>>

-----------------------------------------------------------------------------
(* The runner: run_once, the Type A signal of one symbol.                  *)

TypeALabels == {"purge", "claim", "limits", "gates", "pushA", "undoA", "countA"}

(* The next command, or the end of run_once or of _run_type_b_coin, whose  *)
(* locals are gone then; the day of the Type B loop stays.                 *)
Goto(label) == pc' = label /\ UNCHANGED <<sym, got, rday>>
Leave ==
  /\ sym' = "none" /\ got' = Nothing
  /\ \/ pc \in TypeALabels /\ pc' = "loop" /\ rday' = 0
     \/ pc \notin TypeALabels /\ pc' = "loopB" /\ UNCHANGED rday
Continue(ok, label) == IF ok THEN Goto(label) ELSE Leave

(* Mutant: the pause is looked at only when the process starts.            *)
StartLoop_Unpaused ==
  /\ pc = "idle"
  /\ \E bear \in (IF env.bearish THEN BOOLEAN ELSE {FALSE}), due \in BOOLEAN :
       /\ todoA' = IF env.modeA = "off" \/ bear THEN {} ELSE Symbol
       /\ todoB' = IF env.modeB = "off" \/ bear \/ ~due THEN {} ELSE Symbol
  /\ Goto("loop")
  /\ UNCHANGED <<env, day, ticks, eval, evaluator, keys, paused, spent, sent,
                 owed, ghosts>>

(* The head of the loop in main: nothing while paused, Type A unless its   *)
(* mode is off or the regime is bearish, Type B when its 5 minutes are up. *)
StartLoop ==
  /\ pc = "idle" /\ ~paused
  /\ \E bear \in (IF env.bearish THEN BOOLEAN ELSE {FALSE}), due \in BOOLEAN :
       /\ todoA' = IF env.modeA = "off" \/ bear THEN {} ELSE Symbol
       /\ todoB' = IF env.modeB = "off" \/ bear \/ ~due THEN {} ELSE Symbol
  /\ Goto("loop")
  /\ UNCHANGED <<env, day, ticks, eval, evaluator, keys, paused, spent, sent,
                 owed, ghosts>>

(* HGETALL of the verdict; a stale one is going to be deleted.             *)
ReadEval(s) ==
  /\ pc = "loop" /\ s \in todoA
  /\ todoA' = todoA \ {s}
  /\ IF eval[s].id = 0 THEN UNCHANGED <<pc, sym, got>>
     ELSE /\ sym' = s /\ got' = [id |-> eval[s].id, emit |-> eval[s].emit]
          /\ pc' = (IF Stale(eval[s]) THEN "purge" ELSE "claim")
  /\ UNCHANGED <<env, day, ticks, eval, evaluator, keys, paused, rday, todoB,
                 spent, sent, owed, ghosts>>

(* Mutant: a stale verdict is skipped and stays.                           *)
PurgeStale_Keep ==
  /\ pc = "purge"
  /\ Leave
  /\ UNCHANGED <<env, day, ticks, eval, evaluator, keys, paused, todoA, todoB,
                 spent, sent, owed, ghosts>>

(* DEL of the stale verdict, whatever is stored there by now.              *)
PurgeStale ==
  /\ pc = "purge"
  /\ eval' = [eval EXCEPT ![sym] = NoEval]
  /\ Leave
  /\ UNCHANGED <<env, day, ticks, evaluator, keys, paused, todoA, todoB, spent,
                 sent, owed, ghosts>>

(* Mutant: the mark is tested and not set.                                 *)
ClaimEval_NoMark ==
  /\ pc = "claim"
  /\ Continue(seen[got.id] = 0 /\ cool[sym] = 0, "limits")
  /\ UNCHANGED <<env, day, ticks, eval, evaluator, keys, paused, todoA, todoB,
                 spent, sent, owed, ghosts>>

(* SET consensus:seen NX, then EXISTS of the symbol's cooldown.            *)
ClaimEval ==
  /\ pc = "claim"
  /\ seen' = [seen EXCEPT ![got.id] = IF @ = 0 THEN SeenTtl ELSE @]
  /\ Continue(seen[got.id] = 0 /\ cool[sym] = 0, "limits")
  /\ UNCHANGED <<env, day, ticks, eval, evaluator, cool, coolB, coolAlt, stop,
                 stopCount, used, canary, paused, todoA, todoB, spent, sent,
                 owed, ghosts>>

(* Mutant: one stop-loss too many.                                         *)
MayTrade_OneMore(d, s, recovered) ==
  /\ stop[d][s] = 0 \/ (stop[d][s] = 1 /\ recovered)
  /\ used[d][s] < SymbolCap
  /\ stopCount[d][s] <= StopCap

(* Two hours after a stop-loss the price decides whether to trade again.   *)
MayTrade(d, s, recovered) ==
  /\ stop[d][s] = 0 \/ (stop[d][s] = 1 /\ recovered)
  /\ used[d][s] < SymbolCap
  /\ stopCount[d][s] < StopCap

(* The daily stop, the symbol's daily cap and the stop count of today.     *)
CheckLimits ==
  /\ pc = "limits"
  /\ \E recovered \in BOOLEAN :
       IF MayTrade(day, sym, recovered)
       THEN pc' = "gates" /\ rday' = day /\ UNCHANGED <<sym, got>>
       ELSE Leave
  /\ UNCHANGED <<env, day, ticks, eval, evaluator, keys, paused, todoA, todoB,
                 spent, sent, owed, ghosts>>

(* The verdict, the live price and the gates of TradeRules decide, and the *)
(* broker is asked for the cash; then a candidate that passes sets the     *)
(* cooldown, over a longer one if there is.                                *)
PassGates ==
  /\ pc = "gates"
  /\ \/ /\ Leave /\ UNCHANGED cool
     \/ /\ got.emit
        /\ cool' = [cool EXCEPT ![sym] = CoolA]
        /\ Goto("pushA")
  /\ UNCHANGED <<env, day, ticks, eval, evaluator, seen, coolB, coolAlt, stop,
                 stopCount, used, canary, paused, todoA, todoB, spent, sent,
                 owed, ghosts>>

(* What LPUSH of a signal of `sym` adds to the history.                    *)
Published(family) ==
  /\ late' = IF stopCount[rday][sym] >= StopCap
             THEN [late EXCEPT ![rday][sym] = @ + 1] ELSE late
  /\ afterPause' = IF paused THEN [afterPause EXCEPT ![family][sym] = @ + 1]
                   ELSE afterPause

PublishedA ==
  /\ Published("A")
  /\ sentEval' = [sentEval EXCEPT ![got.id] = @ + 1]
  /\ sentDay' = [sentDay EXCEPT ![rday][sym] = @ + 1]
  /\ owedA' = [owedA EXCEPT ![sym] = CoolA]
  /\ UNCHANGED <<sentAlt, owedB, owedExit, raced>>

RedisRaises == fails < env.fails /\ fails' = fails + 1

(* A shadow candidate only leaves a snapshot; LPUSH works, or raises, and  *)
(* then Redis may have taken the signal all the same.                      *)
PushA ==
  /\ pc = "pushA"
  /\ \/ /\ env.modeA = "shadow"
        /\ Leave /\ UNCHANGED <<sent, owed, fails, ghosts>>
     \/ /\ env.modeA = "live" /\ PublishedA
        /\ Goto("countA") /\ UNCHANGED <<fails, ghosts>>
     \/ /\ env.modeA = "live" /\ RedisRaises
        /\ Goto("undoA")
        /\ \/ UNCHANGED <<sent, owed, ghosts>>
           \/ env.replyLost /\ ghosts' = ghosts + 1 /\ PublishedA
  /\ UNCHANGED <<env, day, ticks, eval, evaluator, keys, paused, todoA, todoB,
                 exits, crashes, pauses>>

(* DEL of the cooldown after LPUSH raised.                                 *)
UndoA ==
  /\ pc = "undoA"
  /\ cool' = [cool EXCEPT ![sym] = 0]
  /\ Leave
  /\ UNCHANGED <<env, day, ticks, eval, evaluator, seen, coolB, coolAlt, stop,
                 stopCount, used, canary, paused, todoA, todoB, spent, sent,
                 owed, ghosts>>

(* Mutant: Type B signals are not counted.                                 *)
Count_OnlyA ==
  /\ pc \in {"countA", "countB"}
  /\ used' = IF pc = "countA" THEN [used EXCEPT ![rday][sym] = @ + 1] ELSE used
  /\ Leave
  /\ UNCHANGED <<env, day, ticks, eval, evaluator, seen, cool, coolB, coolAlt,
                 stop, stopCount, canary, paused, todoA, todoB, spent, sent,
                 owed, ghosts>>

(* INCR of the counter both families share, under the day checked.         *)
Count ==
  /\ pc \in {"countA", "countB"}
  /\ used' = [used EXCEPT ![rday][sym] = @ + 1]
  /\ Leave
  /\ UNCHANGED <<env, day, ticks, eval, evaluator, seen, cool, coolB, coolAlt,
                 stop, stopCount, canary, paused, todoA, todoB, spent, sent,
                 owed, ghosts>>

-----------------------------------------------------------------------------
(* The runner: _run_type_b_coin, whose day is read before its first symbol.*)

(* After the Type A pass the loop ends or goes on with Type B.             *)
EndTypeA ==
  /\ pc = "loop" /\ todoA = {}
  /\ IF todoB = {} THEN Goto("idle")
     ELSE pc' = "loopB" /\ rday' = day /\ UNCHANGED <<sym, got>>
  /\ UNCHANGED <<env, day, ticks, eval, evaluator, keys, paused, todoA, todoB,
                 spent, sent, owed, ghosts>>

EndTypeB ==
  /\ pc = "loopB" /\ todoB = {}
  /\ pc' = "idle" /\ rday' = 0
  /\ UNCHANGED <<env, day, ticks, eval, evaluator, keys, paused, sym, got,
                 todoA, todoB, spent, sent, owed, ghosts>>

(* Its own cooldown and the limits of the day, not the symbol's cooldown.  *)
CheckB(s) ==
  /\ pc = "loopB" /\ s \in todoB
  /\ todoB' = todoB \ {s}
  /\ \E recovered \in BOOLEAN :
       IF coolB[s] = 0 /\ MayTrade(rday, s, recovered)
       THEN pc' = "ticker" /\ sym' = s /\ UNCHANGED <<got, rday>>
       ELSE UNCHANGED <<pc, sym, got, rday>>
  /\ UNCHANGED <<env, day, ticks, eval, evaluator, keys, paused, todoA, spent,
                 sent, owed, ghosts>>

(* Upbit's ticker came back: no candidate, a candidate of the canary's     *)
(* looser profile, or one of the base profile Claude is asked about.       *)
GatesB ==
  /\ pc = "ticker"
  /\ Leave \/ Goto("alt") \/ Goto("ask")
  /\ UNCHANGED <<env, day, ticks, eval, evaluator, keys, paused, todoA, todoB,
                 spent, sent, owed, ghosts>>

(* SET of the profile's cooldown NX, then the canary's mode and capacity.  *)
ClaimAlt ==
  /\ pc = "alt"
  /\ coolAlt' = [coolAlt EXCEPT ![sym] = IF @ = 0 THEN CoolAlt ELSE @]
  /\ Continue(coolAlt[sym] = 0 /\ env.alt = "live" /\ canary[day] < CanaryCap,
              "pushAlt")
  /\ UNCHANGED <<env, day, ticks, eval, evaluator, seen, cool, coolB, stop,
                 stopCount, used, canary, paused, todoA, todoB, spent, sent,
                 owed, ghosts>>

(* The canary's signal counts against its own daily cap only.              *)
PublishedAlt ==
  /\ Published("B")
  /\ sentAlt' = [sentAlt EXCEPT ![day] = @ + 1]
  /\ UNCHANGED <<sentEval, sentDay>>

PushAlt ==
  /\ pc = "pushAlt"
  /\ \/ /\ PublishedAlt /\ Goto("countAlt")
        /\ UNCHANGED <<coolAlt, fails, ghosts>>
     \/ /\ RedisRaises
        /\ coolAlt' = [coolAlt EXCEPT ![sym] = 0] /\ Leave
        /\ \/ UNCHANGED <<sent, ghosts>>
           \/ env.replyLost /\ ghosts' = ghosts + 1 /\ PublishedAlt
  /\ UNCHANGED <<env, day, ticks, eval, evaluator, seen, cool, coolB, stop,
                 stopCount, used, canary, paused, todoA, todoB, exits, crashes,
                 pauses, owed>>

(* INCR of the canary's counter, under the day it is by now.               *)
CountAlt ==
  /\ pc = "countAlt"
  /\ canary' = [canary EXCEPT ![day] = @ + 1]
  /\ Leave
  /\ UNCHANGED <<env, day, ticks, eval, evaluator, seen, cool, coolB, coolAlt,
                 stop, stopCount, used, paused, todoA, todoB, spent, sent,
                 owed, ghosts>>

(* Mutant: no cooldown.                                                    *)
AskClaude_NoCool ==
  /\ pc = "ask"
  /\ Leave \/ Goto("pushB")
  /\ UNCHANGED <<env, day, ticks, eval, evaluator, keys, paused, todoA, todoB,
                 spent, sent, owed, ghosts>>

(* Claude answered: HOLD or an error, or LONG, which sets the cooldown.    *)
AskClaude ==
  /\ pc = "ask"
  /\ \/ Leave /\ UNCHANGED coolB
     \/ Goto("pushB") /\ coolB' = [coolB EXCEPT ![sym] = CoolB]
  /\ UNCHANGED <<env, day, ticks, eval, evaluator, seen, cool, coolAlt, stop,
                 stopCount, used, canary, paused, todoA, todoB, spent, sent,
                 owed, ghosts>>

PublishedB ==
  /\ Published("B")
  /\ sentDay' = [sentDay EXCEPT ![rday][sym] = @ + 1]
  /\ owedB' = [owedB EXCEPT ![sym] = CoolB]
  /\ UNCHANGED <<sentEval, sentAlt, owedA, owedExit, raced>>

PushB ==
  /\ pc = "pushB"
  /\ \/ /\ env.modeB = "shadow"
        /\ Leave /\ UNCHANGED <<coolB, sent, owed, fails, ghosts>>
     \/ /\ env.modeB = "live" /\ PublishedB
        /\ Goto("countB") /\ UNCHANGED <<coolB, fails, ghosts>>
     \/ /\ env.modeB = "live" /\ RedisRaises
        /\ coolB' = [coolB EXCEPT ![sym] = 0] /\ Leave
        /\ \/ UNCHANGED <<sent, owed, ghosts>>
           \/ env.replyLost /\ ghosts' = ghosts + 1 /\ PublishedB
  /\ UNCHANGED <<env, day, ticks, eval, evaluator, seen, cool, coolAlt, stop,
                 stopCount, used, canary, paused, todoA, todoB, exits, crashes,
                 pauses>>

-----------------------------------------------------------------------------
(* The other processes, the operator, the clock.                           *)

CoolOf(why) ==
  CASE why \in {"stop", "gain"} -> ExitCool
    [] why \in {"stagnant", "time"} -> LongCool
    [] why = "cancel" -> CancelCool
    [] OTHER -> 0

(* A SELL of the exit runner or of the websocket monitor ("wsStop") was    *)
(* placed, or the watcher cancelled a BUY: what each leaves behind.        *)
Exited(s, why) ==
  /\ why \in env.reasons /\ exits < env.exits
  /\ exits' = exits + 1
  /\ stop' = IF why \in {"stop", "wsStop"}
             THEN [stop EXCEPT ![day][s] = StopWait + 1] ELSE stop
  /\ stopCount' = IF why \in {"stop", "wsStop", "early", "stagnant"}
                  THEN [stopCount EXCEPT ![day][s] = @ + 1] ELSE stopCount
  /\ IF CoolOf(why) = 0 THEN UNCHANGED <<cool, owedExit, raced>>
     ELSE /\ cool' = [cool EXCEPT ![s] = CoolOf(why)]
          /\ owedExit' = [owedExit EXCEPT ![s] = CoolOf(why)]
          /\ raced' = [raced EXCEPT ![s] =
               sym = s /\ pc \in {"limits", "gates", "pushA", "undoA"}]
  /\ UNCHANGED <<env, day, ticks, eval, evaluator, seen, coolB, coolAlt, used,
                 canary, paused, locals, crashes, fails, pauses, sent, owedA,
                 owedB, ghosts>>

(* /claw pause on, or the killswitch.                                      *)
Pause ==
  /\ ~paused /\ pauses < env.pauses
  /\ paused' = TRUE /\ pauses' = pauses + 1
  /\ UNCHANGED <<env, day, ticks, eval, evaluator, keys, locals, exits,
                 crashes, fails, sent, owed, ghosts>>

Resume ==
  /\ paused /\ paused' = FALSE /\ afterPause' = [f \in {"A", "B"} |-> Zero]
  /\ UNCHANGED <<env, day, ticks, eval, evaluator, keys, locals, spent,
                 sentEval, sentDay, sentAlt, late, owed, ghosts>>

(* SIGKILL of the runner; supervisord starts it again.                     *)
Crash ==
  /\ pc # "idle" /\ crashes < env.crashes
  /\ crashes' = crashes + 1
  /\ pc' = "idle" /\ sym' = "none" /\ got' = Nothing /\ rday' = 0
  /\ todoA' = {} /\ todoB' = {}
  /\ UNCHANGED <<env, day, ticks, eval, evaluator, keys, paused, exits, fails,
                 pauses, sent, owed, ghosts>>

(* The signal is in the queue, and its snapshot or INCR raises: main logs  *)
(* it and goes on with the next symbol.                                    *)
CountRaises ==
  /\ pc \in {"countA", "countB", "countAlt"} /\ RedisRaises
  /\ ghosts' = ghosts + 1
  /\ Leave
  /\ UNCHANGED <<env, day, ticks, eval, evaluator, keys, paused, todoA, todoB,
                 exits, crashes, pauses, sent, owed>>

Down(n) == IF n = 0 THEN 0 ELSE n - 1
Aged(f) == [s \in Symbol |-> Down(f[s])]

(* Only the calls to a broker and to Claude and the pause between two      *)
(* loops last as long as a tick.                                           *)
MayTick == pc \in {"idle", "loop", "loopB", "gates", "ticker", "ask"}

(* Time passes: TTLs run down, verdicts grow old.                          *)
Tick ==
  /\ MayTick /\ ticks < env.ticks
  /\ ticks' = ticks + 1
  /\ eval' = [s \in Symbol |-> IF eval[s].id = 0 \/ eval[s].age > HoldStale
                               THEN eval[s] ELSE [eval[s] EXCEPT !.age = @ + 1]]
  /\ seen' = [i \in EvalId |-> Down(seen[i])]
  /\ cool' = Aged(cool) /\ coolB' = Aged(coolB) /\ coolAlt' = Aged(coolAlt)
  /\ stop' = [d \in Day |-> [s \in Symbol |->
                IF stop[d][s] > 1 THEN stop[d][s] - 1 ELSE stop[d][s]]]
  /\ owedA' = Aged(owedA) /\ owedB' = Aged(owedB) /\ owedExit' = Aged(owedExit)
  /\ UNCHANGED <<env, day, evaluator, stopCount, used, canary, paused, locals,
                 spent, sent, raced, ghosts>>

(* today_kst moves on, between any two steps.                              *)
Midnight ==
  /\ day < env.midnights
  /\ day' = day + 1
  /\ UNCHANGED <<env, ticks, eval, evaluator, keys, paused, locals, spent,
                 sent, owed, ghosts>>

RunnerStep ==
  \/ StartLoop
  \/ \E s \in Symbol : ReadEval(s) \/ CheckB(s)
  \/ PurgeStale \/ ClaimEval \/ CheckLimits \/ PassGates \/ PushA \/ UndoA
  \/ Count \/ EndTypeA \/ EndTypeB \/ GatesB \/ ClaimAlt \/ PushAlt \/ CountAlt
  \/ AskClaude \/ PushB

Next ==
  \/ EvalLoop \/ EvalSave
  \/ \E s \in Symbol : EvalSkip(s) \/ EvalCall(s)
  \/ RunnerStep
  \/ \E s \in Symbol, why \in Reason : Exited(s, why)
  \/ Pause \/ Resume \/ Crash \/ CountRaises \/ Tick \/ Midnight

Spec == Init /\ [][Next]_vars

(* Both processes keep running and Claude answers; nothing obliges anyone  *)
(* else to act.                                                            *)
Fairness == WF_vars(RunnerStep) /\ WF_vars(EvalSave) /\ WF_vars(EvalLoop)
FairSpec == Spec /\ Fairness

-----------------------------------------------------------------------------
(* Properties.                                                             *)

Labels == {"idle", "loop", "purge", "claim", "limits", "gates", "pushA",
           "undoA", "countA", "loopB", "ticker", "alt", "pushAlt", "countAlt",
           "ask", "pushB", "countB"}
Verdict == [id : 0..MaxEval, emit : BOOLEAN, age : 0..(HoldStale + 1)]
PerSymbol == [Symbol -> Nat]
PerDay == [Day -> PerSymbol]

(* Type invariant.                                                         *)
TypeOK ==
  /\ env \in Scenario /\ day \in Day /\ ticks \in Nat
  /\ eval \in [Symbol -> Verdict] /\ made \in 0..MaxEval
  /\ calls \in [Day -> 0..CallCap]
  /\ ev \in [sym : Symbol \cup {"none"}, day : Day]
  /\ seen \in [EvalId -> 0..SeenTtl]
  /\ cool \in PerSymbol /\ coolB \in PerSymbol /\ coolAlt \in PerSymbol
  /\ stop \in PerDay /\ stopCount \in PerDay /\ used \in PerDay
  /\ canary \in [Day -> Nat] /\ paused \in BOOLEAN
  /\ pc \in Labels /\ sym \in Symbol \cup {"none"} /\ got \in [id : 0..MaxEval, emit : BOOLEAN]
  /\ rday \in Day /\ todoA \subseteq Symbol /\ todoB \subseteq Symbol
  /\ exits \in Nat /\ crashes \in Nat /\ fails \in Nat /\ pauses \in Nat
  /\ sentEval \in [EvalId -> Nat] /\ sentDay \in PerDay
  /\ sentAlt \in [Day -> Nat] /\ late \in PerDay /\ afterPause \in [{"A", "B"} -> PerSymbol]
  /\ owedA \in PerSymbol /\ owedB \in PerSymbol /\ owedExit \in PerSymbol
  /\ raced \in [Symbol -> BOOLEAN] /\ ghosts \in Nat

(* run_once, "dedup: ... 중복 push 방지": one verdict of Claude becomes one *)
(* signal at most, though it stays in Redis, the mark that it was handled  *)
(* expires, LPUSH may raise after Redis took the signal, and the runner    *)
(* may be killed anywhere.                                                 *)
VerdictSentOnce == \A i \in EvalId : sentEval[i] <= 1

(* consensus:symbol_daily, "max 2회, Type A/B 공유", and the canary's own   *)
(* cap: on a day no symbol gets more signals than its cap, whichever       *)
(* family they come from and wherever midnight falls, and the canary does  *)
(* not send more live ones than its own, but for those whose INCR a kill,  *)
(* a lost reply of LPUSH or a Redis error left out.                        *)
SymbolCapKept ==
  \A d \in Day, s \in Symbol : sentDay[d][s] <= SymbolCap + crashes + ghosts
CanaryCapKept == \A d \in Day : sentAlt[d] <= CanaryCap + crashes + ghosts
CapsKept == SymbolCapKept /\ CanaryCapKept

(* A published signal is followed by the cooldown of its family, also when *)
(* the runner is killed between any two commands: restarted, it does not   *)
(* publish the symbol again at once.  And the pause after an exit or a     *)
(* cancelled BUY lasts as long as that process asked for: the runner,      *)
(* whose own cooldown is shorter, neither overwrites nor deletes it,       *)
(* unless the exit fell between the runner's check of the key and its last *)
(* write.                                                                  *)
CooldownOutlivesPush ==
  ghosts = 0 => \A s \in Symbol : owedA[s] <= cool[s] /\ owedB[s] <= coolB[s]
ExitCooldownStands == \A s \in Symbol : raced[s] \/ owedExit[s] <= cool[s]
CooldownsStand == CooldownOutlivesPush /\ ExitCooldownStands

(* "당일 stop_loss 2회 이상 → 완전 차단": once a symbol's exits reached the    *)
(* stop count, at most the one signal that was being worked on, Claude     *)
(* being asked about it perhaps, still leaves on that day.                 *)
StoppedOut == \A d \in Day, s \in Symbol : late[d][s] <= 1

(* A pause lets only the loop under way finish: until trading resumes at   *)
(* most one signal of Type A and one of Type B, canary included, is        *)
(* published of a symbol, over midnight too.                               *)
PauseEndsLoop ==
  paused => \A f \in {"A", "B"}, s \in Symbol : afterPause[f][s] <= 1

(* Without pauses and bearish phases every verdict is handled in the end,  *)
(* or replaced, or given up as stale: none stays in Redis unread.          *)
VerdictsHandled ==
  \A s \in Symbol, i \in EvalId :
    (eval[s].id = i /\ env.pauses = 0 /\ ~env.bearish /\ env.crashes = 0)
      ~> (eval[s].id # i \/ seen[i] > 0)
=============================================================================
