------------------------------ MODULE TradeRules ------------------------------
(***************************************************************************)
(* The rules that decide a trade, from the evaluation of a symbol to the   *)
(* exit of the position: ai_dual_eval_runner's prefilter, the gates of     *)
(* consensus_signal_runner (Type A and Type B), the size of the order, and *)
(* the exit rules.  Several of them exist in more than one copy: the exit  *)
(* rules in position_exit_runner and upbit_ws_exit_monitor, the Type B     *)
(* gates in the runner and in coin_type_b_gate_profiles, and coin_shadow   *)
(* replays a position the runner never bought.                             *)
(*                                                                         *)
(* Rates are in basis points, traded value in units of 10^9 won.  Of one   *)
(* symbol in one market it follows one trade after the other.  Who reads   *)
(* and writes which key, and when, is in SignalFeed, ExitSync and CoinExit.*)
(***************************************************************************)
EXTENDS Integers, Sequences, FiniteSetsExt, SequencesExt

CONSTANTS
  Scenario,   \* the environments considered, one of which is drawn at Init
  None        \* a field that is missing

Market == {"KR", "US", "COIN"}
Unit == 10000      \* 100 %
Param == {"stop", "take", "trail"}
Ages == {0, 600, 900, 1200, 1800, 3600, 14400}   \* seconds the rules compare with

(* What is given: the market, the moves of the price, and what an operator *)
(* may set with /claw set.                                                 *)
Environment ==
  [market : Market,
   typeB : BOOLEAN,               \* Type B's gates are looked at as well
   rates : SUBSET Int,            \* ret_5m as it may be observed
   marks : SUBSET (1..2 * Unit),  \* prices of a position, per its average
   set : [Param -> SUBSET (1..Unit)]]

ASSUME RuleConstants == Scenario \subseteq Environment /\ None \notin Int

VARIABLES
  env,
  phase,    \* "idle", "verdict" (evaluated), "bought" (decided), "held"
  verdict,  \* the features the evaluator stored with an emit
  entry,    \* what the runner saw and decided, until the position opens
  sample,   \* what Type B saw of the symbol, until it is dealt with
  saved,    \* the alternative profiles it was saved for
  pos,      \* the position's own stop_pct and take_pct
  cfg,      \* claw:config:{market}
  cached,   \* the monitor's copy of it
  hwm,      \* claw:trail_hwm:{market}:{symbol}
  age,      \* the seconds it has been held, rounded down to one of Ages
  replay    \* coin_shadow's replay of the prices of this position

vars == <<env, phase, verdict, entry, sample, saved, pos, cfg, cached, hwm,
          age, replay>>
deciding == <<verdict, entry, sample, saved>>
holding == <<pos, hwm, age, replay>>

Avg == Unit          \* prices of a position are relative to its average
Unset == [p \in Param |-> None]
NoReplay == [hwm |-> Avg, ended |-> None]
MaxOf(a, b) == IF a >= b THEN a ELSE b
Abs(x) == IF x >= 0 THEN x ELSE -x

Init ==
  /\ env \in Scenario /\ phase = "idle"
  /\ verdict = None /\ entry = None /\ sample = None /\ saved = {}
  /\ pos = None /\ cfg = Unset /\ cached = Unset
  /\ hwm = Avg /\ age = 0 /\ replay = NoReplay

(* The reason of the first rule that applies; rules are checked in order.  *)
FirstMatch(rules, otherwise) ==
  LET hits == {i \in DOMAIN rules : rules[i][1]} IN
  IF hits = {} THEN otherwise ELSE rules[Min(hits)][2]

-----------------------------------------------------------------------------
(* The evaluator's prefilter and the runner's Type A gates.                *)

EvalSurge(m) == IF m = "KR" THEN 300 ELSE 200
EvalMinRet1(m) == IF m = "COIN" THEN 40 ELSE 20
SurgeThreshold(m) == IF m = "KR" THEN 300 ELSE 200
MinRet1(m) == IF m = "COIN" THEN 40 ELSE 20

(* ret_1m / ret_5m is at least 0.35, or cannot be told.                    *)
Accelerates(ret5, ret1) == ret5 <= 0 \/ 100 * ret1 >= 35 * ret5

(* Mutant: a stale HOLD is evaluated again whatever the market does.       *)
X_EvalPrefilter(m, forced, f) ==
  /\ f.ret5 # None
  /\ forced => f.ret5 >= -50
  /\ forced \/ f.ret5 > EvalSurge(m)
  /\ f.range # None => f.range > 40
  /\ m = "COIN" => /\ f.ret1 # None
                   /\ f.ret1 >= EvalMinRet1(m)
                   /\ Accelerates(f.ret5, f.ret1)

(* _eval_symbol asks Claude about the features f only then; forced: it     *)
(* looks again at a HOLD that has become stale.                            *)
EvalPrefilter(m, forced, f) ==
  /\ f.ret5 # None
  /\ forced => f.ret5 >= -50
  /\ f.ret5 > EvalSurge(m)
  /\ f.range # None => f.range > 40
  /\ m = "COIN" => /\ f.ret1 # None
                   /\ f.ret1 >= EvalMinRet1(m)
                   /\ Accelerates(f.ret5, f.ret1)

(* What int() makes of vol:{market}:{symbol}:{day}: upbit_feed writes the  *)
(* text of a float, kis_feed that of an integer.                           *)
IntText(m, v) == IF m = "COIN" THEN None ELSE v

VolumeRatio(m) == IF m = "KR" THEN 12 ELSE 15      \* tenths
MinSamples(m) == IF m = "KR" THEN 0 ELSE 3

(* _get_volume_surge_status of the day's volume and the last days'.        *)
VolumeSurge(m, vol) ==
  LET today == IntText(m, vol.today)
      past == SelectSeq(vol.past, LAMBDA v : IntText(m, v) # None)
  IN \/ today = None
     \/ past = << >> /\ m = "KR"
     \/ /\ past # << >> /\ Len(past) >= MinSamples(m)
        /\ 10 * today * Len(past) >= VolumeRatio(m) * FoldSeq(+, 0, past)

(* Positive news of high impact lowers the threshold of a KR symbol.       *)
SurgeFloor(m, news) ==
  IF m = "KR" /\ news THEN (7 * SurgeThreshold(m)) \div 10 ELSE SurgeThreshold(m)

(* _dynamic_pcts: stop_pct and take_pct of a signal.                       *)
DynamicPcts(m) ==
  IF m = "COIN" THEN [stop |-> 300, take |-> 1500] ELSE [stop |-> 150, take |-> 300]

(* normalize_kr_price_tick, of a price in won.                             *)
KrTick(p) ==
  LET tick == FirstMatch(<< <<p < 1000, 1>>, <<p < 5000, 5>>, <<p < 10000, 10>>,
                            <<p < 50000, 50>>, <<p < 100000, 100>>,
                            <<p < 500000, 500>> >>, 1000)
  IN (p \div tick) * tick

(* _normalize_price of a price in 1/Unit of a won or a cent.               *)
NormalizePrice(m, p) ==
  LET whole == p \div Unit
      part == p % Unit
      up == 2 * part > Unit \/ (2 * part = Unit /\ whole % 2 = 1)
  IN CASE m = "KR" -> Unit * KrTick(whole)
       [] m = "COIN" -> p
       [] OTHER -> Unit * (IF up THEN whole + 1 ELSE whole)

StopPriceOf(m, price) == NormalizePrice(m, price * (Unit - DynamicPcts(m).stop))

(* _calc_size_cash; cash None: reading the account raised.  Without a      *)
(* client it is one share, as it is where nothing is available (cash 0).   *)
BaseSize(m, price, cash) ==
  LET size == (30 * cash) \div 100 IN
  CASE cash = None -> (CASE m = "COIN" -> 5000
                         [] m = "KR" -> MaxOf(price, 100000)
                         [] OTHER -> MaxOf(price, 100 * 100))
    [] cash # None /\ cash <= 0 -> price
    [] OTHER -> IF m # "COIN" /\ size < price THEN price ELSE size

(* The size of a Type A order, weighted with Claude's confidence.          *)
SizeCash(m, price, cash, conf, news) ==
  LET mult == CASE conf = "high" -> 12 [] conf = "low" -> 8 [] OTHER -> 10
      size == (mult * BaseSize(m, price, cash)) \div 10
      floored == IF m = "COIN" THEN size ELSE MaxOf(size, price)
  IN IF m = "KR" /\ news THEN (15 * floored) \div 10 ELSE floored

(* run_once, from the features of the verdict and what it finds now: the   *)
(* price moves, and the symbol is traded.                                  *)
MomentumGates(m, f, live, news) ==
  /\ live # None
  /\ f.range # None
  /\ live > SurgeFloor(m, news)
  /\ live < 350
  /\ f.range > 40
  /\ f.ret1 # None => f.ret1 >= MinRet1(m)
  /\ m = "COIN" => f.ret1 # None /\ Accelerates(live, f.ret1)

VolumeGates(m, vol) ==
  /\ m = "COIN" => vol.today # None /\ vol.today >= 30
  /\ m \in {"KR", "COIN"} => VolumeSurge(m, vol)

-----------------------------------------------------------------------------
(* Type B and the alternative profiles.                                    *)

(* The gates written out in _run_type_b_coin: those of the ticker, then    *)
(* those of the live ret_5m and the order book's ratio (in hundredths).    *)
TrendGates(s) == <<
  <<s.change < 400, "reject_change_rate_weak">>,
  <<s.change > 1200, "reject_change_rate_overextended">>,
  <<s.near < 9700, "reject_far_from_high">>,
  <<s.vol < 10, "reject_low_vol_24h">> >>

TickGates(s) == <<
  <<s.ret5 = None, "reject_no_live_price">>,
  <<s.ret5 # None /\ s.ret5 < 50, "reject_ret_5m_weak">>,
  <<s.ret5 # None /\ s.ret5 > 250, "reject_ret_5m_overextended">>,
  <<s.ob = None, "reject_ob_ratio_missing">>,
  <<s.ob # None /\ s.ob < 105, "reject_ob_ratio_weak">> >>

TypeBGate(s) == FirstMatch(TrendGates(s) \o TickGates(s), "pass_pre_ai")

CurrentThresholds ==
  [change |-> 400, maxChange |-> 1200, near |-> 9700, vol |-> 10, ret5 |-> 50,
   maxRet5 |-> 250, needOb |-> TRUE, ob |-> 105]

AltProfile ==
  [alt_broad_trend_positive_5m |->
     [CurrentThresholds EXCEPT !.change = 150, !.near = 9000, !.vol = 3,
        !.ret5 = 0, !.maxRet5 = 200, !.needOb = FALSE, !.ob = 0],
   alt_pullback_setup_allow_small_dip |->
     [CurrentThresholds EXCEPT !.change = 150, !.near = 8800, !.vol = 3,
        !.ret5 = -20, !.maxRet5 = 200, !.needOb = FALSE, !.ob = 0]]

(* first_gate_fail_reason; the ticker is never missing where it is used.   *)
FirstGateFail(s, t) ==
  FirstMatch(<<
    <<s.change < t.change, "reject_change_rate_weak">>,
    <<s.change > t.maxChange, "reject_change_rate_overextended">>,
    <<s.near < t.near, "reject_far_from_high">>,
    <<s.vol < t.vol, "reject_low_vol_24h">>,
    <<s.ret5 = None, "reject_no_live_price">>,
    <<s.ret5 # None /\ s.ret5 < t.ret5, "reject_ret_5m_weak">>,
    <<s.ret5 # None /\ s.ret5 > t.maxRet5, "reject_ret_5m_overextended">>,
    <<t.needOb /\ s.ob = None, "reject_ob_ratio_missing">>,
    <<s.ob # None /\ s.ob < t.ob, "reject_ob_ratio_weak">> >>, "pass_pre_ai")

(* _maybe_save_type_b_alt_shadow_candidates.                               *)
AltCandidates(s) ==
  IF s.ret5 = None THEN {}
  ELSE {name \in DOMAIN AltProfile :
          FirstGateFail(s, AltProfile[name]) = "pass_pre_ai"}

-----------------------------------------------------------------------------
(* The exit rules.                                                         *)

Or(x, default) == IF x # None THEN x ELSE default

(* What _run_market passes to its rules.  A stock's stop and take come     *)
(* from the position unless the operator set them.                         *)
RunnerParams(m, c, own) ==
  IF m = "COIN"
  THEN [stop |-> Or(c.stop, 300), take |-> Or(c.take, 1500),
        trail |-> Or(c.trail, 400), tight |-> 300, trigger |-> 500,
        only |-> None, early |-> 600, earlyPct |-> 100, stagnant |-> TRUE,
        limit |-> 3600, max |-> 14400]
  ELSE [stop |-> Or(c.stop, own.stop), take |-> Or(c.take, own.take),
        trail |-> Or(c.trail, 150), tight |-> None, trigger |-> None,
        only |-> IF m = "KR" THEN 200 ELSE None, early |-> None,
        earlyPct |-> None, stagnant |-> m # "KR", limit |-> 900, max |-> 1800]

(* What _handle_ticker passes to its rules.                                *)
MonitorParams(c) ==
  [stop |-> Or(c.stop, 300), take |-> Or(c.take, 1500), trail |-> Or(c.trail, 400),
   tight |-> 300, trigger |-> 500, early |-> 600, earlyPct |-> 100,
   limit |-> 3600, max |-> 14400]

(* What evaluate_signal_snapshot passes to the runner's rules.             *)
ReplayParams ==
  LET signal == DynamicPcts("COIN") IN
  RunnerParams("COIN", [stop |-> signal.stop, take |-> signal.take, trail |-> None],
               None)

(* The share of its high a position may lose.                              *)
Trail(p, avg, high) ==
  IF p.tight # None /\ Unit * high >= avg * (Unit + p.trigger)
  THEN p.tight ELSE p.trail

StaticStop(p, avg) == avg * (Unit - p.stop)
TrailStop(p, avg, high) == high * (Unit - Trail(p, avg, high))

(* The price, in 1/Unit, at which a position with this high is sold.       *)
StopPrice(p, avg, high) ==
  IF high > avg THEN MaxOf(StaticStop(p, avg), TrailStop(p, avg, high))
  ELSE StaticStop(p, avg)

(* position_exit_runner._check_exit.                                       *)
RunnerExit(p, avg, mark, high, held) ==
  LET trailing == high > avg /\ TrailStop(p, avg, high) > StaticStop(p, avg)
      riding == p.only # None /\ Unit * (mark - avg) >= p.only * avg
  IN FirstMatch(<<
       <<Unit * mark <= StopPrice(p, avg, high) /\ trailing, "trailing_stop">>,
       <<Unit * mark <= StopPrice(p, avg, high), "stop_loss">>,
       <<~riding /\ Unit * mark >= avg * (Unit + p.take), "take_profit">>,
       <<p.early # None /\ held >= p.early
           /\ Unit * mark < avg * (Unit - p.earlyPct), "early_exit">>,
       <<p.stagnant /\ held >= 1200 /\ Unit * Abs(mark - avg) < 50 * avg
           /\ Unit * high < avg * (Unit + 100), "stagnant_exit">>,
       <<held >= p.limit /\ ~(high > avg /\ (riding \/ held < p.max)),
         "time_limit">> >>, None)

(* Mutant: the monitor grants every position time_limit_max.               *)
X_MonitorExit(p, avg, mark, high, held) ==
  LET trailing == high > avg /\ TrailStop(p, avg, high) > StaticStop(p, avg)
  IN FirstMatch(<<
       <<Unit * mark <= StopPrice(p, avg, high) /\ trailing, "trailing_stop">>,
       <<Unit * mark <= StopPrice(p, avg, high), "stop_loss">>,
       <<Unit * mark >= avg * (Unit + p.take), "take_profit">>,
       <<held >= p.early /\ Unit * mark < avg * (Unit - p.earlyPct), "early_exit">>,
       <<held >= 1200 /\ Unit * Abs(mark - avg) < 50 * avg
           /\ Unit * high < avg * (Unit + 100), "stagnant_exit">>,
       <<held >= p.limit /\ held >= p.max, "time_limit">> >>, None)

(* upbit_ws_exit_monitor._check_exit.                                      *)
MonitorExit(p, avg, mark, high, held) ==
  LET trailing == high > avg /\ TrailStop(p, avg, high) > StaticStop(p, avg)
  IN FirstMatch(<<
       <<Unit * mark <= StopPrice(p, avg, high) /\ trailing, "trailing_stop">>,
       <<Unit * mark <= StopPrice(p, avg, high), "stop_loss">>,
       <<Unit * mark >= avg * (Unit + p.take), "take_profit">>,
       <<held >= p.early /\ Unit * mark < avg * (Unit - p.earlyPct), "early_exit">>,
       <<held >= 1200 /\ Unit * Abs(mark - avg) < 50 * avg
           /\ Unit * high < avg * (Unit + 100), "stagnant_exit">>,
       <<held >= p.limit /\ ~(high > avg /\ held < p.max), "time_limit">> >>, None)

-----------------------------------------------------------------------------
(* One trade.                                                              *)

Rate == env.rates \cup {None}
Ret1 == {None, 19, 20, 39, 40, 80, 130}
Range5m == {None, 40, 41}
Features == [ret5 : Rate, ret1 : Ret1, range : Range5m]
Volumes ==
  [today : {None, 29, 30, 60}, past : {<< >>, <<20, 20>>, <<20, 50, 50>>}]
Samples ==
  [change : {149, 150, 399, 400, 1200, 1201}, near : {8799, 8800, 9000, 9699, 9700},
   vol : {2, 3, 9, 10}, ret5 : {None, -21, -20, -1, 0, 49, 50, 200, 201, 250, 251},
   ob : {None, 104, 105}]
Prices == CASE env.market = "KR" -> {1, 990, 70000}
            [] env.market = "US" -> {33, 34, 3333}
            [] OTHER -> {150}
Cash == {None, 0, 10000, 200000}
Confidence == {"high", "middle", "low"}

(* _eval_symbol finds features worth a call and Claude says emit, LONG.    *)
EvalSymbol(forced, f) ==
  /\ phase \in {"idle", "verdict"}
  /\ EvalPrefilter(env.market, forced, f)
  /\ phase' = "verdict" /\ verdict' = f
  /\ UNCHANGED <<env, entry, sample, saved, cfg, cached, holding>>

(* run_once of the verdict: a signal, or the verdict has been seen.        *)
RunOnce(live, news, vol) ==
  /\ phase = "verdict"
  /\ \E price \in Prices, cash \in Cash, conf \in Confidence :
       LET m == env.market
           stop == StopPriceOf(m, price)
       IN IF /\ MomentumGates(m, verdict, live, news)
               /\ VolumeGates(m, vol) /\ stop > 0
          THEN /\ phase' = "bought"
               /\ entry' = [live |-> live, news |-> news, vol |-> vol,
                            price |-> price, stop |-> stop,
                            size |-> SizeCash(m, price, cash, conf, news)]
               /\ UNCHANGED verdict
          ELSE phase' = "idle" /\ verdict' = None /\ UNCHANGED entry
  /\ UNCHANGED <<env, sample, saved, cfg, cached, holding>>

(* _run_type_b_coin: the symbol passes the gates, or is saved for the       *)
(* alternative profiles it passes.                                         *)
RunOnceTypeB(s) ==
  /\ env.typeB /\ phase = "idle" /\ sample = None
  /\ sample' = s
  /\ saved' = IF TypeBGate(s) = "pass_pre_ai" THEN {} ELSE AltCandidates(s)
  /\ UNCHANGED <<env, phase, verdict, entry, cfg, cached, holding>>

(* Claude is asked about a symbol that passed; the others are done with.   *)
TypeBDone ==
  /\ sample # None
  /\ \/ UNCHANGED phase
     \/ phase = "idle" /\ TypeBGate(sample) = "pass_pre_ai" /\ phase' = "bought"
  /\ sample' = None /\ saved' = {}
  /\ UNCHANGED <<env, verdict, entry, cfg, cached, holding>>

(* The order is filled; the poll gives a position it discovers the         *)
(* signal's stop and take, or 2 % each where claw:signal_pct is gone.      *)
Open(known) ==
  /\ phase = "bought"
  /\ phase' = "held"
  /\ pos' = IF known THEN DynamicPcts(env.market) ELSE [stop |-> 200, take |-> 200]
  /\ hwm' = Avg /\ age' = 0 /\ replay' = NoReplay
  /\ verdict' = None /\ entry' = None
  /\ UNCHANGED <<env, sample, saved, cfg, cached>>

(* coin_shadow looks at the same price: evaluate_signal_snapshot of a      *)
(* history that has the prices of this position.  That it samples on its   *)
(* own, and what it reports of a history without an end, is left out.      *)
Replay(mark) ==
  LET high == MaxOf(replay.hwm, mark) IN
  IF replay.ended # None THEN replay
  ELSE [hwm |-> high, ended |-> RunnerExit(ReplayParams, Avg, mark, high, age)]

(* Mutant: the last price takes the place of the high.                     *)
X_Watch(mark, reason) ==
  /\ phase = "held"
  /\ hwm' = mark
  /\ replay' = Replay(mark)
  /\ phase' = IF reason = None THEN "held" ELSE "sold"
  /\ UNCHANGED <<env, deciding, pos, cfg, cached, age>>

(* One look at a held position: the high is raised before the rules see it.*)
Watch(mark, reason) ==
  /\ phase = "held"
  /\ hwm' = MaxOf(hwm, mark)
  /\ replay' = Replay(mark)
  /\ phase' = IF reason = None THEN "held" ELSE "sold"
  /\ UNCHANGED <<env, deciding, pos, cfg, cached, age>>

(* _run_market of position_exit_runner.                                    *)
Poll(mark) ==
  Watch(mark, RunnerExit(RunnerParams(env.market, cfg, pos), Avg, mark,
                         MaxOf(hwm, mark), age))

(* _handle_ticker of upbit_ws_exit_monitor.                                *)
Ticker(mark) ==
  /\ env.market = "COIN"
  /\ Watch(mark, MonitorExit(MonitorParams(cached), Avg, mark, MaxOf(hwm, mark), age))

(* The position is gone; the keys of its high are deleted.                 *)
Close ==
  /\ phase = "sold"
  /\ phase' = "idle" /\ pos' = None /\ hwm' = Avg /\ age' = 0 /\ replay' = NoReplay
  /\ UNCHANGED <<env, deciding, cfg, cached>>

Wait ==
  /\ phase = "held" /\ age # Max(Ages)
  /\ age' = Min({a \in Ages : a > age})
  /\ UNCHANGED <<env, phase, deciding, pos, hwm, replay, cfg, cached>>

(* /claw set.                                                              *)
HandleSet(p, v) ==
  /\ cfg[p] # v
  /\ cfg' = [cfg EXCEPT ![p] = v]
  /\ UNCHANGED <<env, phase, deciding, holding, cached>>

(* The monitor's scan reads the configuration again.                       *)
Rescan ==
  /\ env.market = "COIN" /\ cached # cfg
  /\ cached' = cfg
  /\ UNCHANGED <<env, phase, deciding, holding, cfg>>

Next ==
  \/ \E forced \in BOOLEAN, f \in Features : EvalSymbol(forced, f)
  \/ \E live \in Rate, news \in BOOLEAN, vol \in Volumes : RunOnce(live, news, vol)
  \/ \E s \in Samples : RunOnceTypeB(s)
  \/ TypeBDone
  \/ \E known \in BOOLEAN : Open(known)
  \/ \E mark \in env.marks : Poll(mark) \/ Ticker(mark)
  \/ Close \/ Wait \/ Rescan
  \/ \E p \in Param : \E v \in env.set[p] : HandleSet(p, v)

Spec == Init /\ [][Next]_vars

-----------------------------------------------------------------------------
(* Properties.                                                             *)

StrongTwice ==
  entry # None =>
    /\ verdict.ret5 > SurgeThreshold(env.market)
    /\ env.market = "COIN" =>
         /\ verdict.ret1 >= MinRet1("COIN")
         /\ Accelerates(MaxOf(verdict.ret5, entry.live), verdict.ret1)

NoCentBelow(m, price) == m = "US" /\ price <= 33

PricedAndSized ==
  entry # None =>
    /\ 0 < entry.stop
    /\ ~NoCentBelow(env.market, entry.price) => entry.stop < Unit * entry.price
    /\ NoCentBelow(env.market, entry.price) => entry.stop = Unit * entry.price
    /\ env.market # "COIN" => entry.size >= entry.price

(* A Type A signal rests on two looks at the market, minutes apart and in  *)
(* two processes: what the evaluator saw exceeds the runner's threshold,   *)
(* also where it looked again at a stale HOLD, and a coin's one-minute     *)
(* rate keeps up with the larger of the two five-minute rates, of which    *)
(* each process compared it with one.  The stop of the signal is a price   *)
(* strictly below the entry, however the market rounds it, but for a US    *)
(* share of at most 33 cents: the half-even rounding to a cent makes its   *)
(* stop the entry itself.  And it pays for one share at least.             *)
EntryIsSound == StrongTwice /\ PricedAndSized

(* The same rule in two files says the same: the monitor would sell a coin *)
(* for the reason for which the runner would, at every price, once it has  *)
(* read the configuration; the profile that replays Type B's gates names   *)
(* the gate that refused; and coin_shadow's replay of a coin's prices ends *)
(* at the price at which the coin is sold, where nobody sets parameters.   *)
CopiesAgree ==
  /\ (phase = "held" /\ env.market = "COIN") =>
       \A mark \in env.marks :
         RunnerExit(RunnerParams("COIN", cfg, pos), Avg, mark, MaxOf(hwm, mark), age)
           = MonitorExit(MonitorParams(cfg), Avg, mark, MaxOf(hwm, mark), age)
  /\ sample # None =>
       TypeBGate(sample) = FirstGateFail(sample, CurrentThresholds)
  /\ (env.market = "COIN" /\ \A p \in Param : env.set[p] = {}) =>
       (phase = "sold" <=> replay.ended # None)

(* The price at which a position is sold never moves away from it while it *)
(* is held, whatever the market does and whichever process looks at it:    *)
(* the high only rises, and passing +5 % tightens a coin's trail.  An      *)
(* operator may move it, and a trail_pct set below the tight 3 % makes the *)
(* step to the tight trail loosen it: neither is promised.                 *)
StopNeverLoosens ==
  [][LET p == RunnerParams(env.market, cfg, pos) IN
     (phase = "held" /\ phase' = "held" /\ cfg' = cfg
        /\ (p.tight = None \/ p.tight <= p.trail))
       => StopPrice(p, Avg, hwm) <= StopPrice(p, Avg, hwm')]_vars

(* "COIN은 최소 샘플 미만이면 reject": a coin with fewer than three days of  *)
(* volume is not bought by Type A.                                         *)
CoinNeedsHistory ==
  (entry # None /\ env.market = "COIN") => Len(entry.vol.past) >= 3
=============================================================================
