--------------------------- MODULE TradeRulesProofs ---------------------------
(***************************************************************************)
(* Proofs about TradeRules: the copies of a rule say the same, an entry is *)
(* sound, and the price at which a position is sold never moves away from  *)
(* it.                                                                     *)
(***************************************************************************)
EXTENDS TradeRules, TLAPS, SequenceTheorems

(* The least of some positions of a list of rules.                         *)
LEMMA Least ==
  ASSUME NEW hits, hits \subseteq 1..9, hits # {}
  PROVE  Min(hits) \in hits /\ \A i \in hits : Min(hits) <= i
<1>1. \E i \in hits : \A j \in hits : i <= j
  <2>1. \A j \in hits : j \in {1, 2, 3, 4, 5, 6, 7, 8, 9}
    OBVIOUS
  <2>2. PICK k \in hits : TRUE
    OBVIOUS
  <2>3. QED BY <2>1, <2>2
<1>2. QED BY <1>1 DEF Min

(* Rules that apply alike give the same reason.                            *)
LEMMA MatchSame ==
  ASSUME NEW r, NEW s, NEW otherwise, DOMAIN r \subseteq 1..9,
         DOMAIN s = DOMAIN r,
         \A i \in DOMAIN r : (r[i][1] <=> s[i][1]) /\ r[i][2] = s[i][2]
  PROVE  FirstMatch(r, otherwise) = FirstMatch(s, otherwise)
<1> DEFINE hits == {i \in DOMAIN r : r[i][1]}
<1>1. hits = {i \in DOMAIN s : s[i][1]} /\ hits \subseteq DOMAIN r
  OBVIOUS
<1>2. /\ FirstMatch(r, otherwise)
           = IF hits = {} THEN otherwise ELSE r[Min(hits)][2]
      /\ FirstMatch(s, otherwise)
           = IF hits = {} THEN otherwise ELSE s[Min(hits)][2]
  BY <1>1 DEF FirstMatch
<1> HIDE DEF hits
<1>3. hits # {} => Min(hits) \in DOMAIN r
  BY <1>1, Least
<1>4. QED BY <1>2, <1>3

(* A coin is sold for the same reason by either process, whatever its      *)
(* average, its price, its high and its age.                               *)
LEMMA SellersAgree ==
  ASSUME NEW c \in [Param -> Int \cup {None}], NEW own, NEW avg \in Int,
         NEW mark \in Int, NEW high \in Int, NEW held \in Nat
  PROVE  RunnerExit(RunnerParams("COIN", c, own), avg, mark, high, held)
           = MonitorExit(MonitorParams(c), avg, mark, high, held)
<1> DEFINE p == RunnerParams("COIN", c, own)
           q == MonitorParams(c)
<1>1. /\ p.stop = q.stop /\ p.take = q.take /\ p.trail = q.trail
         /\ p.tight = q.tight /\ p.trigger = q.trigger
      /\ p.only = None /\ p.early = q.early /\ p.earlyPct = q.earlyPct
         /\ p.stagnant = TRUE /\ p.limit = q.limit /\ p.max = q.max
  BY DEF RunnerParams, MonitorParams
<1>1a. p.early = 600 /\ None # 600
  BY RuleConstants DEF RunnerParams
<1>2. StopPrice(p, avg, high) = StopPrice(q, avg, high)
      /\ TrailStop(p, avg, high) = TrailStop(q, avg, high)
      /\ StaticStop(p, avg) = StaticStop(q, avg)
  BY <1>1 DEF StopPrice, TrailStop, StaticStop, Trail
<1> HIDE DEF p, q
<1> DEFINE trailing == high > avg
                         /\ TrailStop(p, avg, high) > StaticStop(p, avg)
           riding == p.only # None /\ Unit * (mark - avg) >= p.only * avg
           still == Unit * Abs(mark - avg) < 50 * avg
             /\ Unit * high < avg * (Unit + 100)
           a1 == Unit * mark <= StopPrice(p, avg, high) /\ trailing
           a2 == Unit * mark <= StopPrice(p, avg, high)
           a3 == ~riding /\ Unit * mark >= avg * (Unit + p.take)
           b3 == Unit * mark >= avg * (Unit + q.take)
           a4 == p.early # None /\ held >= p.early
             /\ Unit * mark < avg * (Unit - p.earlyPct)
           b4 == held >= q.early /\ Unit * mark < avg * (Unit - q.earlyPct)
           a5 == p.stagnant /\ held >= 1200
             /\ Unit * Abs(mark - avg) < 50 * avg
                   /\ Unit * high < avg * (Unit + 100)
           b5 == held >= 1200 /\ Unit * Abs(mark - avg) < 50 * avg
                   /\ Unit * high < avg * (Unit + 100)
           a6 == held >= p.limit /\ ~(high > avg /\ (riding \/ held < p.max))
           b6 == held >= q.limit /\ ~(high > avg /\ held < q.max)
           r == << <<a1, "trailing_stop">>, <<a2, "stop_loss">>,
             <<a3, "take_profit">>,
                   <<a4, "early_exit">>, <<a5, "stagnant_exit">>,
                     <<a6, "time_limit">> >>
           s == << <<a1, "trailing_stop">>, <<a2, "stop_loss">>,
             <<b3, "take_profit">>,
                   <<b4, "early_exit">>, <<b5, "stagnant_exit">>,
                     <<b6, "time_limit">> >>
<1>3. RunnerExit(p, avg, mark, high, held) = FirstMatch(r, None)
  BY DEF RunnerExit
<1>4. MonitorExit(q, avg, mark, high, held) = FirstMatch(s, None)
  BY <1>2 DEF MonitorExit
<1>5. (a3 <=> b3) /\ (a4 <=> b4) /\ (a5 <=> b5) /\ (a6 <=> b6)
  BY <1>1, <1>1a
<1> HIDE DEF a1, a2, a3, a4, a5, a6, b3, b4, b5, b6
<1>6. DOMAIN r = 1..6 /\ DOMAIN s = 1..6
  OBVIOUS
<1>7. ASSUME NEW i \in 1..6 PROVE (r[i][1] <=> s[i][1]) /\ r[i][2] = s[i][2]
  <2>1. i \in {1, 2, 3, 4, 5, 6}
    OBVIOUS
  <2>2. QED BY <2>1, <1>5
<1> HIDE DEF r, s
<1>8. /\ DOMAIN r \subseteq 1..9 /\ DOMAIN s = DOMAIN r
      /\ \A i \in DOMAIN r : (r[i][1] <=> s[i][1]) /\ r[i][2] = s[i][2]
  BY <1>6, <1>7
<1>9. FirstMatch(r, None) = FirstMatch(s, None)
  BY <1>8, MatchSame
<1>10. QED BY <1>3, <1>4, <1>9 DEF p, q

(* Four gates and five gates are nine.                                     *)
LEMMA Concat ==
  ASSUME NEW a, NEW b, NEW c, NEW d, NEW e, NEW f, NEW g, NEW h, NEW i
  PROVE  <<a, b, c, d>> \o <<e, f, g, h, i>> = <<a, b, c, d, e, f, g, h, i>>
<1> DEFINE u == <<a, b, c, d>>
           v == <<e, f, g, h, i>>
           w == <<a, b, c, d, e, f, g, h, i>>
<1>1. Len(u) = 4 /\ Len(v) = 5 /\ Len(w) = 9 /\ DOMAIN w = 1..9
  OBVIOUS
<1>2. /\ u \in Seq({a,b,c,d,e,f,g,h,i}) /\ v \in Seq({a,b,c,d,e,f,g,h,i})
      /\ w \in Seq({a,b,c,d,e,f,g,h,i})
  OBVIOUS
<1>3. Len(u \o v) = 9 /\ u \o v \in Seq({a,b,c,d,e,f,g,h,i})
  BY <1>1, <1>2
<1>4. \A k \in 1..9 : (u \o v)[k] = IF k <= 4 THEN u[k] ELSE v[k - 4]
  BY <1>1, <1>2
<1>5. \A k \in 1..9 : w[k] = IF k <= 4 THEN u[k] ELSE v[k - 4]
  <2> TAKE k \in 1..9
  <2>1. k \in {1,2,3,4,5,6,7,8,9}
    OBVIOUS
  <2>2. QED BY <2>1
<1> HIDE DEF u, v, w
<1>5a. \A k \in 1..9 : (u \o v)[k] = w[k]
  BY <1>4, <1>5
<1>6. u \o v = w
  BY <1>1, <1>2, <1>3, <1>5a, SeqEqual
<1>7. QED BY <1>6 DEF u, v, w

(* Type B's gates, written out in the runner, are those of the profile.    *)
LEMMA TypeBAgrees ==
  ASSUME NEW s \in Samples
  PROVE  TypeBGate(s) = FirstGateFail(s, CurrentThresholds)
<1> DEFINE t == CurrentThresholds
           a == TrendGates(s) \o TickGates(s)
           b == <<
    <<s.change < t.change, "reject_change_rate_weak">>,
    <<s.change > t.maxChange, "reject_change_rate_overextended">>,
    <<s.near < t.near, "reject_far_from_high">>,
    <<s.vol < t.vol, "reject_low_vol_24h">>,
    <<s.ret5 = None, "reject_no_live_price">>,
    <<s.ret5 # None /\ s.ret5 < t.ret5, "reject_ret_5m_weak">>,
    <<s.ret5 # None /\ s.ret5 > t.maxRet5, "reject_ret_5m_overextended">>,
    <<t.needOb /\ s.ob = None, "reject_ob_ratio_missing">>,
    <<s.ob # None /\ s.ob < t.ob, "reject_ob_ratio_weak">> >>
<1>1. /\ t.change = 400 /\ t.maxChange = 1200 /\ t.near = 9700 /\ t.vol = 10
      /\ t.ret5 = 50 /\ t.maxRet5 = 250 /\ t.needOb = TRUE /\ t.ob = 105
  BY DEF CurrentThresholds
<1>2. /\ TypeBGate(s) = FirstMatch(a, "pass_pre_ai")
      /\ FirstGateFail(s, t) = FirstMatch(b, "pass_pre_ai")
  BY DEF TypeBGate, FirstGateFail
<1> HIDE DEF t
<1>3. b = <<
    <<s.change < 400, "reject_change_rate_weak">>,
    <<s.change > 1200, "reject_change_rate_overextended">>,
    <<s.near < 9700, "reject_far_from_high">>,
    <<s.vol < 10, "reject_low_vol_24h">>,
    <<s.ret5 = None, "reject_no_live_price">>,
    <<s.ret5 # None /\ s.ret5 < 50, "reject_ret_5m_weak">>,
    <<s.ret5 # None /\ s.ret5 > 250, "reject_ret_5m_overextended">>,
    <<s.ob = None, "reject_ob_ratio_missing">>,
    <<s.ob # None /\ s.ob < 105, "reject_ob_ratio_weak">> >>
  BY <1>1
<1>4. a = b
  BY <1>3, Concat DEF TrendGates, TickGates
<1>5. QED BY <1>2, <1>4 DEF t

(* coin_shadow passes to the runner's rules what the runner passes to them *)
(* of a coin for which nobody sets parameters.                             *)
LEMMA ReplayAgrees ==
  ASSUME NEW own, NEW high \in Int, NEW mark \in Int, NEW held \in Nat
  PROVE  RunnerExit(RunnerParams("COIN", Unset, own), Avg, mark, high, held)
           = RunnerExit(ReplayParams, Avg, mark, high, held)
<1> DEFINE c == [stop |-> 300, take |-> 1500, trail |-> None]
<1>1. /\ c \in [Param -> Int \cup {None}]
         /\ Unset \in [Param -> Int \cup {None}] /\ Avg \in Int
  BY DEF Unset, Param, Avg, Unit
<1>2. DynamicPcts("COIN") = [stop |-> 300, take |-> 1500]
  BY DEF DynamicPcts
<1>3. ReplayParams = RunnerParams("COIN", c, None)
  BY <1>2 DEF ReplayParams
<1>4. /\ Or(c.stop, 300) = 300 /\ Or(c.take, 1500) = 1500
         /\ Or(c.trail, 400) = 400
      /\ Or(Unset.stop, 300) = 300 /\ Or(Unset.take, 1500) = 1500
         /\ Or(Unset.trail, 400) = 400
  BY DEF Or, Unset, Param
<1> HIDE DEF c
<1> DEFINE R(st, ta, tr) ==
         [stop |-> st, take |-> ta, trail |-> tr, tight |-> 300,
           trigger |-> 500,
          early |-> 600, earlyPct |-> 100, limit |-> 3600, max |-> 14400]
<1>5a. \A x : MonitorParams(x)
         = R(Or(x.stop, 300), Or(x.take, 1500), Or(x.trail, 400))
  BY DEF MonitorParams
<1> HIDE DEF R
<1>5. MonitorParams(c) = MonitorParams(Unset)
  BY <1>4, <1>5a
<1>6. QED BY <1>1, <1>3, <1>5, SellersAgree

-----------------------------------------------------------------------------
(* The copies of a rule, in every state.                                   *)

(* A coin for which nobody may set parameters.                             *)
NothingSet == env.market = "COIN" /\ \A p \in Param : env.set[p] = {}

RulesTyped ==
  /\ env \in Environment
  /\ cfg \in [Param -> 1..Unit \cup {None}]
  /\ cached \in [Param -> 1..Unit \cup {None}]
  /\ hwm \in 1..2 * Unit /\ age \in Ages
  /\ sample # None => sample \in Samples
  /\ phase = "held" => pos.stop \in 1..Unit /\ pos.take \in 1..Unit

(* Where nobody sets parameters the replay has seen the same prices, and   *)
(* it has ended when the position is sold and not before.                  *)
ReplayInStep ==
  NothingSet =>
    /\ cfg = Unset /\ cached = Unset
    /\ phase \in {"idle", "verdict", "bought"} => replay = NoReplay
    /\ phase = "held" => replay.hwm = hwm /\ replay.ended = None
    /\ phase = "sold" => replay.ended # None

PhaseKnown == phase \in {"idle", "verdict", "bought", "held", "sold"}

RulesInv == RulesTyped /\ PhaseKnown /\ ReplayInStep

LEMMA FreshTyped ==
  Unset \in [Param -> 1..Unit \cup {None}] /\ Avg \in 1..2 * Unit /\ 0 \in Ages
  BY DEF Unset, Avg, Unit, Ages

LEMMA RulesInit == Init => RulesInv
<1> SUFFICES ASSUME Init PROVE RulesInv
  OBVIOUS
<1>2. RulesTyped
  BY FreshTyped, RuleConstants DEF Init, RulesTyped
<1>3. PhaseKnown /\ ReplayInStep
  BY DEF Init, PhaseKnown, ReplayInStep
<1>4. QED BY <1>2, <1>3 DEF RulesInv

LEMMA AgesKnown == \A a \in Ages : a \in Nat
  BY DEF Ages

(* A wait makes it older, up to the greatest age the rules compare with.   *)
LEMMA OlderIsAge ==
  ASSUME age \in Ages, age # Max(Ages), age' = Min({a \in Ages : a > age})
  PROVE  age' \in Ages
<1>1. Ages \subseteq Nat /\ age \in Nat
  BY AgesKnown
<1>2. 14400 \in Ages /\ \A a \in Ages : a <= 14400
  BY DEF Ages
<1>3. Max(Ages) = 14400
  <2>1. \A x \in Ages : (\A y \in Ages : y <= x) => x = 14400
    BY <1>2, <1>1
  <2>2. QED BY <1>2, <2>1 DEF Max
<1>4. {a \in Ages : a > age} # {}
  BY <1>1, <1>2, <1>3
<1>5. \E x \in {a \in Ages : a > age} :
        \A y \in {a \in Ages : a > age} : x <= y
  <2> DEFINE S == {a \in Ages : a > age}
  <2>1. \A a \in S : a \in {0, 600, 900, 1200, 1800, 3600, 14400}
    BY DEF Ages
  <2>2. PICK k \in S : TRUE
    BY <1>4
  <2> HIDE DEF S
  <2>3. QED BY <2>1, <2>2 DEF S
<1>6. QED BY <1>5 DEF Min

LEMMA RaisedHigh ==
  ASSUME NEW h \in 1..2 * Unit, NEW m \in 1..2 * Unit
  PROVE  MaxOf(h, m) \in 1..2 * Unit /\ MaxOf(h, m) >= h
<1>1. \A k \in Nat : \A x, y \in 1..k : MaxOf(x, y) \in 1..k /\ MaxOf(x, y) >= x
  BY DEF MaxOf
<1>2. 2 * Unit \in Nat
  BY DEF Unit
<1>3. QED BY <1>1, <1>2

LEMMA PctsAreShares == {150, 200, 300, 1500} \subseteq 1..Unit
  BY DEF Unit

LEMMA RulesTypedStep == RulesTyped /\ [Next]_vars => RulesTyped'
<1> SUFFICES ASSUME RulesTyped, [Next]_vars PROVE RulesTyped'
  OBVIOUS
<1> USE DEF RulesTyped
<1>1. ASSUME NEW forced \in BOOLEAN, NEW f \in Features, EvalSymbol(forced, f)
      PROVE RulesTyped'
  BY <1>1 DEF EvalSymbol, holding
<1>2. ASSUME NEW live \in Rate, NEW news \in BOOLEAN, NEW vol \in Volumes,
             RunOnce(live, news, vol)
      PROVE  RulesTyped'
  <2>1. phase' # "held" /\ UNCHANGED <<env, sample, cfg, cached, holding>>
    BY <1>2, Zenon DEF RunOnce
  <2>2. QED BY <2>1 DEF holding
<1>3. ASSUME NEW s \in Samples, RunOnceTypeB(s) PROVE RulesTyped'
  BY <1>3 DEF RunOnceTypeB, holding
<1>4. ASSUME TypeBDone PROVE RulesTyped'
  BY <1>4 DEF TypeBDone, holding
<1>5. ASSUME NEW known \in BOOLEAN, Open(known) PROVE RulesTyped'
  <2>1. pos'.stop \in 1..Unit /\ pos'.take \in 1..Unit
    <3>1. /\ pos'.stop \in {150, 200, 300} /\ pos'.take \in {200, 300, 1500}
      BY <1>5 DEF Open, DynamicPcts
    <3>2. QED BY <3>1, PctsAreShares
  <2>2. hwm' \in 1..2 * Unit /\ age' \in Ages
    BY <1>5, FreshTyped DEF Open
  <2>3. QED BY <1>5, <2>1, <2>2 DEF Open
<1>6. ASSUME NEW mark \in env.marks, NEW reason, Watch(mark, reason)
      PROVE RulesTyped'
  <2>1. mark \in 1..2 * Unit
    BY DEF Environment
  <2>2. hwm' \in 1..2 * Unit
    BY <1>6, <2>1, RaisedHigh DEF Watch
  <2>3. QED BY <1>6, <2>2 DEF Watch, deciding
<1>7. ASSUME Close PROVE RulesTyped'
  BY <1>7, FreshTyped DEF Close, deciding
<1>8. ASSUME Wait PROVE RulesTyped'
  <2>1. age' \in Ages
    BY <1>8, OlderIsAge DEF Wait
  <2>2. QED BY <1>8, <2>1 DEF Wait, deciding
<1>9. ASSUME Rescan PROVE RulesTyped'
  BY <1>9 DEF Rescan, deciding, holding
<1>10. ASSUME NEW p \in Param, NEW v \in env.set[p], HandleSet(p, v)
       PROVE RulesTyped'
  <2>1. v \in 1..Unit
    BY DEF Environment
  <2>2. cfg' \in [Param -> 1..Unit \cup {None}]
    BY <1>10, <2>1 DEF HandleSet
  <2>3. QED BY <1>10, <2>2 DEF HandleSet, deciding, holding
<1>11. CASE UNCHANGED vars
  BY <1>11 DEF vars
<1>12. QED
  BY <1>1, <1>2, <1>3, <1>4, <1>5, <1>6, <1>7, <1>8, <1>9, <1>10, <1>11
     DEF Next, Poll, Ticker

LEMMA LookTyped ==
  ASSUME RulesTyped, NEW mark \in env.marks
  PROVE  mark \in Int /\ MaxOf(hwm, mark) \in Int /\ age \in Nat /\ Avg \in Int
<1>1. hwm \in 1..2 * Unit /\ mark \in 1..2 * Unit
  BY DEF RulesTyped, Environment
<1>2. age \in Nat
  BY AgesKnown DEF RulesTyped
<1>3. MaxOf(hwm, mark) \in 1..2 * Unit
  BY <1>1, RaisedHigh
<1>4. mark \in Int /\ MaxOf(hwm, mark) \in Int
  BY <1>1, <1>3
<1>5. Avg \in Int
  BY DEF Avg, Unit
<1>6. QED BY <1>2, <1>4, <1>5

(* A look at the price takes the replay one step further.                  *)
LEMMA ReplayLooks ==
  ASSUME RulesTyped, NEW mark \in env.marks, replay.ended = None,
         replay.hwm = hwm,
         NEW reason, Watch(mark, reason),
         reason = RunnerExit(ReplayParams, Avg, mark, MaxOf(hwm, mark), age)
  PROVE  /\ phase' \in {"held", "sold"}
         /\ phase' = "held" => replay'.hwm = hwm' /\ replay'.ended = None
         /\ phase' = "sold" => replay'.ended # None
  BY DEF Watch, Replay

LEMMA ReplayStep == RulesInv /\ [Next]_vars => PhaseKnown' /\ ReplayInStep'
<1> SUFFICES ASSUME RulesInv, [Next]_vars PROVE PhaseKnown' /\ ReplayInStep'
  OBVIOUS
<1> USE DEF PhaseKnown, ReplayInStep
<1>a. env' = env
  BY DEF Next, vars, EvalSymbol, RunOnce, RunOnceTypeB, TypeBDone, Open, Poll,
     Ticker, Watch,
         Close, Wait, Rescan, HandleSet
<1>b. NothingSet' <=> NothingSet
  BY <1>a DEF NothingSet
<1>c. PhaseKnown /\ ReplayInStep /\ RulesTyped
  BY DEF RulesInv
<1>1. ASSUME NEW forced \in BOOLEAN, NEW f \in Features, EvalSymbol(forced, f)
      PROVE  PhaseKnown' /\ ReplayInStep'
  BY <1>1, <1>b, <1>c DEF EvalSymbol, holding
<1>2. ASSUME NEW live \in Rate, NEW news \in BOOLEAN, NEW vol \in Volumes,
             RunOnce(live, news, vol)
      PROVE  PhaseKnown' /\ ReplayInStep'
  <2>1. phase = "verdict" /\ phase' \in {"idle", "bought"}
        /\ UNCHANGED <<env, sample, cfg, cached, holding>>
    BY <1>2, Zenon DEF RunOnce
  <2>2. QED BY <2>1, <1>b, <1>c DEF holding
<1>3. ASSUME NEW s \in Samples, RunOnceTypeB(s)
      PROVE PhaseKnown' /\ ReplayInStep'
  BY <1>3, <1>b, <1>c DEF RunOnceTypeB, holding
<1>4. ASSUME TypeBDone PROVE PhaseKnown' /\ ReplayInStep'
  BY <1>4, <1>b, <1>c DEF TypeBDone, holding
<1>5. ASSUME NEW known \in BOOLEAN, Open(known)
      PROVE PhaseKnown' /\ ReplayInStep'
  BY <1>5, <1>b, <1>c DEF Open, NoReplay
<1>6. ASSUME NEW mark \in env.marks, Poll(mark)
      PROVE PhaseKnown' /\ ReplayInStep'
  <2> DEFINE reason == RunnerExit(RunnerParams(env.market, cfg, pos), Avg,
             mark, MaxOf(hwm, mark), age)
  <2>1. Watch(mark, reason)
    BY <1>6 DEF Poll
  <2> HIDE DEF reason
  <2>2. phase = "held" /\ phase' \in {"held", "sold"}
        /\ UNCHANGED <<cfg, cached>>
    BY <2>1 DEF Watch
  <2>3. CASE ~NothingSet
    BY <2>2, <2>3, <1>b
  <2>4. CASE NothingSet
    <3>1. reason = RunnerExit(ReplayParams, Avg, mark, MaxOf(hwm, mark), age)
      <4>1. env.market = "COIN" /\ cfg = Unset
        BY <1>c, <2>4 DEF NothingSet
      <4>2. QED BY <4>1, <1>c, LookTyped, ReplayAgrees DEF reason
    <3>2. QED BY <1>b, <1>c, <2>1, <2>2, <2>4, <3>1, ReplayLooks
  <2>5. QED BY <2>3, <2>4
<1>7. ASSUME NEW mark \in env.marks, Ticker(mark)
      PROVE PhaseKnown' /\ ReplayInStep'
  <2> DEFINE reason == MonitorExit(MonitorParams(cached), Avg, mark,
             MaxOf(hwm, mark), age)
  <2>1. Watch(mark, reason)
    BY <1>7 DEF Ticker
  <2> HIDE DEF reason
  <2>2. phase = "held" /\ phase' \in {"held", "sold"}
        /\ UNCHANGED <<cfg, cached>>
    BY <2>1 DEF Watch
  <2>3. CASE ~NothingSet
    BY <2>2, <2>3, <1>b
  <2>4. CASE NothingSet
    <3>1. reason = RunnerExit(ReplayParams, Avg, mark, MaxOf(hwm, mark), age)
      <4>1. cached = Unset /\ Unset \in [Param -> Int \cup {None}]
        BY <1>c, <2>4 DEF Unset
      <4>2. reason = RunnerExit(RunnerParams("COIN", Unset, pos), Avg, mark,
            MaxOf(hwm, mark), age)
        BY <4>1, <1>c, LookTyped, SellersAgree DEF reason
      <4>3. QED BY <4>2, <1>c, LookTyped, ReplayAgrees
    <3>2. QED BY <1>b, <1>c, <2>1, <2>2, <2>4, <3>1, ReplayLooks
  <2>5. QED BY <2>3, <2>4
<1>8. ASSUME Close PROVE PhaseKnown' /\ ReplayInStep'
  BY <1>8, <1>b, <1>c DEF Close
<1>9. ASSUME Wait PROVE PhaseKnown' /\ ReplayInStep'
  BY <1>9, <1>b, <1>c DEF Wait
<1>10. ASSUME Rescan PROVE PhaseKnown' /\ ReplayInStep'
  BY <1>10, <1>b, <1>c DEF Rescan, holding
<1>11. ASSUME NEW p \in Param, NEW v \in env.set[p], HandleSet(p, v)
       PROVE  PhaseKnown' /\ ReplayInStep'
  <2>1. ~NothingSet
    BY DEF NothingSet
  <2>2. QED BY <1>11, <1>b, <1>c, <2>1 DEF HandleSet
<1>12. CASE UNCHANGED vars
  BY <1>12, <1>b, <1>c DEF vars
<1>13. QED
  BY <1>1, <1>2, <1>3, <1>4, <1>5, <1>6, <1>7, <1>8, <1>9, <1>10, <1>11, <1>12
     DEF Next

LEMMA RulesStep == RulesInv /\ [Next]_vars => RulesInv'
  BY RulesTypedStep, ReplayStep DEF RulesInv

(* The invariant is what CopiesAgree needs.                                *)
LEMMA RulesAgree == RulesInv => CopiesAgree
<1> SUFFICES ASSUME RulesInv PROVE CopiesAgree
  OBVIOUS
<1>1. RulesTyped /\ PhaseKnown /\ ReplayInStep
  BY DEF RulesInv
<1>2. ASSUME NEW mark \in env.marks
      PROVE  RunnerExit(RunnerParams("COIN", cfg, pos), Avg, mark,
             MaxOf(hwm, mark), age)
               = MonitorExit(MonitorParams(cfg), Avg, mark, MaxOf(hwm, mark),
                 age)
  <2>1. cfg \in [Param -> Int \cup {None}]
    BY <1>1 DEF RulesTyped
  <2>2. QED BY <1>1, <2>1, LookTyped, SellersAgree
<1>3. sample # None => TypeBGate(sample)
        = FirstGateFail(sample, CurrentThresholds)
  BY <1>1, TypeBAgrees DEF RulesTyped
<1>4. NothingSet => (phase = "sold" <=> replay.ended # None)
  BY <1>1 DEF PhaseKnown, ReplayInStep, NoReplay
<1>5. QED BY <1>2, <1>3, <1>4 DEF CopiesAgree, NothingSet

(* The copies of the exit rules, of Type B's gates and of coin_shadow's    *)
(* rules say the same as the runner's, for every price, average, high,     *)
(* age and every parameter an operator may have set (CopiesAgree).         *)
THEOREM CopiesSaySame == Spec => []CopiesAgree
<1>1. Spec => []RulesInv
  BY RulesInit, RulesStep, PTL DEF Spec
<1>2. QED BY <1>1, RulesAgree, PTL

-----------------------------------------------------------------------------
(* A position's stop.                                                      *)

(* Products of natural numbers rise with their factors.                    *)
LEMMA Product ==
  ASSUME NEW a \in Nat, NEW b \in Nat, NEW c \in Nat, NEW d \in Nat, a <= b,
         c <= d
  PROVE  a * c <= b * d
<1>1. a * c <= b * c
  OBVIOUS
<1>2. b * c <= b * d
  OBVIOUS
<1>3. a * c \in Int /\ b * c \in Int /\ b * d \in Int
  OBVIOUS
<1>4. QED BY <1>1, <1>2, <1>3

(* A share of a price, in basis points.                                    *)
Share(x) == x \in 1..10000

LEMMA ShareTyped == \A x : Share(x) => x \in Int /\ 1 <= x /\ x <= 10000
  BY DEF Share

LEMMA SomeShares == Share(300) /\ Share(400) /\ Share(150)
  BY DEF Share

LEMMA OrShare ==
  ASSUME NEW x, x = None \/ Share(x), NEW d, Share(d)
  PROVE  Share(Or(x, d))
  BY DEF Or

(* A higher high brings a stop that is no lower where its trail is no      *)
(* wider.                                                                  *)
LEMMA HigherStop ==
  ASSUME NEW p, NEW h \in Nat, NEW k \in Nat, h <= k, Share(p.stop),
         NEW x, Share(x), NEW y, Share(y), y <= x,
         Trail(p, Avg, h) = x, Trail(p, Avg, k) = y
  PROVE  StopPrice(p, Avg, h) <= StopPrice(p, Avg, k)
<1> DEFINE s == 10000 * (10000 - p.stop)
           c == 10000 - x
           d == 10000 - y
           t == h * c
           u == k * d
<1>1. Avg = 10000 /\ Unit = 10000
  BY DEF Avg, Unit
<1>2. TrailStop(p, Avg, h) = t /\ TrailStop(p, Avg, k) = u
      /\ StaticStop(p, Avg) = s
  BY <1>1 DEF TrailStop, StaticStop
<1>3. c \in Nat /\ d \in Nat /\ c <= d /\ s \in Int
  BY ShareTyped
<1> HIDE DEF c, d, s
<1>4. t <= u
  BY <1>3, Product
<1>5. t \in Int /\ u \in Int
  BY <1>3
<1> HIDE DEF t, u
<1>6. QED BY <1>1, <1>2, <1>3, <1>4, <1>5 DEF StopPrice, MaxOf

(* A coin's trail tightens past +5 %, a stock's stays as it is.            *)
LEMMA CoinStop ==
  ASSUME NEW c, NEW own, Share(Or(c.stop, 300)), Share(Or(c.trail, 400)),
         300 <= Or(c.trail, 400), NEW h \in Nat, NEW k \in Nat, h <= k
  PROVE  StopPrice(RunnerParams("COIN", c, own), Avg, h)
           <= StopPrice(RunnerParams("COIN", c, own), Avg, k)
<1> DEFINE p == RunnerParams("COIN", c, own)
           wide == Or(c.trail, 400)
           x == IF 10000 * h >= 10000 * (10000 + 500) THEN 300 ELSE wide
           y == IF 10000 * k >= 10000 * (10000 + 500) THEN 300 ELSE wide
<1>1. p.stop = Or(c.stop, 300) /\ p.trail = wide /\ p.tight = 300
      /\ p.trigger = 500
  BY DEF RunnerParams
<1>2. Avg = 10000 /\ Unit = 10000 /\ None # 300
  BY RuleConstants DEF Avg, Unit
<1> HIDE DEF p, wide
<1>3. Trail(p, Avg, h) = x /\ Trail(p, Avg, k) = y
  BY <1>1, <1>2 DEF Trail
<1>4. Share(x) /\ Share(y) /\ y <= x
  <2>1. wide \in Int /\ 300 <= wide /\ Share(wide) /\ Share(300)
    BY ShareTyped, SomeShares DEF wide
  <2>2. CASE h >= 10500
    <3>1. x = 300 /\ y = 300
      BY <2>2
    <3> HIDE DEF x, y
    <3>2. QED BY <3>1, <2>1
  <2>3. CASE h < 10500
    <3>1. x = wide /\ (y = 300 \/ y = wide)
      BY <2>3
    <3> HIDE DEF x, y
    <3>2. QED BY <3>1, <2>1
  <2>4. h >= 10500 \/ h < 10500
    OBVIOUS
  <2> HIDE DEF x, y
  <2>5. QED BY <2>2, <2>3, <2>4
<1> HIDE DEF x, y
<1>5. StopPrice(p, Avg, h) <= StopPrice(p, Avg, k)
  BY <1>1, <1>3, <1>4, HigherStop
<1>6. QED BY <1>5 DEF p

LEMMA StockStop ==
  ASSUME NEW m, m # "COIN", NEW c, NEW own, Share(Or(c.stop, own.stop)),
         Share(Or(c.trail, 150)), NEW h \in Nat, NEW k \in Nat, h <= k
  PROVE  StopPrice(RunnerParams(m, c, own), Avg, h)
         <= StopPrice(RunnerParams(m, c, own), Avg, k)
<1> DEFINE p == RunnerParams(m, c, own)
           wide == Or(c.trail, 150)
<1>1. p.stop = Or(c.stop, own.stop) /\ p.trail = wide /\ p.tight = None
  BY DEF RunnerParams
<1> HIDE DEF p, wide
<1>2. Trail(p, Avg, h) = wide /\ Trail(p, Avg, k) = wide
  BY <1>1 DEF Trail
<1>3. Share(wide) /\ wide <= wide
  BY ShareTyped DEF wide
<1>4. StopPrice(p, Avg, h) <= StopPrice(p, Avg, k)
  BY <1>1, <1>2, <1>3, HigherStop
<1>5. QED BY <1>4 DEF p

LEMMA ConfigTyped ==
  ASSUME RulesTyped, phase = "held"
  PROVE  /\ Share(Or(cfg.stop, 300)) /\ Share(Or(cfg.trail, 400))
         /\ Share(Or(cfg.stop, pos.stop)) /\ Share(Or(cfg.trail, 150))
<1>1. cfg.stop \in 1..Unit \cup {None} /\ cfg.trail \in 1..Unit \cup {None}
  BY "stop" \in Param, "trail" \in Param DEF RulesTyped, Param
<1>2. pos.stop \in 1..Unit
  BY DEF RulesTyped
<1>3. \A x : x \in 1..Unit => Share(x)
  BY DEF Unit, Share
<1>4. /\ cfg.stop = None \/ Share(cfg.stop)
      /\ cfg.trail = None \/ Share(cfg.trail)
      /\ Share(pos.stop) /\ Share(300) /\ Share(400) /\ Share(150)
  BY <1>1, <1>2, <1>3, SomeShares
<1>5. QED BY <1>4, OrShare

(* Whatever happens to a held position, its high does not fall.            *)
LEMMA HighRises ==
  ASSUME RulesTyped, [Next]_vars, phase = "held", phase' = "held"
  PROVE  hwm \in Nat /\ hwm' \in Nat /\ hwm <= hwm'
<1>1. hwm \in 1..2 * Unit /\ hwm' \in 1..2 * Unit
  BY RulesTypedStep DEF RulesTyped
<1>2. ASSUME NEW mark \in env.marks, NEW reason, Watch(mark, reason)
      PROVE hwm <= hwm'
  <2>1. mark \in 1..2 * Unit
    BY DEF RulesTyped, Environment
  <2>2. QED BY <1>1, <1>2, <2>1, RaisedHigh DEF Watch
<1>3. hwm <= hwm' \/ hwm' = hwm
  BY <1>2 DEF Next, vars, EvalSymbol, RunOnce, RunOnceTypeB, TypeBDone, Open,
     Poll, Ticker,
     Close, Wait, Rescan, HandleSet, holding, deciding
<1>4. hwm \in Nat /\ hwm' \in Nat
  <2>1. \A k \in Nat : \A x \in 1..k : x \in Nat
    OBVIOUS
  <2>2. 2 * Unit \in Nat
    BY DEF Unit
  <2>3. QED BY <1>1, <2>1, <2>2
<1>5. QED BY <1>3, <1>4

(* Whatever the market does and whichever process looks, no step moves the *)
(* price at which a held position is sold away from it, unless an operator *)
(* sets a parameter (StopNeverLoosens).                                    *)
THEOREM StopHolds == Spec => StopNeverLoosens
<1> DEFINE p == RunnerParams(env.market, cfg, pos)
<1>1. ASSUME RulesTyped, [Next]_vars, phase = "held", phase' = "held",
             p.tight = None \/ p.tight <= p.trail
      PROVE  StopPrice(p, Avg, hwm) <= StopPrice(p, Avg, hwm')
  <2>1. CASE env.market = "COIN"
    <3>1. p.tight = 300 /\ p.trail = Or(cfg.trail, 400) /\ None # 300
      BY <2>1, RuleConstants DEF RunnerParams
    <3>2. 300 <= Or(cfg.trail, 400)
      BY <1>1, <3>1
    <3>3. QED BY <1>1, <2>1, <3>2, ConfigTyped, HighRises, CoinStop
  <2>2. CASE env.market # "COIN"
    BY <1>1, <2>2, ConfigTyped, HighRises, StockStop
  <2>3. QED BY <2>1, <2>2
<1>2. Spec => []RulesInv
  BY RulesInit, RulesStep, PTL DEF Spec
<1>3. RulesInv => RulesTyped
  BY DEF RulesInv
<1> DEFINE A == (phase = "held" /\ phase' = "held" /\ cfg' = cfg
                  /\ (p.tight = None \/ p.tight <= p.trail))
                 => StopPrice(p, Avg, hwm) <= StopPrice(p, Avg, hwm')
<1>4. RulesTyped /\ [Next]_vars => [A]_vars
  BY <1>1
<1> HIDE DEF A
<1>5. Spec => [][A]_vars
  BY <1>2, <1>3, <1>4, PTL DEF Spec
<1>6. QED BY <1>5 DEF A, StopNeverLoosens

-----------------------------------------------------------------------------
(* An entry.                                                               *)

(* The verdict passed the evaluator's prefilter.                           *)
Prefiltered ==
  /\ verdict.ret5 > SurgeThreshold(env.market)
  /\ env.market = "COIN" => /\ verdict.ret1 >= MinRet1("COIN")
                            /\ Accelerates(verdict.ret5, verdict.ret1)

EntryInv ==
  /\ env \in Environment
  /\ phase = "verdict" => Prefiltered
  /\ phase \in {"idle", "verdict", "held", "sold"} => entry = None
  /\ phase \in {"idle", "verdict", "bought", "held", "sold"}
  /\ EntryIsSound

(* The evaluator has the thresholds of the runner.                         *)
LEMMA PrefilterHolds ==
  ASSUME NEW m, NEW forced, NEW f, EvalPrefilter(m, forced, f)
  PROVE  /\ f.ret5 > SurgeThreshold(m)
         /\ m = "COIN" => f.ret1 >= MinRet1("COIN")
            /\ Accelerates(f.ret5, f.ret1)
<1>1. EvalSurge(m) = SurgeThreshold(m) /\ EvalMinRet1("COIN") = MinRet1("COIN")
  BY DEF EvalSurge, SurgeThreshold, EvalMinRet1, MinRet1
<1>2. /\ f.ret5 > EvalSurge(m)
      /\ m = "COIN" => f.ret1 >= EvalMinRet1(m) /\ Accelerates(f.ret5, f.ret1)
  BY DEF EvalPrefilter
<1>3. QED BY <1>1, <1>2

(* A rate of one minute that keeps up with two rates keeps up with the     *)
(* larger.                                                                 *)
LEMMA FasterOfTwo ==
  ASSUME NEW a, NEW b, NEW r, Accelerates(a, r), Accelerates(b, r)
  PROVE  Accelerates(MaxOf(a, b), r)
  BY DEF MaxOf

(* A price is rounded down to a whole number of ticks.                     *)
LEMMA WholeTicks ==
  ASSUME NEW w \in Nat, NEW t \in Nat \ {0}
  PROVE  (w \div t) * t <= w
  OBVIOUS

LEMMA KrTickBelow ==
  ASSUME NEW w \in Nat
  PROVE  KrTick(w) \in Int /\ KrTick(w) <= w
<1> DEFINE rules == << <<w < 1000, 1>>, <<w < 5000, 5>>, <<w < 10000, 10>>,
                       <<w < 50000, 50>>, <<w < 100000, 100>>,
                         <<w < 500000, 500>> >>
           tick == FirstMatch(rules, 1000)
<1>1. tick \in Nat \ {0}
  <2> DEFINE hits == {i \in DOMAIN rules : rules[i][1]}
  <2>1. DOMAIN rules = 1..6
    OBVIOUS
  <2>2. \A i \in 1..6 : rules[i][2] \in Nat \ {0}
    <3>1. ASSUME NEW i \in 1..6 PROVE rules[i][2] \in Nat \ {0}
      <4>1. i \in {1, 2, 3, 4, 5, 6}
        OBVIOUS
      <4>2. QED BY <4>1
    <3>2. QED BY <3>1
  <2>3. tick = IF hits = {} THEN 1000 ELSE rules[Min(hits)][2]
    BY DEF FirstMatch
  <2> HIDE DEF tick
  <2>4. CASE hits = {}
    BY <2>3, <2>4
  <2>5. CASE hits # {}
    <3>1. hits \subseteq 1..6 /\ hits \subseteq 1..9
      BY <2>1
    <3> HIDE DEF rules, hits
    <3>2. Min(hits) \in hits
      BY <2>5, <3>1, Least
    <3>3. QED BY <2>2, <2>3, <2>5, <3>1, <3>2
  <2>6. QED BY <2>4, <2>5
<1>2. KrTick(w) = (w \div tick) * tick
  BY DEF KrTick
<1> HIDE DEF tick
<1>3. QED BY <1>1, <1>2, WholeTicks

(* Whatever the rounding, the stop is below the price, but where no cent   *)
(* is.                                                                     *)
LEMMA StopBelowPrice ==
  ASSUME NEW m \in Market, NEW price \in Nat \ {0}
  PROVE  /\ ~NoCentBelow(m, price) => StopPriceOf(m, price) < Unit * price
         /\ NoCentBelow(m, price) => StopPriceOf(m, price) = Unit * price
<1>1. CASE m = "COIN"
  <2>1. StopPriceOf(m, price) = price * (10000 - 300)
    BY <1>1 DEF StopPriceOf, NormalizePrice, DynamicPcts, Unit
  <2>2. ~NoCentBelow(m, price)
    BY <1>1 DEF NoCentBelow
  <2>3. QED BY <2>1, <2>2 DEF Unit
<1>2. CASE m = "KR"
  <2> DEFINE w == (price * (10000 - 150)) \div 10000
  <2>1. StopPriceOf(m, price) = 10000 * KrTick(w)
    BY <1>2 DEF StopPriceOf, NormalizePrice, DynamicPcts, Unit
  <2>2. w \in Nat /\ w < price
    OBVIOUS
  <2> HIDE DEF w
  <2>3. KrTick(w) \in Int /\ KrTick(w) < price
    BY <2>2, KrTickBelow
  <2>4. ~NoCentBelow(m, price)
    BY <1>2 DEF NoCentBelow
  <2>5. QED BY <2>1, <2>3, <2>4 DEF Unit
<1>3. CASE m = "US"
  <2> DEFINE p == price * (10000 - 150)
             w == p \div 10000
             part == p % 10000
             up == 2 * part > 10000 \/ (2 * part = 10000 /\ w % 2 = 1)
             cents == IF up THEN w + 1 ELSE w
  <2>1. StopPriceOf(m, price) = 10000 * cents
    BY <1>3 DEF StopPriceOf, NormalizePrice, DynamicPcts, Unit
  <2>2. NoCentBelow(m, price) <=> price <= 33
    BY <1>3 DEF NoCentBelow
  <2>3. /\ 10000 * w + part = 9850 * price
        /\ part \in Nat /\ part < 10000 /\ w \in Nat /\ price \in Nat
        /\ price > 0
    OBVIOUS
  <2> HIDE DEF p, w, part
  <2>4. CASE price <= 33
    <3>1. w = price - 1 /\ part = 10000 - 150 * price
      BY <2>3, <2>4
    <3>2. cents = price
      BY <2>4, <3>1
    <3>3. QED BY <2>1, <2>2, <2>4, <3>2 DEF Unit
  <2>5. CASE price > 33
    <3>1. w <= price - 1
      <4>1. 10000 * w <= 9850 * price
        BY <2>3
      <4>2. 9850 * price < 10000 * price
        BY <2>3
      <4>3. QED BY <2>3, <4>1, <4>2
    <3>2. w = price - 1 => 2 * part < 10000
      BY <2>3, <2>5
    <3>3. cents \in Int /\ cents < price
      BY <2>3, <3>1, <3>2
    <3>4. QED BY <2>1, <2>2, <2>5, <3>3 DEF Unit
  <2>6. QED BY <2>4, <2>5
<1>4. QED BY <1>1, <1>2, <1>3 DEF Market

(* Whatever the account, the confidence and the news, one share is paid.   *)
LEMMA SizePaysForOne ==
  ASSUME NEW m \in Market, m # "COIN", NEW price \in Nat \ {0},
         NEW cash \in Cash,
         NEW conf \in Confidence, NEW news \in BOOLEAN
  PROVE  SizeCash(m, price, cash, conf, news) >= price
<1> DEFINE size == (30 * cash) \div 100
           base == BaseSize(m, price, cash)
           mult == CASE conf = "high" -> 12 [] conf = "low" -> 8 [] OTHER -> 10
           weighted == (mult * base) \div 10
           floored == MaxOf(weighted, price)
<1>1. base \in Int
  <2>1. MaxOf(price, 100000) \in Int /\ MaxOf(price, 100 * 100) \in Int
    BY DEF MaxOf
  <2>2. cash # None => cash \in Int
    BY DEF Cash
  <2>3. CASE cash = None
    BY <2>1, <2>3 DEF BaseSize
  <2>4. CASE cash # None
    BY <2>2, <2>4 DEF BaseSize
  <2>5. QED BY <2>3, <2>4
<1>2. mult \in {8, 10, 12}
  BY DEF Confidence
<1> HIDE DEF base, mult
<1>3. weighted \in Int
  BY <1>1, <1>2
<1> HIDE DEF weighted
<1>4. floored \in Nat /\ floored >= price
  BY <1>3 DEF MaxOf
<1>5. SizeCash(m, price, cash, conf, news)
        = IF m = "KR" /\ news THEN (15 * floored) \div 10 ELSE floored
  BY DEF SizeCash, weighted, base, mult
<1> HIDE DEF floored
<1>6. (15 * floored) \div 10 >= floored
  BY <1>4
<1>7. QED BY <1>4, <1>5, <1>6

LEMMA EntryInit == Init => EntryInv
  BY RuleConstants DEF Init, EntryInv, EntryIsSound, StrongTwice,
     PricedAndSized

(* What run_once signals from a verdict that passed the prefilter.         *)
LEMMA SignalIsSound ==
  ASSUME EntryInv, NEW live \in Rate, NEW news \in BOOLEAN,
         NEW vol \in Volumes,
         RunOnce(live, news, vol), entry' # None
  PROVE  phase' = "bought" /\ EntryIsSound'
<1> DEFINE m == env.market
<1>1. PICK price \in Prices, cash \in Cash, conf \in Confidence :
        LET stop == StopPriceOf(m, price)
        IN IF /\ MomentumGates(m, verdict, live, news)
                /\ VolumeGates(m, vol) /\ stop > 0
           THEN /\ phase' = "bought"
                /\ entry' = [live |-> live, news |-> news, vol |-> vol,
                             price |-> price, stop |-> stop,
                             size |-> SizeCash(m, price, cash, conf, news)]
                /\ UNCHANGED verdict
           ELSE phase' = "idle" /\ verdict' = None /\ UNCHANGED entry
  BY DEF RunOnce
<1>2. phase = "verdict" /\ entry = None /\ Prefiltered /\ m \in Market
  BY DEF EntryInv, RunOnce, Environment
<1>3. env' = env
  BY DEF RunOnce
<1> DEFINE stop == StopPriceOf(m, price)
           size == SizeCash(m, price, cash, conf, news)
<1>4. /\ MomentumGates(m, verdict, live, news) /\ stop > 0
      /\ phase' = "bought" /\ verdict' = verdict
      /\ entry' = [live |-> live, news |-> news, vol |-> vol,
                   price |-> price, stop |-> stop, size |-> size]
  BY <1>1, <1>2
<1>5. price \in Nat \ {0}
  BY <1>2 DEF Prices, Market
<1> HIDE DEF stop, size
<1>6. entry'.price = price /\ entry'.stop = stop /\ entry'.size = size
      /\ entry'.live = live /\ entry'.news = news
  BY <1>4
<1>7. /\ ~NoCentBelow(m, price) => stop < Unit * price
      /\ NoCentBelow(m, price) => stop = Unit * price
  BY <1>2, <1>5, StopBelowPrice DEF stop
<1>8. m # "COIN" => size >= price
  BY <1>2, <1>5, SizePaysForOne DEF size
<1>9. PricedAndSized'
  BY <1>3, <1>4, <1>6, <1>7, <1>8 DEF PricedAndSized
<1>10. m = "COIN" => Accelerates(live, verdict.ret1)
  BY <1>4 DEF MomentumGates
<1>11. m = "COIN" => Accelerates(MaxOf(verdict.ret5, live), verdict.ret1)
  BY <1>2, <1>10, FasterOfTwo DEF Prefiltered
<1>12. StrongTwice'
  BY <1>2, <1>3, <1>4, <1>6, <1>11 DEF StrongTwice, Prefiltered
<1>13. QED BY <1>4, <1>9, <1>12 DEF EntryIsSound

LEMMA EntryStep == EntryInv /\ [Next]_vars => EntryInv'
<1> SUFFICES ASSUME EntryInv, [Next]_vars PROVE EntryInv'
  OBVIOUS
<1>a. env' = env
  BY DEF Next, vars, EvalSymbol, RunOnce, RunOnceTypeB, TypeBDone, Open, Poll,
     Ticker, Watch,
         Close, Wait, Rescan, HandleSet
<1>b. entry' = None => EntryIsSound'
  BY DEF EntryIsSound, StrongTwice, PricedAndSized
<1>c. UNCHANGED <<env, entry, verdict>> => (EntryIsSound' <=> EntryIsSound)
                                             /\ (Prefiltered' <=> Prefiltered)
  BY DEF EntryIsSound, StrongTwice, PricedAndSized, Prefiltered
<1> USE DEF EntryInv
<1>1. ASSUME NEW forced \in BOOLEAN, NEW f \in Features, EvalSymbol(forced, f)
      PROVE EntryInv'
  <2>1. verdict' = f /\ phase' = "verdict" /\ entry' = None
    BY <1>1 DEF EvalSymbol
  <2>2. Prefiltered'
    BY <1>1, <1>a, <2>1, PrefilterHolds DEF EvalSymbol, Prefiltered
  <2>3. QED BY <2>1, <2>2, <1>a, <1>b
<1>2. ASSUME NEW live \in Rate, NEW news \in BOOLEAN, NEW vol \in Volumes,
             RunOnce(live, news, vol)
      PROVE  EntryInv'
  <2>1. entry' = None => phase' \in {"idle", "bought"}
    BY <1>2, Zenon DEF RunOnce
  <2>2. CASE entry' = None
    BY <1>a, <1>b, <2>1, <2>2
  <2>3. CASE entry' # None
    BY <1>2, <1>a, <2>3, SignalIsSound
  <2>4. QED BY <2>2, <2>3
<1>3. ASSUME NEW s \in Samples, RunOnceTypeB(s) PROVE EntryInv'
  BY <1>3, <1>c DEF RunOnceTypeB
<1>4. ASSUME TypeBDone PROVE EntryInv'
  BY <1>4, <1>c DEF TypeBDone
<1>5. ASSUME NEW known \in BOOLEAN, Open(known) PROVE EntryInv'
  BY <1>5, <1>b, <1>a DEF Open
<1>6. ASSUME NEW mark \in env.marks, NEW reason, Watch(mark, reason)
      PROVE EntryInv'
  BY <1>6, <1>c DEF Watch, deciding
<1>7. ASSUME Close PROVE EntryInv'
  BY <1>7, <1>c DEF Close, deciding
<1>8. ASSUME Wait PROVE EntryInv'
  BY <1>8, <1>c DEF Wait, deciding
<1>9. ASSUME Rescan PROVE EntryInv'
  BY <1>9, <1>c DEF Rescan, deciding
<1>10. ASSUME NEW p \in Param, NEW v \in env.set[p], HandleSet(p, v)
       PROVE EntryInv'
  BY <1>10, <1>c DEF HandleSet, deciding
<1>11. CASE UNCHANGED vars
  BY <1>11, <1>c DEF vars
<1>12. QED
  BY <1>1, <1>2, <1>3, <1>4, <1>5, <1>6, <1>7, <1>8, <1>9, <1>10, <1>11
     DEF Next, Poll, Ticker

(* Every Type A entry has seen a strong market twice, its stop is strictly *)
(* below the entry (and equals it for a US share of 33 cents or less), and *)
(* it pays for one share at least (EntryIsSound).                          *)
THEOREM EntrySound == Spec => []EntryIsSound
<1>1. Spec => []EntryInv
  BY EntryInit, EntryStep, PTL DEF Spec
<1>2. EntryInv => EntryIsSound
  BY DEF EntryInv
<1>3. QED BY <1>1, <1>2, PTL
==============================================================================
