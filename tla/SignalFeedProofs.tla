--------------------------- MODULE SignalFeedProofs ---------------------------
(***************************************************************************)
(* What holds of SignalFeed for every number of symbols, verdicts, days,   *)
(* exits, kills and failed pushes, and for all TTLs in the order FeedTimes *)
(* gives.  That every verdict is handled is a liveness property and stays  *)
(* with TLC.                                                               *)
(***************************************************************************)
EXTENDS SignalFeed, TLAPS

-----------------------------------------------------------------------------
(* Lemmas about the counters and TTLs, which are tables of numbers.        *)

LEMMA DayType == /\ Day \subseteq Nat /\ 0 \in Day
                 /\ \A d \in Day : d < LastDay => d + 1 \in Day
  BY FeedConstants DEF Day

LEMMA ZeroType == Zero \in PerSymbol /\ \A s \in Symbol : Zero[s] = 0
  BY DEF Zero, PerSymbol

(* One entry of a symbol's table is set.                                   *)
LEMMA SetOne ==
  ASSUME NEW f \in PerSymbol, NEW n \in Nat, NEW s
  PROVE  /\ [f EXCEPT ![s] = n] \in PerSymbol
         /\ s \in Symbol => [f EXCEPT ![s] = n][s] = n
         /\ \A t \in Symbol : t # s => [f EXCEPT ![s] = n][t] = f[t]
  BY DEF PerSymbol

LEMMA AddOne ==
  ASSUME NEW f \in PerSymbol, NEW s
  PROVE  /\ [f EXCEPT ![s] = @ + 1] \in PerSymbol
         /\ \A t \in Symbol : [f EXCEPT ![s] = @ + 1][t] = IF t = s THEN f[t] + 1 ELSE f[t]
<1>1. f \in [Symbol -> Nat]
  BY DEF PerSymbol
<1>2. CASE s \in Symbol
  <2>1. f[s] + 1 \in Nat
    BY <1>1, <1>2
  <2>2. QED BY <1>1, <1>2, <2>1 DEF PerSymbol
<1>3. CASE s \notin Symbol
  BY <1>1, <1>3 DEF PerSymbol
<1>4. QED BY <1>2, <1>3

(* One counter of a day and a symbol goes up.                              *)
LEMMA CountOne ==
  ASSUME NEW f \in PerDay, NEW d, NEW s
  PROVE  /\ [f EXCEPT ![d][s] = @ + 1] \in PerDay
         /\ \A e \in Day, t \in Symbol :
              [f EXCEPT ![d][s] = @ + 1][e][t] =
                IF e = d /\ t = s THEN f[e][t] + 1 ELSE f[e][t]
<1> DEFINE g == [f[d] EXCEPT ![s] = @ + 1]
           h == [f EXCEPT ![d] = g]
<1>1. f \in [Day -> [Symbol -> Nat]]
  BY DEF PerDay, PerSymbol
<1>2. ASSUME d \in Day
      PROVE  /\ g \in [Symbol -> Nat]
             /\ \A t \in Symbol : g[t] = IF t = s THEN f[d][t] + 1 ELSE f[d][t]
  <2>1. f[d] \in PerSymbol
    BY <1>1, <1>2 DEF PerSymbol
  <2>2. QED BY <2>1, AddOne DEF PerSymbol
<1>3. h \in [Day -> [Symbol -> Nat]]
  BY <1>1, <1>2
<1>4. ASSUME NEW e \in Day, NEW t \in Symbol
      PROVE  h[e][t] = IF e = d /\ t = s THEN f[e][t] + 1 ELSE f[e][t]
  <2>1. h[e] = IF e = d THEN g ELSE f[e]
    BY <1>1
  <2>2. QED BY <2>1, <1>2
<1>5. QED BY <1>3, <1>4 DEF PerDay, PerSymbol

(* A tick takes one from every TTL that runs.                              *)
LEMMA DownType ==
  ASSUME NEW n \in Nat
  PROVE  /\ Down(n) \in Nat /\ Down(n) <= n /\ n <= Down(n) + 1
         /\ \A k \in Nat : k <= n => Down(k) <= Down(n)
         /\ n > 0 => Down(n) = n - 1
         /\ n = 0 => Down(n) = 0
  BY DEF Down

LEMMA AgedType ==
  ASSUME NEW f \in PerSymbol
  PROVE  Aged(f) \in PerSymbol /\ \A s \in Symbol : Aged(f)[s] = Down(f[s])
  BY DownType DEF Aged, PerSymbol

-----------------------------------------------------------------------------
(* Type correctness.                                                       *)

(* The runner past "loop" is about one symbol, and in Type A about one of  *)
(* its verdicts; while Claude is asked there is room for one more.         *)
TypeBLabels == {"ticker", "alt", "pushAlt", "countAlt", "ask", "pushB", "countB"}
TypeInv ==
  /\ TypeOK
  /\ ev.sym # "none" => made < MaxEval
  /\ pc \in TypeALabels \cup TypeBLabels => sym \in Symbol
  /\ pc \in TypeALabels => got.id \in EvalId

(* Where a step leaves the runner.                                         *)
LocalsOK ==
  /\ pc \in Labels /\ sym \in Symbol \cup {"none"} /\ rday \in Day
  /\ got \in [id : 0..MaxEval, emit : BOOLEAN]
  /\ todoA \subseteq Symbol /\ todoB \subseteq Symbol
  /\ pc \in TypeALabels \cup TypeBLabels => sym \in Symbol
  /\ pc \in TypeALabels => got.id \in EvalId

LEMMA GotoStep ==
  ASSUME LocalsOK, NEW label \in Labels, Goto(label),
         todoA' \subseteq Symbol, todoB' \subseteq Symbol,
         label \in TypeALabels => pc \in TypeALabels,
         label \in TypeBLabels => pc \in TypeBLabels
  PROVE  LocalsOK'
  BY DEF LocalsOK, Goto

LEMMA LeaveStep ==
  ASSUME LocalsOK, Leave, UNCHANGED <<todoA, todoB>>
  PROVE  /\ LocalsOK' /\ sym' = "none"
         /\ pc' = IF pc \in TypeALabels THEN "loop" ELSE "loopB"
         /\ pc \notin TypeALabels => rday' = rday
<1>1. Nothing \in [id : 0..MaxEval, emit : BOOLEAN]
  BY FeedConstants DEF Nothing
<1>2. /\ "loop" \in Labels \ (TypeALabels \cup TypeBLabels)
      /\ "loopB" \in Labels \ (TypeALabels \cup TypeBLabels)
  BY DEF Labels, TypeALabels, TypeBLabels
<1>3. QED BY <1>1, <1>2, DayType DEF LocalsOK, Leave

(* What LPUSH adds to the history keeps its types.                         *)
LEMMA PublishedType ==
  ASSUME TypeInv, NEW f, Published(f)
  PROVE  late' \in PerDay /\ afterPause' \in [{"A", "B"} -> PerSymbol]
<1>1. late' \in PerDay
  BY CountOne DEF TypeInv, TypeOK, Published
<1>2. afterPause' \in [{"A", "B"} -> PerSymbol]
  <2>1. afterPause \in [{"A", "B"} -> PerSymbol]
    BY DEF TypeInv, TypeOK
  <2>2. \A g \in PerSymbol : [g EXCEPT ![sym] = @ + 1] \in PerSymbol
    BY AddOne
  <2>3. f \in {"A", "B"} =>
          [afterPause EXCEPT ![f] = [afterPause[f] EXCEPT ![sym] = @ + 1]]
            \in [{"A", "B"} -> PerSymbol]
    BY <2>1, <2>2
  <2>4. QED BY <2>1, <2>3 DEF Published
<1>3. QED BY <1>1, <1>2

LEMMA TypeInit == Init => TypeInv
<1> SUFFICES ASSUME Init PROVE TypeInv
  OBVIOUS
<1>1. /\ eval \in [Symbol -> Verdict] /\ made \in 0..MaxEval
      /\ calls \in [Day -> 0..CallCap] /\ ev \in [sym : Symbol \cup {"none"}, day : Day]
      /\ seen \in [EvalId -> 0..SeenTtl] /\ ev.sym = "none"
  BY FeedConstants, DayType DEF Init, Verdict, NoEval, Idle
<1>2. /\ cool \in PerSymbol /\ coolB \in PerSymbol /\ coolAlt \in PerSymbol
      /\ owedA \in PerSymbol /\ owedB \in PerSymbol /\ owedExit \in PerSymbol
      /\ afterPause \in [{"A", "B"} -> PerSymbol]
  BY ZeroType DEF Init
<1>3. stop \in PerDay /\ stopCount \in PerDay /\ used \in PerDay
      /\ sentDay \in PerDay /\ late \in PerDay
  BY ZeroType DEF Init, PerDay
<1>4. /\ canary \in [Day -> Nat] /\ sentEval \in [EvalId -> Nat] /\ sentAlt \in [Day -> Nat]
      /\ raced \in [Symbol -> BOOLEAN]
  BY DEF Init
<1>5. pc \in Labels /\ pc \notin TypeALabels \cup TypeBLabels
  BY DEF Init, Labels, TypeALabels, TypeBLabels
<1>6. got \in [id : 0..MaxEval, emit : BOOLEAN]
  BY FeedConstants DEF Init, Nothing
<1>7. (paused \in BOOLEAN)
  BY Zenon DEF Init
<1>8. QED
  BY <1>1, <1>2, <1>3, <1>4, <1>5, <1>6, <1>7, DayType
     DEF Init, TypeInv, TypeOK

(* The type invariant in parts: each step disturbs a few.                  *)
EvaluatorOK ==
  /\ eval \in [Symbol -> Verdict] /\ made \in 0..MaxEval
  /\ calls \in [Day -> 0..CallCap]
  /\ ev \in [sym : Symbol \cup {"none"}, day : Day]
  /\ ev.sym # "none" => made < MaxEval
KeysOK ==
  /\ seen \in [EvalId -> 0..SeenTtl]
  /\ cool \in PerSymbol /\ coolB \in PerSymbol /\ coolAlt \in PerSymbol
  /\ stop \in PerDay /\ stopCount \in PerDay /\ used \in PerDay
  /\ canary \in [Day -> Nat]
SentOK ==
  /\ sentEval \in [EvalId -> Nat] /\ sentDay \in PerDay
  /\ sentAlt \in [Day -> Nat] /\ late \in PerDay
  /\ afterPause \in [{"A", "B"} -> PerSymbol]
OwedOK ==
  /\ owedA \in PerSymbol /\ owedB \in PerSymbol /\ owedExit \in PerSymbol
  /\ raced \in [Symbol -> BOOLEAN]
RestOK ==
  /\ env \in Scenario /\ day \in Day /\ ticks \in Nat /\ paused \in BOOLEAN
  /\ exits \in Nat /\ crashes \in Nat /\ fails \in Nat /\ pauses \in Nat /\ ghosts \in Nat

LEMMA Parts ==
  TypeInv <=> EvaluatorOK /\ KeysOK /\ LocalsOK /\ SentOK /\ OwedOK /\ RestOK
  BY DEF TypeInv, TypeOK, EvaluatorOK, KeysOK, LocalsOK, SentOK, OwedOK, RestOK

LEMMA PartsNext ==
  TypeInv' <=> EvaluatorOK' /\ KeysOK' /\ LocalsOK' /\ SentOK' /\ OwedOK' /\ RestOK'
  BY DEF TypeInv, TypeOK, EvaluatorOK, KeysOK, LocalsOK, SentOK, OwedOK, RestOK

LEMMA PartsKeep ==
  ASSUME TypeInv
  PROVE  /\ UNCHANGED <<eval, evaluator>> => EvaluatorOK'
         /\ UNCHANGED keys => KeysOK'
         /\ UNCHANGED locals => LocalsOK'
         /\ UNCHANGED sent => SentOK'
         /\ UNCHANGED owed => OwedOK'
         /\ UNCHANGED <<env, day, ticks, paused, spent, ghosts>> => RestOK'
  BY Parts
     DEF EvaluatorOK, KeysOK, LocalsOK, SentOK, OwedOK, RestOK, evaluator,
         keys, locals, sent, owed, spent

(* The scenario is one of the environments.                                *)
LEMMA EnvType ==
  ASSUME TypeInv
  PROVE  /\ env \in Environment /\ env.midnights \in Day
         /\ env.crashes \in Nat /\ env.fails \in Nat
  BY FeedConstants DEF TypeInv, TypeOK, Environment

(* The environment is given once.                                          *)
LEMMA EnvFixed == [Next]_vars => env' = env
  BY DEF Next, vars, EvalLoop, EvalSave, EvalSkip, EvalCall, RunnerStep,
         StartLoop, ReadEval, CheckB, PurgeStale, ClaimEval, CheckLimits,
         PassGates, PushA, UndoA, Count, EndTypeA, EndTypeB, GatesB, ClaimAlt,
         PushAlt, CountAlt, AskClaude, PushB, Exited, Pause, Resume, Crash,
         CountRaises,
         Tick, Midnight

LEMMA EvaluatorStep ==
  ASSUME TypeInv,
         \/ EvalLoop \/ EvalSave
         \/ \E s \in Symbol : EvalSkip(s) \/ EvalCall(s)
  PROVE  TypeInv'
<1>t. EvaluatorOK /\ RestOK
  BY Parts
<1>1. NoEval \in Verdict
  BY FeedConstants DEF NoEval, Verdict
<1>2. CASE EvalLoop
  BY <1>2, <1>t, PartsKeep, PartsNext DEF EvalLoop, EvaluatorOK, RestOK
<1>3. CASE EvalSave
  <2>1. PICK emit \in BOOLEAN :
          eval' = [eval EXCEPT ![ev.sym] = [id |-> made + 1, emit |-> emit, age |-> 0]]
    BY <1>3 DEF EvalSave
  <2>2. made + 1 \in 0..MaxEval /\ [id |-> made + 1, emit |-> emit, age |-> 0] \in Verdict
    BY <1>3, <1>t, FeedConstants DEF EvalSave, EvaluatorOK, Verdict
  <2>3. eval' \in [Symbol -> Verdict]
    BY <2>1, <2>2, <1>t DEF EvaluatorOK
  <2>4. EvaluatorOK'
    BY <1>3, <2>2, <2>3, <1>t DEF EvalSave, EvaluatorOK
  <2>5. QED BY <1>3, <2>4, PartsKeep, PartsNext DEF EvalSave
<1>4. ASSUME NEW s \in Symbol, EvalSkip(s) PROVE TypeInv'
  <2>1. EvaluatorOK'
    BY <1>4, <1>1, <1>t DEF EvalSkip, EvaluatorOK, evaluator
  <2>2. QED BY <1>4, <2>1, PartsKeep, PartsNext DEF EvalSkip
<1>5. ASSUME NEW s \in Symbol, EvalCall(s) PROVE TypeInv'
  <2>1. calls' \in [Day -> 0..CallCap]
    <3>1. ev.day \in Day /\ calls[ev.day] + 1 \in 0..CallCap
      BY <1>5, <1>t, FeedConstants DEF EvalCall, EvaluatorOK
    <3>2. QED BY <1>5, <3>1, <1>t DEF EvalCall, EvaluatorOK
  <2>2. EvaluatorOK'
    BY <1>5, <2>1, <1>t DEF EvalCall, EvaluatorOK
  <2>3. QED BY <1>5, <2>2, PartsKeep, PartsNext DEF EvalCall
<1>6. QED BY <1>2, <1>3, <1>4, <1>5

(* The labels, and which of them are about a symbol.                       *)
LEMMA LabelFacts ==
  /\ \A l \in {"idle", "loop", "loopB"} : l \in Labels \ (TypeALabels \cup TypeBLabels)
  /\ \A l \in {"purge", "claim", "limits", "gates", "pushA", "undoA", "countA"} :
       l \in Labels /\ l \in TypeALabels /\ l \notin TypeBLabels
  /\ \A l \in {"ticker", "alt", "pushAlt", "countAlt", "ask", "pushB", "countB"} :
       l \in Labels /\ l \in TypeBLabels /\ l \notin TypeALabels
  BY DEF Labels, TypeALabels, TypeBLabels

LEMMA ContinueStep ==
  ASSUME LocalsOK, NEW ok, NEW label \in Labels, Continue(ok, label),
         UNCHANGED <<todoA, todoB>>,
         label \in TypeALabels => pc \in TypeALabels,
         label \in TypeBLabels => pc \in TypeBLabels
  PROVE  LocalsOK'
<1>1. todoA' \subseteq Symbol /\ todoB' \subseteq Symbol
  BY DEF LocalsOK
<1>2. CASE ok
  BY <1>1, <1>2, GotoStep DEF Continue
<1>3. CASE ~ok
  BY <1>3, LeaveStep DEF Continue
<1>4. QED BY <1>2, <1>3

(* The runner's loops.                                                     *)
LEMMA LoopStep ==
  ASSUME TypeInv,
         \/ StartLoop \/ EndTypeA \/ EndTypeB
         \/ \E s \in Symbol : ReadEval(s) \/ CheckB(s)
  PROVE  TypeInv'
<1>t. LocalsOK /\ EvaluatorOK /\ RestOK
  BY Parts
<1>1. CASE StartLoop
  <2>1. todoA' \subseteq Symbol /\ todoB' \subseteq Symbol /\ Goto("loop")
    BY <1>1 DEF StartLoop
  <2>2. LocalsOK'
    BY <2>1, <1>t, LabelFacts, GotoStep
  <2>3. QED BY <1>1, <2>2, PartsKeep, PartsNext DEF StartLoop
<1>2. CASE EndTypeA
  <2>1. LocalsOK'
    <3>1. CASE todoB = {}
      <4>1. Goto("idle") /\ UNCHANGED <<todoA, todoB>>
        BY <1>2, <3>1 DEF EndTypeA
      <4>2. QED BY <4>1, <1>t, LabelFacts, GotoStep DEF LocalsOK
    <3>2. CASE todoB # {}
      BY <1>2, <3>2, <1>t, LabelFacts DEF EndTypeA, LocalsOK, RestOK
    <3>3. QED BY <3>1, <3>2
  <2>2. QED BY <1>2, <2>1, PartsKeep, PartsNext DEF EndTypeA
<1>3. CASE EndTypeB
  <2>1. LocalsOK'
    BY <1>3, <1>t, LabelFacts, DayType DEF EndTypeB, LocalsOK
  <2>2. QED BY <1>3, <2>1, PartsKeep, PartsNext DEF EndTypeB
<1>4. ASSUME NEW s \in Symbol, ReadEval(s) PROVE TypeInv'
  <2>1. LocalsOK'
    <3>1. CASE eval[s].id = 0
      BY <1>4, <3>1, <1>t DEF ReadEval, LocalsOK
    <3>2. CASE eval[s].id # 0
      <4>1. eval[s] \in Verdict /\ eval[s].id \in EvalId
        BY <3>2, <1>t, FeedConstants DEF EvaluatorOK, Verdict, EvalId
      <4>2. got' \in [id : 0..MaxEval, emit : BOOLEAN] /\ got'.id \in EvalId
        BY <1>4, <3>2, <4>1 DEF ReadEval, Verdict
      <4>3. sym' = s /\ pc' \in {"purge", "claim"} /\ rday' = rday
            /\ todoA' \subseteq todoA /\ todoB' = todoB
        BY <1>4, <3>2 DEF ReadEval
      <4>4. QED BY <4>2, <4>3, <1>t, LabelFacts DEF LocalsOK
    <3>3. QED BY <3>1, <3>2
  <2>2. QED BY <1>4, <2>1, PartsKeep, PartsNext DEF ReadEval
<1>5. ASSUME NEW s \in Symbol, CheckB(s) PROVE TypeInv'
  <2>1. LocalsOK'
    <3>1. \/ UNCHANGED <<pc, sym, got, rday>>
          \/ pc' = "ticker" /\ sym' = s /\ UNCHANGED <<got, rday>>
      BY <1>5 DEF CheckB
    <3>2. todoA' = todoA /\ todoB' \subseteq todoB
      BY <1>5 DEF CheckB
    <3>3. QED BY <3>1, <3>2, <1>t, LabelFacts DEF LocalsOK
  <2>2. QED BY <1>5, <2>1, PartsKeep, PartsNext DEF CheckB
<1>6. QED BY <1>1, <1>2, <1>3, <1>4, <1>5

(* The runner's commands of one symbol, Type A ...                         *)
LEMMA SymbolStepA ==
  ASSUME TypeInv,
         PurgeStale \/ ClaimEval \/ CheckLimits \/ PassGates \/ PushA \/ UndoA
  PROVE  TypeInv'
<1>t. EvaluatorOK /\ KeysOK /\ LocalsOK /\ SentOK /\ OwedOK /\ RestOK
  BY Parts
<1>c. /\ SeenTtl \in Nat /\ CoolA \in Nat
      /\ NoEval \in Verdict
  BY FeedConstants DEF NoEval, Verdict
<1>1. CASE PurgeStale
  <2>1. LocalsOK'
    BY <1>1, <1>t, LeaveStep DEF PurgeStale
  <2>2. EvaluatorOK'
    BY <1>1, <1>t, <1>c DEF PurgeStale, EvaluatorOK, evaluator
  <2>3. QED BY <1>1, <2>1, <2>2, PartsKeep, PartsNext DEF PurgeStale
<1>2. CASE ClaimEval
  <2>1. LocalsOK'
    BY <1>2, <1>t, LabelFacts, ContinueStep DEF ClaimEval
  <2>2. KeysOK'
    <3>1. got.id \in EvalId
      BY <1>2, <1>t, LabelFacts DEF ClaimEval, LocalsOK
    <3>2. seen' = [seen EXCEPT ![got.id] = SeenTtl] \/ seen' = seen
      BY <1>2, <1>t, <3>1 DEF ClaimEval, KeysOK
    <3>3. seen' \in [EvalId -> 0..SeenTtl]
      BY <3>2, <1>t, <1>c DEF KeysOK
    <3>4. QED BY <1>2, <3>3, <1>t DEF ClaimEval, KeysOK
  <2>3. QED BY <1>2, <2>1, <2>2, PartsKeep, PartsNext DEF ClaimEval, evaluator
<1>3. CASE CheckLimits
  <2>1. LocalsOK'
    <3>1. CASE Leave
      BY <1>3, <3>1, <1>t, LeaveStep DEF CheckLimits
    <3>2. CASE ~Leave
      BY <1>3, <3>2, <1>t, LabelFacts DEF CheckLimits, LocalsOK, RestOK
    <3>3. QED BY <3>1, <3>2
  <2>2. QED BY <1>3, <2>1, PartsKeep, PartsNext DEF CheckLimits
<1>4. CASE PassGates
  <2>1. LocalsOK'
    <3>1. todoA' \subseteq Symbol /\ todoB' \subseteq Symbol
      BY <1>4, <1>t DEF PassGates, LocalsOK
    <3>2. Leave \/ Goto("pushA")
      BY <1>4 DEF PassGates
    <3>3. QED BY <1>4, <3>1, <3>2, <1>t, LabelFacts, LeaveStep, GotoStep
                 DEF PassGates
  <2>2. cool' \in PerSymbol
    BY <1>4, <1>c, <1>t, SetOne DEF PassGates, KeysOK
  <2>3. KeysOK'
    BY <1>4, <2>2, <1>t DEF PassGates, KeysOK
  <2>4. QED BY <1>4, <2>1, <2>3, PartsKeep, PartsNext DEF PassGates, evaluator
<1>5. CASE PushA
  <2>1. LocalsOK'
    <3>1. todoA' \subseteq Symbol /\ todoB' \subseteq Symbol
      BY <1>5, <1>t DEF PushA, LocalsOK
    <3>2. Leave \/ Goto("countA") \/ Goto("undoA")
      BY <1>5 DEF PushA
    <3>3. pc \in TypeALabels /\ UNCHANGED <<todoA, todoB>>
      BY <1>5, LabelFacts DEF PushA
    <3>4. QED BY <3>1, <3>2, <3>3, <1>t, LabelFacts, LeaveStep, GotoStep
  <2>2. SentOK' /\ OwedOK'
    <3>1. CASE PublishedA
      <4>1. late' \in PerDay /\ afterPause' \in [{"A", "B"} -> PerSymbol]
        BY <3>1, PublishedType DEF PublishedA
      <4>2. sentEval' \in [EvalId -> Nat]
        <5>1. got.id \in EvalId
          BY <1>5, <1>t, LabelFacts DEF PushA, LocalsOK
        <5>2. sentEval \in [EvalId -> Nat] /\ sentEval[got.id] + 1 \in Nat
          BY <5>1, <1>t DEF SentOK
        <5>3. QED BY <3>1, <5>2 DEF PublishedA
      <4>3. sentDay' \in PerDay /\ owedA' \in PerSymbol
        BY <3>1, <1>t, <1>c, CountOne, SetOne DEF PublishedA, SentOK, OwedOK
      <4>4. QED BY <3>1, <4>1, <4>2, <4>3, <1>t DEF PublishedA, SentOK, OwedOK
    <3>2. CASE UNCHANGED <<sent, owed>>
      BY <3>2, PartsKeep
    <3>3. QED BY <1>5, <3>1, <3>2 DEF PushA
  <2>3. RestOK'
    BY <1>5, <1>t DEF PushA, RestOK, RedisRaises
  <2>4. QED BY <1>5, <2>1, <2>2, <2>3, PartsKeep, PartsNext DEF PushA
<1>6. CASE UndoA
  <2>1. LocalsOK'
    BY <1>6, <1>t, LeaveStep DEF UndoA
  <2>2. cool' \in PerSymbol
    BY <1>6, <1>t, SetOne DEF UndoA, KeysOK
  <2>3. KeysOK'
    BY <1>6, <2>2, <1>t DEF UndoA, KeysOK
  <2>4. QED BY <1>6, <2>1, <2>3, PartsKeep, PartsNext DEF UndoA, evaluator
<1>7. QED BY <1>1, <1>2, <1>3, <1>4, <1>5, <1>6

(* ... and Type B, and the counter of both.                                *)
LEMMA SymbolStepB ==
  ASSUME TypeInv,
         Count \/ GatesB \/ ClaimAlt \/ PushAlt \/ CountAlt \/ AskClaude \/ PushB
  PROVE  TypeInv'
<1>t. EvaluatorOK /\ KeysOK /\ LocalsOK /\ SentOK /\ OwedOK /\ RestOK
  BY Parts
<1>c. CoolB \in Nat /\ CoolAlt \in Nat
  BY FeedConstants
<1>l. todoA \subseteq Symbol /\ todoB \subseteq Symbol
  BY <1>t DEF LocalsOK
<1>1. CASE Count
  <2>1. LocalsOK'
    BY <1>1, <1>t, LeaveStep DEF Count
  <2>2. used' \in PerDay
    BY <1>1, <1>t, CountOne DEF Count, KeysOK
  <2>3. KeysOK'
    BY <1>1, <2>2, <1>t DEF Count, KeysOK
  <2>4. QED BY <1>1, <2>1, <2>3, PartsKeep, PartsNext DEF Count, evaluator
<1>2. CASE GatesB
  <2>1. Leave \/ Goto("alt") \/ Goto("ask")
    BY <1>2 DEF GatesB
  <2>2. LocalsOK'
    BY <1>2, <2>1, <1>l, <1>t, LabelFacts, LeaveStep, GotoStep DEF GatesB
  <2>3. QED BY <1>2, <2>2, PartsKeep, PartsNext DEF GatesB
<1>3. CASE ClaimAlt
  <2>1. LocalsOK'
    BY <1>3, <1>t, LabelFacts, ContinueStep DEF ClaimAlt
  <2>2. coolAlt' \in PerSymbol
    <3>1. coolAlt' = [coolAlt EXCEPT ![sym] = CoolAlt] \/ coolAlt' = coolAlt
      <4>1. coolAlt \in [Symbol -> Nat]
        BY <1>t DEF KeysOK, PerSymbol
      <4>2. QED BY <1>3, <4>1 DEF ClaimAlt
    <3>2. QED BY <3>1, <1>t, <1>c, SetOne DEF KeysOK
  <2>3. KeysOK'
    BY <1>3, <2>2, <1>t DEF ClaimAlt, KeysOK
  <2>4. QED BY <1>3, <2>1, <2>3, PartsKeep, PartsNext DEF ClaimAlt, evaluator
<1>4. CASE PushAlt
  <2>1. LocalsOK'
    <3>1. Leave \/ Goto("countAlt")
      BY <1>4 DEF PushAlt
    <3>2. pc \in TypeBLabels /\ UNCHANGED <<todoA, todoB>>
      BY <1>4, LabelFacts DEF PushAlt
    <3>3. QED BY <3>1, <3>2, <1>l, <1>t, LabelFacts, LeaveStep, GotoStep
  <2>2. SentOK'
    <3>1. CASE PublishedAlt
      <4>1. late' \in PerDay /\ afterPause' \in [{"A", "B"} -> PerSymbol]
        BY <3>1, PublishedType DEF PublishedAlt
      <4>2. sentAlt' \in [Day -> Nat]
        <5>1. sentAlt \in [Day -> Nat] /\ sentAlt[day] + 1 \in Nat
          BY <1>t DEF SentOK, RestOK
        <5>2. QED BY <3>1, <5>1 DEF PublishedAlt
      <4>3. QED BY <3>1, <4>1, <4>2, <1>t DEF PublishedAlt, SentOK
    <3>2. CASE UNCHANGED sent
      BY <3>2, PartsKeep
    <3>3. QED BY <1>4, <3>1, <3>2 DEF PushAlt
  <2>3. coolAlt' \in PerSymbol
    BY <1>4, <1>t, SetOne DEF PushAlt, KeysOK
  <2>4. KeysOK'
    BY <1>4, <2>3, <1>t DEF PushAlt, KeysOK
  <2>5. RestOK'
    BY <1>4, <1>t DEF PushAlt, RestOK, RedisRaises
  <2>6. QED BY <1>4, <2>1, <2>2, <2>4, <2>5, PartsKeep, PartsNext
               DEF PushAlt, evaluator
<1>5. CASE CountAlt
  <2>1. LocalsOK'
    BY <1>5, <1>t, LeaveStep DEF CountAlt
  <2>2. KeysOK'
    <3>1. canary \in [Day -> Nat] /\ canary[day] + 1 \in Nat
      BY <1>t DEF KeysOK, RestOK
    <3>2. canary' \in [Day -> Nat]
      BY <1>5, <3>1 DEF CountAlt
    <3>3. QED BY <1>5, <3>2, <1>t DEF CountAlt, KeysOK
  <2>3. QED BY <1>5, <2>1, <2>2, PartsKeep, PartsNext DEF CountAlt, evaluator
<1>6. CASE AskClaude
  <2>1. Leave \/ Goto("pushB")
    BY <1>6 DEF AskClaude
  <2>2. LocalsOK'
    BY <1>6, <2>1, <1>l, <1>t, LabelFacts, LeaveStep, GotoStep DEF AskClaude
  <2>3. coolB' \in PerSymbol
    BY <1>6, <1>t, <1>c, SetOne DEF AskClaude, KeysOK
  <2>4. KeysOK'
    BY <1>6, <2>3, <1>t DEF AskClaude, KeysOK
  <2>5. QED BY <1>6, <2>2, <2>4, PartsKeep, PartsNext DEF AskClaude, evaluator
<1>7. CASE PushB
  <2>1. LocalsOK'
    <3>1. Leave \/ Goto("countB")
      BY <1>7 DEF PushB
    <3>2. pc \in TypeBLabels /\ UNCHANGED <<todoA, todoB>>
      BY <1>7, LabelFacts DEF PushB
    <3>3. QED BY <3>1, <3>2, <1>l, <1>t, LabelFacts, LeaveStep, GotoStep
  <2>2. SentOK' /\ OwedOK'
    <3>1. CASE PublishedB
      <4>1. late' \in PerDay /\ afterPause' \in [{"A", "B"} -> PerSymbol]
        BY <3>1, PublishedType DEF PublishedB
      <4>2. sentDay' \in PerDay /\ owedB' \in PerSymbol
        BY <3>1, <1>t, <1>c, CountOne, SetOne DEF PublishedB, SentOK, OwedOK
      <4>3. QED BY <3>1, <4>1, <4>2, <1>t DEF PublishedB, SentOK, OwedOK
    <3>2. CASE UNCHANGED <<sent, owed>>
      BY <3>2, PartsKeep
    <3>3. QED BY <1>7, <3>1, <3>2 DEF PushB
  <2>3. coolB' \in PerSymbol
    <3>1. coolB' = coolB \/ coolB' = [coolB EXCEPT ![sym] = 0]
      BY <1>7 DEF PushB
    <3>2. coolB \in PerSymbol /\ [coolB EXCEPT ![sym] = 0] \in PerSymbol
      BY <1>t, SetOne DEF KeysOK
    <3>3. QED BY <3>1, <3>2
  <2>4. KeysOK'
    BY <1>7, <2>3, <1>t DEF PushB, KeysOK
  <2>5. RestOK'
    BY <1>7, <1>t DEF PushB, RestOK, RedisRaises
  <2>6. QED BY <1>7, <2>1, <2>2, <2>4, <2>5, PartsKeep, PartsNext
               DEF PushB, evaluator
<1>8. QED BY <1>1, <1>2, <1>3, <1>4, <1>5, <1>6, <1>7

(* The exits, the operator, a kill and the clock.                          *)
(* A count that raises: the runner goes on, and only the history of what   *)
(* was sent knows.                                                         *)
LEMMA CountRaisesWay ==
  ASSUME CountRaises
  PROVE  /\ pc \in {"countA", "countB", "countAlt"} /\ Leave
         /\ pc' \in {"loop", "loopB"} /\ got' = Nothing
         /\ ghosts' = ghosts + 1 /\ fails' = fails + 1
         /\ UNCHANGED <<env, day, ticks, eval, evaluator, keys, paused, todoA,
                        todoB, exits, crashes, pauses, sent, owed>>
  BY DEF CountRaises, RedisRaises, Leave

LEMMA OutsideStep ==
  ASSUME TypeInv,
         \/ \E s \in Symbol, why \in Reason : Exited(s, why)
         \/ Pause \/ Resume \/ Crash \/ CountRaises \/ Tick \/ Midnight
  PROVE  TypeInv'
<1>t. EvaluatorOK /\ KeysOK /\ LocalsOK /\ SentOK /\ OwedOK /\ RestOK
  BY Parts
<1>1. ASSUME NEW s \in Symbol, NEW why \in Reason, Exited(s, why) PROVE TypeInv'
  <2>1. CoolOf(why) \in Nat /\ StopWait + 1 \in Nat
    BY FeedConstants DEF CoolOf
  <2>2. stop' \in PerDay
    BY <1>1, <2>1, <1>t DEF Exited, KeysOK, RestOK, PerDay, PerSymbol
  <2>3. stopCount' \in PerDay
    BY <1>1, <1>t, CountOne DEF Exited, KeysOK
  <2>4. cool' \in PerSymbol /\ owedExit' \in PerSymbol
    <3>1. \/ UNCHANGED <<cool, owedExit>>
          \/ /\ cool' = [cool EXCEPT ![s] = CoolOf(why)]
             /\ owedExit' = [owedExit EXCEPT ![s] = CoolOf(why)]
      BY <1>1 DEF Exited
    <3>2. cool \in PerSymbol /\ owedExit \in PerSymbol
      BY <1>t DEF KeysOK, OwedOK
    <3>3. \A f \in PerSymbol : [f EXCEPT ![s] = CoolOf(why)] \in PerSymbol
      BY <2>1, SetOne
    <3>4. QED BY <3>1, <3>2, <3>3
  <2>5. raced' \in [Symbol -> BOOLEAN]
    <3> DEFINE met == sym = s /\ pc \in {"limits", "gates", "pushA", "undoA"}
    <3>1. met \in BOOLEAN
      OBVIOUS
    <3>2. raced' = raced \/ raced' = [raced EXCEPT ![s] = met]
      BY <1>1 DEF Exited
    <3>3. QED BY <3>1, <3>2, <1>t DEF OwedOK
  <2>6. KeysOK' /\ OwedOK' /\ RestOK'
    BY <1>1, <2>2, <2>3, <2>4, <2>5, <1>t DEF Exited, KeysOK, OwedOK, RestOK
  <2>7. QED BY <1>1, <2>6, PartsKeep, PartsNext DEF Exited
<1>2. CASE Pause
  BY <1>2, <1>t, PartsKeep, PartsNext DEF Pause, RestOK
<1>3. CASE Resume
  <2>1. SentOK'
    BY <1>3, <1>t, ZeroType DEF Resume, SentOK
  <2>2. RestOK'
    BY <1>3, <1>t DEF Resume, RestOK, spent
  <2>3. QED BY <1>3, <2>1, <2>2, PartsKeep, PartsNext DEF Resume
<1>4. CASE Crash
  <2>1. LocalsOK'
    BY <1>4, <1>t, LabelFacts, DayType, FeedConstants
       DEF Crash, LocalsOK, Nothing
  <2>2. RestOK'
    BY <1>4, <1>t DEF Crash, RestOK
  <2>3. QED BY <1>4, <2>1, <2>2, PartsKeep, PartsNext DEF Crash
<1>5. CASE Tick
  <2>1. eval' \in [Symbol -> Verdict]
    <3>1. ASSUME NEW s \in Symbol, ~(eval[s].id = 0 \/ eval[s].age > HoldStale)
          PROVE  [eval[s] EXCEPT !.age = @ + 1] \in Verdict
      BY <3>1, <1>t, FeedConstants DEF EvaluatorOK, Verdict
    <3>2. QED BY <1>5, <3>1, <1>t DEF Tick, EvaluatorOK
  <2>2. EvaluatorOK'
    BY <1>5, <2>1, <1>t DEF Tick, EvaluatorOK, evaluator
  <2>3. seen' \in [EvalId -> 0..SeenTtl]
    <3>1. \A i \in EvalId : Down(seen[i]) \in 0..SeenTtl
      BY <1>t, FeedConstants DEF KeysOK, Down
    <3>2. QED BY <1>5, <3>1 DEF Tick
  <2>4. stop' \in PerDay
    BY <1>5, <1>t DEF Tick, KeysOK, PerDay, PerSymbol
  <2>5. KeysOK' /\ OwedOK'
    BY <1>5, <2>3, <2>4, <1>t, AgedType DEF Tick, KeysOK, OwedOK
  <2>6. RestOK'
    BY <1>5, <1>t DEF Tick, RestOK, spent
  <2>7. QED BY <1>5, <2>2, <2>5, <2>6, PartsKeep, PartsNext DEF Tick
<1>6. CASE Midnight
  <2>1. day' \in Day
    <3>1. day < env.midnights /\ env.midnights \in 0..LastDay /\ day \in Nat
      BY <1>6, <1>t, EnvType, DayType DEF Midnight, RestOK, Day
    <3>2. QED BY <1>6, <3>1, <1>t, DayType, FeedConstants DEF Midnight, RestOK
  <2>2. RestOK'
    BY <1>6, <2>1, <1>t DEF Midnight, RestOK, spent
  <2>3. QED BY <1>6, <2>2, PartsKeep, PartsNext DEF Midnight
<1>7. CASE CountRaises
  <2>1. LocalsOK'
    BY <1>7, <1>t, CountRaisesWay, LeaveStep
  <2>2. RestOK'
    BY <1>7, <1>t, CountRaisesWay DEF RestOK
  <2>3. QED BY <1>7, <2>1, <2>2, CountRaisesWay, PartsKeep, PartsNext
<1>8. QED BY <1>1, <1>2, <1>3, <1>4, <1>5, <1>6, <1>7

LEMMA TypeNext == TypeInv /\ [Next]_vars => TypeInv'
<1>1. TypeInv /\ UNCHANGED vars => TypeInv'
  BY PartsKeep, PartsNext DEF vars
<1>2. QED
  BY <1>1, EvaluatorStep, LoopStep, SymbolStepA, SymbolStepB, OutsideStep
     DEF Next, RunnerStep

(* The inductive invariant of the types.                                   *)
LEMMA TypeHolds == Spec => []TypeInv
  BY TypeInit, TypeNext, PTL DEF Spec

(* Every variable keeps its type: also the TTLs, which count down to 0,    *)
(* and the call cap, which bounds the calls of every day.                  *)
THEOREM TypeCorrect == Spec => []TypeOK
<1>1. TypeInv => TypeOK
  BY DEF TypeInv
<1>2. QED BY <1>1, TypeHolds, PTL

-----------------------------------------------------------------------------
(* One signal of a verdict.                                                *)

(* A verdict of which a signal was pushed, or is being made, is marked; if *)
(* the mark has expired the verdict is too old to be emitted: its age and  *)
(* what is left of the mark are together at least the mark's TTL.          *)
Working == {"limits", "gates", "pushA"}
Claimed(i) == sentEval[i] >= 1 \/ (pc \in Working /\ got.id = i)
Outlived(i) ==
  \A s \in Symbol : eval[s].id = i =>
    eval[s].age + seen[i] >= SeenTtl \/ eval[s].age > HoldStale
VerdictInv ==
  /\ \A s \in Symbol : eval[s].id <= made
  /\ got.id <= made
  /\ \A i \in EvalId : /\ sentEval[i] <= 1
                       /\ i > made => sentEval[i] = 0
                       /\ Claimed(i) => Outlived(i)
  /\ pc = "claim" /\ got.emit /\ sentEval[got.id] >= 1 => seen[got.id] > 0
  /\ pc \in Working /\ got.emit => sentEval[got.id] = 0
  /\ pc = "pushA" => got.emit

(* The runner goes on with another signal, or loses it.                    *)
LEMMA VerdictLeft ==
  ASSUME TypeInv, VerdictInv, UNCHANGED <<eval, made, seen, sentEval>>,
         pc' \notin Working \cup {"claim"}, got' = got \/ got' = Nothing
  PROVE  VerdictInv'
<1>1. made \in Nat
  BY FeedConstants DEF TypeInv, TypeOK
<1>2. got'.id <= made'
  BY <1>1 DEF VerdictInv, Nothing
<1>3. QED BY <1>2 DEF VerdictInv, Claimed, Outlived, Working

LEMMA VerdictEvaluator ==
  ASSUME TypeInv, VerdictInv,
         EvalSave \/ \E s \in Symbol : EvalSkip(s)
  PROVE  VerdictInv'
<1>t. /\ made \in Nat /\ eval \in [Symbol -> Verdict] /\ MaxEval \in Nat
      /\ got.id \in Nat /\ SeenTtl \in Nat /\ EvalId \subseteq Nat
  BY FeedConstants, SMTT(30) DEF TypeInv, TypeOK, EvalId
<1>1. ASSUME NEW s \in Symbol, EvalSkip(s) PROVE VerdictInv'
  <2>1. /\ eval' = [eval EXCEPT ![s] = NoEval] /\ NoEval.id = 0
        /\ UNCHANGED <<made, seen, sentEval, pc, got>>
    BY <1>1 DEF EvalSkip, NoEval, evaluator, keys, sent, locals
  <2>2. \A r \in Symbol : eval'[r] = IF r = s THEN NoEval ELSE eval[r]
    BY <2>1, <1>t
  <2>3. \A i \in EvalId : 0 # i
    BY DEF EvalId
  <2>4. QED BY <2>1, <2>2, <2>3, <1>t DEF VerdictInv, Claimed, Outlived
<1>2. CASE EvalSave
  <2>1. PICK emit \in BOOLEAN :
          eval' = [eval EXCEPT ![ev.sym] = [id |-> made + 1, emit |-> emit, age |-> 0]]
    BY <1>2 DEF EvalSave
  <2>2. made' = made + 1 /\ UNCHANGED <<seen, sentEval, pc, got>>
    BY <1>2 DEF EvalSave, keys, sent, locals
  <2>3. ASSUME NEW r \in Symbol
        PROVE  eval'[r] = eval[r] \/ eval'[r].id = made + 1
    BY <2>1, <1>t
  <2>4. \A i \in EvalId : Claimed(i) => i # made + 1
    BY <1>t DEF Claimed, VerdictInv
  <2>5. \A s \in Symbol : eval[s].id \in Nat /\ eval[s].id <= made
    BY <1>t DEF VerdictInv, Verdict
  <2>6. (\A s \in Symbol : eval'[s].id <= made') /\ got'.id <= made'
    BY <2>2, <2>3, <2>5, <1>t DEF VerdictInv
  <2>7. \A i \in EvalId : Claimed(i)' => Claimed(i) /\ Outlived(i)'
    BY <2>2, <2>3, <2>4 DEF VerdictInv, Claimed, Outlived
  <2>8. \A i \in EvalId : i > made' => sentEval'[i] = 0
    BY <2>2, <1>t DEF VerdictInv
  <2>9. QED BY <2>2, <2>6, <2>7, <2>8 DEF VerdictInv
<1>3. QED BY <1>1, <1>2

LEMMA VerdictRead ==
  ASSUME TypeInv, VerdictInv, NEW s \in Symbol, ReadEval(s)
  PROVE  VerdictInv'
<1>t. /\ eval[s] \in Verdict /\ seen \in [EvalId -> 0..SeenTtl]
      /\ EmitStale \in Nat /\ SeenTtl \in Nat /\ HoldStale \in Nat
      /\ EmitStale < SeenTtl /\ EmitStale <= HoldStale
  BY FeedConstants, FeedTimes DEF TypeInv, TypeOK
<1>u. UNCHANGED <<eval, made, seen, sentEval>>
  BY DEF ReadEval, evaluator, keys, sent
<1>1. CASE eval[s].id = 0
  BY <1>1, <1>u DEF ReadEval, VerdictInv, Claimed, Outlived
<1>2. CASE eval[s].id # 0 /\ Stale(eval[s])
  <2>1. pc' = "purge" /\ got'.id = eval[s].id
    BY <1>2 DEF ReadEval
  <2>2. QED BY <2>1, <1>u DEF VerdictInv, Claimed, Outlived, Working
<1>3. CASE eval[s].id # 0 /\ ~Stale(eval[s])
  <2>1. pc' = "claim" /\ got'.id = eval[s].id /\ got'.emit = eval[s].emit
    BY <1>3 DEF ReadEval
  <2>2. ASSUME got'.emit, sentEval[got'.id] >= 1 PROVE seen[got'.id] > 0
    <3> DEFINE i == eval[s].id
    <3>1. i \in EvalId
      BY <1>3, <1>t DEF Verdict, EvalId
    <3>2. eval[s].age + seen[i] >= SeenTtl \/ eval[s].age > HoldStale
      BY <2>1, <2>2, <3>1 DEF VerdictInv, Claimed, Outlived
    <3>3. eval[s].age <= EmitStale /\ eval[s].age \in Nat /\ seen[i] \in Nat
      BY <1>3, <1>t, <2>1, <2>2, <3>1 DEF Stale, Verdict
    <3>4. seen[i] > 0
      BY <3>2, <3>3, <1>t
    <3>5. QED BY <2>1, <3>4
  <2>3. QED BY <2>1, <2>2, <1>u DEF VerdictInv, Claimed, Outlived, Working
<1>4. QED BY <1>1, <1>2, <1>3

LEMMA VerdictRunner ==
  ASSUME TypeInv, VerdictInv, RunnerStep
  PROVE  VerdictInv'
<1>t. /\ seen \in [EvalId -> 0..SeenTtl] /\ sentEval \in [EvalId -> Nat]
      /\ eval \in [Symbol -> Verdict] /\ SeenTtl \in Nat \ {0} /\ made \in Nat
  BY FeedConstants DEF TypeInv, TypeOK
<1>g. pc \in TypeALabels => got.id \in EvalId
  BY DEF TypeInv
<1>l. \A l \in {"idle", "loop", "loopB", "undoA", "countA", "ticker", "alt", "pushAlt",
                "countAlt", "ask", "pushB", "countB"} : l \notin Working \cup {"claim"}
  BY DEF Working
<1>v. Leave => pc' \notin Working \cup {"claim"} /\ got' = Nothing
  BY <1>l DEF Leave
<1>1. CASE PurgeStale
  <2>1. eval' = [eval EXCEPT ![sym] = NoEval] /\ NoEval.id = 0
        /\ UNCHANGED <<made, seen, sentEval>>
    BY <1>1 DEF PurgeStale, NoEval, evaluator, keys, sent
  <2>2. \A r \in Symbol : eval'[r] = NoEval \/ eval'[r] = eval[r]
    BY <2>1, <1>t
  <2>3. \A i \in EvalId : 0 # i
    BY DEF EvalId
  <2>4. pc' \notin Working \cup {"claim"} /\ got'.id = 0
    BY <1>1, <1>v DEF PurgeStale, Nothing
  <2>5. QED BY <2>1, <2>2, <2>3, <2>4, <1>t
               DEF VerdictInv, Claimed, Outlived, Working
<1>2. CASE ClaimEval
  <2> DEFINE i == got.id
  <2>1. i \in EvalId /\ pc = "claim"
    BY <1>2, <1>g, LabelFacts DEF ClaimEval
  <2>2. /\ UNCHANGED <<eval, made, sentEval>>
        /\ \A j \in EvalId : seen'[j] = IF j = i /\ seen[i] = 0 THEN SeenTtl ELSE seen[j]
    BY <1>2, <1>t, <2>1 DEF ClaimEval, evaluator, sent
  <2>3. \A j \in EvalId : sentEval[j] >= 1 => Outlived(j)'
    BY <2>1, <2>2, <1>t DEF VerdictInv, Claimed, Outlived, Verdict
  <2>4. CASE Leave
    <3>1. pc' \notin Working \cup {"claim"} /\ got'.id = 0
      BY <2>4, <1>v DEF Nothing
    <3>2. QED BY <2>2, <2>3, <3>1, <1>t DEF VerdictInv, Claimed, Working
  <2>5. CASE seen[i] = 0 /\ Goto("limits")
    <3>1. pc' = "limits" /\ got' = got
      BY <2>5 DEF Goto
    <3>2. Outlived(i)'
      <4>1. seen'[i] = SeenTtl
        BY <2>1, <2>2, <2>5
      <4>2. \A s \in Symbol : eval'[s].age \in Nat
        BY <1>t, <2>2, FeedConstants DEF Verdict
      <4>3. QED BY <3>1, <4>1, <4>2, <1>t DEF Outlived
    <3>3. got.emit => sentEval[i] = 0
      BY <2>1, <2>5, <1>t DEF VerdictInv
    <3>4. QED BY <2>1, <2>2, <2>3, <3>1, <3>2, <3>3
                 DEF VerdictInv, Claimed, Working
  <2>6. QED BY <1>2, <2>4, <2>5 DEF ClaimEval, Continue
<1>3. CASE CheckLimits \/ PassGates
  <2>1. UNCHANGED <<eval, made, seen, sentEval>>
    BY <1>3 DEF CheckLimits, PassGates, evaluator, keys, sent
  <2>2. \/ Leave
        \/ /\ pc \in Working /\ pc' \in {"gates", "pushA"} /\ got' = got
           /\ pc' = "pushA" => got.emit
    BY <1>3 DEF CheckLimits, PassGates, Goto, Working
  <2>3. CASE Leave
    BY <2>1, <2>3, <1>v, VerdictLeft
  <2>4. CASE ~Leave
    BY <2>1, <2>2, <2>4 DEF VerdictInv, Claimed, Outlived, Working
  <2>5. QED BY <2>3, <2>4
<1>4. CASE PushA
  <2>1. got.emit /\ got.id \in EvalId /\ sentEval[got.id] = 0 /\ Outlived(got.id)
    BY <1>4, <1>g, LabelFacts DEF PushA, VerdictInv, Working, Claimed
  <2>2. UNCHANGED <<eval, made, seen>>
    BY <1>4 DEF PushA, evaluator, keys
  <2>3. pc' \notin Working \cup {"claim"} /\ (got' = got \/ got' = Nothing)
    BY <1>4, <1>l, <1>v DEF PushA, Goto
  <2>4. CASE sentEval' = sentEval
    BY <2>2, <2>3, <2>4, VerdictLeft
  <2>5. CASE PublishedA
    <3>1. \A j \in EvalId : sentEval'[j] = IF j = got.id THEN 1 ELSE sentEval[j]
      BY <2>1, <2>5, <1>t DEF PublishedA
    <3>2. got.id <= made /\ got'.id <= made
      BY <2>3, <1>t DEF VerdictInv, Nothing
    <3>3. \A j \in EvalId : sentEval'[j] >= 1 => Outlived(j)
      BY <2>1, <3>1 DEF VerdictInv, Claimed
    <3>4. QED BY <2>1, <2>2, <2>3, <3>1, <3>2, <3>3, <1>t
              DEF VerdictInv, Claimed, Outlived, Working, EvalId
  <2>6. QED BY <1>4, <2>4, <2>5 DEF PushA, sent
<1>5. ASSUME \/ StartLoop \/ UndoA \/ Count \/ EndTypeA \/ EndTypeB \/ GatesB \/ ClaimAlt
             \/ PushAlt \/ CountAlt \/ AskClaude \/ PushB
      PROVE  VerdictInv'
  <2>1. UNCHANGED <<eval, made, seen, sentEval>>
    BY <1>5
       DEF StartLoop, UndoA, Count, EndTypeA, EndTypeB, GatesB, ClaimAlt,
           PushAlt, CountAlt, AskClaude, PushB, PublishedAlt, PublishedB,
           evaluator, keys, sent
  <2>2. \/ Leave
        \/ /\ got' = got
           /\ pc' \in {"idle", "loop", "loopB", "alt", "ask", "pushAlt", "countAlt", "pushB",
                       "countB"}
    BY <1>5
       DEF StartLoop, UndoA, Count, EndTypeA, EndTypeB, GatesB, ClaimAlt,
           PushAlt, CountAlt, AskClaude, PushB, Goto, Continue
  <2>3. QED BY <2>1, <2>2, <1>l, <1>v, VerdictLeft
<1>6. ASSUME NEW s \in Symbol, CheckB(s) PROVE VerdictInv'
  <2>1. UNCHANGED <<eval, made, seen, sentEval, got>> /\ pc' \in {"loopB", "ticker"}
    BY <1>6 DEF CheckB, evaluator, keys, sent
  <2>2. QED BY <2>1, <1>l, VerdictLeft
<1>7. QED
  BY <1>1, <1>2, <1>3, <1>4, <1>5, <1>6, VerdictRead DEF RunnerStep

LEMMA VerdictTick ==
  ASSUME TypeInv, VerdictInv, Tick
  PROVE  VerdictInv'
<1>t. /\ seen \in [EvalId -> 0..SeenTtl] /\ eval \in [Symbol -> Verdict]
      /\ SeenTtl \in Nat /\ HoldStale \in Nat
  BY FeedConstants DEF TypeInv, TypeOK
<1>1. /\ UNCHANGED <<made, sentEval, pc, got>>
      /\ pc \notin {"claim", "pushA"}
      /\ \A i \in EvalId : seen'[i] = Down(seen[i])
  BY DEF Tick, evaluator, locals, sent, MayTick
<1>2. ASSUME NEW s \in Symbol
      PROVE  /\ eval'[s].id = eval[s].id /\ eval[s].age \in Nat
             /\ \/ eval'[s].age = eval[s].age + 1
                \/ eval'[s].age = eval[s].age /\ (eval[s].id = 0 \/ eval[s].age > HoldStale)
  BY <1>t DEF Tick, Verdict
<1>3. ASSUME NEW i \in EvalId, Claimed(i), NEW s \in Symbol, eval'[s].id = i
      PROVE  eval'[s].age + seen'[i] >= SeenTtl \/ eval'[s].age > HoldStale
  <2>1. eval[s].age + seen[i] >= SeenTtl \/ eval[s].age > HoldStale
    BY <1>2, <1>3 DEF VerdictInv, Outlived
  <2>2. i # 0 /\ seen[i] \in Nat
    BY <1>t DEF EvalId
  <2>3. seen'[i] + 1 >= seen[i] /\ seen'[i] \in Nat
    BY <1>1, <2>2, DownType
  <2>4. QED BY <1>2, <1>3, <2>1, <2>2, <2>3, <1>t
<1>4. QED BY <1>1, <1>2, <1>3 DEF VerdictInv, Claimed, Outlived, Working

(* For every number of symbols and verdicts, kills and pushes that raise,  *)
(* and all times in the order of FeedTimes: a verdict becomes one signal.  *)
THEOREM VerdictOnce == Spec => []VerdictSentOnce
<1>1. Init => VerdictInv
  <2> SUFFICES ASSUME Init PROVE VerdictInv
    OBVIOUS
  <2>1. /\ \A s \in Symbol : eval[s].id = 0
        /\ \A i \in EvalId : sentEval[i] = 0
        /\ made = 0 /\ got.id = 0 /\ pc = "idle"
    BY DEF Init, NoEval, Nothing
  <2>2. QED BY <2>1 DEF VerdictInv, Claimed, Working
<1>2. TypeInv /\ VerdictInv /\ [Next]_vars => VerdictInv'
  <2> SUFFICES ASSUME TypeInv, VerdictInv, [Next]_vars PROVE VerdictInv'
    OBVIOUS
  <2>1. CASE UNCHANGED <<eval, made, seen, sentEval, pc, got>>
    BY <2>1 DEF VerdictInv, Claimed, Outlived
  <2>2. CASE Crash
    <3>1. UNCHANGED <<eval, made, seen, sentEval>> /\ pc' = "idle" /\ got' = Nothing
      BY <2>2 DEF Crash, evaluator, keys, sent
    <3>2. QED BY <3>1, VerdictLeft DEF Working
  <2>3. CASE CountRaises
    <3>1. /\ UNCHANGED <<eval, made, seen, sentEval>> /\ got' = Nothing
          /\ pc' \notin Working \cup {"claim"}
      BY <2>3, CountRaisesWay DEF evaluator, keys, sent, Working
    <3>2. QED BY <3>1, VerdictLeft
  <2>4. QED
    BY <2>1, <2>2, <2>3, VerdictEvaluator, VerdictRunner, VerdictTick
       DEF Next, EvalLoop, EvalCall, Exited, Pause, Resume, Midnight, vars,
           evaluator, keys, sent, locals
<1>3. VerdictInv => VerdictSentOnce
  BY DEF VerdictInv, VerdictSentOnce
<1>4. QED BY <1>1, <1>2, <1>3, TypeHolds, PTL DEF Spec

-----------------------------------------------------------------------------
(* The daily caps.                                                         *)

(* g is f with one more at day d of symbol s.                              *)
Bumped(f, g, d, s) == g = [f EXCEPT ![d][s] = @ + 1]

LEMMA Counted ==
  ASSUME NEW f \in PerDay, NEW d, NEW s, NEW g, Bumped(f, g, d, s)
  PROVE  \A e \in Day, t \in Symbol :
           g[e][t] = f[e][t] + (IF d = e /\ s = t THEN 1 ELSE 0)
<1>1. \A e \in Day, t \in Symbol : f[e][t] \in Nat
  BY DEF PerDay, PerSymbol
<1>2. \A e \in Day, t \in Symbol :
        g[e][t] = IF e = d /\ t = s THEN f[e][t] + 1 ELSE f[e][t]
  BY CountOne DEF Bumped
<1>3. QED BY <1>1, <1>2

(* Where each command leaves the runner, for the invariants about what it  *)
(* has approved.                                                           *)
LEMMA LeaveWay ==
  ASSUME Leave
  PROVE  pc' \in {"loop", "loopB"} /\ sym' = "none"
  BY DEF Leave

(* A push sends nothing, sends and goes on to count, or sends and does not *)
(* know.                                                                   *)
LEMMA PushAWays ==
  ASSUME PushA
  PROVE  /\ pc = "pushA" /\ UNCHANGED <<keys, crashes, paused, todoA, todoB>>
         /\ \/ UNCHANGED <<sent, owed, ghosts>> /\ pc' = "undoA" /\ sym' = sym
            \/ UNCHANGED <<sent, owed, ghosts>> /\ pc' = "loop"
            \/ /\ PublishedA /\ ghosts' = ghosts /\ pc' = "countA"
               /\ UNCHANGED <<sym, rday>>
            \/ PublishedA /\ ghosts' = ghosts + 1 /\ pc' = "undoA" /\ sym' = sym
<1>1. pc = "pushA" /\ pc \in TypeALabels
  BY LabelFacts DEF PushA
<1>2. QED BY <1>1 DEF PushA, Leave, Goto

LEMMA PushBWays ==
  ASSUME PushB
  PROVE  /\ pc = "pushB" /\ UNCHANGED <<used, crashes, paused, todoA, todoB>>
         /\ UNCHANGED <<cool, stopCount, canary>>
         /\ \/ UNCHANGED <<sent, owed, ghosts>> /\ pc' = "loopB"
               /\ coolB' \in {coolB, [coolB EXCEPT ![sym] = 0]}
            \/ /\ PublishedB /\ ghosts' = ghosts /\ pc' = "countB"
               /\ UNCHANGED <<sym, rday, coolB>>
            \/ PublishedB /\ ghosts' = ghosts + 1 /\ pc' = "loopB"
<1>1. pc = "pushB" /\ pc \notin TypeALabels
  BY LabelFacts DEF PushB
<1>2. QED BY <1>1 DEF PushB, Leave, Goto

(* A symbol the runner may still send a signal of, or count one of, has    *)
(* one left; every signal sent is counted, or about to be, but for those   *)
(* of a kill, a lost reply or a count that raised.                         *)
Approved == {"gates", "pushA", "countA", "ticker", "ask", "pushB", "countB"}
Counting == {"countA", "countB"}
Now(labels, d, s) == IF pc \in labels /\ rday = d /\ sym = s THEN 1 ELSE 0
CapAt(d, s) ==
  /\ sentDay[d][s] <= used[d][s] + crashes + ghosts + Now(Counting, d, s)
  /\ used[d][s] + Now(Approved, d, s) <= SymbolCap
CapInv == \A d \in Day, s \in Symbol : CapAt(d, s)

LEMMA Approving ==
  ASSUME TypeInv, NEW d \in Day, NEW s \in Symbol
  PROVE  /\ used[d][s] \in Nat /\ sentDay[d][s] \in Nat /\ stopCount[d][s] \in Nat
         /\ late[d][s] \in Nat /\ canary[d] \in Nat /\ sentAlt[d] \in Nat
         /\ crashes \in Nat /\ ghosts \in Nat /\ day \in Nat /\ day \in Day /\ rday \in Day
         /\ SymbolCap \in Nat /\ StopCap \in Nat \ {0} /\ CanaryCap \in Nat
  BY FeedConstants, DayType DEF TypeInv, TypeOK, PerDay, PerSymbol

(* Nothing is approved afterwards, and what was counted stays counted.     *)
LEMMA CapLeft ==
  ASSUME TypeInv, TypeInv', CapInv, UNCHANGED <<sentDay, used>>, pc' \notin Approved,
         crashes' >= crashes, ghosts' >= ghosts,
         \/ pc \notin Counting \/ crashes' >= crashes + 1
         \/ ghosts' >= ghosts + 1
  PROVE  CapInv'
<1>1. ASSUME NEW d \in Day, NEW s \in Symbol PROVE CapAt(d, s)'
  <2>1. /\ used[d][s] \in Nat /\ sentDay[d][s] \in Nat /\ crashes \in Nat /\ ghosts \in Nat
        /\ SymbolCap \in Nat /\ crashes' \in Nat /\ ghosts' \in Nat
    BY Approving DEF TypeInv, TypeOK
  <2>2. Now(Approved, d, s)' = 0 /\ Now(Counting, d, s)' = 0
    BY DEF Now, Approved, Counting
  <2>3. Now(Approved, d, s) \in {0, 1} /\ Now(Counting, d, s) \in {0, 1}
        /\ (pc \notin Counting => Now(Counting, d, s) = 0)
    BY DEF Now
  <2>4. /\ sentDay[d][s] <= used[d][s] + crashes + ghosts + Now(Counting, d, s)
        /\ used[d][s] + Now(Approved, d, s) <= SymbolCap
    BY DEF CapInv, CapAt
  <2>5. /\ sentDay[d][s] <= used[d][s] + crashes' + ghosts' + Now(Counting, d, s)'
        /\ used[d][s] + Now(Approved, d, s)' <= SymbolCap
    BY <2>1, <2>2, <2>3, <2>4
  <2>6. QED BY <2>5 DEF CapAt
<1>2. QED BY <1>1 DEF CapInv

LEMMA CapRunner ==
  ASSUME TypeInv, TypeInv', CapInv, RunnerStep
  PROVE  CapInv'
<1>n. crashes \in Nat /\ ghosts \in Nat /\ used \in PerDay /\ sentDay \in PerDay
      /\ rday \in Day
  BY DEF TypeInv, TypeOK
<1>v. Leave => pc' \notin Approved
  BY LeaveWay DEF Approved
<1>1. ASSUME \/ StartLoop \/ PurgeStale \/ ClaimEval \/ UndoA \/ EndTypeA \/ EndTypeB
             \/ ClaimAlt \/ PushAlt \/ CountAlt
      PROVE  CapInv'
  <2>1. UNCHANGED <<sentDay, used, crashes>> /\ (ghosts' = ghosts \/ ghosts' = ghosts + 1)
    BY <1>1
       DEF StartLoop, PurgeStale, ClaimEval, UndoA, EndTypeA, EndTypeB,
           ClaimAlt, PushAlt, CountAlt, PublishedAlt, keys, sent, spent
  <2>2. pc \notin Counting
    BY <1>1
       DEF StartLoop, PurgeStale, ClaimEval, UndoA, EndTypeA, EndTypeB,
           ClaimAlt, PushAlt, CountAlt, Counting
  <2>3. \/ Leave
        \/ pc' \in {"idle", "loop", "loopB", "limits", "pushAlt", "countAlt"}
    BY <1>1
       DEF StartLoop, PurgeStale, ClaimEval, UndoA, EndTypeA, EndTypeB,
           ClaimAlt, PushAlt, CountAlt, Goto, Continue
  <2>4. pc' \notin Approved
    BY <2>3, <1>v DEF Approved
  <2>5. crashes' >= crashes /\ ghosts' >= ghosts
    BY <2>1, <1>n
  <2>6. QED BY <2>1, <2>2, <2>4, <2>5, CapLeft
<1>2. ASSUME NEW s \in Symbol, ReadEval(s) PROVE CapInv'
  <2>1. UNCHANGED <<sentDay, used, crashes, ghosts>> /\ pc \notin Counting
        /\ pc' \notin Approved
    BY <1>2 DEF ReadEval, keys, sent, spent, Counting, Approved
  <2>2. QED BY <2>1, <1>n, CapLeft
<1>3. ASSUME GatesB \/ PassGates \/ AskClaude PROVE CapInv'
  <2>1. UNCHANGED <<sentDay, used, crashes, ghosts>> /\ pc \in Approved \ Counting
    BY <1>3
       DEF GatesB, PassGates, AskClaude, keys, sent, spent, Approved, Counting
  <2>2. \/ pc' \notin Approved
        \/ pc' \in Approved \ Counting /\ sym' = sym /\ rday' = rday
    BY <1>3, <1>v DEF GatesB, PassGates, AskClaude, Goto, Approved, Counting
  <2>3. CASE pc' \notin Approved
    BY <2>1, <2>3, <1>n, CapLeft
  <2>4. CASE pc' \in Approved
    BY <2>1, <2>2, <2>4 DEF CapInv, CapAt, Now
  <2>5. QED BY <2>3, <2>4
<1>4. ASSUME CheckLimits \/ \E s \in Symbol : CheckB(s) PROVE CapInv'
  <2>1. UNCHANGED <<sentDay, used, crashes, ghosts>> /\ pc \notin Counting \cup Approved
    BY <1>4 DEF CheckLimits, CheckB, keys, sent, spent, Counting, Approved
  <2>2. \/ pc' \notin Approved
        \/ pc' \notin Counting /\ used[rday'][sym'] < SymbolCap
    BY <1>4, <1>v DEF CheckLimits, CheckB, MayTrade, Approved, Counting
  <2>3. CASE pc' \notin Approved
    BY <2>1, <2>3, <1>n, CapLeft
  <2>4. CASE pc' \notin Counting /\ used[rday'][sym'] < SymbolCap
    <3>1. ASSUME NEW d \in Day, NEW s \in Symbol PROVE CapAt(d, s)'
      <4>1. used[d][s] \in Nat /\ SymbolCap \in Nat
        BY Approving
      <4>2. Now(Counting, d, s)' = 0 /\ Now(Counting, d, s) = 0 /\ Now(Approved, d, s) = 0
        BY <2>1, <2>4 DEF Now
      <4>3. \/ Now(Approved, d, s)' = 0
            \/ Now(Approved, d, s)' = 1 /\ used[d][s] < SymbolCap
        BY <2>4 DEF Now
      <4>4. used[d][s] + Now(Approved, d, s)' <= SymbolCap
        BY <4>1, <4>2, <4>3 DEF CapInv, CapAt
      <4>5. QED BY <2>1, <4>2, <4>4 DEF CapInv, CapAt
    <3>2. QED BY <3>1 DEF CapInv
  <2>5. QED BY <2>2, <2>3, <2>4
<1>5. ASSUME PushA \/ PushB PROVE CapInv'
  <2>1. UNCHANGED <<used, crashes>> /\ pc \in Approved \ Counting
    BY <1>5, PushAWays, PushBWays DEF keys, Approved, Counting
  <2>2. \/ UNCHANGED <<sentDay, ghosts>> /\ pc' \notin Approved
        \/ /\ sentDay' = [sentDay EXCEPT ![rday][sym] = @ + 1]
           /\ \/ ghosts' = ghosts /\ pc' \in Approved \cap Counting /\ UNCHANGED <<sym, rday>>
              \/ ghosts' = ghosts + 1 /\ pc' \notin Approved
    BY <1>5, PushAWays, PushBWays
       DEF PublishedA, PublishedB, sent, Approved, Counting
  <2>3. CASE UNCHANGED <<sentDay, ghosts>> /\ pc' \notin Approved
    BY <2>1, <2>3, <1>n, CapLeft
  <2>4. CASE sentDay' = [sentDay EXCEPT ![rday][sym] = @ + 1]
    <3>b. Bumped(sentDay, sentDay', rday, sym)
      BY <2>4 DEF Bumped
    <3>1. ASSUME NEW d \in Day, NEW s \in Symbol PROVE CapAt(d, s)'
      <4> DEFINE one == IF rday = d /\ sym = s THEN 1 ELSE 0
      <4>1. used[d][s] \in Nat /\ SymbolCap \in Nat /\ sentDay[d][s] \in Nat
        BY Approving
      <4>2. sentDay'[d][s] = sentDay[d][s] + one
        BY <3>b, <1>n, Counted
      <4>3. /\ Now(Approved, d, s) = one /\ Now(Counting, d, s) = 0
            /\ \/ /\ ghosts' = ghosts /\ Now(Approved, d, s)' = one
                  /\ Now(Counting, d, s)' = one
               \/ /\ ghosts' = ghosts + 1 /\ Now(Approved, d, s)' = 0
                  /\ Now(Counting, d, s)' = 0
        <5>1. ghosts' = ghosts \/ ghosts' # ghosts
          OBVIOUS
        <5>2. CASE ghosts' = ghosts + 1 /\ pc' \notin Approved
          BY <2>1, <5>2 DEF Now, Approved, Counting
        <5>3. CASE ghosts' = ghosts /\ pc' \in Approved \cap Counting /\ UNCHANGED <<sym, rday>>
          BY <2>1, <5>3 DEF Now
        <5>4. CASE UNCHANGED <<sentDay, ghosts>>
          <6>1. sentDay'[rday][sym] = sentDay[rday][sym] + 1 /\ sentDay[rday][sym] \in Nat
            <7>1. sym \in Symbol
              BY <2>1 DEF Approved, TypeInv, TypeALabels, TypeBLabels
            <7>2. sentDay'[rday][sym] = sentDay[rday][sym] + 1
              BY <7>1, <3>b, <1>n, Counted
            <7>3. QED BY <7>1, <7>2, <1>n, Approving
          <6>2. QED BY <5>4, <6>1
        <5>5. QED BY <2>2, <5>2, <5>3, <5>4
      <4>4. one \in {0, 1}
        OBVIOUS
      <4>5. /\ sentDay[d][s] <= used[d][s] + crashes + ghosts + Now(Counting, d, s)
            /\ used[d][s] + Now(Approved, d, s) <= SymbolCap
        BY DEF CapInv, CapAt
      <4> HIDE DEF one
      <4>6. /\ sentDay'[d][s] <= used[d][s] + crashes + ghosts' + Now(Counting, d, s)'
            /\ used[d][s] + Now(Approved, d, s)' <= SymbolCap
        BY <4>1, <4>2, <4>3, <4>4, <4>5, <1>n
      <4>7. QED BY <2>1, <4>6 DEF CapAt
    <3>2. QED BY <3>1 DEF CapInv
  <2>5. QED BY <2>2, <2>3, <2>4
<1>6. CASE Count
  <2>1. /\ UNCHANGED <<sentDay, crashes, ghosts>> /\ used' = [used EXCEPT ![rday][sym] = @ + 1]
        /\ pc \in Counting \cap Approved /\ pc' \notin Approved
    BY <1>6, <1>v DEF Count, sent, spent, Counting, Approved
  <2>b. Bumped(used, used', rday, sym)
    BY <2>1 DEF Bumped
  <2>2. ASSUME NEW d \in Day, NEW s \in Symbol PROVE CapAt(d, s)'
    <3> DEFINE one == IF rday = d /\ sym = s THEN 1 ELSE 0
    <3>1. used[d][s] \in Nat /\ SymbolCap \in Nat /\ sentDay[d][s] \in Nat /\ one \in {0, 1}
      BY Approving
    <3>2. used'[d][s] = used[d][s] + one
      BY <2>b, <1>n, Counted
    <3>3. /\ Now(Approved, d, s) = one /\ Now(Counting, d, s) = one
          /\ Now(Approved, d, s)' = 0 /\ Now(Counting, d, s)' = 0
      BY <2>1 DEF Now, Approved, Counting
    <3>4. /\ sentDay[d][s] <= used[d][s] + crashes + ghosts + Now(Counting, d, s)
          /\ used[d][s] + Now(Approved, d, s) <= SymbolCap
      BY DEF CapInv, CapAt
    <3> HIDE DEF one
    <3>5. /\ sentDay[d][s] <= used'[d][s] + crashes + ghosts + Now(Counting, d, s)'
          /\ used'[d][s] + Now(Approved, d, s)' <= SymbolCap
      BY <3>1, <3>2, <3>3, <3>4, <1>n
    <3>6. QED BY <2>1, <3>5 DEF CapAt
  <2>3. QED BY <2>2 DEF CapInv
<1>7. QED BY <1>1, <1>2, <1>3, <1>4, <1>5, <1>6 DEF RunnerStep

LEMMA CapNext == TypeInv /\ TypeInv' /\ CapInv /\ [Next]_vars => CapInv'
<1> SUFFICES ASSUME TypeInv, TypeInv', CapInv, [Next]_vars PROVE CapInv'
  OBVIOUS
<1>1. CASE UNCHANGED <<sentDay, used, crashes, ghosts, pc, rday, sym>>
  BY <1>1 DEF CapInv, CapAt, Now
<1>2. CASE Crash
  <2>1. UNCHANGED <<sentDay, used, ghosts>> /\ crashes' = crashes + 1 /\ pc' = "idle"
    BY <1>2 DEF Crash, keys, sent
  <2>2. crashes \in Nat /\ ghosts \in Nat /\ pc' \notin Approved
    BY <2>1 DEF TypeInv, TypeOK, Approved
  <2>3. QED BY <2>1, <2>2, CapLeft
<1>3. CASE CountRaises
  <2>1. UNCHANGED <<sentDay, used, crashes>> /\ ghosts' = ghosts + 1
    BY <1>3, CountRaisesWay DEF keys, sent
  <2>2. crashes \in Nat /\ ghosts \in Nat /\ pc' \notin Approved
    BY <1>3, CountRaisesWay DEF TypeInv, TypeOK, Approved
  <2>3. QED BY <2>1, <2>2, CapLeft
<1>4. QED
  BY <1>1, <1>2, <1>3, CapRunner
     DEF Next, EvalLoop, EvalSave, EvalSkip, EvalCall, Exited, Pause, Resume,
         Tick, Midnight, vars, evaluator, keys, sent, spent, locals

(* Of the days that come nothing is sent or counted; today's are counted,  *)
(* or about to be; and what is about to be pushed or counted has room, on  *)
(* whichever day it will be.                                               *)
OnTheWay(labels) == IF pc \in labels THEN 1 ELSE 0
CanaryInv ==
  /\ \A d \in Day : d > day => sentAlt[d] = 0 /\ canary[d] = 0
  /\ sentAlt[day] <= canary[day] + crashes + ghosts + OnTheWay({"countAlt"})
  /\ canary[day] + OnTheWay({"pushAlt", "countAlt"}) <= CanaryCap
  /\ CanaryCapKept

LEMMA CanaryTypes ==
  ASSUME TypeInv
  PROVE  /\ canary \in [Day -> Nat] /\ sentAlt \in [Day -> Nat] /\ crashes \in Nat
         /\ ghosts \in Nat /\ day \in Day /\ CanaryCap \in Nat /\ Day \subseteq Nat
         /\ \A l : OnTheWay(l) \in {0, 1}
  BY FeedConstants, DayType DEF TypeInv, TypeOK, OnTheWay

LEMMA CanaryNext == TypeInv /\ TypeInv' /\ CanaryInv /\ [Next]_vars => CanaryInv'
<1> SUFFICES ASSUME TypeInv, TypeInv', CanaryInv, [Next]_vars PROVE CanaryInv'
  OBVIOUS
<1>t. /\ canary \in [Day -> Nat] /\ sentAlt \in [Day -> Nat] /\ crashes \in Nat
      /\ ghosts \in Nat /\ day \in Day /\ CanaryCap \in Nat /\ Day \subseteq Nat
      /\ \A l : OnTheWay(l) \in {0, 1}
  BY CanaryTypes
<1>i. /\ \A d \in Day : d > day => sentAlt[d] = 0 /\ canary[d] = 0
      /\ sentAlt[day] <= canary[day] + crashes + ghosts + OnTheWay({"countAlt"})
      /\ canary[day] + OnTheWay({"pushAlt", "countAlt"}) <= CanaryCap
      /\ \A d \in Day : sentAlt[d] <= CanaryCap + crashes + ghosts
  BY DEF CanaryInv, CanaryCapKept
(* The runner is elsewhere, or loses a count by a kill or an error.        *)
<1>1. ASSUME UNCHANGED <<canary, sentAlt, day>>, pc' \notin {"pushAlt", "countAlt"},
             \/ pc # "countAlt" /\ crashes' = crashes /\ ghosts' = ghosts
             \/ crashes' = crashes + 1 /\ ghosts' = ghosts
             \/ crashes' = crashes /\ ghosts' = ghosts + 1
      PROVE  CanaryInv'
  <2>1. OnTheWay({"countAlt"})' = 0 /\ OnTheWay({"pushAlt", "countAlt"})' = 0
        /\ (pc # "countAlt" => OnTheWay({"countAlt"}) = 0)
    BY <1>1 DEF OnTheWay
  <2>2. /\ sentAlt[day] <= canary[day] + crashes' + ghosts'
        /\ canary[day] <= CanaryCap
        /\ \A d \in Day : sentAlt[d] <= CanaryCap + crashes' + ghosts'
    <3>1. canary[day] \in Nat /\ sentAlt[day] \in Nat
          /\ OnTheWay({"countAlt"}) \in {0, 1} /\ OnTheWay({"pushAlt", "countAlt"}) \in {0, 1}
          /\ \A d \in Day : sentAlt[d] \in Nat
      BY <1>t
    <3>2. QED BY <1>1, <1>t, <1>i, <2>1, <3>1
  <2>3. QED BY <1>1, <1>i, <2>1, <2>2, <1>t DEF CanaryInv, CanaryCapKept
<1>2. CASE UNCHANGED <<canary, sentAlt, day, crashes, ghosts, pc>>
  BY <1>2 DEF CanaryInv, CanaryCapKept, OnTheWay
<1>3. CASE Crash
  BY <1>3, <1>1 DEF Crash, keys, sent
<1>4. CASE Midnight
  <2>1. UNCHANGED <<canary, sentAlt, crashes, ghosts, pc>> /\ day' = day + 1 /\ day' \in Day
    BY <1>4 DEF Midnight, keys, sent, spent, locals, TypeInv, TypeOK
  <2>2. sentAlt[day'] = 0 /\ canary[day'] = 0 /\ \A d \in Day : d > day' => d > day
    BY <2>1, <1>t, <1>i
  <2>3. canary[day] \in Nat /\ OnTheWay({"countAlt"})' = OnTheWay({"countAlt"})
        /\ OnTheWay({"pushAlt", "countAlt"})' = OnTheWay({"pushAlt", "countAlt"})
    BY <2>1, <1>t DEF OnTheWay
  <2>4. /\ sentAlt[day'] <= canary[day'] + crashes + ghosts + OnTheWay({"countAlt"})
        /\ canary[day'] + OnTheWay({"pushAlt", "countAlt"}) <= CanaryCap
    <3>1. OnTheWay({"countAlt"}) \in {0, 1} /\ OnTheWay({"pushAlt", "countAlt"}) \in {0, 1}
      BY <1>t
    <3>2. QED BY <2>2, <2>3, <3>1, <1>t, <1>i
  <2>5. QED BY <2>1, <2>2, <2>3, <2>4, <1>i DEF CanaryInv, CanaryCapKept
<1>5. CASE ClaimAlt
  <2>1. UNCHANGED <<canary, sentAlt, day, crashes, ghosts>> /\ pc = "alt"
    BY <1>5 DEF ClaimAlt, sent, spent
  <2>2. \/ pc' \notin {"pushAlt", "countAlt"}
        \/ pc' = "pushAlt" /\ canary[day] < CanaryCap
    BY <1>5, LeaveWay DEF ClaimAlt, Continue, Goto
  <2>3. CASE pc' = "pushAlt" /\ canary[day] < CanaryCap
    <3>1. OnTheWay({"countAlt"})' = 0 /\ OnTheWay({"pushAlt", "countAlt"})' = 1
          /\ OnTheWay({"countAlt"}) = 0
      BY <2>1, <2>3 DEF OnTheWay
    <3>2. canary[day] + 1 <= CanaryCap
      BY <2>3, <1>t
    <3>3. sentAlt[day] <= canary[day] + crashes + ghosts + 0
      BY <3>1, <1>i
    <3>4. UNCHANGED <<canary, sentAlt, day, crashes, ghosts>>
      BY <2>1
    <3>5. QED BY <3>1, <3>2, <3>3, <3>4, <1>i DEF CanaryInv, CanaryCapKept
  <2>4. QED BY <2>1, <2>2, <2>3, <1>1
<1>6. CASE PushAlt
  <2>1. UNCHANGED <<canary, day, crashes>> /\ pc = "pushAlt"
    BY <1>6 DEF PushAlt
  <2>2. /\ OnTheWay({"countAlt"}) = 0 /\ OnTheWay({"pushAlt", "countAlt"}) = 1
    BY <2>1 DEF OnTheWay
  <2>3. \/ UNCHANGED <<sentAlt, ghosts>> /\ Leave
        \/ sentAlt' = [sentAlt EXCEPT ![day] = @ + 1] /\ ghosts' = ghosts /\ pc' = "countAlt"
        \/ sentAlt' = [sentAlt EXCEPT ![day] = @ + 1] /\ ghosts' = ghosts + 1 /\ Leave
    BY <1>6 DEF PushAlt, PublishedAlt, sent, Goto
  <2>4. CASE UNCHANGED <<sentAlt, ghosts>> /\ Leave
    BY <2>1, <2>4, <1>1, LeaveWay
  <2>5. CASE sentAlt' = [sentAlt EXCEPT ![day] = @ + 1] /\ ghosts' = ghosts /\ pc' = "countAlt"
    <3>1. OnTheWay({"countAlt"})' = 1 /\ OnTheWay({"pushAlt", "countAlt"})' = 1
      BY <2>5 DEF OnTheWay
    <3>2. \A d \in Day : sentAlt'[d] = IF d = day THEN sentAlt[day] + 1 ELSE sentAlt[d]
      BY <2>5, <1>t
    <3>3. canary[day] \in Nat /\ sentAlt[day] \in Nat
      BY <1>t
    <3>4. /\ sentAlt'[day] <= canary[day] + crashes + ghosts + 1
          /\ sentAlt'[day] <= CanaryCap + crashes + ghosts
      BY <3>2, <3>3, <2>2, <1>i, <1>t
    <3>5. canary[day] + 1 <= CanaryCap
      BY <2>2, <1>i
    <3>6. \A d \in Day : d > day => sentAlt'[d] = 0 /\ canary[d] = 0
      BY <3>2, <1>i, <1>t
    <3>7. \A d \in Day : sentAlt'[d] <= CanaryCap + crashes + ghosts
      BY <3>2, <3>4, <1>i
    <3>8. canary' = canary /\ day' = day /\ crashes' = crashes /\ ghosts' = ghosts
      BY <2>1, <2>5
    <3>9. QED BY <3>1, <3>4, <3>5, <3>6, <3>7, <3>8
                 DEF CanaryInv, CanaryCapKept
  <2>6. CASE sentAlt' = [sentAlt EXCEPT ![day] = @ + 1] /\ ghosts' = ghosts + 1 /\ Leave
    <3>1. OnTheWay({"countAlt"})' = 0 /\ OnTheWay({"pushAlt", "countAlt"})' = 0
      BY <2>6, LeaveWay DEF OnTheWay
    <3>2. \A d \in Day : sentAlt'[d] = IF d = day THEN sentAlt[day] + 1 ELSE sentAlt[d]
      BY <2>6, <1>t
    <3>3. canary[day] \in Nat /\ \A d \in Day : sentAlt[d] \in Nat
      BY <1>t
    <3>4. /\ sentAlt'[day] <= canary[day] + crashes + ghosts'
          /\ \A d \in Day : sentAlt'[d] <= CanaryCap + crashes + ghosts'
          /\ canary[day] <= CanaryCap
      BY <2>6, <3>2, <3>3, <2>2, <1>i, <1>t
    <3>5. \A d \in Day : d > day => sentAlt'[d] = 0 /\ canary[d] = 0
      BY <3>2, <1>i, <1>t
    <3>6. sentAlt'[day] <= canary[day] + crashes + ghosts' + 0 /\ canary[day] + 0 <= CanaryCap
      <4>1. ghosts' \in Nat
        BY <2>6, <1>t
      <4>2. QED BY <3>3, <3>4, <4>1, <1>t
    <3>7. canary' = canary /\ day' = day /\ crashes' = crashes
      BY <2>1
    <3>8. QED BY <3>1, <3>4, <3>5, <3>6, <3>7 DEF CanaryInv, CanaryCapKept
  <2>7. QED BY <2>3, <2>4, <2>5, <2>6
<1>7. CASE CountAlt
  <2>1. UNCHANGED <<sentAlt, day, crashes, ghosts>> /\ pc = "countAlt"
        /\ canary' = [canary EXCEPT ![day] = @ + 1] /\ pc' \in {"loop", "loopB"}
    BY <1>7, LeaveWay DEF CountAlt, sent, spent
  <2>2. /\ OnTheWay({"countAlt"}) = 1 /\ OnTheWay({"pushAlt", "countAlt"}) = 1
        /\ OnTheWay({"countAlt"})' = 0 /\ OnTheWay({"pushAlt", "countAlt"})' = 0
    BY <2>1 DEF OnTheWay
  <2>3. \A d \in Day : canary'[d] = IF d = day THEN canary[day] + 1 ELSE canary[d]
    BY <2>1, <1>t
  <2>4. canary[day] \in Nat /\ sentAlt[day] \in Nat
    BY <1>t
  <2>5. /\ sentAlt[day] <= canary'[day] + crashes + ghosts
        /\ canary'[day] <= CanaryCap
    BY <2>2, <2>3, <2>4, <1>i, <1>t
  <2>6. QED BY <2>1, <2>2, <2>3, <2>5, <1>i, <1>t DEF CanaryInv, CanaryCapKept
<1>8. ASSUME \/ StartLoop \/ PurgeStale \/ ClaimEval \/ CheckLimits \/ PassGates \/ UndoA
             \/ Count \/ EndTypeA \/ EndTypeB \/ GatesB \/ AskClaude \/ PushA \/ PushB
      PROVE  CanaryInv'
  <2>1. UNCHANGED <<canary, day, crashes>> /\ pc # "countAlt"
    BY <1>8
       DEF StartLoop, PurgeStale, ClaimEval, CheckLimits, PassGates, UndoA,
           Count, EndTypeA, EndTypeB, GatesB, AskClaude, PushA, PushB, keys,
           spent
  <2>2. sentAlt' = sentAlt
    BY <1>8
       DEF StartLoop, PurgeStale, ClaimEval, CheckLimits, PassGates, UndoA,
           Count, EndTypeA, EndTypeB, GatesB, AskClaude, PushA, PushB,
           PublishedA, PublishedB, sent
  <2>3. ghosts' = ghosts \/ ghosts' = ghosts + 1
    BY <1>8
       DEF StartLoop, PurgeStale, ClaimEval, CheckLimits, PassGates, UndoA,
           Count, EndTypeA, EndTypeB, GatesB, AskClaude, PushA, PushB
  <2>4. pc' \notin {"pushAlt", "countAlt"}
    <3>1. CASE Leave
      BY <3>1, LeaveWay
    <3>2. CASE ~Leave
      BY <1>8, <3>2
         DEF StartLoop, PurgeStale, ClaimEval, CheckLimits, PassGates, UndoA,
             Count, EndTypeA, EndTypeB, GatesB, AskClaude, PushA, PushB, Goto,
             Continue
    <3>3. QED BY <3>1, <3>2
  <2>5. QED BY <2>1, <2>2, <2>3, <2>4, <1>1
<1>9. ASSUME NEW s \in Symbol, ReadEval(s) \/ CheckB(s) PROVE CanaryInv'
  <2>1. UNCHANGED <<canary, sentAlt, day, crashes, ghosts>> /\ pc # "countAlt"
        /\ pc' \notin {"pushAlt", "countAlt"}
    BY <1>9 DEF ReadEval, CheckB, keys, sent, spent
  <2>2. QED BY <2>1, <1>1
<1>10. CASE CountRaises
  <2>1. UNCHANGED <<canary, sentAlt, day, crashes>> /\ ghosts' = ghosts + 1
        /\ pc' \notin {"pushAlt", "countAlt"}
    BY <1>10, CountRaisesWay DEF keys, sent
  <2>2. QED BY <2>1, <1>1
<1>11. QED
  BY <1>2, <1>3, <1>4, <1>5, <1>6, <1>7, <1>8, <1>9, <1>10
     DEF Next, RunnerStep, EvalLoop, EvalSave, EvalSkip, EvalCall, Exited,
         Pause, Resume, Tick, vars, evaluator, keys, sent, spent, locals

(* For every number of symbols, days and signals, wherever midnight falls: *)
(* no cap is passed but by kills, lost replies and counts that raise.      *)
THEOREM CapsHold == Spec => []CapsKept
<1>1. Init => CapInv /\ CanaryInv
  <2> SUFFICES ASSUME Init PROVE CapInv /\ CanaryInv
    OBVIOUS
  <2>1. /\ \A d \in Day, s \in Symbol : sentDay[d][s] = 0 /\ used[d][s] = 0
        /\ \A d \in Day : sentAlt[d] = 0 /\ canary[d] = 0
        /\ crashes = 0 /\ ghosts = 0 /\ pc = "idle" /\ day \in Day
    BY ZeroType, DayType DEF Init
  <2>2. SymbolCap \in Nat /\ CanaryCap \in Nat
    BY FeedConstants
  <2>3. \A d, s : Now(Approved, d, s) = 0 /\ Now(Counting, d, s) = 0
    BY <2>1 DEF Now, Approved, Counting
  <2>4. OnTheWay({"countAlt"}) = 0 /\ OnTheWay({"pushAlt", "countAlt"}) = 0
    BY <2>1 DEF OnTheWay
  <2>5. CapInv
    BY <2>1, <2>2, <2>3 DEF CapInv, CapAt
  <2>6. CanaryInv
    BY <2>1, <2>2, <2>4 DEF CanaryInv, CanaryCapKept
  <2>7. QED BY <2>5, <2>6
<1>2. TypeInv /\ CapInv /\ CanaryInv => CapsKept
  <2> SUFFICES ASSUME TypeInv, CapInv, CanaryInv PROVE CapsKept
    OBVIOUS
  <2>1. ASSUME NEW d \in Day, NEW s \in Symbol
        PROVE  sentDay[d][s] <= SymbolCap + crashes + ghosts
    <3>1. /\ used[d][s] \in Nat /\ sentDay[d][s] \in Nat /\ crashes \in Nat
          /\ ghosts \in Nat /\ SymbolCap \in Nat
      BY Approving
    <3>2. Now(Counting, d, s) <= Now(Approved, d, s) /\ Now(Counting, d, s) \in {0, 1}
          /\ Now(Approved, d, s) \in {0, 1}
      BY DEF Now, Counting, Approved
    <3>3. /\ sentDay[d][s] <= used[d][s] + crashes + ghosts + Now(Counting, d, s)
          /\ used[d][s] + Now(Approved, d, s) <= SymbolCap
      BY DEF CapInv, CapAt
    <3>4. QED BY <3>1, <3>2, <3>3
  <2>2. QED BY <2>1 DEF CapsKept, SymbolCapKept, CanaryInv
<1>3. QED BY <1>1, <1>2, CapNext, CanaryNext, TypeHolds, PTL DEF Spec

(* Whoever overwrites a cooldown may: the runner past its check of the key *)
(* works on a symbol no signal or exit still holds back, unless an exit    *)
(* came since; and the cooldown of its family is set before it pushes.     *)
Checked == {"limits", "gates", "pushA", "undoA"}
CheckedB == {"ticker", "ask", "pushB"}
CoolAt(s) ==
  /\ raced[s] \/ owedExit[s] <= cool[s]
  /\ pc \in Checked /\ sym = s => raced[s] \/ owedExit[s] = 0
  /\ owedA[s] <= CoolA
  /\ ghosts = 0 =>
       /\ owedA[s] <= cool[s] /\ owedB[s] <= coolB[s]
       /\ pc \in Checked /\ sym = s => owedA[s] = 0
       /\ pc \in CheckedB /\ sym = s => owedB[s] = 0
       /\ pc = "pushA" /\ sym = s => cool[s] >= CoolA
       /\ pc = "pushB" /\ sym = s => coolB[s] >= CoolB
CoolInv == \A s \in Symbol : CoolAt(s)

LEMMA CoolTypes ==
  ASSUME TypeInv, NEW s \in Symbol
  PROVE  /\ cool[s] \in Nat /\ coolB[s] \in Nat /\ owedA[s] \in Nat /\ owedB[s] \in Nat
         /\ owedExit[s] \in Nat /\ raced[s] \in BOOLEAN /\ ghosts \in Nat
         /\ CoolA \in Nat \ {0} /\ CoolB \in Nat \ {0}
         /\ cool \in PerSymbol /\ coolB \in PerSymbol /\ owedA \in PerSymbol
         /\ owedB \in PerSymbol /\ owedExit \in PerSymbol
  BY FeedConstants DEF TypeInv, TypeOK, PerSymbol

(* The cooldowns stay; the runner begins with a symbol only when its       *)
(* cooldown is over.                                                       *)
LEMMA CoolStays ==
  ASSUME TypeInv, CoolInv, UNCHANGED <<cool, coolB, owed, ghosts>>,
         \/ pc' \notin Checked \cup CheckedB
         \/ UNCHANGED <<pc, sym>>
         \/ pc \in Checked /\ pc' \in Checked \ {"pushA"} /\ sym' = sym
         \/ pc \in CheckedB /\ pc' \in CheckedB \ {"pushB"} /\ sym' = sym
         \/ pc' = "limits" /\ cool[sym'] = 0
         \/ pc' = "ticker" /\ coolB[sym'] = 0
  PROVE  CoolInv'
<1>1. ASSUME NEW s \in Symbol PROVE CoolAt(s)'
  <2>1. /\ cool[s] \in Nat /\ coolB[s] \in Nat /\ owedA[s] \in Nat /\ owedB[s] \in Nat
        /\ owedExit[s] \in Nat
    BY CoolTypes
  <2>2. CoolAt(s)
    BY DEF CoolInv
  <2>3. QED BY <2>1, <2>2 DEF CoolAt, owed, Checked, CheckedB
<1>2. QED BY <1>1 DEF CoolInv

LEMMA CoolRunner == TypeInv /\ TypeInv' /\ CoolInv /\ RunnerStep => CoolInv'
<1> SUFFICES ASSUME TypeInv, TypeInv', CoolInv, RunnerStep PROVE CoolInv'
  OBVIOUS
<1>e. \A l \in {"idle", "loop", "loopB", "purge", "claim", "countA", "alt", "pushAlt",
                "countAlt", "countB"} : l \notin Checked \cup CheckedB
  BY DEF Checked, CheckedB
<1>l. Leave => pc' \notin Checked \cup CheckedB
  BY LeaveWay, <1>e
<1>1. CASE PassGates
  <2>1. CASE Leave /\ UNCHANGED cool
    BY <1>1, <2>1, <1>l, CoolStays DEF PassGates
  <2>2. CASE cool' = [cool EXCEPT ![sym] = CoolA] /\ Goto("pushA")
    <3>1. pc = "gates" /\ pc' = "pushA" /\ sym' = sym /\ UNCHANGED <<coolB, owed, ghosts>>
      BY <1>1, <2>2 DEF PassGates, Goto
    <3>2. ASSUME NEW s \in Symbol PROVE CoolAt(s)'
      <4>1. /\ s = sym => cool'[s] = CoolA
            /\ s # sym => cool'[s] = cool[s]
        BY <2>2, CoolTypes, SetOne
      <4>2. CoolAt(s)
        BY DEF CoolInv
      <4>3. /\ cool[s] \in Nat /\ coolB[s] \in Nat /\ owedA[s] \in Nat /\ owedB[s] \in Nat
            /\ owedExit[s] \in Nat /\ CoolA \in Nat
        BY CoolTypes
      <4>4. QED BY <3>1, <4>1, <4>2, <4>3 DEF CoolAt, Checked, CheckedB, owed
    <3>3. QED BY <3>2 DEF CoolInv
  <2>3. QED BY <1>1, <2>1, <2>2 DEF PassGates
<1>2. CASE PushA
  <2>1. pc = "pushA" /\ UNCHANGED <<cool, coolB>>
    BY <1>2, PushAWays DEF keys
  <2>2. CASE UNCHANGED <<owed, ghosts>> /\ (pc' = "loop" \/ (pc' = "undoA" /\ sym' = sym))
    BY <2>1, <2>2, <1>e, CoolStays DEF Checked
  <2>3. CASE PublishedA /\ (\/ ghosts' = ghosts /\ pc' = "countA"
                            \/ ghosts' = ghosts + 1 /\ pc' = "undoA" /\ sym' = sym)
    <3>1. owedA' = [owedA EXCEPT ![sym] = CoolA] /\ UNCHANGED <<owedB, owedExit, raced>>
      BY <2>3 DEF PublishedA
    <3>2. ASSUME NEW s \in Symbol PROVE CoolAt(s)'
      <4>1. /\ s = sym => owedA'[s] = CoolA
            /\ s # sym => owedA'[s] = owedA[s]
        BY <3>1, CoolTypes, SetOne
      <4>2. CoolAt(s)
        BY DEF CoolInv
      <4>3. /\ cool[s] \in Nat /\ coolB[s] \in Nat /\ owedA[s] \in Nat /\ owedB[s] \in Nat
            /\ owedExit[s] \in Nat /\ CoolA \in Nat /\ ghosts \in Nat
        BY CoolTypes
      <4>4. QED BY <2>1, <2>3, <3>1, <4>1, <4>2, <4>3
                   DEF CoolAt, Checked, CheckedB
    <3>3. QED BY <3>2 DEF CoolInv
  <2>4. QED BY <1>2, PushAWays, <2>2, <2>3
<1>3. CASE UndoA
  <2>1. pc = "undoA" /\ pc' = "loop" /\ UNCHANGED <<coolB, owed, ghosts>>
        /\ cool' = [cool EXCEPT ![sym] = 0]
    BY <1>3, LabelFacts DEF UndoA, Leave
  <2>2. ASSUME NEW s \in Symbol PROVE CoolAt(s)'
    <3>1. /\ s = sym => cool'[s] = 0
          /\ s # sym => cool'[s] = cool[s]
      BY <2>1, CoolTypes, SetOne
    <3>2. CoolAt(s)
      BY DEF CoolInv
    <3>3. /\ cool[s] \in Nat /\ coolB[s] \in Nat /\ owedA[s] \in Nat /\ owedB[s] \in Nat
          /\ owedExit[s] \in Nat /\ CoolA \in Nat
      BY CoolTypes
    <3>4. QED BY <2>1, <3>1, <3>2, <3>3 DEF CoolAt, Checked, CheckedB, owed
  <2>3. QED BY <2>2 DEF CoolInv
<1>4. CASE AskClaude
  <2>1. CASE Leave /\ UNCHANGED coolB
    BY <1>4, <2>1, <1>l, CoolStays DEF AskClaude
  <2>2. CASE coolB' = [coolB EXCEPT ![sym] = CoolB] /\ Goto("pushB")
    <3>1. pc = "ask" /\ pc' = "pushB" /\ sym' = sym /\ UNCHANGED <<cool, owed, ghosts>>
      BY <1>4, <2>2 DEF AskClaude, Goto
    <3>2. ASSUME NEW s \in Symbol PROVE CoolAt(s)'
      <4>1. /\ s = sym => coolB'[s] = CoolB
            /\ s # sym => coolB'[s] = coolB[s]
        BY <2>2, CoolTypes, SetOne
      <4>2. CoolAt(s)
        BY DEF CoolInv
      <4>3. /\ cool[s] \in Nat /\ coolB[s] \in Nat /\ owedA[s] \in Nat /\ owedB[s] \in Nat
            /\ owedExit[s] \in Nat /\ CoolB \in Nat
        BY CoolTypes
      <4>4. QED BY <3>1, <4>1, <4>2, <4>3 DEF CoolAt, Checked, CheckedB, owed
    <3>3. QED BY <3>2 DEF CoolInv
  <2>3. QED BY <1>4, <2>1, <2>2 DEF AskClaude
<1>5. CASE PushB
  <2>1. pc = "pushB" /\ UNCHANGED cool
    BY <1>5, PushBWays
  <2>2. CASE UNCHANGED <<owed, ghosts>> /\ pc' = "loopB"
             /\ coolB' \in {coolB, [coolB EXCEPT ![sym] = 0]}
    <3>1. ASSUME NEW s \in Symbol PROVE CoolAt(s)'
      <4>1. /\ s = sym => coolB'[s] \in {coolB[s], 0}
            /\ s # sym => coolB'[s] = coolB[s]
        BY <2>2, CoolTypes, SetOne, SMTT(30)
      <4>2. CoolAt(s)
        BY DEF CoolInv
      <4>3. /\ cool[s] \in Nat /\ coolB[s] \in Nat /\ owedA[s] \in Nat /\ owedB[s] \in Nat
            /\ owedExit[s] \in Nat /\ CoolB \in Nat
        BY CoolTypes
      <4>4. QED BY <2>1, <2>2, <4>1, <4>2, <4>3
                   DEF CoolAt, Checked, CheckedB, owed
    <3>2. QED BY <3>1 DEF CoolInv
  <2>3. CASE PublishedB /\ (\/ ghosts' = ghosts /\ pc' = "countB" /\ coolB' = coolB
                            \/ ghosts' = ghosts + 1 /\ pc' = "loopB")
    <3>1. owedB' = [owedB EXCEPT ![sym] = CoolB] /\ UNCHANGED <<owedA, owedExit, raced>>
      BY <2>3 DEF PublishedB
    <3>2. ASSUME NEW s \in Symbol PROVE CoolAt(s)'
      <4>1. /\ s = sym => owedB'[s] = CoolB
            /\ s # sym => owedB'[s] = owedB[s]
        BY <3>1, CoolTypes, SetOne
      <4>2. CoolAt(s)
        BY DEF CoolInv
      <4>3. /\ cool[s] \in Nat /\ coolB[s] \in Nat /\ owedA[s] \in Nat /\ owedB[s] \in Nat
            /\ owedExit[s] \in Nat /\ CoolB \in Nat /\ ghosts \in Nat
        BY CoolTypes
      <4>4. QED BY <2>1, <2>3, <3>1, <4>1, <4>2, <4>3
                   DEF CoolAt, Checked, CheckedB
    <3>3. QED BY <3>2 DEF CoolInv
  <2>4. QED BY <1>5, PushBWays, <2>2, <2>3
<1>6. ASSUME \/ StartLoop \/ PurgeStale \/ Count \/ EndTypeA \/ EndTypeB
             \/ ClaimAlt \/ PushAlt \/ CountAlt
      PROVE  CoolInv'
  <2>1. UNCHANGED <<cool, coolB, owed, ghosts>> \/ PushAlt
    BY <1>6
       DEF StartLoop, PurgeStale, Count, EndTypeA, EndTypeB, ClaimAlt,
           CountAlt, keys
  <2>2. pc' \notin Checked \cup CheckedB
    <3>1. CASE ~Leave
      BY <1>6, <3>1, <1>e
         DEF StartLoop, PurgeStale, Count, EndTypeA, EndTypeB, ClaimAlt,
             PushAlt, CountAlt, Goto, Continue
    <3>2. QED BY <3>1, <1>l
  <2>3. CASE PushAlt
    <3>1. UNCHANGED <<cool, coolB, owed>> /\ ghosts' \in {ghosts, ghosts + 1}
      BY <2>3 DEF PushAlt
    <3>2. ASSUME NEW s \in Symbol PROVE CoolAt(s)'
      <4>1. CoolAt(s) /\ ghosts \in Nat
        BY CoolTypes DEF CoolInv
      <4>2. QED BY <2>2, <3>1, <4>1 DEF CoolAt, Checked, CheckedB, owed
    <3>3. QED BY <3>2 DEF CoolInv
  <2>4. QED BY <2>1, <2>2, <2>3, CoolStays
<1>7. CASE ClaimEval
  <2>1. UNCHANGED <<cool, coolB, owed, ghosts>>
    BY <1>7 DEF ClaimEval
  <2>2. \/ Leave
        \/ pc' = "limits" /\ sym' = sym /\ cool[sym] = 0
    BY <1>7 DEF ClaimEval, Continue, Goto
  <2>3. QED BY <2>1, <2>2, <1>l, CoolStays
<1>8. CASE CheckLimits
  <2>1. \/ Leave
        \/ pc' = "gates" /\ sym' = sym
    BY <1>8 DEF CheckLimits
  <2>2. pc = "limits" /\ UNCHANGED <<cool, coolB, owed, ghosts>>
    BY <1>8 DEF CheckLimits, keys
  <2>3. QED BY <2>1, <2>2, <1>l, CoolStays DEF Checked
<1>9. CASE GatesB
  <2>1. \/ Leave
        \/ pc' = "alt"
        \/ pc' = "ask" /\ sym' = sym
    BY <1>9 DEF GatesB, Goto
  <2>2. pc = "ticker" /\ UNCHANGED <<cool, coolB, owed, ghosts>>
    BY <1>9 DEF GatesB, keys
  <2>3. QED BY <2>1, <2>2, <1>l, <1>e, CoolStays DEF CheckedB
<1>10. ASSUME NEW s \in Symbol, ReadEval(s) PROVE CoolInv'
  <2>1. UNCHANGED <<cool, coolB, owed, ghosts>>
        /\ (UNCHANGED <<pc, sym>> \/ pc' \in {"purge", "claim"})
    BY <1>10 DEF ReadEval, keys
  <2>2. QED BY <2>1, <1>e, CoolStays
<1>11. ASSUME NEW s \in Symbol, CheckB(s) PROVE CoolInv'
  <2>1. UNCHANGED <<cool, coolB, owed, ghosts>>
        /\ (UNCHANGED <<pc, sym>> \/ (pc' = "ticker" /\ sym' = s /\ coolB[s] = 0))
    BY <1>11 DEF CheckB, keys
  <2>2. QED BY <2>1, CoolStays
<1>12. QED
  BY <1>1, <1>2, <1>3, <1>4, <1>5, <1>6, <1>7, <1>8, <1>9, <1>10, <1>11
     DEF RunnerStep

LEMMA CoolNext == TypeInv /\ TypeInv' /\ CoolInv /\ [Next]_vars => CoolInv'
<1> SUFFICES ASSUME TypeInv, TypeInv', CoolInv, [Next]_vars PROVE CoolInv'
  OBVIOUS
<1>1. CASE Tick
  <2>1. /\ cool' = Aged(cool) /\ coolB' = Aged(coolB) /\ owedA' = Aged(owedA)
        /\ owedB' = Aged(owedB) /\ owedExit' = Aged(owedExit)
        /\ UNCHANGED <<raced, ghosts, pc, sym>> /\ MayTick
    BY <1>1 DEF Tick, locals
  <2>2. ASSUME NEW s \in Symbol PROVE CoolAt(s)'
    <3>1. /\ cool[s] \in Nat /\ coolB[s] \in Nat /\ owedA[s] \in Nat /\ owedB[s] \in Nat
          /\ owedExit[s] \in Nat /\ CoolA \in Nat
      BY CoolTypes
    <3>2. /\ cool'[s] = Down(cool[s]) /\ coolB'[s] = Down(coolB[s])
          /\ owedA'[s] = Down(owedA[s]) /\ owedB'[s] = Down(owedB[s])
          /\ owedExit'[s] = Down(owedExit[s])
      BY <2>1, CoolTypes, AgedType
    <3>3. /\ owedExit[s] <= cool[s] => Down(owedExit[s]) <= Down(cool[s])
          /\ owedA[s] <= cool[s] => Down(owedA[s]) <= Down(cool[s])
          /\ owedB[s] <= coolB[s] => Down(owedB[s]) <= Down(coolB[s])
          /\ owedA[s] <= CoolA => Down(owedA[s]) <= CoolA
          /\ owedB[s] = 0 => Down(owedB[s]) = 0
          /\ owedA[s] = 0 => Down(owedA[s]) = 0
          /\ owedExit[s] = 0 => Down(owedExit[s]) = 0
      BY <3>1 DEF Down
    <3>4. pc # "pushA" /\ pc # "pushB"
      BY <2>1 DEF MayTick
    <3>5. CoolAt(s)
      BY DEF CoolInv
    <3>6. QED BY <2>1, <3>2, <3>3, <3>4, <3>5 DEF CoolAt
  <2>3. QED BY <2>2 DEF CoolInv
<1>2. ASSUME NEW t \in Symbol, NEW why \in Reason, Exited(t, why) PROVE CoolInv'
  <2>1. UNCHANGED <<pc, sym, coolB, owedA, owedB, ghosts>>
    BY <1>2 DEF Exited, locals
  <2>2. CASE CoolOf(why) = 0
    BY <1>2, <2>1, <2>2, CoolStays DEF Exited, owed
  <2>3. CASE CoolOf(why) # 0
    <3>1. CoolOf(why) \in Nat /\ CoolOf(why) >= CoolA
      BY <2>3, FeedConstants, FeedTimes DEF CoolOf, Reason
    <3>2. /\ cool' = [cool EXCEPT ![t] = CoolOf(why)]
          /\ owedExit' = [owedExit EXCEPT ![t] = CoolOf(why)]
          /\ raced' = [raced EXCEPT ![t] =
                         sym = t /\ pc \in {"limits", "gates", "pushA", "undoA"}]
      BY <1>2, <2>3 DEF Exited
    <3>3. ASSUME NEW s \in Symbol PROVE CoolAt(s)'
      <4>0. cool \in PerSymbol /\ owedExit \in PerSymbol
        BY CoolTypes
      <4>1. /\ s = t => cool'[s] = CoolOf(why) /\ owedExit'[s] = CoolOf(why)
            /\ s # t => cool'[s] = cool[s] /\ owedExit'[s] = owedExit[s]
        BY <3>1, <3>2, <4>0, SetOne
      <4>2. /\ s = t => raced'[s] = (sym = t /\ pc \in Checked)
            /\ s # t => raced'[s] = raced[s]
        BY <3>2, Zenon DEF TypeInv, TypeOK, Checked
      <4>3. CoolAt(s)
        BY DEF CoolInv
      <4>4. /\ cool[s] \in Nat /\ coolB[s] \in Nat /\ owedA[s] \in Nat /\ owedB[s] \in Nat
            /\ owedExit[s] \in Nat /\ CoolA \in Nat
        BY CoolTypes
      <4>5. CASE s = t
        <5>1. raced'[s] \/ ~(pc \in Checked /\ sym = s)
          BY <4>2, <4>5
        <5>2. /\ owedExit'[s] <= cool'[s] /\ cool'[s] >= CoolA /\ owedA[s] <= cool'[s]
              /\ pc = "pushA" => pc \in Checked
          BY <3>1, <4>1, <4>3, <4>4, <4>5 DEF CoolAt, Checked
        <5>3. QED BY <2>1, <4>3, <5>1, <5>2 DEF CoolAt
      <4>6. CASE s # t
        BY <2>1, <4>1, <4>2, <4>3, <4>6 DEF CoolAt
      <4>7. QED BY <4>5, <4>6
    <3>4. QED BY <3>3 DEF CoolInv
  <2>4. QED BY <2>2, <2>3
<1>3. CASE Crash
  <2>1. UNCHANGED <<cool, coolB, owed, ghosts>> /\ pc' = "idle"
    BY <1>3 DEF Crash, keys
  <2>2. QED BY <2>1, CoolStays DEF Checked, CheckedB
<1>6. CASE CountRaises
  <2>1. /\ UNCHANGED <<cool, coolB, owed>> /\ ghosts' = ghosts + 1
        /\ pc' \notin Checked \cup CheckedB
    BY <1>6, CountRaisesWay DEF keys, Checked, CheckedB
  <2>2. ASSUME NEW s \in Symbol PROVE CoolAt(s)'
    <3>1. CoolAt(s) /\ ghosts \in Nat
      BY CoolTypes DEF CoolInv
    <3>2. QED BY <2>1, <3>1 DEF CoolAt, Checked, CheckedB, owed
  <2>3. QED BY <2>2 DEF CoolInv
<1>4. CASE UNCHANGED <<cool, coolB, owed, ghosts, pc, sym>>
  BY <1>4, CoolStays
<1>5. CASE EvalLoop \/ EvalSave \/ (\E s \in Symbol : EvalSkip(s) \/ EvalCall(s))
           \/ Pause \/ Resume \/ Midnight \/ UNCHANGED vars
  BY <1>5, <1>4
     DEF EvalLoop, EvalSave, EvalSkip, EvalCall, Pause, Resume, Midnight, vars,
         keys, locals
<1>7. QED BY <1>1, <1>2, <1>3, <1>5, <1>6, CoolRunner DEF Next

(* A published signal is followed by the cooldown of its family, and the   *)
(* pause an exit or a cancelled BUY asked for is neither overwritten nor   *)
(* deleted, unless the exit fell between the runner's check and its write. *)
THEOREM CooldownsHold == Spec => []CooldownsStand
<1>1. Init => CoolInv
  <2>1. \A s \in Symbol : Zero[s] = 0
    BY ZeroType
  <2>2. QED BY <2>1, FeedConstants DEF Init, CoolInv, CoolAt, Checked, CheckedB
<1>2. CoolInv => CooldownsStand
  BY DEF CoolInv, CoolAt, CooldownsStand, CooldownOutlivesPush,
         ExitCooldownStands
<1>3. QED BY <1>1, <1>2, CoolNext, TypeHolds, TypeNext, PTL DEF Spec

(* A push finds the stop count below its cap, or is the first late one:    *)
(* the count was below it when the runner took up the symbol.              *)
Sending == {"gates", "pushA", "ticker", "alt", "pushAlt", "ask", "pushB"}
LateAt(d, s) ==
  /\ late[d][s] <= 1
  /\ late[d][s] >= 1 => stopCount[d][s] >= StopCap
  /\ pc \in Sending /\ rday = d /\ sym = s => late[d][s] = 0
LateInv == \A d \in Day, s \in Symbol : LateAt(d, s)

(* Nothing is published and the stop counts do not go down.                *)
LEMMA LateStays ==
  ASSUME TypeInv, TypeInv', LateInv, late' = late,
         \A d \in Day, s \in Symbol : stopCount'[d][s] >= stopCount[d][s],
         \/ pc' \notin Sending
         \/ (pc' \in Sending => pc \in Sending) /\ UNCHANGED <<rday, sym>>
         \/ rday' \in Day /\ sym' \in Symbol /\ stopCount[rday'][sym'] < StopCap
  PROVE  LateInv'
<1>1. ASSUME NEW d \in Day, NEW s \in Symbol PROVE LateAt(d, s)'
  <2>1. /\ late[d][s] \in Nat /\ stopCount[d][s] \in Nat /\ StopCap \in Nat
        /\ stopCount'[d][s] \in Nat /\ stopCount'[d][s] >= stopCount[d][s]
    BY Approving DEF TypeInv, TypeOK, PerDay, PerSymbol
  <2>2. LateAt(d, s)
    BY DEF LateInv
  <2>3. QED BY <2>1, <2>2 DEF LateAt
<1>2. QED BY <1>1 DEF LateInv

LEMMA LatePushed ==
  ASSUME TypeInv, LateInv, NEW f, Published(f), stopCount' = stopCount,
         pc \in Sending, pc' \notin Sending
  PROVE  LateInv'
<1>1. ASSUME NEW d \in Day, NEW s \in Symbol PROVE LateAt(d, s)'
  <2>1. /\ late[d][s] \in Nat /\ stopCount[d][s] \in Nat /\ StopCap \in Nat /\ rday \in Day
    BY Approving
  <2>2. LateAt(d, s)
    BY DEF LateInv
  <2>3. late \in PerDay
    BY DEF TypeInv, TypeOK
  <2>4. \/ late' = late
        \/ /\ stopCount[rday][sym] >= StopCap
           /\ late'[d][s] = IF d = rday /\ s = sym THEN late[d][s] + 1 ELSE late[d][s]
    BY <2>3, CountOne DEF Published
  <2>5. QED BY <2>1, <2>2, <2>4 DEF LateAt
<1>2. QED BY <1>1 DEF LateInv

LEMMA LateNext == TypeInv /\ TypeInv' /\ LateInv /\ [Next]_vars => LateInv'
<1> SUFFICES ASSUME TypeInv, TypeInv', LateInv, [Next]_vars PROVE LateInv'
  OBVIOUS
<1>c. /\ stopCount' = stopCount => \A d \in Day, s \in Symbol : stopCount'[d][s] >= stopCount[d][s]
  BY Approving
<1>l. Leave => pc' \notin Sending
  BY LeaveWay DEF Sending
<1>1. CASE UNCHANGED <<late, stopCount, pc, rday, sym>>
  BY <1>1, <1>c, LateStays
<1>2. CASE Resume \/ Crash
  <2>1. UNCHANGED <<late, stopCount>> /\ (UNCHANGED <<pc, rday, sym>> \/ pc' = "idle")
    BY <1>2 DEF Resume, Crash, keys, sent, locals
  <2>2. QED BY <2>1, <1>c, LateStays DEF Sending
<1>3. ASSUME NEW t \in Symbol, NEW why \in Reason, Exited(t, why) PROVE LateInv'
  <2>1. UNCHANGED <<late, pc, rday, sym>>
        /\ stopCount' \in {stopCount, [stopCount EXCEPT ![day][t] = @ + 1]}
    BY <1>3 DEF Exited, sent, locals
  <2>2. stopCount \in PerDay
    BY DEF TypeInv, TypeOK
  <2>3. ASSUME NEW d \in Day, NEW s \in Symbol PROVE stopCount'[d][s] >= stopCount[d][s]
    <3>1. stopCount[d][s] \in Nat
      BY Approving
    <3>2. CASE stopCount' = [stopCount EXCEPT ![day][t] = @ + 1]
      <4>1. stopCount'[d][s] = IF d = day /\ s = t THEN stopCount[d][s] + 1 ELSE stopCount[d][s]
        BY <3>2, <2>2, CountOne
      <4>2. QED BY <3>1, <4>1
    <3>3. QED BY <2>1, <3>1, <3>2
  <2>4. QED BY <2>1, <2>3, LateStays
<1>4. CASE PushA
  <2>1. pc = "pushA" /\ stopCount' = stopCount
    BY <1>4, PushAWays DEF keys
  <2>2. late' = late \/ Published("A")
    BY <1>4, PushAWays DEF sent, PublishedA
  <2>3. pc' \notin Sending
    BY <1>4, PushAWays DEF Sending
  <2>4. QED BY <2>1, <2>2, <2>3, <1>c, LateStays, LatePushed DEF Sending
<1>5. CASE PushB
  <2>1. pc = "pushB" /\ stopCount' = stopCount
    BY <1>5, PushBWays
  <2>2. late' = late \/ Published("B")
    BY <1>5, PushBWays DEF sent, PublishedB
  <2>3. pc' \notin Sending
    BY <1>5, PushBWays DEF Sending
  <2>4. QED BY <2>1, <2>2, <2>3, <1>c, LateStays, LatePushed DEF Sending
<1>6. CASE PushAlt
  <2>1. pc = "pushAlt" /\ stopCount' = stopCount
    BY <1>6 DEF PushAlt
  <2>2. late' = late \/ Published("B")
    BY <1>6 DEF PushAlt, sent, PublishedAlt
  <2>3. pc' \notin Sending
    BY <1>6, <1>l DEF PushAlt, Goto, Sending
  <2>4. QED BY <2>1, <2>2, <2>3, <1>c, LateStays, LatePushed DEF Sending
<1>7. CASE CheckLimits
  <2>1. UNCHANGED <<late, stopCount>> /\ pc = "limits"
    BY <1>7 DEF CheckLimits, sent, keys
  <2>2. \/ Leave
        \/ rday' = day /\ sym' = sym /\ stopCount[day][sym] < StopCap
    BY <1>7 DEF CheckLimits, MayTrade
  <2>3. day \in Day /\ sym \in Symbol
    BY <2>1, LabelFacts DEF TypeInv, TypeOK
  <2>4. QED BY <2>1, <2>2, <2>3, <1>l, <1>c, LateStays
<1>8. ASSUME NEW t \in Symbol, CheckB(t) PROVE LateInv'
  <2>1. UNCHANGED <<late, stopCount, rday>> /\ rday \in Day
    BY <1>8 DEF CheckB, sent, keys, TypeInv, TypeOK
  <2>2. \/ UNCHANGED <<pc, sym>>
        \/ sym' = t /\ stopCount[rday][t] < StopCap
    BY <1>8 DEF CheckB, MayTrade
  <2>3. QED BY <2>1, <2>2, <1>c, LateStays
<1>9. ASSUME NEW t \in Symbol, ReadEval(t) PROVE LateInv'
  <2>1. UNCHANGED <<late, stopCount, rday>>
        /\ (UNCHANGED <<pc, sym>> \/ pc' \in {"purge", "claim"})
    BY <1>9 DEF ReadEval, sent, keys
  <2>2. QED BY <2>1, <1>c, LateStays DEF Sending
<1>10. ASSUME \/ StartLoop \/ PurgeStale \/ ClaimEval \/ PassGates \/ UndoA \/ Count
              \/ EndTypeA \/ EndTypeB \/ GatesB \/ ClaimAlt \/ CountAlt \/ AskClaude
       PROVE  LateInv'
  <2>1. UNCHANGED <<late, stopCount>>
    BY <1>10 DEF StartLoop, PurgeStale, ClaimEval, PassGates, UndoA, Count,
       EndTypeA, EndTypeB, GatesB, ClaimAlt, CountAlt, AskClaude, sent, keys
  <2>2. CASE Leave
    BY <2>1, <2>2, <1>l, <1>c, LateStays
  <2>3. CASE ~Leave
    <3>1. \/ pc' \notin Sending
          \/ pc \in Sending /\ UNCHANGED <<rday, sym>>
      BY <1>10, <2>3
         DEF StartLoop, PurgeStale, ClaimEval, PassGates, UndoA, Count,
             EndTypeA, EndTypeB, GatesB, ClaimAlt, CountAlt, AskClaude, Goto,
             Continue, Sending
    <3>2. QED BY <2>1, <3>1, <1>c, LateStays
  <2>4. QED BY <2>2, <2>3
<1>11. CASE CountRaises
  <2>1. UNCHANGED <<late, stopCount>> /\ Leave
    BY <1>11, CountRaisesWay DEF keys, sent
  <2>2. QED BY <2>1, <1>l, <1>c, LateStays
<1>12. QED
  BY <1>1, <1>2, <1>3, <1>4, <1>5, <1>6, <1>7, <1>8, <1>9, <1>10, <1>11
     DEF Next, RunnerStep, EvalLoop, EvalSave, EvalSkip, EvalCall, Pause, Tick,
         Midnight, vars, keys, sent, locals

(* Once a symbol's exits reached the stop count, at most the one signal    *)
(* that was being worked on still leaves on that day.                      *)
THEOREM StopsOut == Spec => []StoppedOut
<1>1. Init => LateInv
  <2>1. Init => \A d \in Day, s \in Symbol : late[d][s] = 0
    BY ZeroType DEF Init
  <2>2. QED BY <2>1 DEF LateInv, LateAt
<1>2. LateInv => StoppedOut
  BY DEF LateInv, LateAt, StoppedOut
<1>3. QED BY <1>1, <1>2, LateNext, TypeHolds, TypeNext, PTL DEF Spec

-----------------------------------------------------------------------------
(* A symbol the loop under way has published since the pause is neither on *)
(* its list any more nor the one it works on; no loop starts in a pause.   *)
WorkA == {"purge", "claim", "limits", "gates", "pushA"}
WorkB == {"ticker", "alt", "ask", "pushAlt", "pushB"}
PauseAt(s) ==
  /\ ~paused => afterPause["A"][s] = 0 /\ afterPause["B"][s] = 0
  /\ afterPause["A"][s] <= 1 /\ afterPause["B"][s] <= 1
  /\ afterPause["A"][s] = 1 => s \notin todoA /\ ~(pc \in WorkA /\ sym = s)
  /\ afterPause["B"][s] = 1 => s \notin todoB /\ ~(pc \in WorkB /\ sym = s)
PauseInv ==
  /\ pc \in TypeALabels => sym \notin todoA
  /\ pc \in TypeBLabels => sym \notin todoB
  /\ \A s \in Symbol : PauseAt(s)

LEMMA PauseTypes ==
  ASSUME TypeInv, NEW s \in Symbol
  PROVE  /\ afterPause["A"][s] \in Nat /\ afterPause["B"][s] \in Nat
         /\ afterPause["A"] \in PerSymbol /\ afterPause["B"] \in PerSymbol
         /\ (paused \in BOOLEAN)
<1>1. afterPause \in [{"A", "B"} -> PerSymbol]
  BY DEF TypeInv, TypeOK
<1>2. (paused \in BOOLEAN)
  BY Zenon DEF TypeInv, TypeOK
<1>3. QED BY <1>1, <1>2 DEF PerSymbol

(* Nothing is published; the lists get shorter, and what the runner takes  *)
(* up was on its list.                                                     *)
LEMMA PauseStays ==
  ASSUME TypeInv, PauseInv, UNCHANGED afterPause, paused' \in {paused, TRUE},
         todoA' \subseteq todoA, todoB' \subseteq todoB,
         \/ pc' \notin TypeALabels \cup TypeBLabels
         \/ UNCHANGED <<pc, sym>>
         \/ /\ sym' = sym
            /\ pc' \in TypeALabels => pc \in TypeALabels
            /\ pc' \in TypeBLabels => pc \in TypeBLabels
            /\ pc' \in WorkA => pc \in WorkA
            /\ pc' \in WorkB => pc \in WorkB
         \/ pc' \in TypeALabels /\ sym' \in todoA \ todoA'
         \/ pc' \in TypeBLabels /\ sym' \in todoB \ todoB'
  PROVE  PauseInv'
<1>1. WorkA \subseteq TypeALabels /\ WorkB \subseteq TypeBLabels
      /\ TypeALabels \cap TypeBLabels = {}
  BY DEF WorkA, WorkB, TypeALabels, TypeBLabels
<1>2. ASSUME NEW s \in Symbol PROVE PauseAt(s)'
  <2>1. PauseAt(s) /\ paused \in BOOLEAN
    BY PauseTypes DEF PauseInv
  <2>2. \A t \in Symbol : (t \in todoA => afterPause["A"][t] # 1)
                       /\ (t \in todoB => afterPause["B"][t] # 1)
    BY DEF PauseInv, PauseAt
  <2>3. QED BY <1>1, <2>1, <2>2 DEF PauseAt
<1>3. (pc' \in TypeALabels => sym' \notin todoA') /\ (pc' \in TypeBLabels => sym' \notin todoB')
  BY <1>1 DEF PauseInv
<1>4. QED BY <1>2, <1>3 DEF PauseInv

(* A signal is published of the symbol the runner works on.                *)
LEMMA PausePushed ==
  ASSUME TypeInv, PauseInv, NEW f \in {"A", "B"}, Published(f),
         UNCHANGED <<paused, todoA, todoB>>,
         f = "A" => pc \in WorkA /\ pc' \notin WorkA \cup TypeBLabels
                    /\ (pc' \in TypeALabels => sym' = sym),
         f = "B" => pc \in WorkB /\ pc' \notin WorkB \cup TypeALabels
                    /\ (pc' \in TypeBLabels => sym' = sym)
  PROVE  PauseInv'
<1>1. WorkA \subseteq TypeALabels /\ WorkB \subseteq TypeBLabels
      /\ TypeALabels \cap TypeBLabels = {}
  BY DEF WorkA, WorkB, TypeALabels, TypeBLabels
<1>2. afterPause \in [{"A", "B"} -> PerSymbol]
  BY DEF TypeInv, TypeOK
<1>3. ASSUME NEW s \in Symbol PROVE PauseAt(s)'
  <2>1. PauseAt(s)
    BY DEF PauseInv
  <2>2. afterPause["A"][s] \in Nat /\ afterPause["B"][s] \in Nat
    BY PauseTypes
  <2>3. \/ afterPause' = afterPause
        \/ /\ paused
           /\ \A g \in {"A", "B"} : afterPause'[g][s] =
                IF g = f /\ s = sym THEN afterPause[g][s] + 1 ELSE afterPause[g][s]
    <3>1. CASE ~paused
      BY <3>1 DEF Published
    <3>2. CASE paused
      <4>1. afterPause' = [afterPause EXCEPT ![f] = [afterPause[f] EXCEPT ![sym] = @ + 1]]
        BY <3>2 DEF Published
      <4>2. afterPause[f] \in PerSymbol
        BY <1>2
      <4>3. [afterPause[f] EXCEPT ![sym] = @ + 1][s] =
              IF s = sym THEN afterPause[f][s] + 1 ELSE afterPause[f][s]
        BY <4>2, AddOne, ZenonT(60)
      <4>4. QED BY <3>2, <4>1, <4>3, <1>2
    <3>3. QED BY <3>1, <3>2
  <2>4. sym = s => (f = "A" => s \notin todoA) /\ (f = "B" => s \notin todoB)
    BY <1>1 DEF PauseInv
  <2>5. QED BY <1>1, <2>1, <2>2, <2>3, <2>4 DEF PauseAt
<1>4. (pc' \in TypeALabels => sym' \notin todoA') /\ (pc' \in TypeBLabels => sym' \notin todoB')
  BY <1>1 DEF PauseInv
<1>5. QED BY <1>3, <1>4 DEF PauseInv

LEMMA PauseNext == TypeInv /\ PauseInv /\ [Next]_vars => PauseInv'
<1> SUFFICES ASSUME TypeInv, PauseInv, [Next]_vars PROVE PauseInv'
  OBVIOUS
<1>l. /\ Leave => pc' \notin TypeALabels \cup TypeBLabels
      /\ "idle" \notin TypeALabels \cup TypeBLabels
      /\ "loop" \notin TypeALabels \cup TypeBLabels
      /\ "loopB" \notin TypeALabels \cup TypeBLabels
  BY LeaveWay, LabelFacts
<1>1. CASE UNCHANGED <<afterPause, paused, todoA, todoB, pc, sym>>
  BY <1>1, PauseStays
<1>2. CASE Pause \/ Crash
  <2>1. UNCHANGED afterPause /\ paused' \in {paused, TRUE}
        /\ todoA' \subseteq todoA /\ todoB' \subseteq todoB
        /\ (UNCHANGED <<pc, sym>> \/ pc' = "idle")
    BY <1>2 DEF Pause, Crash, sent, locals
  <2>2. QED BY <2>1, <1>l, PauseStays
<1>3. CASE Resume
  <2>1. /\ \A s \in Symbol : afterPause'["A"][s] = 0 /\ afterPause'["B"][s] = 0
        /\ UNCHANGED <<pc, sym, todoA, todoB>>
    BY <1>3, ZeroType DEF Resume, locals
  <2>2. QED BY <2>1 DEF PauseInv, PauseAt
<1>4. CASE StartLoop
  <2>1. ~paused /\ pc' = "loop" /\ UNCHANGED <<paused, afterPause>>
    BY <1>4 DEF StartLoop, Goto, sent
  <2>2. \A s \in Symbol : afterPause["A"][s] = 0 /\ afterPause["B"][s] = 0
    BY <2>1 DEF PauseInv, PauseAt
  <2>3. QED BY <2>1, <2>2, <1>l DEF PauseInv, PauseAt
<1>5. CASE PushA
  <2>1. pc = "pushA" /\ UNCHANGED <<paused, todoA, todoB>>
    BY <1>5, PushAWays
  <2>2. \/ afterPause' = afterPause /\ (pc' = "loop" \/ (pc' = "undoA" /\ sym' = sym))
        \/ Published("A") /\ pc' \in {"countA", "undoA"} /\ sym' = sym
    BY <1>5, PushAWays DEF sent, PublishedA
  <2>3. CASE afterPause' = afterPause /\ (pc' = "loop" \/ (pc' = "undoA" /\ sym' = sym))
    BY <2>1, <2>3, <1>l, LabelFacts, PauseStays DEF WorkA, WorkB
  <2>4. CASE Published("A") /\ pc' \in {"countA", "undoA"} /\ sym' = sym
    BY <2>1, <2>4, LabelFacts, PausePushed DEF WorkA
  <2>5. QED BY <2>2, <2>3, <2>4
<1>6. CASE PushB
  <2>1. pc = "pushB" /\ UNCHANGED <<paused, todoA, todoB>>
    BY <1>6, PushBWays
  <2>2. \/ afterPause' = afterPause /\ pc' = "loopB"
        \/ Published("B") /\ (pc' = "loopB" \/ (pc' = "countB" /\ sym' = sym))
    BY <1>6, PushBWays DEF sent, PublishedB
  <2>3. CASE afterPause' = afterPause /\ pc' = "loopB"
    BY <2>1, <2>3, <1>l, PauseStays
  <2>4. CASE Published("B") /\ (pc' = "loopB" \/ (pc' = "countB" /\ sym' = sym))
    BY <2>1, <2>4, LabelFacts, PausePushed DEF WorkB
  <2>5. QED BY <2>2, <2>3, <2>4
<1>7. CASE PushAlt
  <2>1. pc = "pushAlt" /\ UNCHANGED <<paused, todoA, todoB>>
    BY <1>7 DEF PushAlt
  <2>2. pc' = "loopB" \/ (pc' = "countAlt" /\ sym' = sym)
    BY <1>7, <2>1, LabelFacts DEF PushAlt, Goto, Leave
  <2>3. CASE Published("B")
    BY <2>1, <2>2, <2>3, LabelFacts, PausePushed DEF WorkB
  <2>4. CASE afterPause' = afterPause /\ Leave
    BY <2>1, <2>4, <1>l, PauseStays
  <2>5. QED BY <1>7, <2>3, <2>4 DEF PushAlt, PublishedAlt, sent
<1>8. ASSUME NEW t \in Symbol, ReadEval(t) PROVE PauseInv'
  <2>1. UNCHANGED <<paused, afterPause, todoB>> /\ t \in todoA /\ todoA' = todoA \ {t}
    BY <1>8 DEF ReadEval, sent
  <2>2. UNCHANGED <<pc, sym>> \/ (pc' \in {"purge", "claim"} /\ sym' = t)
    BY <1>8 DEF ReadEval
  <2>3. QED BY <2>1, <2>2, LabelFacts, PauseStays
<1>9. ASSUME NEW t \in Symbol, CheckB(t) PROVE PauseInv'
  <2>1. UNCHANGED <<paused, afterPause, todoA>> /\ t \in todoB /\ todoB' = todoB \ {t}
    BY <1>9 DEF CheckB, sent
  <2>2. UNCHANGED <<pc, sym>> \/ (pc' = "ticker" /\ sym' = t)
    BY <1>9 DEF CheckB
  <2>3. QED BY <2>1, <2>2, LabelFacts, PauseStays
<1>10. ASSUME \/ PurgeStale \/ ClaimEval \/ CheckLimits \/ PassGates \/ UndoA \/ Count
              \/ EndTypeA \/ EndTypeB \/ GatesB \/ ClaimAlt \/ CountAlt \/ AskClaude
       PROVE  PauseInv'
  <2>1. UNCHANGED <<paused, afterPause, todoA, todoB>>
    BY <1>10 DEF PurgeStale, ClaimEval, CheckLimits, PassGates, UndoA, Count,
       EndTypeA, EndTypeB, GatesB, ClaimAlt, CountAlt, AskClaude, sent
  <2>2. CASE Leave
    BY <2>1, <2>2, <1>l, PauseStays
  <2>3. CASE ~Leave
    <3>1. \/ pc' \in {"idle", "loopB"}
          \/ /\ sym' = sym
             /\ \/ pc \in WorkA /\ pc' \in WorkA
                \/ pc \in WorkB /\ pc' \in WorkB
      BY <1>10, <2>3
         DEF PurgeStale, ClaimEval, CheckLimits, PassGates, UndoA, Count,
             EndTypeA, EndTypeB, GatesB, ClaimAlt, CountAlt, AskClaude, Goto,
             Continue, WorkA, WorkB
    <3>2. /\ WorkA \subseteq TypeALabels /\ WorkB \subseteq TypeBLabels
          /\ TypeALabels \cap TypeBLabels = {}
      BY DEF WorkA, WorkB, TypeALabels, TypeBLabels
    <3>3. QED BY <2>1, <3>1, <3>2, <1>l, PauseStays
  <2>4. QED BY <2>2, <2>3
<1>11. CASE CountRaises
  <2>1. UNCHANGED <<afterPause, paused, todoA, todoB>> /\ Leave
    BY <1>11, CountRaisesWay DEF sent
  <2>2. QED BY <2>1, <1>l, PauseStays
<1>12. QED
  BY <1>1, <1>2, <1>3, <1>4, <1>5, <1>6, <1>7, <1>8, <1>9, <1>10, <1>11
     DEF Next, RunnerStep, EvalLoop, EvalSave, EvalSkip, EvalCall, Exited,
         Tick, Midnight, vars, sent, locals

(* A pause lets only the loop under way finish: at most one signal of each *)
(* family is published of a symbol until trading resumes.                  *)
THEOREM PauseHolds == Spec => []PauseEndsLoop
<1>1. Init => PauseInv
  <2>1. Init => /\ \A s \in Symbol : afterPause["A"][s] = 0 /\ afterPause["B"][s] = 0
                /\ pc = "idle"
    BY ZeroType DEF Init
  <2>2. QED BY <2>1, LabelFacts DEF PauseInv, PauseAt
<1>2. PauseInv => PauseEndsLoop
  BY DEF PauseInv, PauseAt, PauseEndsLoop
<1>3. QED BY <1>1, <1>2, PauseNext, TypeHolds, PTL DEF Spec
=============================================================================
