--------------------------- MODULE OrderGateProofs ---------------------------
(***************************************************************************)
(* What holds of OrderGate for every number of runners, signals, orders,   *)
(* kills and days, with every lapse of the runner's lock.                  *)
(***************************************************************************)
EXTENDS OrderGate, FiniteSetTheorems, TLAPS

-----------------------------------------------------------------------------
(* The constants, and what is given, one by one.                           *)
LEMMA ConstType ==
  /\ LossLimit \in Nat \ {0} /\ MaxOrders \in Nat
  /\ \A T \in SUBSET Symbol : IsFiniteSet(T)
  BY GateConstants, FS_Subset

LEMMA EnvType ==
  ASSUME env \in Environment
  PROVE  /\ env.dailyCap \in Nat \ {0} /\ SymOf \in [Signal -> Symbol]
         /\ env.attempts \in Nat /\ env.held \in SUBSET Symbol
         /\ env.orders \in 0..MaxOrders
  BY DEF Environment, SymOf

(* The environment is given once.                                          *)
LEMMA EnvFixed == [Next]_vars => env' = env
  BY DEF Next, vars, Start, Work, Crash, Stop, LockLapses, Push, Execute, Book,
         See, Close, ClosePosition, CooldownEnds, Operate, Midnight, Reset,
         Loop, Pop, Judge, Idempo, Build, Place, RecordKey, RecordMeta, Dedupe,
         Cooldown, Cap, Mark, PauseRule, MarketPauseRule, Held, CountHeld, Scan, Loss, Cash

(* Lemmas about one runner's step.                                         *)

(* A runner with a signal at hand moves to another command.                *)
LEMMA BusyStep ==
  ASSUME RunnersOK, NEW p \in Runner, pc[p] \notin {"down", "loop", "pop"},
         NEW label \in Labels, Goto(p, label),
         UNCHANGED <<lock, lockTTL, queue, sig>>,
         open' \in [Runner -> Nat], try' \in [Runner -> Nat],
         oid' \in [Runner -> 0..MaxOrders]
  PROVE  RunnersOK'
  BY DEF RunnersOK, Goto

(* A rule lets the signal on to the next command, or drops it.             *)
LEMMA JudgedStep ==
  ASSUME RunnersOK, NEW p \in Runner, pc[p] \notin {"down", "loop", "pop"},
         NEW label \in Labels, NEW ok, Next_(p, ok, label),
         UNCHANGED <<lock, lockTTL, queue, sig, try, oid>>,
         open' \in [Runner -> Nat]
  PROVE  RunnersOK'
<1>1. "loop" \in Labels BY DEF Labels
<1>2. try' \in [Runner -> Nat] /\ oid' \in [Runner -> 0..MaxOrders]
  BY DEF RunnersOK
<1>3. CASE ok
  BY <1>2, <1>3, BusyStep DEF Next_
<1>4. CASE ~ok
  BY <1>1, <1>2, <1>4, BusyStep DEF Next_
<1>5. QED BY <1>3, <1>4

(* Back to a label at which no signal is at hand.                          *)
LEMMA IdleStep ==
  ASSUME RunnersOK, NEW p \in Runner, NEW label \in {"down", "loop", "pop"},
         Goto(p, label), lock' \in BOOLEAN, lockTTL' \in BOOLEAN,
         UNCHANGED <<queue, local>>
  PROVE  RunnersOK'
  BY DEF RunnersOK, Goto, local, Labels

(* Where Next_ can lead.                                                   *)
LEMMA NextLabel ==
  ASSUME NEW p, NEW ok, NEW label, Next_(p, ok, label)
  PROVE  \/ ok /\ Goto(p, label)
         \/ ~ok /\ Goto(p, "loop")
  BY DEF Next_

-----------------------------------------------------------------------------
(* The initial state and every step keep the type invariant.               *)

LEMMA TypeInit == Init => TypeOK
<1> SUFFICES ASSUME Init PROVE TypeOK
  OBVIOUS
<1>v. env \in Environment
  BY GateConstants DEF Init
<1>1. RunnersOK
  <2>1. (lock \in BOOLEAN) /\ (lockTTL \in BOOLEAN)
    BY Zenon DEF Init
  <2>2. queue \in Seq(Signal)
    BY DEF Init
  <2>3. /\ pc \in [Runner -> Labels] /\ \A p \in Runner : pc[p] = "down"
        /\ sig \in [Runner -> Signal \cup {0}]
    BY DEF Init, Labels
  <2>4. /\ open \in [Runner -> Nat] /\ try \in [Runner -> Nat]
        /\ oid \in [Runner -> 0..MaxOrders]
    BY ConstType DEF Init
  <2>5. QED BY <2>1, <2>2, <2>3, <2>4 DEF RunnersOK
<1>2. KeysOK
  <2>1. marketPause \in BOOLEAN
    BY Zenon DEF Init
  <2>2. pos \subseteq Symbol /\ IsFiniteSet(pos)
    BY <1>v, EnvType, ConstType DEF Init
  <2>3. count \in 0..env.dailyCap /\ realized \in Int
    BY <1>v, EnvType DEF Init
  <2>4. QED BY <2>1, <2>2, <2>3 DEF Init, KeysOK
<1>3. OrdersOK
  BY GateConstants DEF Init, OrdersOK, Order, NoOrder, OrderId
<1>4. CountersOK
  BY <1>v DEF Init, CountersOK
<1>5. QED BY <1>1, <1>2, <1>3, <1>4 DEF TypeOK

(* The fields of an order that the executor, the broker, the watcher and   *)
(* the booking change.                                                     *)
LEMMA OrderFields ==
  ASSUME NEW x \in Order, NEW y,
         \/ y = [x EXCEPT !.key = "SUBMITTED"] \/ y = [x EXCEPT !.meta = TRUE]
         \/ y = [x EXCEPT !.state = "executed"]
         \/ y = [x EXCEPT !.state = "booked"]
         \/ y = [x EXCEPT !.seen = TRUE] \/ y = [x EXCEPT !.key = "FILLED"]
         \/ y = [x EXCEPT !.key = "CANCELED", !.state = "canceled"]
  PROVE  y \in Order /\ y.sig = x.sig
  BY DEF Order

(* Changing one order, not its signal, keeps the orders well typed.        *)
LEMMA OrderStep ==
  ASSUME OrdersOK, UNCHANGED placed, NEW o,
         NEW y, order' = [order EXCEPT ![o] = y],
         o \in OrderId => y \in Order /\ y.sig = order[o].sig
  PROVE  OrdersOK'
<1>1. order \in [OrderId -> Order] /\ placed \in 0..MaxOrders
  BY DEF OrdersOK
<1>2. order' \in [OrderId -> Order]
  BY <1>1
<1>3. ASSUME NEW q \in 1..placed PROVE order'[q].sig \in Signal
  <2>1. q \in OrderId /\ order[q].sig \in Signal
    BY <1>1, <1>3, ConstType DEF OrderId, OrdersOK
  <2>2. order'[q].sig = order[q].sig
    BY <1>1, <2>1
  <2>3. QED BY <2>1, <2>2
<1>4. QED BY <1>1, <1>2, <1>3 DEF OrdersOK

(* BRPOP keeps a list of signals a list of signals.                        *)
LEMMA QueueType ==
  ASSUME NEW q \in Seq(Signal)
  PROVE  q # <<>> => Tail(q) \in Seq(Signal) /\ Head(q) \in Signal
  OBVIOUS

(* The broker takes a new order.                                           *)
LEMMA AcceptStep ==
  ASSUME TypeOK, NEW p \in Runner, sig[p] \in Signal, Accept(p)
  PROVE  /\ OrdersOK' /\ placed' \in 0..MaxOrders
         /\ afterPause' \in Nat /\ afterMarket' \in Nat /\ afterLoss' \in Nat
<1>0. env.orders \in 0..MaxOrders
  BY EnvType DEF TypeOK, CountersOK
<1>1. placed' \in 1..MaxOrders /\ placed \in Nat /\ MaxOrders \in Nat
  BY <1>0, ConstType DEF TypeOK, OrdersOK, Accept
<1>2. [NoOrder EXCEPT !.sig = sig[p], !.buy = IsLong(p),
       !.state = "working"] \in Order
  <2>1. IsLong(p) \in BOOLEAN
    BY DEF IsLong
  <2>2. QED BY <2>1 DEF NoOrder, Order
<1>3. OrdersOK'
  BY <1>1, <1>2 DEF TypeOK, OrdersOK, Accept, OrderId, NoOrder
<1>4. QED BY <1>1, <1>3 DEF TypeOK, CountersOK, Accept

(* realized_pnl moves.                                                     *)
LEMMA MoveStep ==
  ASSUME TypeOK, NEW d \in {-1, 1}, Move(d)
  PROVE  realized' \in Int /\ moves' \in Nat /\ afterLoss' \in Nat
  BY DEF TypeOK, KeysOK, CountersOK, Move

LEMMA TypeNext == TypeOK /\ [Next]_vars => TypeOK'
<1> SUFFICES ASSUME TypeOK, [Next]_vars
             PROVE  RunnersOK' /\ KeysOK' /\ OrdersOK' /\ CountersOK'
  BY DEF TypeOK
<1> DEFINE Goal == RunnersOK' /\ KeysOK' /\ OrdersOK' /\ CountersOK'
<1>t. /\ RunnersOK /\ KeysOK /\ OrdersOK /\ CountersOK
      /\ open \in [Runner -> Nat] /\ lock \in BOOLEAN /\ lockTTL \in BOOLEAN
  BY DEF TypeOK, RunnersOK
<1>v. /\ env' = env /\ env \in Environment
      /\ env.dailyCap \in Nat \ {0} /\ SymOf \in [Signal -> Symbol]
  BY EnvFixed, EnvType DEF TypeOK, CountersOK
<1>k. /\ UNCHANGED <<lock, lockTTL, queue, pc, local>> => RunnersOK'
      /\ UNCHANGED <<strategy, idempo, risk>> => KeysOK'
      /\ UNCHANGED broker => OrdersOK'
      /\ UNCHANGED <<bounds, history>> => CountersOK'
  BY <1>t, <1>v DEF local, strategy, risk, broker, bounds, history,
              afters, RunnersOK, KeysOK, OrdersOK, CountersOK
<1> USE <1>v
<1>l. /\ "loop" \in Labels /\ "cooldown" \in Labels /\ "cap" \in Labels
      /\ "mark" \in Labels
      /\ "pause" \in Labels /\ "market" \in Labels /\ "held" \in Labels
      /\ "count" \in Labels /\ "scan" \in Labels
      /\ "loss" \in Labels /\ "cash" \in Labels /\ "idempo" \in Labels
      /\ "build" \in Labels /\ "place" \in Labels /\ "record" \in Labels
      /\ "meta" \in Labels /\ "dedupe" \in Labels
  BY DEF Labels
<1>1. ASSUME NEW p \in Runner, Start(p) PROVE Goal
  <2>1. CASE lock
    BY <1>1, <2>1, <1>k DEF Start
  <2>2. CASE ~lock
    BY <1>1, <2>2, <1>k, <1>t, IdleStep DEF Start
  <2>3. QED BY <2>1, <2>2
<1>2. ASSUME NEW p \in Runner, Loop(p) PROVE Goal
  <2>1. RunnersOK'
    BY <1>2, <1>t, NextLabel, IdleStep DEF Loop
  <2>2. QED BY <1>2, <2>1, <1>k DEF Loop
<1>3. ASSUME NEW p \in Runner, Pop(p) PROVE Goal
  <2>1. CASE queue = <<>>
    BY <1>3, <2>1, <1>k, <1>t, IdleStep DEF Pop, local
  <2>2. CASE queue # <<>>
    <3>1. queue' \in Seq(Signal) /\ Head(queue) \in Signal
      BY <1>3, <2>2, <1>t, QueueType DEF Pop, RunnersOK
    <3>2. /\ sig' = [sig EXCEPT ![p] = Head(queue)]
          /\ UNCHANGED <<lock, lockTTL, open, try, oid>>
      BY <1>3, <2>2 DEF Pop
    <3>3. Goto(p, "dedupe") \/ Goto(p, "loop")
      BY <1>3, <2>2, NextLabel DEF Pop
    <3>4. RunnersOK'
      BY <3>1, <3>2, <3>3, <1>l, <1>t DEF RunnersOK, Goto
    <3>5. QED BY <1>3, <3>4, <1>k DEF Pop
  <2>3. QED BY <2>1, <2>2
<1>4. ASSUME NEW p \in Runner, Dedupe(p) PROVE Goal
  <2>1. sig[p] \in Signal
    BY <1>4, <1>t DEF Dedupe, RunnersOK
  <2>2. RunnersOK'
    BY <1>4, <1>t, <1>l, JudgedStep DEF Dedupe, local
  <2>3. KeysOK'
    BY <1>4, <1>t, <2>1 DEF Dedupe, KeysOK, risk
  <2>4. QED BY <1>4, <2>2, <2>3, <1>k DEF Dedupe
<1>5. ASSUME NEW p \in Runner, Cooldown(p) PROVE Goal
  <2>1. RunnersOK'
    BY <1>5, <1>t, <1>l, JudgedStep DEF Cooldown, local
  <2>2. QED BY <1>5, <2>1, <1>k DEF Cooldown
<1>6. ASSUME NEW p \in Runner, Cap(p) PROVE Goal
  <2>1. RunnersOK'
    <3>1. Goto(p, "loop") \/ Goto(p, "mark")
      BY <1>6 DEF Cap
    <3>2. QED BY <1>6, <3>1, <1>t, <1>l, BusyStep DEF Cap, local, RunnersOK
  <2>2. KeysOK' /\ CountersOK'
    <3>1. count' \in 0..env.dailyCap /\ passedToday' \in Nat
      BY <1>6, <1>t, GateConstants DEF Cap, KeysOK, CountersOK
    <3>2. QED BY <1>6, <3>1, <1>t DEF Cap, KeysOK, CountersOK, risk, bounds, afters
  <2>3. QED BY <1>6, <2>1, <2>2, <1>k DEF Cap
<1>7. ASSUME NEW p \in Runner, Mark(p) PROVE Goal
  <2>1. Sym(p) \in Symbol
    BY <1>7, <1>t, GateConstants DEF Mark, RunnersOK, Sym
  <2>2. RunnersOK'
    BY <1>7, <1>t, <1>l, BusyStep DEF Mark, local, RunnersOK
  <2>3. KeysOK'
    BY <1>7, <1>t, <2>1 DEF Mark, KeysOK, risk
  <2>4. QED BY <1>7, <2>2, <2>3, <1>k DEF Mark
<1>8. ASSUME NEW p \in Runner, PauseRule(p) \/ MarketPauseRule(p) PROVE Goal
  <2>1. RunnersOK'
    BY <1>8, <1>t, <1>l, JudgedStep DEF PauseRule, MarketPauseRule, local
  <2>2. QED BY <1>8, <2>1, <1>k DEF PauseRule, MarketPauseRule
<1>9. ASSUME NEW p \in Runner, Held(p) PROVE Goal
  <2>1. PICK live \in BOOLEAN : Next_(p, IsLong(p) => live
                                      /\ Sym(p) \notin pos, "count")
    BY <1>9 DEF Held
  <2>2. RunnersOK'
    BY <1>9, <2>1, <1>t, <1>l, JudgedStep DEF Held, local
  <2>3. QED BY <1>9, <2>2, <1>k DEF Held
<1>9a. ASSUME NEW p \in Runner, CountHeld(p) PROVE Goal
  <2>1. open' \in [Runner -> Nat]
    BY <1>9a, <1>t, FS_CardinalityType DEF CountHeld, KeysOK
  <2>2. RunnersOK'
    BY <1>9a, <2>1, <1>t, <1>l, BusyStep DEF CountHeld, RunnersOK
  <2>3. QED BY <1>9a, <2>2, <1>k DEF CountHeld
<1>10. ASSUME NEW p \in Runner, Scan(p) PROVE Goal
  <2>1. RunnersOK'
    BY <1>10, <1>t, <1>l, JudgedStep DEF Scan, local
  <2>2. QED BY <1>10, <2>1, <1>k DEF Scan
<1>11. ASSUME NEW p \in Runner, Loss(p) PROVE Goal
  <2>1. RunnersOK'
    <3>1. Goto(p, "loop") \/ Goto(p, "cash")
      BY <1>11 DEF Loss
    <3>2. QED BY <1>11, <3>1, <1>t, <1>l, BusyStep DEF Loss, local, RunnersOK
  <2>2. KeysOK'
    BY <1>11, <1>t DEF Loss, KeysOK, strategy
  <2>3. QED BY <1>11, <2>1, <2>2, <1>k DEF Loss
<1>12. ASSUME NEW p \in Runner, Cash(p) PROVE Goal
  <2>1. PICK enough \in BOOLEAN : Next_(p, IsLong(p) => enough, "idempo")
    BY <1>12 DEF Cash
  <2>2. RunnersOK'
    BY <1>12, <2>1, <1>t, <1>l, JudgedStep DEF Cash, local
  <2>3. QED BY <1>12, <2>2, <1>k DEF Cash
<1>13. ASSUME NEW p \in Runner, Idempo(p) PROVE Goal
  <2>1. RunnersOK'
    BY <1>13, <1>t, <1>l, JudgedStep DEF Idempo, local
  <2>2. KeysOK'
    BY <1>13, <1>t DEF Idempo, KeysOK, RunnersOK, strategy, risk
  <2>3. QED BY <1>13, <2>1, <2>2, <1>k DEF Idempo
<1>14. ASSUME NEW p \in Runner, Build(p) PROVE Goal
  <2>1. RunnersOK'
    <3>1. Goto(p, "loop") \/ Goto(p, "place")
      BY <1>14 DEF Build
    <3>2. QED BY <1>14, <3>1, <1>t, <1>l, BusyStep DEF Build, RunnersOK
  <2>2. KeysOK'
    BY <1>14, <1>t DEF Build, KeysOK, strategy, risk
  <2>3. QED BY <1>14, <2>1, <2>2, <1>k DEF Build
<1>15. ASSUME NEW p \in Runner, Place(p) PROVE Goal
  <2>1. sig[p] \in Signal /\ pc[p] \notin {"down", "loop", "pop"}
    BY <1>15, <1>t DEF Place, RunnersOK
  <2>2. \/ Accept(p)
        \/ UNCHANGED <<broker, afters>>
    BY <1>15 DEF Place
  <2>3. /\ OrdersOK' /\ placed' \in 0..MaxOrders /\ afterPause' \in Nat
        /\ afterMarket' \in Nat /\ afterLoss' \in Nat
    <3>1. CASE Accept(p)
      BY <3>1, <2>1, AcceptStep
    <3>2. CASE UNCHANGED <<broker, afters>>
      BY <3>2, <1>t DEF broker, afters, OrdersOK, CountersOK
    <3>3. QED BY <2>2, <3>1, <3>2
  <2>4. /\ try' \in [Runner -> Nat] /\ oid' \in [Runner -> 0..MaxOrders]
        /\ Goto(p, "loop") \/ Goto(p, "place") \/ Goto(p, "record")
    <3>1. /\ try' = try \/ try' = [try EXCEPT ![p] = @ + 1]
          /\ oid' = oid \/ oid' = [oid EXCEPT ![p] = placed']
          /\ Goto(p, "loop") \/ Goto(p, "place") \/ Goto(p, "record")
      BY <1>15 DEF Place
    <3>2. try' \in [Runner -> Nat]
      <4>1. try \in [Runner -> Nat] /\ try[p] + 1 \in Nat
        BY <1>t DEF RunnersOK
      <4>2. QED BY <3>1, <4>1
    <3>3. oid' \in [Runner -> 0..MaxOrders]
      BY <3>1, <2>3, <1>t DEF RunnersOK
    <3>4. QED BY <3>1, <3>2, <3>3
  <2>5. RunnersOK'
    BY <1>15, <2>1, <2>4, <1>t, <1>l, BusyStep DEF Place
  <2>6. KeysOK'
    BY <1>15, <1>t DEF Place, KeysOK, strategy, risk
  <2>7. CountersOK'
    BY <1>15, <2>3, <1>t DEF Place, CountersOK, bounds
  <2>8. QED BY <2>3, <2>5, <2>6, <2>7
<1>16. ASSUME NEW p \in Runner, RecordKey(p) \/ RecordMeta(p) PROVE Goal
  <2>1. RunnersOK'
    BY <1>16, <1>t, <1>l, BusyStep DEF RecordKey, RecordMeta, local, RunnersOK
  <2>2. OrdersOK'
    <3> DEFINE o == oid[p]
    <3>1. PICK y \in { [order[o] EXCEPT !.key = "SUBMITTED"],
                       [order[o] EXCEPT !.key = "FILLED"],
                       [order[o] EXCEPT !.key = "CANCELED",
                        !.state = "canceled"],
                       [order[o] EXCEPT !.meta = TRUE] } :
            order' = [order EXCEPT ![o] = y]
      BY <1>16 DEF RecordKey, RecordMeta
    <3>2. o \in OrderId => order[o] \in Order
      BY <1>t DEF OrdersOK
    <3>3. o \in OrderId => y \in Order /\ y.sig = order[o].sig
      BY <3>1, <3>2, OrderFields
    <3>4. UNCHANGED placed
      BY <1>16 DEF RecordKey, RecordMeta
    <3>5. QED BY <3>1, <3>3, <3>4, <1>t, OrderStep
  <2>3. QED BY <1>16, <2>1, <2>2, <1>k DEF RecordKey, RecordMeta
<1>17. ASSUME NEW p \in Runner, Crash(p) \/ Stop(p) PROVE Goal
  <2>1. RunnersOK'
    BY <1>17, <1>t, IdleStep DEF Crash, Stop
  <2>2. CountersOK'
    BY <1>17, <1>t DEF Crash, Stop, CountersOK, history, afters
  <2>3. QED BY <1>17, <2>1, <2>2, <1>k DEF Crash, Stop
<1>18. ASSUME LockLapses PROVE Goal
  <2>1. RunnersOK'
    BY <1>18, <1>t DEF LockLapses, RunnersOK, local
  <2>2. QED BY <1>18, <2>1, <1>k DEF LockLapses
<1>19. ASSUME NEW s \in Signal, Push(s) PROVE Goal
  <2>1. RunnersOK'
    BY <1>19, <1>t DEF Push, RunnersOK, local
  <2>2. CountersOK'
    BY <1>19, <1>t DEF Push, CountersOK, history, afters
  <2>3. QED BY <1>19, <2>1, <2>2, <1>k DEF Push
<1>20. ASSUME NEW o \in 1..placed, Execute(o) \/ See(o) \/ Close(o) PROVE Goal
  <2>1. OrdersOK'
    <3>1. PICK y \in { [order[o] EXCEPT !.state = "executed"],
                       [order[o] EXCEPT !.seen = TRUE],
                       [order[o] EXCEPT !.key = "FILLED"],
                       [order[o] EXCEPT !.key = "CANCELED",
                        !.state = "canceled"] } :
            order' = [order EXCEPT ![o] = y]
      BY <1>20 DEF Execute, See, Close
    <3>2. o \in OrderId /\ order[o] \in Order
      BY <1>t, ConstType DEF OrdersOK, OrderId
    <3>3. y \in Order /\ y.sig = order[o].sig
      BY <3>1, <3>2, OrderFields
    <3>4. UNCHANGED placed
      BY <1>20 DEF Execute, See, Close
    <3>5. QED BY <3>1, <3>3, <3>4, <1>t, OrderStep
  <2>2. QED BY <1>20, <2>1, <1>k DEF Execute, See, Close
<1>21. ASSUME NEW o \in 1..placed, Book(o) PROVE Goal
  <2>1. OrdersOK' /\ SymOfOrder(o) \in Symbol
    <3> DEFINE y == [order[o] EXCEPT !.state = "booked"]
    <3>1. order' = [order EXCEPT ![o] = y] /\ UNCHANGED placed
      BY <1>21 DEF Book
    <3>2. o \in OrderId /\ order[o] \in Order /\ order[o].sig \in Signal
      BY <1>t, ConstType DEF OrdersOK, OrderId
    <3>3. y \in Order /\ y.sig = order[o].sig
      BY <3>2, OrderFields
    <3>4. OrdersOK'
      BY <3>1, <3>3, <1>t, OrderStep
    <3>5. SymOfOrder(o) \in Symbol
      BY <3>2, ConstType DEF SymOfOrder
    <3>6. QED BY <3>4, <3>5
  <2>2. realized' \in Int /\ moves' \in Nat /\ afterLoss' \in Nat
    BY <1>21, <1>t, MoveStep DEF Book, KeysOK, CountersOK
  <2>3. pos' \subseteq Symbol /\ IsFiniteSet(pos')
    BY <1>21, <1>t, <2>1, FS_AddElement, FS_RemoveElement DEF Book, KeysOK
  <2>4. KeysOK' /\ CountersOK'
    BY <1>21, <1>t, <2>2, <2>3 DEF Book, KeysOK, CountersOK, strategy
  <2>5. QED BY <1>21, <2>1, <2>4, <1>k DEF Book
<1>22. ASSUME NEW s \in Symbol, ClosePosition(s) PROVE Goal
  <2>1. realized' \in Int /\ moves' \in Nat /\ afterLoss' \in Nat
    BY <1>22, MoveStep DEF ClosePosition
  <2>2. pos' \subseteq Symbol /\ IsFiniteSet(pos')
    BY <1>22, <1>t, FS_RemoveElement DEF ClosePosition, KeysOK
  <2>3. KeysOK' /\ CountersOK'
    BY <1>22, <1>t, <2>1, <2>2 DEF ClosePosition, KeysOK, CountersOK, strategy
  <2>4. QED BY <1>22, <2>3, <1>k DEF ClosePosition
<1>23. ASSUME NEW s \in Symbol, CooldownEnds(s) PROVE Goal
  <2>1. KeysOK'
    BY <1>23, <1>t DEF CooldownEnds, KeysOK, risk
  <2>2. QED BY <1>23, <2>1, <1>k DEF CooldownEnds
<1>24. ASSUME Operate \/ Midnight \/ Reset PROVE Goal
  <2>1. /\ count' = count \/ count' = 0
        /\ realized' = realized \/ realized' = 0
        /\ pause' \in {"none", "midnight", pause}
        /\ marketPause' = marketPause \/ marketPause' = ~marketPause
        /\ UNCHANGED <<dedupe, cooldown, idempo, pos>>
    BY <1>24 DEF Operate, Midnight, Reset, strategy
  <2>2. marketPause' \in BOOLEAN
    <3>1. marketPause \in BOOLEAN BY <1>t DEF KeysOK
    <3>2. QED BY <2>1, <3>1, Zenon
  <2>3. KeysOK'
    BY <2>1, <2>2, <1>t, ConstType DEF KeysOK
  <2>4. /\ switches' = switches \/ switches' = switches + 1
        /\ passedToday' = passedToday \/ passedToday' = 0
        /\ afterPause' = afterPause \/ afterPause' = 0
        /\ afterMarket' = afterMarket \/ afterMarket' = 0
        /\ afterLoss' = afterLoss \/ afterLoss' = 0
        /\ UNCHANGED <<pushes, moves, crashes>>
    BY <1>24 DEF Operate, Midnight, Reset, Switch, bounds
  <2>5. dayDone' \in BOOLEAN
    <3>1. dayDone \in BOOLEAN BY <1>t DEF CountersOK
    <3>2. QED BY <1>24, <3>1, Zenon DEF Operate, Midnight, Reset
  <2>6. CountersOK'
    BY <2>4, <2>5, <1>t DEF CountersOK
  <2>7. QED BY <1>24, <2>3, <2>6, <1>k DEF Operate, Midnight, Reset
<1>25. CASE UNCHANGED vars
  BY <1>25, <1>k DEF vars
<1>26. QED
  BY <1>1, <1>2, <1>3, <1>4, <1>5, <1>6, <1>7, <1>8, <1>9, <1>9a, <1>10,
     <1>11, <1>12, <1>13, <1>14, <1>15, <1>16, <1>17, <1>18, <1>19, <1>20, <1>21, <1>22,
       <1>23,
     <1>24, <1>25 DEF Next, Work, Judge

(* The types of every variable, for any number of runners and signals; a   *)
(* runner past BRPOP has a signal, and every order stems from one.         *)
THEOREM TypeCorrect == Spec => []TypeOK
<1>1. Init => TypeOK BY TypeInit
<1>2. TypeOK /\ [Next]_vars => TypeOK' BY TypeNext
<1>3. QED BY <1>1, <1>2, PTL DEF Spec

-----------------------------------------------------------------------------
(* daily_cap.                                                              *)

(* What has passed is in today's count, when the count is not deleted      *)
(* during its day.                                                         *)
CapInv == passedToday <= count

LEMMA CapNext ==
  ASSUME "reset" \notin Weak, TypeOK, CapInv, [Next]_vars
  PROVE  CapInv'
<1>t. count \in Int /\ passedToday \in Int /\ env.dailyCap \in Int
  BY EnvType DEF TypeOK, KeysOK, CountersOK
<1>1. ASSUME NEW p \in Runner, Cap(p) PROVE CapInv'
  BY <1>1, <1>t DEF Cap, CapInv
<1>2. ASSUME Midnight \/ Reset PROVE CapInv'
  BY <1>2, <1>t DEF Midnight, Reset, CapInv
<1>3. CASE UNCHANGED <<count, passedToday>>
  BY <1>3 DEF CapInv
<1>4. \/ \E p \in Runner : Cap(p)
      \/ Midnight \/ Reset
      \/ UNCHANGED <<count, passedToday>>
  BY ZenonT(60) DEF Next, Start, Work, Crash, Stop, LockLapses, Push, Execute, Book, See,
         Close, ClosePosition, CooldownEnds, Operate, Loop, Pop, Judge, Idempo,
         Build, Place, RecordKey, RecordMeta, Dedupe, Cooldown, Mark,
         PauseRule, MarketPauseRule, Held, CountHeld, Scan, Loss, Cash, strategy, history, vars
<1>5. QED BY <1>1, <1>2, <1>3, <1>4

(* StrategyEngine's daily cap holds for every number of runners and however *)
(* they interleave, on the days _reset_daily_cap runs before the signals.  *)
THEOREM CapHolds == Spec => []DailyCapKept
<1> DEFINE Inv == "reset" \notin Weak => CapInv
<1>1. Init => Inv
  BY DEF Init, CapInv
<1>2. TypeOK /\ Inv /\ [Next]_vars => Inv'
  BY CapNext, EnvFixed DEF Weak
<1>3. TypeOK /\ Inv => DailyCapKept
  BY EnvType
     DEF TypeOK, KeysOK, CountersOK, CapInv, WithinDailyCap, DailyCapKept
<1>4. QED BY <1>1, <1>2, <1>3, TypeCorrect, PTL DEF Spec

-----------------------------------------------------------------------------
(* One order for each signal.                                              *)

(* No order is added, and at most one runner moves: to a label at which it *)
(* owns nothing, or on with the signal it owns.                            *)
LEMMA OwnStep ==
  ASSUME SignalInv, pc \in [Runner -> Labels], NEW p \in Runner, NEW label,
         Goto(p, label), UNCHANGED placed, dedupe \subseteq dedupe',
         \A q \in Runner \ {p} : sig'[q] = sig[q],
         \A o \in 1..placed : order'[o].sig = order[o].sig,
         \/ label \in {"down", "loop", "pop", "dedupe"}
         \/ /\ Owns(p) /\ sig'[p] = sig[p]
            /\ pc[p] \in {"record", "meta"} => label \in {"record", "meta"}
  PROVE  SignalInv'
<1> DEFINE Placed(q) == pc[q] \in {"record", "meta"}
<1>1. \A q \in Runner : pc'[q] = IF q = p THEN label ELSE pc[q]
  BY DEF Goto
<1>2. \A q \in Runner : Owns(q)' => /\ Owns(q) /\ sig'[q] = sig[q]
                                    /\ Placed(q) => Placed(q)'
  BY <1>1 DEF Owns
<1>3. \A q \in Runner : Owns(q)' => sig'[q] \in dedupe'
  BY <1>2 DEF SignalInv
<1>4. \A q, r \in Runner : Owns(q)' /\ Owns(r)' /\ q # r => sig'[q] # sig'[r]
  BY <1>2 DEF SignalInv
<1>5. \A o \in 1..placed' : order'[o].sig \in dedupe'
  BY DEF SignalInv
<1>6. \A q \in Runner : Owns(q)' /\ ~Placed(q)' =>
        \A o \in 1..placed' : order'[o].sig # sig'[q]
  BY <1>2 DEF SignalInv
<1>7. OneOrderPerSignal'
  BY DEF SignalInv, OneOrderPerSignal
<1>8. QED BY <1>3, <1>4, <1>5, <1>6, <1>7 DEF SignalInv

(* Nobody moves.                                                           *)
LEMMA OwnStutter ==
  ASSUME SignalInv, UNCHANGED <<pc, sig, placed>>, dedupe \subseteq dedupe',
         \A o \in 1..placed : order'[o].sig = order[o].sig
  PROVE  SignalInv'
  BY DEF SignalInv, Owns, OneOrderPerSignal

(* SET strategy:dedupe NX hands a signal to one runner.                    *)
LEMMA DedupeStep ==
  ASSUME TypeOK, SignalInv, NEW p \in Runner, Dedupe(p)
  PROVE  SignalInv'
<1>t. pc \in [Runner -> Labels]
  BY DEF TypeOK, RunnersOK
<1>1. UNCHANGED <<sig, placed, order>> /\ dedupe' = dedupe \cup {sig[p]}
  BY DEF Dedupe, local, broker
<1>2. CASE sig[p] \in dedupe
  <2>1. Goto(p, "loop")
    BY <1>2 DEF Dedupe, Next_
  <2>2. QED BY <1>t, <1>1, <2>1, OwnStep
<1>3. CASE sig[p] \notin dedupe
  <2>1. Goto(p, "cooldown")
    BY <1>3 DEF Dedupe, Next_
  <2>2. \A q \in Runner \ {p} : /\ Owns(q)' = Owns(q) /\ pc'[q] = pc[q]
                                /\ Owns(q) => sig[q] # sig[p]
    BY <1>t, <1>3, <2>1 DEF Goto, Owns, SignalInv
  <2>3. \A o \in 1..placed : order[o].sig # sig[p]
    BY <1>3 DEF SignalInv
  <2>4. /\ \A q \in Runner : Owns(q)' => sig'[q] \in dedupe'
        /\ \A q, r \in Runner :
             Owns(q)' /\ Owns(r)' /\ q # r => sig'[q] # sig'[r]
    BY <1>1, <2>2 DEF SignalInv
  <2>5. \A q \in Runner : Owns(q)' /\ pc'[q] \notin {"record", "meta"} =>
          \A o \in 1..placed' : order'[o].sig # sig'[q]
    BY <1>1, <2>2, <2>3 DEF SignalInv
  <2>6. (\A o \in 1..placed' : order'[o].sig \in dedupe') /\ OneOrderPerSignal'
    BY <1>1 DEF SignalInv, OneOrderPerSignal
  <2>7. QED BY <2>4, <2>5, <2>6 DEF SignalInv
<1>4. QED BY <1>2, <1>3

(* place_order, with one request: its runner never places again.           *)
LEMMA PlaceStep ==
  ASSUME SentOnce, TypeOK, SignalInv, NEW p \in Runner, Place(p)
  PROVE  SignalInv'
<1>t. /\ pc \in [Runner -> Labels] /\ try \in [Runner -> Nat]
      /\ placed \in Nat /\ order \in [OrderId -> Order]
  BY ConstType DEF TypeOK, RunnersOK, OrdersOK
<1>1. /\ pc[p] = "place" /\ Owns(p) /\ UNCHANGED <<sig, dedupe>>
  BY DEF Place, Owns, strategy
<1>2. /\ Accept(p) \/ UNCHANGED broker
      /\ \/ Goto(p, "record")
         \/ Goto(p, "loop")
  <2>1. try[p] + 1 >= 1
    BY <1>t
  <2>2. ASSUME try' = [try EXCEPT ![p] = @ + 1] PROVE ~(try'[p] < env.attempts)
    BY <1>t, <2>1, <2>2 DEF SentOnce
  <2>3. QED BY <2>2 DEF Place
<1>3. PICK label \in {"record", "loop"} : Goto(p, label)
  BY <1>2
<1>4. CASE UNCHANGED broker
  BY <1>t, <1>1, <1>3, <1>4, OwnStep DEF broker
<1>5. CASE Accept(p)
  <2>0. env.orders \in 0..MaxOrders
    BY EnvType DEF TypeOK, CountersOK
  <2>1. /\ placed' = placed + 1 /\ placed + 1 \in OrderId
        /\ order'[placed + 1].sig = sig[p]
        /\ \A o \in 1..placed : order'[o].sig = order[o].sig
    BY <1>t, <1>5, <2>0, ConstType DEF Accept, OrderId, NoOrder
  <2>2. \A o \in 1..placed' : o \in 1..placed \/ o = placed + 1
    BY <1>t, <2>1
  <2>3. \A q \in Runner : Owns(q)' =>
          Owns(q) /\ (q # p => pc'[q] = pc[q] /\ sig[q] # sig[p])
    BY <1>t, <1>1, <1>3 DEF Goto, Owns, SignalInv
  <2>4. pc'[p] \in {"record", "loop"}
    BY <1>t, <1>3 DEF Goto
  <2>5. /\ \A q \in Runner : Owns(q)' => sig'[q] \in dedupe'
        /\ \A q, r \in Runner :
             Owns(q)' /\ Owns(r)' /\ q # r => sig'[q] # sig'[r]
    BY <1>1, <2>3 DEF SignalInv
  <2>6. \A o \in 1..placed' : order'[o].sig \in dedupe'
    BY <1>1, <2>1, <2>2 DEF SignalInv
  <2>7. \A q \in Runner : Owns(q)' /\ pc'[q] \notin {"record", "meta"} =>
          \A o \in 1..placed' : order'[o].sig # sig'[q]
    <3>1. ASSUME NEW q \in Runner, Owns(q)', pc'[q] \notin {"record", "meta"}
          PROVE  /\ q # p /\ Owns(q) /\ pc[q] \notin {"record", "meta"}
                 /\ sig[q] # sig[p]
      BY <3>1, <2>3, <2>4 DEF Owns
    <3>2. QED BY <1>1, <2>1, <2>2, <3>1 DEF SignalInv
  <2>8. OneOrderPerSignal'
    <3>1. \A o \in 1..placed : order[o].sig # sig[p]
      BY <1>1 DEF SignalInv
    <3>2. QED BY <2>1, <2>2, <3>1 DEF SignalInv, OneOrderPerSignal
  <2>9. QED BY <2>5, <2>6, <2>7, <2>8 DEF SignalInv
<1>6. QED BY <1>2, <1>4, <1>5

LEMMA SignalNext ==
  ASSUME SentOnce, TypeOK, SignalInv, [Next]_vars
  PROVE  SignalInv'
<1>t. pc \in [Runner -> Labels] /\ OrdersOK /\ order \in [OrderId -> Order]
  BY DEF TypeOK, RunnersOK, OrdersOK
<1>1. ASSUME NEW p \in Runner, Start(p) PROVE SignalInv'
  <2>1. CASE lock
    BY <1>1, <2>1, OwnStutter DEF Start, local, strategy, broker
  <2>2. CASE ~lock
    BY <1>1, <2>2, <1>t, OwnStep DEF Start, local, strategy, broker
  <2>3. QED BY <2>1, <2>2
<1>2. ASSUME NEW p \in Runner, Loop(p) PROVE SignalInv'
  BY <1>2, <1>t, NextLabel, OwnStep DEF Loop, local, strategy, broker
<1>3. ASSUME NEW p \in Runner, Pop(p) PROVE SignalInv'
  <2>1. PICK label \in {"loop", "dedupe"} : Goto(p, label)
    BY <1>3, NextLabel DEF Pop
  <2>2. \A q \in Runner \ {p} : sig'[q] = sig[q]
    <3>1. sig \in [Runner -> Signal \cup {0}]
      BY DEF TypeOK, RunnersOK
    <3>2. QED BY <1>3, <3>1 DEF Pop
  <2>3. QED BY <1>3, <1>t, <2>1, <2>2, OwnStep DEF Pop, strategy, broker
<1>4. ASSUME NEW p \in Runner, Dedupe(p) PROVE SignalInv'
  BY <1>4, DedupeStep
<1>5. ASSUME NEW p \in Runner, Place(p) PROVE SignalInv'
  BY <1>5, PlaceStep
<1>6. ASSUME NEW p \in Runner,
             \/ Cooldown(p) \/ Cap(p) \/ Mark(p) \/ PauseRule(p)
                \/ MarketPauseRule(p) \/ Held(p) \/ CountHeld(p) \/ Scan(p)
             \/ Loss(p) \/ Cash(p) \/ Idempo(p) \/ Build(p)
      PROVE  SignalInv'
  <2>1. /\ Owns(p) /\ pc[p] \notin {"record", "meta"}
        /\ UNCHANGED <<sig, dedupe, order, placed>>
    BY <1>6
       DEF Cooldown, Cap, Mark, PauseRule, MarketPauseRule, Held, CountHeld, Scan, Loss, Cash, Idempo,
           Build, Owns, local, strategy, broker
  <2>2. PICK label : Goto(p, label)
    BY <1>6
       DEF Cooldown, Cap, Mark, PauseRule, MarketPauseRule, Held, CountHeld, Scan, Loss, Cash, Idempo,
           Build, Next_
  <2>3. QED BY <1>t, <2>1, <2>2, OwnStep
<1>7. ASSUME NEW p \in Runner, RecordKey(p) \/ RecordMeta(p) PROVE SignalInv'
  <2>1. PICK label \in {"meta", "loop"} : Goto(p, label)
    BY <1>7 DEF RecordKey, RecordMeta
  <2>2. Owns(p) /\ UNCHANGED <<sig, dedupe, placed>>
    BY <1>7 DEF RecordKey, RecordMeta, Owns, local, strategy
  <2>3. \A o \in 1..placed : order'[o].sig = order[o].sig
    <3>1. ASSUME NEW q \in 1..placed PROVE q \in OrderId
      BY <1>t, <3>1, ConstType DEF OrderId, OrdersOK
    <3>2. \/ order' = [order EXCEPT ![oid[p]].key = "SUBMITTED"]
          \/ order' = [order EXCEPT ![oid[p]].key = "FILLED"]
          \/ order' = [order EXCEPT ![oid[p]].key = "CANCELED",
                       ![oid[p]].state = "canceled"]
          \/ order' = [order EXCEPT ![oid[p]].meta = TRUE]
      BY <1>7 DEF RecordKey, RecordMeta
    <3>3. \A q \in OrderId : order'[q].sig = order[q].sig
      BY <3>2, <1>t DEF Order
    <3>4. QED BY <3>1, <3>3
  <2>4. QED BY <1>t, <2>1, <2>2, <2>3, OwnStep
<1>8. ASSUME NEW p \in Runner, Crash(p) \/ Stop(p) PROVE SignalInv'
  BY <1>8, <1>t, OwnStep DEF Crash, Stop, local, strategy, broker
<1>9. ASSUME NEW o \in 1..placed, Execute(o) \/ Book(o) \/ See(o) \/ Close(o)
      PROVE  SignalInv'
  <2>1. \A q \in 1..placed : order'[q].sig = order[q].sig
    <3>1. PICK y \in { [order[o] EXCEPT !.state = "executed"],
                       [order[o] EXCEPT !.state = "booked"],
                       [order[o] EXCEPT !.seen = TRUE],
                       [order[o] EXCEPT !.key = "FILLED"],
                       [order[o] EXCEPT !.key = "CANCELED",
                        !.state = "canceled"] } :
            order' = [order EXCEPT ![o] = y]
      BY <1>9 DEF Execute, Book, See, Close
    <3>2. 1..placed \subseteq OrderId /\ order[o] \in Order
      BY <1>t, ConstType DEF OrderId, OrdersOK
    <3>3. y.sig = order[o].sig
      BY <3>1, <3>2, OrderFields
    <3>4. QED BY <3>1, <3>2, <3>3, <1>t
  <2>2. UNCHANGED <<pc, sig, placed, dedupe>>
    BY <1>9 DEF Execute, Book, See, Close, local, strategy
  <2>3. QED BY <2>1, <2>2, OwnStutter
<1>10. CASE UNCHANGED <<pc, sig, placed, dedupe, order>>
  BY <1>10, OwnStutter
<1>11. ASSUME \/ LockLapses \/ (\E s \in Signal : Push(s))
              \/ (\E s \in Symbol : ClosePosition(s) \/ CooldownEnds(s))
              \/ Operate \/ Midnight \/ Reset \/ UNCHANGED vars
       PROVE  SignalInv'
  BY <1>10, <1>11
     DEF LockLapses, Push, ClosePosition, CooldownEnds, Operate, Midnight,
         Reset, vars, local, strategy, broker
<1>12. QED
  BY <1>1, <1>2, <1>3, <1>4, <1>5, <1>6, <1>7, <1>8, <1>9, <1>11
     DEF Next, Work, Judge

(* services/order/state_machine.md's "no duplicate orders", for US and     *)
(* COIN, whose place_order sends one request: any number of runners,       *)
(* duplicates of the signal, kills, lapses of the lock and lost answers.   *)
THEOREM NoDuplicateOrders == Spec => []SignalOrderedOnce
<1> DEFINE Inv == SentOnce => SignalInv
<1>1. Init => Inv
  BY DEF Init, SignalInv, Owns, OneOrderPerSignal
<1>2. TypeOK /\ Inv /\ [Next]_vars => Inv'
  BY SignalNext, EnvFixed DEF SentOnce
<1>3. Inv => SignalOrderedOnce
  BY DEF SignalInv, SignalOrderedOnce
<1>4. QED BY <1>1, <1>2, <1>3, TypeCorrect, PTL DEF Spec

-----------------------------------------------------------------------------
(* Lemmas for what the pause, the cooldown and rules 1 to 3 promise: where *)
(* a step can take a runner, an order and a position.                      *)

(* Only its own steps move a runner.                                       *)
LEMMA OtherRunner ==
  ASSUME TypeOK, [Next]_vars, NEW q \in Runner,
         ~Start(q), ~Work(q), ~Crash(q), ~Stop(q)
  PROVE  /\ pc'[q] = pc[q] /\ sig'[q] = sig[q] /\ open'[q] = open[q]
         /\ oid'[q] = oid[q]
<1>t. pc \in [Runner -> Labels] /\ sig \in [Runner -> Signal \cup {0}]
      /\ open \in [Runner -> Nat] /\ oid \in [Runner -> 0..MaxOrders]
  BY DEF TypeOK, RunnersOK
<1>1. ASSUME NEW p \in Runner, Work(p)
      PROVE  /\ pc'[q] = pc[q] /\ sig'[q] = sig[q]
             /\ open'[q] = open[q] /\ oid'[q] = oid[q]
  <2>1. p # q
    BY <1>1
  <2>2. CASE Loop(p) \/ Judge(p)
    <3>1. PICK label : Goto(p, label)
      BY <2>2
         DEF Loop, Judge, Dedupe, Cooldown, Cap, Mark, PauseRule, MarketPauseRule, Held, CountHeld, Scan,
             Loss, Cash, Next_
    <3>2. /\ UNCHANGED <<sig, oid>>
          /\ (open' = open \/ open' = [open EXCEPT ![p] = Cardinality(pos)])
      BY <2>2
         DEF Loop, Judge, Dedupe, Cooldown, Cap, Mark, PauseRule, MarketPauseRule, Held, CountHeld, Scan,
             Loss, Cash, local
    <3>3. QED BY <1>t, <2>1, <3>1, <3>2 DEF Goto
  <2>3. CASE Pop(p)
    <3>1. PICK label : Goto(p, label)
      BY <2>3 DEF Pop, Next_
    <3>2. /\ UNCHANGED <<open, oid>>
          /\ (sig' = sig \/ sig' = [sig EXCEPT ![p] = Head(queue)])
      BY <2>3 DEF Pop
    <3>3. QED BY <1>t, <2>1, <3>1, <3>2 DEF Goto
  <2>4. CASE Idempo(p) \/ Build(p) \/ Place(p) \/ RecordKey(p) \/ RecordMeta(p)
    <3>1. PICK label : Goto(p, label)
      BY <2>4 DEF Idempo, Build, Place, RecordKey, RecordMeta, Next_
    <3>2. /\ UNCHANGED <<sig, open>>
          /\ (oid' = oid \/ oid' = [oid EXCEPT ![p] = placed'])
      BY <2>4 DEF Idempo, Build, Place, RecordKey, RecordMeta, local
    <3>3. QED BY <1>t, <2>1, <3>1, <3>2 DEF Goto
  <2>5. QED BY <1>1, <2>2, <2>3, <2>4 DEF Work
<1>2. ASSUME NEW p \in Runner, Start(p) \/ Crash(p) \/ Stop(p)
      PROVE  /\ pc'[q] = pc[q] /\ sig'[q] = sig[q]
             /\ open'[q] = open[q] /\ oid'[q] = oid[q]
  BY <1>t, <1>2 DEF Start, Crash, Stop, Goto, local
<1>3. CASE UNCHANGED <<pc, local>>
  BY <1>3 DEF local
<1>4. QED
  BY <1>1, <1>2, <1>3
     DEF Next, LockLapses, Push, Execute, Book, See, Close, ClosePosition,
         CooldownEnds, Operate, Midnight, Reset, vars

Stays(q) == pc'[q] = pc[q] /\ sig'[q] = sig[q]
To(q, from, label) == pc[q] = from /\ pc'[q] = label /\ sig'[q] = sig[q]

(* The runner's way from one command to the next, and what each requires.  *)
Way(q) ==
  \/ Stays(q)
  \/ pc'[q] \in {"down", "loop", "pop", "dedupe"}
  \/ To(q, "dedupe", "cooldown")
  \/ To(q, "cooldown", "cap") /\ Sym(q) \notin cooldown
  \/ To(q, "cap", "mark")
  \/ To(q, "mark", "pause") /\ Mark(q)
  \/ To(q, "pause", "market") /\ pause = "none"
  \/ To(q, "market", "held") /\ (IsLong(q) => ~marketPause)
  \/ To(q, "held", "count") /\ Held(q) /\ (IsLong(q) => Sym(q) \notin pos)
  \/ To(q, "count", "scan") /\ CountHeld(q)
  \/ To(q, "scan", "loss") /\ Scan(q)
       /\ (IsLong(q) => open[q] + Cardinality(PendingBuys) < env.maxPos)
  \/ To(q, "loss", "cash") /\ ~AtLimit
  \/ To(q, "cash", "idempo") \/ To(q, "idempo", "build")
     \/ To(q, "build", "place")
  \/ To(q, "place", "record") /\ Place(q) /\ Accept(q) /\ oid'[q] = placed'
  \/ To(q, "record", "meta") /\ RecordKey(q)

LEMMA Ways ==
  ASSUME TypeOK, [Next]_vars, NEW q \in Runner
  PROVE  Way(q)
<1>t. pc \in [Runner -> Labels] /\ sig \in [Runner -> Signal \cup {0}]
      /\ open \in [Runner -> Nat] /\ oid \in [Runner -> 0..MaxOrders]
  BY DEF TypeOK, RunnersOK
<1>g. \A label : Goto(q, label) => pc'[q] = label
  BY <1>t DEF Goto
<1>n. \A ok, label : Next_(q, ok, label) => pc'[q] = "loop"
      \/ (ok /\ pc'[q] = label)
  BY <1>g DEF Next_
<1>1. CASE Start(q) \/ Crash(q) \/ Stop(q) \/ Loop(q)
  BY <1>1, <1>g, <1>n DEF Start, Crash, Stop, Loop, Way, Stays, local
<1>2. CASE Pop(q)
  BY <1>2, <1>g, <1>n DEF Pop, Way
<1>3. CASE Dedupe(q) \/ Cooldown(q)
  BY <1>3, <1>n DEF Dedupe, Cooldown, Way, To, local
<1>4. CASE Cap(q) \/ Mark(q)
  BY <1>4, <1>g DEF Cap, Mark, Way, To, local
<1>5. CASE PauseRule(q) \/ MarketPauseRule(q)
  BY <1>5, <1>n DEF PauseRule, MarketPauseRule, Way, To, local
<1>6. CASE Held(q) \/ CountHeld(q)
  <2>1. sig' = sig
    BY <1>6 DEF Held, CountHeld, local
  <2>2. CASE Held(q)
    <3>1. \/ pc'[q] = "loop"
          \/ pc'[q] = "count" /\ (IsLong(q) => Sym(q) \notin pos)
      BY <2>2, <1>n DEF Held
    <3>2. QED BY <2>1, <2>2, <3>1 DEF Way, To, Held
  <2>3. CASE CountHeld(q)
    BY <2>1, <2>3, <1>g DEF CountHeld, Way, To
  <2>4. QED BY <1>6, <2>2, <2>3
<1>7. CASE Scan(q)
  <2>1. pc[q] = "scan" /\ sig' = sig
    BY <1>7 DEF Scan, local
  <2>2. \/ pc'[q] = "loop"
        \/ /\ pc'[q] = "loss"
           /\ IsLong(q) => open[q] + Cardinality(PendingBuys) < env.maxPos
    BY <1>7, <1>n DEF Scan
  <2>3. QED BY <1>7, <2>1, <2>2 DEF Way, To
<1>8. CASE Loss(q)
  BY <1>8, <1>g DEF Loss, Way, To, local, AtLimit
<1>9. CASE Cash(q) \/ Idempo(q) \/ Build(q)
  BY <1>9, <1>g, <1>n DEF Cash, Idempo, Build, Way, To, local
<1>10. CASE Place(q)
  <2>1. pc[q] = "place" /\ sig' = sig
    BY <1>10 DEF Place
  <2>2. \/ pc'[q] \in {"place", "loop"}
        \/ pc'[q] = "record" /\ Accept(q) /\ oid' = [oid EXCEPT ![q] = placed']
    BY <1>10, <1>g DEF Place
  <2>3. QED BY <1>10, <1>t, <2>1, <2>2 DEF Way, To, Stays
<1>11. CASE RecordKey(q) \/ RecordMeta(q)
  BY <1>11, <1>g DEF RecordKey, RecordMeta, Way, To, local
<1>12. CASE ~Start(q) /\ ~Work(q) /\ ~Crash(q) /\ ~Stop(q)
  BY <1>12, OtherRunner DEF Way, Stays
<1>13. QED
  BY <1>1, <1>2, <1>3, <1>4, <1>5, <1>6, <1>7, <1>8, <1>9, <1>10, <1>11, <1>12
     DEF Work, Judge

(* An order keeps its signal and its side; a BUY that is no longer         *)
(* outstanding never is again.                                             *)
LEMMA OrdersKeep ==
  ASSUME TypeOK, [Next]_vars, placed' = placed
  PROVE  /\ \A o \in 1..placed : /\ SymOfOrder(o)' = SymOfOrder(o)
                                 /\ order'[o].buy = order[o].buy
         /\ Outstanding' \subseteq Outstanding
<1>t. /\ order \in [OrderId -> Order] /\ placed \in Nat
      /\ 1..placed \subseteq OrderId
  BY ConstType DEF TypeOK, OrdersOK, OrderId
<1>e. SymOf' = SymOf
  BY EnvFixed DEF SymOf
<1>1. ASSUME \A o \in 1..placed : /\ order'[o].sig = order[o].sig
                                  /\ order'[o].buy = order[o].buy
                                  /\ order'[o].state \in {"working",
                                                          "executed"} =>
                                       order[o].state \in {"working",
                                                           "executed"}
      PROVE  /\ \A o \in 1..placed : /\ SymOfOrder(o)' = SymOfOrder(o)
                                     /\ order'[o].buy = order[o].buy
             /\ Outstanding' \subseteq Outstanding
  BY <1>1, <1>e DEF SymOfOrder, Outstanding
<1>2. ASSUME NEW o \in OrderId \cup {0},
             \/ order' = [order EXCEPT ![o].key = "SUBMITTED"]
             \/ order' = [order EXCEPT ![o].meta = TRUE]
             \/ order' = [order EXCEPT ![o].seen = TRUE]
             \/ order' = [order EXCEPT ![o].key = "FILLED"]
             \/ /\ order' = [order EXCEPT ![o].state = "executed"]
                /\ order[o].state = "working"
             \/ order' = [order EXCEPT ![o].state = "booked"]
             \/ order' = [order EXCEPT ![o].key = "CANCELED",
                          ![o].state = "canceled"]
      PROVE  \A q \in 1..placed :
               /\ order'[q].sig = order[q].sig
               /\ order'[q].buy = order[q].buy
               /\ order'[q].state \in {"working", "executed"}
                    => order[q].state \in {"working", "executed"}
  BY <1>2, <1>t DEF Order
<1>3. ASSUME NEW p \in Runner, Work(p), order' # order
      PROVE  \E o \in OrderId \cup {0} :
               \/ order' = [order EXCEPT ![o].key = "SUBMITTED"]
               \/ order' = [order EXCEPT ![o].key = "FILLED"]
               \/ order' = [order EXCEPT ![o].key = "CANCELED",
                            ![o].state = "canceled"]
               \/ order' = [order EXCEPT ![o].meta = TRUE]
  <2>1. oid[p] \in OrderId \cup {0}
    BY ConstType DEF TypeOK, RunnersOK, OrderId
  <2>2. RecordKey(p) \/ RecordMeta(p) \/ Place(p)
    BY <1>3
       DEF Work, Loop, Pop, Judge, Dedupe, Cooldown, Cap, Mark, PauseRule, MarketPauseRule,
           Held, CountHeld, Scan, Loss, Cash, Idempo, Build, broker
  <2>3. ~Accept(p)
    BY <1>t DEF Accept
  <2>4. ~Place(p)
    BY <1>3, <2>3 DEF Place, broker
  <2>5. QED BY <2>1, <2>2, <2>4 DEF RecordKey, RecordMeta
<1>4. CASE order' = order
  BY <1>4, <1>1
<1>5. ASSUME NEW o \in 1..placed, Execute(o) \/ Book(o) \/ See(o) \/ Close(o)
      PROVE  /\ o \in OrderId \cup {0}
             /\ \/ order' = [order EXCEPT ![o].seen = TRUE]
                \/ order' = [order EXCEPT ![o].key = "FILLED"]
                \/ /\ order' = [order EXCEPT ![o].state = "executed"]
                   /\ order[o].state = "working"
                \/ order' = [order EXCEPT ![o].state = "booked"]
                \/ order' = [order EXCEPT ![o].key = "CANCELED",
                             ![o].state = "canceled"]
  BY <1>5, <1>t DEF Execute, Book, See, Close
<1>6. \/ order' = order
      \/ \E p \in Runner : Work(p)
      \/ \E o \in 1..placed : Execute(o) \/ Book(o) \/ See(o) \/ Close(o)
  BY DEF Next, Start, Crash, Stop, LockLapses, Push, ClosePosition,
         CooldownEnds, Operate, Midnight, Reset, vars, broker
<1>7. QED
  <2>1. CASE \E p \in Runner : Work(p) /\ order' # order
    BY <2>1, <1>1, <1>2, <1>3
  <2>2. CASE \E o \in 1..placed : Execute(o) \/ Book(o) \/ See(o) \/ Close(o)
    BY <2>2, <1>1, <1>2, <1>5
  <2>3. QED BY <1>4, <1>6, <2>1, <2>2

(* The broker takes an order of the runner that placed it.                 *)
LEMMA OrderTaken ==
  ASSUME TypeOK, NEW p \in Runner, Place(p), Accept(p)
  PROVE  /\ placed \in Nat /\ placed' = placed + 1 /\ placed + 1 \in OrderId
         /\ \A o \in 1..placed :
              order'[o] = order[o] /\ SymOfOrder(o)' = SymOfOrder(o)
         /\ Outstanding' = Outstanding \cup
                              (IF IsLong(p) THEN {placed + 1} ELSE {})
         /\ \A n : n = placed + 1 => SymOfOrder(n)' = Sym(p)
         /\ UNCHANGED <<pos, cooldown, sig, pause, marketPause, realized>>
<1>t. /\ order \in [OrderId -> Order] /\ placed \in Nat
      /\ 1..placed \subseteq OrderId
      /\ env.orders \in 0..MaxOrders
  BY ConstType, EnvType DEF TypeOK, OrdersOK, OrderId, CountersOK
<1> DEFINE new == [NoOrder EXCEPT !.sig = sig[p], !.buy = IsLong(p),
                   !.state = "working"]
<1>1. placed' = placed + 1 /\ placed + 1 \in OrderId
      /\ order' = [order EXCEPT ![placed + 1] = new]
  BY <1>t, ConstType DEF Accept, OrderId
<1>2. order'[placed + 1] = new /\ \A o \in 1..placed : order'[o] = order[o]
  BY <1>t, <1>1
<1>3. new.sig = sig[p] /\ new.state = "working" /\ (new.buy <=> IsLong(p))
  <2>1. IsLong(p) \in BOOLEAN BY DEF IsLong
  <2>2. QED BY <2>1 DEF NoOrder
<1>4. SymOf' = SymOf
  BY DEF Place, SymOf
<1>5. \A o \in 1..placed : SymOfOrder(o)' = SymOfOrder(o)
  BY <1>2, <1>4 DEF SymOfOrder
<1>6. \A n : n = placed + 1 => SymOfOrder(n)' = Sym(p)
  BY <1>2, <1>3, <1>4 DEF SymOfOrder, Sym
<1>7. Outstanding' = Outstanding \cup (IF IsLong(p) THEN {placed + 1} ELSE {})
  <2>1. 1..placed' = 1..placed \cup {placed + 1} /\ placed + 1 \notin 1..placed
    BY <1>t, <1>1
  <2>2. QED BY <1>2, <1>3, <2>1 DEF Outstanding
<1>8. QED
  BY <1>1, <1>2, <1>5, <1>6, <1>7, <1>t DEF Place, strategy, risk

(* A position opens by the booking of an outstanding BUY.                  *)
LEMMA PositionsKeep ==
  ASSUME TypeOK, [Next]_vars, NEW s \in pos', s \notin pos
  PROVE  \E o \in Outstanding \ Outstanding' : SymOfOrder(o) = s
<1>t. order \in [OrderId -> Order] /\ 1..placed \subseteq OrderId
  BY ConstType DEF TypeOK, OrdersOK, OrderId
<1>1. PICK o \in 1..placed : Book(o)
  BY DEF Next, Start, Work, Crash, Stop, LockLapses, Push, Execute, See, Close,
         ClosePosition, CooldownEnds, Operate, Midnight, Reset, Loop, Pop,
         Judge, Idempo, Build, Place, RecordKey, RecordMeta, Dedupe, Cooldown,
         Cap, Mark, PauseRule, MarketPauseRule, Held, CountHeld, Scan, Loss, Cash, vars, risk
<1>2. order[o].buy /\ SymOfOrder(o) = s /\ order[o].state = "executed"
  BY <1>1 DEF Book
<1>3. order'[o].state = "booked"
  BY <1>t, <1>1 DEF Book, Order
<1>4. o \in Outstanding /\ o \notin Outstanding'
  BY <1>2, <1>3 DEF Outstanding
<1>5. QED BY <1>2, <1>4

-----------------------------------------------------------------------------
(* Rule 1 and the cooldown.                                                *)

(* The lock keeps a second runner out, unless it lapses under the first.   *)
Mutex ==
  /\ \A p, q \in Runner : pc[p] # "down" /\ pc[q] # "down" => p = q
  /\ (\E p \in Runner : pc[p] # "down") => lock

LEMMA MutexNext ==
  ASSUME TypeOK, "slow_loop" \notin Weak, Mutex, [Next]_vars
  PROVE  Mutex'
<1>t. pc \in [Runner -> Labels]
  BY DEF TypeOK, RunnersOK
<1>1. CASE \E p \in Runner : Start(p) /\ ~lock
  BY <1>1, <1>t DEF Start, Goto, Mutex
<1>2. ASSUME \A p \in Runner : Start(p) => lock
      PROVE  \A q \in Runner : pc'[q] # "down" => pc[q] # "down"
  <2>1. ASSUME NEW q \in Runner, pc[q] = "down" PROVE pc'[q] = "down"
    <3>1. ~Work(q) /\ ~Crash(q) /\ ~Stop(q)
      BY <2>1
         DEF Work, Loop, Pop, Judge, Idempo, Build, Place, RecordKey,
             RecordMeta, Dedupe, Cooldown, Cap, Mark, PauseRule, MarketPauseRule, Held, CountHeld, Scan,
             Loss, Cash, Crash, Stop
    <3>2. Start(q) => pc' = pc
      BY <1>2 DEF Start
    <3>3. QED BY <2>1, <3>1, <3>2, OtherRunner
  <2>2. QED BY <2>1
<1>3. CASE \E p \in Runner : Stop(p)
  BY <1>3, <1>t DEF Stop, Goto, Mutex
<1>4. CASE LockLapses
  BY <1>4 DEF LockLapses, Mutex, Weak
<1>5. CASE UNCHANGED lock
  <2>1. CASE \E p \in Runner : Start(p) /\ ~lock
    BY <2>1, <1>1
  <2>2. CASE \A p \in Runner : Start(p) => lock
    BY <1>5, <1>2, <2>2 DEF Mutex
  <2>3. QED BY <2>1, <2>2
<1>6. \/ \E p \in Runner : (Start(p) /\ ~lock) \/ Stop(p)
      \/ LockLapses \/ UNCHANGED lock
  BY DEF Next, Start, Work, Crash, Push, Execute, Book, See, Close,
         ClosePosition, CooldownEnds, Operate, Midnight, Reset, Loop, Pop,
         Judge, Idempo, Build, Place, RecordKey, RecordMeta, Dedupe, Cooldown,
         Cap, Mark, PauseRule, MarketPauseRule, Held, CountHeld, Scan, Loss, Cash, vars
<1>7. QED BY <1>1, <1>3, <1>4, <1>5, <1>6

(* Past the cooldown check no BUY of the symbol is outstanding, past rule  *)
(* 1 it is not held, and past _set_cooldown its cooldown runs.             *)
Cleared == {"count", "scan", "loss", "cash", "idempo", "build", "place"}
Judging == {"cap", "mark", "pause", "market", "held"} \cup Cleared
Marked == {"pause", "market", "held", "record", "meta"} \cup Cleared
BuyInv ==
  /\ Mutex
  /\ \A o \in Outstanding :
       SymOfOrder(o) \in cooldown /\ SymOfOrder(o) \notin pos
  /\ \A o1, o2 \in Outstanding : SymOfOrder(o1) = SymOfOrder(o2) => o1 = o2
  /\ \A p \in Runner :
       /\ pc[p] \in Marked => Sym(p) \in cooldown
       /\ pc[p] \in Judging => \A o \in Outstanding : SymOfOrder(o) # Sym(p)
       /\ pc[p] \in Cleared /\ IsLong(p) => Sym(p) \notin pos
Cooled == Weak \cap {"slow_loop", "short_cooldown"} = {} /\ SentOnce

(* A cooldown ends when no BUY and no signal at hand need it any more.     *)
LEMMA CooldownKeeps ==
  ASSUME TypeOK, "short_cooldown" \notin Weak, [Next]_vars, NEW s \in cooldown,
         s \notin cooldown'
  PROVE  /\ \A o \in Outstanding : SymOfOrder(o) # s
         /\ \A p \in Runner : pc[p] \notin {"down", "loop", "pop"}
            => Sym(p) # s
<1>1. PICK r \in Symbol : CooldownEnds(r)
  BY ZenonT(60) DEF Next, Start, Work, Crash, Stop, LockLapses, Push, Execute, Book, See,
     Close, ClosePosition, Operate, Midnight, Reset, Loop, Pop, Judge,
     Idempo, Build, Place, RecordKey, RecordMeta, Dedupe, Cooldown, Cap, Mark,
     PauseRule, MarketPauseRule, Held, CountHeld, Scan, Loss, Cash, vars, strategy
<1>2. r = s
  BY <1>1 DEF CooldownEnds
<1>3. QED BY <1>1, <1>2 DEF CooldownEnds, Weak

(* With one request an order is never followed by another of its signal.   *)
LEMMA PlacedOnce ==
  ASSUME TypeOK, SentOnce, NEW p \in Runner, Place(p)
  PROVE  pc[p] = "place" /\ pc'[p] \in {"record", "loop"}
<1>t. pc \in [Runner -> Labels] /\ try \in [Runner -> Nat]
  BY DEF TypeOK, RunnersOK
<1>1. try[p] + 1 >= 1
  BY <1>t
<1>2. ASSUME try' = [try EXCEPT ![p] = @ + 1] PROVE ~(try'[p] < env.attempts)
  BY <1>t, <1>1, <1>2 DEF SentOnce
<1>3. Goto(p, "record") \/ Goto(p, "loop")
  BY <1>2 DEF Place
<1>4. QED BY <1>t, <1>3 DEF Place, Goto

LEMMA BuyNext ==
  ASSUME TypeOK, Cooled, BuyInv, [Next]_vars
  PROVE  BuyInv'
<1>m. Mutex /\ Mutex'
  BY MutexNext DEF BuyInv, Cooled
<1>e. SymOf' = SymOf
  BY EnvFixed DEF SymOf
<1>s. \A q \in Runner : sig'[q] = sig[q] => Sym(q)' = Sym(q)
      /\ (IsLong(q)' <=> IsLong(q))
  BY <1>e DEF Sym, IsLong
<1>d. /\ "down" \notin Judging \cup Marked /\ "loop" \notin Judging \cup Marked
      /\ "pop" \notin Judging \cup Marked
      /\ "dedupe" \notin Judging \cup Marked
      /\ Cleared \subseteq Judging /\ "record" \notin Judging
      /\ "place" \in Cleared \cap Marked
  BY DEF Judging, Marked, Cleared
<1>1. CASE placed' = placed
  <2>1. /\ \A o \in 1..placed : SymOfOrder(o)' = SymOfOrder(o)
        /\ Outstanding' \subseteq Outstanding
        /\ Outstanding \subseteq 1..placed
    BY <1>1, OrdersKeep DEF Outstanding
  <2>2. ASSUME NEW o \in Outstanding'
        PROVE SymOfOrder(o)' \in cooldown' /\ SymOfOrder(o)' \notin pos'
    <3>1. o \in Outstanding /\ SymOfOrder(o)' = SymOfOrder(o)
      BY <2>1, <2>2
    <3>2. SymOfOrder(o) \in cooldown'
      BY <3>1, CooldownKeeps DEF BuyInv, Cooled
    <3>3. SymOfOrder(o) \notin pos'
      BY <3>1, <2>2, PositionsKeep DEF BuyInv
    <3>4. QED BY <3>1, <3>2, <3>3
  <2>3. ASSUME NEW q \in Runner
        PROVE  /\ pc'[q] \in Marked => Sym(q)' \in cooldown'
               /\ pc'[q] \in Judging
                  => \A o \in Outstanding' : SymOfOrder(o)' # Sym(q)'
               /\ pc'[q] \in Cleared /\ IsLong(q)' => Sym(q)' \notin pos'
    <3>w. Way(q) /\ ~(Place(q) /\ Accept(q))
      <4>1. placed \in Nat
        BY ConstType DEF TypeOK, OrdersOK
      <4>2. QED BY <1>1, <4>1, Ways DEF Accept
    <3>1. ASSUME pc'[q] \in Marked PROVE Sym(q)' \in cooldown'
      <4>1. sig'[q] = sig[q] /\ (pc[q] \in Marked \/ Mark(q))
        BY <3>w, <3>1 DEF Way, To, Stays, Marked, Cleared
      <4>2. CASE pc[q] \in Marked
        BY <4>1, <4>2, <1>s, <1>d, CooldownKeeps DEF BuyInv, Cooled
      <4>3. CASE Mark(q)
        BY <4>1, <4>3, <1>s DEF Mark
      <4>4. QED BY <4>1, <4>2, <4>3
    <3>2. ASSUME pc'[q] \in Judging
          PROVE  \A o \in Outstanding' : SymOfOrder(o)' # Sym(q)'
      <4>1. sig'[q] = sig[q] /\ (pc[q] \in Judging \/ Sym(q) \notin cooldown)
        BY <3>w, <3>2 DEF Way, To, Stays, Judging, Cleared
      <4>2. \A o \in Outstanding : SymOfOrder(o) # Sym(q)
        BY <4>1 DEF BuyInv
      <4>3. QED BY <4>1, <4>2, <2>1, <1>s
    <3>3. ASSUME pc'[q] \in Cleared, IsLong(q)' PROVE Sym(q)' \notin pos'
      <4>1. /\ sig'[q] = sig[q]
            /\ \/ pc[q] \in Cleared
               \/ Held(q) /\ pc[q] = "held" /\ (IsLong(q) => Sym(q) \notin pos)
        BY <3>w, <3>3 DEF Way, To, Stays, Cleared
      <4>2. IsLong(q) /\ Sym(q)' = Sym(q)
        BY <4>1, <3>3, <1>s
      <4>3. Sym(q) \notin pos /\ pc[q] \in Judging
        BY <4>1, <4>2, <1>d DEF BuyInv, Judging
      <4>4. \A o \in Outstanding : SymOfOrder(o) # Sym(q)
        BY <4>3 DEF BuyInv
      <4>5. QED BY <4>2, <4>3, <4>4, PositionsKeep
    <3>4. QED BY <3>1, <3>2, <3>3
  <2>4. \A o1, o2 \in Outstanding' : SymOfOrder(o1)' = SymOfOrder(o2)'
        => o1 = o2
    BY <2>1 DEF BuyInv
  <2>5. QED BY <1>m, <2>2, <2>3, <2>4 DEF BuyInv
<1>2. CASE placed' # placed
  <2>1. PICK p \in Runner : Place(p) /\ Accept(p)
    BY <1>2, ZenonT(60)
       DEF Next, Start, Work, Crash, Stop, LockLapses, Push, Execute, Book,
           See, Close, ClosePosition, CooldownEnds, Operate, Midnight, Reset,
           Loop, Pop, Judge, Idempo, Build, Place, RecordKey, RecordMeta,
           Dedupe, Cooldown, Cap, Mark, PauseRule, MarketPauseRule, Held, CountHeld, Scan, Loss, Cash,
           vars, broker
  <2>2. pc[p] = "place" /\ pc'[p] \in {"record", "loop"}
    BY <2>1, PlacedOnce DEF Cooled
  <2>3. \A q \in Runner \ {p} : pc[q] = "down" /\ pc'[q] = "down"
    <3>1. \A q \in Runner \ {p} : pc[q] = "down"
      BY <2>2, <1>m DEF Mutex
    <3>2. \A q \in Runner \ {p} : pc'[q] = pc[q]
      BY <2>1 DEF Place, Goto, TypeOK, RunnersOK
    <3>3. QED BY <3>1, <3>2
  <2>4. /\ \A o \in Outstanding : SymOfOrder(o)' = SymOfOrder(o)
        /\ Outstanding' = Outstanding \cup (IF IsLong(p) THEN {placed + 1} ELSE {})
        /\ \A n : n = placed + 1 => SymOfOrder(n)' = Sym(p)
        /\ UNCHANGED <<pos, cooldown, sig>>
    BY <2>1, OrderTaken DEF Outstanding
  <2>5. /\ Sym(p) \in cooldown /\ (IsLong(p) => Sym(p) \notin pos)
        /\ \A o \in Outstanding : SymOfOrder(o) # Sym(p)
    BY <2>2, <1>d DEF BuyInv
  <2>6. \A o \in Outstanding' : SymOfOrder(o)' \in cooldown'
        /\ SymOfOrder(o)' \notin pos'
    BY <2>4, <2>5 DEF BuyInv
  <2>7. \A o1, o2 \in Outstanding' : SymOfOrder(o1)' = SymOfOrder(o2)'
        => o1 = o2
    BY <2>4, <2>5 DEF BuyInv
  <2>8. \A q \in Runner : /\ pc'[q] \in Marked => Sym(q)' \in cooldown'
                          /\ pc'[q] \notin Judging
    BY <2>2, <2>3, <2>4, <2>5, <1>s, <1>d
  <2>9. QED BY <1>m, <1>d, <2>6, <2>7, <2>8 DEF BuyInv
<1>3. QED BY <1>1, <1>2

(* A held symbol, or one being bought, is not bought again: for any number *)
(* of symbols, orders and days, whatever is killed and however signals     *)
(* arrive.                                                                 *)
THEOREM OneBuy == Spec => []OneBuyPerSymbol
<1> DEFINE Inv == Cooled => BuyInv
<1>1. Init => Inv
  BY DEF Init, BuyInv, Mutex, Outstanding, Judging, Marked, Cleared
<1>2. TypeOK /\ Inv /\ [Next]_vars => Inv'
  <2>1. [Next]_vars => (Cooled' <=> Cooled)
    BY EnvFixed DEF Cooled, SentOnce, Weak
  <2>2. QED BY <2>1, BuyNext
<1>3. Inv => OneBuyPerSymbol
  <2>1. SUFFICES ASSUME BuyInv, NEW s \in Symbol
                 PROVE  LET buys == {o \in Outstanding : SymOfOrder(o) = s}
                        IN Cardinality(buys) + (IF s \in pos THEN 1 ELSE 0)
                          <= 1
    BY DEF OneBuyPerSymbol, Cooled
  <2> DEFINE buys == {o \in Outstanding : SymOfOrder(o) = s}
  <2>2. CASE buys = {}
    BY <2>2, FS_EmptySet
  <2>3. CASE buys # {}
    <3>1. PICK o \in buys : buys = {o}
      BY <2>1, <2>3 DEF BuyInv
    <3>2. s \notin pos
      BY <2>1, <3>1 DEF BuyInv
    <3>3. QED BY <3>1, <3>2, FS_Singleton
  <2>4. QED BY <2>2, <2>3
<1>4. QED BY <1>1, <1>2, <1>3, TypeCorrect, PTL DEF Spec

-----------------------------------------------------------------------------
(* The pause and the loss limit.                                           *)

(* The runners that can still place a LONG order while the global pause is *)
(* set, while the market's is, and while the loss limit is reached.        *)
PastLoss == {"cash", "idempo", "build", "place"}
PastMarket == {"held", "count", "scan", "loss"} \cup PastLoss
PastPause == {"market"} \cup PastMarket
Late(past) == {p \in env.runners : pc[p] \in past /\ IsLong(p)}

(* Each order placed after the stop used up one of them.                   *)
Spent(stopped, after, past) ==
  IF stopped THEN after + Cardinality(Late(past)) <= Cardinality(env.runners)
             ELSE after = 0
StopInv ==
  /\ \A p \in Runner : pc[p] # "down" => p \in env.runners
  /\ Spent(pause # "none", afterPause, PastPause)
  /\ Spent(marketPause, afterMarket, PastMarket)
  /\ Spent(AtLimit, afterLoss, PastLoss)

(* There are no more of them than runners, and the one that places leaves. *)
LEMMA LateCount ==
  ASSUME TypeOK, NEW past
  PROVE  /\ IsFiniteSet(Late(past)) /\ Cardinality(Late(past)) \in Nat
         /\ Cardinality(Late(past)) <= Cardinality(env.runners)
         /\ Cardinality(env.runners) \in Nat
<1>1. IsFiniteSet(env.runners)
  BY GateConstants, FS_Subset DEF TypeOK, CountersOK, Environment
<1>2. Late(past) \in SUBSET env.runners
  BY DEF Late
<1>3. QED BY <1>1, <1>2, FS_Subset, FS_CardinalityType

(* What comes before each of these sets: nobody enters while stopped.      *)
Enters(p, past) ==
  \/ past = PastPause /\ To(p, "pause", "market")
  \/ past = PastMarket /\ To(p, "market", "held")
  \/ past = PastLoss /\ To(p, "loss", "cash")

LEMMA LateStep ==
  ASSUME TypeOK, TypeOK', [Next]_vars,
         NEW past \in {PastPause, PastMarket, PastLoss},
         \A p \in Runner : IsLong(p) => ~Enters(p, past)
  PROVE  /\ Cardinality(Late(past)') <= Cardinality(Late(past))
         /\ \A p \in Runner : /\ SentOnce /\ Place(p) /\ Accept(p) /\ IsLong(p)
                              /\ pc[p] # "down" => p \in env.runners
              => Cardinality(Late(past)') + 1 <= Cardinality(Late(past))
<1>e. env' = env /\ env.runners \subseteq Runner
  BY EnvFixed DEF TypeOK, CountersOK, Environment
<1>f. IsFiniteSet(Late(past)) /\ Cardinality(Late(past)) \in Nat
  BY LateCount
<1>1. ASSUME NEW p \in Late(past)' PROVE p \in Late(past)
  <2>1. /\ p \in Runner /\ p \in env.runners /\ pc'[p] \in past /\ IsLong(p)'
        /\ Way(p)
    BY <1>1, <1>e, Ways DEF Late
  <2>2. sig'[p] = sig[p] /\ (pc[p] \in past \/ Enters(p, past))
    <3>1. CASE past = PastPause
      BY <2>1, <3>1
         DEF Way, Stays, To, Enters, PastPause, PastMarket, PastLoss
    <3>2. CASE past = PastMarket
      BY <2>1, <3>2 DEF Way, Stays, To, Enters, PastMarket, PastLoss
    <3>3. CASE past = PastLoss
      BY <2>1, <3>3 DEF Way, Stays, To, Enters, PastLoss
    <3>4. QED BY <3>1, <3>2, <3>3
  <2>3. IsLong(p)
    BY <2>1, <2>2 DEF IsLong
  <2>4. QED BY <2>1, <2>2, <2>3 DEF Late
<1>2. Late(past)' \in SUBSET Late(past)
  BY <1>1
<1>3. Cardinality(Late(past)') <= Cardinality(Late(past))
  BY <1>2, <1>f, FS_Subset
<1>4. ASSUME NEW p \in Runner, SentOnce, Place(p), Accept(p), IsLong(p),
             pc[p] # "down" => p \in env.runners
      PROVE  Cardinality(Late(past)') + 1 <= Cardinality(Late(past))
  <2>1. pc[p] = "place" /\ pc'[p] \in {"record", "loop"}
    BY <1>4, PlacedOnce
  <2>2. p \in Late(past) /\ p \notin Late(past)'
    BY <2>1, <1>4 DEF Late, PastPause, PastMarket, PastLoss
  <2>3. Late(past)' \in SUBSET (Late(past) \ {p})
    BY <1>2, <2>2
  <2>4. IsFiniteSet(Late(past) \ {p})
        /\ Cardinality(Late(past) \ {p}) = Cardinality(Late(past)) - 1
    BY <1>f, <2>2, FS_RemoveElement
  <2>5. Cardinality(Late(past)') <= Cardinality(Late(past) \ {p})
    BY <2>3, <2>4, FS_Subset
  <2>6. Cardinality(Late(past)') \in Nat
    BY <2>3, <2>4, FS_Subset, FS_CardinalityType
  <2>7. QED BY <2>4, <2>5, <2>6, <1>f
<1>5. QED BY <1>3, <1>4

(* Beside an order, only the end of the stop, or of the day, moves the     *)
(* three histories.                                                        *)
LEMMA AfterStop ==
  ASSUME TypeOK, [Next]_vars, \A p \in Runner : ~(Place(p) /\ Accept(p))
  PROVE  /\ \/ afterPause' = 0
            \/ afterPause' = afterPause /\ (pause # "none" => pause' # "none")
         /\ \/ afterMarket' = 0
            \/ afterMarket' = afterMarket /\ (marketPause => marketPause')
         /\ afterLoss' = 0 \/ (afterLoss' = afterLoss /\ (AtLimit => AtLimit'))
<1>1. ASSUME NEW p \in Runner, Loss(p)
      PROVE  /\ UNCHANGED <<afters, marketPause, realized>>
             /\ (pause # "none" => pause' # "none")
  BY <1>1 DEF Loss, history
<1>2. ASSUME NEW p \in Runner, Place(p)
      PROVE  UNCHANGED <<afters, pause, marketPause, realized>>
  BY <1>2 DEF Place, risk
<1>3. ASSUME Operate \/ Midnight
      PROVE  /\ UNCHANGED <<afterLoss, realized>>
             /\ \/ afterPause' = 0
                \/ afterPause' = afterPause /\ pause' # "none"
             /\ \/ afterMarket' = 0
                \/ afterMarket' = afterMarket
                     /\ (marketPause' \/ marketPause' = marketPause)
  BY <1>3 DEF Operate, Midnight
<1>4. ASSUME NEW d, Move(d)
      PROVE  afterLoss' = 0 \/ (afterLoss' = afterLoss /\ AtLimit')
  BY <1>4 DEF Move
<1>5. ASSUME \/ \E o \in 1..placed : Book(o)
             \/ \E s \in Symbol : ClosePosition(s)
      PROVE  /\ UNCHANGED <<afterPause, afterMarket, pause, marketPause>>
             /\ \/ afterLoss' = 0
                \/ afterLoss' = afterLoss /\ (AtLimit' \/ realized' = realized)
  BY <1>4, <1>5 DEF Book, ClosePosition
<1>6. ASSUME Reset
      PROVE  /\ UNCHANGED <<afterPause, afterMarket, pause, marketPause>>
             /\ afterLoss' = 0
  BY <1>6 DEF Reset
<1>w. ASSUME NEW p \in Runner, Work(p), ~Loss(p), ~Place(p)
      PROVE  UNCHANGED <<afters, pause, marketPause, realized>>
  BY <1>w DEF Work, Loop, Pop, Judge, Idempo, Build, RecordKey, RecordMeta,
     Dedupe, Cooldown, Cap, Mark, PauseRule, MarketPauseRule, Held, CountHeld,
     Scan, Cash, risk, history
<1>7. \/ \E p \in Runner : Loss(p) \/ Place(p)
      \/ (\E o \in 1..placed : Book(o)) \/ (\E s \in Symbol : ClosePosition(s))
      \/ Operate \/ Midnight \/ Reset
      \/ UNCHANGED <<afters, pause, marketPause, realized>>
  BY <1>w DEF Next, Start, Crash, Stop, LockLapses, Push, Execute, See, Close,
     CooldownEnds, vars, risk, history
<1>8. QED BY <1>1, <1>2, <1>3, <1>5, <1>6, <1>7 DEF AtLimit, afters

(* One order is one runner less that can still place one.                  *)
LEMMA SpentStep ==
  ASSUME NEW stopped, NEW stoppedN, NEW after \in Nat, NEW afterN,
         NEW late \in Nat, NEW lateN \in Nat, NEW n \in Nat,
         IF stopped THEN after + late <= n ELSE after = 0,
         stopped => lateN <= late, lateN <= n,
         \/ afterN = 0
         \/ afterN = after /\ (stopped => stoppedN)
         \/ afterN = after + 1 /\ stopped /\ lateN + 1 <= late /\ stoppedN
  PROVE  IF stoppedN THEN afterN + lateN <= n ELSE afterN = 0
  OBVIOUS

LEMMA StopNext ==
  ASSUME TypeOK, TypeOK', SentOnce, StopInv, [Next]_vars
  PROVE  StopInv'
<1>e. env' = env
  BY EnvFixed
<1>n. /\ afterPause \in Nat /\ afterMarket \in Nat /\ afterLoss \in Nat
      /\ pc \in [Runner -> Labels] /\ marketPause \in BOOLEAN
  BY DEF TypeOK, CountersOK, RunnersOK, KeysOK
<1>c. ASSUME NEW past
      PROVE  /\ Cardinality(Late(past)) \in Nat
             /\ Cardinality(Late(past)') \in Nat
             /\ Cardinality(Late(past)') <= Cardinality(env.runners)
             /\ Cardinality(env.runners) \in Nat
  <2>1. IsFiniteSet(env.runners) /\ Late(past)' \in SUBSET env.runners
    BY <1>e, GateConstants, FS_Subset DEF TypeOK, CountersOK, Environment, Late
  <2>2. QED BY <2>1, LateCount, FS_Subset, FS_CardinalityType
<1>1. ASSUME NEW p \in Runner, pc'[p] # "down" PROVE p \in env'.runners
  <2>1. CASE pc[p] # "down"
    BY <2>1, <1>e DEF StopInv
  <2>2. CASE pc[p] = "down"
    <3>1. ~Work(p) /\ ~Crash(p) /\ ~Stop(p)
      BY <2>2
         DEF Work, Loop, Pop, Judge, Idempo, Build, Place, RecordKey,
             RecordMeta, Dedupe, Cooldown, Cap, Mark, PauseRule,
             MarketPauseRule, Held, CountHeld, Scan, Loss, Cash, Crash, Stop
    <3>2. Start(p)
      BY <1>1, <2>2, <3>1, OtherRunner
    <3>3. QED BY <3>2, <1>e DEF Start
  <2>3. QED BY <2>1, <2>2
<1>2. ASSUME NEW p \in Runner, Place(p), Accept(p)
      PROVE  /\ UNCHANGED <<pause, marketPause, realized>>
             /\ afterPause' =
                  afterPause + (IF pause # "none" /\ IsLong(p) THEN 1 ELSE 0)
             /\ afterMarket' =
                  afterMarket + (IF marketPause /\ IsLong(p) THEN 1 ELSE 0)
             /\ afterLoss' =
                  afterLoss + (IF AtLimit /\ IsLong(p) THEN 1 ELSE 0)
  BY <1>2 DEF Place, Accept, risk
<1>p. PastPause # PastMarket /\ PastPause # PastLoss /\ PastMarket # PastLoss
  <2>1. /\ "market" \in PastPause /\ "market" \notin PastMarket
        /\ "market" \notin PastLoss
        /\ "held" \in PastMarket /\ "held" \notin PastLoss
    BY DEF PastPause, PastMarket, PastLoss
  <2>2. QED BY <2>1
<1> DEFINE Fewer(past) ==
      /\ Cardinality(Late(past)') <= Cardinality(Late(past))
      /\ \A p \in Runner : Place(p) /\ Accept(p) /\ IsLong(p)
           => Cardinality(Late(past)') + 1 <= Cardinality(Late(past))
<1>f. /\ pause # "none" => Fewer(PastPause)
      /\ marketPause => Fewer(PastMarket)
      /\ AtLimit => Fewer(PastLoss)
  <2>1. \A p \in Runner :
          /\ To(p, "pause", "market") => pause = "none"
          /\ To(p, "market", "held") /\ IsLong(p) => ~marketPause
          /\ To(p, "loss", "cash") => ~AtLimit
    BY Ways DEF Way, To, Stays
  <2>2. ASSUME NEW past \in {PastPause, PastMarket, PastLoss},
               \A p \in Runner : IsLong(p) => ~Enters(p, past)
        PROVE  Fewer(past)
    BY <2>2, LateStep DEF StopInv
  <2>3. ASSUME pause # "none" PROVE Fewer(PastPause)
    BY <2>1, <2>2, <2>3, <1>p DEF Enters
  <2>4. ASSUME marketPause PROVE Fewer(PastMarket)
    BY <2>1, <2>2, <2>4, <1>p DEF Enters
  <2>5. ASSUME AtLimit PROVE Fewer(PastLoss)
    BY <2>1, <2>2, <2>5, <1>p DEF Enters
  <2>6. QED BY <2>3, <2>4, <2>5
<1>3. /\ \/ afterPause' = 0
         \/ afterPause' = afterPause /\ (pause # "none" => pause' # "none")
         \/ /\ afterPause' = afterPause + 1 /\ pause # "none" /\ pause' # "none"
            /\ Cardinality(Late(PastPause)') + 1 <= Cardinality(Late(PastPause))
      /\ \/ afterMarket' = 0
         \/ afterMarket' = afterMarket /\ (marketPause => marketPause')
         \/ /\ afterMarket' = afterMarket + 1 /\ marketPause /\ marketPause'
            /\ Cardinality(Late(PastMarket)') + 1
                 <= Cardinality(Late(PastMarket))
      /\ \/ afterLoss' = 0
         \/ afterLoss' = afterLoss /\ (AtLimit => AtLimit')
         \/ /\ afterLoss' = afterLoss + 1 /\ AtLimit /\ AtLimit'
            /\ Cardinality(Late(PastLoss)') + 1 <= Cardinality(Late(PastLoss))
  <2>1. CASE \E p \in Runner : Place(p) /\ Accept(p)
    <3>1. PICK p \in Runner : Place(p) /\ Accept(p)
      BY <2>1
    <3>2. AtLimit' <=> AtLimit
      BY <3>1, <1>2 DEF AtLimit
    <3>3. CASE IsLong(p)
      <4>1. /\ afterPause' = afterPause + 1 \/ afterPause' = afterPause
            /\ afterPause' # afterPause => pause # "none"
        BY <3>1, <1>2, <1>n
      <4>2. /\ afterMarket' = afterMarket + 1 \/ afterMarket' = afterMarket
            /\ afterMarket' # afterMarket => marketPause
        BY <3>1, <1>2, <1>n
      <4>3. /\ afterLoss' = afterLoss + 1 \/ afterLoss' = afterLoss
            /\ afterLoss' # afterLoss => AtLimit
        BY <3>1, <1>2, <1>n
      <4>4. UNCHANGED <<pause, marketPause>>
        BY <3>1, <1>2
      <4>5. /\ pause # "none" => Cardinality(Late(PastPause)') + 1
                                   <= Cardinality(Late(PastPause))
            /\ marketPause => Cardinality(Late(PastMarket)') + 1
                                <= Cardinality(Late(PastMarket))
            /\ AtLimit => Cardinality(Late(PastLoss)') + 1
                            <= Cardinality(Late(PastLoss))
        BY <3>1, <3>3, <1>f
      <4>6. QED BY <4>1, <4>2, <4>3, <4>4, <4>5, <3>2
    <3>4. CASE ~IsLong(p)
      BY <3>1, <3>2, <3>4, <1>2, <1>n
    <3>5. QED BY <3>3, <3>4
  <2>2. CASE \A p \in Runner : ~(Place(p) /\ Accept(p))
    BY <2>2, AfterStop
  <2>3. QED BY <2>1, <2>2
<1>4. Spent(pause # "none", afterPause, PastPause)'
  <2> DEFINE late == Cardinality(Late(PastPause))
             lateN == Cardinality(Late(PastPause)')
             n == Cardinality(env.runners)
  <2>1. late \in Nat /\ lateN \in Nat /\ n \in Nat /\ lateN <= n
    BY <1>c
  <2>2. IF pause # "none" THEN afterPause + late <= n ELSE afterPause = 0
    BY DEF StopInv, Spent
  <2>3. /\ pause # "none" => lateN <= late
        /\ \/ afterPause' = 0
           \/ afterPause' = afterPause /\ (pause # "none" => pause' # "none")
           \/ /\ afterPause' = afterPause + 1 /\ pause # "none" /\ pause' # "none"
              /\ lateN + 1 <= late
    BY <1>f, <1>3
  <2> HIDE DEF late, lateN, n
  <2>4. IF pause' # "none" THEN afterPause' + lateN <= n ELSE afterPause' = 0
    BY <2>1, <2>2, <2>3, <1>n, SpentStep
  <2>5. QED BY <2>4, <1>e DEF late, lateN, n, Spent
<1>5. Spent(marketPause, afterMarket, PastMarket)'
  <2> DEFINE late == Cardinality(Late(PastMarket))
             lateN == Cardinality(Late(PastMarket)')
             n == Cardinality(env.runners)
  <2>1. late \in Nat /\ lateN \in Nat /\ n \in Nat /\ lateN <= n
    BY <1>c
  <2>2. IF marketPause THEN afterMarket + late <= n ELSE afterMarket = 0
    BY DEF StopInv, Spent
  <2>3. /\ marketPause => lateN <= late
        /\ \/ afterMarket' = 0
           \/ afterMarket' = afterMarket /\ (marketPause => marketPause')
           \/ /\ afterMarket' = afterMarket + 1 /\ marketPause /\ marketPause'
              /\ lateN + 1 <= late
    BY <1>f, <1>3
  <2> HIDE DEF late, lateN, n
  <2>4. IF marketPause' THEN afterMarket' + lateN <= n ELSE afterMarket' = 0
    BY <2>1, <2>2, <2>3, <1>n, SpentStep
  <2>5. QED BY <2>4, <1>e DEF late, lateN, n, Spent
<1>6. Spent(AtLimit, afterLoss, PastLoss)'
  <2> DEFINE late == Cardinality(Late(PastLoss))
             lateN == Cardinality(Late(PastLoss)')
             n == Cardinality(env.runners)
  <2>1. late \in Nat /\ lateN \in Nat /\ n \in Nat /\ lateN <= n
    BY <1>c
  <2>2. IF AtLimit THEN afterLoss + late <= n ELSE afterLoss = 0
    BY DEF StopInv, Spent
  <2>3. /\ AtLimit => lateN <= late
        /\ \/ afterLoss' = 0
           \/ afterLoss' = afterLoss /\ (AtLimit => AtLimit')
           \/ /\ afterLoss' = afterLoss + 1 /\ AtLimit /\ AtLimit'
              /\ lateN + 1 <= late
    BY <1>f, <1>3
  <2> HIDE DEF late, lateN, n
  <2>4. IF AtLimit' THEN afterLoss' + lateN <= n ELSE afterLoss' = 0
    BY <2>1, <2>2, <2>3, <1>n, SpentStep
  <2>5. QED BY <2>4, <1>e DEF late, lateN, n, Spent
<1>7. QED BY <1>1, <1>4, <1>5, <1>6, <1>e DEF StopInv

(* However long the queue and however often the operator pauses, resumes   *)
(* or a lock lapses: once a pause, global or of the market, or the loss    *)
(* limit stops trading, each runner places at most the one LONG order that *)
(* was past the read of that rule.                                         *)
THEOREM StopsTrading == Spec => []TradingStops
<1> DEFINE Inv == SentOnce => StopInv
<1>1. Init => Inv
  <2> SUFFICES ASSUME Init PROVE StopInv
    OBVIOUS
  <2>1. pause = "none" /\ ~marketPause /\ ~AtLimit
    BY ConstType DEF Init, AtLimit
  <2>2. QED BY <2>1 DEF Init, StopInv, Spent
<1>2. TypeOK /\ TypeOK' /\ Inv /\ [Next]_vars => Inv'
  BY StopNext, EnvFixed DEF SentOnce
<1>3. TypeOK /\ Inv => TradingStops
  <2> SUFFICES ASSUME TypeOK, StopInv
               PROVE  /\ afterPause <= Cardinality(env.runners)
                      /\ afterMarket <= Cardinality(env.runners)
                      /\ afterLoss <= Cardinality(env.runners)
    BY DEF TradingStops
  <2>1. \A past : Cardinality(Late(past)) \in Nat
    BY LateCount
  <2>2. Cardinality(env.runners) \in Nat
    BY LateCount
  <2>3. afterPause \in Nat /\ afterMarket \in Nat /\ afterLoss \in Nat
    BY DEF TypeOK, CountersOK
  <2>4. QED BY <2>1, <2>2, <2>3 DEF StopInv, Spent
<1>4. QED BY <1>1, <1>2, <1>3, TypeCorrect, PTL DEF Spec

-----------------------------------------------------------------------------
(* Rule 2.                                                                 *)

Exposure == pos \cup {SymOfOrder(o) : o \in Outstanding}

(* Every BUY on the way has both its keys, or the runner is at writing     *)
(* them; a LONG signal past rule 2 leaves room for one more symbol.        *)
Recorded(o) == order[o].key = "SUBMITTED" /\ order[o].meta
Writing(o) ==
  \E p \in Runner : /\ oid[p] = o
                    /\ \/ pc[p] = "record"
                       \/ pc[p] = "meta" /\ order[o].key = "SUBMITTED"
PastScan == {"loss"} \cup PastLoss
LimitInv ==
  /\ Mutex
  /\ Cardinality(Exposure) <= env.maxPos
  /\ \A o \in Outstanding : Recorded(o) \/ Writing(o)
  /\ \A p \in Runner : IsLong(p) =>
       /\ pc[p] = "scan" => Cardinality(pos) <= open[p]
       /\ pc[p] \in PastScan => Cardinality(Exposure) < env.maxPos

(* A symbol for each order: there are no more of them.                     *)
LEMMA ExposureCount ==
  ASSUME TypeOK
  PROVE  /\ IsFiniteSet(Exposure) /\ Cardinality(Exposure) \in Nat
         /\ IsFiniteSet(Outstanding) /\ Cardinality(pos) \in Nat
         /\ Cardinality(Exposure)
            <= Cardinality(pos) + Cardinality(Outstanding)
<1> DEFINE S == {SymOfOrder(o) : o \in Outstanding}
           sym == [o \in Outstanding |-> SymOfOrder(o)]
<1>1. IsFiniteSet(Outstanding) /\ IsFiniteSet(pos)
  <2>1. placed \in Nat
    BY ConstType DEF TypeOK, OrdersOK
  <2>2. IsFiniteSet(1..placed)
    BY <2>1, FS_Interval
  <2>3. Outstanding \in SUBSET (1..placed)
    BY DEF Outstanding
  <2>4. QED BY <2>2, <2>3, FS_Subset DEF TypeOK, KeysOK
<1>2. sym \in Surjection(Outstanding, S)
  BY DEF Surjection
<1>3. IsFiniteSet(S) /\ Cardinality(S) <= Cardinality(Outstanding)
  BY <1>1, <1>2, FS_Surjection
<1>4. /\ IsFiniteSet(pos \cup S)
      /\ Cardinality(pos \cup S)
         = Cardinality(pos) + Cardinality(S) - Cardinality(pos \cap S)
  BY <1>1, <1>3, FS_Union
<1>5. /\ Cardinality(pos) \in Nat /\ Cardinality(S) \in Nat
      /\ Cardinality(Outstanding) \in Nat /\ Cardinality(pos \cup S) \in Nat
      /\ Cardinality(pos \cap S) \in Nat
  BY <1>1, <1>3, <1>4, FS_CardinalityType, FS_Intersection
<1>6. Exposure = pos \cup S
  BY DEF Exposure
<1>7. QED BY <1>1, <1>3, <1>4, <1>5, <1>6

(* Where rule 2 sees every BUY.                                            *)
LimitMeant == AllSeen /\ Cardinality(env.held) <= env.maxPos

LEMMA LimitMeans ==
  ASSUME TypeOK, LimitMeant, [Next]_vars
  PROVE  /\ Weak \cap {"slow_loop", "lost_reply", "unseen", "booking",
                     "at_once"} = {}
         /\ \A p \in Runner : ~Crash(p) /\ ~Stop(p)
         /\ env.maxPos \in Nat /\ env' = env
<1>1. env' = env /\ crashes \in Nat /\ env.crashes = 0 /\ env.maxPos \in Nat
  BY EnvFixed DEF TypeOK, CountersOK, Environment, LimitMeant, AllSeen
<1>2. ~(crashes < env.crashes)
  BY <1>1
<1>3. QED BY <1>1, <1>2 DEF Crash, Stop, LimitMeant, AllSeen

(* A BUY that stays outstanding loses neither its key nor its meta.        *)
LEMMA RecordKeeps ==
  ASSUME TypeOK, [Next]_vars, placed' = placed, NEW o \in Outstanding,
         o \in Outstanding', "at_once" \notin Weak
  PROVE  /\ order[o].key = "SUBMITTED" => order'[o].key = "SUBMITTED"
         /\ order[o].meta => order'[o].meta
<1>t. order \in [OrderId -> Order] /\ o \in OrderId
      /\ order'[o].state \in {"working", "executed"} /\ placed \in Nat
  BY ConstType DEF TypeOK, OrdersOK, OrderId, Outstanding
<1> DEFINE Kept == /\ order[o].key = "SUBMITTED" => order'[o].key = "SUBMITTED"
                   /\ order[o].meta => order'[o].meta
<1>1. ASSUME NEW p \in Runner, RecordKey(p) \/ RecordMeta(p) PROVE Kept
  BY <1>1, <1>t DEF RecordKey, RecordMeta, Order
<1>2. ASSUME NEW q \in 1..placed, Execute(q) \/ Book(q) \/ See(q) PROVE Kept
  BY <1>2, <1>t DEF Execute, Book, See, Order
<1>3. ASSUME NEW q \in 1..placed, Close(q) PROVE Kept
  <2>1. q # o
    <3>1. CASE /\ order[q].state = "booked"
               /\ order' = [order EXCEPT ![q].key = "FILLED"]
      BY <3>1, <1>t DEF Order
    <3>2. CASE order' = [order EXCEPT ![q].key = "CANCELED",
                         ![q].state = "canceled"]
      BY <3>2, <1>t DEF Order
    <3>3. QED BY <1>3, <3>1, <3>2 DEF Close
  <2>2. QED BY <1>3, <1>t, <2>1 DEF Close
<1>4. CASE order' = order
  BY <1>4
<1>5. ASSUME NEW p \in Runner, Work(p), ~RecordKey(p), ~RecordMeta(p)
      PROVE order' = order
  <2>1. ~Accept(p)
    BY <1>t DEF Accept
  <2>2. QED BY <1>5, <2>1
               DEF Work, Loop, Pop, Judge, Dedupe, Cooldown, Cap, Mark,
                   PauseRule, MarketPauseRule, Held, CountHeld, Scan, Loss, Cash, Idempo, Build, Place,
                   broker
<1>6. QED
  BY <1>1, <1>2, <1>3, <1>4, <1>5
     DEF Next, Start, Crash, Stop, LockLapses, Push, ClosePosition,
         CooldownEnds, Operate, Midnight, Reset, vars, broker

LEMMA LimitNext ==
  ASSUME TypeOK, LimitMeant, LimitInv, [Next]_vars
  PROVE  LimitInv'
<1>w. /\ Weak \cap {"slow_loop", "lost_reply", "unseen", "booking",
                    "at_once"} = {}
      /\ \A p \in Runner : ~Crash(p) /\ ~Stop(p)
      /\ env.maxPos \in Nat /\ env' = env
  BY LimitMeans
<1>m. Mutex /\ Mutex'
  BY <1>w, MutexNext DEF LimitInv
<1>c. /\ IsFiniteSet(Exposure) /\ Cardinality(Exposure) \in Nat
      /\ IsFiniteSet(Outstanding) /\ Cardinality(pos) \in Nat
      /\ Cardinality(Exposure) <= Cardinality(pos) + Cardinality(Outstanding)
  BY ExposureCount
<1>t. /\ pc \in [Runner -> Labels] /\ open \in [Runner -> Nat]
      /\ placed \in Nat
      /\ IsFiniteSet(pos) /\ oid \in [Runner -> 0..MaxOrders]
  BY ConstType DEF TypeOK, RunnersOK, OrdersOK, KeysOK
<1>1. CASE placed' = placed
  <2>o. /\ \A o \in 1..placed : SymOfOrder(o)' = SymOfOrder(o)
        /\ Outstanding' \subseteq Outstanding
        /\ Outstanding \subseteq 1..placed
    BY <1>1, OrdersKeep DEF Outstanding
  <2>a. ASSUME NEW q \in Runner PROVE ~(Place(q) /\ Accept(q))
    BY <1>1, <1>t DEF Accept
  <2>1. Exposure' \in SUBSET Exposure
    BY <2>o, PositionsKeep DEF Exposure
  <2>2. /\ Cardinality(Exposure') <= Cardinality(Exposure)
        /\ Cardinality(Exposure') \in Nat
    BY <2>1, <1>c, FS_Subset, FS_CardinalityType
  <2>3. ASSUME NEW o \in Outstanding' PROVE Recorded(o)' \/ Writing(o)'
    <3>1. o \in Outstanding
          /\ (order[o].key = "SUBMITTED" => order'[o].key = "SUBMITTED")
          /\ (order[o].meta => order'[o].meta)
      BY <1>1, <1>w, <2>o, <2>3, RecordKeeps
    <3>2. CASE Recorded(o)
      BY <3>1, <3>2 DEF Recorded
    <3>3. CASE Writing(o)
      <4>1. PICK p \in Runner : /\ oid[p] = o
                                /\ \/ pc[p] = "record"
                                   \/ /\ pc[p] = "meta"
                                      /\ order[o].key = "SUBMITTED"
        BY <3>3 DEF Writing
      <4>t. o \in OrderId /\ order \in [OrderId -> Order]
        BY <2>o, <3>1, ConstType DEF OrderId, TypeOK, OrdersOK
      <4>2. CASE RecordKey(p)
        <5>1. pc'[p] = "meta" /\ oid'[p] = o /\ order'[o].key = "SUBMITTED"
          BY <4>1, <4>2, <4>t, <1>t, <1>w DEF RecordKey, Goto, local, Order
        <5>2. QED BY <5>1 DEF Writing
      <4>3. CASE RecordMeta(p)
        <5>1. order[o].key = "SUBMITTED" /\ order'[o].meta
          BY <4>1, <4>3, <4>t, <1>t DEF RecordMeta, Order
        <5>2. QED BY <3>1, <5>1 DEF Recorded
      <4>4. CASE ~RecordKey(p) /\ ~RecordMeta(p)
        <5>1. ~Start(p) /\ ~Work(p) /\ ~Crash(p) /\ ~Stop(p)
          BY <4>1, <4>4, <1>w
             DEF Start, Work, Loop, Pop, Judge, Dedupe, Cooldown, Cap, Mark,
                 PauseRule, MarketPauseRule, Held, CountHeld, Scan, Loss, Cash, Idempo, Build, Place
        <5>2. pc'[p] = pc[p] /\ oid'[p] = oid[p]
          BY <5>1, OtherRunner
        <5>3. QED BY <3>1, <4>1, <5>2 DEF Writing
      <4>5. QED BY <4>2, <4>3, <4>4
    <3>4. QED BY <3>1, <3>2, <3>3 DEF LimitInv
  <2>4. ASSUME NEW q \in Runner, IsLong(q)', pc'[q] = "scan"
        PROVE  Cardinality(pos') <= open'[q]
    <3>1. \/ pc[q] = "scan" /\ sig'[q] = sig[q]
          \/ CountHeld(q)
      BY <2>4, Ways DEF Way, Stays, To
    <3>2. CASE CountHeld(q)
      <4>1. UNCHANGED pos /\ open'[q] = Cardinality(pos)
        BY <3>2, <1>t DEF CountHeld, risk
      <4>2. QED BY <4>1, <1>c
    <3>3. CASE pc[q] = "scan" /\ sig'[q] = sig[q]
      <4>1. ~Start(q) /\ ~Work(q) /\ ~Crash(q) /\ ~Stop(q)
        <5>1. ~Scan(q)
          BY <2>4, <1>t DEF Scan, Next_, Goto
        <5>2. QED BY <3>3, <5>1, <1>w
                     DEF Start, Work, Loop, Pop, Judge, Dedupe, Cooldown, Cap,
                         Mark, PauseRule, MarketPauseRule, Held, CountHeld, Loss, Cash, Idempo, Build,
                         Place, RecordKey, RecordMeta
      <4>2. open'[q] = open[q]
        BY <4>1, OtherRunner
      <4>3. \A o \in 1..placed : ~Book(o)
        BY <3>3, <1>w DEF Book
      <4>4. pos' \in SUBSET pos
        BY <4>3, ZenonT(60)
           DEF Next, Start, Work, Crash, Stop, LockLapses, Push, Execute, See,
               Close, ClosePosition, CooldownEnds, Operate, Midnight, Reset,
               Loop, Pop, Judge, Idempo, Build, Place, RecordKey, RecordMeta,
               Dedupe, Cooldown, Cap, Mark, PauseRule, MarketPauseRule, Held, CountHeld, Scan, Loss, Cash,
               vars, risk
      <4>5. Cardinality(pos') <= Cardinality(pos) /\ Cardinality(pos') \in Nat
        BY <4>4, <1>t, FS_Subset, FS_CardinalityType
      <4>6. IsLong(q) /\ Cardinality(pos) <= open[q]
        <5>1. IsLong(q)
          BY <2>4, <3>3 DEF IsLong
        <5>2. QED BY <3>3, <5>1 DEF LimitInv
      <4>7. QED BY <4>2, <4>5, <4>6, <1>c, <1>t
    <3>4. QED BY <3>1, <3>2, <3>3
  <2>5. ASSUME NEW q \in Runner, IsLong(q)', pc'[q] \in PastScan
        PROVE  Cardinality(Exposure') < env.maxPos
    <3>1. /\ sig'[q] = sig[q]
          /\ \/ pc[q] \in PastScan
             \/ pc[q] = "scan" /\ Scan(q)
                  /\ (IsLong(q) => open[q] + Cardinality(PendingBuys) < env.maxPos)
      BY <2>5, Ways DEF Way, Stays, To, PastScan, PastLoss
    <3>2. IsLong(q)
      BY <2>5, <3>1 DEF IsLong
    <3>3. CASE pc[q] \in PastScan
      BY <3>2, <3>3, <2>2, <1>c, <1>w DEF LimitInv
    <3>4. CASE pc[q] = "scan" /\ Scan(q)
      <4>1. ASSUME NEW o \in Outstanding PROVE o \in PendingBuys
        <5>1. ~Writing(o)
          BY <3>4, <1>m DEF Writing, Mutex
        <5>2. Recorded(o) /\ o \in 1..placed /\ order[o].buy
          BY <5>1 DEF LimitInv, Outstanding
        <5>3. order[o].seen
          BY <3>4, <5>2, <1>w DEF Scan, Recorded
        <5>4. QED BY <5>2, <5>3 DEF PendingBuys, Recorded
      <4>2. IsFiniteSet(PendingBuys)
        <5>1. PendingBuys \in SUBSET (1..placed) /\ IsFiniteSet(1..placed)
          BY <1>t, FS_Interval, SMTT(30) DEF PendingBuys
        <5>2. QED BY <5>1, FS_Subset
      <4>3. /\ Cardinality(Outstanding) <= Cardinality(PendingBuys)
            /\ Cardinality(PendingBuys) \in Nat
            /\ Cardinality(Outstanding) \in Nat
        <5>1. Outstanding \in SUBSET PendingBuys
          BY <4>1
        <5>2. QED BY <5>1, <4>2, <1>c, FS_Subset, FS_CardinalityType
      <4>4. /\ open[q] + Cardinality(PendingBuys) < env.maxPos
            /\ open[q] \in Nat
            /\ Cardinality(pos) <= open[q]
        BY <3>1, <3>2, <3>4, <1>t DEF LimitInv, PastScan, PastLoss
      <4>5. QED BY <2>2, <4>3, <4>4, <1>c, <1>w
    <3>5. QED BY <3>1, <3>3, <3>4
  <2>6. Cardinality(Exposure') <= env'.maxPos
    BY <2>2, <1>c, <1>w DEF LimitInv
  <2>7. QED BY <1>m, <1>w, <2>3, <2>4, <2>5, <2>6 DEF LimitInv
<1>2. CASE placed' # placed
  <2>1. PICK p \in Runner : Place(p) /\ Accept(p)
    BY <1>2, ZenonT(60)
       DEF Next, Start, Work, Crash, Stop, LockLapses, Push, Execute, Book,
           See, Close, ClosePosition, CooldownEnds, Operate, Midnight, Reset,
           Loop, Pop, Judge, Idempo, Build, Place, RecordKey, RecordMeta,
           Dedupe, Cooldown, Cap, Mark, PauseRule, MarketPauseRule, Held, CountHeld, Scan, Loss, Cash,
           vars, broker
  <2>2. pc[p] = "place" /\ pc'[p] = "record" /\ oid'[p] = placed'
    <3>1. /\ pc[p] = "place" /\ Goto(p, "record")
          /\ oid' = [oid EXCEPT ![p] = placed']
      BY <2>1, <1>2, <1>w DEF Place, broker
    <3>2. QED BY <3>1, <1>t DEF Goto
  <2>3. \A q \in Runner \ {p} : pc[q] = "down" /\ pc'[q] = "down"
    <3>1. \A q \in Runner \ {p} : pc[q] = "down"
      BY <2>2, <1>m DEF Mutex
    <3>2. \A q \in Runner \ {p} : pc'[q] = pc[q]
      BY <2>1, <1>t DEF Place, Goto
    <3>3. QED BY <3>1, <3>2
  <2>4. /\ \A o \in 1..placed : order'[o] = order[o]
           /\ SymOfOrder(o)' = SymOfOrder(o)
        /\ Outstanding \subseteq 1..placed
        /\ Outstanding' = Outstanding \cup (IF IsLong(p) THEN {placed + 1} ELSE {})
        /\ \A n : n = placed + 1 => SymOfOrder(n)' = Sym(p)
        /\ UNCHANGED <<pos, sig>> /\ placed' = placed + 1
    BY <2>1, OrderTaken DEF Outstanding
  <2>5. ASSUME NEW o \in Outstanding' PROVE Recorded(o)' \/ Writing(o)'
    <3>1. CASE o \in Outstanding
      <4>1. ~Writing(o)
        BY <2>2, <2>3 DEF Writing
      <4>2. Recorded(o)
        BY <3>1, <4>1 DEF LimitInv
      <4>3. QED BY <3>1, <4>2, <2>4 DEF Recorded
    <3>2. CASE o = placed + 1
      BY <3>2, <2>2, <2>4 DEF Writing
    <3>3. QED BY <3>1, <3>2, <2>4
  <2>6. Cardinality(Exposure') <= env'.maxPos
    <3>1. CASE IsLong(p)
      <4>1. Exposure' = Exposure \cup {Sym(p)}
        BY <3>1, <2>4 DEF Exposure
      <4>2. Cardinality(Exposure) < env.maxPos
        BY <3>1, <2>2 DEF LimitInv, PastScan, PastLoss
      <4>3. \/ Exposure' = Exposure
            \/ Cardinality(Exposure \cup {Sym(p)}) = Cardinality(Exposure) + 1
        BY <4>1, <1>c, FS_AddElement, ZenonT(60)
      <4>4. QED BY <4>1, <4>2, <4>3, <1>c, <1>w
    <3>2. CASE ~IsLong(p)
      <4>1. Exposure' = Exposure
        BY <3>2, <2>4 DEF Exposure
      <4>2. QED BY <4>1, <1>w DEF LimitInv
    <3>3. QED BY <3>1, <3>2
  <2>7. \A q \in Runner : pc'[q] # "scan" /\ pc'[q] \notin PastScan
    BY <2>2, <2>3 DEF PastScan, PastLoss
  <2>8. QED BY <1>m, <2>5, <2>6, <2>7 DEF LimitInv
<1>3. QED BY <1>1, <1>2

(* Rule 2 is kept for any limit and any number of symbols: each BUY that   *)
(* is on the way is counted, because the one runner only comes to rule 2   *)
(* after it has written both keys of its last order.                       *)
THEOREM PositionsLimited == Spec => []LimitKept
<1> DEFINE Inv == LimitMeant => LimitInv
<1>1. Init => Inv
  <2> SUFFICES ASSUME Init, LimitMeant PROVE LimitInv
    OBVIOUS
  <2>1. placed = 0 /\ pos = env.held /\ \A p \in Runner : pc[p] = "down"
    BY DEF Init
  <2>2. Outstanding = {} /\ Exposure = env.held
    BY <2>1 DEF Outstanding, Exposure
  <2>3. Mutex
    BY <2>1 DEF Mutex
  <2>4. \A p \in Runner : pc[p] # "scan" /\ pc[p] \notin PastScan
    BY <2>1 DEF PastScan, PastLoss
  <2>5. QED BY <2>2, <2>3, <2>4 DEF LimitInv, LimitMeant
<1>2. TypeOK /\ Inv /\ [Next]_vars => Inv'
  <2>1. [Next]_vars => (LimitMeant' <=> LimitMeant)
    BY EnvFixed DEF LimitMeant, AllSeen, Weak
  <2>2. QED BY <2>1, LimitNext
<1>3. Inv => LimitKept
  BY DEF LimitInv, LimitMeant, LimitKept, WithinMaxPositions, Exposure
<1>4. QED BY <1>1, <1>2, <1>3, TypeCorrect, PTL DEF Spec
=============================================================================
