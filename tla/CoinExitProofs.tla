---------------------------- MODULE CoinExitProofs ----------------------------
(***************************************************************************)
(* What holds of CoinExit for every number of orders, kills and failing    *)
(* requests, whatever the owner holds, every lot and every set of          *)
(* weaknesses, as far as a property itself does not exclude some.          *)
(***************************************************************************)
EXTENDS CoinExit, TLAPS

-----------------------------------------------------------------------------
(* Sums over the orders.  t is the total of r, which the running sums S    *)
(* bear witness to.                                                        *)
Running(S, r, t) ==
  /\ S \in [0..MaxOrders -> Int]
  /\ S[0] = 0 /\ S[MaxOrders] = t
  /\ \A o \in OrderId : S[o] = S[o - 1] + r[o]
  /\ \A i, j \in 0..MaxOrders : i <= j => S[i] <= S[j]

Total(r, t) == r \in [OrderId -> Nat] /\ \E S : Running(S, r, t)

LEMMA NothingTotals == Total([o \in OrderId |-> 0], 0)
<1> DEFINE r == [o \in OrderId |-> 0]
           S == [i \in 0..MaxOrders |-> 0]
<1>1. MaxOrders \in Nat
  BY CoinConstants
<1>2. Running(S, r, 0)
  BY <1>1 DEF Running, OrderId
<1>3. r \in [OrderId -> Nat]
  OBVIOUS
<1> HIDE DEF S, r
<1>4. QED BY <1>2, <1>3 DEF Total, r

(* One order's share changes by d.                                         *)
LEMMA OneChanges ==
  ASSUME NEW r, NEW t, Total(r, t), NEW o \in OrderId, NEW n \in Nat
  PROVE  /\ r[o] <= t /\ t \in Nat
         /\ Total([r EXCEPT ![o] = n], t + (n - r[o]))
<1> DEFINE d == n - r[o]
           q == [r EXCEPT ![o] = n]
<1>1. PICK S : Running(S, r, t)
  BY DEF Total
<1>2. r \in [OrderId -> Nat] /\ MaxOrders \in Nat /\ o \in 1..MaxOrders
  BY CoinConstants DEF Total, OrderId
<1>3. /\ S \in [0..MaxOrders -> Int] /\ S[0] = 0 /\ S[MaxOrders] = t
      /\ \A p \in OrderId : S[p] = S[p - 1] + r[p]
      /\ \A i, j \in 0..MaxOrders : i <= j => S[i] <= S[j]
  BY <1>1 DEF Running
<1>4. /\ S[o] = S[o - 1] + r[o] /\ 0 <= S[o - 1] /\ S[o] <= t /\ t \in Int
      /\ r[o] \in Nat
  <2>1. /\ 0 \in 0..MaxOrders /\ o - 1 \in 0..MaxOrders
        /\ MaxOrders \in 0..MaxOrders
        /\ o \in 0..MaxOrders /\ 0 <= o - 1 /\ o <= MaxOrders
    BY <1>2
  <2>2. S[0] <= S[o - 1] /\ S[o] <= S[MaxOrders]
    BY <1>3, <2>1
  <2>3. QED BY <1>2, <1>3, <2>1, <2>2
<1>5. d \in Int /\ S[o - 1] <= S[o] + d /\ S[o - 1] \in Int /\ S[o] \in Int
  BY <1>2, <1>3, <1>4
<1> HIDE DEF d
<1> DEFINE U == [i \in 0..MaxOrders |-> IF i >= o THEN S[i] + d ELSE S[i]]
<1>6. U \in [0..MaxOrders -> Int] /\ U[0] = 0 /\ U[MaxOrders] = t + d
  BY <1>2, <1>3, <1>5
<1>7. ASSUME NEW p \in OrderId PROVE U[p] = U[p - 1] + q[p]
  <2>1. p \in 0..MaxOrders /\ p - 1 \in 0..MaxOrders /\ p \in Int
    BY <1>2 DEF OrderId
  <2>2. /\ S[p] \in Int /\ S[p - 1] \in Int /\ S[p] = S[p - 1] + r[p]
        /\ r[p] \in Int
    BY <1>2, <1>3, <2>1
  <2>3. CASE p = o
    <3>1. U[p] = S[p] + d /\ U[p - 1] = S[p - 1] /\ q[p] = n
      BY <1>2, <2>1, <2>3
    <3>2. QED BY <1>2, <2>2, <2>3, <3>1 DEF d
  <2>4. CASE p > o
    <3>1. U[p] = S[p] + d /\ U[p - 1] = S[p - 1] + d /\ q[p] = r[p]
      BY <1>2, <2>1, <2>4
    <3>2. QED BY <1>5, <2>2, <3>1
  <2>5. CASE p < o
    <3>1. U[p] = S[p] /\ U[p - 1] = S[p - 1] /\ q[p] = r[p]
      BY <1>2, <2>1, <2>5
    <3>2. QED BY <2>2, <3>1
  <2>6. QED BY <1>2, <2>1, <2>3, <2>4, <2>5
<1>8. ASSUME NEW i \in 0..MaxOrders, NEW j \in 0..MaxOrders, i <= j
      PROVE U[i] <= U[j]
  <2>1. S[i] <= S[j] /\ S[i] \in Int /\ S[j] \in Int
    BY <1>3, <1>8
  <2>2. CASE i >= o
    BY <1>2, <1>5, <1>8, <2>1, <2>2
  <2>3. CASE j < o
    BY <1>2, <1>5, <1>8, <2>1, <2>3
  <2>4. CASE i < o /\ j >= o
    <3>1. i <= o - 1 /\ o - 1 \in 0..MaxOrders /\ o \in 0..MaxOrders /\ o <= j
      BY <1>2, <2>4
    <3>2. S[i] <= S[o - 1] /\ S[o] <= S[j]
      BY <1>3, <3>1
    <3>3. U[i] = S[i] /\ U[j] = S[j] + d
      BY <1>2, <2>4
    <3>4. QED BY <1>5, <2>1, <3>2, <3>3
  <2>5. QED BY <1>2, <2>2, <2>3, <2>4
<1> HIDE DEF U, q
<1>9. Running(U, q, t + d)
  BY <1>6, <1>7, <1>8 DEF Running
<1>10. q \in [OrderId -> Nat]
  BY <1>2 DEF q
<1>11. Total(q, t + d)
  BY <1>9, <1>10 DEF Total
<1>12. r[o] <= t /\ t \in Nat
  BY <1>4, <1>5
<1>13. QED BY <1>11, <1>12 DEF q, d

-----------------------------------------------------------------------------
(* Type correctness.                                                       *)

Order == [side : {"BUY", "SELL"}, left : Nat, done : Nat,
          state : {"none", "wait", "done", "cancel"}]
Labels == {"idle", "index", "write", "missing", "push", "remove", "evaluate",
           "raise", "look", "lock", "place", "record", "clean"}

(* What an order has locked.                                               *)
LentBy(x) == IF x.side = "SELL" /\ x.state = "wait" THEN x.left ELSE 0
Lent == [o \in OrderId |-> LentBy(order[o])]

AccountOK ==
  /\ held \in Nat /\ placed \in 0..MaxOrders /\ sold \in Nat
  /\ order \in [OrderId -> Order]
  /\ Total(Lent, locked) /\ locked <= held
  /\ \A o \in OrderId : o > placed => order[o] = NoOrder
OrdersOK ==
  /\ inBuy \in 0..placed /\ exitOrder \in 0..placed
  /\ sellId \in [Seller -> 0..placed]
  /\ stat \in [OrderId -> {"none", "SUBMITTED", "FILLED", "CANCELED"}]
FlagsOK == pending \in BOOLEAN /\ lock \in BOOLEAN /\ rested \in BOOLEAN
PositionOK ==
  /\ posq \in Nat /\ dying \in BOOLEAN /\ idx \in BOOLEAN /\ gen \in Nat
  /\ due \in Nat
HighOK == hwm \in Nat /\ hwmTs \in Nat
CacheOK == cache \in [qty : Nat, gen : 0..gen]
BooksOK == booked \subseteq FillIds /\ bookSell \in Nat /\ unpriced \in Nat
FillsOK == claimed \subseteq FillIds /\ queue \in Seq(Fills)
PollOK ==
  /\ pc \in [Seller -> Labels] /\ qty \in [Seller -> Nat]
  /\ seen \in Nat /\ fid \in FillIds
BudgetsOK == buys \in Nat /\ crashes \in Nat /\ outages \in Nat
TypeInv ==
  /\ env \in Environment /\ AccountOK /\ OrdersOK /\ FlagsOK /\ PositionOK
  /\ HighOK
  /\ CacheOK /\ BooksOK /\ FillsOK /\ PollOK /\ BudgetsOK

LEMMA LockedType ==
  ASSUME AccountOK
  PROVE  /\ locked \in Nat /\ locked <= held /\ held \in Nat /\ Free \in Nat
         /\ \A o \in OrderId : LentBy(order[o]) <= locked
<1>1. CASE OrderId = {}
  <2>1. PICK S : Running(S, Lent, locked)
    BY DEF AccountOK, Total
  <2>2. MaxOrders = 0
    BY <1>1, CoinConstants DEF OrderId
  <2>3. locked = 0
    BY <2>1, <2>2 DEF Running
  <2>4. QED BY <1>1, <2>3 DEF AccountOK, Free
<1>2. CASE OrderId # {}
  <2>1. ASSUME NEW o \in OrderId PROVE Lent[o] <= locked /\ locked \in Nat
    <3>1. Total(Lent, locked)
      BY DEF AccountOK
    <3>2. QED BY <3>1, OneChanges
  <2>2. \A o \in OrderId : Lent[o] = LentBy(order[o])
    BY DEF Lent
  <2>3. locked \in Nat
    BY <1>2, <2>1
  <2>4. \A o \in OrderId : LentBy(order[o]) <= locked
    BY <2>1, <2>2
  <2>5. QED BY <2>3, <2>4 DEF AccountOK, Free
<1>3. QED BY <1>1, <1>2

LEMMA TypeIs == TypeInv => TypeOK
<1> SUFFICES ASSUME TypeInv PROVE TypeOK
  OBVIOUS
<1>1. {pending, dying, idx, lock, rested} \subseteq BOOLEAN
  BY DEF TypeInv, FlagsOK, PositionOK
<1>2. {posq, seen, hwm, hwmTs, gen, due, buys, crashes, outages} \subseteq Nat
      /\ {sold, bookSell, unpriced} \subseteq Nat
  BY DEF TypeInv, PositionOK, PollOK, BooksOK, AccountOK, HighOK, BudgetsOK
<1>3. held \in Nat /\ locked \in 0..held
  BY LockedType DEF TypeInv
<1>4. order \in [OrderId -> [side : {"BUY", "SELL"}, left : Nat, done : Nat,
                            state : {"none", "wait", "done", "cancel"}]]
      /\ placed \in 0..MaxOrders
  BY DEF TypeInv, AccountOK, Order
<1>5. pc \in [Seller -> {"idle", "index", "write", "missing", "push", "remove",
                        "evaluate", "raise", "look", "lock", "place", "record",
                        "clean"}]
  BY DEF TypeInv, PollOK, Labels
<1>6. QED
  BY <1>1, <1>2, <1>3, <1>4, <1>5
     DEF TypeInv, TypeOK, OrdersOK, CacheOK, BooksOK, FillsOK, PollOK

LEMMA EnvType ==
  ASSUME TypeInv
  PROVE  /\ env.own \in Nat /\ env.lot \in Nat \ {0} /\ MaxOrders \in Nat
         /\ placed \in Nat /\ placed <= MaxOrders
         /\ (1..placed) \subseteq OrderId
  BY CoinConstants DEF TypeInv, AccountOK, Environment, OrderId

LEMMA IdTypes ==
  /\ \A n \in Nat : <<"order", n>> \in FillIds
  /\ <<"sold", 0>> \in FillIds /\ NoFill \in FillIds
  BY DEF FillIds, NoFill

LEMMA EnvFixed == [Next]_vars => env' = env
  BY DEF Next, vars, FillOrder, CancelSell, PlaceBuy, RecordBuy, LoseBuy,
         ApplyFill, Watch, WatchDone, WatchCanceled, RunnerSteps, Sync,
         Balances, ReadIndex, WriteHolding, Missing, PushSale, RemovePosition,
         Evaluate, PassLock, Raise, SellSteps, TakeLock, PlaceSell, RecordSell,
         BalancesFail, OrphanScan, Scan, MonitorSteps, MonitorGoesOn, Ticker,
         Look, CleanUp, CrashSeller, LockExpires, PendingExpires, HashExpires,
         TimeUp

LEMMA TypeInit == Init => TypeInv
<1> SUFFICES ASSUME Init PROVE TypeInv
  OBVIOUS
<1>1. NoOrder \in Order /\ LentBy(NoOrder) = 0
  BY DEF NoOrder, Order, LentBy
<1>2. /\ order \in [OrderId -> Order] /\ env \in Environment
      /\ stat \in [OrderId -> {"none", "SUBMITTED", "FILLED", "CANCELED"}]
      /\ queue \in Seq(Fills)
  BY <1>1, CoinConstants DEF Init
<1>3. Lent = [o \in OrderId |-> 0]
  BY <1>1 DEF Init, Lent
<1>4. AccountOK
  <2>1. env.own \in Nat
    BY <1>2 DEF Environment
  <2>2. QED BY <1>2, <1>3, <2>1, NothingTotals, CoinConstants
               DEF Init, AccountOK
<1>5. FlagsOK /\ PositionOK /\ HighOK /\ BudgetsOK
  BY DEF Init, FlagsOK, PositionOK, HighOK, BudgetsOK
<1>6. CacheOK
  BY DEF Init, CacheOK, NoPosition
<1>7. OrdersOK /\ BooksOK /\ FillsOK
  BY <1>2, CoinConstants DEF Init, OrdersOK, BooksOK, FillsOK
<1>8. PollOK
  BY IdTypes DEF Init, PollOK, Labels
<1>9. QED BY <1>2, <1>4, <1>5, <1>6, <1>7, <1>8 DEF TypeInv

LEMMA OrderType ==
  ASSUME TypeInv, NEW o \in OrderId
  PROVE  /\ order[o].side \in {"BUY", "SELL"} /\ order[o].left \in Nat
         /\ order[o].done \in Nat
         /\ order[o].state \in {"none", "wait", "done", "cancel"}
<1>1. order[o] \in Order
  BY DEF TypeInv, AccountOK
<1>2. QED BY <1>1 DEF Order

(* Order o becomes x, and the account has locked that much more.           *)
LEMMA OneOrder ==
  ASSUME TypeInv, NEW o \in OrderId, NEW x \in Order,
         order' = [order EXCEPT ![o] = x],
         locked' = locked + (LentBy(x) - LentBy(order[o]))
  PROVE  /\ Total(Lent', locked') /\ order' \in [OrderId -> Order]
         /\ LentBy(order[o]) \in Nat /\ LentBy(x) \in Nat
         /\ order'[o] = x /\ \A p \in OrderId : p # o => order'[p] = order[p]
<1>1. order \in [OrderId -> Order] /\ Total(Lent, locked)
  BY DEF TypeInv, AccountOK
<1>2. \A y \in Order : LentBy(y) \in Nat
  BY DEF LentBy, Order
<1>3. /\ order' \in [OrderId -> Order] /\ order'[o] = x
      /\ \A p \in OrderId : p # o => order'[p] = order[p]
  BY <1>1
<1>4. Lent' = [Lent EXCEPT ![o] = LentBy(x)]
  BY <1>3 DEF Lent
<1>5. /\ Lent[o] = LentBy(order[o]) /\ LentBy(x) \in Nat
      /\ LentBy(order[o]) \in Nat
  BY <1>1, <1>2 DEF Lent
<1>6. Total([Lent EXCEPT ![o] = LentBy(x)], locked + (LentBy(x) - Lent[o]))
  BY <1>1, <1>5, OneChanges
<1>7. QED BY <1>3, <1>4, <1>5, <1>6

(* The type invariant in parts: each step disturbs a few.                  *)
LEMMA PartsKeep ==
  ASSUME TypeInv
  PROVE  /\ UNCHANGED <<upbit, sold>> => AccountOK'
         /\ UNCHANGED <<placed, inBuy, exitOrder, sellId, stat>> => OrdersOK'
         /\ UNCHANGED <<pending, lock, rested>> => FlagsOK'
         /\ UNCHANGED position => PositionOK'
         /\ UNCHANGED high => HighOK'
         /\ UNCHANGED <<cache, gen>> => CacheOK'
         /\ UNCHANGED books => BooksOK'
         /\ UNCHANGED fills => FillsOK'
         /\ UNCHANGED <<pc, qty, seen, fid>> => PollOK'
         /\ UNCHANGED budgets => BudgetsOK'
         /\ env \in Environment
<1>1. ASSUME UNCHANGED <<upbit, sold>> PROVE AccountOK'
  <2>1. Lent' = Lent
    BY <1>1 DEF Lent, upbit
  <2>2. QED BY <1>1, <2>1 DEF TypeInv, AccountOK, upbit
<1>2. QED
  BY <1>1
     DEF TypeInv, OrdersOK, FlagsOK, PositionOK, HighOK, CacheOK, BooksOK,
         FillsOK, PollOK, BudgetsOK, position, high, books, fills, budgets

LEMMA TakeType ==
  ASSUME TypeInv, NEW n \in Nat, NEW side \in {"BUY", "SELL"}, Take(side, n)
  PROVE  /\ placed + 1 \in OrderId /\ placed' = placed + 1
         /\ placed' \in 0..MaxOrders
         /\ order' \in [OrderId -> Order] /\ held' = held
         /\ order'[placed + 1]
            = [side |-> side, left |-> n, done |-> 0, state |-> "wait"]
         /\ \A o \in OrderId : o # placed + 1 => order'[o] = order[o]
         /\ sold' = sold => AccountOK'
<1> DEFINE o == placed + 1
           x == [side |-> side, left |-> n, done |-> 0, state |-> "wait"]
<1>t. AccountOK
  BY DEF TypeInv
<1>1. /\ o \in OrderId /\ placed' = o /\ placed' \in 0..MaxOrders /\ o > placed
      /\ held' = held
  BY EnvType DEF Take, OrderId
<1>2. x \in Order /\ LentBy(x) = IF side = "SELL" THEN n ELSE 0
  BY DEF Order, LentBy
<1>3. LentBy(order[o]) = 0
  BY <1>t, <1>1 DEF AccountOK, LentBy, NoOrder
<1>4. order' = [order EXCEPT ![o] = x]
  BY DEF Take
<1>5. locked \in Nat /\ locked <= held /\ held \in Nat
  BY <1>t, LockedType
<1>6. locked' = locked + (LentBy(x) - LentBy(order[o])) /\ locked' <= held
  BY <1>2, <1>3, <1>5 DEF Take, Free
<1> HIDE DEF o, x
<1>7. /\ Total(Lent', locked') /\ order' \in [OrderId -> Order]
      /\ order'[o] = x /\ \A p \in OrderId : p # o => order'[p] = order[p]
  BY <1>1, <1>2, <1>4, <1>6, OneOrder
<1>8. sold' = sold => AccountOK'
  <2>1. \A p \in OrderId : p > placed' => p # o /\ p > placed
    BY <1>1, EnvType DEF OrderId
  <2>2. QED BY <1>t, <1>1, <1>5, <1>6, <1>7, <2>1 DEF AccountOK
<1>9. QED BY <1>1, <1>7, <1>8 DEF o, x

(* What Upbit executes of an order.                                        *)
LEMMA FillType ==
  ASSUME TypeInv, NEW o \in OrderId, FillOrder(o)
  PROVE  /\ AccountOK'
         /\ \E n \in 0..order[o].left :
              /\ "partial" \notin Weak => n = order[o].left
              /\ order[o].left > 0 => n > 0
              /\ order'[o] = [side |-> order[o].side,
                              left |-> order[o].left - n,
                              done |-> order[o].done + n,
                              state |-> IF n = order[o].left
                                        THEN "done" ELSE "wait"]
              /\ \A p \in OrderId : p # o => order'[p] = order[p]
              /\ IF order[o].side = "BUY"
                 THEN held' = held + n /\ UNCHANGED <<locked, sold>>
                 ELSE held' = held - n /\ locked' = locked - n
                   /\ sold' = sold + n
<1>t. AccountOK
  BY DEF TypeInv
<1>1. /\ order[o].side \in {"BUY", "SELL"} /\ order[o].left \in Nat
      /\ order[o].done \in Nat /\ order[o].state = "wait"
  BY OrderType DEF FillOrder
<1>2. PICK n \in IF "partial" \in Weak THEN 1..order[o].left
                ELSE {order[o].left} :
        /\ order' = [order EXCEPT ![o] =
             [side |-> order[o].side, left |-> order[o].left - n,
              done |-> order[o].done + n,
              state |-> IF n = order[o].left THEN "done" ELSE "wait"]]
        /\ IF order[o].side = "BUY"
           THEN held' = held + n /\ UNCHANGED <<locked, sold>>
           ELSE held' = held - n /\ locked' = locked - n /\ sold' = sold + n
  BY DEF FillOrder
<1>3. n \in 0..order[o].left /\ (order[o].left > 0 => n > 0) /\ n \in Nat
      /\ order[o].left - n \in Nat
      /\ ("partial" \notin Weak => n = order[o].left)
  BY <1>1, <1>2
<1> DEFINE x == [side |-> order[o].side, left |-> order[o].left - n,
                 done |-> order[o].done + n,
                 state |-> IF n = order[o].left THEN "done" ELSE "wait"]
<1>4. x \in Order
  BY <1>1, <1>3 DEF Order
<1>5. LentBy(order[o]) = IF order[o].side = "SELL" THEN order[o].left ELSE 0
  BY <1>1 DEF LentBy
<1>6. LentBy(x) = IF order[o].side = "SELL" THEN order[o].left - n ELSE 0
  <2>1. CASE n = order[o].left
    BY <1>1, <1>3, <2>1 DEF LentBy
  <2>2. CASE n # order[o].left
    BY <1>1, <1>3, <2>2 DEF LentBy
  <2>3. QED BY <2>1, <2>2
<1>7. order' = [order EXCEPT ![o] = x]
  BY <1>2
<1> HIDE DEF x
<1>8. /\ locked \in Nat /\ locked <= held /\ held \in Nat
      /\ LentBy(order[o]) <= locked
  BY <1>t, LockedType
<1>9. locked' = locked + (LentBy(x) - LentBy(order[o]))
  BY <1>1, <1>2, <1>3, <1>5, <1>6, <1>8
<1>10. /\ Total(Lent', locked') /\ order' \in [OrderId -> Order]
       /\ order'[o] = x /\ \A p \in OrderId : p # o => order'[p] = order[p]
  BY <1>4, <1>7, <1>9, OneOrder
<1>11. held' \in Nat /\ locked' <= held' /\ sold' \in Nat
  BY <1>1, <1>2, <1>3, <1>5, <1>8, <1>t DEF AccountOK
<1>12. placed' = placed /\ o <= placed
  BY <1>t, <1>1, EnvType DEF FillOrder, AccountOK, NoOrder, OrderId
<1>13. AccountOK'
  <2>1. \A p \in OrderId : p > placed' => p # o /\ p > placed
    BY <1>12, EnvType DEF OrderId
  <2>2. QED BY <1>t, <1>10, <1>11, <1>12, <2>1 DEF AccountOK
<1>14. QED BY <1>2, <1>3, <1>10, <1>13 DEF x

(* What closing an order leaves of it.                                     *)
LEMMA CloseType ==
  ASSUME TypeInv, NEW o \in OrderId,
         order' = [order EXCEPT ![o].state = "cancel"],
         order[o].state # "none",
         locked' = locked - LentBy(order[o]), UNCHANGED <<held, placed, sold>>
  PROVE  /\ AccountOK'
         /\ order'[o] = [side |-> order[o].side, left |-> order[o].left,
                         done |-> order[o].done, state |-> "cancel"]
         /\ \A p \in OrderId : p # o => order'[p] = order[p]
<1>t. AccountOK
  BY DEF TypeInv
<1> DEFINE x == [side |-> order[o].side, left |-> order[o].left,
                 done |-> order[o].done, state |-> "cancel"]
<1>1. x \in Order /\ LentBy(x) = 0
  BY OrderType DEF Order, LentBy
<1>2. order' = [order EXCEPT ![o] = x]
  <2>1. order[o] \in Order
    BY <1>t DEF AccountOK
  <2>2. order[o] = [side |-> order[o].side, left |-> order[o].left,
                    done |-> order[o].done, state |-> order[o].state]
    BY <2>1 DEF Order
  <2>3. order' = [order EXCEPT ![o] = [order[o] EXCEPT !.state = "cancel"]]
    OBVIOUS
  <2>4. QED BY <2>2, <2>3
<1> HIDE DEF x
<1>3. /\ locked \in Nat /\ locked <= held /\ held \in Nat
      /\ LentBy(order[o]) <= locked
      /\ LentBy(order[o]) \in Nat
  BY <1>t, LockedType, OrderType DEF LentBy
<1>4. locked' = locked + (LentBy(x) - LentBy(order[o])) /\ locked' <= held
  BY <1>1, <1>3
<1>5. /\ Total(Lent', locked') /\ order' \in [OrderId -> Order]
      /\ order'[o] = x /\ \A p \in OrderId : p # o => order'[p] = order[p]
  BY <1>1, <1>2, <1>4, OneOrder
<1>6. \A p \in OrderId : p > placed => p # o
  BY <1>t DEF AccountOK, NoOrder
<1>7. AccountOK'
  BY <1>t, <1>4, <1>5, <1>6 DEF AccountOK
<1>8. QED BY <1>5, <1>7 DEF x

LEMMA BookType ==
  ASSUME TypeInv, NEW f, f.id \in FillIds, f.side \in {"BUY", "SELL"},
         f.qty \in Nat, Book(f)
  PROVE  PositionOK' /\ HighOK' /\ BooksOK' /\ (cache' = cache => CacheOK')
<1>2. PositionOK /\ HighOK /\ BooksOK /\ CacheOK
  BY DEF TypeInv
<1>3. CASE UNCHANGED <<position, high, books>>
  BY <1>2, <1>3, PartsKeep DEF position
<1>4. CASE ~(f.id \in booked \/ (f.side = "SELL" /\ posq = 0))
  <2>1. booked' = booked \cup {f.id} /\ dying' = FALSE /\ due' = due
        /\ hwmTs' = hwmTs
    BY <1>4 DEF Book
  <2>2. CASE f.side = "BUY"
    <3>1. /\ posq' = posq + f.qty /\ bookSell' = bookSell /\ idx' = TRUE
          /\ unpriced' = unpriced
          /\ gen' = IF posq = 0 THEN gen + 1 ELSE gen
          /\ hwm' = gen' \/ hwm' = hwm
      BY <1>4, <2>2 DEF Book
    <3>2. posq + f.qty \in Nat /\ gen' \in Nat /\ gen' >= gen
      BY <1>2, <3>1 DEF PositionOK
    <3>2a. HighOK'
      BY <1>2, <2>1, <3>1, <3>2 DEF HighOK
    <3>3. PositionOK'
      BY <1>2, <2>1, <3>1, <3>2 DEF PositionOK
    <3>4. 0..gen \subseteq 0..gen'
      BY <1>2, <3>2 DEF PositionOK
    <3>5. QED
      BY <1>2, <2>1, <3>1, <3>2, <3>2a, <3>3, <3>4 DEF BooksOK, CacheOK
  <2>3. CASE f.side # "BUY"
    <3>0. f.qty \in Nat /\ posq \in Nat /\ bookSell \in Nat /\ unpriced \in Nat
      BY <1>2 DEF PositionOK, BooksOK
    <3>1. Smaller(f.qty, posq) \in Nat /\ posq - Smaller(f.qty, posq) \in Nat
      BY <3>0 DEF Smaller
    <3>2. /\ posq' = posq - Smaller(f.qty, posq) /\ idx' = (posq' > 0)
          /\ gen' = gen /\ hwm' = hwm
          /\ bookSell' = bookSell + Smaller(f.qty, posq)
      BY <1>4, <2>3 DEF Book
    <3>2a. unpriced' \in {unpriced, unpriced + Smaller(f.qty, posq)}
      BY <1>4, <2>3 DEF Book
    <3>3. (idx' \in BOOLEAN) /\ (dying' \in BOOLEAN)
      <4>1. posq' \in Nat
        BY <3>1, <3>2
      <4>2. idx' = (posq' > 0)
        BY <3>2
      <4>3. (posq' > 0) \in BOOLEAN
        BY <4>1
      <4>4. QED BY <2>1, <4>2, <4>3, Zenon
    <3>4. PositionOK'
      BY <1>2, <2>1, <3>1, <3>2, <3>3 DEF PositionOK
    <3>5. bookSell' \in Nat /\ unpriced' \in Nat
      BY <3>0, <3>1, <3>2, <3>2a
    <3>6. QED BY <1>2, <2>1, <3>2, <3>4, <3>5 DEF BooksOK, CacheOK, HighOK
  <2>4. QED BY <2>2, <2>3
<1>5. QED BY <1>3, <1>4 DEF Book

LEMMA TypeUpbit ==
  ASSUME TypeInv, NEW o \in OrderId,
         FillOrder(o) \/ CancelSell(o) \/ WatchDone(o) \/ WatchCanceled(o)
  PROVE  TypeInv'
<1>t. /\ AccountOK /\ OrdersOK /\ BudgetsOK
      /\ order[o].side \in {"BUY", "SELL"} /\ order[o].left \in Nat
      /\ order[o].done \in Nat
  BY OrderType DEF TypeInv
<1>1. CASE FillOrder(o)
  <2>1. AccountOK'
    BY <1>1, FillType
  <2>2. QED
    BY <1>1, <2>1, PartsKeep
       DEF FillOrder, TypeInv, position, high, guards, fills, sellers, poll,
           budgets, books
<1>2. CASE CancelSell(o)
  <2>1. AccountOK'
    <3>1. order[o].side = "SELL" /\ order[o].state = "wait"
      BY <1>2 DEF CancelSell, OpenSells
    <3>2. LentBy(order[o]) = order[o].left
      BY <3>1 DEF LentBy
    <3>3. QED BY <1>2, <3>1, <3>2, CloseType DEF CancelSell
  <2>2. BudgetsOK'
    BY <1>2, <1>t DEF CancelSell, BudgetsOK
  <2>3. UNCHANGED <<placed, inBuy, exitOrder, sellId, stat, pending, lock,
                    rested, pc, qty, seen, fid>>
    BY <1>2 DEF CancelSell, guards, sellers, poll
  <2>4. /\ UNCHANGED <<env, position, high, fills, books>>
        /\ UNCHANGED <<cache, gen>>
    BY <1>2 DEF CancelSell, position
  <2>5. QED BY <2>1, <2>2, <2>3, <2>4, PartsKeep DEF TypeInv
<1>3. CASE WatchDone(o)
  <2>1. OrdersOK'
    BY <1>3, <1>t DEF WatchDone, OrdersOK, guards, sellers, upbit
  <2>2. <<"order", o>> \in FillIds
    <3>1. o \in Nat
      BY EnvType DEF OrderId
    <3>2. QED BY <3>1, IdTypes
  <2>3. PositionOK' /\ HighOK' /\ BooksOK' /\ CacheOK'
    BY <1>3, <1>t, <2>2, BookType DEF WatchDone
  <2>4. QED
    BY <1>3, <2>1, <2>3, PartsKeep
       DEF WatchDone, TypeInv, guards, sellers, poll
<1>4. CASE WatchCanceled(o)
  <2>1. OrdersOK'
    BY <1>4, <1>t DEF WatchCanceled, OrdersOK, guards, sellers
  <2>2. AccountOK'
    <3>1. CASE UNCHANGED order
      BY <1>4, <3>1, PartsKeep DEF WatchCanceled, upbit
    <3>2. CASE order[o].side = "BUY" /\ order[o].state = "wait"
               /\ order' = [order EXCEPT ![o].state = "cancel"]
      <4>1. locked' = locked - LentBy(order[o])
        <5>1. LentBy(order[o]) = 0 /\ locked \in Nat /\ locked' = locked
          BY <1>4, <1>t, <3>2, LockedType DEF LentBy, WatchCanceled
        <5>2. QED BY <5>1
      <4>2. QED BY <1>4, <3>2, <4>1, CloseType DEF WatchCanceled
    <3>3. QED BY <1>4, <3>1, <3>2 DEF WatchCanceled
  <2>3. UNCHANGED <<pending, lock, rested, pc, qty, seen, fid>>
    BY <1>4 DEF WatchCanceled, guards, sellers, poll
  <2>4. /\ UNCHANGED <<env, position, high, fills, books, budgets>>
        /\ UNCHANGED <<cache, gen>>
    BY <1>4 DEF WatchCanceled, position
  <2>5. QED BY <2>1, <2>2, <2>3, <2>4, PartsKeep DEF TypeInv
<1>5. QED BY <1>1, <1>2, <1>3, <1>4

LEMMA TypeTraders ==
  ASSUME TypeInv, PlaceBuy \/ RecordBuy \/ LoseBuy \/ ApplyFill
  PROVE  TypeInv'
<1>t. AccountOK /\ OrdersOK /\ FlagsOK /\ FillsOK /\ BudgetsOK
  BY DEF TypeInv
<1>1. CASE PlaceBuy
  <2>1. Take("BUY", env.lot) /\ env.lot \in Nat
    BY <1>1, EnvType DEF PlaceBuy
  <2>2. placed' = placed + 1 /\ placed' \in 0..MaxOrders /\ AccountOK'
    BY <1>1, <2>1, TakeType DEF PlaceBuy
  <2>3. OrdersOK'
    <3>1. \A n \in 0..placed : n \in 0..placed'
      BY <2>2, EnvType
    <3>2. inBuy' \in 0..placed' /\ UNCHANGED <<exitOrder, sellId, stat>>
      BY <1>1, <2>2, EnvType DEF PlaceBuy, guards, sellers
    <3>3. QED BY <1>t, <3>1, <3>2 DEF OrdersOK
  <2>4. BudgetsOK' /\ FlagsOK'
    <3>1. /\ UNCHANGED <<crashes, outages, pending, lock>> /\ rested' = FALSE
          /\ buys' = buys + 1
      BY <1>1 DEF PlaceBuy, guards
    <3>2. BudgetsOK'
      BY <1>t, <3>1 DEF BudgetsOK
    <3>3. QED BY <1>t, <3>1, <3>2 DEF FlagsOK
  <2>5. QED
    BY <1>1, <2>2, <2>3, <2>4, PartsKeep
       DEF PlaceBuy, TypeInv, sellers, poll, position
<1>2. CASE RecordBuy
  <2>1. OrdersOK' /\ FlagsOK'
    BY <1>2, <1>t, EnvType DEF RecordBuy, OrdersOK, FlagsOK, upbit, sellers
  <2>2. QED BY <1>2, <2>1, PartsKeep
               DEF RecordBuy, TypeInv, sellers, poll, position
<1>3. CASE LoseBuy
  <2>1. OrdersOK' /\ BudgetsOK'
    BY <1>3, <1>t, EnvType
       DEF LoseBuy, OrdersOK, BudgetsOK, upbit, sellers, guards
  <2>2. QED BY <1>3, <2>1, PartsKeep
               DEF LoseBuy, TypeInv, sellers, poll, position, guards
<1>4. CASE ApplyFill
  <2>1. Head(queue) \in Fills /\ Tail(queue) \in Seq(Fills)
    BY <1>4, <1>t DEF ApplyFill, FillsOK
  <2>2. /\ Head(queue).id \in FillIds /\ Head(queue).side = "SELL"
        /\ Head(queue).qty \in Nat
    BY <2>1 DEF Fills
  <2>3. FillsOK' /\ PositionOK' /\ HighOK' /\ BooksOK' /\ CacheOK'
    BY <1>4, <1>t, <2>1, <2>2, BookType DEF ApplyFill, FillsOK
  <2>4. QED BY <1>4, <2>3, PartsKeep
               DEF ApplyFill, TypeInv, upbit, sellers, poll, guards
<1>5. QED BY <1>1, <1>2, <1>3, <1>4

LEMMA TypeSync ==
  ASSUME TypeInv, Sync \/ BalancesFail \/ OrphanScan
  PROVE  TypeInv'
<1>t. /\ AccountOK /\ OrdersOK /\ FlagsOK /\ PositionOK /\ HighOK /\ FillsOK
      /\ PollOK
      /\ BudgetsOK /\ CacheOK
  BY DEF TypeInv
<1> USE DEF Labels, Seller
<1>1. CASE Balances
  <2>1. PollOK'
    BY <1>1, <1>t, LockedType DEF Balances, Goto, PollOK
  <2>2. QED BY <1>1, <2>1, PartsKeep
               DEF Balances, TypeInv, upbit, guards, position
<1>2. CASE BalancesFail
  <2>1. PollOK' /\ BudgetsOK'
    BY <1>2, <1>t DEF BalancesFail, Goto, PollOK, BudgetsOK, PositionOK, poll
  <2>2. QED BY <1>2, <2>1, PartsKeep
               DEF BalancesFail, TypeInv, upbit, guards, position
<1>3. CASE ReadIndex
  <2>1. PollOK'
    BY <1>3, <1>t DEF ReadIndex, Goto, PollOK, poll
  <2>2. QED BY <1>3, <2>1, PartsKeep
               DEF ReadIndex, TypeInv, upbit, guards, position
<1>4. CASE WriteHolding
  <2>1. PositionOK' /\ PollOK'
    BY <1>4, <1>t DEF WriteHolding, Goto, PositionOK, PollOK, poll
  <2>2. QED BY <1>4, <2>1, PartsKeep DEF WriteHolding, TypeInv, upbit, guards
<1>5. CASE Missing
  <2>1. fid' \in FillIds /\ claimed' \subseteq FillIds
    <3>1. exitOrder \in Nat
      BY <1>t, EnvType DEF OrdersOK
    <3>2. fid' \in FillIds
      BY <1>5, <1>t, <3>1, IdTypes DEF Missing, PollOK
    <3>3. claimed' = claimed \/ claimed' = claimed \cup {fid'}
      BY <1>5 DEF Missing
    <3>4. QED BY <1>t, <3>2, <3>3 DEF FillsOK
  <2>2. FillsOK' /\ PollOK'
    BY <1>5, <1>t, <2>1 DEF Missing, Goto, FillsOK, PollOK, PositionOK
  <2>3. QED BY <1>5, <2>2, PartsKeep
               DEF Missing, TypeInv, upbit, guards, position
<1>6. CASE PushSale
  <2>1. [id |-> fid, side |-> "SELL", qty |-> qty["runner"],
         priced |-> fid[1] = "order"]
          \in Fills
    <3>1. /\ fid \in FillIds /\ qty["runner"] \in Nat
          /\ (fid[1] = "order") \in BOOLEAN
      BY <1>t DEF PollOK
    <3>2. QED BY <3>1, Zenon DEF Fills
  <2>2. FillsOK' /\ PollOK'
    <3>1. PollOK'
      BY <1>6, <1>t DEF PushSale, Goto, PollOK, poll
    <3>2. claimed' = claimed /\ queue' \in Seq(Fills)
      BY <1>6, <1>t, <2>1 DEF PushSale, FillsOK
    <3>3. QED BY <1>t, <3>1, <3>2 DEF FillsOK
  <2>3. QED BY <1>6, <2>2, PartsKeep
               DEF PushSale, TypeInv, upbit, guards, position
<1>7. CASE RemovePosition
  <2>1. PositionOK'
    <3>1. (dying' \in BOOLEAN) /\ idx' = FALSE /\ UNCHANGED <<posq, gen, due>>
      <4>1. CASE posq > 0
        BY <1>7, <4>1 DEF RemovePosition
      <4>2. CASE ~(posq > 0)
        BY <1>7, <4>2 DEF RemovePosition
      <4>3. QED BY <4>1, <4>2
    <3>2. QED BY <1>t, <3>1 DEF PositionOK
  <2>2. PollOK' /\ FlagsOK' /\ HighOK'
    BY <1>7, <1>t DEF RemovePosition, Goto, PollOK, FlagsOK, HighOK, poll
  <2>3. OrdersOK'
    BY <1>7, <1>t, EnvType DEF RemovePosition, OrdersOK, upbit
  <2>4. QED BY <1>7, <2>1, <2>2, <2>3, PartsKeep
               DEF RemovePosition, TypeInv, upbit
<1>8. CASE OrphanScan
  <2>1. HighOK'
    BY <1>8, <1>t DEF OrphanScan, DropHigh, HighOK
  <2>2. FlagsOK'
    <3>1. AllGone \in BOOLEAN
      BY DEF AllGone
    <3>2. rested' = AllGone /\ UNCHANGED <<pending, lock>>
      BY <1>8 DEF OrphanScan, guards
    <3>3. QED BY <1>t, <3>1, <3>2, Zenon DEF FlagsOK
  <2>3. QED
    BY <1>8, <2>1, <2>2, PartsKeep
       DEF OrphanScan, TypeInv, upbit, guards, position, sellers, poll
<1>9. QED BY <1>1, <1>2, <1>3, <1>4, <1>5, <1>6, <1>7, <1>8 DEF Sync

LEMMA TypeDecides ==
  ASSUME TypeInv,
         \/ Evaluate \/ Raise \/ Scan \/ Ticker \/ Look
         \/ \E p \in Seller : TakeLock(p)
  PROVE  TypeInv'
<1>t. FlagsOK /\ PositionOK /\ HighOK /\ CacheOK /\ PollOK
  BY DEF TypeInv
<1> USE DEF Labels, Seller
<1>1. ASSUME Evaluate \/ Look PROVE TypeInv'
  <2>1. PollOK'
    <3>1. \E p \in Seller, label \in Labels : pc' = [pc EXCEPT ![p] = label]
      BY <1>1 DEF Evaluate, Look, PassLock, ExitNow, Goto
    <3>2. UNCHANGED <<qty, seen, fid>>
      BY <1>1 DEF Evaluate, Look, poll
    <3>3. QED BY <1>t, <3>1, <3>2 DEF PollOK
  <2>2. FlagsOK' /\ UNCHANGED <<inBuy, exitOrder, sellId, stat, upbit, sold>>
    <3>1. lock' \in {lock, FALSE}
      BY <1>1 DEF Evaluate, Look, PassLock
    <3>2. /\ UNCHANGED <<pending, rested>>
          /\ UNCHANGED <<inBuy, exitOrder, sellId, stat, upbit, sold>>
      BY <1>1 DEF Evaluate, Look
    <3>3. QED BY <1>t, <3>1, <3>2 DEF FlagsOK
  <2>3. /\ UNCHANGED <<env, position, high, fills, books, budgets>>
        /\ UNCHANGED <<cache, gen>>
    BY <1>1 DEF Evaluate, Look, position
  <2>4. UNCHANGED placed
    BY <2>2 DEF upbit
  <2>5. QED BY <2>1, <2>2, <2>3, <2>4, PartsKeep DEF TypeInv
<1>5. CASE Raise
  <2>1. PollOK'
    BY <1>5, <1>t DEF Raise, ExitNow, Goto, PollOK, poll
  <2>2. HighOK'
    BY <1>5, <1>t DEF Raise, RaiseHigh, HighOK, PositionOK
  <2>3. /\ UNCHANGED <<pending, lock, rested>>
        /\ UNCHANGED <<inBuy, exitOrder, sellId, stat, upbit, sold>>
    BY <1>5 DEF Raise, guards
  <2>4. /\ UNCHANGED <<env, position, fills, books, budgets>>
        /\ UNCHANGED <<cache, gen>>
    BY <1>5 DEF Raise, position
  <2>5. UNCHANGED placed
    BY <2>3 DEF upbit
  <2>6. QED BY <2>1, <2>2, <2>3, <2>4, <2>5, PartsKeep DEF TypeInv
<1>2. CASE Scan
  <2>1. CacheOK'
    <3>1. posq \in Nat /\ gen \in 0..gen /\ 0 \in 0..gen /\ gen' = gen
      BY <1>2, <1>t DEF Scan, PositionOK, position
    <3>2. QED BY <1>2, <3>1 DEF Scan, CacheOK, NoPosition
  <2>2. UNCHANGED <<inBuy, exitOrder, sellId, stat, upbit, sold, pending,
                    lock, rested, pc, qty, seen, fid>>
    BY <1>2 DEF Scan, guards, sellers, poll
  <2>3. UNCHANGED <<env, position, high, fills, books, budgets>>
    BY <1>2 DEF Scan
  <2>4. UNCHANGED placed
    BY <2>2 DEF upbit
  <2>5. QED BY <2>1, <2>2, <2>3, <2>4, PartsKeep DEF TypeInv
<1>3. CASE Ticker
  <2>0. cache.qty \in Nat /\ cache.gen \in Nat
    BY <1>t DEF CacheOK, PositionOK
  <2>1. PollOK'
    BY <1>3, <1>t, <2>0 DEF Ticker, Goto, PollOK, poll
  <2>2. HighOK'
    BY <1>3, <1>t, <2>0 DEF Ticker, RaiseHigh, HighOK
  <2>3. /\ UNCHANGED <<pending, lock, rested>>
        /\ UNCHANGED <<inBuy, exitOrder, sellId, stat, upbit, sold>>
    BY <1>3 DEF Ticker, guards
  <2>4. /\ UNCHANGED <<env, position, fills, books, budgets>>
        /\ UNCHANGED <<cache, gen>>
    BY <1>3 DEF Ticker, position
  <2>5. UNCHANGED placed
    BY <2>3 DEF upbit
  <2>6. QED BY <2>1, <2>2, <2>3, <2>4, <2>5, PartsKeep DEF TypeInv
<1>4. ASSUME NEW p \in Seller, TakeLock(p) PROVE TypeInv'
  <2>1. PollOK'
    BY <1>4, <1>t DEF TakeLock, Goto, PollOK, poll
  <2>2. FlagsOK' /\ UNCHANGED <<inBuy, exitOrder, sellId, stat, upbit, sold>>
    BY <1>4, <1>t DEF TakeLock, FlagsOK, sellers
  <2>3. /\ UNCHANGED <<env, position, high, fills, books, budgets>>
        /\ UNCHANGED <<cache, gen>>
    BY <1>4 DEF TakeLock, position
  <2>4. UNCHANGED placed
    BY <2>2 DEF upbit
  <2>5. QED BY <2>1, <2>2, <2>3, <2>4, PartsKeep DEF TypeInv
<1>6. QED BY <1>1, <1>2, <1>3, <1>4, <1>5

LEMMA TypeSells ==
  ASSUME TypeInv, NEW p \in Seller,
         PlaceSell(p) \/ RecordSell(p) \/ CrashSeller(p)
  PROVE  TypeInv'
<1>t. /\ AccountOK /\ OrdersOK /\ FlagsOK /\ PositionOK /\ HighOK /\ CacheOK
      /\ PollOK
      /\ BudgetsOK
  BY DEF TypeInv
<1>q. qty[p] \in Nat /\ placed \in Nat
  BY <1>t, EnvType DEF PollOK
<1>1. CASE PlaceSell(p)
  <2>1. \/ Take("SELL", qty[p]) /\ sellId' = [sellId EXCEPT ![p] = placed']
        \/ Take("SELL", qty[p]) /\ sellId' = sellId
        \/ UNCHANGED upbit /\ sellId' = sellId
    BY <1>1 DEF PlaceSell
  <2>2. /\ AccountOK' /\ placed' \in 0..MaxOrders
        /\ placed' \in {placed, placed + 1}
    <3>1. UNCHANGED sold
      BY <1>1 DEF PlaceSell
    <3>2. CASE UNCHANGED upbit
      BY <1>t, <1>q, <3>1, <3>2, PartsKeep DEF upbit, AccountOK
    <3>3. CASE Take("SELL", qty[p])
      BY <1>q, <3>1, <3>3, TakeType
    <3>4. QED BY <2>1, <3>2, <3>3
  <2>3. OrdersOK'
    <3>1. \A n \in 0..placed : n \in 0..placed'
      BY <1>q, <2>2
    <3>2. placed' \in 0..placed'
      BY <1>q, <2>2
    <3>3. sellId' = sellId \/ sellId' = [sellId EXCEPT ![p] = placed']
      BY <2>1
    <3>4. UNCHANGED <<inBuy, exitOrder, stat>>
      BY <1>1 DEF PlaceSell
    <3>5. sellId' \in [Seller -> 0..placed']
      BY <1>t, <3>1, <3>2, <3>3 DEF OrdersOK
    <3>6. QED BY <1>t, <3>1, <3>4, <3>5 DEF OrdersOK
  <2>4. FlagsOK'
    BY <1>1, <1>t DEF PlaceSell, FlagsOK
  <2>5. BudgetsOK'
    BY <1>1, <1>t DEF PlaceSell, BudgetsOK
  <2>6. PollOK'
    <3>1. UNCHANGED <<qty, seen, fid>>
      BY <1>1 DEF PlaceSell, poll
    <3>2. pc' \in [Seller -> Labels]
      <4>1. \/ pc' = [pc EXCEPT ![p] = "record"]
            \/ pc' = [pc EXCEPT ![p] = "idle"]
        BY <1>1 DEF PlaceSell, Goto
      <4>2. QED BY <1>t, <4>1 DEF PollOK, Labels
    <3>3. QED BY <1>t, <3>1, <3>2 DEF PollOK
  <2>7. /\ UNCHANGED <<env, position, high, fills, books>>
        /\ UNCHANGED <<cache, gen>>
    BY <1>1 DEF PlaceSell, position
  <2>8. QED
    BY <2>2, <2>3, <2>4, <2>5, <2>6, <2>7, PartsKeep DEF TypeInv
<1>2. CASE RecordSell(p)
  <2>1. OrdersOK'
    <3>1. /\ exitOrder' = sellId[p] /\ sellId' = [sellId EXCEPT ![p] = 0]
          /\ stat' = [stat EXCEPT ![sellId[p]] = "SUBMITTED"]
          /\ UNCHANGED <<placed, inBuy>>
      BY <1>2 DEF RecordSell, upbit
    <3>2. sellId[p] \in 0..placed /\ 0 \in 0..placed
      BY <1>t, <1>q DEF OrdersOK
    <3>3. QED BY <1>t, <3>1, <3>2 DEF OrdersOK
  <2>2. PollOK'
    <3>1. UNCHANGED <<qty, seen, fid>>
      BY <1>2 DEF RecordSell, poll
    <3>2. pc' \in [Seller -> Labels]
      BY <1>2, <1>t DEF RecordSell, Goto, PollOK, Labels
    <3>3. QED BY <1>t, <3>1, <3>2 DEF PollOK
  <2>3. UNCHANGED <<upbit, sold, pending, lock, rested>>
    BY <1>2 DEF RecordSell
  <2>4. /\ UNCHANGED <<env, position, high, fills, books, budgets>>
        /\ UNCHANGED <<cache, gen>>
    BY <1>2 DEF RecordSell, position
  <2>5. QED BY <2>1, <2>2, <2>3, <2>4, PartsKeep DEF TypeInv
<1>3. CASE CrashSeller(p)
  <2>1. OrdersOK'
    <3>1. /\ exitOrder' \in {exitOrder, 0}
          /\ sellId' = [sellId EXCEPT ![p] = 0]
          /\ UNCHANGED <<placed, inBuy, stat>>
      BY <1>3 DEF CrashSeller, upbit
    <3>2. 0 \in 0..placed
      BY <1>q
    <3>3. QED BY <1>t, <3>1, <3>2 DEF OrdersOK
  <2>2. PollOK'
    BY <1>3, <1>t DEF CrashSeller, Goto, PollOK, Labels, poll
  <2>3. HighOK'
    BY <1>3, <1>t DEF CrashSeller, HighOK
  <2>4. BudgetsOK'
    BY <1>3, <1>t DEF CrashSeller, BudgetsOK
  <2>5. FlagsOK'
    <3>1. (lock /\ idx) \in BOOLEAN
      OBVIOUS
    <3>2. lock' = (lock /\ idx) /\ UNCHANGED <<pending, rested>>
      BY <1>3 DEF CrashSeller
    <3>3. QED BY <1>t, <3>1, <3>2, Zenon DEF FlagsOK
  <2>6. UNCHANGED <<upbit, sold, env, position, fills, books, gen>>
    BY <1>3 DEF CrashSeller, position
  <2>7. CacheOK'
    <3>1. cache' \in {cache, NoPosition}
      BY <1>3 DEF CrashSeller
    <3>2. 0 \in 0..gen
      BY <1>t DEF PositionOK
    <3>3. QED BY <1>t, <2>6, <3>1, <3>2 DEF CacheOK, NoPosition
  <2>8. QED
    BY <2>1, <2>2, <2>3, <2>4, <2>5, <2>6, <2>7, PartsKeep DEF TypeInv
<1>4. QED BY <1>1, <1>2, <1>3

LEMMA TypeTime ==
  ASSUME TypeInv,
         CleanUp \/ LockExpires \/ PendingExpires \/ HashExpires \/ TimeUp
  PROVE  TypeInv'
<1>t. OrdersOK /\ FlagsOK /\ PositionOK /\ HighOK /\ CacheOK /\ PollOK
  BY DEF TypeInv
<1>q. placed \in Nat
  BY EnvType
<1>1. CASE CleanUp
  <2>1. OrdersOK' /\ HighOK'
    BY <1>1, <1>t, <1>q DEF CleanUp, OrdersOK, HighOK, upbit
  <2>2. PollOK'
    BY <1>1, <1>t DEF CleanUp, Goto, PollOK, Labels, Seller, poll
  <2>3. UNCHANGED <<env, upbit, sold, pending, lock, rested, position, fills,
                    books, budgets>>
        /\ UNCHANGED <<cache, gen>>
    BY <1>1 DEF CleanUp, position
  <2>4. QED BY <2>1, <2>2, <2>3, PartsKeep DEF TypeInv
<1>2. CASE LockExpires \/ PendingExpires
  <2>1. FlagsOK'
    BY <1>2, <1>t DEF LockExpires, PendingExpires, FlagsOK
  <2>2. UNCHANGED <<env, upbit, sold, position, high, fills, books, budgets>>
        /\ UNCHANGED <<cache, gen, inBuy, exitOrder, sellId, stat, pc, qty,
                       seen, fid>>
    BY <1>2 DEF LockExpires, PendingExpires, position, sellers, poll
  <2>3. UNCHANGED placed
    BY <2>2 DEF upbit
  <2>4. QED BY <2>1, <2>2, <2>3, PartsKeep DEF TypeInv
<1>3. CASE HashExpires \/ TimeUp
  <2>1. PositionOK'
    <3>1. /\ posq' \in {posq, 0} /\ due' \in {due, gen} /\ gen' = gen
          /\ idx' = idx
          /\ dying' = dying \/ dying' = FALSE
      BY <1>3 DEF HashExpires, TimeUp
    <3>2. posq' \in Nat /\ due' \in Nat /\ gen' \in Nat
      BY <1>t, <3>1 DEF PositionOK
    <3>3. QED BY <1>t, <3>1, <3>2 DEF PositionOK
  <2>2. UNCHANGED <<env, upbit, sold, high, fills, books, budgets, pending,
                    lock, rested>>
        /\ UNCHANGED <<cache, gen, inBuy, exitOrder, sellId, stat, pc, qty,
                       seen, fid>>
    BY <1>3 DEF HashExpires, TimeUp, sellers, poll, guards
  <2>3. UNCHANGED placed
    BY <2>2 DEF upbit
  <2>4. QED BY <2>1, <2>2, <2>3, PartsKeep DEF TypeInv
<1>4. QED BY <1>1, <1>2, <1>3

LEMMA TypeNext == TypeInv /\ [Next]_vars => TypeInv'
<1> SUFFICES ASSUME TypeInv, [Next]_vars PROVE TypeInv'
  OBVIOUS
<1>1. CASE UNCHANGED vars
  <2>1. UNCHANGED <<env, upbit, sold, position, high, fills, books, budgets>>
        /\ UNCHANGED <<cache, gen, inBuy, exitOrder, sellId, stat, pc, qty,
                       seen, fid, pending, lock, rested, placed>>
    BY <1>1 DEF vars, upbit, position, guards, sellers, poll
  <2>2. QED BY <2>1, PartsKeep DEF TypeInv
<1>2. ASSUME NEW p \in Seller, SellSteps(p) PROVE TypeInv'
  BY <1>2, TypeDecides, TypeSells DEF SellSteps
<1>3. CASE RunnerSteps \/ MonitorSteps \/ Scan
  <2>1. "runner" \in Seller /\ "monitor" \in Seller
    BY DEF Seller
  <2>2. QED
    BY <1>2, <1>3, <2>1, TypeSync, TypeDecides, TypeTime
       DEF RunnerSteps, MonitorSteps, MonitorGoesOn
<1>4. CASE Watch \/ \E o \in OrderId : FillOrder(o) \/ CancelSell(o)
  BY <1>4, TypeUpbit DEF Watch
<1>5. QED
  BY <1>1, <1>3, <1>4, TypeTraders, TypeSync, TypeSells, TypeTime DEF Next

LEMMA TypeHolds == Spec => []TypeInv
<1>1. Init => TypeInv
  BY TypeInit
<1>2. TypeInv /\ [Next]_vars => TypeInv'
  BY TypeNext
<1>3. QED BY <1>1, <1>2, PTL DEF Spec

(* The variables keep their types, and the account is never overdrawn: the *)
(* coins that open SELLs have locked, counted up order by order as Upbit   *)
(* takes, fills and closes them, are at no time more than it holds.        *)
THEOREM TypeCorrect == Spec => []TypeOK
<1>1. TypeInv => TypeOK
  BY TypeIs
<1>2. QED BY <1>1, TypeHolds, PTL

-----------------------------------------------------------------------------
(* The high of a position.                                                 *)

Calm == "early_rebuy" \notin Weak
Awaited(o) == stat[o] = "SUBMITTED"
IsBuy(o) == order[o].side = "BUY"
(* A BUY that is placed or awaited and not yet booked.                     *)
Buying == inBuy # 0 \/ \E o \in OrderId : IsBuy(o) /\ Awaited(o)

(* Nothing is left of the position before.                                 *)
NothingLeft ==
  /\ ~idx /\ posq = 0 /\ hwm = 0 /\ cache = NoPosition /\ queue = <<>>
  /\ pc["monitor"] = "idle" /\ pc["runner"] \in {"idle", "index"}
HighIsCurrent == hwm \in {0, gen} /\ (cache = NoPosition \/ cache.gen = gen)

(* Which orders are known, and as what.                                    *)
KnownOrders ==
  /\ \A o \in OrderId : stat[o] # "none" => o \in 1..placed
  /\ \A p \in Seller :
       pc[p] = "record" => sellId[p] \in 1..placed /\ ~IsBuy(sellId[p])
  /\ inBuy # 0 => IsBuy(inBuy)

(* Where no BUY comes early, one is placed only when nothing is left of    *)
(* the position before, and nothing comes of it until that BUY is booked.  *)
FreshStart ==
  /\ HighIsCurrent
  /\ rested \/ Buying => NothingLeft
  /\ rested \/ inBuy # 0 => \A o \in OrderId : ~Awaited(o)
  /\ rested => inBuy = 0
  /\ \A o, p \in OrderId : IsBuy(o) /\ Awaited(o) /\ Awaited(p) => o = p

FreshInv == KnownOrders /\ (Calm => FreshStart)

LEMMA CalmStays == [Next]_vars => Calm' = Calm
  BY EnvFixed DEF Calm, Weak

(* An order Upbit has taken stays a BUY or a SELL.                         *)
LEMMA SidesStay ==
  ASSUME TypeInv, [Next]_vars
  PROVE  /\ placed' \in Nat /\ placed <= placed' /\ placed' <= MaxOrders
         /\ \A o \in 1..placed : o \in OrderId /\ IsBuy(o)' = IsBuy(o)
<1>t. /\ AccountOK /\ (1..placed) \subseteq OrderId /\ placed \in Nat
      /\ placed <= MaxOrders
      /\ MaxOrders \in Nat
  BY EnvType DEF TypeInv
<1>n. TypeInv'
  BY TypeNext
<1>1. CASE UNCHANGED <<order, placed>>
  BY <1>t, <1>1 DEF IsBuy
<1>2. CASE \E o \in OrderId : FillOrder(o)
  <2>1. PICK o \in OrderId : FillOrder(o)
    BY <1>2
  <2>2. placed' = placed
    BY <2>1 DEF FillOrder
  <2>3. /\ order'[o].side = order[o].side
        /\ \A p \in OrderId : p # o => order'[p] = order[p]
    <3>1. PICK n \in 0..order[o].left :
            /\ order'[o] = [side |-> order[o].side, left |-> order[o].left - n,
                            done |-> order[o].done + n,
                            state |-> IF n = order[o].left
                                      THEN "done" ELSE "wait"]
            /\ \A p \in OrderId : p # o => order'[p] = order[p]
      BY <2>1, FillType
    <3>2. order'[o].side = order[o].side
      BY <3>1
    <3>3. QED BY <3>1, <3>2
  <2>4. \A p \in OrderId : order'[p].side = order[p].side
    BY <2>3
  <2>5. QED BY <1>t, <2>2, <2>4 DEF IsBuy
<1>3. CASE \E o \in OrderId : CancelSell(o) \/ WatchCanceled(o)
  <2>1. PICK o \in OrderId : CancelSell(o) \/ WatchCanceled(o)
    BY <1>3
  <2>2. /\ placed' = placed
        /\ (order' = order \/ order' = [order EXCEPT ![o].state = "cancel"])
    BY <2>1 DEF CancelSell, WatchCanceled
  <2>3. order \in [OrderId -> Order]
    BY <1>t DEF AccountOK
  <2>4. \A p \in OrderId : order'[p].side = order[p].side
    BY <2>2, <2>3 DEF Order
  <2>5. QED BY <1>t, <2>2, <2>4 DEF IsBuy
<1>4. ASSUME NEW side \in {"BUY", "SELL"}, NEW n \in Nat, Take(side, n)
      PROVE  placed' = placed + 1 /\ \A o \in 1..placed : order'[o] = order[o]
  <2>1. \A o \in 1..placed : o # placed + 1
    BY <1>t
  <2>2. QED BY <1>4, <1>t, <2>1, TakeType
<1>5. CASE PlaceBuy \/ \E p \in Seller : PlaceSell(p)
  <2>1. /\ env.lot \in Nat /\ \A p \in Seller : qty[p] \in Nat
    BY EnvType DEF TypeInv, PollOK
  <2>2. \/ UNCHANGED upbit
        \/ \E side \in {"BUY", "SELL"}, n \in Nat : Take(side, n)
    BY <1>5, <2>1 DEF PlaceBuy, PlaceSell
  <2>3. \/ UNCHANGED <<order, placed>>
        \/ placed' = placed + 1 /\ \A o \in 1..placed : order'[o] = order[o]
    BY <1>4, <2>2 DEF upbit
  <2>4. placed' \in 0..MaxOrders
    BY <1>n DEF TypeInv, AccountOK
  <2>5. QED BY <1>t, <2>3, <2>4 DEF IsBuy
<1>6. \/ UNCHANGED <<order, placed>>
      \/ \E o \in OrderId : FillOrder(o) \/ CancelSell(o) \/ WatchCanceled(o)
      \/ PlaceBuy \/ \E p \in Seller : PlaceSell(p)
  BY DEF Next, vars, RecordBuy, LoseBuy, ApplyFill, Watch, WatchDone,
         RunnerSteps, Sync, Balances, ReadIndex, WriteHolding, Missing,
         PushSale, RemovePosition, Evaluate, PassLock, Raise, SellSteps,
         TakeLock, RecordSell,
         upbit, Seller, BalancesFail, OrphanScan, Scan, MonitorSteps,
         MonitorGoesOn, Ticker, Look, CleanUp, CrashSeller, LockExpires,
         PendingExpires, HashExpires, TimeUp
<1>7. QED BY <1>1, <1>2, <1>3, <1>5, <1>6

(* Who touches the keys of the orders.                                     *)
LEMMA KeysMove ==
  ASSUME TypeInv, [Next]_vars
  PROVE  \/ UNCHANGED stat
         \/ RecordBuy
         \/ \E o \in OrderId : /\ WatchDone(o) \/ WatchCanceled(o)
                               /\ stat[o] = "SUBMITTED"
                               /\ stat' \in {[stat EXCEPT ![o] = "FILLED"],
                                             [stat EXCEPT ![o] = "CANCELED"]}
         \/ \E p \in Seller : RecordSell(p)
  BY DEF Next, vars, FillOrder, CancelSell, PlaceBuy, LoseBuy, ApplyFill,
         Watch, WatchDone, WatchCanceled, RunnerSteps, Sync, Balances,
         ReadIndex, WriteHolding, Missing, PushSale, RemovePosition, Evaluate,
         PassLock, Raise, SellSteps, TakeLock, PlaceSell, Seller, BalancesFail,
         OrphanScan, Scan, MonitorSteps, MonitorGoesOn, Ticker, Look, CleanUp,
         CrashSeller, LockExpires, PendingExpires, HashExpires, TimeUp

LEMMA SellersMove ==
  ASSUME TypeInv, [Next]_vars
  PROVE  \/ \E p \in Seller : PlaceSell(p)
         \/ \A p \in Seller :
              pc'[p] = "record" => pc[p] = "record" /\ sellId'[p] = sellId[p]
<1>t. pc \in [Seller -> Labels] /\ sellId \in [Seller -> 0..placed]
      /\ "runner" \in Seller /\ "monitor" \in Seller
  BY DEF TypeInv, PollOK, OrdersOK, Seller
<1> DEFINE Still == \A p \in Seller :
                      pc'[p] = "record" =>
                        pc[p] = "record" /\ sellId'[p] = sellId[p]
<1>1. ASSUME NEW p \in Seller, NEW label \in Labels \ {"record"},
             pc' = [pc EXCEPT ![p] = label],
             sellId' = sellId \/ sellId' = [sellId EXCEPT ![p] = 0]
      PROVE  Still
  <2>1. ASSUME NEW q \in Seller, pc'[q] = "record"
        PROVE  pc[q] = "record" /\ sellId'[q] = sellId[q]
    <3>1. pc'[p] = label
      BY <1>1, <1>t
    <3>2. q # p
      BY <1>1, <2>1, <3>1
    <3>3. QED BY <1>1, <1>t, <2>1, <3>2
  <2>2. QED BY <2>1
<1>2. ASSUME UNCHANGED <<pc, sellId>> PROVE Still
  BY <1>2
<1> HIDE DEF Still
<1>3. ASSUME Sync \/ BalancesFail PROVE Still
  <2>1. sellId' = sellId /\ \E label \in Labels \ {"record"} :
          pc' = [pc EXCEPT !["runner"] = label]
    BY <1>3
       DEF Sync, Balances, BalancesFail, ReadIndex, WriteHolding, Missing,
           PushSale, RemovePosition, Goto, Labels
  <2>2. QED BY <1>1, <1>t, <2>1
<1>4. ASSUME NEW p \in Seller, RecordSell(p) \/ TakeLock(p) \/ CrashSeller(p)
      PROVE Still
  <2>1. /\ sellId' = sellId \/ sellId' = [sellId EXCEPT ![p] = 0]
        /\ \E label \in Labels \ {"record"} : pc' = [pc EXCEPT ![p] = label]
    BY <1>4 DEF RecordSell, TakeLock, CrashSeller, Goto, Labels, sellers
  <2>2. QED BY <1>1, <2>1
<1>5. ASSUME Evaluate \/ Raise PROVE Still
  <2>1. sellId' = sellId /\ \E label \in Labels \ {"record"} :
          pc' = [pc EXCEPT !["runner"] = label]
    BY <1>5 DEF Evaluate, Raise, PassLock, ExitNow, Goto, Labels
  <2>2. QED BY <1>1, <1>t, <2>1
<1>6. ASSUME Ticker \/ Look PROVE Still
  <2>1. sellId' = sellId /\ \E label \in Labels \ {"record"} :
          pc' = [pc EXCEPT !["monitor"] = label]
    BY <1>6 DEF Ticker, Look, PassLock, ExitNow, Goto, Labels
  <2>2. QED BY <1>1, <1>t, <2>1
<1>7. ASSUME CleanUp PROVE Still
  <2>1. sellId' = sellId /\ pc' = [pc EXCEPT !["monitor"] = "idle"]
    BY <1>7 DEF CleanUp, Goto
  <2>2. "idle" \in Labels \ {"record"}
    BY DEF Labels
  <2>3. QED BY <1>1, <1>t, <2>1, <2>2
<1>8. \/ UNCHANGED <<pc, sellId>>
      \/ Sync \/ BalancesFail \/ Evaluate \/ Raise \/ Ticker \/ Look \/ CleanUp
      \/ \E p \in Seller : RecordSell(p) \/ TakeLock(p) \/ CrashSeller(p)
         \/ PlaceSell(p)
  BY <1>t
     DEF Next, vars, FillOrder, CancelSell, PlaceBuy, RecordBuy, LoseBuy,
         ApplyFill, Watch, WatchDone, WatchCanceled, RunnerSteps, SellSteps,
         sellers, OrphanScan, Scan, MonitorSteps, MonitorGoesOn, LockExpires,
         PendingExpires, HashExpires, TimeUp
<1>9. QED BY <1>2, <1>3, <1>4, <1>5, <1>6, <1>7, <1>8 DEF Still

LEMMA KnownNext ==
  ASSUME TypeInv, KnownOrders, [Next]_vars
  PROVE  KnownOrders'
<1>t. /\ placed \in Nat /\ placed' \in Nat /\ placed <= placed'
      /\ placed' <= MaxOrders
      /\ \A o \in 1..placed : o \in OrderId /\ IsBuy(o)' = IsBuy(o)
      /\ inBuy \in 0..placed /\ MaxOrders \in Nat
      /\ stat \in [OrderId -> {"none", "SUBMITTED", "FILLED", "CANCELED"}]
      /\ \A n \in 1..placed : n \in 1..placed'
  BY SidesStay, EnvType DEF TypeInv, OrdersOK
<1>1. ASSUME NEW o \in OrderId, stat'[o] # "none" PROVE o \in 1..placed'
  <2>1. CASE UNCHANGED stat
    BY <1>1, <1>t, <2>1 DEF KnownOrders
  <2>2. CASE RecordBuy
    <3>1. inBuy \in 1..placed /\ stat' = [stat EXCEPT ![inBuy] = "SUBMITTED"]
      BY <1>t, <2>2 DEF RecordBuy
    <3>2. o = inBuy \/ stat'[o] = stat[o]
      BY <1>t, <3>1
    <3>3. QED BY <1>1, <1>t, <3>1, <3>2 DEF KnownOrders
  <2>3. ASSUME NEW u \in OrderId, stat[u] = "SUBMITTED",
               stat' \in {[stat EXCEPT ![u] = "FILLED"],
                          [stat EXCEPT ![u] = "CANCELED"]}
        PROVE  o \in 1..placed'
    <3>1. o = u \/ stat'[o] = stat[o]
      BY <1>t, <2>3
    <3>2. stat[o] # "none"
      BY <1>1, <2>3, <3>1
    <3>3. QED BY <1>t, <3>2 DEF KnownOrders
  <2>4. ASSUME NEW p \in Seller, RecordSell(p) PROVE o \in 1..placed'
    <3>1. /\ sellId[p] \in 1..placed
          /\ stat' = [stat EXCEPT ![sellId[p]] = "SUBMITTED"]
      BY <2>4 DEF RecordSell, KnownOrders
    <3>2. o = sellId[p] \/ stat'[o] = stat[o]
      BY <1>t, <3>1
    <3>3. QED BY <1>1, <1>t, <3>1, <3>2 DEF KnownOrders
  <2>5. QED BY <2>1, <2>2, <2>3, <2>4, KeysMove
<1>2. ASSUME NEW p \in Seller, pc'[p] = "record"
      PROVE  sellId'[p] \in 1..placed' /\ order'[sellId'[p]].side # "BUY"
  <2>1. CASE pc[p] = "record" /\ sellId'[p] = sellId[p]
    BY <1>t, <2>1 DEF KnownOrders, IsBuy
  <2>2. ASSUME NEW q \in Seller, PlaceSell(q)
        PROVE  \/ pc[p] = "record" /\ sellId'[p] = sellId[p]
               \/ sellId'[p] = placed + 1 /\ Take("SELL", qty[q])
    <3>t. pc \in [Seller -> Labels] /\ sellId \in [Seller -> 0..placed]
      BY DEF TypeInv, PollOK, OrdersOK
    <3>1. \/ /\ Take("SELL", qty[q])
             /\ pc' = [pc EXCEPT ![q] = "record"]
             /\ sellId' = [sellId EXCEPT ![q] = placed']
          \/ pc' = [pc EXCEPT ![q] = "idle"] /\ sellId' = sellId
      BY <2>2 DEF PlaceSell, Goto
    <3>2. CASE pc' = [pc EXCEPT ![q] = "idle"] /\ sellId' = sellId
      <4>1. p # q
        BY <1>2, <3>2, <3>t
      <4>2. QED BY <1>2, <3>2, <3>t, <4>1
    <3>3. CASE /\ Take("SELL", qty[q])
               /\ pc' = [pc EXCEPT ![q] = "record"]
               /\ sellId' = [sellId EXCEPT ![q] = placed']
      <4>1. placed' = placed + 1
        BY <3>3 DEF Take
      <4>2. CASE p = q
        BY <3>3, <3>t, <4>1, <4>2
      <4>3. CASE p # q
        BY <1>2, <3>3, <3>t, <4>3
      <4>4. QED BY <4>2, <4>3
    <3>4. QED BY <3>1, <3>2, <3>3
  <2>3. ASSUME NEW q \in Seller, sellId'[p] = placed + 1, Take("SELL", qty[q])
        PROVE  sellId'[p] \in 1..placed' /\ order'[sellId'[p]].side # "BUY"
    <3>1. qty[q] \in Nat
      BY DEF TypeInv, PollOK
    <3>2. /\ placed' = placed + 1
          /\ order'[placed + 1] =
               [side |-> "SELL", left |-> qty[q], done |-> 0, state |-> "wait"]
      BY <2>3, <3>1, TakeType
    <3>3. order'[placed + 1].side = "SELL"
      BY <3>2
    <3>4. QED BY <1>t, <2>3, <3>2, <3>3 DEF IsBuy
  <2>4. QED BY <2>1, <2>2, <2>3, <1>2, SellersMove
<1>3. ASSUME inBuy' # 0 PROVE order'[inBuy'].side = "BUY"
  <2>1. CASE inBuy' = inBuy
    BY <1>3, <1>t, <2>1 DEF KnownOrders, IsBuy
  <2>2. CASE PlaceBuy
    <3>1. Take("BUY", env.lot) /\ env.lot \in Nat /\ inBuy' = placed + 1
      BY <2>2, EnvType DEF PlaceBuy
    <3>2. order'[placed + 1] =
            [side |-> "BUY", left |-> env.lot, done |-> 0, state |-> "wait"]
      BY <3>1, TakeType
    <3>3. order'[placed + 1].side = "BUY"
      BY <3>2
    <3>4. QED BY <3>1, <3>3 DEF IsBuy
  <2>3. inBuy' = inBuy \/ inBuy' = 0 \/ PlaceBuy
    BY DEF Next, vars, FillOrder, CancelSell, RecordBuy, LoseBuy, ApplyFill,
           Watch, WatchDone, WatchCanceled, RunnerSteps, Sync, Balances,
           ReadIndex, WriteHolding, Missing, PushSale, RemovePosition,
           Evaluate, PassLock, Raise, SellSteps, TakeLock, PlaceSell,
           RecordSell, Seller, BalancesFail, OrphanScan, Scan, MonitorSteps,
           MonitorGoesOn, Ticker, Look, CleanUp, CrashSeller, LockExpires,
           PendingExpires, HashExpires, TimeUp
  <2>4. QED BY <1>3, <2>1, <2>2, <2>3
<1>4. QED BY <1>1, <1>2, <1>3 DEF KnownOrders, IsBuy

(* A step that touches no order, no key of one and no BUY.                 *)
LEMMA FreshFrame ==
  ASSUME TypeInv, KnownOrders, FreshStart, [Next]_vars,
         UNCHANGED <<stat, inBuy, rested>>,
         HighIsCurrent', NothingLeft => NothingLeft'
  PROVE  FreshStart'
<1>1. \A o \in OrderId : Awaited(o)' = Awaited(o)
  BY DEF Awaited
<1>2. ASSUME NEW o \in OrderId, Awaited(o) PROVE IsBuy(o)' = IsBuy(o)
  BY <1>2, SidesStay DEF KnownOrders, Awaited
<1>3. Buying' => Buying
  BY <1>1, <1>2 DEF Buying
<1>4. ASSUME NEW o \in OrderId, NEW p \in OrderId, IsBuy(o)', Awaited(o)',
             Awaited(p)'
      PROVE  o = p
  BY <1>1, <1>2, <1>4 DEF FreshStart
<1>5. QED BY <1>1, <1>3, <1>4 DEF FreshStart

LEMMA FreshTrade ==
  ASSUME TypeInv, KnownOrders, FreshStart, Calm, [Next]_vars,
         PlaceBuy \/ RecordBuy \/ LoseBuy \/ OrphanScan
           \/ \E p \in Seller : RecordSell(p)
  PROVE  FreshStart'
<1>t. /\ stat \in [OrderId -> {"none", "SUBMITTED", "FILLED", "CANCELED"}]
      /\ inBuy \in 0..placed /\ sellId \in [Seller -> 0..placed]
      /\ (1..placed) \subseteq OrderId
      /\ \A o \in 1..placed : o \in OrderId /\ IsBuy(o)' = IsBuy(o)
  BY EnvType, SidesStay DEF TypeInv, OrdersOK
<1>k. \A o \in OrderId : Awaited(o) => o \in 1..placed
  BY DEF KnownOrders, Awaited
<1>1. CASE PlaceBuy
  <2>1. rested /\ rested' = FALSE /\ inBuy' # 0 /\ UNCHANGED stat
    BY <1>1, EnvType DEF PlaceBuy, Calm
  <2>2. NothingLeft /\ \A o \in OrderId : ~Awaited(o)
    BY <2>1 DEF FreshStart
  <2>3. NothingLeft' /\ HighIsCurrent'
    BY <1>1, <2>2
       DEF PlaceBuy, NothingLeft, HighIsCurrent, FreshStart, position, high,
           sellers, fills
  <2>4. \A o \in OrderId : ~Awaited(o)'
    BY <2>1, <2>2 DEF Awaited
  <2>5. QED BY <2>1, <2>3, <2>4 DEF FreshStart
<1>2. CASE RecordBuy
  <2>1. /\ inBuy # 0 /\ inBuy \in 1..placed /\ inBuy' = 0 /\ UNCHANGED rested
        /\ stat' = [stat EXCEPT ![inBuy] = "SUBMITTED"]
    BY <1>2, <1>t DEF RecordBuy
  <2>2. NothingLeft /\ ~rested /\ \A o \in OrderId : ~Awaited(o)
    BY <2>1 DEF FreshStart, Buying
  <2>3. NothingLeft' /\ HighIsCurrent'
    BY <1>2, <2>2
       DEF RecordBuy, NothingLeft, HighIsCurrent, FreshStart, position, high,
           sellers, fills
  <2>4. \A o \in OrderId : Awaited(o)' => o = inBuy
    BY <1>t, <2>1, <2>2 DEF Awaited
  <2>5. QED BY <2>1, <2>2, <2>3, <2>4 DEF FreshStart
<1>3. CASE LoseBuy
  <2>1. inBuy # 0 /\ inBuy' = 0 /\ UNCHANGED <<stat, rested>>
    BY <1>3 DEF LoseBuy
  <2>2. ~rested /\ \A o \in OrderId : ~Awaited(o)
    BY <2>1 DEF FreshStart
  <2>3. HighIsCurrent'
    BY <1>3 DEF LoseBuy, HighIsCurrent, FreshStart, position, high
  <2>4. (\A o \in OrderId : ~Awaited(o)') /\ ~Buying'
    BY <2>1, <2>2 DEF Awaited, Buying
  <2>5. QED BY <2>1, <2>2, <2>3, <2>4 DEF FreshStart
<1>4. CASE OrphanScan
  <2>1. /\ UNCHANGED <<stat, inBuy, order, position, cache, queue, pc>>
        /\ rested' = AllGone /\ pc["runner"] = "idle"
    BY <1>4 DEF OrphanScan, upbit, fills, sellers
  <2>2. (hwm' = hwm \/ hwm' = 0) /\ (~idx => hwm' = 0)
    BY <1>4 DEF OrphanScan, DropHigh
  <2>3. HighIsCurrent'
    BY <2>1, <2>2 DEF FreshStart, HighIsCurrent, position
  <2>4. /\ \A o \in OrderId : Awaited(o)' = Awaited(o) /\ IsBuy(o)' = IsBuy(o)
        /\ Buying' = Buying
    BY <2>1 DEF Awaited, IsBuy, Buying
  <2>5. CASE AllGone
    <3>1. NothingLeft'
      BY <2>1, <2>2, <2>5 DEF AllGone, NothingLeft, position
    <3>2. inBuy' = 0 /\ \A o \in OrderId : ~Awaited(o)
      BY <1>k, <2>1, <2>5 DEF AllGone, Awaited
    <3>3. QED BY <2>1, <2>3, <2>4, <3>1, <3>2 DEF FreshStart
  <2>6. CASE ~AllGone
    <3>1. NothingLeft => NothingLeft'
      BY <2>1, <2>2 DEF NothingLeft, position
    <3>2. ~rested'
      BY <2>1, <2>6
    <3>3. QED BY <2>1, <2>3, <2>4, <3>1, <3>2 DEF FreshStart
  <2>7. QED BY <2>5, <2>6
<1>5. ASSUME NEW p \in Seller, RecordSell(p) PROVE FreshStart'
  <2>1. /\ pc[p] = "record" /\ sellId[p] \in 1..placed /\ ~IsBuy(sellId[p])
        /\ stat' = [stat EXCEPT ![sellId[p]] = "SUBMITTED"]
        /\ UNCHANGED <<inBuy, rested>>
    BY <1>5 DEF RecordSell, KnownOrders
  <2>2. ~NothingLeft
    BY <2>1 DEF NothingLeft, Seller
  <2>3. ~rested /\ inBuy = 0 /\ \A o \in OrderId : IsBuy(o) => ~Awaited(o)
    BY <2>2 DEF FreshStart, Buying
  <2>4. \A o \in OrderId : Awaited(o)' => ~IsBuy(o)'
    <3>1. ASSUME NEW o \in OrderId, Awaited(o)' PROVE ~IsBuy(o)'
      <4>1. CASE o = sellId[p]
        BY <1>t, <2>1, <4>1
      <4>2. CASE o # sellId[p]
        BY <1>t, <1>k, <2>1, <2>3, <3>1, <4>2 DEF Awaited
      <4>3. QED BY <4>1, <4>2
    <3>2. QED BY <3>1
  <2>5. ~rested' /\ ~Buying' /\ inBuy' = 0
    BY <2>1, <2>3, <2>4 DEF Buying
  <2>6. HighIsCurrent'
    BY <1>5 DEF RecordSell, HighIsCurrent, FreshStart, position, high
  <2>7. QED BY <2>4, <2>5, <2>6 DEF FreshStart
<1>6. QED BY <1>1, <1>2, <1>3, <1>4, <1>5

(* A booked BUY opens a position where nothing was left of the last.       *)
LEMMA FreshWatch ==
  ASSUME TypeInv, KnownOrders, FreshStart, Calm, [Next]_vars,
         NEW o \in OrderId, WatchDone(o) \/ WatchCanceled(o)
  PROVE  FreshStart'
<1>t. /\ stat \in [OrderId -> {"none", "SUBMITTED", "FILLED", "CANCELED"}]
      /\ \A q \in 1..placed : q \in OrderId /\ IsBuy(q)' = IsBuy(q)
      /\ order[o].side \in {"BUY", "SELL"}
  BY SidesStay, OrderType DEF TypeInv, OrdersOK
<1>1. /\ Awaited(o) /\ UNCHANGED <<inBuy, rested>>
      /\ stat' \in {[stat EXCEPT ![o] = "FILLED"],
                    [stat EXCEPT ![o] = "CANCELED"]}
  BY DEF WatchDone, WatchCanceled, Awaited
<1>2. ~rested /\ inBuy = 0
  BY <1>1 DEF FreshStart
<1>3. \A q \in OrderId : Awaited(q)' => q # o /\ Awaited(q)
  BY <1>t, <1>1 DEF Awaited
<1>4. \A q \in OrderId : Awaited(q) => IsBuy(q)' = IsBuy(q)
  BY <1>t DEF KnownOrders, Awaited
<1>5. \A q \in OrderId : Awaited(q)' => ~IsBuy(q)'
  BY <1>1, <1>3, <1>4 DEF FreshStart
<1>6. ~rested' /\ inBuy' = 0 /\ ~Buying'
  BY <1>1, <1>2, <1>5 DEF Buying
<1>7. HighIsCurrent'
  <2>1. /\ UNCHANGED cache
        /\ (hwm' = gen' \/ UNCHANGED hwm)
    BY DEF WatchDone, WatchCanceled, Book, high
  <2>2. CASE UNCHANGED <<gen, hwm>>
    BY <2>1, <2>2 DEF FreshStart, HighIsCurrent
  <2>3. CASE IsBuy(o)
    <3>1. hwm = 0 /\ cache = NoPosition
      BY <1>1, <2>3 DEF FreshStart, Buying, NothingLeft
    <3>2. QED BY <2>1, <3>1 DEF HighIsCurrent
  <2>4. CASE ~IsBuy(o)
    <3>1. UNCHANGED <<gen, hwm>>
      BY <2>4 DEF IsBuy, WatchDone, WatchCanceled, Book, position, high
    <3>2. QED BY <3>1, <2>2
  <2>5. QED BY <2>3, <2>4
<1>8. QED BY <1>5, <1>6, <1>7 DEF FreshStart

(* The sellers, position_engine and time: none of them starts anything     *)
(* where nothing is left.                                                  *)
LEMMA FreshOthers ==
  ASSUME TypeInv, KnownOrders, FreshStart, [Next]_vars,
         UNCHANGED <<stat, inBuy, rested>>
  PROVE  FreshStart'
<1>t. /\ pc \in [Seller -> Labels] /\ queue \in Seq(Fills)
      /\ "runner" \in Seller /\ "monitor" \in Seller
  BY DEF TypeInv, PollOK, FillsOK, Seller
<1>h. HighIsCurrent
  BY DEF FreshStart
<1> SUFFICES HighIsCurrent' /\ (NothingLeft => NothingLeft')
  BY FreshFrame
<1>1. ASSUME UNCHANGED <<position, hwm, cache, queue, pc>>
      PROVE  HighIsCurrent' /\ (NothingLeft => NothingLeft')
  BY <1>1, <1>h DEF HighIsCurrent, NothingLeft, position
<1>2. ASSUME NEW o \in OrderId, FillOrder(o) \/ CancelSell(o)
      PROVE  HighIsCurrent' /\ (NothingLeft => NothingLeft')
  BY <1>1, <1>2 DEF FillOrder, CancelSell, position, high, fills, sellers
<1>3. CASE ApplyFill
  <2>1. queue # <<>> /\ UNCHANGED cache /\ Book(Head(queue))
    BY <1>3 DEF ApplyFill
  <2>2. Head(queue).side = "SELL"
    <3>1. Head(queue) \in Fills
      BY <1>t, <2>1
    <3>2. QED BY <3>1 DEF Fills
  <2>3. UNCHANGED <<gen, hwm>>
    BY <2>1, <2>2 DEF Book, position, high
  <2>4. QED BY <1>h, <2>1, <2>3 DEF HighIsCurrent, NothingLeft
<1>4. CASE Sync \/ BalancesFail
  <2>1. UNCHANGED <<gen, cache>> /\ (hwm' = hwm \/ hwm' = 0)
    BY <1>4
       DEF Sync, Balances, BalancesFail, ReadIndex, WriteHolding, Missing,
           PushSale, RemovePosition, position, high
  <2>2. ASSUME NothingLeft PROVE NothingLeft'
    <3>1. Balances \/ BalancesFail \/ ReadIndex
      BY <1>4, <2>2
         DEF Sync, WriteHolding, Missing, PushSale, RemovePosition, NothingLeft
    <3>2. /\ UNCHANGED <<idx, posq, hwm, cache, queue>>
          /\ pc' \in {[pc EXCEPT !["runner"] = "idle"],
                      [pc EXCEPT !["runner"] = "index"]}
      BY <2>2, <3>1
         DEF Balances, BalancesFail, ReadIndex, Goto, NothingLeft, position,
             high, fills
    <3>3. QED BY <1>t, <2>2, <3>2 DEF NothingLeft
  <2>3. QED BY <1>h, <2>1, <2>2 DEF HighIsCurrent
<1>5. CASE Evaluate \/ Raise
  <2>1. /\ pc["runner"] \in {"evaluate", "raise"} /\ UNCHANGED <<gen, cache>>
        /\ hwm' \in {hwm, gen}
    BY <1>5 DEF Evaluate, Raise, RaiseHigh, high, position
  <2>2. QED BY <1>h, <2>1 DEF HighIsCurrent, NothingLeft
<1>6. CASE Scan
  <2>1. /\ UNCHANGED <<position, hwm, queue, pc>>
        /\ cache' = IF idx /\ posq > 0
                    THEN [qty |-> posq, gen |-> gen] ELSE NoPosition
    BY <1>6 DEF Scan, high, fills, sellers
  <2>2. cache' = NoPosition \/ cache'.gen = gen
    BY <2>1
  <2>3. ~idx => cache' = NoPosition
    BY <2>1
  <2>4. QED BY <1>h, <2>1, <2>2, <2>3 DEF HighIsCurrent, NothingLeft, position
<1>7. CASE Ticker \/ Look
  <2>1. /\ cache # NoPosition \/ pc["monitor"] = "look"
        /\ UNCHANGED <<gen, cache>>
        /\ hwm' = hwm \/ (cache # NoPosition /\ hwm' \in {hwm, cache.gen})
    BY <1>7 DEF Ticker, Look, RaiseHigh, position, high
  <2>2. QED BY <1>h, <2>1 DEF HighIsCurrent, NothingLeft
<1>8. ASSUME NEW p \in Seller, TakeLock(p) \/ PlaceSell(p) \/ RecordSell(p)
      PROVE  HighIsCurrent' /\ (NothingLeft => NothingLeft')
  <2>1. pc[p] \in {"lock", "place", "record"} /\ UNCHANGED <<gen, cache, hwm>>
    BY <1>8 DEF TakeLock, PlaceSell, RecordSell, high, position
  <2>2. ~NothingLeft
    BY <2>1 DEF NothingLeft, Seller
  <2>3. QED BY <1>h, <2>1, <2>2 DEF HighIsCurrent
<1>9. CASE CleanUp
  <2>1. pc["monitor"] = "clean" /\ UNCHANGED <<gen, cache>> /\ hwm' = 0
    BY <1>9 DEF CleanUp, position
  <2>2. QED BY <1>h, <2>1 DEF HighIsCurrent, NothingLeft
<1>10. ASSUME NEW p \in Seller, CrashSeller(p)
       PROVE  HighIsCurrent' /\ (NothingLeft => NothingLeft')
  <2>1. /\ UNCHANGED <<position, queue>> /\ pc' = [pc EXCEPT ![p] = "idle"]
        /\ (cache' = cache \/ cache' = NoPosition) /\ (hwm' = hwm \/ hwm' = 0)
    BY <1>10 DEF CrashSeller, fills, Goto
  <2>2. QED BY <1>t, <1>h, <2>1 DEF HighIsCurrent, NothingLeft, position
<1>11. CASE LockExpires \/ PendingExpires \/ HashExpires \/ TimeUp
  <2>1. /\ UNCHANGED <<idx, gen, hwm, cache, queue, pc>>
        /\ (posq' = posq \/ posq' = 0)
    BY <1>11
       DEF LockExpires, PendingExpires, HashExpires, TimeUp, position, high,
           fills, sellers
  <2>2. QED BY <1>h, <2>1 DEF HighIsCurrent, NothingLeft
<1>12. CASE UNCHANGED vars
  BY <1>1, <1>12 DEF vars, high, fills, sellers
<1>13. CASE PlaceBuy \/ RecordBuy \/ LoseBuy \/ Watch \/ OrphanScan
  <2>1. UNCHANGED inBuy /\ ~PlaceBuy /\ ~RecordBuy /\ ~LoseBuy
    BY EnvType DEF PlaceBuy, RecordBuy, LoseBuy
  <2>2. ~Watch
    <3>1. ASSUME NEW o \in OrderId, WatchDone(o) \/ WatchCanceled(o)
          PROVE FALSE
      <4>1. /\ stat[o] = "SUBMITTED" /\ stat[o]' # "SUBMITTED"
        BY <3>1 DEF WatchDone, WatchCanceled, TypeInv, OrdersOK
      <4>2. QED BY <4>1
    <3>2. QED BY <3>1 DEF Watch
  <2>3. CASE OrphanScan
    <3>1. UNCHANGED <<position, cache, queue, pc>> /\ (hwm' = hwm \/ hwm' = 0)
      BY <2>3 DEF OrphanScan, DropHigh, fills, sellers
    <3>2. QED BY <1>h, <3>1 DEF HighIsCurrent, NothingLeft, position
  <2>4. QED BY <1>13, <2>1, <2>2, <2>3
<1>14. QED
  BY <1>t, <1>2, <1>3, <1>4, <1>5, <1>6, <1>7, <1>8, <1>9, <1>10, <1>11, <1>12,
     <1>13 DEF Next, RunnerSteps, MonitorSteps, MonitorGoesOn, SellSteps

LEMMA BuysMove ==
  ASSUME [Next]_vars
  PROVE  \/ UNCHANGED <<stat, inBuy, rested>>
         \/ PlaceBuy \/ RecordBuy \/ LoseBuy \/ OrphanScan
         \/ \E p \in Seller : RecordSell(p)
         \/ \E o \in OrderId : WatchDone(o) \/ WatchCanceled(o)
  BY DEF Next, vars, FillOrder, CancelSell, ApplyFill, Watch, RunnerSteps,
         Sync, Balances, ReadIndex, WriteHolding, Missing, PushSale,
         RemovePosition, Evaluate, PassLock, Raise, SellSteps, TakeLock,
         PlaceSell, Seller, BalancesFail, Scan, MonitorSteps, MonitorGoesOn,
         Ticker, Look, CleanUp, CrashSeller, LockExpires, PendingExpires,
         HashExpires, TimeUp

LEMMA FreshInit == Init => FreshInv
<1> SUFFICES ASSUME Init PROVE FreshInv
  OBVIOUS
<1>1. KnownOrders
  BY DEF Init, KnownOrders
<1>2. FreshStart
  BY DEF Init, FreshStart, HighIsCurrent, NothingLeft, Buying, Awaited, Seller
<1>3. QED BY <1>1, <1>2 DEF FreshInv

LEMMA FreshNext == TypeInv /\ FreshInv /\ [Next]_vars => FreshInv'
<1> SUFFICES ASSUME TypeInv, FreshInv, [Next]_vars PROVE FreshInv'
  OBVIOUS
<1>1. KnownOrders'
  BY KnownNext DEF FreshInv
<1>2. ASSUME Calm PROVE FreshStart'
  BY <1>2, BuysMove, FreshOthers, FreshTrade, FreshWatch DEF FreshInv
<1>3. QED BY <1>1, <1>2, CalmStays DEF FreshInv

(* A trailing stop measures from the high of the position it protects:     *)
(* whatever fails or is killed, an open position never carries the high of *)
(* an earlier one, unless it was bought so soon that something of the      *)
(* earlier one is left.                                                    *)
THEOREM HighIsFresh == Spec => []FreshHigh
<1>1. Init => TypeInv /\ FreshInv
  BY TypeInit, FreshInit
<1>2. TypeInv /\ FreshInv /\ [Next]_vars => (TypeInv /\ FreshInv)'
  BY TypeNext, FreshNext
<1>3. FreshInv => FreshHigh
  BY DEF FreshInv, FreshStart, HighIsCurrent, FreshHigh, Calm
<1>4. QED BY <1>1, <1>2, <1>3, PTL DEF Spec

-----------------------------------------------------------------------------
(* Sales are booked once.                                                  *)

At == pc["runner"]
Vol(o) == order[o].done + order[o].left

(* A BUY Upbit may still execute, or that is still to be recorded or       *)
(* booked.                                                                 *)
Live(o) == IsBuy(o) /\ (order[o].state = "wait" \/ o = inBuy \/ Awaited(o))

MonitorIdle == pc["monitor"] = "idle" /\ cache = NoPosition
Empty == ~idx /\ posq = 0 /\ queue = <<>> /\ At \in {"idle", "index"}

(* While a BUY is alive there is no position, nothing else is awaited and  *)
(* what was executed of it is in the account.                              *)
BuyAlone ==
  /\ rested => Empty /\ \A o \in OrderId : ~Live(o) /\ ~Awaited(o)
  /\ \A o \in OrderId : Live(o) =>
       /\ Empty /\ order[o].done <= Free /\ (Awaited(o) => pending)
       /\ \A p \in OrderId : Live(p) \/ Awaited(p) => p = o

(* What the poll goes by: a balance is not above what is free, what it     *)
(* takes for sold is not there, and no sale it books is smaller than the   *)
(* position.                                                               *)
PollSound ==
  /\ At \in {"index", "write", "missing"} => seen <= Free
  /\ At = "index" => seen = Free \/ pending \/ (~idx /\ posq = 0)
  /\ At = "write" => seen > 0
  /\ At = "missing" => seen = 0 /\ (Free = 0 \/ pending)
  /\ At \in {"push", "remove"} \/ queue # <<>> => Free = 0
  /\ At \in {"evaluate", "raise", "lock", "place", "push"} =>
       posq <= qty["runner"]
  /\ At = "record" => stat[sellId["runner"]] = "none"
  /\ \A i \in 1..Len(queue) : posq <= queue[i].qty

(* What a SELL may still be booked with, by its own id.                    *)
Claim(o) ==
  IF /\ ~IsBuy(o)
     /\ \/ Awaited(o) /\ <<"order", o>> \notin booked
        \/ At = "record" /\ o = sellId["runner"]
  THEN Vol(o) ELSE 0
Claims == [o \in OrderId |-> Claim(o)]
Unbooked == sold + locked - bookSell

Covered ==
  /\ 0 <= Unbooked /\ posq <= Free + Unbooked
  /\ (posq = 0 /\ Free = 0) \/ \E u \in Nat : Total(Claims, u) /\ u <= Unbooked

SaleInv == MonitorIdle /\ BuyAlone /\ PollSound /\ Covered

LEMMA RunnerGoes ==
  ASSUME TypeInv, NEW label, Goto("runner", label)
  PROVE  At' = label /\ pc'["monitor"] = pc["monitor"]
  BY DEF Goto, TypeInv, PollOK, Seller, At

LEMMA RunnerStays ==
  ASSUME UNCHANGED pc
  PROVE  At' = At /\ pc'["monitor"] = pc["monitor"]
  BY DEF At

LEMMA ExactStays == [Next]_vars => SalesExact' = SalesExact
  BY EnvFixed DEF SalesExact, Weak

(* Without the monitor and without failing requests.                       *)
LEMMA ExactSteps ==
  ASSUME TypeInv, SalesExact, MonitorIdle, [Next]_vars
  PROVE  \/ \E o \in OrderId : FillOrder(o) \/ WatchDone(o) \/ WatchCanceled(o)
         \/ PlaceBuy \/ RecordBuy \/ LoseBuy \/ ApplyFill
         \/ Balances \/ ReadIndex \/ WriteHolding \/ Missing \/ PushSale
         \/ RemovePosition \/ OrphanScan \/ Evaluate \/ Raise
         \/ TakeLock("runner")
         \/ PlaceSell("runner") \/ RecordSell("runner")
         \/ CrashSeller("runner")
         \/ LockExpires \/ PendingExpires \/ HashExpires \/ TimeUp
         \/ UNCHANGED vars
<1>1. outages \in Nat /\ ~(outages < env.outages) /\ ~env.monitor
  BY DEF TypeInv, BudgetsOK, SalesExact
<1>2. ~BalancesFail /\ ~Scan /\ ~Ticker /\ ~Look /\ ~CleanUp
      /\ \A o \in OrderId : ~CancelSell(o)
  BY <1>1 DEF BalancesFail, Scan, Ticker, Look, CleanUp, CancelSell,
     MonitorIdle
<1>3. ~TakeLock("monitor") /\ ~PlaceSell("monitor") /\ ~RecordSell("monitor")
      /\ ~CrashSeller("monitor")
  BY DEF TakeLock, PlaceSell, RecordSell, CrashSeller, MonitorIdle
<1>4. \A p \in Seller : p = "runner" \/ p = "monitor"
  BY DEF Seller
<1>5. QED
  BY <1>2, <1>3, <1>4
     DEF Next, Watch, RunnerSteps, Sync, SellSteps, MonitorSteps, MonitorGoesOn

LEMMA MonitorStays ==
  ASSUME TypeInv, SalesExact, MonitorIdle, [Next]_vars
  PROVE  MonitorIdle'
<1>t. pc \in [Seller -> Labels] /\ "runner" \in Seller /\ "monitor" \in Seller
  BY DEF TypeInv, PollOK, Seller
<1>1. /\ cache' = cache
      /\ \/ pc' = pc
         \/ \E label \in Labels : pc' = [pc EXCEPT !["runner"] = label]
  BY ExactSteps
     DEF FillOrder, WatchDone, WatchCanceled, PlaceBuy, RecordBuy, LoseBuy,
         ApplyFill, Balances, ReadIndex, WriteHolding, Missing, PushSale,
         RemovePosition, OrphanScan, Evaluate, PassLock, Raise, ExitNow,
         TakeLock, PlaceSell, RecordSell, CrashSeller, LockExpires,
         PendingExpires, HashExpires, TimeUp, vars, sellers, Goto, Labels
<1>2. pc'["monitor"] = pc["monitor"]
  BY <1>t, <1>1
<1>3. QED BY <1>1, <1>2 DEF MonitorIdle

(* What TypeInv says of the pieces.                                        *)
LEMMA SaleTypes ==
  ASSUME TypeInv
  PROVE  /\ held \in Nat /\ locked \in Nat /\ Free \in Nat /\ sold \in Nat
         /\ bookSell \in Nat /\ posq \in Nat /\ seen \in Nat
         /\ placed \in Nat /\ MaxOrders \in Nat /\ inBuy \in 0..placed
         /\ qty \in [Seller -> Nat] /\ pc \in [Seller -> Labels]
         /\ sellId \in [Seller -> 0..placed]
         /\ qty["runner"] \in Nat /\ sellId["runner"] \in 0..placed
         /\ queue \in Seq(Fills) /\ idx \in BOOLEAN
         /\ stat \in [OrderId -> {"none", "SUBMITTED", "FILLED", "CANCELED"}]
         /\ \A o \in OrderId :
              order[o].done \in Nat /\ order[o].left \in Nat /\ Vol(o) \in Nat
         /\ \A o \in 1..placed : o \in OrderId
         /\ \A o \in OrderId : o > placed => order[o] = NoOrder
<1>1. AccountOK
  BY DEF TypeInv
<1>2. \A o \in OrderId : order[o].done \in Nat /\ order[o].left \in Nat
  BY OrderType
<1>3. "runner" \in Seller
  BY DEF Seller
<1>4. QED
  BY <1>1, <1>2, <1>3, LockedType, EnvType, SMTT(30)
     DEF TypeInv, AccountOK, OrdersOK, PositionOK, BooksOK, FillsOK, PollOK,
         Vol

LEMMA CountTypes ==
  TypeInv => Free \in Nat /\ \A o \in OrderId : order[o].done \in Nat
  BY SaleTypes

LEMMA NextTypes ==
  TypeInv' => (Free \in Nat /\ \A o \in OrderId : order[o].done \in Nat)'
  BY CountTypes, PTL

(* Nothing comes alive and what there is keeps its coins.                  *)
LEMMA AloneFrame ==
  ASSUME TypeInv, TypeInv', BuyAlone, UNCHANGED <<stat, rested>>,
         Empty => Empty',
         \A o \in OrderId : Live(o)' =>
           Live(o) /\ order'[o].done + Free <= order[o].done + Free',
         pending' \/ ~pending \/ \A o \in OrderId : IsBuy(o) => ~Awaited(o)
  PROVE  BuyAlone'
<1>1. \A o \in OrderId : Awaited(o)' = Awaited(o)
  BY DEF Awaited
<1>2. rested' => Empty' /\ \A o \in OrderId : ~Live(o)' /\ ~Awaited(o)'
  BY <1>1 DEF BuyAlone
<1>3. ASSUME NEW o \in OrderId, Live(o)'
      PROVE  /\ Empty' /\ order'[o].done <= Free' /\ (Awaited(o)' => pending')
             /\ \A p \in OrderId : Live(p)' \/ Awaited(p)' => p = o
  <2>1. /\ Live(o) /\ order'[o].done + Free <= order[o].done + Free'
        /\ Empty /\ order[o].done <= Free /\ (Awaited(o) => pending)
        /\ \A p \in OrderId : Live(p) \/ Awaited(p) => p = o
    BY <1>3 DEF BuyAlone
  <2>2. /\ order'[o].done \in Nat /\ order[o].done \in Nat /\ Free \in Nat
        /\ Free' \in Nat
    <3>1. (Free \in Nat /\ \A p \in OrderId : order[p].done \in Nat)'
      BY NextTypes
    <3>2. QED BY <3>1, CountTypes
  <2>3. order'[o].done <= Free'
    BY <2>1, <2>2
  <2>4. Awaited(o)' => pending'
    BY <1>1, <2>1 DEF Live
  <2>5. QED BY <1>1, <2>1, <2>3, <2>4
<1>4. QED BY <1>2, <1>3 DEF BuyAlone

(* A step that only moves the runner or the clock.                         *)
LEMMA AloneStill ==
  ASSUME TypeInv, TypeInv', BuyAlone, Empty => Empty',
         UNCHANGED <<upbit, inBuy, stat, rested, pending>>
  PROVE  BuyAlone'
<1>1. Free' = Free
  BY DEF Free, upbit
<1>2. \A o \in OrderId : /\ Live(o)' <=> Live(o)
                         /\ order'[o].done \in Nat /\ Free \in Nat
                         /\ order'[o].done = order[o].done
  BY CountTypes DEF Live, IsBuy, Awaited, upbit
<1>3. QED BY <1>1, <1>2, AloneFrame

LEMMA AloneRunner ==
  ASSUME TypeInv, TypeInv', BuyAlone,
         \/ ApplyFill \/ Balances \/ ReadIndex \/ WriteHolding \/ Missing
         \/ PushSale \/ RemovePosition \/ Evaluate \/ Raise
         \/ TakeLock("runner")
         \/ CrashSeller("runner")
         \/ LockExpires \/ HashExpires \/ TimeUp \/ UNCHANGED vars
  PROVE  BuyAlone'
<1>1. UNCHANGED <<upbit, inBuy, stat, rested, pending>>
  BY DEF ApplyFill, Balances, ReadIndex, WriteHolding, Missing, PushSale,
         RemovePosition, Evaluate, PassLock, Raise, TakeLock, CrashSeller,
         LockExpires, HashExpires, TimeUp, vars, guards
<1>2. ASSUME Empty PROVE Empty'
  <2>1. /\ ~idx /\ posq = 0 /\ queue = <<>> /\ At \in {"idle", "index"}
    BY <1>2 DEF Empty
  <2>2. CASE UNCHANGED <<idx, posq, queue, pc>>
    BY <2>1, <2>2 DEF Empty, At
  <2>3. CASE Balances \/ ReadIndex \/ CrashSeller("runner")
    <3>1. /\ UNCHANGED <<idx, posq, queue>>
          /\ Goto("runner", "index") \/ Goto("runner", "idle")
      BY <2>1, <2>3
         DEF Balances, ReadIndex, CrashSeller, position, fills
    <3>2. QED BY <2>1, <3>1, RunnerGoes DEF Empty
  <2>4. CASE HashExpires
    BY <2>1, <2>4 DEF HashExpires, Empty, At, fills, sellers
  <2>5. CASE LockExpires \/ TimeUp \/ UNCHANGED vars
    BY <2>2, <2>5
       DEF LockExpires, TimeUp, vars, position, fills, sellers
  <2>6. /\ ~ApplyFill /\ ~WriteHolding /\ ~Missing /\ ~PushSale
        /\ ~RemovePosition /\ ~Evaluate /\ ~Raise /\ ~TakeLock("runner")
    BY <2>1
       DEF ApplyFill, WriteHolding, Missing, PushSale, RemovePosition,
           Evaluate, PassLock, Raise, TakeLock, At
  <2>7. QED BY <2>3, <2>4, <2>5, <2>6
<1>3. QED BY <1>1, <1>2, AloneStill

LEMMA AlonePending ==
  ASSUME TypeInv, TypeInv', BuyAlone, KnownOrders, SalesExact, PendingExpires
  PROVE  BuyAlone'
<1>1. /\ UNCHANGED <<upbit, inBuy, stat, rested, idx, posq, queue, pc>>
      /\ OpenBuys = {}
  BY DEF PendingExpires, SalesExact, position, fills, sellers
<1>2. \A o \in OrderId : IsBuy(o) => ~Awaited(o)
  BY <1>1 DEF OpenBuys, IsBuy, Awaited, KnownOrders
<1>3. Empty => Empty'
  BY <1>1 DEF Empty, At
<1>4. Free' = Free /\ \A o \in OrderId : Live(o)' <=> Live(o)
  BY <1>1 DEF Live, IsBuy, Awaited, Free, upbit
<1>5. \A o \in OrderId : order'[o].done + Free <= order[o].done + Free'
  BY <1>1, <1>4, CountTypes DEF upbit
<1>6. QED BY <1>1, <1>2, <1>3, <1>4, <1>5, AloneFrame

(* Upbit executes a part of an order.                                      *)
LEMMA AloneFill ==
  ASSUME TypeInv, TypeInv', BuyAlone, NEW o \in OrderId, FillOrder(o)
  PROVE  BuyAlone'
<1>t. /\ order[o].side \in {"BUY", "SELL"} /\ order[o].left \in Nat
      /\ order[o].done \in Nat
  BY OrderType
<1>1. /\ UNCHANGED <<inBuy, stat, rested, pending, idx, posq, queue, pc>>
      /\ order[o].state = "wait"
  BY DEF FillOrder, guards, position, fills, sellers
<1>2. PICK n \in 0..order[o].left :
        /\ order'[o] = [side |-> order[o].side, left |-> order[o].left - n,
                        done |-> order[o].done + n,
                        state |-> IF n = order[o].left THEN "done" ELSE "wait"]
        /\ \A p \in OrderId : p # o => order'[p] = order[p]
        /\ IF order[o].side = "BUY"
           THEN held' = held + n /\ UNCHANGED <<locked, sold>>
           ELSE held' = held - n /\ locked' = locked - n /\ sold' = sold + n
  BY FillType
<1>3. /\ n \in Nat /\ order'[o].side = order[o].side
      /\ order'[o].done = order[o].done + n
  BY <1>t, <1>2
<1>4. Free' = IF order[o].side = "BUY" THEN Free + n ELSE Free
  BY <1>t, <1>2, <1>3, SaleTypes DEF Free
<1>5. ASSUME NEW p \in OrderId, Live(p)'
      PROVE  Live(p) /\ order'[p].done + Free <= order[p].done + Free'
  <2>1. CASE p = o
    <3>1. order[o].side = "BUY"
      BY <1>3, <1>5, <2>1 DEF Live, IsBuy
    <3>2. Live(p)
      BY <1>1, <2>1, <3>1 DEF Live, IsBuy
    <3>3. QED BY <1>t, <1>3, <1>4, <2>1, <3>1, <3>2, CountTypes
  <2>2. CASE p # o
    <3>1. order'[p] = order[p]
      BY <1>2, <2>2
    <3>2. Live(p)
      BY <1>1, <1>5, <3>1 DEF Live, IsBuy, Awaited
    <3>3. QED BY <1>3, <1>4, <3>1, <3>2, CountTypes
  <2>3. QED BY <2>1, <2>2
<1>6. Empty => Empty'
  BY <1>1 DEF Empty, At
<1>7. QED BY <1>1, <1>5, <1>6, AloneFrame

LEMMA AloneSell ==
  ASSUME TypeInv, TypeInv', BuyAlone, PlaceSell("runner")
  PROVE  BuyAlone'
<1>1. /\ At = "place" /\ "runner" \in Seller
      /\ UNCHANGED <<inBuy, stat, rested, pending>>
  BY DEF PlaceSell, At, Seller
<1>2. ~Empty
  BY <1>1 DEF Empty
<1>3. \A o \in OrderId : ~Live(o)
  BY <1>2 DEF BuyAlone
<1>4. ASSUME NEW o \in OrderId, Live(o)' PROVE Live(o)
  <2>1. CASE UNCHANGED upbit
    BY <1>1, <1>4, <2>1 DEF Live, IsBuy, Awaited, upbit
  <2>2. CASE Take("SELL", qty["runner"])
    <3>1. qty["runner"] \in Nat
      BY SaleTypes
    <3>2. /\ order'[placed + 1] = [side |-> "SELL", left |-> qty["runner"],
                                   done |-> 0, state |-> "wait"]
          /\ \A p \in OrderId : p # placed + 1 => order'[p] = order[p]
      BY <2>2, <3>1, TakeType
    <3>3. o # placed + 1
      BY <1>4, <3>2 DEF Live, IsBuy
    <3>4. QED BY <1>1, <1>4, <3>2, <3>3 DEF Live, IsBuy, Awaited
  <2>3. QED BY <2>1, <2>2 DEF PlaceSell
<1>5. QED BY <1>1, <1>2, <1>3, <1>4, AloneFrame

(* The key of an order is written; no BUY is alive afterwards.             *)
LEMMA AloneKeys ==
  ASSUME TypeInv, KnownOrders, FreshStart, BuyAlone,
         RecordSell("runner")
           \/ \E o \in OrderId : WatchDone(o) \/ WatchCanceled(o)
  PROVE  BuyAlone'
<1>1. CASE RecordSell("runner")
  <2>1. /\ At = "record" /\ UNCHANGED <<upbit, inBuy, rested>>
        /\ stat' = [stat EXCEPT ![sellId["runner"]] = "SUBMITTED"]
    BY <1>1 DEF RecordSell, At
  <2>2. ~Empty
    BY <2>1 DEF Empty
  <2>3. ~rested' /\ \A o \in OrderId : ~Live(o)
    BY <2>1, <2>2 DEF BuyAlone
  <2>4. ~IsBuy(sellId["runner"])
    BY <2>1 DEF KnownOrders, At, Seller
  <2>5. \A o \in OrderId : ~Live(o)'
    BY <2>1, <2>3, <2>4, SaleTypes DEF Live, IsBuy, Awaited, upbit
  <2>6. QED BY <2>3, <2>5 DEF BuyAlone
<1>2. ASSUME NEW o \in OrderId, WatchDone(o) \/ WatchCanceled(o)
      PROVE  BuyAlone'
  <2>1. /\ Awaited(o) /\ UNCHANGED <<inBuy, rested>>
        /\ stat' \in {[stat EXCEPT ![o] = "FILLED"],
                      [stat EXCEPT ![o] = "CANCELED"]}
        /\ order' = order \/ order' = [order EXCEPT ![o].state = "cancel"]
    BY <1>2 DEF WatchDone, WatchCanceled, Awaited, upbit
  <2>2. /\ ~rested' /\ inBuy = 0
        /\ \A p \in OrderId : Live(p) => p = o
    BY <2>1 DEF BuyAlone, FreshStart
  <2>3. ASSUME NEW p \in OrderId, Live(p)' PROVE FALSE
    <3>1. CASE p = o
      <4>1. ~Awaited(o)' /\ o # inBuy'
        <5>1. stat \in [OrderId -> {"none", "SUBMITTED", "FILLED", "CANCELED"}]
          BY SaleTypes
        <5>2. o # 0
          BY DEF OrderId
        <5>3. QED BY <2>1, <2>2, <5>1, <5>2 DEF Awaited
      <4>2. order'[o].state # "wait"
        <5>1. CASE WatchDone(o)
          BY <5>1 DEF WatchDone, upbit
        <5>2. CASE WatchCanceled(o)
          <6>1. order \in [OrderId -> Order]
            BY DEF TypeInv, AccountOK
          <6>2. QED BY <5>2, <6>1 DEF WatchCanceled, Order
        <5>3. QED BY <1>2, <5>1, <5>2
      <4>3. QED BY <2>3, <3>1, <4>1, <4>2 DEF Live
    <3>2. CASE p # o
      <4>1. order'[p] = order[p]
        <5>1. order \in [OrderId -> Order]
          BY DEF TypeInv, AccountOK
        <5>2. QED BY <2>1, <3>2, <5>1
      <4>2. stat'[p] = stat[p]
        BY <2>1, <3>2, SaleTypes
      <4>3. Live(p)
        BY <2>1, <2>3, <4>1, <4>2 DEF Live, IsBuy, Awaited
      <4>4. QED BY <2>2, <3>2, <4>3
    <3>3. QED BY <3>1, <3>2
  <2>4. QED BY <2>2, <2>3 DEF BuyAlone
<1>3. QED BY <1>1, <1>2

LEMMA AlonePlace ==
  ASSUME TypeInv, KnownOrders, FreshStart, Calm, BuyAlone, PlaceBuy
  PROVE  BuyAlone'
<1>1. /\ rested /\ ~rested' /\ inBuy' = placed + 1 /\ Take("BUY", env.lot)
      /\ UNCHANGED <<stat, posq, idx, queue, pc>>
  BY DEF PlaceBuy, Calm, position, fills, sellers
<1>2. /\ Empty /\ \A o \in OrderId : ~Live(o) /\ ~Awaited(o)
  BY <1>1 DEF BuyAlone
<1>3. env.lot \in Nat
  BY EnvType
<1>4. /\ order'[placed + 1] = [side |-> "BUY", left |-> env.lot, done |-> 0,
                               state |-> "wait"]
      /\ \A o \in OrderId : o # placed + 1 => order'[o] = order[o]
      /\ AccountOK' \/ sold' # sold
  BY <1>1, <1>3, TakeType
<1>5. \A o \in OrderId : ~Awaited(o)'
  BY <1>1, <1>2 DEF Awaited
<1>6. \A o \in OrderId : Live(o)' => o = placed + 1
  BY <1>1, <1>2, <1>4, <1>5 DEF Live, IsBuy
<1>7. Empty'
  BY <1>1, <1>2 DEF Empty, At
<1>8. Free' = Free /\ order'[placed + 1].done <= Free
  BY <1>1, <1>4, SaleTypes DEF Take, Free
<1>9. QED BY <1>1, <1>5, <1>6, <1>7, <1>8 DEF BuyAlone

LEMMA AloneRecord ==
  ASSUME TypeInv, KnownOrders, FreshStart, BuyAlone, RecordBuy \/ LoseBuy
  PROVE  BuyAlone'
<1>1. /\ inBuy # 0 /\ inBuy \in OrderId /\ inBuy' = 0
      /\ UNCHANGED <<upbit, rested, posq, idx, queue, pc>>
  BY SaleTypes DEF RecordBuy, LoseBuy, position, fills, sellers
<1>2. /\ Live(inBuy) /\ ~rested' /\ \A o \in OrderId : ~Awaited(o)
  BY <1>1 DEF Live, KnownOrders, FreshStart
<1>3. /\ Empty /\ \A o \in OrderId : Live(o) => o = inBuy
      /\ order[inBuy].done <= Free
  BY <1>1, <1>2 DEF BuyAlone
<1>4. Empty' /\ Free' = Free
  BY <1>1, <1>3 DEF Empty, At, Free, upbit
<1>5. ASSUME NEW o \in OrderId, Awaited(o)' PROVE o = inBuy /\ pending'
  <2>1. CASE RecordBuy
    BY <1>1, <1>2, <1>5, <2>1, SaleTypes DEF RecordBuy, Awaited
  <2>2. CASE LoseBuy
    BY <1>2, <1>5, <2>2 DEF LoseBuy, Awaited
  <2>3. QED BY <2>1, <2>2
<1>6. \A o \in OrderId : Live(o)' => o = inBuy
  <2>1. 0 \notin OrderId
    BY DEF OrderId
  <2>2. QED BY <1>1, <1>3, <1>5, <2>1 DEF Live, IsBuy, upbit
<1>7. QED BY <1>1, <1>2, <1>3, <1>4, <1>5, <1>6 DEF BuyAlone, upbit

LEMMA AloneScan ==
  ASSUME TypeInv, TypeInv', KnownOrders, BuyAlone, OrphanScan
  PROVE  BuyAlone'
<1>1. /\ UNCHANGED <<upbit, inBuy, stat, pending, posq, idx, queue, pc>>
      /\ rested' = AllGone /\ At = "idle"
  BY DEF OrphanScan, At, position, guards, fills, sellers
<1>2. Free' = Free /\ \A o \in OrderId : /\ Live(o)' <=> Live(o)
                                         /\ Awaited(o)' <=> Awaited(o)
  BY <1>1 DEF Live, IsBuy, Awaited, Free, upbit
<1>3. Empty' <=> Empty
  BY <1>1 DEF Empty, At
<1>4. ASSUME AllGone PROVE Empty /\ \A o \in OrderId : ~Live(o) /\ ~Awaited(o)
  <2>1. Empty
    BY <1>1, <1>4 DEF AllGone, Empty
  <2>2. ASSUME NEW o \in OrderId PROVE ~Live(o) /\ ~Awaited(o)
    <3>1. CASE o \in 1..placed
      BY <1>4, <3>1, SaleTypes DEF AllGone, Live, Awaited
    <3>2. CASE o \notin 1..placed
      <4>1. order[o] = NoOrder
        BY <3>2, SaleTypes DEF OrderId
      <4>2. ~Awaited(o)
        BY <3>2 DEF KnownOrders, Awaited
      <4>3. o # inBuy
        BY <1>4, SaleTypes DEF AllGone, OrderId
      <4>4. QED BY <4>1, <4>2, <4>3 DEF Live, NoOrder
    <3>3. QED BY <3>1, <3>2
  <2>3. QED BY <2>1, <2>2
<1>5. rested' => Empty' /\ \A o \in OrderId : ~Live(o)' /\ ~Awaited(o)'
  BY <1>1, <1>2, <1>3, <1>4
<1>6. QED BY <1>1, <1>2, <1>3, <1>5 DEF BuyAlone, upbit

LEMMA AloneNext ==
  ASSUME TypeInv, FreshInv, SalesExact, MonitorIdle, BuyAlone, [Next]_vars
  PROVE  BuyAlone'
<1>1. TypeInv'
  BY TypeNext
<1>2. KnownOrders /\ FreshStart /\ Calm
  BY DEF FreshInv, SalesExact, Calm
<1>3. QED
  BY <1>1, <1>2, ExactSteps, AloneRunner, AlonePending, AloneFill, AloneSell,
     AloneKeys, AlonePlace, AloneRecord, AloneScan

(* What apply_fill books of a SELL.                                        *)
LEMMA BookSells ==
  ASSUME TypeInv, NEW f, f.side = "SELL", f.qty \in Nat, Book(f)
  PROVE  \E n \in 0..posq :
           /\ posq' = posq - n /\ bookSell' = bookSell + n /\ n <= f.qty
           /\ posq = 0 => UNCHANGED <<idx, booked>>
           /\ n = 0 \/ booked' = booked \cup {f.id}
           /\ booked' \in {booked, booked \cup {f.id}}
           /\ f.id \in booked => n = 0
           /\ f.id \notin booked => n = Smaller(f.qty, posq)
           /\ unpriced' = IF f.priced THEN unpriced ELSE unpriced + n
<1>t. posq \in Nat /\ bookSell \in Nat /\ unpriced \in Nat
  BY DEF TypeInv, PositionOK, BooksOK
<1>1. CASE f.id \in booked \/ posq = 0
  <2>1. UNCHANGED <<posq, bookSell, idx, booked, unpriced>>
    BY <1>1 DEF Book, position, books
  <2>2. posq = 0 => Smaller(f.qty, posq) = 0
    BY DEF Smaller
  <2>3. QED BY <1>1, <1>t, <2>1, <2>2
<1>2. CASE f.id \notin booked /\ posq # 0
  <2>1. /\ booked' = booked \cup {f.id}
        /\ posq' = posq - Smaller(f.qty, posq)
        /\ bookSell' = bookSell + Smaller(f.qty, posq)
        /\ unpriced' = IF f.priced THEN unpriced
                       ELSE unpriced + Smaller(f.qty, posq)
    BY <1>2 DEF Book
  <2>2. Smaller(f.qty, posq) \in 0..posq /\ Smaller(f.qty, posq) <= f.qty
    BY <1>t DEF Smaller
  <2>3. QED BY <1>2, <2>1, <2>2
<1>3. QED BY <1>1, <1>2

LEMMA FillIsSell ==
  ASSUME TypeInv, queue # <<>>
  PROVE  /\ Head(queue).side = "SELL" /\ Head(queue).qty \in Nat
         /\ Len(queue) \in Nat /\ Len(queue) >= 1 /\ Head(queue) = queue[1]
<1>1. queue \in Seq(Fills)
  BY DEF TypeInv, FillsOK
<1>2. Head(queue) \in Fills
  BY <1>1
<1>3. QED BY <1>1, <1>2 DEF Fills

LEMMA RestOfQueue ==
  ASSUME TypeInv, queue # <<>>, NEW q, q = Tail(queue)
  PROVE  /\ q \in Seq(Fills) /\ Len(q) = Len(queue) - 1
         /\ \A i \in 1..Len(q) : /\ i + 1 \in 1..Len(queue)
                               /\ q[i] = queue[i + 1]
<1>1. queue \in Seq(Fills)
  BY DEF TypeInv, FillsOK
<1>2. QED BY <1>1

(* The poll is at rest, the coins are where they were and the position     *)
(* only shrinks.                                                           *)
LEMMA PollFrame ==
  ASSUME TypeInv, PollSound, UNCHANGED <<pc, seen, qty, sellId>>, Free' = Free,
         posq' \in 0..posq, posq = 0 => idx' = idx,
         queue' = queue \/ (queue # <<>> /\ queue' = Tail(queue)),
         pending' \/ ~pending \/ At = "idle",
         At = "record" => stat'[sellId["runner"]] = "none"
  PROVE  PollSound'
<1>t. posq \in Nat /\ qty["runner"] \in Nat /\ queue \in Seq(Fills)
      /\ \A i \in 1..Len(queue) : queue[i].qty \in Nat
  <2>1. queue \in Seq(Fills) /\ posq \in Nat /\ qty["runner"] \in Nat
    BY SaleTypes
  <2>2. \A i \in 1..Len(queue) : queue[i] \in Fills
    BY <2>1
  <2>3. QED BY <2>1, <2>2 DEF Fills
<1>1. At' = At /\ posq' <= posq
  BY <1>t DEF At
<1>2. /\ At \in {"index", "write", "missing"} => seen <= Free
      /\ At = "index" => seen = Free \/ pending \/ (~idx /\ posq = 0)
      /\ At = "write" => seen > 0
      /\ At = "missing" => seen = 0 /\ (Free = 0 \/ pending)
      /\ At \in {"push", "remove"} \/ queue # <<>> => Free = 0
      /\ At \in {"evaluate", "raise", "lock", "place", "push"} =>
           posq <= qty["runner"]
  BY DEF PollSound
<1>3. /\ At' \in {"index", "write", "missing"} => seen' <= Free'
      /\ At' = "index" => seen' = Free' \/ pending' \/ (~idx' /\ posq' = 0)
      /\ At' = "write" => seen' > 0
      /\ At' = "missing" => seen' = 0 /\ (Free' = 0 \/ pending')
  BY <1>t, <1>1, <1>2
<1>4. At' \in {"push", "remove"} \/ queue' # <<>> => Free' = 0
  BY <1>1, <1>2
<1>5. /\ At' \in {"evaluate", "raise", "lock", "place", "push"} =>
           posq' <= qty'["runner"]
      /\ At' = "record" => stat'[sellId'["runner"]] = "none"
  BY <1>t, <1>1, <1>2
<1>6. \A i \in 1..Len(queue') : posq' <= queue'[i].qty
  <2>1. CASE queue' = queue
    BY <1>t, <1>1, <2>1 DEF PollSound
  <2>2. CASE queue # <<>> /\ queue' = Tail(queue)
    <3>1. ASSUME NEW i \in 1..Len(queue') PROVE posq' <= queue'[i].qty
      <4>1. i + 1 \in 1..Len(queue) /\ queue'[i] = queue[i + 1]
        BY <2>2, <3>1, RestOfQueue
      <4>2. QED BY <1>t, <1>1, <4>1 DEF PollSound
    <3>2. QED BY <3>1
  <2>3. QED BY <2>1, <2>2
<1>7. QED BY <1>3, <1>4, <1>5, <1>6 DEF PollSound

(* While a BUY is alive there is no position to poll.                      *)
LEMMA PollEmpty ==
  ASSUME TypeInv, TypeInv', PollSound, Empty, UNCHANGED <<pc, seen, queue>>,
         Free <= Free', pending' \/ (~idx' /\ posq' = 0)
  PROVE  PollSound'
<1>1. /\ At \in {"idle", "index"} /\ At' = At /\ queue' = <<>>
      /\ ~idx /\ posq = 0
  BY DEF Empty, At
<1>2. seen \in Nat /\ Free \in Nat /\ Free' \in Nat
  BY SaleTypes, NextTypes
<1>3. At = "index" => seen <= Free
  BY DEF PollSound
<1>4. At' = "index" => seen' <= Free'
  BY <1>1, <1>2, <1>3
<1>5. \A i \in 1..Len(queue') : posq' <= queue'[i].qty
  BY <1>1
<1>6. QED BY <1>1, <1>4, <1>5 DEF PollSound

LEMMA PollFill ==
  ASSUME TypeInv, TypeInv', BuyAlone, PollSound, NEW o \in OrderId,
         FillOrder(o)
  PROVE  PollSound'
<1>t. /\ order[o].side \in {"BUY", "SELL"} /\ order[o].left \in Nat
  BY OrderType
<1>1. /\ UNCHANGED <<pc, seen, queue, qty, sellId, posq, idx, pending, stat>>
      /\ order[o].state = "wait"
  BY DEF FillOrder, guards, position, fills, sellers, poll
<1>2. PICK n \in 0..order[o].left :
        IF order[o].side = "BUY"
        THEN held' = held + n /\ UNCHANGED <<locked, sold>>
        ELSE held' = held - n /\ locked' = locked - n /\ sold' = sold + n
  BY FillType
<1>3. Free' = IF order[o].side = "BUY" THEN Free + n ELSE Free
  BY <1>t, <1>2, SaleTypes DEF Free
<1>4. CASE order[o].side = "BUY"
  <2>1. Empty
    BY <1>1, <1>4 DEF BuyAlone, Live, IsBuy
  <2>2. Free <= Free'
    BY <1>t, <1>3, <1>4, CountTypes
  <2>3. ~idx' /\ posq' = 0
    BY <1>1, <2>1 DEF Empty
  <2>4. QED BY <1>1, <2>1, <2>2, <2>3, PollEmpty
<1>5. CASE order[o].side = "SELL"
  <2>1. At = "record" => stat'[sellId["runner"]] = "none"
    BY <1>1 DEF PollSound
  <2>2. Free' = Free /\ posq' \in 0..posq /\ (pending' \/ ~pending)
    BY <1>1, <1>3, <1>5, SaleTypes
  <2>3. QED BY <1>1, <2>1, <2>2, PollFrame
<1>6. QED BY <1>t, <1>4, <1>5

LEMMA PollWatch ==
  ASSUME TypeInv, TypeInv', KnownOrders, BuyAlone, PollSound,
         NEW o \in OrderId, WatchDone(o) \/ WatchCanceled(o)
  PROVE  PollSound'
<1>1. /\ UNCHANGED <<pc, seen, queue, qty, sellId, pending, held, locked>>
      /\ Awaited(o)
      /\ stat' \in {[stat EXCEPT ![o] = "FILLED"],
                    [stat EXCEPT ![o] = "CANCELED"]}
  BY DEF WatchDone, WatchCanceled, Awaited, upbit, guards, fills, sellers, poll
<1>2. Free' = Free
  BY <1>1 DEF Free
<1>3. At = "record" => stat'[sellId["runner"]] = "none"
  <2>1. At = "record" => sellId["runner"] \in OrderId
    BY SaleTypes DEF KnownOrders, At, Seller
  <2>2. QED BY <1>1, <2>1, SaleTypes DEF PollSound, Awaited
<1>4. CASE WatchCanceled(o)
  <2>1. UNCHANGED <<posq, idx>>
    BY <1>4 DEF WatchCanceled, position
  <2>2. posq' \in 0..posq /\ (pending' \/ ~pending)
    BY <1>1, <2>1, SaleTypes
  <2>3. QED BY <1>1, <1>2, <1>3, <2>1, <2>2, PollFrame
<1> DEFINE f == [id |-> <<"order", o>>, side |-> order[o].side,
                 qty |-> order[o].done, priced |-> TRUE]
<1>5. CASE WatchDone(o) /\ ~IsBuy(o)
  <2>1. Book(f)
    BY <1>5 DEF WatchDone
  <2>2. f.side = "SELL" /\ f.qty \in Nat
    BY <1>5, OrderType DEF IsBuy
  <2> HIDE DEF f
  <2>3. posq' \in 0..posq /\ (posq = 0 => idx' = idx)
    <3>1. PICK n \in 0..posq : /\ posq' = posq - n
                               /\ posq = 0 => UNCHANGED <<idx, booked>>
      BY <2>1, <2>2, BookSells
    <3>2. posq \in Nat
      BY SaleTypes
    <3>3. QED BY <3>1, <3>2
  <2>4. pending' \/ ~pending
    BY <1>1
  <2>5. QED BY <1>1, <1>2, <1>3, <2>3, <2>4, PollFrame
<1>6. CASE WatchDone(o) /\ IsBuy(o)
  <2>1. Empty /\ pending
    BY <1>1, <1>6 DEF BuyAlone, Live
  <2>2. Free <= Free' /\ pending'
    BY <1>1, <1>2, <2>1, CountTypes
  <2>3. QED BY <1>1, <2>1, <2>2, PollEmpty
<1>7. QED BY <1>4, <1>5, <1>6

LEMMA PollApply ==
  ASSUME TypeInv, PollSound, ApplyFill
  PROVE  PollSound'
<1>1. /\ queue # <<>> /\ queue' = Tail(queue) /\ Book(Head(queue))
      /\ UNCHANGED <<pc, seen, qty, sellId, pending, held, locked, stat>>
  BY DEF ApplyFill, upbit, guards, sellers, poll
<1>2. posq' \in 0..posq /\ (posq = 0 => idx' = idx)
  <2>1. PICK n \in 0..posq : /\ posq' = posq - n
                             /\ posq = 0 => UNCHANGED <<idx, booked>>
    BY <1>1, FillIsSell, BookSells
  <2>2. posq \in Nat
    BY SaleTypes
  <2>3. QED BY <2>1, <2>2
<1>3. Free' = Free /\ (pending' \/ ~pending)
  BY <1>1 DEF Free
<1>4. At = "record" => stat'[sellId["runner"]] = "none"
  BY <1>1 DEF PollSound
<1>5. QED BY <1>1, <1>2, <1>3, <1>4, PollFrame

LEMMA PollStill ==
  ASSUME TypeInv, FreshInv, SalesExact, PollSound,
         \/ PlaceBuy \/ RecordBuy \/ LoseBuy \/ OrphanScan
         \/ LockExpires \/ PendingExpires \/ HashExpires \/ TimeUp
         \/ UNCHANGED vars
  PROVE  PollSound'
<1>1. /\ UNCHANGED <<pc, seen, queue, qty, sellId, idx>>
      /\ posq' \in {0, posq} /\ Free' = Free
  BY DEF PlaceBuy, Take, RecordBuy, LoseBuy, OrphanScan, LockExpires,
         PendingExpires, HashExpires, TimeUp, vars, position, fills, sellers,
         poll, upbit, Free
<1>2. posq' \in 0..posq
  BY <1>1, SaleTypes
<1>3. pending' \/ ~pending \/ At = "idle"
  BY DEF PlaceBuy, RecordBuy, LoseBuy, OrphanScan, LockExpires,
         PendingExpires, HashExpires, TimeUp, vars, guards, SalesExact, At
<1>4. ASSUME At = "record" PROVE stat'[sellId["runner"]] = "none"
  <2>1. stat[sellId["runner"]] = "none"
    BY <1>4 DEF PollSound
  <2>2. CASE RecordBuy
    <3>1. /\ IsBuy(inBuy) /\ ~IsBuy(sellId["runner"])
          /\ stat' = [stat EXCEPT ![inBuy] = "SUBMITTED"]
      BY <1>4, <2>2 DEF FreshInv, KnownOrders, RecordBuy, At, Seller
    <3>2. sellId["runner"] # inBuy
      BY <3>1
    <3>3. sellId["runner"] \in OrderId
      BY <1>4, SaleTypes DEF FreshInv, KnownOrders, At, Seller
    <3>4. QED BY <2>1, <3>1, <3>2, <3>3, SaleTypes
  <2>3. CASE ~RecordBuy
    <3>1. UNCHANGED stat
      BY <2>3 DEF PlaceBuy, LoseBuy, OrphanScan, LockExpires, PendingExpires,
                  HashExpires, TimeUp, vars
    <3>2. QED BY <2>1, <3>1
  <2>4. QED BY <2>2, <2>3
<1>5. QED BY <1>1, <1>2, <1>3, <1>4, PollFrame

LEMMA PollRunner ==
  ASSUME TypeInv, PollSound,
         \/ Balances \/ ReadIndex \/ WriteHolding \/ Missing \/ PushSale
         \/ RemovePosition
  PROVE  PollSound'
<1>t. /\ posq \in Nat /\ seen \in Nat /\ Free \in Nat
      /\ qty \in [Seller -> Nat] /\ "runner" \in Seller
      /\ queue \in Seq(Fills)
  BY SaleTypes DEF Seller
<1>1. UNCHANGED <<held, locked, stat, sellId, pending>> /\ Free' = Free
  BY DEF Balances, ReadIndex, WriteHolding, Missing, PushSale, RemovePosition,
         upbit, guards, sellers, Free
<1>2. CASE Balances
  <2>1. /\ At' = "index" /\ seen' = Free /\ UNCHANGED <<queue, posq, idx>>
    BY <1>2, RunnerGoes DEF Balances, position, fills
  <2>2. QED BY <1>1, <1>t, <2>1 DEF PollSound
<1>3. CASE ReadIndex
  <2>1. /\ At = "index" /\ UNCHANGED <<queue, posq, idx, seen>>
        /\ \/ At' = "idle"
           \/ At' = "write" /\ seen > 0
           \/ At' = "missing" /\ idx /\ ~(seen > 0)
    BY <1>3, RunnerGoes DEF ReadIndex, At, position, fills, poll
  <2>2. QED BY <1>1, <1>t, <2>1 DEF PollSound
<1>4. CASE WriteHolding
  <2>1. /\ At = "write" /\ At' = "evaluate" /\ posq' = seen
        /\ qty'["runner"] = seen /\ queue' = queue
    BY <1>4, <1>t, RunnerGoes DEF WriteHolding, At, fills
  <2>2. queue = <<>>
    BY <1>t, <2>1 DEF PollSound
  <2>3. queue' = <<>> /\ Len(queue') = 0
    BY <2>1, <2>2
  <2>4. QED BY <1>1, <1>t, <2>1, <2>3 DEF PollSound
<1>5. CASE Missing
  <2>1. /\ At = "missing" /\ UNCHANGED <<queue, posq, idx, seen>>
        /\ \/ At' = "idle"
           \/ ~pending /\ At' \in {"push", "remove"} /\ qty'["runner"] = posq
    BY <1>5, <1>t, RunnerGoes DEF Missing, At, position
  <2>2. QED BY <1>1, <1>t, <2>1 DEF PollSound
<1>6. CASE PushSale
  <2>1. /\ At = "push" /\ At' = "remove" /\ UNCHANGED posq
        /\ queue' = Append(queue, [id |-> fid, side |-> "SELL",
                                   qty |-> qty["runner"],
                                   priced |-> fid[1] = "order"])
    BY <1>6, RunnerGoes DEF PushSale, At, position
  <2>2. Free = 0 /\ posq <= qty["runner"]
    BY <2>1 DEF PollSound
  <2>3. \A i \in 1..Len(queue') : posq' <= queue'[i].qty
    <3> DEFINE f == [id |-> fid, side |-> "SELL", qty |-> qty["runner"],
                     priced |-> fid[1] = "order"]
    <3>1. f.qty = qty["runner"]
      OBVIOUS
    <3>2. queue' = Append(queue, f)
      BY <2>1
    <3> HIDE DEF f
    <3>3. /\ Len(queue') = Len(queue) + 1 /\ Len(queue) \in Nat
          /\ \A i \in 1..Len(queue') :
               queue'[i] = IF i = Len(queue) + 1 THEN f ELSE queue[i]
      BY <1>t, <3>2
    <3>4. ASSUME NEW i \in 1..Len(queue') PROVE posq' <= queue'[i].qty
      <4>1. CASE i = Len(queue) + 1
        BY <2>1, <2>2, <3>1, <3>3, <4>1
      <4>2. CASE i # Len(queue) + 1
        <5>1. i \in 1..Len(queue) /\ queue'[i] = queue[i]
          BY <3>3, <4>2
        <5>2. QED BY <2>1, <5>1 DEF PollSound
      <4>3. QED BY <4>1, <4>2
    <3>5. QED BY <3>4
  <2>4. QED BY <1>1, <2>1, <2>2, <2>3 DEF PollSound
<1>7. CASE RemovePosition
  <2>1. At' = "idle" /\ At = "remove" /\ UNCHANGED <<queue, posq>>
    BY <1>7, RunnerGoes DEF RemovePosition, At, fills
  <2>2. QED BY <1>1, <2>1 DEF PollSound
<1>8. QED BY <1>2, <1>3, <1>4, <1>5, <1>6, <1>7

LEMMA PollSells ==
  ASSUME TypeInv, KnownOrders, SalesExact, PollSound,
         \/ Evaluate \/ Raise \/ TakeLock("runner") \/ PlaceSell("runner")
         \/ RecordSell("runner") \/ CrashSeller("runner")
  PROVE  PollSound'
<1>1. UNCHANGED <<posq, queue, qty, held>>
  BY DEF Evaluate, PassLock, Raise, TakeLock, PlaceSell, Take, RecordSell,
     CrashSeller,
         position, fills, upbit, sellers
<1>2. CASE Evaluate \/ Raise \/ TakeLock("runner")
  <2>1. /\ At \in {"evaluate", "raise", "lock"}
        /\ UNCHANGED <<upbit, stat, sellId>> /\ Free' = Free
        /\ At' \in {"idle", "raise", "lock", "place"}
    BY <1>2, RunnerGoes
       DEF Evaluate, Raise, PassLock, ExitNow, TakeLock, At, upbit, Free,
           sellers
  <2>2. QED BY <1>1, <2>1 DEF PollSound
<1>3. CASE RecordSell("runner") \/ CrashSeller("runner")
  <2>1. At' = "idle" /\ Free' = Free
    BY <1>3, RunnerGoes DEF RecordSell, CrashSeller, upbit, Free
  <2>2. QED BY <1>1, <2>1 DEF PollSound
<1>4. CASE PlaceSell("runner")
  <2>t. qty["runner"] \in Nat
    BY SaleTypes
  <2>1. /\ At = "place" /\ stat' = stat
        /\ \/ /\ Take("SELL", qty["runner"]) /\ At' = "record"
              /\ sellId' = [sellId EXCEPT !["runner"] = placed + 1]
           \/ At' = "idle" /\ UNCHANGED upbit
    <3>1. ~(outages < env.outages)
      BY DEF TypeInv, BudgetsOK, SalesExact
    <3>2. QED BY <1>4, <3>1, RunnerGoes DEF PlaceSell, At, Take
  <2>2. CASE At' = "idle" /\ UNCHANGED upbit
    BY <1>1, <2>2 DEF PollSound, Free, upbit
  <2>3. CASE /\ Take("SELL", qty["runner"]) /\ At' = "record"
             /\ sellId' = [sellId EXCEPT !["runner"] = placed + 1]
    <3>1. /\ placed + 1 \in OrderId /\ qty["runner"] <= Free
          /\ Free' = Free - qty["runner"]
      <4>1. placed + 1 \in OrderId
        BY <2>3, <2>t, TakeType
      <4>2. /\ qty["runner"] <= Free /\ locked' = locked + qty["runner"]
            /\ held' = held
        BY <2>3 DEF Take
      <4>3. held \in Nat /\ locked \in Nat
        BY SaleTypes
      <4>4. QED BY <2>t, <4>1, <4>2, <4>3 DEF Free
    <3>2. stat'[sellId'["runner"]] = "none"
      <4>1. sellId'["runner"] = placed + 1
        BY <2>3, SaleTypes DEF Seller
      <4>2. stat[placed + 1] = "none"
        BY <3>1, SaleTypes DEF KnownOrders
      <4>3. QED BY <2>1, <4>1, <4>2
    <3>3. queue # <<>> => Free' = 0
      <4>1. queue # <<>> => Free = 0
        BY DEF PollSound
      <4>2. QED BY <2>t, <3>1, <4>1
    <3>4. QED BY <1>1, <2>3, <3>2, <3>3 DEF PollSound
  <2>4. QED BY <2>1, <2>2, <2>3
<1>5. QED BY <1>2, <1>3, <1>4

LEMMA PollNext ==
  ASSUME TypeInv, FreshInv, SalesExact, MonitorIdle, BuyAlone, PollSound,
         [Next]_vars
  PROVE  PollSound'
<1>1. TypeInv' /\ KnownOrders
  BY TypeNext DEF FreshInv
<1>2. QED
  BY <1>1, ExactSteps, PollFill, PollWatch, PollApply, PollStill, PollRunner,
     PollSells

LEMMA ClaimType ==
  ASSUME TypeInv
  PROVE  \A o \in OrderId : Claim(o) \in Nat /\ Claim(o) <= Vol(o)
  BY SaleTypes DEF Claim

LEMMA ClaimMoves ==
  ASSUME TypeInv, NEW u, Total(Claims, u), NEW o \in OrderId, NEW n \in Nat,
         Claim(o)' = n, \A p \in OrderId : p # o => Claim(p)' = Claim(p)
  PROVE  /\ Total(Claims', u + (n - Claim(o)))
         /\ Claim(o) <= u /\ u \in Nat
<1>1. Claims[o] = Claim(o) /\ Claim(o) \in Nat
  BY ClaimType DEF Claims
<1>2. Claims' = [Claims EXCEPT ![o] = n]
  BY DEF Claims
<1>3. /\ Claims[o] <= u /\ u \in Nat
      /\ Total([Claims EXCEPT ![o] = n], u + (n - Claims[o]))
  BY OneChanges
<1>4. QED BY <1>1, <1>2, <1>3

(* Claims are given up.                                                    *)
LEMMA CoverFrame ==
  ASSUME TypeInv, Covered, Unbooked' = Unbooked, Free' = Free,
         posq' \in 0..posq,
         \/ \A o \in OrderId : Claim(o)' = Claim(o)
         \/ \E o \in OrderId :
              /\ Claim(o)' \in 0..Claim(o)
              /\ \A p \in OrderId : p # o => Claim(p)' = Claim(p)
  PROVE  Covered'
<1>t. posq \in Nat /\ Free \in Nat /\ Unbooked \in Int
  BY SaleTypes DEF Unbooked
<1>1. 0 <= Unbooked' /\ posq' <= Free' + Unbooked'
  BY <1>t DEF Covered
<1>2. CASE posq = 0 /\ Free = 0
  <2>1. posq' = 0 /\ Free' = 0
    BY <1>2
  <2>2. QED BY <1>1, <2>1 DEF Covered
<1>3. CASE \E u \in Nat : Total(Claims, u) /\ u <= Unbooked
  <2>1. PICK u \in Nat : Total(Claims, u) /\ u <= Unbooked
    BY <1>3
  <2>2. CASE \A o \in OrderId : Claim(o)' = Claim(o)
    <3>1. Claims' = Claims
      BY <2>2 DEF Claims
    <3>2. QED BY <1>1, <2>1, <3>1 DEF Covered
  <2>3. ASSUME NEW o \in OrderId, Claim(o)' \in 0..Claim(o),
               \A p \in OrderId : p # o => Claim(p)' = Claim(p)
        PROVE  Covered'
    <3> DEFINE n == Claim(o)'
    <3>1. Claim(o) \in Nat /\ n \in Nat /\ n <= Claim(o)
      BY <2>3, ClaimType
    <3> HIDE DEF n
    <3>2. Claim(o)' = n
      BY DEF n
    <3>3. Total(Claims', u + (n - Claim(o))) /\ Claim(o) <= u
      BY <2>1, <2>3, <3>1, <3>2, ClaimMoves
    <3>4. u + (n - Claim(o)) \in Nat /\ u + (n - Claim(o)) <= Unbooked'
      BY <1>t, <2>1, <3>1, <3>3
    <3>5. QED BY <1>1, <3>3, <3>4 DEF Covered
  <2>4. QED BY <2>2, <2>3
<1>4. QED BY <1>2, <1>3 DEF Covered

LEMMA CoverNone ==
  ASSUME \A o \in OrderId : Claim(o)' = 0, 0 <= Unbooked',
         posq' <= Free' + Unbooked'
  PROVE  Covered'
<1>1. Claims' = [o \in OrderId |-> 0]
  BY DEF Claims
<1>2. Total(Claims', 0)
  BY <1>1, NothingTotals
<1>3. QED BY <1>2 DEF Covered

(* No key of an order, no order and no SELL of the runner changes.         *)
LEMMA CoverStill ==
  ASSUME TypeInv, Covered, UNCHANGED <<held, locked, sold, bookSell, booked>>,
         UNCHANGED <<order, stat>>, posq' \in 0..posq,
         \/ At # "record" /\ At' # "record"
         \/ UNCHANGED <<pc, sellId>>
  PROVE  Covered'
<1>1. Unbooked' = Unbooked /\ Free' = Free
  BY DEF Unbooked, Free
<1>2. \A o \in OrderId : Claim(o)' = Claim(o)
  BY DEF Claim, IsBuy, Awaited, Vol, At
<1>3. QED BY <1>1, <1>2, CoverFrame

LEMMA CoverRunner ==
  ASSUME TypeInv, Covered,
         \/ Balances \/ ReadIndex \/ Missing \/ PushSale
         \/ RemovePosition \/ OrphanScan \/ Evaluate \/ Raise
         \/ TakeLock("runner")
         \/ LoseBuy \/ LockExpires \/ PendingExpires \/ HashExpires \/ TimeUp
         \/ UNCHANGED vars
  PROVE  Covered'
<1>1. UNCHANGED <<held, locked, order, sold, bookSell, booked, stat>>
  BY DEF Balances, ReadIndex, Missing, PushSale, RemovePosition, OrphanScan,
         Evaluate, PassLock, Raise, TakeLock, LoseBuy, LockExpires,
         PendingExpires, HashExpires, TimeUp, vars, upbit, books
<1>2. posq' \in {0, posq}
  BY DEF Balances, ReadIndex, Missing, PushSale, RemovePosition, OrphanScan,
         Evaluate, PassLock, Raise, TakeLock, LoseBuy, LockExpires,
         PendingExpires, HashExpires, TimeUp, vars, position
<1>3. posq' \in 0..posq
  BY <1>2, SaleTypes
<1>4. CASE \/ Balances \/ ReadIndex \/ Missing \/ PushSale
           \/ RemovePosition \/ Evaluate \/ Raise \/ TakeLock("runner")
  <2>1. At # "record" /\ At' # "record"
    BY <1>4, RunnerGoes
       DEF Balances, ReadIndex, Missing, PushSale, RemovePosition, Evaluate,
           PassLock, Raise, ExitNow, TakeLock, At
  <2>2. QED BY <1>1, <1>3, <2>1, CoverStill
<1>5. CASE \/ OrphanScan \/ LoseBuy \/ LockExpires \/ PendingExpires
           \/ HashExpires \/ TimeUp \/ UNCHANGED vars
  <2>1. UNCHANGED <<pc, sellId>>
    BY <1>5 DEF OrphanScan, LoseBuy, LockExpires, PendingExpires, HashExpires,
                TimeUp, vars, sellers
  <2>2. QED BY <1>1, <1>3, <2>1, CoverStill
<1>6. QED BY <1>4, <1>5

LEMMA CoverWrite ==
  ASSUME TypeInv, PollSound, Covered, WriteHolding
  PROVE  Covered'
<1>1. /\ At = "write" /\ At' = "evaluate" /\ posq' = seen
      /\ UNCHANGED <<held, locked, order, sold, bookSell, booked, stat>>
  BY RunnerGoes DEF WriteHolding, At, upbit, books
<1>2. seen > 0 /\ seen <= Free /\ seen \in Nat /\ Free \in Nat
  BY <1>1, SaleTypes DEF PollSound
<1>3. Unbooked' = Unbooked /\ Free' = Free /\ Unbooked \in Int
  BY <1>1, SaleTypes DEF Unbooked, Free
<1>4. Claims' = Claims
  <2>1. \A o \in OrderId : Claim(o)' = Claim(o)
    BY <1>1 DEF Claim, IsBuy, Awaited, Vol
  <2>2. QED BY <2>1 DEF Claims
<1>5. \E u \in Nat : Total(Claims, u) /\ u <= Unbooked
  BY <1>2 DEF Covered
<1>6. 0 <= Unbooked' /\ posq' <= Free' + Unbooked'
  BY <1>1, <1>2, <1>3 DEF Covered
<1>7. QED BY <1>3, <1>4, <1>5, <1>6 DEF Covered

LEMMA CoverFill ==
  ASSUME TypeInv, TypeInv', BuyAlone, Covered, NEW o \in OrderId, FillOrder(o)
  PROVE  Covered'
<1>t. /\ order[o].side \in {"BUY", "SELL"} /\ order[o].left \in Nat
      /\ order[o].done \in Nat
  BY OrderType
<1>1. /\ UNCHANGED <<pc, sellId, posq, stat, booked, bookSell>>
      /\ order[o].state = "wait"
  BY DEF FillOrder, position, sellers, books
<1>2. PICK n \in 0..order[o].left :
        /\ order'[o] = [side |-> order[o].side, left |-> order[o].left - n,
                        done |-> order[o].done + n,
                        state |-> IF n = order[o].left THEN "done" ELSE "wait"]
        /\ \A p \in OrderId : p # o => order'[p] = order[p]
        /\ IF order[o].side = "BUY"
           THEN held' = held + n /\ UNCHANGED <<locked, sold>>
           ELSE held' = held - n /\ locked' = locked - n /\ sold' = sold + n
  BY FillType
<1>3. /\ n \in Nat /\ order'[o].side = order[o].side
      /\ order'[o].done = order[o].done + n
      /\ order'[o].left = order[o].left - n
  BY <1>t, <1>2
<1>4. Unbooked' = Unbooked
      /\ Free' = IF order[o].side = "BUY" THEN Free + n ELSE Free
  <2>1. held \in Nat /\ locked \in Nat /\ sold \in Nat /\ bookSell \in Nat
    BY SaleTypes
  <2>2. QED BY <2>1, <1>t, <1>1, <1>2, <1>3 DEF Free, Unbooked
<1>5. \A p \in OrderId : Claim(p)' = Claim(p)
  <2>1. \A p \in OrderId : Vol(p)' = Vol(p) /\ (IsBuy(p)' <=> IsBuy(p))
    BY <1>t, <1>2, <1>3 DEF Vol, IsBuy
  <2>2. QED BY <1>1, <2>1 DEF Claim, Awaited, At
<1>6. CASE order[o].side = "SELL"
  <2>1. posq' \in 0..posq /\ Free' = Free
    BY <1>1, <1>4, <1>6, SaleTypes
  <2>2. QED BY <1>4, <1>5, <2>1, CoverFrame
<1>7. CASE order[o].side = "BUY"
  <2>1. Empty /\ \A p \in OrderId : Awaited(p) => p = o
    BY <1>1, <1>7 DEF BuyAlone, Live, IsBuy
  <2>2. \A p \in OrderId : Claim(p)' = 0
    BY <1>5, <1>7, <2>1 DEF Claim, IsBuy, Empty
  <2>3. 0 <= Unbooked' /\ posq' <= Free' + Unbooked'
    BY <1>1, <1>3, <1>4, <1>7, <2>1, SaleTypes DEF Covered, Empty, Unbooked
  <2>4. QED BY <2>2, <2>3, CoverNone
<1>8. QED BY <1>t, <1>6, <1>7

LEMMA CoverBuys ==
  ASSUME TypeInv, KnownOrders, Covered, PlaceBuy \/ RecordBuy
  PROVE  Covered'
<1>1. /\ UNCHANGED <<held, sold, bookSell, booked, pc, sellId, posq>>
      /\ locked' = locked
  BY DEF PlaceBuy, Take, RecordBuy, upbit, books, position, sellers
<1>2. Unbooked' = Unbooked /\ Free' = Free /\ posq' \in 0..posq
  BY <1>1, SaleTypes DEF Unbooked, Free
<1>3. ASSUME NEW o \in OrderId PROVE Claim(o)' = Claim(o)
  <2>1. CASE RecordBuy
    <3>1. /\ UNCHANGED order /\ IsBuy(inBuy)
          /\ stat' = [stat EXCEPT ![inBuy] = "SUBMITTED"]
      BY <2>1 DEF RecordBuy, KnownOrders, upbit
    <3>2. CASE o = inBuy
      BY <1>1, <3>1, <3>2 DEF Claim, IsBuy
    <3>3. CASE o # inBuy
      <4>1. stat'[o] = stat[o]
        BY <3>1, <3>3, SaleTypes
      <4>2. QED BY <1>1, <3>1, <4>1 DEF Claim, IsBuy, Awaited, Vol, At
    <3>4. QED BY <3>2, <3>3
  <2>2. CASE PlaceBuy
    <3>1. Take("BUY", env.lot) /\ stat' = stat /\ env.lot \in Nat
      BY <2>2, EnvType DEF PlaceBuy
    <3>2. /\ order'[placed + 1] = [side |-> "BUY", left |-> env.lot,
                                   done |-> 0, state |-> "wait"]
          /\ \A p \in OrderId : p # placed + 1 => order'[p] = order[p]
          /\ placed + 1 \in OrderId
      BY <3>1, TakeType
    <3>3. CASE o = placed + 1
      <4>1. order[o] = NoOrder
        BY <3>3, SaleTypes
      <4>2. IsBuy(o) /\ IsBuy(o)'
        BY <3>2, <3>3, <4>1 DEF IsBuy, NoOrder
      <4>3. QED BY <4>2 DEF Claim
    <3>4. CASE o # placed + 1
      <4>1. order'[o] = order[o]
        BY <3>2, <3>4
      <4>2. QED BY <1>1, <3>1, <4>1 DEF Claim, IsBuy, Awaited, Vol, At
    <3>5. QED BY <3>3, <3>4
  <2>3. QED BY <2>1, <2>2
<1>4. QED BY <1>2, <1>3, CoverFrame

(* The watcher cancels or finds canceled.                                  *)
LEMMA CoverCanceled ==
  ASSUME TypeInv, KnownOrders, PollSound, Covered, NEW o \in OrderId,
         WatchCanceled(o)
  PROVE  Covered'
<1>1. /\ UNCHANGED <<held, locked, sold, bookSell, booked, pc, sellId, posq>>
      /\ stat' = [stat EXCEPT ![o] = "CANCELED"] /\ Awaited(o)
      /\ order' = order \/ order' = [order EXCEPT ![o].state = "cancel"]
  BY DEF WatchCanceled, books, position, sellers, Awaited
<1>2. Unbooked' = Unbooked /\ Free' = Free /\ posq' \in 0..posq
  BY <1>1, SaleTypes DEF Unbooked, Free
<1>3. \A p \in OrderId : /\ order'[p].side = order[p].side
                         /\ order'[p].left = order[p].left
                         /\ order'[p].done = order[p].done
  <2>1. order \in [OrderId -> Order]
    BY DEF TypeInv, AccountOK
  <2>2. QED BY <1>1, <2>1 DEF Order
<1>4. \A p \in OrderId : Vol(p)' = Vol(p) /\ (IsBuy(p)' <=> IsBuy(p))
  BY <1>3 DEF Vol, IsBuy
<1>5. \A p \in OrderId : p # o => (Awaited(p)' <=> Awaited(p))
  BY <1>1, SaleTypes DEF Awaited
<1>6. \A p \in OrderId : p # o => Claim(p)' = Claim(p)
  BY <1>1, <1>4, <1>5 DEF Claim, At
<1>7. Claim(o)' = 0
  <2>1. ~Awaited(o)'
    BY <1>1, SaleTypes DEF Awaited
  <2>2. ~(At' = "record" /\ o = sellId'["runner"])
    BY <1>1 DEF PollSound, At, Awaited
  <2>3. QED BY <2>1, <2>2 DEF Claim
<1>8. Claim(o)' \in 0..Claim(o)
  BY <1>7, ClaimType
<1>9. QED BY <1>2, <1>6, <1>8, CoverFrame

(* A done order is booked.                                                 *)
LEMMA CoverDone ==
  ASSUME TypeInv, KnownOrders, BuyAlone, PollSound, Covered, NEW o \in OrderId,
         WatchDone(o)
  PROVE  Covered'
<1> DEFINE f == [id |-> <<"order", o>>, side |-> order[o].side,
                 qty |-> order[o].done, priced |-> TRUE]
<1>t. /\ posq \in Nat /\ Free \in Nat /\ Unbooked \in Int /\ bookSell \in Nat
      /\ sold \in Nat /\ locked \in Nat
      /\ order[o].done \in Nat /\ order[o].left \in Nat
  BY SaleTypes DEF Unbooked
<1>1. /\ UNCHANGED <<held, locked, order, sold, pc, sellId>> /\ Awaited(o)
      /\ stat' = [stat EXCEPT ![o] = "FILLED"] /\ Book(f)
  BY DEF WatchDone, Awaited, upbit, sellers
<1>2. /\ f.id = <<"order", o>> /\ f.qty = order[o].done
      /\ f.side = order[o].side
  OBVIOUS
<1> HIDE DEF f
<1>3. \A p \in OrderId : /\ p # o => (Awaited(p)' <=> Awaited(p))
                         /\ Vol(p)' = Vol(p) /\ (IsBuy(p)' <=> IsBuy(p))
  BY <1>1, SaleTypes DEF Awaited, Vol, IsBuy
<1>4. Claim(o)' = 0
  <2>1. ~Awaited(o)'
    BY <1>1, SaleTypes DEF Awaited
  <2>2. ~(At' = "record" /\ o = sellId'["runner"])
    BY <1>1 DEF PollSound, At, Awaited
  <2>3. QED BY <2>1, <2>2 DEF Claim
<1>5. CASE IsBuy(o)
  <2>1. /\ Empty /\ order[o].done <= Free
        /\ \A p \in OrderId : Awaited(p) => p = o
    BY <1>1, <1>5 DEF BuyAlone, Live
  <2>2. ASSUME NEW p \in OrderId PROVE Claim(p)' = 0
    <3>1. CASE p # o
      <4>1. ~Awaited(p)'
        BY <1>3, <2>1, <3>1
      <4>2. At' # "record"
        BY <1>1, <2>1 DEF Empty, At
      <4>3. QED BY <4>1, <4>2 DEF Claim
    <3>2. QED BY <1>4, <3>1
  <2>3. bookSell' = bookSell /\ (posq' = posq \/ posq' = posq + order[o].done)
    BY <1>1, <1>2, <1>5 DEF Book, IsBuy, position, books
  <2>4. 0 <= Unbooked' /\ posq' <= Free' + Unbooked'
    <3>1. Unbooked' = Unbooked /\ Free' = Free /\ 0 <= Unbooked
      BY <1>1, <2>3 DEF Unbooked, Free, Covered
    <3>2. posq = 0
      BY <2>1 DEF Empty
    <3>3. QED BY <1>t, <2>1, <2>3, <3>1, <3>2
  <2>5. QED BY <2>2, <2>4, CoverNone
<1>6. CASE ~IsBuy(o)
  <2>1. f.side = "SELL" /\ f.qty \in Nat
    BY <1>2, <1>6, OrderType DEF IsBuy
  <2>2. PICK n \in 0..posq :
          /\ posq' = posq - n /\ bookSell' = bookSell + n /\ n <= f.qty
          /\ f.id \in booked => n = 0
          /\ booked' \in {booked, booked \cup {f.id}}
    BY <1>1, <2>1, BookSells
  <2>3. /\ n \in Nat /\ n <= order[o].done /\ Unbooked' = Unbooked - n
        /\ Free' = Free /\ posq' \in 0..posq
    BY <1>1, <1>2, <1>t, <2>1, <2>2 DEF Unbooked, Free
  <2>4. \A p \in OrderId : p # o => Claim(p)' = Claim(p)
    <3>1. \A p \in OrderId : p # o =>
            (<<"order", p>> \in booked' <=> <<"order", p>> \in booked)
      BY <1>2, <2>2
    <3>2. QED BY <1>1, <1>3, <3>1 DEF Claim, At
  <2>5. CASE n = 0
    <3>1. Unbooked' = Unbooked
      BY <1>t, <2>3, <2>5
    <3>2. Claim(o)' \in 0..Claim(o)
      BY <1>4, ClaimType
    <3>3. QED BY <2>3, <2>4, <3>1, <3>2, CoverFrame
  <2>6. CASE n # 0
    <3>1. <<"order", o>> \notin booked /\ posq # 0
      BY <1>2, <1>t, <2>2, <2>6
    <3>2. Claim(o) = order[o].done + order[o].left
      BY <1>1, <1>6, <3>1 DEF Claim, Vol
    <3>3. PICK u \in Nat : Total(Claims, u) /\ u <= Unbooked
      BY <3>1 DEF Covered
    <3>4. Total(Claims', u + (0 - Claim(o))) /\ Claim(o) <= u
      BY <1>4, <2>4, <3>3, ClaimMoves
    <3>5. /\ u + (0 - Claim(o)) \in Nat /\ u + (0 - Claim(o)) <= Unbooked'
          /\ 0 <= Unbooked'
      BY <1>t, <2>3, <3>2, <3>3, <3>4
    <3>6. posq' <= Free' + Unbooked'
      BY <1>t, <2>2, <2>3 DEF Covered
    <3>7. QED BY <3>4, <3>5, <3>6 DEF Covered
  <2>7. QED BY <2>5, <2>6
<1>7. QED BY <1>5, <1>6

(* What the runner pushed is booked.                                       *)
LEMMA CoverApply ==
  ASSUME TypeInv, PollSound, Covered, ApplyFill
  PROVE  Covered'
<1> DEFINE f == Head(queue)
<1>t. posq \in Nat /\ Free \in Nat /\ Unbooked \in Int /\ bookSell \in Nat
      /\ sold \in Nat /\ locked \in Nat
  BY SaleTypes DEF Unbooked
<1>1. /\ queue # <<>> /\ Book(f)
      /\ UNCHANGED <<held, locked, order, sold, stat, pc, sellId>>
  BY DEF ApplyFill, upbit, sellers
<1>2. f.side = "SELL" /\ f.qty \in Nat /\ posq <= f.qty /\ Free = 0
  BY <1>1, FillIsSell DEF PollSound
<1> HIDE DEF f
<1>3. PICK n \in 0..posq :
        /\ posq' = posq - n /\ bookSell' = bookSell + n
        /\ f.id \in booked => n = 0
        /\ f.id \notin booked => n = Smaller(f.qty, posq)
        /\ booked' \in {booked, booked \cup {f.id}}
  BY <1>1, <1>2, BookSells
<1>4. Unbooked' = Unbooked - n /\ Free' = Free /\ n \in Nat
  BY <1>1, <1>3, <1>t DEF Unbooked, Free
<1>5. CASE f.id \in booked
  <2>1. UNCHANGED <<posq, bookSell, booked>>
    BY <1>3, <1>5, <1>t
  <2>2. posq' \in 0..posq
    BY <1>t, <2>1
  <2>3. QED BY <1>1, <2>1, <2>2, CoverStill
<1>6. CASE f.id \notin booked
  <2>1. posq' = 0 /\ Free' = 0 /\ n = posq
    BY <1>2, <1>3, <1>4, <1>6, <1>t DEF Smaller
  <2>2. 0 <= Unbooked' /\ posq' <= Free' + Unbooked'
    BY <1>2, <1>4, <1>t, <2>1 DEF Covered
  <2>3. QED BY <2>1, <2>2 DEF Covered
<1>7. QED BY <1>5, <1>6

(* A SELL locks what it may be booked with.                                *)
LEMMA CoverSell ==
  ASSUME TypeInv, SalesExact, PollSound, Covered, PlaceSell("runner")
  PROVE  Covered'
<1> DEFINE n == qty["runner"]
<1>t. /\ posq \in Nat /\ Free \in Nat /\ Unbooked \in Int /\ bookSell \in Nat
      /\ sold \in Nat /\ locked \in Nat /\ held \in Nat /\ n \in Nat
      /\ sellId \in [Seller -> 0..placed] /\ "runner" \in Seller
  BY SaleTypes DEF Unbooked, Seller
<1>1. /\ At = "place" /\ UNCHANGED <<stat, posq, sold, bookSell, booked>>
      /\ \/ /\ Take("SELL", n) /\ At' = "record"
            /\ sellId' = [sellId EXCEPT !["runner"] = placed + 1]
         \/ At' = "idle" /\ UNCHANGED upbit
  <2>1. ~(outages < env.outages)
    BY DEF TypeInv, BudgetsOK, SalesExact
  <2>2. QED BY <2>1, RunnerGoes DEF PlaceSell, At, Take, position, books
<1>2. CASE At' = "idle" /\ UNCHANGED upbit
  <2>1. posq' \in 0..posq
    BY <1>1, <1>t
  <2>2. QED BY <1>1, <1>2, <2>1, CoverStill DEF upbit
<1>3. CASE /\ Take("SELL", n) /\ At' = "record"
           /\ sellId' = [sellId EXCEPT !["runner"] = placed + 1]
  <2>1. PICK o \in OrderId :
          /\ o = placed + 1
          /\ order'[o] = [side |-> "SELL", left |-> n, done |-> 0,
                          state |-> "wait"]
          /\ \A p \in OrderId : p # o => order'[p] = order[p]
    BY <1>3, <1>t, TakeType
  <2>2. n <= Free /\ locked' = locked + n /\ held' = held
    BY <1>3 DEF Take
  <2>3. Free' = Free - n /\ Unbooked' = Unbooked + n
    BY <1>1, <1>t, <2>2 DEF Free, Unbooked
  <2>4. 0 <= Unbooked' /\ posq' <= Free' + Unbooked'
    BY <1>1, <1>t, <2>3 DEF Covered
  <2>5. sellId'["runner"] = o
    BY <1>3, <1>t, <2>1
  <2>6. Claim(o) = 0 /\ Claim(o)' = n
    <3>1. order[o] = NoOrder
      BY <2>1, SaleTypes
    <3>2. IsBuy(o)
      BY <3>1 DEF IsBuy, NoOrder
    <3>3. ~IsBuy(o)' /\ Vol(o)' = n
      <4>1. order'[o].side = "SELL" /\ order'[o].done + order'[o].left = n
        BY <1>t, <2>1
      <4>2. QED BY <4>1 DEF IsBuy, Vol
    <3>4. QED BY <1>3, <2>5, <3>2, <3>3 DEF Claim
  <2> HIDE DEF n
  <2>7. \A p \in OrderId : p # o => Claim(p)' = Claim(p)
    BY <1>1, <2>1, <2>5 DEF Claim, IsBuy, Awaited, Vol
  <2>8. CASE posq = 0 /\ Free = 0
    <3>1. posq' = 0 /\ Free' = 0
      BY <1>1, <1>t, <2>2, <2>3, <2>8
    <3>2. QED BY <2>4, <3>1 DEF Covered
  <2>9. CASE \E u \in Nat : Total(Claims, u) /\ u <= Unbooked
    <3>1. PICK u \in Nat : Total(Claims, u) /\ u <= Unbooked
      BY <2>9
    <3>2. Total(Claims', u + (n - Claim(o)))
      BY <1>t, <2>1, <2>6, <2>7, <3>1, ClaimMoves
    <3>3. u + (n - Claim(o)) \in Nat /\ u + (n - Claim(o)) <= Unbooked'
      BY <1>t, <2>3, <2>6, <3>1
    <3>4. QED BY <2>4, <3>2, <3>3 DEF Covered
  <2>10. QED BY <2>8, <2>9 DEF Covered
<1>4. QED BY <1>1, <1>2, <1>3

LEMMA CoverRecord ==
  ASSUME TypeInv, KnownOrders, Covered,
         RecordSell("runner") \/ CrashSeller("runner")
  PROVE  Covered'
<1>1. /\ UNCHANGED <<held, locked, order, sold, bookSell, booked, posq>>
      /\ At' = "idle"
  BY RunnerGoes DEF RecordSell, CrashSeller, upbit, books, position
<1>2. Unbooked' = Unbooked /\ Free' = Free /\ posq' \in 0..posq
  BY <1>1, SaleTypes DEF Unbooked, Free
<1>3. CASE At = "record"
  <2>1. PICK o \in OrderId : o = sellId["runner"] /\ ~IsBuy(o)
    BY <1>3, SaleTypes DEF KnownOrders, At, Seller
  <2>2. stat' = stat \/ stat' = [stat EXCEPT ![o] = "SUBMITTED"]
    BY <2>1 DEF RecordSell, CrashSeller
  <2>3. \A p \in OrderId : p # o => (Awaited(p)' <=> Awaited(p))
    BY <2>2, SaleTypes DEF Awaited
  <2>4. \A p \in OrderId : p # o => Claim(p)' = Claim(p)
    BY <1>1, <1>3, <2>1, <2>3 DEF Claim, IsBuy, Vol
  <2>5. Claim(o) = Vol(o) /\ Claim(o)' \in {0, Vol(o)} /\ Vol(o) \in Nat
    BY <1>1, <1>3, <2>1, SaleTypes DEF Claim, IsBuy, Vol
  <2>6. Claim(o)' \in 0..Claim(o)
    BY <2>5
  <2>7. QED BY <1>2, <2>1, <2>4, <2>6, CoverFrame
<1>4. CASE At # "record"
  <2>1. CrashSeller("runner") /\ stat' = stat
    BY <1>4 DEF RecordSell, CrashSeller, At
  <2>2. QED BY <1>1, <1>2, <1>4, <2>1, CoverStill
<1>5. QED BY <1>3, <1>4

LEMMA CoverNext ==
  ASSUME TypeInv, FreshInv, SalesExact, SaleInv, [Next]_vars
  PROVE  Covered'
<1>1. TypeInv' /\ KnownOrders
  BY TypeNext DEF FreshInv
<1>2. QED
  BY <1>1, ExactSteps, CoverRunner, CoverWrite, CoverFill, CoverBuys,
     CoverCanceled, CoverDone, CoverApply, CoverSell, CoverRecord DEF SaleInv

LEMMA SaleInit == Init => SaleInv
<1> SUFFICES ASSUME Init PROVE SaleInv
  OBVIOUS
<1>1. /\ Free \in Nat /\ Unbooked = 0
  <2>1. env.own \in Nat
    BY CoinConstants DEF Init, Environment
  <2>2. QED BY <2>1 DEF Init, Free, Unbooked
<1>2. \A o \in OrderId : ~Live(o) /\ ~Awaited(o)
  BY DEF Init, Live, Awaited, NoOrder, OrderId
<1>3. MonitorIdle /\ BuyAlone
  BY <1>2 DEF Init, MonitorIdle, BuyAlone, Empty, At, Seller
<1>4. PollSound
  BY DEF Init, PollSound, At, Seller
<1>5. Covered
  <2>1. \A o \in OrderId : Claim(o) = 0
    BY <1>2 DEF Init, Claim, At, Seller
  <2>2. Claims = [o \in OrderId |-> 0]
    BY <2>1 DEF Claims
  <2>3. posq = 0 /\ Total(Claims, 0) /\ 0 \in Nat
    BY <2>2, NothingTotals DEF Init
  <2>4. QED BY <1>1, <2>3 DEF Covered
<1>6. QED BY <1>3, <1>4, <1>5 DEF SaleInv

LEMMA SaleNext ==
  TypeInv /\ FreshInv /\ (SalesExact => SaleInv) /\ [Next]_vars
    => (SalesExact => SaleInv)'
<1> SUFFICES ASSUME TypeInv, FreshInv, SalesExact => SaleInv, [Next]_vars,
                    SalesExact'
             PROVE  SaleInv'
  OBVIOUS
<1>1. SalesExact /\ SaleInv
  BY ExactStays
<1>2. MonitorIdle' /\ BuyAlone' /\ PollSound'
  BY <1>1, MonitorStays, AloneNext, PollNext DEF SaleInv
<1>3. QED BY <1>1, <1>2, CoverNext DEF SaleInv

(* The watcher and the runner book a sale between them no more than once:  *)
(* where no request fails and the monitor is not deployed, no kill, late   *)
(* process, partial execution or coin of the owner makes them book more    *)
(* than was sold or is on its way out of the account.                      *)
THEOREM SalesOnce == Spec => []SalesBookedOnce
<1>1. Init => TypeInv /\ FreshInv /\ (SalesExact => SaleInv)
  BY TypeInit, FreshInit, SaleInit
<1>2. TypeInv /\ FreshInv /\ (SalesExact => SaleInv) /\ [Next]_vars
        => (TypeInv /\ FreshInv /\ (SalesExact => SaleInv))'
  BY TypeNext, FreshNext, SaleNext
<1>3. TypeInv /\ (SalesExact => SaleInv) => SalesBookedOnce
  BY SaleTypes DEF SaleInv, Covered, Unbooked, SalesBookedOnce
<1>4. QED BY <1>1, <1>2, <1>3, PTL DEF Spec

-----------------------------------------------------------------------------
(* Sales are priced.                                                       *)

Id(o) == <<"order", o>>
SaleId == IF exitOrder # 0 THEN Id(exitOrder) ELSE <<"sold", 0>>

(* What is booked or claimed is known, what is pushed is claimed.          *)
IdsKnown ==
  /\ \A o \in OrderId : Id(o) \in booked \cup claimed => stat[o] # "none"
  /\ exitOrder # 0 => stat[exitOrder] # "none"
  /\ \A i \in 1..Len(queue) : queue[i].id \in claimed
  /\ At = "push" => fid \in claimed /\ fid = SaleId
  /\ \A o \in OrderId : order[o].state = "done" => order[o].left = 0

(* Order o sells the whole position and is not booked.                     *)
Cover(o) == posq <= Vol(o) /\ Id(o) \notin booked
Good(j) == \E o \in OrderId : queue[j].id = Id(o) /\ Cover(o)

(* Some order is on its way to be booked for the whole position.           *)
Carrier ==
  \/ At = "record"
  \/ /\ exitOrder # 0 /\ Cover(exitOrder)
     /\ At = "push" \/ Id(exitOrder) \notin claimed
  \/ \E j \in 1..Len(queue) : Good(j)

(* A sale at the average price finds the position empty.                   *)
Priced ==
  /\ unpriced = 0
  /\ At = "record" => posq <= Vol(sellId["runner"])
  /\ Free = 0 => posq = 0 \/ Carrier
  /\ \A i \in 1..Len(queue) :
       ~queue[i].priced => posq = 0 \/ \E j \in 1..(i - 1) : Good(j)
  /\ At = "remove" => posq = 0 \/ \E j \in 1..Len(queue) : Good(j)

(* What the steps do to the ids.                                           *)
LEMMA StatStays ==
  ASSUME TypeInv, KnownOrders, [Next]_vars, NEW o \in OrderId, stat[o] # "none"
  PROVE  stat'[o] # "none"
<1>t. /\ stat \in [OrderId -> {"none", "SUBMITTED", "FILLED", "CANCELED"}]
  BY SaleTypes
<1>1. \/ UNCHANGED stat
      \/ \E p \in OrderId, x \in {"SUBMITTED", "FILLED", "CANCELED"} :
           stat' = [stat EXCEPT ![p] = x]
  <2>1. CASE RecordBuy
    BY <2>1, SaleTypes DEF RecordBuy
  <2>2. ASSUME NEW p \in Seller, RecordSell(p)
        PROVE  \E q \in OrderId : stat' = [stat EXCEPT ![q] = "SUBMITTED"]
    BY <2>2, SaleTypes DEF RecordSell, KnownOrders
  <2>3. QED BY <2>1, <2>2, KeysMove
<1>2. QED BY <1>t, <1>1

LEMMA IdsDiffer == \A o, p \in OrderId : o # p => Id(o) # Id(p)
  BY DEF Id

(* Who books.                                                              *)
LEMMA BookedMoves ==
  ASSUME TypeInv, SalesExact, MonitorIdle, [Next]_vars
  PROVE  \/ UNCHANGED booked
         \/ queue # <<>> /\ booked' = booked \cup {Head(queue).id}
         \/ \E o \in OrderId : WatchDone(o) /\ booked' = booked \cup {Id(o)}
  BY ExactSteps
     DEF FillOrder, WatchDone, WatchCanceled, PlaceBuy, RecordBuy, LoseBuy,
         ApplyFill, Book, books, Balances, ReadIndex, WriteHolding, Missing,
         PushSale, RemovePosition, OrphanScan, Evaluate, PassLock, Raise,
         TakeLock, PlaceSell, RecordSell, CrashSeller, LockExpires,
         PendingExpires, HashExpires, TimeUp, vars, Id

(* Who claims and who sets the exit order.                                 *)
LEMMA ClaimedMoves ==
  ASSUME TypeInv, SalesExact, MonitorIdle, [Next]_vars
  PROVE  /\ \/ UNCHANGED claimed
            \/ Missing /\ claimed' = claimed \cup {SaleId}
         /\ \/ UNCHANGED exitOrder
            \/ exitOrder' = 0 /\ At' # "push"
            \/ RecordSell("runner") /\ exitOrder' = sellId["runner"]
<1>1. \/ UNCHANGED claimed
      \/ Missing /\ claimed' = claimed \cup {SaleId}
  <2>1. CASE Missing
    BY <2>1 DEF Missing, SaleId, Id
  <2>2. CASE ~Missing
    BY <2>2, ExactSteps
       DEF FillOrder, WatchDone, WatchCanceled, PlaceBuy, RecordBuy, LoseBuy,
           ApplyFill, fills, Balances, ReadIndex, WriteHolding, PushSale,
           RemovePosition, OrphanScan, Evaluate, PassLock, Raise, TakeLock,
           PlaceSell, RecordSell, CrashSeller, LockExpires, PendingExpires,
           HashExpires, TimeUp, vars
  <2>3. QED BY <2>1, <2>2
<1>2. CASE RemovePosition \/ CrashSeller("runner")
  <2>1. (UNCHANGED exitOrder \/ exitOrder' = 0) /\ Goto("runner", "idle")
    BY <1>2 DEF RemovePosition, CrashSeller
  <2>2. QED BY <1>1, <2>1, RunnerGoes
<1>3. CASE RecordSell("runner")
  BY <1>1, <1>3 DEF RecordSell
<1>4. CASE ~RemovePosition /\ ~CrashSeller("runner") /\ ~RecordSell("runner")
  <2>1. UNCHANGED exitOrder
    BY <1>4, ExactSteps
       DEF FillOrder, WatchDone, WatchCanceled, PlaceBuy, RecordBuy, LoseBuy,
           ApplyFill, guards, Balances, ReadIndex, WriteHolding, Missing,
           PushSale, OrphanScan, Evaluate, PassLock, Raise, TakeLock,
           PlaceSell, LockExpires, PendingExpires, HashExpires, TimeUp, vars
  <2>2. QED BY <1>1, <2>1
<1>5. QED BY <1>2, <1>3, <1>4

(* How the queue moves.                                                    *)
LEMMA QueueMoves ==
  ASSUME TypeInv, SalesExact, MonitorIdle, [Next]_vars
  PROVE  \/ UNCHANGED queue
         \/ queue # <<>> /\ queue' = Tail(queue)
         \/ At = "push" /\ queue' =
              Append(queue,
                     [id |-> fid, side |-> "SELL", qty |-> qty["runner"],
                      priced |-> fid[1] = "order"])
  BY ExactSteps
     DEF FillOrder, WatchDone, WatchCanceled, PlaceBuy, RecordBuy, LoseBuy,
         ApplyFill, fills, Balances, ReadIndex, WriteHolding, Missing,
         PushSale, RemovePosition, OrphanScan, Evaluate, PassLock, Raise,
         TakeLock, PlaceSell, RecordSell, CrashSeller, LockExpires,
         PendingExpires, HashExpires, TimeUp, vars, At

LEMMA PushMoves ==
  ASSUME TypeInv, SalesExact, MonitorIdle, [Next]_vars, At' = "push"
  PROVE  \/ At = "push" /\ UNCHANGED <<fid, exitOrder>>
         \/ /\ Missing /\ UNCHANGED exitOrder /\ fid' = SaleId
            /\ claimed' = claimed \cup {SaleId}
<1>1. CASE UNCHANGED <<pc, fid, exitOrder>>
  BY <1>1 DEF At
<1>2. CASE Missing
  <2>1. UNCHANGED exitOrder
    BY <1>2 DEF Missing, guards
  <2>2. Goto("runner", "push") =>
          fid' = SaleId /\ claimed' = claimed \cup {SaleId}
    <3>1. \A x \in {"idle", "remove"} : ~(Goto("runner", x) /\ At' = "push")
      BY RunnerGoes
    <3>2. QED BY <1>2, <3>1, RunnerGoes DEF Missing, SaleId, Id
  <2>3. Goto("runner", "push") \/ Goto("runner", "idle")
          \/ Goto("runner", "remove")
    BY <1>2 DEF Missing
  <2>4. QED BY <1>2, <2>1, <2>2, <2>3, RunnerGoes
<1>3. CASE \/ Balances \/ ReadIndex \/ WriteHolding \/ PushSale
           \/ RemovePosition \/ Evaluate \/ Raise \/ TakeLock("runner")
           \/ PlaceSell("runner") \/ RecordSell("runner")
           \/ CrashSeller("runner")
  <2>1. \E x \in Labels \ {"push"} : Goto("runner", x)
    BY <1>3
       DEF Balances, ReadIndex, WriteHolding, PushSale, RemovePosition,
           Evaluate, PassLock, Raise, ExitNow, TakeLock, PlaceSell, RecordSell,
           CrashSeller, Labels
  <2>2. QED BY <2>1, RunnerGoes
<1>4. QED
  BY <1>1, <1>2, <1>3, ExactSteps
     DEF FillOrder, WatchDone, WatchCanceled, PlaceBuy, RecordBuy, LoseBuy,
         ApplyFill, sellers, poll, guards, OrphanScan, LockExpires,
         PendingExpires, HashExpires, TimeUp, vars

LEMMA IdsNext ==
  ASSUME TypeInv, FreshInv, SalesExact, MonitorIdle, IdsKnown, [Next]_vars
  PROVE  IdsKnown'
<1>t. /\ stat \in [OrderId -> {"none", "SUBMITTED", "FILLED", "CANCELED"}]
      /\ queue \in Seq(Fills) /\ exitOrder \in 0..placed /\ KnownOrders
      /\ \A o \in 1..placed : o \in OrderId
  BY SaleTypes DEF TypeInv, OrdersOK, FreshInv
<1>1. \A o \in OrderId : stat[o] # "none" => stat'[o] # "none"
  BY <1>t, StatStays
<1>2. exitOrder # 0 => SaleId = Id(exitOrder) /\ exitOrder \in OrderId
  BY <1>t DEF SaleId
<1>3. \A o \in OrderId : SaleId = Id(o) => o = exitOrder
  BY <1>2, IdsDiffer DEF SaleId, Id
<1>4. ASSUME NEW o \in OrderId, Id(o) \in booked' \cup claimed'
      PROVE  stat'[o] # "none"
  <2>1. CASE Id(o) \in booked \cup claimed
    BY <1>1, <2>1 DEF IdsKnown
  <2>2. ASSUME queue # <<>>, Id(o) = Head(queue).id PROVE stat'[o] # "none"
    <3>1. Head(queue).id \in claimed
      BY <2>2, FillIsSell DEF IdsKnown
    <3>2. QED BY <2>1, <2>2, <3>1
  <2>3. ASSUME NEW p \in OrderId, WatchDone(p), Id(o) = Id(p)
        PROVE  stat'[o] # "none"
    <3>1. o = p
      BY <2>3, IdsDiffer
    <3>2. stat'[o] = "FILLED"
      BY <1>t, <2>3, <3>1 DEF WatchDone
    <3>3. QED BY <3>2
  <2>4. ASSUME Id(o) = SaleId PROVE stat'[o] # "none"
    <3>1. o = exitOrder /\ exitOrder # 0
      BY <1>3, <2>4, <1>t DEF OrderId
    <3>2. QED BY <1>1, <3>1 DEF IdsKnown
  <2>5. QED BY <1>4, <2>1, <2>2, <2>3, <2>4, BookedMoves, ClaimedMoves
<1>5. ASSUME exitOrder' # 0 PROVE stat'[exitOrder'] # "none"
  <2>1. CASE UNCHANGED exitOrder
    BY <1>1, <1>2, <1>5, <2>1 DEF IdsKnown
  <2>2. CASE RecordSell("runner") /\ exitOrder' = sellId["runner"]
    <3>1. /\ stat' = [stat EXCEPT ![sellId["runner"]] = "SUBMITTED"]
          /\ sellId["runner"] \in OrderId
      BY <1>t, <2>2 DEF RecordSell, KnownOrders, Seller
    <3>2. stat'[sellId["runner"]] = "SUBMITTED"
      BY <1>t, <3>1
    <3>3. QED BY <2>2, <3>2
  <2>3. QED BY <1>5, <2>1, <2>2, ClaimedMoves
<1>6. claimed \subseteq claimed'
  BY ClaimedMoves
<1>7. ASSUME NEW i \in 1..Len(queue') PROVE queue'[i].id \in claimed'
  <2>1. CASE UNCHANGED queue
    BY <1>6, <1>7, <2>1 DEF IdsKnown
  <2>2. CASE queue # <<>> /\ queue' = Tail(queue)
    <3>1. i + 1 \in 1..Len(queue) /\ queue'[i] = queue[i + 1]
      BY <1>7, <2>2, RestOfQueue
    <3>2. QED BY <1>6, <3>1 DEF IdsKnown
  <2>3. ASSUME NEW f, At = "push", f.id = fid, queue' = Append(queue, f)
        PROVE  queue'[i].id \in claimed'
    <3>1. /\ Len(queue') = Len(queue) + 1 /\ Len(queue) \in Nat
          /\ queue'[i] = IF i = Len(queue) + 1 THEN f ELSE queue[i]
      BY <1>t, <1>7, <2>3
    <3>2. CASE i = Len(queue) + 1
      BY <1>6, <2>3, <3>1, <3>2 DEF IdsKnown
    <3>3. CASE i # Len(queue) + 1
      <4>1. i \in 1..Len(queue) /\ queue'[i] = queue[i]
        BY <1>7, <3>1, <3>3
      <4>2. QED BY <1>6, <4>1 DEF IdsKnown
    <3>4. QED BY <3>2, <3>3
  <2>4. QED BY <2>1, <2>2, <2>3, QueueMoves
<1>8. ASSUME At' = "push" PROVE fid' \in claimed' /\ fid' = SaleId'
  <2>1. UNCHANGED exitOrder => SaleId' = SaleId
    BY DEF SaleId, Id
  <2>2. QED BY <1>6, <1>8, <2>1, PushMoves DEF IdsKnown
<1>9. ASSUME NEW o \in OrderId, order'[o].state = "done"
      PROVE  order'[o].left = 0
  <2>1. CASE order'[o] = order[o]
    BY <1>9, <2>1 DEF IdsKnown
  <2>2. ASSUME FillOrder(o) PROVE order'[o].left = 0
    <3>1. PICK n \in 0..order[o].left :
            order'[o] = [side |-> order[o].side, left |-> order[o].left - n,
                         done |-> order[o].done + n,
                         state |-> IF n = order[o].left
                                   THEN "done" ELSE "wait"]
      BY <2>2, FillType
    <3>2. /\ order'[o].left = order[o].left - n
          /\ order'[o].state = IF n = order[o].left THEN "done" ELSE "wait"
      BY <3>1
    <3>3. n = order[o].left /\ order[o].left \in Nat
      BY <1>9, <3>2, SaleTypes
    <3>4. QED BY <3>2, <3>3
  <2>3. order'[o] = order[o] \/ order'[o].state # "done" \/ FillOrder(o)
    <3>1. CASE UNCHANGED order
      BY <3>1
    <3>2. ASSUME NEW p \in OrderId, FillOrder(p)
          PROVE  order'[o] = order[o] \/ FillOrder(o)
      BY <3>2, FillType
    <3>3. ASSUME NEW p \in OrderId,
                 order' = [order EXCEPT ![p].state = "cancel"]
          PROVE  order'[o] = order[o] \/ order'[o].state # "done"
      <4>1. order \in [OrderId -> Order]
        BY DEF TypeInv, AccountOK
      <4>2. QED BY <3>3, <4>1 DEF Order
    <3>4. ASSUME NEW side \in {"BUY", "SELL"}, NEW n \in Nat, Take(side, n)
          PROVE  order'[o] = order[o] \/ order'[o].state # "done"
      <4>1. /\ order'[placed + 1] = [side |-> side, left |-> n, done |-> 0,
                                     state |-> "wait"]
            /\ \A p \in OrderId : p # placed + 1 => order'[p] = order[p]
        BY <3>4, TakeType
      <4>2. order'[placed + 1].state = "wait"
        BY <4>1
      <4>3. QED BY <4>1, <4>2
    <3>5. \/ UNCHANGED order
          \/ \E p \in OrderId :
               FillOrder(p) \/ order' = [order EXCEPT ![p].state = "cancel"]
          \/ Take("BUY", env.lot) \/ Take("SELL", qty["runner"])
      BY ExactSteps
         DEF WatchDone, WatchCanceled, PlaceBuy, RecordBuy, LoseBuy, upbit,
             ApplyFill, Balances, ReadIndex, WriteHolding, Missing, PushSale,
             RemovePosition, OrphanScan, Evaluate, PassLock, Raise, TakeLock,
             PlaceSell, RecordSell, CrashSeller, LockExpires, PendingExpires,
             HashExpires, TimeUp, vars
    <3>6. env.lot \in Nat /\ qty["runner"] \in Nat
      BY EnvType, SaleTypes
    <3>7. QED BY <3>1, <3>2, <3>3, <3>4, <3>5, <3>6
  <2>4. QED BY <1>9, <2>1, <2>2, <2>3
<1>10. QED BY <1>4, <1>5, <1>7, <1>8, <1>9 DEF IdsKnown, Id

LEMMA VolTypes == TypeInv => sellId["runner"] \in 0..placed
                              /\ \A o \in OrderId : Vol(o) \in Nat
  BY SaleTypes

LEMMA NextVols ==
  TypeInv' => (sellId["runner"] \in 0..placed
                /\ \A o \in OrderId : Vol(o) \in Nat)'
  BY VolTypes, PTL

(* Nothing is left to sell.                                                *)
LEMMA PricedZero ==
  ASSUME posq' = 0, unpriced' = 0,
         At' = "record" => 0 <= Vol(sellId["runner"])'
  PROVE  Priced'
  BY DEF Priced

LEMMA RecordsSell ==
  ASSUME TypeInv, KnownOrders
  PROVE  At = "record" => sellId["runner"] \in OrderId
  BY SaleTypes DEF KnownOrders, At, Seller

LEMMA NextRecords ==
  ASSUME TypeInv, KnownOrders, [Next]_vars
  PROVE  At' = "record" => Vol(sellId["runner"])' >= 0
<1>1. TypeInv' /\ KnownOrders'
  BY TypeNext, KnownNext
<1>2. \A n \in 1..placed' : n \in OrderId
  BY <1>1, CoinConstants DEF TypeInv, AccountOK, OrderId
<1>3. At' = "record" => sellId'["runner"] \in OrderId
  BY <1>1, <1>2 DEF KnownOrders, At, Seller
<1>4. \A o \in OrderId : Vol(o)' \in Nat
  BY <1>1, NextVols
<1>5. QED BY <1>3, <1>4 DEF Vol

(* The runner is where it was, the position only shrinks, and an order     *)
(* that sells it still does.                                               *)
LEMMA PricedFrame ==
  ASSUME TypeInv, KnownOrders, Priced,
         UNCHANGED <<unpriced, pc, sellId, queue, exitOrder, claimed>>,
         Free' = Free, posq' \in 0..posq,
         \A o \in OrderId : Vol(o) <= Vol(o)' /\ Vol(o)' \in Nat,
         \A o \in OrderId : Cover(o) => Cover(o)'
  PROVE  Priced'
<1>t. /\ posq \in Nat /\ posq' \in Nat /\ posq' <= posq
      /\ exitOrder # 0 => exitOrder \in OrderId
  BY SaleTypes DEF TypeInv, OrdersOK
<1>1. At' = At
  BY DEF At
<1>2. \A j : Good(j) => Good(j)'
  BY DEF Good, Id
<1>3. Carrier => Carrier'
  <2>1. CASE /\ exitOrder # 0 /\ Cover(exitOrder)
             /\ At = "push" \/ Id(exitOrder) \notin claimed
    <3>1. PICK o \in OrderId : o = exitOrder
      BY <1>t, <2>1
    <3>2. Cover(o)'
      BY <2>1, <3>1
    <3>3. Cover(exitOrder)'
      BY <3>1, <3>2 DEF Cover, Vol, Id
    <3>4. QED BY <1>1, <2>1, <3>3 DEF Carrier, Id
  <2>2. QED BY <1>1, <1>2, <2>1 DEF Carrier
<1>4. At' = "record" => posq' <= Vol(sellId["runner"])'
  <2>1. ASSUME At' = "record" PROVE posq' <= Vol(sellId["runner"])'
    <3>1. PICK o \in OrderId : o = sellId["runner"]
      BY <1>1, <2>1, RecordsSell
    <3>2. posq <= Vol(o) /\ Vol(o) <= Vol(o)' /\ Vol(o)' \in Nat
      BY <1>1, <2>1, <3>1 DEF Priced
    <3>3. Vol(o)' = Vol(sellId["runner"])'
      BY <3>1 DEF Vol
    <3>4. Vol(o) \in Nat
      BY SaleTypes
    <3>5. posq' <= Vol(o)'
      BY <1>t, <3>2, <3>4
    <3>6. QED BY <3>3, <3>5
  <2>2. QED BY <2>1
<1>5. QED BY <1>t, <1>1, <1>2, <1>3, <1>4 DEF Priced

LEMMA PricedStill ==
  ASSUME TypeInv, KnownOrders, Priced, [Next]_vars,
         \/ PlaceBuy \/ RecordBuy \/ OrphanScan \/ LockExpires
         \/ PendingExpires \/ HashExpires \/ TimeUp \/ UNCHANGED vars
  PROVE  Priced'
<1>1. /\ UNCHANGED <<unpriced, pc, sellId, queue, exitOrder, claimed, booked>>
      /\ posq' \in {0, posq} /\ Free' = Free
  BY DEF PlaceBuy, Take, RecordBuy, OrphanScan, LockExpires, PendingExpires,
         HashExpires, TimeUp, vars, upbit, books, sellers, fills, guards,
         position, Free
<1>2. CASE posq' = 0
  <2>1. unpriced' = 0
    BY <1>1 DEF Priced
  <2>2. QED BY <1>2, <2>1, NextRecords, PricedZero
<1>3. CASE posq' # 0
  <2>1. posq' = posq
    BY <1>1, <1>3
  <2>2. UNCHANGED order
    <3>1. ~PlaceBuy /\ ~(HashExpires)
      BY <1>3, <2>1 DEF PlaceBuy, HashExpires
    <3>2. QED BY <3>1
             DEF RecordBuy, OrphanScan, LockExpires, PendingExpires, TimeUp,
                 vars, upbit
  <2>3. \A o \in OrderId : Vol(o)' = Vol(o) /\ Vol(o) \in Nat
    BY <2>2, SaleTypes DEF Vol
  <2>4. \A o \in OrderId : Cover(o) => Cover(o)'
    BY <1>1, <2>1, <2>3 DEF Cover, Id
  <2>5. posq' \in 0..posq
    BY <2>1, SaleTypes
  <2>6. \A o \in OrderId : Vol(o) <= Vol(o)' /\ Vol(o)' \in Nat
    BY <2>3
  <2>7. QED BY <1>1, <2>4, <2>5, <2>6, PricedFrame
<1>4. QED BY <1>2, <1>3

LEMMA PricedFill ==
  ASSUME TypeInv, KnownOrders, Priced, NEW o \in OrderId, FillOrder(o),
         BuyAlone, [Next]_vars
  PROVE  Priced'
<1>t. /\ order[o].side \in {"BUY", "SELL"} /\ order[o].left \in Nat
      /\ order[o].done \in Nat
  BY OrderType
<1>1. /\ UNCHANGED <<unpriced, pc, sellId, queue, exitOrder, claimed, booked>>
      /\ posq' = posq /\ order[o].state = "wait"
  BY DEF FillOrder, books, sellers, fills, guards, position
<1>2. PICK n \in 0..order[o].left :
        /\ order'[o] = [side |-> order[o].side, left |-> order[o].left - n,
                        done |-> order[o].done + n,
                        state |-> IF n = order[o].left THEN "done" ELSE "wait"]
        /\ \A p \in OrderId : p # o => order'[p] = order[p]
        /\ IF order[o].side = "BUY"
           THEN held' = held + n /\ UNCHANGED <<locked, sold>>
           ELSE held' = held - n /\ locked' = locked - n /\ sold' = sold + n
  BY FillType
<1>3. /\ n \in Nat /\ order'[o].done = order[o].done + n
      /\ order'[o].left = order[o].left - n
  BY <1>t, <1>2
<1>4. \A p \in OrderId : Vol(p)' = Vol(p)
  BY <1>t, <1>2, <1>3 DEF Vol
<1>5. CASE order[o].side = "BUY"
  <2>1. posq' = 0
    BY <1>1, <1>5 DEF BuyAlone, Live, IsBuy, Empty
  <2>2. unpriced' = 0
    BY <1>1 DEF Priced
  <2>3. QED BY <2>1, <2>2, NextRecords, PricedZero
<1>6. CASE order[o].side = "SELL"
  <2>1. Free' = Free /\ posq' \in 0..posq
    <3>1. held' = held - n /\ locked' = locked - n
      BY <1>2, <1>6
    <3>2. Free' = Free
      BY <1>3, <3>1, SaleTypes DEF Free
    <3>3. posq' \in 0..posq
      BY <1>1, SaleTypes
    <3>4. QED BY <3>2, <3>3
  <2>2. \A p \in OrderId : Vol(p) <= Vol(p)' /\ Vol(p)' \in Nat
    BY <1>4, SaleTypes
  <2>3. \A p \in OrderId : Cover(p) => Cover(p)'
    BY <1>1, <1>4 DEF Cover, Id
  <2>4. QED BY <1>1, <2>1, <2>2, <2>3, PricedFrame
<1>7. QED BY <1>t, <1>5, <1>6

LEMMA PricedCanceled ==
  ASSUME TypeInv, KnownOrders, Priced, NEW o \in OrderId, WatchCanceled(o)
  PROVE  Priced'
<1>1. /\ UNCHANGED <<unpriced, pc, sellId, queue, exitOrder, claimed, booked>>
      /\ UNCHANGED <<held, locked, posq>>
      /\ order' = order \/ order' = [order EXCEPT ![o].state = "cancel"]
  BY DEF WatchCanceled, books, sellers, fills, guards, position
<1>2. \A p \in OrderId : Vol(p)' = Vol(p)
  <2>1. order \in [OrderId -> Order]
    BY DEF TypeInv, AccountOK
  <2>2. \A p \in OrderId : /\ order'[p].left = order[p].left
                           /\ order'[p].done = order[p].done
    BY <1>1, <2>1 DEF Order
  <2>3. QED BY <2>2 DEF Vol
<1>3. \A p \in OrderId : Vol(p) <= Vol(p)' /\ Vol(p)' \in Nat
  BY <1>2, SaleTypes
<1>4. \A p \in OrderId : Cover(p) => Cover(p)'
  BY <1>1, <1>2 DEF Cover, Id
<1>5. Free' = Free /\ posq' \in 0..posq
  BY <1>1, SaleTypes DEF Free
<1>6. QED BY <1>1, <1>3, <1>4, <1>5, PricedFrame

(* The watcher books order o: what o was to sell is sold.                  *)
LEMMA PricedDone ==
  ASSUME TypeInv, KnownOrders, BuyAlone, IdsKnown, Priced, NEW o \in OrderId,
         WatchDone(o), [Next]_vars
  PROVE  Priced'
<1> DEFINE f == [id |-> <<"order", o>>, side |-> order[o].side,
                 qty |-> order[o].done, priced |-> TRUE]
<1>t. /\ posq \in Nat /\ Free \in Nat
      /\ order[o].done \in Nat /\ order[o].left \in Nat
  BY SaleTypes
<1>1. /\ UNCHANGED <<pc, sellId, queue, exitOrder, claimed>>
      /\ UNCHANGED <<held, locked, order>>
      /\ Awaited(o) /\ order[o].state = "done" /\ Book(f)
  BY DEF WatchDone, Awaited, sellers, fills, guards, upbit
<1>2. /\ f.id = Id(o) /\ f.qty = order[o].done /\ f.side = order[o].side
      /\ f.priced = TRUE
  BY DEF Id
<1> HIDE DEF f
<1>3. Free' = Free /\ At' = At /\ unpriced = 0
  BY <1>1 DEF Free, At, Priced
<1>4. \A p \in OrderId : Vol(p)' = Vol(p) /\ Vol(p) \in Nat
  BY <1>1, SaleTypes DEF Vol
<1>5. CASE IsBuy(o)
  <2>1. Empty /\ order[o].done <= Free
    BY <1>1, <1>5 DEF BuyAlone, Live
  <2>2. /\ unpriced' = 0
        /\ posq' = posq \/ posq' = posq + order[o].done
    BY <1>1, <1>2, <1>3, <1>5 DEF Book, IsBuy, position, books
  <2>3. Free' = 0 => posq' = 0
    BY <1>3, <1>t, <2>1, <2>2 DEF Empty
  <2>4. At' \in {"idle", "index"} /\ Len(queue') = 0
    BY <1>1, <1>3, <2>1 DEF Empty
  <2>5. QED BY <2>2, <2>3, <2>4 DEF Priced
<1>6. CASE ~IsBuy(o)
  <2>1. f.side = "SELL" /\ f.qty \in Nat
    BY <1>2, <1>6, OrderType DEF IsBuy
  <2>2. PICK n \in 0..posq :
          /\ posq' = posq - n
          /\ f.id \notin booked => n = Smaller(f.qty, posq)
          /\ booked' \in {booked, booked \cup {f.id}}
          /\ unpriced' = IF f.priced THEN unpriced ELSE unpriced + n
    BY <1>1, <2>1, BookSells
  <2>3. unpriced' = 0 /\ posq' \in 0..posq
    BY <1>2, <1>3, <1>t, <2>2
  <2>4. CASE posq' = 0
    BY <2>3, <2>4, NextRecords, PricedZero
  <2>5. CASE posq' # 0
    <3>1. ~Cover(o)
      <4>1. ASSUME Cover(o) PROVE posq' = 0
        <5>1. n = Smaller(order[o].done, posq)
          BY <1>2, <2>2, <4>1 DEF Cover
        <5>2. posq <= order[o].done + 0
          BY <1>1, <1>t, <4>1 DEF Cover, Vol, IdsKnown
        <5>3. QED BY <1>t, <2>2, <5>1, <5>2 DEF Smaller
      <4>2. QED BY <2>5, <4>1
    <3>2. ASSUME NEW p \in OrderId, Cover(p) PROVE Cover(p)'
      <4>1. p # o /\ Id(p) # Id(o)
        BY <3>1, <3>2, IdsDiffer
      <4>2. Id(p) \notin booked'
        BY <1>2, <2>2, <3>2, <4>1 DEF Cover
      <4>3. posq' <= Vol(p)'
        BY <1>4, <1>t, <2>3, <3>2 DEF Cover
      <4>4. QED BY <4>2, <4>3 DEF Cover, Id
    <3>3. \A p \in OrderId : Vol(p) <= Vol(p)' /\ Vol(p)' \in Nat
      BY <1>4
    <3>4. unpriced' = unpriced
      BY <1>3, <2>3
    <3>5. QED BY <1>1, <1>3, <2>3, <3>2, <3>3, <3>4, PricedFrame
  <2>6. QED BY <2>4, <2>5
<1>7. QED BY <1>5, <1>6

(* The oldest pushed sale sells the position or is known.                  *)
LEMMA PricedApply ==
  ASSUME TypeInv, KnownOrders, PollSound, IdsKnown, Priced, ApplyFill,
         [Next]_vars
  PROVE  Priced'
<1> DEFINE f == Head(queue)
<1>t. posq \in Nat /\ queue \in Seq(Fills)
  BY SaleTypes
<1>1. /\ queue # <<>> /\ queue' = Tail(queue) /\ Book(f)
      /\ UNCHANGED <<held, locked, order, pc, sellId, exitOrder, claimed>>
  BY DEF ApplyFill, upbit, sellers, guards
<1>2. /\ f.side = "SELL" /\ f.qty \in Nat /\ posq <= f.qty /\ f = queue[1]
      /\ 1 \in 1..Len(queue)
  BY <1>1, FillIsSell DEF PollSound
<1> HIDE DEF f
<1>3. PICK n \in 0..posq :
        /\ posq' = posq - n
        /\ f.id \in booked => n = 0
        /\ f.id \notin booked => n = Smaller(f.qty, posq)
        /\ booked' \in {booked, booked \cup {f.id}}
        /\ unpriced' = IF f.priced THEN unpriced ELSE unpriced + n
  BY <1>1, <1>2, BookSells
<1>4. CASE f.id \notin booked \/ posq = 0
  <2>1. posq' = 0 /\ n = posq
    BY <1>2, <1>3, <1>4, <1>t DEF Smaller
  <2>2. unpriced' = 0
    <3>1. ~f.priced => posq = 0
      <4>1. \A j : j \notin 1..(1 - 1)
        OBVIOUS
      <4>2. QED BY <1>2, <4>1 DEF Priced
    <3>2. unpriced = 0
      BY DEF Priced
    <3>3. CASE f.priced
      BY <1>3, <3>2, <3>3
    <3>4. CASE ~f.priced
      BY <1>3, <2>1, <3>1, <3>2, <3>4
    <3>5. QED BY <3>3, <3>4
  <2>3. QED BY <2>1, <2>2, NextRecords, PricedZero
<1>5. CASE f.id \in booked /\ posq # 0
  <2>1. UNCHANGED <<posq, booked>> /\ unpriced' = 0
    <3>1. n = 0 /\ unpriced = 0
      BY <1>3, <1>5 DEF Priced
    <3>2. QED BY <1>3, <1>5, <1>t, <3>1
  <2>2. Free' = Free /\ At' = At
    BY <1>1 DEF Free, At
  <2>3. \A o \in OrderId : Vol(o)' = Vol(o) /\ (Cover(o)' <=> Cover(o))
    BY <1>1, <2>1 DEF Vol, Cover, Id
  <2>4. ~Good(1)
    BY <1>2, <1>5 DEF Good, Cover
  <2>5. /\ Len(queue) \in Nat /\ Len(queue') = Len(queue) - 1
        /\ \A i \in 1..Len(queue') : /\ i + 1 \in 1..Len(queue)
                                     /\ queue'[i] = queue[i + 1]
    BY <1>1, FillIsSell, RestOfQueue
  <2>6. ASSUME NEW m \in Nat, m <= Len(queue), \E j \in 1..m : Good(j)
        PROVE  \E j \in 1..(m - 1) : Good(j)'
    <3>1. PICK j \in 1..m : Good(j)
      BY <2>6
    <3>2. PICK i \in 1..(m - 1) : i + 1 = j
      <4>1. j # 1 /\ j - 1 \in 1..(m - 1) /\ (j - 1) + 1 = j
        BY <2>4, <2>6, <3>1
      <4>2. QED BY <4>1
    <3>3. i \in 1..Len(queue')
      BY <2>5, <2>6, <3>2
    <3>4. queue'[i] = queue[j]
      BY <2>5, <3>2, <3>3
    <3>5. Good(i)'
      BY <2>3, <3>1, <3>4 DEF Good, Id
    <3>6. QED BY <3>5
  <2>7. Len(queue') = Len(queue) - 1 /\ Len(queue) <= Len(queue)
    BY <2>5
  <2>8. (\E j \in 1..Len(queue) : Good(j))
          => \E j \in 1..Len(queue') : Good(j)'
    BY <2>5, <2>6, <2>7
  <2>9. Carrier => Carrier'
    <3>1. CASE /\ exitOrder # 0 /\ Cover(exitOrder)
               /\ At = "push" \/ Id(exitOrder) \notin claimed
      <4>1. Cover(exitOrder)'
        BY <1>1, <2>1, <3>1 DEF Cover, Vol, Id
      <4>2. QED BY <1>1, <2>2, <3>1, <4>1 DEF Carrier, Id
    <3>2. QED BY <2>2, <2>8, <3>1 DEF Carrier
  <2>10. ASSUME NEW i \in 1..Len(queue'), ~queue'[i].priced
         PROVE  \E j \in 1..(i - 1) : Good(j)'
    <3>1. i + 1 \in 1..Len(queue) /\ ~queue[i + 1].priced /\ i \in Nat
      BY <2>5, <2>10
    <3>2. \E j \in 1..((i + 1) - 1) : Good(j)
      BY <1>5, <3>1 DEF Priced
    <3>3. (i + 1) - 1 = i /\ i <= Len(queue)
      BY <2>5, <3>1
    <3>4. QED BY <2>6, <3>1, <3>2, <3>3
  <2>11. At' = "record" => posq' <= Vol(sellId["runner"])'
    BY <1>1, <2>1, <2>2 DEF Priced, Vol
  <2>12. QED BY <2>1, <2>2, <2>8, <2>9, <2>10, <2>11 DEF Priced
<1>6. QED BY <1>4, <1>5

(* The runner decides: it carries nothing before and nothing after.        *)
LEMMA PricedDecides ==
  ASSUME TypeInv, Priced,
         Balances \/ ReadIndex \/ Evaluate \/ Raise \/ TakeLock("runner")
  PROVE  Priced'
<1>1. /\ UNCHANGED <<unpriced, queue, exitOrder, claimed, booked, posq, order>>
      /\ UNCHANGED <<held, locked>>
  BY DEF Balances, ReadIndex, Evaluate, PassLock, Raise, TakeLock, books,
     fills, guards,
         position, upbit
<1>2. At \notin {"record", "push"} /\ At' \notin {"record", "push", "remove"}
  BY RunnerGoes DEF Balances, ReadIndex, Evaluate, PassLock, Raise, ExitNow,
     TakeLock, At
<1>3. Free' = Free /\ \A o \in OrderId : Cover(o)' <=> Cover(o)
  BY <1>1 DEF Free, Cover, Vol, Id
<1>4. \A j : Good(j) <=> Good(j)'
  BY <1>1, <1>3 DEF Good, Id
<1>5. Carrier => Carrier'
  <2>1. Cover(exitOrder) => Cover(exitOrder)'
    BY <1>1 DEF Cover, Vol, Id
  <2>2. QED BY <1>1, <1>2, <1>4, <2>1 DEF Carrier, Id
<1>6. QED BY <1>1, <1>2, <1>3, <1>4, <1>5 DEF Priced

LEMMA PricedWrite ==
  ASSUME TypeInv, PollSound, Priced, WriteHolding
  PROVE  Priced'
<1>1. /\ At = "write" /\ At' = "evaluate" /\ UNCHANGED <<unpriced, queue>>
      /\ UNCHANGED <<held, locked>>
  BY RunnerGoes DEF WriteHolding, At, books, fills, upbit
<1>2. Free > 0 /\ queue = <<>>
  BY <1>1, SaleTypes DEF PollSound
<1>3. Free' # 0 /\ Len(queue') = 0
  BY <1>1, <1>2 DEF Free
<1>4. QED BY <1>1, <1>3 DEF Priced

LEMMA PricedMissing ==
  ASSUME TypeInv, PollSound, Priced, Missing
  PROVE  Priced'
<1>t. exitOrder # 0 => exitOrder \in OrderId
  BY SaleTypes DEF TypeInv, OrdersOK
<1>1. /\ At = "missing"
      /\ UNCHANGED <<unpriced, queue, exitOrder, booked, posq, order>>
      /\ UNCHANGED <<held, locked>>
      /\ \/ At' = "idle" /\ claimed' = claimed
         \/ /\ ~pending /\ At' = "push"
         \/ /\ ~pending /\ At' = "remove" /\ claimed' = claimed
            /\ posq = 0 \/ SaleId \in claimed
  <2>1. posq \in Nat
    BY SaleTypes
  <2>2. QED BY <2>1, RunnerGoes
            DEF Missing, At, books, guards, position, upbit, SaleId, Id
<1>2. Free' = Free /\ \A o \in OrderId : Cover(o)' <=> Cover(o)
  BY <1>1 DEF Free, Cover, Vol, Id
<1>3. \A j : Good(j) <=> Good(j)'
  BY <1>1, <1>2 DEF Good, Id
<1>4. Cover(exitOrder) => Cover(exitOrder)'
  BY <1>1 DEF Cover, Vol, Id
<1>5. /\ unpriced' = 0 /\ At' # "record"
      /\ Free' = 0 => posq = 0 \/ Carrier
      /\ \A i \in 1..Len(queue') :
           ~queue'[i].priced => posq' = 0 \/ \E j \in 1..(i - 1) : Good(j)'
  BY <1>1, <1>2, <1>3 DEF Priced
<1>6. Carrier => Carrier' \/ SaleId \in claimed
  BY <1>1, <1>3, <1>4 DEF Carrier, Id, SaleId
<1>7. CASE At' = "idle" /\ claimed' = claimed
  <2>1. Carrier => Carrier'
    BY <1>1, <1>3, <1>4, <1>7 DEF Carrier, Id
  <2>2. QED BY <1>1, <1>5, <1>7, <2>1 DEF Priced
<1>8. CASE ~pending /\ At' = "push"
  <2>1. Carrier => Carrier'
    BY <1>1, <1>3, <1>4, <1>8 DEF Carrier, Id
  <2>2. QED BY <1>1, <1>5, <1>8, <2>1 DEF Priced
<1>9. CASE /\ ~pending /\ At' = "remove" /\ claimed' = claimed
           /\ posq = 0 \/ SaleId \in claimed
  <2>1. posq = 0 \/ Carrier
    BY <1>1, <1>9 DEF PollSound, Priced
  <2>2. ASSUME posq # 0 PROVE \E j \in 1..Len(queue') : Good(j)'
    <3>1. Carrier /\ SaleId \in claimed
      BY <1>9, <2>1, <2>2
    <3>2. \E j \in 1..Len(queue) : Good(j)
      BY <1>1, <3>1 DEF Carrier, SaleId
    <3>3. QED BY <1>1, <1>3, <3>2
  <2>3. posq' = 0 \/ Carrier'
    BY <1>1, <2>2 DEF Carrier
  <2>4. QED BY <1>1, <1>5, <1>9, <2>2, <2>3 DEF Priced
<1>10. QED BY <1>1, <1>7, <1>8, <1>9

LEMMA PricedPush ==
  ASSUME TypeInv, PollSound, IdsKnown, Priced, PushSale
  PROVE  Priced'
<1> DEFINE f == [id |-> fid, side |-> "SELL", qty |-> qty["runner"],
                 priced |-> fid[1] = "order"]
<1>t. /\ queue \in Seq(Fills)
      /\ exitOrder # 0 => exitOrder \in OrderId
  BY SaleTypes DEF TypeInv, OrdersOK
<1>1. /\ At = "push" /\ At' = "remove" /\ queue' = Append(queue, f)
      /\ UNCHANGED <<unpriced, exitOrder, claimed, booked, posq, order>>
      /\ UNCHANGED <<held, locked>>
  BY RunnerGoes DEF PushSale, At, books, guards, position, upbit
<1>2. /\ f.id = fid /\ (f.priced <=> fid[1] = "order")
  OBVIOUS
<1> HIDE DEF f
<1>3. /\ Free = 0 /\ unpriced' = 0 /\ fid = SaleId /\ fid \in claimed
      /\ posq = 0 \/ Carrier
  BY <1>1 DEF PollSound, Priced, IdsKnown
<1>4. /\ Len(queue) \in Nat /\ Len(queue') = Len(queue) + 1
      /\ \A i \in 1..Len(queue) : queue'[i] = queue[i]
      /\ queue'[Len(queue) + 1] = f
  BY <1>1, <1>t
<1>5. \A o \in OrderId : Cover(o)' <=> Cover(o)
  BY <1>1 DEF Cover, Vol, Id
<1>6. \A j \in 1..Len(queue) : Good(j) => Good(j)'
  BY <1>4, <1>5 DEF Good, Id
<1>7. (\E j \in 1..Len(queue) : Good(j)) => \E j \in 1..Len(queue') : Good(j)'
  BY <1>4, <1>6
<1>8. ASSUME Carrier PROVE \E j \in 1..Len(queue') : Good(j)'
  <2>1. CASE exitOrder # 0 /\ Cover(exitOrder)
    <3>1. PICK o \in OrderId : o = exitOrder
      BY <1>t, <2>1
    <3>2. fid = Id(o) /\ Cover(o)'
      BY <1>3, <1>5, <2>1, <3>1 DEF SaleId
    <3>3. PICK j \in 1..Len(queue') : j = Len(queue) + 1
      BY <1>4
    <3>4. queue'[j].id = Id(o)
      BY <1>2, <1>4, <3>2, <3>3
    <3>5. Good(j)'
      BY <3>2, <3>4 DEF Good, Id
    <3>6. QED BY <3>5
  <2>2. QED BY <1>1, <1>7, <1>8, <2>1 DEF Carrier
<1>9. ASSUME NEW i \in 1..Len(queue'), ~queue'[i].priced
      PROVE  posq = 0 \/ \E j \in 1..(i - 1) : Good(j)'
  <2>1. CASE i \in 1..Len(queue)
    <3>1. ~queue[i].priced
      BY <1>4, <1>9, <2>1
    <3>2. posq = 0 \/ \E j \in 1..(i - 1) : Good(j)
      BY <2>1, <3>1 DEF Priced
    <3>3. \A j \in 1..(i - 1) : j \in 1..Len(queue)
      BY <1>4, <2>1
    <3>4. QED BY <1>6, <3>2, <3>3
  <2>2. CASE i \notin 1..Len(queue)
    <3>1. i = Len(queue) + 1 /\ ~f.priced
      BY <1>4, <1>9, <2>2
    <3>2. exitOrder = 0
      BY <1>2, <1>3, <3>1 DEF SaleId, Id
    <3>3. posq = 0 \/ \E j \in 1..Len(queue) : Good(j)
      BY <1>1, <1>3, <3>2 DEF Carrier
    <3>4. i - 1 = Len(queue)
      BY <1>4, <3>1
    <3>5. QED BY <1>6, <3>3, <3>4
  <2>3. QED BY <2>1, <2>2
<1>10. posq' = 0 \/ \E j \in 1..Len(queue') : Good(j)'
  BY <1>1, <1>3, <1>8
<1>11. posq' = 0 \/ Carrier'
  BY <1>10 DEF Carrier
<1>12. QED BY <1>1, <1>3, <1>9, <1>10, <1>11 DEF Priced

LEMMA PricedRemove ==
  ASSUME TypeInv, Priced, RemovePosition
  PROVE  Priced'
<1>1. /\ At = "remove" /\ At' = "idle"
      /\ UNCHANGED <<unpriced, queue, booked, posq, order>>
  BY RunnerGoes DEF RemovePosition, At, books, fills, upbit
<1>2. \A o \in OrderId : Cover(o)' <=> Cover(o)
  BY <1>1 DEF Cover, Vol, Id
<1>3. \A j : Good(j) <=> Good(j)'
  BY <1>1, <1>2 DEF Good, Id
<1>4. posq' = 0 \/ Carrier'
  BY <1>1, <1>3 DEF Priced, Carrier
<1>5. QED BY <1>1, <1>3, <1>4 DEF Priced

LEMMA PricedSell ==
  ASSUME TypeInv, KnownOrders, SalesExact, PollSound, IdsKnown, Priced,
         PlaceSell("runner")
  PROVE  Priced'
<1> DEFINE n == qty["runner"]
<1>t. /\ posq \in Nat /\ Free \in Nat /\ n \in Nat
      /\ held \in Nat /\ locked \in Nat
      /\ sellId \in [Seller -> 0..placed] /\ "runner" \in Seller
  BY SaleTypes DEF Seller
<1>1. /\ At = "place" /\ posq <= n
      /\ UNCHANGED <<unpriced, queue, exitOrder, claimed, booked, posq>>
      /\ \/ /\ Take("SELL", n) /\ At' = "record"
            /\ sellId' = [sellId EXCEPT !["runner"] = placed + 1]
         \/ At' = "idle" /\ UNCHANGED upbit
  <2>1. ~(outages < env.outages)
    BY DEF TypeInv, BudgetsOK, SalesExact
  <2>2. QED BY <2>1, RunnerGoes
            DEF PlaceSell, At, Take, books, fills, guards, position, PollSound
<1>2. CASE At' = "idle" /\ UNCHANGED upbit
  <2>1. Free' = Free /\ \A o \in OrderId : Cover(o)' <=> Cover(o)
    BY <1>1, <1>2 DEF Free, Cover, Vol, Id, upbit
  <2>2. \A j : Good(j) <=> Good(j)'
    BY <1>1, <2>1 DEF Good, Id
  <2>3. Carrier => Carrier'
    <3>1. Cover(exitOrder) => Cover(exitOrder)'
      BY <1>1, <1>2 DEF Cover, Vol, Id, upbit
    <3>2. QED BY <1>1, <2>2, <3>1 DEF Carrier, Id
  <2>4. QED BY <1>1, <1>2, <2>1, <2>2, <2>3 DEF Priced
<1>3. CASE /\ Take("SELL", n) /\ At' = "record"
           /\ sellId' = [sellId EXCEPT !["runner"] = placed + 1]
  <2>1. PICK o \in OrderId :
          /\ o = placed + 1
          /\ order'[o] = [side |-> "SELL", left |-> n, done |-> 0,
                          state |-> "wait"]
          /\ \A p \in OrderId : p # o => order'[p] = order[p]
    BY <1>3, <1>t, TakeType
  <2>2. sellId'["runner"] = o
    BY <1>3, <1>t, <2>1
  <2>3. Vol(o)' = n
    <3>1. order'[o].done + order'[o].left = n
      BY <1>t, <2>1
    <3>2. QED BY <3>1 DEF Vol
  <2>4. posq' <= Vol(sellId["runner"])'
    BY <1>1, <2>2, <2>3 DEF Vol
  <2>5. \A p \in OrderId : Cover(p) => Cover(p)'
    <3>1. ASSUME NEW p \in OrderId, Cover(p) PROVE Cover(p)'
      <4>1. CASE p = o
        <5>1. posq' <= Vol(p)'
          BY <1>1, <2>3, <4>1
        <5>2. QED BY <1>1, <3>1, <5>1 DEF Cover, Id
      <4>2. CASE p # o
        <5>1. Vol(p)' = Vol(p)
          BY <2>1, <4>2 DEF Vol
        <5>2. QED BY <1>1, <3>1, <5>1 DEF Cover, Id
      <4>3. QED BY <4>1, <4>2
    <3>2. QED BY <3>1
  <2>6. \A j : Good(j) => Good(j)'
    BY <1>1, <2>5 DEF Good, Id
  <2>7. QED BY <1>1, <1>3, <2>4, <2>6 DEF Priced, Carrier
<1>4. QED BY <1>1, <1>2, <1>3

LEMMA PricedRecord ==
  ASSUME TypeInv, KnownOrders, PollSound, IdsKnown, Priced,
         RecordSell("runner")
  PROVE  Priced'
<1>1. /\ At = "record" /\ At' = "idle" /\ exitOrder' = sellId["runner"]
      /\ UNCHANGED <<unpriced, queue, claimed, booked, posq, order>>
  BY RunnerGoes DEF RecordSell, At, books, fills, position, upbit
<1>2. PICK o \in OrderId : o = sellId["runner"]
  BY <1>1, RecordsSell
<1>3. stat[o] = "none" /\ posq <= Vol(o)
  BY <1>1, <1>2 DEF PollSound, Priced
<1>4. Id(o) \notin booked /\ Id(o) \notin claimed
  BY <1>3 DEF IdsKnown
<1>5. Cover(o)' /\ \A p \in OrderId : Cover(p)' <=> Cover(p)
  BY <1>1, <1>3, <1>4 DEF Cover, Vol, Id
<1>6. \A j : Good(j) <=> Good(j)'
  BY <1>1, <1>5 DEF Good, Id
<1>7. Carrier'
  <2>1. exitOrder' = o /\ exitOrder' # 0
    BY <1>1, <1>2 DEF OrderId
  <2>2. Cover(exitOrder)' /\ Id(exitOrder)' \notin claimed'
    BY <1>1, <1>4, <1>5, <2>1 DEF Cover, Vol, Id
  <2>3. QED BY <2>1, <2>2 DEF Carrier
<1>8. QED BY <1>1, <1>6, <1>7 DEF Priced

LEMMA PricedNext ==
  ASSUME TypeInv, FreshInv, SalesExact, env.crashes = 0, SaleInv, IdsKnown,
         Priced, [Next]_vars
  PROVE  Priced'
<1>1. KnownOrders /\ MonitorIdle /\ BuyAlone /\ PollSound
  BY DEF FreshInv, SaleInv
<1>2. ~LoseBuy /\ ~CrashSeller("runner")
  BY DEF TypeInv, BudgetsOK, LoseBuy, CrashSeller
<1>3. QED
  BY <1>1, <1>2, ExactSteps, PricedStill, PricedFill, PricedCanceled,
     PricedDone, PricedApply, PricedDecides, PricedWrite, PricedMissing,
     PricedPush, PricedRemove, PricedSell, PricedRecord

LEMMA PricedInit == Init => IdsKnown /\ Priced
<1> SUFFICES ASSUME Init PROVE IdsKnown /\ Priced
  OBVIOUS
<1>1. queue = <<>> /\ At = "idle" /\ posq = 0
  BY DEF Init, At, Seller
<1>2. Priced
  BY <1>1 DEF Init, Priced
<1>3. IdsKnown
  BY <1>1 DEF Init, IdsKnown, NoOrder
<1>4. QED BY <1>2, <1>3

(* Every sale that is booked carries the price of its own order: where no  *)
(* process is killed, the runner books at the average price only what the  *)
(* watcher or an earlier push has already booked, that is, nothing.        *)
THEOREM SalesArePriced == Spec => []SalesPriced
<1> DEFINE Sales == SalesExact => SaleInv /\ IdsKnown
           Prices == SalesExact /\ env.crashes = 0 => Priced
<1>1. Init => TypeInv /\ FreshInv /\ Sales /\ Prices
  BY TypeInit, FreshInit, SaleInit, PricedInit
<1>2. TypeInv /\ FreshInv /\ Sales /\ Prices /\ [Next]_vars
        => (TypeInv /\ FreshInv /\ Sales /\ Prices)'
  <2> SUFFICES ASSUME TypeInv, FreshInv, Sales, Prices, [Next]_vars
               PROVE  (TypeInv /\ FreshInv /\ Sales /\ Prices)'
    OBVIOUS
  <2>1. TypeInv' /\ FreshInv' /\ SalesExact' = SalesExact /\ env' = env
    BY TypeNext, FreshNext, ExactStays, EnvFixed
  <2>2. ASSUME SalesExact PROVE SaleInv' /\ IdsKnown'
    <3>1. SaleInv /\ IdsKnown
      BY <2>2
    <3>2. (SalesExact => SaleInv)'
      BY <2>2, SaleNext
    <3>3. SaleInv'
      BY <2>1, <2>2, <3>2
    <3>4. QED BY <2>2, <3>1, <3>3, IdsNext DEF SaleInv
  <2>3. ASSUME SalesExact, env.crashes = 0 PROVE Priced'
    BY <2>3, PricedNext
  <2>4. QED BY <2>1, <2>2, <2>3
<1>3. Prices => SalesPriced
  BY DEF SalesPriced, Priced
<1>4. QED BY <1>1, <1>2, <1>3, PTL DEF Spec

-----------------------------------------------------------------------------
(* What claw bought is watched.                                            *)

Undisturbed ==
  /\ env.own = 0 /\ env.crashes = 0 /\ env.outages = 0
  /\ Weak \cap {"partial", "pending_expiry", "early_rebuy"} = {}
Lots == {0, env.lot}
Waits(o) == order[o].state = "wait"

(* One lot is bought and sold as a whole: a BUY waits only while the       *)
(* account is empty, and what is locked an open SELL has locked.           *)
AllOrNothing ==
  /\ held \in Lots /\ locked \in Lots
  /\ \A o \in OrderId :
       /\ Waits(o) => order[o].left = env.lot /\ order[o].done = 0
       /\ order[o].state = "done" => order[o].done = env.lot
       /\ Waits(o) /\ IsBuy(o) => held = 0 /\ (Awaited(o) \/ o = inBuy)
  /\ locked > 0 => \E o \in OrderId : Waits(o) /\ ~IsBuy(o)
  /\ rested => held = 0

(* So is every position, and every quantity taken from one.                *)
WholePosition ==
  /\ posq \in Lots /\ (cache = NoPosition \/ cache.qty = env.lot)
  /\ At = "index" => seen \in Lots
  /\ At = "write" => seen = env.lot
  /\ At \in {"evaluate", "raise", "lock", "place", "push"} =>
       qty["runner"] = env.lot
  /\ pc["monitor"] \in {"look", "lock", "place"} => qty["monitor"] = env.lot
  /\ \A i \in 1..Len(queue) : queue[i].qty = env.lot

(* A BUY is booked by the watcher alone, and once.                         *)
BuysUnbooked ==
  /\ exitOrder # 0 => ~IsBuy(exitOrder)
  /\ inBuy # 0 => stat[inBuy] = "none"
  /\ \A o \in OrderId : IsBuy(o) =>
       /\ Awaited(o) => pending
       /\ Awaited(o) \/ stat[o] = "none" => Id(o) \notin booked
       /\ At = "push" => fid # Id(o)
       /\ \A i \in 1..Len(queue) : queue[i].id # Id(o)

(* While coins are free the position is indexed, or its BUY is still to be *)
(* booked; no sale is under way or inferred.                               *)
Unsold == Free > 0 =>
  /\ idx \/ \E o \in OrderId : /\ IsBuy(o) /\ order[o].state = "done"
                               /\ o = inBuy \/ Awaited(o)
  /\ \A o \in OrderId : Awaited(o) => IsBuy(o)
  /\ \A p \in Seller : pc[p] # "record"
  /\ queue = <<>> /\ At \notin {"push", "remove"}
  /\ At = "index" => seen > 0 \/ pending \/ ~idx
  /\ At = "missing" => pending

WatchedInv == AllOrNothing /\ WholePosition /\ BuysUnbooked /\ Unsold

(* Without kills and failing requests.                                     *)
LEMMA UndisturbedSteps ==
  ASSUME TypeInv, Undisturbed, [Next]_vars
  PROVE  \/ \E o \in OrderId : FillOrder(o) \/ WatchDone(o) \/ WatchCanceled(o)
         \/ PlaceBuy \/ RecordBuy \/ ApplyFill
         \/ Balances \/ ReadIndex \/ WriteHolding \/ Missing \/ PushSale
         \/ RemovePosition \/ OrphanScan \/ Evaluate \/ Raise
         \/ Scan \/ Ticker \/ Look
         \/ CleanUp
         \/ \E p \in Seller : TakeLock(p) \/ PlaceSell(p) \/ RecordSell(p)
         \/ LockExpires \/ PendingExpires \/ HashExpires \/ TimeUp
         \/ UNCHANGED vars
<1>1. /\ outages \in Nat /\ ~(outages < env.outages)
      /\ crashes \in Nat /\ ~(crashes < env.crashes)
  BY DEF TypeInv, BudgetsOK, Undisturbed
<1>2. ~BalancesFail /\ ~LoseBuy /\ (\A p \in Seller : ~CrashSeller(p))
      /\ \A o \in OrderId : ~CancelSell(o)
  BY <1>1 DEF BalancesFail, LoseBuy, CrashSeller, CancelSell
<1>3. "runner" \in Seller /\ "monitor" \in Seller
  BY DEF Seller
<1>4. QED
  BY <1>2, <1>3 DEF Next, Watch, RunnerSteps, Sync, SellSteps, MonitorSteps,
     MonitorGoesOn

LEMMA UndisturbedStays == [Next]_vars => Undisturbed' = Undisturbed
  BY EnvFixed DEF Undisturbed, Weak

(* No order executes, none is taken.                                       *)
LEMMA WholeFrame ==
  ASSUME AllOrNothing, UNCHANGED <<env, held, locked, order>>,
         \A o \in OrderId :
           Waits(o) /\ IsBuy(o) => Awaited(o)' \/ o = inBuy',
         rested' => rested \/ held = 0
  PROVE  AllOrNothing'
<1>1. \A o \in OrderId : Waits(o)' = Waits(o) /\ IsBuy(o)' = IsBuy(o)
  BY DEF Waits, IsBuy
<1>2. Lots' = Lots
  BY DEF Lots
<1>3. QED BY <1>1, <1>2 DEF AllOrNothing

LEMMA WholeFill ==
  ASSUME TypeInv, FreshStart, Undisturbed, AllOrNothing,
         NEW o \in OrderId, FillOrder(o)
  PROVE  /\ AllOrNothing' /\ order'[o].state = "done"
         /\ order'[o].side = order[o].side
         /\ \A p \in OrderId : p # o => order'[p] = order[p]
         /\ IF IsBuy(o) THEN held = 0 /\ locked = 0 /\ Free' = env.lot
            ELSE Free' = Free
<1>t. /\ order[o].side \in {"BUY", "SELL"} /\ env.lot \in Nat \ {0}
      /\ Waits(o) /\ order[o].left = env.lot /\ order[o].done = 0
      /\ held \in Nat /\ locked \in Nat /\ locked <= held
      /\ "partial" \notin Weak
      /\ held \in {0, env.lot} /\ locked \in {0, env.lot}
  BY OrderType, EnvType, LockedType
     DEF FillOrder, Waits, AllOrNothing, TypeInv, Undisturbed, Lots
<1>1. UNCHANGED <<env, inBuy, stat, rested>>
  BY DEF FillOrder
<1>2. /\ order'[o] = [side |-> order[o].side, left |-> 0, done |-> env.lot,
                      state |-> "done"]
      /\ \A p \in OrderId : p # o => order'[p] = order[p]
      /\ IF order[o].side = "BUY"
         THEN held' = held + env.lot /\ UNCHANGED locked
         ELSE held' = held - env.lot /\ locked' = locked - env.lot
  <2>1. PICK n \in 0..order[o].left :
          /\ "partial" \notin Weak => n = order[o].left
          /\ order'[o] = [side |-> order[o].side, left |-> order[o].left - n,
                          done |-> order[o].done + n,
                          state |-> IF n = order[o].left
                                    THEN "done" ELSE "wait"]
          /\ \A p \in OrderId : p # o => order'[p] = order[p]
          /\ IF order[o].side = "BUY"
             THEN held' = held + n /\ UNCHANGED <<locked, sold>>
             ELSE held' = held - n /\ locked' = locked - n
               /\ sold' = sold + n
    BY FillType
  <2>2. n = env.lot /\ order[o].left - n = 0 /\ order[o].done + n = env.lot
    BY <1>t, <2>1
  <2>3. QED BY <1>t, <2>1, <2>2
<1>3. /\ ~Waits(o)' /\ IsBuy(o)' = IsBuy(o) /\ order'[o].state = "done"
      /\ order'[o].done = env.lot /\ order'[o].side = order[o].side
  BY <1>2 DEF Waits, IsBuy
<1>4. \A p \in OrderId : p # o => Waits(p)' = Waits(p) /\ IsBuy(p)' = IsBuy(p)
  BY <1>2 DEF Waits, IsBuy
<1>5. \A p \in OrderId : Awaited(p)' = Awaited(p)
  BY <1>1 DEF Awaited
<1>6. CASE IsBuy(o)
  <2>1. held = 0 /\ (Awaited(o) \/ o = inBuy) /\ o # 0
    BY <1>t, <1>6 DEF AllOrNothing, OrderId
  <2>2. held' = env.lot /\ locked' = 0 /\ locked = 0 /\ Free' = env.lot
    BY <1>t, <1>2, <1>6, <2>1 DEF IsBuy, Free
  <2>3. ~rested
    BY <2>1, <1>6 DEF FreshStart
  <2>4. ASSUME NEW p \in OrderId, Waits(p)', IsBuy(p)' PROVE FALSE
    <3>1. p # o /\ Waits(p) /\ IsBuy(p)
      BY <1>3, <1>4, <2>4
    <3>2. Awaited(p) \/ p = inBuy
      BY <3>1 DEF AllOrNothing
    <3>3. p # 0
      BY DEF OrderId
    <3>4. QED BY <1>6, <2>1, <3>1, <3>2, <3>3 DEF FreshStart
  <2>5. \A p \in OrderId :
          /\ Waits(p)' => order'[p].left = env.lot /\ order'[p].done = 0
          /\ order'[p].state = "done" => order'[p].done = env.lot
    BY <1>2, <1>3, <1>4 DEF AllOrNothing
  <2>6. AllOrNothing'
    BY <1>1, <1>t, <2>2, <2>3, <2>4, <2>5 DEF AllOrNothing, Lots
  <2>7. QED BY <1>2, <1>3, <1>6, <2>1, <2>2, <2>6
<1>7. CASE ~IsBuy(o)
  <2>1. LentBy(order[o]) = env.lot
    BY <1>t, <1>7 DEF LentBy, IsBuy, Waits
  <2>2. env.lot <= locked
    BY <2>1, LockedType DEF TypeInv
  <2>3. held = env.lot /\ locked = env.lot /\ held' = 0 /\ locked' = 0
        /\ Free' = Free
    BY <1>t, <1>2, <1>7, <2>2 DEF IsBuy, Free
  <2>4. ~(locked' > 0)
    BY <2>3
  <2>5. ASSUME NEW p \in OrderId
        PROVE
          /\ Waits(p)' => order'[p].left = env.lot /\ order'[p].done = 0
          /\ order'[p].state = "done" => order'[p].done = env.lot
          /\ Waits(p)' /\ IsBuy(p)' =>
               held' = 0 /\ (Awaited(p)' \/ p = inBuy')
    BY <1>1, <1>2, <1>3, <1>4, <1>5, <2>3 DEF AllOrNothing
  <2>6. AllOrNothing'
    BY <1>1, <2>3, <2>4, <2>5 DEF AllOrNothing, Lots
  <2>7. QED BY <1>2, <1>3, <1>7, <2>3, <2>6
<1>8. QED BY <1>6, <1>7

LEMMA WholeCanceled ==
  ASSUME TypeInv, AllOrNothing, NEW o \in OrderId, WatchCanceled(o)
  PROVE  AllOrNothing'
<1>t. /\ order \in [OrderId -> Order]
      /\ stat \in [OrderId -> {"none", "SUBMITTED", "FILLED", "CANCELED"}]
  BY DEF TypeInv, AccountOK, OrdersOK
<1>1. /\ UNCHANGED <<env, held, locked, inBuy, rested>>
      /\ \A p \in OrderId : p # o => stat'[p] = stat[p]
  BY <1>t DEF WatchCanceled
<1>2. \A p \in OrderId : p # o => Awaited(p)' = Awaited(p)
  BY <1>1 DEF Awaited
<1>3. CASE UNCHANGED order
  <2>1. ~Waits(o) \/ ~IsBuy(o) \/ order'[o].state = "cancel"
    <3>1. CASE order[o].state = "cancel"
      BY <3>1 DEF Waits
    <3>2. CASE order' = [order EXCEPT ![o].state = "cancel"]
      BY <1>t, <3>2 DEF Order
    <3>3. QED BY <3>1, <3>2 DEF WatchCanceled
  <2>2. \A p \in OrderId :
          Waits(p) /\ IsBuy(p) => Awaited(p)' \/ p = inBuy'
    BY <1>1, <1>2, <1>3, <2>1 DEF AllOrNothing, Waits
  <2>3. QED BY <1>1, <1>3, <2>2, WholeFrame
<1>4. CASE order' = [order EXCEPT ![o].state = "cancel"] /\ IsBuy(o)
  <2>1. /\ order'[o].state = "cancel" /\ order'[o].side = order[o].side
        /\ \A p \in OrderId : p # o => order'[p] = order[p]
    BY <1>t, <1>4 DEF Order
  <2>2. ~Waits(o)'
    BY <2>1 DEF Waits
  <2>3. \A p \in OrderId :
          p # o => Waits(p)' = Waits(p) /\ IsBuy(p)' = IsBuy(p)
    BY <2>1 DEF Waits, IsBuy
  <2>4. ASSUME NEW p \in OrderId
        PROVE
          /\ Waits(p)' => order'[p].left = env.lot /\ order'[p].done = 0
          /\ order'[p].state = "done" => order'[p].done = env.lot
          /\ Waits(p)' /\ IsBuy(p)' =>
               held' = 0 /\ (Awaited(p)' \/ p = inBuy')
    BY <1>1, <1>2, <2>1, <2>2, <2>3 DEF AllOrNothing
  <2>5. locked' > 0 => \E p \in OrderId : Waits(p)' /\ ~IsBuy(p)'
    BY <1>1, <1>4, <2>3 DEF AllOrNothing
  <2>6. QED BY <1>1, <2>4, <2>5 DEF AllOrNothing, Lots
<1>5. QED BY <1>3, <1>4 DEF WatchCanceled, IsBuy

(* A BUY finds nothing held, a SELL all of it free.                        *)
LEMMA WholeTake ==
  ASSUME TypeInv, AllOrNothing, NEW side \in {"BUY", "SELL"},
         Take(side, env.lot), UNCHANGED <<env, stat>>,
         IF side = "BUY" THEN rested /\ ~rested' /\ inBuy' = placed + 1
                           /\ inBuy = 0 /\ \A o \in OrderId : ~Awaited(o)
                         ELSE UNCHANGED <<inBuy, rested>>
  PROVE  /\ AllOrNothing' /\ Free' = 0
         /\ \A o \in OrderId : o # placed + 1 => order'[o] = order[o]
<1>t. /\ env.lot \in Nat \ {0} /\ held \in Nat /\ locked \in Nat
      /\ locked <= held /\ held \in {0, env.lot} /\ locked \in {0, env.lot}
  BY EnvType, LockedType DEF TypeInv, AllOrNothing, Lots
<1>0. PICK n \in OrderId : n = placed + 1
  BY <1>t, TakeType
<1>1. /\ held' = held
      /\ order'[n]
           = [side |-> side, left |-> env.lot, done |-> 0, state |-> "wait"]
      /\ \A o \in OrderId : o # n => order'[o] = order[o]
  BY <1>0, <1>t, TakeType
<1>2. /\ order'[n].side = side /\ order'[n].left = env.lot
      /\ order'[n].done = 0 /\ order'[n].state = "wait"
  BY <1>1
<1>3. \A o \in OrderId : o # n => Waits(o)' = Waits(o) /\ IsBuy(o)' = IsBuy(o)
  BY <1>1 DEF Waits, IsBuy
<1>4. \A o \in OrderId : Awaited(o)' = Awaited(o)
  BY DEF Awaited
<1>5. \A o \in OrderId :
        /\ Waits(o)' => order'[o].left = env.lot /\ order'[o].done = 0
        /\ order'[o].state = "done" => order'[o].done = env.lot
  BY <1>1, <1>2, <1>3 DEF AllOrNothing
<1>6. CASE side = "BUY"
  <2>1. held = 0 /\ locked = 0 /\ locked' = 0 /\ held' = 0 /\ Free' = 0
    BY <1>t, <1>1, <1>6 DEF AllOrNothing, Take, Free
  <2>2. \A o \in OrderId : Waits(o)' /\ IsBuy(o)' => o = inBuy'
    <3>1. 0 \notin OrderId
      BY DEF OrderId
    <3>2. QED BY <1>0, <1>3, <1>6, <3>1 DEF AllOrNothing
  <2>3. ~(locked' > 0)
    BY <2>1
  <2>4. AllOrNothing'
    BY <1>5, <1>6, <2>1, <2>2, <2>3 DEF AllOrNothing, Lots
  <2>5. QED BY <1>0, <1>1, <2>1, <2>4
<1>7. CASE side = "SELL"
  <2>1. env.lot <= held - locked /\ locked' = locked + env.lot
    BY <1>7 DEF Take, Free
  <2>2. held = env.lot /\ locked' = env.lot /\ held' = env.lot /\ Free' = 0
    BY <1>t, <1>1, <2>1 DEF Free
  <2>3. ~rested' /\ held # 0
    BY <1>t, <1>7, <2>2 DEF AllOrNothing
  <2>4. ~IsBuy(n)' /\ Waits(n)'
    BY <1>2, <1>7 DEF IsBuy, Waits
  <2>5. \A o \in OrderId : ~(Waits(o)' /\ IsBuy(o)')
    BY <1>3, <2>3, <2>4 DEF AllOrNothing
  <2>6. AllOrNothing'
    BY <1>1, <1>5, <2>2, <2>3, <2>4, <2>5 DEF AllOrNothing, Lots
  <2>7. QED BY <1>0, <1>1, <2>2, <2>6
<1>8. QED BY <1>6, <1>7

(* Keys that are written leave what waits followed.                        *)
LEMMA WholeKeys ==
  ASSUME TypeInv, KnownOrders, AllOrNothing,
         \/ RecordBuy \/ \E p \in Seller : RecordSell(p)
         \/ \E o \in OrderId : WatchDone(o)
  PROVE  AllOrNothing'
<1>t. /\ stat \in [OrderId -> {"none", "SUBMITTED", "FILLED", "CANCELED"}]
      /\ inBuy \in 0..placed /\ \A o \in 1..placed : o \in OrderId
  BY SaleTypes
<1>1. CASE RecordBuy
  <2>1. /\ UNCHANGED <<env, held, locked, order, rested>>
        /\ inBuy \in OrderId /\ stat' = [stat EXCEPT ![inBuy] = "SUBMITTED"]
    BY <1>1, <1>t, EnvType DEF RecordBuy, upbit
  <2>2. \A o \in OrderId :
          Awaited(o) \/ o = inBuy => Awaited(o)'
    BY <1>t, <2>1 DEF Awaited
  <2>3. QED BY <2>1, <2>2, WholeFrame DEF AllOrNothing
<1>2. ASSUME NEW p \in Seller, RecordSell(p) PROVE AllOrNothing'
  <2>1. /\ UNCHANGED <<env, held, locked, order, rested, inBuy>>
        /\ stat' = [stat EXCEPT ![sellId[p]] = "SUBMITTED"]
    BY <1>2 DEF RecordSell, upbit
  <2>2. \A o \in OrderId : Awaited(o) => Awaited(o)'
    BY <1>t, <2>1 DEF Awaited
  <2>3. QED BY <2>1, <2>2, WholeFrame DEF AllOrNothing
<1>3. ASSUME NEW o \in OrderId, WatchDone(o) PROVE AllOrNothing'
  <2>1. /\ UNCHANGED <<env, held, locked, order, rested, inBuy>>
        /\ stat' = [stat EXCEPT ![o] = "FILLED"] /\ ~Waits(o)
    BY <1>3 DEF WatchDone, upbit, Waits
  <2>2. \A p \in OrderId : Waits(p) => Awaited(p)' = Awaited(p)
    BY <1>t, <2>1 DEF Awaited
  <2>3. QED BY <2>1, <2>2, WholeFrame DEF AllOrNothing
<1>4. QED BY <1>1, <1>2, <1>3

(* The runner finds all gone only when nothing is held.                    *)
LEMMA GoneIsSold ==
  ASSUME TypeInv, KnownOrders, AllOrNothing, Unsold, AllGone
  PROVE  held = 0
<1>t. /\ held \in Nat /\ locked \in Nat /\ placed \in Nat /\ inBuy = 0
      /\ \A o \in OrderId : o > placed => order[o] = NoOrder
  BY SaleTypes DEF AllGone
<1>1. ASSUME NEW o \in OrderId
      PROVE  ~Waits(o) /\ ~Awaited(o) /\ o # inBuy
  <2>1. CASE o \in 1..placed
    BY <1>t, <2>1 DEF AllGone, Waits, Awaited
  <2>2. CASE o \notin 1..placed
    BY <1>t, <2>2 DEF OrderId, Waits, NoOrder, KnownOrders, Awaited
  <2>3. QED BY <2>1, <2>2
<1>2. locked = 0
  BY <1>t, <1>1 DEF AllOrNothing
<1>3. ~(Free > 0)
  BY <1>1 DEF AllGone, Unsold
<1>4. QED BY <1>t, <1>2, <1>3 DEF Free

LEMMA WholeNext ==
  ASSUME TypeInv, FreshInv, Undisturbed, WatchedInv, [Next]_vars
  PROVE  AllOrNothing'
<1>t. /\ KnownOrders /\ FreshStart /\ Calm /\ AllOrNothing
      /\ env.lot \in Nat
  BY EnvType DEF FreshInv, Undisturbed, Calm, WatchedInv
<1>1. ASSUME UNCHANGED <<env, upbit, stat, inBuy>>,
             rested' => rested \/ held = 0
      PROVE  AllOrNothing'
  <2>1. UNCHANGED <<held, locked, order>>
    BY <1>1 DEF upbit
  <2>2. \A o \in OrderId : Awaited(o)' = Awaited(o)
    BY <1>1 DEF Awaited
  <2>3. QED BY <1>1, <1>t, <2>1, <2>2, WholeFrame DEF AllOrNothing
<1>2. CASE PlaceBuy
  <2>1. /\ Take("BUY", env.lot) /\ UNCHANGED <<env, stat>> /\ rested
        /\ ~rested' /\ inBuy' = placed + 1
    BY <1>2, <1>t DEF PlaceBuy, Calm
  <2>2. inBuy = 0 /\ \A o \in OrderId : ~Awaited(o)
    BY <1>t, <2>1 DEF FreshStart
  <2>3. QED BY <1>t, <2>1, <2>2, WholeTake
<1>3. ASSUME NEW p \in Seller, PlaceSell(p) PROVE AllOrNothing'
  <2>1. qty[p] = env.lot
    BY <1>3 DEF WatchedInv, WholePosition, PlaceSell, Seller, At
  <2>2. UNCHANGED <<env, stat, inBuy, rested>>
    BY <1>3 DEF PlaceSell
  <2>3. UNCHANGED upbit \/ Take("SELL", env.lot)
    BY <1>3, <2>1 DEF PlaceSell
  <2>4. QED BY <1>1, <1>t, <2>2, <2>3, WholeTake
<1>4. CASE OrphanScan
  <2>1. UNCHANGED <<env, upbit, stat, inBuy>> /\ rested' = AllGone
    BY <1>4 DEF OrphanScan
  <2>2. QED BY <1>1, <1>t, <2>1, GoneIsSold DEF WatchedInv
<1>5. CASE \/ ApplyFill \/ Balances \/ ReadIndex \/ WriteHolding \/ Missing
           \/ PushSale \/ RemovePosition \/ Evaluate \/ Raise
           \/ Scan \/ Ticker \/ Look
           \/ CleanUp \/ \E p \in Seller : TakeLock(p)
           \/ LockExpires \/ PendingExpires \/ HashExpires \/ TimeUp
           \/ UNCHANGED vars
  <2>1. UNCHANGED <<env, upbit, stat, inBuy, rested>>
    BY <1>5
       DEF ApplyFill, Balances, ReadIndex, WriteHolding, Missing, PushSale,
           RemovePosition, Evaluate, PassLock, Raise, Scan, Ticker, Look,
           CleanUp, TakeLock, LockExpires, PendingExpires, HashExpires, TimeUp,
           vars
  <2>2. QED BY <1>1, <2>1
<1>6. QED
  BY <1>t, <1>2, <1>3, <1>4, <1>5, UndisturbedSteps, WholeFill,
     WholeCanceled, WholeKeys

(* What the fills of a SELL and of a BUY do to the position.               *)
LEMMA BookWhole ==
  ASSUME TypeInv, posq \in Lots, NEW f, f.qty = env.lot, Book(f),
         f.side = "SELL" \/ (f.side = "BUY" /\ posq = 0)
  PROVE  posq' \in {0, env.lot}
<1>t. env.lot \in Nat \ {0} /\ posq \in {0, env.lot}
  BY EnvType DEF Lots
<1>1. CASE f.id \in booked \/ (f.side = "SELL" /\ posq = 0)
  BY <1>1, <1>t DEF Book, position
<1>2. CASE f.id \notin booked /\ ~(f.side = "SELL" /\ posq = 0)
  <2>1. CASE f.side = "BUY"
    BY <1>1, <1>2, <1>t, <2>1 DEF Book
  <2>2. CASE f.side = "SELL"
    <3>1. posq = env.lot /\ posq' = posq - Smaller(env.lot, posq)
      BY <1>2, <1>t, <2>2 DEF Book
    <3>2. QED BY <1>t, <3>1 DEF Smaller
  <2>3. QED BY <2>1, <2>2
<1>3. QED BY <1>1, <1>2

LEMMA PositionFrame ==
  ASSUME TypeInv, WholePosition, UNCHANGED env, posq' \in {0, env.lot},
         cache' = cache \/ cache' = NoPosition \/ cache'.qty = env.lot,
         At' = At \/ At' \in {"idle", "missing", "remove", "record", "clean"},
         At' = At => UNCHANGED seen /\ qty'["runner"] = qty["runner"],
         \/ /\ pc'["monitor"] = pc["monitor"]
            /\ qty'["monitor"] = qty["monitor"]
         \/ pc'["monitor"] \notin {"look", "lock", "place"},
         queue' = queue \/ (queue # <<>> /\ queue' = Tail(queue))
  PROVE  WholePosition'
<1>1. \A i \in 1..Len(queue') : queue'[i].qty = env.lot
  <2>1. CASE queue' = queue
    BY <2>1 DEF WholePosition
  <2>2. CASE queue # <<>> /\ queue' = Tail(queue)
    BY <2>2, RestOfQueue DEF WholePosition
  <2>3. QED BY <2>1, <2>2
<1>2. At' # At => At' \notin {"index", "write", "evaluate", "raise", "lock",
                              "place", "push"}
  OBVIOUS
<1>3. QED BY <1>1, <1>2 DEF WholePosition, Lots

LEMMA PositionBooks ==
  ASSUME TypeInv, FreshStart, AllOrNothing, WholePosition,
         ApplyFill \/ \E o \in OrderId : WatchDone(o)
  PROVE  WholePosition'
<1>1. CASE ApplyFill
  <2>1. /\ UNCHANGED <<env, cache, pc, qty, seen>> /\ queue' = Tail(queue)
        /\ Book(Head(queue)) /\ queue # <<>>
    BY <1>1 DEF ApplyFill, sellers, poll
  <2>2. Head(queue).side = "SELL" /\ Head(queue).qty = env.lot
    BY <2>1, FillIsSell DEF WholePosition
  <2>3. posq' \in {0, env.lot}
    BY <2>1, <2>2, BookWhole DEF WholePosition
  <2>4. QED BY <2>1, <2>3, PositionFrame DEF At
<1>2. ASSUME NEW o \in OrderId, WatchDone(o) PROVE WholePosition'
  <2>1. /\ UNCHANGED <<env, cache, pc, qty, seen, queue>>
        /\ Awaited(o) /\ order[o].state = "done" /\ order[o].done = env.lot
    BY <1>2 DEF WatchDone, sellers, poll, fills, Awaited, AllOrNothing
  <2>2. PICK f : /\ f = [id |-> <<"order", o>>, side |-> order[o].side,
                         qty |-> order[o].done, priced |-> TRUE]
                 /\ Book(f)
    BY <1>2 DEF WatchDone
  <2>3. f.qty = env.lot /\ f.side = order[o].side /\ f.side \in {"BUY", "SELL"}
    BY <2>1, <2>2, OrderType
  <2>4. f.side = "BUY" => posq = 0
    BY <2>1, <2>3 DEF FreshStart, Buying, IsBuy, NothingLeft
  <2>5. posq' \in {0, env.lot}
    BY <2>2, <2>3, <2>4, BookWhole DEF WholePosition
  <2>6. QED BY <2>1, <2>5, PositionFrame DEF At
<1>3. QED BY <1>1, <1>2

LEMMA PositionSync ==
  ASSUME TypeInv, AllOrNothing, WholePosition,
         \/ Balances \/ ReadIndex \/ WriteHolding \/ Missing \/ PushSale
         \/ RemovePosition \/ Evaluate \/ Raise
  PROVE  WholePosition'
<1>t. /\ posq \in {0, env.lot} /\ env.lot \in Nat \ {0} /\ posq \in Nat
      /\ seen \in Nat /\ qty \in [Seller -> Nat] /\ queue \in Seq(Fills)
      /\ "runner" \in Seller /\ "monitor" \in Seller
  BY SaleTypes, EnvType DEF WholePosition, Lots, Seller
<1>1. CASE Balances
  <2>1. /\ UNCHANGED <<env, posq, cache, qty, queue>> /\ seen' = Free
        /\ Goto("runner", "index")
    BY <1>1 DEF Balances, position, fills
  <2>2. Free \in Lots
    BY EnvType, LockedType DEF AllOrNothing, Lots, Free, TypeInv
  <2>3. At' = "index" /\ pc'["monitor"] = pc["monitor"]
    BY <2>1, RunnerGoes
  <2>4. QED BY <2>1, <2>2, <2>3 DEF WholePosition, Lots
<1>2. CASE ReadIndex
  <2>1. /\ UNCHANGED <<env, posq, cache, qty, queue, seen>> /\ At = "index"
        /\ \/ Goto("runner", "idle") \/ Goto("runner", "missing")
           \/ Goto("runner", "write") /\ seen > 0
    BY <1>2 DEF ReadIndex, position, fills, poll, At
  <2>2. /\ pc'["monitor"] = pc["monitor"]
        /\ At' \in {"idle", "missing"} \/ (At' = "write" /\ seen > 0)
    BY <2>1, RunnerGoes
  <2>3. seen \in {0, env.lot}
    BY <2>1 DEF WholePosition, Lots
  <2>4. QED BY <1>t, <2>1, <2>2, <2>3 DEF WholePosition, Lots
<1>3. CASE WriteHolding
  <2>1. /\ UNCHANGED <<env, cache, queue>> /\ At = "write" /\ posq' = seen
        /\ qty' = [qty EXCEPT !["runner"] = seen] /\ Goto("runner", "evaluate")
    BY <1>3 DEF WriteHolding, fills, At
  <2>2. At' = "evaluate" /\ pc'["monitor"] = pc["monitor"]
    BY <2>1, RunnerGoes
  <2>3. seen = env.lot
    BY <2>1 DEF WholePosition
  <2>4. QED BY <1>t, <2>1, <2>2, <2>3 DEF WholePosition, Lots
<1>4. CASE Missing
  <2>1. /\ UNCHANGED <<env, posq, cache, queue, seen>> /\ At = "missing"
        /\ qty'["monitor"] = qty["monitor"]
        /\ \/ Goto("runner", "idle") \/ Goto("runner", "remove")
           \/ Goto("runner", "push") /\ posq > 0 /\ qty'["runner"] = posq
    BY <1>4, <1>t DEF Missing, position, At
  <2>2. /\ pc'["monitor"] = pc["monitor"]
        /\ \/ At' \in {"idle", "remove"}
           \/ At' = "push" /\ posq > 0 /\ qty'["runner"] = posq
    BY <2>1, RunnerGoes
  <2>3. QED BY <1>t, <2>1, <2>2 DEF WholePosition, Lots
<1>5. CASE PushSale
  <2>1. PICK f : /\ queue' = Append(queue, f)
                 /\ f = [id |-> fid, side |-> "SELL", qty |-> qty["runner"],
                         priced |-> fid[1] = "order"]
    BY <1>5 DEF PushSale
  <2>2. f.qty = env.lot
    BY <1>5, <2>1 DEF PushSale, WholePosition, At
  <2>3. \A i \in 1..Len(queue') : queue'[i].qty = env.lot
    <3>1. \A i \in 1..Len(queue') :
            queue'[i] = f \/ (i \in 1..Len(queue) /\ queue'[i] = queue[i])
      BY <1>t, <2>1
    <3>2. QED BY <2>2, <3>1 DEF WholePosition
  <2>4. /\ UNCHANGED <<env, posq, cache, qty>> /\ At' = "remove"
        /\ pc'["monitor"] = pc["monitor"]
    BY <1>5, RunnerGoes DEF PushSale, position
  <2>5. QED BY <2>3, <2>4 DEF WholePosition, Lots
<1>6. CASE RemovePosition
  <2>1. /\ UNCHANGED <<env, posq, cache, qty, queue>> /\ At' = "idle"
        /\ pc'["monitor"] = pc["monitor"]
    BY <1>6, RunnerGoes DEF RemovePosition, fills
  <2>2. At # "idle"
    BY <1>6 DEF RemovePosition, At
  <2>3. QED BY <1>t, <2>1, <2>2, PositionFrame
<1>7. CASE Evaluate \/ Raise
  <2>1. /\ UNCHANGED <<env, posq, cache, qty, queue>>
        /\ \E x \in {"idle", "raise", "lock"} : Goto("runner", x)
        /\ At \in {"evaluate", "raise"}
    BY <1>7 DEF Evaluate, Raise, PassLock, ExitNow, position, fills, At
  <2>2. /\ At' \in {"idle", "raise", "lock"} /\ pc'["monitor"] = pc["monitor"]
    BY <2>1, RunnerGoes
  <2>3. QED BY <2>1, <2>2 DEF WholePosition, Lots
<1>8. QED BY <1>1, <1>2, <1>3, <1>4, <1>5, <1>6, <1>7

(* Where a seller goes.                                                    *)
LEMMA SellerGoes ==
  ASSUME TypeInv, NEW p \in Seller, NEW label, Goto(p, label)
  PROVE  /\ p = "runner" => At' = label /\ pc'["monitor"] = pc["monitor"]
         /\ p = "monitor" => At' = At /\ pc'["monitor"] = label
         /\ p = "runner" \/ p = "monitor"
  BY DEF Goto, TypeInv, PollOK, Seller, At

LEMMA PositionSells ==
  ASSUME TypeInv, WholePosition,
         \/ Scan \/ Ticker \/ Look \/ CleanUp
         \/ \E p \in Seller : TakeLock(p) \/ PlaceSell(p) \/ RecordSell(p)
  PROVE  WholePosition'
<1>t. /\ posq \in {0, env.lot} /\ posq \in Nat /\ qty \in [Seller -> Nat]
      /\ "runner" \in Seller /\ "monitor" \in Seller /\ env.lot # 0
  BY SaleTypes, EnvType DEF WholePosition, Lots, Seller
<1>1. CASE Scan
  <2>1. /\ UNCHANGED <<env, posq, qty, queue, seen, pc>>
        /\ cache' = IF idx /\ posq > 0
                    THEN [qty |-> posq, gen |-> gen] ELSE NoPosition
    BY <1>1 DEF Scan, position, fills, poll, sellers
  <2>2. cache' = NoPosition \/ cache'.qty = env.lot
    BY <1>t, <2>1
  <2>3. QED BY <1>t, <2>1, <2>2, PositionFrame DEF At
<1>2. CASE Ticker
  <2>1. /\ UNCHANGED <<env, posq, queue, seen, cache>> /\ cache # NoPosition
        /\ qty' = [qty EXCEPT !["monitor"] = cache.qty]
        /\ Goto("monitor", "look")
    BY <1>2 DEF Ticker, position, fills, poll
  <2>2. At' = At
    BY <1>t, <2>1, SellerGoes DEF At
  <2>3. /\ qty'["monitor"] = env.lot /\ qty'["runner"] = qty["runner"]
    BY <1>t, <2>1 DEF WholePosition
  <2>4. QED BY <2>1, <2>2, <2>3 DEF WholePosition, Lots
<1>3. CASE CleanUp \/ Look
  <2>1. /\ UNCHANGED <<env, posq, queue, seen, cache, qty>>
        /\ \/ Goto("monitor", "idle")
           \/ pc["monitor"] = "look" /\ Goto("monitor", "lock")
    BY <1>3 DEF CleanUp, Look, PassLock, ExitNow, position, fills, poll
  <2>2. /\ At' = At
        /\ \/ pc'["monitor"] = "idle"
           \/ pc["monitor"] = "look" /\ pc'["monitor"] = "lock"
    BY <1>t, <2>1, SellerGoes
  <2>3. QED BY <2>1, <2>2 DEF WholePosition, Lots
<1>4. ASSUME NEW p \in Seller, TakeLock(p) \/ PlaceSell(p) \/ RecordSell(p)
      PROVE  WholePosition'
  <2>1. /\ UNCHANGED <<env, posq, queue, seen, cache, qty>>
        /\ \/ pc[p] = "lock" /\ Goto(p, "place")
           \/ Goto(p, "idle") \/ Goto(p, "record") \/ Goto(p, "clean")
    BY <1>4
       DEF TakeLock, PlaceSell, RecordSell, position, fills, poll
  <2>2. CASE p = "runner"
    <3>1. /\ pc'["monitor"] = pc["monitor"]
          /\ \/ At = "lock" /\ At' = "place"
             \/ At' \in {"idle", "record", "clean"}
      BY <2>1, <2>2, SellerGoes DEF At
    <3>2. QED BY <2>1, <3>1 DEF WholePosition, Lots
  <2>3. CASE p = "monitor"
    <3>1. /\ At' = At
          /\ \/ pc["monitor"] = "lock" /\ pc'["monitor"] = "place"
             \/ pc'["monitor"] \in {"idle", "record", "clean"}
      BY <2>1, <2>3, SellerGoes
    <3>2. QED BY <2>1, <3>1 DEF WholePosition, Lots
  <2>4. QED BY <2>2, <2>3 DEF Seller
<1>5. QED BY <1>1, <1>2, <1>3, <1>4

LEMMA PositionNext ==
  ASSUME TypeInv, FreshInv, Undisturbed, WatchedInv, [Next]_vars
  PROVE  WholePosition'
<1>t. /\ FreshStart /\ AllOrNothing /\ WholePosition
      /\ posq \in {0, env.lot}
  BY DEF FreshInv, Undisturbed, Calm, WatchedInv, WholePosition, Lots
<1>1. CASE \/ \E o \in OrderId : FillOrder(o) \/ WatchCanceled(o)
           \/ PlaceBuy \/ RecordBuy \/ OrphanScan \/ LockExpires
           \/ PendingExpires \/ HashExpires \/ TimeUp \/ UNCHANGED vars
  <2>1. /\ UNCHANGED <<env, cache, queue, seen, pc, qty>>
        /\ posq' = posq \/ posq' = 0
    BY <1>1
       DEF FillOrder, WatchCanceled, PlaceBuy, RecordBuy, OrphanScan,
           LockExpires, PendingExpires, HashExpires, TimeUp, vars, position,
           fills, poll, sellers
  <2>2. QED BY <1>t, <2>1, PositionFrame DEF At
<1>2. QED
  BY <1>t, <1>1, UndisturbedSteps, PositionBooks, PositionSync, PositionSells

LEMMA BuysStay ==
  ASSUME TypeInv, [Next]_vars, NEW o \in OrderId, IsBuy(o)'
  PROVE  IsBuy(o)
<1>1. CASE o \in 1..placed
  BY <1>1, SidesStay
<1>2. CASE o \notin 1..placed
  <2>1. order[o] = NoOrder
    BY <1>2, SaleTypes DEF OrderId
  <2>2. QED BY <2>1 DEF IsBuy, NoOrder
<1>3. QED BY <1>1, <1>2

(* A recorded SELL is none of the BUYs.                                    *)
LEMMA RecordsSells ==
  ASSUME TypeInv, KnownOrders, NEW p \in Seller, RecordSell(p)
  PROVE  /\ sellId[p] \in OrderId /\ sellId[p] \in 1..placed
         /\ ~IsBuy(sellId[p])
         /\ \A o \in OrderId : o # sellId[p] => stat'[o] = stat[o]
         /\ stat'[sellId[p]] = "SUBMITTED" /\ exitOrder' = sellId[p]
<1>1. /\ sellId[p] \in 1..placed /\ ~IsBuy(sellId[p])
      /\ stat' = [stat EXCEPT ![sellId[p]] = "SUBMITTED"]
      /\ exitOrder' = sellId[p] /\ sellId' = [sellId EXCEPT ![p] = 0]
  BY DEF RecordSell, KnownOrders
<1>2. PICK n \in OrderId : n = sellId[p]
  BY <1>1, SaleTypes
<1>3. stat'[n] = "SUBMITTED" /\ \A o \in OrderId : o # n => stat'[o] = stat[o]
  BY <1>1, <1>2, SaleTypes
<1>4. QED BY <1>1, <1>2, <1>3 DEF Awaited

(* The keys of the BUYs.                                                   *)
LEMMA BuyKeys ==
  ASSUME TypeInv, KnownOrders, BuysUnbooked, Undisturbed, [Next]_vars
  PROVE  /\ inBuy' # 0 => stat'[inBuy'] = "none"
         /\ \A o \in OrderId : IsBuy(o)' =>
              /\ Awaited(o)' => Awaited(o) \/ (RecordBuy /\ o = inBuy)
              /\ stat'[o] = "none" => stat[o] = "none"
              /\ Awaited(o)' \/ stat'[o] = "none" => ~WatchDone(o)
<1>t. /\ stat \in [OrderId -> {"none", "SUBMITTED", "FILLED", "CANCELED"}]
      /\ inBuy \in 0..placed /\ placed \in Nat
      /\ \A o \in 1..placed : o \in OrderId
  BY SaleTypes
<1>1. ASSUME NEW o \in OrderId, IsBuy(o)'
      PROVE  /\ Awaited(o)' => Awaited(o) \/ (RecordBuy /\ o = inBuy)
             /\ stat'[o] = "none" => stat[o] = "none"
             /\ Awaited(o)' \/ stat'[o] = "none" => ~WatchDone(o)
  <2>1. IsBuy(o)
    BY <1>1, BuysStay
  <2>2. stat'[o] = "none" => stat[o] = "none"
    BY StatStays
  <2>3. WatchDone(o) => stat'[o] = "FILLED"
    BY <1>t DEF WatchDone
  <2>4. ASSUME Awaited(o)', ~Awaited(o) PROVE RecordBuy /\ o = inBuy
    <3>1. CASE RecordBuy
      BY <1>t, <2>4, <3>1 DEF RecordBuy, Awaited
    <3>2. ASSUME NEW p \in Seller, RecordSell(p) PROVE FALSE
      BY <2>1, <2>4, <3>2, RecordsSells DEF Awaited
    <3>3. ASSUME NEW u \in OrderId,
                 stat' \in {[stat EXCEPT ![u] = "FILLED"],
                            [stat EXCEPT ![u] = "CANCELED"]}
          PROVE FALSE
      BY <1>t, <2>4, <3>3 DEF Awaited
    <3>4. ~(UNCHANGED stat)
      BY <2>4 DEF Awaited
    <3>5. QED BY <3>1, <3>2, <3>3, <3>4, KeysMove
  <2>5. QED BY <2>2, <2>3, <2>4 DEF Awaited
<1>2. ASSUME inBuy' # 0 PROVE stat'[inBuy'] = "none"
  <2>1. CASE PlaceBuy
    <3>1. inBuy' = placed + 1 /\ UNCHANGED stat /\ placed + 1 \in OrderId
      BY <2>1, EnvType, TakeType DEF PlaceBuy
    <3>2. QED BY <1>t, <3>1 DEF KnownOrders
  <2>2. CASE ~PlaceBuy
    <3>1. inBuy' = inBuy
      BY <1>2, <2>2, UndisturbedSteps
         DEF FillOrder, WatchDone, WatchCanceled, RecordBuy, ApplyFill,
             Balances, ReadIndex, WriteHolding, Missing, PushSale,
             RemovePosition, OrphanScan, Evaluate, PassLock, Raise, Scan,
             Ticker, Look, CleanUp, TakeLock, PlaceSell, RecordSell,
             LockExpires, PendingExpires, HashExpires, TimeUp, vars
    <3>2. /\ inBuy \in OrderId /\ IsBuy(inBuy) /\ stat[inBuy] = "none"
          /\ inBuy' = inBuy
      BY <1>t, <1>2, <3>1, EnvType DEF KnownOrders, BuysUnbooked
    <3>3. ~RecordBuy
      BY <1>2 DEF RecordBuy
    <3>4. ASSUME NEW p \in Seller, RecordSell(p)
          PROVE  stat'[inBuy] = "none"
      BY <3>2, <3>4, RecordsSells
    <3>5. ASSUME NEW u \in OrderId, stat[u] = "SUBMITTED",
                 stat' \in {[stat EXCEPT ![u] = "FILLED"],
                            [stat EXCEPT ![u] = "CANCELED"]}
          PROVE  stat'[inBuy] = "none"
      BY <1>t, <3>2, <3>5
    <3>6. QED BY <3>2, <3>3, <3>4, <3>5, KeysMove
  <2>3. QED BY <2>1, <2>2
<1>3. QED BY <1>1, <1>2

(* Who books, who pushes and who sets the exit order.                      *)
LEMMA BooksMove ==
  ASSUME TypeInv, Undisturbed, [Next]_vars
  PROVE  \/ UNCHANGED booked
         \/ queue # <<>> /\ booked' = booked \cup {Head(queue).id}
         \/ \E o \in OrderId : WatchDone(o) /\ booked' = booked \cup {Id(o)}
  BY UndisturbedSteps
     DEF FillOrder, WatchDone, WatchCanceled, PlaceBuy, RecordBuy, ApplyFill,
         Book, books, Balances, ReadIndex, WriteHolding, Missing, PushSale,
         RemovePosition, OrphanScan, Evaluate, PassLock, Raise, Scan, Ticker,
         Look, CleanUp, TakeLock, PlaceSell, RecordSell, LockExpires,
         PendingExpires, HashExpires, TimeUp, vars, Id

LEMMA FillsMove ==
  ASSUME TypeInv, Undisturbed, [Next]_vars
  PROVE  \/ UNCHANGED queue
         \/ queue # <<>> /\ queue' = Tail(queue)
         \/ At = "push" /\ queue' =
              Append(queue,
                     [id |-> fid, side |-> "SELL", qty |-> qty["runner"],
                      priced |-> fid[1] = "order"])
  BY UndisturbedSteps
     DEF FillOrder, WatchDone, WatchCanceled, PlaceBuy, RecordBuy, ApplyFill,
         fills, Balances, ReadIndex, WriteHolding, Missing, PushSale,
         RemovePosition, OrphanScan, Evaluate, PassLock, Raise, Scan, Ticker,
         Look, CleanUp, TakeLock, PlaceSell, RecordSell, LockExpires,
         PendingExpires, HashExpires, TimeUp, vars, At

LEMMA ExitOrderMoves ==
  ASSUME TypeInv, Undisturbed, [Next]_vars
  PROVE  \/ UNCHANGED exitOrder \/ exitOrder' = 0
         \/ \E p \in Seller : RecordSell(p)
  BY UndisturbedSteps
     DEF FillOrder, WatchDone, WatchCanceled, PlaceBuy, RecordBuy, ApplyFill,
         Balances, ReadIndex, WriteHolding, Missing, PushSale, guards,
         RemovePosition, OrphanScan, Evaluate, PassLock, Raise, Scan, Ticker,
         Look, CleanUp, TakeLock, PlaceSell, LockExpires, PendingExpires,
         HashExpires, TimeUp, vars

LEMMA PendingMoves ==
  ASSUME TypeInv, KnownOrders, Undisturbed, [Next]_vars
  PROVE  \/ UNCHANGED pending \/ (RecordBuy /\ pending')
         \/ /\ At = "idle" /\ UNCHANGED pc
            /\ \A o \in OrderId : IsBuy(o) => ~Awaited(o)
<1>1. CASE PendingExpires
  <2>1. OpenBuys = {} /\ At = "idle" /\ UNCHANGED pc
    BY <1>1 DEF PendingExpires, Undisturbed, At, sellers
  <2>2. \A o \in OrderId : IsBuy(o) => ~Awaited(o)
    BY <2>1 DEF OpenBuys, IsBuy, Awaited, KnownOrders
  <2>3. QED BY <2>1, <2>2
<1>2. CASE RecordBuy
  BY <1>2 DEF RecordBuy
<1>3. CASE ~PendingExpires /\ ~RecordBuy
  BY <1>3, UndisturbedSteps
     DEF FillOrder, WatchDone, WatchCanceled, PlaceBuy, ApplyFill,
         Balances, ReadIndex, WriteHolding, Missing, PushSale, guards,
         RemovePosition, OrphanScan, Evaluate, PassLock, Raise, Scan, Ticker,
         Look, CleanUp, TakeLock, PlaceSell, RecordSell, LockExpires,
         HashExpires, TimeUp,
         vars
<1>4. QED BY <1>1, <1>2, <1>3

(* How the runner comes to push, to remove and to look for what is missing.*)
LEMMA RunnerMoves ==
  ASSUME TypeInv, Undisturbed, [Next]_vars
  PROVE  /\ At' = "push" =>
              (At = "push" /\ UNCHANGED fid) \/ (Missing /\ fid' = SaleId)
         /\ At' = "remove" => At = "remove" \/ Missing \/ PushSale
         /\ At' = "missing" => At = "missing" \/ (ReadIndex /\ idx /\ seen = 0)
         /\ At' = "index" => (At = "index" /\ UNCHANGED seen) \/ Balances
<1>t. seen \in Nat /\ "runner" \in Seller
  BY SaleTypes DEF Seller
<1>1. CASE UNCHANGED <<pc, fid, seen>>
  BY <1>1 DEF At
<1>2. CASE Missing
  <2>1. \/ Goto("runner", "idle") \/ Goto("runner", "remove")
        \/ Goto("runner", "push") /\ fid' = SaleId
    BY <1>2 DEF Missing, SaleId, Id
  <2>2. At' \in {"idle", "remove"} \/ (At' = "push" /\ fid' = SaleId)
    BY <2>1, RunnerGoes
  <2>3. QED BY <1>2, <2>2
<1>3. CASE \/ Balances \/ WriteHolding \/ PushSale \/ RemovePosition
           \/ Evaluate \/ Raise
  <2>1. /\ Balances => At' = "index"
        /\ PushSale => At' = "remove"
        /\ WriteHolding \/ RemovePosition \/ Evaluate \/ Raise =>
             At' \in {"evaluate", "idle", "raise", "lock"}
    BY RunnerGoes
       DEF Balances, PushSale, WriteHolding, RemovePosition, Evaluate, Raise,
           PassLock, ExitNow
  <2>2. QED BY <1>3, <2>1
<1>4. CASE ReadIndex
  <2>1. At' = IF ~idx THEN "idle" ELSE IF seen > 0 THEN "write" ELSE "missing"
    BY <1>4, RunnerGoes DEF ReadIndex
  <2>2. QED BY <1>4, <1>t, <2>1
<1>5. CASE Ticker \/ Look \/ CleanUp
  <2>1. /\ UNCHANGED <<fid, seen>>
        /\ \E x \in {"idle", "look", "lock"} : Goto("monitor", x)
    BY <1>5 DEF Ticker, Look, PassLock, CleanUp, ExitNow, poll
  <2>2. At' = At
    BY <2>1, SellerGoes DEF Seller, At
  <2>3. QED BY <2>1, <2>2
<1>6. ASSUME NEW p \in Seller, TakeLock(p) \/ PlaceSell(p) \/ RecordSell(p)
      PROVE  /\ UNCHANGED <<fid, seen>>
             /\ At' = At \/ At' \in {"idle", "place", "record", "clean"}
  <2>1. /\ UNCHANGED <<fid, seen>>
        /\ \E x \in {"idle", "place", "record", "clean"} : Goto(p, x)
    BY <1>6 DEF TakeLock, PlaceSell, RecordSell, poll
  <2>2. QED BY <2>1, SellerGoes
<1>7. \/ UNCHANGED <<pc, fid, seen>>
      \/ Missing \/ Balances \/ WriteHolding \/ PushSale \/ RemovePosition
      \/ Evaluate \/ Raise \/ ReadIndex \/ Ticker \/ Look \/ CleanUp
      \/ \E p \in Seller : TakeLock(p) \/ PlaceSell(p) \/ RecordSell(p)
  BY UndisturbedSteps
     DEF FillOrder, WatchDone, WatchCanceled, PlaceBuy, RecordBuy, ApplyFill,
         OrphanScan, Scan, LockExpires, PendingExpires, HashExpires, TimeUp,
         vars, sellers, poll
<1>8. QED BY <1>1, <1>2, <1>3, <1>4, <1>5, <1>6, <1>7

LEMMA BuysNext ==
  ASSUME TypeInv, KnownOrders, BuysUnbooked, Undisturbed, [Next]_vars
  PROVE  BuysUnbooked'
<1>t. /\ exitOrder \in 0..placed /\ queue \in Seq(Fills) /\ placed \in Nat
      /\ \A o \in 1..placed : o \in OrderId
  BY SaleTypes DEF TypeInv, OrdersOK
<1>1. ASSUME exitOrder' # 0 PROVE ~order'[exitOrder'].side = "BUY"
  <2>1. CASE UNCHANGED exitOrder
    BY <1>t, <1>1, <2>1, SidesStay DEF BuysUnbooked, IsBuy
  <2>2. ASSUME NEW p \in Seller, RecordSell(p)
        PROVE  ~order'[exitOrder'].side = "BUY"
    BY <2>2, RecordsSells, SidesStay DEF IsBuy
  <2>3. QED BY <1>1, <2>1, <2>2, ExitOrderMoves
<1>2. ASSUME NEW o \in OrderId, IsBuy(o)'
      PROVE  /\ Awaited(o)' => pending'
             /\ Awaited(o)' \/ stat'[o] = "none" => Id(o) \notin booked'
             /\ At' = "push" => fid' # Id(o)
             /\ \A i \in 1..Len(queue') : queue'[i].id # Id(o)
  <2>1. IsBuy(o)
    BY <1>2, BuysStay
  <2>2. /\ Awaited(o)' => Awaited(o) \/ (RecordBuy /\ o = inBuy)
        /\ stat'[o] = "none" => stat[o] = "none"
        /\ Awaited(o)' \/ stat'[o] = "none" => ~WatchDone(o)
    BY <1>2, BuyKeys
  <2>3. /\ Awaited(o) => pending
        /\ Awaited(o) \/ stat[o] = "none" => Id(o) \notin booked
        /\ At = "push" => fid # Id(o)
        /\ \A i \in 1..Len(queue) : queue[i].id # Id(o)
    BY <2>1 DEF BuysUnbooked
  <2>4. RecordBuy /\ o = inBuy => stat[o] = "none" /\ pending'
    BY DEF RecordBuy, BuysUnbooked
  <2>5. Awaited(o)' => pending'
    BY <2>1, <2>2, <2>3, <2>4, PendingMoves
  <2>6. ASSUME Awaited(o)' \/ stat'[o] = "none" PROVE Id(o) \notin booked'
    <3>1. Id(o) \notin booked /\ ~WatchDone(o)
      BY <2>2, <2>3, <2>4, <2>6
    <3>2. queue # <<>> => Head(queue).id # Id(o)
      BY <2>3, FillIsSell
    <3>3. \A u \in OrderId : WatchDone(u) => Id(u) # Id(o)
      BY <3>1, IdsDiffer
    <3>4. QED BY <3>1, <3>2, <3>3, BooksMove
  <2>7. At' = "push" => fid' # Id(o)
    <3>1. SaleId # Id(o)
      <4>1. CASE exitOrder = 0
        BY <4>1 DEF SaleId, Id
      <4>2. CASE exitOrder # 0
        <5>1. exitOrder \in OrderId /\ exitOrder # o
          BY <1>t, <2>1, <4>2 DEF BuysUnbooked
        <5>2. QED BY <4>2, <5>1, IdsDiffer DEF SaleId
      <4>3. QED BY <4>1, <4>2
    <3>2. QED BY <2>3, <3>1, RunnerMoves
  <2>8. \A i \in 1..Len(queue') : queue'[i].id # Id(o)
    <3>1. CASE UNCHANGED queue
      BY <2>3, <3>1
    <3>2. CASE queue # <<>> /\ queue' = Tail(queue)
      BY <2>3, <3>2, RestOfQueue
    <3>3. ASSUME NEW f, f.id = fid, At = "push", queue' = Append(queue, f)
          PROVE  \A i \in 1..Len(queue') : queue'[i].id # Id(o)
      <4>1. \A i \in 1..Len(queue') :
              queue'[i] = f \/ (i \in 1..Len(queue) /\ queue'[i] = queue[i])
        BY <1>t, <3>3
      <4>2. QED BY <2>3, <3>3, <4>1
    <3>4. QED BY <3>1, <3>2, <3>3, FillsMove
  <2>9. QED BY <2>5, <2>6, <2>7, <2>8
<1>3. inBuy' # 0 => stat'[inBuy'] = "none"
  BY BuyKeys
<1>4. \A o \in OrderId : (Id(o))' = Id(o)
  BY DEF Id
<1>5. QED BY <1>1, <1>2, <1>3, <1>4 DEF BuysUnbooked, IsBuy

(* What becomes of the coins that are free.                                *)
LEMMA FreeMoves ==
  ASSUME TypeInv, FreshInv, Undisturbed, WatchedInv, [Next]_vars
  PROVE  \/ Free' = 0
         \/ \E o \in OrderId : FillOrder(o) /\ IsBuy(o)
         \/ /\ Free' = Free /\ ~PlaceBuy
            /\ \A p \in Seller : PlaceSell(p) => Goto(p, "idle")
            /\ \A o \in OrderId : IsBuy(o) /\ order[o].state = "done" =>
                                    IsBuy(o)' /\ order'[o].state = "done"
<1>t. /\ KnownOrders /\ FreshStart /\ Calm /\ AllOrNothing /\ WholePosition
      /\ env.lot \in Nat /\ order \in [OrderId -> Order]
  BY EnvType
     DEF FreshInv, Undisturbed, Calm, WatchedInv, TypeInv, AccountOK
<1> DEFINE Kept == /\ Free' = Free
                   /\ \A o \in OrderId :
                        IsBuy(o) /\ order[o].state = "done" =>
                          IsBuy(o)' /\ order'[o].state = "done"
<1>1. ASSUME UNCHANGED upbit PROVE Kept
  BY <1>1 DEF Free, upbit, IsBuy
<1>2. CASE PlaceBuy
  <2>1. /\ Take("BUY", env.lot) /\ UNCHANGED <<env, stat>> /\ rested
        /\ ~rested' /\ inBuy' = placed + 1
    BY <1>2, <1>t DEF PlaceBuy, Calm
  <2>2. inBuy = 0 /\ \A o \in OrderId : ~Awaited(o)
    BY <1>t, <2>1 DEF FreshStart
  <2>3. Free' = 0
    BY <1>t, <2>1, <2>2, WholeTake
  <2>4. QED BY <2>3
<1>3. ASSUME NEW p \in Seller, PlaceSell(p)
      PROVE  \/ Free' = 0
             \/ /\ Kept /\ ~PlaceBuy
                /\ \A q \in Seller : PlaceSell(q) => Goto(q, "idle")
  <2>1. qty[p] = env.lot
    BY <1>t, <1>3 DEF WholePosition, PlaceSell, Seller, At
  <2>2. UNCHANGED <<env, stat, inBuy, rested, buys>>
    BY <1>3 DEF PlaceSell
  <2>3. CASE Take("SELL", env.lot)
    BY <1>t, <2>2, <2>3, WholeTake
  <2>4. CASE ~Take("SELL", env.lot)
    <3>1. UNCHANGED upbit
      BY <1>3, <2>1, <2>4 DEF PlaceSell
    <3>2. ~PlaceBuy
      BY <1>t, <2>2, EnvType DEF PlaceBuy
    <3>3. ASSUME NEW q \in Seller, PlaceSell(q) PROVE Goto(q, "idle")
      <4>1. qty[q] = env.lot /\ placed' = placed
        BY <1>t, <3>1, <3>3 DEF WholePosition, PlaceSell, Seller, At, upbit
      <4>2. ~Take("SELL", qty[q])
        BY <2>4, <4>1
      <4>3. QED BY <3>3, <4>2 DEF PlaceSell
    <3>4. QED BY <1>1, <3>1, <3>2, <3>3
  <2>5. QED BY <2>3, <2>4
<1>4. ASSUME NEW o \in OrderId, FillOrder(o), ~IsBuy(o) PROVE Kept
  <2>1. /\ Free' = Free /\ ~IsBuy(o)
        /\ \A p \in OrderId : p # o => order'[p] = order[p]
    BY <1>4, <1>t, WholeFill
  <2>2. QED BY <2>1 DEF IsBuy
<1>5. ASSUME NEW o \in OrderId, WatchCanceled(o) PROVE Kept
  <2>1. /\ UNCHANGED <<held, locked>>
        /\ \/ order[o].state = "cancel" /\ UNCHANGED order
           \/ /\ order[o].state = "wait"
              /\ order' = [order EXCEPT ![o].state = "cancel"]
    BY <1>5 DEF WatchCanceled
  <2>2. \A p \in OrderId : order'[p] = order[p] \/ order[p].state # "done"
    BY <1>t, <2>1
  <2>3. QED BY <2>1, <2>2 DEF IsBuy, Free
<1>6. CASE ~PlaceBuy /\ \A p \in Seller : ~PlaceSell(p)
  <2>1. \/ UNCHANGED upbit
        \/ \E o \in OrderId : FillOrder(o) \/ WatchCanceled(o)
    BY <1>6, UndisturbedSteps
       DEF WatchDone, RecordBuy, ApplyFill, Balances, ReadIndex, WriteHolding,
           Missing, PushSale, RemovePosition, OrphanScan, Evaluate, PassLock,
           Raise, Scan, Ticker, Look, CleanUp, TakeLock, RecordSell,
           LockExpires, PendingExpires, HashExpires, TimeUp, vars
  <2>2. Kept \/ \E o \in OrderId : FillOrder(o) /\ IsBuy(o)
    BY <1>1, <1>4, <1>5, <2>1
  <2>3. QED BY <1>6, <2>2
<1>7. QED BY <1>2, <1>3, <1>6

(* Who changes the index.                                                  *)
LEMMA IndexMoves ==
  ASSUME TypeInv, Undisturbed, [Next]_vars
  PROVE  \/ UNCHANGED idx
         \/ WriteHolding \/ RemovePosition \/ ApplyFill
         \/ \E o \in OrderId : WatchDone(o)
  BY UndisturbedSteps
     DEF FillOrder, WatchCanceled, PlaceBuy, RecordBuy, position, Balances,
         ReadIndex, Missing, PushSale, OrphanScan, Evaluate, PassLock, Raise,
         Scan, Ticker, Look, CleanUp, TakeLock, PlaceSell, RecordSell,
         LockExpires, PendingExpires, HashExpires, TimeUp, vars

(* A BUY executes only where nothing is left of the position before.       *)
LEMMA UnsoldBought ==
  ASSUME TypeInv, FreshInv, Undisturbed, WatchedInv,
         NEW o \in OrderId, FillOrder(o), IsBuy(o)
  PROVE  Unsold'
<1>t. FreshStart /\ AllOrNothing
  BY DEF FreshInv, Undisturbed, Calm, WatchedInv
<1>1. /\ UNCHANGED <<stat, inBuy, idx, pc, queue, seen, pending>> /\ Waits(o)
  BY DEF FillOrder, position, sellers, fills, poll, guards, Waits
<1>2. order'[o].state = "done" /\ IsBuy(o)'
      /\ \A p \in OrderId : p # o => order'[p] = order[p]
  BY <1>t, WholeFill DEF IsBuy
<1>3. (Awaited(o) \/ o = inBuy) /\ o # 0
  BY <1>t, <1>1 DEF AllOrNothing, OrderId
<1>4. NothingLeft
  BY <1>t, <1>3 DEF FreshStart, Buying
<1>5. \A p \in OrderId : Awaited(p) => p = o
  BY <1>t, <1>3 DEF FreshStart
<1>6. /\ \A p \in OrderId : Awaited(p)' => IsBuy(p)'
      /\ o = inBuy' \/ Awaited(o)'
  BY <1>1, <1>2, <1>3, <1>5 DEF Awaited
<1>7. /\ ~idx' /\ queue' = <<>> /\ At' \in {"idle", "index"}
      /\ \A p \in Seller : pc'[p] # "record"
  BY <1>1, <1>4 DEF NothingLeft, At, Seller
<1>8. QED BY <1>2, <1>6, <1>7 DEF Unsold

(* Where coins are free the watcher books nothing but their BUY.           *)
LEMMA BoughtIndexed ==
  ASSUME TypeInv, WatchedInv, Free > 0, NEW o \in OrderId, WatchDone(o)
  PROVE  idx' /\ pending'
<1>1. Awaited(o) /\ IsBuy(o)
  BY DEF WatchDone, WatchedInv, Unsold, Awaited
<1>2. Id(o) \notin booked /\ pending
  BY <1>1 DEF WatchedInv, BuysUnbooked
<1>3. PICK f : /\ f = [id |-> <<"order", o>>, side |-> order[o].side,
                       qty |-> order[o].done, priced |-> TRUE]
               /\ Book(f)
  BY DEF WatchDone
<1>4. f.id = Id(o) /\ f.side = "BUY"
  BY <1>1, <1>3 DEF Id, IsBuy
<1>5. idx' /\ UNCHANGED pending
  BY <1>2, <1>3, <1>4 DEF Book, WatchDone, guards
<1>6. QED BY <1>2, <1>5

LEMMA UnsoldKept ==
  ASSUME TypeInv, FreshInv, Undisturbed, WatchedInv, [Next]_vars,
         Free > 0, Free' = Free, ~PlaceBuy,
         \A p \in Seller : PlaceSell(p) => Goto(p, "idle"),
         \A o \in OrderId : IsBuy(o) /\ order[o].state = "done" =>
                              IsBuy(o)' /\ order'[o].state = "done"
  PROVE  Unsold'
<1>t. /\ KnownOrders /\ BuysUnbooked
      /\ inBuy \in 0..placed /\ \A o \in 1..placed : o \in OrderId
      /\ stat \in [OrderId -> {"none", "SUBMITTED", "FILLED", "CANCELED"}]
  BY SaleTypes DEF FreshInv, WatchedInv
<1>u. /\ idx \/ \E o \in OrderId : /\ IsBuy(o) /\ order[o].state = "done"
                                   /\ o = inBuy \/ Awaited(o)
      /\ \A o \in OrderId : Awaited(o) => IsBuy(o)
      /\ \A p \in Seller : pc[p] # "record"
      /\ queue = <<>> /\ At \notin {"push", "remove"}
      /\ At = "index" => seen > 0 \/ pending \/ ~idx
      /\ At = "missing" => pending
  BY DEF WatchedInv, Unsold
<1>b. \A o \in OrderId : Awaited(o) => pending
  BY <1>t, <1>u DEF BuysUnbooked
<1>c. /\ ~PushSale /\ ~RemovePosition /\ ~ApplyFill
      /\ \A p \in Seller : ~RecordSell(p)
  BY <1>u DEF PushSale, RemovePosition, ApplyFill, RecordSell, At
<1>d. Missing => At' = "idle"
  BY <1>u, RunnerGoes DEF Missing, At
<1>e. At = "index" \/ At = "missing" => (pending => pending')
  BY <1>t, PendingMoves
<1>1. idx' \/ \E o \in OrderId : /\ IsBuy(o)' /\ order'[o].state = "done"
                                 /\ o = inBuy' \/ Awaited(o)'
  <2>1. CASE idx
    <3>1. WriteHolding => idx'
      BY DEF WriteHolding
    <3>2. QED BY <1>c, <2>1, <3>1, IndexMoves, BoughtIndexed
  <2>2. CASE \E o \in OrderId : WatchDone(o)
    BY <2>2, BoughtIndexed
  <2>3. ASSUME NEW o \in OrderId, IsBuy(o), order[o].state = "done",
               o = inBuy \/ Awaited(o), \A p \in OrderId : ~WatchDone(p)
        PROVE  o = inBuy' \/ Awaited(o)'
    <3>1. CASE RecordBuy
      BY <1>t, <2>3, <3>1 DEF RecordBuy, Awaited
    <3>2. CASE \E p \in OrderId : WatchCanceled(p)
      <4>1. PICK p \in OrderId : WatchCanceled(p)
        BY <3>2
      <4>2. p # o /\ UNCHANGED inBuy
        BY <2>3, <4>1 DEF WatchCanceled
      <4>3. stat'[o] = stat[o]
        BY <1>t, <4>1, <4>2 DEF WatchCanceled
      <4>4. QED BY <2>3, <4>2, <4>3 DEF Awaited
    <3>3. CASE ~RecordBuy /\ \A p \in OrderId : ~WatchCanceled(p)
      <4>1. UNCHANGED <<stat, inBuy>>
        BY <1>c, <2>3, <3>3, UndisturbedSteps
           DEF FillOrder, Balances, ReadIndex, WriteHolding, Missing,
               OrphanScan, Evaluate, PassLock, Raise, Scan, Ticker, Look,
               CleanUp, TakeLock, PlaceSell, LockExpires, PendingExpires,
               HashExpires, TimeUp,
               vars
      <4>2. QED BY <2>3, <4>1 DEF Awaited
    <3>4. QED BY <3>1, <3>2, <3>3
  <2>4. QED BY <1>u, <2>1, <2>2, <2>3
<1>2. ASSUME NEW o \in OrderId, Awaited(o)' PROVE IsBuy(o)'
  <2>1. CASE Awaited(o)
    <3>1. o \in 1..placed /\ IsBuy(o)
      BY <1>t, <1>u, <2>1 DEF KnownOrders, Awaited
    <3>2. QED BY <3>1, SidesStay
  <2>2. CASE RecordBuy /\ ~Awaited(o)
    <3>1. inBuy # 0 /\ o = inBuy
      BY <1>t, <1>2, <2>2 DEF RecordBuy, Awaited
    <3>2. o \in 1..placed /\ IsBuy(o)
      BY <1>t, <3>1, EnvType DEF KnownOrders
    <3>3. QED BY <3>2, SidesStay
  <2>3. ASSUME NEW u \in OrderId,
               stat' \in {[stat EXCEPT ![u] = "FILLED"],
                          [stat EXCEPT ![u] = "CANCELED"]}
        PROVE  Awaited(o)
    BY <1>t, <1>2, <2>3 DEF Awaited
  <2>4. UNCHANGED stat => Awaited(o)
    BY <1>2 DEF Awaited
  <2>5. QED BY <1>c, <2>1, <2>2, <2>3, <2>4, KeysMove
<1>3. ASSUME NEW p \in Seller PROVE pc'[p] # "record"
  <2>1. pc \in [Seller -> Labels]
    BY SaleTypes
  <2>2. ASSUME NEW q \in Seller, PlaceSell(q) PROVE pc'[p] # "record"
    BY <1>u, <2>1, <2>2 DEF Goto
  <2>3. QED BY <1>u, <2>2, SellersMove
<1>4. queue' = <<>>
  BY <1>u, FillsMove
<1>5. At' \notin {"push", "remove"}
  BY <1>c, <1>d, <1>u, RunnerMoves
<1>6. At' = "index" => seen' > 0 \/ pending' \/ ~idx'
  <2>1. Balances => seen' > 0
    BY DEF Balances
  <2>2. ASSUME At = "index", UNCHANGED seen
        PROVE  seen' > 0 \/ pending' \/ ~idx'
    <3>1. CASE seen > 0 \/ pending
      BY <1>e, <2>2, <3>1
    <3>2. CASE ~idx
      <4>1. ~WriteHolding
        BY <2>2 DEF WriteHolding, At
      <4>2. QED BY <1>c, <3>2, <4>1, IndexMoves, BoughtIndexed
    <3>3. QED BY <1>u, <2>2, <3>1, <3>2
  <2>3. QED BY <2>1, <2>2, RunnerMoves
<1>7. At' = "missing" => pending'
  <2>1. ReadIndex => At = "index"
    BY DEF ReadIndex, At
  <2>2. At = "index" /\ idx /\ seen = 0 => pending
    BY <1>u
  <2>3. QED BY <1>e, <1>u, <2>1, <2>2, RunnerMoves
<1>8. QED BY <1>1, <1>2, <1>3, <1>4, <1>5, <1>6, <1>7 DEF Unsold

LEMMA WatchedNext ==
  TypeInv /\ FreshInv /\ (Undisturbed => WatchedInv) /\ [Next]_vars
    => (Undisturbed => WatchedInv)'
<1> SUFFICES ASSUME TypeInv, FreshInv, [Next]_vars, Undisturbed, WatchedInv
             PROVE  WatchedInv'
  BY UndisturbedStays
<1>1. AllOrNothing' /\ WholePosition'
  BY WholeNext, PositionNext
<1>2. BuysUnbooked'
  BY BuysNext DEF FreshInv, WatchedInv
<1>3. Unsold'
  <2>1. CASE Free' = 0
    BY <2>1 DEF Unsold
  <2>2. CASE Free' = Free /\ ~(Free > 0)
    BY <2>2 DEF Unsold
  <2>3. QED BY <2>1, <2>2, FreeMoves, UnsoldBought, UnsoldKept
<1>4. QED BY <1>1, <1>2, <1>3 DEF WatchedInv

LEMMA WatchedInit == Init => (Undisturbed => WatchedInv)
<1> SUFFICES ASSUME Init, Undisturbed PROVE WatchedInv
  OBVIOUS
<1>1. /\ held = 0 /\ locked = 0 /\ Free = 0 /\ \A o \in OrderId : ~Waits(o)
      /\ \A o \in OrderId : order[o].state # "done" /\ ~Awaited(o)
  BY DEF Init, Undisturbed, NoOrder, Waits, Awaited, Free
<1>2. /\ pc["monitor"] = "idle" /\ At = "idle" /\ queue = <<>>
  BY DEF Init, At, Seller
<1>3. AllOrNothing
  BY <1>1 DEF AllOrNothing, Lots
<1>4. WholePosition
  BY <1>2 DEF Init, WholePosition, Lots
<1>5. BuysUnbooked
  BY <1>1, <1>2 DEF Init, BuysUnbooked
<1>6. Unsold
  BY <1>1 DEF Unsold
<1>7. QED BY <1>3, <1>4, <1>5, <1>6 DEF WatchedInv

(* What claw bought is watched until it is sold: with BUYs that fill at    *)
(* once, a coin the owner does not hold and no kill or failing request,    *)
(* the account never holds coins outside the position index once nothing   *)
(* is under way, whatever the two sellers do in between.                   *)
THEOREM BuysAreWatched == Spec => []BoughtIsWatched
<1>1. Init => TypeInv /\ FreshInv /\ (Undisturbed => WatchedInv)
  BY TypeInit, FreshInit, WatchedInit
<1>2. TypeInv /\ FreshInv /\ (Undisturbed => WatchedInv) /\ [Next]_vars
        => (TypeInv /\ FreshInv /\ (Undisturbed => WatchedInv))'
  BY TypeNext, FreshNext, WatchedNext
<1>3. ASSUME TypeInv, FreshInv, Undisturbed => WatchedInv
      PROVE  BoughtIsWatched
  <2> SUFFICES ASSUME Quiet, Undisturbed, held > 0 PROVE idx
    BY DEF BoughtIsWatched, Undisturbed
  <2>1. KnownOrders /\ AllOrNothing /\ Unsold
    BY <1>3 DEF FreshInv, WatchedInv
  <2>2. /\ held \in Nat /\ locked \in Nat /\ placed \in Nat /\ inBuy = 0
        /\ \A o \in OrderId : o > placed => order[o] = NoOrder
    BY <1>3, SaleTypes DEF Quiet
  <2>3. ASSUME NEW o \in OrderId
        PROVE  ~Waits(o) /\ ~Awaited(o) /\ o # inBuy
    <3>1. CASE o \in 1..placed
      BY <2>2, <3>1 DEF Quiet, Waits, Awaited
    <3>2. CASE o \notin 1..placed
      BY <2>1, <2>2, <3>2 DEF OrderId, Waits, NoOrder, KnownOrders, Awaited
    <3>3. QED BY <3>1, <3>2
  <2>4. locked = 0
    BY <2>1, <2>2, <2>3 DEF AllOrNothing
  <2>5. QED BY <2>1, <2>2, <2>3, <2>4 DEF Unsold, Free
<1>4. QED BY <1>1, <1>2, <1>3, PTL DEF Spec
=============================================================================
