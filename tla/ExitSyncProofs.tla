---------------------------- MODULE ExitSyncProofs ----------------------------
(***************************************************************************)
(* What holds of ExitSync for every number of orders, kills and failing    *)
(* requests, every lot and every set of weaknesses.  That Redis comes to   *)
(* rest at the holding (Converges) stays with TLC.                         *)
(***************************************************************************)
EXTENDS ExitSync, FiniteSetTheorems, TLAPS

-----------------------------------------------------------------------------
(* Type correctness.                                                       *)

Order == [side : {"BUY", "SELL"}, left : Nat, done : Nat, open : BOOLEAN]
Labels == {"idle", "index", "discover", "write", "add", "missing", "gone", "claim",
           "push", "remove", "evaluate", "lock", "place", "record", "down"}
BrokerOK ==
  /\ held \in Int /\ listed \in Int /\ placed \in 0..MaxOrders
  /\ order \in [OrderId -> Order]
  /\ bought \in Nat /\ sold \in Nat
OrdersOK ==
  /\ inBuy \in 0..placed /\ exitOrder \in 0..placed /\ sellId \in 0..placed
  /\ stat \in [OrderId -> {"none", "SUBMITTED", "FILLED", "CANCELED"}]
FlagsOK == pending \in BOOLEAN /\ lock \in BOOLEAN
PositionOK == posq \in Nat /\ dying \in BOOLEAN /\ idx \in BOOLEAN
BooksOK == booked \subseteq FillIds /\ bookBuy \in Nat /\ bookSell \in Nat
FillsOK == claimed \subseteq FillIds /\ queue \in Seq(Fills)
PollOK ==
  /\ pc \in Labels /\ seen \in Nat /\ qty \in Nat /\ fid \in FillIds
  /\ found \in Nat /\ failures \in Nat /\ outages \in Nat
TypeInv ==
  /\ env \in Environment /\ crashes \in Nat
  /\ BrokerOK /\ OrdersOK /\ FlagsOK /\ PositionOK /\ BooksOK /\ FillsOK /\ PollOK

LEMMA TypeIs == TypeInv => TypeOK
<1> SUFFICES ASSUME TypeInv PROVE TypeOK
  OBVIOUS
<1>1. {pending, dying, idx, lock} \subseteq BOOLEAN
  BY DEF TypeInv, FlagsOK, PositionOK
<1>2. {posq, seen, qty, found, failures, outages, crashes} \subseteq Nat
      /\ {bought, sold, bookBuy, bookSell} \subseteq Nat
  BY DEF TypeInv, PositionOK, PollOK, BooksOK, BrokerOK
<1>3. QED
  BY <1>1, <1>2
     DEF TypeInv, TypeOK, BrokerOK, OrdersOK, BooksOK, FillsOK, PollOK, Order,
         Labels

LEMMA EnvType ==
  ASSUME TypeInv
  PROVE  /\ env.lot \in Nat \ {0} /\ env.orders \in 0..MaxOrders /\ env.crashes \in Nat
         /\ env.outages \in Nat /\ MaxOrders \in Nat
         /\ placed \in Nat /\ (1..placed) \subseteq OrderId
         /\ Market \in {"KR", "US"}
  BY SyncConstants DEF TypeInv, BrokerOK, Environment, OrderId, Market

LEMMA IdTypes ==
  /\ \A n \in Nat : /\ <<"exec", n>> \in FillIds /\ <<"order", n>> \in FillIds
                    /\ <<"bought", n>> \in FillIds
  /\ <<"sold", 0>> \in FillIds /\ NoFill \in FillIds
  BY DEF FillIds, NoFill

LEMMA EnvFixed == [Next]_vars => env' = env
  BY DEF Next, vars, FillOrder, EndOrder, WatchKR, WatchUS, Settle, PlaceBuy,
         RecordBuy, CrashExecutor, ApplyFill, Sync, Fetch, ReadIndex, Discover,
         WriteHolding, AddIndex, Missing, Gone, ClaimSale, PushSale,
         RemovePosition, FetchFails, Exit, Evaluate, TakeLock, PlaceSell,
         RecordSell, CrashExitRunner, Restart, LockExpires, PendingExpires,
         HashExpires

LEMMA TypeInit == Init => TypeInv
<1> SUFFICES ASSUME Init PROVE TypeInv
  OBVIOUS
<1>1. NoOrder \in Order
  BY DEF NoOrder, Order
<1>2. /\ order \in [OrderId -> Order]
      /\ stat \in [OrderId -> {"none", "SUBMITTED", "FILLED", "CANCELED"}]
      /\ queue \in Seq(Fills) /\ env \in Environment
  BY <1>1, SyncConstants DEF Init
<1>3. FlagsOK /\ PositionOK
  BY DEF Init, FlagsOK, PositionOK
<1>4. QED
  BY <1>2, <1>3, IdTypes, SyncConstants
     DEF Init, TypeInv, BrokerOK, OrdersOK, BooksOK, FillsOK, PollOK, Labels

LEMMA TakeType ==
  ASSUME TypeInv, NEW n \in Nat, NEW side \in {"BUY", "SELL"}, Take(side, n)
  PROVE  /\ placed + 1 \in OrderId /\ placed' = placed + 1 /\ placed' \in 0..MaxOrders
         /\ order' \in [OrderId -> Order]
         /\ order'[placed + 1] = [side |-> side, left |-> n, done |-> 0, open |-> TRUE]
         /\ \A o \in OrderId : o # placed + 1 => order'[o] = order[o]
<1>1. placed + 1 \in OrderId /\ placed' = placed + 1 /\ placed' \in 0..MaxOrders
  BY EnvType DEF Take, TypeInv, BrokerOK, OrderId
<1>2. [side |-> side, left |-> n, done |-> 0, open |-> TRUE] \in Order
  BY DEF Order
<1>3. QED BY <1>1, <1>2 DEF Take, TypeInv, BrokerOK

(* What the broker executes of an order, and what closing it leaves.       *)
LEMMA FillType ==
  ASSUME TypeInv, NEW o \in OrderId, FillOrder(o)
  PROVE  \E n \in 0..order[o].left :
           /\ order[o].left > 0 => n > 0
           /\ "partial" \notin Weak => n = order[o].left
           /\ order' \in [OrderId -> Order]
           /\ order'[o] = [side |-> order[o].side, left |-> order[o].left - n,
                           done |-> order[o].done + n, open |-> n < order[o].left]
           /\ \A p \in OrderId : p # o => order'[p] = order[p]
           /\ held' = IF order[o].side = "BUY" THEN held + n ELSE held - n
<1>1. order \in [OrderId -> Order] /\ order[o] \in Order
  BY DEF TypeInv, BrokerOK
<1>2. PICK n \in (IF "partial" \in Weak THEN 1..order[o].left ELSE {order[o].left}) :
         /\ order' = [order EXCEPT ![o] =
                        [side |-> @.side, left |-> @.left - n, done |-> @.done + n,
                         open |-> n < @.left]]
         /\ held' = IF order[o].side = "BUY" THEN held + n ELSE held - n
  BY DEF FillOrder
<1>3. /\ n \in 0..order[o].left /\ (order[o].left > 0 => n > 0)
      /\ n \in Nat /\ order[o].left - n \in Nat
  BY <1>1, <1>2 DEF Order
<1> DEFINE new == [side |-> order[o].side, left |-> order[o].left - n,
                   done |-> order[o].done + n, open |-> n < order[o].left]
<1>4. new \in Order
  BY <1>1, <1>3 DEF Order
<1>5. order' = [order EXCEPT ![o] = new]
  BY <1>2
<1>6. /\ order' \in [OrderId -> Order] /\ order'[o] = new
      /\ \A p \in OrderId : p # o => order'[p] = order[p]
  <2> HIDE DEF new
  <2>1. QED BY <1>1, <1>4, <1>5
<1>7. "partial" \notin Weak => n = order[o].left
  BY <1>2
<1>8. QED BY <1>2, <1>3, <1>6, <1>7

LEMMA CloseType ==
  ASSUME TypeInv, NEW o \in OrderId, order' = [order EXCEPT ![o].open = FALSE]
  PROVE  /\ order' \in [OrderId -> Order]
         /\ order'[o] = [side |-> order[o].side, left |-> order[o].left,
                         done |-> order[o].done, open |-> FALSE]
         /\ \A p \in OrderId : p # o => order'[p] = order[p]
<1>1. order \in [OrderId -> Order] /\ order[o] \in Order
  BY DEF TypeInv, BrokerOK
<1> DEFINE new == [side |-> order[o].side, left |-> order[o].left,
                   done |-> order[o].done, open |-> FALSE]
<1>2. new \in Order
  BY <1>1 DEF Order
<1>3. order' = [order EXCEPT ![o] = new]
  <2>1. order[o] = [side |-> order[o].side, left |-> order[o].left,
                    done |-> order[o].done, open |-> order[o].open]
    BY <1>1 DEF Order
  <2>2. order' = [order EXCEPT ![o] = [order[o] EXCEPT !.open = FALSE]]
    OBVIOUS
  <2>3. QED BY <2>1, <2>2
<1>4. QED
  <2> HIDE DEF new
  <2>1. /\ order' \in [OrderId -> Order] /\ order'[o] = new
        /\ \A p \in OrderId : p # o => order'[p] = order[p]
    BY <1>1, <1>2, <1>3
  <2>2. QED BY <2>1 DEF new

(* The type invariant in parts: each step disturbs a few.                  *)
LEMMA PartsKeep ==
  ASSUME TypeInv
  PROVE  /\ UNCHANGED <<broker, trade>> => BrokerOK'
         /\ UNCHANGED <<placed, inBuy, exitOrder, sellId, stat>> => OrdersOK'
         /\ UNCHANGED <<pending, lock>> => FlagsOK'
         /\ UNCHANGED position => PositionOK'
         /\ UNCHANGED books => BooksOK'
         /\ UNCHANGED fills => FillsOK'
         /\ UNCHANGED <<pc, seen, qty, fid, found, failures, outages>> => PollOK'
         /\ env \in Environment /\ crashes \in Nat
  BY DEF TypeInv, BrokerOK, OrdersOK, FlagsOK, PositionOK, BooksOK, FillsOK,
         PollOK, broker, trade, position, books, fills

(* The records of the broker's orders, and of the fills.                   *)
LEMMA OrderType ==
  ASSUME TypeInv, NEW o \in OrderId
  PROVE  /\ order[o].side \in {"BUY", "SELL"} /\ order[o].left \in Nat
         /\ order[o].done \in Nat /\ (order[o].open \in BOOLEAN)
<1>1. order[o] \in Order
  BY DEF TypeInv, BrokerOK
<1>2. QED BY <1>1 DEF Order

LEMMA BookType ==
  ASSUME TypeInv, NEW f \in Fills, Book(f)
  PROVE  PositionOK' /\ BooksOK'
<1>1. f.id \in FillIds /\ f.side \in {"BUY", "SELL"} /\ f.qty \in Nat
  BY DEF Fills
<1>2. PositionOK /\ BooksOK
  BY DEF TypeInv
<1>3. CASE UNCHANGED <<position, books>>
  BY <1>2, <1>3, PartsKeep
<1>4. CASE ~(f.id \in booked \/ (f.side = "SELL" /\ posq = 0))
  <2>1. booked' = booked \cup {f.id} /\ dying' = FALSE
    BY <1>4 DEF Book
  <2>2. CASE f.side = "BUY"
    <3>1. posq' = posq + f.qty /\ bookBuy' = bookBuy + f.qty /\ bookSell' = bookSell
          /\ idx' = TRUE
      BY <1>4, <2>2 DEF Book
    <3>2. posq + f.qty \in Nat /\ bookBuy + f.qty \in Nat
      BY <1>1, <1>2 DEF PositionOK, BooksOK
    <3>3. PositionOK'
      BY <2>1, <3>1, <3>2 DEF PositionOK
    <3>4. QED BY <1>1, <1>2, <2>1, <3>1, <3>2, <3>3 DEF BooksOK
  <2>3. CASE f.side # "BUY"
    <3>1. Smaller(f.qty, posq) \in Nat /\ posq - Smaller(f.qty, posq) \in Nat
      BY <1>1, <1>2 DEF Smaller, PositionOK
    <3>2. posq' = posq - Smaller(f.qty, posq) /\ idx' = (posq' > 0)
          /\ bookSell' = bookSell + Smaller(f.qty, posq) /\ bookBuy' = bookBuy
      BY <1>4, <2>3 DEF Book
    <3>3. (idx' \in BOOLEAN) /\ (dying' \in BOOLEAN)
      <4>1. posq' \in Nat
        BY <3>1, <3>2
      <4>2. idx' = (posq' > 0)
        BY <3>2
      <4>3. (posq' > 0) \in BOOLEAN
        BY <4>1
      <4>4. QED BY <2>1, <4>2, <4>3, Zenon
    <3>4. PositionOK'
      BY <3>1, <3>2, <3>3 DEF PositionOK
    <3>5. QED BY <1>1, <1>2, <2>1, <3>1, <3>2, <3>4 DEF BooksOK
  <2>4. QED BY <2>2, <2>3
<1>5. QED BY <1>3, <1>4 DEF Book

LEMMA TypeBroker ==
  ASSUME TypeInv, NEW o \in OrderId,
         FillOrder(o) \/ EndOrder(o) \/ WatchKR(o) \/ WatchUS(o) \/ Settle
  PROVE  TypeInv'
<1>t. /\ BrokerOK /\ OrdersOK
      /\ order[o].side \in {"BUY", "SELL"} /\ order[o].left \in Nat /\ order[o].done \in Nat
  BY OrderType DEF TypeInv
<1>1. CASE FillOrder(o)
  <2>1. PICK n \in 0..order[o].left :
          /\ order' \in [OrderId -> Order]
          /\ held' = IF order[o].side = "BUY" THEN held + n ELSE held - n
    BY <1>1, FillType
  <2>2. bought' \in Nat /\ sold' \in Nat
    BY <1>1, <1>t DEF FillOrder, BrokerOK
  <2>3. listed' \in {listed, held'} /\ placed' = placed
    BY <1>1 DEF FillOrder
  <2>4. BrokerOK'
    BY <1>t, <2>1, <2>2, <2>3 DEF BrokerOK
  <2>5. QED
    BY <1>1, <2>4, PartsKeep
       DEF FillOrder, TypeInv, position, guards, fills, poll, books
<1>2. CASE EndOrder(o)
  <2>1. BrokerOK'
    BY <1>2, <1>t, CloseType DEF EndOrder, BrokerOK, trade
  <2>2. QED BY <1>2, <2>1, PartsKeep DEF EndOrder, TypeInv, guards, poll
<1>3. CASE WatchKR(o)
  <2>1. OrdersOK'
    BY <1>3, <1>t DEF WatchKR, OrdersOK, guards, poll
  <2>2. order' \in [OrderId -> Order]
    BY <1>3, <1>t, CloseType DEF WatchKR, BrokerOK
  <2>3. BrokerOK'
    BY <1>3, <1>t, <2>2 DEF WatchKR, BrokerOK, trade
  <2>4. QED BY <1>3, <2>1, <2>3, PartsKeep DEF WatchKR, TypeInv, guards, poll
<1>4. CASE WatchUS(o)
  <2>1. OrdersOK'
    BY <1>4, <1>t DEF WatchUS, OrdersOK, guards, poll, broker
  <2>2. [id |-> <<"exec", o>>, side |-> order[o].side, qty |-> order[o].done] \in Fills
    <3>1. o \in Nat
      BY EnvType DEF OrderId
    <3>2. <<"exec", o>> \in FillIds
      BY <3>1 DEF FillIds
    <3>3. QED BY <1>t, <3>2 DEF Fills
  <2>3. PositionOK' /\ BooksOK'
    BY <1>4, <2>2, BookType, PartsKeep DEF WatchUS
  <2>4. QED BY <1>4, <2>1, <2>3, PartsKeep DEF WatchUS, TypeInv, guards, poll
<1>5. CASE Settle
  <2>1. BrokerOK'
    BY <1>5, <1>t DEF Settle, BrokerOK, trade
  <2>2. QED BY <1>5, <2>1, PartsKeep DEF Settle, TypeInv, guards, poll
<1>6. QED BY <1>1, <1>2, <1>3, <1>4, <1>5

LEMMA TypeTraders ==
  ASSUME TypeInv, PlaceBuy \/ RecordBuy \/ CrashExecutor \/ ApplyFill
  PROVE  TypeInv'
<1>t. BrokerOK /\ OrdersOK /\ FlagsOK /\ FillsOK
  BY DEF TypeInv
<1>1. CASE PlaceBuy
  <2>1. Take("BUY", env.lot) /\ env.lot \in Nat
    BY <1>1, EnvType DEF PlaceBuy
  <2>2. placed' = placed + 1 /\ placed' \in 0..MaxOrders /\ order' \in [OrderId -> Order]
    BY <2>1, TakeType
  <2>3. BrokerOK'
    BY <1>1, <1>t, <2>1, <2>2 DEF PlaceBuy, Take, BrokerOK, trade
  <2>4. OrdersOK'
    BY <1>1, <1>t, <2>2, EnvType DEF PlaceBuy, OrdersOK, guards, poll
  <2>5. QED BY <1>1, <2>3, <2>4, PartsKeep DEF PlaceBuy, TypeInv, guards, poll
<1>2. CASE RecordBuy
  <2>1. inBuy \in OrderId
    BY <1>2, <1>t, EnvType DEF RecordBuy, OrdersOK
  <2>2. [id |-> <<"exec", inBuy>>, side |-> "BUY", qty |-> order[inBuy].done] \in Fills
    <3>1. inBuy \in Nat /\ order[inBuy].done \in Nat
      BY <2>1, OrderType, EnvType DEF OrderId
    <3>2. <<"exec", inBuy>> \in FillIds
      BY <3>1 DEF FillIds
    <3>3. QED BY <3>1, <3>2 DEF Fills
  <2>3. FillsOK'
    BY <1>2, <1>t, <2>2 DEF RecordBuy, FillsOK
  <2>4. OrdersOK'
    BY <1>2, <1>t, <2>1, EnvType DEF RecordBuy, OrdersOK, broker, poll
  <2>5. FlagsOK'
    BY <1>2, <1>t DEF RecordBuy, FlagsOK
  <2>6. QED BY <1>2, <2>3, <2>4, <2>5, PartsKeep DEF RecordBuy, TypeInv, poll
<1>3. CASE CrashExecutor
  <2>1. OrdersOK' /\ crashes' \in Nat
    BY <1>3, <1>t, EnvType
       DEF CrashExecutor, OrdersOK, TypeInv, broker, guards, poll
  <2>2. QED BY <1>3, <2>1, PartsKeep DEF CrashExecutor, TypeInv, guards, poll
<1>4. CASE ApplyFill
  <2>1. Head(queue) \in Fills /\ Tail(queue) \in Seq(Fills)
    BY <1>4, <1>t DEF ApplyFill, FillsOK
  <2>2. FillsOK' /\ PositionOK' /\ BooksOK'
    BY <1>4, <1>t, <2>1, BookType DEF ApplyFill, FillsOK
  <2>3. QED BY <1>4, <2>2, PartsKeep
               DEF ApplyFill, TypeInv, broker, guards, poll
<1>5. QED BY <1>1, <1>2, <1>3, <1>4

LEMMA TypeSync ==
  ASSUME TypeInv, Sync \/ FetchFails
  PROVE  TypeInv'
<1>t. BrokerOK /\ OrdersOK /\ FlagsOK /\ PositionOK /\ FillsOK /\ PollOK
  BY DEF TypeInv
<1>1. CASE Fetch
  <2>1. PollOK'
    BY <1>1, <1>t DEF Fetch, Goto, PollOK, Labels, BrokerOK
  <2>2. QED BY <1>1, <2>1, PartsKeep DEF Fetch, TypeInv, broker, guards
<1>9. CASE ReadIndex
  <2>1. PollOK'
    BY <1>9, <1>t DEF ReadIndex, Goto, PollOK, Labels
  <2>2. QED BY <1>9, <2>1, PartsKeep DEF ReadIndex, TypeInv, broker, guards
<1>2. CASE FetchFails
  <2>1. failures' \in Nat
    BY <1>2, <1>t DEF FetchFails, PollOK, Smaller
  <2>2. PollOK'
    BY <1>2, <1>t, <2>1 DEF FetchFails, Goto, PollOK, Labels, PositionOK
  <2>3. QED BY <1>2, <2>2, PartsKeep DEF FetchFails, TypeInv, broker, guards
<1>3. CASE Discover
  <2>1. found + 1 \in Nat /\ <<"bought", found + 1>> \in FillIds
    BY <1>t DEF PollOK, FillIds
  <2>2. [id |-> <<"bought", found + 1>>, side |-> "BUY", qty |-> seen] \in Fills
    BY <1>t, <2>1 DEF Fills, PollOK
  <2>3. FillsOK' /\ PollOK'
    <3>1. PollOK'
      BY <1>3, <1>t, <2>1 DEF Discover, Goto, PollOK, Labels
    <3>2. CASE posq > 0
      BY <1>3, <1>t, <3>1, <3>2 DEF Discover, FillsOK
    <3>3. CASE ~(posq > 0)
      <4>1. found' = found + 1
        BY <1>3, <3>3 DEF Discover
      <4>2. claimed' = claimed \cup {<<"bought", found + 1>>}
            /\ queue' = Append(queue, [id |-> <<"bought", found + 1>>, side |-> "BUY",
                                       qty |-> seen])
        BY <1>3, <3>3, <4>1 DEF Discover
      <4>3. claimed' \subseteq FillIds
        BY <1>t, <2>1, <4>2 DEF FillsOK
      <4>4. queue' \in Seq(Fills)
        BY <1>t, <2>2, <4>2 DEF FillsOK
      <4>5. QED BY <4>3, <4>4, <3>1 DEF FillsOK
    <3>4. QED BY <3>2, <3>3, <3>1
  <2>4. sellId' = sellId
    BY <1>3 DEF Discover
  <2>5. QED BY <1>3, <2>3, <2>4, PartsKeep
               DEF Discover, TypeInv, broker, guards
<1>4. CASE WriteHolding
  <2>1. PositionOK' /\ PollOK'
    BY <1>4, <1>t DEF WriteHolding, Goto, PositionOK, PollOK, Labels
  <2>2. QED BY <1>4, <2>1, PartsKeep DEF WriteHolding, TypeInv, broker, guards
<1>10. CASE AddIndex
  <2>1. PositionOK' /\ PollOK'
    BY <1>10, <1>t DEF AddIndex, Goto, PositionOK, PollOK, Labels
  <2>2. QED BY <1>10, <2>1, PartsKeep DEF AddIndex, TypeInv, broker, guards
<1>5. CASE Missing \/ Gone
  <2>1. PollOK'
    BY <1>5, <1>t DEF Missing, Gone, Goto, PollOK, Labels, PositionOK
  <2>2. QED BY <1>5, <2>1, PartsKeep DEF Missing, Gone, TypeInv, broker, guards
<1>11. CASE ClaimSale
  <2>1. SaleId \in FillIds
    BY <1>t, EnvType DEF SaleId, OrdersOK, FillIds
  <2>2. FillsOK' /\ PollOK'
    BY <1>11, <1>t, <2>1 DEF ClaimSale, Goto, FillsOK, PollOK, Labels
  <2>3. QED BY <1>11, <2>2, PartsKeep DEF ClaimSale, TypeInv, broker, guards
<1>6. CASE PushSale
  <2>1. [id |-> fid, side |-> "SELL", qty |-> qty] \in Fills
    BY <1>t DEF Fills, PollOK
  <2>2. FillsOK' /\ PollOK'
    BY <1>6, <1>t, <2>1 DEF PushSale, Goto, FillsOK, PollOK, Labels
  <2>3. QED BY <1>6, <2>2, PartsKeep DEF PushSale, TypeInv, broker, guards
<1>7. CASE RemovePosition
  <2>1. PositionOK' /\ PollOK' /\ FlagsOK' /\ OrdersOK'
    <3>1. (dying' \in BOOLEAN) /\ idx' = FALSE /\ posq' = posq
      <4>1. CASE posq > 0
        BY <1>7, <4>1 DEF RemovePosition
      <4>2. CASE ~(posq > 0)
        BY <1>7, <4>2 DEF RemovePosition
      <4>3. QED BY <4>1, <4>2
    <3>2. PositionOK'
      BY <1>t, <3>1 DEF PositionOK
    <3>3. PollOK' /\ FlagsOK'
      BY <1>7, <1>t DEF RemovePosition, Goto, PollOK, Labels, FlagsOK
    <3>4. OrdersOK'
      BY <1>7, <1>t, EnvType DEF RemovePosition, OrdersOK, broker
    <3>5. QED BY <3>2, <3>3, <3>4
  <2>2. QED BY <1>7, <2>1, PartsKeep DEF RemovePosition, TypeInv
<1>8. QED
  BY <1>1, <1>2, <1>3, <1>4, <1>5, <1>6, <1>7, <1>9, <1>10, <1>11 DEF Sync

LEMMA TypeExit ==
  ASSUME TypeInv,
         \/ Exit \/ CrashExitRunner \/ Restart
         \/ LockExpires \/ PendingExpires \/ HashExpires
  PROVE  TypeInv'
<1>t. BrokerOK /\ OrdersOK /\ FlagsOK /\ PositionOK /\ PollOK
  BY DEF TypeInv
<1>1. CASE Evaluate
  <2>1. PollOK' /\ FlagsOK'
    BY <1>1, <1>t DEF Evaluate, Goto, PollOK, Labels, FlagsOK
  <2>2. QED BY <1>1, <2>1, PartsKeep DEF Evaluate, TypeInv, broker
<1>2. CASE TakeLock
  <2>1. PollOK' /\ FlagsOK'
    BY <1>2, <1>t DEF TakeLock, Goto, PollOK, Labels, FlagsOK
  <2>2. QED BY <1>2, <2>1, PartsKeep DEF TakeLock, TypeInv, broker
<1>3. CASE PlaceSell
  <2>1. PollOK' /\ FlagsOK'
    BY <1>3, <1>t DEF PlaceSell, Goto, PollOK, Labels, FlagsOK
  <2>2. CASE Take("SELL", qty) /\ sellId' \in {sellId, placed'}
    <3>1. placed' = placed + 1 /\ placed' \in 0..MaxOrders /\ order' \in [OrderId -> Order]
      BY <1>t, <2>2, TakeType DEF PollOK
    <3>2. BrokerOK'
      BY <1>3, <1>t, <2>2, <3>1 DEF PlaceSell, Take, BrokerOK, trade
    <3>3. OrdersOK'
      BY <1>3, <1>t, <2>2, <3>1, EnvType DEF PlaceSell, OrdersOK
    <3>4. QED BY <1>3, <2>1, <3>2, <3>3, PartsKeep DEF PlaceSell, TypeInv
  <2>3. CASE UNCHANGED <<broker, sellId>>
    BY <1>3, <2>1, <2>3, PartsKeep DEF PlaceSell, TypeInv, broker
  <2>4. QED BY <1>3, <2>2, <2>3 DEF PlaceSell
<1>4. CASE RecordSell
  <2>1. PollOK' /\ OrdersOK'
    <3>1. PollOK'
      BY <1>4, <1>t DEF RecordSell, Goto, PollOK, Labels
    <3>2. stat' \in [OrderId -> {"none", "SUBMITTED", "FILLED", "CANCELED"}]
      BY <1>4, <1>t DEF RecordSell, OrdersOK
    <3>3. exitOrder' = sellId /\ sellId' = 0 /\ inBuy' = inBuy /\ placed' = placed
      BY <1>4 DEF RecordSell, broker
    <3>4. QED BY <1>t, <3>1, <3>2, <3>3, EnvType DEF OrdersOK
  <2>2. QED BY <1>4, <2>1, PartsKeep DEF RecordSell, TypeInv
<1>5. CASE CrashExitRunner
  <2>1. PollOK'
    BY <1>5, <1>t DEF CrashExitRunner, Goto, PollOK, Labels
  <2>2. OrdersOK' /\ crashes' \in Nat
    BY <1>5, <1>t, EnvType DEF CrashExitRunner, OrdersOK, broker, guards, TypeInv
  <2>3. QED BY <1>5, <2>1, <2>2, PartsKeep DEF CrashExitRunner, TypeInv, guards
<1>10. CASE Restart
  <2>1. PollOK'
    BY <1>10, <1>t DEF Restart, Goto, PollOK, Labels
  <2>2. OrdersOK'
    BY <1>10, <1>t, EnvType DEF Restart, OrdersOK, broker
  <2>3. (lock' \in BOOLEAN) /\ (pending' \in BOOLEAN)
    BY <1>10, <1>t, Zenon DEF Restart, FlagsOK, PositionOK
  <2>4. QED BY <1>10, <2>1, <2>2, <2>3, PartsKeep DEF Restart, TypeInv, FlagsOK
<1>6. CASE LockExpires
  <2>1. FlagsOK'
    BY <1>6, <1>t DEF LockExpires, FlagsOK
  <2>2. QED BY <1>6, <2>1, PartsKeep DEF LockExpires, TypeInv, broker, poll
<1>7. CASE PendingExpires
  <2>1. FlagsOK'
    BY <1>7, <1>t DEF PendingExpires, FlagsOK
  <2>2. QED BY <1>7, <2>1, PartsKeep DEF PendingExpires, TypeInv, broker, poll
<1>8. CASE HashExpires
  <2>1. PositionOK'
    BY <1>8, <1>t DEF HashExpires, PositionOK
  <2>2. QED BY <1>8, <2>1, PartsKeep
               DEF HashExpires, TypeInv, broker, guards, poll
<1>9. QED BY <1>1, <1>2, <1>3, <1>4, <1>5, <1>6, <1>7, <1>8, <1>10 DEF Exit

LEMMA TypeNext == TypeInv /\ [Next]_vars => TypeInv'
<1> SUFFICES ASSUME TypeInv, [Next]_vars PROVE TypeInv'
  OBVIOUS
<1>1. CASE UNCHANGED vars
  BY <1>1, PartsKeep DEF vars, TypeInv, broker, guards, poll
<1>2. CASE Settle
  <2>1. BrokerOK'
    BY <1>2 DEF Settle, BrokerOK, trade, TypeInv
  <2>2. QED BY <1>2, <2>1, PartsKeep DEF Settle, TypeInv, guards, poll
<1>3. QED BY <1>1, <1>2, TypeBroker, TypeTraders, TypeSync, TypeExit DEF Next

LEMMA TypeHolds == Spec => []TypeInv
  BY TypeInit, TypeNext, PTL DEF Spec

(* Every variable stays in its type; what a SELL books is never more than  *)
(* the position Redis shows.                                               *)
THEOREM TypeCorrect == Spec => []TypeOK
  BY TypeHolds, TypeIs, PTL

-----------------------------------------------------------------------------
(* What there is to know of orders, fills and the poll: orders that were   *)
(* not placed do not exist, an open one has a rest, and a BUY is of        *)
(* env.lot.                                                                *)
OrderAt(o) ==
  /\ o > placed => order[o].open = FALSE /\ order[o].side = "BUY" /\ stat[o] = "none"
  /\ order[o].open => order[o].left > 0
  /\ o <= placed /\ order[o].side = "BUY" => order[o].left + order[o].done = env.lot
OrderInv ==
  /\ \A o \in OrderId : OrderAt(o)
  /\ inBuy # 0 => order[inBuy].side = "BUY"
  /\ exitOrder # 0 => order[exitOrder].side = "SELL"
  /\ pc = "record" <=> sellId # 0
  /\ sellId # 0 => order[sellId].side = "SELL"
  /\ pc \in {"discover", "write", "add"} => seen > 0
  /\ pc \in {"evaluate", "lock", "place"} => qty > 0
  /\ IndexedIsKept

LEMMA OrderInit == Init => OrderInv
<1> SUFFICES ASSUME Init PROVE OrderInv
  OBVIOUS
<1>1. \A o \in OrderId : OrderAt(o)
  BY SyncConstants DEF Init, OrderAt, NoOrder, OrderId
<1>2. QED BY <1>1 DEF Init, OrderInv, IndexedIsKept

(* The sides of orders do not change, so the names of orders stay good.    *)
NamesOK ==
  /\ inBuy # 0 => order[inBuy].side = "BUY"
  /\ exitOrder # 0 => order[exitOrder].side = "SELL"
  /\ sellId # 0 => order[sellId].side = "SELL"

LEMMA NamesKeep ==
  ASSUME TypeInv, OrderInv, UNCHANGED <<inBuy, exitOrder, sellId>>,
         \A o \in 1..placed : order'[o].side = order[o].side
  PROVE  NamesOK'
<1>1. /\ inBuy \in 0..placed /\ exitOrder \in 0..placed /\ sellId \in 0..placed
      /\ placed \in Nat
  BY EnvType DEF TypeInv, OrdersOK
<1>2. QED BY <1>1 DEF NamesOK, OrderInv

(* A save renews the TTL of the hash.                                      *)
LEMMA BookKept ==
  ASSUME OrderInv, NEW f, Book(f)
  PROVE  IndexedIsKept'
<1>1. CASE UNCHANGED <<position, books>>
  BY <1>1 DEF OrderInv, IndexedIsKept, position
<1>2. CASE ~(f.id \in booked \/ (f.side = "SELL" /\ posq = 0))
  BY <1>2 DEF Book, IndexedIsKept
<1>3. QED BY <1>1, <1>2 DEF Book

(* Steps of the processes: the broker's orders do not change.              *)
LEMMA OrderProcess ==
  ASSUME TypeInv, OrderInv, order' = order, placed' = placed, env' = env,
         \A o \in OrderId : o > placed => stat'[o] = stat[o],
         NamesOK', IndexedIsKept',
         pc' = "record" <=> sellId' # 0,
         pc' \in {"discover", "write", "add"} => seen' > 0,
         pc' \in {"evaluate", "lock", "place"} => qty' > 0
  PROVE  OrderInv'
<1>1. \A o \in OrderId : OrderAt(o)'
  BY DEF OrderInv, OrderAt
<1>2. QED BY <1>1 DEF OrderInv, NamesOK

LEMMA OrderBroker ==
  ASSUME TypeInv, OrderInv, NEW o \in OrderId,
         FillOrder(o) \/ EndOrder(o) \/ WatchKR(o) \/ WatchUS(o)
  PROVE  OrderInv'
<1>t. /\ \A p \in OrderId : OrderAt(p) /\ order[p].left \in Nat /\ order[p].done \in Nat
      /\ order[o].side \in {"BUY", "SELL"} /\ placed \in Nat /\ (1..placed) \subseteq OrderId
      /\ \A p \in OrderId : p \in Nat
      /\ stat \in [OrderId -> {"none", "SUBMITTED", "FILLED", "CANCELED"}]
  <2>1. \A p \in OrderId : p \in Nat
    BY EnvType DEF OrderId
  <2>2. QED BY <2>1, OrderType, EnvType DEF OrderInv, TypeInv, OrdersOK
<1>p. (order[o].open \/ stat[o] = "SUBMITTED") => o <= placed
  BY <1>t DEF OrderAt
<1>k. ASSUME UNCHANGED <<env, placed, inBuy, exitOrder, sellId, dying, idx, pc, seen,
                        qty>>,
             \A p \in OrderId : order'[p].side = order[p].side,
             \A p \in OrderId : OrderAt(p)'
      PROVE  OrderInv'
  <2>1. NamesOK'
    BY <1>k, <1>t, NamesKeep
  <2>2. QED BY <1>k, <2>1 DEF OrderInv, NamesOK, IndexedIsKept
<1>1. CASE FillOrder(o)
  <2>1. PICK n \in 0..order[o].left :
          /\ order[o].left > 0 => n > 0
          /\ order'[o] = [side |-> order[o].side, left |-> order[o].left - n,
                          done |-> order[o].done + n, open |-> n < order[o].left]
          /\ \A p \in OrderId : p # o => order'[p] = order[p]
    BY <1>1, FillType
  <2>2. UNCHANGED <<env, placed, inBuy, exitOrder, sellId, queue, posq, dying, idx, pc,
                    seen, qty, stat>> /\ order[o].open
    BY <1>1 DEF FillOrder, guards, poll, fills, position
  <2>3. ASSUME NEW p \in OrderId PROVE OrderAt(p)' /\ order'[p].side = order[p].side
    <3>1. CASE p = o
      <4>1. /\ order'[o].side = order[o].side /\ order'[o].left = order[o].left - n
            /\ order'[o].done = order[o].done + n /\ order'[o].open = (n < order[o].left)
        BY <2>1
      <4>2. order[o].left - n + (order[o].done + n) = order[o].left + order[o].done
            /\ (n < order[o].left => order[o].left - n > 0)
        BY <2>1, <1>t
      <4>3. OrderAt(o)
        BY <1>t
      <4>4. o <= placed
        BY <2>2, <4>3, <1>t DEF OrderAt
      <4>5. QED BY <3>1, <2>2, <4>1, <4>2, <4>3, <4>4, <1>t DEF OrderAt
    <3>2. CASE p # o
      BY <3>2, <2>1, <2>2, <1>t DEF OrderAt
    <3>3. QED BY <3>1, <3>2
  <2>4. QED BY <1>k, <2>2, <2>3
<1>2. CASE /\ order' = [order EXCEPT ![o].open = FALSE] /\ order[o].open
            /\ stat' \in {stat, [stat EXCEPT ![o] = "CANCELED"]}
            /\ UNCHANGED <<env, placed, inBuy, exitOrder, sellId, queue, posq, dying, idx, pc,
                           seen, qty>>
  <2>1. ASSUME NEW p \in OrderId PROVE OrderAt(p)' /\ order'[p].side = order[p].side
    <3>1. OrderAt(p) /\ OrderAt(o) /\ p \in Nat /\ o \in Nat
      BY <1>t
    <3>2. p > placed => stat'[p] = stat[p]
      BY <1>2, <1>p, <3>1, <1>t
    <3>3. /\ order'[p].side = order[p].side /\ order'[p].left = order[p].left
          /\ order'[p].done = order[p].done /\ (order'[p].open => order[p].open)
          /\ (order[p].open = FALSE => order'[p].open = FALSE)
      BY <1>2, CloseType
    <3>4. QED BY <1>2, <3>1, <3>2, <3>3 DEF OrderAt
  <2>2. QED BY <1>k, <1>2, <2>1
<1>3. CASE /\ order' = order /\ stat[o] = "SUBMITTED"
            /\ stat' = [stat EXCEPT ![o] = "FILLED"]
            /\ UNCHANGED <<env, placed, inBuy, exitOrder, sellId, queue, posq, dying, idx, pc,
                           seen, qty>>
  <2>1. ASSUME NEW p \in OrderId PROVE OrderAt(p)'
    <3>1. p \in Nat /\ o \in Nat
      BY <1>t
    <3>2. p > placed => stat'[p] = stat[p]
      BY <1>3, <1>p, <3>1, <1>t
    <3>3. QED BY <1>3, <3>2, <1>t DEF OrderAt
  <2>2. QED BY <1>k, <1>3, <2>1
<1>4. CASE WatchUS(o)
  <2>1. UNCHANGED <<env, placed, order, inBuy, exitOrder, sellId, queue, pc, seen, qty>>
        /\ stat[o] = "SUBMITTED" /\ stat' \in {[stat EXCEPT ![o] = "FILLED"],
                                              [stat EXCEPT ![o] = "CANCELED"]}
    BY <1>4 DEF WatchUS, guards, poll, fills, broker
  <2>2. ASSUME NEW p \in OrderId, p > placed PROVE stat'[p] = stat[p]
    <3>1. p \in Nat /\ o \in Nat
      BY <1>t
    <3>2. QED BY <2>1, <2>2, <1>p, <3>1, <1>t
  <2>3. IndexedIsKept'
    <3>1. CASE order[o].left = 0
      BY <1>4, <3>1, BookKept DEF WatchUS
    <3>2. CASE order[o].left # 0
      BY <1>4, <3>2 DEF WatchUS, position, OrderInv, IndexedIsKept
    <3>3. QED BY <3>1, <3>2
  <2>4. NamesOK'
    BY <2>1, NamesKeep
  <2>5. /\ pc' = "record" <=> sellId' # 0
        /\ pc' \in {"discover", "write", "add"} => seen' > 0
        /\ pc' \in {"evaluate", "lock", "place"} => qty' > 0
    BY <2>1 DEF OrderInv
  <2>6. QED BY <2>1, <2>2, <2>3, <2>4, <2>5, OrderProcess
<1>5. CASE EndOrder(o)
  BY <1>2, <1>5 DEF EndOrder, guards, poll, fills, position
<1>6. CASE WatchKR(o)
  <2>1. \/ order' = order /\ stat' = [stat EXCEPT ![o] = "FILLED"]
        \/ /\ order' = [order EXCEPT ![o].open = FALSE] /\ order[o].open
           /\ stat' = [stat EXCEPT ![o] = "CANCELED"]
    BY <1>6 DEF WatchKR
  <2>2. UNCHANGED <<env, placed, inBuy, exitOrder, sellId, queue, posq, dying, idx, pc, seen,
                    qty>> /\ stat[o] = "SUBMITTED"
    BY <1>6 DEF WatchKR, guards, poll, fills, position
  <2>3. QED BY <1>2, <1>3, <2>1, <2>2
<1>7. QED BY <1>1, <1>4, <1>5, <1>6

(* A new order.                                                            *)
LEMMA OrderTaken ==
  ASSUME TypeInv, OrderInv, NEW side \in {"BUY", "SELL"}, NEW n \in Nat \ {0},
         Take(side, n), side = "BUY" => n = env.lot, UNCHANGED <<env, stat>>
  PROVE  /\ \A o \in OrderId : OrderAt(o)'
         /\ placed' = placed + 1 /\ order'[placed + 1].side = side
         /\ \A o \in 1..placed : order'[o] = order[o]
<1>1. /\ placed + 1 \in OrderId /\ placed' = placed + 1 /\ placed \in Nat
      /\ (1..placed) \subseteq OrderId
      /\ order'[placed + 1] = [side |-> side, left |-> n, done |-> 0, open |-> TRUE]
      /\ \A o \in OrderId : o # placed + 1 => order'[o] = order[o]
  <2>1. n \in Nat /\ placed \in Nat
    BY EnvType
  <2>2. QED BY <2>1, TakeType, EnvType
<1>2. ASSUME NEW o \in OrderId PROVE OrderAt(o)'
  <2>1. CASE o = placed + 1
    BY <2>1, <1>1 DEF OrderAt
  <2>2. CASE o # placed + 1
    <3>1. OrderAt(o) /\ o \in Nat
      BY EnvType DEF OrderInv, OrderId
    <3>2. QED BY <2>2, <3>1, <1>1 DEF OrderAt
  <2>3. QED BY <2>1, <2>2
<1>3. QED BY <1>1, <1>2

LEMMA OrderSteps ==
  ASSUME TypeInv, TypeInv', OrderInv, [Next]_vars,
         ~\E o \in OrderId : FillOrder(o) \/ EndOrder(o) \/ WatchKR(o) \/ WatchUS(o)
  PROVE  OrderInv'
<1>t. /\ env.lot \in Nat \ {0} /\ placed \in Nat /\ (1..placed) \subseteq OrderId
      /\ inBuy \in 0..placed /\ sellId \in 0..placed /\ exitOrder \in 0..placed
      /\ seen \in Nat /\ qty \in Nat /\ posq \in Nat /\ found \in Nat
      /\ \A o \in OrderId : o \in Nat
      /\ stat \in [OrderId -> {"none", "SUBMITTED", "FILLED", "CANCELED"}]
  <2>1. \A o \in OrderId : o \in Nat
    BY EnvType DEF OrderId
  <2>2. QED BY <2>1, EnvType DEF TypeInv, OrdersOK, PollOK, PositionOK
<1>i. /\ inBuy # 0 => order[inBuy].side = "BUY"
      /\ exitOrder # 0 => order[exitOrder].side = "SELL"
      /\ pc = "record" <=> sellId # 0
      /\ sellId # 0 => order[sellId].side = "SELL"
      /\ IndexedIsKept
      /\ pc \in {"discover", "write", "add"} => seen > 0
      /\ pc \in {"evaluate", "lock", "place"} => qty > 0
      /\ \A o \in OrderId : OrderAt(o)
  BY DEF OrderInv
<1>1. CASE UNCHANGED <<env, order, placed, inBuy, stat, posq, dying, idx, exitOrder, queue,
                       pc, seen, qty, sellId>>
  BY <1>1 DEF OrderInv, OrderAt, IndexedIsKept
<1>2. CASE Settle \/ PendingExpires \/ LockExpires \/ UNCHANGED vars
  BY <1>2, <1>1
     DEF Settle, PendingExpires, LockExpires, vars, broker, position, guards,
         fills, poll
<1>3. CASE PlaceBuy
  <2>1. Take("BUY", env.lot) /\ inBuy' = placed + 1
        /\ UNCHANGED <<env, stat, posq, dying, idx, exitOrder, queue, pc, seen, qty, sellId>>
    BY <1>3 DEF PlaceBuy, position, guards, fills, poll
  <2>2. /\ \A o \in OrderId : OrderAt(o)'
        /\ placed' = placed + 1 /\ order'[placed + 1].side = "BUY"
        /\ \A o \in 1..placed : order'[o] = order[o]
    BY <2>1, <1>t, OrderTaken
  <2>3. QED BY <1>i, <1>t, <2>1, <2>2 DEF OrderInv, IndexedIsKept
<1>4. CASE PlaceSell
  <2>1. UNCHANGED <<env, stat, inBuy, posq, dying, idx, exitOrder, queue, seen, qty>>
        /\ pc = "place" /\ qty > 0 /\ sellId = 0
    BY <1>4, <1>i DEF PlaceSell, position, fills
  <2>2. CASE Take("SELL", qty) /\ (\/ pc' = "record" /\ sellId' = placed'
                                   \/ pc' = "idle" /\ sellId' = sellId)
    <3>1. /\ \A o \in OrderId : OrderAt(o)'
          /\ placed' = placed + 1 /\ order'[placed + 1].side = "SELL"
          /\ \A o \in 1..placed : order'[o] = order[o]
      BY <2>1, <2>2, <1>t, OrderTaken
    <3>2. QED BY <1>i, <1>t, <2>1, <2>2, <3>1
                 DEF OrderInv, IndexedIsKept
  <2>3. CASE UNCHANGED <<broker, sellId>> /\ pc' = "idle"
    BY <1>i, <2>1, <2>3
       DEF OrderInv, OrderAt, IndexedIsKept, broker
  <2>4. QED BY <1>4, <2>2, <2>3 DEF PlaceSell, Goto
<1>5. CASE RecordBuy
  <2>1. /\ UNCHANGED <<env, order, placed, posq, dying, idx, exitOrder, pc, seen, qty, sellId>>
        /\ inBuy' = 0 /\ inBuy \in 1..placed
        /\ stat' \in {[stat EXCEPT ![inBuy] = "FILLED"], [stat EXCEPT ![inBuy] = "SUBMITTED"]}
    <3>1. inBuy # 0 => inBuy \in 1..placed
      BY <1>t
    <3>2. \E filled \in BOOLEAN :
            stat' = [stat EXCEPT ![inBuy] = IF filled THEN "FILLED" ELSE "SUBMITTED"]
      BY <1>5 DEF RecordBuy
    <3>3. stat' \in {[stat EXCEPT ![inBuy] = "FILLED"], [stat EXCEPT ![inBuy] = "SUBMITTED"]}
      BY <3>2
    <3>4. QED BY <1>5, <3>1, <3>3 DEF RecordBuy, broker, position, poll
  <2>2. inBuy \in OrderId /\ \A o \in OrderId : o > placed => stat'[o] = stat[o]
    <3>1. inBuy \in OrderId /\ inBuy <= placed
      BY <2>1, <1>t
    <3>2. QED BY <2>1, <3>1, <1>t
  <2>3. QED BY <1>i, <2>1, <2>2, OrderProcess DEF NamesOK, IndexedIsKept
<1>6. CASE CrashExecutor
  <2>1. UNCHANGED <<env, order, placed, stat, posq, dying, idx, exitOrder, queue, pc, seen,
                    qty, sellId>> /\ inBuy' = 0
    BY <1>6 DEF CrashExecutor, broker, position, guards, fills, poll
  <2>2. QED BY <1>i, <2>1, OrderProcess DEF NamesOK, IndexedIsKept
<1>7. CASE ApplyFill
  <2>1. UNCHANGED <<env, order, placed, stat, inBuy, exitOrder, pc, seen, qty, sellId>>
        /\ Book(Head(queue))
    BY <1>7 DEF ApplyFill, broker, guards, poll
  <2>2. IndexedIsKept'
    BY <2>1, BookKept
  <2>3. NamesOK'
    BY <2>1, NamesKeep
  <2>4. QED BY <1>i, <2>1, <2>2, <2>3, OrderProcess
<1>8. CASE Fetch
  <2>1. UNCHANGED <<env, order, placed, stat, inBuy, posq, dying, idx, exitOrder, queue, qty,
                    sellId>> /\ pc = "idle"
    BY <1>8 DEF Fetch, broker, position, guards, fills
  <2>2. pc' = "index"
    BY <1>8 DEF Fetch, Goto
  <2>3. NamesOK'
    BY <2>1, NamesKeep
  <2>4. QED BY <1>i, <2>1, <2>2, <2>3, OrderProcess DEF IndexedIsKept
<1>20. CASE ReadIndex
  <2>1. UNCHANGED <<env, order, placed, stat, inBuy, dying, idx, exitOrder, qty, seen,
                    sellId>> /\ pc = "index"
    BY <1>20 DEF ReadIndex, broker, position, guards
  <2>2. pc' \in {"idle", "write", "discover", "missing"}
        /\ (pc' \in {"write", "discover"} => seen > 0)
    BY <1>20 DEF ReadIndex, Goto
  <2>3. NamesOK'
    BY <2>1, NamesKeep
  <2>4. QED BY <1>i, <2>1, <2>2, <2>3, OrderProcess DEF IndexedIsKept
<1>9. CASE FetchFails
  <2>1. UNCHANGED <<env, order, placed, stat, inBuy, posq, dying, idx, exitOrder, queue, seen,
                    sellId>> /\ pc = "idle" /\ qty' = posq
    BY <1>9 DEF FetchFails, broker, position, guards, fills
  <2>2. pc' \in {"idle", "evaluate"} /\ (pc' = "evaluate" => posq > 0)
    BY <1>9 DEF FetchFails, Goto
  <2>3. NamesOK'
    BY <2>1, NamesKeep
  <2>4. QED BY <1>i, <2>1, <2>2, <2>3, OrderProcess DEF IndexedIsKept
<1>10. CASE Discover \/ WriteHolding
  <2>1. UNCHANGED <<env, order, placed, stat, inBuy, dying, idx, exitOrder, seen, qty,
                    sellId>>
        /\ pc \in {"discover", "write"} /\ pc' \in {"write", "add"}
    BY <1>10 DEF Discover, WriteHolding, Goto, broker, position, guards
  <2>2. NamesOK'
    BY <2>1, NamesKeep
  <2>3. QED BY <1>i, <2>1, <2>2, OrderProcess DEF IndexedIsKept
<1>11. CASE AddIndex
  <2>1. UNCHANGED <<env, order, placed, stat, inBuy, exitOrder, seen, sellId>>
        /\ pc = "add" /\ pc' = "evaluate" /\ dying' = FALSE /\ qty' = seen
    BY <1>11 DEF AddIndex, Goto, broker, guards
  <2>2. NamesOK'
    BY <2>1, NamesKeep
  <2>3. QED BY <1>i, <2>1, <2>2, OrderProcess DEF IndexedIsKept
<1>12. CASE Missing \/ Gone \/ ClaimSale \/ PushSale
  <2>1. UNCHANGED <<env, order, placed, stat, inBuy, dying, idx, exitOrder, seen, sellId>>
        /\ pc \in {"missing", "gone", "claim", "push"}
        /\ pc' \in {"idle", "gone", "claim", "push", "remove"}
    BY <1>12 DEF Missing, Gone, ClaimSale, PushSale, Goto, broker, position, guards
  <2>2. NamesOK'
    BY <2>1, NamesKeep
  <2>3. QED BY <1>i, <2>1, <2>2, OrderProcess DEF IndexedIsKept
<1>14. CASE RemovePosition
  <2>1. UNCHANGED <<env, order, placed, stat, inBuy, posq, queue, seen, qty, sellId>>
        /\ pc = "remove" /\ pc' = "idle" /\ idx' = FALSE /\ exitOrder' = 0
    BY <1>14 DEF RemovePosition, Goto, broker, fills
  <2>2. QED BY <1>i, <2>1, OrderProcess DEF NamesOK, IndexedIsKept
<1>15. CASE Evaluate \/ TakeLock
  <2>1. UNCHANGED <<env, order, placed, stat, inBuy, posq, dying, idx, exitOrder, queue, seen,
                    qty, sellId>>
        /\ pc \in {"evaluate", "lock"} /\ pc' \in {"idle", "lock", "place"}
    BY <1>15 DEF Evaluate, TakeLock, Goto, broker, position, fills
  <2>2. NamesOK'
    BY <2>1, NamesKeep
  <2>3. QED BY <1>i, <2>1, <2>2, OrderProcess DEF IndexedIsKept
<1>16. CASE RecordSell
  <2>1. UNCHANGED <<env, order, placed, inBuy, posq, dying, idx, queue, seen, qty>>
        /\ pc = "record" /\ pc' = "idle" /\ sellId' = 0 /\ exitOrder' = sellId
        /\ stat' = [stat EXCEPT ![sellId] = "SUBMITTED"]
    BY <1>16 DEF RecordSell, Goto, broker, position, fills
  <2>2. sellId \in 1..placed /\ \A o \in OrderId : o > placed => stat'[o] = stat[o]
    BY <2>1, <1>i, <1>t
  <2>3. QED BY <1>i, <2>1, <2>2, OrderProcess
               DEF NamesOK, IndexedIsKept
<1>17. CASE CrashExitRunner \/ Restart
  <2>1. UNCHANGED <<env, order, placed, stat, inBuy, dying, idx, seen, qty>>
        /\ pc' \in {"down", "idle"} /\ sellId' = 0 /\ exitOrder' \in {exitOrder, 0}
    BY <1>17, <1>i DEF CrashExitRunner, Restart, Goto, broker, position, guards
  <2>2. QED BY <1>i, <2>1, OrderProcess DEF NamesOK, IndexedIsKept
<1>18. CASE HashExpires
  <2>1. UNCHANGED <<env, order, placed, stat, inBuy, idx, exitOrder, queue, pc, seen, qty,
                    sellId>> /\ dying
    BY <1>18 DEF HashExpires, broker, guards, fills, poll
  <2>2. QED BY <1>i, <2>1, OrderProcess DEF NamesOK, IndexedIsKept
<1>19. QED
  BY <1>2, <1>3, <1>4, <1>5, <1>6, <1>7, <1>8, <1>9, <1>10, <1>11, <1>12,
     <1>14, <1>15, <1>16, <1>17, <1>18, <1>20 DEF Next, Sync, Exit

LEMMA OrderNext == TypeInv /\ TypeInv' /\ OrderInv /\ [Next]_vars => OrderInv'
  BY OrderBroker, OrderSteps

LEMMA OrderHolds == Spec => []OrderInv
  BY OrderInit, OrderNext, TypeHolds, PTL DEF Spec

(* The hash of an indexed symbol is not about to expire.                   *)
THEOREM IndexKept == Spec => []IndexedIsKept
<1>1. OrderInv => IndexedIsKept
  BY DEF OrderInv
<1>2. QED BY <1>1, OrderHolds, PTL

-----------------------------------------------------------------------------
(* What keeps sales apart while the lock has what it rests on: an open     *)
(* SELL has the lock and the holding behind it, for US it is the order the *)
(* exit runner knows, and no poll that saw the state before it is about to *)
(* sell again.                                                             *)
Selling(o) == order[o].side = "SELL" /\ order[o].open
Apart == listed <= held /\ \A o \in OrderId : ~Selling(o)
Quiet ==
  \/ pc \in {"missing", "gone", "claim", "push", "remove", "lock", "place"}
  \/ pc = "index" /\ seen = 0
Copying == pc \in {"discover", "write", "add"} \/ (pc = "index" /\ seen > 0)
Current == IF pc = "record" THEN sellId ELSE exitOrder
(* The current SELL may have been filled without the poll having seen it.  *)
Executed == lock /\ (Market = "US" => Current # 0 /\ order[Current].done > 0)

SellAt(o) ==
  order[o].side = "SELL" =>
    /\ order[o].open => /\ lock /\ order[o].left <= held /\ listed > 0
                        /\ ~Quiet /\ stat[o] # "CANCELED"
                        /\ Market = "US" => o = Current
    /\ Market = "US" => /\ "partial" \in Weak \/ order[o].left = 0 \/ order[o].done = 0
                        /\ "sell_cancel" \in Weak \/ order[o].open \/ order[o].left = 0
    /\ stat[o] = "CANCELED" => Market = "US" /\ order[o].left > 0
SingleSell == \A o, p \in OrderId : Selling(o) /\ Selling(p) => o = p
PollSound ==
  ~Prompt =>
    /\ Copying /\ ~Executed => seen <= held /\ listed > 0
    /\ pc = "evaluate" /\ ~Executed => qty <= held /\ listed > 0
    /\ pc \in {"lock", "place"} => qty <= held /\ listed > 0
HoldingSound ==
  /\ held >= 0
  /\ pc \in {"place", "record"} => lock
  /\ Quiet => listed <= held
  /\ listed > held => Executed
LockInv == (\A o \in OrderId : SellAt(o)) /\ SingleSell /\ HoldingSound /\ PollSound

LEMMA LockFacts ==
  ASSUME TypeInv
  PROVE  /\ held \in Int /\ listed \in Int /\ seen \in Nat /\ qty \in Nat /\ posq \in Nat
         /\ Current \in 0..placed /\ exitOrder \in 0..placed /\ sellId \in 0..placed
         /\ inBuy \in 0..placed
         /\ \A o \in OrderId : /\ order[o].left \in Nat /\ order[o].done \in Nat
                               /\ order[o].side \in {"BUY", "SELL"}
                               /\ o \in Nat
         /\ stat \in [OrderId -> {"none", "SUBMITTED", "FILLED", "CANCELED"}]
         /\ lock \in BOOLEAN /\ idx \in BOOLEAN
  BY OrderType, EnvType
     DEF TypeInv, BrokerOK, OrdersOK, PollOK, PositionOK, FlagsOK, Current,
         OrderId

(* A step of a process, which leaves the broker alone.                     *)
LEMMA LockProcess ==
  ASSUME TypeInv, LockInv, order' = order, held' = held, listed' = listed, env' = env,
         \A o \in OrderId :
           order[o].side = "SELL" /\ stat'[o] = "CANCELED" =>
             \/ stat[o] = "CANCELED"
             \/ Market = "US" /\ order[o].left > 0 /\ ~order[o].open,
         (lock' = lock /\ Current' = Current) \/ Apart,
         Quiet' => Apart,
         pc' \in {"place", "record"} => lock',
         PollSound'
  PROVE  LockInv'
<1>1. ASSUME NEW o \in OrderId PROVE SellAt(o)'
  <2>1. SellAt(o)
    BY DEF LockInv
  <2>2. Apart => ~Selling(o)
    BY DEF Apart
  <2>3. QED BY <2>1, <2>2 DEF SellAt, Selling, Market, Weak
<1>2. SingleSell'
  BY DEF LockInv, SingleSell, Selling
<1>3. HoldingSound'
  <2>1. Apart => listed <= held
    BY DEF Apart
  <2>2. held' \in Int /\ listed' \in Int
    BY LockFacts
  <2>3. (lock' = lock /\ Current' = Current) => Executed' = Executed
    BY DEF Executed, Market
  <2>4. QED BY <2>1, <2>2, <2>3 DEF LockInv, HoldingSound
<1>4. QED BY <1>1, <1>2, <1>3 DEF LockInv

(* What the lock lets one infer of orders.                                 *)
LEMMA LockAt ==
  ASSUME TypeInv, OrderInv, LockInv, LockHolds
  PROVE  /\ Quiet => Apart
         /\ ~lock => Apart
         /\ listed <= 0 => Apart
         /\ ~Executed => listed <= held
         /\ exitOrder # 0 /\ stat[exitOrder] = "CANCELED" /\ pc # "record" => Apart /\ ~Executed
<1>t. /\ held \in Int /\ listed \in Int /\ exitOrder \in 0..placed /\ placed \in Nat
      /\ (1..placed) \subseteq OrderId /\ Market \in {"KR", "US"}
      /\ \A o \in OrderId : order[o].left \in Nat /\ order[o].done \in Nat
  BY LockFacts, EnvType
<1>i. /\ \A o \in OrderId : SellAt(o) /\ OrderAt(o)
      /\ held >= 0 /\ (Quiet => listed <= held) /\ (listed > held => Executed)
  BY DEF LockInv, HoldingSound, OrderInv
<1>1. Quiet => Apart
  BY <1>i DEF SellAt, Selling, Apart
<1>2. ~lock => Apart
  BY <1>i, <1>t DEF SellAt, Selling, Apart, Executed
<1>3. ~Executed => listed <= held
  BY <1>i, <1>t
<1>4. listed <= 0 => Apart
  BY <1>i, <1>t DEF SellAt, Selling, Apart
<1>5. ASSUME exitOrder # 0, stat[exitOrder] = "CANCELED", pc # "record"
      PROVE  Apart /\ ~Executed
  <2>1. exitOrder \in OrderId /\ order[exitOrder].side = "SELL" /\ SellAt(exitOrder)
        /\ Current = exitOrder
    BY <1>5, <1>t, <1>i DEF OrderInv, Current
  <2>2. Market = "US" /\ order[exitOrder].left > 0 /\ ~order[exitOrder].open
    BY <1>5, <2>1 DEF SellAt
  <2>3. ~({"partial", "sell_cancel"} \subseteq Weak)
    BY <2>2 DEF LockHolds
  <2>4. order[exitOrder].done = 0
    BY <2>1, <2>2, <2>3, <1>t DEF SellAt
  <2>5. ~Executed
    BY <2>1, <2>2, <2>4, <1>t DEF Executed
  <2>6. \A o \in OrderId : ~Selling(o)
    BY <2>1, <2>2, <1>i DEF SellAt, Selling
  <2>7. QED BY <2>5, <2>6, <1>3 DEF Apart
<1>6. QED BY <1>1, <1>2, <1>3, <1>4, <1>5

(* The exit runner's poll.                                                 *)
LEMMA LockSync ==
  ASSUME TypeInv, OrderInv, LockInv, LockHolds, Sync \/ FetchFails
  PROVE  LockInv'
<1>t. /\ held \in Int /\ listed \in Int /\ seen \in Nat /\ qty \in Nat
      /\ env.crashes \in Nat /\ env.outages \in Nat /\ outages \in Nat
  BY LockFacts, EnvType DEF TypeInv, PollOK
<1>i. /\ Quiet => Apart
      /\ ~lock => Apart
      /\ listed <= 0 => Apart
      /\ ~Executed => listed <= held
      /\ PollSound
  BY LockAt DEF LockInv
<1>e. ASSUME env' = env, lock' = lock, exitOrder' = exitOrder, order' = order, pc # "record",
             pc' # "record"
      PROVE  Executed' = Executed /\ Prompt' = Prompt /\ Current' = Current
  BY <1>e DEF Executed, Prompt, Current, Market, Weak
<1>1. CASE Fetch
  <2>1. /\ UNCHANGED <<env, order, held, listed, stat, lock, exitOrder>>
        /\ pc = "idle" /\ seen' = (IF listed > 0 THEN listed ELSE 0) /\ pc' = "index"
    BY <1>1 DEF Fetch, Goto, broker, guards
  <2>2. Executed' = Executed /\ Prompt' = Prompt /\ Current' = Current
    BY <2>1, <1>e
  <2>3. Quiet' => Apart
    BY <2>1, <1>i, <1>t DEF Quiet
  <2>4. PollSound'
    BY <2>1, <2>2, <1>i, <1>t DEF PollSound, Copying
  <2>5. QED BY <2>1, <2>2, <2>3, <2>4, LockProcess
<1>8. CASE ReadIndex
  <2>1. /\ UNCHANGED <<env, order, held, listed, stat, lock, exitOrder, seen>>
        /\ pc = "index"
        /\ \/ seen > 0 /\ pc' \in {"write", "discover"}
           \/ ~(seen > 0) /\ pc' \in {"missing", "idle"}
    BY <1>8 DEF ReadIndex, Goto, broker, guards
  <2>2. Executed' = Executed /\ Prompt' = Prompt /\ Current' = Current
    BY <2>1, <1>e
  <2>3. Quiet' => Apart
    BY <2>1, <1>i, <1>t DEF Quiet
  <2>4. PollSound'
    BY <2>1, <2>2, <1>i, <1>t DEF PollSound, Copying
  <2>5. QED BY <2>1, <2>2, <2>3, <2>4, LockProcess
<1>2. CASE FetchFails
  <2>1. /\ UNCHANGED <<env, order, held, listed, stat, lock, exitOrder>>
        /\ pc = "idle" /\ outages < env.outages /\ pc' \in {"idle", "evaluate"}
    BY <1>2 DEF FetchFails, Goto, broker, guards
  <2>2. Executed' = Executed /\ Prompt' = Prompt /\ Current' = Current
    BY <2>1, <1>e
  <2>3. Prompt
    BY <2>1, <1>t DEF LockHolds
  <2>4. PollSound'
    BY <2>2, <2>3 DEF PollSound, Copying
  <2>5. QED BY <2>1, <2>2, <2>4, LockProcess DEF Quiet
<1>3. CASE Discover \/ WriteHolding
  <2>1. UNCHANGED <<env, order, held, listed, stat, lock, exitOrder, seen, qty>>
        /\ pc \in {"discover", "write"} /\ pc' \in {"write", "add"}
    BY <1>3 DEF Discover, WriteHolding, Goto, broker, guards
  <2>2. Executed' = Executed /\ Prompt' = Prompt /\ Current' = Current
    BY <2>1, <1>e
  <2>3. PollSound'
    BY <2>1, <2>2, <1>i DEF PollSound, Copying
  <2>4. QED BY <2>1, <2>2, <2>3, LockProcess DEF Quiet
<1>4. CASE AddIndex
  <2>1. UNCHANGED <<env, order, held, listed, stat, lock, exitOrder, seen>>
        /\ pc = "add" /\ pc' = "evaluate" /\ qty' = seen
    BY <1>4 DEF AddIndex, Goto, broker, guards
  <2>2. Executed' = Executed /\ Prompt' = Prompt /\ Current' = Current
    BY <2>1, <1>e
  <2>3. PollSound'
    BY <2>1, <2>2, <1>i DEF PollSound, Copying
  <2>4. QED BY <2>1, <2>2, <2>3, LockProcess DEF Quiet
<1>5. CASE Missing \/ Gone \/ ClaimSale \/ PushSale
  <2>1. UNCHANGED <<env, order, held, listed, stat, lock, exitOrder>>
        /\ pc \in {"missing", "gone", "claim", "push"}
        /\ pc' \in {"idle", "gone", "claim", "push", "remove"}
    BY <1>5 DEF Missing, Gone, ClaimSale, PushSale, Goto, broker, guards
  <2>2. Executed' = Executed /\ Prompt' = Prompt /\ Current' = Current
    BY <2>1, <1>e
  <2>3. PollSound' /\ Apart
    BY <2>1, <1>i DEF PollSound, Copying, Quiet
  <2>4. QED BY <2>1, <2>2, <2>3, LockProcess
<1>6. CASE RemovePosition
  <2>1. UNCHANGED <<env, order, held, listed, stat>> /\ pc = "remove" /\ pc' = "idle"
    BY <1>6 DEF RemovePosition, Goto, broker
  <2>2. PollSound' /\ Apart
    BY <2>1, <1>i DEF PollSound, Copying, Quiet
  <2>3. QED BY <2>1, <2>2, LockProcess DEF Quiet
<1>7. QED BY <1>1, <1>2, <1>3, <1>4, <1>5, <1>6, <1>8 DEF Sync

(* The exit, up to the order it places.                                    *)
LEMMA LockExit ==
  ASSUME TypeInv, OrderInv, LockInv, LockHolds, Evaluate \/ TakeLock \/ RecordSell
  PROVE  LockInv'
<1>t. /\ held \in Int /\ listed \in Int /\ qty \in Nat /\ sellId \in 0..placed /\ placed \in Nat
      /\ (1..placed) \subseteq OrderId
      /\ stat \in [OrderId -> {"none", "SUBMITTED", "FILLED", "CANCELED"}]
      /\ lock \in BOOLEAN
  BY LockFacts, EnvType
<1>i. /\ Quiet => Apart
      /\ ~lock => Apart /\ ~Executed
      /\ PollSound
      /\ exitOrder # 0 /\ stat[exitOrder] = "CANCELED" /\ pc # "record" => Apart /\ ~Executed
  BY LockAt DEF LockInv, Executed
<1>1. CASE Evaluate
  <2>1. /\ UNCHANGED <<env, order, held, listed, stat, exitOrder, qty, seen>>
        /\ pc = "evaluate" /\ pc' \in {"idle", "lock"}
        /\ \/ lock' = lock /\ pc' = "idle"
           \/ ~lock \/ (exitOrder # 0 /\ stat[exitOrder] = "CANCELED")
    BY <1>1 DEF Evaluate, Goto, broker, position, fills
  <2>2. Prompt' = Prompt /\ Current' = Current
    BY <2>1 DEF Prompt, Current, Market, Weak
  <2>3. CASE lock' = lock /\ pc' = "idle"
    <3>1. PollSound'
      BY <2>3 DEF PollSound, Copying
    <3>2. QED BY <2>1, <2>2, <2>3, <3>1, LockProcess DEF Quiet
  <2>4. CASE ~lock \/ (exitOrder # 0 /\ stat[exitOrder] = "CANCELED")
    <3>1. Apart /\ ~Executed
      BY <2>1, <2>4, <1>i
    <3>2. PollSound'
      BY <2>1, <2>2, <3>1, <1>i DEF PollSound, Copying
    <3>3. QED BY <2>1, <2>2, <3>1, <3>2, LockProcess
  <2>5. QED BY <2>1, <2>3, <2>4
<1>2. CASE TakeLock
  <2>1. /\ UNCHANGED <<env, order, held, listed, stat, exitOrder, qty, seen>>
        /\ pc = "lock" /\ pc' \in {"idle", "place"} /\ lock' = TRUE
    BY <1>2 DEF TakeLock, Goto, broker, position, fills
  <2>2. Prompt' = Prompt /\ Apart
    BY <2>1, <1>i DEF Prompt, Market, Weak, Quiet
  <2>3. PollSound'
    BY <2>1, <2>2, <1>i DEF PollSound, Copying
  <2>4. QED BY <2>1, <2>2, <2>3, LockProcess
<1>3. CASE RecordSell
  <2>1. /\ UNCHANGED <<env, order, held, listed, qty, seen, lock>>
        /\ pc = "record" /\ pc' = "idle" /\ exitOrder' = sellId
        /\ stat' = [stat EXCEPT ![sellId] = "SUBMITTED"]
    BY <1>3 DEF RecordSell, Goto, broker, position, fills
  <2>2. Current' = Current /\ PollSound'
    BY <2>1 DEF Current, PollSound, Copying
  <2>3. \A o \in OrderId : stat'[o] = "CANCELED" => stat[o] = "CANCELED"
    BY <2>1, <1>t
  <2>4. QED BY <2>1, <2>2, <2>3, LockProcess DEF Quiet
<1>4. QED BY <1>1, <1>2, <1>3

(* The other processes, and the end of the lock's TTL.                     *)
LEMMA LockOthers ==
  ASSUME TypeInv, OrderInv, LockInv, LockHolds,
         \/ RecordBuy \/ CrashExecutor \/ ApplyFill \/ PendingExpires \/ LockExpires
         \/ HashExpires \/ (\E o \in OrderId : WatchUS(o)) \/ UNCHANGED vars
  PROVE  LockInv'
<1>t. /\ (1..placed) \subseteq OrderId /\ inBuy \in 0..placed
      /\ \A o \in OrderId : order[o].left \in Nat
      /\ stat \in [OrderId -> {"none", "SUBMITTED", "FILLED", "CANCELED"}]
  BY LockFacts, EnvType
<1>1. ASSUME UNCHANGED <<env, order, held, listed, lock, exitOrder, sellId, pc, qty, seen>>,
             \A o \in OrderId :
               order[o].side = "SELL" /\ stat'[o] = "CANCELED" =>
                 \/ stat[o] = "CANCELED"
                 \/ Market = "US" /\ order[o].left > 0 /\ ~order[o].open
      PROVE  LockInv'
  <2>1. Executed' = Executed /\ Prompt' = Prompt /\ Current' = Current
    BY <1>1 DEF Executed, Prompt, Current, Market, Weak
  <2>2. PollSound'
    BY <1>1, <2>1 DEF LockInv, PollSound, Copying
  <2>3. /\ Quiet => Apart
        /\ pc \in {"place", "record"} => lock
    BY LockAt DEF LockInv, HoldingSound
  <2>4. QED BY <1>1, <2>1, <2>2, <2>3, LockProcess DEF Quiet
<1>2. CASE CrashExecutor \/ ApplyFill \/ PendingExpires \/ HashExpires \/ UNCHANGED vars
  BY <1>1, <1>2
     DEF CrashExecutor, ApplyFill, PendingExpires, HashExpires, vars, broker,
         guards, poll, position, fills
<1>3. CASE RecordBuy
  <2>1. PICK filled \in BOOLEAN :
          stat' = [stat EXCEPT ![inBuy] = IF filled THEN "FILLED" ELSE "SUBMITTED"]
    BY <1>3 DEF RecordBuy
  <2>2. \A o \in OrderId : stat'[o] = "CANCELED" => stat[o] = "CANCELED"
    BY <2>1, <1>t
  <2>3. QED BY <1>1, <1>3, <2>2 DEF RecordBuy, broker, poll
<1>4. ASSUME NEW o \in OrderId, WatchUS(o) PROVE LockInv'
  <2>1. /\ \/ order[o].left = 0 /\ stat' = [stat EXCEPT ![o] = "FILLED"]
           \/ order[o].left # 0 /\ stat' = [stat EXCEPT ![o] = "CANCELED"]
        /\ Market = "US" /\ ~order[o].open
    BY <1>4 DEF WatchUS
  <2>2. \A p \in OrderId : stat'[p] = "CANCELED" =>
          \/ stat[p] = "CANCELED"
          \/ Market = "US" /\ order[p].left > 0 /\ ~order[p].open
    BY <2>1, <1>t
  <2>3. QED BY <1>1, <1>4, <2>2 DEF WatchUS, broker, guards, poll
<1>5. CASE LockExpires
  <2>1. /\ UNCHANGED <<env, order, held, listed, exitOrder, sellId, pc, qty, seen, stat>>
        /\ OpenSells = {} /\ listed = held /\ pc \in {"idle", "down"}
    BY <1>5 DEF LockExpires, LockHolds, Calm, broker, poll
  <2>2. Apart
    <3>1. \A o \in OrderId : o \in Nat /\ o > 0 /\ OrderAt(o)
      BY EnvType DEF OrderInv, OrderId
    <3>2. \A o \in OrderId : Selling(o) => o \in OpenSells
      BY <3>1, EnvType DEF OpenSells, Selling, OrderAt
    <3>3. QED BY <2>1, <3>2, LockFacts DEF Apart
  <2>3. PollSound'
    BY <2>1 DEF PollSound, Copying
  <2>4. QED BY <2>1, <2>2, <2>3, LockProcess
<1>6. QED BY <1>2, <1>3, <1>4, <1>5

(* The broker.                                                             *)
LEMMA LockFill ==
  ASSUME TypeInv, OrderInv, LockInv, LockHolds, NEW o \in OrderId, FillOrder(o)
  PROVE  LockInv'
<1>t. /\ held \in Int /\ listed \in Int /\ seen \in Nat /\ qty \in Nat
      /\ \A p \in OrderId : /\ order[p].left \in Nat /\ order[p].done \in Nat
                            /\ order[p].side \in {"BUY", "SELL"}
      /\ Current \in 0..placed /\ (1..placed) \subseteq OrderId /\ placed \in Nat
      /\ Market \in {"KR", "US"}
  BY LockFacts, EnvType
<1>i. /\ \A p \in OrderId : SellAt(p)
      /\ SingleSell /\ HoldingSound /\ PollSound
      /\ order[o].open /\ order[o].left > 0
  BY DEF LockInv, OrderInv, OrderAt, FillOrder
<1>1. PICK n \in 0..order[o].left :
        /\ n > 0
        /\ "partial" \notin Weak => n = order[o].left
        /\ order'[o] = [side |-> order[o].side, left |-> order[o].left - n,
                        done |-> order[o].done + n, open |-> n < order[o].left]
        /\ \A p \in OrderId : p # o => order'[p] = order[p]
        /\ held' = IF order[o].side = "BUY" THEN held + n ELSE held - n
  BY <1>i, FillType
<1>2. /\ UNCHANGED <<env, placed, stat, lock, exitOrder, sellId, pc, seen, qty>>
      /\ Current' = Current /\ Market' = Market /\ Weak' = Weak /\ Prompt' = Prompt
      /\ listed' = (IF "lag" \in Weak THEN listed ELSE held')
  BY DEF FillOrder, guards, poll, Current, Market, Weak, Prompt
<1>3. /\ order'[o].side = order[o].side /\ order'[o].left = order[o].left - n
      /\ order'[o].done = order[o].done + n /\ order'[o].open = (n < order[o].left)
      /\ n \in Nat
  BY <1>1
<1>4. Current # 0 => Current \in OrderId
  BY <1>t
<1>5. CASE order[o].side = "BUY"
  <2>1. held' = held + n /\ held + n > held /\ held + n \in Int
    BY <1>1, <1>3, <1>5, <1>t
  <2>2. listed' \in {listed, held'}
    BY <1>2
  <2>3. Executed => Executed'
    BY <1>1, <1>2, <1>3, <1>4, <1>t DEF Executed
  <2>4. ASSUME NEW p \in OrderId PROVE SellAt(p)'
    <3>1. CASE p = o
      BY <1>3, <1>5, <3>1 DEF SellAt
    <3>2. CASE p # o
      <4>1. SellAt(p) /\ order'[p] = order[p]
        BY <1>i, <1>1, <3>2
      <4>2. order[p].side = "SELL" /\ order[p].open =>
              listed' > 0 /\ order[p].left <= held' /\ order[p].left > 0
        BY <4>1, <2>1, <2>2, <1>t DEF SellAt, OrderInv, OrderAt
      <4>3. QED BY <4>1, <4>2, <1>2 DEF SellAt, Quiet
    <3>3. QED BY <3>1, <3>2
  <2>5. SingleSell'
    BY <1>1, <1>3, <1>5, <1>i DEF SingleSell, Selling
  <2>6. HoldingSound'
    BY <1>i, <1>2, <1>t, <2>1, <2>2, <2>3 DEF HoldingSound, Quiet
  <2>7. PollSound'
    <3>1. ASSUME ~Prompt, Copying, ~Executed
          PROVE  seen <= held' /\ listed' > 0
      BY <3>1, <1>i, <1>t, <2>1, <2>2 DEF PollSound, Copying
    <3>2. ASSUME ~Prompt, (pc = "evaluate" /\ ~Executed) \/ pc \in {"lock", "place"}
          PROVE  qty <= held' /\ listed' > 0
      BY <3>2, <1>i, <1>t, <2>1, <2>2 DEF PollSound, Copying
    <3>3. QED BY <1>2, <2>3, <3>1, <3>2 DEF PollSound, Copying
  <2>8. QED BY <2>4, <2>5, <2>6, <2>7 DEF LockInv
<1>6. CASE order[o].side = "SELL"
  <2>1. /\ held' = held - n /\ order[o].left <= held /\ lock /\ listed > 0
        /\ ~Quiet /\ stat[o] # "CANCELED" /\ (Market = "US" => o = Current)
    BY <1>1, <1>6, <1>i DEF SellAt
  <2>2. held' \in Nat /\ order[o].left - n <= held' /\ order[o].left - n \in Nat
    BY <2>1, <1>1, <1>t
  <2>3. Executed'
    <3>1. order[o].done + n > 0
      BY <1>1, <1>3, <1>t
    <3>2. Market = "US" => Current # 0 /\ order'[Current].done > 0
      BY <2>1, <3>1, <1>3, EnvType DEF OrderId
    <3>3. QED BY <2>1, <3>2, <1>2 DEF Executed
  <2>4. ASSUME NEW p \in OrderId PROVE SellAt(p)'
    <3>1. CASE p = o
      <4>1. order'[o].open => listed' > 0
        <5>1. order'[o].open => n < order[o].left
          BY <1>3
        <5>2. n < order[o].left => held' > 0
          BY <2>2, <1>3, <1>t
        <5>3. QED BY <5>1, <5>2, <1>2, <2>1
      <4>2. "partial" \notin Weak => order'[o].left = 0
        BY <1>1, <1>3, <1>t
      <4>3. order'[o].open \/ order'[o].left = 0
        <5>1. n < order[o].left \/ order[o].left - n = 0
          BY <1>1, <1>t
        <5>2. QED BY <5>1, <1>3
      <4>4. order'[o].left <= held'
        BY <1>3, <2>2
      <4>5. QED BY <3>1, <1>2, <2>1, <4>1, <4>2, <4>3, <4>4 DEF SellAt, Quiet
    <3>2. CASE p # o
      <4>1. SellAt(p) /\ order'[p] = order[p] /\ ~Selling(p)
        BY <1>i, <1>1, <1>6, <3>2 DEF SingleSell, Selling
      <4>2. QED BY <4>1, <1>2 DEF SellAt, Selling
    <3>3. QED BY <3>1, <3>2
  <2>5. SingleSell'
    BY <1>1, <1>3, <1>i, <1>6 DEF SingleSell, Selling
  <2>6. HoldingSound'
    BY <1>i, <1>2, <2>1, <2>2, <2>3 DEF HoldingSound, Quiet
  <2>7. PollSound'
    BY <1>2, <2>1, <2>3 DEF PollSound, Copying, Quiet
  <2>8. QED BY <2>4, <2>5, <2>6, <2>7 DEF LockInv
<1>7. QED BY <1>5, <1>6, <1>t

LEMMA LockEnd ==
  ASSUME TypeInv, OrderInv, LockInv, LockHolds, NEW o \in OrderId, EndOrder(o) \/ WatchKR(o)
  PROVE  LockInv'
<1>t. /\ \A p \in OrderId : order[p].side \in {"BUY", "SELL"}
      /\ stat \in [OrderId -> {"none", "SUBMITTED", "FILLED", "CANCELED"}]
      /\ Current \in 0..placed /\ (1..placed) \subseteq OrderId /\ placed \in Nat
  BY LockFacts, EnvType
<1>1. /\ UNCHANGED <<env, held, listed, placed, lock, exitOrder, sellId, pc, seen, qty>>
      /\ Current' = Current /\ Market' = Market /\ Weak' = Weak /\ Prompt' = Prompt
  BY DEF EndOrder, WatchKR, guards, poll, Current, Market, Weak, Prompt
<1>2. /\ \/ order' = order
         \/ order' = [order EXCEPT ![o].open = FALSE] /\ order[o].open
      /\ \/ \A p \in OrderId : stat'[p] = "CANCELED" => stat[p] = "CANCELED"
         \/ order[o].side = "BUY" /\ stat' = [stat EXCEPT ![o] = "CANCELED"]
      /\ order' # order /\ order[o].side = "SELL" => "sell_cancel" \in Weak
  BY <1>t DEF EndOrder, WatchKR
<1>3. \A p \in OrderId :
        /\ order'[p].side = order[p].side /\ order'[p].left = order[p].left
        /\ order'[p].done = order[p].done /\ (order'[p].open => order[p].open)
        /\ order[p].side = "SELL" /\ stat'[p] = "CANCELED" => stat[p] = "CANCELED"
        /\ \/ order'[p].open = order[p].open
           \/ order[p].side = "SELL" => "sell_cancel" \in Weak
  <2>1. CASE order' = order
    BY <2>1, <1>2, <1>t
  <2>2. CASE order' # order /\ order' = [order EXCEPT ![o].open = FALSE]
    <3>1. /\ order'[o] = [side |-> order[o].side, left |-> order[o].left,
                          done |-> order[o].done, open |-> FALSE]
          /\ \A p \in OrderId : p # o => order'[p] = order[p]
      BY <2>2, CloseType
    <3>2. order'[o].side = order[o].side /\ order'[o].left = order[o].left
          /\ order'[o].done = order[o].done /\ order'[o].open = FALSE
      BY <3>1
    <3>3. \A p \in OrderId :
            order[p].side = "SELL" /\ stat'[p] = "CANCELED" => stat[p] = "CANCELED"
      BY <1>2, <1>t
    <3>4. ASSUME NEW p \in OrderId
          PROVE  /\ order'[p].side = order[p].side /\ order'[p].left = order[p].left
                 /\ order'[p].done = order[p].done /\ (order'[p].open => order[p].open)
                 /\ \/ order'[p].open = order[p].open
                    \/ order[p].side = "SELL" => "sell_cancel" \in Weak
      <4>1. order[o].open
        BY <2>2, <1>2
      <4>2. CASE p = o
        BY <4>1, <4>2, <3>2, <2>2, <1>2
      <4>3. CASE p # o
        BY <4>3, <3>1
      <4>4. QED BY <4>2, <4>3
    <3>5. QED BY <3>3, <3>4
  <2>3. QED BY <2>1, <2>2, <1>2
<1>4. Executed' = Executed
  <2>1. Current # 0 => Current \in OrderId
    BY <1>t
  <2>2. QED BY <2>1, <1>1, <1>3 DEF Executed
<1>5. ASSUME NEW p \in OrderId PROVE SellAt(p)'
  <2>1. SellAt(p)
    BY DEF LockInv
  <2>2. QED BY <2>1, <1>1, <1>3 DEF SellAt, Quiet
<1>6. SingleSell'
  BY <1>3 DEF LockInv, SingleSell, Selling
<1>7. HoldingSound' /\ PollSound'
  BY <1>1, <1>4 DEF LockInv, HoldingSound, PollSound, Copying, Quiet
<1>8. QED BY <1>5, <1>6, <1>7 DEF LockInv

LEMMA LockSettle ==
  ASSUME TypeInv, OrderInv, LockInv, LockHolds, Settle
  PROVE  LockInv'
<1>t. /\ held \in Int /\ seen \in Nat /\ qty \in Nat
      /\ \A o \in OrderId : order[o].left \in Nat
  BY LockFacts
<1>1. /\ UNCHANGED <<env, held, order, stat, lock, exitOrder, sellId, pc, seen, qty>>
      /\ listed' = held
      /\ Current' = Current /\ Market' = Market /\ Weak' = Weak /\ Prompt' = Prompt
  BY DEF Settle, guards, poll, Current, Market, Weak, Prompt
<1>2. Executed' = Executed
  BY <1>1 DEF Executed
<1>3. ASSUME NEW o \in OrderId PROVE SellAt(o)'
  <2>1. SellAt(o) /\ OrderAt(o)
    BY DEF LockInv, OrderInv
  <2>2. QED BY <2>1, <1>1, <1>t DEF SellAt, OrderAt, Quiet
<1>4. SingleSell'
  BY <1>1 DEF LockInv, SingleSell, Selling
<1>5. HoldingSound'
  BY <1>1, <1>2, <1>t DEF LockInv, HoldingSound
<1>6. PollSound'
  BY <1>1, <1>2, <1>t DEF LockInv, PollSound, Copying, OrderInv
<1>7. QED BY <1>3, <1>4, <1>5, <1>6 DEF LockInv

(* New orders.                                                             *)
LEMMA LockBuy ==
  ASSUME TypeInv, OrderInv, LockInv, LockHolds, PlaceBuy
  PROVE  LockInv'
<1>t. Current \in 0..placed /\ (1..placed) \subseteq OrderId /\ placed \in Nat
      /\ env.lot \in Nat
  BY LockFacts, EnvType
<1>1. /\ UNCHANGED <<env, held, listed, stat, lock, exitOrder, sellId, pc, seen, qty>>
      /\ Current' = Current /\ Market' = Market /\ Weak' = Weak /\ Prompt' = Prompt
      /\ Take("BUY", env.lot)
  BY DEF PlaceBuy, guards, poll, Current, Market, Weak, Prompt, Take
<1>2. /\ placed + 1 \in OrderId
      /\ order'[placed + 1] = [side |-> "BUY", left |-> env.lot, done |-> 0, open |-> TRUE]
      /\ \A o \in OrderId : o # placed + 1 => order'[o] = order[o]
  BY <1>1, <1>t, TakeType
<1>3. Executed' = Executed
  <2>1. Current # 0 => Current \in OrderId /\ Current # placed + 1
    BY <1>t
  <2>2. QED BY <2>1, <1>1, <1>2 DEF Executed
<1>4. ASSUME NEW o \in OrderId PROVE SellAt(o)'
  <2>1. SellAt(o)
    BY DEF LockInv
  <2>2. QED BY <2>1, <1>1, <1>2 DEF SellAt, Quiet
<1>5. SingleSell'
  BY <1>2 DEF LockInv, SingleSell, Selling
<1>6. HoldingSound' /\ PollSound'
  BY <1>1, <1>3 DEF LockInv, HoldingSound, PollSound, Copying, Quiet
<1>7. QED BY <1>4, <1>5, <1>6 DEF LockInv

(* The exit runner's SELL: nothing is open, and KIS or the poll vouch that *)
(* its quantity is held.                                                   *)
LEMMA LockPlace ==
  ASSUME TypeInv, OrderInv, LockInv, LockHolds, PlaceSell, Prompt => listed = held
  PROVE  LockInv'
<1>t. /\ held \in Int /\ listed \in Int /\ qty \in Nat /\ qty > 0 /\ Market \in {"KR", "US"}
      /\ (1..placed) \subseteq OrderId /\ placed \in Nat /\ exitOrder \in 0..placed
      /\ \A o \in OrderId : o \in Nat
  BY LockFacts, EnvType DEF PlaceSell, OrderInv
<1>1. /\ UNCHANGED <<env, held, listed, stat, exitOrder, seen, qty>> /\ pc = "place"
      /\ Market' = Market /\ Weak' = Weak /\ Prompt' = Prompt
  BY DEF PlaceSell, Take, broker, Market, Weak, Prompt
<1>2. Apart /\ lock
  BY <1>1, LockAt DEF Quiet, LockInv, HoldingSound
<1>3. listed <= held /\ \A o \in OrderId : ~Selling(o)
  BY <1>2 DEF Apart
<1>4. CASE /\ UNCHANGED <<broker, sellId>> /\ pc' = "idle"
  <2>1. PollSound'
    BY <1>4 DEF PollSound, Copying
  <2>2. QED BY <1>1, <1>2, <1>4, <2>1, LockProcess DEF Quiet, broker
<1>5. CASE /\ Orderable(qty) /\ Take("SELL", qty) /\ pc' = "record" /\ sellId' = placed'
           /\ lock' = lock
  <2>1. /\ placed + 1 \in OrderId /\ placed' = placed + 1
        /\ order'[placed + 1] = [side |-> "SELL", left |-> qty, done |-> 0, open |-> TRUE]
        /\ \A o \in OrderId : o # placed + 1 => order'[o] = order[o]
    BY <1>t, <1>5, TakeType
  <2>2. Current' = placed + 1 /\ order'[placed + 1].side = "SELL"
        /\ order'[placed + 1].left = qty /\ order'[placed + 1].done = 0
        /\ order'[placed + 1].open = TRUE
    BY <1>5, <2>1 DEF Current
  <2>3. qty <= held /\ listed > 0
    <3>1. CASE Market = "KR"
      <4>1. qty <= held
        BY <1>5, <3>1 DEF Orderable
      <4>2. CASE Prompt
        BY <4>1, <4>2, <1>t
      <4>3. CASE ~Prompt
        BY <4>1, <4>3, <1>1 DEF LockInv, PollSound, Copying
      <4>4. QED BY <4>2, <4>3
    <3>2. CASE Market = "US"
      BY <3>2, <1>1 DEF LockInv, PollSound, Copying, Prompt
    <3>3. QED BY <3>1, <3>2, <1>t
  <2>4. stat[placed + 1] # "CANCELED"
    BY <2>1, <1>t DEF OrderInv, OrderAt
  <2>5. ASSUME NEW o \in OrderId PROVE SellAt(o)'
    <3>1. CASE o = placed + 1
      BY <3>1, <1>1, <1>2, <1>5, <2>2, <2>3, <2>4 DEF SellAt, Quiet
    <3>2. CASE o # placed + 1
      <4>1. order'[o] = order[o] /\ SellAt(o) /\ ~Selling(o)
        BY <3>2, <2>1, <1>3 DEF LockInv
      <4>2. QED BY <4>1, <1>1 DEF SellAt, Selling
    <3>3. QED BY <3>1, <3>2
  <2>6. SingleSell'
    BY <1>3, <2>1 DEF SingleSell, Selling
  <2>7. HoldingSound'
    BY <1>1, <1>2, <1>3, <1>5, <1>t DEF HoldingSound, LockInv, Quiet
  <2>8. PollSound'
    BY <1>5 DEF PollSound, Copying
  <2>9. QED BY <2>5, <2>6, <2>7, <2>8 DEF LockInv
<1>6. QED
  <2>1. "lost_reply" \notin Weak
    BY DEF LockHolds
  <2>2. QED BY <2>1, <1>1, <1>4, <1>5 DEF PlaceSell, Goto

(* The exit runner is down after a kill only.                              *)
KillsInv == crashes <= env.crashes /\ (pc = "down" => crashes > 0)

LEMMA KillsNext == TypeInv /\ KillsInv /\ [Next]_vars => KillsInv'
<1> SUFFICES ASSUME TypeInv, KillsInv, [Next]_vars PROVE KillsInv'
  OBVIOUS
<1>t. crashes \in Nat /\ env.crashes \in Nat
  BY EnvType DEF TypeInv
<1>1. CASE CrashExecutor \/ CrashExitRunner
  BY <1>1, <1>t DEF CrashExecutor, CrashExitRunner, poll, KillsInv
<1>2. CASE \/ Sync \/ FetchFails \/ Evaluate \/ TakeLock \/ PlaceSell \/ RecordSell \/ Restart
  <2>1. UNCHANGED <<env, crashes>>
    BY <1>2 DEF Sync, Fetch, ReadIndex, Discover, WriteHolding, AddIndex, Missing, Gone,
       ClaimSale, PushSale, RemovePosition, FetchFails, Evaluate, TakeLock,
       PlaceSell, RecordSell, Restart
  <2>2. pc' # "down"
    BY <1>2 DEF Sync, Fetch, ReadIndex, Discover, WriteHolding, AddIndex, Missing, Gone,
       ClaimSale, PushSale, RemovePosition, FetchFails, Evaluate, TakeLock,
       PlaceSell, RecordSell, Restart, Goto
  <2>3. QED BY <2>1, <2>2 DEF KillsInv
<1>3. CASE UNCHANGED <<env, crashes, pc>>
  BY <1>3 DEF KillsInv
<1>4. QED
  BY <1>1, <1>2, <1>3
     DEF Next, Exit, vars, poll, FillOrder, EndOrder, WatchKR, WatchUS, Settle,
         PlaceBuy, RecordBuy, ApplyFill, LockExpires, PendingExpires, HashExpires

LEMMA KillsHolds == Spec => []KillsInv
<1>1. Init => KillsInv
  BY SyncConstants DEF Init, KillsInv, Environment
<1>2. QED BY <1>1, KillsNext, TypeHolds, PTL DEF Spec

(* KR without lag: while a kill may still come, what a restart would take  *)
(* for leftovers of a sold symbol is not there, for the symbol is indexed. *)
KillsLeft == env.outages = 0 \/ crashes < env.crashes \/ pc = "down"
SaleQueued == queue # <<>> /\ Head(queue).side = "SELL"
Unpushed == {"index", "discover", "missing", "gone", "claim", "push"}
PromptInv ==
  Prompt =>
    /\ listed = held
    /\ Len(queue) <= 1
    /\ pc \in Unpushed => queue = <<>>
    /\ KillsLeft =>
         /\ \A o \in OrderId : Selling(o) => idx
         /\ pc \in {"evaluate", "lock", "place", "record"} => idx
         /\ SaleQueued => /\ \A o \in OrderId : ~Selling(o)
                          /\ \/ pc \in {"remove", "down"}
                             \/ pc = "idle" /\ (~idx \/ env.outages = 0)

LEMMA LockCrash ==
  ASSUME TypeInv, OrderInv, LockInv, LockHolds, PromptInv, CrashExitRunner
  PROVE  LockInv'
<1>1. /\ UNCHANGED <<env, order, held, listed, stat, lock>> /\ pc' = "down"
      /\ crashes < env.crashes
  BY DEF CrashExitRunner, Goto, broker, guards
<1>2. Prompt
  <2>1. env.crashes \in Nat /\ crashes \in Nat
    BY EnvType DEF TypeInv
  <2>2. QED BY <1>1, <2>1 DEF LockHolds
<1>3. Market = "KR" /\ listed = held
  BY <1>2 DEF Prompt, PromptInv
<1>4. ASSUME NEW o \in OrderId PROVE SellAt(o)'
  <2>1. SellAt(o)
    BY DEF LockInv
  <2>2. QED BY <2>1, <1>1, <1>3 DEF SellAt, Quiet, Market, Weak
<1>5. SingleSell'
  BY <1>1 DEF LockInv, SingleSell, Selling
<1>6. HoldingSound' /\ PollSound'
  BY <1>1, <1>3, LockFacts DEF LockInv, HoldingSound, PollSound, Copying, Quiet
<1>7. QED BY <1>4, <1>5, <1>6 DEF LockInv

LEMMA LockRestart ==
  ASSUME TypeInv, OrderInv, LockInv, LockHolds, PromptInv, KillsInv, Restart
  PROVE  LockInv'
<1>1. /\ UNCHANGED <<env, order, held, listed, stat>> /\ pc = "down" /\ pc' = "idle"
      /\ lock' = (lock /\ idx)
  BY DEF Restart, Goto, broker
<1>2. Prompt /\ KillsLeft
  <2>1. env.crashes \in Nat /\ crashes \in Nat /\ crashes > 0 /\ crashes <= env.crashes
    BY <1>1, EnvType DEF TypeInv, KillsInv
  <2>2. QED BY <1>1, <2>1 DEF LockHolds, KillsLeft
<1>3. Market = "KR" /\ listed = held /\ (\A o \in OrderId : Selling(o) => idx)
  BY <1>2 DEF Prompt, PromptInv
<1>4. ASSUME NEW o \in OrderId PROVE SellAt(o)'
  <2>1. SellAt(o) /\ (Selling(o) => idx)
    BY <1>3 DEF LockInv
  <2>2. QED BY <2>1, <1>1, <1>3 DEF SellAt, Selling, Quiet, Market
<1>5. SingleSell'
  BY <1>1 DEF LockInv, SingleSell, Selling
<1>6. HoldingSound' /\ PollSound'
  BY <1>1, <1>3, LockFacts DEF LockInv, HoldingSound, PollSound, Copying, Quiet
<1>7. QED BY <1>4, <1>5, <1>6 DEF LockInv

LEMMA LockNext ==
  ASSUME TypeInv, OrderInv, LockHolds, LockInv, PromptInv, KillsInv, [Next]_vars
  PROVE  LockInv'
<1>1. Prompt => listed = held
  BY DEF PromptInv
<1>2. QED
  BY <1>1, LockFill, LockEnd, LockSettle, LockBuy, LockPlace, LockCrash,
     LockRestart, LockSync, LockExit, LockOthers DEF Next, Exit

(* Each step keeps what holds of KR without lag.                           *)
LEMMA PromptNext ==
  ASSUME TypeInv, OrderInv, LockHolds, LockInv, PromptInv, KillsInv, [Next]_vars
  PROVE  PromptInv'
<1> SUFFICES ASSUME Prompt' PROVE PromptInv'
  BY DEF PromptInv
<1>e. env' = env /\ Market' = Market /\ Weak' = Weak /\ Prompt
  BY EnvFixed DEF Market, Weak, Prompt
<1>m. Market = "KR" /\ "lag" \notin Weak /\ "slow_engine" \notin Weak
  BY <1>e DEF Prompt
<1>t. /\ crashes \in Nat /\ env.crashes \in Nat /\ env.outages \in Nat /\ outages \in Nat
      /\ queue \in Seq(Fills) /\ listed \in Int /\ idx \in BOOLEAN
      /\ (1..placed) \subseteq OrderId /\ placed \in Nat
  BY LockFacts, EnvType DEF TypeInv, PollOK, FillsOK
<1>i. /\ listed = held
      /\ Len(queue) <= 1
      /\ pc \in Unpushed => queue = <<>>
      /\ KillsLeft =>
         /\ \A o \in OrderId : Selling(o) => idx
         /\ pc \in {"evaluate", "lock", "place", "record"} => idx
         /\ SaleQueued => /\ \A o \in OrderId : ~Selling(o)
                          /\ \/ pc \in {"remove", "down"}
                             \/ pc = "idle" /\ (~idx \/ env.outages = 0)
  BY <1>e DEF PromptInv
<1>q. Quiet => \A o \in OrderId : ~Selling(o)
  BY LockAt DEF Apart
<1>1. ASSUME UNCHANGED <<queue, idx, pc>>, listed' = held', KillsLeft' => KillsLeft,
             \A o \in OrderId : Selling(o)' => Selling(o)
      PROVE  PromptInv'
  BY <1>1, <1>e, <1>i DEF PromptInv, SaleQueued
<1>2. ASSUME UNCHANGED <<queue, order, idx, listed, held, crashes>>,
             pc # "down", pc' # "down",
             SaleQueued /\ KillsLeft => pc' = "remove" \/ (pc' = "idle" /\ pc = "idle"),
             pc' \in Unpushed => queue = <<>>,
             KillsLeft /\ pc' \in {"evaluate", "lock", "place", "record"} => idx
      PROVE  PromptInv'
  <2>1. KillsLeft' = KillsLeft /\ SaleQueued' = SaleQueued
        /\ \A o \in OrderId : Selling(o)' = Selling(o)
    BY <1>2, <1>e DEF KillsLeft, SaleQueued, Selling
  <2>2. QED BY <1>2, <1>e, <1>i, <2>1 DEF PromptInv
<1>3. ASSUME NEW o \in OrderId, FillOrder(o) PROVE PromptInv'
  <2>1. PICK n \in 0..order[o].left :
          /\ order'[o] = [side |-> order[o].side, left |-> order[o].left - n,
                          done |-> order[o].done + n, open |-> n < order[o].left]
          /\ \A p \in OrderId : p # o => order'[p] = order[p]
    BY <1>3, FillType
  <2>2. \A p \in OrderId : Selling(p)' => Selling(p)
    <3>1. order'[o].side = order[o].side /\ order[o].open
      BY <1>3, <2>1 DEF FillOrder
    <3>2. QED BY <2>1, <3>1 DEF Selling
  <2>3. UNCHANGED <<queue, idx, pc, crashes>> /\ listed' = held'
    BY <1>3, <1>m DEF FillOrder, fills, position, poll
  <2>4. QED BY <1>1, <2>2, <2>3, <1>e DEF KillsLeft
<1>4. ASSUME NEW o \in OrderId, EndOrder(o) \/ WatchKR(o) PROVE PromptInv'
  <2>1. UNCHANGED <<queue, idx, pc, crashes, held, listed>>
        /\ (order' = order \/ order' = [order EXCEPT ![o].open = FALSE])
    BY <1>4 DEF EndOrder, WatchKR, fills, position, poll
  <2>2. \A p \in OrderId : Selling(p)' => Selling(p)
    <3>1. CASE order' = order
      BY <3>1 DEF Selling
    <3>2. CASE order' = [order EXCEPT ![o].open = FALSE]
      <4>1. /\ order'[o].open = FALSE
            /\ \A p \in OrderId : p # o => order'[p] = order[p]
        BY <3>2, CloseType
      <4>2. QED BY <4>1 DEF Selling
    <3>3. QED BY <2>1, <3>1, <3>2
  <2>3. QED BY <1>1, <1>i, <2>1, <2>2, <1>e DEF KillsLeft
<1>5. CASE Settle \/ CrashExecutor \/ PendingExpires \/ LockExpires \/ HashExpires
           \/ UNCHANGED vars \/ RecordBuy
  <2>1. UNCHANGED <<queue, idx, pc>> /\ order' = order /\ listed' = held'
        /\ crashes' \in {crashes, crashes + 1}
    BY <1>5, <1>i, <1>m
       DEF Settle, CrashExecutor, PendingExpires, LockExpires, HashExpires,
           vars, RecordBuy, broker, fills, position, poll, guards
  <2>2. KillsLeft' => KillsLeft
    BY <2>1, <1>t, <1>e DEF KillsLeft
  <2>3. QED BY <1>1, <2>1, <2>2 DEF Selling
<1>6. CASE PlaceBuy
  <2>1. UNCHANGED <<queue, idx, pc, crashes, held, listed>> /\ Take("BUY", env.lot)
        /\ env.lot \in Nat
    BY <1>6, EnvType DEF PlaceBuy, Take, fills, position, poll
  <2>2. /\ order'[placed + 1] = [side |-> "BUY", left |-> env.lot, done |-> 0, open |-> TRUE]
        /\ \A o \in OrderId : o # placed + 1 => order'[o] = order[o]
    BY <2>1, TakeType
  <2>3. \A p \in OrderId : Selling(p)' => Selling(p)
    BY <2>2 DEF Selling
  <2>4. QED BY <1>1, <1>i, <1>e, <2>1, <2>3 DEF KillsLeft
<1>7. CASE ApplyFill
  <2>1. /\ UNCHANGED <<order, held, listed, pc, crashes>> /\ queue # <<>>
        /\ queue' = Tail(queue) /\ Book(Head(queue)) /\ Head(queue) \in Fills
    BY <1>7, <1>t DEF ApplyFill, broker, poll
  <2>2. queue' = <<>>
    BY <2>1, <1>i, <1>t
  <2>3. Head(queue).side # "SELL" => (idx => idx')
    BY <2>1 DEF Book, Fills, position
  <2>4. \A o \in OrderId : Selling(o)' = Selling(o)
    BY <2>1 DEF Selling
  <2>5. KillsLeft' = KillsLeft
    BY <2>1, <1>e DEF KillsLeft
  <2>6. Len(queue') <= 1
    BY <2>2
  <2>7. ASSUME KillsLeft
        PROVE  /\ \A o \in OrderId : Selling(o) => idx'
               /\ pc \in {"evaluate", "lock", "place", "record"} => idx'
    BY <2>1, <2>3, <2>7, <1>i DEF SaleQueued
  <2>8. QED BY <1>i, <2>1, <2>2, <2>4, <2>5, <2>6, <2>7
               DEF PromptInv, SaleQueued
<1>8. CASE Fetch
  <2>1. UNCHANGED <<queue, order, idx, listed, held, crashes>> /\ queue = <<>> /\ pc = "idle"
        /\ pc' = "index"
    BY <1>8, <1>m DEF Fetch, KeptUp, Goto, broker, fills, position
  <2>2. QED BY <1>2, <2>1 DEF SaleQueued
<1>20. CASE ReadIndex \/ Missing \/ Gone
  <2>1. UNCHANGED <<queue, order, idx, listed, held, crashes>>
        /\ pc \in {"index", "missing", "gone"}
        /\ pc' \in {"idle", "write", "discover", "missing", "gone", "claim", "remove"}
    BY <1>20 DEF ReadIndex, Missing, Gone, Goto, broker, fills, position
  <2>2. queue = <<>>
    BY <1>i, <2>1 DEF Unpushed
  <2>3. QED BY <1>2, <2>1, <2>2 DEF SaleQueued
<1>9. CASE FetchFails
  <2>1. UNCHANGED <<queue, order, idx, listed, held, crashes>> /\ pc = "idle"
        /\ outages < env.outages /\ pc' \in {"idle", "evaluate"} /\ (pc' = "evaluate" => idx)
    BY <1>9 DEF FetchFails, Goto, broker, fills, position
  <2>2. SaleQueued /\ KillsLeft => ~idx
    BY <2>1, <1>i, <1>t
  <2>3. QED BY <1>2, <2>1, <2>2 DEF Unpushed
<1>10. CASE Discover
  <2>1. UNCHANGED <<order, idx, listed, held, crashes>> /\ pc = "discover" /\ pc' = "write"
        /\ queue = <<>>
    BY <1>10, <1>i DEF Discover, Goto, broker, position, Unpushed
  <2>2. \/ queue' = <<>>
        \/ queue' = Append(<<>>, [id |-> <<"bought", found'>>, side |-> "BUY", qty |-> seen])
    BY <1>10, <2>1 DEF Discover
  <2>3. Len(queue') <= 1 /\ ~SaleQueued'
    BY <2>2 DEF SaleQueued
  <2>4. \A o \in OrderId : Selling(o)' = Selling(o)
    BY <2>1 DEF Selling
  <2>5. QED BY <1>i, <1>e, <2>1, <2>3, <2>4 DEF PromptInv, KillsLeft, Unpushed
<1>11. CASE WriteHolding
  <2>1. UNCHANGED <<queue, order, idx, listed, held, crashes>> /\ pc = "write" /\ pc' = "add"
    BY <1>11 DEF WriteHolding, Goto, broker, fills
  <2>2. QED BY <1>2, <1>i, <2>1 DEF Unpushed
<1>21. CASE AddIndex
  <2>1. UNCHANGED <<order, queue, listed, held, crashes>> /\ pc = "add" /\ pc' = "evaluate"
        /\ idx' = TRUE
    BY <1>21 DEF AddIndex, Goto, broker, fills
  <2>2. \A o \in OrderId : Selling(o)' = Selling(o)
    BY <2>1 DEF Selling
  <2>3. QED BY <1>i, <1>e, <2>1, <2>2 DEF PromptInv, KillsLeft, SaleQueued, Unpushed
<1>12. CASE ClaimSale
  <2>1. UNCHANGED <<queue, order, idx, listed, held, crashes>> /\ pc = "claim"
        /\ pc' \in {"push", "remove"}
    BY <1>12 DEF ClaimSale, Goto, broker, position
  <2>2. queue = <<>>
    BY <1>i, <2>1 DEF Unpushed
  <2>3. QED BY <1>2, <2>1, <2>2 DEF SaleQueued
<1>13. CASE PushSale
  <2>1. UNCHANGED <<order, idx, listed, held, crashes>> /\ pc = "push" /\ pc' = "remove"
        /\ queue = <<>> /\ queue' = Append(queue, [id |-> fid, side |-> "SELL", qty |-> qty])
    BY <1>13, <1>i DEF PushSale, Goto, broker, position, Unpushed
  <2>2. Len(queue') <= 1
    BY <2>1
  <2>3. \A o \in OrderId : ~Selling(o)'
    BY <2>1, <1>q DEF Selling, Quiet
  <2>4. QED BY <1>i, <1>e, <2>1, <2>2, <2>3 DEF PromptInv, KillsLeft, Unpushed
<1>14. CASE RemovePosition
  <2>1. UNCHANGED <<order, queue, listed, held, crashes>> /\ pc = "remove" /\ pc' = "idle"
        /\ idx' = FALSE
    BY <1>14 DEF RemovePosition, Goto, broker, fills
  <2>2. \A o \in OrderId : ~Selling(o)'
    BY <2>1, <1>q DEF Selling, Quiet
  <2>3. QED BY <1>i, <1>e, <2>1, <2>2 DEF PromptInv, KillsLeft, Unpushed
<1>15. CASE Evaluate \/ TakeLock \/ RecordSell
  <2>1. UNCHANGED <<queue, order, idx, listed, held, crashes>>
        /\ pc \in {"evaluate", "lock", "record"} /\ pc' \in {"idle", "lock", "place"}
    BY <1>15 DEF Evaluate, TakeLock, RecordSell, Goto, broker, fills, position
  <2>2. QED BY <1>2, <1>i, <2>1 DEF Unpushed
<1>16. CASE PlaceSell
  <2>1. UNCHANGED <<queue, idx, listed, held, crashes>> /\ pc = "place"
        /\ pc' \in {"idle", "record"}
    BY <1>16 DEF PlaceSell, Take, Goto, broker, fills, position
  <2>2. KillsLeft => idx /\ ~SaleQueued
    BY <1>i, <2>1
  <2>3. KillsLeft' = KillsLeft /\ SaleQueued' = SaleQueued
    BY <1>e, <2>1 DEF KillsLeft, SaleQueued
  <2>4. QED BY <1>i, <2>1, <2>2, <2>3 DEF PromptInv, Unpushed
<1>17. CASE CrashExitRunner
  <2>1. UNCHANGED <<queue, order, idx, listed, held>> /\ crashes < env.crashes
        /\ pc' = "down"
    BY <1>17 DEF CrashExitRunner, Goto, broker, fills, position
  <2>2. KillsLeft
    BY <2>1 DEF KillsLeft
  <2>3. SaleQueued' = SaleQueued /\ \A o \in OrderId : Selling(o)' = Selling(o)
    BY <2>1 DEF SaleQueued, Selling
  <2>4. QED BY <1>i, <1>e, <2>1, <2>2, <2>3 DEF PromptInv, Unpushed
<1>22. CASE Restart
  <2>1. UNCHANGED <<queue, order, idx, listed, held, crashes>> /\ pc = "down" /\ pc' = "idle"
    BY <1>22 DEF Restart, Goto, broker, fills, position
  <2>2. KillsLeft /\ (KillsLeft' => env'.outages = 0)
    BY <2>1, <1>e, <1>t DEF KillsLeft, LockHolds, KillsInv
  <2>3. SaleQueued' = SaleQueued /\ \A o \in OrderId : Selling(o)' = Selling(o)
    BY <2>1 DEF SaleQueued, Selling
  <2>4. QED BY <1>i, <1>e, <2>1, <2>2, <2>3 DEF PromptInv, Unpushed
<1>18. ASSUME NEW o \in OrderId PROVE ~WatchUS(o)
  BY <1>m DEF WatchUS
<1>19. QED
  BY <1>3, <1>4, <1>5, <1>6, <1>7, <1>8, <1>9, <1>10, <1>11, <1>12, <1>13,
     <1>14, <1>15, <1>16, <1>17, <1>18, <1>20, <1>21, <1>22 DEF Next, Sync, Exit

SaleInv == LockHolds => LockInv /\ PromptInv

LEMMA SaleInit == Init => SaleInv
<1> SUFFICES ASSUME Init PROVE LockInv /\ PromptInv
  BY DEF SaleInv
<1>1. \A o \in OrderId : order[o] = NoOrder /\ stat[o] = "none"
  BY DEF Init
<1>2. \A o \in OrderId : SellAt(o)
  BY <1>1 DEF SellAt, NoOrder
<1>3. SingleSell /\ \A o \in OrderId : ~Selling(o)
  BY <1>1 DEF SingleSell, Selling, NoOrder
<1>4. HoldingSound /\ PollSound
  BY DEF Init, HoldingSound, PollSound, Copying, Quiet
<1>5. PromptInv
  BY <1>3 DEF Init, PromptInv, SaleQueued
<1>6. QED BY <1>2, <1>3, <1>4, <1>5 DEF LockInv

LEMMA SaleNext == TypeInv /\ OrderInv /\ KillsInv /\ SaleInv /\ [Next]_vars => SaleInv'
<1> SUFFICES ASSUME TypeInv, OrderInv, KillsInv, SaleInv, [Next]_vars, LockHolds'
             PROVE  LockInv' /\ PromptInv'
  BY DEF SaleInv
<1>1. LockHolds
  BY EnvFixed DEF LockHolds, Prompt, Market, Weak
<1>2. LockInv /\ PromptInv
  BY <1>1 DEF SaleInv
<1>3. QED BY <1>1, <1>2, LockNext, PromptNext

LEMMA SaleIs == TypeInv /\ OrderInv /\ SaleInv => LockGuardsSales
<1> SUFFICES ASSUME TypeInv, OrderInv, SaleInv, LockHolds PROVE OneOpenSell /\ NeverOversold
  BY DEF LockGuardsSales
<1>1. SingleSell /\ held >= 0
  BY DEF SaleInv, LockInv, HoldingSound
<1>2. \A o \in OpenSells : o \in OrderId /\ Selling(o)
  BY EnvType DEF OpenSells, Selling
<1>3. \A o, p \in OpenSells : o = p
  BY <1>1, <1>2 DEF SingleSell
<1>4. CASE OpenSells = {}
  <2>1. Cardinality(OpenSells) = 0
    BY <1>4, FS_EmptySet
  <2>2. QED BY <1>1, <2>1 DEF OneOpenSell, NeverOversold
<1>5. ASSUME NEW o \in OpenSells PROVE OneOpenSell
  <2>1. OpenSells = {o}
    BY <1>3, <1>5
  <2>2. Cardinality({o}) = 1
    BY FS_Singleton
  <2>3. QED BY <2>1, <2>2 DEF OneOpenSell
<1>6. QED BY <1>1, <1>4, <1>5 DEF NeverOversold

(* exit_lock keeps sales apart and covered by the holding, whatever the    *)
(* environment that leaves it what it rests on: KR with the poll and the   *)
(* engine in step, a kill and failing requests, or both markets without    *)
(* either but with every other weakness.                                   *)
THEOREM SalesGuarded == Spec => []LockGuardsSales
<1>1. Init => SaleInv
  BY SaleInit
<1>2. TypeInv /\ OrderInv /\ KillsInv /\ SaleInv /\ [Next]_vars => SaleInv'
  BY SaleNext
<1>3. TypeInv /\ OrderInv /\ SaleInv => LockGuardsSales
  BY SaleIs
<1>4. QED BY <1>1, <1>2, <1>3, TypeHolds, OrderHolds, KillsHolds, PTL DEF Spec

-----------------------------------------------------------------------------
(* No sale is missed: what both markets share.  An order is filled as a    *)
(* whole and is of env.lot, a BUY is open alone and with nothing held.     *)
Buying(o) == order[o].side = "BUY" /\ order[o].open
WholeAt(o) ==
  /\ order[o].done = 0 \/ (order[o].left = 0 /\ ~order[o].open)
  /\ o <= placed => order[o].left + order[o].done = env.lot
  /\ Buying(o) => held = 0
SingleBuy == \A o, p \in OrderId : Buying(o) /\ Buying(p) => o = p
Whole ==
  /\ \A o \in OrderId : WholeAt(o)
  /\ SingleBuy
  /\ held \in {0, env.lot} /\ listed \in {0, env.lot}

LEMMA WholeFill ==
  ASSUME TypeInv, OrderInv, Whole, "partial" \notin Weak, NEW o \in OrderId,
         FillOrder(o), Selling(o) => held = env.lot
  PROVE  /\ Whole'
         /\ order'[o] = [side |-> order[o].side, left |-> 0, done |-> env.lot,
                         open |-> FALSE]
         /\ \A p \in OrderId : p # o => order'[p] = order[p]
         /\ order[o].open /\ order[o].done = 0 /\ o <= placed
         /\ Buying(o) => held = 0 /\ held' = env.lot /\ sold' = sold
         /\ Selling(o) => held' = 0 /\ sold' = sold + env.lot
         /\ listed' \in {listed, held'}
<1>t. /\ env.lot \in Nat \ {0} /\ placed \in Nat /\ held \in Int
      /\ \A p \in OrderId : /\ order[p].left \in Nat /\ order[p].done \in Nat
                            /\ order[p].side \in {"BUY", "SELL"} /\ p \in Nat
  BY EnvType, LockFacts
<1>1. PICK n \in 0..order[o].left :
        /\ n = order[o].left
        /\ order'[o] = [side |-> order[o].side, left |-> order[o].left - n,
                        done |-> order[o].done + n, open |-> n < order[o].left]
        /\ \A p \in OrderId : p # o => order'[p] = order[p]
        /\ held' = IF order[o].side = "BUY" THEN held + n ELSE held - n
  BY FillType
<1>2. order[o].open /\ OrderAt(o) /\ WholeAt(o)
  BY DEF FillOrder, OrderInv, Whole
<1>3. o <= placed /\ order[o].done = 0 /\ order[o].left = env.lot
  BY <1>2, <1>t DEF OrderAt, WholeAt
<1>4. order'[o] = [side |-> order[o].side, left |-> 0, done |-> env.lot, open |-> FALSE]
  <2>1. order[o].left - n = 0 /\ order[o].done + n = env.lot
        /\ (n < order[o].left) = FALSE
    BY <1>1, <1>3, <1>t
  <2>2. QED BY <2>1, <1>1
<1>5. /\ UNCHANGED <<env, placed>>
      /\ sold' = (IF order[o].side = "BUY" THEN sold ELSE sold + env.lot)
      /\ listed' \in {listed, held'}
  <2>1. PICK m \in IF "partial" \in Weak THEN 1..order[o].left ELSE {order[o].left} :
          IF order[o].side = "BUY"
          THEN bought' = bought + m /\ UNCHANGED sold
          ELSE sold' = sold + m /\ UNCHANGED bought
    BY DEF FillOrder
  <2>2. m = env.lot
    BY <2>1, <1>3
  <2>3. QED BY <2>1, <2>2 DEF FillOrder
<1>6. /\ Buying(o) => held = 0 /\ held' = env.lot
      /\ Selling(o) => held' = 0
      /\ Buying(o) \/ Selling(o)
  <2>1. Buying(o) => held = 0
    BY <1>2 DEF WholeAt
  <2>2. QED BY <2>1, <1>1, <1>2, <1>3, <1>t DEF Buying, Selling
<1>7. ASSUME NEW p \in OrderId, p # o, order[p].open
      PROVE  ~Buying(p)
  <2>1. CASE Buying(o)
    BY <2>1, <1>7 DEF Whole, SingleBuy
  <2>2. CASE Selling(o)
    BY <2>2, <1>t DEF Whole, WholeAt
  <2>3. QED BY <2>1, <2>2, <1>6
<1>8. ASSUME NEW p \in OrderId PROVE WholeAt(p)' /\ ~Buying(p)'
  <2>1. CASE p = o
    <3>1. /\ order'[o].left = 0 /\ order'[o].done = env.lot
          /\ order'[o].open = FALSE
      BY <1>4
    <3>2. QED BY <2>1, <3>1, <1>5, <1>t DEF WholeAt, Buying
  <2>2. CASE p # o
    BY <2>2, <1>1, <1>5, <1>7 DEF Whole, WholeAt, Buying
  <2>3. QED BY <2>1, <2>2
<1>9. SingleBuy'
  BY <1>8 DEF SingleBuy
<1>10. Whole'
  BY <1>5, <1>6, <1>8, <1>9 DEF Whole
<1>11. QED BY <1>1, <1>2, <1>3, <1>4, <1>5, <1>6, <1>10 DEF Buying, Selling

LEMMA WholeClose ==
  ASSUME TypeInv, Whole, NEW o \in OrderId, order' = [order EXCEPT ![o].open = FALSE],
         UNCHANGED <<env, placed, held, listed>>
  PROVE  /\ Whole'
         /\ order'[o].side = order[o].side /\ order'[o].left = order[o].left
         /\ order'[o].done = order[o].done /\ ~order'[o].open
         /\ \A p \in OrderId : p # o => order'[p] = order[p]
<1>1. /\ order'[o].side = order[o].side /\ order'[o].left = order[o].left
      /\ order'[o].done = order[o].done /\ ~order'[o].open
      /\ \A p \in OrderId : p # o => order'[p] = order[p]
  <2>1. order'[o] = [side |-> order[o].side, left |-> order[o].left,
                     done |-> order[o].done, open |-> FALSE]
    BY CloseType
  <2>2. QED BY <2>1, CloseType
<1>2. \A p \in OrderId : WholeAt(p)'
  BY <1>1 DEF Whole, WholeAt, Buying
<1>3. SingleBuy'
  BY <1>1 DEF Whole, SingleBuy, Buying
<1>4. QED BY <1>1, <1>2, <1>3 DEF Whole

LEMMA WholeTake ==
  ASSUME TypeInv, OrderInv, Whole, NEW side \in {"BUY", "SELL"}, Take(side, env.lot),
         env' = env, side = "BUY" => held = 0 /\ OpenBuys = {},
         side = "SELL" => held = env.lot
  PROVE  /\ Whole'
         /\ placed + 1 \in OrderId /\ placed' = placed + 1 /\ UNCHANGED <<held, listed>>
         /\ order'[placed + 1] =
              [side |-> side, left |-> env.lot, done |-> 0, open |-> TRUE]
         /\ \A p \in OrderId : p # placed + 1 => order'[p] = order[p]
<1>t. /\ env.lot \in Nat \ {0} /\ placed \in Nat /\ env.lot \in Nat
      /\ \A p \in OrderId : p \in Nat /\ p > 0
  BY EnvType DEF OrderId
<1>1. /\ placed + 1 \in OrderId /\ placed' = placed + 1
      /\ order'[placed + 1] =
           [side |-> side, left |-> env.lot, done |-> 0, open |-> TRUE]
      /\ \A p \in OrderId : p # placed + 1 => order'[p] = order[p]
  BY <1>t, TakeType
<1>2. UNCHANGED <<held, listed>>
  BY DEF Take
<1>3. \A p \in OrderId : ~Buying(p)
  <2>1. CASE side = "BUY"
    <3>1. \A p \in OrderId : Buying(p) => p \in OpenBuys
      BY <1>t DEF Buying, OpenBuys, OrderInv, OrderAt
    <3>2. QED BY <2>1, <3>1
  <2>2. CASE side = "SELL"
    BY <2>2, <1>t DEF Whole, WholeAt
  <2>3. QED BY <2>1, <2>2
<1>4. ASSUME NEW p \in OrderId PROVE WholeAt(p)' /\ (Buying(p)' => p = placed + 1)
  <2>1. CASE p = placed + 1
    BY <2>1, <1>1, <1>2, <1>t DEF WholeAt, Buying
  <2>2. CASE p # placed + 1
    <3>1. p <= placed' => p <= placed
      BY <2>2, <1>1, <1>t
    <3>2. QED BY <2>2, <3>1, <1>1, <1>2, <1>3 DEF Whole, WholeAt, Buying
  <2>3. QED BY <2>1, <2>2
<1>5. SingleBuy'
  BY <1>4 DEF SingleBuy
<1>6. QED BY <1>1, <1>2, <1>4, <1>5 DEF Whole

(* Steps that leave the broker alone.                                      *)
LEMMA WholeKeep ==
  ASSUME Whole, UNCHANGED <<env, order, placed, held>>, listed' \in {listed, held}
  PROVE  Whole'
<1>1. \A p \in OrderId : WholeAt(p)'
  BY DEF Whole, WholeAt, Buying
<1>2. SingleBuy'
  BY DEF Whole, SingleBuy, Buying
<1>3. QED BY <1>1, <1>2 DEF Whole

(* KR: the way of a position, from one BUY to the next.  Only a SELL that  *)
(* is filled raises what is sold and not booked (Debt), and from then on   *)
(* the position stays until its sale is booked: it is indexed, its exit    *)
(* order has not been claimed, and then the fill is on its way.            *)
Debt == sold - bookSell
NoSell == \A o \in OrderId : ~Selling(o)
NoBuy == \A o \in OrderId : ~Buying(o)
BuyFill == [id |-> <<"bought", found>>, side |-> "BUY", qty |-> env.lot]
SaleFill == [id |-> fid, side |-> "SELL", qty |-> posq]

Waiting ==
  /\ held = 0 /\ listed = 0 /\ posq = 0 /\ ~idx /\ queue = <<>> /\ Debt <= 0
  /\ NoSell
  /\ pc \in {"idle", "index", "remove"} /\ (pc # "remove" => exitOrder = 0)
  /\ pc = "index" => seen = 0
(* The holding is not yet a position ...                                   *)
Unseen ==
  /\ held = env.lot /\ posq = 0 /\ ~idx /\ Debt <= 0
  /\ NoSell /\ NoBuy
  /\ pc \in {"idle", "index", "remove", "discover", "write"}
  /\ pc # "remove" => exitOrder = 0
  /\ pc = "index" => seen = 0 \/ (seen = env.lot /\ listed = env.lot)
  /\ pc \in {"discover", "write"} => seen = env.lot /\ listed = env.lot
  /\ pc # "write" => queue = <<>>
  /\ pc = "write" => queue = <<BuyFill>> /\ <<"bought", found>> \notin booked
(* ... or has the hash of one, and is not yet indexed.                     *)
Indexing ==
  /\ held = env.lot /\ listed = env.lot /\ posq = env.lot /\ ~idx /\ Debt <= 0
  /\ NoSell /\ NoBuy
  /\ pc = "add" /\ seen = env.lot /\ exitOrder = 0
  /\ queue = <<BuyFill>> /\ <<"bought", found>> \notin booked
Position ==
  /\ idx /\ posq \in {env.lot, 2 * env.lot} /\ NoBuy
  /\ queue = <<>> \/ (queue = <<BuyFill>> /\ posq = env.lot)
  /\ pc = "index" => queue = <<>> /\ (seen = env.lot \/ (seen = 0 /\ listed = 0))
  /\ pc \in {"write", "add"} => seen = env.lot
  /\ pc \in {"evaluate", "lock", "place"} => qty \in {env.lot, 2 * env.lot}
  /\ Current # 0 => <<"order", Current>> \notin claimed
Exiting == {"idle", "index", "write", "add", "evaluate", "lock", "place", "record"}
Holding ==
  /\ Position /\ held = env.lot /\ listed = env.lot /\ Debt <= 0
  /\ pc \in Exiting
  /\ \A o \in OrderId : Selling(o) => o = Current
SoldOut ==
  /\ Position /\ held = 0 /\ Debt <= env.lot
  /\ NoSell /\ Current # 0
  /\ pc \in Exiting \cup {"missing", "gone", "claim"}
  /\ pc \in {"missing", "gone", "claim"} => queue = <<>> /\ listed = 0
  /\ pc = "claim" => qty = posq
(* The sale is claimed, and the position waits for its fill.               *)
Leaving ==
  /\ held = 0 /\ listed = 0 /\ posq > 0 /\ Debt <= posq
  /\ NoSell /\ NoBuy
  /\ fid \in claimed \ booked /\ fid \in {"order"} \X OrderId
  /\ \/ pc = "push" /\ idx /\ qty = posq /\ queue = <<>>
     \/ pc = "remove" /\ idx /\ queue = <<SaleFill>>
     \/ pc = "idle" /\ ~idx /\ queue = <<SaleFill>> /\ exitOrder = 0

ClaimsOrdered ==
  /\ \A o \in Nat : <<"order", o>> \in claimed => o <= placed
  /\ \A o \in Nat : <<"order", o>> \in booked => <<"order", o>> \in claimed
  /\ \A n \in Nat : <<"bought", n>> \in booked => n <= found
WayKR ==
  /\ Whole /\ ClaimsOrdered
  /\ Waiting \/ Unseen \/ Indexing \/ Holding \/ SoldOut \/ Leaving
SteadyKR == Steady /\ Market = "KR"

LEMMA WayFacts ==
  ASSUME TypeInv
  PROVE  /\ env.lot \in Nat /\ env.lot > 0 /\ posq \in Nat /\ qty \in Nat /\ seen \in Nat
         /\ held \in Int /\ listed \in Int /\ found \in Nat /\ placed \in Nat
         /\ sold \in Nat /\ bookSell \in Nat /\ Debt \in Int
         /\ exitOrder \in 0..placed /\ sellId \in 0..placed /\ Current \in 0..placed
         /\ (1..placed) \subseteq OrderId /\ \A o \in OrderId : o \in Nat /\ o > 0
<1>1. sold \in Nat /\ bookSell \in Nat /\ found \in Nat
  BY DEF TypeInv, BrokerOK, BooksOK, PollOK
<1>2. QED BY <1>1, LockFacts, EnvType DEF Debt, OrderId

(* Steps that at most close an order, or change what the way does not use. *)
LEMMA WayKeep ==
  ASSUME WayKR, Whole',
         UNCHANGED <<env, held, listed, placed, posq, idx, queue, sold, bookSell, pc,
                     seen, qty, fid, found, exitOrder, sellId, claimed, booked>>,
         \A o \in OrderId : (Selling(o)' => Selling(o)) /\ (Buying(o)' => Buying(o))
  PROVE  WayKR'
<1>1. ClaimsOrdered'
  BY DEF WayKR, ClaimsOrdered
<1>2. Debt' = Debt /\ BuyFill' = BuyFill /\ SaleFill' = SaleFill /\ Current' = Current
  BY DEF Debt, BuyFill, SaleFill, Current
<1>3. (NoSell => NoSell') /\ (NoBuy => NoBuy')
  BY DEF NoSell, NoBuy
<1>4. Waiting => Waiting'
  BY <1>2, <1>3 DEF Waiting
<1>5. Unseen => Unseen'
  BY <1>2, <1>3 DEF Unseen
<1>6. Position => Position'
  BY <1>2, <1>3 DEF Position
<1>7. Holding => Holding'
  BY <1>2, <1>6 DEF Holding
<1>8. SoldOut => SoldOut'
  BY <1>2, <1>3, <1>6 DEF SoldOut
<1>9. Leaving => Leaving'
  BY <1>2, <1>3 DEF Leaving
<1>10. Indexing => Indexing'
  BY <1>2, <1>3 DEF Indexing
<1>11. QED BY <1>1, <1>4, <1>5, <1>7, <1>8, <1>9, <1>10 DEF WayKR

LEMMA WayFill ==
  ASSUME TypeInv, OrderInv, SteadyKR, WayKR, NEW o \in OrderId, FillOrder(o)
  PROVE  WayKR'
<1>t. env.lot \in Nat /\ env.lot > 0 /\ Debt \in Int /\ sold \in Nat /\ bookSell \in Nat
      /\ o > 0
  BY WayFacts
<1>1. "partial" \notin Weak
  BY DEF SteadyKR, Steady
<1>2. Selling(o) => Holding
  BY DEF WayKR, Waiting, Unseen, Indexing, SoldOut, Leaving, NoSell
<1>3. Selling(o) => held = env.lot
  BY <1>2 DEF Holding
<1>4. /\ Whole'
      /\ order'[o] = [side |-> order[o].side, left |-> 0, done |-> env.lot,
                      open |-> FALSE]
      /\ \A p \in OrderId : p # o => order'[p] = order[p]
      /\ order[o].open
      /\ Buying(o) => held = 0 /\ held' = env.lot /\ sold' = sold
      /\ Selling(o) => held' = 0 /\ sold' = sold + env.lot
      /\ listed' \in {listed, held'}
  BY <1>1, <1>3, WholeFill DEF WayKR
<1>5. UNCHANGED <<env, placed, posq, idx, queue, bookSell, pc, seen, qty, fid, found,
                  exitOrder, sellId, claimed, booked>>
  BY DEF FillOrder, position, guards, fills, poll, books
<1>6. /\ ~Selling(o)' /\ ~Buying(o)'
      /\ \A p \in OrderId : (Selling(p)' => Selling(p)) /\ (Buying(p)' => Buying(p))
  BY <1>4 DEF Selling, Buying
<1>7. ClaimsOrdered' /\ Current' = Current /\ BuyFill' = BuyFill
  BY <1>5 DEF WayKR, ClaimsOrdered, Current, BuyFill
<1>8. Buying(o) \/ Selling(o)
  BY <1>4, OrderType DEF Buying, Selling
<1>9. CASE Buying(o)
  <2>1. Waiting
    BY <1>9 DEF WayKR, Unseen, Indexing, Holding, SoldOut, Leaving, Position, NoBuy
  <2>2. NoBuy' /\ NoSell'
    <3>1. ASSUME NEW p \in OrderId PROVE ~Buying(p)'
      BY <1>4, <1>6, <1>9 DEF WayKR, Whole, SingleBuy
    <3>2. QED BY <3>1, <1>6, <2>1 DEF NoBuy, NoSell, Waiting
  <2>3. Unseen'
    BY <1>4, <1>5, <1>9, <2>1, <2>2 DEF Waiting, Unseen, Debt
  <2>4. QED BY <1>4, <1>7, <2>3 DEF WayKR
<1>10. CASE Selling(o)
  <2>1. Holding
    BY <1>2, <1>10
  <2>2. NoSell' /\ NoBuy' /\ Current # 0
    <3>1. \A p \in OrderId : Selling(p) => p = o
      BY <2>1, <1>10 DEF Holding
    <3>2. QED BY <3>1, <2>1, <1>6, <1>10, <1>t DEF NoSell, NoBuy, Holding, Position
  <2>3. Debt' <= env.lot
    BY <1>4, <1>5, <1>10, <2>1, <1>t DEF Debt, Holding
  <2>4. Position'
    <3>1. listed = env.lot
      BY <2>1 DEF Holding
    <3>2. pc = "index" => queue = <<>> /\ seen = env.lot
      BY <2>1, <3>1, <1>t DEF Holding, Position
    <3>3. QED BY <2>1, <2>2, <3>2, <1>5, <1>7 DEF Holding, Position
  <2>5. SoldOut'
    BY <1>4, <1>5, <1>7, <1>10, <2>1, <2>2, <2>3, <2>4 DEF Holding, SoldOut, Exiting
  <2>6. QED BY <1>4, <1>7, <2>5 DEF WayKR
<1>11. QED BY <1>8, <1>9, <1>10

(* The broker's and the watcher's other steps, and the executor's.         *)
LEMMA WayBroker ==
  ASSUME TypeInv, SteadyKR, WayKR, NEW o \in OrderId, EndOrder(o) \/ WatchKR(o)
  PROVE  WayKR'
<1>1. UNCHANGED <<env, held, listed, placed, posq, idx, queue, sold, bookSell, pc,
                  seen, qty, fid, found, exitOrder, sellId, claimed, booked>>
  BY DEF EndOrder, WatchKR, position, guards, fills, poll, books, trade
<1>2. order' = order \/ order' = [order EXCEPT ![o].open = FALSE]
  BY DEF EndOrder, WatchKR
<1>3. CASE order' = order
  <2>1. Whole'
    BY <1>1, <1>3, WholeKeep DEF WayKR
  <2>2. QED BY <1>1, <1>3, <2>1, WayKeep DEF Selling, Buying
<1>4. CASE order' = [order EXCEPT ![o].open = FALSE]
  <2>1. /\ Whole'
        /\ order'[o].side = order[o].side /\ ~order'[o].open
        /\ \A p \in OrderId : p # o => order'[p] = order[p]
    BY <1>1, <1>4, WholeClose DEF WayKR
  <2>2. \A p \in OrderId : (Selling(p)' => Selling(p)) /\ (Buying(p)' => Buying(p))
    BY <2>1 DEF Selling, Buying
  <2>3. QED BY <1>1, <2>1, <2>2, WayKeep
<1>5. QED BY <1>2, <1>3, <1>4

LEMMA WaySettle ==
  ASSUME TypeInv, SteadyKR, WayKR, Settle
  PROVE  WayKR'
<1>t. env.lot \in Nat /\ env.lot > 0
  BY WayFacts
<1>1. /\ UNCHANGED <<env, held, order, placed, posq, idx, queue, sold, bookSell, pc,
                     seen, qty, fid, found, exitOrder, sellId, claimed, booked>>
      /\ listed # held /\ listed' = held
  BY DEF Settle, position, guards, fills, poll, books, trade
<1>2. Whole' /\ ClaimsOrdered'
  BY <1>1, WholeKeep DEF WayKR, ClaimsOrdered
<1>3. NoSell' = NoSell /\ NoBuy' = NoBuy /\ Debt' = Debt /\ Current' = Current
      /\ BuyFill' = BuyFill
  BY <1>1 DEF NoSell, NoBuy, Selling, Buying, Debt, Current, BuyFill
<1>4. Unseen \/ SoldOut
  BY <1>1 DEF WayKR, Waiting, Indexing, Holding, Leaving
<1>5. CASE Unseen
  <2>1. Unseen'
    BY <1>1, <1>3, <1>5 DEF Unseen
  <2>2. QED BY <1>2, <2>1 DEF WayKR
<1>6. CASE SoldOut
  <2>1. SoldOut'
    BY <1>1, <1>3, <1>6 DEF SoldOut, Position
  <2>2. QED BY <1>2, <2>1 DEF WayKR
<1>7. QED BY <1>4, <1>5, <1>6

LEMMA WayBuy ==
  ASSUME TypeInv, OrderInv, SteadyKR, WayKR, PlaceBuy
  PROVE  WayKR'
<1>t. env.lot \in Nat /\ env.lot > 0 /\ placed \in Nat
  BY WayFacts
<1>1. /\ UNCHANGED <<env, posq, idx, queue, sold, bookSell, pc,
                     seen, qty, fid, found, exitOrder, sellId, claimed, booked>>
      /\ posq = 0 /\ OpenBuys = {} /\ held = 0 /\ Take("BUY", env.lot)
  BY DEF PlaceBuy, position, guards, fills, poll, books, trade, SteadyKR, Steady
<1>2. Waiting
  BY <1>1, <1>t DEF WayKR, Unseen, Indexing, Holding, SoldOut, Leaving, Position
<1>3. /\ Whole' /\ placed' = placed + 1 /\ UNCHANGED <<held, listed>>
      /\ order'[placed + 1].side = "BUY"
      /\ \A p \in OrderId : p # placed + 1 => order'[p] = order[p]
  BY <1>1, WholeTake DEF WayKR
<1>4. NoSell'
  BY <1>2, <1>3 DEF Waiting, NoSell, Selling
<1>5. Waiting'
  BY <1>1, <1>2, <1>3, <1>4 DEF Waiting, Debt
<1>6. ClaimsOrdered'
  BY <1>1, <1>3, <1>t DEF WayKR, ClaimsOrdered
<1>7. QED BY <1>3, <1>5, <1>6 DEF WayKR

(* position_engine books what the way put into the queue.                  *)
LEMMA WayApply ==
  ASSUME TypeInv, SteadyKR, WayKR, ApplyFill
  PROVE  WayKR'
<1>t. /\ env.lot \in Nat /\ env.lot > 0 /\ posq \in Nat /\ found \in Nat
      /\ sold \in Nat /\ bookSell \in Nat
  BY WayFacts
<1>1. /\ UNCHANGED <<env, held, listed, order, placed, sold, pc, seen, qty, fid, found,
                     exitOrder, sellId, claimed>>
      /\ queue # <<>> /\ queue' = Tail(queue) /\ Book(Head(queue))
  BY DEF ApplyFill, broker, guards, poll, trade
<1>2. Whole'
  BY <1>1, WholeKeep DEF WayKR
<1>3. NoSell' = NoSell /\ NoBuy' = NoBuy /\ Current' = Current /\ BuyFill' = BuyFill
      /\ \A o \in OrderId : Selling(o)' = Selling(o)
  BY <1>1 DEF NoSell, NoBuy, Selling, Buying, Current, BuyFill
<1>4. CASE queue = <<BuyFill>>
  <2>1. /\ queue' = <<>>
        /\ Head(queue).id = <<"bought", found>> /\ Head(queue).side = "BUY"
        /\ Head(queue).qty = env.lot
    BY <1>1, <1>4 DEF BuyFill
  <2>2. /\ bookSell' = bookSell
        /\ \/ /\ <<"bought", found>> \in booked
              /\ UNCHANGED <<posq, idx, booked>>
           \/ /\ booked' = booked \cup {<<"bought", found>>}
              /\ posq' = posq + env.lot /\ idx'
    BY <1>1, <2>1 DEF Book, position, books
  <2>3. ClaimsOrdered'
    BY <1>1, <2>2, <1>t DEF WayKR, ClaimsOrdered
  <2>4. Debt' = Debt
    BY <1>1, <2>2 DEF Debt
  <2>5. CASE Unseen
    <3>1. /\ pc = "write" /\ posq = 0 /\ exitOrder = 0
          /\ <<"bought", found>> \notin booked
      BY <2>5, <1>4 DEF Unseen
    <3>2. posq' = env.lot /\ idx' /\ Current = 0
      BY <2>2, <3>1, <1>t DEF Current
    <3>3. Position'
      BY <1>1, <1>3, <2>1, <2>5, <3>1, <3>2 DEF Unseen, Position
    <3>4. Holding'
      BY <1>1, <1>3, <2>4, <2>5, <3>1, <3>3 DEF Unseen, Holding, Exiting, NoSell
    <3>5. QED BY <1>2, <2>3, <3>4 DEF WayKR
  <2>6. CASE Position
    <3>1. posq' \in {env.lot, 2 * env.lot} /\ idx'
      <4>1. posq = env.lot /\ idx
        BY <1>1, <2>6 DEF Position
      <4>2. posq + env.lot = 2 * env.lot
        BY <4>1, <1>t
      <4>3. CASE UNCHANGED <<posq, idx, booked>>
        BY <4>1, <4>3
      <4>4. CASE posq' = posq + env.lot /\ idx'
        BY <4>2, <4>4
      <4>5. QED BY <2>2, <4>3, <4>4
    <3>2. Position'
      BY <1>1, <1>3, <2>1, <2>6, <3>1 DEF Position
    <3>3. Holding => Holding'
      BY <1>1, <1>3, <2>4, <3>2 DEF Holding
    <3>4. SoldOut => SoldOut'
      BY <1>1, <1>3, <2>1, <2>4, <3>2 DEF SoldOut
    <3>5. Holding \/ SoldOut
      BY <1>4, <2>6, <1>t
         DEF WayKR, Waiting, Unseen, Indexing, Leaving, Position, BuyFill, SaleFill
    <3>6. QED BY <1>2, <2>3, <3>3, <3>4, <3>5 DEF WayKR
  <2>7. CASE Indexing
    <3>1. /\ pc = "add" /\ posq = env.lot /\ exitOrder = 0 /\ NoBuy /\ NoSell
          /\ seen = env.lot /\ held = env.lot /\ listed = env.lot /\ Debt <= 0
          /\ <<"bought", found>> \notin booked
      BY <2>7 DEF Indexing
    <3>2. posq' = 2 * env.lot /\ idx' /\ Current = 0
      <4>1. posq' = posq + env.lot /\ idx'
        BY <2>2, <3>1
      <4>2. QED BY <3>1, <4>1, <1>t DEF Current
    <3>3. Position'
      BY <1>1, <1>3, <2>1, <3>1, <3>2 DEF Position
    <3>4. Holding'
      BY <1>1, <1>3, <2>4, <3>1, <3>3 DEF Holding, Exiting, NoSell
    <3>5. QED BY <1>2, <2>3, <3>4 DEF WayKR
  <2>8. QED BY <1>1, <1>4, <2>5, <2>6, <2>7
            DEF WayKR, Waiting, Leaving, Holding, SoldOut, BuyFill, SaleFill
<1>5. CASE Leaving /\ queue = <<SaleFill>>
  <2>1. /\ queue' = <<>>
        /\ Head(queue).id = fid /\ Head(queue).side = "SELL" /\ Head(queue).qty = posq
    BY <1>1, <1>5 DEF SaleFill
  <2>2. fid \notin booked /\ posq > 0 /\ fid \in claimed
    BY <1>5 DEF Leaving
  <2>3. Smaller(posq, posq) = posq
    BY <1>t DEF Smaller
  <2>4. /\ booked' = booked \cup {fid} /\ posq' = 0 /\ idx' = (posq' > 0)
        /\ bookSell' = bookSell + posq
    BY <1>1, <1>t, <2>1, <2>2, <2>3 DEF Book
  <2>5. ~idx'
    <3>1. (posq' > 0) = FALSE
      BY <2>4
    <3>2. QED BY <2>4, <3>1, Zenon
  <2>6. Debt' <= 0
    BY <1>1, <1>5, <1>t, <2>4 DEF Debt, Leaving
  <2>7. Waiting'
    BY <1>1, <1>3, <1>5, <2>1, <2>4, <2>5, <2>6 DEF Waiting, Leaving
  <2>8. ClaimsOrdered'
    <3>1. \A n \in Nat : fid # <<"bought", n>>
      BY <1>5 DEF Leaving
    <3>2. QED BY <1>1, <2>2, <2>4, <3>1 DEF WayKR, ClaimsOrdered
  <2>9. QED BY <1>2, <2>7, <2>8 DEF WayKR
<1>6. queue = <<BuyFill>> \/ (Leaving /\ queue = <<SaleFill>>)
  BY <1>1 DEF WayKR, Waiting, Unseen, Indexing, Holding, SoldOut, Leaving, Position
<1>7. QED BY <1>4, <1>5, <1>6

(* The exit runner's poll.                                                 *)
LEMMA WayFetch ==
  ASSUME TypeInv, OrderInv, SteadyKR, WayKR, Fetch \/ ReadIndex \/ FetchFails
  PROVE  WayKR'
<1>t. /\ env.lot \in Nat /\ env.lot > 0
      /\ sellId = 0
  BY WayFacts DEF OrderInv, Fetch, ReadIndex, FetchFails
<1>1. /\ UNCHANGED <<env, held, listed, order, placed, posq, idx, queue, sold, bookSell,
                     fid, found, exitOrder, sellId, claimed, booked>>
      /\ pc \in {"idle", "index"}
  BY DEF Fetch, ReadIndex, FetchFails, broker, position, guards, fills, books, trade
<1>2. Whole' /\ ClaimsOrdered'
  BY <1>1, WholeKeep DEF WayKR, ClaimsOrdered
<1>3. pc' # "record" => Current' = Current
  BY <1>1 DEF Current
<1>4. NoSell' = NoSell /\ NoBuy' = NoBuy /\ BuyFill' = BuyFill /\ SaleFill' = SaleFill
      /\ Debt' = Debt /\ \A o \in OrderId : Selling(o)' = Selling(o)
  BY <1>1 DEF NoSell, NoBuy, Selling, Buying, BuyFill, SaleFill, Debt
<1>5. CASE Fetch
  <2>1. /\ queue = <<>>
        /\ seen' = IF listed > 0 THEN listed ELSE 0
        /\ pc = "idle" /\ pc' = "index"
    BY <1>5 DEF Fetch, KeptUp, Goto, SteadyKR, Steady
  <2>2. (seen' = env.lot /\ listed = env.lot) \/ (seen' = 0 /\ listed = 0)
    BY <2>1, <1>t DEF WayKR, Whole
  <2>3. ~Leaving /\ ~Indexing
    BY <2>1 DEF Leaving, Indexing
  <2>4. Waiting => Waiting'
    BY <1>1, <1>4, <2>1, <2>2, <1>t DEF Waiting
  <2>5. Unseen => Unseen'
    BY <1>1, <1>4, <2>1, <2>2 DEF Unseen
  <2>6. Position => Position'
    BY <1>1, <1>3, <1>4, <2>1, <2>2 DEF Position
  <2>7. Holding => Holding'
    BY <1>1, <1>3, <1>4, <2>1, <2>6 DEF Holding, Exiting
  <2>8. SoldOut => SoldOut'
    BY <1>1, <1>3, <1>4, <2>1, <2>6 DEF SoldOut, Exiting
  <2>9. QED BY <1>2, <2>3, <2>4, <2>5, <2>7, <2>8 DEF WayKR
<1>8. CASE ReadIndex
  <2>1. /\ UNCHANGED <<seen, qty>> /\ seen \in Nat
        /\ pc = "index"
        /\ pc' = IF seen > 0 THEN (IF idx THEN "write" ELSE "discover")
                 ELSE IF idx THEN "missing" ELSE "idle"
    BY <1>8, WayFacts DEF ReadIndex, Goto
  <2>2. ~Leaving /\ ~Indexing
    BY <2>1 DEF Leaving, Indexing
  <2>3. Waiting => Waiting'
    BY <1>1, <1>4, <2>1 DEF Waiting
  <2>4. Unseen => Unseen'
    BY <1>1, <1>4, <2>1, <1>t DEF Unseen
  <2>5. Position => /\ idx /\ Position'
                    /\ seen > 0 => pc' = "write"
                    /\ seen = 0 => pc' = "missing" /\ listed = 0 /\ queue = <<>>
    <3>1. Position => (seen = env.lot \/ (seen = 0 /\ listed = 0)) /\ queue = <<>> /\ idx
      BY <2>1 DEF Position
    <3>2. Position => (seen > 0 => pc' = "write") /\ (seen = 0 => pc' = "missing")
      BY <3>1, <2>1
    <3>3. Position => Position'
      BY <1>1, <1>3, <1>4, <2>1, <1>t, <3>1, <3>2 DEF Position
    <3>4. QED BY <3>1, <3>2, <3>3, <1>t
  <2>6. Holding => Holding'
    BY <1>1, <1>3, <1>4, <2>1, <2>5, <1>t DEF Holding, Exiting
  <2>7. SoldOut => SoldOut'
    BY <1>1, <1>3, <1>4, <2>1, <2>5 DEF SoldOut, Exiting
  <2>8. QED BY <1>2, <2>2, <2>3, <2>4, <2>6, <2>7 DEF WayKR
<1>6. CASE FetchFails
  <2>1. /\ seen' = seen /\ qty' = posq
        /\ pc = "idle" /\ pc' \in {"idle", "evaluate"} /\ (pc' = "evaluate" => idx)
    BY <1>6 DEF FetchFails, Goto
  <2>2. Waiting => Waiting'
    BY <1>1, <1>4, <2>1 DEF Waiting
  <2>3. Unseen => Unseen'
    BY <1>1, <1>4, <2>1 DEF Unseen
  <2>4. Position => Position'
    BY <1>1, <1>3, <1>4, <2>1 DEF Position
  <2>5. Holding => Holding'
    BY <1>1, <1>3, <1>4, <2>1, <2>4 DEF Holding, Exiting
  <2>6. SoldOut => SoldOut'
    BY <1>1, <1>3, <1>4, <2>1, <2>4 DEF SoldOut, Exiting
  <2>7. Leaving => Leaving'
    BY <1>1, <1>4, <2>1 DEF Leaving
  <2>8. ~Indexing
    BY <2>1 DEF Indexing
  <2>9. QED BY <1>2, <2>2, <2>3, <2>5, <2>6, <2>7, <2>8 DEF WayKR
<1>7. QED BY <1>5, <1>6, <1>8

LEMMA WayHolding ==
  ASSUME TypeInv, SteadyKR, WayKR, Discover \/ WriteHolding \/ AddIndex
  PROVE  WayKR'
<1>t. /\ env.lot \in Nat /\ env.lot > 0 /\ found \in Nat
  BY WayFacts
<1>1. /\ UNCHANGED <<env, held, listed, order, placed, sold, bookSell, seen, fid,
                     exitOrder, sellId, booked>>
  BY DEF Discover, WriteHolding, AddIndex, broker, position, guards, fills, books,
         trade
<1>2. Whole'
  BY <1>1, WholeKeep DEF WayKR
<1>3. NoSell' = NoSell /\ NoBuy' = NoBuy /\ Debt' = Debt
      /\ \A o \in OrderId : Selling(o)' = Selling(o)
  BY <1>1 DEF NoSell, NoBuy, Selling, Buying, Debt
<1>4. CASE Discover
  <2>1. Unseen /\ pc = "discover"
    BY <1>4 DEF Discover, WayKR, Waiting, Indexing, Holding, SoldOut, Leaving, Exiting
  <2>2. posq = 0 /\ seen = env.lot /\ queue = <<>>
    BY <2>1 DEF Unseen
  <2>3. /\ UNCHANGED <<posq, idx>>
        /\ found' = found + 1 /\ pc' = "write"
        /\ claimed' = claimed \cup {<<"bought", found + 1>>}
        /\ queue' = Append(queue, [id |-> <<"bought", found + 1>>, side |-> "BUY",
                                   qty |-> seen])
    BY <1>4, <2>2, <1>t DEF Discover, position, Goto
  <2>4. queue' = <<BuyFill'>>
    BY <1>1, <2>2, <2>3 DEF BuyFill
  <2>5. <<"bought", found'>> \notin booked'
    BY <1>1, <2>3, <1>t DEF WayKR, ClaimsOrdered
  <2>6. ClaimsOrdered'
    BY <1>1, <2>3, <1>t DEF WayKR, ClaimsOrdered
  <2>7. Unseen'
    BY <1>1, <1>3, <2>1, <2>3, <2>4, <2>5 DEF Unseen
  <2>8. QED BY <1>2, <2>6, <2>7 DEF WayKR
<1>5. CASE WriteHolding
  <2>1. /\ UNCHANGED <<claimed, queue, found, idx, qty>>
        /\ pc = "write" /\ pc' = "add" /\ posq' = seen
    BY <1>5 DEF WriteHolding, fills, Goto
  <2>2. ClaimsOrdered' /\ BuyFill' = BuyFill /\ Current' = Current
    BY <1>1, <2>1 DEF WayKR, ClaimsOrdered, BuyFill, Current
  <2>3. CASE Unseen
    <3>1. Indexing'
      BY <1>1, <1>3, <2>1, <2>2, <2>3 DEF Unseen, Indexing
    <3>2. QED BY <1>2, <2>2, <3>1 DEF WayKR
  <2>4. CASE Position
    <3>1. Position'
      BY <1>1, <1>3, <2>1, <2>2, <2>4, <1>t DEF Position
    <3>2. Holding => Holding'
      BY <1>1, <1>3, <2>1, <2>2, <3>1 DEF Holding, Exiting
    <3>3. SoldOut => SoldOut'
      BY <1>1, <1>3, <2>1, <2>2, <3>1 DEF SoldOut, Exiting
    <3>4. Holding \/ SoldOut
      BY <2>1, <2>4 DEF WayKR, Waiting, Unseen, Indexing, Leaving, Position
    <3>5. QED BY <1>2, <2>2, <3>2, <3>3, <3>4 DEF WayKR
  <2>5. QED BY <2>1, <2>3, <2>4 DEF WayKR, Waiting, Indexing, Leaving, Holding, SoldOut
<1>7. CASE AddIndex
  <2>1. /\ UNCHANGED <<claimed, queue, found, posq>>
        /\ pc = "add" /\ pc' = "evaluate" /\ idx' = TRUE /\ qty' = seen
    BY <1>7 DEF AddIndex, fills, Goto
  <2>2. ClaimsOrdered' /\ BuyFill' = BuyFill /\ Current' = Current
    BY <1>1, <2>1 DEF WayKR, ClaimsOrdered, BuyFill, Current
  <2>3. CASE Indexing
    <3>1. Current = 0
      BY <2>1, <2>3 DEF Indexing, Current
    <3>2. Position'
      BY <1>1, <1>3, <2>1, <2>2, <2>3, <3>1 DEF Indexing, Position
    <3>3. Holding'
      BY <1>1, <1>3, <2>1, <2>3, <3>2 DEF Indexing, Holding, Exiting, NoSell
    <3>4. QED BY <1>2, <2>2, <3>3 DEF WayKR
  <2>4. CASE Position
    <3>1. Position'
      BY <1>1, <1>3, <2>1, <2>2, <2>4, <1>t DEF Position
    <3>2. Holding => Holding'
      BY <1>1, <1>3, <2>1, <2>2, <3>1 DEF Holding, Exiting
    <3>3. SoldOut => SoldOut'
      BY <1>1, <1>3, <2>1, <2>2, <3>1 DEF SoldOut, Exiting
    <3>4. Holding \/ SoldOut
      BY <2>1, <2>4 DEF WayKR, Waiting, Unseen, Indexing, Leaving, Position
    <3>5. QED BY <1>2, <2>2, <3>2, <3>3, <3>4 DEF WayKR
  <2>5. QED BY <2>1, <2>3, <2>4 DEF WayKR, Waiting, Unseen, Leaving, Holding, SoldOut
<1>6. QED BY <1>4, <1>5, <1>7

LEMMA WaySale ==
  ASSUME TypeInv, OrderInv, SteadyKR, WayKR,
         Missing \/ Gone \/ ClaimSale \/ PushSale \/ RemovePosition
  PROVE  WayKR'
<1>t. /\ env.lot \in Nat /\ env.lot > 0 /\ posq \in Nat /\ placed \in Nat
      /\ exitOrder \in 0..placed /\ Debt \in Int
      /\ (1..placed) \subseteq OrderId
      /\ pc # "record" => sellId = 0
  BY WayFacts DEF OrderInv
<1>1. /\ UNCHANGED <<env, held, listed, order, placed, sold, bookSell, seen, found,
                     sellId, posq, booked>>
  BY DEF Missing, Gone, ClaimSale, PushSale, RemovePosition, broker, position, guards,
         fills, books, trade
<1>2. Whole'
  BY <1>1, WholeKeep DEF WayKR
<1>3. NoSell' = NoSell /\ NoBuy' = NoBuy /\ BuyFill' = BuyFill /\ Debt' = Debt
  BY <1>1 DEF NoSell, NoBuy, Selling, Buying, BuyFill, Debt
<1>4. CASE Missing \/ Gone \/ ClaimSale
  <2>1. SoldOut /\ pc \in {"missing", "gone", "claim"}
    BY <1>4 DEF Missing, Gone, ClaimSale, WayKR, Waiting, Unseen, Indexing, Holding,
                Leaving, Exiting
  <2>2. /\ UNCHANGED <<queue, idx, exitOrder>>
        /\ queue = <<>> /\ listed = 0 /\ held = 0 /\ posq > 0 /\ idx
        /\ Current = exitOrder /\ exitOrder # 0 /\ Debt <= posq
        /\ <<"order", exitOrder>> \notin claimed /\ NoSell /\ NoBuy
    <3>1. UNCHANGED <<queue, idx, exitOrder>>
      BY <1>4 DEF Missing, Gone, ClaimSale, position, guards, fills
    <3>2. Current = exitOrder
      BY <2>1 DEF Current
    <3>3. /\ queue = <<>> /\ listed = 0 /\ held = 0 /\ idx
          /\ Current # 0 /\ Debt <= env.lot /\ posq \in {env.lot, 2 * env.lot}
          /\ <<"order", Current>> \notin claimed /\ NoSell /\ NoBuy
      BY <2>1 DEF SoldOut, Position
    <3>4. posq > 0 /\ Debt <= posq
      BY <3>3, <1>t
    <3>5. QED BY <3>1, <3>2, <3>3, <3>4
  <2>3. CASE Missing \/ Gone
    <3>1. /\ UNCHANGED <<fid, claimed>>
          /\ pc' \in {"idle", "gone", "claim"} /\ (pc' = "claim" => qty' = posq)
      BY <2>2, <2>3 DEF Missing, Gone, fills, Goto
    <3>2. ClaimsOrdered' /\ Current' = Current
      BY <1>1, <2>2, <3>1 DEF WayKR, ClaimsOrdered, Current
    <3>3. SoldOut'
      BY <1>1, <1>3, <2>1, <2>2, <3>1, <3>2 DEF SoldOut, Position, Exiting
    <3>4. QED BY <1>2, <3>2, <3>3 DEF WayKR
  <2>4. CASE ClaimSale
    <3>1. /\ fid' = <<"order", exitOrder>> /\ qty' = qty /\ qty = posq
      BY <2>1, <2>2, <2>4 DEF ClaimSale, SaleId, SoldOut
    <3>2. claimed' = claimed \cup {fid'} /\ pc' = "push"
      BY <2>2, <2>4, <3>1 DEF ClaimSale, Goto
    <3>3. fid' \in {"order"} \X OrderId /\ fid' \notin booked
      BY <2>2, <3>1, <1>t DEF WayKR, ClaimsOrdered
    <3>4. Leaving'
      BY <1>1, <1>3, <2>2, <3>1, <3>2, <3>3 DEF Leaving
    <3>5. ClaimsOrdered'
      BY <1>1, <3>1, <3>2, <1>t DEF WayKR, ClaimsOrdered
    <3>6. QED BY <1>2, <3>4, <3>5 DEF WayKR
  <2>5. QED BY <1>4, <2>3, <2>4
<1>5. CASE PushSale
  <2>1. Leaving /\ pc = "push"
    BY <1>5 DEF PushSale, WayKR, Waiting, Unseen, Indexing, Holding, SoldOut, Exiting
  <2>2. /\ UNCHANGED <<idx, exitOrder, claimed, qty, fid>> /\ pc' = "remove"
        /\ queue' = Append(queue, [id |-> fid, side |-> "SELL", qty |-> qty])
        /\ queue = <<>> /\ qty = posq
    BY <1>5, <2>1 DEF PushSale, Leaving, position, guards, Goto
  <2>3. queue' = <<SaleFill'>>
    BY <1>1, <2>2 DEF SaleFill
  <2>4. Leaving'
    BY <1>1, <1>3, <2>1, <2>2, <2>3 DEF Leaving
  <2>5. ClaimsOrdered'
    BY <1>1, <2>2 DEF WayKR, ClaimsOrdered
  <2>6. QED BY <1>2, <2>4, <2>5 DEF WayKR
<1>6. CASE RemovePosition
  <2>1. /\ UNCHANGED <<queue, claimed, qty, fid>>
        /\ pc = "remove" /\ pc' = "idle" /\ ~idx' /\ exitOrder' = 0
    BY <1>6 DEF RemovePosition, fills, Goto
  <2>2. ClaimsOrdered' /\ SaleFill' = SaleFill
    BY <1>1, <2>1 DEF WayKR, ClaimsOrdered, SaleFill
  <2>3. Waiting => Waiting'
    BY <1>1, <1>3, <2>1 DEF Waiting
  <2>4. Unseen => Unseen'
    BY <1>1, <1>3, <2>1 DEF Unseen
  <2>5. Leaving => Leaving'
    BY <1>1, <1>3, <2>1, <2>2 DEF Leaving
  <2>6. ~Holding /\ ~SoldOut /\ ~Indexing
    BY <2>1 DEF Holding, SoldOut, Exiting, Indexing
  <2>7. QED BY <1>2, <2>2, <2>3, <2>4, <2>5, <2>6 DEF WayKR
<1>7. QED BY <1>4, <1>5, <1>6

(* The exit: KIS takes a SELL only while the holding is there.             *)
LEMMA WayExit ==
  ASSUME TypeInv, OrderInv, SteadyKR, WayKR, Evaluate \/ TakeLock \/ RecordSell
  PROVE  WayKR'
<1>1. /\ UNCHANGED <<env, held, listed, order, placed, sold, bookSell, seen, qty, found,
                     fid, posq, idx, queue, claimed, booked>>
      /\ pc \in {"evaluate", "lock", "record"}
      /\ pc' \in {"idle", "lock", "place"}
  BY DEF Evaluate, TakeLock, RecordSell, broker, position, guards, fills, books,
         trade, Goto
<1>2. Whole' /\ ClaimsOrdered'
  BY <1>1, WholeKeep DEF WayKR, ClaimsOrdered
<1>3. NoSell' = NoSell /\ NoBuy' = NoBuy /\ BuyFill' = BuyFill /\ Debt' = Debt
      /\ \A o \in OrderId : Selling(o)' = Selling(o)
  BY <1>1 DEF NoSell, NoBuy, Selling, Buying, BuyFill, Debt
<1>4. Current' = Current
  BY <1>1 DEF Evaluate, TakeLock, RecordSell, Current
<1>5. Holding \/ SoldOut
  BY <1>1 DEF WayKR, Waiting, Unseen, Indexing, Leaving
<1>6. pc' \in {"lock", "place"} => pc \in {"evaluate", "lock"}
  BY DEF Evaluate, TakeLock, RecordSell, Goto
<1>7. Position'
  BY <1>1, <1>3, <1>4, <1>5, <1>6 DEF Holding, SoldOut, Position
<1>8. Holding => Holding'
  BY <1>1, <1>3, <1>4, <1>7 DEF Holding, Exiting
<1>9. SoldOut => SoldOut'
  BY <1>1, <1>3, <1>4, <1>7 DEF SoldOut, Exiting
<1>10. QED BY <1>2, <1>5, <1>8, <1>9 DEF WayKR

(* What is promised to the one open SELL, if there is one.                 *)
LEMMA PromisedOne ==
  ASSUME NEW o, OpenSells = {o}, order[o].left \in Nat
  PROVE  Promised = order[o].left
<1> DEFINE S == {o}
           ch(s) == CHOOSE x \in s : TRUE
           body(f) == [s \in SUBSET S |->
                         IF s = {} THEN 0 ELSE order[ch(s)].left + f[s \ {ch(s)}]]
           it == CHOOSE it : it = body(it)
           w == [s \in SUBSET S |-> IF s = {} THEN 0 ELSE order[o].left]
<1>1. Promised = it[S]
  BY DEF Promised, MapThenSumSet, MapThenFoldSet
<1>2. ASSUME NEW s \in SUBSET S, s # {}
      PROVE  s = {o} /\ ch(s) = o /\ s \ {ch(s)} = {}
  <2>1. s = {o}
    BY <1>2
  <2>2. ch({o}) = o
    OBVIOUS
  <2>3. QED BY <2>1, <2>2
<1>3. w = body(w)
  <2>1. w[{}] = 0 /\ {} \in SUBSET S
    OBVIOUS
  <2>2. ASSUME NEW s \in SUBSET S
        PROVE  w[s] = IF s = {} THEN 0 ELSE order[ch(s)].left + w[s \ {ch(s)}]
    <3>1. CASE s = {}
      BY <3>1, <2>1
    <3>2. CASE s # {}
      <4>1. s = {o} /\ ch(s) = o /\ s \ {ch(s)} = {}
        BY <1>2, <3>2
      <4>2. w[s] = order[o].left
        BY <3>2
      <4> HIDE DEF w, ch
      <4>3. QED BY <4>1, <4>2, <2>1
    <3>3. QED BY <3>1, <3>2
  <2> DEFINE b == body(w)
  <2>3. \A s \in SUBSET S : w[s] = b[s]
    BY <2>2
  <2>4. QED BY <2>3
<1>4. it = body(it)
  <2> HIDE DEF w, body
  <2>1. QED BY <1>3
<1> HIDE DEF it
<1>5. /\ it[S] = IF S = {} THEN 0 ELSE order[ch(S)].left + it[S \ {ch(S)}]
      /\ it[{}] = 0
  BY <1>4
<1>6. S # {} /\ ch(S) = o /\ S \ {ch(S)} = {}
  BY <1>2
<1> HIDE DEF S, ch
<1>7. QED BY <1>1, <1>5, <1>6

LEMMA WaySell ==
  ASSUME TypeInv, OrderInv, SteadyKR, WayKR, PlaceSell
  PROVE  WayKR'
<1>t. /\ env.lot \in Nat /\ env.lot > 0 /\ placed \in Nat
      /\ Current \in 0..placed /\ (1..placed) \subseteq OrderId
      /\ held \in Int /\ qty \in Nat
      /\ \A o \in OrderId : order[o].left \in Nat /\ o \in Nat /\ o > 0
  BY WayFacts, OrderType
<1>1. /\ UNCHANGED <<env, sold, bookSell, seen, qty, found, fid, posq, idx, queue,
                     claimed, booked, exitOrder>>
      /\ pc = "place"
  BY DEF PlaceSell, position, guards, fills, books, trade
<1>2. Current = exitOrder
  BY <1>1 DEF Current
<1>3. Position /\ (Holding \/ SoldOut) /\ qty \in {env.lot, 2 * env.lot}
  BY <1>1 DEF WayKR, Waiting, Unseen, Indexing, Leaving, Holding, SoldOut, Position
<1>4. BuyFill' = BuyFill /\ Debt' = Debt
  BY <1>1 DEF BuyFill, Debt
<1>5. CASE pc' = "idle" /\ UNCHANGED <<broker, sellId>>
  <2>1. UNCHANGED <<held, listed, order, placed>> /\ Current' = Current
    BY <1>1, <1>2, <1>5 DEF broker, Current
  <2>2. Whole' /\ ClaimsOrdered'
    BY <1>1, <2>1, WholeKeep DEF WayKR, ClaimsOrdered
  <2>3. NoSell' = NoSell /\ NoBuy' = NoBuy /\ \A o \in OrderId : Selling(o)' = Selling(o)
    BY <2>1 DEF NoSell, NoBuy, Selling, Buying
  <2>4. Position'
    BY <1>1, <1>3, <1>4, <1>5, <2>1, <2>3 DEF Position
  <2>5. Holding => Holding'
    BY <1>1, <1>4, <1>5, <2>1, <2>3, <2>4 DEF Holding, Exiting
  <2>6. SoldOut => SoldOut'
    BY <1>1, <1>4, <1>5, <2>1, <2>3, <2>4 DEF SoldOut, Exiting
  <2>7. QED BY <1>3, <2>2, <2>5, <2>6 DEF WayKR
<1>6. CASE /\ Orderable(qty) /\ Take("SELL", qty)
           /\ pc' = "record" /\ sellId' = placed'
  <2>1. qty <= held /\ qty + Promised <= held
    BY <1>6 DEF Orderable, SteadyKR
  <2>2. Holding /\ qty = env.lot /\ held = env.lot
    BY <1>3, <1>t, <2>1 DEF Holding, SoldOut
  <2>3. NoSell
    <3>1. SUFFICES ASSUME NEW o \in OrderId, Selling(o) PROVE FALSE
      BY DEF NoSell
    <3>2. \A p \in OrderId : Selling(p) <=> p = o
      BY <2>2, <3>1 DEF Holding
    <3>3. OpenSells = {o}
      <4>1. o <= placed
        BY <3>1, <1>t DEF OrderInv, OrderAt, Selling
      <4>2. QED BY <3>2, <4>1, <1>t DEF OpenSells, Selling
    <3>4. Promised = order[o].left /\ order[o].left > 0
      BY <3>1, <3>3, <1>t, PromisedOne DEF OrderInv, OrderAt, Selling
    <3>5. QED BY <2>1, <2>2, <3>4, <1>t
  <2>4. Take("SELL", env.lot)
    BY <1>6, <2>2
  <2>5. /\ Whole'
        /\ placed + 1 \in OrderId /\ placed' = placed + 1 /\ UNCHANGED <<held, listed>>
        /\ order'[placed + 1] =
             [side |-> "SELL", left |-> env.lot, done |-> 0, open |-> TRUE]
        /\ \A p \in OrderId : p # placed + 1 => order'[p] = order[p]
    BY <1>1, <2>2, <2>4, WholeTake DEF WayKR
  <2>6. Current' = placed + 1
    BY <1>6, <2>5 DEF Current
  <2>7. \A o \in OrderId : /\ Selling(o)' => o = Current'
                           /\ ~Buying(o)'
    BY <1>3, <2>3, <2>5, <2>6 DEF Selling, Buying, NoSell, NoBuy, Position
  <2>8. <<"order", Current'>> \notin claimed'
    BY <1>1, <1>t, <2>6 DEF WayKR, ClaimsOrdered
  <2>9. Position'
    BY <1>1, <1>3, <1>4, <1>6, <2>7, <2>8 DEF Position, NoBuy
  <2>10. Holding'
    BY <1>1, <1>4, <1>6, <2>2, <2>5, <2>7, <2>9 DEF Holding, Exiting
  <2>11. ClaimsOrdered'
    BY <1>1, <2>5, <1>t DEF WayKR, ClaimsOrdered
  <2>12. QED BY <2>5, <2>10, <2>11 DEF WayKR
<1>7. QED
  <2>1. "lost_reply" \notin Weak
    BY DEF SteadyKR, Steady
  <2>2. QED BY <2>1, <1>5, <1>6 DEF PlaceSell, Goto

LEMMA WayOthers ==
  ASSUME TypeInv, OrderInv, SteadyKR, WayKR,
         RecordBuy \/ LockExpires \/ PendingExpires \/ HashExpires \/ UNCHANGED vars
  PROVE  WayKR'
<1>1. UNCHANGED <<env, held, listed, order, placed, idx, sold, bookSell, pc,
                  seen, qty, fid, found, exitOrder, sellId, claimed, booked, queue>>
  <2>1. CASE RecordBuy
    BY <2>1 DEF RecordBuy, broker, position, poll, books, trade, SteadyKR
  <2>2. CASE ~RecordBuy
    BY <2>2 DEF LockExpires, PendingExpires, HashExpires, vars, broker, position, fills,
                poll, books, trade, guards
  <2>3. QED BY <2>1, <2>2
<1>2. posq' = posq
  <2>1. CASE HashExpires
    <3>1. dying /\ queue = <<>> /\ posq' = 0
      BY <2>1 DEF HashExpires, KeptUp, SteadyKR, Steady
    <3>2. ~idx
      BY <3>1 DEF OrderInv, IndexedIsKept
    <3>3. Waiting \/ Unseen
      BY <3>1, <3>2 DEF WayKR, Indexing, Holding, SoldOut, Position, Leaving
    <3>4. QED BY <3>1, <3>3 DEF Waiting, Unseen
  <2>2. CASE ~HashExpires
    BY <2>2 DEF RecordBuy, LockExpires, PendingExpires, vars, position
  <2>3. QED BY <2>1, <2>2
<1>3. Whole'
  BY <1>1, WholeKeep DEF WayKR
<1>4. QED BY <1>1, <1>2, <1>3, WayKeep DEF Selling, Buying

LEMMA WayInit == Init => WayKR
<1> SUFFICES ASSUME Init PROVE WayKR
  OBVIOUS
<1>1. \A o \in OrderId : order[o] = NoOrder
  BY DEF Init
<1>2. \A o \in OrderId : WholeAt(o) /\ ~Buying(o) /\ ~Selling(o)
  BY <1>1, SyncConstants DEF WholeAt, Buying, Selling, NoOrder, Init, OrderId
<1>3. Whole
  BY <1>2 DEF Init, Whole, SingleBuy
<1>4. Waiting
  BY <1>2 DEF Init, Waiting, NoSell, Debt
<1>5. ClaimsOrdered
  BY DEF Init, ClaimsOrdered
<1>6. QED BY <1>3, <1>4, <1>5 DEF WayKR

(* Nobody is killed where NoSaleMissed promises something.                 *)
LEMMA NoKill ==
  ASSUME TypeInv, KillsInv, Steady
  PROVE  ~CrashExecutor /\ ~CrashExitRunner /\ ~Restart
<1>1. crashes \in Nat /\ env.crashes = 0
  BY DEF TypeInv, PollOK, Steady
<1>2. crashes = 0 /\ pc # "down"
  BY <1>1 DEF KillsInv
<1>3. QED BY <1>1, <1>2 DEF CrashExecutor, CrashExitRunner, Restart

LEMMA WayNext ==
  ASSUME TypeInv, OrderInv, KillsInv, SteadyKR, WayKR, [Next]_vars
  PROVE  WayKR'
<1>1. ~CrashExecutor /\ ~CrashExitRunner /\ ~Restart
  BY NoKill DEF SteadyKR
<1>2. \A o \in OrderId : ~WatchUS(o)
  BY DEF SteadyKR, WatchUS
<1>3. QED
  BY <1>1, <1>2, WayFill, WayBroker, WaySettle, WayBuy, WayApply, WayFetch, WayHolding,
     WaySale, WayExit, WaySell, WayOthers DEF Next, Sync, Exit

LEMMA WayIs == TypeInv /\ WayKR /\ Flat => bookSell >= sold
<1> SUFFICES ASSUME TypeInv, WayKR, Flat PROVE bookSell >= sold
  OBVIOUS
<1>1. Waiting
  BY WayFacts DEF WayKR, Unseen, Indexing, Holding, SoldOut, Position, Leaving, Flat
<1>2. QED BY <1>1, WayFacts DEF Waiting, Debt

(* US, where the lock holds: a SELL that is open, or filled and not seen   *)
(* by the watcher, has the position it will be booked on.                  *)
Unwatched(o) ==
  /\ order[o].side = "SELL" /\ order[o].done > 0
  /\ stat[o] = "SUBMITTED" \/ o = sellId
Live(o) == Selling(o) \/ Unwatched(o)
SaleQueuedAt(i) == queue[i].side = "SELL"
LiveAt(o) ==
  Live(o) => /\ o = Current /\ ~Quiet /\ (lock \/ pc = "idle")
             /\ idx /\ posq >= env.lot
             /\ stat[o] = "SUBMITTED" \/ o = sellId
             /\ \A i \in 1..Len(queue) : ~SaleQueuedAt(i)
ExecAt(o) ==
  /\ <<"exec", o>> \in booked
       => o <= placed /\ (order[o].side = "BUY" \/ stat[o] = "FILLED")
  /\ fid # <<"exec", o>>
  /\ \A i \in 1..Len(queue) :
       queue[i].id = <<"exec", o>> => o <= placed /\ order[o].side = "BUY"
PollUS ==
  /\ pc \notin {"idle", "remove"} => \A i \in 1..Len(queue) : ~SaleQueuedAt(i)
  /\ pc = "index" => seen \in {0, env.lot}
  /\ pc \in {"discover", "write", "add"} => seen = env.lot
  /\ pc = "add" /\ ~Executed => posq >= env.lot
  /\ pc = "evaluate" => qty = env.lot
  /\ pc \in {"lock", "place"} => qty = env.lot
  /\ pc \in {"lock", "place"} \/ (pc = "evaluate" /\ ~Executed)
       => idx /\ posq >= env.lot
DebtUS ==
  \/ Debt <= 0
  \/ Debt <= env.lot /\ \E o \in OrderId : Unwatched(o)
LedgerUS ==
  /\ Whole
  /\ \A o \in OrderId : LiveAt(o) /\ ExecAt(o)
  /\ sellId # 0 => stat[sellId] = "none"
  /\ PollUS /\ DebtUS
SteadyUS == Steady /\ Market = "US"

(* Where a live SELL cannot be, and what it has.                           *)
LEMMA LiveFacts ==
  ASSUME TypeInv, LedgerUS
  PROVE  /\ Quiet \/ (~lock /\ pc # "idle") \/ ~idx
              => Debt <= 0 /\ \A o \in OrderId : ~Live(o)
         /\ (\E i \in 1..Len(queue) : SaleQueuedAt(i)) => \A o \in OrderId : ~Live(o)
         /\ \A o, p \in OrderId : Live(o) /\ Live(p) => o = p
  BY DEF LedgerUS, LiveAt, DebtUS, Live

LEMMA ExecKeep ==
  ASSUME TypeInv, LedgerUS, UNCHANGED <<booked, fid, queue, stat>>,
         placed' \in {placed, placed + 1},
         \A o \in OrderId : o <= placed => order'[o].side = order[o].side
  PROVE  \A o \in OrderId : ExecAt(o)'
<1>1. placed \in Nat /\ \A o \in OrderId : o \in Nat
  BY WayFacts
<1>2. \A o \in OrderId : o <= placed => o <= placed'
  BY <1>1
<1>3. QED BY <1>2 DEF LedgerUS, ExecAt

LEMMA DebtFalls ==
  ASSUME TypeInv, TypeInv', sold' = sold, bookSell' >= bookSell
  PROVE  Debt' <= Debt /\ Debt \in Int /\ Debt' \in Int
<1>1. sold \in Nat /\ bookSell \in Nat
  BY DEF TypeInv, BooksOK, BrokerOK
<1>2. bookSell' \in Nat
  BY DEF TypeInv, BooksOK
<1>3. PICK n \in Nat : n = bookSell'
  BY <1>2
<1>4. n >= bookSell
  BY <1>3
<1>5. /\ sold - n <= sold - bookSell
      /\ sold - n \in Int /\ sold - bookSell \in Int
  BY <1>1, <1>4
<1>6. Debt' = sold - n
  BY <1>3 DEF Debt
<1>7. QED BY <1>5, <1>6 DEF Debt

(* A step of a process that changes no order and no order key.             *)
LEMMA LedgerProcess ==
  ASSUME TypeInv, TypeInv', LedgerUS, UNCHANGED <<env, order, placed, held, stat, sellId, sold>>,
         listed' \in {listed, held}, bookSell' >= bookSell,
         \/ \A o \in OrderId : ~Live(o)
         \/ /\ Current' = Current /\ ~Quiet' /\ (lock' \/ pc' = "idle")
            /\ idx' /\ posq' >= env.lot
            /\ \A i \in 1..Len(queue') : ~SaleQueuedAt(i)',
         \A o \in OrderId : ExecAt(o)', PollUS'
  PROVE  LedgerUS'
<1>1. Whole'
  BY WholeKeep DEF LedgerUS
<1>2. \A o \in OrderId : Unwatched(o)' = Unwatched(o) /\ Live(o)' = Live(o)
  BY DEF Unwatched, Live, Selling
<1>3. \A o \in OrderId : LiveAt(o)'
  BY <1>2 DEF LedgerUS, LiveAt
<1>4. DebtUS'
  <2>1. Debt' <= Debt /\ Debt \in Int /\ Debt' \in Int
    BY DebtFalls
  <2>2. CASE Debt <= 0
    BY <2>1, <2>2 DEF DebtUS
  <2>3. CASE Debt <= env.lot /\ \E o \in OrderId : Unwatched(o)
    BY <1>2, <2>1, <2>3, WayFacts DEF DebtUS
  <2>4. QED BY <2>2, <2>3 DEF LedgerUS, DebtUS
<1>5. QED BY <1>1, <1>3, <1>4 DEF LedgerUS

LEMMA LedgerFill ==
  ASSUME TypeInv, OrderInv, LockInv, SteadyUS, LedgerUS, NEW o \in OrderId, FillOrder(o)
  PROVE  LedgerUS'
<1>t. /\ env.lot \in Nat /\ env.lot > 0 /\ Debt \in Int /\ sold \in Nat /\ bookSell \in Nat
      /\ o > 0 /\ held \in Int /\ Current \in 0..placed /\ (1..placed) \subseteq OrderId
      /\ placed \in Nat /\ posq \in Nat
      /\ \A p \in OrderId : order[p].left \in Nat /\ order[p].done \in Nat
  BY WayFacts, OrderType
<1>1. "partial" \notin Weak
  BY DEF SteadyUS, Steady
<1>2. Selling(o) => held = env.lot
  BY <1>t DEF LockInv, SellAt, Selling, LedgerUS, Whole, OrderInv, OrderAt
<1>3. /\ Whole'
      /\ order'[o] = [side |-> order[o].side, left |-> 0, done |-> env.lot,
                      open |-> FALSE]
      /\ \A p \in OrderId : p # o => order'[p] = order[p]
      /\ order[o].open /\ order[o].done = 0
      /\ Buying(o) => sold' = sold
      /\ Selling(o) => sold' = sold + env.lot
  BY <1>1, <1>2, WholeFill DEF LedgerUS
<1>4. UNCHANGED <<env, placed, posq, idx, lock, queue, bookSell, pc, seen, qty, fid,
                  exitOrder, sellId, booked, stat>>
  BY DEF FillOrder, position, guards, fills, poll, books
<1>5. /\ order'[o].side = order[o].side /\ order'[o].done = env.lot /\ ~order'[o].open
      /\ Current' = Current
  BY <1>3, <1>4 DEF Current
<1>6. \A p \in OrderId : /\ order'[p].side = order[p].side
                         /\ order[p].done > 0 => order'[p].done > 0
                         /\ Live(p)' => Live(p)
  <2>1. order[o].side = "SELL" => Live(o)
    BY <1>3 DEF Live, Selling
  <2>2. ASSUME NEW p \in OrderId
        PROVE  /\ order'[p].side = order[p].side
               /\ order[p].done > 0 => order'[p].done > 0
               /\ Live(p)' => Live(p)
    <3>1. CASE p = o
      BY <3>1, <2>1, <1>3, <1>5, <1>t DEF Live, Selling, Unwatched
    <3>2. CASE p # o
      BY <3>2, <1>3, <1>4, <1>t DEF Live, Selling, Unwatched
    <3>3. QED BY <3>1, <3>2
  <2>3. QED BY <2>2
<1>7. \A p \in OrderId : LiveAt(p)'
  BY <1>4, <1>5, <1>6 DEF LedgerUS, LiveAt, SaleQueuedAt, Quiet
<1>8. \A p \in OrderId : ExecAt(p)'
  BY <1>4, <1>6, ExecKeep
<1>9. PollUS'
  <2>1. Executed => Executed'
    <3>1. Current # 0 => Current \in OrderId
      BY <1>t
    <3>2. Current # 0 /\ order[Current].done > 0 => order'[Current].done > 0
      BY <3>1, <1>6, <1>t
    <3>3. QED BY <3>2, <1>4, <1>5 DEF Executed, Market
  <2>2. QED BY <2>1, <1>4 DEF LedgerUS, PollUS, SaleQueuedAt
<1>10. DebtUS'
  <2>1. CASE order[o].side = "BUY"
    <3>1. Debt' = Debt
      BY <2>1, <1>3, <1>4 DEF Buying, Debt
    <3>2. \A p \in OrderId : Unwatched(p) => Unwatched(p)'
      BY <2>1, <1>3, <1>4 DEF Unwatched
    <3>3. QED BY <3>1, <3>2, <1>4 DEF LedgerUS, DebtUS
  <2>2. CASE order[o].side = "SELL"
    <3>1. \A p \in OrderId : ~Unwatched(p)
      BY <2>2, <1>3, <1>t, LiveFacts DEF Live, Selling, Unwatched
    <3>2. Debt <= 0
      BY <3>1 DEF LedgerUS, DebtUS
    <3>3. Debt' <= env.lot
      BY <3>2, <2>2, <1>3, <1>4, <1>t DEF Selling, Debt
    <3>4. Unwatched(o)'
      <4>1. stat[o] = "SUBMITTED" \/ o = sellId
        BY <2>2, <1>3 DEF LedgerUS, LiveAt, Live, Selling
      <4>2. QED BY <4>1, <2>2, <1>4, <1>5, <1>t DEF Unwatched
    <3>5. QED BY <3>3, <3>4, <1>4 DEF DebtUS
  <2>3. QED BY <2>1, <2>2, OrderType
<1>11. QED BY <1>3, <1>4, <1>7, <1>8, <1>9, <1>10 DEF LedgerUS

LEMMA LedgerEnd ==
  ASSUME TypeInv, SteadyUS, LedgerUS, NEW o \in OrderId, EndOrder(o)
  PROVE  LedgerUS'
<1>1. /\ UNCHANGED <<env, held, listed, placed, posq, idx, lock, queue, sold, bookSell, pc,
                     seen, qty, fid, exitOrder, sellId, booked, stat>>
      /\ order' = [order EXCEPT ![o].open = FALSE]
  BY DEF EndOrder, position, guards, fills, poll, books, trade
<1>2. /\ Whole'
      /\ order'[o].side = order[o].side /\ order'[o].done = order[o].done
      /\ ~order'[o].open
      /\ \A p \in OrderId : p # o => order'[p] = order[p]
  BY <1>1, WholeClose DEF LedgerUS
<1>3. \A p \in OrderId : /\ order'[p].side = order[p].side
                         /\ order'[p].done = order[p].done
                         /\ Live(p)' => Live(p)
                         /\ Unwatched(p) => Unwatched(p)'
  BY <1>1, <1>2 DEF Live, Selling, Unwatched
<1>4. \A p \in OrderId : LiveAt(p)'
  BY <1>1, <1>3 DEF LedgerUS, LiveAt, SaleQueuedAt, Current, Quiet
<1>5. \A p \in OrderId : ExecAt(p)'
  BY <1>1, <1>3, ExecKeep
<1>6. PollUS'
  <2>1. Executed => Executed'
    <3>1. Current # 0 => Current \in OrderId
      BY WayFacts
    <3>2. QED BY <3>1, <1>1, <1>3 DEF Executed, Current, Market
  <2>2. QED BY <2>1, <1>1 DEF LedgerUS, PollUS, SaleQueuedAt
<1>7. DebtUS'
  BY <1>1, <1>3 DEF LedgerUS, DebtUS, Debt
<1>8. QED BY <1>1, <1>2, <1>4, <1>5, <1>6, <1>7 DEF LedgerUS

(* The watcher books the SELL it finds filled.                             *)
LEMMA LedgerWatch ==
  ASSUME TypeInv, OrderInv, SteadyUS, LedgerUS, NEW o \in OrderId, WatchUS(o)
  PROVE  LedgerUS'
<1>t. /\ env.lot \in Nat /\ env.lot > 0 /\ Debt \in Int /\ sold \in Nat /\ bookSell \in Nat
      /\ posq \in Nat
      /\ o \in Nat /\ placed \in Nat /\ o > 0
      /\ \A p \in OrderId : order[p].left \in Nat /\ order[p].done \in Nat
      /\ stat \in [OrderId -> {"none", "SUBMITTED", "FILLED", "CANCELED"}]
      /\ sellId \in 0..placed
  BY WayFacts, OrderType, LockFacts
<1>1. /\ UNCHANGED <<env, held, listed, order, placed, lock, queue, sold, pc,
                     seen, qty, fid, exitOrder, sellId>>
      /\ stat[o] = "SUBMITTED" /\ ~order[o].open
  BY DEF WatchUS, broker, guards, fills, poll, trade
<1>2. Whole' /\ Current' = Current /\ Executed' = Executed
  BY <1>1, WholeKeep DEF LedgerUS, Current, Executed, Market
<1>3. o # sellId /\ o <= placed /\ WholeAt(o)
  BY <1>1, <1>t DEF LedgerUS, OrderInv, OrderAt, Whole
<1>4. ASSUME NEW s, stat' = [stat EXCEPT ![o] = s], s # "SUBMITTED"
      PROVE  /\ \A p \in OrderId : /\ p # o => stat'[p] = stat[p]
                                   /\ Live(p)' => Live(p) /\ p # o
                                   /\ Unwatched(p) /\ p # o => Unwatched(p)'
             /\ sellId' # 0 => stat'[sellId'] = "none"
  <2>1. stat'[o] = s /\ \A p \in OrderId : p # o => stat'[p] = stat[p]
    BY <1>4, <1>t
  <2>2. \A p \in OrderId : /\ Live(p)' => Live(p) /\ p # o
                           /\ Unwatched(p) /\ p # o => Unwatched(p)'
    BY <1>1, <1>3, <1>4, <2>1 DEF Live, Selling, Unwatched
  <2>3. sellId # 0 => sellId \in OrderId
    BY WayFacts
  <2>4. QED BY <2>1, <2>2, <2>3, <1>1, <1>3 DEF LedgerUS
<1>5. CASE order[o].left # 0
  <2>1. stat' = [stat EXCEPT ![o] = "CANCELED"] /\ UNCHANGED <<posq, idx, booked, bookSell>>
    BY <1>5 DEF WatchUS, position, books
  <2>2. order[o].done = 0
    BY <1>3, <1>5 DEF WholeAt
  <2>3. \A p \in OrderId : Unwatched(p) => Unwatched(p)'
    <3>1. ~Unwatched(o)
      BY <2>2, <1>t DEF Unwatched
    <3>2. QED BY <3>1, <2>1, <1>4
  <2>4. \A p \in OrderId : LiveAt(p)'
    BY <1>1, <1>2, <1>4, <2>1 DEF LedgerUS, LiveAt, SaleQueuedAt, Quiet
  <2>5. \A p \in OrderId : ExecAt(p)'
    BY <1>1, <1>4, <2>1 DEF LedgerUS, ExecAt
  <2>6. PollUS'
    BY <1>1, <1>2, <2>1 DEF LedgerUS, PollUS, SaleQueuedAt
  <2>7. DebtUS'
    BY <1>1, <2>1, <2>3 DEF LedgerUS, DebtUS, Debt
  <2>8. QED BY <1>2, <1>4, <2>1, <2>4, <2>5, <2>6, <2>7 DEF LedgerUS
<1>6. CASE order[o].left = 0
  <2> DEFINE f == [id |-> <<"exec", o>>, side |-> order[o].side, qty |-> order[o].done]
  <2>1. stat' = [stat EXCEPT ![o] = "FILLED"] /\ Book(f)
    BY <1>6 DEF WatchUS
  <2>2. order[o].done = env.lot /\ stat'[o] = "FILLED"
    BY <2>1, <1>3, <1>6, <1>t DEF WholeAt
  <2>3. /\ f.id = <<"exec", o>> /\ f.side = order[o].side /\ f.qty = env.lot
    BY <2>2
  <2>4. /\ booked' \in {booked, booked \cup {f.id}}
        /\ \A p \in OrderId : ExecAt(p)'
    <3>1. booked' \in {booked, booked \cup {<<"exec", o>>}}
      BY <2>1, <2>3 DEF Book, books
    <3>2. ASSUME NEW p \in OrderId PROVE ExecAt(p)'
      <4>1. CASE p = o
        BY <4>1, <1>1, <1>3, <2>2 DEF LedgerUS, ExecAt
      <4>2. CASE p # o
        <5>1. <<"exec", p>> \in booked' => <<"exec", p>> \in booked
          BY <3>1, <4>2
        <5>2. QED BY <5>1, <4>2, <1>1, <1>4, <2>1 DEF LedgerUS, ExecAt
      <4>3. QED BY <4>1, <4>2
    <3>3. QED BY <2>3, <3>1, <3>2
  <2> HIDE DEF f
  <2>5. CASE order[o].side = "SELL"
    <3>1. Unwatched(o) /\ Live(o)
      BY <2>2, <2>5, <1>1, <1>t DEF Unwatched, Live
    <3>2. /\ o = Current /\ ~Quiet /\ (lock \/ pc = "idle") /\ posq >= env.lot
          /\ <<"exec", o>> \notin booked
      BY <3>1, <2>5, <1>1 DEF LedgerUS, LiveAt, ExecAt
    <3>3. Smaller(env.lot, posq) = env.lot
      BY <3>2, <1>t DEF Smaller
    <3>4. bookSell' = bookSell + env.lot
      BY <2>1, <2>3, <2>5, <3>2, <3>3, <1>t DEF Book
    <3>5. Debt' <= 0
      BY <3>4, <1>1, <1>t DEF LedgerUS, DebtUS, Debt
    <3>6. \A p \in OrderId : ~Live(p)'
      BY <3>1, <1>4, <2>1, LiveFacts
    <3>7. \A p \in OrderId : LiveAt(p)'
      BY <3>6 DEF LiveAt
    <3>8. PollUS'
      <4>1. pc \in {"evaluate", "add"} => Executed
        BY <3>2, <2>2, <1>t DEF Executed
      <4>2. QED BY <4>1, <3>2, <1>1, <1>2 DEF LedgerUS, PollUS, SaleQueuedAt, Quiet
    <3>9. QED BY <1>2, <1>4, <2>1, <2>4, <3>5, <3>7, <3>8 DEF LedgerUS, DebtUS
  <2>6. CASE order[o].side = "BUY"
    <3>1. /\ bookSell' = bookSell /\ (idx => idx')
          /\ posq >= env.lot => posq' >= env.lot
      BY <2>1, <2>3, <2>6, <1>t DEF Book, position, books
    <3>2. \A p \in OrderId : Unwatched(p) => Unwatched(p)'
      BY <2>1, <2>6, <1>4 DEF Unwatched
    <3>3. \A p \in OrderId : LiveAt(p)'
      BY <1>1, <1>2, <1>4, <2>1, <3>1 DEF LedgerUS, LiveAt, SaleQueuedAt, Quiet
    <3>4. PollUS'
      BY <1>1, <1>2, <3>1 DEF LedgerUS, PollUS, SaleQueuedAt
    <3>5. DebtUS'
      BY <1>1, <3>1, <3>2 DEF LedgerUS, DebtUS, Debt
    <3>6. QED BY <1>2, <1>4, <2>1, <2>4, <3>3, <3>4, <3>5 DEF LedgerUS
  <2>7. QED BY <2>5, <2>6, OrderType
<1>7. QED BY <1>5, <1>6

(* The executor and position_engine.                                       *)
LEMMA LedgerBuy ==
  ASSUME TypeInv, OrderInv, SteadyUS, LedgerUS, PlaceBuy
  PROVE  LedgerUS'
<1>t. /\ placed \in Nat /\ Current \in 0..placed /\ sellId \in 0..placed
      /\ (1..placed) \subseteq OrderId
  BY WayFacts
<1>1. /\ UNCHANGED <<env, posq, idx, queue, sold, bookSell, pc, stat, lock,
                     seen, qty, fid, exitOrder, sellId, booked>>
      /\ OpenBuys = {} /\ held = 0 /\ Take("BUY", env.lot)
  BY DEF PlaceBuy, position, guards, fills, poll, books, trade, SteadyUS, Steady
<1>2. /\ Whole' /\ placed' = placed + 1 /\ UNCHANGED <<held, listed>>
      /\ placed + 1 \in OrderId
      /\ order'[placed + 1] = [side |-> "BUY", left |-> env.lot, done |-> 0, open |-> TRUE]
      /\ \A p \in OrderId : p # placed + 1 => order'[p] = order[p]
  BY <1>1, WholeTake DEF LedgerUS
<1>3. ASSUME NEW p \in OrderId
      PROVE  /\ Live(p)' => Live(p)
             /\ Unwatched(p) => Unwatched(p)'
             /\ order'[p].side = order[p].side
  <2>1. CASE p = placed + 1
    <3>1. order[p].side = "BUY" /\ order'[p].side = "BUY"
      BY <2>1, <1>2, <1>t DEF OrderInv, OrderAt
    <3>2. QED BY <3>1 DEF Live, Selling, Unwatched
  <2>2. CASE p # placed + 1
    BY <2>2, <1>1, <1>2 DEF Live, Selling, Unwatched
  <2>3. QED BY <2>1, <2>2
<1>4. \A p \in OrderId : LiveAt(p)'
  BY <1>1, <1>3 DEF LedgerUS, LiveAt, SaleQueuedAt, Current, Quiet
<1>5. \A p \in OrderId : ExecAt(p)'
  BY <1>1, <1>2, <1>3, ExecKeep
<1>6. PollUS'
  <2>1. Current # 0 => order'[Current] = order[Current]
    BY <1>2, <1>t
  <2>2. Executed' = Executed
    BY <1>1, <2>1 DEF Executed, Current, Market
  <2>3. QED BY <2>2, <1>1 DEF LedgerUS, PollUS, SaleQueuedAt
<1>7. DebtUS'
  BY <1>1, <1>3 DEF LedgerUS, DebtUS, Debt
<1>8. QED BY <1>1, <1>2, <1>4, <1>5, <1>6, <1>7 DEF LedgerUS

LEMMA LedgerRecordBuy ==
  ASSUME TypeInv, OrderInv, SteadyUS, LedgerUS, RecordBuy
  PROVE  LedgerUS'
<1>t. /\ inBuy \in OrderId /\ order[inBuy].side = "BUY" /\ inBuy <= placed
      /\ stat \in [OrderId -> {"none", "SUBMITTED", "FILLED", "CANCELED"}]
      /\ sellId # 0 => sellId \in OrderId /\ sellId # inBuy
      /\ queue \in Seq(Fills)
  <2>1. inBuy # 0 /\ inBuy \in 0..placed /\ placed \in Nat /\ (1..placed) \subseteq OrderId
    BY WayFacts, LockFacts DEF RecordBuy
  <2>2. sellId # 0 => sellId \in OrderId
    BY WayFacts
  <2>3. QED BY <2>1, <2>2 DEF OrderInv, TypeInv, OrdersOK, FillsOK
<1>1. /\ UNCHANGED <<env, order, placed, held, listed, posq, idx, sold, bookSell, pc, lock,
                     seen, qty, fid, exitOrder, sellId, booked>>
  BY DEF RecordBuy, broker, position, poll, books, trade
<1>2. PICK filled \in BOOLEAN :
        /\ stat' = [stat EXCEPT ![inBuy] = IF filled THEN "FILLED" ELSE "SUBMITTED"]
        /\ queue' = IF filled
                    THEN Append(queue, [id |-> <<"exec", inBuy>>, side |-> "BUY",
                                        qty |-> order[inBuy].done])
                    ELSE queue
  BY DEF RecordBuy
<1>3. \A p \in OrderId : p # inBuy => stat'[p] = stat[p]
  BY <1>2, <1>t
<1>4. \A p \in OrderId : /\ Live(p)' => Live(p)
                         /\ Unwatched(p) => Unwatched(p)'
  BY <1>1, <1>3, <1>t DEF Live, Selling, Unwatched
<1>5. \A i \in 1..Len(queue') :
        \/ i \in 1..Len(queue) /\ queue'[i] = queue[i]
        \/ queue'[i].id = <<"exec", inBuy>> /\ queue'[i].side = "BUY"
  <2>1. CASE filled
    BY <2>1, <1>2, <1>t
  <2>2. CASE ~filled
    BY <2>2, <1>2
  <2>3. QED BY <2>1, <2>2
<1>6. \A i \in 1..Len(queue') : SaleQueuedAt(i)' => i \in 1..Len(queue) /\ SaleQueuedAt(i)
  BY <1>5 DEF SaleQueuedAt
<1>7. ASSUME NEW p \in OrderId PROVE LiveAt(p)'
  <2>1. Live(p) => order[p].side = "SELL" /\ p # inBuy
    BY <1>t DEF Live, Selling, Unwatched
  <2>2. QED BY <2>1, <1>1, <1>3, <1>4, <1>6 DEF LedgerUS, LiveAt, Current, Quiet
<1>8. ASSUME NEW p \in OrderId PROVE ExecAt(p)'
  <2>1. \A i \in 1..Len(queue') :
          queue'[i].id = <<"exec", p>> => p <= placed /\ order[p].side = "BUY"
    <3>1. ASSUME NEW i \in 1..Len(queue'), queue'[i].id = <<"exec", p>>
          PROVE  p <= placed /\ order[p].side = "BUY"
      <4>1. CASE i \in 1..Len(queue) /\ queue'[i] = queue[i]
        BY <3>1, <4>1 DEF LedgerUS, ExecAt
      <4>2. CASE queue'[i].id = <<"exec", inBuy>>
        BY <3>1, <4>2, <1>t
      <4>3. QED BY <4>1, <4>2, <1>5
    <3>2. QED BY <3>1
  <2>2. QED BY <2>1, <1>1, <1>3, <1>t DEF LedgerUS, ExecAt
<1>9. PollUS'
  <2>1. Executed' = Executed
    BY <1>1 DEF Executed, Current, Market
  <2>2. QED BY <2>1, <1>1, <1>6 DEF LedgerUS, PollUS
<1>10. DebtUS'
  BY <1>1, <1>4 DEF LedgerUS, DebtUS, Debt
<1>11. Whole'
  BY <1>1, WholeKeep DEF LedgerUS
<1>12. QED BY <1>1, <1>3, <1>t, <1>7, <1>8, <1>9, <1>10, <1>11 DEF LedgerUS

LEMMA LedgerApply ==
  ASSUME TypeInv, TypeInv', SteadyUS, LedgerUS, ApplyFill
  PROVE  LedgerUS'
<1>t. /\ env.lot \in Nat /\ posq \in Nat /\ bookSell \in Nat
      /\ queue \in Seq(Fills)
  BY WayFacts DEF TypeInv, FillsOK
<1>1. /\ UNCHANGED <<env, held, listed, order, placed, lock, sold, pc, seen, qty, fid,
                     exitOrder, sellId, stat>>
      /\ queue # <<>> /\ queue' = Tail(queue) /\ Book(Head(queue))
  BY DEF ApplyFill, broker, guards, poll, trade
<1>2. /\ Head(queue) = queue[1] /\ 1 \in 1..Len(queue) /\ queue[1] \in Fills
      /\ \A i \in 1..Len(queue') : i + 1 \in 1..Len(queue) /\ queue'[i] = queue[i + 1]
  BY <1>1, <1>t
<1>3. queue[1].qty \in Nat /\ queue[1].side \in {"BUY", "SELL"}
  BY <1>2 DEF Fills
<1>4. (\A i \in 1..Len(queue) : ~SaleQueuedAt(i))
        => \A i \in 1..Len(queue') : ~SaleQueuedAt(i)'
  BY <1>2 DEF SaleQueuedAt
<1>5. ASSUME NEW p \in OrderId PROVE ExecAt(p)'
  <2>1. booked' \in {booked, booked \cup {queue[1].id}}
    BY <1>1, <1>2 DEF Book, books
  <2>2. <<"exec", p>> \in booked'
          => p <= placed /\ (order[p].side = "BUY" \/ stat[p] = "FILLED")
    BY <2>1, <1>2 DEF LedgerUS, ExecAt
  <2>3. \A i \in 1..Len(queue') :
          queue'[i].id = <<"exec", p>> => p <= placed /\ order[p].side = "BUY"
    BY <1>2 DEF LedgerUS, ExecAt
  <2>4. QED BY <2>2, <2>3, <1>1 DEF LedgerUS, ExecAt
<1>6. Executed' = Executed /\ Current' = Current
  BY <1>1 DEF Executed, Current, Market
<1>7. CASE queue[1].side = "BUY"
  <2>1. /\ bookSell' = bookSell /\ (idx => idx')
        /\ posq >= env.lot => posq' >= env.lot
    BY <1>1, <1>2, <1>3, <1>7, <1>t DEF Book, position, books
  <2>2. PollUS'
    BY <2>1, <1>1, <1>4, <1>6 DEF LedgerUS, PollUS
  <2>3. \A p \in OrderId : LiveAt(p)'
    BY <2>1, <1>1, <1>4, <1>6 DEF LedgerUS, LiveAt, Live, Selling, Unwatched, Quiet
  <2>4. DebtUS'
    BY <2>1, <1>1 DEF LedgerUS, DebtUS, Debt, Unwatched
  <2>5. Whole'
    BY <1>1, WholeKeep DEF LedgerUS
  <2>6. QED BY <2>2, <2>3, <2>4, <2>5, <1>1, <1>5 DEF LedgerUS
<1>8. CASE queue[1].side = "SELL"
  <2>1. pc \in {"idle", "remove"} /\ \A p \in OrderId : ~Live(p)
    BY <1>2, <1>8, LiveFacts DEF LedgerUS, PollUS, SaleQueuedAt
  <2>2. bookSell' >= bookSell
    <3>1. CASE UNCHANGED bookSell
      BY <3>1, <1>t
    <3>2. CASE bookSell' = bookSell + Smaller(queue[1].qty, posq)
      <4>1. Smaller(queue[1].qty, posq) \in Nat
        BY <1>3, <1>t DEF Smaller
      <4>2. QED BY <3>2, <4>1, <1>t
    <3>3. QED BY <3>1, <3>2, <1>1, <1>2, <1>8 DEF Book, books
  <2>3. PollUS'
    BY <2>1, <1>1 DEF PollUS
  <2>4. QED BY <2>1, <2>2, <2>3, <1>1, <1>5, LedgerProcess
<1>9. QED BY <1>3, <1>7, <1>8

(* The exit runner's poll.                                                 *)
LEMMA LedgerFetch ==
  ASSUME TypeInv, TypeInv', OrderInv, LockInv, SteadyUS, LedgerUS, Fetch
  PROVE  LedgerUS'
<1>t. /\ env.lot \in Nat /\ env.lot > 0
      /\ \A o \in OrderId : order[o].left \in Nat /\ order[o].done \in Nat
      /\ bookSell \in Nat
  BY WayFacts, OrderType
<1>1. /\ UNCHANGED <<env, held, listed, order, placed, posq, idx, lock, queue, sold,
                     bookSell, qty, fid, exitOrder, sellId, booked, stat>>
      /\ pc = "idle" /\ KeptUp
      /\ seen' = IF listed > 0 THEN listed ELSE 0
      /\ pc' = "index"
  BY DEF Fetch, Goto, broker, position, guards, fills, books, trade, SteadyUS, Steady
<1>2. queue = <<>> /\ sellId = 0
      /\ \A o \in OrderId : stat[o] = "SUBMITTED" => order[o].open
  BY <1>1 DEF KeptUp, SteadyUS, OrderInv
<1>3. ASSUME NEW o \in OrderId
      PROVE  ~Unwatched(o) /\ (Live(o) => lock /\ listed > 0 /\ order[o].side = "SELL")
  <2>1. ~Unwatched(o)
    <3>1. o # sellId
      BY <1>2, WayFacts
    <3>2. QED BY <3>1, <1>2, <1>t DEF Unwatched, LedgerUS, Whole, WholeAt
  <2>2. QED BY <2>1 DEF Live, Selling, LockInv, SellAt
<1>4. Current' = Current
  BY <1>1 DEF Current
<1>5. \A o \in OrderId : LiveAt(o)'
  <2>1. \A o \in OrderId : Live(o)' => Live(o)
    BY <1>1 DEF Live, Selling, Unwatched
  <2>2. listed > 0 => ~Quiet'
    BY <1>1, WayFacts DEF Quiet
  <2>3. QED BY <2>1, <2>2, <1>1, <1>2, <1>3, <1>4 DEF LedgerUS, LiveAt
<1>6. PollUS'
  BY <1>1, <1>2, <1>t DEF PollUS, LedgerUS, Whole
<1>7. \A o \in OrderId : ExecAt(o)'
  BY <1>1, ExecKeep
<1>8. DebtUS'
  BY <1>1, <1>3 DEF LedgerUS, DebtUS, Debt
<1>9. Whole'
  BY <1>1, WholeKeep DEF LedgerUS
<1>10. QED BY <1>1, <1>5, <1>6, <1>7, <1>8, <1>9 DEF LedgerUS

LEMMA LedgerIndex ==
  ASSUME TypeInv, TypeInv', SteadyUS, LedgerUS, ReadIndex
  PROVE  LedgerUS'
<1>t. seen \in Nat /\ bookSell \in Nat
  BY WayFacts
<1>1. /\ UNCHANGED <<env, held, listed, order, placed, posq, idx, lock, queue, sold, seen,
                     bookSell, qty, fid, exitOrder, sellId, booked, stat>>
      /\ pc = "index"
      /\ pc' = IF seen > 0 THEN (IF idx THEN "write" ELSE "discover")
               ELSE IF idx THEN "missing" ELSE "idle"
  BY DEF ReadIndex, Goto, broker, position, guards, fills, books, trade
<1>2. /\ \A i \in 1..Len(queue) : ~SaleQueuedAt(i)
      /\ seen \in {0, env.lot}
  BY <1>1 DEF LedgerUS, PollUS
<1>3. Current' = Current
  BY <1>1 DEF Current
<1>4. PollUS'
  BY <1>1, <1>2, <1>t DEF PollUS, SaleQueuedAt
<1>5. \/ \A o \in OrderId : ~Live(o)
      \/ ~Quiet /\ lock /\ idx /\ posq >= env.lot
  BY <1>1 DEF LedgerUS, LiveAt
<1>6. \/ \A o \in OrderId : ~Live(o)
      \/ /\ Current' = Current /\ ~Quiet' /\ (lock' \/ pc' = "idle")
         /\ idx' /\ posq' >= env.lot
         /\ \A i \in 1..Len(queue') : ~SaleQueuedAt(i)'
  <2>1. CASE \A o \in OrderId : ~Live(o)
    BY <2>1
  <2>2. CASE ~Quiet /\ lock /\ idx /\ posq >= env.lot
    <3>1. seen > 0
      BY <2>2, <1>1, <1>t DEF Quiet
    <3>2. ~Quiet'
      BY <3>1, <2>2, <1>1 DEF Quiet
    <3>3. QED BY <2>2, <3>2, <1>1, <1>2, <1>3 DEF SaleQueuedAt
  <2>3. QED BY <1>5, <2>1, <2>2
<1>7. \A o \in OrderId : ExecAt(o)'
  BY <1>1, ExecKeep
<1>8. QED BY <1>1, <1>4, <1>6, <1>7, <1>t, LedgerProcess

LEMMA LedgerHolding ==
  ASSUME TypeInv, TypeInv', SteadyUS, LedgerUS, Discover \/ WriteHolding \/ AddIndex
  PROVE  LedgerUS'
<1>t. /\ env.lot \in Nat /\ posq \in Nat /\ bookSell \in Nat /\ queue \in Seq(Fills)
  BY WayFacts DEF TypeInv, FillsOK
<1>1. /\ UNCHANGED <<env, held, listed, order, placed, lock, sold, bookSell, seen, fid,
                     exitOrder, sellId, booked, stat>>
      /\ pc \in {"discover", "write", "add"} /\ pc' \in {"write", "add", "evaluate"}
  BY DEF Discover, WriteHolding, AddIndex, broker, position, guards, fills, books, trade,
         Goto
<1>2. seen = env.lot /\ \A i \in 1..Len(queue) : ~SaleQueuedAt(i)
  BY <1>1 DEF LedgerUS, PollUS
<1>3. Current' = Current /\ Executed' = Executed
  BY <1>1 DEF Current, Executed, Market
<1>4. \A o \in OrderId : Live(o) => lock
  BY <1>1 DEF LedgerUS, LiveAt
<1>q. ASSUME NEW f \in Fills, queue' = Append(queue, f), f.side = "BUY",
             \A o \in OrderId : f.id # <<"exec", o>>
      PROVE  /\ \A i \in 1..Len(queue') : ~SaleQueuedAt(i)'
             /\ \A o \in OrderId : ExecAt(o)'
                  \/ ~(booked' = booked /\ fid' = fid /\ stat' = stat /\ order' = order
                         /\ placed' = placed)
  <2>1. \A i \in 1..Len(queue') : \/ i \in 1..Len(queue) /\ queue'[i] = queue[i]
                                  \/ queue'[i] = f
    BY <1>q, <1>t
  <2>2. \A i \in 1..Len(queue') : ~SaleQueuedAt(i)'
    BY <2>1, <1>q, <1>2 DEF SaleQueuedAt
  <2>3. ASSUME NEW o \in OrderId, booked' = booked, fid' = fid, stat' = stat, order' = order,
             placed' = placed
        PROVE  ExecAt(o)'
    <3>1. \A i \in 1..Len(queue') :
            queue'[i].id = <<"exec", o>> => o <= placed /\ order[o].side = "BUY"
      BY <2>1, <1>q DEF LedgerUS, ExecAt
    <3>2. QED BY <3>1, <2>3 DEF LedgerUS, ExecAt
  <2>4. QED BY <2>2, <2>3
<1>5. CASE Discover
  <2>1. /\ UNCHANGED <<posq, idx, qty>> /\ pc = "discover" /\ pc' = "write"
    BY <1>5 DEF Discover, position, Goto
  <2>2. /\ \A i \in 1..Len(queue') : ~SaleQueuedAt(i)'
        /\ \A o \in OrderId : ExecAt(o)'
    <3>1. CASE posq > 0
      <4>1. queue' = queue
        BY <1>5, <3>1 DEF Discover
      <4>2. QED BY <4>1, <1>1, <1>2, ExecKeep DEF SaleQueuedAt
    <3>2. CASE ~(posq > 0)
      <4> DEFINE f == [id |-> <<"bought", found + 1>>, side |-> "BUY", qty |-> seen]
      <4>1. queue' = Append(queue, f)
        BY <1>5, <3>2 DEF Discover
      <4>2. f \in Fills
        <5>1. found + 1 \in Nat /\ seen \in Nat
          BY WayFacts
        <5>2. QED BY <5>1, IdTypes DEF Fills
      <4>3. f.side = "BUY" /\ \A o \in OrderId : f.id # <<"exec", o>>
        OBVIOUS
      <4> HIDE DEF f
      <4>4. QED BY <4>1, <4>2, <4>3, <1>q, <1>1
    <3>3. QED BY <3>1, <3>2
  <2>3. PollUS'
    BY <2>1, <2>2, <1>1, <1>2 DEF PollUS
  <2>4. Whole' /\ DebtUS'
    BY <1>1, WholeKeep DEF LedgerUS, DebtUS, Debt, Unwatched
  <2>5. \A o \in OrderId : LiveAt(o)'
    BY <2>1, <2>2, <1>1, <1>3, <1>4 DEF LedgerUS, LiveAt, Live, Selling, Unwatched, Quiet
  <2>6. QED BY <2>2, <2>3, <2>4, <2>5, <1>1 DEF LedgerUS
<1>6. CASE WriteHolding \/ AddIndex
  <2>1. /\ queue' = queue
        /\ \/ /\ WriteHolding /\ pc' = "add"
              /\ posq' = seen /\ UNCHANGED <<idx, qty>>
           \/ /\ AddIndex /\ pc = "add" /\ pc' = "evaluate"
              /\ idx' = TRUE /\ qty' = seen /\ UNCHANGED posq
    BY <1>6 DEF WriteHolding, AddIndex, fills, Goto
  <2>2. PollUS'
    BY <2>1, <1>1, <1>2, <1>3, <1>t DEF LedgerUS, PollUS, SaleQueuedAt
  <2>3. Whole' /\ DebtUS'
    BY <1>1, WholeKeep DEF LedgerUS, DebtUS, Debt, Unwatched
  <2>4. \A o \in OrderId : LiveAt(o)'
    BY <2>1, <1>1, <1>2, <1>3, <1>4, <1>t
       DEF LedgerUS, LiveAt, Live, Selling, Unwatched, Quiet, SaleQueuedAt
  <2>5. \A o \in OrderId : ExecAt(o)'
    BY <2>1, <1>1, ExecKeep
  <2>6. QED BY <2>2, <2>3, <2>4, <2>5, <1>1 DEF LedgerUS
<1>7. QED BY <1>5, <1>6

LEMMA LedgerSale ==
  ASSUME TypeInv, TypeInv', SteadyUS, LedgerUS,
         Missing \/ Gone \/ ClaimSale \/ PushSale \/ RemovePosition
  PROVE  LedgerUS'
<1>t. /\ bookSell \in Nat /\ queue \in Seq(Fills) /\ qty \in Nat /\ fid \in FillIds
  BY WayFacts DEF TypeInv, FillsOK, PollOK
<1>1. /\ UNCHANGED <<env, held, listed, order, placed, sold, bookSell, posq, sellId, booked,
                     stat>>
      /\ pc \in {"missing", "gone", "claim", "push", "remove"}
      /\ pc' \in {"idle", "gone", "claim", "push", "remove"}
      /\ pc' \in {"gone", "claim", "push"} => queue' = queue /\ pc # "remove"
  BY DEF Missing, Gone, ClaimSale, PushSale, RemovePosition, broker, position, fills, books,
         trade, Goto
<1>2. \A o \in OrderId : ~Live(o)
  BY <1>1, LiveFacts DEF Quiet
<1>3. PollUS'
  BY <1>1 DEF LedgerUS, PollUS, SaleQueuedAt
<1>4. ASSUME NEW o \in OrderId PROVE ExecAt(o)'
  <2>1. fid' \in {fid} \cup {<<"order", exitOrder>>, <<"sold", 0>>}
    BY DEF Missing, Gone, ClaimSale, PushSale, RemovePosition, SaleId
  <2>2. \/ queue' = queue
        \/ queue' = Append(queue, [id |-> fid, side |-> "SELL", qty |-> qty])
    BY DEF Missing, Gone, ClaimSale, PushSale, RemovePosition, fills
  <2>3. \A i \in 1..Len(queue') : \/ i \in 1..Len(queue) /\ queue'[i] = queue[i]
                                  \/ queue'[i].id = fid
    <3>1. [id |-> fid, side |-> "SELL", qty |-> qty] \in Fills
      BY <1>t DEF Fills
    <3>2. QED BY <2>2, <3>1, <1>t
  <2>4. QED BY <2>1, <2>3, <1>1 DEF LedgerUS, ExecAt
<1>5. QED BY <1>1, <1>2, <1>3, <1>4, <1>t, LedgerProcess


(* The exit, up to the order it places.                                    *)
LEMMA LedgerExit ==
  ASSUME TypeInv, TypeInv', OrderInv, LockInv, SteadyUS, LedgerUS,
         Evaluate \/ TakeLock \/ RecordSell
  PROVE  LedgerUS'
<1>t. /\ bookSell \in Nat /\ sellId \in 0..placed /\ placed \in Nat
      /\ (1..placed) \subseteq OrderId
      /\ stat \in [OrderId -> {"none", "SUBMITTED", "FILLED", "CANCELED"}]
      /\ LockHolds /\ Market = "US" /\ \A o \in OrderId : o # 0
  BY WayFacts, LockFacts DEF SteadyUS, Steady
<1>1. /\ UNCHANGED <<env, held, listed, order, placed, sold, bookSell, posq, idx, queue,
                     booked, fid, qty, seen>>
  BY DEF Evaluate, TakeLock, RecordSell, broker, position, fills, books, trade
<1>2. CASE Evaluate
  <2>1. /\ UNCHANGED <<stat, sellId, exitOrder>>
        /\ pc = "evaluate" /\ pc' \in {"idle", "lock"}
        /\ \/ lock' = lock /\ pc' = "idle"
           \/ ~lock \/ (exitOrder # 0 /\ stat[exitOrder] = "CANCELED")
    BY <1>2 DEF Evaluate, Goto
  <2>2. \A o \in OrderId : ExecAt(o)'
    BY <1>1, <2>1, ExecKeep
  <2>3. CASE lock' = lock /\ pc' = "idle"
    <3>1. PollUS'
      BY <2>3 DEF PollUS
    <3>2. Current' = Current
      BY <2>1 DEF Current
    <3>3. QED
      BY <1>1, <1>t, <2>1, <2>2, <2>3, <3>1, <3>2, LedgerProcess
         DEF LedgerUS, LiveAt, Quiet, SaleQueuedAt
  <2>4. CASE ~lock \/ (exitOrder # 0 /\ stat[exitOrder] = "CANCELED")
    <3>1. Apart /\ ~Executed
      BY <2>1, <2>4, <1>t, LockAt DEF Executed
    <3>2. \A o \in OrderId : ~Live(o)
      BY <3>1, <2>1, <1>t DEF LedgerUS, LiveAt, Live, Unwatched, Apart, Executed
    <3>3. PollUS'
      BY <3>1, <2>1, <1>1 DEF LedgerUS, PollUS, SaleQueuedAt
    <3>4. QED BY <1>1, <1>t, <2>1, <2>2, <3>2, <3>3, LedgerProcess
  <2>5. QED BY <2>1, <2>3, <2>4
<1>3. CASE TakeLock
  <2>1. /\ UNCHANGED <<stat, sellId, exitOrder>>
        /\ pc = "lock" /\ pc' \in {"idle", "place"}
    BY <1>3 DEF TakeLock, Goto
  <2>2. \A o \in OrderId : ExecAt(o)' /\ ~Live(o)
    BY <1>1, <2>1, ExecKeep, LiveFacts DEF Quiet
  <2>3. PollUS'
    BY <2>1, <1>1 DEF LedgerUS, PollUS, SaleQueuedAt
  <2>4. QED BY <1>1, <1>t, <2>1, <2>2, <2>3, LedgerProcess
<1>4. CASE RecordSell
  <2>1. /\ pc = "record" /\ pc' = "idle" /\ sellId' = 0 /\ exitOrder' = sellId
        /\ stat' = [stat EXCEPT ![sellId] = "SUBMITTED"] /\ lock' = lock
    BY <1>4 DEF RecordSell, Goto
  <2>2. sellId \in OrderId /\ stat[sellId] = "none" /\ Current' = Current
    BY <2>1, WayFacts DEF OrderInv, LedgerUS, Current
  <2>3. stat'[sellId] = "SUBMITTED" /\ \A o \in OrderId : o # sellId => stat'[o] = stat[o]
    BY <2>1, <2>2, <1>t
  <2>4. \A o \in OrderId : Live(o)' = Live(o) /\ Unwatched(o)' = Unwatched(o)
    <3>1. \A o \in OrderId : (stat'[o] = "SUBMITTED" \/ o = sellId')
                               = (stat[o] = "SUBMITTED" \/ o = sellId)
      BY <2>1, <2>3, <1>t
    <3>2. QED BY <3>1, <1>1 DEF Live, Selling, Unwatched
  <2>5. \A o \in OrderId : LiveAt(o)'
    BY <1>1, <2>1, <2>2, <2>3, <2>4 DEF LedgerUS, LiveAt, Quiet, SaleQueuedAt
  <2>6. \A o \in OrderId : ExecAt(o)'
    BY <1>1, <2>2, <2>3 DEF LedgerUS, ExecAt
  <2>7. PollUS' /\ DebtUS'
    BY <1>1, <2>1, <2>4 DEF LedgerUS, PollUS, DebtUS, Debt
  <2>8. Whole'
    BY <1>1, WholeKeep DEF LedgerUS
  <2>9. QED BY <2>1, <2>5, <2>6, <2>7, <2>8 DEF LedgerUS
<1>5. QED BY <1>2, <1>3, <1>4

LEMMA LedgerSell ==
  ASSUME TypeInv, TypeInv', OrderInv, LockInv, SteadyUS, LedgerUS, PlaceSell
  PROVE  LedgerUS'
<1>t. /\ env.lot \in Nat /\ env.lot > 0 /\ placed \in Nat /\ bookSell \in Nat
      /\ held \in Int /\ \A o \in OrderId : o \in Nat /\ o > 0
      /\ LockHolds /\ Market = "US"
  BY WayFacts DEF SteadyUS, Steady
<1>1. /\ UNCHANGED <<env, sold, bookSell, posq, idx, queue, booked, fid, qty, seen, stat,
                     exitOrder>>
      /\ pc = "place"
  BY DEF PlaceSell, position, fills, books, trade
<1>2. /\ \A o \in OrderId : ~Live(o)
      /\ Debt <= 0 /\ lock /\ idx /\ posq >= env.lot /\ qty = env.lot
      /\ \A i \in 1..Len(queue) : ~SaleQueuedAt(i)
  BY <1>1, LiveFacts DEF LedgerUS, PollUS, LockInv, HoldingSound, Quiet
<1>3. CASE Take("SELL", qty) /\ pc' = "record" /\ sellId' = placed' /\ lock' = lock
  <2>1. held = env.lot
    <3>1. qty <= held
      BY <1>1, <1>t DEF LockInv, PollSound, Prompt
    <3>2. QED BY <3>1, <1>2, <1>t DEF LedgerUS, Whole
  <2>2. /\ Whole' /\ placed + 1 \in OrderId /\ placed' = placed + 1
        /\ order'[placed + 1] =
             [side |-> "SELL", left |-> env.lot, done |-> 0, open |-> TRUE]
        /\ \A p \in OrderId : p # placed + 1 => order'[p] = order[p]
    BY <1>1, <1>2, <1>3, <2>1, WholeTake DEF LedgerUS
  <2>3. Current' = placed + 1 /\ stat[placed + 1] = "none"
    BY <1>3, <1>t, <2>2 DEF Current, OrderInv, OrderAt
  <2>4. \A o \in OrderId : Live(o)' => o = placed + 1
    BY <1>1, <1>2, <1>3, <2>2 DEF Live, Selling, Unwatched
  <2>5. \A o \in OrderId : LiveAt(o)'
    BY <1>1, <1>2, <1>3, <2>2, <2>3, <2>4 DEF LiveAt, Quiet, SaleQueuedAt
  <2>6. \A o \in OrderId : ExecAt(o)'
    <3>1. \A o \in OrderId : o <= placed => order'[o].side = order[o].side
      BY <2>2, <1>t
    <3>2. QED BY <1>1, <2>2, <3>1, ExecKeep
  <2>7. PollUS' /\ DebtUS'
    BY <1>1, <1>2, <1>3 DEF PollUS, DebtUS, Debt, SaleQueuedAt
  <2>8. QED BY <1>1, <1>3, <2>2, <2>3, <2>5, <2>6, <2>7 DEF LedgerUS
<1>4. CASE UNCHANGED <<broker, sellId>> /\ pc' = "idle"
  <2>1. UNCHANGED <<held, listed, order, placed, sellId>>
    BY <1>4 DEF broker
  <2>2. \A o \in OrderId : ExecAt(o)'
    BY <1>1, <2>1, ExecKeep
  <2>3. PollUS'
    BY <1>4 DEF PollUS
  <2>4. QED BY <1>1, <1>2, <1>t, <2>1, <2>2, <2>3, LedgerProcess
<1>5. "lost_reply" \notin Weak
  BY DEF SteadyUS, Steady
<1>6. QED BY <1>3, <1>4, <1>5 DEF PlaceSell, Goto

(* The catching up of the holdings and the ends of TTLs.                   *)
LEMMA LedgerOthers ==
  ASSUME TypeInv, TypeInv', OrderInv, KillsInv, SteadyUS, LedgerUS,
         \/ Settle \/ LockExpires \/ PendingExpires \/ HashExpires \/ UNCHANGED vars
  PROVE  LedgerUS'
<1>t. bookSell \in Nat /\ posq \in Nat /\ env.lot \in Nat /\ env.lot > 0
  BY WayFacts
<1>1. /\ UNCHANGED <<env, held, order, placed, sold, bookSell, idx, queue, booked, fid, qty,
                     seen, stat, exitOrder, sellId, pc>>
      /\ listed' \in {listed, held}
  BY DEF Settle, LockExpires, PendingExpires, HashExpires, vars, broker, position,
         guards, fills, poll, books, trade
<1>2. /\ Current' = Current
      /\ \A o \in OrderId : ExecAt(o)'
  BY <1>1, ExecKeep DEF Current
<1>3. CASE posq' = posq /\ (lock' = lock \/ pc = "idle")
  <2>1. lock' = lock => Executed' = Executed
    BY <1>1, <1>2 DEF Executed, Market
  <2>2. PollUS'
    BY <1>1, <1>3, <2>1 DEF LedgerUS, PollUS, SaleQueuedAt
  <2>3. \/ \A o \in OrderId : ~Live(o)
        \/ /\ ~Quiet /\ (lock \/ pc = "idle") /\ idx /\ posq >= env.lot
           /\ \A i \in 1..Len(queue) : ~SaleQueuedAt(i)
    BY DEF LedgerUS, LiveAt
  <2>4. \/ \A o \in OrderId : ~Live(o)
        \/ /\ Current' = Current /\ ~Quiet' /\ (lock' \/ pc' = "idle")
           /\ idx' /\ posq' >= env.lot
           /\ \A i \in 1..Len(queue') : ~SaleQueuedAt(i)'
    BY <2>3, <1>1, <1>2, <1>3 DEF SaleQueuedAt, Quiet
  <2>5. QED BY <1>1, <1>2, <1>t, <2>2, <2>4, LedgerProcess
<1>4. CASE HashExpires
  <2>1. ~idx /\ lock' = lock /\ pc # "add"
    BY <1>4 DEF HashExpires, OrderInv, IndexedIsKept, guards, SteadyUS, Steady
  <2>2. \A o \in OrderId : ~Live(o)
    BY <2>1, LiveFacts
  <2>3. Executed' = Executed
    BY <2>1, <1>1, <1>2 DEF Executed, Market
  <2>4. PollUS'
    BY <2>1, <2>3, <1>1 DEF LedgerUS, PollUS, SaleQueuedAt
  <2>5. QED BY <1>1, <1>2, <1>t, <2>2, <2>4, LedgerProcess
<1>5. pc # "down"
  BY NoKill, WayFacts DEF KillsInv, SteadyUS, Steady, TypeInv, PollOK
<1>6. QED
  BY <1>3, <1>4, <1>5 DEF Settle, LockExpires, PendingExpires, vars, position, guards,
     Calm, SteadyUS, Steady, LockHolds

LEMMA LedgerInit == Init => LedgerUS
<1> SUFFICES ASSUME Init PROVE LedgerUS
  OBVIOUS
<1>1. \A o \in OrderId : order[o] = NoOrder
  BY DEF Init
<1>2. \A o \in OrderId : ~Live(o) /\ ExecAt(o)
  BY <1>1 DEF Init, Live, Selling, Unwatched, NoOrder, ExecAt, NoFill
<1>3. Whole
  BY WayInit DEF WayKR
<1>4. QED BY <1>2, <1>3 DEF Init, LedgerUS, LiveAt, PollUS, DebtUS, Debt

LEMMA LedgerNext ==
  ASSUME TypeInv, TypeInv', OrderInv, KillsInv, LockInv, SteadyUS, LedgerUS, [Next]_vars
  PROVE  LedgerUS'
<1>1. ~CrashExecutor /\ ~CrashExitRunner /\ ~Restart /\ ~FetchFails
  BY NoKill DEF SteadyUS, Steady, LockHolds, Prompt, FetchFails, TypeInv, PollOK
<1>2. \A o \in OrderId : ~WatchKR(o)
  BY DEF SteadyUS, WatchKR
<1>3. QED
  BY <1>1, <1>2, LedgerFill, LedgerEnd, LedgerWatch, LedgerBuy, LedgerRecordBuy,
     LedgerApply, LedgerFetch, LedgerIndex, LedgerHolding, LedgerSale, LedgerExit, LedgerSell,
     LedgerOthers DEF Next, Sync, Exit

LEMMA LedgerIs == TypeInv /\ OrderInv /\ SteadyUS /\ LedgerUS /\ Flat => bookSell >= sold
<1> SUFFICES ASSUME TypeInv, OrderInv, SteadyUS, LedgerUS, Flat PROVE bookSell >= sold
  OBVIOUS
<1>1. \A o \in OrderId : ~Unwatched(o)
  BY WayFacts DEF Unwatched, Flat, SteadyUS, OrderInv
<1>2. QED BY <1>1, WayFacts DEF LedgerUS, DebtUS, Debt

(* Each market on its own argument.                                        *)
MissInv == (SteadyKR => WayKR) /\ (SteadyUS => LedgerUS)

LEMMA MissNext ==
  TypeInv /\ TypeInv' /\ OrderInv /\ KillsInv /\ SaleInv /\ MissInv /\ [Next]_vars
    => MissInv'
<1> SUFFICES ASSUME TypeInv, TypeInv', OrderInv, KillsInv, SaleInv, MissInv, [Next]_vars
             PROVE  MissInv'
  OBVIOUS
<1>1. SteadyKR' = SteadyKR /\ SteadyUS' = SteadyUS
  BY EnvFixed DEF SteadyKR, SteadyUS, Steady, LockHolds, Prompt, Market, Weak
<1>2. SteadyUS => LockInv
  BY DEF SteadyUS, Steady, SaleInv
<1>3. QED BY <1>1, <1>2, WayNext, LedgerNext DEF MissInv

(* No sale is missing from the books of a symbol that is sold out, for     *)
(* every number of orders and every size of a BUY.  In KR the position is  *)
(* either not there yet, or held, or sold and still indexed with its exit  *)
(* order not claimed, or waits for the fill of the sale; in US an open     *)
(* SELL, or a filled one the watcher has not seen, finds the position it   *)
(* is booked on.                                                           *)
THEOREM SalesCounted == Spec => []NoSaleMissed
<1>1. Init => MissInv
  BY WayInit, LedgerInit DEF MissInv
<1>2. TypeInv /\ TypeInv' /\ OrderInv /\ KillsInv /\ SaleInv /\ MissInv /\ [Next]_vars
        => MissInv'
  BY MissNext
<1>3. TypeInv /\ OrderInv /\ MissInv => NoSaleMissed
  BY WayIs, LedgerIs, EnvType DEF MissInv, NoSaleMissed, SteadyKR, SteadyUS
<1>4. Init => SaleInv
  BY SaleInit
<1>5. TypeInv /\ OrderInv /\ KillsInv /\ SaleInv /\ [Next]_vars => SaleInv'
  BY SaleNext
<1>6. QED
  BY <1>1, <1>2, <1>3, <1>4, <1>5, TypeHolds, OrderHolds, KillsHolds, PTL DEF Spec
=============================================================================
