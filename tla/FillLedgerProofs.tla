--------------------------- MODULE FillLedgerProofs ---------------------------
(***************************************************************************)
(* What holds of FillLedger for every set of fills, every number of        *)
(* retries and kills, and every interleaving of the processes.             *)
(***************************************************************************)
EXTENDS FillLedger, TLAPS

-----------------------------------------------------------------------------
(* Lemmas about the arithmetic of apply_fill.                              *)

(* What apply_fill computes for a held position is again a position.       *)
LEMMA BookingType ==
  ASSUME NEW f \in Fill, NEW held \in Holding
  PROVE  /\ SellQty(f, held) \in 0 .. held.qty
         /\ RealizedDelta(f, held) \in Int
         /\ QtyChange(f, held) \in Int
         /\ NewPosition(f, held) \in Holding
<1>1. f.qty \in Nat \ {0} /\ f.price \in Nat /\ f.fee \in Nat
      /\ held.qty \in Nat /\ held.avg \in Nat
  BY DEF Fill, Holding
<1>2. SellQty(f, held) \in 0 .. held.qty
  BY <1>1 DEF SellQty, Smaller
<1>3. RealizedDelta(f, held) \in Int
  BY <1>1, <1>2 DEF RealizedDelta
<1>4. QtyChange(f, held) \in Int /\ held.qty + QtyChange(f, held) \in Nat
  BY <1>1, <1>2 DEF QtyChange
<1>5. NewAvg(f, held) \in Nat
  <2>1. (held.qty * held.avg + f.qty * f.price) \in Nat
        /\ (held.qty + f.qty) \in Nat \ {0}
    BY <1>1
  <2>2. (held.qty * held.avg + f.qty * f.price) \div (held.qty + f.qty) \in Nat
    BY <2>1
  <2>3. QED BY <1>1, <2>2 DEF NewAvg
<1>6. QED BY <1>2, <1>3, <1>4, <1>5 DEF NewPosition, Holding

(* LPUSH and BRPOP keep a list of items a list of items.                   *)
LEMMA ListType ==
  ASSUME NEW q \in Seq(Item), NEW item \in Item
  PROVE  /\ <<item>> \o q \in Seq(Item)
         /\ q # <<>> => /\ q[Len(q)] \in Item
                        /\ SubSeq(q, 1, Len(q) - 1) \in Seq(Item)
                        /\ Head(q) \in Item /\ Tail(q) \in Seq(Item)
  OBVIOUS

-----------------------------------------------------------------------------
(* The initial state and every step keep the type invariant.               *)

LEMMA TypeInit == Init => TypeOK
  BY LedgerConstants
     DEF Init, TypeOK, ListsOK, LedgerOK, LocalsOK, HistoryOK, Flat, Holding,
         Labels, Proc, Engine, Watcher, Updater

LEMMA ProcDistinct ==
  /\ Engine # Watcher /\ Engine # Updater /\ Watcher # Updater
  /\ Proc = {Engine, Watcher, Updater}
  BY DEF Proc, Engine, Watcher, Updater

(* In apply_fill a process of the two that book holds a fill.              *)
LEMMA HandType ==
  ASSUME LocalsOK, NEW p \in Proc,
         pc[p] \notin {"idle", "recalc_read", "recalc_write"}
  PROVE  /\ p \in {Engine, Watcher} /\ cur[p] \in Item /\ FillOf(p) \in Fill
         /\ FillOf(p).tid \in TradeId /\ FillOf(p).sym \in Symbol
         /\ FillOf(p).side \in {"BUY", "SELL"}
  BY ProcDistinct DEF LocalsOK, FillOf, Item, Fill

(* One process moves to another label; the other locals stay well typed.   *)
LEMMA LocalsStep ==
  ASSUME LocalsOK, NEW p \in Proc, NEW label \in Labels, Goto(p, label),
         p = Updater => label \in {"idle", "recalc_read", "recalc_write"},
         cur' \in [Proc -> Item \cup {NoItem}],
         \A q \in Proc \ {p} : cur'[q] = cur[q],
         p # Updater /\ label # "idle" => cur'[p] \in Item,
         snap' \in [Proc -> Holding], delta' \in [Proc -> Int],
         reg' \in [Proc -> Int]
  PROVE  LocalsOK'
  BY ProcDistinct DEF LocalsOK, Goto

(* The labels of apply_fill are only ever reached holding the fill.        *)
LEMMA ApplyStep ==
  ASSUME LocalsOK, NEW p \in Proc, NEW label \in Labels, Goto(p, label),
         pc[p] \notin {"idle", "recalc_read", "recalc_write"}, UNCHANGED cur,
         snap' \in [Proc -> Holding], delta' \in [Proc -> Int],
         reg' \in [Proc -> Int]
  PROVE  LocalsOK'
<1>1. p # Updater /\ cur[p] \in Item
  BY HandType, ProcDistinct
<1>2. QED BY <1>1, LocalsStep DEF LocalsOK

(* Returning to the loop drops what the process had in hand.               *)
LEMMA FinishStep ==
  ASSUME LocalsOK, NEW p \in Proc, Finish(p), UNCHANGED <<snap, delta, reg>>
  PROVE  LocalsOK'
  BY LocalsStep DEF Finish, LocalsOK, Labels

(* The exit poll leaves lists, trades and the processes that book alone.   *)
LEMMA PollFrame ==
  ASSUME SyncPositions
  PROVE  UNCHANGED <<env, lists, dedupe, trades, realized, sizing, locals,
                     saves, settled, earned>>
  BY DEF SyncPositions, MirrorHolding, ListHolding, DropHolding, HashLapses,
         CrashPoll, ledger, history

(* The environment is given once.                                          *)
LEMMA EnvFixed == [Next]_vars => env' = env
  BY PollFrame
     DEF Next, vars, PushFill, PopFill, TakeDead, RequeueDead, WatchFill,
         Apply, CheckDup, ReadPosition, ClaimTrade, RecordTrade, SavePosition,
         IndexPosition, ReadPnl, WritePnl, ReadForRecalc, WriteRecalc,
         StartRecalc, EngineReturn, WatcherReturn, EngineFails, WatcherFails,
         Crash

LEMMA TypeNext == TypeOK /\ [Next]_vars => TypeOK'
<1> SUFFICES ASSUME ListsOK, LedgerOK, LocalsOK, HistoryOK, [Next]_vars
             PROVE  ListsOK' /\ LedgerOK' /\ LocalsOK' /\ HistoryOK'
  BY DEF TypeOK
<1>v. env' = env /\ env \in Environment
  BY EnvFixed DEF HistoryOK
<1>k. /\ UNCHANGED lists => ListsOK'
      /\ UNCHANGED <<ledger, sizing, poll>> => LedgerOK'
      /\ UNCHANGED locals => LocalsOK'
      /\ UNCHANGED history => HistoryOK'
  BY <1>v
     DEF lists, ledger, sizing, poll, locals, history, ListsOK, LedgerOK,
         LocalsOK, HistoryOK
<1>l. /\ cur \in [Proc -> Item \cup {NoItem}] /\ snap \in [Proc -> Holding]
      /\ delta \in [Proc -> Int] /\ reg \in [Proc -> Int]
  BY DEF LocalsOK
<1>q. queue \in Seq(Item) /\ dlq \in Seq(Item)
  BY DEF ListsOK
<1>1. ASSUME NEW f \in QueueFills, PushFill(f)
      PROVE  ListsOK' /\ LedgerOK' /\ LocalsOK' /\ HistoryOK'
  <2>1. [fill |-> f, retry |-> 0] \in Item
    BY LedgerConstants DEF Item
  <2>2. ListsOK'
    BY <1>1, <2>1, <1>q, ListType DEF PushFill, ListsOK
  <2>3. QED BY <1>1, <1>k, <2>2 DEF PushFill
<1>2. ASSUME PopFill PROVE ListsOK' /\ LedgerOK' /\ LocalsOK' /\ HistoryOK'
  <2> DEFINE item == queue[Len(queue)]
  <2>1. item \in Item /\ SubSeq(queue, 1, Len(queue) - 1) \in Seq(Item)
        /\ <<item>> \o dlq \in Seq(Item)
    BY <1>2, <1>q, ListType DEF PopFill
  <2>2. ListsOK'
    BY <1>2, <2>1 DEF PopFill, ListsOK
  <2>3. LocalsOK'
    <3>1. CASE item.fill.ok
      <4>1. Goto(Engine, "dedup") /\ cur' = [cur EXCEPT ![Engine] = item]
            /\ UNCHANGED <<snap, delta, reg>>
        BY <1>2, <3>1 DEF PopFill
      <4>2. "dedup" \in Labels BY DEF Labels
      <4>3. QED BY <4>1, <4>2, <2>1, <1>l, ProcDistinct, LocalsStep
    <3>2. CASE ~item.fill.ok
      BY <1>2, <3>2, <1>k DEF PopFill, locals
    <3>3. QED BY <3>1, <3>2
  <2>4. QED BY <1>2, <1>k, <2>2, <2>3 DEF PopFill
<1>3. ASSUME TakeDead PROVE ListsOK' /\ LedgerOK' /\ LocalsOK' /\ HistoryOK'
  <2>1. ListsOK'
    BY <1>3, <1>q, ListType DEF TakeDead, ListsOK
  <2>2. QED BY <1>3, <1>k, <2>1 DEF TakeDead
<1>4. ASSUME RequeueDead PROVE ListsOK' /\ LedgerOK' /\ LocalsOK' /\ HistoryOK'
  <2>1. PICK r \in {0, hand.retry} : queue'
        = <<[hand EXCEPT !.retry = r]>> \o queue
    BY <1>4 DEF RequeueDead
  <2>2. hand \in Item
    BY <1>4 DEF RequeueDead, ListsOK
  <2>3. [hand EXCEPT !.retry = r] \in Item
    BY <2>1, <2>2 DEF Item
  <2>4. ListsOK'
    BY <1>4, <2>1, <2>3, <1>q, ListType DEF RequeueDead, ListsOK
  <2>5. QED BY <1>4, <1>k, <2>4 DEF RequeueDead
<1>5. ASSUME NEW f \in OrderFills, WatchFill(f)
      PROVE  ListsOK' /\ LedgerOK' /\ LocalsOK' /\ HistoryOK'
  <2>1. [fill |-> f, retry |-> 0] \in Item /\ "dedup" \in Labels
    BY LedgerConstants DEF Item, Labels
  <2>2. LocalsOK'
    BY <1>5, <2>1, <1>l, ProcDistinct, LocalsStep DEF WatchFill
  <2>3. QED BY <1>5, <1>k, <2>2 DEF WatchFill
<1>6. ASSUME NEW p \in Proc, Apply(p)
      PROVE  ListsOK' /\ LedgerOK' /\ LocalsOK' /\ HistoryOK'
  <2> DEFINE f == FillOf(p)
             Booking == pc[p] \notin {"idle", "recalc_read", "recalc_write"}
  <2>h. Booking => /\ p \in {Engine, Watcher} /\ cur[p] \in Item /\ f \in Fill
                   /\ f.tid \in TradeId /\ f.sym \in Symbol
    BY HandType
  <2>s. /\ snap[p] \in Holding /\ delta[p] \in Int /\ reg[p] \in Int
    BY <1>l
  <2>1. ASSUME CheckDup(p)
        PROVE ListsOK' /\ LedgerOK' /\ LocalsOK' /\ HistoryOK'
    <3>1. PICK label \in Labels : Goto(p, label)
      BY <2>1 DEF CheckDup, Labels
    <3>2. LocalsOK'
      BY <2>1, <3>1, <1>l, ApplyStep DEF CheckDup
    <3>3. QED BY <2>1, <1>k, <3>2 DEF CheckDup
  <2>2. ASSUME ReadPosition(p)
        PROVE  ListsOK' /\ LedgerOK' /\ LocalsOK' /\ HistoryOK'
    <3>1. Booking BY <2>2 DEF ReadPosition
    <3>2. pos[f.sym] \in Holding
      BY <2>h, <3>1 DEF LedgerOK
    <3>3. RealizedDelta(f, pos[f.sym]) \in Int
      BY <2>h, <3>1, <3>2, BookingType
    <3>4. <<cur[p]>> \o dlq \in Seq(Item)
      BY <2>h, <3>1, <1>q, ListType
    <3>5. ListsOK'
      BY <2>2, <3>4 DEF ReadPosition, ListsOK
    <3>6. PICK label \in Labels : Goto(p, label)
      BY <2>2 DEF ReadPosition, Labels
    <3>7. /\ snap' \in [Proc -> Holding] /\ delta' \in [Proc -> Int]
          /\ UNCHANGED <<cur, reg>>
      BY <2>2, <3>2, <3>3, <1>l DEF ReadPosition
    <3>8. LocalsOK'
      BY <3>1, <3>6, <3>7, <1>l, ApplyStep
    <3>9. QED BY <2>2, <1>k, <3>5, <3>8 DEF ReadPosition
  <2>3. ASSUME ClaimTrade(p)
        PROVE ListsOK' /\ LedgerOK' /\ LocalsOK' /\ HistoryOK'
    <3>1. Booking BY <2>3 DEF ClaimTrade
    <3>2. LedgerOK'
      BY <2>3, <2>h, <3>1 DEF ClaimTrade, LedgerOK, sizing, poll
    <3>3. PICK label \in Labels : Goto(p, label)
      BY <2>3 DEF ClaimTrade, Labels
    <3>4. LocalsOK'
      BY <2>3, <3>1, <3>3, <1>l, ApplyStep DEF ClaimTrade
    <3>5. QED BY <2>3, <1>k, <3>2, <3>4 DEF ClaimTrade
  <2>4. ASSUME RecordTrade(p)
        PROVE  ListsOK' /\ LedgerOK' /\ LocalsOK' /\ HistoryOK'
    <3>1. Booking BY <2>4 DEF RecordTrade
    <3>2. LedgerOK'
      BY <2>4, <2>h, <2>s, <3>1 DEF RecordTrade, LedgerOK, sizing, poll
    <3>3. "save" \in Labels BY DEF Labels
    <3>4. LocalsOK'
      BY <2>4, <3>1, <3>3, <1>l, ApplyStep DEF RecordTrade
    <3>5. QED BY <2>4, <1>k, <3>2, <3>4 DEF RecordTrade
  <2>5. ASSUME SavePosition(p)
        PROVE ListsOK' /\ LedgerOK' /\ LocalsOK' /\ HistoryOK'
    <3>1. Booking BY <2>5 DEF SavePosition
    <3>2. NewPosition(f, snap[p]) \in Holding /\ QtyChange(f, snap[p]) \in Int
      BY <2>h, <2>s, <3>1, BookingType
    <3>3. LedgerOK'
      BY <2>5, <2>h, <3>1, <3>2 DEF SavePosition, LedgerOK, sizing, poll
    <3>4. HistoryOK'
      BY <2>5, <2>h, <3>1, <3>2, <1>v DEF SavePosition, Race, HistoryOK
    <3>5. "index" \in Labels BY DEF Labels
    <3>6. LocalsOK'
      BY <2>5, <3>1, <3>5, <1>l, ApplyStep DEF SavePosition
    <3>7. QED BY <2>5, <1>k, <3>3, <3>4, <3>6 DEF SavePosition
  <2>6. ASSUME IndexPosition(p)
        PROVE ListsOK' /\ LedgerOK' /\ LocalsOK' /\ HistoryOK'
    <3>1. Booking BY <2>6 DEF IndexPosition
    <3>2. LedgerOK'
      BY <2>6, <2>h, <3>1 DEF IndexPosition, LedgerOK, sizing, poll
    <3>3. PICK label \in Labels : Goto(p, label)
      BY <2>6 DEF IndexPosition, Labels
    <3>4. LocalsOK'
      BY <2>6, <3>1, <3>3, <1>l, ApplyStep DEF IndexPosition
    <3>5. QED BY <2>6, <1>k, <3>2, <3>4 DEF IndexPosition
  <2>7. ASSUME ReadPnl(p)
        PROVE ListsOK' /\ LedgerOK' /\ LocalsOK' /\ HistoryOK'
    <3>1. Booking /\ "pnl_write" \in Labels BY <2>7 DEF ReadPnl, Labels
    <3>2. reg' \in [Proc -> Int]
      BY <2>7, <1>l DEF ReadPnl, LedgerOK
    <3>3. LocalsOK'
      BY <2>7, <3>1, <3>2, <1>l, ApplyStep DEF ReadPnl
    <3>4. QED BY <2>7, <1>k, <3>3 DEF ReadPnl
  <2>8. ASSUME WritePnl(p)
        PROVE ListsOK' /\ LedgerOK' /\ LocalsOK' /\ HistoryOK'
    <3>1. Booking /\ "recalc_read" \in Labels BY <2>8 DEF WritePnl, Labels
    <3>2. LedgerOK' /\ HistoryOK'
      <4>1. LedgerOK'
        BY <2>8, <2>s, <1>v DEF WritePnl, LedgerOK, sizing, poll
      <4>2. HistoryOK'
        BY <2>8, <2>h, <2>s, <3>1, <1>v DEF WritePnl, Settle, Race, HistoryOK
      <4>3. QED BY <4>1, <4>2
    <3>3. LocalsOK'
      BY <2>8, <3>1, <1>l, ApplyStep DEF WritePnl
    <3>4. QED BY <2>8, <1>k, <3>2, <3>3 DEF WritePnl
  <2>9. ASSUME ReadForRecalc(p)
        PROVE ListsOK' /\ LedgerOK' /\ LocalsOK' /\ HistoryOK'
    <3>1. "recalc_write" \in Labels BY DEF Labels
    <3>2. reg' \in [Proc -> Int]
      BY <2>9, <1>l DEF ReadForRecalc, LedgerOK
    <3>3. p # Updater => cur[p] \in Item
      BY <2>9, ProcDistinct DEF ReadForRecalc, LocalsOK
    <3>4. LocalsOK'
      BY <2>9, <3>1, <3>2, <3>3, <1>l, LocalsStep DEF ReadForRecalc
    <3>5. QED BY <2>9, <1>k, <3>4 DEF ReadForRecalc
  <2>10. ASSUME WriteRecalc(p)
         PROVE ListsOK' /\ LedgerOK' /\ LocalsOK' /\ HistoryOK'
    <3>1. PICK label \in Labels : /\ Goto(p, label)
                                  /\ label = (IF p = Updater THEN "idle" ELSE "applied")
      BY <2>10 DEF WriteRecalc, Labels
    <3>2. LedgerOK'
      BY <2>10, <2>s DEF WriteRecalc, LedgerOK, sizing, poll
    <3>3. p # Updater => cur[p] \in Item
      BY <2>10, ProcDistinct DEF WriteRecalc, LocalsOK
    <3>4. LocalsOK'
      BY <2>10, <3>1, <3>3, <1>l, LocalsStep DEF WriteRecalc
    <3>5. QED BY <2>10, <1>k, <3>2, <3>4 DEF WriteRecalc
  <2>11. QED
    BY <1>6, <2>1, <2>2, <2>3, <2>4, <2>5, <2>6, <2>7, <2>8, <2>9, <2>10
       DEF Apply
<1>7. ASSUME StartRecalc PROVE ListsOK' /\ LedgerOK' /\ LocalsOK' /\ HistoryOK'
  <2>1. "recalc_read" \in Labels BY DEF Labels
  <2>2. LocalsOK'
    BY <1>7, <2>1, <1>l, ProcDistinct, LocalsStep DEF StartRecalc
  <2>3. QED BY <1>7, <1>k, <2>2 DEF StartRecalc
<1>8. ASSUME EngineReturn
      PROVE ListsOK' /\ LedgerOK' /\ LocalsOK' /\ HistoryOK'
  <2>1. delta[Engine] \in Int
    BY <1>l, ProcDistinct
  <2>2. streak' \in Int /\ sizePct' \in Int
    BY <1>8, <2>1
       DEF EngineReturn, UpdateStreak, NextStreak, Smaller, sizing, LedgerOK
  <2>3. LedgerOK'
    BY <1>8, <2>2 DEF EngineReturn, LedgerOK, ledger, poll
  <2>4. LocalsOK'
    BY <1>8, ProcDistinct, FinishStep DEF EngineReturn
  <2>5. QED BY <1>8, <1>k, <2>3, <2>4 DEF EngineReturn
<1>9. ASSUME WatcherReturn \/ WatcherFails
      PROVE  ListsOK' /\ LedgerOK' /\ LocalsOK' /\ HistoryOK'
  <2>1. pc[Watcher] \notin {"idle", "recalc_read", "recalc_write"}
        \/ cur[Watcher] \in Item
    BY <1>9, ProcDistinct DEF WatcherReturn, WatcherFails, InApply, LocalsOK
  <2>2. FillOf(Watcher) \in Fill
    BY <2>1, HandType, ProcDistinct DEF FillOf, Item
  <2>3. ListsOK'
    BY <1>9, <2>2 DEF WatcherReturn, WatcherFails, ListsOK
  <2>4. LocalsOK'
    BY <1>9, ProcDistinct, FinishStep DEF WatcherReturn, WatcherFails
  <2>5. QED BY <1>9, <1>k, <2>3, <2>4 DEF WatcherReturn, WatcherFails
<1>10. ASSUME EngineFails
       PROVE ListsOK' /\ LedgerOK' /\ LocalsOK' /\ HistoryOK'
  <2>1. cur[Engine] \in Item
    BY <1>10, ProcDistinct DEF EngineFails, EngineMayFail, InApply, LocalsOK
  <2>2. [cur[Engine] EXCEPT !.retry = @ + 1] \in Item
    BY <2>1 DEF Item
  <2>3. ListsOK'
    BY <1>10, <2>1, <2>2, <1>q, ListType DEF EngineFails, ListsOK
  <2>4. LocalsOK'
    BY <1>10, ProcDistinct, FinishStep DEF EngineFails
  <2>5. QED BY <1>10, <1>k, <2>3, <2>4 DEF EngineFails
<1>11. ASSUME NEW p \in Proc, Crash(p)
       PROVE  ListsOK' /\ LedgerOK' /\ LocalsOK' /\ HistoryOK'
  <2>1. HistoryOK'
    BY <1>11, <1>v DEF Crash, HistoryOK
  <2>2. LocalsOK'
    BY <1>11, FinishStep DEF Crash
  <2>3. QED BY <1>11, <1>k, <2>1, <2>2 DEF Crash
<1>12. ASSUME SyncPositions
       PROVE  ListsOK' /\ LedgerOK' /\ LocalsOK' /\ HistoryOK'
  <2>1. UNCHANGED <<lists, locals>>
    BY <1>12, PollFrame
  <2>2. LedgerOK'
    <3>1. Holdings \subseteq Holding /\ Flat \in Holding
      BY LedgerConstants DEF Flat, Holding
    <3>2. env.mirror \subseteq Symbol
      BY <1>v DEF Environment
    <3>3. QED
      BY <1>12, <1>v, <3>1, <3>2
         DEF SyncPositions, MirrorHolding, ListHolding, DropHolding, HashLapses,
             CrashPoll, LedgerOK, ledger, sizing
  <2>3. HistoryOK'
    <3>1. \A h \in Holdings : h.qty \in Nat
      BY LedgerConstants DEF Holding
    <3>2. QED
      BY <1>12, <1>v, <3>1
         DEF SyncPositions, MirrorHolding, ListHolding, DropHolding, HashLapses,
             CrashPoll, Race, HistoryOK, history
  <2>4. QED BY <2>1, <2>2, <2>3, <1>k
<1>13. CASE UNCHANGED vars
  BY <1>13, <1>k DEF vars
<1>14. QED
  BY <1>1, <1>2, <1>3, <1>4, <1>5, <1>6, <1>7, <1>8, <1>9, <1>10, <1>11, <1>12,
     <1>13 DEF Next

(* Every reachable state is well typed: lists hold fills, positions are    *)
(* never negative, a process in apply_fill holds the fill it books.        *)
THEOREM TypeCorrect == Spec => []TypeOK
  BY TypeInit, TypeNext, PTL DEF Spec

-----------------------------------------------------------------------------
(* The claim decides who books: the invariant behind AtMostOnce.           *)

(* Steps that touch neither a claim, nor a booking, nor what a process     *)
(* that owns a claim holds.                                                *)
LEMMA ClaimKept ==
  ASSUME ClaimInv, UNCHANGED <<dedupe, saves>>,
         \A p \in {Engine, Watcher} : Owns(p)' => Owns(p) /\ cur'[p] = cur[p]
  PROVE  ClaimInv'
  BY DEF ClaimInv, AtMostOnce, FillOf

(* The same step by step: only process p moves, and not into its claim.    *)
LEMMA OtherLabel ==
  ASSUME LocalsOK, NEW p \in Proc, NEW label \in Labels \ {"record", "save"},
         Goto(p, label), \A q \in Proc \ {p} : cur'[q] = cur[q],
         NEW q \in {Engine, Watcher}, Owns(q)'
  PROVE  Owns(q) /\ cur'[q] = cur[q]
  BY ProcDistinct DEF LocalsOK, Goto, Owns

LEMMA ClaimNext == TypeOK /\ ClaimInv /\ [Next]_vars => ClaimInv'
<1> SUFFICES ASSUME LocalsOK, HistoryOK, ClaimInv, [Next]_vars PROVE ClaimInv'
  BY DEF TypeOK
<1> USE ProcDistinct
<1>1. ASSUME NEW p \in Proc, ClaimTrade(p) PROVE ClaimInv'
  <2> DEFINE t == FillOf(p).tid
  <2>1. CASE t \in dedupe
    <3>1. Goto(p, "none") /\ "none" \in Labels \ {"record", "save"}
          /\ UNCHANGED <<dedupe, saves, cur>>
      BY <1>1, <2>1 DEF ClaimTrade, history, Labels
    <3>2. QED BY <3>1, ClaimKept, OtherLabel
  <2>2. CASE t \notin dedupe
    <3>1. /\ pc' = [pc EXCEPT ![p] = "record"] /\ dedupe' = dedupe \cup {t}
          /\ UNCHANGED <<cur, saves>>
      BY <1>1, <2>2 DEF ClaimTrade, Goto, history
    <3>2. p \in {Engine, Watcher} /\ t \in TradeId
      BY <1>1, HandType DEF ClaimTrade
    <3>3. saves[t] = 0
      BY <2>2, <3>2 DEF ClaimInv, AtMostOnce, HistoryOK
    <3>4. \A q \in {Engine, Watcher} \ {p} : Owns(q)' => Owns(q)
          /\ FillOf(q).tid # t
      BY <3>1, <2>2 DEF Owns, ClaimInv, LocalsOK
    <3>5. Owns(p)' /\ \A q \in {Engine, Watcher} : FillOf(q)' = FillOf(q)
      BY <3>1, <3>2 DEF Owns, LocalsOK, FillOf
    <3>6. QED
      BY <3>1, <3>2, <3>3, <3>4, <3>5 DEF ClaimInv, AtMostOnce
  <2>3. QED BY <2>1, <2>2
<1>2. ASSUME NEW p \in Proc, SavePosition(p) PROVE ClaimInv'
  <2> DEFINE t == FillOf(p).tid
  <2>1. /\ pc' = [pc EXCEPT ![p] = "index"]
        /\ saves' = [saves EXCEPT ![t] = @ + 1]
        /\ UNCHANGED <<cur, dedupe>>
    BY <1>2 DEF SavePosition, Goto
  <2>2. p \in {Engine, Watcher} /\ t \in TradeId /\ Owns(p)
    BY <1>2, HandType DEF SavePosition, Owns
  <2>3. saves[t] = 0 /\ t \in dedupe
    BY <2>2 DEF ClaimInv
  <2>4. \A q \in {Engine, Watcher} : Owns(q)' => q # p /\ Owns(q)
    BY <2>1, <2>2 DEF Owns, LocalsOK
  <2>5. \A q \in {Engine, Watcher} : FillOf(q)' = FillOf(q)
    BY <2>1 DEF FillOf
  <2>6. AtMostOnce'
    BY <2>1, <2>2, <2>3 DEF ClaimInv, AtMostOnce, HistoryOK
  <2>7. \A q \in {Engine, Watcher} : Owns(q)' =>
           FillOf(q)'.tid \in dedupe' /\ saves'[FillOf(q)'.tid] = 0
    <3>1. ASSUME NEW q \in {Engine, Watcher}, Owns(q)'
          PROVE  FillOf(q).tid # t /\ FillOf(q).tid \in dedupe
                 /\ saves[FillOf(q).tid] = 0 /\ FillOf(q).tid \in TradeId
      <4>1. Owns(q) /\ q # p
        BY <2>4, <3>1
      <4>2. pc[q] \notin {"idle", "recalc_read", "recalc_write"}
        BY <4>1 DEF Owns
      <4>3. QED BY <4>1, <4>2, <2>2, HandType DEF ClaimInv
    <3>2. QED BY <3>1, <2>1, <2>5 DEF HistoryOK
  <2>8. QED BY <2>2, <2>4, <2>6, <2>7 DEF ClaimInv
<1>3. ASSUME NEW p \in Proc, RecordTrade(p) PROVE ClaimInv'
  <2>1. pc' = [pc EXCEPT ![p] = "save"] /\ pc[p] = "record"
        /\ UNCHANGED <<cur, dedupe, saves>>
    BY <1>3 DEF RecordTrade, Goto, history
  <2>2. QED BY <2>1, ClaimKept DEF Owns, LocalsOK
<1>4. ASSUME NEW p \in Proc, UNCHANGED <<dedupe, saves>>,
             NEW label \in Labels \ {"record", "save"}, Goto(p, label),
             \A q \in Proc \ {p} : cur'[q] = cur[q]
      PROVE  ClaimInv'
  BY <1>4, ClaimKept, OtherLabel
<1>5. ASSUME UNCHANGED <<dedupe, saves, pc, cur>> PROVE ClaimInv'
  BY <1>5, ClaimKept DEF Owns
<1>6. ASSUME NEW p \in Proc, Apply(p) PROVE ClaimInv'
  <2>1. ASSUME NEW label \in Labels \ {"record", "save"}, Goto(p, label),
               UNCHANGED <<cur, dedupe, saves>>
        PROVE  ClaimInv'
    BY <2>1, <1>4
  <2> {"none", "read", "claim", "index", "pnl_read", "pnl_write",
       "recalc_read",
       "recalc_write", "applied", "idle",
         "dedup"} \subseteq Labels \ {"record", "save"}
    BY DEF Labels
  <2>2. CASE CheckDup(p)
    BY <2>1, <2>2 DEF CheckDup, ledger, history
  <2>3. CASE ReadPosition(p)
    BY <2>1, <2>3 DEF ReadPosition, ledger, history
  <2>4. CASE IndexPosition(p)
    BY <2>1, <2>4 DEF IndexPosition, history
  <2>5. CASE ReadPnl(p)
    BY <2>1, <2>5 DEF ReadPnl, ledger, history
  <2>6. CASE WritePnl(p)
    BY <2>1, <2>6 DEF WritePnl
  <2>7. CASE ReadForRecalc(p)
    BY <2>1, <2>7 DEF ReadForRecalc, ledger, history
  <2>8. CASE WriteRecalc(p)
    BY <2>1, <2>8 DEF WriteRecalc, history
  <2>9. QED
    BY <1>1, <1>2, <1>3, <1>6, <2>2, <2>3, <2>4, <2>5, <2>6, <2>7, <2>8
       DEF Apply
<1>7. ASSUME NEW p \in Proc, Finish(p), UNCHANGED <<dedupe, saves>>
      PROVE ClaimInv'
  <2>1. "idle" \in Labels \ {"record", "save"} BY DEF Labels
  <2>2. QED BY <1>7, <2>1, <1>4 DEF Finish, LocalsOK
<1>8. CASE PopFill
  <2>1. "dedup" \in Labels \ {"record", "save"} BY DEF Labels
  <2>2. QED BY <1>8, <2>1, <1>4, <1>5 DEF PopFill, LocalsOK, ledger, history
<1>9. ASSUME NEW f \in OrderFills, WatchFill(f) PROVE ClaimInv'
  <2>1. "dedup" \in Labels \ {"record", "save"} BY DEF Labels
  <2>2. QED BY <1>9, <2>1, <1>4 DEF WatchFill, LocalsOK, ledger, history
<1>10. CASE StartRecalc
  <2>1. "recalc_read" \in Labels \ {"record", "save"} BY DEF Labels
  <2>2. QED BY <1>10, <2>1, <1>4 DEF StartRecalc, ledger, history
<1>11. ASSUME NEW f \in QueueFills, PushFill(f) PROVE ClaimInv'
  BY <1>11, <1>5 DEF PushFill, ledger, locals, history
<1>12. CASE TakeDead \/ RequeueDead \/ UNCHANGED vars
  BY <1>12, <1>5 DEF TakeDead, RequeueDead, vars, ledger, locals, history
<1>13. CASE EngineReturn \/ EngineFails
  BY <1>13, <1>7 DEF EngineReturn, EngineFails, ledger, history
<1>14. CASE WatcherReturn \/ WatcherFails
  BY <1>14, <1>7 DEF WatcherReturn, WatcherFails, ledger, history
<1>15. ASSUME NEW p \in Proc, Crash(p) PROVE ClaimInv'
  BY <1>15, <1>7 DEF Crash, ledger
<1>16. CASE SyncPositions
  BY <1>16, <1>5, PollFrame DEF locals
<1>17. QED
  BY <1>6, <1>8, <1>9, <1>10, <1>11, <1>12, <1>13, <1>14, <1>15, <1>16 DEF Next

LEMMA ClaimInit == Init => ClaimInv
  BY ProcDistinct DEF Init, ClaimInv, AtMostOnce, Owns

(* However fills are delivered, raced, retried or cut off by a kill, a     *)
(* trade id changes the position at most once.                             *)
THEOREM BookedAtMostOnce == Spec => []AtMostOnce
<1>1. ClaimInv => AtMostOnce
  BY DEF ClaimInv
<1>2. QED BY <1>1, ClaimInit, ClaimNext, TypeCorrect, PTL DEF Spec

-----------------------------------------------------------------------------
(* No short positions: SavePosition and the exit poll write them.          *)

LEMMA NeverShortNext == TypeOK /\ NeverShort /\ [Next]_vars => NeverShort'
<1> SUFFICES ASSUME LedgerOK, LocalsOK, NeverShort, [Next]_vars
    PROVE NeverShort'
  BY DEF TypeOK
<1>1. ASSUME UNCHANGED pos PROVE NeverShort'
  BY <1>1 DEF NeverShort
<1>2. ASSUME NEW p \in Proc, SavePosition(p) PROVE NeverShort'
  <2> DEFINE f == FillOf(p)
             new == NewPosition(f, snap[p])
  <2>1. f \in Fill /\ f.sym \in Symbol /\ snap[p] \in Holding
    BY <1>2, HandType DEF SavePosition, LocalsOK
  <2>2. new \in Holding /\ (new.qty = 0 => new.avg = 0)
    <3>1. new \in Holding /\ SellQty(f, snap[p]) \in 0 .. snap[p].qty
      BY <2>1, BookingType
    <3>2. /\ f.qty \in Nat \ {0} /\ snap[p].qty \in Nat
          /\ f.side \in {"BUY", "SELL"}
      BY <2>1 DEF Fill, Holding
    <3>3. QED BY <3>1, <3>2 DEF NewPosition, NewAvg, QtyChange
  <2>3. pos' = [pos EXCEPT ![f.sym] = new]
    BY <1>2 DEF SavePosition
  <2>4. QED BY <2>1, <2>2, <2>3 DEF NeverShort, LedgerOK, Holding
<1>3. ASSUME NEW p \in Proc, Apply(p) PROVE NeverShort'
  BY <1>1, <1>2, <1>3
     DEF Apply, CheckDup, ReadPosition, ClaimTrade, RecordTrade, IndexPosition,
         ReadPnl, WritePnl, ReadForRecalc, WriteRecalc, ledger
<1>4. CASE SyncPositions
  <2>1. ASSUME NEW s \in Symbol, NEW h \in Holdings \cup {Flat},
               pos' = [pos EXCEPT ![s] = h]
        PROVE  NeverShort'
    <3>1. h.qty \in Nat /\ (h.qty = 0 => h.avg = 0)
      BY LedgerConstants DEF Flat, Holding
    <3>2. QED BY <2>1, <3>1 DEF NeverShort, LedgerOK
  <2>2. QED
    BY <1>4, <1>1, <2>1
       DEF SyncPositions, MirrorHolding, ListHolding, DropHolding, HashLapses,
           CrashPoll, ledger
<1>5. QED
  BY <1>1, <1>3, <1>4
     DEF Next, PushFill, PopFill, TakeDead, RequeueDead, WatchFill,
         StartRecalc, EngineReturn, WatcherReturn, EngineFails, WatcherFails,
         Crash, vars, ledger

(* Cash-only: whatever is delivered twice, late or at once, no position    *)
(* goes below zero and a flat one keeps no average price.                  *)
THEOREM CashOnly == Spec => []NeverShort
<1>1. Init => NeverShort
  BY DEF Init, NeverShort, Flat
<1>2. QED BY <1>1, NeverShortNext, TypeCorrect, PTL DEF Spec

-----------------------------------------------------------------------------
(* A fill is lost at most after its claim.                                 *)

OnList(q, t) == \E i \in 1..Len(q) : q[i].fill.tid = t

(* The fill is in the queue, dead-lettered, or in retry_dlq.py's hand.     *)
Elsewhere(t) ==
  \/ OnList(queue, t) \/ OnList(dlq, t)
  \/ hand # NoItem /\ hand.fill.tid = t

EngineHas(t) == pc[Engine] # "idle" /\ FillOf(Engine).tid = t

Booked == {"index", "pnl_read", "pnl_write", "recalc_read", "recalc_write",
           "applied"}

(* What is pushed stays within the engine's reach until it is claimed,     *)
(* whoever claims it; and where no command raises, a claimed id is booked  *)
(* or about to be.                                                         *)
Reached ==
  /\ \A f \in pushed : Elsewhere(f.tid) \/ EngineHas(f.tid) \/ f.tid \in dedupe
  /\ pc[Engine] = "none" =>
       FillOf(Engine).tid \in dedupe \/ Elsewhere(FillOf(Engine).tid)
SavedOnce ==
  \A p \in {Engine, Watcher} : pc[p] \in Booked => saves[FillOf(p).tid] = 1
ClaimIsBooked ==
  \A t \in dedupe : \/ saves[t] = 1
                    \/ \E p \in {Engine, Watcher} :
                         Owns(p) /\ FillOf(p).tid = t
ReachInv ==
  /\ crashes = 0 => Reached
  /\ SavedOnce
  /\ (crashes = 0 /\ ~env.faults) => ClaimIsBooked

(* LPUSH puts an item on a list and keeps what is there.                   *)
LEMMA PushKeeps ==
  ASSUME NEW q \in Seq(Item), NEW item \in Item, NEW t,
         item.fill.tid = t \/ OnList(q, t)
  PROVE  OnList(<<item>> \o q, t)
<1>1. CASE item.fill.tid = t
  <2>1. 1 \in 1..Len(<<item>> \o q) /\ (<<item>> \o q)[1] = item
    OBVIOUS
  <2>2. QED BY <1>1, <2>1 DEF OnList
<1>2. CASE OnList(q, t)
  <2>1. PICK i \in 1..Len(q) : q[i].fill.tid = t
    BY <1>2 DEF OnList
  <2>2. i + 1 \in 1..Len(<<item>> \o q) /\ (<<item>> \o q)[i + 1] = q[i]
    OBVIOUS
  <2>3. QED BY <2>1, <2>2 DEF OnList
<1>3. QED BY <1>1, <1>2

(* BRPOP takes the last item and LPOP the first; the others stay.          *)
LEMMA PopKeeps ==
  ASSUME NEW q \in Seq(Item), q # <<>>, NEW t, OnList(q, t)
  PROVE  /\ q[Len(q)].fill.tid = t \/ OnList(SubSeq(q, 1, Len(q) - 1), t)
         /\ Head(q).fill.tid = t \/ OnList(Tail(q), t)
<1>1. PICK i \in 1..Len(q) : q[i].fill.tid = t
  BY DEF OnList
<1>2. i # Len(q) => /\ i \in 1..Len(SubSeq(q, 1, Len(q) - 1))
                    /\ SubSeq(q, 1, Len(q) - 1)[i] = q[i]
  OBVIOUS
<1>3. i # 1 => i - 1 \in 1..Len(Tail(q)) /\ Tail(q)[i - 1] = q[i]
  OBVIOUS
<1>4. q[Len(q)].fill.tid = t \/ OnList(SubSeq(q, 1, Len(q) - 1), t)
  BY <1>1, <1>2 DEF OnList
<1>5. Head(q).fill.tid = t \/ OnList(Tail(q), t)
  <2>1. CASE i = 1
    BY <1>1, <2>1
  <2>2. CASE i # 1
    BY <1>1, <1>3, <2>2 DEF OnList
  <2>3. QED BY <2>1, <2>2
<1>6. QED BY <1>4, <1>5

(* Only the engine's BRPOP takes a fill out of the three places.           *)
LEMMA StaysElsewhere ==
  ASSUME ListsOK, LocalsOK, [Next]_vars, ~PopFill, NEW t, Elsewhere(t)
  PROVE  Elsewhere(t)'
<1>q. queue \in Seq(Item) /\ dlq \in Seq(Item)
  BY DEF ListsOK
<1>1. ASSUME UNCHANGED <<queue, dlq, hand>> PROVE Elsewhere(t)'
  BY <1>1 DEF Elsewhere
<1>2. ASSUME NEW item \in Item, queue' = <<item>> \o queue,
             UNCHANGED <<dlq, hand>>
      PROVE  Elsewhere(t)'
  BY <1>2, <1>q, PushKeeps DEF Elsewhere
<1>3. ASSUME NEW item \in Item, dlq' = <<item>> \o dlq,
             UNCHANGED <<queue, hand>>
      PROVE  Elsewhere(t)'
  BY <1>3, <1>q, PushKeeps DEF Elsewhere
<1>4. ASSUME NEW f \in QueueFills, PushFill(f) PROVE Elsewhere(t)'
  <2>1. [fill |-> f, retry |-> 0] \in Item
    BY LedgerConstants DEF Item
  <2>2. QED BY <1>2, <1>4, <2>1 DEF PushFill
<1>5. ASSUME TakeDead PROVE Elsewhere(t)'
  <2>1. /\ hand = NoItem /\ dlq # <<>> /\ hand' = Head(dlq) /\ dlq' = Tail(dlq)
        /\ queue' = queue
    BY <1>5 DEF TakeDead
  <2>2. Head(dlq) # NoItem
    BY <2>1, <1>q, ListType, LedgerConstants
  <2>3. QED BY <2>1, <2>2, <1>q, PopKeeps DEF Elsewhere
<1>6. ASSUME RequeueDead PROVE Elsewhere(t)'
  <2>1. PICK r \in {0, hand.retry} : queue'
        = <<[hand EXCEPT !.retry = r]>> \o queue
    BY <1>6 DEF RequeueDead
  <2>2. hand \in Item
    BY <1>6 DEF RequeueDead, ListsOK
  <2>5. /\ [hand EXCEPT !.retry = r] \in Item
        /\ [hand EXCEPT !.retry = r].fill = hand.fill
    BY <2>1, <2>2 DEF Item
  <2>3. dlq' = dlq
    BY <1>6 DEF RequeueDead
  <2>4. QED BY <2>1, <2>2, <2>3, <2>5, <1>q, PushKeeps DEF Elsewhere
<1>7. ASSUME NEW p \in Proc, Apply(p) PROVE Elsewhere(t)'
  <2>1. CASE ReadPosition(p)
    <3>1. cur[p] \in Item
      BY <2>1, HandType DEF ReadPosition
    <3>2. QED BY <2>1, <3>1, <1>1, <1>3 DEF ReadPosition
  <2>2. CASE ~ReadPosition(p)
    BY <1>1, <1>7, <2>2
       DEF Apply, CheckDup, ClaimTrade, RecordTrade, SavePosition,
           IndexPosition, ReadPnl, WritePnl, ReadForRecalc, WriteRecalc, lists
  <2>3. QED BY <2>1, <2>2
<1>8. ASSUME EngineFails PROVE Elsewhere(t)'
  <2>1. cur[Engine] \in Item
    BY <1>8, ProcDistinct DEF EngineFails, EngineMayFail, InApply, LocalsOK
  <2>2. [cur[Engine] EXCEPT !.retry = @ + 1] \in Item
    BY <2>1 DEF Item
  <2>3. QED BY <1>8, <2>1, <2>2, <1>2, <1>3 DEF EngineFails
<1>9. QED
  BY <1>1, <1>4, <1>5, <1>6, <1>7, <1>8, PollFrame
     DEF Next, WatchFill, StartRecalc, EngineReturn, WatcherReturn,
         WatcherFails, Crash, lists, vars

(* What the engine has, and what is known of it.                           *)
LEMMA KeysGrow ==
  ASSUME LocalsOK, HistoryOK, LedgerOK, ClaimInv, [Next]_vars
  PROVE  /\ dedupe \subseteq dedupe'
         /\ \A t \in TradeId : saves[t] = 1 => saves'[t] = 1
<1>1. ASSUME NEW p \in Proc, SavePosition(p)
      PROVE  \A t \in TradeId : saves[t] = 1 => saves'[t] = 1
  <2>1. /\ saves[FillOf(p).tid] = 0
        /\ saves' = [saves EXCEPT ![FillOf(p).tid] = @ + 1]
    BY <1>1, HandType DEF SavePosition, ClaimInv, Owns
  <2>2. QED BY <2>1 DEF HistoryOK
<1>2. \/ \E p \in Proc : SavePosition(p)
      \/ UNCHANGED saves
  BY PollFrame
     DEF Next, PushFill, PopFill, TakeDead, RequeueDead, WatchFill, Apply,
     CheckDup, ReadPosition, ClaimTrade, RecordTrade, IndexPosition,
     ReadPnl, WritePnl, ReadForRecalc, WriteRecalc, StartRecalc, EngineReturn,
     WatcherReturn, EngineFails, WatcherFails, Crash, vars, history
<1>3. dedupe \subseteq dedupe'
  BY PollFrame
     DEF Next, PushFill, PopFill, TakeDead, RequeueDead, WatchFill, Apply,
         CheckDup, ReadPosition, ClaimTrade, RecordTrade, SavePosition,
         IndexPosition, ReadPnl, WritePnl, ReadForRecalc, WriteRecalc,
         StartRecalc, EngineReturn, WatcherReturn, EngineFails, WatcherFails,
         Crash, vars, ledger
<1>4. QED BY <1>1, <1>2, <1>3

LEMMA SavedOnceNext ==
  ASSUME LocalsOK, HistoryOK, LedgerOK, ClaimInv, SavedOnce, [Next]_vars
  PROVE  SavedOnce'
<1>1. ASSUME NEW p \in {Engine, Watcher}, pc'[p] \in Booked, pc[p] \in Booked,
             cur'[p] = cur[p]
      PROVE  saves'[FillOf(p)'.tid] = 1
  <2>1. FillOf(p)' = FillOf(p) /\ saves[FillOf(p).tid] = 1
    BY <1>1 DEF FillOf, SavedOnce
  <2>2. cur[p] \in Item /\ FillOf(p).tid \in TradeId
    BY <1>1 DEF LocalsOK, Booked, FillOf, Item, Fill
  <2>3. QED BY <2>1, <2>2, KeysGrow
<1>2. ASSUME NEW p \in {Engine, Watcher}, SavePosition(p)
      PROVE  saves'[FillOf(p)'.tid] = 1
  <2>1. /\ saves[FillOf(p).tid] = 0
        /\ saves' = [saves EXCEPT ![FillOf(p).tid] = @ + 1]
        /\ FillOf(p)' = FillOf(p) /\ FillOf(p).tid \in TradeId
    BY <1>2, HandType, ProcDistinct DEF SavePosition, ClaimInv, Owns, FillOf
  <2>2. QED BY <2>1 DEF HistoryOK
<1>3. ASSUME NEW p \in {Engine, Watcher}, pc'[p] \in Booked
      PROVE  \/ SavePosition(p)
             \/ pc[p] \in Booked /\ cur'[p] = cur[p]
  <2>1. ASSUME NEW q \in Proc, Apply(q)
        PROVE  SavePosition(p) \/ (pc[p] \in Booked /\ cur'[p] = cur[p])
    <3>1. CASE q # p
      BY <1>3, <2>1, <3>1, ProcDistinct
         DEF Apply, CheckDup, ReadPosition, ClaimTrade, RecordTrade,
             IndexPosition, SavePosition, ReadPnl, WritePnl, ReadForRecalc,
             WriteRecalc, LocalsOK, Goto
    <3>2. CASE q = p
      BY <1>3, <2>1, <3>2, ProcDistinct
         DEF Apply, CheckDup, ReadPosition, ClaimTrade, RecordTrade,
             IndexPosition, SavePosition, ReadPnl, WritePnl, ReadForRecalc,
             WriteRecalc, LocalsOK, Goto, Booked
    <3>3. QED BY <3>1, <3>2
  <2>2. ASSUME NEW q \in Proc, NEW label \in {"idle", "dedup", "recalc_read"},
               Goto(q, label), \A x \in Proc \ {q} : cur'[x] = cur[x],
               q = Updater \/ label # "recalc_read"
        PROVE  pc[p] \in Booked /\ cur'[p] = cur[p]
    BY <1>3, <2>2, ProcDistinct DEF LocalsOK, Goto, Booked
  <2>3. ASSUME UNCHANGED <<pc, cur>> PROVE pc[p] \in Booked /\ cur'[p] = cur[p]
    BY <1>3, <2>3
  <2>4. ASSUME NEW q \in Proc, Finish(q)
        PROVE pc[p] \in Booked /\ cur'[p] = cur[p]
    BY <2>2, <2>4 DEF Finish, LocalsOK
  <2>5. CASE PopFill
    BY <2>2, <2>3, <2>5, ProcDistinct DEF PopFill, LocalsOK
  <2>6. CASE \E f \in OrderFills : WatchFill(f)
    BY <2>2, <2>6, ProcDistinct DEF WatchFill, LocalsOK
  <2>7. CASE StartRecalc
    BY <2>2, <2>7, ProcDistinct DEF StartRecalc
  <2>8. QED
    BY <2>1, <2>3, <2>4, <2>5, <2>6, <2>7, ProcDistinct, PollFrame
       DEF Next, PushFill, TakeDead, RequeueDead, EngineReturn, WatcherReturn,
           EngineFails, WatcherFails, Crash, vars, locals
<1>4. QED BY <1>1, <1>2, <1>3 DEF SavedOnce

(* A process that owns a claim goes on owning it until it saves, unless a  *)
(* command raises or it is killed.                                         *)
LEMMA OwnerSaves ==
  ASSUME LocalsOK, [Next]_vars, ~EngineFails, ~WatcherFails,
         \A q \in Proc : ~Crash(q),
         NEW p \in {Engine, Watcher}, Owns(p)
  PROVE  SavePosition(p) \/ (Owns(p)' /\ cur'[p] = cur[p])
<1>o. pc[p] \in {"record", "save"}
  BY DEF Owns
<1>1. ASSUME NEW q \in Proc, Apply(q)
      PROVE SavePosition(p) \/ (Owns(p)' /\ cur'[p] = cur[p])
  <2>1. CASE q # p
    BY <1>o, <1>1, <2>1, ProcDistinct
       DEF Apply, CheckDup, ReadPosition, ClaimTrade, RecordTrade,
           IndexPosition, SavePosition, ReadPnl, WritePnl, ReadForRecalc,
           WriteRecalc, LocalsOK, Goto, Owns
  <2>2. CASE q = p
    BY <1>o, <1>1, <2>2, ProcDistinct
       DEF Apply, CheckDup, ReadPosition, ClaimTrade, RecordTrade,
           IndexPosition, ReadPnl, WritePnl, ReadForRecalc, WriteRecalc,
           LocalsOK, Goto, Owns
  <2>3. QED BY <2>1, <2>2
<1>2. CASE PopFill \/ EngineReturn
  BY <1>o, <1>2, ProcDistinct
     DEF PopFill, EngineReturn, Finish, Goto, LocalsOK, Owns
<1>3. CASE WatcherReturn \/ \E f \in OrderFills : WatchFill(f)
  BY <1>o, <1>3, ProcDistinct
     DEF WatchFill, WatcherReturn, Finish, Goto, LocalsOK, Owns
<1>4. CASE StartRecalc
  BY <1>o, <1>4, ProcDistinct DEF StartRecalc, Goto, LocalsOK, Owns
<1>5. CASE UNCHANGED locals
  BY <1>o, <1>5 DEF locals, Owns
<1>6. QED
  BY <1>1, <1>2, <1>3, <1>4, <1>5, PollFrame
     DEF Next, PushFill, TakeDead, RequeueDead, vars

LEMMA ClaimIsBookedNext ==
  ASSUME TypeOK, ClaimInv, ClaimIsBooked, [Next]_vars, ~EngineFails,
         ~WatcherFails,
         \A q \in Proc : ~Crash(q)
  PROVE  ClaimIsBooked'
<1>t. LocalsOK /\ HistoryOK /\ LedgerOK
  BY DEF TypeOK
<1>1. ASSUME NEW t \in dedupe
      PROVE  \/ saves'[t] = 1
             \/ \E p \in {Engine, Watcher} : Owns(p)' /\ FillOf(p)'.tid = t
  <2>1. CASE saves[t] = 1
    BY <2>1, <1>t, KeysGrow DEF LedgerOK
  <2>2. ASSUME NEW p \in {Engine, Watcher}, Owns(p), FillOf(p).tid = t
        PROVE  saves'[t] = 1 \/ (Owns(p)' /\ FillOf(p)'.tid = t)
    <3>1. CASE SavePosition(p)
      <4>1. /\ saves[t] = 0 /\ saves' = [saves EXCEPT ![t] = @ + 1]
            /\ t \in TradeId
        BY <2>2, <3>1, <1>t DEF SavePosition, ClaimInv, LedgerOK
      <4>2. QED BY <4>1, <1>t DEF HistoryOK
    <3>2. CASE ~SavePosition(p)
      BY <2>2, <3>2, <1>t, OwnerSaves DEF FillOf
    <3>3. QED BY <3>1, <3>2
  <2>3. QED BY <2>1, <2>2 DEF ClaimIsBooked
<1>2. ASSUME NEW p \in Proc, ClaimTrade(p), FillOf(p).tid \notin dedupe
      PROVE  /\ dedupe' = dedupe \cup {FillOf(p).tid}
             /\ p \in {Engine, Watcher} /\ Owns(p)' /\ FillOf(p)' = FillOf(p)
  <2>1. p \in {Engine, Watcher}
    BY <1>2, <1>t, HandType DEF ClaimTrade
  <2>2. QED BY <1>2, <2>1, <1>t DEF ClaimTrade, Goto, Owns, FillOf, LocalsOK
<1>3. \/ \E p \in Proc : ClaimTrade(p) /\ FillOf(p).tid \notin dedupe
      \/ UNCHANGED dedupe
  BY PollFrame
     DEF Next, PushFill, PopFill, TakeDead, RequeueDead, WatchFill, Apply,
         CheckDup, ReadPosition, ClaimTrade, RecordTrade, SavePosition,
         IndexPosition, ReadPnl, WritePnl, ReadForRecalc, WriteRecalc,
         StartRecalc, EngineReturn, WatcherReturn, EngineFails, WatcherFails,
         Crash, vars, ledger
<1>4. QED BY <1>1, <1>2, <1>3 DEF ClaimIsBooked

(* What the engine may do with the fill it has.                            *)
LEMMA EngineStep ==
  ASSUME LocalsOK, [Next]_vars, \A q \in Proc : ~Crash(q), pc[Engine] # "idle"
  PROVE  \/ EngineReturn \/ EngineFails
         \/ /\ pc'[Engine] # "idle" /\ cur'[Engine] = cur[Engine]
            /\ \/ pc'[Engine] = pc[Engine] \/ Apply(Engine)
<1>1. ASSUME NEW q \in Proc, Apply(q)
      PROVE  /\ pc'[Engine] # "idle" /\ cur'[Engine] = cur[Engine]
             /\ \/ pc'[Engine] = pc[Engine] \/ Apply(Engine)
  <2>1. CASE q # Engine
    BY <1>1, <2>1, ProcDistinct
       DEF Apply, CheckDup, ReadPosition, ClaimTrade, RecordTrade,
           IndexPosition, SavePosition, ReadPnl, WritePnl, ReadForRecalc,
           WriteRecalc, LocalsOK, Goto
  <2>2. CASE q = Engine
    <3>1. cur'[Engine] = cur[Engine] /\ pc'[Engine] # "idle"
      BY <1>1, <2>2, ProcDistinct
         DEF Apply, CheckDup, ReadPosition, ClaimTrade, RecordTrade,
             IndexPosition, SavePosition, ReadPnl, WritePnl, ReadForRecalc,
             WriteRecalc, LocalsOK, Goto
    <3>2. QED BY <1>1, <2>2, <3>1
  <2>3. QED BY <2>1, <2>2
<1>2. CASE WatcherReturn \/ WatcherFails \/ StartRecalc
           \/ \E f \in OrderFills : WatchFill(f)
  BY <1>2, ProcDistinct
     DEF WatchFill, WatcherReturn, WatcherFails, StartRecalc, Finish, Goto,
         LocalsOK
<1>3. CASE UNCHANGED locals
  BY <1>3 DEF locals
<1>4. ~PopFill
  BY DEF PopFill
<1>5. QED
  BY <1>1, <1>2, <1>3, <1>4, PollFrame
     DEF Next, PushFill, TakeDead, RequeueDead, vars

LEMMA ReachedNext ==
  ASSUME TypeOK, ClaimInv, SavedOnce, Reached, [Next]_vars,
         \A q \in Proc : ~Crash(q)
  PROVE  Reached'
<1>t. ListsOK /\ LocalsOK /\ HistoryOK /\ LedgerOK
  BY DEF TypeOK
<1>g. dedupe \subseteq dedupe'
  BY <1>t, KeysGrow
<1>q. queue \in Seq(Item) /\ dlq \in Seq(Item)
  BY <1>t DEF ListsOK
<1> DEFINE Known(t) == Elsewhere(t) \/ EngineHas(t) \/ t \in dedupe
<1>1. CASE PopFill
  <2> DEFINE item == queue[Len(queue)]
             rest == SubSeq(queue, 1, Len(queue) - 1)
  <2>1. /\ pc[Engine] = "idle" /\ queue # <<>> /\ queue' = rest
        /\ UNCHANGED <<hand, pushed, dedupe>> /\ item \in Item
    BY <1>1, <1>q, ListType DEF PopFill, ledger
  <2>2. ASSUME NEW t, Elsewhere(t) PROVE Elsewhere(t)' \/ EngineHas(t)'
    <3>1. CASE item.fill.ok
      <4>1. /\ cur' = [cur EXCEPT ![Engine] = item] /\ Goto(Engine, "dedup")
            /\ dlq' = dlq
        BY <1>1, <3>1 DEF PopFill
      <4>2. pc'[Engine] # "idle" /\ FillOf(Engine)' = item.fill
        BY <4>1, <1>t, ProcDistinct DEF LocalsOK, Goto, FillOf
      <4>3. QED BY <4>1, <4>2, <2>1, <2>2, <1>q, PopKeeps
                   DEF Elsewhere, EngineHas
    <3>2. CASE ~item.fill.ok
      <4>1. dlq' = <<item>> \o dlq
        BY <1>1, <3>2 DEF PopFill
      <4>2. OnList(queue, t) => item.fill.tid = t \/ OnList(rest, t)
        BY <2>1, <1>q, PopKeeps
      <4>3. item.fill.tid = t \/ OnList(dlq, t) => OnList(<<item>> \o dlq, t)
        BY <2>1, <1>q, PushKeeps
      <4>4. QED BY <4>1, <4>2, <4>3, <2>1, <2>2 DEF Elsewhere
    <3>3. QED BY <3>1, <3>2
  <2>3. ~EngineHas(0) /\ \A t : ~EngineHas(t)
    BY <2>1 DEF EngineHas
  <2>4. pc'[Engine] # "none"
    BY <1>1, <1>t, ProcDistinct DEF PopFill, Goto, LocalsOK
  <2>5. QED BY <2>1, <2>2, <2>3, <2>4 DEF Reached
<1>2. CASE ~PopFill
  <2>1. \A t : Elsewhere(t) => Elsewhere(t)'
    BY <1>2, <1>t, StaysElsewhere
  <2>2. ASSUME pc[Engine] # "idle", NEW t, t = FillOf(Engine).tid
        PROVE  Elsewhere(t)' \/ EngineHas(t)' \/ t \in dedupe'
    <3>1. CASE EngineReturn
      <4>1. CASE pc[Engine] = "none"
        BY <4>1, <2>1, <2>2, <1>g DEF Reached
      <4>2. CASE pc[Engine] = "applied"
        <5>1. saves[t] = 1 /\ t \in TradeId
          BY <4>2, <2>2, <1>t, HandType, ProcDistinct DEF SavedOnce, Booked
        <5>2. QED BY <5>1, <1>g DEF ClaimInv, AtMostOnce
      <4>3. QED BY <3>1, <4>1, <4>2 DEF EngineReturn
    <3>2. CASE EngineFails
      <4>1. cur[Engine] \in Item
        BY <2>2, <1>t, ProcDistinct DEF LocalsOK
      <4>2. [cur[Engine] EXCEPT !.retry = @ + 1] \in Item
            /\ [cur[Engine] EXCEPT !.retry = @ + 1].fill = cur[Engine].fill
        BY <4>1 DEF Item
      <4>3. \/ dlq' = <<cur[Engine]>> \o dlq
            \/ queue' = <<[cur[Engine] EXCEPT !.retry = @ + 1]>> \o queue
        BY <3>2 DEF EngineFails
      <4>4. OnList(queue', t) \/ OnList(dlq', t)
        BY <4>1, <4>2, <4>3, <2>2, <1>q, PushKeeps DEF FillOf
      <4>5. QED BY <4>4 DEF Elsewhere
    <3>3. CASE pc'[Engine] # "idle" /\ cur'[Engine] = cur[Engine]
      BY <3>3, <2>2 DEF EngineHas, FillOf
    <3>4. QED BY <2>2, <3>1, <3>2, <3>3, <1>t, EngineStep
  <2>3. \A f \in pushed' : Elsewhere(f.tid)' \/ EngineHas(f.tid)'
        \/ f.tid \in dedupe'
    <3>1. \A f \in pushed : Elsewhere(f.tid)' \/ EngineHas(f.tid)'
          \/ f.tid \in dedupe'
      BY <2>1, <2>2, <1>g DEF Reached, EngineHas
    <3>2. ASSUME NEW f \in QueueFills, PushFill(f)
          PROVE  pushed' = pushed \cup {f} /\ Elsewhere(f.tid)'
      <4>1. [fill |-> f, retry |-> 0] \in Item
        BY LedgerConstants DEF Item
      <4>2. OnList(queue', f.tid)
        BY <3>2, <4>1, <1>q, PushKeeps DEF PushFill
      <4>3. QED BY <3>2, <4>2 DEF PushFill, Elsewhere
    <3>3. \/ \E f \in QueueFills : PushFill(f)
          \/ UNCHANGED pushed
      BY <1>2, PollFrame
         DEF Next, TakeDead, RequeueDead, WatchFill, Apply, CheckDup,
             ReadPosition, ClaimTrade, RecordTrade, SavePosition,
             IndexPosition, ReadPnl, WritePnl, ReadForRecalc, WriteRecalc,
             StartRecalc, EngineReturn, WatcherReturn, EngineFails,
             WatcherFails, Crash, vars, lists
    <3>4. QED BY <3>1, <3>2, <3>3
  <2>4. ASSUME pc'[Engine] = "none", NEW t, t = FillOf(Engine)'.tid
        PROVE  t \in dedupe' \/ Elsewhere(t)'
    <3>1. pc[Engine] # "idle"
      <4>1. SUFFICES ASSUME pc[Engine] = "idle" PROVE pc'[Engine] = "idle"
        BY <2>4
      <4>2. ASSUME NEW q \in Proc, Apply(q) PROVE pc'[Engine] = "idle"
        <5>1. q # Engine
          BY <4>1, <4>2
             DEF Apply, CheckDup, ReadPosition, ClaimTrade, RecordTrade,
                 IndexPosition, SavePosition, ReadPnl, WritePnl, ReadForRecalc,
                 WriteRecalc
        <5>2. PICK label : Goto(q, label)
          BY <4>2
             DEF Apply, CheckDup, ReadPosition, ClaimTrade, RecordTrade,
                 IndexPosition, SavePosition, ReadPnl, WritePnl, ReadForRecalc,
                 WriteRecalc
        <5>3. QED BY <4>1, <5>1, <5>2, <1>t, ProcDistinct DEF LocalsOK, Goto
      <4>3. CASE UNCHANGED locals
        BY <4>1, <4>3 DEF locals
      <4>4. CASE \/ WatcherReturn \/ WatcherFails \/ StartRecalc
                 \/ \E f \in OrderFills : WatchFill(f)
        BY <4>1, <4>4, <1>t, ProcDistinct
           DEF WatchFill, WatcherReturn, WatcherFails, StartRecalc, Finish,
               Goto, LocalsOK
      <4>5. ~EngineReturn /\ ~EngineFails
        BY <4>1 DEF EngineReturn, EngineFails, EngineMayFail, InApply
      <4>6. QED
        BY <4>2, <4>3, <4>4, <4>5, <1>2, PollFrame
           DEF Next, PushFill, TakeDead, RequeueDead, vars
    <3>2. ~EngineReturn /\ ~EngineFails
      BY <2>4, <1>t, ProcDistinct
         DEF EngineReturn, EngineFails, Finish, Goto, LocalsOK
    <3>3. t = FillOf(Engine).tid /\ (pc[Engine] = "none" \/ Apply(Engine))
      BY <2>4, <3>1, <3>2, <1>t, EngineStep DEF FillOf
    <3>4. CASE pc[Engine] = "none"
      BY <3>3, <3>4, <2>1, <1>g DEF Reached
    <3>5. ASSUME Apply(Engine) PROVE t \in dedupe' \/ Elsewhere(t)'
      <4>1. CASE CheckDup(Engine)
        BY <2>4, <3>3, <4>1, <1>t, <1>g, ProcDistinct
           DEF CheckDup, Goto, LocalsOK
      <4>2. CASE ReadPosition(Engine)
        <5>1. dlq' = <<cur[Engine]>> \o dlq /\ cur[Engine] \in Item
          BY <2>4, <4>2, <1>t, HandType, ProcDistinct
             DEF ReadPosition, Goto, LocalsOK
        <5>2. OnList(dlq', t)
          BY <5>1, <3>3, <1>q, PushKeeps DEF FillOf
        <5>3. QED BY <5>2 DEF Elsewhere
      <4>3. CASE ClaimTrade(Engine)
        BY <2>4, <3>3, <4>3, <1>t, ProcDistinct DEF ClaimTrade, Goto, LocalsOK
      <4>4. QED
        BY <2>4, <3>5, <4>1, <4>2, <4>3, <1>t, ProcDistinct
           DEF Apply, RecordTrade, SavePosition, IndexPosition, ReadPnl,
               WritePnl, ReadForRecalc, WriteRecalc, Goto, LocalsOK
    <3>6. QED BY <3>3, <3>4, <3>5
  <2>5. QED BY <2>3, <2>4 DEF Reached, Elsewhere, OnList
<1>3. QED BY <1>1, <1>2

(* Kills are counted, so that before the first one there was none.         *)
LEMMA CrashesGrow ==
  HistoryOK /\ [Next]_vars /\ crashes' = 0 => crashes = 0
    /\ \A q \in Proc : ~Crash(q)
<1>0. ASSUME NEW p \in Proc, Apply(p) PROVE UNCHANGED crashes
  BY <1>0
     DEF Apply, CheckDup, ReadPosition, ClaimTrade, RecordTrade, SavePosition,
         IndexPosition, ReadPnl, WritePnl, ReadForRecalc, WriteRecalc, history
<1>1. [Next]_vars => \/ \E q \in Proc : Crash(q)
                     \/ CrashPoll
                     \/ UNCHANGED crashes
  BY <1>0
     DEF Next, SyncPositions, MirrorHolding, ListHolding, DropHolding,
         HashLapses, PushFill, PopFill, TakeDead, RequeueDead, WatchFill,
         StartRecalc, EngineReturn, WatcherReturn, EngineFails, WatcherFails,
         vars, history
<1>2. ASSUME HistoryOK, crashes' = crashes + 1 PROVE crashes' # 0
  BY <1>2 DEF HistoryOK
<1>3. QED BY <1>1, <1>2 DEF Crash, CrashPoll

LEMMA ReachNext == TypeOK /\ ClaimInv /\ ReachInv /\ [Next]_vars => ReachInv'
<1> SUFFICES ASSUME TypeOK, ClaimInv, ReachInv, [Next]_vars PROVE ReachInv'
  OBVIOUS
<1>t. ListsOK /\ LocalsOK /\ HistoryOK /\ LedgerOK
  BY DEF TypeOK
<1>1. crashes' = 0 => Reached'
  BY <1>t, CrashesGrow, ReachedNext DEF ReachInv
<1>2. SavedOnce'
  BY <1>t, SavedOnceNext DEF ReachInv
<1>3. crashes' = 0 /\ ~env'.faults => ClaimIsBooked'
  <2>1. SUFFICES ASSUME crashes' = 0, ~env'.faults PROVE ClaimIsBooked'
    OBVIOUS
  <2>2. ~env.faults
    BY <2>1, EnvFixed
  <2>3. ~EngineFails /\ ~WatcherFails
    BY <2>2 DEF EngineFails, WatcherFails
  <2>4. QED BY <1>t, <2>1, <2>2, <2>3, CrashesGrow, ClaimIsBookedNext
               DEF ReachInv
<1>4. QED BY <1>1, <1>2, <1>3 DEF ReachInv

LEMMA ReachInit == Init => ReachInv
  BY ProcDistinct DEF Init, ReachInv, Reached, SavedOnce, ClaimIsBooked, Booked

(* An error or a retry alone loses no fill: one that was pushed is queued, *)
(* dead-lettered, in hand or booked, unless a process was killed or a      *)
(* command raised after its id had been claimed.                           *)
THEOREM LostAfterClaimOnly == Spec => []LostOnlyAfterClaim
<1>2. TypeOK /\ ClaimInv /\ ReachInv => LostOnlyAfterClaim
  <2> SUFFICES ASSUME TypeOK, ClaimInv, ReachInv, NEW f \in pushed, crashes = 0
               PROVE  \/ InFlight(f.tid) \/ saves[f.tid] = 1
                      \/ env.faults /\ f.tid \in dedupe
    BY DEF LostOnlyAfterClaim, TypeOK, HistoryOK
  <2>1. Elsewhere(f.tid) => InFlight(f.tid)
    BY DEF Elsewhere, OnList, InFlight
  <2>2. EngineHas(f.tid) => InFlight(f.tid)
    <3>1. pc[Engine] # "idle" => cur[Engine] # NoItem
      BY LedgerConstants DEF TypeOK, LocalsOK
    <3>2. QED BY <3>1 DEF EngineHas, InFlight
  <2>3. ASSUME NEW p \in {Engine, Watcher}, Owns(p), FillOf(p).tid = f.tid
        PROVE  InFlight(f.tid)
    <3>1. cur[p] \in Item
      BY <2>3 DEF TypeOK, LocalsOK, Owns
    <3>2. QED BY <2>3, <3>1, LedgerConstants DEF InFlight
  <2>4. QED BY <2>1, <2>2, <2>3 DEF ReachInv, Reached, ClaimIsBooked
<1>3. QED BY <1>2, ReachInit, ReachNext, TypeCorrect, ClaimInit, ClaimNext,
             PTL DEF Spec

-----------------------------------------------------------------------------
(* A key nobody raced holds what was booked.                               *)

Late == {"index", "pnl_read", "pnl_write"}
Bookers == {Engine, Watcher}

(* What a process read of a position nobody raced is still there, until it *)
(* writes, and what it wrote until it is indexed.                          *)
PositionKept ==
  /\ \A s \in Symbol \ raced : pos[s].qty = net[s]
  /\ \A p \in Bookers, s \in Symbol \ raced : Holds(p, s) =>
       pos[s] = IF pc[p] = "index" THEN NewPosition(FillOf(p), snap[p])
                ELSE snap[p]

(* The same of realized_pnl.                                               *)
PnlKept ==
  Pnl \notin raced =>
    /\ realized = earned
    /\ \A p \in Proc : HoldsPnl(p) => reg[p] = realized

(* Who is idle where the environment has no part for it, and what that     *)
(* says of the keys that are raced.                                        *)
Idlers ==
  /\ env.orders = {} => pc[Watcher] = "idle"
  /\ ~env.marking => pc[Updater] = "idle"

RacersKnown ==
  /\ \A s \in Symbol \cap raced : env.orders # {} \/ s \in env.mirror
  /\ Pnl \in raced => env.orders # {} \/ env.marking

(* What a fill earns is computed from the position its process read.       *)
DeltaIsSale ==
  \A p \in Bookers :
    LET f == FillOf(p) IN
    /\ pc[p] \in {"claim", "record", "save"} /\ f.side = "SELL" =>
         /\ SellQty(f, snap[p]) > 0
         /\ delta[p] = RealizedDelta(f, snap[p])
    /\ pc[p] \in {"claim", "record", "save", "index"} /\ f.side # "SELL" =>
         delta[p] = 0

(* A claimed trade is settled once, by the process that claimed it, and    *)
(* with the amount the trade's own hash says.                              *)
Claims(p) == pc[p] \in {"record", "save"} \cup Late
Unsettled ==
  /\ \A t \in settled : saves[t] = 1
  /\ \A p \in Bookers : Claims(p) => FillOf(p).tid \in dedupe \ settled
  /\ \A p \in Bookers : pc[p] \in {"save"} \cup Late =>
       FillOf(p).tid \in DOMAIN trades /\ trades[FillOf(p).tid] = delta[p]
  /\ Claims(Engine) /\ Claims(Watcher) => FillOf(Engine).tid # FillOf(Watcher).tid

(* Where nothing fails, what is missing is on its way.                     *)
OnItsWay ==
  Undisturbed =>
    /\ \A t \in TradeId : Owed(t) # 0 =>
         \E p \in Bookers : pc[p] \in Late /\ FillOf(p).tid = t
    /\ \A s \in Sure : \/ s \in index <=> pos[s].qty > 0
                       \/ \E p \in Bookers : pc[p] = "index" /\ FillOf(p).sym = s

BooksInv ==
  /\ PositionKept /\ PnlKept /\ Idlers /\ RacersKnown /\ DeltaIsSale
  /\ Unsettled /\ OnItsWay

(* Steps of the loops around apply_fill: nothing of the books changes, and *)
(* a process goes on where it was, or is before its first read.            *)
Quiet ==
  /\ UNCHANGED <<env, ledger, snap, delta, reg, saves, net, settled, earned,
                 raced>>
  /\ \A p \in Proc : \/ pc'[p] = pc[p] /\ cur'[p] = cur[p]
                     \/ pc'[p] \in {"idle", "dedup", "recalc_read"}
  /\ env.orders = {} /\ pc[Watcher] = "idle" => pc'[Watcher] = "idle"
  /\ ~env.marking /\ pc[Updater] = "idle" => pc'[Updater] = "idle"
  /\ Undisturbed => \A p \in Bookers : pc[p] \in Late =>
       pc'[p] = pc[p] /\ cur'[p] = cur[p]

LEMMA QuietMove ==
  ASSUME LocalsOK, NEW p \in Proc,
         \A q \in Proc \ {p} : pc'[q] = pc[q] /\ cur'[q] = cur[q],
         pc'[p] \in {"idle", "dedup", "recalc_read"},
         p = Watcher /\ env.orders = {} /\ pc[p] = "idle" => pc'[p] = "idle",
         p = Updater /\ ~env.marking /\ pc[p] = "idle" => pc'[p] = "idle",
         Undisturbed => pc[p] \notin Late,
         UNCHANGED <<env, ledger, snap, delta, reg, saves, net, settled,
                     earned, raced>>
  PROVE  Quiet
  BY ProcDistinct DEF Quiet, Bookers

LEMMA Kinds ==
  ASSUME TypeOK, [Next]_vars
  PROVE  (\E p \in Proc : Apply(p)) \/ SyncPositions \/ Quiet
<1>t. LocalsOK /\ HistoryOK
  BY DEF TypeOK
<1>l. pc \in [Proc -> Labels] /\ cur \in [Proc -> Item \cup {NoItem}]
  BY <1>t DEF LocalsOK
<1>1. ASSUME UNCHANGED <<env, ledger, locals, history>> PROVE Quiet
  BY <1>1 DEF Quiet, locals, history
<1>2. ASSUME NEW p \in Proc, Finish(p), Undisturbed => pc[p] \notin Late,
             UNCHANGED <<env, ledger, snap, delta, reg, saves, net, settled,
                         earned, raced>>
      PROVE  Quiet
  <2>1. pc'[p] = "idle"
        /\ \A q \in Proc \ {p} : pc'[q] = pc[q] /\ cur'[q] = cur[q]
    BY <1>2, <1>l DEF Finish, Goto
  <2>2. QED BY <1>2, <1>t, <2>1, QuietMove
<1>3. CASE PopFill
  <2>1. CASE UNCHANGED <<pc, cur>>
    BY <1>3, <2>1, <1>1 DEF PopFill, locals
  <2>2. CASE Goto(Engine, "dedup")
             /\ cur' = [cur EXCEPT ![Engine] = queue[Len(queue)]]
    <3>1. /\ pc'[Engine] = "dedup" /\ pc[Engine] = "idle"
          /\ \A q \in Proc \ {Engine} : pc'[q] = pc[q] /\ cur'[q] = cur[q]
      BY <1>3, <2>2, <1>l, ProcDistinct DEF PopFill, Goto
    <3>2. UNCHANGED <<env, ledger, snap, delta, reg, saves, net, settled,
                      earned, raced>>
      BY <1>3 DEF PopFill, history
    <3>3. QED BY <3>1, <3>2, <1>t, QuietMove, ProcDistinct DEF Late
  <2>3. QED BY <1>3, <2>1, <2>2 DEF PopFill
<1>4. ASSUME NEW f \in OrderFills, WatchFill(f) PROVE Quiet
  <2>1. /\ pc'[Watcher] = "dedup" /\ pc[Watcher] = "idle" /\ env.orders # {}
        /\ \A q \in Proc \ {Watcher} : pc'[q] = pc[q] /\ cur'[q] = cur[q]
    BY <1>4, <1>l, ProcDistinct DEF WatchFill, Goto
  <2>2. UNCHANGED <<env, ledger, snap, delta, reg, saves, net, settled,
                    earned, raced>>
    BY <1>4 DEF WatchFill, history
  <2>3. QED BY <2>1, <2>2, <1>t, QuietMove, ProcDistinct DEF Late
<1>5. CASE StartRecalc
  <2>1. /\ pc'[Updater] = "recalc_read" /\ pc[Updater] = "idle" /\ env.marking
        /\ \A q \in Proc \ {Updater} : pc'[q] = pc[q] /\ cur'[q] = cur[q]
    BY <1>5, <1>l, ProcDistinct DEF StartRecalc, Goto
  <2>2. UNCHANGED <<env, ledger, snap, delta, reg, saves, net, settled,
                    earned, raced>>
    BY <1>5 DEF StartRecalc, history
  <2>3. QED BY <2>1, <2>2, <1>t, QuietMove, ProcDistinct DEF Late
<1>6. CASE EngineReturn
  <2>1. Finish(Engine) /\ pc[Engine] \notin Late
        /\ UNCHANGED <<env, ledger, snap, delta, reg, saves, net, settled,
                       earned, raced>>
    BY <1>6 DEF EngineReturn, Late, history
  <2>2. QED BY <2>1, <1>2, ProcDistinct
<1>7. CASE WatcherReturn
  <2>1. Finish(Watcher) /\ pc[Watcher] \notin Late
        /\ UNCHANGED <<env, ledger, snap, delta, reg, saves, net, settled,
                       earned, raced>>
    BY <1>7 DEF WatcherReturn, Late, history
  <2>2. QED BY <2>1, <1>2, ProcDistinct
<1>8. CASE EngineFails
  <2>1. Finish(Engine) /\ ~Undisturbed
        /\ UNCHANGED <<env, ledger, snap, delta, reg, saves, net, settled,
                       earned, raced>>
    BY <1>8 DEF EngineFails, Undisturbed, history
  <2>2. QED BY <2>1, <1>2, ProcDistinct
<1>9. CASE WatcherFails
  <2>1. Finish(Watcher) /\ ~Undisturbed
        /\ UNCHANGED <<env, ledger, snap, delta, reg, saves, net, settled,
                       earned, raced>>
    BY <1>9 DEF WatcherFails, Undisturbed, history
  <2>2. QED BY <2>1, <1>2, ProcDistinct
<1>10. ASSUME NEW p \in Proc, Crash(p) PROVE Quiet
  <2>1. ~Undisturbed
    BY <1>10, <1>t DEF Crash, Undisturbed, HistoryOK
  <2>2. QED BY <1>10, <2>1, <1>2 DEF Crash
<1>11. CASE UNCHANGED vars
  BY <1>11, <1>1 DEF vars
<1>12. ASSUME NEW f \in QueueFills, PushFill(f) PROVE Quiet
  BY <1>12, <1>1 DEF PushFill
<1>13. CASE TakeDead \/ RequeueDead
  BY <1>13, <1>1 DEF TakeDead, RequeueDead
<1>14. QED
  BY <1>3, <1>4, <1>5, <1>6, <1>7, <1>8, <1>9, <1>10, <1>11, <1>12, <1>13
     DEF Next

(* A command of apply_fill changes no local of another process.            *)
LEMMA ApplyFrame ==
  ASSUME LocalsOK, NEW p \in Proc, Apply(p)
  PROVE  /\ UNCHANGED <<env, cur>> /\ raced \subseteq raced'
         /\ \A q \in Proc : FillOf(q)' = FillOf(q)
         /\ \A q \in Proc \ {p} :
              /\ pc'[q] = pc[q] /\ snap'[q] = snap[q]
              /\ delta'[q] = delta[q] /\ reg'[q] = reg[q]
<1>1. UNCHANGED <<env, cur>> /\ raced \subseteq raced'
  BY DEF Apply, CheckDup, ReadPosition, ClaimTrade, RecordTrade, SavePosition,
         IndexPosition, ReadPnl, WritePnl, Settle, Race, ReadForRecalc,
         WriteRecalc, history
<1>2. /\ \E label : Goto(p, label)
      /\ \E h : snap' = [snap EXCEPT ![p] = h]
      /\ \E d : delta' = [delta EXCEPT ![p] = d]
      /\ \E r : reg' = [reg EXCEPT ![p] = r]
  <2>1. /\ snap = [snap EXCEPT ![p] = snap[p]]
        /\ delta = [delta EXCEPT ![p] = delta[p]]
        /\ reg = [reg EXCEPT ![p] = reg[p]]
    BY DEF LocalsOK
  <2>2. \E label : Goto(p, label)
    BY DEF Apply, CheckDup, ReadPosition, ClaimTrade, RecordTrade,
           SavePosition, IndexPosition, ReadPnl, WritePnl, ReadForRecalc,
           WriteRecalc
  <2>3. \/ ReadPosition(p) \/ UNCHANGED <<snap, delta>>
    BY DEF Apply, CheckDup, ReadPosition, ClaimTrade, RecordTrade,
           SavePosition, IndexPosition, ReadPnl, WritePnl, ReadForRecalc,
           WriteRecalc
  <2>4. \/ ReadPnl(p) \/ ReadForRecalc(p) \/ UNCHANGED reg
    BY DEF Apply, CheckDup, ReadPosition, ClaimTrade, RecordTrade,
           SavePosition, IndexPosition, ReadPnl, WritePnl, ReadForRecalc,
           WriteRecalc
  <2>5. QED
    BY <2>1, <2>2, <2>3, <2>4 DEF ReadPosition, ReadPnl, ReadForRecalc
<1>3. QED BY <1>1, <1>2 DEF LocalsOK, Goto, FillOf

(* What each command of apply_fill does to the process that runs it.       *)
LEMMA ApplyLabels ==
  ASSUME LocalsOK, NEW p \in Proc
  PROVE  /\ CheckDup(p) => pc[p] = "dedup" /\ pc'[p] \in {"none", "read"}
         /\ ReadPosition(p) => pc[p] = "read" /\ pc'[p] \in {"none", "claim"}
         /\ ClaimTrade(p) => pc[p] = "claim" /\ pc'[p] \in {"none", "record"}
         /\ RecordTrade(p) => pc[p] = "record" /\ pc'[p] = "save"
         /\ SavePosition(p) => pc[p] = "save" /\ pc'[p] = "index"
         /\ IndexPosition(p) => /\ pc[p] = "index"
                                /\ pc'[p] = IF FillOf(p).side = "SELL"
                                            THEN "pnl_read" ELSE "recalc_read"
         /\ ReadPnl(p) => pc[p] = "pnl_read" /\ pc'[p] = "pnl_write"
         /\ WritePnl(p) => pc[p] = "pnl_write" /\ pc'[p] = "recalc_read"
         /\ ReadForRecalc(p) => pc[p] = "recalc_read" /\ pc'[p] = "recalc_write"
         /\ WriteRecalc(p) => /\ pc[p] = "recalc_write"
                              /\ pc'[p] \in {"idle", "applied"}
  BY DEF LocalsOK, Goto, CheckDup, ReadPosition, ClaimTrade, RecordTrade,
         SavePosition, IndexPosition, ReadPnl, WritePnl, ReadForRecalc,
         WriteRecalc

LEMMA PositionKeptNext ==
  ASSUME TypeOK, PositionKept, [Next]_vars
  PROVE  PositionKept'
<1>t. LocalsOK /\ LedgerOK /\ HistoryOK
  BY DEF TypeOK
<1>d. Bookers \subseteq Proc
  BY ProcDistinct DEF Bookers
<1>1. ASSUME UNCHANGED <<pos, net, raced>>,
             \A p \in Bookers, s \in Symbol \ raced : Holds(p, s)' =>
               \/ /\ Holds(p, s) /\ FillOf(p)' = FillOf(p) /\ snap'[p] = snap[p]
                  /\ (pc'[p] = "index" <=> pc[p] = "index")
               \/ pc'[p] # "index" /\ snap'[p] = pos[s]
      PROVE  PositionKept'
  BY <1>1 DEF PositionKept
<1>2. CASE Quiet
  <2>1. UNCHANGED <<pos, net, raced, snap>>
    BY <1>2 DEF Quiet, ledger
  <2>2. ASSUME NEW p \in Bookers, NEW s \in Symbol \ raced, Holds(p, s)'
        PROVE  Holds(p, s) /\ FillOf(p)' = FillOf(p) /\ pc'[p] = pc[p]
    BY <1>2, <1>d, <2>2 DEF Quiet, Holds, FillOf
  <2>3. QED BY <2>1, <2>2, <1>1
<1>3. CASE SyncPositions
  <2>l. UNCHANGED locals
    BY <1>3, PollFrame
  <2>1. \/ UNCHANGED <<pos, net, raced>>
        \/ \E s \in Symbol, h \in Holdings \cup {Flat} :
             /\ pos' = [pos EXCEPT ![s] = h] /\ net' = [net EXCEPT ![s] = h.qty]
             /\ raced' = Race(s, \E q \in Proc : Holds(q, s))
    BY <1>3
       DEF SyncPositions, MirrorHolding, ListHolding, DropHolding, HashLapses,
           CrashPoll, ledger, history, Flat
  <2>2. CASE UNCHANGED <<pos, net, raced>>
    BY <2>2, <2>l, <1>1 DEF locals, Holds, FillOf
  <2>3. ASSUME NEW s \in Symbol, NEW h,
               pos' = [pos EXCEPT ![s] = h], net' = [net EXCEPT ![s] = h.qty],
               raced' = Race(s, \E q \in Proc : Holds(q, s))
        PROVE  PositionKept'
    <3>1. raced \subseteq raced'
          /\ (s \notin raced' => \A q \in Bookers : ~Holds(q, s))
      BY <2>3, <1>d DEF Race
    <3>2. \A q \in Bookers, r \in Symbol : Holds(q, r)' <=> Holds(q, r)
      BY <2>l DEF locals, Holds, FillOf
    <3>3. /\ pos'[s] = h /\ net'[s] = h.qty
          /\ \A r \in Symbol \ {s} : pos'[r] = pos[r] /\ net'[r] = net[r]
      BY <2>3, <1>t DEF LedgerOK, HistoryOK
    <3>4. \A r \in Symbol \ raced' : pos'[r].qty = net'[r]
      BY <3>1, <3>3 DEF PositionKept
    <3>5. ASSUME NEW q \in Bookers, NEW r \in Symbol \ raced', Holds(q, r)'
          PROVE  pos'[r] = IF pc'[q] = "index"
                           THEN NewPosition(FillOf(q)', snap'[q]) ELSE snap'[q]
      <4>1. r # s /\ Holds(q, r) /\ r \in Symbol \ raced /\ pos'[r] = pos[r]
        BY <3>1, <3>2, <3>3, <3>5
      <4>2. QED BY <4>1, <2>l DEF PositionKept, locals, FillOf, NewPosition,
                   QtyChange, NewAvg, SellQty
    <3>6. QED BY <3>4, <3>5 DEF PositionKept
  <2>4. QED BY <2>1, <2>2, <2>3
<1>4. ASSUME NEW p \in Proc, Apply(p) PROVE PositionKept'
  <2> DEFINE f == FillOf(p)
  <2>f. /\ UNCHANGED cur /\ raced \subseteq raced'
        /\ \A q \in Proc : FillOf(q)' = FillOf(q)
        /\ \A q \in Proc \ {p} : pc'[q] = pc[q] /\ snap'[q] = snap[q]
    BY <1>4, <1>t, ApplyFrame
  <2>o. \A q \in Proc \ {p}, s \in Symbol : Holds(q, s)' <=> Holds(q, s)
    BY <2>f DEF Holds
  <2>1. ASSUME UNCHANGED <<pos, net, raced>>,
               pc'[p] \in {"claim", "record", "save", "index"} =>
                 \/ /\ pc[p] \in {"claim", "record", "save"}
                    /\ pc'[p] # "index" /\ snap'[p] = snap[p]
                 \/ pc'[p] # "index" /\ snap'[p] = pos[f.sym]
        PROVE  PositionKept'
    <3>1. ASSUME NEW q \in Bookers, NEW s \in Symbol \ raced, Holds(q, s)'
          PROVE  \/ /\ Holds(q, s) /\ FillOf(q)' = FillOf(q)
                    /\ snap'[q] = snap[q]
                    /\ (pc'[q] = "index" <=> pc[q] = "index")
                 \/ pc'[q] # "index" /\ snap'[q] = pos[s]
      <4>1. CASE q # p
        BY <4>1, <3>1, <2>f, <2>o, <1>d
      <4>2. CASE q = p
        BY <4>2, <3>1, <2>1, <2>f DEF Holds
      <4>3. QED BY <4>1, <4>2
    <3>2. QED BY <2>1, <3>1, <1>1
  <2>2. CASE ReadPosition(p)
    <3>1. UNCHANGED <<pos, net, raced>> /\ snap'[p] = pos[f.sym]
          /\ pc'[p] # "index"
      BY <2>2, <1>t, ApplyLabels DEF ReadPosition, ledger, history, LocalsOK
    <3>2. QED BY <3>1, <2>1
  <2>3. CASE ClaimTrade(p) \/ RecordTrade(p)
    <3>1. UNCHANGED <<pos, net, raced, snap>> /\ pc[p] \in {"claim", "record"}
          /\ pc'[p] # "index"
      BY <2>3, <1>t, ApplyLabels DEF ClaimTrade, RecordTrade, history
    <3>2. QED BY <3>1, <2>1
  <2>4. CASE CheckDup(p)
    <3>1. UNCHANGED <<pos, net, raced>> /\ pc'[p] \in {"none", "read"}
      BY <2>4, <1>t, ApplyLabels DEF CheckDup, ledger, history
    <3>2. QED BY <3>1, <2>1
  <2>5. CASE IndexPosition(p) \/ ReadPnl(p) \/ ReadForRecalc(p)
             \/ WriteRecalc(p)
    <3>1. UNCHANGED <<pos, net, raced>>
      BY <2>5
         DEF IndexPosition, ReadPnl, ReadForRecalc, WriteRecalc, ledger,
             history
    <3>2. pc'[p] \notin {"claim", "record", "save", "index"}
      BY <2>5, <1>t, ApplyLabels
    <3>3. QED BY <3>1, <3>2, <2>1
  <2>6. CASE WritePnl(p)
    <3>1. UNCHANGED <<pos, net>> /\ \A s \in Symbol : s \in raced' <=> s \in raced
      BY <2>6, LedgerConstants DEF WritePnl, Settle, Race
    <3>2. pc'[p] = "recalc_read"
      BY <2>6, <1>t, ApplyLabels
    <3>3. ASSUME NEW q \in Bookers, NEW s \in Symbol, Holds(q, s)'
          PROVE  Holds(q, s) /\ snap'[q] = snap[q] /\ FillOf(q)' = FillOf(q)
                 /\ pc'[q] = pc[q]
      BY <3>2, <3>3, <2>f, <1>d DEF Holds
    <3>4. QED BY <3>1, <3>3 DEF PositionKept
  <2>7. CASE SavePosition(p)
    <3>1. /\ pc[p] = "save" /\ pc'[p] = "index" /\ snap' = snap
          /\ pos' = [pos EXCEPT ![f.sym] = NewPosition(f, snap[p])]
          /\ net' = [net EXCEPT ![f.sym] = @ + QtyChange(f, snap[p])]
          /\ raced' = Race(f.sym, \E q \in Proc \ {p} : Holds(q, f.sym))
      BY <2>7, <1>t, ApplyLabels DEF SavePosition
    <3>2. p \in Bookers /\ f.sym \in Symbol
      BY <3>1, <1>t, HandType DEF Bookers
    <3>3. /\ f.sym \notin raced' => \A q \in Proc \ {p} : ~Holds(q, f.sym)
          /\ pos'[f.sym] = NewPosition(f, snap[p])
          /\ net'[f.sym] = net[f.sym] + QtyChange(f, snap[p])
          /\ \A s \in Symbol \ {f.sym} : pos'[s] = pos[s] /\ net'[s] = net[s]
      BY <3>1, <3>2, <1>t DEF Race, LedgerOK, HistoryOK
    <3>4. ASSUME NEW s \in Symbol \ raced' PROVE pos'[s].qty = net'[s]
      <4>1. CASE s # f.sym
        BY <3>3, <4>1, <2>f DEF PositionKept
      <4>2. CASE s = f.sym
        <5>1. Holds(p, s) /\ s \in Symbol \ raced
          BY <4>2, <3>1, <2>f DEF Holds
        <5>2. pos[s] = snap[p] /\ pos[s].qty = net[s]
          BY <5>1, <3>1, <3>2 DEF PositionKept
        <5>3. pos'[s].qty = snap[p].qty + QtyChange(f, snap[p])
          BY <4>2, <3>3 DEF NewPosition
        <5>4. QED BY <4>2, <5>2, <5>3, <3>3
      <4>3. QED BY <4>1, <4>2
    <3>5. ASSUME NEW q \in Bookers, NEW s \in Symbol \ raced', Holds(q, s)'
          PROVE  pos'[s] = IF pc'[q] = "index"
                           THEN NewPosition(FillOf(q), snap[q]) ELSE snap[q]
      <4>1. CASE q = p
        BY <4>1, <3>1, <3>3, <3>5, <2>f DEF Holds
      <4>2. CASE q # p
        <5>1. Holds(q, s) /\ s # f.sym /\ pc'[q] = pc[q] /\ s \in Symbol \ raced
          BY <4>2, <3>3, <3>5, <2>f, <2>o, <1>d
        <5>2. QED BY <5>1, <3>3 DEF PositionKept
      <4>3. QED BY <4>1, <4>2
    <3>6. ASSUME NEW q \in Bookers, NEW s \in Symbol \ raced', Holds(q, s)'
          PROVE  (pos[s] = IF pc[q] = "index" THEN NewPosition(FillOf(q), snap[q])
                           ELSE snap[q])'
      <4>1. FillOf(q)' = FillOf(q) /\ snap'[q] = snap[q]
        BY <3>1, <2>f, <1>d
      <4>2. NewPosition(FillOf(q), snap[q])' = NewPosition(FillOf(q), snap[q])
        BY <4>1 DEF NewPosition, QtyChange, NewAvg, SellQty
      <4>3. QED BY <3>5, <3>6, <4>1, <4>2
    <3>7. QED BY <3>4, <3>6 DEF PositionKept
  <2>8. QED
    BY <1>4, <2>2, <2>3, <2>4, <2>5, <2>6, <2>7 DEF Apply
<1>5. QED BY <1>2, <1>3, <1>4, Kinds

LEMMA PnlKeptNext ==
  ASSUME TypeOK, PnlKept, [Next]_vars
  PROVE  PnlKept'
<1>t. LocalsOK /\ LedgerOK /\ HistoryOK
  BY DEF TypeOK
<1>1. ASSUME UNCHANGED <<realized, earned>>, Pnl \in raced => Pnl \in raced',
             \A p \in Proc : HoldsPnl(p)' => \/ HoldsPnl(p) /\ reg'[p] = reg[p]
                                             \/ reg'[p] = realized
      PROVE  PnlKept'
  BY <1>1 DEF PnlKept
<1>2. CASE Quiet
  <2>1. \A p \in Proc : HoldsPnl(p)' => HoldsPnl(p)
    BY <1>2 DEF Quiet, HoldsPnl
  <2>2. QED BY <1>2, <2>1, <1>1 DEF Quiet, ledger
<1>3. CASE SyncPositions
  <2>1. UNCHANGED <<realized, earned, locals>> /\ raced \subseteq raced'
    BY <1>3, PollFrame
       DEF SyncPositions, MirrorHolding, ListHolding, DropHolding, HashLapses,
           CrashPoll, history, Race
  <2>2. QED BY <2>1, <1>1 DEF locals, HoldsPnl
<1>4. ASSUME NEW p \in Proc, Apply(p) PROVE PnlKept'
  <2>f. /\ raced \subseteq raced'
        /\ \A q \in Proc \ {p} : pc'[q] = pc[q] /\ reg'[q] = reg[q]
    BY <1>4, <1>t, ApplyFrame
  <2>o. \A q \in Proc \ {p} : HoldsPnl(q)' <=> HoldsPnl(q)
    BY <2>f DEF HoldsPnl
  <2>1. ASSUME UNCHANGED <<realized, earned>>,
               ~HoldsPnl(p)' \/ reg'[p] = realized
        PROVE  PnlKept'
    BY <2>1, <2>f, <2>o, <1>1
  <2>2. CASE CheckDup(p) \/ ReadPosition(p) \/ ClaimTrade(p)
             \/ RecordTrade(p) \/ SavePosition(p) \/ IndexPosition(p)
    <3>1. UNCHANGED <<realized, earned>>
      BY <2>2
         DEF CheckDup, ReadPosition, ClaimTrade, RecordTrade, SavePosition,
             IndexPosition, ledger, history
    <3>2. ~HoldsPnl(p)'
      BY <2>2, <1>t, ApplyLabels DEF HoldsPnl
    <3>3. QED BY <3>1, <3>2, <2>1
  <2>3. CASE ReadPnl(p) \/ ReadForRecalc(p)
    BY <2>3, <2>1, <1>t DEF ReadPnl, ReadForRecalc, ledger, history, LocalsOK
  <2>4. CASE WritePnl(p)
    <3>1. /\ HoldsPnl(p) /\ ~HoldsPnl(p)'
          /\ realized' = reg[p] + delta[p] /\ earned' = earned + delta[p]
          /\ raced' = Race(Pnl, \E q \in Proc \ {p} : HoldsPnl(q))
      BY <2>4, <1>t, ApplyLabels DEF WritePnl, Settle, HoldsPnl
    <3>2. Pnl \notin raced' => \A q \in Proc \ {p} : ~HoldsPnl(q)
      BY <3>1 DEF Race
    <3>3. Pnl \notin raced' => realized' = earned'
      BY <3>1, <2>f DEF PnlKept
    <3>4. QED BY <3>1, <3>2, <3>3, <2>o DEF PnlKept
  <2>5. CASE WriteRecalc(p)
    <3>1. /\ HoldsPnl(p) /\ ~HoldsPnl(p)' /\ realized' = reg[p]
          /\ earned' = earned
      BY <2>5, <1>t, ApplyLabels DEF WriteRecalc, HoldsPnl, history
    <3>2. QED BY <3>1, <2>f, <2>o DEF PnlKept
  <2>6. QED BY <1>4, <2>2, <2>3, <2>4, <2>5 DEF Apply
<1>5. QED BY <1>2, <1>3, <1>4, Kinds

LEMMA RacersKnownNext ==
  ASSUME TypeOK, Idlers, RacersKnown, [Next]_vars
  PROVE  Idlers' /\ RacersKnown'
<1>t. LocalsOK /\ HistoryOK
  BY DEF TypeOK
<1>e. env' = env
  BY EnvFixed
<1>1. ASSUME UNCHANGED <<pc, raced>> PROVE Idlers' /\ RacersKnown'
  BY <1>1, <1>e DEF Idlers, RacersKnown
<1>2. CASE Quiet
  <2>1. Idlers'
    BY <1>2, <1>e DEF Quiet, Idlers
  <2>2. RacersKnown'
    BY <1>2, <1>e DEF Quiet, RacersKnown
  <2>3. QED BY <2>1, <2>2
<1>3. CASE SyncPositions
  <2>1. \/ UNCHANGED raced
        \/ \E s \in env.mirror : raced' \subseteq raced \cup {s}
    BY <1>3, <1>t
       DEF SyncPositions, MirrorHolding, ListHolding, DropHolding, HashLapses,
           CrashPoll, Race, history, TypeOK, LedgerOK
  <2>2. pc' = pc /\ env.mirror \subseteq Symbol
    BY <1>3, PollFrame, <1>t DEF locals, HistoryOK, Environment
  <2>3. QED BY <2>1, <2>2, <1>e, LedgerConstants DEF Idlers, RacersKnown
<1>4. ASSUME NEW p \in Proc, Apply(p) PROVE Idlers' /\ RacersKnown'
  <2>f. \A q \in Proc \ {p} : pc'[q] = pc[q]
    BY <1>4, <1>t, ApplyFrame
  <2>p. pc[p] # "idle"
    BY <1>4, <1>t, ApplyLabels DEF Apply
  <2>1. Idlers'
    BY <2>f, <2>p, <1>e, ProcDistinct DEF Idlers
  <2>b. \A q \in Proc, s \in Symbol : Holds(q, s) => q \in {Engine, Watcher}
    BY <1>t, HandType DEF Holds
  <2>2. CASE SavePosition(p)
    <3>1. /\ p \in {Engine, Watcher} /\ FillOf(p).sym \in Symbol
          /\ raced' = Race(FillOf(p).sym,
                           \E q \in Proc \ {p} : Holds(q, FillOf(p).sym))
      BY <2>2, <1>t, HandType DEF SavePosition
    <3>2. raced' # raced => pc[Watcher] # "idle"
      BY <3>1, <2>b, <2>p DEF Race, Holds
    <3>3. Pnl \in raced' => Pnl \in raced
      BY <3>1, LedgerConstants DEF Race
    <3>4. RacersKnown'
      BY <3>2, <3>3, <1>e DEF Idlers, RacersKnown
    <3>5. QED BY <2>1, <3>4
  <2>3. CASE WritePnl(p)
    <3>1. /\ p \in {Engine, Watcher}
          /\ raced' = Race(Pnl, \E q \in Proc \ {p} : HoldsPnl(q))
      BY <2>3, <1>t, HandType DEF WritePnl, Settle
    <3>2. raced' # raced => pc[Watcher] # "idle" \/ pc[Updater] # "idle"
      BY <3>1, <2>p, ProcDistinct DEF Race, HoldsPnl
    <3>3. \A s \in Symbol : s \in raced' => s \in raced
      BY <3>1, LedgerConstants DEF Race
    <3>4. RacersKnown'
      BY <3>2, <3>3, <1>e DEF Idlers, RacersKnown
    <3>5. QED BY <2>1, <3>4
  <2>4. CASE ~SavePosition(p) /\ ~WritePnl(p)
    <3>1. UNCHANGED raced
      BY <1>4, <2>4
         DEF Apply, CheckDup, ReadPosition, ClaimTrade, RecordTrade,
             IndexPosition, ReadPnl, ReadForRecalc, WriteRecalc, history
    <3>2. QED BY <2>1, <3>1, <1>e DEF RacersKnown
  <2>5. QED BY <2>2, <2>3, <2>4
<1>5. QED BY <1>2, <1>3, <1>4, Kinds

LEMMA DeltaIsSaleNext ==
  ASSUME TypeOK, DeltaIsSale, [Next]_vars
  PROVE  DeltaIsSale'
<1>t. LocalsOK
  BY DEF TypeOK
<1>d. Bookers \subseteq Proc
  BY ProcDistinct DEF Bookers
<1> DEFINE Sale(p) ==
      LET f == FillOf(p) IN
      /\ pc[p] \in {"claim", "record", "save"} /\ f.side = "SELL" =>
           /\ SellQty(f, snap[p]) > 0
           /\ delta[p] = RealizedDelta(f, snap[p])
      /\ pc[p] \in {"claim", "record", "save", "index"} /\ f.side # "SELL" =>
           delta[p] = 0
<1>1. ASSUME NEW p \in Bookers, UNCHANGED <<snap[p], delta[p], FillOf(p)>>,
             \/ pc'[p] = pc[p] \/ pc[p] \in {"claim", "record", "save"}
      PROVE  Sale(p)'
  <2>1. Sale(p) BY DEF DeltaIsSale
  <2>2. QED BY <1>1, <2>1
<1>2. ASSUME NEW p \in Bookers,
             pc'[p] \notin {"claim", "record", "save", "index"}
      PROVE  Sale(p)'
  BY <1>2
<1>3. CASE Quiet
  <2>1. ASSUME NEW p \in Bookers PROVE Sale(p)'
    <3>1. CASE pc'[p] = pc[p] /\ cur'[p] = cur[p]
      BY <1>3, <3>1, <1>1 DEF Quiet, FillOf
    <3>2. CASE pc'[p] \in {"idle", "dedup", "recalc_read"}
      BY <3>2, <1>2
    <3>3. QED BY <1>3, <1>d, <3>1, <3>2 DEF Quiet
  <2>2. QED BY <2>1 DEF DeltaIsSale
<1>4. CASE SyncPositions
  <2>1. UNCHANGED locals
    BY <1>4, PollFrame
  <2>2. \A p \in Bookers : Sale(p)'
    BY <2>1, <1>1 DEF locals, FillOf
  <2>3. QED BY <2>2 DEF DeltaIsSale
<1>5. ASSUME NEW p \in Proc, Apply(p) PROVE DeltaIsSale'
  <2>f. /\ \A q \in Proc : FillOf(q)' = FillOf(q)
        /\ \A q \in Proc \ {p} : /\ pc'[q] = pc[q] /\ snap'[q] = snap[q]
                                 /\ delta'[q] = delta[q]
    BY <1>5, <1>t, ApplyFrame
  <2>o. \A q \in Bookers \ {p} : Sale(q)'
    BY <2>f, <1>d, <1>1
  <2>1. ASSUME p \in Bookers PROVE Sale(p)'
    <3>1. CASE ReadPosition(p)
      <4> DEFINE f == FillOf(p)
      <4>1. /\ snap'[p] = pos[f.sym]
            /\ delta'[p] = (IF f.side = "SELL" THEN RealizedDelta(f, pos[f.sym])
                            ELSE 0)
            /\ pc'[p] \in {"none", "claim"}
            /\ pc'[p] = "claim" => f.side = "BUY" \/ SellQty(f, pos[f.sym]) > 0
        BY <3>1, <1>t DEF ReadPosition, LocalsOK, Goto
      <4>2. QED BY <4>1, <2>f
    <3>2. CASE ClaimTrade(p) \/ RecordTrade(p) \/ SavePosition(p)
      <4>1. /\ UNCHANGED <<snap[p], delta[p], FillOf(p)>>
            /\ pc[p] \in {"claim", "record", "save"}
        BY <3>2, <2>f, <1>t, ApplyLabels
           DEF ClaimTrade, RecordTrade, SavePosition
      <4>2. QED BY <2>1, <4>1, <1>1
    <3>3. CASE \/ CheckDup(p) \/ IndexPosition(p) \/ ReadPnl(p) \/ WritePnl(p)
               \/ ReadForRecalc(p) \/ WriteRecalc(p)
      <4>1. pc'[p] \notin {"claim", "record", "save", "index"}
        BY <3>3, <1>t, ApplyLabels
      <4>2. QED BY <2>1, <4>1, <1>2
    <3>4. QED BY <1>5, <3>1, <3>2, <3>3 DEF Apply
  <2>2. QED BY <2>o, <2>1 DEF DeltaIsSale
<1>6. QED BY <1>3, <1>4, <1>5, Kinds

LEMMA UnsettledNext ==
  ASSUME TypeOK, ClaimInv, SavedOnce, Unsettled, [Next]_vars
  PROVE  Unsettled'
<1>t. LocalsOK /\ LedgerOK /\ HistoryOK
  BY DEF TypeOK
<1>d. Bookers \subseteq Proc /\ Bookers = {Engine, Watcher}
  BY ProcDistinct DEF Bookers
<1>c. \A p \in Bookers : Claims(p) => FillOf(p).tid \in TradeId
  <2>1. \A p \in Bookers : Claims(p) =>
          pc[p] \notin {"idle", "recalc_read", "recalc_write"}
    BY DEF Claims, Late
  <2>2. QED BY <2>1, <1>t, <1>d, HandType
<1>n. \A p, q \in Bookers : p # q /\ Claims(p) /\ Claims(q) =>
        FillOf(p).tid # FillOf(q).tid
  BY <1>d DEF Unsettled
(* Steps that leave the trades alone and start no claim.                   *)
<1>1. ASSUME UNCHANGED <<dedupe, trades, saves, settled>>,
             \A p \in Bookers : Claims(p)' =>
               /\ Claims(p) /\ FillOf(p)' = FillOf(p) /\ delta'[p] = delta[p]
               /\ (pc'[p] = "record" <=> pc[p] = "record")
      PROVE  Unsettled'
  BY <1>1, <1>d DEF Unsettled, Claims
<1>2. CASE Quiet
  <2>1. ASSUME NEW p \in Bookers, Claims(p)'
        PROVE  Claims(p) /\ FillOf(p)' = FillOf(p) /\ delta'[p] = delta[p]
               /\ (pc'[p] = "record" <=> pc[p] = "record")
    BY <1>2, <1>d, <2>1 DEF Quiet, Claims, Late, FillOf
  <2>2. QED BY <1>2, <2>1, <1>1 DEF Quiet, ledger
<1>3. CASE SyncPositions
  <2>1. UNCHANGED <<dedupe, trades, saves, settled, pc, cur, delta>>
    BY <1>3, PollFrame DEF locals
  <2>2. QED BY <2>1, <1>1 DEF Claims, FillOf
<1>4. ASSUME NEW p \in Proc, Apply(p) PROVE Unsettled'
  <2> DEFINE t == FillOf(p).tid
  <2>f. /\ \A q \in Proc : FillOf(q)' = FillOf(q)
        /\ \A q \in Proc \ {p} : pc'[q] = pc[q] /\ delta'[q] = delta[q]
    BY <1>4, <1>t, ApplyFrame
  <2>o. \A q \in Bookers \ {p} : Claims(q)' <=> Claims(q)
    BY <2>f, <1>d DEF Claims
  <2>1. ASSUME UNCHANGED <<dedupe, trades, saves, settled>>,
               p \in Bookers /\ Claims(p)' =>
                 /\ Claims(p) /\ delta'[p] = delta[p]
                 /\ (pc'[p] = "record" <=> pc[p] = "record")
        PROVE  Unsettled'
    <3>1. ASSUME NEW q \in Bookers, Claims(q)'
          PROVE  Claims(q) /\ FillOf(q)' = FillOf(q) /\ delta'[q] = delta[q]
                 /\ (pc'[q] = "record" <=> pc[q] = "record")
      <4>1. CASE q = p BY <2>1, <3>1, <4>1, <2>f, <1>d
      <4>2. CASE q # p BY <3>1, <4>2, <2>f, <2>o, <1>d
      <4>3. QED BY <4>1, <4>2
    <3>2. QED BY <2>1, <3>1, <1>1
  <2>2. CASE \/ CheckDup(p) \/ ReadPosition(p) \/ ReadForRecalc(p)
             \/ WriteRecalc(p)
    <3>1. UNCHANGED <<dedupe, trades, saves, settled>>
      BY <2>2
         DEF CheckDup, ReadPosition, ReadForRecalc, WriteRecalc, ledger, history
    <3>2. ~Claims(p)'
      BY <2>2, <1>t, ApplyLabels DEF Claims, Late
    <3>3. QED BY <3>1, <3>2, <2>1
  <2>3. CASE IndexPosition(p) \/ ReadPnl(p)
    <3>1. UNCHANGED <<dedupe, trades, saves, settled, delta>>
      BY <2>3 DEF IndexPosition, ReadPnl, ledger, history
    <3>2. Claims(p) /\ pc'[p] # "record" /\ pc[p] # "record"
      BY <2>3, <1>t, ApplyLabels DEF Claims, Late
    <3>3. QED BY <3>1, <3>2, <2>1
  <2>4. CASE ClaimTrade(p)
    <3>0. /\ UNCHANGED <<trades, saves, settled, delta>> /\ pc[p] = "claim"
          /\ p \in Bookers /\ t \in TradeId
      BY <2>4, <1>t, <1>d, HandType DEF ClaimTrade, history
    <3>1. CASE t \in dedupe
      <4>1. dedupe' = dedupe /\ pc'[p] = "none"
        BY <2>4, <3>1, <1>t, ApplyLabels DEF ClaimTrade, Goto, LocalsOK
      <4>2. QED BY <4>1, <3>0, <2>1 DEF Claims, Late
    <3>2. CASE t \notin dedupe
      <4>1. dedupe' = dedupe \cup {t} /\ pc'[p] = "record"
        BY <2>4, <3>2, <1>t, ApplyLabels DEF ClaimTrade, Goto, LocalsOK
      <4>2. t \notin settled
        BY <3>0, <3>2 DEF Unsettled, ClaimInv, AtMostOnce
      <4>3. \A q \in Bookers \ {p} : Claims(q) => FillOf(q).tid # t
        BY <3>2 DEF Unsettled
      <4>4. \A q \in Bookers : Claims(q)' =>
              FillOf(q)'.tid \in dedupe' \ settled'
        BY <4>1, <4>2, <3>0, <2>f, <2>o, <1>d DEF Unsettled
      <4>5. \A q \in Bookers : pc'[q] \in {"save"} \cup Late =>
              /\ FillOf(q)'.tid \in DOMAIN trades'
              /\ trades'[FillOf(q)'.tid] = delta'[q]
        BY <4>1, <3>0, <2>f, <1>d DEF Unsettled, Late
      <4>6. Claims(Engine)' /\ Claims(Watcher)' =>
              FillOf(Engine)'.tid # FillOf(Watcher)'.tid
        BY <4>3, <3>0, <2>f, <2>o, <1>d, ProcDistinct
      <4>7. QED BY <4>4, <4>5, <4>6, <3>0 DEF Unsettled
    <3>3. QED BY <3>1, <3>2
  <2>5. CASE RecordTrade(p)
    <3>1. /\ UNCHANGED <<dedupe, saves, settled, delta>> /\ pc[p] = "record"
          /\ pc'[p] = "save" /\ p \in Bookers /\ Claims(p)
          /\ trades' = [u \in DOMAIN trades \cup {t} |->
                          IF u = t THEN delta[p] ELSE trades[u]]
      BY <2>5, <1>t, <1>d, HandType, ApplyLabels
         DEF RecordTrade, history, Claims
    <3>2. \A q \in Bookers \ {p} : Claims(q) => FillOf(q).tid # t
      BY <3>1, <1>n
    <3>3. \A q \in Bookers : pc'[q] \in {"save"} \cup Late =>
            /\ FillOf(q)'.tid \in DOMAIN trades'
            /\ trades'[FillOf(q)'.tid] = delta'[q]
      <4>1. ASSUME NEW q \in Bookers \ {p}, pc'[q] \in {"save"} \cup Late
            PROVE  /\ FillOf(q).tid \in DOMAIN trades \ {t}
                   /\ trades[FillOf(q).tid] = delta[q]
        BY <4>1, <3>2, <2>f, <1>d DEF Unsettled, Claims
      <4>2. QED BY <4>1, <3>1, <2>f, <1>d
    <3>4. QED BY <3>1, <3>3, <2>f, <2>o, <1>d DEF Unsettled
  <2>6. CASE SavePosition(p)
    <3>1. /\ UNCHANGED <<dedupe, trades, settled, delta>> /\ Claims(p)
          /\ pc[p] = "save" /\ pc'[p] = "index" /\ p \in Bookers
          /\ saves' = [saves EXCEPT ![t] = @ + 1]
      BY <2>6, <1>t, <1>d, HandType, ApplyLabels DEF SavePosition, Claims
    <3>2. t \notin settled
      BY <3>1 DEF Unsettled
    <3>3. \A u \in settled : saves'[u] = 1
      BY <3>1, <3>2, <1>t DEF Unsettled, HistoryOK
    <3>4. \A q \in Bookers : /\ Claims(q)' => Claims(q)
                             /\ pc'[q] \in {"save"} \cup Late =>
                                  pc[q] \in {"save"} \cup Late
      BY <3>1, <2>f, <2>o, <1>d
    <3>5. QED BY <3>1, <3>3, <3>4, <2>f, <1>d DEF Unsettled
  <2>7. CASE WritePnl(p)
    <3>1. /\ UNCHANGED <<dedupe, trades, saves, delta>> /\ Claims(p)
          /\ pc[p] = "pnl_write" /\ ~Claims(p)' /\ p \in Bookers
          /\ settled' = settled \cup {t}
      BY <2>7, <1>t, <1>d, HandType, ApplyLabels
         DEF WritePnl, Settle, Claims, Late
    <3>2. saves[t] = 1
      BY <3>1, <1>d DEF SavedOnce, Booked
    <3>3. \A q \in Bookers : Claims(q)' => q # p /\ Claims(q)
            /\ FillOf(q).tid # t
      BY <3>1, <2>o, <1>n
    <3>4. \A q \in Bookers : pc'[q] \in {"save"} \cup Late => Claims(q)'
      BY DEF Claims
    <3>5. QED BY <3>1, <3>2, <3>3, <3>4, <2>f, <1>d DEF Unsettled
  <2>8. QED BY <1>4, <2>2, <2>3, <2>4, <2>5, <2>6, <2>7 DEF Apply
<1>5. QED BY <1>2, <1>3, <1>4, Kinds

LEMMA OnItsWayNext ==
  ASSUME TypeOK, ClaimInv, SavedOnce, PositionKept, DeltaIsSale, Unsettled,
         OnItsWay, [Next]_vars
  PROVE  OnItsWay'
<1>t. LocalsOK /\ LedgerOK /\ HistoryOK
  BY DEF TypeOK
<1>e. env' = env
  BY EnvFixed
<1>d. Bookers \subseteq Proc /\ Bookers = {Engine, Watcher}
  BY ProcDistinct DEF Bookers
<1> SUFFICES ASSUME Undisturbed
             PROVE  /\ \A t \in TradeId : Owed(t)' # 0 =>
                         \E p \in Bookers : pc'[p] \in Late /\ FillOf(p)'.tid = t
                    /\ \A s \in Sure' :
                         \/ s \in index' <=> pos'[s].qty > 0
                         \/ \E p \in Bookers : pc'[p] = "index"
                                               /\ FillOf(p)'.sym = s
  BY <1>e DEF OnItsWay, Undisturbed
<1>w. /\ \A t \in TradeId : Owed(t) # 0 =>
           \E p \in Bookers : pc[p] \in Late /\ FillOf(p).tid = t
      /\ \A s \in Sure : \/ s \in index <=> pos[s].qty > 0
                         \/ \E p \in Bookers : pc[p] = "index" /\ FillOf(p).sym = s
  BY DEF OnItsWay
<1>1. CASE Quiet
  <2>1. /\ \A t \in TradeId : Owed(t)' = Owed(t)
        /\ UNCHANGED <<pos, index>> /\ Sure' = Sure
    BY <1>1, <1>e DEF Quiet, ledger, Owed, Sure
  <2>2. \A p \in Bookers : pc[p] \in Late => /\ pc'[p] = pc[p]
                                             /\ FillOf(p)' = FillOf(p)
    BY <1>1 DEF Quiet, FillOf
  <2>3. \A p \in Bookers : pc[p] = "index" => pc[p] \in Late
    BY DEF Late
  <2>4. QED BY <2>1, <2>2, <2>3, <1>w
<1>2. CASE SyncPositions
  <2>1. UNCHANGED <<trades, saves, settled, pc, cur>>
    BY <1>2, PollFrame DEF locals
  <2>2. \A t \in TradeId : Owed(t)' = Owed(t)
    BY <2>1 DEF Owed
  <2>3. ASSUME NEW s \in Sure'
        PROVE  s \in Sure /\ pos'[s] = pos[s] /\ (s \in index' <=> s \in index)
    <3>1. raced \subseteq raced' /\ s \in Symbol \ env.mirror
      BY <1>2, <1>e
         DEF SyncPositions, MirrorHolding, ListHolding, DropHolding,
             HashLapses, CrashPoll, Race, history, Sure
    <3>2. s \in Sure
      BY <3>1, <2>3, <1>e DEF Sure
    <3>3. s \notin adding /\ s \notin expiring
      BY <3>1, <1>t DEF LedgerOK
    <3>4. QED
      BY <1>2, <3>1, <3>2, <3>3, <1>t
         DEF SyncPositions, MirrorHolding, ListHolding, DropHolding,
             HashLapses, CrashPoll, ledger, LedgerOK
  <2>4. QED BY <2>1, <2>2, <2>3, <1>w DEF FillOf
<1>3. ASSUME NEW p \in Proc, Apply(p)
      PROVE  /\ \A t \in TradeId : Owed(t)' # 0 =>
                  \E q \in Bookers : pc'[q] \in Late /\ FillOf(q)'.tid = t
             /\ \A s \in Sure' :
                  \/ s \in index' <=> pos'[s].qty > 0
                  \/ \E q \in Bookers : pc'[q] = "index" /\ FillOf(q)'.sym = s
  <2> DEFINE f == FillOf(p)
             t == f.tid
  <2>f. /\ \A q \in Proc : FillOf(q)' = FillOf(q) /\ raced \subseteq raced'
        /\ \A q \in Proc \ {p} : pc'[q] = pc[q]
    BY <1>3, <1>t, ApplyFrame
  <2>s. Sure' \subseteq Sure
    BY <2>f, <1>e, <1>d DEF Sure
  (* What is owed, for a command that settles no trade.                    *)
  <2>1. ASSUME \A u \in TradeId : Owed(u)' = Owed(u),
               pc[p] \in Late => pc'[p] \in Late \/ Owed(t) = 0
        PROVE  \A u \in TradeId : Owed(u)' # 0 =>
                 \E q \in Bookers : pc'[q] \in Late /\ FillOf(q)'.tid = u
    BY <2>1, <2>f, <1>d, <1>w
  (* The index, for a command that writes neither it nor a position.       *)
  <2>2. ASSUME UNCHANGED <<pos, index>>, pc[p] # "index"
        PROVE  \A s \in Sure' :
                 \/ s \in index' <=> pos'[s].qty > 0
                 \/ \E q \in Bookers : pc'[q] = "index" /\ FillOf(q)'.sym = s
    BY <2>2, <2>f, <2>s, <1>d, <1>w
  <2>3. CASE \/ CheckDup(p) \/ ReadPosition(p) \/ ClaimTrade(p)
             \/ ReadForRecalc(p) \/ WriteRecalc(p)
    <3>1. /\ pc[p] \notin Late
          /\ UNCHANGED <<trades, saves, settled, pos, index>>
      BY <2>3
         DEF CheckDup, ReadPosition, ClaimTrade, ReadForRecalc, WriteRecalc,
             ledger, history, Late
    <3>2. \A u \in TradeId : Owed(u)' = Owed(u)
      BY <3>1 DEF Owed
    <3>3. QED BY <3>1, <3>2, <2>1, <2>2 DEF Late
  <2>4. CASE ReadPnl(p)
    <3>1. /\ pc[p] \in Late /\ pc'[p] \in Late /\ pc[p] # "index"
          /\ UNCHANGED <<trades, saves, settled, pos, index>>
      BY <2>4, <1>t, ApplyLabels DEF ReadPnl, ledger, history, Late
    <3>2. \A u \in TradeId : Owed(u)' = Owed(u)
      BY <3>1 DEF Owed
    <3>3. QED BY <3>1, <3>2, <2>1, <2>2
  <2>5. CASE RecordTrade(p)
    <3>1. /\ UNCHANGED <<saves, settled, pos, index>> /\ Owns(p)
          /\ pc[p] \notin Late /\ pc[p] # "index" /\ p \in Bookers
          /\ trades' = [u \in DOMAIN trades \cup {t} |->
                          IF u = t THEN delta[p] ELSE trades[u]]
      BY <2>5, <1>t, <1>d, HandType DEF RecordTrade, history, Owns, Late
    <3>2. saves[t] = 0
      BY <3>1, <1>d DEF ClaimInv
    <3>3. \A u \in TradeId : Owed(u)' = Owed(u)
      BY <3>1, <3>2 DEF Owed
    <3>4. QED BY <3>1, <3>3, <2>1, <2>2
  <2>6. CASE SavePosition(p)
    <3>1. /\ UNCHANGED <<trades, settled, index>> /\ p \in Bookers
          /\ pc'[p] = "index" /\ pc[p] = "save" /\ f.sym \in Symbol
          /\ saves' = [saves EXCEPT ![t] = @ + 1]
          /\ pos' = [pos EXCEPT ![f.sym] = NewPosition(f, snap[p])]
      BY <2>6, <1>t, <1>d, HandType, ApplyLabels DEF SavePosition
    <3>2. \A u \in TradeId \ {t} : Owed(u)' = Owed(u)
      BY <3>1, <1>t DEF Owed, HistoryOK
    <3>3. \A u \in TradeId : Owed(u)' # 0 =>
            \E q \in Bookers : pc'[q] \in Late /\ FillOf(q)'.tid = u
      <4>1. pc[p] \notin Late /\ pc'[p] \in Late
        BY <3>1 DEF Late
      <4>2. ASSUME NEW u \in TradeId \ {t}, Owed(u)' # 0
            PROVE  \E q \in Bookers : pc'[q] \in Late /\ FillOf(q)'.tid = u
        BY <4>1, <4>2, <3>2, <2>f, <1>d, <1>w
      <4>3. QED BY <4>1, <4>2, <3>1, <2>f, <1>d
    <3>4. ASSUME NEW s \in Sure'
          PROVE  \/ s \in index' <=> pos'[s].qty > 0
                 \/ \E q \in Bookers : pc'[q] = "index" /\ FillOf(q)'.sym = s
      <4>1. CASE s = f.sym
        BY <4>1, <3>1, <2>f, <1>d
      <4>2. CASE s # f.sym
        <5>1. pos'[s] = pos[s] /\ index' = index /\ s \in Sure
          BY <4>2, <3>1, <2>s, <1>t DEF LedgerOK, Sure
        <5>2. \A q \in Bookers : pc[q] = "index" => pc'[q] = "index"
          BY <3>1, <2>f, <1>d
        <5>3. QED BY <5>1, <5>2, <2>f, <1>d, <1>w
      <4>3. QED BY <4>1, <4>2
    <3>5. QED BY <3>3, <3>4
  <2>7. CASE IndexPosition(p)
    <3>1. /\ UNCHANGED <<trades, saves, settled, pos>> /\ p \in Bookers
          /\ pc[p] = "index" /\ f.sym \in Symbol /\ f \in Fill
          /\ pc'[p] = (IF f.side = "SELL" THEN "pnl_read" ELSE "recalc_read")
          /\ index' = IF NewPosition(f, snap[p]).qty = 0
                      THEN index \ {f.sym} ELSE index \cup {f.sym}
      BY <2>7, <1>t, <1>d, HandType, ApplyLabels DEF IndexPosition, history
    <3>2. \A u \in TradeId : Owed(u)' = Owed(u)
      BY <3>1 DEF Owed
    <3>3. f.side # "SELL" => Owed(t) = 0
      <4>1. pc[p] \in Late
        BY <3>1 DEF Late
      <4>2. SUFFICES ASSUME f.side # "SELL" PROVE Owed(t) = 0
        OBVIOUS
      <4>3. trades[t] = delta[p]
        BY <4>1, <3>1 DEF Unsettled
      <4>4. delta[p] = 0
        BY <4>2, <3>1 DEF DeltaIsSale
      <4>5. QED BY <4>3, <4>4 DEF Owed
    <3>4. \A u \in TradeId : Owed(u)' # 0 =>
            \E q \in Bookers : pc'[q] \in Late /\ FillOf(q)'.tid = u
      BY <3>1, <3>2, <3>3, <2>1 DEF Late
    <3>5. ASSUME NEW s \in Sure'
          PROVE  \/ s \in index' <=> pos'[s].qty > 0
                 \/ \E q \in Bookers : pc'[q] = "index" /\ FillOf(q)'.sym = s
      <4>1. CASE s = f.sym
        <5>1. Holds(p, s) /\ s \in Symbol \ raced
          BY <4>1, <3>1, <2>s DEF Holds, Sure
        <5>2. pos[s] = NewPosition(f, snap[p])
          BY <5>1, <3>1 DEF PositionKept
        <5>3. pos[s].qty \in Nat
          BY <4>1, <3>1, <1>t DEF LedgerOK, Holding
        <5>4. QED BY <4>1, <5>2, <5>3, <3>1
      <4>2. CASE s # f.sym
        <5>1. s \in Sure /\ pos'[s] = pos[s] /\ (s \in index' <=> s \in index)
          BY <4>2, <3>1, <2>s
        <5>2. \A q \in Bookers : pc[q] = "index" /\ FillOf(q).sym = s =>
                pc'[q] = "index" /\ FillOf(q)'.sym = s
          BY <4>2, <2>f, <1>d
        <5>3. QED BY <5>1, <5>2, <1>w
      <4>3. QED BY <4>1, <4>2
    <3>6. QED BY <3>4, <3>5
  <2>8. CASE WritePnl(p)
    <3>1. /\ UNCHANGED <<trades, saves, pos, index>> /\ pc[p] = "pnl_write"
          /\ settled' = settled \cup {t}
      BY <2>8 DEF WritePnl, Settle
    <3>2. /\ Owed(t)' = 0
          /\ \A u \in TradeId \ {t} : Owed(u)' = Owed(u)
      BY <3>1, <2>f DEF Owed
    <3>3. \A u \in TradeId : Owed(u)' # 0 =>
            \E q \in Bookers : pc'[q] \in Late /\ FillOf(q)'.tid = u
      BY <3>2, <2>f, <1>d, <1>w
    <3>4. QED BY <3>1, <3>3, <2>2
  <2>9. QED BY <1>3, <2>3, <2>4, <2>5, <2>6, <2>7, <2>8 DEF Apply
<1>4. QED BY <1>1, <1>2, <1>3, Kinds

LEMMA BooksInvNext ==
  TypeOK /\ ClaimInv /\ SavedOnce /\ BooksInv /\ [Next]_vars => BooksInv'
  BY PositionKeptNext, PnlKeptNext, RacersKnownNext, DeltaIsSaleNext,
     UnsettledNext, OnItsWayNext DEF BooksInv

LEMMA BooksInvInit == Init => BooksInv
<1> SUFFICES ASSUME Init PROVE BooksInv
  OBVIOUS
<1>1. \A p \in Proc : pc[p] = "idle"
  BY DEF Init
<1>2. PositionKept /\ PnlKept /\ Idlers /\ RacersKnown
  BY <1>1, ProcDistinct
     DEF Init, PositionKept, PnlKept, Idlers, RacersKnown, Bookers, Flat, Holds,
         HoldsPnl
<1>3. DeltaIsSale /\ Unsettled
  BY <1>1, ProcDistinct DEF Init, DeltaIsSale, Unsettled, Bookers, Claims, Late
<1>4. OnItsWay
  <2>1. \A t \in TradeId : Owed(t) = 0
    BY DEF Init, Owed
  <2>2. \A s \in Symbol : ~(s \in index) /\ ~(pos[s].qty > 0)
    BY DEF Init, Flat
  <2>3. QED BY <2>1, <2>2 DEF OnItsWay, Sure
<1>5. QED BY <1>2, <1>3, <1>4 DEF BooksInv

(* Whatever fails, is killed, delivered twice or written by the exit poll: *)
(* a position and realized_pnl lose a booking only after two processes met *)
(* at that key, and where nothing fails a booking that returned is whole.  *)
THEOREM BooksUnlessRaced == Spec => []OnlyRacesLose
<1>1. BooksInv => OnlyRacesLose
  <2> SUFFICES ASSUME BooksInv PROVE OnlyRacesLose
    OBVIOUS
  <2>1. ASSUME Undisturbed, AtRest
        PROVE  /\ \A t \in TradeId : Owed(t) = 0
               /\ \A s \in Sure : s \in index <=> pos[s].qty > 0
    <3>1. \A p \in Bookers : pc[p] \notin Late /\ pc[p] # "index"
      BY <2>1 DEF AtRest, Bookers, Late
    <3>2. QED BY <2>1, <3>1 DEF BooksInv, OnItsWay
  <2>2. QED BY <2>1 DEF BooksInv, PositionKept, PnlKept, RacersKnown,
                        OnlyRacesLose
<1>2. ReachInv => SavedOnce
  BY DEF ReachInv
<1>3. QED BY <1>1, <1>2, BooksInvInit, BooksInvNext, ReachInit, ReachNext,
             TypeCorrect, ClaimInit, ClaimNext, PTL DEF Spec

-----------------------------------------------------------------------------
(* The processes together implement FillBook.                              *)

(* Every fill on a list or in a process's hands is one that arrived.       *)
Arriving == QueueFills \cup OrderFills
Known(q) == \A i \in 1..Len(q) : q[i].fill \in Arriving
FillsKnown ==
  /\ Known(queue) /\ Known(dlq) /\ (hand # NoItem => hand.fill \in Arriving)
  /\ \A p \in Proc : cur[p] # NoItem => FillOf(p) \in Arriving

LEMMA KnownLists ==
  ASSUME NEW q \in Seq(Item), Known(q), NEW item \in Item
  PROVE  /\ item.fill \in Arriving => Known(<<item>> \o q)
         /\ q # <<>> => /\ q[Len(q)].fill \in Arriving
                        /\ Head(q).fill \in Arriving
                        /\ Known(SubSeq(q, 1, Len(q) - 1)) /\ Known(Tail(q))
<1>1. ASSUME item.fill \in Arriving, NEW i \in 1..Len(<<item>> \o q)
      PROVE  (<<item>> \o q)[i].fill \in Arriving
  <2>1. i = 1 \/ (i - 1 \in 1..Len(q) /\ (<<item>> \o q)[i] = q[i - 1])
    BY <1>1
  <2>2. (<<item>> \o q)[1] = item
    OBVIOUS
  <2>3. QED BY <1>1, <2>1, <2>2 DEF Known
<1>2. ASSUME q # <<>>
      PROVE  q[Len(q)].fill \in Arriving /\ Head(q).fill \in Arriving
  <2>1. Len(q) \in 1..Len(q) /\ 1 \in 1..Len(q) /\ Head(q) = q[1]
    BY <1>2
  <2>2. QED BY <2>1 DEF Known
<1>3. ASSUME q # <<>>, NEW i \in 1..Len(SubSeq(q, 1, Len(q) - 1))
      PROVE  SubSeq(q, 1, Len(q) - 1)[i].fill \in Arriving
  <2>1. i \in 1..Len(q) /\ SubSeq(q, 1, Len(q) - 1)[i] = q[i]
    BY <1>3
  <2>2. QED BY <2>1 DEF Known
<1>4. ASSUME q # <<>>, NEW i \in 1..Len(Tail(q))
      PROVE  Tail(q)[i].fill \in Arriving
  <2>1. i + 1 \in 1..Len(q) /\ Tail(q)[i] = q[i + 1]
    BY <1>4
  <2>2. QED BY <2>1 DEF Known
<1>5. QED BY <1>1, <1>2, <1>3, <1>4 DEF Known

LEMMA FillsKnownNext ==
  ASSUME TypeOK, FillsKnown, [Next]_vars
  PROVE  FillsKnown'
<1>q. /\ queue \in Seq(Item) /\ dlq \in Seq(Item) /\ hand \in Item \cup {NoItem}
      /\ cur \in [Proc -> Item \cup {NoItem}] /\ LocalsOK
  BY DEF TypeOK, ListsOK, LocalsOK
(* What changes is a list or a hand, and what comes is known.              *)
<1>1. ASSUME Known(queue'), Known(dlq'),
             hand' # NoItem => hand'.fill \in Arriving,
             \A p \in Proc : cur'[p] # NoItem =>
               cur'[p] = cur[p] \/ cur'[p].fill \in Arriving
      PROVE  FillsKnown'
  BY <1>1 DEF FillsKnown, Known, FillOf
<1>2. ASSUME UNCHANGED <<queue, dlq, hand>>,
             \A p \in Proc : cur'[p] # NoItem =>
               cur'[p] = cur[p] \/ cur'[p].fill \in Arriving
      PROVE  FillsKnown'
  BY <1>2, <1>1 DEF FillsKnown
<1>3. ASSUME NEW f \in QueueFills, PushFill(f) PROVE FillsKnown'
  <2>1. [fill |-> f, retry |-> 0] \in Item /\ f \in Arriving
    BY LedgerConstants DEF Item, Arriving
  <2>2. Known(queue')
    BY <1>3, <2>1, <1>q, KnownLists DEF PushFill, FillsKnown
  <2>3. QED BY <1>3, <2>2, <1>1 DEF PushFill, FillsKnown, locals
<1>4. CASE PopFill
  <2> DEFINE item == queue[Len(queue)]
             rest == SubSeq(queue, 1, Len(queue) - 1)
  <2>1. /\ item \in Item /\ item.fill \in Arriving /\ Known(rest)
        /\ Known(<<item>> \o dlq)
    BY <1>4, <1>q, KnownLists, ListType DEF PopFill, FillsKnown
  <2>2. queue' = rest /\ hand' = hand
        /\ \/ cur' = [cur EXCEPT ![Engine] = item] /\ dlq' = dlq
           \/ dlq' = <<item>> \o dlq /\ cur' = cur
    BY <1>4 DEF PopFill
  <2>3. QED BY <2>1, <2>2, <1>1, <1>q DEF FillsKnown
<1>5. CASE TakeDead
  <2>1. dlq # <<>> /\ Head(dlq) \in Item
    BY <1>5, <1>q DEF TakeDead
  <2>2. Known(Tail(dlq)) /\ Head(dlq).fill \in Arriving
    BY <2>1, <1>q, KnownLists DEF FillsKnown
  <2>3. QED BY <1>5, <2>2, <1>1 DEF TakeDead, FillsKnown, locals
<1>6. CASE RequeueDead
  <2>1. PICK r \in {0, hand.retry} : queue'
        = <<[hand EXCEPT !.retry = r]>> \o queue
    BY <1>6 DEF RequeueDead
  <2>2. hand \in Item /\ hand.fill \in Arriving
    BY <1>6, <1>q DEF RequeueDead, FillsKnown
  <2>3. /\ [hand EXCEPT !.retry = r] \in Item
        /\ [hand EXCEPT !.retry = r].fill \in Arriving
    BY <2>1, <2>2 DEF Item
  <2>4. Known(queue')
    BY <2>1, <2>3, <1>q, KnownLists DEF FillsKnown
  <2>5. QED BY <1>6, <2>4, <1>1 DEF RequeueDead, FillsKnown, locals
<1>7. ASSUME NEW f \in OrderFills, WatchFill(f) PROVE FillsKnown'
  <2>1. /\ UNCHANGED <<queue, dlq, hand>>
        /\ cur' = [cur EXCEPT ![Watcher] = [fill |-> f, retry |-> 0]]
    BY <1>7 DEF WatchFill, lists
  <2>2. QED BY <2>1, <1>2, <1>q DEF Arriving
<1>8. ASSUME NEW p \in Proc, Apply(p) PROVE FillsKnown'
  <2>1. cur' = cur /\ UNCHANGED <<queue, hand>>
    BY <1>8
       DEF Apply, CheckDup, ReadPosition, ClaimTrade, RecordTrade,
           SavePosition, IndexPosition, ReadPnl, WritePnl, ReadForRecalc,
           WriteRecalc, lists
  <2>2. dlq' = dlq \/ (ReadPosition(p) /\ dlq' = <<cur[p]>> \o dlq)
    BY <1>8
       DEF Apply, CheckDup, ReadPosition, ClaimTrade, RecordTrade,
           SavePosition, IndexPosition, ReadPnl, WritePnl, ReadForRecalc,
           WriteRecalc, lists
  <2>3. ASSUME ReadPosition(p) PROVE cur[p] \in Item /\ cur[p].fill \in Arriving
    <3>1. cur[p] \in Item
      BY <2>3, <1>q, HandType DEF ReadPosition
    <3>2. QED BY <3>1, LedgerConstants DEF FillsKnown, FillOf
  <2>4. Known(dlq')
    BY <2>2, <2>3, <1>q, KnownLists DEF FillsKnown
  <2>5. QED BY <2>1, <2>4, <1>1 DEF FillsKnown
<1>9. ASSUME NEW p \in Proc, Finish(p), UNCHANGED <<queue, dlq, hand>>
      PROVE  FillsKnown'
  BY <1>9, <1>2, <1>q DEF Finish
<1>10. CASE EngineReturn
  BY <1>10, <1>9, ProcDistinct DEF EngineReturn, lists
<1>11. CASE WatcherReturn \/ WatcherFails
  BY <1>11, <1>9, ProcDistinct DEF WatcherReturn, WatcherFails
<1>12. CASE EngineFails
  <2>1. cur[Engine] \in Item
    BY <1>12, <1>q, ProcDistinct DEF EngineFails, EngineMayFail, InApply, LocalsOK
  <2>2. cur[Engine].fill \in Arriving
    BY <2>1, LedgerConstants, ProcDistinct DEF FillsKnown, FillOf
  <2>3. /\ [cur[Engine] EXCEPT !.retry = @ + 1] \in Item
        /\ [cur[Engine] EXCEPT !.retry = @ + 1].fill \in Arriving
    BY <2>1, <2>2 DEF Item
  <2>4. Known(queue') /\ Known(dlq')
    BY <1>12, <2>1, <2>2, <2>3, <1>q, KnownLists DEF EngineFails, FillsKnown
  <2>5. hand' = hand /\ cur' = [cur EXCEPT ![Engine] = NoItem]
    BY <1>12 DEF EngineFails, Finish
  <2>6. QED BY <2>4, <2>5, <1>1, <1>q DEF FillsKnown
<1>13. ASSUME NEW p \in Proc, Crash(p) PROVE FillsKnown'
  BY <1>13, <1>9 DEF Crash, lists
<1>14. CASE StartRecalc \/ SyncPositions \/ UNCHANGED vars
  BY <1>14, <1>2, PollFrame DEF StartRecalc, vars, lists, locals
<1>15. QED
  BY <1>3, <1>4, <1>5, <1>6, <1>7, <1>8, <1>10, <1>11, <1>12, <1>13, <1>14
     DEF Next

(* Seen through the mapping, save_position books ...                       *)
LEMMA SaveBooks ==
  ASSUME TypeOK, ClaimInv, BooksInv, FillsKnown, NEW p \in Proc, SavePosition(p),
         NEW f, f = FillOf(p)
  PROVE  f \in Arriving /\ Ledger!BookFill(f)
<1>t. LocalsOK /\ LedgerOK /\ HistoryOK
  BY DEF TypeOK
<1> DEFINE old == pos[f.sym]
           n == SellQty(f, old)
<1>1. /\ pc[p] = "save" /\ pos' = [pos EXCEPT ![f.sym] = NewPosition(f, snap[p])]
      /\ saves' = [saves EXCEPT ![f.tid] = @ + 1]
      /\ UNCHANGED <<env, trades, index, realized, settled, cur>>
      /\ raced \subseteq raced'
  BY <1>t DEF SavePosition, Race
<1>2. /\ p \in Bookers /\ f \in Fill /\ f.sym \in Symbol /\ f.tid \in TradeId
      /\ f.side \in {"BUY", "SELL"} /\ cur[p] \in Item
  BY <1>1, <1>t, HandType DEF Bookers
<1>3. f \in Arriving
  BY <1>2, LedgerConstants DEF FillsKnown
<1>4. saves[f.tid] = 0 /\ f.tid \in DOMAIN trades \ settled
      /\ trades[f.tid] = delta[p]
  BY <1>1, <1>2 DEF ClaimInv, Owns, BooksInv, Unsettled, Claims, Bookers
<1>5. /\ {t \in TradeId : saves'[t] > 0}
         = {t \in TradeId : saves[t] > 0} \cup {f.tid}
      /\ f.tid \notin {t \in TradeId : saves[t] > 0}
  BY <1>1, <1>2, <1>4, <1>t DEF HistoryOK
<1>6. \A s \in Symbol \ {f.sym} : pos'[s] = pos[s]
  BY <1>1, <1>t DEF LedgerOK
<1>7. /\ \A t \in TradeId \ {f.tid} : Owed(t)' = Owed(t)
      /\ \A t \in TradeId : t = f.tid => Owed(t)' = delta[p]
  BY <1>1, <1>2, <1>4, <1>t DEF Owed, HistoryOK
<1>8. ASSUME f.sym \notin raced PROVE Ledger!Exactly(f)
  <2>1. snap[p] = old /\ old \in Holding
    BY <1>8, <1>1, <1>2, <1>t DEF BooksInv, PositionKept, Holds, LedgerOK
  <2>2. pos'[f.sym] = NewPosition(f, old)
    BY <2>1, <1>1, <1>2, <1>t DEF LedgerOK
  <2>3. n = (IF f.qty <= old.qty THEN f.qty ELSE old.qty)
    BY DEF SellQty, Smaller
  <2>o. [t \in TradeId |-> Owed(t)]'[f.tid] = delta[p]
    BY <1>2, <1>7
  <2>4. CASE f.side = "BUY"
    <3>1. delta[p] = 0
      BY <1>1, <1>2, <2>4 DEF BooksInv, DeltaIsSale
    <3>2. NewPosition(f, old) = Ledger!Bought(old, f)
      BY <2>4 DEF NewPosition, NewAvg, QtyChange, Ledger!Bought
    <3>3. QED BY <2>2, <2>4, <2>o, <3>1, <3>2 DEF Ledger!Exactly
  <2>5. CASE f.side = "SELL"
    <3>1. n > 0 /\ delta[p] = (f.price - old.avg) * n - f.fee
      BY <1>1, <1>2, <2>1, <2>5 DEF BooksInv, DeltaIsSale, RealizedDelta
    <3>2. NewPosition(f, old) = Ledger!Sold(old, n)
      <4>1. /\ old.qty \in Nat /\ n \in 0 .. old.qty
            /\ old = [qty |-> old.qty, avg |-> old.avg]
        BY <1>2, <2>1, BookingType DEF Holding
      <4>2. NewPosition(f, old)
            = [qty |-> old.qty + -n,
               avg |-> IF old.qty - n > 0 THEN old.avg ELSE 0]
        BY <2>5 DEF NewPosition, NewAvg, QtyChange
      <4>3. CASE n = old.qty
        BY <4>1, <4>2, <4>3 DEF Ledger!Sold, Ledger!Empty
      <4>4. CASE n # old.qty
        <5>1. Ledger!Sold(old, n) = [qty |-> old.qty - n, avg |-> old.avg]
          BY <4>1, <4>4 DEF Ledger!Sold
        <5>2. old.qty - n > 0 /\ old.qty + -n = old.qty - n
          BY <4>1, <4>4
        <5>3. QED BY <4>2, <5>1, <5>2
      <4>5. QED BY <4>3, <4>4
    <3>3. QED BY <2>2, <2>3, <2>5, <2>o, <3>1, <3>2 DEF Ledger!Exactly
  <2>6. QED BY <1>2, <2>4, <2>5
<1>9. \A t \in TradeId \ {f.tid} : [u \in TradeId |-> Owed(u)]'[t]
                                   = [u \in TradeId |-> Owed(u)][t]
  BY <1>7
<1>10. Ledger!BookFill(f)
  BY <1>1, <1>5, <1>6, <1>8, <1>9 DEF Ledger!BookFill
<1>11. QED BY <1>3, <1>10

(* ... save_position's index command lists ...                             *)
LEMMA IndexLists ==
  ASSUME TypeOK, BooksInv, NEW p \in Proc, IndexPosition(p)
  PROVE  (\E s \in Symbol : Ledger!List(s)) \/ Ledger!Overwrite
<1>t. LocalsOK /\ LedgerOK
  BY DEF TypeOK
<1> DEFINE f == FillOf(p)
<1>1. /\ pc[p] = "index"
      /\ UNCHANGED <<env, trades, pos, realized, saves, settled, raced>>
      /\ index' = IF NewPosition(f, snap[p]).qty = 0
                  THEN index \ {f.sym} ELSE index \cup {f.sym}
  BY DEF IndexPosition, history
<1>2. p \in Bookers /\ f.sym \in Symbol
  BY <1>1, <1>t, HandType DEF Bookers
<1>3. [t \in TradeId |-> Owed(t)]' = [t \in TradeId |-> Owed(t)]
  BY <1>1 DEF Owed
<1>4. CASE f.sym \in raced
  <2>1. \A s \in Symbol \ (raced \cup env.mirror) : s \in index' <=> s \in index
    BY <1>1, <1>4
  <2>2. Ledger!Overwrite
    BY <1>1, <1>3, <2>1 DEF Ledger!Overwrite
  <2>3. QED BY <2>2
<1>5. CASE f.sym \notin raced
  <2>1. pos[f.sym] = NewPosition(f, snap[p])
    BY <1>1, <1>2, <1>5 DEF BooksInv, PositionKept, Holds
  <2>2. pos[f.sym].qty \in Nat
    BY <1>2, <1>t DEF LedgerOK, Holding
  <2>3. index' = IF pos[f.sym].qty > 0 THEN index \cup {f.sym}
                 ELSE index \ {f.sym}
    BY <1>1, <2>1, <2>2
  <2>4. Ledger!List(f.sym)
    BY <1>1, <1>3, <2>3 DEF Ledger!List
  <2>5. QED BY <1>2, <2>4
<1>6. QED BY <1>4, <1>5

(* ... and update_pnl settles.                                             *)
LEMMA PnlSettles ==
  ASSUME TypeOK, SavedOnce, BooksInv, NEW p \in Proc, WritePnl(p)
  PROVE  \E t \in TradeId : Ledger!Settle(t)
<1>t. LocalsOK
  BY DEF TypeOK
<1> DEFINE t == FillOf(p).tid
<1>1. /\ pc[p] = "pnl_write" /\ realized' = reg[p] + delta[p]
      /\ settled' = settled \cup {t}
      /\ UNCHANGED <<env, trades, pos, index, saves>> /\ raced \subseteq raced'
  BY DEF WritePnl, Settle, Race
<1>2. p \in Bookers /\ t \in TradeId
  BY <1>1, <1>t, HandType DEF Bookers
<1>3. Owed(t) = delta[p]
  <2>1. /\ saves[t] = 1 /\ t \in DOMAIN trades \ settled
        /\ trades[t] = delta[p]
    BY <1>1, <1>2
       DEF SavedOnce, Booked, Bookers, BooksInv, Unsettled, Claims, Late
  <2>2. QED BY <2>1 DEF Owed
<1>4. Pnl \notin raced => realized' = realized + Owed(t)
  BY <1>1, <1>3 DEF BooksInv, PnlKept, HoldsPnl
<1>5. /\ \A u \in TradeId \ {t} : Owed(u)' = Owed(u)
      /\ \A u \in TradeId : u = t => Owed(u)' = 0
  BY <1>1 DEF Owed
<1>6. [u \in TradeId |-> Owed(u)]'
      = [[u \in TradeId |-> Owed(u)] EXCEPT ![t] = 0]
  BY <1>2, <1>5
<1>7. [u \in TradeId |-> Owed(u)][t] = Owed(t)
  BY <1>2
<1>8. Ledger!Settle(t)
  BY <1>1, <1>4, <1>6, <1>7 DEF Ledger!Settle
<1>9. QED BY <1>2, <1>8

LEMMA BookStep ==
  ASSUME TypeOK, ClaimInv, SavedOnce, BooksInv, FillsKnown, [Next]_vars
  PROVE  Ledger!Next \/ UNCHANGED Ledger!books
<1>t. LocalsOK /\ LedgerOK /\ HistoryOK
  BY DEF TypeOK
<1>1. ASSUME UNCHANGED <<env, saves, trades, settled, pos, index, realized,
                         raced>>
      PROVE  UNCHANGED Ledger!books
  BY <1>1 DEF Ledger!books, Owed
<1>2. CASE Quiet
  BY <1>2, <1>1 DEF Quiet, ledger
<1>3. CASE SyncPositions
  <2>1. UNCHANGED <<env, saves, trades, settled, realized>>
    BY <1>3, PollFrame
  <2>2. ASSUME NEW s \in Symbol \ (raced \cup env.mirror)
        PROVE  pos'[s] = pos[s] /\ (s \in index' <=> s \in index)
    <3>1. s \notin adding /\ s \notin expiring
      BY <1>t DEF LedgerOK
    <3>2. QED
      BY <1>3, <3>1, <1>t
         DEF SyncPositions, MirrorHolding, ListHolding, DropHolding,
             HashLapses, CrashPoll, ledger, LedgerOK
  <2>3. raced \subseteq raced'
    BY <1>3
       DEF SyncPositions, MirrorHolding, ListHolding, DropHolding, HashLapses,
           CrashPoll, Race, history
  <2>4. [t \in TradeId |-> Owed(t)]' = [t \in TradeId |-> Owed(t)]
    BY <2>1 DEF Owed
  <2>5. Ledger!Overwrite
    BY <2>1, <2>2, <2>3, <2>4 DEF Ledger!Overwrite
  <2>6. QED BY <2>5 DEF Ledger!Next
<1>4. ASSUME NEW p \in Proc, Apply(p)
      PROVE  Ledger!Next \/ UNCHANGED Ledger!books
  <2>1. CASE \/ CheckDup(p) \/ ReadPosition(p) \/ ClaimTrade(p) \/ ReadPnl(p)
             \/ ReadForRecalc(p)
    <3>1. UNCHANGED <<env, saves, trades, settled, pos, index, realized, raced>>
      BY <2>1
         DEF CheckDup, ReadPosition, ClaimTrade, ReadPnl, ReadForRecalc,
             ledger, history
    <3>2. QED BY <3>1, <1>1
  <2>2. CASE RecordTrade(p)
    <3>1. /\ UNCHANGED <<env, saves, settled, pos, index, realized, raced>>
          /\ p \in Bookers /\ Owns(p)
          /\ trades' = [t \in DOMAIN trades \cup {FillOf(p).tid} |->
                          IF t = FillOf(p).tid THEN delta[p] ELSE trades[t]]
      BY <2>2, <1>t, HandType DEF RecordTrade, history, Owns, Bookers
    <3>2. saves[FillOf(p).tid] = 0
      BY <3>1 DEF ClaimInv, Bookers
    <3>3. \A t \in TradeId : Owed(t)' = Owed(t)
      BY <3>1, <3>2 DEF Owed
    <3>4. QED BY <3>1, <3>3 DEF Ledger!books
  <2>3. CASE SavePosition(p)
    <3>1. PICK f : f = FillOf(p)
      OBVIOUS
    <3>2. f \in Arriving /\ Ledger!BookFill(f)
      BY <2>3, <3>1, SaveBooks
    <3>3. QED BY <3>2 DEF Ledger!Next, Arriving
  <2>4. CASE IndexPosition(p)
    BY <2>4, IndexLists DEF Ledger!Next
  <2>5. CASE WritePnl(p)
    BY <2>5, PnlSettles DEF Ledger!Next
  <2>6. CASE WriteRecalc(p)
    <3>1. /\ UNCHANGED <<env, saves, trades, settled, pos, index, raced>>
          /\ pc[p] = "recalc_write" /\ realized' = reg[p]
      BY <2>6 DEF WriteRecalc, history
    <3>2. CASE Pnl \notin raced
      <4>1. realized' = realized
        BY <3>1, <3>2 DEF BooksInv, PnlKept, HoldsPnl
      <4>2. QED BY <3>1, <4>1, <1>1
    <3>3. CASE Pnl \in raced
      <4>1. [t \in TradeId |-> Owed(t)]' = [t \in TradeId |-> Owed(t)]
        BY <3>1 DEF Owed
      <4>2. Ledger!Overwrite
        BY <3>1, <3>3, <4>1 DEF Ledger!Overwrite
      <4>3. QED BY <4>2 DEF Ledger!Next
    <3>4. QED BY <3>2, <3>3
  <2>7. QED
    BY <1>4, <2>1, <2>2, <2>3, <2>4, <2>5, <2>6 DEF Apply
<1>5. QED BY <1>2, <1>3, <1>4, Kinds

(* The engine, the watcher, the updater and the exit poll, failing and     *)
(* killed at any command, together are a ledger that books a trade whole   *)
(* and once: each save_position takes the position as it stands, each sale *)
(* reaches realized_pnl once, and only a raced key may hold anything else. *)
THEOREM LedgerImplementsBook == Spec => ImplementsBook
<1>1. Init => FillsKnown
  BY DEF Init, FillsKnown, Known
<1>2. Init => Ledger!Init
  <2> SUFFICES ASSUME Init PROVE Ledger!Init
    OBVIOUS
  <2>1. env.mirror \subseteq Symbol
    BY LedgerConstants DEF Init, Environment
  <2>2. \A t \in TradeId : Owed(t) = 0 /\ ~(saves[t] > 0)
    BY DEF Init, Owed
  <2>3. QED BY <2>1, <2>2 DEF Init, Ledger!Init, Flat, Ledger!Empty
<1>3. ReachInv => SavedOnce
  BY DEF ReachInv
<1>4. TypeOK /\ ClaimInv /\ SavedOnce /\ BooksInv /\ FillsKnown /\ [Next]_vars
        => [Ledger!Next]_(Ledger!books)
  BY BookStep
<1>5. TypeOK /\ FillsKnown /\ [Next]_vars => FillsKnown'
  BY FillsKnownNext
<1>6. QED
  BY <1>1, <1>2, <1>3, <1>4, <1>5, TypeCorrect, ClaimInit, ClaimNext, ReachInit,
     ReachNext, BooksInvInit, BooksInvNext, PTL
     DEF Spec, ImplementsBook, Ledger!Spec
=============================================================================
