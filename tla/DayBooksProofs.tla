---------------------------- MODULE DayBooksProofs ----------------------------
(***************************************************************************)
(* What holds of DayBooks for every number of days, sales, commands, kills *)
(* and reports.  That COIN's realized_pnl settles is a liveness property   *)
(* and stays with TLC.                                                     *)
(***************************************************************************)
EXTENDS DayBooks, TLAPS

LEMMA DayType == /\ Day \subseteq Nat /\ 0 \in Day
                 /\ \A d \in Day : d < LastDay => d + 1 \in Day
  BY BookConstants DEF Day

-----------------------------------------------------------------------------
(* The killswitch.                                                         *)

(* A command is remembered before it acts, and one that is remembered and  *)
(* has not acted is only in the bot's hands: so no command acts twice, and *)
(* nothing else ends a pause that has no TTL.                              *)
KillInv ==
  /\ DOMAIN bot = {"offset", "batch", "doing"}
  /\ bot = [offset |-> bot.offset, batch |-> bot.batch, doing |-> bot.doing]
  /\ acted \subseteq seen
  /\ bot.doing => /\ bot.batch # << >>
                  /\ Head(bot.batch).id \in seen \ acted
  /\ killed => pause = "stays"

LEMMA KillNext == KillInv /\ [Next]_vars => KillInv'
<1> SUFFICES ASSUME KillInv, [Next]_vars PROVE KillInv'
  OBVIOUS
<1>1. CASE UNCHANGED <<seen, bot, acted, killed, pause>>
  BY <1>1 DEF KillInv
<1>2. ASSUME NEW m \in Market, Rule0(m) PROVE KillInv'
  BY <1>2, <1>1 DEF Rule0, telegram, history
<1>3. CASE Rule3
  BY <1>3 DEF Rule3, KillInv, telegram
<1>4. CASE AutoPause
  BY <1>4 DEF AutoPause, KillInv, telegram, history
<1>5. ASSUME NEW kind, Send(kind) PROVE KillInv'
  BY <1>5, <1>1 DEF Send, history
<1>6. CASE GetUpdates
  BY <1>6 DEF GetUpdates, KillInv, history
<1>7. CASE SeenUpdate
  BY <1>7 DEF SeenUpdate, KillInv, history
<1>8. CASE Dispatch
  BY <1>8 DEF Dispatch, KillInv
<1>9. CASE CrashBot
  BY <1>9 DEF CrashBot, KillInv, Fresh, history
<1>10. CASE Tick
  BY <1>10 DEF Tick, KillInv, telegram, history
<1>11. CASE Reporting
  BY <1>11, <1>1
     DEF Reporting, SyncCompute, SyncWrite, SendReport, MarkSent, AutoTune,
         ResetDailyCap, ZeroRealized, Computed, SyncRaises, OthersUnchanged,
         telegram
<1>12. CASE (\E b \in Booker : Booking(b)) \/ Updating \/ CrashReport
  BY <1>12, <1>1
     DEF Booking, ReadPnl, WritePnl, Updating, RecalcRead, RecalcWrite,
         CrashReport, telegram, history
<1>13. ASSUME NEW b, NEW m, NEW stamp, NEW pnl, RecordTrade(b, m, stamp, pnl)
       PROVE KillInv'
  BY <1>13, <1>1 DEF RecordTrade, telegram, history
<1>14. CASE UNCHANGED vars
  BY <1>14, <1>1 DEF vars, telegram, history
<1>15. QED
  BY <1>2, <1>3, <1>4, <1>5, <1>6, <1>7, <1>8, <1>9, <1>10, <1>11, <1>12,
     <1>13, <1>14 DEF Next

(* However many commands, kills of the bot and midnights: the trading the  *)
(* killswitch paused stays paused until a command.                         *)
THEOREM KillswitchStays == Spec => []KillswitchHolds
<1>1. Init => KillInv
  BY DEF Init, KillInv, Fresh
<1>2. KillInv => KillswitchHolds
  BY DEF KillInv, KillswitchHolds
<1>3. QED BY <1>1, <1>2, KillNext, PTL DEF Spec

-----------------------------------------------------------------------------
(* The tuning.                                                             *)

(* The report is marked as sent first: a day that is not marked has not    *)
(* been tuned, and the pass that marked it is the only one that tunes.     *)
TuneInv ==
  /\ DOMAIN rep = {"pc", "day", "slot", "got"}
  /\ rep.day \in Day /\ day \in Day
  /\ DOMAIN reported = Market
  /\ tunes \in [Day -> Nat]
  /\ \A d \in Day : tunes[d] <= 1 /\ (d \notin reported["KR"] => tunes[d] = 0)
  /\ rep.pc = "reportMark" => rep.day \notin reported["KR"]
  /\ rep.pc = "tune" => tunes[rep.day] = 0 /\ rep.day \in reported["KR"]

LEMMA TuneNext == TuneInv /\ "report" \notin env.failing /\ [Next]_vars => TuneInv'
<1> SUFFICES ASSUME TuneInv, "report" \notin env.failing, [Next]_vars
    PROVE TuneInv'
  OBVIOUS
<1>1. CASE UNCHANGED <<rep, day, reported, tunes>>
  BY <1>1 DEF TuneInv
<1>2. CASE Tick
  <2>1. day' \in Day
    <3>1. day' = day \/ (day < LastDay /\ day' = day + 1)
      BY <1>2 DEF Tick
    <3>2. day \in Day
      BY DEF TuneInv
    <3>3. QED BY <3>1, <3>2, DayType
  <2>2. QED BY <1>2, <2>1 DEF Tick, TuneInv, books, history
<1>3. CASE CrashReport
  BY <1>3, DayType DEF CrashReport, TuneInv, NoRun, books, history
<1>4. CASE SyncCompute
  <2>1. \E d \in Day : \E at : /\ Computed(d, at) \/ SyncRaises(d, at)
                               /\ UNCHANGED <<day, reported, tunes>>
    BY <1>4 DEF SyncCompute, OthersUnchanged, TuneInv
  <2>2. /\ DOMAIN rep' = {"pc", "day", "slot", "got"} /\ rep'.day \in Day
        /\ rep'.pc \notin {"reportMark", "tune"}
    BY <2>1 DEF Computed, SyncRaises, Branch
  <2>3. QED BY <2>1, <2>2 DEF TuneInv
<1>5. CASE SyncWrite
  BY <1>5 DEF SyncWrite, Branch, TuneInv, OthersUnchanged
<1>6. CASE SendReport
  BY <1>6 DEF SendReport, ReportDay, ReportMarket, TuneInv, OthersUnchanged
<1>7. CASE MarkSent
  BY <1>7
     DEF MarkSent, ReportDay, ReportMarket, TuneInv, OthersUnchanged, Market
<1>8. ASSUME NEW win, NEW drawdown, AutoTune(win, drawdown) PROVE TuneInv'
  BY <1>8, DayType DEF AutoTune, NoRun, TuneInv, OthersUnchanged
<1>9. CASE ResetDailyCap \/ ZeroRealized
  BY <1>9 DEF ResetDailyCap, ZeroRealized, AfterReset, TuneInv, OthersUnchanged
<1>10. QED
  BY <1>1, <1>2, <1>3, <1>4, <1>5, <1>6, <1>7, <1>8, <1>9
     DEF Next, RecordTrade, Booking, ReadPnl, WritePnl, Updating, RecalcRead,
         RecalcWrite, Reporting, Rule0, Rule3, AutoPause, Send, GetUpdates,
         SeenUpdate, Dispatch, CrashBot, PauseUnchanged, books, history, vars

(* For every number of days, weekends, kills and syncs that raise KR is    *)
(* tuned once a day, where its report does not raise.                      *)
THEOREM TunedOnceADay == Spec => []TunedOnce
<1> DEFINE Inv == "report" \notin env.failing => TuneInv
<1>1. Init => Inv
  BY DayType DEF Init, TuneInv, NoRun
<1>2. Inv /\ [Next]_vars => Inv'
  <2>1. [Next]_vars => env' = env
    BY DEF Next, RecordTrade, Booking, ReadPnl, WritePnl, Updating, RecalcRead,
           RecalcWrite, Reporting, SyncCompute, SyncWrite, SendReport,
           MarkSent, AutoTune, ResetDailyCap, ZeroRealized, OthersUnchanged,
           Rule0, Rule3, AutoPause, Send, GetUpdates, SeenUpdate, Dispatch,
           CrashReport, CrashBot, Tick, PauseUnchanged, vars
  <2>2. QED BY <2>1, TuneNext
<1>3. Inv => TunedOnce
  BY DEF TuneInv, TunedOnce
<1>4. QED BY <1>1, <1>2, <1>3, PTL DEF Spec
=============================================================================
