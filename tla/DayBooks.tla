------------------------------- MODULE DayBooks -------------------------------
(***************************************************************************)
(* The books of a day.  position_engine, and for COIN the order watcher as *)
(* well, books sales (trade_index and pnl:{market}), the updater rewrites  *)
(* pnl:KR with the new prices,                                             *)
(* daily_report_runner resynchronizes COIN's realized_pnl every minute,    *)
(* closes the day at midnight, resets KR at 08:55, and at 15:40 reports KR *)
(* and tunes its parameters.  The loss limit of the risk engine reads      *)
(* realized_pnl and pauses trading; the operator resumes it by Telegram.   *)
(*                                                                         *)
(* A command that reads or writes a key another process writes ends a      *)
(* step.  What a fill does to a position is in FillLedger, the daily count *)
(* the reset deletes in OrderGate.                                         *)
(***************************************************************************)
EXTENDS Integers, Sequences, FiniteSets

CONSTANTS
  Scenario,   \* the environments considered, one of which is drawn at Init
  LastDay     \* the days are 0..LastDay

Market == {"KR", "COIN"}
Booker == {"engine", "watcher"}
Day == 0..LastDay
Slot == 0..4    \* 00:00, the morning, 08:55, the session, from 15:40
Result == {"low", "middle", "high"}   \* avg_win_rate

(* What is given and never changes.                                        *)
Environment ==
  [books : SUBSET Market,    \* markets whose realized_pnl is booked in
   bookers : SUBSET Booker,  \* who books
   pnl : SUBSET Int,         \* what a sale may yield
   fills : Nat,              \* bound: sales
   limit : Int,              \* daily_loss_limit
   updater : BOOLEAN,        \* the updater runs beside them
   weekend : SUBSET Day,
   holds : SUBSET Market,    \* markets whose realized_pnl is looked at
   commands : SUBSET {"on", "off"},  \* what the operator sends
   sends : Nat,              \* bound: how often
   autopause : BOOLEAN,      \* the call cap of the generator may be reached
   crashes : Nat,            \* bound: kills of the runner or the bot
   failing : SUBSET {"sync", "report"},  \* what may raise
   raises : Nat]             \* bound: how often

ASSUME BookConstants == LastDay \in Nat /\ Scenario \subseteq Environment

VARIABLES
  env, day, slot,
  net,       \* trade_index:{market}:*: the sum of a day's sales
  perf,      \* perf:daily:{market}:{day} exists
  realized,  \* pnl:{market} realized_pnl
  reset,     \* claw:daily_reset:{market}:{day} exists
  reported,  \* perf:report_sent:{market}:{day} exists
  config,    \* claw:config:KR size_cash_pct (%) and stop_pct (0: unset)
  pause,     \* claw:pause:global: "no", "midnight" (a TTL) or "stays"
  seen,      \* ops:tg:seen:{update_id}
  mail,      \* updates Telegram keeps, oldest first
  book,      \* each booker between its commands
  mark,      \* the updater between its commands
  rep,       \* daily_report_runner between its commands
  risk,      \* the risk engine between rule 0 and rule 3
  bot,       \* openclaw_bot: its offset and the updates of its batch
  fills, sends, crashes, raises,   \* how much of each bound is spent
  killed,    \* history: the killswitch has paused, no command acted since
  acted,     \* history: commands that acted
  tunes      \* history: auto_tune's calls per day

books == <<net, perf, realized, reset, reported, config>>
telegram == <<seen, mail, bot>>
spent == <<fills, sends, crashes, raises>>
history == <<killed, acted, tunes>>
vars == <<env, day, slot, books, pause, telegram, book, mark, rep, risk, spent,
          history>>

Free == [pc |-> "idle", market |-> "KR", got |-> 0]
Booked == [pc |-> "idle", market |-> "KR", add |-> 0, got |-> 0]
Fresh == [offset |-> 0, batch |-> << >>, doing |-> FALSE]
NoRun == [pc |-> "idle", day |-> 0, slot |-> 0, got |-> 0]

Init ==
  /\ env \in Scenario /\ day = 0 /\ slot = 1
  /\ net = [m \in Market |-> [d \in Day |-> 0]]
  /\ perf = [m \in Market |-> {}]
  /\ realized = [m \in Market |-> 0]
  /\ reset = [m \in Market |-> {}] /\ reported = [m \in Market |-> {}]
  /\ config = [size |-> 20, stop |-> 0]
  /\ pause = "no" /\ seen = {} /\ mail = << >>
  /\ book = [b \in Booker |-> Booked] /\ mark = Free /\ rep = NoRun /\ risk = Free /\ bot = Fresh
  /\ fills = 0 /\ sends = 0 /\ crashes = 0 /\ raises = 0
  /\ killed = FALSE /\ acted = {} /\ tunes = [d \in Day |-> 0]

-----------------------------------------------------------------------------
(* Booking and prices.                                                     *)

(* record_trade: the fill carries the time of its execution, which may be  *)
(* yesterday's.  A sale on the stroke of midnight is in both days, as      *)
(* _get_sell_trades_for_date takes both ends.                              *)
Days(stamp) ==
  CASE stamp = "today" -> {day}
    [] stamp = "yesterday" -> {day - 1} \cap Day
    [] OTHER -> {day - 1, day} \cap Day

RecordTrade(b, m, stamp, pnl) ==
  /\ b \in env.bookers /\ (b = "watcher" => m = "COIN")
  /\ book[b].pc = "idle" /\ fills < env.fills
  /\ stamp = "today" \/ (day > 0 /\ slot = 0)
  /\ net' = [net EXCEPT ![m] =
              [d \in Day |-> IF d \in Days(stamp) THEN @[d] + pnl ELSE @[d]]]
  /\ book' = [book EXCEPT ![b] = [pc |-> "read", market |-> m, add |-> pnl, got |-> 0]]
  /\ fills' = fills + 1
  /\ UNCHANGED <<env, day, slot, perf, realized, reset, reported, config, pause,
                 telegram, mark, rep, risk, sends, crashes, raises, history>>

(* update_pnl reads the sums, and writes them with the sale added; then    *)
(* recalc_unrealized does the same with nothing to add.                    *)
ReadPnl(b) ==
  /\ book[b].pc = "read"
  /\ book' = [book EXCEPT ![b].pc = "write", ![b].got = realized[book[b].market]]
  /\ UNCHANGED <<env, day, slot, books, pause, telegram, mark, rep, risk, spent,
                 history>>

WritePnl(b) ==
  /\ book[b].pc = "write"
  /\ realized' = [realized EXCEPT ![book[b].market] = book[b].got + book[b].add]
  /\ book' = [book EXCEPT ![b] = IF @.add = 0 THEN Booked
                                 ELSE [@ EXCEPT !.pc = "read", !.add = 0, !.got = 0]]
  /\ UNCHANGED <<env, day, slot, net, perf, reset, reported, config, pause,
                 telegram, mark, rep, risk, spent, history>>

(* recalc_unrealized of the updater, which polls no coins, writes back the *)
(* realized_pnl it read.                                                   *)
RecalcRead(m) ==
  /\ env.updater /\ m # "COIN" /\ mark.pc = "idle"
  /\ mark' = [pc |-> "write", market |-> m, got |-> realized[m]]
  /\ UNCHANGED <<env, day, slot, books, pause, telegram, book, rep, risk, spent,
                 history>>

RecalcWrite ==
  /\ mark.pc = "write"
  /\ realized' = [realized EXCEPT ![mark.market] = mark.got]
  /\ mark' = Free
  /\ UNCHANGED <<env, day, slot, net, perf, reset, reported, config, pause,
                 telegram, book, rep, risk, spent, history>>

-----------------------------------------------------------------------------
(* daily_report_runner, one pass a minute.                                 *)

OthersUnchanged == UNCHANGED <<env, day, slot, pause, telegram, book, mark, risk,
                               fills, sends, crashes, killed, acted>>

(* The branches of the loop after the minute's sync.                       *)
Branch(d, at) ==
  CASE at = 0 /\ d > 0 -> "midnight"
    [] at = 2 /\ d \notin env.weekend -> "reset"
    [] at = 4 /\ d \notin env.weekend -> "report"
    [] OTHER -> "idle"

(* sync_realized_pnl of day d has computed and saved the day's sum.        *)
Computed(d, at) ==
  /\ rep' = [pc |-> IF rep.pc = "idle" THEN "write" ELSE "writeAgain",
             day |-> d, slot |-> at, got |-> net["COIN"][d]]
  /\ perf' = [perf EXCEPT !["COIN"] = @ \cup {d}]
  /\ UNCHANGED raises

(* It raises: the loop goes on with its branches, or a midnight branch     *)
(* ends here.                                                              *)
SyncRaises(d, at) ==
  /\ "sync" \in env.failing /\ raises < env.raises
  /\ raises' = raises + 1
  /\ rep' = [pc |-> IF rep.pc = "idle" THEN Branch(d, at) ELSE "idle",
             day |-> d, slot |-> at, got |-> 0]
  /\ UNCHANGED perf

(* Mutant: the date is UTC's, a day behind until nine in the morning.      *)
X_SyncCompute ==
  /\ rep.pc \in {"idle", "again"}
  /\ LET d == IF rep.pc = "again" THEN rep.day
              ELSE IF slot < 3 /\ day > 0 THEN day - 1 ELSE day
         at == IF rep.pc = "idle" THEN slot ELSE rep.slot
     IN Computed(d, at) \/ SyncRaises(d, at)
  /\ UNCHANGED <<net, realized, reset, reported, config, tunes>>
  /\ OthersUnchanged

(* The head of the loop, and the first half of sync_realized_pnl of COIN:  *)
(* compute_and_save of the day that has begun.                             *)
SyncCompute ==
  /\ rep.pc \in {"idle", "again"}
  /\ LET d == IF rep.pc = "idle" THEN day ELSE rep.day
         at == IF rep.pc = "idle" THEN slot ELSE rep.slot
     IN Computed(d, at) \/ SyncRaises(d, at)
  /\ UNCHANGED <<net, realized, reset, reported, config, tunes>>
  /\ OthersUnchanged

(* The second half: realized_pnl becomes the sum that was computed.        *)
SyncWrite ==
  /\ rep.pc \in {"write", "writeAgain"}
  /\ realized' = [realized EXCEPT !["COIN"] = rep.got]
  /\ rep' = [rep EXCEPT !.pc = IF rep.pc = "write" THEN Branch(rep.day, rep.slot)
                                     ELSE "idle",
                        !.got = 0]
  /\ UNCHANGED <<net, perf, reset, reported, config, raises, tunes>>
  /\ OthersUnchanged

(* _send_report: the market and the day the branch is about.               *)
ReportMarket == IF rep.pc \in {"midnight", "midnightMark"} THEN "COIN" ELSE "KR"
ReportDay == IF ReportMarket = "COIN" THEN rep.day - 1 ELSE rep.day

(* _already_sent, and the report itself: perf:daily and the message.  A    *)
(* report of KR that raises is followed by the tuning, one of COIN ends    *)
(* the midnight branch, without the reset and the second sync.             *)
SendReport ==
  /\ rep.pc \in {"midnight", "report"}
  /\ LET m == ReportMarket
         d == ReportDay
         after == IF m = "COIN" THEN "reset" ELSE "idle"
     IN IF d \in reported[m]
        THEN /\ rep' = [rep EXCEPT !.pc = after]
             /\ UNCHANGED <<perf, raises>>
        ELSE \/ /\ perf' = [perf EXCEPT ![m] = @ \cup {d}]
                /\ rep' = [rep EXCEPT !.pc = IF m = "COIN" THEN "midnightMark"
                                             ELSE "reportMark"]
                /\ UNCHANGED raises
             \/ /\ "report" \in env.failing /\ raises < env.raises
                /\ raises' = raises + 1
                /\ rep' = [rep EXCEPT !.pc = IF m = "COIN" THEN "idle" ELSE "tune"]
                /\ UNCHANGED perf
  /\ UNCHANGED <<net, realized, reset, reported, config, tunes>>
  /\ OthersUnchanged

MarkSent ==
  /\ rep.pc \in {"midnightMark", "reportMark"}
  /\ reported' = [reported EXCEPT ![ReportMarket] = @ \cup {ReportDay}]
  /\ rep' = [rep EXCEPT !.pc = IF rep.pc = "reportMark" THEN "tune" ELSE "reset"]
  /\ UNCHANGED <<net, perf, realized, reset, config, raises, tunes>>
  /\ OthersUnchanged

(* Mutant: the report is marked as sent after the tuning.                  *)
X_AutoTune(win, drawdown) ==
  /\ rep.pc \in {"reportMark", "tune"}
  /\ tunes' = [tunes EXCEPT ![rep.day] = @ + 1]
  /\ rep' = IF rep.pc = "tune" THEN NoRun ELSE rep
  /\ UNCHANGED <<net, perf, realized, reset, reported, config, raises>>
  /\ OthersUnchanged

(* _auto_tune of KR, from the reports of the last five days.               *)
AutoTune(win, drawdown) ==
  /\ rep.pc = "tune"
  /\ tunes' = [tunes EXCEPT ![rep.day] = @ + 1]
  /\ LET known == perf["KR"] \cap (rep.day - 5 .. rep.day - 1)
         less == IF config.size - 5 > 10 THEN config.size - 5 ELSE 10
         stop == IF config.stop = 0 THEN 250 ELSE config.stop
         tighter == IF (95 * stop) \div 100 > 250 THEN (95 * stop) \div 100 ELSE 250
     IN config' =
          IF known = {} THEN config
          ELSE [size |-> IF win = "low" \/ drawdown THEN less ELSE config.size,
                stop |-> IF win = "high" THEN tighter ELSE config.stop]
  /\ rep' = NoRun
  /\ UNCHANGED <<net, perf, realized, reset, reported, raises>>
  /\ OthersUnchanged

(* _reset_daily_cap: COIN's in the midnight branch, KR's at 08:55.         *)
ResetMarket == IF rep.slot = 0 THEN "COIN" ELSE "KR"
AfterReset == IF rep.slot = 0 THEN "again" ELSE "idle"

ResetDailyCap ==
  /\ rep.pc = "reset"
  /\ reset' = [reset EXCEPT ![ResetMarket] = @ \cup {rep.day}]
  /\ rep' = [rep EXCEPT !.pc = IF rep.day \in reset[ResetMarket] THEN AfterReset
                               ELSE "zero"]
  /\ UNCHANGED <<net, perf, realized, reported, config, raises, tunes>>
  /\ OthersUnchanged

ZeroRealized ==
  /\ rep.pc = "zero"
  /\ realized' = [realized EXCEPT ![ResetMarket] = 0]
  /\ rep' = [rep EXCEPT !.pc = AfterReset]
  /\ UNCHANGED <<net, perf, reset, reported, config, raises, tunes>>
  /\ OthersUnchanged

-----------------------------------------------------------------------------
(* The risk engine, the generator, the operator and the bot.               *)

PauseUnchanged == UNCHANGED <<env, day, slot, books, book, mark, rep>>

(* Rule 0 of a signal of market m.                                         *)
Rule0(m) ==
  /\ m \in env.holds /\ risk.pc = "idle" /\ pause = "no"
  /\ risk' = [pc |-> "rule3", market |-> m, got |-> 0]
  /\ UNCHANGED <<pause, telegram, spent, history>> /\ PauseUnchanged

(* Rule 3: at the loss limit apply_killswitch sets the pause, NX and       *)
(* without a TTL.                                                          *)
Rule3 ==
  /\ risk.pc = "rule3"
  /\ IF realized[risk.market] <= env.limit /\ pause = "no"
     THEN pause' = "stays" /\ killed' = TRUE
     ELSE UNCHANGED <<pause, killed>>
  /\ risk' = Free
  /\ UNCHANGED <<telegram, spent, acted, tunes>> /\ PauseUnchanged

(* _set_auto_pause, NX and until midnight.                                 *)
AutoPause ==
  /\ env.autopause
  /\ pause = "no" /\ pause' = "midnight"
  /\ UNCHANGED <<telegram, risk, spent, history>> /\ PauseUnchanged

Send(kind) ==
  /\ sends < env.sends
  /\ sends' = sends + 1
  /\ mail' = Append(mail, [id |-> sends', kind |-> kind])
  /\ UNCHANGED <<pause, seen, bot, risk, fills, crashes, raises, history>>
  /\ PauseUnchanged

(* getUpdates: Telegram forgets the updates below the offset.              *)
GetUpdates ==
  /\ bot.batch = << >> /\ mail # << >>
  /\ mail' = SelectSeq(mail, LAMBDA u : u.id >= bot.offset)
  /\ bot' = [bot EXCEPT !.batch = mail']
  /\ UNCHANGED <<pause, seen, risk, spent, history>> /\ PauseUnchanged

(* Mutant: updates are not remembered.                                     *)
X_SeenUpdate ==
  /\ bot.batch # << >> /\ ~bot.doing
  /\ bot' = [bot EXCEPT !.offset = Head(bot.batch).id + 1, !.doing = TRUE]
  /\ UNCHANGED <<pause, seen, mail, risk, spent, history>> /\ PauseUnchanged

(* _seen_update: SET NX; an update that is known is skipped.               *)
SeenUpdate ==
  /\ bot.batch # << >> /\ ~bot.doing
  /\ LET u == Head(bot.batch) IN
     /\ seen' = seen \cup {u.id}
     /\ bot' = [offset |-> u.id + 1, doing |-> u.id \notin seen,
                batch |-> IF u.id \in seen THEN Tail(bot.batch) ELSE bot.batch]
  /\ UNCHANGED <<pause, mail, risk, spent, history>> /\ PauseUnchanged

(* handle_pause_on and handle_pause_off.                                   *)
Dispatch ==
  /\ bot.doing
  /\ LET u == Head(bot.batch) IN
     /\ pause' = IF u.kind = "on" THEN "midnight" ELSE "no"
     /\ acted' = acted \cup {u.id}
     /\ killed' = (killed /\ u.id \in acted)
  /\ bot' = [bot EXCEPT !.doing = FALSE, !.batch = Tail(bot.batch)]
  /\ UNCHANGED <<seen, mail, risk, spent, tunes>> /\ PauseUnchanged

-----------------------------------------------------------------------------
(* A kill loses what a process has in memory; supervisord starts it again. *)
CrashReport ==
  /\ crashes < env.crashes /\ rep.pc # "idle"
  /\ crashes' = crashes + 1 /\ rep' = NoRun
  /\ UNCHANGED <<env, day, slot, books, pause, telegram, book, mark, risk, fills,
                 sends, raises, history>>

CrashBot ==
  /\ crashes < env.crashes /\ bot # Fresh
  /\ crashes' = crashes + 1 /\ bot' = Fresh
  /\ UNCHANGED <<env, day, slot, books, pause, seen, mail, book, mark, rep, risk,
                 fills, sends, raises, history>>

(* A pause with a TTL ends at midnight.                                    *)
Tick ==
  /\ \/ slot < 4 /\ slot' = slot + 1 /\ UNCHANGED <<day, pause>>
     \/ /\ slot = 4 /\ day < LastDay
        /\ slot' = 0 /\ day' = day + 1
        /\ pause' = IF pause = "midnight" THEN "no" ELSE pause
  /\ UNCHANGED <<env, books, telegram, book, mark, rep, risk, spent, history>>

Booking(b) == ReadPnl(b) \/ WritePnl(b)
Updating == (\E m \in env.books : RecalcRead(m)) \/ RecalcWrite
Reporting ==
  \/ SyncCompute \/ SyncWrite \/ SendReport \/ MarkSent
  \/ \E win \in Result, drawdown \in BOOLEAN : AutoTune(win, drawdown)
  \/ ResetDailyCap \/ ZeroRealized

Next ==
  \/ \E b \in Booker, m \in env.books, pnl \in env.pnl,
         stamp \in {"today", "yesterday", "midnight"} : RecordTrade(b, m, stamp, pnl)
  \/ (\E b \in Booker : Booking(b)) \/ Updating \/ Reporting
  \/ \E m \in Market : Rule0(m)
  \/ Rule3 \/ AutoPause
  \/ \E kind \in env.commands : Send(kind)
  \/ GetUpdates \/ SeenUpdate \/ Dispatch
  \/ CrashReport \/ CrashBot \/ Tick

Spec == Init /\ [][Next]_vars

(* Every process goes on: position_engine and the watcher with the fill    *)
(* each took, the updater with its write, the report runner with its loop. *)
(* Nothing is assumed of fills, commands, the clock or kills.              *)
FairSpec ==
  /\ Spec
  /\ \A b \in Booker : WF_vars(Booking(b))
  /\ WF_vars(Updating) /\ WF_vars(Reporting)

-----------------------------------------------------------------------------
(* Properties.                                                             *)

(* COIN's realized_pnl, which the loss limit reads, is the sum of the      *)
(* sales of the day again and again, although position_engine and the      *)
(* watcher overwrite each other's sums, fills of yesterday are booked      *)
(* today, and the report runner overwrites both, may be killed anywhere,   *)
(* and its sync and its reports may raise now and then.                    *)
RealizedSettles == []<>(realized["COIN"] = net["COIN"][day])

(* What the killswitch paused stays paused until the operator gives a      *)
(* command: midnight does not end it, a pause of the generator does not    *)
(* shorten it, and a command that acted once does not act again after the  *)
(* bot was killed and Telegram delivers it a second time.                  *)
KillswitchHolds == killed => pause # "no"

(* KR's parameters are tuned once a day at most, also if the runner is     *)
(* killed on the way, as long as the report itself does not raise: the     *)
(* tuning follows the report in the branch "not yet sent", so that a       *)
(* report that raises every minute is tuned after every minute.            *)
TunedOnce == "report" \notin env.failing => \A d \in Day : tunes[d] <= 1
=============================================================================
