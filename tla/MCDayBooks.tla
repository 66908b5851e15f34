------------------------------ MODULE MCDayBooks ------------------------------
(* The environments TLC checks DayBooks in.                                *)
EXTENDS DayBooks

Quiet ==
  [books |-> {}, bookers |-> {"engine"}, pnl |-> {}, fills |-> 0, limit |-> -1, updater |-> FALSE,
   weekend |-> {}, holds |-> {}, commands |-> {}, sends |-> 0,
   autopause |-> FALSE, crashes |-> 0, failing |-> {}, raises |-> 0]

\* Two sales of position_engine beside the report runner, which is killed once;
\* a sale of it and one of the watcher; a sale, and syncs and reports that raise.
\* The days are a weekend: KR's report has nothing to do.
Coin == [Quiet EXCEPT !.books = {"COIN"}, !.pnl = {2}, !.weekend = {0, 1}]
Busy == [Coin EXCEPT !.fills = 2, !.crashes = 1]
Both == [Coin EXCEPT !.bookers = Booker, !.fills = 2]
Failing == [Coin EXCEPT !.fills = 1, !.failing = {"sync", "report"}, !.raises = 2]
\* A sale in KR beside the updater.
Prices == [Coin EXCEPT !.books = {"KR"}, !.fills = 1, !.updater = TRUE]
\* A loss at the limit, the operator and the generator.
Loss == [Quiet EXCEPT !.books = {"KR"}, !.pnl = {-1}, !.fills = 1,
           !.holds = {"KR"}, !.weekend = {1}, !.commands = {"on"},
           !.sends = 1, !.autopause = TRUE]
\* At the limit from the start: two commands, and the bot is killed.
Commands == [Quiet EXCEPT !.limit = 0, !.holds = {"KR"}, !.weekend = {0, 1},
               !.commands = {"on", "off"}, !.sends = 2, !.crashes = 1]
\* Reports and tuning, with kills; with a report that raises; with a sync that
\* raises and a kill; at a weekend.
Tuning == [Quiet EXCEPT !.crashes = 2]
Raising == [Quiet EXCEPT !.failing = {"report"}, !.raises = 2]
NoSync == [Quiet EXCEPT !.failing = {"sync"}, !.raises = 2, !.crashes = 1]
Weekend == [Quiet EXCEPT !.weekend = {0}, !.crashes = 1]

AllEnvs ==
  {Busy, Both, Failing, Prices, Loss, Commands, Tuning, Raising, NoSync, Weekend}
=============================================================================
