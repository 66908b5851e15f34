----------------------------- MODULE MCFillLedger -----------------------------
(* The fills and environments TLC checks FillLedger with.                  *)
EXTENDS FillLedger

F(r, t, s, d, q, pr, fee) ==
  [ref |-> r, tid |-> t, sym |-> s, side |-> d, qty |-> q, price |-> pr,
   fee |-> fee, ok |-> TRUE]

Buy   == F("executor", "t1", "A", "BUY", 2, 10, 0)
More  == F("executor", "t4", "A", "BUY", 1, 16, 0)
Part  == F("exit", "t2", "A", "SELL", 1, 12, 1)
Rest  == F("exit", "t3", "A", "SELL", 3, 9, 1)
Junk  == [F("executor", "t6", "A", "BUY", 1, 1, 0) EXCEPT !.ok = FALSE]
\* The watcher's fill of an order the exit runner has already reported.
Again == F("watcher", "t2", "A", "SELL", 1, 12, 0)

\* What the broker may report of a symbol.
Reports == {[qty |-> 3, avg |-> 11]}

Reported == {Buy, More, Part, Rest, Junk}
Watched == {Again}

Env(fills, orders) ==
  [fills |-> fills, orders |-> orders, marking |-> FALSE, mirror |-> {},
   faults |-> FALSE, crashes |-> 0, redrives |-> 0]

\* Undisturbed, the engine alone; four fills in every order, one redrive.
Sole == [Env({Buy, More, Part, Rest}, {}) EXCEPT !.redrives = 1]
\* Every command may fail; one fill does not parse.
Failing == [Env({Buy, Part, Junk}, {}) EXCEPT !.faults = TRUE, !.redrives = 1]
\* The engine alone, killed up to twice.
Killed == [Env({Buy, Part}, {}) EXCEPT !.crashes = 2]
\* Three processes, one trade delivered to two of them, and a kill.
Racing == [Env({Buy, Part}, {Again}) EXCEPT !.marking = TRUE, !.crashes = 1]
\* Two that book, commands that fail in both.
Watch == [Env({Buy}, {Again}) EXCEPT !.faults = TRUE]

\* The exit poll writes what the broker holds, and is killed, while a
\* purchase and a sale are booked and the updater recalculates.
Mirrored == [Env({Buy, Part}, {}) EXCEPT !.mirror = {"A"}, !.marking = TRUE,
                                         !.crashes = 1]

AllEnvs == {Sole, Failing, Killed, Racing, Watch, Mirrored}
FailingEnv == {Failing}
=============================================================================
