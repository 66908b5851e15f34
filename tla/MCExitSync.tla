------------------------------ MODULE MCExitSync ------------------------------
(* The environments TLC checks ExitSync in.                                *)
EXTENDS ExitSync

Env(market, orders, lot, weak) ==
  [market |-> market, orders |-> orders, lot |-> lot, crashes |-> 0, outages |-> 0,
   weak |-> weak]

\* KR, orders filled in pieces; a kill and a failing request.
Pieces == [Env("KR", 3, 2, {"partial", "sell_cancel"})
             EXCEPT !.crashes = 1, !.outages = 1]
\* KR, the engine a poll behind.
Slow == Env("KR", 3, 2, {"partial", "slow_engine"})
\* KR, exit_lock runs out while a SELL is open: two of them, two BUYs.
Reopened == Env("KR", 4, 1, {"lag", "lock_expiry", "sell_cancel"})
\* US, the engine a poll behind.
America == Env("US", 3, 1, {"lag", "sell_cancel", "slow_engine"})
\* US, the engine and the watcher keep up, the holdings lag.
Abroad == Env("US", 3, 1, {"lag", "pending_expiry", "sell_cancel"})
\* US, two failing requests in a row and one more; or a kill.
Outage == [Env("US", 3, 1, {}) EXCEPT !.outages = 3]
Killed == [Env("US", 3, 1, {}) EXCEPT !.crashes = 1]
\* KR, a BUY placed while another is open, a kill.
Doubled == [Env("KR", 3, 1, {"two_buys", "pending_expiry", "lag", "lost_reply"})
              EXCEPT !.crashes = 1]
\* KR, everything else at once, in small.
Small == [Env("KR", 3, 1, Weakness \ {"partial", "slow_engine", "two_buys"})
            EXCEPT !.crashes = 1, !.outages = 1]

AllEnvs == {Pieces, Slow, Reopened, America, Abroad, Outage, Killed, Doubled, Small}

TwiceEnvs == {Env("US", 2, 1, {})}
=============================================================================
